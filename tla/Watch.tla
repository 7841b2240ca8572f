------------------------------- MODULE Watch --------------------------------
(***************************************************************************)
(* Those who ask for a run and watch it: the log stream of the web UI      *)
(* (web/routes/runs.py) and the run_scraper tool of the MCP server         *)
(* (mcp/server.py).  Both only see rows and files: the row of a run is     *)
(* created by the worker when it takes the task up, and its log is written *)
(* by the child (runner/runlog.py) and by the parent, which pumps the      *)
(* child's output into the same file (scheduler/tasks.py).                 *)
(*                                                                         *)
(* The runs are those of one scraper.  What becomes of them after their    *)
(* outcome is module RunLifecycle.                                         *)
(***************************************************************************)
EXTENDS Naturals, Sequences, SequencesExt

CONSTANTS
    Streams,   \* log streams of the web UI
    Callers,   \* calls of run_scraper over MCP
    MaxRuns,   \* bound: runs
    MaxLines   \* bound: lines a child logs

VARIABLES
    row,     \* the run table, in the order of created_at
    queue,   \* the run_scraper tasks in the queue: whose they are
    log,     \* log.txt of each run: numbers of lines
    piped,   \* how many lines the child has written; how many the parent has pumped
    stream,  \* the log streams
    caller,  \* the calls
    crowded  \* history: calls during which somebody else's run was created

watch == <<row, queue, log, piped, stream, caller, crowded>>
runTables == <<row, queue, log, piped>>

Other == "other"
Live == {"queued", "running"}
Terminal == {"passed", "validation_failed", "error", "blocked", "cancelled"}

\* path: log_path was set when the stream was opened.
Stream == [run : 0..MaxRuns, path : BOOLEAN, shown : Seq(1..MaxLines),
           pos : Nat, at : {"closed", "read", "status", "done", "gone"}]
Closed == [run |-> 0, path |-> FALSE, shown |-> <<>>, pos |-> 0, at |-> "closed"]
Caller == [known : 0..MaxRuns, run : 0..MaxRuns, answer : Terminal \cup Live \cup {"none"},
           waits : BOOLEAN, at : {"idle", "enqueue", "appear", "wait", "answered"}]
Idle == [known |-> 0, run |-> 0, answer |-> "none", waits |-> FALSE, at |-> "idle"]

-----------------------------------------------------------------------------
WatchInit ==
    /\ row = <<>> /\ queue = <<>> /\ log = <<>> /\ piped = <<>>
    /\ stream = [v \in Streams |-> Closed]
    /\ caller = [c \in Callers |-> Idle]
    /\ crowded = {}

\* A row is added; a call that has not found its run yet is crowded by it.
AddRow(status, by) ==
    /\ Len(row) < MaxRuns
    /\ row' = Append(row, [status |-> status, by |-> by,
                           child |-> IF status = "queued" THEN "due" ELSE "on"])
    /\ log' = Append(log, <<>>)
    /\ piped' = Append(piped, [out |-> 0, pumped |-> 0])
    /\ crowded' = crowded \cup {c \in Callers \ {by} : caller[c].at \in {"enqueue", "appear"}}

\* The web UI queues a run and hands it over, or cron's task begins one.
OthersRun == \E status \in Live :
    AddRow(status, Other) /\ UNCHANGED <<queue, stream, caller>>

\* run_scraper_now takes a row up that was handed over, whatever its status has become:
\* it sets log_path and starts the child ...
Adopt(r) ==
    /\ row[r].child = "due"
    /\ row' = [row EXCEPT ![r].status = "running", ![r].child = "on"]
    /\ UNCHANGED <<queue, log, piped, stream, caller, crowded>>

\* ... or the worker takes up a task, whose row begins as running.
TakeUp ==
    /\ queue # <<>> /\ Len(row) < MaxRuns
    /\ AddRow("running", Head(queue))
    /\ queue' = Tail(queue)
    /\ UNCHANGED <<stream, caller>>

\* RunLogger.emit in the child: a line to standard output, and one to the file.
Emit(r) ==
    /\ row[r].child = "on" /\ piped[r].out < MaxLines
    /\ piped' = [piped EXCEPT ![r].out = @ + 1]
    /\ log' = [log EXCEPT ![r] = Append(@, piped[r].out + 1)]
    /\ UNCHANGED <<row, queue, stream, caller, crowded>>

\* _pump in the parent: the line once more, into the file of that name.
Pump(r) ==
    /\ row[r].child = "on" /\ piped[r].pumped < piped[r].out
    /\ piped' = [piped EXCEPT ![r].pumped = @ + 1]
    /\ log' = [log EXCEPT ![r] = Append(@, piped[r].pumped + 1)]
    /\ UNCHANGED <<row, queue, stream, caller, crowded>>

\* execute_subprocess returns when the output is drained, or cannot be within seconds,
\* and the outcome is recorded, on a row that was cancelled in the meantime too.
Record(r) ==
    /\ row[r].child = "on"
    /\ \E status \in Terminal \ {"cancelled"} :
          row' = [row EXCEPT ![r].status = status, ![r].child = "over"]
    /\ UNCHANGED <<queue, log, piped, stream, caller, crowded>>

\* cancel_run: the row, whatever it says.  (Whether the child is killed first matters
\* to nobody here: it is recorded like any other.)
CancelRow(r) ==
    /\ row[r].status # "cancelled"
    /\ row' = [row EXCEPT ![r].status = "cancelled"]
    /\ UNCHANGED <<queue, log, piped, stream, caller, crowded>>

-----------------------------------------------------------------------------
(***************************************************************************)
(* log_stream: read what is new, look at the row, end or sleep.            *)
(***************************************************************************)
Open(v, r) ==
    /\ stream[v].at = "closed"
    /\ stream' = [stream EXCEPT ![v] = [Closed EXCEPT !.run = r, !.at = "read",
                                                       !.path = row[r].child # "due"]]
    /\ UNCHANGED <<runTables, caller, crowded>>

\* A mutation: the end of what was read is not remembered.
ReadAgain(s) == [s EXCEPT !.shown = @ \o SubSeq(log[s.run], s.pos + 1, Len(log[s.run])),
                          !.at = "status"]

\* seek, read, tell.
ReadFrom(s) == [s EXCEPT !.shown = @ \o SubSeq(log[s.run], s.pos + 1, Len(log[s.run])),
                         !.pos = Len(log[s.run]), !.at = "status"]

ReadLog(v) ==
    /\ stream[v].at = "read"
    /\ stream' = [stream EXCEPT ![v] = IF @.path THEN ReadFrom(@) ELSE [@ EXCEPT !.at = "status"]]
    /\ UNCHANGED <<runTables, caller, crowded>>

LookAtRow(v) ==
    /\ stream[v].at = "status"
    /\ stream' = [stream EXCEPT ![v].at = IF row[stream[v].run].status \in Live THEN "read" ELSE "done"]
    /\ UNCHANGED <<runTables, caller, crowded>>

Disconnect(v) ==
    /\ stream[v].at = "read"
    /\ stream' = [stream EXCEPT ![v].at = "gone"]
    /\ UNCHANGED <<runTables, caller, crowded>>

-----------------------------------------------------------------------------
(***************************************************************************)
(* run_scraper over MCP.                                                   *)
(***************************************************************************)
\* The newest run is known before the task is enqueued ...
Call(c) == \E waits \in BOOLEAN :
    /\ caller[c].at = "idle"
    /\ caller' = [caller EXCEPT ![c] = [Idle EXCEPT !.known = Len(row), !.waits = waits, !.at = "enqueue"]]
    /\ UNCHANGED <<runTables, stream, crowded>>

\* ... which may fail: enqueue answers None then, and the call goes on all the same.
Enqueue(c) ==
    /\ caller[c].at = "enqueue"
    /\ caller' = [caller EXCEPT ![c].at = "appear"]
    /\ queue' \in {queue, Append(queue, c)}
    /\ UNCHANGED <<row, log, piped, stream, crowded>>

\* _await_new_run: the newest run of the scraper, once it is newer than the known one.
AnyRun(c) == Len(row) > 0  \* a mutation
NewRun(c) == Len(row) > caller[c].known

Found(c) ==
    /\ caller[c].at = "appear" /\ NewRun(c)
    /\ caller' = [caller EXCEPT ![c].run = Len(row), ![c].answer = row[Len(row)].status,
                                ![c].at = IF caller[c].waits THEN "wait" ELSE "answered"]
    /\ UNCHANGED <<runTables, stream, crowded>>

\* _await_run: until the row is terminal.
Ended(c) ==
    /\ caller[c].at = "wait" /\ row[caller[c].run].status \in Terminal
    /\ caller' = [caller EXCEPT ![c].at = "answered", ![c].answer = row[caller[c].run].status]
    /\ UNCHANGED <<runTables, stream, crowded>>

\* Either deadline passes: the answer is the status of then, if there is a run.
GivesUp(c) ==
    /\ caller[c].at \in {"appear", "wait"}
    /\ caller' = [caller EXCEPT ![c].at = "answered",
                    ![c].answer = IF caller[c].run = 0 THEN "queued" ELSE row[caller[c].run].status]
    /\ UNCHANGED <<runTables, stream, crowded>>

WatchNext ==
    \/ OthersRun \/ TakeUp
    \/ \E r \in DOMAIN row : Adopt(r) \/ Emit(r) \/ Pump(r) \/ Record(r) \/ CancelRow(r)
    \/ \E v \in Streams : ReadLog(v) \/ LookAtRow(v) \/ Disconnect(v) \/ \E r \in DOMAIN row : Open(v, r)
    \/ \E c \in Callers : Call(c) \/ Enqueue(c) \/ Found(c) \/ Ended(c) \/ GivesUp(c)

WatchSpec == WatchInit /\ [][WatchNext]_watch

-----------------------------------------------------------------------------
WatchTypeOK ==
    /\ row \in Seq([status : Live \cup Terminal, by : Callers \cup {Other}, child : {"due", "on", "over"}])
    /\ queue \in Seq(Callers) /\ crowded \subseteq Callers
    /\ log \in Seq(Seq(1..MaxLines)) /\ piped \in Seq([out : 0..MaxLines, pumped : 0..MaxLines])
    /\ stream \in [Streams -> Stream] /\ caller \in [Callers -> Caller]

\* A stream shows the log from its first line on, in the order of the file, with
\* nothing skipped and nothing shown again, however reads, writes of two processes
\* and the end of the run fall; and it ends on a terminal row only.
ShownIsPrefix ==
    \A v \in Streams : stream[v].at # "closed" =>
        /\ IsPrefix(stream[v].shown, log[stream[v].run])
        /\ Len(stream[v].shown) = stream[v].pos

\* The run a call answers with is the one it asked for, unless another run of that
\* scraper was created between the call and its answer.  A known run is never it.
OwnRunIfAlone ==
    \A c \in Callers : caller[c].run > 0 =>
        /\ caller[c].run > caller[c].known
        /\ c \notin crowded => row[caller[c].run].by = c

(***************************************************************************)
(* What the documentation says and the code does not keep.                 *)
(***************************************************************************)
\* runner/artifacts.py:4, "one JSON object per line, the same stream as stdout": no
\* line of a run is in its log twice.
LogIsTheStream == \A r \in DOMAIN row : IsInjective(log[r])

\* web/routes/runs.py:153, "Tail the run's log file": a stream that saw the run end
\* and read its log to the end has shown it.
StreamsShowTheLog ==
    \A v \in Streams : stream[v].at = "done" /\ row[stream[v].run].child = "over" => stream[v].shown = log[stream[v].run]
=============================================================================
