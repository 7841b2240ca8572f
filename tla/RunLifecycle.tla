---------------------------- MODULE RunLifecycle ----------------------------
(***************************************************************************)
(* The life of a Run row, from whoever asks for it to the hand-over to     *)
(* delivery.  Three processes share the metadata database and the Huey     *)
(* queue:                                                                  *)
(*                                                                         *)
(*   - the web server, which queues a row, runs it in a coroutine of its   *)
(*     own (web/actions.py) and can cancel a row;                          *)
(*   - the worker, a Huey consumer with a fixed number of threads, which   *)
(*     evaluates the cron gates and executes run, validate and deliver     *)
(*     tasks (scheduler/cron.py, scheduler/tasks.py);                      *)
(*   - the MCP server, which only puts run tasks on the queue.             *)
(*                                                                         *)
(* A database transaction is one action when nothing of another process    *)
(* that matters can happen between its read and its commit, and two        *)
(* actions (a read and a commit) when the code writes what it decided from *)
(* an earlier read: cancel_run, validate_run and the cron gate.            *)
(*                                                                         *)
(* Rows, the queue and what was delivered survive a crash; coroutines,     *)
(* worker threads and _LIVE do not.  A child is its own session, so it     *)
(* outlives the process that started it.                                   *)
(***************************************************************************)
EXTENDS Naturals, Sequences, FiniteSets

CONSTANTS
    Sources,        \* who asks for runs in this instance: "web", "mcp", "cron"
    Scraper,        \* the scrapers, all of them scheduled
    Worker,         \* the consumer's threads
    MaxConcurrent,  \* config.max_concurrent_runs
    MaxRuns,        \* bound: cron matches and requests for a run, each good for
                    \* at most one Run row
    MaxRequests,    \* bound: cancel and enable requests
    MaxFaults       \* bound: process crashes and failing transactions

ASSUME BoundsAssumption ==
    /\ Sources \subseteq {"web", "mcp", "cron"}
    /\ MaxConcurrent \in Nat
    /\ MaxRuns \in Nat
    /\ MaxRequests \in Nat
    /\ MaxFaults \in Nat

VARIABLES
    enabled,    \* Scraper.enabled
    row,        \* the run table: primary key -> row, or Absent
    queue,      \* the Huey queue, first in first out
    job,        \* what each worker thread is doing
    web,        \* the coroutine the web server dispatched for a run
    child,      \* the run's subprocess
    cancels,    \* runs whose cancel request has signalled and not yet committed
    delivered,  \* how often deliver_run was called for a run
    lost,       \* history: runs whose run_scraper_now died before its outcome
    asked, requests, faults  \* how much of the bounds is used

vars == <<enabled, row, queue, job, web, child, cancels, delivered, lost,
          asked, requests, faults>>
bounds == <<asked, requests, faults>>

RunId == 1..MaxRuns

(***************************************************************************)
(* The status vocabulary and the sets the code compares it with.           *)
(***************************************************************************)
RunStatus == {"queued", "running", "passed", "validation_failed", "error",
              "blocked", "cancelled"}
ActiveStatuses == {"queued", "running"}
Terminal == RunStatus \ ActiveStatuses
UnjudgeableWithoutError == {"blocked", "cancelled"}  \* a mutation, see below
UNJUDGEABLE == {"error", "blocked", "cancelled"}

\* report: whether validator_report is set.
Row == [scraper : Scraper, status : RunStatus, report : BOOLEAN]
Absent == [status |-> "absent"]
Exists(r) == row[r] # Absent
Rows == {r \in RunId : Exists(r)}

\* A task on the queue names its function and its argument.  A worker thread
\* holds the task it took, and then the point its function has reached.
Task == ({"fire", "run"} \X Scraper) \cup ({"validate", "deliver"} \X RunId)
Idle == <<"idle", 0>>
Judgement == {"pass", "fail", "same"}
RunOps == {"child", "recorded", "validate", "validated", "deliver"} \cup Judgement
Job == ({"fire", "enqueue", "run"} \X Scraper) \cup (RunOps \X RunId) \cup {Idle}

WebPoint == {"none", "dispatched", "child", "recorded"}
ChildState == {"none", "alive", "told", "dead"}

-----------------------------------------------------------------------------
(***************************************************************************)
(* Helpers.                                                                *)
(***************************************************************************)
\* The next primary key.
Fresh(r) == /\ ~Exists(r)
            /\ \A q \in RunId : q < r => Exists(q)

NewRowPending(s, st) ==  \* a mutation, see below
    [scraper |-> s, status |-> IF st = "queued" THEN "pending" ELSE st, report |-> FALSE]
NewRow(s, st) == [scraper |-> s, status |-> st, report |-> FALSE]

SetStatus(r, st) == row' = [row EXCEPT ![r] = [@ EXCEPT !.status = st]]

\* cron.active_run_count, for one scraper and for all.
ActiveRuns == {r \in Rows : row[r].status \in ActiveStatuses}
ActiveRunsOf(s) == {r \in ActiveRuns : row[r].scraper = s}

\* cron.should_fire, without the budget gate.
ShouldFire(s) == /\ enabled[s]
                 /\ ActiveRunsOf(s) = {}
                 /\ Cardinality(ActiveRuns) < MaxConcurrent

\* create_subprocess_exec: the child starts, or the spawn error becomes its
\* outcome.
Spawn(r) == \E c \in {"alive", "dead"} : child' = [child EXCEPT ![r] = c]

\* What apply_result and _store_runner_verdict write for a child that has ended:
\* a status and whether a report came with it (the runner sends one with every run it
\* judged).  "told" is a child of which the parent can tell a status: by its outcome
\* line; by its exit code, if that line was dropped by the pump, or if code of the
\* script ended the process; or, if a signal killed it, by the last line it wrote,
\* which may say `blocked`.  "dead" is one that was never spawned, wrote no line, was
\* killed by the hard timeout, or by a signal with nothing told: an error, though its
\* outcome line, and a report in it, may have been out before the kill.  (Runner has
\* the exit code and the lines.)  Naming "cancelled" is open to any child, and the one
\* of this repository does not do it.
Outcome(r) ==
    IF child[r] = "told"
      THEN ({"passed", "validation_failed"} \X BOOLEAN)
             \cup ({"blocked", "error", "cancelled"} \X {FALSE})
      ELSE {"error"} \X BOOLEAN

Recorded(old, o) == [old EXCEPT !.status = o[1], !.report = o[2]]

\* pipeline.persist_report on a judgeable row.
Judged(old, op) ==
    CASE op = "pass" -> [old EXCEPT !.status = "passed", !.report = TRUE]
      [] op = "fail" -> [old EXCEPT !.status = "validation_failed", !.report = TRUE]
      [] op = "same" -> [old EXCEPT !.report = TRUE]

-----------------------------------------------------------------------------
Init ==
    /\ enabled \in [Scraper -> BOOLEAN]
    /\ row = [r \in RunId |-> Absent]
    /\ queue = <<>>
    /\ job = [w \in Worker |-> Idle]
    /\ web = [r \in RunId |-> "none"]
    /\ child = [r \in RunId |-> "none"]
    /\ cancels = {}
    /\ delivered = [r \in RunId |-> 0]
    /\ lost = {}
    /\ asked = 0 /\ requests = 0 /\ faults = 0

-----------------------------------------------------------------------------
(***************************************************************************)
(* Mutations.  Each is an action, or above a helper, of this module with a *)
(* bug the code could plausibly have; put in place of the definition it is *)
(* named after it breaks the property PROJECT.json names beside it.  No    *)
(* specification uses them.                                                *)
(***************************************************************************)
\* The hand-over is written before the outcome transaction instead of after it.
FollowUpEarly(w) == \E r \in RunId :
    /\ job[w] \in {<<"child", r>>, <<"recorded", r>>}
    /\ queue' = Append(queue, <<"validate", r>>)
    /\ job' = [job EXCEPT ![w] = Idle]
    /\ UNCHANGED <<enabled, row, web, child, cancels, delivered, lost, bounds>>

\* A child without a verdict returns from apply_result before the status is set.
RecordOutcomeSilent(w) == \E r \in RunId :
    /\ job[w] = <<"child", r>> /\ child[r] \in {"told", "dead"}
    /\ \E o \in Outcome(r) :
         row' = IF child[r] = "dead" THEN row ELSE [row EXCEPT ![r] = Recorded(@, o)]
    /\ job' = [job EXCEPT ![w] = Idle]
    /\ UNCHANGED <<enabled, queue, web, child, cancels, delivered, lost, bounds>>

\* A run whose report came from the runner goes to delivery directly.
RecordOutcomeShortcut(w) == \E r \in RunId :
    /\ job[w] = <<"child", r>> /\ child[r] \in {"told", "dead"}
    /\ \E o \in Outcome(r) :
         /\ row' = [row EXCEPT ![r] = Recorded(@, o)]
         /\ job' = [job EXCEPT ![w] = <<IF o[2] THEN "validated" ELSE "recorded", r>>]
    /\ UNCHANGED <<enabled, queue, web, child, cancels, delivered, lost, bounds>>

\* The gate waits for its turn where the code skips the tick.
FireGateWaits(w) == \E s \in Scraper :
    /\ job[w] = <<"fire", s>> /\ ShouldFire(s)
    /\ job' = [job EXCEPT ![w] = <<"enqueue", s>>]
    /\ UNCHANGED <<enabled, row, queue, web, child, cancels, delivered, lost, bounds>>

\* Delivery is queued for passed runs only.
HandOverPassed(w) == \E r \in RunId :
    /\ job[w] = <<"validated", r>>
    /\ queue' = IF row[r].status = "passed" THEN Append(queue, <<"deliver", r>>) ELSE queue
    /\ job' = [job EXCEPT ![w] = Idle]
    /\ UNCHANGED <<enabled, row, web, child, cancels, delivered, lost, bounds>>

-----------------------------------------------------------------------------
(***************************************************************************)
(* The web server.                                                         *)
(***************************************************************************)
\* (the bounds of this model: who asks for a run, and how often)
Request == requests < MaxRequests /\ requests' = requests + 1
AskForRun(source) == source \in Sources /\ asked < MaxRuns /\ asked' = asked + 1

\* actions.set_enabled
SetEnabled(s) ==
    /\ Request
    /\ enabled' = [enabled EXCEPT ![s] = ~@]
    /\ UNCHANGED <<row, queue, job, web, child, cancels, delivered, lost, asked, faults>>

\* actions.enqueue_run: commit a queued row, then hand it to a coroutine.
EnqueueRun(s) == \E r \in RunId :
    /\ AskForRun("web") /\ Fresh(r)
    /\ row' = [row EXCEPT ![r] = NewRow(s, "queued")]
    /\ web' = [web EXCEPT ![r] = "dispatched"]
    /\ UNCHANGED <<enabled, queue, job, child, cancels, delivered, lost, requests, faults>>

\* actions.rerun: a queued row for an existing run, and no hand-off.
Rerun(old) == \E r \in RunId :
    /\ AskForRun("web") /\ Exists(old) /\ Fresh(r)
    /\ row' = [row EXCEPT ![r] = NewRow(row[old].scraper, "queued")]
    /\ UNCHANGED <<enabled, queue, job, web, child, cancels, delivered, lost, requests, faults>>

\* actions.cancel_run up to the end of tasks.cancel: the request has loaded the
\* row and killed the child if it is one of this process (which may have ended by
\* itself before the signal).  (Setting a loaded "cancelled" again writes
\* nothing, so such a request is left out.)
CancelSignal(r) ==
    /\ Exists(r) /\ row[r].status # "cancelled" /\ r \notin cancels
    /\ Request
    /\ cancels' = cancels \cup {r}
    /\ IF web[r] = "child" /\ child[r] = "alive"
         THEN \E c \in {"told", "dead"} : child' = [child EXCEPT ![r] = c]
         ELSE UNCHANGED child
    /\ UNCHANGED <<enabled, row, queue, job, web, delivered, lost, asked, faults>>

\* actions.cancel_run, the rest: whatever the status is by now, it becomes
\* "cancelled".
CancelCommit(r) ==
    /\ r \in cancels
    /\ cancels' = cancels \ {r}
    /\ SetStatus(r, "cancelled")
    /\ UNCHANGED <<enabled, queue, job, web, child, delivered, lost, bounds>>

\* run_scraper_now with adopt_run_id: the first transaction and the spawn.
AdoptRun(r) ==
    /\ web[r] = "dispatched"
    /\ SetStatus(r, "running")
    /\ Spawn(r)
    /\ web' = [web EXCEPT ![r] = "child"]
    /\ UNCHANGED <<enabled, queue, job, cancels, delivered, lost, bounds>>

\* run_scraper_now, the second transaction, in the web server's coroutine.
RecordOutcomeWeb(r) ==
    /\ web[r] = "child" /\ child[r] \in {"told", "dead"}
    /\ \E o \in Outcome(r) :
         /\ row' = [row EXCEPT ![r] = Recorded(@, o)]
         /\ web' = [web EXCEPT ![r] = IF o[1] = "cancelled" THEN "none" ELSE "recorded"]
    /\ UNCHANGED <<enabled, queue, job, child, cancels, delivered, lost, bounds>>

\* The follow-up of run_scraper_now: _enqueue(validate_run, run_id).
FollowUpWeb(r) ==
    /\ web[r] = "recorded"
    /\ queue' = Append(queue, <<"validate", r>>)
    /\ web' = [web EXCEPT ![r] = "none"]
    /\ UNCHANGED <<enabled, row, job, child, cancels, delivered, lost, bounds>>

\* The coroutine's exception path: the open transaction rolls back, and
\* actions._mark_failed closes the row if it is still active.  (A follow-up that
\* cannot be enqueued is logged and dropped, by a row that is closed already.)
FailWeb(r) ==
    /\ web[r] \in {"dispatched", "recorded"} \/ (web[r] = "child" /\ child[r] # "alive")
    /\ faults < MaxFaults /\ faults' = faults + 1
    /\ web' = [web EXCEPT ![r] = "none"]
    /\ IF row[r].status \in ActiveStatuses THEN SetStatus(r, "error") ELSE UNCHANGED row
    /\ UNCHANGED <<enabled, queue, job, child, cancels, delivered, lost, asked, requests>>

\* The web server dies: its coroutines and its open requests are gone.
CrashWeb ==
    /\ faults < MaxFaults /\ faults' = faults + 1
    /\ web' = [r \in RunId |-> "none"]
    /\ lost' = lost \cup {r \in RunId : web[r] \in {"dispatched", "child"}}
    /\ cancels' = {}
    /\ UNCHANGED <<enabled, row, queue, job, child, delivered, asked, requests>>

-----------------------------------------------------------------------------
(***************************************************************************)
(* The MCP server: run_scraper gates on enabled, then enqueues.            *)
(***************************************************************************)
McpRun(s) ==
    /\ AskForRun("mcp") /\ enabled[s]
    /\ queue' = Append(queue, <<"run", s>>)
    /\ UNCHANGED <<enabled, row, job, web, child, cancels, delivered, lost, requests, faults>>

-----------------------------------------------------------------------------
(***************************************************************************)
(* The worker.  Huey's scheduler thread enqueues a periodic task whenever  *)
(* its cron expression matches, whatever the threads are busy with.  The   *)
(* set of registered expressions lags behind the enabled flags by a reload *)
(* of the schedule, so a match may come for any scraper; the gate decides. *)
(***************************************************************************)
CronMatch(s) ==
    /\ AskForRun("cron")
    /\ queue' = Append(queue, <<"fire", s>>)
    /\ UNCHANGED <<enabled, row, job, web, child, cancels, delivered, lost, requests, faults>>

\* An idle thread takes the oldest task off the queue, for good (retries=0).
Dequeue(w) ==
    /\ job[w] = Idle /\ queue # <<>>
    /\ job' = [job EXCEPT ![w] = Head(queue)]
    /\ queue' = Tail(queue)
    /\ UNCHANGED <<enabled, row, web, child, cancels, delivered, lost, bounds>>

\* cron.fire: the gates, read in one session ...
FireGate(w) == \E s \in Scraper :
    /\ job[w] = <<"fire", s>>
    /\ job' = [job EXCEPT ![w] = IF ShouldFire(s) THEN <<"enqueue", s>> ELSE Idle]
    /\ UNCHANGED <<enabled, row, queue, web, child, cancels, delivered, lost, bounds>>

\* ... and then the run task.  The row does not exist yet.
FireEnqueue(w) == \E s \in Scraper :
    /\ job[w] = <<"enqueue", s>>
    /\ queue' = Append(queue, <<"run", s>>)
    /\ job' = [job EXCEPT ![w] = Idle]
    /\ UNCHANGED <<enabled, row, web, child, cancels, delivered, lost, bounds>>

\* tasks.run_scraper: run_scraper_now creates the row, already running.
BeginRun(w) == \E s \in Scraper, r \in RunId :
    /\ job[w] = <<"run", s>> /\ Fresh(r)
    /\ row' = [row EXCEPT ![r] = NewRow(s, "running")]
    /\ Spawn(r)
    /\ job' = [job EXCEPT ![w] = <<"child", r>>]
    /\ UNCHANGED <<enabled, queue, web, cancels, delivered, lost, bounds>>

\* The child ends, by itself, by the hard timeout or by another signal.
ChildEnds(r) ==
    /\ child[r] = "alive"
    /\ \E c \in {"told", "dead"} : child' = [child EXCEPT ![r] = c]
    /\ UNCHANGED <<enabled, row, queue, job, web, cancels, delivered, lost, bounds>>

\* run_scraper_now, the second transaction, in a worker thread.
RecordOutcome(w) == \E r \in RunId :
    /\ job[w] = <<"child", r>> /\ child[r] \in {"told", "dead"}
    /\ \E o \in Outcome(r) :
         /\ row' = [row EXCEPT ![r] = Recorded(@, o)]
         /\ job' = [job EXCEPT ![w] = IF o[1] = "cancelled" THEN Idle ELSE <<"recorded", r>>]
    /\ UNCHANGED <<enabled, queue, web, child, cancels, delivered, lost, bounds>>

FollowUp(w) == \E r \in RunId :
    /\ job[w] = <<"recorded", r>>
    /\ queue' = Append(queue, <<"validate", r>>)
    /\ job' = [job EXCEPT ![w] = Idle]
    /\ UNCHANGED <<enabled, row, web, child, cancels, delivered, lost, bounds>>

\* tasks.validate_run up to the verdict: an unjudgeable status, a stored
\* report, a script that cannot be loaded or a validator that raises leave the
\* row alone.  A verdict that agrees with the status read is "same": the session
\* then writes the report and not the status.
ValidateRead(w) == \E r \in RunId :
    /\ job[w] = <<"validate", r>>
    /\ \E op \in IF row[r].status \in UNJUDGEABLE \/ row[r].report THEN {"validated"}
                  ELSE IF row[r].status = "passed" THEN {"same", "fail", "validated"}
                  ELSE IF row[r].status = "validation_failed" THEN {"same", "pass", "validated"}
                  ELSE {"pass", "fail", "validated"} :
         job' = [job EXCEPT ![w] = <<op, r>>]
    /\ UNCHANGED <<enabled, row, queue, web, child, cancels, delivered, lost, bounds>>

\* pipeline.persist_report commits what was decided from the row as it was
\* read.
ValidateCommit(w) == \E r \in RunId :
    /\ job[w] \in Judgement \X {r}
    /\ row' = [row EXCEPT ![r] = Judged(@, job[w][1])]
    /\ job' = [job EXCEPT ![w] = <<"validated", r>>]
    /\ UNCHANGED <<enabled, queue, web, child, cancels, delivered, lost, bounds>>

\* tasks.validate_run hands the run to delivery whatever the verdict was.
HandToDelivery(w) == \E r \in RunId :
    /\ job[w] = <<"validated", r>>
    /\ queue' = Append(queue, <<"deliver", r>>)
    /\ job' = [job EXCEPT ![w] = Idle]
    /\ UNCHANGED <<enabled, row, web, child, cancels, delivered, lost, bounds>>

\* tasks.deliver; what deliver_run does with the run is module Delivery.
Deliver(w) == \E r \in RunId :
    /\ job[w] = <<"deliver", r>>
    /\ delivered' = [delivered EXCEPT ![r] = @ + 1]
    /\ job' = [job EXCEPT ![w] = Idle]
    /\ UNCHANGED <<enabled, row, queue, web, child, cancels, lost, bounds>>

\* A task raises, its open transaction rolled back: the thread logs it and goes
\* on.  Nothing closes the row of a run whose second transaction failed.
TaskFails(w) ==
    /\ job[w] # Idle
    /\ \A r \in RunId : job[w] = <<"child", r>> => child[r] # "alive"
    /\ faults < MaxFaults /\ faults' = faults + 1
    /\ job' = [job EXCEPT ![w] = Idle]
    /\ lost' = lost \cup {r \in RunId : job[w] = <<"child", r>>}
    /\ UNCHANGED <<enabled, row, queue, web, child, cancels, delivered, asked, requests>>

\* The worker process dies; the queue is on disk.
CrashWorker ==
    /\ faults < MaxFaults /\ faults' = faults + 1
    /\ job' = [w \in Worker |-> Idle]
    /\ lost' = lost \cup {r \in RunId : \E w \in Worker : job[w] = <<"child", r>>}
    /\ UNCHANGED <<enabled, row, queue, web, child, cancels, delivered, asked, requests>>

-----------------------------------------------------------------------------
WorkerStep(w) ==
    \/ Dequeue(w) \/ FireGate(w) \/ FireEnqueue(w) \/ BeginRun(w)
    \/ RecordOutcome(w) \/ FollowUp(w)
    \/ ValidateRead(w) \/ ValidateCommit(w) \/ HandToDelivery(w) \/ Deliver(w)

WebStep(r) == AdoptRun(r) \/ RecordOutcomeWeb(r) \/ FollowUpWeb(r) \/ CancelCommit(r)

Next ==
    \/ \E s \in Scraper : SetEnabled(s) \/ EnqueueRun(s) \/ McpRun(s) \/ CronMatch(s)
    \/ \E r \in RunId : Rerun(r) \/ CancelSignal(r) \/ WebStep(r) \/ ChildEnds(r) \/ FailWeb(r)
    \/ \E w \in Worker : WorkerStep(w) \/ TaskFails(w)
    \/ CrashWeb \/ CrashWorker

Spec == Init /\ [][Next]_vars

\* Threads and coroutines are scheduled, a request that was started goes on, and
\* the hard timeout ends every child.  Users, cron and faults owe nothing.
Fairness ==
    /\ \A w \in Worker : WF_vars(WorkerStep(w))
    /\ \A r \in RunId : WF_vars(WebStep(r)) /\ WF_vars(ChildEnds(r))

FairSpec == Spec /\ Fairness

-----------------------------------------------------------------------------
(***************************************************************************)
(* Where a run stands on its way to delivery, read off who holds it.       *)
(***************************************************************************)
Queued(op, r) == \E i \in DOMAIN queue : queue[i] = <<op, r>>
Held(ops, r) == \E w \in Worker : job[w] \in ops \X {r}

Executing(r) == web[r] = "child" \/ Held({"child"}, r)
Judging(r) ==
    web[r] = "recorded" \/ Queued("validate", r) \/ Held({"recorded", "validate"} \cup Judgement, r)
Delivering(r) == Queued("deliver", r) \/ Held({"validated", "deliver"}, r)

Phase(r) ==
    CASE ~Exists(r) -> "absent"
      [] web[r] = "dispatched" -> "asked"
      [] Executing(r) -> "executing"
      [] Judging(r) -> "recorded"
      [] Delivering(r) -> "judged"
      [] delivered[r] > 0 -> "delivered"
      [] OTHER -> "dropped"

\* The abstract pipeline this module implements (see PipelineOnce).
Pipeline == INSTANCE RunPipeline WITH Run <- RunId, phase <- [r \in RunId |-> Phase(r)]

-----------------------------------------------------------------------------
TypeOK ==
    /\ enabled \in [Scraper -> BOOLEAN]
    /\ row \in [RunId -> Row \cup {Absent}]
    /\ queue \in Seq(Task)
    /\ job \in [Worker -> Job]
    /\ web \in [RunId -> WebPoint]
    /\ child \in [RunId -> ChildState]
    /\ cancels \subseteq Rows
    /\ delivered \in [RunId -> Nat]
    /\ lost \subseteq Rows
    /\ asked \in 0..MaxRuns /\ requests \in 0..MaxRequests /\ faults \in 0..MaxFaults

\* Nobody judges or delivers a run that is still queued or running: by the time a
\* validate or deliver task for it exists, on the queue or in a thread, the row
\* has an outcome, whatever cancel requests and crashes did in between.
OutcomeBeforeFollowUp ==
    \A r \in RunId : Judging(r) \/ Delivering(r) \/ delivered[r] > 0
                     => Exists(r) /\ row[r].status \in Terminal

\* A run is delivered at most once: the hand-over through the queue never doubles,
\* with any number of threads and processes (huey retries=0, one _enqueue each).
DeliveredAtMostOnce == \A r \in RunId : delivered[r] <= 1

\* A row that says "running" has a process behind it, unless the process that
\* executed it died or failed to record the outcome.
RunningIsOwned ==
    \A r \in RunId : row[r].status = "running" => Executing(r) \/ r \in lost

\* A blocked or errored run stays so, or is marked cancelled: no verdict on its
\* rows ever replaces the more useful answer (pipeline.UNJUDGEABLE).
UnjudgeableKept ==
    [][\A r \in RunId : row[r].status \in {"blocked", "error"}
                         => row'[r].status \in {row[r].status, "cancelled"}]_vars

\* Every run passes the stages of RunPipeline in order and each at most once.
PipelineOnce == Pipeline!Spec

\* What the web server dispatched is delivered in the end, unless it is cancelled, and
\* so is every run whose outcome is recorded, whatever the outcome and the verdict.
DispatchedIsDelivered ==
    \A r \in RunId :
        /\ web[r] = "dispatched" ~> delivered[r] > 0 \/ row[r].status = "cancelled"
        /\ Phase(r) = "recorded" ~> delivered[r] > 0

\* The pool never wedges: the queue is worked off and the threads come to rest.
PoolComesToRest == <>[](queue = <<>> /\ \A w \in Worker : job[w] = Idle)

-----------------------------------------------------------------------------
(***************************************************************************)
(* What the documentation says and the code does not keep.                 *)
(***************************************************************************)
\* web/actions.py:78-80, "Without the hand-off the row would sit in `queued`
\* forever, which is what it used to do": a queued row is taken up.
QueuedIsTakenUp ==
    \A r \in RunId : row[r].status = "queued" ~> row[r].status # "queued"
=============================================================================
