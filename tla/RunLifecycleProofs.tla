------------------------- MODULE RunLifecycleProofs -------------------------
(***************************************************************************)
(* Proofs about RunLifecycle, for every value of its constants.            *)
(*                                                                         *)
(* The argument is one of custody: at any moment at most one party holds a *)
(* run - a coroutine, one thread, or one follow-up task on the queue - and *)
(* a delivered run is held by nobody.  The outcome of a run can then only  *)
(* be disturbed by a cancel request, which leaves it an outcome.           *)
(***************************************************************************)
EXTENDS RunLifecycle, TLAPS

\* Thread w works on run r; queue[i] is a follow-up task of run r.
Works(w, r) == job[w][1] \in RunOps /\ job[w][2] = r
Follows(i, r) == queue[i][1] \in {"validate", "deliver"} /\ queue[i][2] = r

OneFollowUp ==
    \A r \in RunId : \A i, k \in DOMAIN queue : Follows(i, r) /\ Follows(k, r) => i = k

OneThread ==
    \A r \in RunId : \A w, v \in Worker : Works(w, r) /\ Works(v, r) => w = v

ThreadOrQueue ==
    \A r \in RunId : \A i \in DOMAIN queue : \A w \in Worker : ~(Follows(i, r) /\ Works(w, r))

\* Nobody but a coroutine, or nobody at all, holds the run.
FreeOfWorker(r) ==
    /\ \A i \in DOMAIN queue : ~Follows(i, r)
    /\ \A w \in Worker : ~Works(w, r)

CoroutineAlone == \A r \in RunId : web[r] # "none" => FreeOfWorker(r)

DoneIsFree ==
    \A r \in RunId : /\ delivered[r] <= 1
                     /\ delivered[r] > 0 => web[r] = "none" /\ FreeOfWorker(r)

AbsentIsFree ==
    \A r \in RunId : ~Exists(r) => web[r] = "none" /\ FreeOfWorker(r) /\ delivered[r] = 0

Custody ==
    /\ OneFollowUp
    /\ OneThread
    /\ ThreadOrQueue
    /\ CoroutineAlone
    /\ DoneIsFree
    /\ AbsentIsFree

\* What the row says while somebody holds the run, and after.
StatusOfCoroutine ==
    \A r \in RunId :
        /\ web[r] = "dispatched" => row[r].status \in {"queued", "cancelled"}
        /\ web[r] = "child" => row[r].status \in {"running", "cancelled"}
        /\ web[r] = "recorded" => row[r].status \in Terminal

ThreadFits(r, w) ==
    Works(w, r) =>
        /\ job[w][1] = "child" => row[r].status \in {"running", "cancelled"}
        /\ job[w][1] # "child" => row[r].status \in Terminal
        /\ job[w][1] \in Judgement => row[r].status \notin {"blocked", "error"}

StatusOfThread == \A r \in RunId : \A w \in Worker : ThreadFits(r, w)

StatusAfter ==
    \A r \in RunId :
        /\ \A i \in DOMAIN queue : Follows(i, r) => row[r].status \in Terminal
        /\ delivered[r] > 0 => row[r].status \in Terminal

RunningHeld ==
    \A r \in RunId : row[r].status = "running"
        => \/ web[r] = "child"
           \/ \E w \in Worker : Works(w, r) /\ job[w][1] = "child"
           \/ r \in lost

RowFits ==
    /\ StatusOfCoroutine
    /\ StatusOfThread
    /\ StatusAfter
    /\ RunningHeld

IInv == TypeOK /\ Custody /\ RowFits

-----------------------------------------------------------------------------
(***************************************************************************)
(* Lemmas.                                                                 *)
(***************************************************************************)
\* A row is absent or a proper row, and its status tells which.
LEMMA RowKinds ==
    ASSUME TypeOK, NEW r \in RunId
    PROVE  /\ Exists(r) <=> row[r] \in Row
           /\ ~Exists(r) => row[r].status = "absent"
           /\ Exists(r) => row[r].status \in RunStatus
  BY DEF TypeOK, Exists, Row, Absent, RunStatus

LEMMA Appended ==
    ASSUME NEW S, NEW q \in Seq(S), NEW t \in S
    PROVE  /\ Append(q, t) \in Seq(S)
           /\ DOMAIN Append(q, t) = DOMAIN q \cup {Len(q) + 1}
           /\ Len(q) + 1 \notin DOMAIN q
           /\ \A i \in DOMAIN q : Append(q, t)[i] = q[i]
           /\ Append(q, t)[Len(q) + 1] = t
  OBVIOUS

LEMMA Taken ==
    ASSUME NEW S, NEW q \in Seq(S), q # <<>>
    PROVE  /\ Tail(q) \in Seq(S)
           /\ Head(q) \in S
           /\ 1 \in DOMAIN q /\ Head(q) = q[1]
           /\ \A i \in DOMAIN Tail(q) : /\ i \in Nat /\ i + 1 # 1
                                         /\ i + 1 \in DOMAIN q
                                         /\ Tail(q)[i] = q[i + 1]
  OBVIOUS

-----------------------------------------------------------------------------
(***************************************************************************)
(* The invariant holds initially and every action keeps it.                *)
(***************************************************************************)
LEMMA InitIInv == Init => IInv
<1> SUFFICES ASSUME Init PROVE IInv
  OBVIOUS
<1> USE BoundsAssumption DEF Init
<1>1. TypeOK
  BY DEF TypeOK, Job, Task, WebPoint, ChildState, Rows
<1>2. \A r \in RunId : FreeOfWorker(r) /\ ~Exists(r)
  BY DEF FreeOfWorker, Follows, Works, Idle, RunOps, Judgement, Exists
<1>3. Custody
  BY <1>2 DEF Custody, OneFollowUp, OneThread, ThreadOrQueue, CoroutineAlone, DoneIsFree,
              AbsentIsFree, FreeOfWorker
<1>4. RowFits
  BY <1>2 DEF RowFits, StatusOfCoroutine, StatusOfThread, ThreadFits, StatusAfter, RunningHeld,
              FreeOfWorker, Absent, Idle, RunOps, Judgement
<1>5. QED
  BY <1>1, <1>3, <1>4 DEF IInv

\* A step that takes nothing new in hand keeps custody.
LEMMA HoldingLess ==
    ASSUME Custody,
           queue' = queue, delivered' = delivered,
           \A r \in RunId : /\ Exists(r) => Exists(r)'
                            /\ web'[r] # "none" => web[r] # "none"
                            /\ \A w \in Worker : Works(w, r)' => Works(w, r)
    PROVE  Custody'
<1>1. \A r \in RunId : \A i \in DOMAIN queue : Follows(i, r)' <=> Follows(i, r)
  BY DEF Follows
<1>2. \A r \in RunId : FreeOfWorker(r) => FreeOfWorker(r)'
  BY <1>1 DEF FreeOfWorker
<1>3. OneFollowUp' /\ OneThread' /\ ThreadOrQueue'
  BY <1>1 DEF Custody, OneFollowUp, OneThread, ThreadOrQueue
<1>4. CoroutineAlone' /\ DoneIsFree' /\ AbsentIsFree'
  BY <1>2 DEF Custody, CoroutineAlone, DoneIsFree, AbsentIsFree
<1>5. QED
  BY <1>3, <1>4 DEF Custody

\* A task that is no follow-up changes no custody.
LEMMA AppendingRequest ==
    ASSUME TypeOK, Custody, NEW t \in {"fire", "run"} \X Scraper,
           queue' = Append(queue, t), delivered' = delivered, row' = row, web' = web,
           \A r \in RunId : \A w \in Worker : Works(w, r)' => Works(w, r)
    PROVE  /\ Custody'
           /\ \A r \in RunId : \A i \in DOMAIN queue' :
                 Follows(i, r)' => i \in DOMAIN queue /\ Follows(i, r)
<1>0. queue \in Seq(Task) /\ t \in Task
  BY DEF TypeOK, Task
<1>1. \A r \in RunId : \A i \in DOMAIN queue' :
         Follows(i, r)' => i \in DOMAIN queue /\ Follows(i, r)
  BY <1>0, Appended DEF Follows
<1>2. \A r \in RunId : FreeOfWorker(r) => FreeOfWorker(r)'
  BY <1>1 DEF FreeOfWorker
<1>3. OneFollowUp' /\ OneThread' /\ ThreadOrQueue'
  BY <1>1 DEF Custody, OneFollowUp, OneThread, ThreadOrQueue
<1>4. CoroutineAlone' /\ DoneIsFree' /\ AbsentIsFree'
  BY <1>2 DEF Custody, CoroutineAlone, DoneIsFree, AbsentIsFree, Exists
<1>5. QED
  BY <1>1, <1>3, <1>4 DEF Custody

\* A follow-up task takes over a run that its holder lets go in the same step.
LEMMA AppendingFollowUp ==
    ASSUME TypeOK, Custody, NEW r \in RunId, NEW op \in {"validate", "deliver"},
           queue' = Append(queue, <<op, r>>), delivered' = delivered, row' = row,
           web[r] # "none" \/ (\E w \in Worker : Works(w, r)),
           web'[r] = "none",
           \A w \in Worker : ~Works(w, r)',
           \A q \in RunId : web'[q] # "none" => web[q] # "none",
           \A q \in RunId : \A w \in Worker : Works(w, q)' => Works(w, q)
    PROVE  /\ Custody'
           /\ \A q \in RunId : \A i \in DOMAIN queue' :
                 Follows(i, q)' => q = r \/ (i \in DOMAIN queue /\ Follows(i, q))
<1>0. queue \in Seq(Task) /\ <<op, r>> \in Task
  BY DEF TypeOK, Task
<1>a. /\ DOMAIN queue' = DOMAIN queue \cup {Len(queue) + 1}
      /\ Len(queue) + 1 \notin DOMAIN queue
      /\ \A i \in DOMAIN queue : queue'[i] = queue[i]
      /\ queue'[Len(queue) + 1][1] = op /\ queue'[Len(queue) + 1][2] = r
  <2> DEFINE t == <<op, r>>
  <2>1. t \in Task /\ queue' = Append(queue, t) /\ t[1] = op /\ t[2] = r
    BY <1>0
  <2> HIDE DEF t
  <2>2. QED
    BY <1>0, <2>1, Appended
<1>1. \A q \in RunId : \A i \in DOMAIN queue' :
         Follows(i, q)' => \/ i \in DOMAIN queue /\ Follows(i, q)
                           \/ q = r /\ i = Len(queue) + 1
  BY <1>a DEF Follows
<1>2. /\ \A i \in DOMAIN queue : ~Follows(i, r)
      /\ delivered[r] = 0 /\ Exists(r)
  BY DEF Custody, ThreadOrQueue, CoroutineAlone, DoneIsFree, AbsentIsFree, FreeOfWorker, TypeOK
<1>3. \A q \in RunId \ {r} : FreeOfWorker(q) => FreeOfWorker(q)'
  BY <1>1 DEF FreeOfWorker
<1>4. OneFollowUp' /\ OneThread' /\ ThreadOrQueue'
  BY <1>1, <1>2 DEF Custody, OneFollowUp, OneThread, ThreadOrQueue
<1>5. CoroutineAlone' /\ DoneIsFree' /\ AbsentIsFree'
  BY <1>2, <1>3 DEF Custody, CoroutineAlone, DoneIsFree, AbsentIsFree, Exists
<1>6. QED
  BY <1>1, <1>4, <1>5 DEF Custody

LEMMA KeepsEnabled == ASSUME IInv, NEW s \in Scraper, SetEnabled(s) PROVE IInv'
<1> USE BoundsAssumption DEF SetEnabled, Request
<1>1. TypeOK'
  BY DEF IInv, TypeOK, Rows, Exists
<1>2. Custody'
  BY DEF IInv, Custody, OneFollowUp, OneThread, ThreadOrQueue, CoroutineAlone, DoneIsFree,
         AbsentIsFree, FreeOfWorker, Follows, Works, Exists
<1>3. RowFits'
  BY DEF IInv, RowFits, StatusOfCoroutine, StatusOfThread, ThreadFits, StatusAfter, RunningHeld, Follows, Works
<1>4. QED
  BY <1>1, <1>2, <1>3 DEF IInv

LEMMA KeepsDequeue == ASSUME IInv, NEW w \in Worker, Dequeue(w) PROVE IInv'
<1> USE BoundsAssumption DEF Dequeue
<1>0. queue \in Seq(Task)
  BY DEF IInv, TypeOK
<1>a. queue' \in Seq(Task) /\ job'[w] \in Task
  BY <1>0, Taken DEF IInv, TypeOK
<1>1. TypeOK'
  BY <1>a DEF IInv, TypeOK, Rows, Exists, Job, Task, RunOps, bounds
<1>b. /\ 1 \in DOMAIN queue /\ job'[w] = queue[1]
      /\ \A i \in DOMAIN queue' : /\ i \in Nat /\ i + 1 # 1 /\ i + 1 \in DOMAIN queue
                                  /\ queue'[i] = queue[i + 1]
  BY <1>0, Taken DEF IInv, TypeOK
<1>c. \A r \in RunId : \A v \in Worker :
         Works(v, r)' => \/ v # w /\ Works(v, r)
                         \/ v = w /\ Follows(1, r) /\ job'[w][1] \in {"validate", "deliver"}
  <2>1. job'[w][1] \in RunOps => job'[w][1] \in {"validate", "deliver"}
    BY <1>a DEF Task, RunOps, Judgement
  <2>2. QED
    BY <1>b, <2>1 DEF IInv, TypeOK, Works, Follows
<1>d. \A r \in RunId : \A i \in DOMAIN queue' : Follows(i, r)' => Follows(i + 1, r)
  BY <1>b DEF Follows
<1>2. Custody'
  <2>1. OneFollowUp'
    BY <1>b, <1>d DEF IInv, Custody, OneFollowUp
  <2>2. OneThread'
    BY <1>b, <1>c DEF IInv, Custody, OneThread, ThreadOrQueue
  <2>3. ThreadOrQueue'
    BY <1>b, <1>c, <1>d DEF IInv, Custody, ThreadOrQueue, OneFollowUp
  <2>4. \A r \in RunId : FreeOfWorker(r) => FreeOfWorker(r)'
    BY <1>b, <1>c, <1>d DEF FreeOfWorker
  <2>5. QED
    BY <2>1, <2>2, <2>3, <2>4 DEF IInv, Custody, CoroutineAlone, DoneIsFree, AbsentIsFree, Exists
<1>3. RowFits'
  <2>1. StatusOfCoroutine' /\ RunningHeld'
    BY DEF IInv, TypeOK, RowFits, StatusOfCoroutine, RunningHeld, Idle, Works
  <2>2. StatusOfThread'
    <3> SUFFICES ASSUME NEW r \in RunId, NEW v \in Worker
                 PROVE  ThreadFits(r, v)'
      BY DEF StatusOfThread
    <3>1. CASE v # w
      BY <3>1 DEF IInv, TypeOK, RowFits, StatusOfThread, ThreadFits, Works
    <3>2. CASE v = w
      BY <3>2, <1>b, <1>c DEF IInv, RowFits, StatusAfter, ThreadFits, Judgement
    <3>3. QED
      BY <3>1, <3>2
  <2>3. StatusAfter'
    BY <1>b, <1>d DEF IInv, RowFits, StatusAfter
  <2>4. QED
    BY <2>1, <2>2, <2>3 DEF RowFits
<1>4. QED
  BY <1>1, <1>2, <1>3 DEF IInv

\* What a write to the run table leaves as it was.
LEMMA RowWritten ==
    ASSUME TypeOK, NEW r \in RunId, NEW x \in Row, row' = [row EXCEPT ![r] = x]
    PROVE  /\ row' \in [RunId -> Row \cup {Absent}]
           /\ \A q \in RunId : Exists(q) => Exists(q)'
           /\ Exists(r)' /\ Rows \subseteq Rows'
           /\ row'[r] = x /\ \A q \in RunId : q # r => row'[q] = row[q]
<1>1. row' \in [RunId -> Row \cup {Absent}]
  BY DEF TypeOK
<1>2. row'[r] = x /\ \A q \in RunId : q # r => row'[q] = row[q]
  BY DEF TypeOK
<1>3. x # Absent
  BY DEF Row, RunStatus, Absent
<1>4. QED
  BY <1>1, <1>2, <1>3 DEF Exists, Rows

\* A run somebody holds has a row.
LEMMA HeldExists ==
    ASSUME Custody, NEW r \in RunId,
           web[r] # "none" \/ (\E w \in Worker : Works(w, r))
    PROVE  Exists(r)
  BY DEF Custody, AbsentIsFree, FreeOfWorker

\* The rows apply_result, persist_report and a plain status change produce.
LEMMA RowValues ==
    ASSUME NEW x \in Row
    PROVE  /\ \A st \in RunStatus : /\ [x EXCEPT !.status = st] \in Row
                                    /\ [x EXCEPT !.status = st].status = st
           /\ \A r \in RunId : \A o \in Outcome(r) :
                 Recorded(x, o) \in Row /\ Recorded(x, o).status \in Terminal
           /\ \A op \in Judgement :
                 /\ Judged(x, op) \in Row
                 /\ x.status \in Terminal => Judged(x, op).status \in Terminal
                 /\ x.status \in Terminal \ {"blocked", "error"}
                      => Judged(x, op).status \notin {"blocked", "error"}
<1>1. \A st \in RunStatus : [x EXCEPT !.status = st] \in Row /\ [x EXCEPT !.status = st].status = st
  BY DEF Row
<1>2. \A r \in RunId : \A o \in Outcome(r) : o[1] \in Terminal /\ o[2] \in BOOLEAN
  BY DEF Outcome, Terminal, RunStatus, ActiveStatuses
<1>3. \A r \in RunId : \A o \in Outcome(r) :
         Recorded(x, o) \in Row /\ Recorded(x, o).status \in Terminal
  BY <1>2 DEF Recorded, Row, Terminal
<1>4. ASSUME NEW op \in Judgement
      PROVE  /\ Judged(x, op) \in Row
             /\ x.status \in Terminal => Judged(x, op).status \in Terminal
             /\ x.status \in Terminal \ {"blocked", "error"}
                  => Judged(x, op).status \notin {"blocked", "error"}
  <2>1. CASE op = "pass"
    BY <2>1 DEF Judged, Row, Terminal, RunStatus, ActiveStatuses
  <2>2. CASE op = "fail"
    BY <2>2 DEF Judged, Row, Terminal, RunStatus, ActiveStatuses
  <2>3. CASE op = "same"
    BY <2>3 DEF Judged, Row
  <2>4. QED
    BY <2>1, <2>2, <2>3 DEF Judgement
<1>5. QED
  BY <1>1, <1>3, <1>4

\* NewRow makes a row.
LEMMA NewRows ==
    ASSUME NEW s \in Scraper, NEW st \in RunStatus
    PROVE  NewRow(s, st) \in Row /\ NewRow(s, st).status = st
  BY DEF NewRow, Row

\* The requests of the web server.
LEMMA KeepsEnqueueRun == ASSUME IInv, NEW s \in Scraper, EnqueueRun(s) PROVE IInv'
<1> PICK r \in RunId : EnqueueRun(s)!(r)
  BY DEF EnqueueRun
<1> USE BoundsAssumption DEF AskForRun
<1>a. NewRow(s, "queued") \in Row /\ NewRow(s, "queued").status = "queued"
  BY NewRows DEF RunStatus
<1>b. /\ row' \in [RunId -> Row \cup {Absent}]
      /\ \A q \in RunId : Exists(q) => Exists(q)'
      /\ Exists(r)' /\ Rows \subseteq Rows'
      /\ row'[r].status = "queued" /\ \A q \in RunId : q # r => row'[q] = row[q]
  BY <1>a, RowWritten DEF IInv
<1>c. web[r] = "none" /\ FreeOfWorker(r) /\ delivered[r] = 0
  BY DEF IInv, Custody, AbsentIsFree, Fresh
<1>d. web' = [web EXCEPT ![r] = "dispatched"] /\ queue' = queue /\ job' = job /\ delivered' = delivered
  OBVIOUS
<1>1. TypeOK'
  BY <1>b DEF IInv, TypeOK, WebPoint
<1>2. Custody'
  <2>1. \A q \in RunId : FreeOfWorker(q)' <=> FreeOfWorker(q)
    BY <1>d DEF FreeOfWorker, Follows, Works
  <2>2. OneFollowUp' /\ OneThread' /\ ThreadOrQueue'
    BY <1>d DEF IInv, Custody, OneFollowUp, OneThread, ThreadOrQueue, Follows, Works
  <2>3. CoroutineAlone' /\ DoneIsFree' /\ AbsentIsFree'
    BY <2>1, <1>b, <1>c, <1>d DEF IInv, TypeOK, Custody, CoroutineAlone, DoneIsFree, AbsentIsFree
  <2>4. QED
    BY <2>2, <2>3 DEF Custody
<1>3. RowFits'
  BY <1>b, <1>c, <1>d DEF IInv, TypeOK, FreeOfWorker, RowFits, StatusOfCoroutine, StatusOfThread, ThreadFits, StatusAfter, RunningHeld, Works, Follows
<1>9. QED
  BY <1>1, <1>2, <1>3 DEF IInv

LEMMA KeepsRerun == ASSUME IInv, NEW old \in RunId, Rerun(old) PROVE IInv'
<1> PICK r \in RunId : Rerun(old)!(r)
  BY DEF Rerun
<1> USE BoundsAssumption DEF AskForRun
<1>a. NewRow(row[old].scraper, "queued") \in Row /\ NewRow(row[old].scraper, "queued").status = "queued"
  BY NewRows, RowKinds DEF RunStatus, IInv, Row
<1>b. /\ row' \in [RunId -> Row \cup {Absent}]
      /\ \A q \in RunId : Exists(q) => Exists(q)'
      /\ Rows \subseteq Rows'
      /\ row'[r].status = "queued" /\ \A q \in RunId : q # r => row'[q] = row[q]
  BY <1>a, RowWritten DEF IInv
<1>c. web[r] = "none" /\ FreeOfWorker(r) /\ delivered[r] = 0
  BY DEF IInv, Custody, AbsentIsFree, Fresh
<1>1. TypeOK'
  BY <1>b DEF IInv, TypeOK
<1>2. Custody'
  BY <1>b, HoldingLess DEF IInv, Works
<1>3. RowFits'
  BY <1>b, <1>c DEF IInv, FreeOfWorker, RowFits, StatusOfCoroutine, StatusOfThread, ThreadFits, StatusAfter, RunningHeld, Works, Follows
<1>9. QED
  BY <1>1, <1>2, <1>3 DEF IInv

LEMMA KeepsCancelSignal == ASSUME IInv, NEW r \in RunId, CancelSignal(r) PROVE IInv'
<1> USE BoundsAssumption DEF CancelSignal, Request
<1>a. child' \in [RunId -> ChildState]
  <2>1. CASE child' = child
    BY <2>1 DEF IInv, TypeOK
  <2>2. CASE \E c \in {"told", "dead"} : child' = [child EXCEPT ![r] = c]
    BY <2>2 DEF IInv, TypeOK, ChildState
  <2>3. QED
    BY <2>1, <2>2
<1>b. Rows' = Rows /\ cancels' \subseteq Rows /\ lost \subseteq Rows
  BY DEF IInv, TypeOK, Rows, Exists
<1>1. TypeOK'
  BY <1>a, <1>b DEF IInv, TypeOK
<1>2. Custody'
  BY HoldingLess DEF IInv, Exists, Works
<1>3. RowFits'
  BY DEF IInv, RowFits, StatusOfCoroutine, StatusOfThread, ThreadFits, StatusAfter, RunningHeld, Works, Follows
<1>9. QED
  BY <1>1, <1>2, <1>3 DEF IInv

LEMMA KeepsCancelCommit == ASSUME IInv, NEW r \in RunId, CancelCommit(r) PROVE IInv'
<1> USE BoundsAssumption DEF CancelCommit
<1>a. row[r] \in Row
  BY RowKinds DEF IInv, TypeOK, Rows
<1>b. /\ row' \in [RunId -> Row \cup {Absent}]
      /\ \A q \in RunId : Exists(q) => Exists(q)'
      /\ Rows \subseteq Rows'
      /\ row'[r].status = "cancelled" /\ \A q \in RunId : q # r => row'[q] = row[q]
  BY <1>a, RowWritten, RowValues DEF IInv, SetStatus, RunStatus
<1>1. TypeOK'
  BY <1>b DEF IInv, TypeOK, bounds
<1>2. Custody'
  BY <1>b, HoldingLess DEF IInv, Works
<1>3. RowFits'
  BY <1>b DEF IInv, RowFits, StatusOfCoroutine, StatusOfThread, ThreadFits, StatusAfter, RunningHeld, Works, Follows, Terminal, RunStatus, ActiveStatuses
<1>9. QED
  BY <1>1, <1>2, <1>3 DEF IInv

LEMMA KeepsAdoptRun == ASSUME IInv, NEW r \in RunId, AdoptRun(r) PROVE IInv'
<1> USE BoundsAssumption DEF AdoptRun
<1>a. row[r] \in Row
  BY HeldExists, RowKinds DEF IInv
<1>b. /\ row' \in [RunId -> Row \cup {Absent}]
      /\ \A q \in RunId : Exists(q) => Exists(q)'
      /\ Rows \subseteq Rows'
      /\ row'[r].status = "running" /\ \A q \in RunId : q # r => row'[q] = row[q]
  BY <1>a, RowWritten, RowValues DEF IInv, SetStatus, RunStatus
<1>c. FreeOfWorker(r) /\ delivered[r] = 0
  BY DEF IInv, TypeOK, Custody, CoroutineAlone, DoneIsFree
<1>1. TypeOK'
  BY <1>b DEF IInv, TypeOK, bounds, WebPoint, Spawn, ChildState
<1>2. Custody'
  BY <1>b, HoldingLess DEF IInv, TypeOK, Works
<1>3. RowFits'
  <2>1. StatusOfCoroutine'
    BY <1>b, <1>c DEF IInv, TypeOK, RowFits, StatusOfCoroutine, Terminal, ActiveStatuses
  <2>2. StatusOfThread'
    BY <1>b, <1>c DEF IInv, RowFits, StatusOfThread, ThreadFits, FreeOfWorker, Works
  <2>3. StatusAfter'
    BY <1>b, <1>c DEF IInv, RowFits, StatusAfter, FreeOfWorker, Follows
  <2>4. RunningHeld'
    BY <1>b, <1>c DEF IInv, TypeOK, RowFits, RunningHeld, Works, Terminal, ActiveStatuses
  <2>5. QED
    BY <2>1, <2>2, <2>3, <2>4 DEF RowFits
<1>9. QED
  BY <1>1, <1>2, <1>3 DEF IInv

LEMMA KeepsRecordOutcomeWeb == ASSUME IInv, NEW r \in RunId, RecordOutcomeWeb(r) PROVE IInv'
<1> USE BoundsAssumption DEF RecordOutcomeWeb
<1>a. row[r] \in Row
  BY HeldExists, RowKinds DEF IInv
<1>b. /\ row' \in [RunId -> Row \cup {Absent}]
      /\ \A q \in RunId : Exists(q) => Exists(q)'
      /\ Rows \subseteq Rows'
      /\ row'[r].status \in Terminal /\ \A q \in RunId : q # r => row'[q] = row[q]
  <2>1. PICK o \in Outcome(r) : row' = [row EXCEPT ![r] = Recorded(@, o)]
    OBVIOUS
  <2>2. Recorded(row[r], o) \in Row /\ Recorded(row[r], o).status \in Terminal
    BY <1>a, RowValues
  <2>3. QED
    BY <2>1, <2>2, RowWritten DEF IInv
<1>c. FreeOfWorker(r) /\ delivered[r] = 0
  BY DEF IInv, TypeOK, Custody, CoroutineAlone, DoneIsFree
<1>d. \E p \in {"none", "recorded"} : web' = [web EXCEPT ![r] = p]
  OBVIOUS
<1>1. TypeOK'
  BY <1>b, <1>d DEF IInv, TypeOK, bounds, WebPoint
<1>2. Custody'
  BY <1>b, <1>d, HoldingLess DEF IInv, TypeOK, Works
<1>3. RowFits'
  <2>1. StatusOfCoroutine'
    BY <1>b, <1>c, <1>d DEF IInv, TypeOK, RowFits, StatusOfCoroutine, Terminal, ActiveStatuses
  <2>2. StatusOfThread'
    BY <1>b, <1>c DEF IInv, RowFits, StatusOfThread, ThreadFits, FreeOfWorker, Works
  <2>3. StatusAfter'
    BY <1>b, <1>c DEF IInv, RowFits, StatusAfter, FreeOfWorker, Follows
  <2>4. RunningHeld'
    BY <1>b, <1>c, <1>d DEF IInv, TypeOK, RowFits, RunningHeld, Works, Terminal, ActiveStatuses
  <2>5. QED
    BY <2>1, <2>2, <2>3, <2>4 DEF RowFits
<1>9. QED
  BY <1>1, <1>2, <1>3 DEF IInv

LEMMA KeepsFollowUpWeb == ASSUME IInv, NEW r \in RunId, FollowUpWeb(r) PROVE IInv'
<1> USE BoundsAssumption DEF FollowUpWeb
<1>a. \A w \in Worker : ~Works(w, r)'
  BY DEF IInv, Custody, CoroutineAlone, FreeOfWorker, Works
<1>1. TypeOK'
  BY Appended DEF IInv, TypeOK, Rows, Exists, bounds, Task, WebPoint
<1>2. /\ Custody'
      /\ \A q \in RunId : \A i \in DOMAIN queue' :
            Follows(i, q)' => q = r \/ (i \in DOMAIN queue /\ Follows(i, q))
  <2>1. \A q \in RunId : web'[q] # "none" => web[q] # "none"
    BY DEF IInv, TypeOK
  <2>2. web'[r] = "none"
    BY DEF IInv, TypeOK
  <2>3. \A q \in RunId : \A w \in Worker : Works(w, q)' => Works(w, q)
    BY DEF Works
  <2>4. QED
    BY <1>a, <2>1, <2>2, <2>3, AppendingFollowUp DEF IInv
<1>3. RowFits'
  <2>1. row[r].status \in Terminal
    BY DEF IInv, RowFits, StatusOfCoroutine
  <2>2. StatusAfter'
    BY <1>2, <2>1 DEF IInv, RowFits, StatusAfter
  <2>3. StatusOfCoroutine' /\ StatusOfThread' /\ RunningHeld'
    BY <2>1 DEF IInv, TypeOK, RowFits, StatusOfCoroutine, StatusOfThread, ThreadFits, StatusAfter, RunningHeld, Works, Terminal, ActiveStatuses
  <2>4. QED
    BY <2>2, <2>3 DEF RowFits
<1>9. QED
  BY <1>1, <1>2, <1>3 DEF IInv

LEMMA KeepsFailWeb == ASSUME IInv, NEW r \in RunId, FailWeb(r) PROVE IInv'
<1> USE BoundsAssumption DEF FailWeb
<1>h. web[r] # "none"
  OBVIOUS
<1>a. row[r] \in Row
  BY <1>h, HeldExists, RowKinds DEF IInv
<1>b. /\ row' \in [RunId -> Row \cup {Absent}]
      /\ \A q \in RunId : Exists(q) => Exists(q)'
      /\ Rows \subseteq Rows'
      /\ row'[r].status \in Terminal /\ \A q \in RunId : q # r => row'[q] = row[q]
  <2>1. CASE row[r].status \in ActiveStatuses
    <3>1. [row[r] EXCEPT !.status = "error"] \in Row /\ [row[r] EXCEPT !.status = "error"].status \in Terminal
      BY <1>a, RowValues DEF RunStatus, Terminal, ActiveStatuses
    <3>2. row' = [row EXCEPT ![r] = [row[r] EXCEPT !.status = "error"]]
      BY <2>1 DEF SetStatus
    <3>3. QED
      BY <3>1, <3>2, RowWritten DEF IInv
  <2>2. CASE row[r].status \notin ActiveStatuses
    BY <2>2, <1>a, RowKinds DEF IInv, TypeOK, Terminal, Exists, Rows
  <2>3. QED
    BY <2>1, <2>2
<1>c. FreeOfWorker(r) /\ delivered[r] = 0
  BY <1>h DEF IInv, TypeOK, Custody, CoroutineAlone, DoneIsFree
<1>1. TypeOK'
  <2>1. web' \in [RunId -> WebPoint] /\ faults' \in 0..MaxFaults
    BY DEF IInv, TypeOK, WebPoint
  <2>2. cancels' \subseteq Rows' /\ lost' \subseteq Rows'
    BY <1>b DEF IInv, TypeOK
  <2>3. QED
    BY <1>b, <2>1, <2>2 DEF IInv, TypeOK
<1>2. Custody'
  BY <1>b, HoldingLess DEF IInv, TypeOK, Works
<1>3. RowFits'
  <2>1. StatusOfCoroutine'
    BY <1>b, <1>c DEF IInv, TypeOK, RowFits, StatusOfCoroutine, Terminal, ActiveStatuses
  <2>2. StatusOfThread'
    BY <1>b, <1>c DEF IInv, RowFits, StatusOfThread, ThreadFits, FreeOfWorker, Works
  <2>3. StatusAfter'
    BY <1>b, <1>c DEF IInv, RowFits, StatusAfter, FreeOfWorker, Follows
  <2>4. RunningHeld'
    BY <1>b, <1>c DEF IInv, TypeOK, RowFits, RunningHeld, Works, Terminal, ActiveStatuses
  <2>5. QED
    BY <2>1, <2>2, <2>3, <2>4 DEF RowFits
<1>9. QED
  BY <1>1, <1>2, <1>3 DEF IInv

LEMMA KeepsCrashWeb == ASSUME IInv, CrashWeb PROVE IInv'
<1> USE BoundsAssumption DEF CrashWeb
<1>a. \A r \in RunId : web[r] # "none" => Exists(r)
  BY DEF IInv, Custody, AbsentIsFree
<1>1. TypeOK'
  BY <1>a DEF IInv, TypeOK, Rows, Exists, bounds, WebPoint
<1>2. Custody'
  BY HoldingLess DEF IInv, TypeOK, Works, Exists
<1>3. RowFits'
  BY DEF IInv, TypeOK, RowFits, StatusOfCoroutine, StatusOfThread, ThreadFits, StatusAfter, RunningHeld, Works, Follows
<1>9. QED
  BY <1>1, <1>2, <1>3 DEF IInv

\* What a thread that is given a task, or freed, works on.
LEMMA ThreadSet ==
    ASSUME TypeOK, NEW w \in Worker, NEW op, NEW x, job' = [job EXCEPT ![w] = <<op, x>>]
    PROVE  /\ job'[w][1] = op /\ job'[w][2] = x
           /\ \A v \in Worker : v # w => job'[v] = job[v]
  BY DEF TypeOK

LEMMA ThreadFreed ==
    ASSUME TypeOK, NEW w \in Worker, job' = [job EXCEPT ![w] = Idle]
    PROVE  /\ \A r \in RunId : ~Works(w, r)'
           /\ \A v \in Worker : v # w => job'[v] = job[v]
           /\ \A v \in Worker, r \in RunId : Works(v, r)' => Works(v, r) /\ job'[v] = job[v]
<1>1. job'[w][1] = "idle" /\ \A v \in Worker : v # w => job'[v] = job[v]
  BY DEF TypeOK, Idle
<1>2. "idle" \notin RunOps
  BY DEF RunOps, Judgement
<1>3. QED
  BY <1>1, <1>2 DEF Works

\* A step that lets some go of what they hold, and queues follow-ups for runs
\* with an outcome only, leaves the rows fitting.
LEMMA RowFitsKept ==
    ASSUME IInv, row' = row, web' = web, delivered' = delivered, lost' = lost,
           \A v \in Worker, r \in RunId : Works(v, r)' => Works(v, r) /\ job'[v] = job[v],
           \A v \in Worker, r \in RunId :
               Works(v, r) /\ job[v][1] = "child" => job'[v] = job[v],
           \A r \in RunId : \A i \in DOMAIN queue' :
               Follows(i, r)' => \/ i \in DOMAIN queue /\ Follows(i, r)
                                 \/ row[r].status \in Terminal
    PROVE  RowFits'
<1>1. StatusOfCoroutine'
  BY DEF IInv, RowFits, StatusOfCoroutine
<1>2. StatusOfThread'
  BY DEF IInv, RowFits, StatusOfThread, ThreadFits
<1>3. StatusAfter'
  BY DEF IInv, RowFits, StatusAfter
<1>4. RunningHeld'
  BY DEF IInv, RowFits, RunningHeld, Works
<1>5. QED
  BY <1>1, <1>2, <1>3, <1>4 DEF RowFits

\* A thread that works on a run takes it one point further and gives it an
\* outcome, or keeps the one it has.
LEMMA ThreadMoves ==
    ASSUME IInv, NEW w \in Worker, NEW r \in RunId, Works(w, r),
           NEW x \in Row, row' = [row EXCEPT ![r] = x], x.status \in Terminal,
           queue' = queue, delivered' = delivered, web' = web, lost' = lost,
           \A v \in Worker : v # w => job'[v] = job[v],
           \A q \in RunId : Works(w, q)' =>
               /\ q = r /\ job'[w][1] # "child"
               /\ job'[w][1] \in Judgement => x.status \notin {"blocked", "error"}
    PROVE  /\ Custody' /\ RowFits'
           /\ row' \in [RunId -> Row \cup {Absent}] /\ Rows \subseteq Rows'
<1>1. /\ row' \in [RunId -> Row \cup {Absent}]
      /\ \A q \in RunId : Exists(q) => Exists(q)'
      /\ Rows \subseteq Rows'
      /\ row'[r] = x /\ \A q \in RunId : q # r => row'[q] = row[q]
  BY RowWritten DEF IInv
<1>2. Custody'
  <2>1. \A q \in RunId : \A v \in Worker : Works(v, q)' => Works(v, q)
    BY DEF Works
  <2>2. QED
    BY <1>1, <2>1, HoldingLess DEF IInv
<1>3. web[r] = "none" /\ \A v \in Worker : Works(v, r) => v = w
  BY DEF IInv, Custody, OneThread, CoroutineAlone, FreeOfWorker
<1>4. StatusOfCoroutine'
  BY <1>1, <1>3 DEF IInv, RowFits, StatusOfCoroutine
<1>5. StatusOfThread'
  <2> SUFFICES ASSUME NEW q \in RunId, NEW v \in Worker, Works(v, q)'
               PROVE  ThreadFits(q, v)'
    BY DEF StatusOfThread, ThreadFits
  <2>1. CASE v = w
    BY <2>1, <1>1 DEF ThreadFits
  <2>2. CASE v # w
    <3>1. Works(v, q) /\ q # r
      BY <2>2, <1>3 DEF Works
    <3>2. QED
      BY <2>2, <3>1, <1>1 DEF IInv, RowFits, StatusOfThread, ThreadFits
  <2>3. QED
    BY <2>1, <2>2
<1>6. StatusAfter'
  BY <1>1 DEF IInv, RowFits, StatusAfter, Follows
<1>7. RunningHeld'
  <2> SUFFICES ASSUME NEW q \in RunId, row'[q].status = "running"
               PROVE  \/ web'[q] = "child"
                      \/ \E v \in Worker : Works(v, q)' /\ job'[v][1] = "child"
                      \/ q \in lost'
    BY DEF RunningHeld
  <2>1. q # r /\ row'[q] = row[q]
    BY <1>1 DEF Terminal, ActiveStatuses
  <2>2. CASE web[q] = "child" \/ q \in lost
    BY <2>2
  <2>3. CASE \E v \in Worker : Works(v, q) /\ job[v][1] = "child"
    BY <2>1, <2>3 DEF Works
  <2>4. QED
    BY <2>1, <2>2, <2>3 DEF IInv, RowFits, RunningHeld
<1>8. QED
  BY <1>1, <1>2, <1>4, <1>5, <1>6, <1>7 DEF RowFits

\* Requests through the queue.
LEMMA KeepsMcpRun == ASSUME IInv, NEW s \in Scraper, McpRun(s) PROVE IInv'
<1> USE BoundsAssumption DEF McpRun, AskForRun
<1>a. PICK t \in {"fire", "run"} \X Scraper : queue' = Append(queue, t)
  OBVIOUS
<1>b. queue' \in Seq(Task)
  BY <1>a, Appended DEF IInv, TypeOK, Task
<1>1. TypeOK'
  BY <1>b DEF IInv, TypeOK, Rows, Exists
<1>2. /\ Custody'
      /\ \A r \in RunId : \A i \in DOMAIN queue' :
            Follows(i, r)' => i \in DOMAIN queue /\ Follows(i, r)
  BY <1>a, AppendingRequest DEF IInv, Works
<1>3. RowFits'
  BY <1>2, RowFitsKept DEF Works
<1>9. QED
  BY <1>1, <1>2, <1>3 DEF IInv

LEMMA KeepsCronMatch == ASSUME IInv, NEW s \in Scraper, CronMatch(s) PROVE IInv'
<1> USE BoundsAssumption DEF CronMatch, AskForRun
<1>a. PICK t \in {"fire", "run"} \X Scraper : queue' = Append(queue, t)
  OBVIOUS
<1>b. queue' \in Seq(Task)
  BY <1>a, Appended DEF IInv, TypeOK, Task
<1>1. TypeOK'
  BY <1>b DEF IInv, TypeOK, Rows, Exists
<1>2. /\ Custody'
      /\ \A r \in RunId : \A i \in DOMAIN queue' :
            Follows(i, r)' => i \in DOMAIN queue /\ Follows(i, r)
  BY <1>a, AppendingRequest DEF IInv, Works
<1>3. RowFits'
  BY <1>2, RowFitsKept DEF Works
<1>9. QED
  BY <1>1, <1>2, <1>3 DEF IInv

\* The cron gate, and the task it lets through.
LEMMA KeepsFireGate == ASSUME IInv, NEW w \in Worker, FireGate(w) PROVE IInv'
<1> PICK s \in Scraper : FireGate(w)!(s)
  BY DEF FireGate
<1> USE BoundsAssumption
<1>a. PICK t \in {<<"enqueue", s>>, Idle} : job' = [job EXCEPT ![w] = t]
  OBVIOUS
<1>b. t \in Job /\ t[1] \notin RunOps
  BY DEF Job, Idle, RunOps, Judgement
<1>c. \A v \in Worker, r \in RunId : Works(v, r)' => Works(v, r) /\ job'[v] = job[v]
  BY <1>a, <1>b DEF IInv, TypeOK, Works
<1>d. \A v \in Worker, r \in RunId : Works(v, r) /\ job[v][1] = "child" => job'[v] = job[v]
  BY <1>a DEF IInv, TypeOK, Works
<1>1. TypeOK'
  BY <1>a, <1>b DEF IInv, TypeOK, Rows, Exists, bounds
<1>2. Custody'
  BY <1>c, HoldingLess DEF IInv, Exists
<1>3. RowFits'
  BY <1>c, <1>d, RowFitsKept DEF Follows
<1>9. QED
  BY <1>1, <1>2, <1>3 DEF IInv

LEMMA KeepsFireEnqueue == ASSUME IInv, NEW w \in Worker, FireEnqueue(w) PROVE IInv'
<1> PICK s \in Scraper : FireEnqueue(w)!(s)
  BY DEF FireEnqueue
<1> USE BoundsAssumption
<1>a. PICK t \in {"fire", "run"} \X Scraper : queue' = Append(queue, t)
  OBVIOUS
<1>b. queue' \in Seq(Task)
  BY <1>a, Appended DEF IInv, TypeOK, Task
<1>c. \A v \in Worker, r \in RunId : Works(v, r)' => Works(v, r) /\ job'[v] = job[v]
  BY ThreadFreed DEF IInv
<1>d. \A v \in Worker, r \in RunId : Works(v, r) /\ job[v][1] = "child" => job'[v] = job[v]
  BY ThreadFreed DEF IInv
<1>1. TypeOK'
  BY <1>b DEF IInv, TypeOK, Rows, Exists, bounds, Job
<1>2. /\ Custody'
      /\ \A r \in RunId : \A i \in DOMAIN queue' :
            Follows(i, r)' => i \in DOMAIN queue /\ Follows(i, r)
  BY <1>a, <1>c, AppendingRequest DEF IInv
<1>3. RowFits'
  BY <1>2, <1>c, <1>d, RowFitsKept
<1>9. QED
  BY <1>1, <1>2, <1>3 DEF IInv

\* A worker thread executes a run.
LEMMA KeepsBeginRun == ASSUME IInv, NEW w \in Worker, BeginRun(w) PROVE IInv'
<1> PICK s \in Scraper, r \in RunId : BeginRun(w)!(s, r)
  BY DEF BeginRun
<1> USE BoundsAssumption
<1>a. NewRow(s, "running") \in Row /\ NewRow(s, "running").status = "running"
  BY NewRows DEF RunStatus
<1>b. /\ row' \in [RunId -> Row \cup {Absent}]
      /\ \A q \in RunId : Exists(q) => Exists(q)'
      /\ Exists(r)' /\ Rows \subseteq Rows'
      /\ row'[r].status = "running" /\ \A q \in RunId : q # r => row'[q] = row[q]
  BY <1>a, RowWritten DEF IInv
<1>c. web[r] = "none" /\ FreeOfWorker(r) /\ delivered[r] = 0
  BY DEF IInv, Custody, AbsentIsFree, Fresh
<1>d. job'[w][1] = "child" /\ job'[w][2] = r /\ \A v \in Worker : v # w => job'[v] = job[v]
  BY ThreadSet DEF IInv
<1>e. \A q \in RunId : ~Works(w, q)
  BY DEF Works, RunOps, Judgement
<1>f. /\ Works(w, r)'
      /\ \A q \in RunId, v \in Worker : Works(v, q)' <=> Works(v, q) \/ (v = w /\ q = r)
  BY <1>d, <1>e DEF Works, RunOps
<1>1. TypeOK'
  <2>1. job' \in [Worker -> Job] /\ child' \in [RunId -> ChildState]
    BY DEF IInv, TypeOK, Job, RunOps, Spawn, ChildState
  <2>2. QED
    BY <1>b, <2>1 DEF IInv, TypeOK, bounds
<1>2. Custody'
  <2>1. OneFollowUp' /\ OneThread' /\ ThreadOrQueue'
    BY <1>c, <1>f DEF IInv, Custody, OneFollowUp, OneThread, ThreadOrQueue, FreeOfWorker, Follows
  <2>2. \A q \in RunId : q # r => (FreeOfWorker(q)' <=> FreeOfWorker(q))
    BY <1>f DEF FreeOfWorker, Follows
  <2>3. CoroutineAlone' /\ DoneIsFree' /\ AbsentIsFree'
    BY <2>2, <1>b, <1>c DEF IInv, Custody, CoroutineAlone, DoneIsFree, AbsentIsFree, Exists
  <2>4. QED
    BY <2>1, <2>3 DEF Custody
<1>3. RowFits'
  <2>1. StatusOfCoroutine'
    BY <1>b, <1>c DEF IInv, RowFits, StatusOfCoroutine
  <2>2. StatusOfThread'
    <3> SUFFICES ASSUME NEW q \in RunId, NEW v \in Worker, Works(v, q)'
                 PROVE  ThreadFits(q, v)'
      BY DEF StatusOfThread, ThreadFits
    <3>1. CASE v = w
      BY <3>1, <1>b, <1>d, <1>e, <1>f DEF ThreadFits, Judgement
    <3>2. CASE v # w
      <4>1. Works(v, q) /\ q # r /\ job'[v] = job[v]
        BY <3>2, <1>c, <1>d, <1>f DEF FreeOfWorker
      <4>2. QED
        BY <4>1, <1>b DEF IInv, RowFits, StatusOfThread, ThreadFits
    <3>3. QED
      BY <3>1, <3>2
  <2>3. StatusAfter'
    BY <1>b, <1>c DEF IInv, RowFits, StatusAfter, FreeOfWorker, Follows
  <2>4. RunningHeld'
    <3> SUFFICES ASSUME NEW q \in RunId, q # r, row'[q].status = "running"
                 PROVE  \/ web'[q] = "child"
                        \/ \E v \in Worker : Works(v, q)' /\ job'[v][1] = "child"
                        \/ q \in lost'
      BY <1>d, <1>f DEF RunningHeld
    <3>1. CASE web[q] = "child" \/ q \in lost
      BY <3>1
    <3>2. CASE \E v \in Worker : Works(v, q) /\ job[v][1] = "child"
      BY <3>2, <1>d, <1>e, <1>f
    <3>3. QED
      BY <3>1, <3>2, <1>b DEF IInv, RowFits, RunningHeld
  <2>5. QED
    BY <2>1, <2>2, <2>3, <2>4 DEF RowFits
<1>9. QED
  BY <1>1, <1>2, <1>3 DEF IInv

LEMMA KeepsChildEnds == ASSUME IInv, NEW r \in RunId, ChildEnds(r) PROVE IInv'
<1> USE BoundsAssumption DEF ChildEnds
<1>1. TypeOK'
  BY DEF IInv, TypeOK, Rows, Exists, bounds, ChildState
<1>2. Custody'
  BY HoldingLess DEF IInv, Exists, Works
<1>3. RowFits'
  BY RowFitsKept DEF Works, Follows
<1>9. QED
  BY <1>1, <1>2, <1>3 DEF IInv

LEMMA KeepsRecordOutcome == ASSUME IInv, NEW w \in Worker, RecordOutcome(w) PROVE IInv'
<1>p. PICK r \in RunId : RecordOutcome(w)!(r)
  BY DEF RecordOutcome
<1>q. PICK o \in Outcome(r) :
        /\ row' = [row EXCEPT ![r] = Recorded(@, o)]
        /\ job' = [job EXCEPT ![w] = IF o[1] = "cancelled" THEN Idle ELSE <<"recorded", r>>]
  BY <1>p
<1>u. UNCHANGED <<enabled, queue, web, child, cancels, delivered, lost, asked, requests, faults>>
  BY <1>p DEF bounds
<1>a. Works(w, r)
  BY <1>p DEF Works, RunOps
<1>b. row[r] \in Row
  BY <1>a, HeldExists, RowKinds DEF IInv
<1>c. Recorded(row[r], o) \in Row /\ Recorded(row[r], o).status \in Terminal
  BY <1>b, RowValues
<1>d. /\ job' \in [Worker -> Job]
      /\ \A v \in Worker : v # w => job'[v] = job[v]
      /\ \A q \in RunId : Works(w, q)' => q = r /\ job'[w][1] = "recorded"
  <2>1. CASE o[1] = "cancelled"
    <3>1. job' = [job EXCEPT ![w] = Idle]
      BY <1>q, <2>1
    <3>2. QED
      BY <3>1, ThreadFreed DEF IInv, TypeOK, Job
  <2>2. CASE o[1] # "cancelled"
    <3>1. job' = [job EXCEPT ![w] = <<"recorded", r>>]
      BY <1>q, <2>2
    <3>2. /\ job'[w][1] = "recorded" /\ job'[w][2] = r
          /\ \A v \in Worker : v # w => job'[v] = job[v]
      BY <3>1, ThreadSet DEF IInv
    <3>3. job' \in [Worker -> Job]
      BY <3>1 DEF IInv, TypeOK, Job, RunOps
    <3>4. QED
      BY <3>2, <3>3 DEF Works
  <2>3. QED
    BY <2>1, <2>2
<1>1. /\ Custody' /\ RowFits'
      /\ row' \in [RunId -> Row \cup {Absent}] /\ Rows \subseteq Rows'
  <2> DEFINE x == Recorded(row[r], o)
  <2>1. x \in Row /\ x.status \in Terminal /\ row' = [row EXCEPT ![r] = x]
    BY <1>c, <1>q
  <2> HIDE DEF x
  <2>2. \A q \in RunId :
            Works(w, q)' => q = r /\ job'[w][1] # "child" /\ job'[w][1] \notin Judgement
    BY <1>d DEF Judgement
  <2>3. QED
    BY <1>a, <1>d, <1>u, <2>1, <2>2, ThreadMoves
<1>2. TypeOK'
  BY <1>1, <1>d, <1>u DEF IInv, TypeOK
<1>9. QED
  BY <1>1, <1>2 DEF IInv

\* The hand-overs through the queue.
LEMMA KeepsFollowUp == ASSUME IInv, NEW w \in Worker, FollowUp(w) PROVE IInv'
<1> PICK r \in RunId : FollowUp(w)!(r)
  BY DEF FollowUp
<1> USE BoundsAssumption
<1>a. Works(w, r) /\ job[w][1] = "recorded"
  BY DEF Works, RunOps
<1>b. \A v \in Worker, q \in RunId : Works(v, q)' => Works(v, q) /\ job'[v] = job[v]
  BY ThreadFreed DEF IInv
<1>c. \A v \in Worker, q \in RunId : Works(v, q) /\ job[v][1] = "child" => job'[v] = job[v]
  BY <1>a, ThreadFreed DEF IInv
<1>d. web[r] = "none" /\ \A v \in Worker : ~Works(v, r)'
  BY <1>a, <1>b, ThreadFreed DEF IInv, Custody, OneThread, CoroutineAlone, FreeOfWorker
<1>1. TypeOK'
  BY Appended DEF IInv, TypeOK, Rows, Exists, bounds, Task, Job
<1>2. /\ Custody'
      /\ \A q \in RunId : \A i \in DOMAIN queue' :
            Follows(i, q)' => q = r \/ (i \in DOMAIN queue /\ Follows(i, q))
  BY <1>a, <1>b, <1>d, AppendingFollowUp DEF IInv
<1>3. RowFits'
  <2>1. row[r].status \in Terminal
    BY <1>a DEF IInv, RowFits, StatusOfThread, ThreadFits
  <2>2. QED
    BY <1>2, <1>b, <1>c, <2>1, RowFitsKept
<1>9. QED
  BY <1>1, <1>2, <1>3 DEF IInv

LEMMA KeepsHandToDelivery == ASSUME IInv, NEW w \in Worker, HandToDelivery(w) PROVE IInv'
<1> PICK r \in RunId : HandToDelivery(w)!(r)
  BY DEF HandToDelivery
<1> USE BoundsAssumption
<1>a. Works(w, r) /\ job[w][1] = "validated"
  BY DEF Works, RunOps
<1>b. \A v \in Worker, q \in RunId : Works(v, q)' => Works(v, q) /\ job'[v] = job[v]
  BY ThreadFreed DEF IInv
<1>c. \A v \in Worker, q \in RunId : Works(v, q) /\ job[v][1] = "child" => job'[v] = job[v]
  BY <1>a, ThreadFreed DEF IInv
<1>d. web[r] = "none" /\ \A v \in Worker : ~Works(v, r)'
  BY <1>a, <1>b, ThreadFreed DEF IInv, Custody, OneThread, CoroutineAlone, FreeOfWorker
<1>1. TypeOK'
  BY Appended DEF IInv, TypeOK, Rows, Exists, bounds, Task, Job
<1>2. /\ Custody'
      /\ \A q \in RunId : \A i \in DOMAIN queue' :
            Follows(i, q)' => q = r \/ (i \in DOMAIN queue /\ Follows(i, q))
  BY <1>a, <1>b, <1>d, AppendingFollowUp DEF IInv
<1>3. RowFits'
  <2>1. row[r].status \in Terminal
    BY <1>a DEF IInv, RowFits, StatusOfThread, ThreadFits
  <2>2. QED
    BY <1>2, <1>b, <1>c, <2>1, RowFitsKept
<1>9. QED
  BY <1>1, <1>2, <1>3 DEF IInv

\* Validation reads, and commits what it decided.
LEMMA KeepsValidateRead == ASSUME IInv, NEW w \in Worker, ValidateRead(w) PROVE IInv'
<1> PICK r \in RunId : ValidateRead(w)!(r)
  BY DEF ValidateRead
<1> USE BoundsAssumption
<1>0. PICK op \in Judgement \cup {"validated"} :
         /\ op \in Judgement => row[r].status \notin {"blocked", "error"}
         /\ job' = [job EXCEPT ![w] = <<op, r>>]
  BY DEF Judgement, UNJUDGEABLE
<1>a. Works(w, r) /\ job[w][1] = "validate"
  BY DEF Works, RunOps
<1>b. row[r] \in Row /\ row[r].status \in Terminal
  BY <1>a, HeldExists, RowKinds DEF IInv, RowFits, StatusOfThread, ThreadFits
<1>c. /\ job'[w][1] = op /\ job'[w][2] = r
      /\ \A v \in Worker : v # w => job'[v] = job[v]
  BY <1>0, ThreadSet DEF IInv
<1>d. job' \in [Worker -> Job]
  BY <1>0 DEF IInv, TypeOK, Job, RunOps
<1>e. row' = [row EXCEPT ![r] = row[r]]
  BY DEF IInv, TypeOK
<1>1. Custody' /\ RowFits'
  <2> DEFINE x == row[r]
  <2>1. x \in Row /\ x.status \in Terminal /\ row' = [row EXCEPT ![r] = x]
    BY <1>b, <1>e
  <2>2. \A q \in RunId : Works(w, q)' =>
            /\ q = r /\ job'[w][1] # "child"
            /\ job'[w][1] \in Judgement => x.status \notin {"blocked", "error"}
    BY <1>0, <1>c DEF Works, Judgement
  <2> HIDE DEF x
  <2>3. QED
    BY <1>a, <1>c, <2>1, <2>2, ThreadMoves
<1>2. TypeOK'
  BY <1>d DEF IInv, TypeOK, Rows, Exists, bounds
<1>9. QED
  BY <1>1, <1>2 DEF IInv

LEMMA KeepsValidateCommit == ASSUME IInv, NEW w \in Worker, ValidateCommit(w) PROVE IInv'
<1> PICK r \in RunId : ValidateCommit(w)!(r)
  BY DEF ValidateCommit
<1> USE BoundsAssumption
<1>a. job[w][1] \in Judgement /\ Works(w, r)
  BY DEF Works, RunOps
<1>b. row[r] \in Row /\ row[r].status \in Terminal
  BY <1>a, HeldExists, RowKinds DEF IInv, RowFits, StatusOfThread, ThreadFits, Judgement
<1>c. Judged(row[r], job[w][1]) \in Row /\ Judged(row[r], job[w][1]).status \in Terminal
  BY <1>a, <1>b, RowValues
<1>d. /\ job'[w][1] = "validated" /\ job'[w][2] = r
      /\ \A v \in Worker : v # w => job'[v] = job[v]
  BY ThreadSet DEF IInv
<1>1. /\ Custody' /\ RowFits'
      /\ row' \in [RunId -> Row \cup {Absent}] /\ Rows \subseteq Rows'
  <2> DEFINE x == Judged(row[r], job[w][1])
  <2>1. x \in Row /\ x.status \in Terminal /\ row' = [row EXCEPT ![r] = x]
    BY <1>c
  <2> HIDE DEF x
  <2>2. \A q \in RunId : Works(w, q)' => q = r /\ job'[w][1] = "validated"
    BY <1>d DEF Works
  <2>3. QED
    BY <1>a, <1>d, <2>1, <2>2, ThreadMoves, ZenonT(30) DEF Judgement
<1>2. TypeOK'
  BY <1>1 DEF IInv, TypeOK, bounds, Job, RunOps
<1>9. QED
  BY <1>1, <1>2 DEF IInv

\* The delivery task ends the run's way through the queue.
LEMMA KeepsDeliver == ASSUME IInv, NEW w \in Worker, Deliver(w) PROVE IInv'
<1> PICK r \in RunId : Deliver(w)!(r)
  BY DEF Deliver
<1> USE BoundsAssumption
<1>a. Works(w, r) /\ job[w][1] = "deliver"
  BY DEF Works, RunOps
<1>b. /\ \A v \in Worker, q \in RunId : Works(v, q)' => Works(v, q) /\ job'[v] = job[v]
      /\ \A q \in RunId : ~Works(w, q)'
      /\ \A v \in Worker : v # w => job'[v] = job[v]
  BY ThreadFreed DEF IInv
<1>c. /\ delivered[r] = 0 /\ Exists(r) /\ web[r] = "none"
      /\ \A v \in Worker : Works(v, r) => v = w
      /\ \A i \in DOMAIN queue : ~Follows(i, r)
  BY <1>a DEF IInv, TypeOK, Custody, OneThread, ThreadOrQueue, CoroutineAlone, DoneIsFree,
              AbsentIsFree, FreeOfWorker
<1>d. delivered'[r] = 1 /\ \A q \in RunId : q # r => delivered'[q] = delivered[q]
  BY <1>c DEF IInv, TypeOK
<1>1. TypeOK'
  BY <1>c DEF IInv, TypeOK, Rows, Exists, bounds, Job
<1>e. \A q \in RunId : FreeOfWorker(q) => FreeOfWorker(q)'
  BY <1>b DEF FreeOfWorker, Follows
<1>f. FreeOfWorker(r)'
  BY <1>b, <1>c DEF FreeOfWorker, Follows
<1>2. Custody'
  <2>1. OneFollowUp' /\ OneThread' /\ ThreadOrQueue'
    BY <1>b DEF IInv, Custody, OneFollowUp, OneThread, ThreadOrQueue, Follows
  <2>2. CoroutineAlone' /\ AbsentIsFree'
    BY <1>c, <1>d, <1>e DEF IInv, Custody, CoroutineAlone, AbsentIsFree, Exists
  <2>3. DoneIsFree'
    BY <1>c, <1>d, <1>e, <1>f DEF IInv, Custody, DoneIsFree
  <2>4. QED
    BY <2>1, <2>2, <2>3 DEF Custody
<1>3. RowFits'
  <2>1. row[r].status \in Terminal
    BY <1>a DEF IInv, RowFits, StatusOfThread, ThreadFits
  <2>2. StatusAfter'
    BY <1>d, <2>1 DEF IInv, RowFits, StatusAfter, Follows
  <2>3. StatusOfCoroutine' /\ StatusOfThread'
    BY <1>b DEF IInv, RowFits, StatusOfCoroutine, StatusOfThread, ThreadFits
  <2>4. RunningHeld'
    BY <1>a, <1>b DEF IInv, RowFits, RunningHeld, Works
  <2>5. QED
    BY <2>2, <2>3, <2>4 DEF RowFits
<1>9. QED
  BY <1>1, <1>2, <1>3 DEF IInv

\* Failures of the worker: what a dying thread executed is in lost.
LEMMA WorkerFails ==
    ASSUME IInv, row' = row, queue' = queue, web' = web, delivered' = delivered,
           \A v \in Worker, r \in RunId : Works(v, r)' => Works(v, r) /\ job'[v] = job[v],
           \A v \in Worker, r \in RunId :
               Works(v, r) /\ job[v][1] = "child" => job'[v] = job[v] \/ r \in lost',
           lost \subseteq lost'
    PROVE  Custody' /\ RowFits'
<1>1. Custody'
  BY HoldingLess DEF IInv, Exists
<1>2. StatusOfCoroutine' /\ StatusOfThread' /\ StatusAfter'
  BY DEF IInv, RowFits, StatusOfCoroutine, StatusOfThread, ThreadFits, StatusAfter, Follows
<1>3. RunningHeld'
  BY DEF IInv, RowFits, RunningHeld, Works
<1>4. QED
  BY <1>1, <1>2, <1>3 DEF RowFits

LEMMA KeepsTaskFails == ASSUME IInv, NEW w \in Worker, TaskFails(w) PROVE IInv'
<1> USE BoundsAssumption DEF TaskFails
<1>a. \A r \in RunId : job[w] = <<"child", r>> => Exists(r)
  BY HeldExists DEF IInv, Works, RunOps
<1>b. \A r \in RunId : Works(w, r) /\ job[w][1] = "child" => job[w] = <<"child", r>>
  BY DEF IInv, TypeOK, Job, Works, Idle
<1>1. TypeOK'
  BY <1>a DEF IInv, TypeOK, Rows, Exists, bounds, Job
<1>2. Custody' /\ RowFits'
  <2>1. /\ \A v \in Worker, q \in RunId : Works(v, q)' => Works(v, q) /\ job'[v] = job[v]
        /\ \A v \in Worker : v # w => job'[v] = job[v]
    BY ThreadFreed DEF IInv
  <2>2. \A v \in Worker, r \in RunId :
            Works(v, r) /\ job[v][1] = "child" => job'[v] = job[v] \/ r \in lost'
    BY <1>b, <2>1
  <2>3. QED
    BY <2>1, <2>2, WorkerFails
<1>9. QED
  BY <1>1, <1>2 DEF IInv

LEMMA KeepsCrashWorker == ASSUME IInv, CrashWorker PROVE IInv'
<1> USE BoundsAssumption DEF CrashWorker
<1>a. \A r \in RunId, w \in Worker : job[w] = <<"child", r>> => Exists(r)
  BY HeldExists DEF IInv, Works, RunOps
<1>b. \A r \in RunId, w \in Worker :
         Works(w, r) /\ job[w][1] = "child" => job[w] = <<"child", r>>
  BY DEF IInv, TypeOK, Job, Works, Idle
<1>1. TypeOK'
  <2>1. job' \in [Worker -> Job] /\ faults' \in 0..MaxFaults
    BY DEF IInv, TypeOK, Job
  <2>2. Rows' = Rows /\ lost' \subseteq Rows
    BY <1>a DEF IInv, TypeOK, Rows, Exists
  <2>3. QED
    BY <2>1, <2>2 DEF IInv, TypeOK
<1>2. Custody' /\ RowFits'
  <2>1. \A v \in Worker, q \in RunId : ~Works(v, q)'
    BY DEF Works, Idle, RunOps, Judgement
  <2>2. \A v \in Worker, r \in RunId :
            Works(v, r) /\ job[v][1] = "child" => job'[v] = job[v] \/ r \in lost'
    BY <1>b
  <2>3. QED
    BY <2>1, <2>2, WorkerFails
<1>9. QED
  BY <1>1, <1>2 DEF IInv

-----------------------------------------------------------------------------
(***************************************************************************)
(* The theorems.                                                           *)
(***************************************************************************)
\* Every step, and every stuttering step, keeps the invariant.
LEMMA NextIInv == IInv /\ [Next]_vars => IInv'
<1> SUFFICES ASSUME IInv, [Next]_vars PROVE IInv'
  OBVIOUS
<1>1. ASSUME NEW s \in Scraper, SetEnabled(s) \/ EnqueueRun(s) \/ McpRun(s) \/ CronMatch(s)
      PROVE  IInv'
  BY <1>1, KeepsEnabled, KeepsEnqueueRun, KeepsMcpRun, KeepsCronMatch
<1>2. ASSUME NEW r \in RunId,
             Rerun(r) \/ CancelSignal(r) \/ WebStep(r) \/ ChildEnds(r) \/ FailWeb(r)
      PROVE  IInv'
  BY <1>2, KeepsRerun, KeepsCancelSignal, KeepsAdoptRun, KeepsRecordOutcomeWeb, KeepsFollowUpWeb,
     KeepsCancelCommit, KeepsChildEnds, KeepsFailWeb DEF WebStep
<1>3. ASSUME NEW w \in Worker, WorkerStep(w) \/ TaskFails(w)
      PROVE  IInv'
  BY <1>3, KeepsDequeue, KeepsFireGate, KeepsFireEnqueue, KeepsBeginRun, KeepsRecordOutcome,
     KeepsFollowUp, KeepsValidateRead, KeepsValidateCommit, KeepsHandToDelivery, KeepsDeliver,
     KeepsTaskFails DEF WorkerStep
<1>4. CASE CrashWeb \/ CrashWorker
  BY <1>4, KeepsCrashWeb, KeepsCrashWorker
<1>5. CASE UNCHANGED vars
  <2>1. TypeOK'
    BY <1>5 DEF IInv, TypeOK, vars, Rows, Exists
  <2>2. Custody'
    BY <1>5, HoldingLess DEF IInv, vars, Exists, Works
  <2>3. RowFits'
    BY <1>5, RowFitsKept DEF vars, Works, Follows
  <2>4. QED
    BY <2>1, <2>2, <2>3 DEF IInv
<1>6. QED
  BY <1>1, <1>2, <1>3, <1>4, <1>5 DEF Next

\* The inductive invariant holds throughout.
LEMMA Invariance == Spec => []IInv
  BY InitIInv, NextIInv, PTL DEF Spec

\* Every variable keeps to its type, for any number of scrapers, threads and
\* runs; in particular only runs with a row are ever cancelled or lost.
THEOREM TypeCorrect == Spec => []TypeOK
<1>1. IInv => TypeOK
  BY DEF IInv
<1>2. QED
  BY <1>1, Invariance, PTL

\* A run is handed to deliver_run at most once, whatever the number of threads,
\* crashes and failing tasks: the queue never holds two follow-ups of one run.
THEOREM DeliveredOnce == Spec => []DeliveredAtMostOnce
<1>1. IInv => DeliveredAtMostOnce
  BY DEF IInv, Custody, DoneIsFree, DeliveredAtMostOnce
<1>2. QED
  BY <1>1, Invariance, PTL

\* Whatever the invariant calls held is held in the sense of the properties.
LEMMA HoldsOf ==
    ASSUME IInv, NEW r \in RunId
    PROVE  /\ Judging(r) \/ Delivering(r)
                 => \/ web[r] = "recorded"
                    \/ \E i \in DOMAIN queue : Follows(i, r)
                    \/ \E w \in Worker : Works(w, r) /\ job[w][1] # "child"
           /\ \A w \in Worker : Works(w, r) /\ job[w][1] = "child" => Held({"child"}, r)
<1>1. \A op \in {"validate", "deliver"} :
         Queued(op, r) => \E i \in DOMAIN queue : Follows(i, r)
  BY DEF Queued, Follows
<1>2. ASSUME NEW ops, ops \subseteq RunOps \ {"child"}, Held(ops, r)
      PROVE  \E w \in Worker : Works(w, r) /\ job[w][1] # "child"
  BY <1>2 DEF Held, Works
<1>3. /\ {"recorded", "validate"} \cup Judgement \subseteq RunOps \ {"child"}
      /\ {"validated", "deliver"} \subseteq RunOps \ {"child"}
  BY DEF RunOps, Judgement
<1>4. \A w \in Worker : Works(w, r) /\ job[w][1] = "child" => Held({"child"}, r)
  BY DEF IInv, TypeOK, Job, Idle, Held, Works
<1>5. QED
  BY <1>1, <1>2, <1>3, <1>4 DEF Judging, Delivering

\* No validate or deliver task, waiting or in a thread, is about a run that is
\* still queued or running, and no such run was delivered.
THEOREM OutcomeFirst == Spec => []OutcomeBeforeFollowUp
<1>1. IInv => OutcomeBeforeFollowUp
  <2> SUFFICES ASSUME IInv, NEW r \in RunId,
                      Judging(r) \/ Delivering(r) \/ delivered[r] > 0
               PROVE  Exists(r) /\ row[r].status \in Terminal
    BY DEF OutcomeBeforeFollowUp
  <2>1. CASE delivered[r] > 0
    BY <2>1 DEF IInv, TypeOK, Custody, AbsentIsFree, RowFits, StatusAfter
  <2>2. CASE web[r] = "recorded"
    BY <2>2 DEF IInv, Custody, AbsentIsFree, RowFits, StatusOfCoroutine
  <2>3. CASE \E i \in DOMAIN queue : Follows(i, r)
    BY <2>3 DEF IInv, Custody, AbsentIsFree, FreeOfWorker, RowFits, StatusAfter
  <2>4. CASE \E w \in Worker : Works(w, r) /\ job[w][1] # "child"
    BY <2>4 DEF IInv, Custody, AbsentIsFree, FreeOfWorker, RowFits, StatusOfThread, ThreadFits
  <2>5. QED
    BY <2>1, <2>2, <2>3, <2>4, HoldsOf
<1>2. QED
  BY <1>1, Invariance, PTL

\* A "running" row has a coroutine or a thread behind it, unless that one died
\* before it recorded the outcome.
THEOREM RunningOwned == Spec => []RunningIsOwned
<1>1. IInv => RunningIsOwned
  BY HoldsOf DEF IInv, RowFits, RunningHeld, RunningIsOwned, Executing
<1>2. QED
  BY <1>1, Invariance, PTL

\* No step but a cancel request replaces a "blocked" or "error" outcome.
THEOREM UnjudgeableStays == Spec => UnjudgeableKept
<1>1. ASSUME IInv, [Next]_vars, NEW r \in RunId, row[r].status \in {"blocked", "error"}
      PROVE  row'[r].status \in {row[r].status, "cancelled"}
  <2> USE <1>1
  <2>1. Exists(r) /\ row[r] \in Row
    BY RowKinds DEF IInv
  <2>2. CASE UNCHANGED row
    BY <2>2
  <2>3. ASSUME NEW q \in RunId, NEW x, ~Exists(q), row' = [row EXCEPT ![q] = x]
        PROVE  row'[r] = row[r]
    BY <2>1, <2>3 DEF IInv, TypeOK
  <2>4. ASSUME NEW s \in Scraper, EnqueueRun(s)
        PROVE  row'[r] = row[r]
    BY <2>3, <2>4 DEF EnqueueRun, Fresh
  <2>5. ASSUME NEW q \in RunId, Rerun(q)
        PROVE  row'[r] = row[r]
    BY <2>3, <2>5 DEF Rerun, Fresh
  <2>6. ASSUME NEW w \in Worker, BeginRun(w)
        PROVE  row'[r] = row[r]
    BY <2>3, <2>6 DEF BeginRun, Fresh
  <2>7. ASSUME NEW q \in RunId, CancelCommit(q)
        PROVE  row'[r].status \in {row[r].status, "cancelled"}
    BY <2>1, <2>7 DEF CancelCommit, SetStatus, IInv, TypeOK, Row
  <2>8. ASSUME NEW q \in RunId, AdoptRun(q) \/ RecordOutcomeWeb(q) \/ FailWeb(q)
        PROVE  row'[r] = row[r]
    <3>1. CASE AdoptRun(q) \/ RecordOutcomeWeb(q)
      <4>1. q # r
        BY <3>1 DEF AdoptRun, RecordOutcomeWeb, IInv, RowFits, StatusOfCoroutine
      <4>2. QED
        BY <3>1, <4>1 DEF AdoptRun, RecordOutcomeWeb, SetStatus, IInv, TypeOK
    <3>2. CASE FailWeb(q)
      BY <3>2 DEF FailWeb, SetStatus, IInv, TypeOK, ActiveStatuses
    <3>3. QED
      BY <2>8, <3>1, <3>2
  <2>9. ASSUME NEW w \in Worker, RecordOutcome(w) \/ ValidateCommit(w)
        PROVE  row'[r] = row[r]
    <3>1. PICK q \in RunId :
             /\ \E x : row' = [row EXCEPT ![q] = x]
             /\ Works(w, q) /\ job[w][1] \in {"child"} \cup Judgement
      BY <2>9 DEF RecordOutcome, ValidateCommit, Works, RunOps
    <3>2. q # r
      BY <3>1 DEF IInv, RowFits, StatusOfThread, ThreadFits
    <3>3. QED
      BY <3>1, <3>2 DEF IInv, TypeOK
  <2>10. QED
    BY <2>2, <2>4, <2>5, <2>6, <2>7, <2>8, <2>9
       DEF Next, vars, WebStep, WorkerStep, SetEnabled, McpRun, CronMatch, CancelSignal, ChildEnds,
           FollowUpWeb, Dequeue, FireGate, FireEnqueue, FollowUp, ValidateRead, HandToDelivery,
           Deliver, TaskFails, CrashWeb, CrashWorker
<1>2. IInv /\ [Next]_vars
        => [\A r \in RunId : row[r].status \in {"blocked", "error"}
                               => row'[r].status \in {row[r].status, "cancelled"}]_vars
  BY <1>1
<1>3. QED
  BY <1>2, Invariance, PTL DEF Spec, UnjudgeableKept

-----------------------------------------------------------------------------
(***************************************************************************)
(* The refinement.  Custody makes the stages of a run exclude each other,  *)
(* so that whoever holds the run tells its phase; each action then moves   *)
(* the runs it takes from a holder or gives to one, and no other.          *)
(***************************************************************************)
\* The stage a thread with a run has reached.
StageOf(op) ==
    IF op = "child" THEN "executing"
    ELSE IF op \in {"validated", "deliver"} THEN "judged" ELSE "recorded"

\* The phase of every run, as its holder tells it.
HolderTells ==
    \A r \in RunId :
        /\ ~Exists(r) => Phase(r) = "absent"
        /\ web[r] = "dispatched" => Phase(r) = "asked"
        /\ web[r] = "child" => Phase(r) = "executing"
        /\ web[r] = "recorded" => Phase(r) = "recorded"
        /\ \A w \in Worker : Works(w, r) => Phase(r) = StageOf(job[w][1])
        /\ \A i \in DOMAIN queue : Follows(i, r) =>
               Phase(r) = IF queue[i][1] = "validate" THEN "recorded" ELSE "judged"
        /\ Exists(r) /\ web[r] = "none" /\ FreeOfWorker(r) =>
               Phase(r) = IF delivered[r] > 0 THEN "delivered" ELSE "dropped"

LEMMA PhaseCases ==
    ASSUME NEW r
    PROVE  /\ ~Exists(r) /\ web[r] # "dispatched" /\ ~Executing(r) /\ ~Judging(r) /\ ~Delivering(r)
                /\ ~(delivered[r] > 0) => Phase(r) = "absent"
           /\ Exists(r) /\ web[r] = "dispatched" /\ ~Executing(r) /\ ~Judging(r) /\ ~Delivering(r)
                /\ ~(delivered[r] > 0) => Phase(r) = "asked"
           /\ Exists(r) /\ web[r] # "dispatched" /\ Executing(r) /\ ~Judging(r) /\ ~Delivering(r)
                /\ ~(delivered[r] > 0) => Phase(r) = "executing"
           /\ Exists(r) /\ web[r] # "dispatched" /\ ~Executing(r) /\ Judging(r) /\ ~Delivering(r)
                /\ ~(delivered[r] > 0) => Phase(r) = "recorded"
           /\ Exists(r) /\ web[r] # "dispatched" /\ ~Executing(r) /\ ~Judging(r) /\ Delivering(r)
                /\ ~(delivered[r] > 0) => Phase(r) = "judged"
           /\ Exists(r) /\ web[r] # "dispatched" /\ ~Executing(r) /\ ~Judging(r) /\ ~Delivering(r)
                /\ delivered[r] > 0 => Phase(r) = "delivered"
           /\ Exists(r) /\ web[r] # "dispatched" /\ ~Executing(r) /\ ~Judging(r) /\ ~Delivering(r)
                /\ ~(delivered[r] > 0) => Phase(r) = "dropped"
BY DEF Phase

\* Held and Queued in terms of custody.
LEMMA HeldWorks ==
    ASSUME TypeOK, NEW r \in RunId
    PROVE  /\ \A ops \in SUBSET RunOps : Held(ops, r) <=> \E w \in Worker : Works(w, r) /\ job[w][1] \in ops
           /\ \A op \in {"validate", "deliver"} :
                 Queued(op, r) <=> \E i \in DOMAIN queue : Follows(i, r) /\ queue[i][1] = op
<1>1. ASSUME NEW ops \in SUBSET RunOps
      PROVE  Held(ops, r) <=> \E w \in Worker : Works(w, r) /\ job[w][1] \in ops
  <2>1. \A w \in Worker : Works(w, r) => job[w] = <<job[w][1], r>>
    BY DEF Works, TypeOK, Job, Idle
  <2>2. \A w \in Worker : job[w] \in ops \X {r} <=> Works(w, r) /\ job[w][1] \in ops
    <3>. SUFFICES ASSUME NEW w \in Worker PROVE job[w] \in ops \X {r} <=> Works(w, r) /\ job[w][1] \in ops
      OBVIOUS
    <3>1. job[w] \in ops \X {r} => job[w][1] \in ops /\ job[w][2] = r
      OBVIOUS
    <3>2. Works(w, r) /\ job[w][1] \in ops => job[w] \in ops \X {r}
      BY <2>1
    <3>. QED BY <3>1, <3>2 DEF Works
  <2>. QED BY <2>2 DEF Held
<1>2. ASSUME NEW op \in {"validate", "deliver"}
      PROVE  Queued(op, r) <=> \E i \in DOMAIN queue : Follows(i, r) /\ queue[i][1] = op
  <2>1. \A i \in DOMAIN queue : queue[i] \in Task
    BY DEF TypeOK
  <2>2. \A i \in DOMAIN queue : Follows(i, r) => queue[i] = <<queue[i][1], r>>
    BY <2>1 DEF Follows, Task
  <2>. QED BY <2>2 DEF Queued, Follows
<1>. QED BY <1>1, <1>2

LEMMA StagesOfHolders ==
    ASSUME TypeOK, NEW r \in RunId
    PROVE  /\ Executing(r) <=> web[r] = "child" \/ \E w \in Worker : Works(w, r) /\ StageOf(job[w][1]) = "executing"
           /\ Judging(r) <=> \/ web[r] = "recorded"
                             \/ \E i \in DOMAIN queue : Follows(i, r) /\ queue[i][1] = "validate"
                             \/ \E w \in Worker : Works(w, r) /\ StageOf(job[w][1]) = "recorded"
           /\ Delivering(r) <=> \/ \E i \in DOMAIN queue : Follows(i, r) /\ queue[i][1] = "deliver"
                                \/ \E w \in Worker : Works(w, r) /\ StageOf(job[w][1]) = "judged"
<1>1. \A op \in RunOps : /\ StageOf(op) = "executing" <=> op \in {"child"}
                         /\ StageOf(op) = "recorded" <=> op \in {"recorded", "validate"} \cup Judgement
                         /\ StageOf(op) = "judged" <=> op \in {"validated", "deliver"}
  BY DEF StageOf, RunOps, Judgement
<1>2. {"child"} \in SUBSET RunOps /\ {"recorded", "validate"} \cup Judgement \in SUBSET RunOps
      /\ {"validated", "deliver"} \in SUBSET RunOps
  BY DEF RunOps
<1>3. \A w \in Worker : Works(w, r) => job[w][1] \in RunOps
  BY DEF Works
<1>4. Executing(r) <=> web[r] = "child" \/ \E w \in Worker : Works(w, r) /\ StageOf(job[w][1]) = "executing"
  BY <1>1, <1>2, <1>3, HeldWorks DEF Executing
<1>5. Judging(r) <=> \/ web[r] = "recorded"
                     \/ \E i \in DOMAIN queue : Follows(i, r) /\ queue[i][1] = "validate"
                     \/ \E w \in Worker : Works(w, r) /\ StageOf(job[w][1]) = "recorded"
  BY <1>1, <1>2, <1>3, HeldWorks DEF Judging
<1>6. Delivering(r) <=> \/ \E i \in DOMAIN queue : Follows(i, r) /\ queue[i][1] = "deliver"
                        \/ \E w \in Worker : Works(w, r) /\ StageOf(job[w][1]) = "judged"
  BY <1>1, <1>2, <1>3, HeldWorks DEF Delivering
<1>. QED BY <1>4, <1>5, <1>6

LEMMA PhasesOfHolders == IInv => HolderTells
<1>. SUFFICES ASSUME IInv, NEW r \in RunId
     PROVE  /\ ~Exists(r) => Phase(r) = "absent"
            /\ web[r] = "dispatched" => Phase(r) = "asked"
            /\ web[r] = "child" => Phase(r) = "executing"
            /\ web[r] = "recorded" => Phase(r) = "recorded"
            /\ \A w \in Worker : Works(w, r) => Phase(r) = StageOf(job[w][1])
            /\ \A i \in DOMAIN queue : Follows(i, r) =>
                   Phase(r) = IF queue[i][1] = "validate" THEN "recorded" ELSE "judged"
            /\ Exists(r) /\ web[r] = "none" /\ FreeOfWorker(r) =>
                   Phase(r) = IF delivered[r] > 0 THEN "delivered" ELSE "dropped"
  BY DEF HolderTells
<1>t. TypeOK
  BY DEF IInv
<1>d. delivered[r] \in Nat
  BY <1>t DEF TypeOK
<1>1. web[r] # "none" => FreeOfWorker(r) /\ Exists(r) /\ ~(delivered[r] > 0)
  BY DEF IInv, Custody, CoroutineAlone, DoneIsFree, AbsentIsFree
<1>2. FreeOfWorker(r) => /\ Executing(r) <=> web[r] = "child"
                         /\ Judging(r) <=> web[r] = "recorded"
                         /\ ~Delivering(r)
  BY <1>t, StagesOfHolders DEF FreeOfWorker
<1>3. ASSUME NEW w \in Worker, Works(w, r)
      PROVE  Phase(r) = StageOf(job[w][1])
  <2>1. /\ web[r] = "none" /\ Exists(r) /\ ~(delivered[r] > 0)
        /\ \A i \in DOMAIN queue : ~Follows(i, r)
        /\ \A v \in Worker : Works(v, r) => v = w
    BY <1>3 DEF IInv, Custody, OneThread, ThreadOrQueue, CoroutineAlone, DoneIsFree, AbsentIsFree, FreeOfWorker
  <2>2. StageOf(job[w][1]) \in {"executing", "recorded", "judged"}
    BY DEF StageOf
  <2>3. /\ Executing(r) <=> StageOf(job[w][1]) = "executing"
        /\ Judging(r) <=> StageOf(job[w][1]) = "recorded"
        /\ Delivering(r) <=> StageOf(job[w][1]) = "judged"
    BY <1>3, <1>t, <2>1, StagesOfHolders
  <2>. QED BY <2>1, <2>2, <2>3, PhaseCases
<1>4. ASSUME NEW i \in DOMAIN queue, Follows(i, r)
      PROVE  Phase(r) = IF queue[i][1] = "validate" THEN "recorded" ELSE "judged"
  <2>1. /\ web[r] = "none" /\ Exists(r) /\ ~(delivered[r] > 0)
        /\ \A w \in Worker : ~Works(w, r)
        /\ \A k \in DOMAIN queue : Follows(k, r) => k = i
    BY <1>4 DEF IInv, Custody, OneFollowUp, ThreadOrQueue, CoroutineAlone, DoneIsFree, AbsentIsFree, FreeOfWorker
  <2>2. queue[i][1] \in {"validate", "deliver"}
    BY <1>4 DEF Follows
  <2>3. /\ ~Executing(r)
        /\ Judging(r) <=> queue[i][1] = "validate"
        /\ Delivering(r) <=> queue[i][1] = "deliver"
    BY <1>4, <1>t, <2>1, StagesOfHolders
  <2>. QED BY <2>1, <2>2, <2>3, PhaseCases
<1>5. /\ web[r] = "dispatched" => Phase(r) = "asked"
      /\ web[r] = "child" => Phase(r) = "executing"
      /\ web[r] = "recorded" => Phase(r) = "recorded"
  BY <1>1, <1>2, PhaseCases
<1>6. ~Exists(r) => Phase(r) = "absent"
  <2>1. ~Exists(r) => web[r] = "none" /\ FreeOfWorker(r) /\ ~(delivered[r] > 0)
    BY DEF IInv, Custody, AbsentIsFree
  <2>. QED BY <2>1, <1>2, PhaseCases
<1>7. Exists(r) /\ web[r] = "none" /\ FreeOfWorker(r) =>
          Phase(r) = IF delivered[r] > 0 THEN "delivered" ELSE "dropped"
  BY <1>2, PhaseCases
<1>. QED BY <1>3, <1>4, <1>5, <1>6, <1>7

\* ... before a step and after it.
LEMMA HoldersBeforeAndAfter ==
    IInv /\ [Next]_vars => HolderTells /\ HolderTells' /\ IInv'
<1>1. HolderTells /\ IInv' => HolderTells'
  BY PhasesOfHolders, PTL
<1>. QED BY <1>1, PhasesOfHolders, NextIInv

LEMMA AppendedLast ==
    ASSUME TypeOK, NEW t \in Task, queue' = Append(queue, t)
    PROVE  Len(queue) + 1 \in DOMAIN queue' /\ queue'[Len(queue) + 1] = t
<1>1. queue \in Seq(Task)
  BY DEF TypeOK
<1>. QED BY <1>1, Appended

\* What a step that does not concern run q leaves as it was.
QueueKeeps(q) ==
    /\ \A i \in DOMAIN queue : Follows(i, q) => \E k \in DOMAIN queue' : queue'[k] = queue[i]
    /\ \A k \in DOMAIN queue' : Follows(k, q)' => \E i \in DOMAIN queue : queue[i] = queue'[k]

ThreadsKeep(q) ==
    \A w \in Worker : Works(w, q) \/ Works(w, q)' => job'[w] = job[w]

RestKeeps(q) == web'[q] = web[q] /\ delivered'[q] = delivered[q] /\ (Exists(q)' <=> Exists(q))

LEMMA PhaseKept ==
    ASSUME IInv, IInv', HolderTells, HolderTells', NEW q \in RunId,
           QueueKeeps(q), ThreadsKeep(q), RestKeeps(q)
    PROVE  Phase(q)' = Phase(q)
<1>1. \A w \in Worker : Works(w, q)' <=> Works(w, q)
  BY DEF ThreadsKeep, Works
<1>2. /\ \A i \in DOMAIN queue : Follows(i, q) =>
             \E k \in DOMAIN queue' : Follows(k, q)' /\ queue'[k] = queue[i]
      /\ (\E k \in DOMAIN queue' : Follows(k, q)') => \E i \in DOMAIN queue : Follows(i, q)
  BY DEF QueueKeeps, Follows
<1>3. FreeOfWorker(q) => FreeOfWorker(q)'
  BY <1>1, <1>2 DEF FreeOfWorker
<1>4. CASE ~Exists(q)
  BY <1>4 DEF HolderTells, RestKeeps
<1>5. CASE web[q] # "none"
  <2>1. web[q] \in {"dispatched", "child", "recorded"}
    BY <1>5 DEF IInv, TypeOK, WebPoint
  <2>. QED BY <2>1 DEF HolderTells, RestKeeps
<1>6. ASSUME NEW w \in Worker, Works(w, q) PROVE Phase(q)' = Phase(q)
  <2>1. Works(w, q)' /\ job'[w] = job[w]
    BY <1>6, <1>1 DEF ThreadsKeep
  <2>2. Phase(q) = StageOf(job[w][1])
    BY <1>6 DEF HolderTells
  <2>3. Phase(q)' = StageOf(job'[w][1])
    BY <2>1 DEF HolderTells, StageOf
  <2>. QED BY <2>1, <2>2, <2>3
<1>7. ASSUME NEW i \in DOMAIN queue, Follows(i, q) PROVE Phase(q)' = Phase(q)
  <2>1. PICK k \in DOMAIN queue' : Follows(k, q)' /\ queue'[k] = queue[i]
    BY <1>7, <1>2
  <2>. QED BY <1>7, <2>1 DEF HolderTells
<1>8. CASE Exists(q) /\ web[q] = "none" /\ FreeOfWorker(q)
  BY <1>8, <1>3 DEF HolderTells, RestKeeps
<1>. QED BY <1>4, <1>5, <1>6, <1>7, <1>8 DEF FreeOfWorker

LEMMA QueueAppended ==
    ASSUME TypeOK, NEW t \in Task, queue' = Append(queue, t),
           NEW q, t[2] # q \/ t[1] \notin {"validate", "deliver"}
    PROVE  QueueKeeps(q)
<1>1. queue \in Seq(Task)
  BY DEF TypeOK
<1>2. /\ DOMAIN queue' = DOMAIN queue \cup {Len(queue) + 1}
      /\ \A i \in DOMAIN queue : queue'[i] = queue[i]
      /\ queue'[Len(queue) + 1] = t
  BY <1>1, Appended
<1>. QED BY <1>2 DEF QueueKeeps, Follows

LEMMA QueueTaken ==
    ASSUME TypeOK, queue # <<>>, queue' = Tail(queue),
           NEW q, ~Follows(1, q)
    PROVE  QueueKeeps(q)
<1>1. queue \in Seq(Task)
  BY DEF TypeOK
<1>2. /\ \A k \in DOMAIN queue' : k + 1 \in DOMAIN queue /\ queue'[k] = queue[k + 1]
      /\ \A i \in DOMAIN queue : i # 1 => \E k \in DOMAIN queue' : queue'[k] = queue[i]
  <2>1. \A i \in DOMAIN queue : i # 1 => i - 1 \in DOMAIN queue' /\ queue'[i - 1] = queue[i]
    BY <1>1
  <2>. QED BY <1>1, <2>1, Taken
<1>. QED BY <1>2 DEF QueueKeeps

LEMMA QueueUnchanged == ASSUME UNCHANGED queue, NEW q PROVE QueueKeeps(q)
BY DEF QueueKeeps

-----------------------------------------------------------------------------
\* The three ways in which a step of the abstract pipeline, or none, can change phases.
Stays == \A q \in RunId : Phase(q)' = Phase(q)
Moves(r, from, to) ==
    Phase(r) \in from /\ Phase(r)' = to /\ \A q \in RunId \ {r} : Phase(q)' = Phase(q)
Drops(S) ==
    \A q \in RunId : IF q \in S THEN Phase(q) # "delivered" /\ Phase(q)' = "dropped"
                    ELSE Phase(q)' = Phase(q)

PipelineStep ==
    \/ Stays
    \/ \E r \in RunId :
         \/ Moves(r, {"absent"}, "asked") \/ Moves(r, {"absent", "asked"}, "executing")
         \/ Moves(r, {"executing"}, "recorded") \/ Moves(r, {"recorded"}, "judged")
         \/ Moves(r, {"judged"}, "delivered")
    \/ \E S \in SUBSET RunId : Drops(S)

InStep == IInv /\ IInv' /\ HolderTells /\ HolderTells'
Keeps(q) == QueueKeeps(q) /\ ThreadsKeep(q) /\ RestKeeps(q)

\* Nobody has the run any more, and it was not delivered.
LetGo(q) == Exists(q)' /\ web'[q] = "none" /\ FreeOfWorker(q)' /\ delivered'[q] = 0

LEMMA PhasesStay ==
    ASSUME InStep, \A q \in RunId : Keeps(q) PROVE PipelineStep
BY PhaseKept DEF InStep, Keeps, Stays, PipelineStep

LEMMA PhaseMoves ==
    ASSUME InStep, NEW r \in RunId, NEW from, NEW to, Phase(r) \in from, Phase(r)' = to,
           \A q \in RunId \ {r} : Keeps(q)
    PROVE  Moves(r, from, to)
BY PhaseKept DEF InStep, Keeps, Moves

LEMMA PhasesDrop ==
    ASSUME InStep, NEW S \in SUBSET RunId, \A q \in S : Phase(q) # "delivered" /\ LetGo(q),
           \A q \in RunId \ S : Keeps(q)
    PROVE  PipelineStep
<1>1. \A q \in S : Phase(q)' = "dropped"
  BY DEF LetGo, InStep, HolderTells
<1>2. \A q \in RunId \ S : Phase(q)' = Phase(q)
  BY PhaseKept DEF InStep, Keeps
<1>. QED BY <1>1, <1>2 DEF Drops, PipelineStep

LEMMA RunDrops ==
    ASSUME InStep, NEW r \in RunId, Phase(r) # "delivered", LetGo(r), \A q \in RunId \ {r} : Keeps(q)
    PROVE  PipelineStep
<1>. DEFINE S == {r}
<1>1. /\ S \in SUBSET RunId /\ \A q \in S : Phase(q) # "delivered" /\ LetGo(q)
      /\ \A q \in RunId \ S : Keeps(q)
  OBVIOUS
<1>. HIDE DEF S
<1>. QED BY <1>1, PhasesDrop

LEMMA ThreadsSame == ASSUME UNCHANGED job, NEW q PROVE ThreadsKeep(q)
BY DEF ThreadsKeep

LEMMA ThreadChanges ==
    ASSUME TypeOK, NEW w \in Worker, NEW t, job' = [job EXCEPT ![w] = t],
           NEW q, job[w][2] # q \/ job[w][1] \notin RunOps, t[2] # q \/ t[1] \notin RunOps
    PROVE  ThreadsKeep(q)
<1>1. job'[w] = t /\ \A v \in Worker \ {w} : job'[v] = job[v]
  BY DEF TypeOK
<1>. QED BY <1>1 DEF ThreadsKeep, Works

LEMMA RestSame == ASSUME UNCHANGED <<web, delivered, row>>, NEW q PROVE RestKeeps(q)
BY DEF RestKeeps, Exists

LEMMA StillThere ==
    ASSUME TypeOK, NEW r \in RunId, Exists(r), NEW x \in Row, row' = [row EXCEPT ![r] = x]
    PROVE  \A q \in RunId : Exists(q)' <=> Exists(q)
BY RowWritten DEF Exists

LEMMA StatusOnly ==
    ASSUME TypeOK, NEW r \in RunId, Exists(r), NEW st \in RunStatus, SetStatus(r, st)
    PROVE  \A q \in RunId : Exists(q)' <=> Exists(q)
BY StillThere, RowKinds, RowValues DEF SetStatus

LEMMA WorkerHas ==
    ASSUME IInv, NEW q \in RunId, NEW w \in Worker, Works(w, q)
    PROVE  /\ web[q] = "none" /\ Exists(q) /\ delivered[q] = 0
           /\ \A i \in DOMAIN queue : ~Follows(i, q)
           /\ \A v \in Worker : Works(v, q) => v = w
BY DEF IInv, TypeOK, Custody, OneThread, ThreadOrQueue, CoroutineAlone, DoneIsFree, AbsentIsFree, FreeOfWorker

LEMMA CoroutineHas ==
    ASSUME IInv, NEW q \in RunId, web[q] # "none"
    PROVE  FreeOfWorker(q) /\ Exists(q) /\ delivered[q] = 0
BY DEF IInv, TypeOK, Custody, CoroutineAlone, DoneIsFree, AbsentIsFree

-----------------------------------------------------------------------------
\* The steps that concern no run's holder.
LEMMA RequestSteps ==
    ASSUME InStep, NEW s \in Scraper, SetEnabled(s) \/ McpRun(s) \/ CronMatch(s)
    PROVE  PipelineStep
<1>t. TypeOK
  BY DEF InStep, IInv
<1>1. UNCHANGED <<web, delivered, row, job>>
  BY DEF SetEnabled, McpRun, CronMatch
<1>2. UNCHANGED queue \/ \E t \in {"fire", "run"} \X Scraper : queue' = Append(queue, t)
  BY DEF SetEnabled, McpRun, CronMatch
<1>3. \A q \in RunId : QueueKeeps(q)
  BY <1>t, <1>2, QueueUnchanged, QueueAppended DEF Task
<1>. QED BY <1>1, <1>3, ThreadsSame, RestSame, PhasesStay DEF Keeps

LEMMA CancelSteps ==
    ASSUME InStep, NEW r \in RunId, CancelSignal(r) \/ CancelCommit(r) \/ ChildEnds(r)
    PROVE  PipelineStep
<1>t. TypeOK
  BY DEF InStep, IInv
<1>1. UNCHANGED <<web, delivered, queue, job>>
  BY DEF CancelSignal, CancelCommit, ChildEnds
<1>2. \A q \in RunId : Exists(q)' <=> Exists(q)
  <2>1. CASE UNCHANGED row
    BY <2>1 DEF Exists
  <2>2. CASE CancelCommit(r)
    <3>1. Exists(r) /\ SetStatus(r, "cancelled")
      BY <1>t, <2>2 DEF CancelCommit, TypeOK, Rows
    <3>. QED BY <1>t, <3>1, StatusOnly DEF RunStatus
  <2>. QED BY <2>1, <2>2 DEF CancelSignal, ChildEnds
<1>. QED BY <1>1, <1>2, QueueUnchanged, ThreadsSame, PhasesStay DEF Keeps, RestKeeps

LEMMA GateSteps ==
    ASSUME InStep, NEW w \in Worker, FireGate(w) \/ FireEnqueue(w)
    PROVE  PipelineStep
<1>t. TypeOK
  BY DEF InStep, IInv
<1>1. UNCHANGED <<web, delivered, row>> /\ job[w][1] \notin RunOps
  BY DEF FireGate, FireEnqueue, RunOps, Judgement
<1>2. UNCHANGED queue \/ \E t \in {"fire", "run"} \X Scraper : queue' = Append(queue, t)
  BY DEF FireGate, FireEnqueue
<1>3. \E t \in ({"enqueue"} \X Scraper) \cup {Idle} : job' = [job EXCEPT ![w] = t]
  BY DEF FireGate, FireEnqueue
<1>4. \A q \in RunId : QueueKeeps(q)
  BY <1>t, <1>2, QueueUnchanged, QueueAppended DEF Task
<1>5. \A t \in ({"enqueue"} \X Scraper) \cup {Idle} : t[1] \notin RunOps
  BY DEF Idle, RunOps, Judgement
<1>6. \A q \in RunId : ThreadsKeep(q)
  BY <1>t, <1>1, <1>3, <1>5, ThreadChanges
<1>. QED BY <1>1, <1>4, <1>6, RestSame, PhasesStay DEF Keeps

-----------------------------------------------------------------------------
\* New rows.
LEMMA FreshPhase ==
    ASSUME InStep, NEW r \in RunId, Fresh(r), NEW x \in Row, row' = [row EXCEPT ![r] = x]
    PROVE  /\ Phase(r) = "absent" /\ web[r] = "none" /\ FreeOfWorker(r) /\ delivered[r] = 0
           /\ Exists(r)' /\ \A q \in RunId \ {r} : Exists(q)' <=> Exists(q)
<1>1. ~Exists(r) /\ TypeOK
  BY DEF Fresh, InStep, IInv
<1>2. web[r] = "none" /\ FreeOfWorker(r) /\ delivered[r] = 0
  BY <1>1 DEF InStep, IInv, Custody, AbsentIsFree
<1>3. Exists(r)' /\ \A q \in RunId \ {r} : Exists(q)' <=> Exists(q)
  BY <1>1, RowWritten DEF Exists
<1>. QED BY <1>1, <1>2, <1>3 DEF InStep, HolderTells

LEMMA EnqueueRunStep == ASSUME InStep, NEW s \in Scraper, EnqueueRun(s) PROVE PipelineStep
<1>. PICK r \in RunId : EnqueueRun(s)!(r)
  BY DEF EnqueueRun
<1>1. Phase(r) = "absent" /\ \A q \in RunId \ {r} : Exists(q)' <=> Exists(q)
  BY NewRows, FreshPhase DEF RunStatus
<1>2. web'[r] = "dispatched" /\ \A q \in RunId \ {r} : web'[q] = web[q]
  BY DEF InStep, IInv, TypeOK
<1>3. Phase(r)' = "asked"
  BY <1>2 DEF InStep, HolderTells
<1>4. \A q \in RunId \ {r} : Keeps(q)
  BY <1>1, <1>2, QueueUnchanged, ThreadsSame DEF Keeps, RestKeeps
<1>. QED BY <1>1, <1>3, <1>4, PhaseMoves DEF PipelineStep

\* A rerun is asked for and dropped in one step.
LEMMA RerunStep == ASSUME InStep, NEW old \in RunId, Rerun(old) PROVE PipelineStep
<1>. PICK r \in RunId : Rerun(old)!(r)
  BY DEF Rerun
<1>1. NewRow(row[old].scraper, "queued") \in Row
  BY NewRows, RowKinds DEF RunStatus, InStep, IInv, Row
<1>2. /\ Phase(r) = "absent" /\ web[r] = "none" /\ FreeOfWorker(r) /\ delivered[r] = 0
      /\ Exists(r)' /\ \A q \in RunId \ {r} : Exists(q)' <=> Exists(q)
  BY <1>1, FreshPhase
<1>3. UNCHANGED <<web, queue, job, delivered>>
  OBVIOUS
<1>4. FreeOfWorker(r)'
  BY <1>2, <1>3 DEF FreeOfWorker, Works, Follows
<1>5. \A q \in RunId \ {r} : Keeps(q)
  BY <1>2, <1>3, QueueUnchanged, ThreadsSame DEF Keeps, RestKeeps
<1>6. Phase(r) # "delivered" /\ LetGo(r)
  BY <1>2, <1>3, <1>4 DEF LetGo
<1>. QED BY <1>5, <1>6, RunDrops

-----------------------------------------------------------------------------
\* The web server's coroutines.
LEMMA CoroutineLets ==
    ASSUME InStep, NEW r \in RunId, web[r] # "none", web'[r] = "none",
           UNCHANGED <<queue, job, delivered>>, Exists(r)'
    PROVE  Phase(r) # "delivered" /\ LetGo(r)
<1>1. FreeOfWorker(r) /\ delivered[r] = 0
  BY CoroutineHas DEF InStep
<1>2. FreeOfWorker(r)'
  BY <1>1 DEF FreeOfWorker, Works, Follows
<1>3. web[r] \in {"dispatched", "child", "recorded"}
  BY DEF InStep, IInv, TypeOK, WebPoint
<1>. QED BY <1>1, <1>2, <1>3 DEF LetGo, InStep, HolderTells

LEMMA AdoptRunStep == ASSUME InStep, NEW r \in RunId, AdoptRun(r) PROVE PipelineStep
<1>. USE DEF AdoptRun
<1>1. TypeOK /\ Exists(r)
  BY CoroutineHas DEF InStep, IInv
<1>2. \A q \in RunId : Exists(q)' <=> Exists(q)
  BY <1>1, StatusOnly DEF RunStatus
<1>3. web'[r] = "child" /\ \A q \in RunId \ {r} : web'[q] = web[q]
  BY <1>1 DEF TypeOK
<1>4. Phase(r) = "asked" /\ Phase(r)' = "executing"
  BY <1>3 DEF InStep, HolderTells
<1>5. \A q \in RunId \ {r} : Keeps(q)
  BY <1>2, <1>3, QueueUnchanged, ThreadsSame DEF Keeps, RestKeeps
<1>. QED BY <1>4, <1>5, PhaseMoves DEF PipelineStep

LEMMA RecordOutcomeWebStep == ASSUME InStep, NEW r \in RunId, RecordOutcomeWeb(r) PROVE PipelineStep
<1>1. TypeOK /\ Exists(r) /\ row[r] \in Row
  BY CoroutineHas, RowKinds DEF InStep, IInv, RecordOutcomeWeb
<1>2. PICK o \in Outcome(r) :
         /\ row' = [row EXCEPT ![r] = Recorded(@, o)]
         /\ web' = [web EXCEPT ![r] = IF o[1] = "cancelled" THEN "none" ELSE "recorded"]
  BY DEF RecordOutcomeWeb
<1>3. Recorded(row[r], o) \in Row
  BY <1>1, RowValues
<1>4. \A q \in RunId : Exists(q)' <=> Exists(q)
  <2>. DEFINE x == Recorded(row[r], o)
  <2>1. x \in Row /\ row' = [row EXCEPT ![r] = x]
    BY <1>2, <1>3
  <2>. HIDE DEF x
  <2>. QED BY <1>1, <2>1, StillThere
<1>5. UNCHANGED <<queue, job, delivered>> /\ web[r] = "child"
  BY DEF RecordOutcomeWeb
<1>6. \A q \in RunId \ {r} : Keeps(q)
  <2>1. \A q \in RunId \ {r} : web'[q] = web[q]
    BY <1>1, <1>2 DEF TypeOK
  <2>. QED BY <1>4, <1>5, <2>1, QueueUnchanged, ThreadsSame DEF Keeps, RestKeeps
<1>7. CASE o[1] = "cancelled"
  <2>1. web'[r] = "none"
    BY <1>1, <1>2, <1>7 DEF TypeOK
  <2>2. Phase(r) # "delivered" /\ LetGo(r)
    BY <1>1, <1>4, <1>5, <2>1, CoroutineLets
  <2>. QED BY <1>6, <2>2, RunDrops
<1>8. CASE o[1] # "cancelled"
  <2>1. web'[r] = "recorded"
    BY <1>1, <1>2, <1>8 DEF TypeOK
  <2>2. Phase(r) = "executing" /\ Phase(r)' = "recorded"
    BY <1>5, <2>1 DEF InStep, HolderTells
  <2>. QED BY <1>6, <2>2, PhaseMoves DEF PipelineStep
<1>. QED BY <1>7, <1>8

LEMMA FailWebStep == ASSUME InStep, NEW r \in RunId, FailWeb(r) PROVE PipelineStep
<1>1. web[r] # "none" /\ UNCHANGED <<queue, job, delivered>> /\ web' = [web EXCEPT ![r] = "none"]
  BY DEF FailWeb
<1>2. TypeOK /\ Exists(r)
  BY <1>1, CoroutineHas DEF InStep, IInv
<1>3. \A q \in RunId : Exists(q)' <=> Exists(q)
  <2>1. CASE SetStatus(r, "error")
    BY <1>2, <2>1, StatusOnly DEF RunStatus
  <2>2. CASE UNCHANGED row
    BY <2>2 DEF Exists
  <2>. QED BY <2>1, <2>2 DEF FailWeb
<1>4. web'[r] = "none" /\ \A q \in RunId \ {r} : web'[q] = web[q]
  BY <1>1, <1>2 DEF TypeOK
<1>5. Phase(r) # "delivered" /\ LetGo(r)
  BY <1>1, <1>2, <1>3, <1>4, CoroutineLets
<1>6. \A q \in RunId \ {r} : Keeps(q)
  BY <1>1, <1>3, <1>4, QueueUnchanged, ThreadsSame DEF Keeps, RestKeeps
<1>. QED BY <1>5, <1>6, RunDrops

LEMMA CrashWebStep == ASSUME InStep, CrashWeb PROVE PipelineStep
<1>1. UNCHANGED <<row, queue, job, delivered>> /\ \A q \in RunId : web'[q] = "none"
  BY DEF CrashWeb
<1>. DEFINE S == {r \in RunId : web[r] # "none"}
<1>2. \A q \in S : Exists(q)'
  BY <1>1, CoroutineHas DEF InStep, Exists
<1>3. \A q \in S : Phase(q) # "delivered" /\ LetGo(q)
  BY <1>1, <1>2, CoroutineLets
<1>4. \A q \in RunId \ S : Keeps(q)
  BY <1>1, QueueUnchanged, ThreadsSame DEF Keeps, RestKeeps, Exists
<1>. QED BY <1>3, <1>4, PhasesDrop

LEMMA FollowUpWebStep == ASSUME InStep, NEW r \in RunId, FollowUpWeb(r) PROVE PipelineStep
<1>. USE DEF FollowUpWeb
<1>t. TypeOK
  BY DEF InStep, IInv
<1>. DEFINE t == <<"validate", r>>
<1>1. t \in Task /\ t[1] = "validate" /\ t[2] = r /\ queue' = Append(queue, t)
  BY DEF Task
<1>. HIDE DEF t
<1>3. Len(queue) + 1 \in DOMAIN queue' /\ queue'[Len(queue) + 1] = t
  BY <1>t, <1>1, AppendedLast
<1>4. Phase(r) = "recorded" /\ Phase(r)' = "recorded"
  BY <1>1, <1>3 DEF InStep, HolderTells, Follows
<1>5. \A q \in RunId \ {r} : Keeps(q)
  <2>1. \A q \in RunId \ {r} : web'[q] = web[q]
    BY <1>t DEF TypeOK
  <2>2. \A q \in RunId \ {r} : QueueKeeps(q)
    BY <1>t, <1>1, QueueAppended
  <2>. QED BY <2>1, <2>2, ThreadsSame DEF Keeps, RestKeeps, Exists
<1>6. Moves(r, {"recorded"}, "recorded")
  BY <1>4, <1>5, PhaseMoves
<1>. QED BY <1>4, <1>6 DEF Moves, Stays, PipelineStep

-----------------------------------------------------------------------------
\* The worker's threads.
LEMMA ThreadLets ==
    ASSUME InStep, NEW w \in Worker, NEW r \in RunId, Works(w, r),
           UNCHANGED <<queue, web, delivered>>, Exists(r)', \A v \in Worker : Works(v, r)' => Works(v, r) /\ v # w
    PROVE  Phase(r) # "delivered" /\ LetGo(r)
<1>1. /\ web[r] = "none" /\ delivered[r] = 0 /\ \A i \in DOMAIN queue : ~Follows(i, r)
      /\ \A v \in Worker : Works(v, r) => v = w
  BY WorkerHas DEF InStep
<1>2. FreeOfWorker(r)'
  BY <1>1 DEF FreeOfWorker, Follows
<1>3. Phase(r) = StageOf(job[w][1])
  BY DEF InStep, HolderTells
<1>. QED BY <1>1, <1>2, <1>3 DEF LetGo, StageOf

\* A thread with a run moves on with it, and nothing but its row changes.
LEMMA ThreadStep ==
    ASSUME InStep, NEW w \in Worker, NEW r \in RunId, NEW from, NEW to,
           job[w] = <<from, r>>, from \in RunOps, job' = [job EXCEPT ![w] = <<to, r>>], to \in RunOps,
           UNCHANGED <<queue, web, delivered>>, \A q \in RunId : Exists(q)' <=> Exists(q)
    PROVE  Moves(r, {StageOf(from)}, StageOf(to))
<1>1. job'[w] = <<to, r>> /\ \A v \in Worker \ {w} : job'[v] = job[v]
  BY DEF InStep, IInv, TypeOK
<1>2. Works(w, r) /\ Works(w, r)'
  BY <1>1 DEF Works
<1>3. Phase(r) = StageOf(from)
  BY <1>2 DEF InStep, HolderTells
<1>4. Phase(r)' = StageOf(to)
  <2>1. Phase(r)' = StageOf(job'[w][1])
    BY <1>2 DEF InStep, HolderTells, StageOf
  <2>. QED BY <1>1, <2>1
<1>5. \A q \in RunId \ {r} : Keeps(q)
  <2>1. \A q \in RunId \ {r} : ThreadsKeep(q)
    BY <1>1 DEF ThreadsKeep, Works
  <2>. QED BY <2>1, QueueUnchanged DEF Keeps, RestKeeps
<1>. QED BY <1>3, <1>4, <1>5, PhaseMoves

\* A thread that hands its run over through the queue.
LEMMA HandOverStep ==
    ASSUME InStep, NEW w \in Worker, NEW r \in RunId, NEW from, NEW op \in {"validate", "deliver"},
           job[w] = <<from, r>>, from \in RunOps, job' = [job EXCEPT ![w] = Idle],
           queue' = Append(queue, <<op, r>>), UNCHANGED <<row, web, delivered>>,
           StageOf(from) = IF op = "validate" THEN "recorded" ELSE "judged"
    PROVE  PipelineStep
<1>t. TypeOK
  BY DEF InStep, IInv
<1>. DEFINE t == <<op, r>>
<1>1. t \in Task /\ t[1] = op /\ t[2] = r /\ queue' = Append(queue, t)
  BY DEF Task
<1>. HIDE DEF t
<1>2. Len(queue) + 1 \in DOMAIN queue' /\ queue'[Len(queue) + 1] = t
  BY <1>t, <1>1, AppendedLast
<1>3. Phase(r) = StageOf(from)
  BY DEF InStep, HolderTells, Works
<1>4. Phase(r)' = IF op = "validate" THEN "recorded" ELSE "judged"
  BY <1>1, <1>2 DEF InStep, HolderTells, Follows
<1>5. \A q \in RunId \ {r} : Keeps(q)
  <2>1. \A q \in RunId \ {r} : QueueKeeps(q)
    BY <1>t, <1>1, QueueAppended
  <2>2. job'[w] = Idle /\ \A v \in Worker \ {w} : job'[v] = job[v]
    BY <1>t DEF TypeOK
  <2>3. \A q \in RunId \ {r} : ThreadsKeep(q)
    BY <2>2 DEF ThreadsKeep, Works, Idle, RunOps, Judgement
  <2>. QED BY <2>1, <2>3, RestSame DEF Keeps
<1>6. Phase(r)' = Phase(r)
  BY <1>3, <1>4
<1>. QED BY <1>5, <1>6, PhaseKept DEF InStep, Keeps, Stays, PipelineStep

LEMMA HandOverSteps == ASSUME InStep, NEW w \in Worker, FollowUp(w) \/ HandToDelivery(w) PROVE PipelineStep
<1>1. ASSUME NEW r \in RunId, FollowUp(w)!(r) PROVE PipelineStep
  BY <1>1, HandOverStep DEF RunOps, StageOf
<1>2. ASSUME NEW r \in RunId, HandToDelivery(w)!(r) PROVE PipelineStep
  BY <1>2, HandOverStep DEF RunOps, StageOf
<1>. QED BY <1>1, <1>2 DEF FollowUp, HandToDelivery

LEMMA DequeueStep == ASSUME InStep, NEW w \in Worker, Dequeue(w) PROVE PipelineStep
<1>. USE DEF Dequeue
<1>t. TypeOK
  BY DEF InStep, IInv
<1>1. queue \in Seq(Task)
  BY <1>t DEF TypeOK
<1>2. 1 \in DOMAIN queue /\ queue[1] = Head(queue) /\ queue[1] \in Task
  BY <1>1, Taken
<1>3. job'[w] = queue[1] /\ \A v \in Worker \ {w} : job'[v] = job[v]
  BY <1>t, <1>2 DEF TypeOK
<1>4. \A q \in RunId : ~Works(w, q)
  BY DEF Works, Idle, RunOps, Judgement
<1>5. \A q \in RunId : ~Follows(1, q) => Keeps(q)
  <2>1. \A q \in RunId : ~Follows(1, q) => QueueKeeps(q)
    BY <1>t, QueueTaken
  <2>2. \A q \in RunId : ~Follows(1, q) => ~Works(w, q)'
    BY <1>2, <1>3 DEF Follows, Works, Task, RunOps, Judgement
  <2>3. \A q \in RunId : ~Follows(1, q) => ThreadsKeep(q)
    BY <1>3, <1>4, <2>2 DEF ThreadsKeep
  <2>. QED BY <2>1, <2>3, RestSame DEF Keeps
<1>6. ASSUME NEW q \in RunId, Follows(1, q) PROVE Phase(q)' = Phase(q)
  <2>1. Works(w, q)' /\ queue[1][1] \in {"validate", "deliver"}
    BY <1>3, <1>6 DEF Follows, Works, RunOps
  <2>2. Phase(q) = IF queue[1][1] = "validate" THEN "recorded" ELSE "judged"
    BY <1>2, <1>6 DEF InStep, HolderTells
  <2>3. Phase(q)' = StageOf(job'[w][1])
    BY <2>1 DEF InStep, HolderTells, StageOf
  <2>. QED BY <1>3, <2>1, <2>2, <2>3 DEF StageOf
<1>. QED BY <1>5, <1>6, PhaseKept DEF InStep, Keeps, Stays, PipelineStep

LEMMA BeginRunStep == ASSUME InStep, NEW w \in Worker, BeginRun(w) PROVE PipelineStep
<1>. PICK s \in Scraper, r \in RunId : BeginRun(w)!(s, r)
  BY DEF BeginRun
<1>1. Phase(r) = "absent" /\ \A q \in RunId \ {r} : Exists(q)' <=> Exists(q)
  BY NewRows, FreshPhase DEF RunStatus
<1>2. job'[w] = <<"child", r>> /\ \A v \in Worker \ {w} : job'[v] = job[v]
  BY DEF InStep, IInv, TypeOK
<1>3. Phase(r)' = "executing"
  <2>1. Works(w, r)'
    BY <1>2 DEF Works, RunOps
  <2>2. Phase(r)' = StageOf(job'[w][1])
    BY <2>1 DEF InStep, HolderTells, StageOf
  <2>. QED BY <1>2, <2>2 DEF StageOf
<1>4. \A q \in RunId \ {r} : Keeps(q)
  <2>1. \A q \in RunId \ {r} : ThreadsKeep(q)
    BY <1>2 DEF ThreadsKeep, Works, RunOps, Judgement
  <2>. QED BY <1>1, <2>1, QueueUnchanged DEF Keeps, RestKeeps
<1>. QED BY <1>1, <1>3, <1>4, PhaseMoves DEF PipelineStep

LEMMA RecordOutcomeStep == ASSUME InStep, NEW w \in Worker, RecordOutcome(w) PROVE PipelineStep
<1>1. PICK r \in RunId : RecordOutcome(w)!(r)
  BY DEF RecordOutcome
<1>2. PICK o \in Outcome(r) :
         /\ row' = [row EXCEPT ![r] = Recorded(@, o)]
         /\ job' = [job EXCEPT ![w] = IF o[1] = "cancelled" THEN Idle ELSE <<"recorded", r>>]
  BY <1>1
<1>3. job[w] = <<"child", r>> /\ Works(w, r) /\ UNCHANGED <<queue, web, delivered>>
  BY <1>1 DEF Works, RunOps
<1>4. TypeOK /\ Exists(r) /\ row[r] \in Row
  BY <1>3, WorkerHas, RowKinds DEF InStep, IInv
<1>5. \A q \in RunId : Exists(q)' <=> Exists(q)
  <2>. DEFINE x == Recorded(row[r], o)
  <2>1. x \in Row /\ row' = [row EXCEPT ![r] = x]
    BY <1>2, <1>4, RowValues
  <2>. HIDE DEF x
  <2>. QED BY <1>4, <2>1, StillThere
<1>6. CASE o[1] = "cancelled"
  <2>1. job'[w] = Idle /\ \A v \in Worker \ {w} : job'[v] = job[v]
    BY <1>2, <1>4, <1>6 DEF TypeOK
  <2>2. \A q \in RunId : ~Works(w, q)'
    BY <2>1 DEF Works, Idle, RunOps, Judgement
  <2>3. \A v \in Worker : Works(v, r)' => Works(v, r) /\ v # w
    BY <2>1, <2>2 DEF Works
  <2>4. Phase(r) # "delivered" /\ LetGo(r)
    BY <1>3, <1>4, <1>5, <2>3, ThreadLets
  <2>5. \A q \in RunId \ {r} : ThreadsKeep(q)
    BY <1>3, <2>1, <2>2 DEF ThreadsKeep, Works
  <2>6. \A q \in RunId \ {r} : Keeps(q)
    BY <1>3, <1>5, <2>5, QueueUnchanged DEF Keeps, RestKeeps
  <2>. QED BY <2>4, <2>6, RunDrops
<1>7. CASE o[1] # "cancelled"
  <2>1. job' = [job EXCEPT ![w] = <<"recorded", r>>]
    BY <1>2, <1>7
  <2>2. "child" \in RunOps /\ "recorded" \in RunOps
    BY DEF RunOps
  <2>3. StageOf("child") = "executing" /\ StageOf("recorded") = "recorded"
    BY DEF StageOf
  <2>4. Moves(r, {StageOf("child")}, StageOf("recorded"))
    BY <1>3, <1>5, <2>1, <2>2, ThreadStep
  <2>. QED BY <2>3, <2>4 DEF PipelineStep
<1>. QED BY <1>6, <1>7

LEMMA ValidateReadStep == ASSUME InStep, NEW w \in Worker, ValidateRead(w) PROVE PipelineStep
<1>1. PICK r \in RunId, op \in Judgement \cup {"validated"} :
        /\ job[w] = <<"validate", r>> /\ job' = [job EXCEPT ![w] = <<op, r>>]
        /\ UNCHANGED <<row, queue, web, delivered>>
  BY DEF ValidateRead, Judgement
<1>2. "validate" \in RunOps /\ op \in RunOps
  BY DEF RunOps
<1>3. StageOf("validate") = "recorded" /\ StageOf(op) \in {"recorded", "judged"}
  BY DEF StageOf, Judgement
<1>4. Moves(r, {StageOf("validate")}, StageOf(op))
  BY <1>1, <1>2, ThreadStep DEF Exists
<1>5. CASE StageOf(op) = "judged"
  BY <1>3, <1>4, <1>5 DEF PipelineStep
<1>6. CASE StageOf(op) = "recorded"
  BY <1>3, <1>4, <1>6 DEF Moves, Stays, PipelineStep
<1>. QED BY <1>3, <1>5, <1>6

LEMMA ValidateCommitStep == ASSUME InStep, NEW w \in Worker, ValidateCommit(w) PROVE PipelineStep
<1>1. PICK r \in RunId :
        /\ job[w] \in Judgement \X {r} /\ job' = [job EXCEPT ![w] = <<"validated", r>>]
        /\ row' = [row EXCEPT ![r] = Judged(@, job[w][1])]
        /\ UNCHANGED <<queue, web, delivered>>
  BY DEF ValidateCommit
<1>. DEFINE op == job[w][1]
<1>2. job[w] = <<op, r>> /\ op \in Judgement
  BY <1>1
<1>. HIDE DEF op
<1>3. op \in RunOps /\ "validated" \in RunOps /\ Works(w, r)
  BY <1>2 DEF RunOps, Works
<1>4. TypeOK /\ Exists(r) /\ row[r] \in Row
  BY <1>3, WorkerHas, RowKinds DEF InStep, IInv
<1>5. \A q \in RunId : Exists(q)' <=> Exists(q)
  <2>. DEFINE x == Judged(row[r], op)
  <2>1. x \in Row /\ row' = [row EXCEPT ![r] = x]
    BY <1>1, <1>2, <1>4, RowValues DEF op
  <2>. HIDE DEF x
  <2>. QED BY <1>4, <2>1, StillThere
<1>6. Moves(r, {StageOf(op)}, StageOf("validated"))
  BY <1>1, <1>2, <1>3, <1>5, ThreadStep
<1>7. StageOf(op) = "recorded" /\ StageOf("validated") = "judged"
  BY <1>2 DEF StageOf, Judgement
<1>. QED BY <1>6, <1>7 DEF PipelineStep

LEMMA DeliverStep == ASSUME InStep, NEW w \in Worker, Deliver(w) PROVE PipelineStep
<1>. PICK r \in RunId : Deliver(w)!(r)
  BY DEF Deliver
<1>t. TypeOK
  BY DEF InStep, IInv
<1>1. Works(w, r)
  BY DEF Works, RunOps
<1>2. /\ web[r] = "none" /\ Exists(r) /\ delivered[r] = 0 /\ \A i \in DOMAIN queue : ~Follows(i, r)
      /\ \A v \in Worker : Works(v, r) => v = w
  BY <1>1, WorkerHas DEF InStep
<1>3. job'[w] = Idle /\ \A v \in Worker \ {w} : job'[v] = job[v]
  BY <1>t DEF TypeOK
<1>4. \A q \in RunId : ~Works(w, q)'
  BY <1>3 DEF Works, Idle, RunOps, Judgement
<1>5. delivered'[r] = 1 /\ \A q \in RunId \ {r} : delivered'[q] = delivered[q]
  BY <1>t, <1>2 DEF TypeOK
<1>6. FreeOfWorker(r)' /\ Exists(r)'
  BY <1>2, <1>3, <1>4 DEF FreeOfWorker, Works, Follows, Exists
<1>7. Phase(r)' = "delivered"
  BY <1>2, <1>5, <1>6 DEF InStep, HolderTells
<1>8. Phase(r) = "judged"
  BY <1>1 DEF InStep, HolderTells, StageOf
<1>9. \A q \in RunId \ {r} : Keeps(q)
  <2>1. \A q \in RunId \ {r} : ThreadsKeep(q)
    BY <1>3 DEF ThreadsKeep, Works, Idle, RunOps, Judgement
  <2>. QED BY <1>5, <2>1, QueueUnchanged DEF Keeps, RestKeeps, Exists
<1>. QED BY <1>7, <1>8, <1>9, PhaseMoves DEF PipelineStep

\* A thread, or all of them, dies with what it has.
LEMMA ThreadsDie ==
    ASSUME InStep, NEW W \in SUBSET Worker, UNCHANGED <<row, queue, web, delivered>>,
           \A w \in Worker : job'[w] = IF w \in W THEN Idle ELSE job[w]
    PROVE  PipelineStep
<1>1. \A w \in W, q \in RunId : ~Works(w, q)'
  BY DEF Works, Idle, RunOps, Judgement
<1>. DEFINE S == {r \in RunId : \E w \in W : Works(w, r)}
<1>2. ASSUME NEW r \in S PROVE Phase(r) # "delivered" /\ LetGo(r)
  <2>1. PICK w \in W : Works(w, r)
    OBVIOUS
  <2>2. \A v \in Worker : Works(v, r)' => Works(v, r) /\ v # w
    BY <1>1 DEF Works
  <2>3. Exists(r)'
    BY <2>1, WorkerHas DEF InStep, Exists
  <2>. QED BY <2>1, <2>2, <2>3, ThreadLets
<1>3. \A q \in RunId \ S : Keeps(q)
  <2>1. \A q \in RunId \ S : ThreadsKeep(q)
    BY <1>1 DEF ThreadsKeep
  <2>. QED BY <2>1, QueueUnchanged, RestSame DEF Keeps
<1>. HIDE DEF S
<1>4. S \in SUBSET RunId
  BY DEF S
<1>. QED BY <1>2, <1>3, <1>4, PhasesDrop

LEMMA WorkerFaults ==
    ASSUME InStep, CrashWorker \/ \E w \in Worker : TaskFails(w)
    PROVE  PipelineStep
<1>1. CASE CrashWorker
  <2>. DEFINE W == Worker
  <2>1. /\ W \in SUBSET Worker /\ UNCHANGED <<row, queue, web, delivered>>
        /\ \A w \in Worker : job'[w] = IF w \in W THEN Idle ELSE job[w]
    BY <1>1 DEF CrashWorker
  <2>. HIDE DEF W
  <2>. QED BY <2>1, ThreadsDie
<1>2. ASSUME NEW v \in Worker, TaskFails(v) PROVE PipelineStep
  <2>. DEFINE W == {v}
  <2>1. /\ W \in SUBSET Worker /\ UNCHANGED <<row, queue, web, delivered>>
        /\ \A w \in Worker : job'[w] = IF w \in W THEN Idle ELSE job[w]
    BY <1>2 DEF TaskFails, InStep, IInv, TypeOK
  <2>. HIDE DEF W
  <2>. QED BY <2>1, ThreadsDie
<1>. QED BY <1>1, <1>2

-----------------------------------------------------------------------------
\* Every step moves the phases as a step of the pipeline does, or leaves them.
LEMMA StepsOfPipeline == IInv /\ [Next]_vars => PipelineStep
<1>. SUFFICES ASSUME IInv, [Next]_vars PROVE PipelineStep
  OBVIOUS
<1>0. InStep
  BY HoldersBeforeAndAfter DEF InStep
<1>1. ASSUME NEW s \in Scraper, SetEnabled(s) \/ EnqueueRun(s) \/ McpRun(s) \/ CronMatch(s)
      PROVE  PipelineStep
  BY <1>0, <1>1, RequestSteps, EnqueueRunStep
<1>2. ASSUME NEW r \in RunId,
             Rerun(r) \/ CancelSignal(r) \/ WebStep(r) \/ ChildEnds(r) \/ FailWeb(r)
      PROVE  PipelineStep
  BY <1>0, <1>2, RerunStep, CancelSteps, AdoptRunStep, RecordOutcomeWebStep, FollowUpWebStep,
     FailWebStep DEF WebStep
<1>3. ASSUME NEW w \in Worker, WorkerStep(w) \/ TaskFails(w)
      PROVE  PipelineStep
  BY <1>0, <1>3, DequeueStep, GateSteps, BeginRunStep, RecordOutcomeStep, HandOverSteps,
     ValidateReadStep, ValidateCommitStep, DeliverStep, WorkerFaults DEF WorkerStep
<1>4. CASE CrashWeb \/ CrashWorker
  BY <1>0, <1>4, CrashWebStep, WorkerFaults
<1>5. CASE UNCHANGED vars
  BY <1>0, <1>5, QueueUnchanged, ThreadsSame, RestSame, PhasesStay DEF vars, Keeps
<1>. QED BY <1>1, <1>2, <1>3, <1>4, <1>5 DEF Next

\* A run is asked for, executed, recorded, judged and delivered in this order and
\* each at most once, and nothing takes up again what a crash, an error or a
\* cancelled child dropped: RunLifecycle implements RunPipeline.
THEOREM ImplementsPipeline == Spec => PipelineOnce
<1>1. Init => Pipeline!Init
  <2>1. IInv => (Init => \A r \in RunId : Phase(r) = "absent")
    BY PhasesOfHolders DEF HolderTells, Init, Exists
  <2>. QED BY <2>1, InitIInv DEF Pipeline!Init
<1>2. PipelineStep => [Pipeline!Next]_([r \in RunId |-> Phase(r)])
  <2>. DEFINE phase == [r \in RunId |-> Phase(r)]
  <2>1. Stays => UNCHANGED phase
    BY DEF Stays
  <2>2. ASSUME NEW r \in RunId, NEW from, NEW to, Moves(r, from, to)
        PROVE  Pipeline!Move(r, from, to)
    BY <2>2 DEF Moves, Pipeline!Move
  <2>3. ASSUME NEW S \in SUBSET RunId, Drops(S)
        PROVE  Pipeline!Drop(S)
    BY <2>3 DEF Drops, Pipeline!Drop
  <2>. QED BY <2>1, <2>2, <2>3
       DEF PipelineStep, Pipeline!Next, Pipeline!Ask, Pipeline!Execute, Pipeline!Record, Pipeline!Judge,
           Pipeline!Deliver
<1>. QED BY <1>1, <1>2, StepsOfPipeline, Invariance, PTL DEF Spec, PipelineOnce, Pipeline!Spec
=============================================================================
