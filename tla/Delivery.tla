------------------------------ MODULE Delivery ------------------------------
(***************************************************************************)
(* Delivering runs to their targets (delivery/base.py).  A delivery is a   *)
(* run and a target; its row says what became of it.  Three kinds of       *)
(* database session attempt deliveries:                                    *)
(*                                                                         *)
(*   - the deliver task of a run, once per run (module RunLifecycle): every *)
(*     enabled target, one after the other, one commit at the end;         *)
(*   - the sweep, retry_pending: every parked delivery that is due;        *)
(*   - a retry by hand from the web UI: one delivery, whatever its status. *)
(*                                                                         *)
(* A session reads, sends over the network, and only then writes.  Its     *)
(* first write takes the database's one write lock, which it keeps until   *)
(* it ends, over the sends to its next targets too.                        *)
(***************************************************************************)
EXTENDS Naturals, FiniteSets

CONSTANTS
    Run, Target,
    Batches,      \* into how many batches the rows of a run are split
    MaxAttempts,  \* max_attempts: sends of one session to one target
    MaxTotal,     \* max_total_attempts: when the sweep gives a delivery up
    Sweeper,      \* whether anything enqueues retry_deliveries
    MaxHand,      \* bound: retries by hand
    MaxChanges,   \* bound: runs cancelled and targets disabled meanwhile
    MaxFaults,    \* bound: process crashes and failing sessions
    MaxSends      \* bound: up to here the history counts the sends of a delivery

ASSUME DeliveryAssumption ==
    /\ Batches \in Nat \ {0}
    /\ MaxAttempts \in Nat \ {0}   \* max(1, ...) in _send_with_retry
    /\ MaxTotal \in Nat
    /\ Sweeper \in BOOLEAN
    /\ MaxHand \in Nat
    /\ MaxChanges \in Nat
    /\ MaxFaults \in Nat
    /\ MaxSends \in Nat \ {0}

VARIABLES
    kind,      \* how each target is configured
    disabled,  \* targets that were disabled
    status,    \* Run.status, as far as delivery tells it apart
    table,     \* the delivery table
    pc,        \* where each session is
    todo,      \* the deliveries a session has still to attempt
    cur,       \* the delivery a session is attempting
    tries,     \* the attempts made at it
    result,    \* what came of it
    seen,      \* the attempts of each delivery, as the session read them
    view,      \* the status of each run, as the session read it
    writes,    \* what the session wrote and did not commit yet
    writer,    \* who holds the write lock
    sends,     \* history: attempts that called the sink of a delivery, up to MaxSends
    received,  \* history: the most batches that one attempt got through
    byHand,    \* history: deliveries that were retried by hand
    changes, faults  \* how much of the bounds is used

session == <<pc, todo, cur, tries, result, seen, view, writes, writer>>
world == <<kind, disabled, status, changes, faults>>
history == <<sends, received, byHand>>
vars == <<session, world, history, table>>

Delivery == Run \X Target
Sweep == <<"sweep", 0>>
DeliverTask == {"deliver"} \X Run
HandRetry == {"hand"} \X (1..MaxHand)
Session == DeliverTask \cup HandRetry \cup {Sweep}
WebSessions == HandRetry
WorkerSessions == DeliverTask \cup {Sweep}

(***************************************************************************)
(* A target wants passed runs, or provisional ones too, or only those that *)
(* did not pass; or its sink is unknown or lacks its optional dependency.  *)
(***************************************************************************)
Kind == {"plain", "provisional", "failure", "broken"}
RunView == {"passed", "failed", "cancelled"}
DeliveryStatus == {"sent", "pending", "failed", "held"}

\* due: whether next_attempt_at has passed.
Row(st, n) == [status |-> st, attempts |-> n, due |-> FALSE]
NoRow == Row("none", 0)
Rows == [status : DeliveryStatus, attempts : Nat, due : BOOLEAN]

Nobody == <<"nobody", 0>>
None == <<"none", "none">>
Active(s) == pc[s] \in {"open", "sending", "flush"}
Written(s) == {d \in Delivery : writes[s][d] # NoRow}

-----------------------------------------------------------------------------
(***************************************************************************)
(* Helpers, and mutations of them (a mutation is a definition with a bug   *)
(* the code could plausibly have; no specification uses it).               *)
(***************************************************************************)
\* base._held: the target did not opt into this run's rows.
HeldNever(t, v) == FALSE  \* a mutation: provisional is the default
Held(t, v) == v # "passed" /\ kind[t] \notin {"provisional", "failure"}

\* deliver_one on a target for failures.
Skipped(t, v) == v = "passed" /\ kind[t] = "failure"

\* _retry_pending: what the sweep no longer attempts.
GivesUpLate(n) == n > MaxTotal  \* a mutation: off by one
GivesUp(n) == n >= MaxTotal

\* _retry_pending: what the sweep takes up.
Due == {d \in Delivery : table[d].status = "pending" /\ table[d].due}

\* What deliver_one writes: the attempts of this session on top of those it read.
AttemptsAfterOnlyMine(prior, n) == n      \* a mutation: not added up
AttemptsAfterMax(prior, n) == prior + MaxAttempts  \* a mutation: assumed, not counted
AttemptsAfter(prior, n) == prior + n

\* _send_with_retry: after n attempts that failed and may be retried.
TriesOnLate(n) == n <= MaxAttempts  \* a mutation: off by one
TriesOn(n) == n < MaxAttempts

\* _send_batches: what it may answer after the receiver got so many batches.  It
\* stops at the first batch that fails; the receiver may have got a batch whose
\* answer was lost.
AnswersOfLast(got) == {"sent", "pending", "failed"}  \* a mutation: goes on
Answers(got) == {"pending", "failed"} \cup (IF got = Batches THEN {"sent"} ELSE {})

\* deliver_run: what is left to do after a delivery came to its result.
LeftUnlessFailed(s) == IF result[s] = "failed" THEN {} ELSE todo[s]  \* a mutation
Left(s) == todo[s]

\* get_session: the lock after the sessions of S ended.
WriterAfter(S, how) == IF writer \in S THEN Nobody ELSE writer

-----------------------------------------------------------------------------
Init ==
    /\ kind \in [Target -> Kind]
    /\ disabled = {}
    /\ status \in [Run -> {"passed", "failed"}]
    /\ table = [d \in Delivery |-> NoRow]
    /\ pc = [s \in Session |-> "new"]
    /\ todo = [s \in Session |-> {}]
    /\ cur = [s \in Session |-> None]
    /\ tries = [s \in Session |-> 0]
    /\ result = [s \in Session |-> "none"]
    /\ seen = [s \in Session |-> [d \in Delivery |-> 0]]
    /\ view = [s \in Session |-> [r \in Run |-> "unread"]]
    /\ writes = [s \in Session |-> [d \in Delivery |-> NoRow]]
    /\ writer = Nobody
    /\ sends = [d \in Delivery |-> 0]
    /\ received = [d \in Delivery |-> 0]
    /\ byHand = {}
    /\ changes = 0 /\ faults = 0

-----------------------------------------------------------------------------
(***************************************************************************)
(* How a session begins and ends.                                          *)
(***************************************************************************)
Begin(s, ds) ==
    /\ pc[s] = "new"
    /\ pc' = [pc EXCEPT ![s] = "open"]
    /\ todo' = [todo EXCEPT ![s] = ds]
    /\ seen' = [seen EXCEPT ![s] = [d \in Delivery |-> IF d \in ds THEN table[d].attempts ELSE 0]]

\* deliver_run loads the run before its targets, a retry by hand its delivery.
ReadRun(s, r) == view' = [view EXCEPT ![s][r] = status[r]]

\* The sessions of S are over, committed or not; each lets go of the lock.
End(S, how) ==
    /\ pc' = [s \in Session |-> IF s \notin S THEN pc[s] ELSE IF s = Sweep THEN "new" ELSE how]
    /\ todo' = [s \in Session |-> IF s \in S THEN {} ELSE todo[s]]
    /\ cur' = [s \in Session |-> IF s \in S THEN None ELSE cur[s]]
    /\ tries' = [s \in Session |-> IF s \in S THEN 0 ELSE tries[s]]
    /\ result' = [s \in Session |-> IF s \in S THEN "none" ELSE result[s]]
    /\ seen' = [s \in Session |-> IF s \in S THEN [d \in Delivery |-> 0] ELSE seen[s]]
    /\ view' = [s \in Session |-> IF s \in S THEN [r \in Run |-> "unread"] ELSE view[s]]
    /\ writes' = [s \in Session |-> IF s \in S THEN [d \in Delivery |-> NoRow] ELSE writes[s]]
    /\ writer' = WriterAfter(S, how)

-----------------------------------------------------------------------------
\* deliver_run, for every target that is enabled (repo.targets_for).
DeliverBegin(r) ==
    LET s == <<"deliver", r>> IN
    /\ Begin(s, {r} \X (Target \ disabled))
    /\ ReadRun(s, r)
    /\ UNCHANGED <<cur, tries, result, writes, writer, world, history, table>>

\* retry_pending.  (With nothing due it does nothing.)
SweepBegin ==
    /\ Sweeper /\ Due # {}
    /\ Begin(Sweep, Due)
    /\ UNCHANGED <<cur, tries, result, view, writes, writer, world, history, table>>

\* actions.retry_delivery, on any delivery there is a row of.
HandBegin(s, d) ==
    /\ s \in HandRetry /\ table[d].status # "none"
    /\ Begin(s, {d})
    /\ ReadRun(s, d[1])
    /\ byHand' = byHand \cup {d}
    /\ UNCHANGED <<cur, tries, result, writes, writer, world, sends, received, table>>

\* The sweep loads a run when it comes to the first of its deliveries; the query
\* for the rows first writes what the session changed, which takes the lock.
ViewOf(s, r) == IF view[s][r] = "unread" THEN status[r] ELSE view[s][r]
Autoflush(s, r) == view[s][r] = "unread" /\ Written(s) # {}
LoadRun(s, r) ==
    /\ view' = [view EXCEPT ![s][r] = ViewOf(s, r)]
    /\ IF Autoflush(s, r) THEN writer \in {Nobody, s} /\ writer' = s ELSE UNCHANGED writer

\* _retry_pending on a delivery it does not attempt: its target was disabled, or
\* it used up max_total_attempts.  The row is changed in the session only.
SweepGivesUp(d) ==
    /\ pc[Sweep] = "open" /\ d \in todo[Sweep]
    /\ d[2] \in disabled \/ GivesUp(seen[Sweep][d])
    /\ writes' = [writes EXCEPT ![Sweep][d] = Row("failed", seen[Sweep][d])]
    /\ todo' = [todo EXCEPT ![Sweep] = @ \ {d}]
    /\ IF d[2] \in disabled THEN UNCHANGED <<view, writer>> ELSE LoadRun(Sweep, d[1])
    /\ UNCHANGED <<pc, cur, tries, result, seen, world, history, table>>

\* deliver_one up to the first send.  What needs no send goes to the flush: a
\* held delivery, and one without a sink, which counts as an attempt.
Take(s, d) ==
    LET r == d[1]
        t == d[2]
        v == ViewOf(s, r)
        Goes(to, n, res) == /\ pc' = [pc EXCEPT ![s] = to]
                            /\ cur' = [cur EXCEPT ![s] = d]
                            /\ tries' = [tries EXCEPT ![s] = n]
                            /\ result' = [result EXCEPT ![s] = res]
    IN
    /\ pc[s] = "open" /\ d \in todo[s]
    /\ s = Sweep => t \notin disabled /\ ~GivesUp(seen[s][d])
    /\ LoadRun(s, r)
    /\ todo' = [todo EXCEPT ![s] = @ \ {d}]
    /\ CASE Skipped(t, v) -> UNCHANGED <<pc, cur, tries, result>>
         [] Held(t, v) -> Goes("flush", 0, "held")
         [] ~Held(t, v) /\ kind[t] = "broken" -> Goes("flush", 1, "failed")
         [] OTHER -> Goes("sending", 0, "none")
    /\ UNCHANGED <<seen, writes, world, history, table>>

\* One round of _send_with_retry.  A retryable failure is tried again up to
\* max_attempts, any other ends the attempts.
Attempt(s) == \E got \in 0..Batches : \E answer \in Answers(got) :
    LET d == cur[s] IN
    /\ pc[s] = "sending"
    /\ sends' = [sends EXCEPT ![d] = IF @ < MaxSends THEN @ + 1 ELSE @]
    /\ received' = [received EXCEPT ![d] = IF got > @ THEN got ELSE @]
    /\ tries' = [tries EXCEPT ![s] = @ + 1]
    /\ IF answer = "pending" /\ TriesOn(tries[s] + 1)
         THEN UNCHANGED <<pc, result>>
         ELSE /\ pc' = [pc EXCEPT ![s] = "flush"]
              /\ result' = [result EXCEPT ![s] = answer]
    /\ UNCHANGED <<todo, cur, seen, view, writes, writer, world, byHand, table>>

\* deliver_one, the rest: the row is written to the database, which takes the
\* write lock unless the session has it.
Flush(s) ==
    LET d == cur[s] IN
    /\ pc[s] = "flush" /\ writer \in {Nobody, s}
    /\ writes' = [writes EXCEPT ![s][d] = Row(result[s], AttemptsAfter(seen[s][d], tries[s]))]
    /\ writer' = s
    /\ pc' = [pc EXCEPT ![s] = "open"]
    /\ todo' = [todo EXCEPT ![s] = Left(s)]
    /\ cur' = [cur EXCEPT ![s] = None]
    /\ tries' = [tries EXCEPT ![s] = 0]
    /\ result' = [result EXCEPT ![s] = "none"]
    /\ UNCHANGED <<seen, view, world, history, table>>

\* The end of a session that got through: everything it wrote at once, over
\* whatever was committed meanwhile.
Commit(s) ==
    /\ pc[s] = "open" /\ todo[s] = {}
    /\ Written(s) = {} \/ writer \in {Nobody, s}
    /\ table' = [d \in Delivery |-> IF d \in Written(s) THEN writes[s][d] ELSE table[d]]
    /\ End({s}, "done")
    /\ UNCHANGED <<world, history>>

\* A session that waits for the lock longer than SQLite's busy timeout raises; a
\* failed flush leaves it unusable, so that all of it is rolled back.
TimesOut(s) ==
    /\ \/ pc[s] = "flush"
       \/ pc[s] = "open" /\ Written(s) # {} /\ (todo[s] = {} \/ \E d \in todo[s] : Autoflush(s, d[1]))
    /\ writer \notin {Nobody, s}
    /\ End({s}, "lost")
    /\ UNCHANGED <<world, history, table>>

\* A session raises for another reason, or its process dies with all the sessions
\* it has.  Deliver tasks are not retried (huey retries=0).
Fault(S) ==
    /\ S # {} /\ faults < MaxFaults /\ faults' = faults + 1
    /\ End(S, "lost")
    /\ UNCHANGED <<kind, disabled, status, changes, history, table>>

SessionFails(s) == Active(s) /\ Fault({s})
CrashWorker == Fault({s \in WorkerSessions : Active(s)})
CrashWeb == Fault({s \in WebSessions : Active(s)})

-----------------------------------------------------------------------------
(***************************************************************************)
(* What happens beside the sessions.                                       *)
(***************************************************************************)
\* next_attempt_at passes.
ComesDue(d) ==
    /\ table[d].status = "pending" /\ ~table[d].due
    /\ table' = [table EXCEPT ![d].due = TRUE]
    /\ UNCHANGED <<session, world, history>>

\* actions.cancel_run commits (its session needs the lock too).
CancelRun(r) ==
    /\ changes < MaxChanges /\ changes' = changes + 1
    /\ status[r] # "cancelled" /\ writer = Nobody
    /\ status' = [status EXCEPT ![r] = "cancelled"]
    /\ UNCHANGED <<session, kind, disabled, faults, history, table>>

\* A target is disabled in the database.
DisableTarget(t) ==
    /\ changes < MaxChanges /\ changes' = changes + 1
    /\ t \notin disabled /\ writer = Nobody
    /\ disabled' = disabled \cup {t}
    /\ UNCHANGED <<session, kind, status, faults, history, table>>

SessionStep(s) ==
    \/ \E d \in todo[s] : Take(s, d)
    \/ (s = Sweep /\ \E d \in todo[s] : SweepGivesUp(d))
    \/ Attempt(s) \/ Flush(s) \/ Commit(s) \/ TimesOut(s)

Next ==
    \/ \E r \in Run : DeliverBegin(r) \/ CancelRun(r)
    \/ SweepBegin
    \/ \E s \in HandRetry, d \in Delivery : HandBegin(s, d)
    \/ \E s \in Session : SessionStep(s) \/ SessionFails(s)
    \/ \E d \in Delivery : ComesDue(d)
    \/ \E t \in Target : DisableTarget(t)
    \/ CrashWorker \/ CrashWeb

Spec == Init /\ [][Next]_vars

\* A session goes on (sends have timeouts, and so has waiting for the lock), time
\* passes, and the sweep, where something enqueues it, runs again and again.
Fairness ==
    /\ \A s \in Session : WF_vars(SessionStep(s))
    /\ \A d \in Delivery : WF_vars(ComesDue(d))
    /\ WF_vars(SweepBegin)

FairSpec == Spec /\ Fairness

-----------------------------------------------------------------------------
TypeOK ==
    /\ kind \in [Target -> Kind] /\ disabled \subseteq Target
    /\ status \in [Run -> RunView]
    /\ table \in [Delivery -> Rows \cup {NoRow}]
    /\ pc \in [Session -> {"new", "open", "sending", "flush", "done", "lost"}]
    /\ todo \in [Session -> SUBSET Delivery]
    /\ cur \in [Session -> Delivery \cup {None}]
    /\ tries \in [Session -> 0..MaxAttempts]
    /\ result \in [Session -> DeliveryStatus \cup {"none"}]
    /\ seen \in [Session -> [Delivery -> Nat]]
    /\ view \in [Session -> [Run -> RunView \cup {"unread"}]]
    /\ writes \in [Session -> [Delivery -> Rows \cup {NoRow}]]
    /\ writer \in Session \cup {Nobody}
    /\ sends \in [Delivery -> 0..MaxSends] /\ received \in [Delivery -> 0..Batches]
    /\ byHand \subseteq Delivery
    /\ changes \in 0..MaxChanges /\ faults \in 0..MaxFaults

\* A delivery recorded as sent was received, every batch of it, however many
\* sessions attempted it and whichever of them wrote last: at least once.
SentMeansReceived ==
    \A d \in Delivery : table[d].status = "sent" => received[d] = Batches

\* One target failing never stops the others (base.py:8): when the session of a
\* run has committed, every enabled target has a row, or is one for failures and
\* the run had passed.
EveryTargetHasOutcome ==
    \A r \in Run, t \in Target \ disabled :
        pc[<<"deliver", r>>] = "done" =>
            \/ table[<<r, t>>].status # "none"
            \/ kind[t] = "failure" /\ status[r] # "failed"

\* Rows go only where they were asked for: a run that did not pass reaches no
\* plain target, and one that passed no target for failures, whichever session
\* attempts it and however late.
OnlyWhereAsked ==
    \A d \in Delivery : sends[d] > 0 =>
        /\ kind[d[2]] = "plain" => status[d[1]] # "failed"
        /\ kind[d[2]] = "failure" => status[d[1]] # "passed"

\* The attempts on record were made, as far as the history counts them.  (Fewer may
\* be on record: those of a session that was lost, and those of one that another
\* session overwrote.)
RecordedAttemptsMade ==
    \A d \in Delivery : kind[d[2]] # "broken" => table[d].attempts <= sends[d] \/ sends[d] = MaxSends

\* The sweep keeps max_total_attempts, up to the attempts of its last round.
SweepKeepsLimit ==
    \A d \in Delivery \ byHand :
        table[d].attempts <= MaxAttempts + (IF MaxTotal = 0 THEN 0 ELSE MaxTotal - 1)

\* A parked delivery is settled in the end: sent, or given up.
PendingSettles == \A d \in Delivery : table[d].status = "pending" ~> table[d].status # "pending"
=============================================================================
