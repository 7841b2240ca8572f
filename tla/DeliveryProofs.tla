--------------------------- MODULE DeliveryProofs ---------------------------
(***************************************************************************)
(* The safety properties of module Delivery, for every number of runs,     *)
(* targets, batches, attempts, retries by hand and faults.                 *)
(*                                                                         *)
(* The inductive invariant IInv says what a session holds at each point    *)
(* (Custody), that a status it read is still the run's, unless that was    *)
(* cancelled (ViewsAreTrue), and, conjunct by conjunct, what the           *)
(* properties rest on while a session has not committed yet.               *)
(***************************************************************************)
EXTENDS Delivery, TLAPS

Attempting(s) == pc[s] \in {"sending", "flush"}

\* The deliveries a session still has in hand.
Touched(s) == todo[s] \cup Written(s) \cup (IF Attempting(s) THEN {cur[s]} ELSE {})

Made(d, n) == kind[d[2]] # "broken" => n <= sends[d] \/ sends[d] = MaxSends

\* The attempts on record up to which the sweep goes on.
Limit == IF MaxTotal = 0 THEN 0 ELSE MaxTotal - 1

Custody ==
    \A s \in Session :
        /\ Attempting(s) => cur[s] \in Delivery
        /\ pc[s] = "sending" => tries[s] < MaxAttempts
        /\ pc[s] = "flush" <=> result[s] # "none"
        /\ ~Active(s) => Touched(s) = {}

ViewsAreTrue ==
    \A s \in Session, r \in Run : view[s][r] # "unread" => status[r] \in {view[s][r], "cancelled"}

\* A session is sending only where the status it read lets it.
SendsWhereAsked ==
    \A s \in Session : pc[s] = "sending" =>
        LET d == cur[s]
            v == view[s][d[1]]
        IN v # "unread" /\ kind[d[2]] # "broken" /\ ~Held(d[2], v) /\ ~Skipped(d[2], v)

SentWasTaken ==
    \A s \in Session :
        /\ result[s] = "sent" => received[cur[s]] = Batches
        /\ \A d \in Delivery : writes[s][d].status = "sent" => received[d] = Batches

\* What a session read, wrote, and will write: attempts that were made.
Counted ==
    \A s \in Session :
        /\ \A d \in Delivery : Made(d, seen[s][d]) /\ Made(d, writes[s][d].attempts)
        /\ Attempting(s) => Made(cur[s], seen[s][cur[s]] + tries[s])

\* The deliver task of a run creates its rows, and any other session works on rows
\* that are there.
FirstIsDeliverRun ==
    /\ \A r \in Run : \A d \in Touched(<<"deliver", r>>) : d[1] = r
    /\ \A s \in Session \ DeliverTask : \A d \in Touched(s) : table[d].status # "none"
    /\ \A d \in Delivery : pc[<<"deliver", d[1]>>] # "done" => table[d] = NoRow

WithinLimit ==
    /\ \A s \in DeliverTask, d \in Delivery : seen[s][d] = 0
    /\ \A s \in HandRetry : Touched(s) \subseteq byHand
    /\ \A s \in Session, d \in Delivery \ byHand :
        /\ seen[s][d] <= MaxAttempts + Limit /\ writes[s][d].attempts <= MaxAttempts + Limit
        /\ Attempting(s) /\ cur[s] = d => seen[s][d] <= Limit

\* A deliver task that is under way has every enabled target in hand, or is right
\* to leave it out.
NoneForgotten ==
    \A r \in Run, t \in Target \ disabled :
        Active(<<"deliver", r>>) =>
            \/ <<r, t>> \in Touched(<<"deliver", r>>)
            \/ kind[t] = "failure" /\ view[<<"deliver", r>>][r] = "passed"

Base == TypeOK /\ Custody
IInv ==
    /\ Base
    /\ ViewsAreTrue /\ SendsWhereAsked /\ OnlyWhereAsked
    /\ SentWasTaken /\ SentMeansReceived
    /\ Counted /\ RecordedAttemptsMade
    /\ FirstIsDeliverRun /\ WithinLimit /\ SweepKeepsLimit
    /\ NoneForgotten /\ EveryTargetHasOutcome

-----------------------------------------------------------------------------
\* The sessions are told apart by their names.
LEMMA SessionNames ==
    /\ Sweep \in Session /\ Sweep \notin DeliverTask /\ Sweep \notin HandRetry
    /\ HandRetry \subseteq Session /\ DeliverTask \cap HandRetry = {}
    /\ \A s \in Session : s \in DeliverTask \/ s \in HandRetry \/ s = Sweep
    /\ \A r \in Run : <<"deliver", r>> \in Session /\ <<"deliver", r>> \in DeliverTask
    /\ \A s \in DeliverTask : \E r \in Run : s = <<"deliver", r>>
    /\ \A r, q \in Run : <<"deliver", r>> = <<"deliver", q>> => r = q
    /\ \A r \in Run : <<"deliver", r>> # Sweep
    /\ Nobody \notin Session
BY DEF Session, DeliverTask, HandRetry, Sweep, Nobody

LEMMA DeliveryPairs ==
    /\ \A d \in Delivery : d[1] \in Run /\ d[2] \in Target /\ d = <<d[1], d[2]>>
    /\ \A r \in Run, t \in Target : <<r, t>> \in Delivery /\ <<r, t>>[1] = r /\ <<r, t>>[2] = t
BY DEF Delivery

LEMMA NoRowFacts ==
    /\ NoRow.status = "none" /\ NoRow.attempts = 0 /\ NoRow \notin Rows
    /\ \A st \in DeliveryStatus, n \in Nat :
         /\ Row(st, n) \in Rows /\ Row(st, n) # NoRow
         /\ Row(st, n).status = st /\ Row(st, n).attempts = n
    /\ \A x \in Rows \cup {NoRow} : x.attempts \in Nat /\ (x.status = "none" <=> x = NoRow)
BY DEF NoRow, Row, Rows, DeliveryStatus

\* Sessions that end without a commit: a lock that did not come, an error, a crash.
Lost(S) == End(S, "lost") /\ UNCHANGED <<kind, disabled, status, changes, history, table>>

LEMMA LossCases ==
    ASSUME TypeOK
    PROVE  /\ \A s \in Session : TimesOut(s) => Lost({s}) /\ UNCHANGED faults
           /\ \A S \in SUBSET Session : Fault(S) => Lost(S) /\ faults' \in 0..MaxFaults
BY DeliveryAssumption DEF TimesOut, Fault, Lost, world, TypeOK

\* What Take does, case by case.
Took(s, d, to, n, res) ==
    /\ pc' = [pc EXCEPT ![s] = to] /\ cur' = [cur EXCEPT ![s] = d]
    /\ tries' = [tries EXCEPT ![s] = n] /\ result' = [result EXCEPT ![s] = res]

LEMMA TakeCases ==
    ASSUME NEW s, NEW d, Take(s, d)
    PROVE  LET v == ViewOf(s, d[1]) IN
           \/ Skipped(d[2], v) /\ UNCHANGED <<pc, cur, tries, result>>
           \/ Held(d[2], v) /\ Took(s, d, "flush", 0, "held")
           \/ kind[d[2]] = "broken" /\ Took(s, d, "flush", 1, "failed")
           \/ /\ ~Skipped(d[2], v) /\ ~Held(d[2], v) /\ kind[d[2]] # "broken"
              /\ Took(s, d, "sending", 0, "none")
BY DEF Take, Took

-----------------------------------------------------------------------------
\* One round of sending, with what the receiver got of it and the answer.
Sent(s, got, answer) ==
    LET d == cur[s] IN
    /\ pc[s] = "sending" /\ answer \in {"sent", "pending", "failed"}
    /\ answer = "sent" => got = Batches
    /\ sends' = [sends EXCEPT ![d] = IF @ < MaxSends THEN @ + 1 ELSE @]
    /\ received' = [received EXCEPT ![d] = IF got > @ THEN got ELSE @]
    /\ tries' = [tries EXCEPT ![s] = @ + 1]
    /\ IF answer = "pending" /\ TriesOn(tries[s] + 1)
         THEN UNCHANGED <<pc, result>>
         ELSE /\ pc' = [pc EXCEPT ![s] = "flush"]
              /\ result' = [result EXCEPT ![s] = answer]
    /\ UNCHANGED <<todo, cur, seen, view, writes, writer, world, byHand, table>>

LEMMA AttemptSends ==
    ASSUME NEW s, Attempt(s)
    PROVE  \E got \in 0..Batches, answer \in {"sent", "pending", "failed"} : Sent(s, got, answer)
BY DEF Attempt, Sent, Answers

LEMMA BaseInit == Init => Base
BY SessionNames, NoRowFacts, DeliveryAssumption
DEF Init, Base, TypeOK, Custody, Attempting, Active, Touched, Written, RunView, Nobody

LEMMA BeginKeepsBase ==
    ASSUME Base, NEW s \in Session, NEW ds \in SUBSET Delivery, Begin(s, ds),
           UNCHANGED <<cur, tries, result, writes, writer, table, world>>,
           UNCHANGED <<sends, received>>,
           view' \in [Session -> [Run -> RunView \cup {"unread"}]],
           byHand' \subseteq Delivery
    PROVE  Base'
<1>1. TypeOK'
  <2>1. pc' \in [Session -> {"new", "open", "sending", "flush", "done", "lost"}] /\ todo' \in [Session -> SUBSET Delivery]
    BY DEF Begin, Base, TypeOK
  <2>2. \A d \in Delivery : table[d].attempts \in Nat
    BY NoRowFacts DEF Base, TypeOK
  <2>3. seen' \in [Session -> [Delivery -> Nat]]
    BY <2>2 DEF Begin, Base, TypeOK
  <2>4. UNCHANGED <<kind, disabled, status, changes, faults>>
    BY DEF world
  <2>. QED BY <2>1, <2>3, <2>4 DEF Base, TypeOK
<1>2. Custody'
  BY DEF Base, TypeOK, Begin, Custody, Attempting, Active, Touched, Written
<1>. QED BY <1>1, <1>2 DEF Base

LEMMA LoadKeepsType ==
    ASSUME Base, NEW s \in Session, NEW r \in Run, LoadRun(s, r)
    PROVE  view' \in [Session -> [Run -> RunView \cup {"unread"}]] /\ writer' \in Session \cup {Nobody}
BY DEF LoadRun, ViewOf, Base, TypeOK

LEMMA TakeKeepsBase ==
    ASSUME Base, NEW s \in Session, NEW d \in todo[s], Take(s, d)
    PROVE  Base'
<1>. d \in Delivery /\ d[1] \in Run
  BY DeliveryPairs DEF Base, TypeOK
<1>v. view' \in [Session -> [Run -> RunView \cup {"unread"}]] /\ writer' \in Session \cup {Nobody}
  BY LoadKeepsType DEF Take
<1>f. pc[s] = "open" /\ todo' = [todo EXCEPT ![s] = @ \ {d}] /\ UNCHANGED <<seen, writes, world, history, table>>
  BY DEF Take
<1>1. TypeOK'
  <2>1. /\ pc' \in [Session -> {"new", "open", "sending", "flush", "done", "lost"}]
        /\ cur' \in [Session -> Delivery \cup {None}]
        /\ tries' \in [Session -> 0..MaxAttempts]
        /\ result' \in [Session -> DeliveryStatus \cup {"none"}]
    <3>1. ASSUME NEW to \in {"flush", "sending"}, NEW n \in {0, 1}, NEW res \in {"none", "held", "failed"},
                 Took(s, d, to, n, res)
          PROVE  <2>1
      BY <3>1, DeliveryAssumption DEF Took, Base, TypeOK, DeliveryStatus
    <3>2. UNCHANGED <<pc, cur, tries, result>> => <2>1
      BY DEF Base, TypeOK
    <3>. QED BY <3>1, <3>2, TakeCases
  <2>2. todo' \in [Session -> SUBSET Delivery]
    BY <1>f DEF Base, TypeOK
  <2>. QED BY <2>1, <2>2, <1>v, <1>f DEF Base, TypeOK, world, history
<1>2. Custody'
  <2>1. UNCHANGED <<pc, cur, tries, result>> => Custody'
    BY <1>f DEF Base, TypeOK, Custody, Attempting, Active, Touched, Written
  <2>2. ASSUME NEW to \in {"flush", "sending"}, NEW n \in {0, 1}, NEW res \in {"none", "held", "failed"},
               Took(s, d, to, n, res), to = "flush" <=> res # "none", to = "sending" => n = 0
        PROVE  Custody'
    BY <1>f, <2>2, DeliveryAssumption DEF Took, Base, TypeOK, Custody, Attempting, Active, Touched, Written
  <2>. QED BY <2>1, <2>2, TakeCases
<1>. QED BY <1>1, <1>2 DEF Base

LEMMA GivesUpKeepsBase ==
    ASSUME Base, NEW d \in Delivery, SweepGivesUp(d)
    PROVE  Base'
<1>. d[1] \in Run /\ Sweep \in Session
  BY DeliveryPairs, SessionNames
<1>v. view' \in [Session -> [Run -> RunView \cup {"unread"}]] /\ writer' \in Session \cup {Nobody}
  <2>1. CASE LoadRun(Sweep, d[1])
    BY <2>1, LoadKeepsType
  <2>2. CASE UNCHANGED <<view, writer>>
    BY <2>2 DEF Base, TypeOK
  <2>. QED BY <2>1, <2>2 DEF SweepGivesUp
<1>1. TypeOK'
  <2>1. Row("failed", seen[Sweep][d]) \in Rows
    BY NoRowFacts DEF Base, TypeOK, DeliveryStatus
  <2>2. writes' \in [Session -> [Delivery -> Rows \cup {NoRow}]]
    BY <2>1 DEF SweepGivesUp, Base, TypeOK
  <2>3. todo' \in [Session -> SUBSET Delivery]
    BY DEF SweepGivesUp, Base, TypeOK
  <2>. QED BY <1>v, <2>2, <2>3 DEF SweepGivesUp, Base, TypeOK, world, history
<1>2. Custody'
  BY DEF SweepGivesUp, Base, TypeOK, Custody, Attempting, Active, Touched, Written
<1>. QED BY <1>1, <1>2 DEF Base

LEMMA AttemptKeepsBase ==
    ASSUME Base, NEW s \in Session, Attempt(s)
    PROVE  Base'
<1>. PICK got \in 0..Batches, answer \in {"sent", "pending", "failed"} : Sent(s, got, answer)
  BY AttemptSends
<1>. USE DEF Sent
<1>. cur[s] \in Delivery /\ tries[s] < MaxAttempts /\ tries[s] + 1 \in 0..MaxAttempts
  BY DeliveryAssumption DEF Base, TypeOK, Custody, Attempting
<1>1. TypeOK'
  <2>1. sends' \in [Delivery -> 0..MaxSends] /\ received' \in [Delivery -> 0..Batches]
    BY DeliveryAssumption DEF Base, TypeOK
  <2>2. tries' \in [Session -> 0..MaxAttempts]
    BY DEF Base, TypeOK
  <2>3. /\ pc' \in [Session -> {"new", "open", "sending", "flush", "done", "lost"}]
        /\ result' \in [Session -> DeliveryStatus \cup {"none"}]
    BY DEF Base, TypeOK, DeliveryStatus
  <2>. QED BY <2>1, <2>2, <2>3 DEF Base, TypeOK, world
<1>2. Custody'
  <2>1. CASE answer = "pending" /\ TriesOn(tries[s] + 1)
    BY <2>1, DeliveryAssumption DEF Base, TypeOK, Custody, Attempting, Active, Touched, Written, TriesOn
  <2>2. CASE ~(answer = "pending" /\ TriesOn(tries[s] + 1))
    BY <2>2 DEF Base, TypeOK, Custody, Attempting, Active, Touched, Written
  <2>. QED BY <2>1, <2>2
<1>. QED BY <1>1, <1>2 DEF Base

LEMMA FlushKeepsBase ==
    ASSUME Base, NEW s \in Session, Flush(s)
    PROVE  Base'
<1>. cur[s] \in Delivery /\ result[s] \in DeliveryStatus
  BY DEF Flush, Base, TypeOK, Custody, Attempting
<1>. AttemptsAfter(seen[s][cur[s]], tries[s]) \in Nat
  BY DeliveryAssumption DEF AttemptsAfter, Base, TypeOK
<1>1. TypeOK'
  BY NoRowFacts, DeliveryAssumption DEF Flush, Base, TypeOK, world, history, Left
<1>2. Custody'
  BY DEF Flush, Base, TypeOK, Custody, Attempting, Active, Touched, Written, Left
<1>. QED BY <1>1, <1>2 DEF Base

\* How sessions end, committed or not.
LEMMA EndKeepsBase ==
    ASSUME Base, NEW S \in SUBSET Session, NEW how \in {"done", "lost"}, End(S, how),
           UNCHANGED <<kind, disabled, status, changes, history>>,
           table' \in [Delivery -> Rows \cup {NoRow}], faults' \in 0..MaxFaults
    PROVE  Base'
<1>1. TypeOK'
  BY DeliveryAssumption, SessionNames DEF End, WriterAfter, Base, TypeOK, history
<1>2. Custody'
  BY DEF End, Base, TypeOK, Custody, Attempting, Active, Touched, Written
<1>. QED BY <1>1, <1>2 DEF Base

LEMMA CommitTable ==
    ASSUME Base, NEW s \in Session, Commit(s)
    PROVE  /\ table' \in [Delivery -> Rows \cup {NoRow}]
           /\ \A d \in Delivery : table'[d] = table[d] \/ (d \in Written(s) /\ table'[d] = writes[s][d] /\ table'[d] # NoRow)
           /\ \A d \in Written(s) : table'[d] = writes[s][d]
BY DEF Commit, Written, Base, TypeOK

\* The steps of Next, grouped by what the proofs need to know of them.
Beside ==
    \/ \E r \in Run : CancelRun(r)
    \/ \E d \in Delivery : ComesDue(d)
    \/ \E t \in Target : DisableTarget(t)

LEMMA NextCases ==
    ASSUME Base, [Next]_vars
    PROVE  \/ \E r \in Run : DeliverBegin(r)
           \/ SweepBegin
           \/ \E s \in HandRetry, d \in Delivery : HandBegin(s, d)
           \/ \E s \in Session : \E d \in todo[s] : Take(s, d)
           \/ \E d \in todo[Sweep] : SweepGivesUp(d)
           \/ \E s \in Session : Attempt(s) \/ Flush(s) \/ Commit(s)
           \/ \E S \in SUBSET {s \in Session : Active(s)} : Lost(S) /\ faults' \in 0..MaxFaults
           \/ Beside
           \/ UNCHANGED vars
<1>1. \A s \in Session : TimesOut(s) => Active(s) /\ Lost({s}) /\ faults' \in 0..MaxFaults
  BY LossCases DEF Base, TypeOK, TimesOut, Active
<1>2. CrashWorker \/ CrashWeb \/ (\E s \in Session : SessionFails(s))
        => \E S \in SUBSET {s \in Session : Active(s)} : Lost(S) /\ faults' \in 0..MaxFaults
  <2>1. /\ {s \in WorkerSessions : Active(s)} \in SUBSET {s \in Session : Active(s)}
        /\ {s \in WebSessions : Active(s)} \in SUBSET {s \in Session : Active(s)}
    BY DEF WorkerSessions, WebSessions, Session
  <2>. QED BY <2>1, LossCases DEF CrashWorker, CrashWeb, SessionFails, Base
<1>. QED BY <1>1, <1>2 DEF Next, SessionStep, Beside

LEMMA BesideKeepsBase == ASSUME Base, Beside PROVE Base'
<1>1. ASSUME NEW r \in Run, CancelRun(r) PROVE Base'
  BY <1>1, DeliveryAssumption
  DEF CancelRun, session, history, RunView, Base, TypeOK, Custody, Attempting, Active, Touched, Written
<1>2. ASSUME NEW d \in Delivery, ComesDue(d) PROVE Base'
  <2>1. table' \in [Delivery -> Rows \cup {NoRow}]
    <3>1. table[d] \in Rows
      BY <1>2, NoRowFacts DEF ComesDue, Base, TypeOK
    <3>2. [table[d] EXCEPT !.due = TRUE] \in Rows
      BY <3>1 DEF Rows
    <3>. QED BY <1>2, <3>2 DEF ComesDue, Base, TypeOK
  <2>2. UNCHANGED <<session, world, history>>
    BY <1>2 DEF ComesDue
  <2>. QED BY <2>1, <2>2
           DEF session, world, history, Base, TypeOK, Custody, Attempting, Active, Touched, Written
<1>3. ASSUME NEW t \in Target, DisableTarget(t) PROVE Base'
  BY <1>3, DeliveryAssumption
  DEF DisableTarget, session, history, Base, TypeOK, Custody, Attempting, Active, Touched, Written
<1>. QED BY <1>1, <1>2, <1>3 DEF Beside

LEMMA BaseNext == ASSUME Base, [Next]_vars PROVE Base'
<1>1. ASSUME NEW r \in Run, DeliverBegin(r) PROVE Base'
  <2>1. {r} \X (Target \ disabled) \in SUBSET Delivery /\ <<"deliver", r>> \in Session
    BY SessionNames DEF Delivery
  <2>2. view' \in [Session -> [Run -> RunView \cup {"unread"}]]
    BY <1>1, <2>1 DEF DeliverBegin, ReadRun, Base, TypeOK
  <2>. QED BY <1>1, <2>1, <2>2, BeginKeepsBase DEF DeliverBegin, history, Base, TypeOK
<1>2. CASE SweepBegin
  <2>1. Due \in SUBSET Delivery
    BY DEF Due
  <2>. QED BY <1>2, <2>1, SessionNames, BeginKeepsBase DEF SweepBegin, history, Base, TypeOK
<1>3. ASSUME NEW s \in HandRetry, NEW d \in Delivery, HandBegin(s, d) PROVE Base'
  <2>1. s \in Session /\ {d} \in SUBSET Delivery /\ d[1] \in Run
    BY SessionNames, DeliveryPairs
  <2>2. view' \in [Session -> [Run -> RunView \cup {"unread"}]]
    BY <1>3, <2>1 DEF HandBegin, ReadRun, Base, TypeOK
  <2>. QED BY <1>3, <2>1, <2>2, BeginKeepsBase DEF HandBegin, Base, TypeOK
<1>4. ASSUME NEW s \in Session, NEW d \in todo[s], Take(s, d) PROVE Base'
  BY <1>4, TakeKeepsBase
<1>5. ASSUME NEW d \in todo[Sweep], SweepGivesUp(d) PROVE Base'
  BY <1>5, SessionNames, GivesUpKeepsBase DEF Base, TypeOK
<1>6. ASSUME NEW s \in Session, Attempt(s) \/ Flush(s) PROVE Base'
  BY <1>6, AttemptKeepsBase, FlushKeepsBase
<1>7. ASSUME NEW s \in Session, Commit(s) PROVE Base'
  BY <1>7, CommitTable, EndKeepsBase DEF Commit, world, Base, TypeOK
<1>8. ASSUME NEW S \in SUBSET Session, Lost(S), faults' \in 0..MaxFaults PROVE Base'
  BY <1>8, EndKeepsBase DEF Lost, Base, TypeOK
<1>9. CASE UNCHANGED vars
  BY <1>9 DEF vars, session, world, history, Base, TypeOK, Custody, Attempting, Active, Touched, Written
<1>. QED BY <1>1, <1>2, <1>3, <1>4, <1>5, <1>6, <1>7, <1>8, <1>9, BesideKeepsBase, NextCases

-----------------------------------------------------------------------------
(***************************************************************************)
(* A status that was read is still the run's, or the run was cancelled.    *)
(***************************************************************************)
LEMMA ViewsStayTrue == ASSUME Base, ViewsAreTrue, [Next]_vars PROVE ViewsAreTrue'
<1>. USE DEF ViewsAreTrue
<1>l. ASSUME NEW s \in Session, NEW r \in Run, UNCHANGED status, LoadRun(s, r) PROVE ViewsAreTrue'
  BY <1>l DEF LoadRun, ViewOf, Base, TypeOK
<1>r. ASSUME NEW s \in Session, NEW r \in Run, UNCHANGED status, ReadRun(s, r) PROVE ViewsAreTrue'
  BY <1>r DEF ReadRun, Base, TypeOK
<1>e. ASSUME NEW S \in SUBSET Session, NEW how, UNCHANGED status, End(S, how) PROVE ViewsAreTrue'
  BY <1>e DEF End, Base, TypeOK
<1>1. ASSUME NEW r \in Run, DeliverBegin(r) PROVE ViewsAreTrue'
  BY <1>1, <1>r, SessionNames DEF DeliverBegin, world
<1>2. CASE SweepBegin
  BY <1>2 DEF SweepBegin, world
<1>3. ASSUME NEW s \in HandRetry, NEW d \in Delivery, HandBegin(s, d) PROVE ViewsAreTrue'
  BY <1>3, <1>r, SessionNames, DeliveryPairs DEF HandBegin, world
<1>4. ASSUME NEW s \in Session, NEW d \in todo[s], Take(s, d) PROVE ViewsAreTrue'
  BY <1>4, <1>l, DeliveryPairs DEF Take, world, Base, TypeOK
<1>5. ASSUME NEW d \in todo[Sweep], SweepGivesUp(d) PROVE ViewsAreTrue'
  <2>1. d[1] \in Run /\ Sweep \in Session
    BY SessionNames, DeliveryPairs DEF Base, TypeOK
  <2>. QED BY <1>5, <1>l, <2>1 DEF SweepGivesUp, world
<1>6. ASSUME NEW s \in Session, Attempt(s) \/ Flush(s) \/ Commit(s) PROVE ViewsAreTrue'
  BY <1>6, <1>e, AttemptSends DEF Sent, Flush, Commit, world
<1>7. ASSUME NEW S \in SUBSET Session, Lost(S) PROVE ViewsAreTrue'
  BY <1>7, <1>e DEF Lost
<1>8. CASE Beside
  BY <1>8 DEF Beside, CancelRun, ComesDue, DisableTarget, session, world, Base, TypeOK
<1>9. CASE UNCHANGED vars
  BY <1>9 DEF vars, session, world
<1>. QED BY <1>1, <1>2, <1>3, <1>4, <1>5, <1>6, <1>7, <1>8, <1>9, NextCases

(***************************************************************************)
(* Rows go only where they were asked for.                                 *)
(***************************************************************************)
LEMMA SendsStayAsked ==
    ASSUME Base, ViewsAreTrue, SendsWhereAsked, [Next]_vars
    PROVE  SendsWhereAsked'
<1>. USE DEF SendsWhereAsked, Held, Skipped
<1>b. ASSUME NEW s \in Session, NEW ds, Begin(s, ds), UNCHANGED <<kind, cur>>,
             \A q \in Session \ {s} : view'[q] = view[q]
      PROVE  SendsWhereAsked'
  BY <1>b DEF Begin, Base, TypeOK
<1>e. ASSUME NEW S \in SUBSET Session, NEW how \in {"done", "lost"}, UNCHANGED kind, End(S, how)
      PROVE  SendsWhereAsked'
  BY <1>e DEF End, Base, TypeOK
<1>1. ASSUME NEW r \in Run, DeliverBegin(r) PROVE SendsWhereAsked'
  <2>1. \A q \in Session \ {<<"deliver", r>>} : view'[q] = view[q]
    BY <1>1, SessionNames DEF DeliverBegin, ReadRun, Base, TypeOK
  <2>2. UNCHANGED <<kind, cur>>
    BY <1>1 DEF DeliverBegin, world
  <2>3. Begin(<<"deliver", r>>, {r} \X (Target \ disabled))
    BY <1>1 DEF DeliverBegin
  <2>. QED BY <2>1, <2>2, <2>3, <1>b, SessionNames
<1>2. CASE SweepBegin
  BY <1>2, <1>b, SessionNames DEF SweepBegin, world
<1>3. ASSUME NEW s \in HandRetry, NEW d \in Delivery, HandBegin(s, d) PROVE SendsWhereAsked'
  BY <1>3, <1>b, SessionNames DEF HandBegin, ReadRun, world, Base, TypeOK
<1>4. ASSUME NEW s \in Session, NEW d \in todo[s], Take(s, d) PROVE SendsWhereAsked'
  <2>1. d \in Delivery /\ d[1] \in Run
    BY DeliveryPairs DEF Base, TypeOK
  <2>2. /\ view' = [view EXCEPT ![s][d[1]] = ViewOf(s, d[1])] /\ UNCHANGED kind /\ pc[s] = "open"
        /\ ViewOf(s, d[1]) # "unread"
    BY <1>4, <2>1 DEF Take, LoadRun, world, ViewOf, Base, TypeOK, RunView
  <2>3. UNCHANGED <<pc, cur>> => SendsWhereAsked'
    BY <2>1, <2>2 DEF Base, TypeOK
  <2>4. ASSUME NEW n, NEW res, NEW to \in {"flush", "sending"}, Took(s, d, to, n, res),
               to = "sending" => ~Skipped(d[2], ViewOf(s, d[1])) /\ ~Held(d[2], ViewOf(s, d[1])) /\ kind[d[2]] # "broken"
        PROVE  SendsWhereAsked'
    BY <2>1, <2>2, <2>4 DEF Took, Base, TypeOK
  <2>. QED BY <1>4, <2>3, <2>4, TakeCases
<1>5. ASSUME NEW d \in todo[Sweep], SweepGivesUp(d) PROVE SendsWhereAsked'
  <2>1. /\ UNCHANGED <<pc, cur, kind>> /\ pc[Sweep] = "open"
        /\ \A q \in Session \ {Sweep} : view'[q] = view[q]
    BY <1>5, SessionNames DEF SweepGivesUp, LoadRun, world, Base, TypeOK
  <2>. QED BY <2>1
<1>6. ASSUME NEW s \in Session, Attempt(s) PROVE SendsWhereAsked'
  <2>1. /\ UNCHANGED <<cur, view, kind>>
        /\ pc' = pc \/ pc' = [pc EXCEPT ![s] = "flush"]
    BY <1>6, AttemptSends DEF Sent, world
  <2>2. \A q \in Session : pc'[q] = "sending" => pc[q] = "sending"
    BY <2>1 DEF Base, TypeOK
  <2>. QED BY <2>1, <2>2
<1>7. ASSUME NEW s \in Session, Flush(s) PROVE SendsWhereAsked'
  <2>1. /\ UNCHANGED <<view, kind>> /\ pc' = [pc EXCEPT ![s] = "open"]
        /\ \A q \in Session \ {s} : cur'[q] = cur[q]
    BY <1>7 DEF Flush, world, Base, TypeOK
  <2>. QED BY <2>1 DEF Base, TypeOK
<1>8. ASSUME NEW s \in Session, Commit(s) PROVE SendsWhereAsked'
  BY <1>8, <1>e DEF Commit, world
<1>9. ASSUME NEW S \in SUBSET Session, Lost(S) PROVE SendsWhereAsked'
  BY <1>9, <1>e DEF Lost
<1>10. CASE Beside \/ UNCHANGED vars
  BY <1>10 DEF Beside, CancelRun, ComesDue, DisableTarget, session, world, vars
<1>. QED BY <1>1, <1>2, <1>3, <1>4, <1>5, <1>6, <1>7, <1>8, <1>9, <1>10, NextCases

LEMMA AskedStays ==
    ASSUME Base, ViewsAreTrue, SendsWhereAsked, OnlyWhereAsked, [Next]_vars
    PROVE  OnlyWhereAsked'
<1>. USE DEF OnlyWhereAsked
<1>1. ASSUME NEW s \in Session, Attempt(s) PROVE OnlyWhereAsked'
  <2>1. PICK got \in 0..Batches, answer \in {"sent", "pending", "failed"} : Sent(s, got, answer)
    BY <1>1, AttemptSends
  <2>2. /\ cur[s] \in Delivery /\ cur[s][1] \in Run /\ cur[s][2] \in Target
        /\ sends' = [sends EXCEPT ![cur[s]] = IF @ < MaxSends THEN @ + 1 ELSE @]
        /\ UNCHANGED <<kind, status>>
    BY <2>1, DeliveryPairs DEF Sent, world, Base, Custody, Attempting
  <2>3. /\ kind[cur[s][2]] = "plain" => status[cur[s][1]] # "failed"
        /\ kind[cur[s][2]] = "failure" => status[cur[s][1]] # "passed"
    BY <2>1, <2>2 DEF Sent, SendsWhereAsked, ViewsAreTrue, Held, Skipped, Base, TypeOK, RunView
  <2>. QED BY <2>2, <2>3 DEF Base, TypeOK
<1>2. CASE Beside
  BY <1>2, DeliveryPairs DEF Beside, CancelRun, ComesDue, DisableTarget, session, world, history, Base, TypeOK
<1>3. ASSUME UNCHANGED <<sends, kind, status>> PROVE OnlyWhereAsked'
  BY <1>3
<1>4. (\E s \in Session : Flush(s) \/ Commit(s)) \/ (\E S \in SUBSET Session : Lost(S)) \/ UNCHANGED vars
        => UNCHANGED <<sends, kind, status>>
  BY DEF Flush, Commit, Lost, world, history, vars
<1>5. (\E r \in Run : DeliverBegin(r)) \/ SweepBegin \/ (\E s \in HandRetry, d \in Delivery : HandBegin(s, d))
        => UNCHANGED <<sends, kind, status>>
  BY DEF DeliverBegin, SweepBegin, HandBegin, world, history
<1>6. (\E s \in Session : \E d \in todo[s] : Take(s, d)) \/ (\E d \in todo[Sweep] : SweepGivesUp(d))
        => UNCHANGED <<sends, kind, status>>
  BY DEF Take, SweepGivesUp, world, history
<1>. QED BY <1>1, <1>2, <1>3, <1>4, <1>5, <1>6, NextCases

-----------------------------------------------------------------------------
(***************************************************************************)
(* What is recorded as sent was received.                                  *)
(***************************************************************************)
SentInv == SentWasTaken /\ SentMeansReceived

\* Nothing new is said to be sent, and nothing that was received gets less.
LEMMA SentStays ==
    ASSUME Base, SentInv, Base',
           \A d \in Delivery : received'[d] >= received[d],
           \A s \in Session : result'[s] = "sent" => result[s] = "sent" /\ cur'[s] = cur[s],
           \A s \in Session, d \in Delivery : writes'[s][d].status = "sent" => writes[s][d].status = "sent",
           \A d \in Delivery : table'[d].status = "sent" => table[d].status = "sent"
    PROVE  SentInv'
<1>1. \A d \in Delivery : received[d] = Batches => received'[d] = Batches
  BY DeliveryAssumption DEF Base, TypeOK
<1>2. \A s \in Session : result[s] = "sent" => cur[s] \in Delivery
  BY DEF Base, TypeOK, Custody, Attempting
<1>. QED BY <1>1, <1>2 DEF SentInv, SentWasTaken, SentMeansReceived

LEMMA SentInvNext == ASSUME Base, SentInv, [Next]_vars, Base' PROVE SentInv'
<1>r. UNCHANGED received => \A d \in Delivery : received'[d] >= received[d]
  BY DeliveryAssumption DEF Base, TypeOK
<1>1. ASSUME NEW r \in Run, DeliverBegin(r) PROVE SentInv'
  BY <1>1, <1>r, SentStays DEF DeliverBegin, Begin, world, history
<1>2. CASE SweepBegin
  BY <1>2, <1>r, SentStays DEF SweepBegin, Begin, world, history
<1>3. ASSUME NEW s \in HandRetry, NEW d \in Delivery, HandBegin(s, d) PROVE SentInv'
  BY <1>3, <1>r, SentStays DEF HandBegin, Begin, world
<1>4. ASSUME NEW s \in Session, NEW d \in todo[s], Take(s, d) PROVE SentInv'
  <2>1. UNCHANGED <<writes, table, received>>
    BY <1>4 DEF Take, history
  <2>2. \A q \in Session : result'[q] = "sent" => result[q] = "sent" /\ cur'[q] = cur[q]
    <3>1. ASSUME NEW to, NEW n, NEW res \in {"none", "held", "failed"}, Took(s, d, to, n, res)
          PROVE  <2>2
      BY <3>1 DEF Took, Base, TypeOK
    <3>. QED BY <1>4, <3>1, TakeCases
  <2>. QED BY <2>1, <2>2, <1>r, SentStays
<1>5. ASSUME NEW d \in todo[Sweep], SweepGivesUp(d) PROVE SentInv'
  <2>1. \A q \in Session, e \in Delivery : writes'[q][e].status = "sent" => writes[q][e].status = "sent"
    <3>1. Row("failed", seen[Sweep][d]).status # "sent" /\ d \in Delivery
      BY SessionNames DEF Row, Base, TypeOK
    <3>. QED BY <1>5, <3>1, SessionNames DEF SweepGivesUp, Base, TypeOK
  <2>. QED BY <1>5, <2>1, <1>r, SentStays DEF SweepGivesUp, world, history
<1>6. ASSUME NEW s \in Session, Attempt(s) PROVE SentInv'
  <2>1. PICK got \in 0..Batches, answer \in {"sent", "pending", "failed"} : Sent(s, got, answer)
    BY <1>6, AttemptSends
  <2>. DEFINE d == cur[s]
  <2>2. d \in Delivery /\ pc[s] = "sending"
    BY <2>1 DEF Sent, Base, Custody, Attempting
  <2>3. /\ received' = [received EXCEPT ![d] = IF got > @ THEN got ELSE @]
        /\ UNCHANGED <<cur, writes, table>>
    BY <2>1 DEF Sent
  <2>4. \A e \in Delivery : received'[e] >= received[e]
    BY <2>2, <2>3, DeliveryAssumption DEF Base, TypeOK
  <2>5. CASE answer = "sent" /\ result' = [result EXCEPT ![s] = "sent"]
    <3>1. received'[d] = Batches
      <4>1. got = Batches
        BY <2>1, <2>5 DEF Sent
      <4>2. received[d] \in 0..Batches /\ received'[d] = IF got > received[d] THEN got ELSE received[d]
        BY <2>2, <2>3 DEF Base, TypeOK
      <4>. QED BY <4>1, <4>2, DeliveryAssumption
    <3>2. \A e \in Delivery : received[e] = Batches => received'[e] = Batches
      BY <2>4, DeliveryAssumption DEF Base, TypeOK
    <3>3. \A q \in Session : result[q] = "sent" => cur[q] \in Delivery
      BY DEF Base, TypeOK, Custody, Attempting
    <3>. QED BY <2>3, <2>5, <3>1, <3>2, <3>3 DEF SentInv, SentWasTaken, SentMeansReceived, Base, TypeOK
  <2>6. CASE result' = result \/ (answer # "sent" /\ result' = [result EXCEPT ![s] = answer])
    <3>1. \A q \in Session : result'[q] = "sent" => result[q] = "sent"
      BY <2>6 DEF Base, TypeOK
    <3>. QED BY <2>3, <2>4, <3>1, SentStays
  <2>. QED BY <2>1, <2>5, <2>6 DEF Sent
<1>7. ASSUME NEW s \in Session, Flush(s) PROVE SentInv'
  <2>. DEFINE d == cur[s]
              row == Row(result[s], AttemptsAfter(seen[s][d], tries[s]))
  <2>1. d \in Delivery /\ row.status = result[s]
    BY <1>7 DEF Flush, Base, Custody, Attempting, Row
  <2>2. /\ writes' = [writes EXCEPT ![s][d] = row]
        /\ result' = [result EXCEPT ![s] = "none"]
        /\ cur' = [cur EXCEPT ![s] = None]
        /\ UNCHANGED <<received, table>>
    BY <1>7 DEF Flush, history
  <2>. HIDE DEF row, d
  <2>3. row.status = "sent" => received[d] = Batches
    BY <2>1 DEF d, SentInv, SentWasTaken
  <2>4. \A q \in Session, e \in Delivery :
            writes'[q][e].status = "sent" => writes[q][e].status = "sent" \/ (e = d /\ row.status = "sent")
    <3>1. writes' = [writes EXCEPT ![s][d] = row] /\ writes \in [Session -> [Delivery -> Rows \cup {NoRow}]]
      BY <2>2 DEF Base, TypeOK
    <3>2. /\ \A e \in Delivery \ {d} : writes'[s][e] = writes[s][e]
          /\ \A q \in Session \ {s} : writes'[q] = writes[q]
          /\ writes'[s][d] = row
      BY <3>1, <2>1
    <3>. QED BY <3>2
  <2>5. \A q \in Session : result'[q] = "sent" => result[q] = "sent" /\ cur'[q] = cur[q]
    BY <2>2 DEF Base, TypeOK
  <2>. QED BY <2>2, <2>3, <2>4, <2>5 DEF SentInv, SentWasTaken, SentMeansReceived
<1>e. ASSUME NEW S \in SUBSET Session, NEW how, End(S, how), UNCHANGED received,
             \A d \in Delivery : table'[d].status = "sent" => table[d].status = "sent" \/ received[d] = Batches
      PROVE  SentInv'
  <2>1. \A q \in Session : result'[q] = "sent" => result[q] = "sent" /\ cur'[q] = cur[q]
    BY <1>e DEF End
  <2>2. \A q \in Session, d \in Delivery : writes'[q][d].status = "sent" => writes[q][d].status = "sent"
    BY <1>e, NoRowFacts DEF End
  <2>. QED BY <1>e, <2>1, <2>2 DEF SentInv, SentWasTaken, SentMeansReceived
<1>8. ASSUME NEW s \in Session, Commit(s) PROVE SentInv'
  <2>1. \A d \in Delivery : table'[d].status = "sent" => table[d].status = "sent" \/ received[d] = Batches
    BY <1>8, CommitTable DEF SentInv, SentWasTaken
  <2>. QED BY <1>8, <2>1, <1>e DEF Commit, history
<1>9. ASSUME NEW S \in SUBSET Session, Lost(S) PROVE SentInv'
  BY <1>9, <1>e DEF Lost, history
<1>10. CASE Beside \/ UNCHANGED vars
  <2>1. \A d \in Delivery : table'[d].status = "sent" => table[d].status = "sent"
    <3>1. \A e \in Delivery : ComesDue(e) => \A d \in Delivery : table'[d].status = table[d].status
      BY NoRowFacts DEF ComesDue, Base, TypeOK, Rows
    <3>. QED BY <1>10, <3>1 DEF Beside, CancelRun, DisableTarget, vars
  <2>2. UNCHANGED <<session, history>>
    BY <1>10 DEF Beside, CancelRun, ComesDue, DisableTarget, vars
  <2>. QED BY <2>1, <2>2, <1>r, SentStays DEF session, history
<1>. QED BY <1>1, <1>2, <1>3, <1>4, <1>5, <1>6, <1>7, <1>8, <1>9, <1>10, NextCases

-----------------------------------------------------------------------------
(***************************************************************************)
(* What a session has in hand, and what is on record, from step to step.   *)
(***************************************************************************)
LEMMA BeginTouches ==
    ASSUME Base, NEW s \in Session, NEW ds \in SUBSET Delivery, Begin(s, ds), UNCHANGED <<cur, writes>>
    PROVE  /\ Touched(s)' = ds /\ \A q \in Session \ {s} : Touched(q)' = Touched(q)
           /\ Active(s)' /\ ~Attempting(s)'
           /\ \A q \in Session \ {s} : pc'[q] = pc[q] /\ seen'[q] = seen[q]
           /\ pc[s] = "new"
           /\ \A d \in Delivery : seen'[s][d] = IF d \in ds THEN table[d].attempts ELSE 0
<1>1. Written(s) = {} /\ pc[s] = "new"
  BY DEF Begin, Base, Custody, Touched, Active
<1>. QED BY <1>1 DEF Begin, Base, TypeOK, Touched, Written, Attempting, Active

LEMMA TakeTouches ==
    ASSUME Base, NEW s \in Session, NEW d \in todo[s], Take(s, d)
    PROVE  /\ d \in Delivery /\ pc[s] = "open" /\ UNCHANGED <<seen, writes, world, history, table>>
           /\ \A q \in Session \ {s} :
                /\ Touched(q)' = Touched(q)
                /\ pc'[q] = pc[q] /\ cur'[q] = cur[q] /\ tries'[q] = tries[q] /\ view'[q] = view[q]
           /\ Touched(s)' \subseteq Touched(s) /\ Touched(s) \ {d} \subseteq Touched(s)'
           /\ \A r \in Run : view[s][r] # "unread" => view'[s][r] = view[s][r]
           /\ Attempting(s)' => cur'[s] = d
           /\ \/ d \in Touched(s)' /\ pc'[s] \in {"sending", "flush"}
              \/ kind[d[2]] = "failure" /\ view'[s][d[1]] = "passed" /\ pc'[s] = "open"
           /\ kind[d[2]] # "broken" => (Attempting(s)' => tries'[s] = 0)
<1>1. d \in Delivery /\ d[1] \in Run
  BY DeliveryPairs DEF Base, TypeOK
<1>2. /\ pc[s] = "open" /\ todo' = [todo EXCEPT ![s] = @ \ {d}]
      /\ view' = [view EXCEPT ![s][d[1]] = ViewOf(s, d[1])]
      /\ UNCHANGED <<seen, writes, world, history, table>>
  BY DEF Take, LoadRun
<1>3. \A r \in Run : view[s][r] # "unread" => view'[s][r] = view[s][r]
  BY <1>1, <1>2 DEF ViewOf, Base, TypeOK
<1>4. view'[s][d[1]] = ViewOf(s, d[1]) /\ \A q \in Session \ {s} : view'[q] = view[q]
  BY <1>1, <1>2 DEF Base, TypeOK
<1>5. ASSUME NEW to \in {"flush", "sending"}, NEW n \in {0, 1}, NEW res, Took(s, d, to, n, res),
             n = 1 => kind[d[2]] = "broken"
      PROVE  /\ \A q \in Session \ {s} :
                   Touched(q)' = Touched(q) /\ pc'[q] = pc[q] /\ cur'[q] = cur[q] /\ tries'[q] = tries[q]
             /\ Touched(s)' \subseteq Touched(s) /\ Touched(s) \ {d} \subseteq Touched(s)'
             /\ Attempting(s)' => cur'[s] = d
             /\ d \in Touched(s)' /\ pc'[s] \in {"sending", "flush"}
             /\ kind[d[2]] # "broken" => (Attempting(s)' => tries'[s] = 0)
  <2>1. pc'[s] = to /\ cur'[s] = d /\ tries'[s] = n /\ todo'[s] = todo[s] \ {d} /\ Written(s)' = Written(s)
    BY <1>2, <1>5 DEF Took, Base, TypeOK, Written
  <2>2. \A q \in Session \ {s} :
          /\ pc'[q] = pc[q] /\ cur'[q] = cur[q] /\ tries'[q] = tries[q] /\ todo'[q] = todo[q]
          /\ Written(q)' = Written(q)
    BY <1>2, <1>5 DEF Took, Base, TypeOK, Written
  <2>. QED BY <1>2, <1>5, <2>1, <2>2 DEF Touched, Attempting
<1>6. ASSUME Skipped(d[2], ViewOf(s, d[1])), UNCHANGED <<pc, cur, tries, result>>
      PROVE  /\ \A q \in Session \ {s} : Touched(q)' = Touched(q)
             /\ Touched(s)' \subseteq Touched(s) /\ Touched(s) \ {d} \subseteq Touched(s)'
             /\ ~Attempting(s)'
             /\ kind[d[2]] = "failure" /\ view'[s][d[1]] = "passed" /\ pc'[s] = "open"
  BY <1>2, <1>4, <1>6 DEF Skipped, Base, TypeOK, Touched, Written, Attempting
<1>. QED BY <1>1, <1>2, <1>3, <1>4, <1>5, <1>6, TakeCases

LEMMA GivesUpTouches ==
    ASSUME Base, NEW d \in todo[Sweep], SweepGivesUp(d)
    PROVE  /\ d \in Delivery /\ UNCHANGED <<pc, cur, tries, seen, world, history, table>>
           /\ \A q \in Session : Touched(q)' = Touched(q)
           /\ \A q \in Session \ {Sweep} : view'[q] = view[q]
           /\ \A q \in Session, e \in Delivery :
                writes'[q][e] = writes[q][e] \/ (q = Sweep /\ e = d /\ writes'[q][e] = Row("failed", seen[q][e]))
<1>1. d \in Delivery /\ Sweep \in Session
  BY SessionNames DEF Base, TypeOK
<1>2. Row("failed", seen[Sweep][d]) # NoRow
  BY <1>1, NoRowFacts DEF Base, TypeOK, DeliveryStatus
<1>3. /\ writes' = [writes EXCEPT ![Sweep][d] = Row("failed", seen[Sweep][d])]
      /\ todo' = [todo EXCEPT ![Sweep] = @ \ {d}]
      /\ UNCHANGED <<pc, cur, tries, seen, world, history, table>>
  BY DEF SweepGivesUp
<1>4. \A q \in Session \ {Sweep} : view'[q] = view[q]
  BY DEF SweepGivesUp, LoadRun, Base, TypeOK
<1>5. Written(Sweep)' = Written(Sweep) \cup {d} /\ todo'[Sweep] = todo[Sweep] \ {d}
  BY <1>1, <1>2, <1>3 DEF Base, TypeOK, Written
<1>6. \A q \in Session \ {Sweep} : Written(q)' = Written(q) /\ todo'[q] = todo[q]
  BY <1>1, <1>3 DEF Base, TypeOK, Written
<1>7. \A q \in Session : Touched(q)' = Touched(q)
  BY <1>3, <1>5, <1>6 DEF Touched, Attempting
<1>8. \A q \in Session, e \in Delivery :
         writes'[q][e] = writes[q][e] \/ (q = Sweep /\ e = d /\ writes'[q][e] = Row("failed", seen[q][e]))
  BY <1>1, <1>3 DEF Base, TypeOK
<1>. QED BY <1>1, <1>3, <1>4, <1>7, <1>8

LEMMA FlushTouches ==
    ASSUME Base, NEW s \in Session, Flush(s)
    PROVE  /\ cur[s] \in Delivery /\ UNCHANGED <<seen, view, world, history, table>>
           /\ \A q \in Session : Touched(q)' = Touched(q)
           /\ \A q \in Session \ {s} : pc'[q] = pc[q] /\ cur'[q] = cur[q] /\ tries'[q] = tries[q]
           /\ pc[s] = "flush" /\ pc'[s] = "open"
           /\ \A q \in Session, e \in Delivery :
                \/ writes'[q][e] = writes[q][e]
                \/ q = s /\ e = cur[s] /\ writes'[q][e].attempts = seen[s][e] + tries[s]
<1>. DEFINE row == Row(result[s], AttemptsAfter(seen[s][cur[s]], tries[s]))
<1>1. cur[s] \in Delivery /\ result[s] \in DeliveryStatus
  BY DEF Flush, Base, TypeOK, Custody, Attempting
<1>2. seen[s][cur[s]] + tries[s] \in Nat
  BY <1>1, DeliveryAssumption DEF Base, TypeOK
<1>3. row # NoRow /\ row.attempts = seen[s][cur[s]] + tries[s]
  BY <1>1, <1>2, NoRowFacts DEF AttemptsAfter
<1>4. /\ pc[s] = "flush" /\ writes' = [writes EXCEPT ![s][cur[s]] = row]
      /\ pc' = [pc EXCEPT ![s] = "open"] /\ todo' = [todo EXCEPT ![s] = todo[s]]
      /\ cur' = [cur EXCEPT ![s] = None] /\ tries' = [tries EXCEPT ![s] = 0]
      /\ UNCHANGED <<seen, view, world, history, table>>
  BY DEF Flush, Left
<1>. HIDE DEF row
<1>5. Written(s)' = Written(s) \cup {cur[s]} /\ todo'[s] = todo[s] /\ pc'[s] = "open"
  BY <1>1, <1>3, <1>4 DEF Base, TypeOK, Written
<1>6. \A q \in Session \ {s} :
        /\ pc'[q] = pc[q] /\ cur'[q] = cur[q] /\ tries'[q] = tries[q] /\ todo'[q] = todo[q]
        /\ Written(q)' = Written(q)
  BY <1>1, <1>4 DEF Base, TypeOK, Written
<1>7. \A q \in Session : Touched(q)' = Touched(q)
  BY <1>4, <1>5, <1>6 DEF Touched, Attempting
<1>8. \A q \in Session, e \in Delivery : writes'[q][e] = writes[q][e] \/ (q = s /\ e = cur[s] /\ writes'[q][e] = row)
  BY <1>1, <1>4 DEF Base, TypeOK
<1>. QED BY <1>1, <1>3, <1>4, <1>5, <1>6, <1>7, <1>8

LEMMA AttemptTouches ==
    ASSUME Base, NEW s \in Session, Attempt(s)
    PROVE  /\ cur[s] \in Delivery /\ UNCHANGED <<cur, seen, view, writes, world, byHand, table>>
           /\ \A q \in Session : Touched(q)' = Touched(q) /\ (Attempting(q)' <=> Attempting(q))
           /\ \A q \in Session : pc'[q] = pc[q] \/ (pc[q] = "sending" /\ pc'[q] = "flush")
           /\ sends' = [sends EXCEPT ![cur[s]] = IF @ < MaxSends THEN @ + 1 ELSE @]
           /\ tries' = [tries EXCEPT ![s] = @ + 1]
           /\ Attempting(s)
<1>1. PICK got \in 0..Batches, answer \in {"sent", "pending", "failed"} : Sent(s, got, answer)
  BY AttemptSends
<1>2. \A q \in Session : pc'[q] = pc[q] \/ (pc[q] = "sending" /\ pc'[q] = "flush")
  BY <1>1 DEF Sent, Base, TypeOK
<1>3. /\ pc[s] = "sending" /\ UNCHANGED <<todo, cur, seen, view, writes, world, byHand, table>>
      /\ sends' = [sends EXCEPT ![cur[s]] = IF @ < MaxSends THEN @ + 1 ELSE @]
      /\ tries' = [tries EXCEPT ![s] = @ + 1]
  BY <1>1 DEF Sent
<1>. QED BY <1>2, <1>3 DEF Base, Custody, Touched, Written, Attempting

LEMMA EndTouches ==
    ASSUME Base, NEW S \in SUBSET Session, NEW how, End(S, how), how \in {"done", "lost"}
    PROVE  /\ \A q \in S : /\ Touched(q)' = {} /\ ~Active(q)' /\ ~Attempting(q)'
                          /\ \A d \in Delivery : seen'[q][d] = 0 /\ writes'[q][d] = NoRow
           /\ \A q \in Session \ S :
                /\ Touched(q)' = Touched(q) /\ pc'[q] = pc[q] /\ cur'[q] = cur[q] /\ tries'[q] = tries[q]
                /\ seen'[q] = seen[q] /\ view'[q] = view[q] /\ writes'[q] = writes[q]
           /\ \A q \in S \ {Sweep} : pc'[q] = how
BY DEF End, Touched, Written, Attempting, Active

LEMMA BesideTouches ==
    ASSUME Base, Beside \/ UNCHANGED vars
    PROVE  /\ UNCHANGED <<session, history, kind>>
           /\ \A q \in Session : Touched(q)' = Touched(q) /\ (Attempting(q)' <=> Attempting(q))
           /\ disabled \subseteq disabled'
           /\ \A r \in Run : status'[r] \in {status[r], "cancelled"}
           /\ \A d \in Delivery : table'[d] = table[d] \/
                (/\ table[d] # NoRow /\ table'[d] # NoRow
                 /\ table'[d].status = table[d].status /\ table'[d].attempts = table[d].attempts)
<1>1. UNCHANGED <<session, history, kind>>
  BY DEF Beside, CancelRun, ComesDue, DisableTarget, world, vars
<1>2. \A q \in Session : Touched(q)' = Touched(q) /\ (Attempting(q)' <=> Attempting(q))
  BY <1>1 DEF session, Touched, Written, Attempting
<1>3. disabled \subseteq disabled' /\ \A r \in Run : status'[r] \in {status[r], "cancelled"}
  BY DEF Beside, CancelRun, ComesDue, DisableTarget, world, vars, Base, TypeOK
<1>4. ASSUME NEW e \in Delivery, ComesDue(e)
      PROVE  \A d \in Delivery : table'[d] = table[d] \/
                (/\ table[d] # NoRow /\ table'[d] # NoRow
                 /\ table'[d].status = table[d].status /\ table'[d].attempts = table[d].attempts)
  <2>1. table[e] \in Rows /\ table' = [table EXCEPT ![e] = [table[e] EXCEPT !.due = TRUE]]
    BY <1>4, NoRowFacts DEF ComesDue, Base, TypeOK
  <2>2. /\ [table[e] EXCEPT !.due = TRUE].status = table[e].status
        /\ [table[e] EXCEPT !.due = TRUE].attempts = table[e].attempts
        /\ table[e] # NoRow
    BY <2>1, NoRowFacts DEF Rows
  <2>3. [table[e] EXCEPT !.due = TRUE] # NoRow
    BY <2>1, <2>2, NoRowFacts DEF Rows, DeliveryStatus
  <2>. QED BY <2>1, <2>2, <2>3 DEF Base, TypeOK
<1>. QED BY <1>1, <1>2, <1>3, <1>4 DEF Beside, CancelRun, DisableTarget, vars

-----------------------------------------------------------------------------
(***************************************************************************)
(* The attempts on record were made.                                       *)
(***************************************************************************)
CountInv == Counted /\ RecordedAttemptsMade

LEMMA CountInvNext == ASSUME Base, CountInv, [Next]_vars PROVE CountInv'
<1>. USE DEF CountInv, Counted, RecordedAttemptsMade, Made
<1>n. \A s \in Session, d \in Delivery : seen[s][d] \in Nat /\ tries[s] \in Nat /\ sends[d] \in Nat
  BY DeliveryAssumption DEF Base, TypeOK
<1>o. \A d \in Delivery : Made(d, 0)
  BY DEF Base, TypeOK
<1>b. ASSUME NEW s \in Session, NEW ds \in SUBSET Delivery, Begin(s, ds),
             UNCHANGED <<cur, tries, writes, table, sends, kind>>
      PROVE  CountInv'
  <2>1. \A q \in Session \ {s} : Attempting(q)' => Attempting(q)
    BY <1>b, BeginTouches DEF Attempting
  <2>2. \A q \in Session \ {s} : seen'[q] = seen[q]
    BY <1>b, BeginTouches
  <2>3. \A d \in Delivery : Made(d, seen'[s][d])
    <3>1. \A d \in Delivery : seen'[s][d] = table[d].attempts \/ seen'[s][d] = 0
      BY <1>b, BeginTouches
    <3>. QED BY <3>1, <1>o
  <2>4. ~Attempting(s)'
    BY <1>b, BeginTouches
  <2>. QED BY <1>b, <2>1, <2>2, <2>3, <2>4
<1>1. ASSUME NEW r \in Run, DeliverBegin(r) PROVE CountInv'
  <2>1. {r} \X (Target \ disabled) \in SUBSET Delivery /\ <<"deliver", r>> \in Session
    BY SessionNames DEF Delivery
  <2>. QED BY <1>1, <2>1, <1>b DEF DeliverBegin, history, world
<1>2. CASE SweepBegin
  <2>1. Due \in SUBSET Delivery
    BY DEF Due
  <2>. QED BY <1>2, <2>1, <1>b, SessionNames DEF SweepBegin, history, world
<1>3. ASSUME NEW s \in HandRetry, NEW d \in Delivery, HandBegin(s, d) PROVE CountInv'
  <2>1. s \in Session /\ {d} \in SUBSET Delivery
    BY SessionNames
  <2>. QED BY <1>3, <2>1, <1>b DEF HandBegin, world
<1>4. ASSUME NEW s \in Session, NEW d \in todo[s], Take(s, d) PROVE CountInv'
  <2>1. \A q \in Session \ {s} : Attempting(q)' => Attempting(q)
    BY <1>4, TakeTouches DEF Attempting
  <2>2. Attempting(s)' => Made(cur'[s], seen[s][cur'[s]] + tries'[s])
    BY <1>4, <1>n, TakeTouches
  <2>. QED BY <1>4, <2>1, <2>2, TakeTouches DEF world, history
<1>5. ASSUME NEW d \in todo[Sweep], SweepGivesUp(d) PROVE CountInv'
  <2>1. Row("failed", seen[Sweep][d]).attempts = seen[Sweep][d]
    BY DEF Row
  <2>. QED BY <1>5, <2>1, GivesUpTouches, SessionNames DEF world, history, Attempting
<1>6. ASSUME NEW s \in Session, Attempt(s) PROVE CountInv'
  <2>1. /\ cur[s] \in Delivery /\ Attempting(s)
        /\ \A d \in Delivery : d # cur[s] => sends'[d] = sends[d]
        /\ sends'[cur[s]] = IF sends[cur[s]] < MaxSends THEN sends[cur[s]] + 1 ELSE sends[cur[s]]
        /\ tries'[s] = tries[s] + 1 /\ \A q \in Session \ {s} : tries'[q] = tries[q]
        /\ UNCHANGED <<cur, seen, writes, kind, table>>
    BY <1>6, AttemptTouches DEF Base, TypeOK, world
  <2>2. \A d \in Delivery : sends[d] \in 0..MaxSends /\ sends'[d] >= sends[d]
                             /\ (sends[d] = MaxSends => sends'[d] = MaxSends)
    BY <2>1, DeliveryAssumption DEF Base, TypeOK
  <2>3. \A d \in Delivery, n \in Nat : Made(d, n) => Made(d, n)'
    BY <2>1, <2>2, DeliveryAssumption
  <2>4. \A q \in Session, d \in Delivery : writes[q][d].attempts \in Nat /\ table[d].attempts \in Nat
    BY NoRowFacts DEF Base, TypeOK
  <2>5. kind[cur[s][2]] # "broken" =>
          seen[s][cur[s]] + tries[s] + 1 <= sends'[cur[s]] \/ sends'[cur[s]] = MaxSends
    <3>. DEFINE d == cur[s]
                n == seen[s][d] + tries[s]
    <3>1. n \in Nat /\ sends[d] \in 0..MaxSends /\ Made(d, n)
      BY <2>1, <2>2, <1>n
    <3>2. sends'[d] = IF sends[d] < MaxSends THEN sends[d] + 1 ELSE sends[d]
      BY <2>1
    <3>. HIDE DEF n, d
    <3>4. kind[d[2]] # "broken" => n + 1 <= sends'[d] \/ sends'[d] = MaxSends
      BY <3>1, <3>2, DeliveryAssumption
    <3>. QED BY <3>4 DEF n, d
  <2>6. \A q \in Session : Attempting(q)' => Attempting(q) /\ cur[q] \in Delivery
    BY <1>6, AttemptTouches DEF Base, Custody
  <2>7. \A q \in Session \ {s} : Attempting(q)' => Made(cur[q], seen[q][cur[q]] + tries[q])'
    BY <2>1, <2>3, <2>6, <1>n
  <2>8. Made(cur[s], seen[s][cur[s]] + tries[s])'
    BY <2>1, <2>5, <1>n
  <2>9. \A q \in Session, d \in Delivery : Made(d, seen[q][d])' /\ Made(d, writes[q][d].attempts)'
    BY <2>1, <2>3, <2>4, <1>n
  <2>10. \A d \in Delivery : Made(d, table[d].attempts)'
    BY <2>1, <2>3, <2>4
  <2>. QED BY <2>7, <2>8, <2>9, <2>10
<1>7. ASSUME NEW s \in Session, Flush(s) PROVE CountInv'
  <2>1. \A q \in Session : Attempting(q)' => Attempting(q) /\ q # s
    BY <1>7, FlushTouches DEF Attempting
  <2>2. UNCHANGED <<sends, kind, table, seen>>
    BY <1>7, FlushTouches DEF world, history
  <2>3. Attempting(s)
    BY <1>7 DEF Flush, Attempting
  <2>. QED BY <1>7, <2>1, <2>2, <2>3, FlushTouches
<1>e. ASSUME NEW S \in SUBSET Session, NEW how \in {"done", "lost"}, End(S, how), UNCHANGED <<sends, kind>>,
             \A d \in Delivery : Made(d, table'[d].attempts)
      PROVE  CountInv'
  <2>1. \A q \in Session \ S : Attempting(q)' => Attempting(q)
    BY <1>e, EndTouches DEF Attempting
  <2>s. \A q \in S : /\ ~Attempting(q)'
                    /\ \A d \in Delivery : seen'[q][d] = 0 /\ writes'[q][d] = NoRow
    BY <1>e, EndTouches
  <2>2. \A q \in S : /\ ~Attempting(q)'
                    /\ \A d \in Delivery : seen'[q][d] = 0 /\ writes'[q][d].attempts = 0
    BY <2>s, NoRowFacts
  <2>3. \A q \in Session \ S : cur'[q] = cur[q] /\ tries'[q] = tries[q] /\ seen'[q] = seen[q] /\ writes'[q] = writes[q]
    BY <1>e, EndTouches
  <2>. QED BY <1>e, <1>o, <2>1, <2>2, <2>3
<1>8. ASSUME NEW s \in Session, Commit(s) PROVE CountInv'
  <2>1. \A d \in Delivery : Made(d, table'[d].attempts)
    BY <1>8, CommitTable
  <2>. QED BY <1>8, <2>1, <1>e DEF Commit, history, world
<1>9. ASSUME NEW S \in SUBSET Session, Lost(S) PROVE CountInv'
  BY <1>9, <1>e DEF Lost, history
<1>10. CASE Beside \/ UNCHANGED vars
  BY <1>10, BesideTouches DEF session, history
<1>. QED BY <1>1, <1>2, <1>3, <1>4, <1>5, <1>6, <1>7, <1>8, <1>9, <1>10, NextCases

-----------------------------------------------------------------------------
(***************************************************************************)
(* Rows of a run come with the commit of its deliver task, and stay.       *)
(***************************************************************************)
LEMMA RowsStay ==
    ASSUME Base, [Next]_vars
    PROVE  \A d \in Delivery : table[d].status # "none" => table'[d].status # "none"
<1>1. ASSUME NEW s \in Session, Commit(s)
      PROVE  \A d \in Delivery : table[d].status # "none" => table'[d].status # "none"
  BY <1>1, CommitTable, NoRowFacts
<1>2. Beside \/ UNCHANGED vars => \A d \in Delivery : table[d].status # "none" => table'[d].status # "none"
  BY BesideTouches
<1>3. \/ UNCHANGED table \/ Beside \/ UNCHANGED vars \/ \E s \in Session : Commit(s)
  BY NextCases DEF DeliverBegin, SweepBegin, HandBegin, Take, SweepGivesUp, Attempt, Flush, Lost
<1>. QED BY <1>1, <1>2, <1>3

LEMMA FirstStays == ASSUME Base, FirstIsDeliverRun, [Next]_vars PROVE FirstIsDeliverRun'
<1>. USE DEF FirstIsDeliverRun
<1>t. /\ \A r \in Run : <<"deliver", r>> \in Session /\ <<"deliver", r>> \in DeliverTask /\ <<"deliver", r>> # Sweep
      /\ \A r, q \in Run : <<"deliver", r>> = <<"deliver", q>> => r = q
      /\ \A d \in Delivery : d[1] \in Run
  BY SessionNames, DeliveryPairs
\* a session begins
<1>b. ASSUME NEW s \in Session, NEW ds \in SUBSET Delivery, Begin(s, ds), UNCHANGED <<cur, writes, table>>,
             s \in DeliverTask => \A d \in ds : s = <<"deliver", d[1]>>,
             s \notin DeliverTask => \A d \in ds : table[d].status # "none"
      PROVE  FirstIsDeliverRun'
  <2>1. \A q \in Session : pc'[q] # "done" => pc[q] # "done"
    BY <1>b, BeginTouches
  <2>. QED BY <1>b, <1>t, <2>1, BeginTouches
\* any other step
<1>k. ASSUME \A q \in Session : Touched(q)' \subseteq Touched(q),
             \A r \in Run : pc'[<<"deliver", r>>] # "done" => pc[<<"deliver", r>>] # "done",
             \A d \in Delivery : table'[d] # NoRow => table[d] # NoRow
      PROVE  FirstIsDeliverRun'
  BY <1>k, <1>t, RowsStay DEF Session, Base, TypeOK, Touched, Written, Custody
<1>1. ASSUME NEW r \in Run, DeliverBegin(r) PROVE FirstIsDeliverRun'
  <2>1. {r} \X (Target \ disabled) \in SUBSET Delivery /\ \A d \in {r} \X (Target \ disabled) : d[1] = r
    BY DEF Delivery
  <2>. QED BY <1>1, <2>1, <1>b, <1>t DEF DeliverBegin
<1>2. CASE SweepBegin
  <2>1. Due \in SUBSET Delivery /\ \A d \in Due : table[d].status # "none"
    BY DEF Due
  <2>. QED BY <1>2, <2>1, <1>b, SessionNames DEF SweepBegin
<1>3. ASSUME NEW s \in HandRetry, NEW d \in Delivery, HandBegin(s, d) PROVE FirstIsDeliverRun'
  <2>1. s \in Session /\ s \notin DeliverTask
    BY SessionNames
  <2>. QED BY <1>3, <2>1, <1>b DEF HandBegin
<1>4. ASSUME NEW s \in Session, NEW d \in todo[s], Take(s, d) PROVE FirstIsDeliverRun'
  <2>1. \A q \in Session : Touched(q)' \subseteq Touched(q) /\ (pc'[q] # "done" => pc[q] # "done")
    BY <1>4, TakeTouches
  <2>. QED BY <1>4, <1>k, <1>t, <2>1, TakeTouches
<1>5. ASSUME NEW d \in todo[Sweep], SweepGivesUp(d) PROVE FirstIsDeliverRun'
  BY <1>5, <1>k, GivesUpTouches
<1>6. ASSUME NEW s \in Session, Attempt(s) PROVE FirstIsDeliverRun'
  BY <1>6, <1>k, <1>t, AttemptTouches
<1>7. ASSUME NEW s \in Session, Flush(s) PROVE FirstIsDeliverRun'
  BY <1>7, <1>k, <1>t, FlushTouches
<1>8. ASSUME NEW s \in Session, Commit(s) PROVE FirstIsDeliverRun'
  <2>1. End({s}, "done") /\ Written(s) \subseteq Touched(s) /\ pc[s] = "open"
    BY <1>8 DEF Commit, Touched
  <2>2. \A q \in Session : Touched(q)' \subseteq Touched(q)
    BY <2>1, EndTouches
  <2>3. \A r \in Run : pc'[<<"deliver", r>>] # "done" =>
            pc[<<"deliver", r>>] # "done" /\ s # <<"deliver", r>>
    <3>1. \A q \in Session : pc'[q] = IF q # s THEN pc[q] ELSE IF q = Sweep THEN "new" ELSE "done"
      BY <2>1 DEF End
    <3>. QED BY <1>t, <3>1
  <2>4. ASSUME NEW d \in Delivery, table[d] = NoRow, table'[d] # NoRow PROVE s = <<"deliver", d[1]>>
    <3>1. d \in Touched(s)
      BY <1>8, <2>1, <2>4, CommitTable
    <3>2. CASE s \in DeliverTask
      BY <3>1, <3>2, SessionNames
    <3>3. CASE s \notin DeliverTask
      BY <3>1, <3>3, <2>4, NoRowFacts
    <3>. QED BY <3>2, <3>3
  <2>5. \A d \in Delivery : pc'[<<"deliver", d[1]>>] # "done" => table'[d] = NoRow
    BY <1>t, <2>3, <2>4
  <2>6. \A q \in Session \ DeliverTask : \A d \in Touched(q)' : table'[d].status # "none"
    BY <2>2, RowsStay DEF Base, TypeOK, Touched, Written, Custody
  <2>7. \A r \in Run : \A d \in Touched(<<"deliver", r>>)' : d[1] = r
    BY <1>t, <2>2
  <2>. QED BY <2>5, <2>6, <2>7
<1>9. ASSUME NEW S \in SUBSET {s \in Session : Active(s)}, Lost(S) PROVE FirstIsDeliverRun'
  <2>1. End(S, "lost") /\ UNCHANGED table
    BY <1>9 DEF Lost, history
  <2>. S \in SUBSET Session
    OBVIOUS
  <2>2. \A q \in Session : Touched(q)' \subseteq Touched(q)
    <3>1. \A q \in S : Touched(q)' = {}
      BY <2>1, EndTouches
    <3>2. \A q \in Session \ S : Touched(q)' = Touched(q)
      BY <2>1, EndTouches
    <3>. QED BY <3>1, <3>2
  <2>3. \A r \in Run : pc'[<<"deliver", r>>] # "done" => pc[<<"deliver", r>>] # "done"
    BY <1>9, <1>t, <2>1, EndTouches, ZenonT(30) DEF Active
  <2>. QED BY <2>1, <2>2, <2>3, <1>k
<1>10. CASE Beside \/ UNCHANGED vars
  BY <1>10, <1>k, BesideTouches DEF session
<1>. QED BY <1>1, <1>2, <1>3, <1>4, <1>5, <1>6, <1>7, <1>8, <1>9, <1>10, NextCases

-----------------------------------------------------------------------------
(***************************************************************************)
(* The sweep keeps max_total_attempts.                                     *)
(***************************************************************************)
LimitInv == WithinLimit /\ SweepKeepsLimit

LEMMA LimitBounds == Limit \in Nat /\ MaxAttempts \in Nat /\ \A n \in Nat : ~GivesUp(n) => n <= Limit
BY DeliveryAssumption DEF Limit, GivesUp

LEMMA LimitInvNext == ASSUME Base, FirstIsDeliverRun, LimitInv, [Next]_vars PROVE LimitInv'
<1>. USE DEF LimitInv, WithinLimit
<1>k. SweepKeepsLimit <=> \A d \in Delivery \ byHand : table[d].attempts <= MaxAttempts + Limit
  BY DEF SweepKeepsLimit, Limit
<1>k2. SweepKeepsLimit' <=> \A d \in Delivery \ byHand' : table'[d].attempts <= MaxAttempts + Limit
  BY DEF SweepKeepsLimit, Limit
<1>h. HandRetry \subseteq Session /\ DeliverTask \subseteq Session
  BY DEF Session
<1>n. \A q \in Session, d \in Delivery : seen[q][d] \in Nat /\ tries[q] \in 0..MaxAttempts
  BY DEF Base, TypeOK
\* a session begins
<1>b. ASSUME NEW s \in Session, NEW ds \in SUBSET Delivery, Begin(s, ds), UNCHANGED <<cur, writes, table>>,
             byHand \subseteq byHand', s \in HandRetry => ds \subseteq byHand',
             s \in DeliverTask => \A d \in ds : s = <<"deliver", d[1]>>
      PROVE  LimitInv'
  <2>1. \A q \in Session \ {s} : Touched(q)' = Touched(q) /\ seen'[q] = seen[q] /\ (Attempting(q)' => Attempting(q))
    BY <1>b, BeginTouches DEF Attempting
  <2>2. Touched(s)' = ds /\ ~Attempting(s)' /\ pc[s] = "new"
    BY <1>b, BeginTouches
  <2>3. \A d \in Delivery : seen'[s][d] = IF d \in ds THEN table[d].attempts ELSE 0
    BY <1>b, BeginTouches
  <2>4. s \in DeliverTask => \A d \in Delivery : seen'[s][d] = 0
    BY <1>b, <2>2, <2>3, NoRowFacts DEF FirstIsDeliverRun
  <2>5. \A d \in Delivery \ byHand' : seen'[s][d] <= MaxAttempts + Limit
    BY <1>b, <2>3, <1>k, LimitBounds
  <2>. QED BY <1>b, <1>k, <1>k2, <1>h, <2>1, <2>2, <2>4, <2>5
\* any other step leaves what was read
<1>s. ASSUME UNCHANGED <<seen, byHand>>,
             \A q \in Session : Touched(q)' \subseteq Touched(q),
             \A q \in Session, d \in Delivery \ byHand : writes'[q][d].attempts <= MaxAttempts + Limit,
             \A q \in Session, d \in Delivery \ byHand : Attempting(q)' /\ cur'[q] = d => seen[q][d] <= Limit,
             \A d \in Delivery : table'[d].attempts = table[d].attempts
      PROVE  LimitInv'
  BY <1>s, <1>k, <1>k2, <1>h
<1>1. ASSUME NEW r \in Run, DeliverBegin(r) PROVE LimitInv'
  <2>1. /\ {r} \X (Target \ disabled) \in SUBSET Delivery
        /\ \A d \in {r} \X (Target \ disabled) : d[1] = r
    BY DEF Delivery
  <2>. QED BY <1>1, <2>1, <1>b, SessionNames DEF DeliverBegin, history
<1>2. CASE SweepBegin
  <2>1. Due \in SUBSET Delivery
    BY DEF Due
  <2>. QED BY <1>2, <2>1, <1>b, SessionNames DEF SweepBegin, history
<1>3. ASSUME NEW s \in HandRetry, NEW d \in Delivery, HandBegin(s, d) PROVE LimitInv'
  <2>1. s \in Session /\ s \notin DeliverTask
    BY SessionNames
  <2>2. {d} \in SUBSET Delivery /\ byHand' = byHand \cup {d} /\ Begin(s, {d}) /\ UNCHANGED <<cur, writes, table>>
    BY <1>3 DEF HandBegin
  <2>. QED BY <2>1, <2>2, <1>b
<1>4. ASSUME NEW s \in Session, NEW d \in todo[s], Take(s, d) PROVE LimitInv'
  <2>1. \A q \in Session : Touched(q)' \subseteq Touched(q)
    BY <1>4, TakeTouches
  <2>2. UNCHANGED <<seen, byHand, writes, table>> /\ d \in Delivery
    BY <1>4, TakeTouches DEF history
  <2>3. d \notin byHand => seen[s][d] <= Limit
    <3>1. CASE s \in DeliverTask
      BY <3>1, <2>2, LimitBounds
    <3>2. CASE s \in HandRetry
      BY <3>2, <2>2 DEF Touched
    <3>3. CASE s = Sweep
      BY <1>4, <3>3, <2>2, <1>n, LimitBounds DEF Take
    <3>. QED BY <3>1, <3>2, <3>3, SessionNames
  <2>4. Attempting(s)' => cur'[s] = d
    BY <1>4, TakeTouches
  <2>5. \A q \in Session \ {s} : cur'[q] = cur[q] /\ (Attempting(q)' => Attempting(q))
    BY <1>4, TakeTouches DEF Attempting
  <2>. QED BY <2>1, <2>2, <2>3, <2>4, <2>5, <1>s
<1>5. ASSUME NEW d \in todo[Sweep], SweepGivesUp(d) PROVE LimitInv'
  <2>1. /\ UNCHANGED <<pc, cur, seen, byHand, table>> /\ d \in Delivery
        /\ \A q \in Session : Touched(q)' = Touched(q)
    BY <1>5, GivesUpTouches DEF history
  <2>2. \A q \in Session, e \in Delivery :
            writes'[q][e] = writes[q][e] \/ writes'[q][e].attempts = seen[q][e]
    <3>1. \A n : Row("failed", n).attempts = n
      BY DEF Row
    <3>. QED BY <1>5, <3>1, GivesUpTouches
  <2>3. \A q \in Session, e \in Delivery \ byHand : writes'[q][e].attempts <= MaxAttempts + Limit
    BY <2>2
  <2>. QED BY <2>1, <2>3, <1>s DEF Attempting
<1>6. ASSUME NEW s \in Session, Attempt(s) PROVE LimitInv'
  BY <1>6, <1>s, AttemptTouches
<1>7. ASSUME NEW s \in Session, Flush(s) PROVE LimitInv'
  <2>1. /\ cur[s] \in Delivery /\ UNCHANGED <<seen, byHand, table>> /\ Attempting(s)
        /\ \A q \in Session : Touched(q)' = Touched(q)
    BY <1>7, FlushTouches DEF history, Attempting
  <2>2. \A q \in Session, e \in Delivery :
            \/ writes'[q][e] = writes[q][e]
            \/ q = s /\ e = cur[s] /\ writes'[q][e].attempts = seen[s][e] + tries[s]
    BY <1>7, FlushTouches
  <2>3. cur[s] \notin byHand => seen[s][cur[s]] + tries[s] <= MaxAttempts + Limit
    <3>1. cur[s] \notin byHand => seen[s][cur[s]] <= Limit
      BY <2>1
    <3>2. seen[s][cur[s]] \in Nat /\ tries[s] \in 0..MaxAttempts
      BY <2>1, <1>n
    <3>. QED BY <3>1, <3>2, LimitBounds
  <2>4. \A q \in Session, e \in Delivery \ byHand : writes'[q][e].attempts <= MaxAttempts + Limit
    BY <2>2, <2>3
  <2>5. \A q \in Session : Attempting(q)' => Attempting(q) /\ cur'[q] = cur[q]
    BY <1>7, FlushTouches DEF Attempting
  <2>. QED BY <2>1, <2>4, <2>5, <1>s
\* sessions end
<1>e. ASSUME NEW S \in SUBSET Session, NEW how \in {"done", "lost"}, End(S, how), UNCHANGED byHand,
             \A d \in Delivery \ byHand : table'[d].attempts <= MaxAttempts + Limit
      PROVE  LimitInv'
  <2>1. \A q \in S : /\ Touched(q)' = {} /\ ~Attempting(q)'
                    /\ \A d \in Delivery : seen'[q][d] = 0 /\ writes'[q][d].attempts = 0
    BY <1>e, EndTouches, NoRowFacts
  <2>2. \A q \in Session \ S : /\ Touched(q)' = Touched(q) /\ (Attempting(q)' => Attempting(q))
                              /\ cur'[q] = cur[q] /\ seen'[q] = seen[q] /\ writes'[q] = writes[q]
    BY <1>e, EndTouches DEF Attempting
  <2>. QED BY <1>e, <1>k2, <1>h, <2>1, <2>2, LimitBounds
<1>8. ASSUME NEW s \in Session, Commit(s) PROVE LimitInv'
  <2>1. \A d \in Delivery \ byHand : table'[d].attempts <= MaxAttempts + Limit
    BY <1>8, <1>k, CommitTable
  <2>. QED BY <1>8, <2>1, <1>e DEF Commit, history
<1>9. ASSUME NEW S \in SUBSET Session, Lost(S) PROVE LimitInv'
  BY <1>9, <1>e, <1>k DEF Lost, history
<1>10. CASE Beside \/ UNCHANGED vars
  BY <1>10, <1>s, BesideTouches DEF session, history
<1>. QED BY <1>1, <1>2, <1>3, <1>4, <1>5, <1>6, <1>7, <1>8, <1>9, <1>10, NextCases

-----------------------------------------------------------------------------
(***************************************************************************)
(* One target failing never stops the others.                              *)
(***************************************************************************)
OutcomeInv == NoneForgotten /\ EveryTargetHasOutcome

LEMMA OutcomeInvNext ==
    ASSUME Base, ViewsAreTrue, FirstIsDeliverRun, OutcomeInv, [Next]_vars
    PROVE  OutcomeInv'
<1>. DEFINE Of(r) == <<"deliver", r>>
<1>t. /\ \A r \in Run : Of(r) \in Session /\ Of(r) \in DeliverTask /\ Of(r) # Sweep
      /\ \A r, q \in Run : Of(r) = Of(q) => r = q
      /\ \A r \in Run, t \in Target : <<r, t>> \in Delivery
  BY SessionNames, DeliveryPairs
<1>a. \A s \in Session : Active(s) => pc[s] \notin {"done", "new", "lost"}
  BY DEF Active
\* every step but the commits, and what a deliver task may let go of
<1>k. ASSUME UNCHANGED kind, disabled \subseteq disabled',
             \A r \in Run : status'[r] \in {status[r], "cancelled"},
             \A r \in Run : Active(Of(r))' => Active(Of(r)),
             \A r \in Run : pc'[Of(r)] = "done" => pc[Of(r)] = "done",
             \A r \in Run : Active(Of(r))' /\ view[Of(r)][r] = "passed" => view'[Of(r)][r] = "passed",
             \A r \in Run, t \in Target : Active(Of(r))' /\ <<r, t>> \in Touched(Of(r)) =>
                \/ <<r, t>> \in Touched(Of(r))'
                \/ kind[t] = "failure" /\ view'[Of(r)][r] = "passed"
      PROVE  OutcomeInv'
  <2>1. NoneForgotten'
    BY <1>k DEF OutcomeInv, NoneForgotten
  <2>2. EveryTargetHasOutcome'
    BY <1>k, <1>t, RowsStay DEF OutcomeInv, EveryTargetHasOutcome, Base, TypeOK
  <2>. QED BY <2>1, <2>2 DEF OutcomeInv
<1>. HIDE DEF Of
<1>1. ASSUME NEW r \in Run, DeliverBegin(r) PROVE OutcomeInv'
  <2>. DEFINE ds == {r} \X (Target \ disabled)
  <2>1. /\ ds \in SUBSET Delivery /\ Begin(Of(r), ds)
        /\ UNCHANGED <<cur, writes, kind, disabled, status, table>>
    BY <1>1 DEF DeliverBegin, world, Delivery, Of
  <2>v. \A q \in Session \ {Of(r)} : view'[q] = view[q]
    BY <1>1 DEF DeliverBegin, ReadRun, Base, TypeOK, Of
  <2>. HIDE DEF ds
  <2>2. Touched(Of(r))' = ds /\ Active(Of(r))'
    BY <1>t, <2>1, BeginTouches
  <2>3. \A q \in Session \ {Of(r)} : Touched(q)' = Touched(q) /\ pc'[q] = pc[q]
    BY <1>t, <2>1, BeginTouches
  <2>4. \A t \in Target \ disabled : <<r, t>> \in ds
    BY DEF ds
  <2>5. NoneForgotten'
    BY <1>t, <2>1, <2>v, <2>2, <2>3, <2>4 DEF OutcomeInv, NoneForgotten, Active, Of
  <2>6. EveryTargetHasOutcome'
    <3>1. pc'[Of(r)] # "done"
      BY <2>2 DEF Active
    <3>. QED BY <1>t, <2>1, <2>3, <3>1 DEF OutcomeInv, EveryTargetHasOutcome, Of
  <2>. QED BY <2>5, <2>6 DEF OutcomeInv
\* the other sessions begin beside the deliver tasks
<1>b. ASSUME NEW s \in Session, NEW ds \in SUBSET Delivery, s \notin DeliverTask, Begin(s, ds),
             UNCHANGED <<cur, writes, kind, disabled, status>>, \A q \in Session \ {s} : view'[q] = view[q]
      PROVE  OutcomeInv'
  <2>1. \A q \in Session \ {s} : Touched(q)' = Touched(q) /\ pc'[q] = pc[q]
    BY <1>b, BeginTouches
  <2>2. \A r \in Run : Of(r) \in Session \ {s}
    BY <1>b, <1>t
  <2>. QED BY <1>b, <1>k, <2>1, <2>2 DEF Active, Of
<1>2. CASE SweepBegin
  <2>1. Due \in SUBSET Delivery
    BY DEF Due
  <2>. QED BY <1>2, <2>1, <1>b, SessionNames DEF SweepBegin, world
<1>3. ASSUME NEW s \in HandRetry, NEW d \in Delivery, HandBegin(s, d) PROVE OutcomeInv'
  <2>1. s \in Session /\ s \notin DeliverTask /\ {d} \in SUBSET Delivery
    BY SessionNames
  <2>2. \A q \in Session \ {s} : view'[q] = view[q]
    BY <1>3, <2>1 DEF HandBegin, ReadRun, Base, TypeOK
  <2>. QED BY <1>3, <2>1, <2>2, <1>b DEF HandBegin, world
<1>4. ASSUME NEW s \in Session, NEW d \in todo[s], Take(s, d) PROVE OutcomeInv'
  <2>1. \A q \in Session \ {s} : Touched(q)' = Touched(q) /\ pc'[q] = pc[q] /\ view'[q] = view[q]
    BY <1>4, TakeTouches
  <2>2. /\ UNCHANGED <<kind, disabled, status>> /\ pc[s] = "open" /\ d \in Delivery
        /\ pc'[s] \in {"open", "sending", "flush"} /\ d \in Touched(s)
        /\ Touched(s) \ {d} \subseteq Touched(s)'
        /\ \/ d \in Touched(s)'
           \/ kind[d[2]] = "failure" /\ view'[s][d[1]] = "passed"
    BY <1>4, TakeTouches DEF world, Touched
  <2>3. \A r \in Run : view[s][r] # "unread" => view'[s][r] = view[s][r]
    BY <1>4, TakeTouches
  <2>4. \A q \in Session : (Active(q)' => Active(q)) /\ (pc'[q] = "done" => pc[q] = "done")
    BY <2>1, <2>2 DEF Active
  <2>5. \A r \in Run : view[Of(r)][r] = "passed" => view'[Of(r)][r] = "passed"
    BY <1>t, <2>1, <2>3
  <2>6. ASSUME NEW r \in Run, NEW t \in Target, <<r, t>> \in Touched(Of(r))
        PROVE  \/ <<r, t>> \in Touched(Of(r))'
               \/ kind[t] = "failure" /\ view'[Of(r)][r] = "passed"
    <3>1. CASE s = Of(r) /\ d = <<r, t>>
      BY <2>2, <3>1
    <3>2. CASE s = Of(r) /\ d # <<r, t>>
      BY <2>2, <2>6, <3>2
    <3>3. CASE s # Of(r)
      BY <1>t, <2>1, <2>6, <3>3
    <3>. QED BY <3>1, <3>2, <3>3
  <2>. QED BY <1>t, <2>2, <2>4, <2>5, <2>6, <1>k DEF Of, Base, TypeOK
<1>5. ASSUME NEW d \in todo[Sweep], SweepGivesUp(d) PROVE OutcomeInv'
  <2>1. UNCHANGED <<pc, kind, disabled, status>> /\ \A q \in Session : Touched(q)' = Touched(q)
    BY <1>5, GivesUpTouches DEF world
  <2>2. \A r \in Run : view'[Of(r)] = view[Of(r)]
    BY <1>5, <1>t, GivesUpTouches
  <2>. QED BY <1>t, <2>1, <2>2, <1>k DEF Active, Of
<1>6. ASSUME NEW s \in Session, Attempt(s) \/ Flush(s) PROVE OutcomeInv'
  <2>1. UNCHANGED <<view, kind, disabled, status>> /\ \A q \in Session : Touched(q)' = Touched(q)
    BY <1>6, AttemptTouches, FlushTouches DEF world
  <2>2. \A q \in Session : (Active(q)' => Active(q)) /\ (pc'[q] = "done" => pc[q] = "done")
    BY <1>6, AttemptTouches, FlushTouches DEF Active
  <2>. QED BY <1>t, <2>1, <2>2, <1>k DEF Of
<1>7. ASSUME NEW s \in Session, Commit(s) PROVE OutcomeInv'
  <2>1. /\ End({s}, "done") /\ UNCHANGED <<kind, disabled, status>> /\ Touched(s) = Written(s) /\ pc[s] = "open"
    BY <1>7 DEF Commit, world, Touched, Attempting
  <2>2. \A q \in Session : pc'[q] = IF q # s THEN pc[q] ELSE IF q = Sweep THEN "new" ELSE "done"
    BY <2>1 DEF End
  <2>3. \A q \in Session \ {s} : Touched(q)' = Touched(q) /\ view'[q] = view[q]
    BY <2>1 DEF End, Touched, Written, Attempting
  <2>4. NoneForgotten'
    BY <1>t, <2>1, <2>2, <2>3 DEF OutcomeInv, NoneForgotten, Active, Of
  <2>5. ASSUME NEW r \in Run, NEW t \in Target \ disabled, s = Of(r)
        PROVE  table'[<<r, t>>].status # "none" \/ (kind[t] = "failure" /\ status[r] # "failed")
    <3>1. <<r, t>> \in Written(s) \/ (kind[t] = "failure" /\ view[Of(r)][r] = "passed")
      BY <2>1, <2>5 DEF OutcomeInv, NoneForgotten, Active, Of
    <3>2. <<r, t>> \in Written(s) => table'[<<r, t>>].status # "none"
      BY <1>7, <1>t, CommitTable, NoRowFacts DEF Written
    <3>3. view[Of(r)][r] = "passed" => status[r] # "failed"
      BY <1>t DEF ViewsAreTrue
    <3>. QED BY <3>1, <3>2, <3>3
  <2>6. EveryTargetHasOutcome'
    <3>1. SUFFICES ASSUME NEW r \in Run, NEW t \in Target \ disabled, pc'[Of(r)] = "done"
                   PROVE  table'[<<r, t>>].status # "none" \/ (kind[t] = "failure" /\ status[r] # "failed")
      BY <2>1 DEF EveryTargetHasOutcome, Of
    <3>2. CASE s = Of(r)
      BY <2>5, <3>2
    <3>3. CASE s # Of(r)
      BY <1>t, <2>2, <3>1, <3>3, RowsStay DEF OutcomeInv, EveryTargetHasOutcome, Of
    <3>. QED BY <3>2, <3>3
  <2>. QED BY <2>4, <2>6 DEF OutcomeInv
<1>8. ASSUME NEW S \in SUBSET {s \in Session : Active(s)}, Lost(S) PROVE OutcomeInv'
  <2>1. End(S, "lost") /\ UNCHANGED <<kind, disabled, status>>
    BY <1>8 DEF Lost
  <2>2. \A q \in Session : pc'[q] = IF q \notin S THEN pc[q] ELSE IF q = Sweep THEN "new" ELSE "lost"
    BY <2>1 DEF End
  <2>3. \A q \in Session \ S : Touched(q)' = Touched(q) /\ view'[q] = view[q]
    BY <2>1 DEF End, Touched, Written, Attempting
  <2>4. \A q \in Session : Active(q)' => q \notin S /\ Active(q)
    BY <2>2 DEF Active
  <2>5. \A q \in Session : pc'[q] = "done" => pc[q] = "done"
    BY <2>2
  <2>. QED BY <1>t, <2>1, <2>3, <2>4, <2>5, <1>k DEF Of, Base, TypeOK
<1>9. CASE Beside \/ UNCHANGED vars
  BY <1>9, <1>t, <1>k, BesideTouches DEF session, Active, Of
<1>. QED BY <1>1, <1>2, <1>3, <1>4, <1>5, <1>6, <1>7, <1>8, <1>9, NextCases

-----------------------------------------------------------------------------
LEMMA InvInit == Init => IInv
<1>. SUFFICES ASSUME Init PROVE IInv
  OBVIOUS
<1>1. Base
  BY BaseInit
<1>2. \A s \in Session : pc[s] = "new" /\ Touched(s) = {} /\ ~Attempting(s) /\ result[s] = "none"
  BY DEF Init, Touched, Written, Attempting
<1>3. \A s \in Session, d \in Delivery : seen[s][d] = 0 /\ writes[s][d] = NoRow
  BY DEF Init
<1>4. \A d \in Delivery : table[d] = NoRow /\ sends[d] = 0
  BY DEF Init
<1>5. ViewsAreTrue /\ SendsWhereAsked /\ OnlyWhereAsked
  BY <1>2, <1>4 DEF Init, ViewsAreTrue, SendsWhereAsked, OnlyWhereAsked
<1>6. SentInv /\ CountInv
  BY <1>2, <1>3, <1>4, NoRowFacts DEF SentInv, SentWasTaken, SentMeansReceived, CountInv, Counted, RecordedAttemptsMade, Made
<1>7. FirstIsDeliverRun
  BY <1>2, <1>4, SessionNames DEF FirstIsDeliverRun
<1>8. LimitInv
  BY <1>2, <1>3, <1>4, NoRowFacts, LimitBounds, SessionNames DEF LimitInv, WithinLimit, SweepKeepsLimit, Limit
<1>9. OutcomeInv
  BY <1>2, SessionNames DEF OutcomeInv, NoneForgotten, EveryTargetHasOutcome, Active
<1>. QED BY <1>1, <1>5, <1>6, <1>7, <1>8, <1>9 DEF IInv, SentInv, CountInv, LimitInv, OutcomeInv

LEMMA InvNext == IInv /\ [Next]_vars => IInv'
BY BaseNext, ViewsStayTrue, SendsStayAsked, AskedStays, SentInvNext, CountInvNext, FirstStays, LimitInvNext, OutcomeInvNext
DEF IInv, SentInv, CountInv, LimitInv, OutcomeInv

LEMMA Invariance == Spec => []IInv
BY InvInit, InvNext, PTL DEF Spec

\* Every variable has its type: a session is sending or writing one delivery, and
\* makes no more than max_attempts attempts at it (base._send_with_retry).
THEOREM DeliveryTypes == Spec => []TypeOK
BY Invariance, PTL DEF IInv, Base

\* What the table calls sent was received whole, whichever of the sessions that
\* attempted it committed last (base.deliver_one, base._send_batches).
THEOREM SentWasReceived == Spec => []SentMeansReceived
BY Invariance, PTL DEF IInv

\* No target is passed over because another one failed (base.deliver_run).
THEOREM OutcomeForEveryTarget == Spec => []EveryTargetHasOutcome
BY Invariance, PTL DEF IInv

\* No row goes to a target that did not ask for rows of such a run (base._held and
\* deliver_one), though the status is read once and the run may be cancelled since.
THEOREM SentOnlyWhereAsked == Spec => []OnlyWhereAsked
BY Invariance, PTL DEF IInv

\* The attempts on record were made (base.deliver_one adds those of its session to
\* those it read).
THEOREM RecordedWereMade == Spec => []RecordedAttemptsMade
BY Invariance, PTL DEF IInv

\* The sweep gives up at max_total_attempts (base._retry_pending), up to the attempts
\* of its last round, whatever the deliver tasks beside it do.
THEOREM SweepStopsAtLimit == Spec => []SweepKeepsLimit
BY Invariance, PTL DEF IInv
=============================================================================
