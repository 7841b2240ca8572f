--------------------------- MODULE ServicesProofs ---------------------------
(***************************************************************************)
(* Proofs about the services that module MCServices checks side by side:   *)
(* the evidence and the resources of the ladder of engines, the changes    *)
(* that a repair tells minor, what an attempt to deliver sends and says,   *)
(* and what is read back by a client that pages and on the pages of the    *)
(* web UI.                                                                 *)
(***************************************************************************)
EXTENDS MCServices, SequenceTheorems, FiniteSetTheorems, NaturalsInduction, TLAPS

-----------------------------------------------------------------------------
(***************************************************************************)
(* Engines.  What a rung of the ladder opens is closed before the next one *)
(* begins, and the trace and HAR that stay are of rungs that failed: for   *)
(* ladders of any length and any failures at any step of any engine.  The  *)
(* invariant says at each point what may be open (Custody), that only a    *)
(* browser makes evidence (MadeByBrowser), and that the files there are    *)
(* are of earlier rungs until this one is captured (KeptInOrder).          *)
(***************************************************************************)

At == {"build", "open", "launch", "context", "page", "steps", "capture", "close", "judge"} \cup Over

\* The types, and what is open at each point.
EngineTypes ==
    /\ user \in {"runner", "agent"} /\ ladder \in Seq(Rung) /\ place \in 1..Len(ladder)
    /\ at \in At /\ made \subseteq Evidence
    /\ \A e \in Evidence : kept[e] \in Nat

Custody ==
    /\ at \in {"build", "open", "judge", "cut"} => held = {}
    /\ at = "launch" => held = {<<place, "driver">>}
    /\ at = "context" => held = {<<place, "driver">>, <<place, "browser">>}
    /\ at = "page" => held = {<<place, "driver">>, <<place, "browser">>, <<place, "context">>}
    /\ at \in {"steps", "capture", "close"} => \A h \in held : h[1] = place
    /\ at = "done" => held = {} \/ (user = "agent" /\ Handles = {"driver", "browser", "context"})
    /\ at = "capture" => user = "runner"
    /\ at = "close" => user = "agent"

MadeByBrowser ==
    /\ at \in {"launch", "context", "page"} => here = "browser"
    /\ at \notin {"build", "cut"} /\ made # {} => here = "browser"

\* After its capture, a rung that passed left no trace and no HAR, and one that failed
\* what it had made.
Captured ==
    /\ failure = "none" => /\ kept["trace"] # place /\ kept["har"] # place
                           /\ here = "browser" => kept["har"] = 0
    /\ failure # "none" => \A e \in made : kept[e] = place

KeptInOrder ==
    /\ \A e \in Evidence : kept[e] <= place
    /\ at \notin {"judge", "done", "cut"} => \A e \in Evidence : kept[e] < place
    /\ \A e \in {"trace", "har"} : kept[e] # 0 => ladder[kept[e]] = "browser"
    /\ user = "agent" => \A e \in Evidence : kept[e] = 0
    /\ at = "judge" \/ (at = "done" /\ user = "runner") => Captured

EnginesInv == EngineTypes /\ Custody /\ MadeByBrowser /\ KeptInOrder

-----------------------------------------------------------------------------
LEMMA InvInit == MaxLadder \in Nat /\ EnginesInit => EnginesInv
<1> SUFFICES ASSUME MaxLadder \in Nat, EnginesInit PROVE EnginesInv
  OBVIOUS
<1>1. ladder \in Seq(Rung) /\ 1 \in 1..Len(ladder)
  <2>1. CASE ladder \in Ladder
    <3>1. PICK n \in 1..MaxLadder : ladder \in [1..n -> Rung]
      BY <2>1 DEF Ladder
    <3>2. n \in Nat /\ n >= 1
      OBVIOUS
    <3>3. ladder \in Seq(Rung) /\ Len(ladder) = n
      BY <3>1, <3>2
    <3> QED BY <3>2, <3>3
  <2>2. CASE ladder \in {<<"http">>, <<"browser">>}
    <3>1. PICK r \in Rung : ladder = <<r>>
      BY <2>2 DEF Rung
    <3>2. <<r>> \in Seq(Rung) /\ Len(<<r>>) = 1
      OBVIOUS
    <3> QED BY <3>1, <3>2
  <2> QED BY <2>1, <2>2 DEF EnginesInit
<1>2. \A e \in Evidence : kept[e] = 0
  BY DEF EnginesInit
<1>3. EngineTypes
  BY <1>1, <1>2 DEF EnginesInit, EngineTypes, At, Over
<1>4. Custody /\ MadeByBrowser
  BY DEF EnginesInit, Custody, MadeByBrowser
<1>5. KeptInOrder
  BY <1>2 DEF EnginesInit, KeptInOrder, Evidence
<1> QED BY <1>3, <1>4, <1>5 DEF EnginesInv

\* While a rung is on its way to its capture, the files stay as they are.
LEMMA KeptStays ==
    ASSUME EnginesInv, at \notin {"judge", "done", "cut"},
           at' \in At \ {"judge", "done"} \/ (at' = "done" /\ user = "agent"),
           UNCHANGED <<user, ladder, place, kept>>
    PROVE  KeptInOrder'
<1>1. at' # "judge" /\ (at' = "done" => user' # "runner")
  OBVIOUS
<1> QED BY <1>1 DEF EnginesInv, KeptInOrder

LEMMA ClosedIsEmpty ==
    ASSUME \A h \in held : h[1] = place
    PROVE  OthersOpen = {}
  BY DEF OthersOpen

-----------------------------------------------------------------------------
LEMMA BuildKeeps == ASSUME EnginesInv, Build PROVE EnginesInv'
<1>1. at = "build" /\ made' = {} /\ UNCHANGED <<user, ladder, place, held, kept>>
  BY DEF Build
<1>2. (at' = "judge" /\ failure' = "unavailable") \/ (at' = "open" /\ failure' = "none")
  BY DEF Build
<1>3. EngineTypes'
  BY <1>1, <1>2 DEF EnginesInv, EngineTypes, At
<1>4. Custody'
  BY <1>1, <1>2 DEF EnginesInv, Custody
<1>5. MadeByBrowser'
  BY <1>1, <1>2 DEF MadeByBrowser
<1>6. KeptInOrder'
  BY <1>1, <1>2 DEF EnginesInv, KeptInOrder, Captured, here
<1> QED BY <1>3, <1>4, <1>5, <1>6 DEF EnginesInv

LEMMA OpenSessionKeeps == ASSUME EnginesInv, OpenSession PROVE EnginesInv'
<1>1. at = "open" /\ held = {} /\ UNCHANGED <<user, ladder, place, made, kept>>
  BY DEF OpenSession, EnginesInv, Custody
<1>2. \/ at' = "steps" /\ held' = {<<place, "session">>}
      \/ held' = {} /\ at' = IF user = "runner" THEN "capture" ELSE "done"
  BY <1>1 DEF OpenSession, OpenFails, With
<1>3. at' \in {"steps", "capture", "done"} /\ (at' = "done" => user = "agent")
  BY <1>2 DEF EnginesInv, EngineTypes
<1>4. EngineTypes'
  BY <1>1, <1>3 DEF EnginesInv, EngineTypes, At, Over
<1>5. Custody'
  BY <1>1, <1>2 DEF EnginesInv, Custody, EngineTypes
<1>6. MadeByBrowser'
  BY <1>1, <1>3 DEF EnginesInv, MadeByBrowser, here
<1>7. KeptInOrder'
  BY <1>1, <1>3, KeptStays DEF At, Over
<1> QED BY <1>4, <1>5, <1>6, <1>7 DEF EnginesInv

LEMMA StartDriverKeeps == ASSUME EnginesInv, StartDriver PROVE EnginesInv'
<1>1. at = "open" /\ here = "browser" /\ held = {} /\ UNCHANGED <<user, ladder, place, made, kept>>
  BY DEF StartDriver, EnginesInv, Custody
<1>2. \/ at' = "launch" /\ held' = {<<place, "driver">>}
      \/ held' = {} /\ at' = IF user = "runner" THEN "capture" ELSE "done"
  BY <1>1 DEF StartDriver, OpenFails, With
<1>3. at' \in {"launch", "capture", "done"} /\ (at' = "done" => user = "agent")
  BY <1>2 DEF EnginesInv, EngineTypes
<1>4. EngineTypes'
  BY <1>1, <1>3 DEF EnginesInv, EngineTypes, At, Over
<1>5. Custody'
  BY <1>1, <1>2 DEF EnginesInv, Custody, EngineTypes
<1>6. MadeByBrowser'
  BY <1>1, <1>3 DEF MadeByBrowser, here
<1>7. KeptInOrder'
  BY <1>1, <1>3, KeptStays DEF At, Over
<1> QED BY <1>4, <1>5, <1>6, <1>7 DEF EnginesInv

LEMMA LaunchKeeps == ASSUME EnginesInv, Launch PROVE EnginesInv'
<1>1. at = "launch" /\ here = "browser" /\ held = {<<place, "driver">>}
      /\ UNCHANGED <<user, ladder, place, made, kept>>
  BY DEF Launch, EnginesInv, Custody, MadeByBrowser
<1>2. \/ at' = "context" /\ held' = {<<place, "driver">>, <<place, "browser">>}
      \/ held' = {} /\ at' = IF user = "runner" THEN "capture" ELSE "done"
  <2>1. OthersOpen = {}
    BY <1>1, ClosedIsEmpty
  <2> QED BY <1>1, <2>1 DEF Launch, OpenFails, With
<1>3. at' \in {"context", "capture", "done"} /\ (at' = "done" => user = "agent")
  BY <1>2 DEF EnginesInv, EngineTypes
<1>4. EngineTypes'
  BY <1>1, <1>3 DEF EnginesInv, EngineTypes, At, Over
<1>5. Custody'
  BY <1>1, <1>2 DEF EnginesInv, Custody, EngineTypes
<1>6. MadeByBrowser'
  BY <1>1, <1>3 DEF MadeByBrowser, here
<1>7. KeptInOrder'
  BY <1>1, <1>3, KeptStays DEF At, Over
<1> QED BY <1>4, <1>5, <1>6, <1>7 DEF EnginesInv

LEMMA OpenContextKeeps == ASSUME EnginesInv, OpenContext PROVE EnginesInv'
<1>1. at = "context" /\ here = "browser" /\ held = {<<place, "driver">>, <<place, "browser">>}
      /\ UNCHANGED <<user, ladder, place, kept>>
  BY DEF OpenContext, EnginesInv, Custody, MadeByBrowser
<1>2. \/ at' = "page" /\ held' = {<<place, "driver">>, <<place, "browser">>, <<place, "context">>}
      \/ held' = {} /\ at' = IF user = "runner" THEN "capture" ELSE "done"
  <2>1. OthersOpen = {}
    BY <1>1, ClosedIsEmpty
  <2> QED BY <1>1, <2>1 DEF OpenContext, OpenFails, With
<1>3. at' \in {"page", "capture", "done"} /\ (at' = "done" => user = "agent")
  BY <1>2 DEF EnginesInv, EngineTypes
<1>4. made' \subseteq Evidence
  <2>1. made \subseteq Evidence
    BY DEF EnginesInv, EngineTypes
  <2> QED BY <2>1 DEF OpenContext, Evidence
<1>5. EngineTypes'
  BY <1>1, <1>3, <1>4 DEF EnginesInv, EngineTypes, At, Over
<1>6. Custody'
  BY <1>1, <1>2 DEF EnginesInv, Custody, EngineTypes
<1>7. MadeByBrowser'
  BY <1>1, <1>3 DEF MadeByBrowser, here
<1>8. KeptInOrder'
  BY <1>1, <1>3, KeptStays DEF At, Over
<1> QED BY <1>5, <1>6, <1>7, <1>8 DEF EnginesInv

LEMMA OpenPageKeeps == ASSUME EnginesInv, OpenPage PROVE EnginesInv'
<1>1. at = "page" /\ here = "browser" /\ UNCHANGED <<user, ladder, place, held, kept>>
      /\ held = {<<place, "driver">>, <<place, "browser">>, <<place, "context">>}
  BY DEF OpenPage, OpenFails, EnginesInv, Custody, MadeByBrowser
<1>2. at' \in {"steps", "capture", "done"} /\ (at' = "done" => user = "agent")
      /\ (at' = "capture" => user = "runner")
  BY DEF OpenPage, OpenFails, EnginesInv, EngineTypes
<1>3. made' \subseteq Evidence
  BY DEF OpenPage, EnginesInv, EngineTypes, Evidence
<1>4. EngineTypes'
  BY <1>1, <1>2, <1>3 DEF EnginesInv, EngineTypes, At, Over
<1>5. Handles' = {"driver", "browser", "context"}
  <2> DEFINE a == <<place, "driver">>
             b == <<place, "browser">>
             c == <<place, "context">>
  <2>1. held' = {a, b, c} /\ place' = place
    BY <1>1
  <2>2. {g \in held' : g[1] = place} = {a, b, c}
    BY <2>1
  <2>3. {h[2] : h \in {a, b, c}} = {"driver", "browser", "context"}
    OBVIOUS
  <2> QED BY <2>1, <2>2, <2>3 DEF Handles
<1>6. Custody'
  <2>1. \A h \in held' : h[1] = place
    BY <1>1
  <2> QED BY <1>1, <1>2, <1>5, <2>1 DEF Custody
<1>7. MadeByBrowser'
  BY <1>1, <1>2 DEF MadeByBrowser, here
<1>8. KeptInOrder'
  BY <1>1, <1>2, KeptStays DEF At, Over
<1> QED BY <1>4, <1>6, <1>7, <1>8 DEF EnginesInv

\* A step fails, or the last one is done.
LEMMA StepsKeep ==
    ASSUME EnginesInv, at = "steps", at' = IF user = "runner" THEN "capture" ELSE "close",
           UNCHANGED <<user, ladder, place, held, made, kept>>
    PROVE  EnginesInv'
<1>1. /\ at' \in {"capture", "close"} /\ (at' = "capture" => user = "runner")
      /\ at' = "close" => user = "agent"
  BY DEF EnginesInv, EngineTypes
<1>2. EngineTypes'
  BY <1>1 DEF EnginesInv, EngineTypes, At
<1>3. Custody'
  BY <1>1 DEF EnginesInv, Custody
<1>4. MadeByBrowser'
  BY <1>1 DEF EnginesInv, MadeByBrowser, here
<1>5. KeptInOrder'
  BY <1>1, KeptStays DEF At, Over
<1> QED BY <1>2, <1>3, <1>4, <1>5 DEF EnginesInv

LEMMA CloseKeeps == ASSUME EnginesInv, Close PROVE EnginesInv'
<1>1. at = "close" /\ at' = "done" /\ UNCHANGED <<user, ladder, place, failure, made, kept>>
  BY DEF Close
<1>2. held' = {}
  BY <1>1, ClosedIsEmpty DEF Close, EnginesInv, Custody
<1>3. EngineTypes'
  BY <1>1 DEF EnginesInv, EngineTypes, At, Over
<1>4. Custody'
  BY <1>1, <1>2 DEF Custody
<1>5. MadeByBrowser'
  BY <1>1 DEF EnginesInv, MadeByBrowser, here
<1>6. KeptInOrder'
  BY <1>1, KeptStays DEF EnginesInv, Custody
<1> QED BY <1>3, <1>4, <1>5, <1>6 DEF EnginesInv

LEMMA CaptureKeeps == ASSUME EnginesInv, Capture PROVE EnginesInv'
<1>1. at = "capture" /\ at' = "judge" /\ user = "runner" /\ UNCHANGED <<user, ladder, place, failure>>
  BY DEF Capture, EnginesInv, Custody
<1>2. held' = {}
  BY <1>1, ClosedIsEmpty DEF Capture, EnginesInv, Custody
<1>3. PICK written \in SUBSET made : made' = written /\ kept' = AfterFinish(written)
  BY DEF Capture
<1>4. /\ kept'["page"] = IF here = "http" \/ "page" \in written THEN place ELSE kept["page"]
      /\ kept'["trace"] = IF "trace" \in written /\ failure # "none" THEN place ELSE kept["trace"]
      /\ kept'["har"] = IF here = "browser" /\ failure = "none" THEN 0
                        ELSE IF "har" \in written THEN place ELSE kept["har"]
  BY <1>3 DEF AfterFinish
<1>5. written \subseteq Evidence /\ (written # {} => here = "browser")
  BY <1>1, <1>3 DEF EnginesInv, EngineTypes, MadeByBrowser
<1>6. place \in Nat /\ \A e \in Evidence : kept[e] \in Nat /\ kept[e] < place
  BY <1>1 DEF EnginesInv, EngineTypes, KeptInOrder
<1>7. kept["page"] < place /\ kept["trace"] < place /\ kept["har"] < place
      /\ kept["page"] \in Nat /\ kept["trace"] \in Nat /\ kept["har"] \in Nat
  BY <1>6 DEF Evidence
<1>8. /\ kept'["page"] \in Nat /\ kept'["page"] <= place
      /\ kept'["trace"] \in Nat /\ kept'["trace"] <= place
      /\ kept'["har"] \in Nat /\ kept'["har"] <= place
  BY <1>4, <1>6, <1>7
<1>9. \A e \in Evidence : kept'[e] \in Nat /\ kept'[e] <= place
  BY <1>8 DEF Evidence
<1>10. EngineTypes'
  BY <1>1, <1>3, <1>5, <1>9 DEF EnginesInv, EngineTypes, At
<1>11. Custody'
  BY <1>1, <1>2 DEF Custody
<1>12. MadeByBrowser'
  BY <1>1, <1>3, <1>5 DEF MadeByBrowser, here
<1>13. \A e \in {"trace", "har"} : kept'[e] # 0 => ladder[kept'[e]] = "browser"
  <2>1. \A e \in {"trace", "har"} : kept[e] # 0 => ladder[kept[e]] = "browser"
    BY DEF EnginesInv, KeptInOrder
  <2>2. kept'["trace"] # 0 => ladder[kept'["trace"]] = "browser"
    BY <1>4, <1>5, <2>1 DEF here
  <2>3. kept'["har"] # 0 => ladder[kept'["har"]] = "browser"
    BY <1>4, <1>5, <2>1 DEF here
  <2> QED BY <2>2, <2>3
<1>14. Captured'
  <2>1. failure' = failure /\ place' = place /\ here' = here /\ made' = written
    BY <1>1, <1>3 DEF here
  <2>2. failure = "none" => /\ kept'["trace"] # place /\ kept'["har"] # place
                            /\ here = "browser" => kept'["har"] = 0
    BY <1>4, <1>5, <1>6, <1>7
  <2>3. failure # "none" => \A e \in written : kept'[e] = place
    <3> SUFFICES ASSUME failure # "none", NEW e \in written PROVE kept'[e] = place
      OBVIOUS
    <3>1. e \in {"page", "trace", "har"}
      BY <1>5 DEF Evidence
    <3> QED BY <1>4, <3>1
  <2> QED BY <2>1, <2>2, <2>3 DEF Captured
<1>15. KeptInOrder'
  BY <1>1, <1>9, <1>13, <1>14 DEF KeptInOrder
<1> QED BY <1>10, <1>11, <1>12, <1>15 DEF EnginesInv

LEMMA JudgeKeeps == ASSUME EnginesInv, Judge PROVE EnginesInv'
<1>1. at = "judge" /\ held = {} /\ UNCHANGED <<user, ladder, failure, held, made, kept>>
  BY DEF Judge, EnginesInv, Custody
<1>2. place \in Nat /\ Len(ladder) \in Nat /\ place \in 1..Len(ladder)
  BY DEF EnginesInv, EngineTypes
<1>3. \A e \in Evidence : kept[e] \in Nat /\ kept[e] <= place
  BY DEF EnginesInv, EngineTypes, KeptInOrder
<1>4. CASE place < Len(ladder) /\ at' = "build" /\ place' = place + 1
  <2>1. place + 1 \in 1..Len(ladder)
    BY <1>2, <1>4
  <2>2. EngineTypes'
    BY <1>1, <1>4, <2>1 DEF EnginesInv, EngineTypes, At
  <2>3. Custody' /\ MadeByBrowser'
    BY <1>1, <1>4 DEF Custody, MadeByBrowser
  <2>4. \A e \in Evidence : kept'[e] < place'
    BY <1>1, <1>2, <1>3, <1>4
  <2>5. \A e \in Evidence : kept'[e] <= place'
    BY <1>1, <1>2, <1>3, <1>4
  <2>6. KeptInOrder'
    BY <1>1, <1>4, <2>4, <2>5 DEF EnginesInv, KeptInOrder
  <2> QED BY <2>2, <2>3, <2>6 DEF EnginesInv
<1>5. CASE at' = "done" /\ UNCHANGED place
  <2>1. EngineTypes'
    BY <1>1, <1>5 DEF EnginesInv, EngineTypes, At, Over
  <2>2. Custody'
    BY <1>1, <1>5 DEF Custody
  <2>3. MadeByBrowser'
    BY <1>1, <1>5 DEF EnginesInv, MadeByBrowser, here
  <2>4. Captured'
    BY <1>1, <1>5 DEF EnginesInv, KeptInOrder, Captured, here
  <2>5. KeptInOrder'
    BY <1>1, <1>5, <2>4 DEF EnginesInv, KeptInOrder
  <2> QED BY <2>1, <2>2, <2>3, <2>5 DEF EnginesInv
<1> QED BY <1>4, <1>5 DEF Judge

LEMMA TimeOutKeeps == ASSUME EnginesInv, TimeOut PROVE EnginesInv'
<1>1. at' = "cut" /\ held' = {} /\ UNCHANGED <<user, ladder, place, failure, made, kept>>
  BY DEF TimeOut
<1>2. EngineTypes'
  BY <1>1 DEF EnginesInv, EngineTypes, At, Over
<1>3. Custody' /\ MadeByBrowser'
  BY <1>1 DEF Custody, MadeByBrowser
<1>4. KeptInOrder'
  BY <1>1 DEF EnginesInv, KeptInOrder
<1> QED BY <1>2, <1>3, <1>4 DEF EnginesInv

LEMMA InvNext == EnginesInv /\ [EnginesNext]_engines => EnginesInv'
<1> SUFFICES ASSUME EnginesInv, [EnginesNext]_engines PROVE EnginesInv'
  OBVIOUS
<1>1. ASSUME NEW op \in Op, NEW anchor \in BOOLEAN, Step(op, anchor) PROVE EnginesInv'
  BY <1>1, StepsKeep DEF Step, StepFails
<1>2. CASE StepsEnd
  BY <1>2, StepsKeep DEF StepsEnd
<1>3. CASE UNCHANGED engines
  <2>1. EngineTypes' /\ Custody' /\ MadeByBrowser'
    BY <1>3 DEF engines, EnginesInv, EngineTypes, Custody, MadeByBrowser, Handles, here
  <2>2. Captured <=> Captured'
    BY <1>3 DEF engines, Captured, here
  <2>3. KeptInOrder'
    BY <1>3, <2>2 DEF engines, EnginesInv, KeptInOrder
  <2> QED BY <2>1, <2>3 DEF EnginesInv
<1> QED BY <1>1, <1>2, <1>3, BuildKeeps, OpenSessionKeeps, StartDriverKeeps, LaunchKeeps,
           OpenContextKeeps, OpenPageKeeps, CloseKeeps, CaptureKeeps, JudgeKeeps, TimeOutKeeps
        DEF EnginesNext

LEMMA InvImplies == EnginesInv => FailureIsExplained
<1> SUFFICES ASSUME EnginesInv PROVE FailureIsExplained
  OBVIOUS
<1>1. NothingLeftOpen
  BY DEF EnginesInv, Custody, NothingLeftOpen
<1>2. \A e \in {"trace", "har"} : kept[e] # 0 => ladder[kept[e]] = "browser"
  BY DEF EnginesInv, KeptInOrder
<1>3. ASSUME at = "done", failure = "none"
      PROVE  kept["trace"] # place /\ kept["har"] # place /\ (here = "browser" => kept["har"] = 0)
  <2>1. CASE user = "runner"
    BY <1>3, <2>1 DEF EnginesInv, KeptInOrder, Captured
  <2>2. CASE user = "agent"
    <3>1. kept["trace"] = 0 /\ kept["har"] = 0
      BY <2>2 DEF EnginesInv, KeptInOrder, Evidence
    <3>2. place # 0
      BY DEF EnginesInv, EngineTypes
    <3> QED BY <3>1, <3>2
  <2> QED BY <2>1, <2>2 DEF EnginesInv, EngineTypes
<1>4. at = "done" /\ failure # "none" /\ user = "runner" => \A e \in made : kept[e] = place
  BY DEF EnginesInv, KeptInOrder, Captured
<1> QED BY <1>1, <1>2, <1>3, <1>4 DEF FailureIsExplained, EvidenceIsOfFailure

-----------------------------------------------------------------------------
\* runner/engines/browser.py, runner/escalation.py _capture and agents/jobs.py open_engine:
\* but for an agent's browser whose page could not be opened, everything that is opened
\* is closed; trace and HAR are of failed rungs, and a failed run has those of its end.
THEOREM EnginesLeaveTheFailure == MaxLadder \in Nat /\ EnginesSpec => []FailureIsExplained
<1>1. EnginesInv /\ [EnginesNext]_engines => EnginesInv'
  BY InvNext
<1> QED BY InvInit, <1>1, InvImplies, PTL DEF EnginesSpec

-----------------------------------------------------------------------------
(***************************************************************************)
(* Samples.  A behaviour keeps its sample, and the sample says of which    *)
(* function it is an input.                                                *)
(***************************************************************************)

\* The functions are sampled once, as a behaviour begins.
Sampled == sample = NoSample \/ sample \in Samples

LEMMA SampleIsKept == ServicesSpec => []Sampled
<1>1. ServicesInit => Sampled
  BY DEF ServicesInit, Sampled
<1>2. Sampled /\ [ServicesNext]_services => Sampled'
  BY DEF Sampled, ServicesNext, services
<1> QED BY <1>1, <1>2, PTL DEF ServicesSpec

LEMMA SampledByKind ==
    ASSUME Sampled
    PROVE  /\ sample.of = "trial" => sample \in Trials
           /\ sample.of = "counts" => sample \in Counts
           /\ sample.of = "change" => sample \in ScriptChanges
           /\ sample.of = "number" => sample \in Numbers
           /\ sample.of = "date" => sample \in Dates
           /\ sample.of = "response" => sample \in Responses
           /\ sample.of = "ladder" => sample \in Ladders
           /\ sample.of = "mapping" => sample \in Mappings
           /\ sample.of = "usage" => sample \in Usages
           /\ sample.of = "extract" => sample \in Extractions
           /\ sample.of = "pages" => sample \in Histories
<1>1. sample = NoSample => sample.of = "nothing"
  BY DEF NoSample
<1>2. sample \in Trials => sample.of = "trial"
  BY DEF Trials
<1>3. sample \in Counts => sample.of = "counts"
  BY DEF Counts
<1>4. sample \in ScriptChanges => sample.of = "change"
  BY DEF ScriptChanges
<1>5. sample \in Numbers => sample.of = "number"
  BY DEF Numbers
<1>6. sample \in Dates => sample.of = "date"
  BY DEF Dates
<1>7. sample \in Responses => sample.of = "response"
  BY DEF Responses
<1>8. sample \in Ladders => sample.of = "ladder"
  BY DEF Ladders
<1>9. sample \in Mappings => sample.of = "mapping"
  BY DEF Mappings
<1>10. sample \in Usages => sample.of = "usage"
  BY DEF Usages
<1>11. sample \in Extractions => sample.of = "extract"
  BY DEF Extractions
<1>12. sample \in Histories => sample.of = "pages"
  BY DEF Histories
<1>13. sample = NoSample \/ sample \in Histories \/ sample \in Trials \/ sample \in Counts
         \/ sample \in ScriptChanges \/ sample \in Numbers \/ sample \in Dates \/ sample \in Responses
         \/ sample \in Ladders \/ sample \in Mappings \/ sample \in Usages \/ sample \in Extractions
  BY DEF Sampled, Samples
<1> QED BY <1>1, <1>2, <1>3, <1>4, <1>5, <1>6, <1>7, <1>8, <1>9, <1>10, <1>11, <1>12, <1>13

\* UpTo makes sequences.
LEMMA UpToIsSeq ==
    ASSUME NEW n \in Nat, NEW S, NEW s \in UpTo(n, S)
    PROVE  s \in Seq(S) /\ Len(s) <= n
<1>1. PICK k \in 0..n : s \in [1..k -> S]
  BY DEF UpTo
<1>2. k \in Nat /\ k <= n
  OBVIOUS
<1>3. s \in Seq(S) /\ Len(s) = k
  BY <1>1, <1>2
<1> QED BY <1>2, <1>3

-----------------------------------------------------------------------------
(***************************************************************************)
(* Scripts.  A change between two scripts of any length, with any words,   *)
(* any depth of steps and any fields, is minor exactly when only selectors *)
(* changed.                                                                *)
(***************************************************************************)

\* Scripts with words, names and keys at the top from any sets.
FieldsOver(Words, Names) == UNION {[F -> [sel : Words, rest : Words]] : F \in SUBSET Names}
StepsOver(Words, Names) ==
    [op : Words, depth : Nat, sel : Words, rest : Words, fields : FieldsOver(Words, Names)]
ScriptsOver(Tops, Words, Names) == [top : Tops, steps : Seq(StepsOver(Words, Names))]

LEMMA BareIs ==
    ASSUME NEW Words, NEW Names, NEW s \in StepsOver(Words, Names)
    PROVE  Comparing!Bare(s) =
               [op |-> s.op, depth |-> s.depth, sel |-> IF s.op = "custom_python" THEN s.sel ELSE "",
                rest |-> s.rest, fields |-> [f \in DOMAIN s.fields |-> Comparing!Field("", s.fields[f].rest)]]
<1> DEFINE F == [f \in DOMAIN s.fields |-> Comparing!Field("", s.fields[f].rest)]
           C == IF s.op = "custom_python" THEN s.sel ELSE ""
<1>1. Comparing!Bare(s) = [s EXCEPT !.sel = C, !.fields = F]
  BY DEF Comparing!Bare
<1> HIDE DEF F, C
<1>2. Comparing!Bare(s) = [op |-> s.op, depth |-> s.depth, sel |-> C, rest |-> s.rest, fields |-> F]
  BY <1>1 DEF StepsOver
<1> QED BY <1>2 DEF F, C

LEMMA AlikeIsBare ==
    ASSUME NEW Words, NEW Names, NEW old \in StepsOver(Words, Names), NEW new \in StepsOver(Words, Names)
    PROVE  Comparing!StepsAlike(old, new) /\ old.depth = new.depth
               <=> Comparing!Bare(old) = Comparing!Bare(new)
<1> DEFINE o == [f \in DOMAIN old.fields |-> Comparing!Field("", old.fields[f].rest)]
           n == [f \in DOMAIN new.fields |-> Comparing!Field("", new.fields[f].rest)]
           oc == IF old.op = "custom_python" THEN old.sel ELSE ""
           nc == IF new.op = "custom_python" THEN new.sel ELSE ""
<1>1. Comparing!Bare(old) = [op |-> old.op, depth |-> old.depth, sel |-> oc, rest |-> old.rest, fields |-> o]
  BY BareIs
<1>2. Comparing!Bare(new) = [op |-> new.op, depth |-> new.depth, sel |-> nc, rest |-> new.rest, fields |-> n]
  BY BareIs
<1>3. Comparing!FieldsAlike(old.fields, new.fields) <=> o = n
  <2>1. \A a, b : Comparing!Field("", a) = Comparing!Field("", b) <=> a = b
    BY DEF Comparing!Field
  <2>2. Comparing!FieldsAlike(old.fields, new.fields) <=>
          DOMAIN old.fields = DOMAIN new.fields
          /\ \A f \in DOMAIN old.fields :
                Comparing!Field("", old.fields[f].rest) = Comparing!Field("", new.fields[f].rest)
    BY <2>1 DEF Comparing!FieldsAlike
  <2>3. Comparing!FieldsAlike(old.fields, new.fields) => o = n
    BY <2>2
  <2>4. ASSUME o = n PROVE Comparing!FieldsAlike(old.fields, new.fields)
    <3>1. DOMAIN o = DOMAIN old.fields /\ DOMAIN n = DOMAIN new.fields
      OBVIOUS
    <3>2. \A f \in DOMAIN old.fields : o[f] = Comparing!Field("", old.fields[f].rest)
      OBVIOUS
    <3>3. \A f \in DOMAIN new.fields : n[f] = Comparing!Field("", new.fields[f].rest)
      OBVIOUS
    <3> HIDE DEF o, n
    <3> QED BY <2>2, <2>4, <3>1, <3>2, <3>3
  <2> QED BY <2>3, <2>4
<1>4. oc = nc /\ old.op = new.op <=> old.op = new.op /\ (old.op = "custom_python" => old.sel = new.sel)
  OBVIOUS
<1> HIDE DEF o, n, oc, nc
<1>5. Comparing!Bare(old) = Comparing!Bare(new) <=>
          old.op = new.op /\ old.depth = new.depth /\ oc = nc /\ old.rest = new.rest /\ o = n
  BY <1>1, <1>2
<1> QED BY <1>3, <1>4, <1>5 DEF Comparing!StepsAlike

LEMMA ChangeIsTold ==
    ASSUME NEW Tops, NEW Words, NEW Names,
           NEW old \in ScriptsOver(Tops, Words, Names), NEW new \in ScriptsOver(Tops, Words, Names),
           Comparing!IsTree(old.steps), Comparing!IsTree(new.steps)
    PROVE  Comparing!MinorIsOfSelectorsOrMoves(old, new)
<1> DEFINE O == old.steps
           N == new.steps
           Alike == \A i \in DOMAIN O : Comparing!StepsAlike(O[i], N[i])
           Level == \A i \in DOMAIN O : O[i].depth = N[i].depth
<1>1. O \in Seq(StepsOver(Words, Names)) /\ N \in Seq(StepsOver(Words, Names))
  BY DEF ScriptsOver
<1>2. /\ DOMAIN O = 1..Len(O) /\ DOMAIN N = 1..Len(N) /\ Len(O) \in Nat /\ Len(N) \in Nat
      /\ \A i \in DOMAIN O : O[i] \in StepsOver(Words, Names)
      /\ \A i \in DOMAIN N : N[i] \in StepsOver(Words, Names)
  BY <1>1
<1>3. ASSUME Len(O) = Len(N), Alike
      PROVE  /\ \A op : Comparing!HasOp(old, op) = Comparing!HasOp(new, op)
             /\ Comparing!FieldNames(old) = Comparing!FieldNames(new)
             /\ Comparing!NeedsEmit(old) = Comparing!NeedsEmit(new)
  <2>1. DOMAIN O = DOMAIN N
    BY <1>2, <1>3
  <2>2. \A i \in DOMAIN O : O[i].op = N[i].op /\ DOMAIN O[i].fields = DOMAIN N[i].fields
    BY <1>3 DEF Comparing!StepsAlike, Comparing!FieldsAlike
  <2>3. \A op : Comparing!HasOp(old, op) = Comparing!HasOp(new, op)
    BY <2>1, <2>2 DEF Comparing!HasOp
  <2>4. {j \in DOMAIN O : O[j].op \in Comparing!Extracting} = {j \in DOMAIN N : N[j].op \in Comparing!Extracting}
    BY <2>1, <2>2
  <2>5. Comparing!FieldNames(old) = Comparing!FieldNames(new)
    BY <2>1, <2>2, <2>4 DEF Comparing!FieldNames
  <2>6. (O = <<>>) <=> (N = <<>>)
    BY <1>1, <1>3
  <2> QED BY <2>3, <2>5, <2>6 DEF Comparing!NeedsEmit
<1>4. Comparing!ClassifyChange(old, new) <=> old.top = new.top /\ Len(O) = Len(N) /\ Alike
  BY <1>3 DEF Comparing!ClassifyChange, Comparing!HasCustomPython
<1>5. Comparing!Skeleton(old) = Comparing!Skeleton(new) <=>
          old.top = new.top /\ Len(O) = Len(N) /\ Alike /\ Level
  <2> DEFINE o == [i \in DOMAIN O |-> Comparing!Bare(O[i])]
             n == [i \in DOMAIN N |-> Comparing!Bare(N[i])]
  <2>1. Comparing!Skeleton(old) = [top |-> old.top, steps |-> o]
    BY DEF ScriptsOver, Comparing!Skeleton
  <2>2. Comparing!Skeleton(new) = [top |-> new.top, steps |-> n]
    BY DEF ScriptsOver, Comparing!Skeleton
  <2>3. ASSUME Len(O) = Len(N) PROVE (o = n) <=> Alike /\ Level
    <3>1. DOMAIN O = DOMAIN N
      BY <1>2, <2>3
    <3>2. \A i \in DOMAIN O : Comparing!StepsAlike(O[i], N[i]) /\ O[i].depth = N[i].depth
                              <=> Comparing!Bare(O[i]) = Comparing!Bare(N[i])
      BY <1>2, <3>1, AlikeIsBare
    <3>3. (o = n) <=> \A i \in DOMAIN O : Comparing!Bare(O[i]) = Comparing!Bare(N[i])
      <4>1. ASSUME o = n, NEW i \in DOMAIN O PROVE Comparing!Bare(O[i]) = Comparing!Bare(N[i])
        <5>1. o[i] = n[i]
          BY <4>1
        <5> QED BY <5>1, <3>1, Zenon
      <4>2. (\A i \in DOMAIN O : Comparing!Bare(O[i]) = Comparing!Bare(N[i])) => o = n
        BY <3>1, Zenon
      <4> QED BY <4>1, <4>2
    <3> QED BY <3>2, <3>3
  <2>4. o = n => Len(O) = Len(N)
    <3>1. DOMAIN o = DOMAIN O /\ DOMAIN n = DOMAIN N
      OBVIOUS
    <3> HIDE DEF o, n
    <3>2. o = n => 1..Len(O) = 1..Len(N)
      BY <1>2, <3>1
    <3> QED BY <1>2, <3>2
  <2> HIDE DEF o, n
  <2>5. Comparing!Skeleton(old) = Comparing!Skeleton(new) <=> old.top = new.top /\ o = n
    BY <2>1, <2>2
  <2> QED BY <2>3, <2>4, <2>5
<1>6. Len(O) = Len(N) => (Comparing!Moved(old, new) = {} <=> Level)
  BY <1>2 DEF Comparing!Moved
<1>7. Comparing!ClassifyChange(old, new) /\ Comparing!Moved(old, new) = {}
          <=> Comparing!Skeleton(old) = Comparing!Skeleton(new)
  BY <1>4, <1>5, <1>6
<1>8. Comparing!ClassifyChange(old, new) =>
          /\ Comparing!FieldNames(old) = Comparing!FieldNames(new)
          /\ Comparing!NeedsEmit(old) = Comparing!NeedsEmit(new)
          /\ Comparing!HasCustomPython(old) = Comparing!HasCustomPython(new)
  BY <1>3, <1>4 DEF Comparing!HasCustomPython
<1>9. ASSUME Comparing!ClassifyChange(old, new), NEW i \in Comparing!Moved(old, new)
      PROVE  \E j \in 1..(i - 1) : O[j].op = "loop"
  <2>1. /\ i \in DOMAIN O /\ i \in DOMAIN N /\ O[i].depth # N[i].depth
        /\ O[i].depth \in Nat /\ N[i].depth \in Nat /\ i \in Nat
    BY <1>2, <1>9 DEF Comparing!Moved, StepsOver
  <2>2. CASE O[i].depth > 0
    BY <2>1, <2>2 DEF Comparing!IsTree
  <2>3. CASE N[i].depth > 0
    <3>1. PICK j \in 1..(i - 1) : N[j].op = "loop"
      BY <2>1, <2>3 DEF Comparing!IsTree
    <3>2. j \in DOMAIN O
      BY <1>2, <2>1
    <3>3. O[j].op = N[j].op
      BY <1>4, <1>9, <3>2 DEF Comparing!StepsAlike
    <3> QED BY <3>1, <3>3
  <2> QED BY <2>1, <2>2, <2>3
<1> QED BY <1>7, <1>8, <1>9 DEF Comparing!MinorIsOfSelectorsOrMoves

SampledWords == {"s", "t", "r", "q", "extract", "loop", "emit", "custom_python"}

LEMMA SampledScripts ==
    ASSUME NEW Sel \in SUBSET SampledWords, NEW Rest \in SUBSET SampledWords, NEW Top \in SUBSET {1, 2},
           NEW script \in ScriptsOf(Sel, Rest, Top)
    PROVE  script \in ScriptsOver({1, 2}, SampledWords, {"f"}) /\ Comparing!IsTree(script.steps)
<1> DEFINE Fields == [sel : SampledWords, rest : SampledWords]
<1>1. FieldSets(Sel, Rest) \subseteq FieldsOver(SampledWords, {"f"})
  <2> DEFINE Made == {Comparing!Field(s, r) : s \in Sel, r \in Rest}
             Named == [{"f"} -> Made]
             nothing == Comparing!NoFields
  <2>1. Made \subseteq Fields
    BY DEF Comparing!Field
  <2>2. FieldSets(Sel, Rest) = {nothing} \cup Named
    BY DEF FieldSets
  <2>3. nothing \in [{} -> Fields]
    BY DEF Comparing!NoFields
  <2>4. FieldsOver(SampledWords, {"f"}) = UNION {[F -> Fields] : F \in SUBSET {"f"}}
    BY DEF FieldsOver
  <2> HIDE DEF Fields, Made, nothing
  <2>5. Named \subseteq [{"f"} -> Fields]
    BY <2>1
  <2>6. nothing \in FieldsOver(SampledWords, {"f"})
    <3>1. {} \in SUBSET {"f"}
      OBVIOUS
    <3> QED BY <2>3, <2>4, <3>1
  <2> HIDE DEF Named
  <2>7. Named \subseteq FieldsOver(SampledWords, {"f"})
    <3>1. {"f"} \in SUBSET {"f"}
      OBVIOUS
    <3> QED BY <2>4, <2>5, <3>1
  <2> QED BY <2>2, <2>6, <2>7
<1>2. ASSUME NEW st \in StepsOf(Sel, Rest) PROVE st \in StepsOver(SampledWords, {"f"})
  <2>1. Comparing!NoFields \in FieldsOver(SampledWords, {"f"})
    BY <1>1 DEF FieldSets
  <2>2. PICK op \in {"extract", "loop", "emit", "custom_python"} :
          st \in [op : {op}, depth : 0..1, sel : Sel, rest : Rest,
                   fields : IF op = "extract" THEN FieldSets(Sel, Rest) ELSE {Comparing!NoFields}]
    BY <1>2 DEF StepsOf
  <2>3. DEFINE G == IF op = "extract" THEN FieldSets(Sel, Rest) ELSE {Comparing!NoFields}
               H == FieldsOver(SampledWords, {"f"})
  <2>4. G \subseteq H /\ op \in SampledWords
    <3>1. op \in SampledWords
      BY DEF SampledWords
    <3>2. DEFINE L == FieldSets(Sel, Rest)
                 R == {Comparing!NoFields}
    <3>3. L \subseteq H /\ R \subseteq H
      BY <1>1, <2>1
    <3>4. G = L \/ G = R
      OBVIOUS
    <3> HIDE DEF G, H, L, R
    <3> QED BY <3>1, <3>3, <3>4
  <2>5. st \in [op : {op}, depth : 0..1, sel : Sel, rest : Rest, fields : G]
    BY <2>2
  <2> HIDE DEF G, H
  <2>6. /\ st = [op |-> st.op, depth |-> st.depth, sel |-> st.sel, rest |-> st.rest, fields |-> st.fields]
        /\ st.op \in {op} /\ st.depth \in 0..1 /\ st.sel \in Sel /\ st.rest \in Rest /\ st.fields \in G
    BY <2>5
  <2>7. /\ st.op \in SampledWords /\ st.depth \in Nat /\ st.sel \in SampledWords /\ st.rest \in SampledWords
        /\ st.fields \in H
    BY <2>4, <2>6
  <2>8. st \in [op : SampledWords, depth : Nat, sel : SampledWords, rest : SampledWords, fields : H]
    BY <2>6, <2>7
  <2> QED BY <2>8 DEF StepsOver, H
<1>3. script.steps \in UpTo(2, StepsOf(Sel, Rest)) /\ script.top \in {1, 2} /\ Comparing!IsTree(script.steps)
      /\ script = [top |-> script.top, steps |-> script.steps]
  BY DEF ScriptsOf
<1>4. script.steps \in Seq(StepsOf(Sel, Rest))
  BY <1>3, UpToIsSeq
<1>5. script.steps \in Seq(StepsOver(SampledWords, {"f"}))
  BY <1>2, <1>4
<1> QED BY <1>3, <1>5 DEF ScriptsOver

\* agents/repair.py classify_change: of two scripts of any length, over any words, names and
\* nesting.  Where no step moved, the change is minor exactly when nothing but selectors
\* differs, custom code apart; a minor change moves only steps that come after a loop, and
\* keeps the fields, the emits and whether there is custom code.
THEOREM MinorChangesAreKnown ==
    /\ \A Tops, Words, Names : \A old, new \in ScriptsOver(Tops, Words, Names) :
           Comparing!IsTree(old.steps) /\ Comparing!IsTree(new.steps)
               => Comparing!MinorIsOfSelectorsOrMoves(old, new)
    /\ ServicesSpec => []MinorIsOfSelectorsOrMoves
<1>1. ASSUME NEW Tops, NEW Words, NEW Names, NEW old \in ScriptsOver(Tops, Words, Names),
             NEW new \in ScriptsOver(Tops, Words, Names),
             Comparing!IsTree(old.steps), Comparing!IsTree(new.steps)
      PROVE  Comparing!MinorIsOfSelectorsOrMoves(old, new)
  BY <1>1, ChangeIsTold
<1>2. Sampled => MinorIsOfSelectorsOrMoves
  <2> SUFFICES ASSUME Sampled, sample.of = "change" PROVE Comparing!MinorIsOfSelectorsOrMoves(sample.old, sample.new)
    BY DEF MinorIsOfSelectorsOrMoves
  <2>1. sample.old \in ScriptsOf({"s"}, {"r"}, {1}) /\ sample.new \in ScriptsOf({"s", "t"}, {"r", "q"}, {1, 2})
    BY SampledByKind DEF ScriptChanges
  <2>2. /\ {"s"} \in SUBSET SampledWords /\ {"r"} \in SUBSET SampledWords /\ {1} \in SUBSET {1, 2}
        /\ {"s", "t"} \in SUBSET SampledWords /\ {"r", "q"} \in SUBSET SampledWords /\ {1, 2} \in SUBSET {1, 2}
    BY DEF SampledWords
  <2>3. sample.old \in ScriptsOver({1, 2}, SampledWords, {"f"}) /\ Comparing!IsTree(sample.old.steps)
    BY <2>1, <2>2, SampledScripts
  <2>4. sample.new \in ScriptsOver({1, 2}, SampledWords, {"f"}) /\ Comparing!IsTree(sample.new.steps)
    BY <2>1, <2>2, SampledScripts
  <2> QED BY <1>1, <2>3, <2>4
<1>3. ServicesSpec => []MinorIsOfSelectorsOrMoves
  BY <1>2, SampleIsKept, PTL
<1> QED BY <1>1, <1>3

-----------------------------------------------------------------------------
(***************************************************************************)
(* Folds over sequences.  FoldLeft is a recursion on sets of places, the   *)
(* last place taken first; that it exists is shown for a step that is a    *)
(* function, on a set of results A.                                        *)
(***************************************************************************)
\* As FoldLeft picks the place it takes last.
Top(s) == CHOOSE x \in s : \A y \in s : x >= y

LEMMA LeastNumber ==
    ASSUME NEW T \in SUBSET Nat, T # {}
    PROVE  \E m \in T : \A i \in T : m <= i
<1>1. PICK m \in T : \A i \in T : ~(<<i, m>> \in OpToRel(<, Nat))
  BY NatLessThanWellFounded, WFMin
<1>2. \A i \in T : ~(i < m) /\ i \in Nat /\ m \in Nat
  BY <1>1 DEF OpToRel
<1> QED BY <1>2

LEMMA TopOf ==
    ASSUME NEW n \in Nat, NEW s \in SUBSET (1..n), s # {}
    PROVE  Top(s) \in s /\ \A y \in s : Top(s) >= y
<1> DEFINE T == {n - x : x \in s}
<1>0. \A x \in s : x \in Nat /\ n - x \in Nat
  OBVIOUS
<1>1. T \in SUBSET Nat /\ T # {}
  BY <1>0
<1> HIDE DEF T
<1>2. PICK m \in T : \A i \in T : m <= i
  BY <1>1, LeastNumber
<1>3. PICK x \in s : m = n - x
  BY DEF T
<1>4. \A y \in s : x >= y
  <2> SUFFICES ASSUME NEW y \in s PROVE x >= y
    OBVIOUS
  <2>1. n - y \in T
    BY DEF T
  <2>2. n - x <= n - y
    BY <1>2, <1>3, <2>1
  <2> QED BY <1>0, <2>2
<1> QED BY <1>4 DEF Top

LEMMA TopOfFirst ==
    ASSUME NEW k \in Nat \ {0}, NEW s \in SUBSET (1..k), k \in s
    PROVE  Top(s) = k
<1>1. s # {} /\ k \in Nat
  OBVIOUS
<1>2. Top(s) \in s /\ Top(s) >= k
  BY <1>1, TopOf
<1>3. Top(s) \in 1..k
  BY <1>2
<1> QED BY <1>2, <1>3

\* f is what a fold computes: on no places it is zero, on others run's result at the last.
FoldsTo(A, zero, n, run, f) ==
    /\ f \in [SUBSET (1..n) -> A]
    /\ \A s \in SUBSET (1..n) : f[s] = IF s = {} THEN zero ELSE run[<<f[s \ {Top(s)}], Top(s)>>]

LEMMA FoldExists ==
    ASSUME NEW A, NEW zero \in A, NEW n \in Nat, NEW run \in [A \X (1..n) -> A]
    PROVE  \E f : FoldsTo(A, zero, n, run, f)
<1> DEFINE Good(m, f) ==
              \A s \in SUBSET (1..m) : f[s] = IF s = {} THEN zero ELSE run[<<f[s \ {Top(s)}], Top(s)>>]
           Has(m) == \E f \in [SUBSET (1..m) -> A] : Good(m, f)
           Bad == {m \in 0..n : ~Has(m)}
<1> SUFFICES ASSUME Bad # {} PROVE FALSE
  <2>1. n \in 0..n
    OBVIOUS
  <2> HIDE DEF Has
  <2>2. Has(n)
    BY <2>1
  <2> QED BY <2>2 DEF Has, Good, FoldsTo
<1>1. PICK m \in Bad : \A i \in Bad : m <= i
  <2>1. Bad \in SUBSET Nat
    OBVIOUS
  <2> HIDE DEF Bad
  <2> QED BY <2>1, LeastNumber
<1>2. m \in 0..n /\ ~Has(m)
  BY <1>1
<1>3. m # 0
  <2> SUFFICES ASSUME m = 0 PROVE FALSE
    OBVIOUS
  <2> DEFINE f == [s \in SUBSET (1..m) |-> zero]
  <2>1. f \in [SUBSET (1..m) -> A]
    OBVIOUS
  <2>2. \A s \in SUBSET (1..m) : s = {}
    OBVIOUS
  <2>3. Good(m, f)
    BY <2>2
  <2> HIDE DEF f, Good
  <2>4. Has(m)
    BY <2>1, <2>3
  <2> QED BY <1>2, <2>4
<1>4. m - 1 \in 0..n /\ m \in 1..n /\ m \in Nat \ {0} /\ 1..(m - 1) \subseteq 1..m
  BY <1>2, <1>3
<1>5. Has(m - 1)
  <2> HIDE DEF Has
  <2>1. m - 1 \in Nat /\ m - 1 < m
    BY <1>4
  <2> QED BY <1>1, <1>4, <2>1
<1>6. PICK f \in [SUBSET (1..(m - 1)) -> A] : Good(m - 1, f)
  BY <1>5
<1> DEFINE g == [s \in SUBSET (1..m) |-> IF m \in s THEN run[<<f[s \ {m}], m>>] ELSE f[s]]
<1>7. \A s \in SUBSET (1..m) : m \notin s => s \in SUBSET (1..(m - 1)) /\ g[s] = f[s]
  BY <1>4
<1>8. \A s \in SUBSET (1..m) : s \ {m} \in SUBSET (1..(m - 1)) /\ s \ {m} \in SUBSET (1..m)
  BY <1>4
<1>9. g \in [SUBSET (1..m) -> A]
  <2>1. ASSUME NEW s \in SUBSET (1..m) PROVE (IF m \in s THEN run[<<f[s \ {m}], m>>] ELSE f[s]) \in A
    <3>1. CASE m \in s
      <4>1. f[s \ {m}] \in A
        BY <1>6, <1>8
      <4>2. <<f[s \ {m}], m>> \in A \X (1..n)
        BY <1>4, <4>1
      <4> QED BY <3>1, <4>2
    <3>2. CASE m \notin s
      <4>1. s \in SUBSET (1..(m - 1))
        BY <1>7, <3>2
      <4> QED BY <1>6, <3>2, <4>1
    <3> QED BY <3>1, <3>2
  <2> QED BY <2>1
<1>10. ASSUME NEW s \in SUBSET (1..m)
       PROVE  g[s] = IF s = {} THEN zero ELSE run[<<g[s \ {Top(s)}], Top(s)>>]
  <2>1. CASE m \in s
    <3>1. Top(s) = m /\ s # {}
      BY <1>4, <2>1, TopOfFirst
    <3>2. g[s \ {m}] = f[s \ {m}]
      <4>1. m \notin s \ {m}
        OBVIOUS
      <4> HIDE DEF g
      <4> QED BY <1>7, <1>8, <4>1
    <3>3. g[s] = run[<<f[s \ {m}], m>>]
      BY <2>1
    <3> HIDE DEF g
    <3> QED BY <3>1, <3>2, <3>3
  <2>2. CASE m \notin s
    <3>1. s \in SUBSET (1..(m - 1)) /\ g[s] = f[s]
      BY <1>7, <2>2
    <3> HIDE DEF g
    <3>2. f[s] = IF s = {} THEN zero ELSE run[<<f[s \ {Top(s)}], Top(s)>>]
      BY <1>6, <3>1
    <3>3. s \ {Top(s)} \in SUBSET (1..m) /\ m \notin s \ {Top(s)}
      BY <2>2
    <3>4. g[s \ {Top(s)}] = f[s \ {Top(s)}]
      BY <1>7, <3>3
    <3> QED BY <3>1, <3>2, <3>4
  <2> QED BY <2>1, <2>2
<1>11. Has(m)
  <2> HIDE DEF g
  <2>1. Good(m, g)
    BY <1>10
  <2> HIDE DEF Good
  <2> QED BY <1>9, <2>1
<1> QED BY <1>2, <1>11

\* The first places, and the last of them.
LEMMA TopOfPlaces ==
    ASSUME NEW n \in Nat, NEW k \in 1..n
    PROVE  1..k \in SUBSET (1..n) /\ 1..k # {} /\ Top(1..k) = k /\ (1..k) \ {k} = 1..(k - 1) /\ 1..0 = {}
<1>1. k \in Nat \ {0} /\ 1..k \in SUBSET (1..k) /\ k \in 1..k
  OBVIOUS
<1>2. Top(1..k) = k
  BY <1>1, TopOfFirst
<1> QED BY <1>1, <1>2

-----------------------------------------------------------------------------
\* One step of ExpandPaths.
AddedTo(trees, entry) ==
    {Payloads!Assign(tree, entry[1], entry[2]) : tree \in {t \in trees : ~Payloads!Raises(t, entry[1])}}

\* Paths of any depth, and the trees of leaves on them.
Path == Seq(Nat)
TreesOf(V) == UNION {[D -> V] : D \in SUBSET Path}

LEMMA TreeIs ==
    ASSUME NEW V, NEW tree
    PROVE  tree \in TreesOf(V) <=>
              /\ DOMAIN tree \subseteq Path /\ tree = [p \in DOMAIN tree |-> tree[p]]
              /\ \A p \in DOMAIN tree : tree[p] \in V
<1>1. ASSUME tree \in TreesOf(V)
      PROVE  /\ DOMAIN tree \subseteq Path /\ tree = [p \in DOMAIN tree |-> tree[p]]
             /\ \A p \in DOMAIN tree : tree[p] \in V
  <2>1. PICK D \in SUBSET Path : tree \in [D -> V]
    BY <1>1, Zenon DEF TreesOf
  <2> QED BY <2>1
<1>2. ASSUME DOMAIN tree \subseteq Path, tree = [p \in DOMAIN tree |-> tree[p]],
             \A p \in DOMAIN tree : tree[p] \in V
      PROVE  tree \in TreesOf(V)
  <2> DEFINE D == DOMAIN tree
  <2>1. tree \in [D -> V] /\ D \in SUBSET Path
    BY <1>2
  <2> HIDE DEF D
  <2> QED BY <2>1, Zenon DEF TreesOf
<1> QED BY <1>1, <1>2

\* The leaves that an assignment leaves alone.
Beside(tree, path) == {p \in DOMAIN tree : ~Payloads!IsPrefix(p, path) /\ ~Payloads!IsPrefix(path, p)}

\* What _assign does to the leaves.
Assigned(V, tree, path, value) ==
    /\ Payloads!Assign(tree, path, value) \in TreesOf(V)
    /\ DOMAIN Payloads!Assign(tree, path, value) = Beside(tree, path) \cup {path}
    /\ Payloads!Assign(tree, path, value)[path] = value
    /\ \A p \in Beside(tree, path) : p # path => Payloads!Assign(tree, path, value)[p] = tree[p]

LEMMA AssignIs ==
    ASSUME NEW V, NEW tree \in TreesOf(V), NEW path \in Path, NEW value \in V
    PROVE  Assigned(V, tree, path, value)
<1> DEFINE new == Payloads!Assign(tree, path, value)
           others == Beside(tree, path)
<1>1. new = [p \in others \cup {path} |-> IF p = path THEN value ELSE tree[p]]
  BY DEF Payloads!Assign, Beside
<1>2. others \subseteq DOMAIN tree
  BY DEF Beside
<1> HIDE DEF new, others
<1>3. /\ DOMAIN new = others \cup {path} /\ new[path] = value
      /\ \A p \in others : p # path => new[p] = tree[p]
      /\ new = [p \in DOMAIN new |-> new[p]]
  BY <1>1
<1>4. DOMAIN new \subseteq Path /\ \A p \in DOMAIN new : new[p] \in V
  BY <1>2, <1>3, TreeIs
<1>5. new \in TreesOf(V)
  BY <1>3, <1>4, TreeIs
<1> QED BY <1>3, <1>5 DEF Assigned, new, others

LEMMA ExpandFolds ==
    ASSUME NEW V, NEW flat \in Seq(Path \X V)
    PROVE  \E trees :
              /\ trees[0] = {Payloads!EmptyTree}
              /\ \A k \in 1..Len(flat) : trees[k] = AddedTo(trees[k - 1], flat[k])
              /\ Payloads!ExpandPaths(flat) = {Payloads!Densify(tree) : tree \in trees[Len(flat)]}
<1> DEFINE n == Len(flat)
           A == SUBSET TreesOf(V)
           zero == {Payloads!EmptyTree}
           run == [x \in A \X (1..n) |-> AddedTo(x[1], flat[x[2]])]
           Next_(f, s) == IF s = {} THEN zero ELSE LET x == Payloads!Max(s) IN AddedTo(f[s \ {x}], flat[x])
           iter == CHOOSE f : f = [s \in SUBSET (DOMAIN flat) |-> Next_(f, s)]
<1>1. n \in Nat /\ DOMAIN flat = 1..n /\ \A k \in 1..n : flat[k] \in Path \X V
  OBVIOUS
<1>2. zero \in A
  <2>1. DOMAIN Payloads!EmptyTree = {} /\ Payloads!EmptyTree = [p \in {} |-> Payloads!EmptyTree[p]]
    BY DEF Payloads!EmptyTree
  <2>2. Payloads!EmptyTree \in TreesOf(V)
    BY <2>1, TreeIs
  <2> QED BY <2>2
<1>3. ASSUME NEW trees \in A, NEW k \in 1..n PROVE AddedTo(trees, flat[k]) \in A
  <2>1. flat[k][1] \in Path /\ flat[k][2] \in V
    BY <1>1
  <2>2. \A tree \in trees : Payloads!Assign(tree, flat[k][1], flat[k][2]) \in TreesOf(V)
    BY <2>1, AssignIs DEF Assigned
  <2> QED BY <2>2 DEF AddedTo
<1>4. run \in [A \X (1..n) -> A]
  <2> HIDE DEF A, n
  <2> QED BY <1>3
<1>5. \A s : Payloads!Max(s) = Top(s)
  BY DEF Payloads!Max, Top
<1>6. \E f : f = [s \in SUBSET (DOMAIN flat) |-> Next_(f, s)]
  <2> HIDE DEF run
  <2>1. PICK f \in [SUBSET (1..n) -> A] :
          \A s \in SUBSET (1..n) : f[s] = IF s = {} THEN zero ELSE run[<<f[s \ {Top(s)}], Top(s)>>]
    <3> HIDE DEF A, zero, n
    <3>1. \E f : FoldsTo(A, zero, n, run, f)
      BY <1>1, <1>2, <1>4, FoldExists
    <3> QED BY <3>1 DEF FoldsTo
  <2>2. ASSUME NEW s \in SUBSET (1..n) PROVE f[s] = Next_(f, s)
    <3>1. CASE s = {}
      BY <2>1, <3>1
    <3>2. CASE s # {}
      <4>1. Top(s) \in 1..n
        <5>1. Top(s) \in s
          BY <1>1, <3>2, TopOf
        <5> QED BY <5>1
      <4>2. s \ {Top(s)} \in SUBSET (1..n)
        OBVIOUS
      <4>3. f[s \ {Top(s)}] \in A
        BY <2>1, <4>2
      <4>4. run[<<f[s \ {Top(s)}], Top(s)>>] = AddedTo(f[s \ {Top(s)}], flat[Top(s)])
        <5> DEFINE a == f[s \ {Top(s)}]
                   t == Top(s)
        <5>1. <<a, t>> \in A \X (1..n)
          BY <4>1, <4>3
        <5> HIDE DEF a, t, A, n
        <5>2. run[<<a, t>>] = AddedTo(<<a, t>>[1], flat[<<a, t>>[2]])
          BY <5>1 DEF run
        <5> QED BY <5>2 DEF a, t
      <4>5. f[s] = run[<<f[s \ {Top(s)}], Top(s)>>]
        BY <2>1, <3>2
      <4>6. Next_(f, s) = AddedTo(f[s \ {Top(s)}], flat[Top(s)])
        BY <1>5, <3>2
      <4> QED BY <4>4, <4>5, <4>6
    <3> QED BY <3>1, <3>2
  <2>3. f = [s \in SUBSET (1..n) |-> f[s]]
    BY <2>1
  <2> HIDE DEF Next_, A, n
  <2>4. f = [s \in SUBSET (1..n) |-> Next_(f, s)]
    BY <2>2, <2>3
  <2> QED BY <1>1, <2>4
<1>7. iter = [s \in SUBSET (1..n) |-> Next_(iter, s)]
  <2> HIDE DEF Next_, n
  <2> QED BY <1>1, <1>6
<1>8. Payloads!ExpandPaths(flat) = {Payloads!Densify(tree) : tree \in iter[1..n]}
  <2>1. Payloads!ExpandPaths(flat) = {Payloads!Densify(tree) : tree \in iter[DOMAIN flat]}
    BY DEF Payloads!ExpandPaths, Payloads!FoldLeft, Payloads!MapThenFoldSet, AddedTo
  <2> HIDE DEF iter
  <2> QED BY <1>1, <2>1
<1> DEFINE trees == [k \in 0..n |-> iter[1..k]]
<1> HIDE DEF iter
<1>9. trees[0] = zero
  <2>1. 1..0 = {} /\ {} \in SUBSET (1..n) /\ 0 \in 0..n
    BY <1>1
  <2>2. iter[{}] = Next_(iter, {})
    <3> HIDE DEF Next_, n
    <3> QED BY <1>7, <2>1
  <2> HIDE DEF n
  <2> QED BY <2>1, <2>2
<1>10. ASSUME NEW k \in 1..n PROVE trees[k] = AddedTo(trees[k - 1], flat[k])
  <2>1. 1..k \in SUBSET (1..n) /\ 1..k # {} /\ Top(1..k) = k /\ (1..k) \ {k} = 1..(k - 1)
    <3> HIDE DEF n
    <3> QED BY <1>1, TopOfPlaces
  <2>2. iter[1..k] = Next_(iter, 1..k)
    <3> HIDE DEF Next_, n
    <3> QED BY <1>7, <2>1
  <2>3. Next_(iter, 1..k) = AddedTo(iter[1..(k - 1)], flat[k])
    BY <1>5, <2>1
  <2>4. k \in 0..n /\ k - 1 \in 0..n
    BY <1>1
  <2> HIDE DEF n, Next_
  <2> QED BY <2>2, <2>3, <2>4
<1>11. trees[n] = iter[1..n]
  BY <1>1
<1> HIDE DEF trees
<1> QED BY <1>8, <1>9, <1>10, <1>11

\* One path is above another.
Above(s, t) == Len(s) < Len(t) /\ \A i \in 1..Len(s) : s[i] = t[i]

LEMMA SamePath ==
    ASSUME NEW s \in Path, NEW t \in Path, Len(s) = Len(t), \A i \in 1..Len(s) : s[i] = t[i]
    PROVE  s = t
BY DEF Path

LEMMA PrefixIs ==
    ASSUME NEW s \in Path, NEW t \in Path
    PROVE  /\ Payloads!IsPrefix(s, t) <=> s = t \/ Above(s, t)
           /\ Payloads!IsStrictPrefix(s, t) <=> Above(s, t)
<1>1. /\ Len(s) \in Nat /\ Len(t) \in Nat /\ s \in [1..Len(s) -> Nat] /\ t \in [1..Len(t) -> Nat]
  BY DEF Path
<1>2. Payloads!IsPrefix(s, t) <=> Len(s) <= Len(t) /\ \A i \in 1..Len(s) : s[i] = t[i]
  <2>1. ASSUME Len(s) <= Len(t)
        PROVE  SubSeq(s, 1, Len(s)) = SubSeq(t, 1, Len(s)) <=> \A i \in 1..Len(s) : s[i] = t[i]
    <3> DEFINE u == SubSeq(s, 1, Len(s))
               v == SubSeq(t, 1, Len(s))
    <3>1. u = [i \in 1..Len(s) |-> s[i]] /\ v = [i \in 1..Len(s) |-> t[i]]
      BY <1>1, <2>1 DEF Path
    <3> HIDE DEF u, v
    <3>2. u = v => \A i \in 1..Len(s) : s[i] = t[i]
      <4> SUFFICES ASSUME u = v, NEW i \in 1..Len(s) PROVE s[i] = t[i]
        OBVIOUS
      <4>1. u[i] = s[i] /\ v[i] = t[i]
        BY <3>1
      <4> QED BY <4>1
    <3>3. (\A i \in 1..Len(s) : s[i] = t[i]) => u = v
      BY <3>1
    <3> QED BY <3>2, <3>3 DEF u, v
  <2> QED BY <2>1 DEF Payloads!IsPrefix
<1> DEFINE alike == \A i \in 1..Len(s) : s[i] = t[i]
<1>3. Len(s) = Len(t) /\ alike => s = t
  BY SamePath
<1>4. s = t => Len(s) = Len(t) /\ alike
  OBVIOUS
<1>5. Above(s, t) <=> Len(s) < Len(t) /\ alike
  BY DEF Above
<1> HIDE DEF alike
<1>6. Payloads!IsPrefix(s, t) <=> Len(s) <= Len(t) /\ alike
  BY <1>2 DEF alike
<1>0. Len(s) \in Nat /\ Len(t) \in Nat
  BY <1>1
<1>7. Payloads!IsPrefix(s, t) <=> s = t \/ Above(s, t)
  <2>1. Len(s) <= Len(t) <=> Len(s) = Len(t) \/ Len(s) < Len(t)
    BY <1>0
  <2> QED BY <1>3, <1>4, <1>5, <1>6, <2>1
<1>8. Above(s, t) => s # t
  BY <1>0, <1>4, <1>5
<1> QED BY <1>7, <1>8 DEF Payloads!IsStrictPrefix

\* Nodes are what is above the leaves, and their children the next segments.
LEMMA NodesAre ==
    ASSUME NEW tree, DOMAIN tree \subseteq Path, NEW node
    PROVE  /\ node \in Payloads!Nodes(tree) <=> node \in Path /\ \E p \in DOMAIN tree : Above(node, p)
           /\ node \in Path => \A c :
                c \in Payloads!Children(tree, node) <=>
                   \E q \in DOMAIN tree : Above(node, q) /\ c = q[Len(node) + 1]
<1>1. ASSUME NEW p \in DOMAIN tree, NEW n \in 0..(Len(p) - 1)
      PROVE  SubSeq(p, 1, n) \in Path /\ Above(SubSeq(p, 1, n), p)
  <2>1. p \in Seq(Nat) /\ Len(p) \in Nat /\ n \in Nat /\ n < Len(p)
    BY DEF Path
  <2>2. /\ SubSeq(p, 1, n) \in Seq(Nat) /\ Len(SubSeq(p, 1, n)) = n
        /\ \A i \in 1..n : SubSeq(p, 1, n)[i] = p[i]
    BY <2>1
  <2> QED BY <2>1, <2>2 DEF Path, Above
<1>2. ASSUME NEW p \in DOMAIN tree, node \in Path, Above(node, p)
      PROVE  \E n \in 0..(Len(p) - 1) : node = SubSeq(p, 1, n)
  <2>1. p \in Seq(Nat) /\ Len(p) \in Nat /\ node \in Seq(Nat) /\ Len(node) \in Nat /\ Len(node) < Len(p)
    BY <1>2 DEF Path, Above
  <2> DEFINE n == Len(node)
             u == SubSeq(p, 1, n)
  <2>2. u \in Seq(Nat) /\ Len(u) = n /\ \A i \in 1..n : u[i] = p[i]
    BY <2>1
  <2>3. \A i \in 1..n : u[i] = node[i]
    BY <1>2, <2>2 DEF Above
  <2> HIDE DEF u
  <2>4. u = node
    <3>1. u \in Path /\ node \in Path /\ Len(u) = Len(node)
      BY <2>1, <2>2 DEF Path
    <3>2. \A i \in 1..Len(u) : u[i] = node[i]
      BY <2>2, <2>3
    <3> QED BY <3>1, <3>2, SamePath
  <2>5. n \in 0..(Len(p) - 1)
    BY <2>1
  <2>6. node = SubSeq(p, 1, n)
    BY <2>4 DEF u
  <2> HIDE DEF n
  <2> QED BY <2>5, <2>6
<1>3. node \in Payloads!Nodes(tree) <=> node \in Path /\ \E p \in DOMAIN tree : Above(node, p)
  <2>1. node \in Payloads!Nodes(tree) <=> \E p \in DOMAIN tree : \E n \in 0..(Len(p) - 1) : node = SubSeq(p, 1, n)
    <3> DEFINE Ends(p) == {SubSeq(p, 1, n) : n \in 0..(Len(p) - 1)}
    <3>1. Payloads!Nodes(tree) = UNION {Ends(p) : p \in DOMAIN tree}
      BY DEF Payloads!Nodes
    <3>2. \A p : node \in Ends(p) <=> \E n \in 0..(Len(p) - 1) : node = SubSeq(p, 1, n)
      OBVIOUS
    <3> HIDE DEF Ends
    <3> QED BY <3>1, <3>2
  <2>2. ASSUME node \in Payloads!Nodes(tree) PROVE node \in Path /\ \E p \in DOMAIN tree : Above(node, p)
    <3>1. PICK p \in DOMAIN tree : \E n \in 0..(Len(p) - 1) : node = SubSeq(p, 1, n)
      BY <2>1, <2>2
    <3>2. PICK n \in 0..(Len(p) - 1) : node = SubSeq(p, 1, n)
      BY <3>1
    <3>3. SubSeq(p, 1, n) \in Path /\ Above(SubSeq(p, 1, n), p)
      BY <1>1
    <3> QED BY <3>2, <3>3
  <2>3. ASSUME node \in Path, NEW p \in DOMAIN tree, Above(node, p) PROVE node \in Payloads!Nodes(tree)
    <3>1. \E n \in 0..(Len(p) - 1) : node = SubSeq(p, 1, n)
      BY <1>2, <2>3
    <3> QED BY <2>1, <3>1
  <2> QED BY <2>2, <2>3
<1>4. ASSUME node \in Path, NEW q \in DOMAIN tree PROVE Payloads!IsStrictPrefix(node, q) <=> Above(node, q)
  BY <1>4, PrefixIs
<1>5. ASSUME node \in Path, NEW c
      PROVE c \in Payloads!Children(tree, node) <=> \E q \in DOMAIN tree : Above(node, q) /\ c = q[Len(node) + 1]
  BY <1>4, <1>5 DEF Payloads!Children
<1> QED BY <1>3, <1>5

\* A path with one segment more.
LEMMA AppendIs ==
    ASSUME NEW node \in Path, NEW i \in Nat
    PROVE  /\ Append(node, i) \in Path /\ Len(Append(node, i)) = Len(node) + 1
           /\ Append(node, i)[Len(node) + 1] = i
           /\ \A j \in 1..Len(node) : Append(node, i)[j] = node[j]
           /\ Above(node, Append(node, i))
           /\ \A s \in Path : Above(s, Append(node, i)) <=> s = node \/ Above(s, node)
           /\ \A s \in Path : Above(Append(node, i), s) => Above(node, s) /\ s[Len(node) + 1] = i
<1> DEFINE a == Append(node, i)
<1>1. /\ a \in Path /\ Len(a) = Len(node) + 1 /\ a[Len(node) + 1] = i /\ Len(node) \in Nat
      /\ \A j \in 1..Len(node) : a[j] = node[j]
  BY DEF Path
<1> HIDE DEF a
<1>2. Above(node, a)
  BY <1>1 DEF Above
<1>3. ASSUME NEW s \in Path PROVE Above(s, a) <=> s = node \/ Above(s, node)
  <2>1. Len(s) \in Nat /\ s \in [1..Len(s) -> Nat] /\ node \in [1..Len(node) -> Nat]
    BY DEF Path
  <2>2. ASSUME Len(s) = Len(node) PROVE Above(s, a) <=> s = node
    <3>1. s = node <=> \A j \in 1..Len(s) : s[j] = node[j]
      BY <2>1, <2>2
    <3>2. Above(s, a) <=> \A j \in 1..Len(s) : s[j] = node[j]
      BY <1>1, <2>1, <2>2 DEF Above
    <3> QED BY <3>1, <3>2
  <2>3. ASSUME Len(s) < Len(node) PROVE Above(s, a) <=> Above(s, node)
    BY <1>1, <2>1, <2>3 DEF Above
  <2>4. Len(s) > Len(node) => ~Above(s, a) /\ s # node /\ ~Above(s, node)
    BY <1>1, <2>1 DEF Above
  <2>5. Len(s) = Len(node) => ~Above(s, node)
    BY <1>1 DEF Above
  <2>6. Len(s) < Len(node) => s # node
    BY <1>1, <2>1
  <2>7. Len(s) = Len(node) \/ Len(s) < Len(node) \/ Len(s) > Len(node)
    <3>1. Len(s) \in Nat /\ Len(node) \in Nat
      BY <1>1, <2>1
    <3> QED BY <3>1
  <2> QED BY <2>2, <2>3, <2>4, <2>5, <2>6, <2>7
<1>4. ASSUME NEW s \in Path, Above(a, s) PROVE Above(node, s) /\ s[Len(node) + 1] = i
  <2>1. Len(s) \in Nat /\ Len(node) + 1 \in 1..Len(a)
    BY <1>1 DEF Path
  <2>2. \A j \in 1..Len(node) : j \in 1..Len(a)
    BY <1>1
  <2>3. \A j \in 1..Len(a) : s[j] = a[j]
    BY <1>4 DEF Above
  <2>4. s[Len(node) + 1] = i
    BY <1>1, <2>1, <2>3
  <2>5. \A j \in 1..Len(node) : node[j] = s[j]
    BY <1>1, <2>2, <2>3
  <2>6. Len(node) < Len(s)
    BY <1>1, <1>4, <2>1 DEF Above
  <2> QED BY <2>4, <2>5, <2>6 DEF Above
<1> QED BY <1>1, <1>2, <1>3, <1>4 DEF a

LEMMA AboveIsTransitive ==
    ASSUME NEW s \in Path, NEW t \in Path, NEW u \in Path, Above(s, t), Above(t, u)
    PROVE  Above(s, u)
<1>1. Len(s) \in Nat /\ Len(t) \in Nat /\ Len(u) \in Nat
  BY DEF Path
<1> QED BY <1>1 DEF Above

\* Of two paths above a third, one is above the other.
LEMMA AboveTheSame ==
    ASSUME NEW s \in Path, NEW t \in Path, NEW u \in Path, Above(s, u), Above(t, u)
    PROVE  s = t \/ Above(s, t) \/ Above(t, s)
<1>1. /\ Len(s) \in Nat /\ Len(t) \in Nat /\ Len(u) \in Nat
      /\ s \in [1..Len(s) -> Nat] /\ t \in [1..Len(t) -> Nat]
  BY DEF Path
<1>2. Len(s) = Len(t) => s = t
  <2> SUFFICES ASSUME Len(s) = Len(t) PROVE s = t
    OBVIOUS
  <2>1. \A i \in 1..Len(s) : s[i] = t[i]
    BY DEF Above
  <2> QED BY <2>1, SamePath
<1>3. Len(s) < Len(t) => Above(s, t)
  BY <1>1 DEF Above
<1>4. Len(t) < Len(s) => Above(t, s)
  BY <1>1 DEF Above
<1>5. Len(s) = Len(t) \/ Len(s) < Len(t) \/ Len(t) < Len(s)
  <2>1. Len(s) \in Nat /\ Len(t) \in Nat
    BY <1>1
  <2> QED BY <2>1
<1> QED BY <1>2, <1>3, <1>4, <1>5

LEMMA NotAboveItself == \A s \in Path : ~Above(s, s)
BY DEF Above, Path

\* A payload under way: its leaves are as the mapping has them, none above another;
\* the last one that was assigned is there, and all of them if they are compatible.
Written(V, flat, k, tree) ==
    /\ tree \in TreesOf(V)
    /\ \A p \in DOMAIN tree : \E i \in 1..k : flat[i] = <<p, tree[p]>>
    /\ \A p, q \in DOMAIN tree : ~Above(p, q)
    /\ \A i \in 1..k : Payloads!Compatible(flat) \/ i = k =>
          flat[i][1] \in DOMAIN tree /\ tree[flat[i][1]] = flat[i][2]

Grown(V, flat, trees, k) ==
    /\ Payloads!Compatible(flat) => trees[k] # {}
    /\ \A tree \in trees[k] : Written(V, flat, k, tree)

LEMMA SubSeqIsAbove ==
    ASSUME NEW p \in Path, NEW n \in 0..(Len(p) - 1)
    PROVE  SubSeq(p, 1, n) \in Path /\ Above(SubSeq(p, 1, n), p)
<1>1. p \in Seq(Nat) /\ Len(p) \in Nat /\ n \in Nat /\ n < Len(p)
  BY DEF Path
<1>2. /\ SubSeq(p, 1, n) \in Seq(Nat) /\ Len(SubSeq(p, 1, n)) = n
      /\ \A i \in 1..n : SubSeq(p, 1, n)[i] = p[i]
  BY <1>1
<1> QED BY <1>1, <1>2 DEF Path, Above

LEMMA CompatibleIs ==
    ASSUME NEW V, NEW flat \in Seq(Path \X V), Payloads!Compatible(flat),
           NEW i \in 1..Len(flat), NEW j \in 1..Len(flat), i # j
    PROVE  flat[i][1] # flat[j][1] /\ ~Above(flat[i][1], flat[j][1])
<1>1. flat[i][1] \in Path /\ flat[j][1] \in Path /\ i \in DOMAIN flat /\ j \in DOMAIN flat
  OBVIOUS
<1>2. ~Payloads!IsPrefix(flat[i][1], flat[j][1])
  BY <1>1 DEF Payloads!Compatible
<1> QED BY <1>1, <1>2, PrefixIs DEF Beside

LEMMA AssignKeeps ==
    ASSUME NEW V, NEW flat \in Seq(Path \X V), NEW k \in 1..Len(flat), NEW tree, Written(V, flat, k - 1, tree)
    PROVE  Written(V, flat, k, Payloads!Assign(tree, flat[k][1], flat[k][2]))
<1> DEFINE P == flat[k][1]
           v == flat[k][2]
           new == Payloads!Assign(tree, P, v)
           others == Beside(tree, P)
<1>1. flat[k] = <<P, v>> /\ P \in Path /\ v \in V /\ k \in Nat \ {0}
      /\ \A i \in 1..k : i \in 1..Len(flat) /\ (i # k => i \in 1..(k - 1)) /\ flat[i][1] \in Path
  <2>1. k \in Nat /\ Len(flat) \in Nat /\ k <= Len(flat) /\ k # 0
    OBVIOUS
  <2>2. \A i \in 1..Len(flat) : flat[i] \in Path \X V
    OBVIOUS
  <2>3. \A i \in 1..k : i \in 1..Len(flat) /\ (i # k => i \in 1..(k - 1))
    BY <2>1
  <2> QED BY <2>1, <2>2, <2>3
<1>2. tree \in TreesOf(V) /\ DOMAIN tree \subseteq Path
  BY TreeIs DEF Written
<1> HIDE DEF P, v
<1>3. others \subseteq DOMAIN tree
      /\ \A p \in DOMAIN tree : p \in others <=> p # P /\ ~Above(p, P) /\ ~Above(P, p)
  BY <1>1, <1>2, PrefixIs DEF Beside
<1>4. new \in TreesOf(V) /\ DOMAIN new = others \cup {P} /\ new[P] = v
      /\ \A p \in others : p # P => new[p] = tree[p]
  <2>1. P \in Path /\ v \in V /\ tree \in TreesOf(V)
    BY <1>1, <1>2
  <2>2. Assigned(V, tree, P, v)
    BY <2>1, AssignIs
  <2> QED BY <2>2 DEF Assigned
<1> HIDE DEF others, new
<1>5. ASSUME NEW p \in DOMAIN new PROVE \E i \in 1..k : flat[i] = <<p, new[p]>>
  <2>1. CASE p = P
    <3>1. k \in 1..k /\ flat[k] = <<p, new[p]>>
      BY <1>1, <1>4, <2>1
    <3> QED BY <3>1
  <2>2. CASE p # P
    <3>1. p \in DOMAIN tree /\ new[p] = tree[p]
      BY <1>3, <1>4, <1>5, <2>2
    <3>2. PICK i \in 1..(k - 1) : flat[i] = <<p, tree[p]>>
      BY <3>1 DEF Written
    <3>3. i \in 1..k
      BY <1>1
    <3> QED BY <3>1, <3>2, <3>3
  <2> QED BY <2>1, <2>2
<1>6. ASSUME NEW p \in DOMAIN new, NEW q \in DOMAIN new PROVE ~Above(p, q)
  <2>1. ~Above(P, P)
    BY <1>1, NotAboveItself
  <2>2. \A r, s \in others : ~Above(r, s)
    BY <1>3 DEF Written
  <2>3. \A r \in others : ~Above(r, P) /\ ~Above(P, r)
    BY <1>3
  <2> QED BY <1>4, <1>6, <2>1, <2>2, <2>3
<1>7. ASSUME NEW i \in 1..k, Payloads!Compatible(flat) \/ i = k
      PROVE  flat[i][1] \in DOMAIN new /\ new[flat[i][1]] = flat[i][2]
  <2>1. CASE i = k
    BY <1>1, <1>4, <2>1 DEF P, v
  <2>2. CASE i # k
    <3>1. i \in 1..(k - 1) /\ i \in 1..Len(flat) /\ k \in 1..k
      BY <1>1, <2>2
    <3>2. flat[i][1] \in DOMAIN tree /\ tree[flat[i][1]] = flat[i][2]
      BY <1>7, <2>2, <3>1 DEF Written
    <3>3. flat[i][1] # P /\ ~Above(flat[i][1], P) /\ ~Above(P, flat[i][1])
      BY <1>7, <2>2, <3>1, CompatibleIs DEF P
    <3>4. flat[i][1] \in others
      BY <1>3, <3>2, <3>3
    <3> QED BY <1>4, <3>2, <3>3, <3>4
  <2> QED BY <2>1, <2>2
<1>8. Written(V, flat, k, new)
  BY <1>4, <1>5, <1>6, <1>7 DEF Written
<1> QED BY <1>8 DEF new, P, v

LEMMA GrowsOn ==
    ASSUME NEW V, NEW flat \in Seq(Path \X V), NEW k \in 1..Len(flat), NEW trees,
           trees[k] = AddedTo(trees[k - 1], flat[k]), Grown(V, flat, trees, k - 1)
    PROVE  Grown(V, flat, trees, k)
<1>1. ASSUME NEW new \in trees[k] PROVE Written(V, flat, k, new)
  <2>1. PICK tree \in trees[k - 1] : new = Payloads!Assign(tree, flat[k][1], flat[k][2])
    BY <1>1 DEF AddedTo
  <2>2. Written(V, flat, k - 1, tree)
    BY DEF Grown
  <2> QED BY <2>1, <2>2, AssignKeeps
<1>2. ASSUME Payloads!Compatible(flat) PROVE trees[k] # {}
  <2>1. PICK tree \in trees[k - 1] : TRUE
    BY <1>2 DEF Grown
  <2>2. Written(V, flat, k - 1, tree)
    BY DEF Grown
  <2>3. ~Payloads!Raises(tree, flat[k][1])
    <3> SUFFICES ASSUME NEW n \in 1..(Len(flat[k][1]) - 1), SubSeq(flat[k][1], 1, n) \in DOMAIN tree
                 PROVE  FALSE
      BY DEF Payloads!Raises
    <3>1. flat[k] \in Path \X V /\ flat[k][1] \in Path
      OBVIOUS
    <3>2. n \in 0..(Len(flat[k][1]) - 1)
      OBVIOUS
    <3>3. Above(SubSeq(flat[k][1], 1, n), flat[k][1])
      BY <3>1, <3>2, SubSeqIsAbove
    <3> DEFINE p == SubSeq(flat[k][1], 1, n)
    <3> HIDE DEF p
    <3>4. PICK i \in 1..(k - 1) : flat[i] = <<p, tree[p]>>
      BY <2>2 DEF Written, p
    <3>5. i \in 1..Len(flat) /\ i # k
      OBVIOUS
    <3>6. flat[i][1] = p
      BY <3>4
    <3>7. ~Above(flat[i][1], flat[k][1])
      BY <1>2, <3>5, CompatibleIs
    <3> QED BY <3>3, <3>6, <3>7 DEF p
  <2>4. Payloads!Assign(tree, flat[k][1], flat[k][2]) \in AddedTo(trees[k - 1], flat[k])
    BY <2>3 DEF AddedTo
  <2> QED BY <2>4
<1> QED BY <1>1, <1>2 DEF Grown

LEMMA GrowsToTheEnd ==
    ASSUME NEW V, NEW flat \in Seq(Path \X V), NEW trees, trees[0] = {Payloads!EmptyTree},
           \A k \in 1..Len(flat) : trees[k] = AddedTo(trees[k - 1], flat[k])
    PROVE  Grown(V, flat, trees, Len(flat))
<1> DEFINE n == Len(flat)
           Bad == {k \in 0..n : ~Grown(V, flat, trees, k)}
<1>1. n \in Nat
  OBVIOUS
<1>2. Bad = {}
  <2> SUFFICES ASSUME Bad # {} PROVE FALSE
    OBVIOUS
  <2>1. PICK k \in Bad : \A i \in Bad : k <= i
    <3>1. Bad \in SUBSET Nat
      BY <1>1
    <3> HIDE DEF Bad
    <3> QED BY <3>1, LeastNumber
  <2>2. k # 0
    <3>1. DOMAIN Payloads!EmptyTree = {} /\ Payloads!EmptyTree = [p \in {} |-> Payloads!EmptyTree[p]]
      BY DEF Payloads!EmptyTree
    <3>2. Payloads!EmptyTree \in TreesOf(V)
      BY <3>1, TreeIs
    <3>3. Written(V, flat, 0, Payloads!EmptyTree)
      BY <3>1, <3>2 DEF Written
    <3>4. Grown(V, flat, trees, 0)
      BY <3>3 DEF Grown
    <3> QED BY <2>1, <3>4
  <2>3. k \in 1..n /\ k - 1 \in 0..n /\ ~(k <= k - 1)
    BY <1>1, <2>1, <2>2
  <2>4. Grown(V, flat, trees, k - 1)
    BY <2>1, <2>3
  <2>5. trees[k] = AddedTo(trees[k - 1], flat[k])
    BY <2>3
  <2>6. Grown(V, flat, trees, k)
    BY <2>3, <2>4, <2>5, GrowsOn
  <2> QED BY <2>1, <2>6
<1> QED BY <1>1, <1>2

\* A place of a list that is not there while a later one is.
Gap(tree, node, i) ==
    /\ node \in Payloads!Nodes(tree) /\ Payloads!IsList(tree, node)
    /\ i \in 0..9 /\ i \notin Payloads!Children(tree, node) /\ \E j \in Payloads!Children(tree, node) : i < j

LEMMA GapsAre ==
    ASSUME NEW tree, NEW p
    PROVE  p \in Payloads!Gaps(tree) <=>
              \E node \in Payloads!Nodes(tree) : \E i \in 0..9 : Gap(tree, node, i) /\ p = Append(node, i)
<1> DEFINE Missing(node) == {Append(node, i) : i \in {i \in 0..(Payloads!FirstName - 1) :
                                            i \notin Payloads!Children(tree, node)
                                         /\ \E j \in Payloads!Children(tree, node) : i < j}}
           Lists == {n \in Payloads!Nodes(tree) : Payloads!IsList(tree, n)}
<1>1. Payloads!Gaps(tree) = UNION {Missing(node) : node \in Lists}
  BY DEF Payloads!Gaps
<1>2. ASSUME NEW node \in Lists
      PROVE  p \in Missing(node) <=> \E i \in 0..9 : Gap(tree, node, i) /\ p = Append(node, i)
  <2> DEFINE places == {i \in 0..9 : i \notin Payloads!Children(tree, node)
                                     /\ \E j \in Payloads!Children(tree, node) : i < j}
  <2>1. Missing(node) = {Append(node, i) : i \in places}
    BY DEF Payloads!FirstName
  <2>2. \A i : i \in places <=> Gap(tree, node, i)
    BY DEF Gap
  <2>3. \A i \in places : i \in 0..9
    OBVIOUS
  <2> HIDE DEF places, Missing
  <2> QED BY <2>1, <2>2, <2>3
<1>3. p \in UNION {Missing(node) : node \in Lists} <=> \E node \in Lists : p \in Missing(node)
  <2> HIDE DEF Missing, Lists
  <2> QED OBVIOUS
<1> HIDE DEF Missing
<1> QED BY <1>1, <1>2, <1>3 DEF Gap

LEMMA GapIs ==
    ASSUME NEW tree, DOMAIN tree \subseteq Path, NEW node, NEW i, Gap(tree, node, i)
    PROVE  /\ node \in Path /\ i \in Nat /\ Append(node, i) \in Path
           /\ \E r \in DOMAIN tree : Above(node, r)
           /\ \A r \in DOMAIN tree : ~Above(Append(node, i), r)
<1>1. node \in Path /\ i \in Nat /\ \E r \in DOMAIN tree : Above(node, r)
  BY NodesAre DEF Gap
<1>2. Append(node, i) \in Path
  BY <1>1, AppendIs
<1>3. ASSUME NEW r \in DOMAIN tree, Above(Append(node, i), r) PROVE FALSE
  <2>1. r \in Path
    OBVIOUS
  <2>2. Above(node, r) /\ r[Len(node) + 1] = i
    BY <1>1, <1>3, <2>1, AppendIs
  <2>3. i \in Payloads!Children(tree, node)
    BY <1>1, <2>2, NodesAre
  <2> QED BY <2>3 DEF Gap
<1> QED BY <1>1, <1>2, <1>3

LEMMA DensifyIs ==
    ASSUME NEW tree, DOMAIN tree \subseteq Path
    PROVE  /\ DOMAIN Payloads!Densify(tree) = DOMAIN tree \cup Payloads!Gaps(tree)
           /\ DOMAIN Payloads!Densify(tree) \subseteq Path
           /\ \A p \in DOMAIN tree : Payloads!Densify(tree)[p] = tree[p]
           /\ \A p \in DOMAIN Payloads!Densify(tree) :
                 p \notin DOMAIN tree => Payloads!Densify(tree)[p] = Payloads!Nothing
<1> DEFINE dense == Payloads!Densify(tree)
           holes == Payloads!Gaps(tree)
<1>1. holes \subseteq Path
  <2> SUFFICES ASSUME NEW p \in holes PROVE p \in Path
    OBVIOUS
  <2>1. PICK node \in Payloads!Nodes(tree), i \in 0..9 : Gap(tree, node, i) /\ p = Append(node, i)
    BY GapsAre
  <2> QED BY <2>1, GapIs
<1>2. dense = [p \in DOMAIN tree \cup holes |-> IF p \in DOMAIN tree THEN tree[p] ELSE Payloads!Nothing]
  BY DEF Payloads!Densify
<1> HIDE DEF dense, holes
<1>3. /\ DOMAIN dense = DOMAIN tree \cup holes
      /\ \A p \in DOMAIN tree : dense[p] = tree[p]
      /\ \A p \in DOMAIN dense : p \notin DOMAIN tree => dense[p] = Payloads!Nothing
  BY <1>2
<1> QED BY <1>1, <1>3 DEF dense, holes

\* Densifying puts no leaf above or below another.
LEMMA DenseLeaves ==
    ASSUME NEW tree, DOMAIN tree \subseteq Path, \A p, q \in DOMAIN tree : ~Above(p, q),
           NEW p \in DOMAIN Payloads!Densify(tree), NEW q \in DOMAIN Payloads!Densify(tree)
    PROVE  ~Above(p, q)
<1> SUFFICES ASSUME Above(p, q) PROVE FALSE
  OBVIOUS
<1>0. p \in Path /\ q \in Path
  BY DensifyIs
<1>1. PICK r \in DOMAIN tree : Above(p, r)
  <2>1. CASE q \in DOMAIN tree
    BY <2>1
  <2>2. CASE q \notin DOMAIN tree
    <3>1. q \in Payloads!Gaps(tree)
      BY <2>2, DensifyIs
    <3>2. PICK node \in Payloads!Nodes(tree), i \in 0..9 : Gap(tree, node, i) /\ q = Append(node, i)
      BY <3>1, GapsAre
    <3>3. node \in Path /\ i \in Nat /\ \E r \in DOMAIN tree : Above(node, r)
      BY <3>2, GapIs
    <3>4. p = node \/ Above(p, node)
      BY <1>0, <3>2, <3>3, AppendIs
    <3> QED BY <1>0, <3>3, <3>4, AboveIsTransitive
  <2> QED BY <2>1, <2>2
<1>2. p \notin DOMAIN tree
  BY <1>1
<1>3. p \in Payloads!Gaps(tree)
  BY <1>2, DensifyIs
<1>4. PICK node \in Payloads!Nodes(tree), i \in 0..9 : Gap(tree, node, i) /\ p = Append(node, i)
  BY <1>3, GapsAre
<1> QED BY <1>1, <1>4, GapIs

\* Densifying makes no node, and no children but the holes.
LEMMA DenseNodes ==
    ASSUME NEW tree, DOMAIN tree \subseteq Path, NEW node \in Payloads!Nodes(Payloads!Densify(tree)), NEW c
    PROVE  /\ node \in Path /\ \E r \in DOMAIN tree : Above(node, r)
           /\ c \in Payloads!Children(Payloads!Densify(tree), node) <=>
                c \in Payloads!Children(tree, node) \/ Gap(tree, node, c)
<1> DEFINE dense == Payloads!Densify(tree)
<1>1. /\ DOMAIN dense = DOMAIN tree \cup Payloads!Gaps(tree) /\ DOMAIN dense \subseteq Path
  BY DensifyIs
<1> HIDE DEF dense
<1>2. node \in Payloads!Nodes(dense)
  BY DEF dense
<1>3. node \in Path /\ \E p \in DOMAIN dense : Above(node, p)
  BY <1>1, <1>2, NodesAre
<1>4. ASSUME NEW p \in DOMAIN dense, Above(node, p)
      PROVE  \E r \in DOMAIN tree :
                Above(node, r) /\ (r[Len(node) + 1] = p[Len(node) + 1] \/ Gap(tree, node, p[Len(node) + 1]))
  <2>1. CASE p \in DOMAIN tree
    BY <1>4, <2>1
  <2>2. CASE p \in Payloads!Gaps(tree)
    <3>1. PICK m \in Payloads!Nodes(tree), i \in 0..9 : Gap(tree, m, i) /\ p = Append(m, i)
      BY <2>2, GapsAre
    <3>2. m \in Path /\ i \in Nat
      BY <3>1, GapIs
    <3>3. PICK r \in DOMAIN tree : Above(m, r)
      BY <3>1, GapIs
    <3>4. node = m \/ Above(node, m)
      BY <1>3, <1>4, <3>1, <3>2, AppendIs
    <3>5. CASE node = m
      <4>1. p[Len(node) + 1] = i
        BY <3>1, <3>2, <3>5, AppendIs
      <4> QED BY <3>1, <3>3, <3>5, <4>1
    <3>6. CASE Above(node, m)
      <4>0. r \in Path
        OBVIOUS
      <4>1. Above(node, r)
        BY <1>3, <3>2, <3>3, <3>6, <4>0, AboveIsTransitive
      <4>2. Len(node) + 1 \in 1..Len(m)
        BY <1>3, <3>2, <3>6 DEF Above, Path
      <4>3. p[Len(node) + 1] = m[Len(node) + 1]
        BY <3>1, <3>2, <4>2, AppendIs
      <4>4. r[Len(node) + 1] = m[Len(node) + 1]
        BY <3>3, <4>2 DEF Above
      <4> QED BY <4>1, <4>3, <4>4
    <3> QED BY <3>4, <3>5, <3>6
  <2> QED BY <1>1, <2>1, <2>2
<1>5. \E r \in DOMAIN tree : Above(node, r)
  BY <1>3, <1>4
<1>6. ASSUME c \in Payloads!Children(dense, node) PROVE c \in Payloads!Children(tree, node) \/ Gap(tree, node, c)
  <2>1. PICK p \in DOMAIN dense : Above(node, p) /\ c = p[Len(node) + 1]
    BY <1>1, <1>3, <1>6, NodesAre
  <2>2. PICK r \in DOMAIN tree : Above(node, r) /\ (r[Len(node) + 1] = c \/ Gap(tree, node, c))
    BY <1>4, <2>1
  <2> QED BY <1>3, <2>2, NodesAre
<1>7. ASSUME c \in Payloads!Children(tree, node) PROVE c \in Payloads!Children(dense, node)
  <2>1. PICK q \in DOMAIN tree : Above(node, q) /\ c = q[Len(node) + 1]
    BY <1>3, <1>7, NodesAre
  <2>2. q \in DOMAIN dense
    BY <1>1
  <2> QED BY <1>1, <1>3, <2>1, <2>2, NodesAre
<1>8. ASSUME Gap(tree, node, c) PROVE c \in Payloads!Children(dense, node)
  <2>1. node \in Payloads!Nodes(tree) /\ c \in 0..9 /\ c \in Nat
    BY <1>8 DEF Gap
  <2>2. Append(node, c) \in Payloads!Gaps(tree)
    BY <1>8, <2>1, GapsAre
  <2>3. Append(node, c) \in DOMAIN dense /\ Above(node, Append(node, c)) /\ c = Append(node, c)[Len(node) + 1]
    BY <1>1, <1>3, <2>1, <2>2, AppendIs
  <2> QED BY <1>1, <1>3, <2>3, NodesAre
<1> QED BY <1>3, <1>5, <1>6, <1>7, <1>8 DEF dense

\* Some places of a list, with all before them, are the first places.
LEMMA FirstPlaces ==
    ASSUME NEW C, C # {}, C \subseteq 0..9, \A j \in C : \A i \in 0..9 : i < j => i \in C
    PROVE  C = 0..(Payloads!Cardinality(C) - 1)
<1>1. PICK top \in C : \A i \in C : i <= top
  <2> DEFINE T == {9 - i : i \in C}
  <2>0. \A i \in C : i \in Nat /\ i <= 9 /\ 9 - i \in Nat
    OBVIOUS
  <2>1. T \in SUBSET Nat /\ T # {}
    BY <2>0
  <2> HIDE DEF T
  <2>2. PICK m \in T : \A x \in T : m <= x
    BY <2>1, LeastNumber
  <2>3. PICK i \in C : m = 9 - i
    BY DEF T
  <2>4. ASSUME NEW x \in C PROVE x <= i
    <3>1. 9 - x \in T
      BY DEF T
    <3>2. 9 - i <= 9 - x
      BY <2>2, <2>3, <3>1
    <3> QED BY <2>0, <3>2
  <2> QED BY <2>4
<1>2. top \in Nat /\ top <= 9
  OBVIOUS
<1>3. C = 0..top
  <2>1. ASSUME NEW x \in C PROVE x \in 0..top
    BY <1>1, <1>2
  <2>2. ASSUME NEW x \in 0..top PROVE x \in C
    <3>1. x \in 0..9 /\ (x = top \/ x < top)
      BY <1>2
    <3> QED BY <3>1
  <2> QED BY <2>1, <2>2
<1>4. Payloads!Cardinality(C) = Cardinality(C)
  BY DEF Payloads!Cardinality, Cardinality
<1>5. Cardinality(0..top) = top + 1
  BY <1>2, FS_Interval
<1> QED BY <1>2, <1>3, <1>4, <1>5

LEMMA ListsAreFull ==
    ASSUME NEW tree, DOMAIN tree \subseteq Path, NEW node \in Payloads!Nodes(Payloads!Densify(tree)),
           Payloads!IsList(Payloads!Densify(tree), node)
    PROVE  LET C == Payloads!Children(Payloads!Densify(tree), node) IN C = 0..(Payloads!Cardinality(C) - 1)
<1> DEFINE dense == Payloads!Densify(tree)
           C == Payloads!Children(dense, node)
           B == Payloads!Children(tree, node)
<1>1. node \in Path /\ \E r \in DOMAIN tree : Above(node, r)
  BY DenseNodes
<1>2. \A c : c \in C <=> c \in B \/ Gap(tree, node, c)
  BY DenseNodes
<1>3. node \in Payloads!Nodes(tree)
  BY <1>1, NodesAre
<1>4. \A c \in C : c < 10
  BY DEF Payloads!IsList, Payloads!IsIndex, Payloads!FirstName
<1>5. \A c \in B : c \in Nat
  <2> SUFFICES ASSUME NEW c \in B PROVE c \in Nat
    OBVIOUS
  <2>1. PICK q \in DOMAIN tree : Above(node, q) /\ c = q[Len(node) + 1]
    BY <1>1, NodesAre
  <2>2. q \in Path /\ Len(node) + 1 \in 1..Len(q)
    BY <1>1, <2>1 DEF Above, Path
  <2> QED BY <2>1, <2>2 DEF Path
<1> HIDE DEF C, B
<1>6. Payloads!IsList(tree, node)
  <2>1. \A c \in B : c < 10
    BY <1>2, <1>4
  <2> QED BY <2>1 DEF Payloads!IsList, Payloads!IsIndex, Payloads!FirstName, B
<1>7. \A c : Gap(tree, node, c) <=> c \in 0..9 /\ c \notin B /\ \E j \in B : c < j
  BY <1>3, <1>6 DEF Gap, B
<1>8. C # {}
  <2>1. PICK r \in DOMAIN tree : Above(node, r)
    BY <1>1
  <2>2. r[Len(node) + 1] \in B
    BY <1>1, <2>1, NodesAre DEF B
  <2> QED BY <1>2, <2>2
<1>9. C \subseteq 0..9
  <2> SUFFICES ASSUME NEW c \in C PROVE c \in 0..9
    OBVIOUS
  <2>1. CASE c \in B
    <3>1. c \in Nat /\ c < 10
      BY <1>4, <1>5, <2>1
    <3> QED BY <3>1
  <2>2. CASE Gap(tree, node, c)
    BY <1>7, <2>2
  <2> QED BY <1>2, <2>1, <2>2
<1>10. ASSUME NEW j \in C, NEW i \in 0..9, i < j PROVE i \in C
  <2>1. CASE j \in B
    BY <1>2, <1>7, <1>10, <2>1
  <2>2. CASE Gap(tree, node, j)
    <3>1. PICK l \in B : j < l /\ j \in 0..9
      BY <1>7, <2>2
    <3>2. l \in Nat
      BY <1>5
    <3>3. i < l
      BY <1>10, <3>1, <3>2
    <3> QED BY <1>2, <1>7, <3>3
  <2> QED BY <1>2, <2>1, <2>2
<1>11. C = 0..(Payloads!Cardinality(C) - 1)
  BY <1>8, <1>9, <1>10, FirstPlaces
<1> QED BY <1>11 DEF C, dense

LEMMA PathsAreKept ==
    ASSUME NEW V, NEW flat \in Seq(Path \X V)
    PROVE  Payloads!PayloadKeepsPaths(flat)
<1>1. PICK trees :
          /\ trees[0] = {Payloads!EmptyTree}
          /\ \A k \in 1..Len(flat) : trees[k] = AddedTo(trees[k - 1], flat[k])
          /\ Payloads!ExpandPaths(flat) = {Payloads!Densify(tree) : tree \in trees[Len(flat)]}
  BY ExpandFolds
<1>2. Grown(V, flat, trees, Len(flat))
  BY <1>1, GrowsToTheEnd
<1>3. DOMAIN flat = 1..Len(flat)
  OBVIOUS
<1>4. Payloads!Compatible(flat) => Payloads!ExpandPaths(flat) # {}
  BY <1>1, <1>2 DEF Grown
<1>5. ASSUME NEW payload \in Payloads!ExpandPaths(flat)
      PROVE  /\ \A i \in DOMAIN flat : Payloads!Compatible(flat) \/ i = Len(flat) =>
                    flat[i][1] \in DOMAIN payload /\ payload[flat[i][1]] = flat[i][2]
             /\ \A p \in DOMAIN payload :
                    payload[p] # Payloads!Nothing => \E i \in DOMAIN flat : flat[i] = <<p, payload[p]>>
             /\ \A p, q \in DOMAIN payload : ~Payloads!IsStrictPrefix(p, q)
             /\ \A node \in Payloads!Nodes(payload) : Payloads!IsList(payload, node) =>
                    Payloads!Children(payload, node) =
                        0..(Payloads!Cardinality(Payloads!Children(payload, node)) - 1)
  <2>1. PICK tree \in trees[Len(flat)] : payload = Payloads!Densify(tree)
    BY <1>1
  <2>2. Written(V, flat, Len(flat), tree)
    BY <1>2 DEF Grown
  <2>3. DOMAIN tree \subseteq Path
    BY <2>2, TreeIs DEF Written
  <2>4. /\ DOMAIN payload = DOMAIN tree \cup Payloads!Gaps(tree) /\ DOMAIN payload \subseteq Path
        /\ \A p \in DOMAIN tree : payload[p] = tree[p]
        /\ \A p \in DOMAIN payload : p \notin DOMAIN tree => payload[p] = Payloads!Nothing
    BY <2>1, <2>3, DensifyIs
  <2>5. ASSUME NEW i \in DOMAIN flat, Payloads!Compatible(flat) \/ i = Len(flat)
        PROVE  flat[i][1] \in DOMAIN payload /\ payload[flat[i][1]] = flat[i][2]
    BY <1>3, <2>2, <2>4, <2>5 DEF Written
  <2>6. ASSUME NEW p \in DOMAIN payload, payload[p] # Payloads!Nothing
        PROVE  \E i \in DOMAIN flat : flat[i] = <<p, payload[p]>>
    BY <1>3, <2>2, <2>4, <2>6 DEF Written
  <2>7. ASSUME NEW p \in DOMAIN payload, NEW q \in DOMAIN payload PROVE ~Payloads!IsStrictPrefix(p, q)
    <3>1. p \in Path /\ q \in Path
      BY <2>4
    <3>2. ~Above(p, q)
      BY <2>1, <2>2, <2>3, DenseLeaves DEF Written
    <3> QED BY <3>1, <3>2, PrefixIs
  <2>8. ASSUME NEW node \in Payloads!Nodes(payload), Payloads!IsList(payload, node)
        PROVE  Payloads!Children(payload, node) = 0..(Payloads!Cardinality(Payloads!Children(payload, node)) - 1)
    BY <2>1, <2>3, <2>8, ListsAreFull
  <2> QED BY <2>5, <2>6, <2>7, <2>8
<1> QED BY <1>4, <1>5 DEF Payloads!PayloadKeepsPaths

-----------------------------------------------------------------------------
(***************************************************************************)
(* Sinks.  While an attempt is on its way, the rows up to its batch and    *)
(* call were taken (UpToCall), and no row was sent more often than the     *)
(* attempts and the second tries of the MCP client explain (OnItsWay);     *)
(* batches of rows cover all rows whatever the batch size (RowsOfBatch).   *)
(***************************************************************************)

\* What is assumed of a run's rows and of a target's configuration.
SinksAssumed ==
    NumRows \in Nat /\ Sizes \subseteq Nat /\ Preview \in Nat /\ MaxAttempts \in Nat

\* An MCP target with a call for each row, and the times its client sends one.
PerRow == sink = "mcp per row"
Times == IF sink \in Sending!OverMcp THEN 2 ELSE 1

\* The rows that got through in this attempt are the first ones, up to here.
UpToCall(b, c) == Sending!RowsBefore(b) + (IF PerRow THEN c - 1 ELSE 0)
Asked == Sending!RowsOfCall(batch, call)

\* The types that the steps rely on, and where the delivery may be.
SinkTypes ==
    /\ sink \in Sending!Kinds /\ size \in Nat /\ second \in BOOLEAN
    /\ attempts \in Nat \ {0} /\ taken \in [Sending!Row -> Nat]
    /\ answer \in [ended : BOOLEAN, ok : BOOLEAN, retryable : BOOLEAN, sent : Nat]

Placed ==
    /\ batch \in Nat \ {0} /\ batch <= Sending!Batches
    /\ call \in Nat \ {0} /\ (call = 1 \/ (PerRow /\ call <= Sending!Calls(batch)))

\* While it is on its way: what got through was taken, and how often a row was sent.
OnItsWay ==
    /\ ~answer.ok /\ answer.sent = 0
    /\ second => sink \in Sending!OverMcp
    /\ \A r \in Sending!Row : r <= UpToCall(batch, call) => taken[r] > 0
    /\ \A r \in Sending!Row :
          taken[r] <= (attempts - 1) * Times + (IF r <= UpToCall(batch, call) THEN Times
                                                ELSE IF second /\ r \in Asked THEN 1 ELSE 0)

SinksInv == SinkTypes /\ Placed /\ (IF answer.ended THEN Sending!SinkTellsTruth ELSE OnItsWay)

-----------------------------------------------------------------------------
\* The batches are as many as the rows need.
LEMMA BatchesAreEnough ==
    ASSUME NEW n \in Nat, NEW s \in Nat \ {0}, NEW b \in Nat \ {0}
    PROVE  /\ (n + s - 1) \div s \in Nat
           /\ b <= (n + s - 1) \div s <=> (b - 1) * s < n
<1> DEFINE B == (n + s - 1) \div s
<1>1. B \in Nat /\ B * s <= n + s - 1 /\ n + s - 1 < B * s + s
  OBVIOUS
<1> HIDE DEF B
<1>2. (b - 1) * s = b * s - s
  OBVIOUS
<1>3. b <= B => b * s <= B * s
  BY <1>1
<1>4. b > B => b * s >= B * s + s
  BY <1>1
<1> QED BY <1>1, <1>2, <1>3, <1>4 DEF B

LEMMA BatchesAreFinite == ASSUME NumRows \in Nat, size \in Nat PROVE Sending!Batches \in Nat
<1>1. Sending!Split => (NumRows + size - 1) \div size \in Nat
  <2>1. Sending!Split => size \in Nat \ {0} /\ 1 \in Nat \ {0}
    BY DEF Sending!Split
  <2> QED BY <2>1, BatchesAreEnough
<1> QED BY <1>1 DEF Sending!Batches

\* The cardinalities there are those of here.
LEMMA CardinalityThere == \A S : Sending!Cardinality(S) = Cardinality(S)
  BY DEF Sending!Cardinality, Cardinality

LEMMA RowsOfBatch ==
    ASSUME NumRows \in Nat, size \in Nat, NEW b \in Nat \ {0}, b <= Sending!Batches
    PROVE  \E hi \in Nat :
              /\ Sending!RowsOf(b) = (Sending!RowsBefore(b) + 1)..hi
              /\ Sending!RowsBefore(b) \in Nat /\ Sending!RowsBefore(b) <= hi /\ hi <= NumRows
              /\ Sending!RowsBefore(1) = 0 /\ (NumRows > 0 => Sending!RowsBefore(b) < hi)
              /\ b < Sending!Batches => hi = Sending!RowsBefore(b + 1)
              /\ b >= Sending!Batches => hi = NumRows
<1>1. CASE ~Sending!Split
  <2>1. /\ Sending!RowsBefore(b) = 0 /\ Sending!RowsBefore(1) = 0
        /\ Sending!Batches = 1 /\ Sending!RowsOf(b) = 1..NumRows
    BY <1>1 DEF Sending!RowsBefore, Sending!Batches, Sending!RowsOf, Sending!Row
  <2> QED BY <2>1
<1>2. CASE Sending!Split
  <2> DEFINE B == Sending!Batches
             lo == (b - 1) * size
             top == b * size
             hi == IF top < NumRows THEN top ELSE NumRows
  <2>1. size \in Nat \ {0} /\ NumRows > size /\ B = (NumRows + size - 1) \div size
    BY <1>2 DEF Sending!Split, Sending!Batches
  <2>2. B \in Nat /\ (b <= B <=> lo < NumRows)
    BY <2>1, BatchesAreEnough
  <2>3. b + 1 <= B <=> ((b + 1) - 1) * size < NumRows
    <3>1. b + 1 \in Nat \ {0}
      OBVIOUS
    <3> HIDE DEF B
    <3> QED BY <2>1, <3>1, BatchesAreEnough
  <2>4. ((b + 1) - 1) * size = top /\ top = lo + size /\ lo \in Nat /\ top \in Nat
    BY <2>1
  <2>5. Sending!RowsBefore(b) = lo /\ Sending!RowsBefore(1) = 0 /\ Sending!RowsBefore(b + 1) = top
    <3>1. Sending!RowsBefore(b + 1) = ((b + 1) - 1) * size
      BY <1>2 DEF Sending!RowsBefore
    <3>2. Sending!RowsBefore(1) = (1 - 1) * size
      BY <1>2 DEF Sending!RowsBefore
    <3>3. (1 - 1) * size = 0
      BY <2>1
    <3> QED BY <1>2, <2>4, <3>1, <3>2, <3>3 DEF Sending!RowsBefore
  <2>6. Sending!RowsOf(b) = {r \in 1..NumRows : lo < r /\ r <= top}
    BY <1>2 DEF Sending!RowsOf, Sending!Row
  <2>7. lo < NumRows /\ (b < B <=> top < NumRows)
    BY <2>2, <2>3, <2>4
  <2> HIDE DEF B, lo, top
  <2>8. {r \in 1..NumRows : lo < r /\ r <= top} = (lo + 1)..hi
    BY <2>4
  <2>9. hi \in Nat /\ lo < hi /\ hi <= NumRows /\ (b < B => hi = top) /\ (b >= B => hi = NumRows)
    BY <2>1, <2>2, <2>4, <2>7
  <2> HIDE DEF hi
  <2>10. /\ Sending!RowsOf(b) = (Sending!RowsBefore(b) + 1)..hi
         /\ Sending!RowsBefore(b) \in Nat /\ Sending!RowsBefore(b) < hi /\ Sending!RowsBefore(1) = 0
         /\ b < B => hi = Sending!RowsBefore(b + 1)
    BY <2>4, <2>5, <2>6, <2>8, <2>9
  <2>11. hi \in Nat /\ hi <= NumRows /\ (b >= B => hi = NumRows)
    BY <2>9
  <2> QED BY <2>10, <2>11 DEF B
<1> QED BY <1>1, <1>2

LEMMA CallsAreFinite ==
    ASSUME NumRows \in Nat, size \in Nat, NEW b \in Nat \ {0}, b <= Sending!Batches
    PROVE  Sending!Calls(b) \in Nat
<1>1. PICK hi \in Nat : Sending!RowsOf(b) = (Sending!RowsBefore(b) + 1)..hi /\ Sending!RowsBefore(b) \in Nat
  BY RowsOfBatch
<1>2. Sending!RowsBefore(b) + 1 \in Int /\ hi \in Int
  BY <1>1
<1> DEFINE first == Sending!RowsBefore(b) + 1
           some == Sending!RowsOf(b)
<1> HIDE DEF first
<1>3. Cardinality(first..hi) \in Nat
  <2>1. Cardinality(first..hi) = IF first > hi THEN 0 ELSE hi - first + 1
    BY <1>2, FS_Interval DEF first
  <2>2. first \in Int
    BY <1>2 DEF first
  <2> QED BY <1>1, <2>1, <2>2
<1>4. some = first..hi
  BY <1>1 DEF first
<1> HIDE DEF some, first
<1>5. Cardinality(some) \in Nat
  BY <1>3, <1>4
<1> QED BY <1>5, CardinalityThere DEF Sending!Calls, some

LEMMA RowsOfCallIs ==
    ASSUME NumRows \in Nat, size \in Nat, Placed
    PROVE  /\ UpToCall(batch, call) \in Nat /\ UpToCall(1, 1) = 0
           /\ UpToCall(batch, call) <= NumRows
           /\ call < Sending!Calls(batch) =>
                 PerRow /\ UpToCall(batch, call + 1) = UpToCall(batch, call) + 1
                 /\ Asked = {UpToCall(batch, call) + 1}
           /\ call >= Sending!Calls(batch) /\ batch < Sending!Batches =>
                 Asked \cap Sending!Row =
                     {r \in Sending!Row : UpToCall(batch, call) < r /\ r <= UpToCall(batch + 1, 1)}
                 /\ UpToCall(batch, call) <= UpToCall(batch + 1, 1) /\ UpToCall(batch + 1, 1) \in Nat
           /\ call >= Sending!Calls(batch) /\ batch >= Sending!Batches =>
                 Asked \cap Sending!Row = {r \in Sending!Row : UpToCall(batch, call) < r}
           /\ \A r \in Asked : r > UpToCall(batch, call)
           /\ call = 1 => UpToCall(batch, call) = Sending!RowsBefore(batch)
           /\ Sending!RowsBefore(batch) <= UpToCall(batch, call)
<1> DEFINE lo == Sending!RowsBefore(batch)
           after == Sending!RowsBefore(batch + 1)
           ending == batch >= Sending!Batches
           rows == Sending!RowsOf(batch)
           calls == Sending!Calls(batch)
<1>1. PICK hi \in Nat : rows = (lo + 1)..hi /\ lo \in Nat /\ lo <= hi /\ hi <= NumRows
                        /\ Sending!RowsBefore(1) = 0 /\ (NumRows > 0 => lo < hi)
                        /\ (~ending => hi = after) /\ (ending => hi = NumRows)
  <2>1. batch < Sending!Batches <=> ~ending
    <3>1. Sending!Batches \in Nat /\ batch \in Nat
      BY BatchesAreFinite DEF Placed
    <3> QED BY <3>1
  <2> QED BY <2>1, RowsOfBatch DEF Placed
<1>2. calls = IF PerRow THEN hi - lo ELSE 1
  <2>1. Cardinality((lo + 1)..hi) = hi - lo
    <3>1. lo + 1 \in Int /\ hi \in Int
      BY <1>1
    <3>2. Cardinality((lo + 1)..hi) = IF lo + 1 > hi THEN 0 ELSE hi - (lo + 1) + 1
      BY <3>1, FS_Interval
    <3> QED BY <1>1, <3>2
  <2>2. calls = IF PerRow THEN Cardinality(rows) ELSE 1
    BY CardinalityThere DEF Sending!Calls, PerRow
  <2>3. Cardinality(rows) = Cardinality((lo + 1)..hi)
    <3>1. rows = (lo + 1)..hi
      BY <1>1
    <3> HIDE DEF rows, lo
    <3> QED BY <3>1
  <2> HIDE DEF calls, rows
  <2> QED BY <2>1, <2>2, <2>3
<1>3. Asked = IF PerRow THEN {lo + call} ELSE (lo + 1)..hi
  BY <1>1 DEF Asked, Sending!RowsOfCall, PerRow
<1>4. /\ UpToCall(batch, call) = lo + (IF PerRow THEN call - 1 ELSE 0)
      /\ UpToCall(batch, call + 1) = lo + (IF PerRow THEN call ELSE 0)
      /\ UpToCall(batch + 1, 1) = after /\ (~ending => after = hi) /\ UpToCall(1, 1) = 0
  <2>1. UpToCall(batch, call) = lo + (IF PerRow THEN call - 1 ELSE 0)
    BY DEF UpToCall
  <2>2. UpToCall(batch, call + 1) = lo + (IF PerRow THEN (call + 1) - 1 ELSE 0) /\ (call + 1) - 1 = call
    BY DEF UpToCall, Placed
  <2>3. UpToCall(batch + 1, 1) = after + (IF PerRow THEN 1 - 1 ELSE 0)
    BY DEF UpToCall
  <2>4. UpToCall(1, 1) = Sending!RowsBefore(1) + (IF PerRow THEN 1 - 1 ELSE 0)
    BY DEF UpToCall
  <2>5. after \in Nat => after + (IF PerRow THEN 1 - 1 ELSE 0) = after
    OBVIOUS
  <2>6. after \in Nat
    <3>1. after = IF Sending!Split THEN ((batch + 1) - 1) * size ELSE 0
      BY DEF Sending!RowsBefore
    <3>2. ((batch + 1) - 1) * size \in Nat
      BY DEF Placed
    <3> QED BY <3>1, <3>2
  <2>7. UpToCall(1, 1) = 0
    BY <1>1, <2>4
  <2> HIDE DEF lo, after, ending
  <2> QED BY <1>1, <2>1, <2>2, <2>3, <2>5, <2>6, <2>7
<1>5. call \in Nat \ {0} /\ (call = 1 \/ (PerRow /\ call <= calls)) /\ (batch < Sending!Batches => ~ending)
  <2>1. batch < Sending!Batches => ~ending
    <3>1. Sending!Batches \in Nat /\ batch \in Nat
      BY BatchesAreFinite DEF Placed
    <3> QED BY <3>1
  <2> QED BY <2>1 DEF Placed
<1>6. Sending!Row = 1..NumRows
  BY DEF Sending!Row
<1> DEFINE done == UpToCall(batch, call)
<1> HIDE DEF lo, after, ending, rows, calls, done
<1>7. done \in Nat /\ lo <= done /\ (call = 1 => done = lo) /\ \A r \in Asked : r > done
  BY <1>1, <1>3, <1>4, <1>5 DEF done
<1>8. done <= hi /\ done <= NumRows
  BY <1>1, <1>2, <1>4, <1>5 DEF done
<1>9. call < calls => PerRow /\ UpToCall(batch, call + 1) = done + 1 /\ Asked = {done + 1}
  BY <1>1, <1>2, <1>3, <1>4, <1>5 DEF done
<1>10. call >= calls => Asked \cap Sending!Row = {r \in Sending!Row : done < r /\ r <= hi}
  <2>1. CASE PerRow
    <3>1. done = lo + (call - 1) /\ Asked = {lo + call}
      BY <1>3, <1>4, <2>1 DEF done
    <3>2. call >= calls => lo + call >= hi /\ (call = 1 \/ lo + call = hi)
      BY <1>1, <1>2, <1>5, <2>1
    <3>3. call >= calls => Asked \cap Sending!Row = {r \in Sending!Row : r = lo + call}
      BY <3>1
    <3>4. ASSUME call >= calls, NEW r \in Sending!Row PROVE r = lo + call <=> done < r /\ r <= hi
      BY <1>1, <1>2, <1>5, <1>6, <2>1, <3>1, <3>2, <3>4
    <3> QED BY <3>3, <3>4
  <2>2. CASE ~PerRow
    <3>1. done = lo /\ Asked = (lo + 1)..hi
      BY <1>1, <1>3, <1>4, <2>2 DEF done
    <3> QED BY <1>1, <1>6, <3>1
  <2> QED BY <2>1, <2>2
<1>11. call >= calls /\ ending => Asked \cap Sending!Row = {r \in Sending!Row : done < r}
  BY <1>1, <1>6, <1>7, <1>10
<1>12. call >= calls /\ ~ending => Asked \cap Sending!Row
                                   = {r \in Sending!Row : done < r /\ r <= UpToCall(batch + 1, 1)}
                                     /\ done <= UpToCall(batch + 1, 1) /\ UpToCall(batch + 1, 1) \in Nat
  BY <1>1, <1>4, <1>8, <1>10
<1> QED BY <1>4, <1>5, <1>7, <1>8, <1>9, <1>11, <1>12 DEF done, lo, ending, calls

\* What comes of rows that reach the receiver.
LEMMA ReachedAtLeast ==
    ASSUME taken \in [Sending!Row -> Nat], NEW S
    PROVE  /\ Sending!Reached(S) \in [Sending!Row -> Nat]
           /\ \A r \in Sending!Row :
                 /\ Sending!Reached(S)[r] <= taken[r] + (IF r \in S THEN 1 ELSE 0)
                 /\ r \in S => Sending!Reached(S)[r] > 0
                 /\ sink # "file" /\ taken[r] > 0 => Sending!Reached(S)[r] > 0
<1>1. CASE sink = "file"
  <2>1. Sending!Reached(S) = [r \in Sending!Row |-> IF r \in S THEN 1 ELSE 0]
    BY <1>1, Zenon DEF Sending!Reached
  <2> QED BY <1>1, <2>1
<1>2. CASE sink = "s3"
  <2>1. Sending!Reached(S) = [r \in Sending!Row |-> IF r \in S THEN 1 ELSE taken[r]]
    BY <1>2, Zenon DEF Sending!Reached
  <2> QED BY <2>1
<1>3. CASE sink # "file" /\ sink # "s3"
  <2>1. Sending!Reached(S) = [r \in Sending!Row |-> IF r \in S THEN taken[r] + 1 ELSE taken[r]]
    BY <1>3, Zenon DEF Sending!Reached
  <2> QED BY <2>1
<1> QED BY <1>1, <1>2, <1>3

\* What a call brings is of its rows, and all of them at a sink for rows.
LEMMA BringsOfRows ==
    ASSUME sink \in Sending!Kinds, NEW R, NEW S \in Sending!Brings(R)
    PROVE  S \subseteq R /\ (sink \in Sending!RowSinks => S = R)
<1>1. CASE sink \in Sending!RowSinks
  <2>1. sink # "email" /\ sink # "bare email" /\ sink # "apprise"
    BY <1>1 DEF Sending!RowSinks, Sending!Batched, Sending!OverMcp, Sending!Files,
                Sending!Objects
  <2>2. Sending!Brings(R) = {R}
    BY <1>1, <2>1, Zenon DEF Sending!Brings
  <2> QED BY <2>2
<1>2. CASE sink \notin Sending!RowSinks
  <2>1. sink \in {"email", "bare email", "apprise"}
    BY <1>2 DEF Sending!Kinds, Sending!Mails
  <2>2. CASE sink = "email"
    <3>1. Sending!Brings(R) = {R, {}}
      BY <1>2, <2>2, Zenon DEF Sending!Brings
    <3> QED BY <1>2, <3>1
  <2>3. CASE sink = "bare email"
    <3>1. Sending!Brings(R) = {{}}
      BY <1>2, <2>3, Zenon DEF Sending!Brings
    <3> QED BY <1>2, <3>1
  <2>4. CASE sink = "apprise"
    <3>1. Sending!Brings(R) = {{r \in R : r <= n} : n \in 0..Preview}
      BY <1>2, <2>4, Zenon DEF Sending!Brings
    <3> QED BY <1>2, <3>1
  <2> QED BY <2>1, <2>2, <2>3, <2>4
<1> QED BY <1>1, <1>2

LEMMA BringsAsked ==
    ASSUME sink \in Sending!Kinds, NEW S \in Sending!Brings(Asked)
    PROVE  S \subseteq Asked /\ (sink \in Sending!RowSinks => S = Asked)
<1> HIDE DEF Asked
<1> QED BY BringsOfRows

LEMMA TakenIsAsked ==
    ASSUME sink \in Sending!Kinds, NEW reply \in {"busy", "lost"}, NEW S \in Sending!Taken(reply)
    PROVE  S \subseteq Asked
<1> DEFINE R == Sending!RowsOfCall(batch, call)
<1>1. Sending!Taken(reply) = IF sink \in Sending!Files THEN {{r \in R : r <= n} : n \in Sending!Row \cup {0}}
                             ELSE {{}} \cup Sending!Brings(R)
  <2>1. reply \notin {"unfit", "refused", "raises"}
    OBVIOUS
  <2> QED BY <2>1, Zenon DEF Sending!Taken
<1>2. R = Asked
  BY DEF Asked
<1> HIDE DEF R
<1>3. S \in Sending!Brings(Asked) => S \subseteq Asked
  BY BringsAsked
<1> QED BY <1>1, <1>2, <1>3

LEMMA SinksBegin == SinksAssumed /\ Sending!SinksInit => SinksInv
<1> SUFFICES ASSUME SinksAssumed, Sending!SinksInit PROVE SinksInv
  OBVIOUS
<1>1. /\ sink \in Sending!Kinds /\ size \in Nat /\ batch = 1 /\ call = 1 /\ second = FALSE /\ attempts = 1
      /\ taken = [r \in Sending!Row |-> 0]
      /\ answer = [ended |-> FALSE, ok |-> FALSE, retryable |-> FALSE, sent |-> 0]
  BY DEF SinksAssumed, Sending!SinksInit, Sending!NoAnswer
<1>2. SinkTypes
  <2>1. answer \in [ended : BOOLEAN, ok : BOOLEAN, retryable : BOOLEAN, sent : Nat]
    BY <1>1
  <2>2. taken \in [Sending!Row -> Nat]
    BY <1>1
  <2>3. attempts \in Nat \ {0} /\ size \in Nat /\ sink \in Sending!Kinds
    BY <1>1
  <2>4. second \in BOOLEAN
    BY <1>1, Zenon
  <2> QED BY <2>1, <2>2, <2>3, <2>4 DEF SinkTypes
<1>3. Placed
  <2>1. Sending!Split => 1 <= Sending!Batches
    <3>1. ASSUME Sending!Split PROVE 1 <= (NumRows + size - 1) \div size
      <4>1. NumRows \in Nat /\ size \in Nat \ {0} /\ NumRows > size /\ 1 \in Nat \ {0}
        BY <1>1, <3>1 DEF Sending!Split, SinksAssumed
      <4>2. (1 - 1) * size < NumRows
        BY <4>1
      <4> QED BY <4>1, <4>2, BatchesAreEnough
    <3> QED BY <3>1 DEF Sending!Batches
  <2>2. ~Sending!Split => 1 <= Sending!Batches
    BY DEF Sending!Batches
  <2> QED BY <1>1, <2>1, <2>2 DEF Placed
<1>4. \A r \in Sending!Row : taken[r] = 0 /\ r > 0
  BY <1>1 DEF Sending!Row, SinksAssumed
<1>5. UpToCall(batch, call) = 0
  BY <1>1, <1>3, RowsOfCallIs DEF SinksAssumed
<1>6. Times = 1 \/ Times = 2
  BY DEF Times
<1>7. OnItsWay
  BY <1>1, <1>4, <1>5, <1>6 DEF OnItsWay, Sending!Row
<1>8. ~answer.ended
  BY <1>1
<1> QED BY <1>2, <1>3, <1>7, <1>8 DEF SinksInv

\* What does not depend on where the delivery is.
LEMMA SinkStays ==
    ASSUME UNCHANGED <<sink, size>>
    PROVE  /\ UpToCall(batch, call)' = UpToCall(batch', call') /\ Asked' = Sending!RowsOfCall(batch', call')
           /\ Sending!Batches' = Sending!Batches /\ Sending!Calls(batch)' = Sending!Calls(batch')
           /\ Times' = Times /\ PerRow' = PerRow
BY DEF UpToCall, Asked, Sending!RowsOfCall, Sending!Batches, Sending!Calls, Sending!RowsBefore, Sending!RowsOf,
       Sending!Split, Times, PerRow

\* How often a row was sent, before the call and once it got through.
LEMMA CallCounts ==
    ASSUME SinksAssumed, SinksInv, ~answer.ended
    PROVE  /\ Times \in {1, 2} /\ (second => Times = 2) /\ UpToCall(batch, call) \in Nat
           /\ \A r \in Sending!Row :
                 /\ r \in Nat /\ r <= NumRows
                 /\ r \in Asked => r > UpToCall(batch, call)
                 /\ r \in Asked => taken[r] <= (attempts - 1) * Times + (IF second THEN 1 ELSE 0)
                 /\ r <= UpToCall(batch, call) => taken[r] <= (attempts - 1) * Times + Times
                 /\ r > UpToCall(batch, call) /\ r \notin Asked => taken[r] <= (attempts - 1) * Times
           /\ (attempts - 1) * Times \in Nat /\ attempts * Times = (attempts - 1) * Times + Times
           /\ sink = "file" => UpToCall(batch, call) = 0
<1> DEFINE done == UpToCall(batch, call)
           before == (attempts - 1) * Times
<1>1. SinkTypes /\ Placed /\ OnItsWay
  BY DEF SinksInv
<1>2. Times \in {1, 2} /\ (second => Times = 2)
  BY <1>1 DEF Times, OnItsWay
<1>3. before \in Nat /\ attempts * Times = before + Times
  <2>1. attempts \in Nat \ {0}
    BY <1>1 DEF SinkTypes
  <2> QED BY <1>2, <2>1
<1>4. /\ done \in Nat /\ (\A r \in Asked : r > done) /\ (call = 1 => done = Sending!RowsBefore(batch))
  BY <1>1, RowsOfCallIs DEF SinksAssumed, SinkTypes
<1>5. \A r \in Sending!Row : r \in Nat /\ r <= NumRows
  BY DEF Sending!Row, SinksAssumed
<1>6. \A r \in Sending!Row :
          taken[r] <= before + (IF r <= done THEN Times ELSE IF second /\ r \in Asked THEN 1 ELSE 0)
  BY <1>1 DEF OnItsWay
<1>7. sink = "file" => done = 0
  <2>1. sink = "file" => call = 1 /\ ~Sending!Split
    BY <1>1 DEF Placed, PerRow, Sending!Split, Sending!Batched, Sending!OverMcp
  <2>2. ~Sending!Split => Sending!RowsBefore(batch) = 0
    BY DEF Sending!RowsBefore
  <2> QED BY <1>4, <2>1, <2>2
<1> HIDE DEF done, before
<1>8. \A r \in Sending!Row : taken[r] \in Nat
  BY <1>1 DEF SinkTypes
<1>9. \A r \in Sending!Row :
                 /\ r \in Asked => taken[r] <= before + (IF second THEN 1 ELSE 0)
                 /\ r <= done => taken[r] <= before + Times
                 /\ r > done /\ r \notin Asked => taken[r] <= before
  BY <1>2, <1>3, <1>4, <1>5, <1>6, <1>8
<1> QED BY <1>2, <1>3, <1>4, <1>5, <1>7, <1>9 DEF done, before

LEMMA SinksInvTells == ASSUME SinksAssumed, SinksInv PROVE Sending!SinkTellsTruth
<1>1. CASE answer.ended
  BY <1>1 DEF SinksInv
<1>2. CASE ~answer.ended
  <2> DEFINE before == (attempts - 1) * Times
  <2>1. Times \in {1, 2} /\ attempts \in Nat \ {0} /\ OnItsWay
    BY <1>2 DEF Times, SinksInv, SinkTypes
  <2>2. before \in Nat /\ attempts * Times = before + Times
    BY <2>1
  <2>3. \A r \in Sending!Row :
           taken[r] <= before + (IF r <= UpToCall(batch, call) THEN Times
                                 ELSE IF second /\ r \in Asked THEN 1 ELSE 0)
    BY <2>1 DEF OnItsWay
  <2>4. \A r \in Sending!Row : taken[r] \in Nat
    BY DEF SinksInv, SinkTypes
  <2> HIDE DEF before
  <2>5. \A r \in Sending!Row : taken[r] <= attempts * Times
    BY <2>1, <2>2, <2>3, <2>4
  <2>6. 1..answer.sent = {} /\ ~answer.ok
    BY <2>1 DEF OnItsWay
  <2> QED BY <2>5, <2>6 DEF Sending!SinkTellsTruth, Times
<1> QED BY <1>1, <1>2

LEMMA AcceptedKeeps == ASSUME SinksAssumed, SinksInv, Sending!Accepted PROVE SinksInv'
<1> DEFINE done == UpToCall(batch, call)
           before == (attempts - 1) * Times
           more == call < Sending!Calls(batch)
           further == batch < Sending!Batches
<1>1. SinkTypes /\ Placed /\ OnItsWay /\ ~answer.ended
  BY DEF SinksInv, Sending!Accepted
<1>2. /\ Times \in {1, 2} /\ (second => Times = 2) /\ done \in Nat /\ before \in Nat
      /\ attempts * Times = before + Times /\ (sink = "file" => done = 0)
      /\ \A r \in Sending!Row :
            /\ r \in Nat /\ r <= NumRows
            /\ r \in Asked => r > done /\ taken[r] <= before + (IF second THEN 1 ELSE 0)
            /\ r <= done => taken[r] <= before + Times
            /\ r > done /\ r \notin Asked => taken[r] <= before
  BY <1>1, CallCounts
<1>3. /\ UNCHANGED <<sink, size, toolRetry, attempts>> /\ second' = FALSE
      /\ \E S \in Sending!Brings(Asked) : taken' = Sending!Reached(S)
      /\ more => call' = call + 1 /\ batch' = batch /\ answer' = answer
      /\ ~more /\ further => batch' = batch + 1 /\ call' = 1 /\ answer' = answer
      /\ ~more /\ ~further =>
            /\ answer' = [ended |-> TRUE, ok |-> TRUE, retryable |-> FALSE, sent |-> NumRows]
            /\ batch' = batch /\ call' = call
  BY DEF Sending!Accepted, Asked
<1>4. /\ UpToCall(batch, call)' = UpToCall(batch', call') /\ Asked' = Sending!RowsOfCall(batch', call')
      /\ Sending!Batches' = Sending!Batches /\ Sending!Calls(batch)' = Sending!Calls(batch')
      /\ Times' = Times /\ PerRow' = PerRow /\ Sending!Row' = Sending!Row
  BY <1>3, SinkStays DEF Sending!Row
<1>5. /\ more => PerRow /\ UpToCall(batch, call + 1) = done + 1 /\ Asked = {done + 1}
      /\ ~more /\ further =>
             /\ Asked \cap Sending!Row = {r \in Sending!Row : done < r /\ r <= UpToCall(batch + 1, 1)}
             /\ done <= UpToCall(batch + 1, 1) /\ UpToCall(batch + 1, 1) \in Nat
      /\ ~more /\ ~further => Asked \cap Sending!Row = {r \in Sending!Row : done < r}
  <2>1. /\ batch \in Nat /\ call \in Nat /\ Sending!Batches \in Nat /\ Sending!Calls(batch) \in Nat
    <3>1. Sending!Batches \in Nat
      BY <1>1, BatchesAreFinite DEF SinksAssumed, SinkTypes
    <3>2. Sending!Calls(batch) \in Nat
      BY <1>1, CallsAreFinite DEF SinksAssumed, SinkTypes, Placed
    <3> QED BY <1>1, <3>1, <3>2 DEF Placed
  <2>2. (~more => call >= Sending!Calls(batch)) /\ (~further => batch >= Sending!Batches)
    BY <2>1
  <2> QED BY <1>1, <2>2, RowsOfCallIs DEF SinksAssumed, SinkTypes
<1>6. /\ taken' \in [Sending!Row -> Nat]
      /\ \A r \in Sending!Row :
            /\ taken'[r] <= taken[r] + (IF r \in Asked THEN 1 ELSE 0)
            /\ sink \in Sending!RowSinks /\ r \in Asked => taken'[r] > 0
            /\ sink # "file" /\ taken[r] > 0 => taken'[r] > 0
  <2>1. PICK S \in Sending!Brings(Asked) : taken' = Sending!Reached(S)
    BY <1>3
  <2>2. S \subseteq Asked /\ (sink \in Sending!RowSinks => S = Asked)
    BY <1>1, BringsAsked DEF SinkTypes
  <2>3. /\ Sending!Reached(S) \in [Sending!Row -> Nat]
        /\ \A r \in Sending!Row :
              /\ Sending!Reached(S)[r] <= taken[r] + (IF r \in S THEN 1 ELSE 0)
              /\ r \in S => Sending!Reached(S)[r] > 0
              /\ sink # "file" /\ taken[r] > 0 => Sending!Reached(S)[r] > 0
    BY <1>1, ReachedAtLeast DEF SinkTypes
  <2>4. \A r \in Sending!Row : taken[r] \in Nat /\ taken'[r] \in Nat
    BY <1>1, <2>1, <2>3 DEF SinkTypes
  <2> QED BY <2>1, <2>2, <2>3, <2>4
<1> HIDE DEF done, before, more, further
<1>7. \A r \in Sending!Row : taken[r] \in Nat /\ taken'[r] \in Nat /\ (r <= done => taken[r] > 0) /\ r > 0
  BY <1>1, <1>6 DEF SinkTypes, OnItsWay, Sending!Row, done
<1>8. \A r \in Sending!Row :
         /\ r <= done \/ (sink \in Sending!RowSinks /\ r \in Asked) => taken'[r] > 0
         /\ r <= done \/ r \in Asked => taken'[r] <= before + Times
         /\ r > done /\ r \notin Asked => taken'[r] <= before
  BY <1>2, <1>6, <1>7
<1>13. more \/ further => sink \in Sending!RowSinks
  <2>1. more => PerRow
    BY <1>5
  <2>2. further => Sending!Split
    BY <1>1 DEF further, Sending!Batches, Placed
  <2>3. PerRow \/ Sending!Split => sink \in Sending!Batched
    BY DEF PerRow, Sending!Split, Sending!Batched, Sending!OverMcp
  <2> QED BY <2>1, <2>2, <2>3 DEF Sending!RowSinks
<1>9. SinkTypes'
  <2>1. answer' \in [ended : BOOLEAN, ok : BOOLEAN, retryable : BOOLEAN, sent : Nat]
    <3>1. [ended |-> TRUE, ok |-> TRUE, retryable |-> FALSE, sent |-> NumRows]
             \in [ended : BOOLEAN, ok : BOOLEAN, retryable : BOOLEAN, sent : Nat]
      BY DEF SinksAssumed
    <3>2. answer \in [ended : BOOLEAN, ok : BOOLEAN, retryable : BOOLEAN, sent : Nat]
      BY <1>1 DEF SinkTypes
    <3> QED BY <1>3, <3>1, <3>2
  <2>2. second' \in BOOLEAN
    BY <1>3
  <2> QED BY <1>1, <1>3, <1>4, <1>6, <2>1, <2>2 DEF SinkTypes, Sending!Kinds, Sending!RowSinks, Sending!Files, Sending!Objects, Sending!Mails, Sending!Batched,
                                                             Sending!OverMcp
<1>10. CASE more
  <2>1. Placed'
    <3>1. call + 1 <= Sending!Calls(batch) /\ call + 1 \in Nat \ {0}
      BY <1>1, <1>10, CallsAreFinite DEF more, Placed, SinksAssumed, SinkTypes
    <3> QED BY <1>1, <1>3, <1>4, <1>5, <1>10, <3>1 DEF Placed
  <2>2. UpToCall(batch, call)' = done + 1 /\ Asked = {done + 1}
    BY <1>3, <1>4, <1>5, <1>10
  <2>3. OnItsWay'
    <3>1. \A r \in Sending!Row : r <= done + 1 <=> r <= done \/ r \in Asked
      BY <1>2, <2>2
    <3>2. \A r \in Sending!Row : taken'[r] <= before + (IF r <= done + 1 THEN Times ELSE 0)
      BY <1>2, <1>8, <3>1, <1>7
    <3>3. \A r \in Sending!Row : r <= done + 1 => taken'[r] > 0
      BY <1>8, <1>10, <1>13, <3>1
    <3>4. before = (attempts' - 1) * Times'
      BY <1>3, <1>4 DEF before
    <3> HIDE DEF before
    <3> QED BY <1>1, <1>3, <1>4, <1>10, <2>2, <3>2, <3>3, <3>4 DEF OnItsWay
  <2> QED BY <1>1, <1>3, <1>9, <1>10, <2>1, <2>3 DEF SinksInv
<1>11. CASE ~more /\ further
  <2>1. Placed'
    <3>1. batch + 1 <= Sending!Batches /\ batch + 1 \in Nat \ {0}
      <4>1. Sending!Batches \in Nat
        BY <1>1, BatchesAreFinite DEF SinksAssumed, SinkTypes
      <4> QED BY <1>1, <1>11, <4>1 DEF further, Placed
    <3> QED BY <1>3, <1>4, <1>11, <3>1 DEF Placed
  <2>2. UpToCall(batch, call)' = UpToCall(batch + 1, 1)
    BY <1>3, <1>4, <1>11
  <2> DEFINE then == UpToCall(batch + 1, 1)
  <2>3. OnItsWay'
    <3>1. then \in Nat /\ \A r \in Sending!Row : r <= then <=> r <= done \/ r \in Asked
      BY <1>2, <1>5, <1>11
    <3> QED BY <1>1, <1>2, <1>3, <1>4, <1>8, <1>11, <1>13, <2>2, <3>1 DEF OnItsWay, before
  <2> QED BY <1>1, <1>3, <1>9, <1>11, <2>1, <2>3 DEF SinksInv
<1>12. CASE ~more /\ ~further
  <2>1. Placed'
    BY <1>1, <1>3, <1>4, <1>12 DEF Placed
  <2>2. \A r \in Sending!Row : r <= done \/ r \in Asked
    BY <1>2, <1>5, <1>12
  <2>3. \A r \in Sending!Row : /\ sink \in Sending!RowSinks => taken'[r] > 0
                              /\ taken'[r] <= attempts * Times
    BY <1>2, <1>8, <2>2
  <2>4. Sending!SinkTellsTruth'
    <3>1. answer'.sent = NumRows /\ 1..NumRows = Sending!Row
      BY <1>3, <1>12 DEF Sending!Row
    <3> QED BY <1>3, <1>4, <2>3, <3>1 DEF Sending!SinkTellsTruth, Times
  <2> QED BY <1>3, <1>9, <1>12, <2>1, <2>4 DEF SinksInv
<1> QED BY <1>10, <1>11, <1>12

\* What is counted as sent got through.
LEMMA RowsSentGotThrough ==
    ASSUME SinksAssumed, SinksInv
    PROVE  Sending!RowsSent \in Nat /\ Sending!RowsSent <= UpToCall(batch, call) /\ UpToCall(batch, call) <= NumRows
<1> DEFINE lo == Sending!RowsBefore(batch)
           done == UpToCall(batch, call)
<1>1. SinkTypes /\ Placed
  BY DEF SinksInv
<1>2. done \in Nat /\ done <= NumRows /\ lo <= done
  BY <1>1, RowsOfCallIs DEF SinksAssumed, SinkTypes
<1>3. lo \in Nat
  BY <1>1, RowsOfBatch DEF SinksAssumed, SinkTypes, Placed
<1>4. call - 1 \in Nat /\ call - 1 <= done
  <2>1. done = lo + (IF PerRow THEN call - 1 ELSE 0) /\ call \in Nat \ {0} /\ (call = 1 \/ PerRow)
    BY <1>1 DEF UpToCall, Placed
  <2> HIDE DEF lo, done
  <2> QED BY <1>2, <1>3, <2>1
<1>5. Sending!RowsDone(call) = call - 1 \/ Sending!RowsDone(call) = 0
  BY DEF Sending!RowsDone
<1>6. Sending!RowsSent = lo \/ Sending!RowsSent = Sending!RowsDone(call) \/ Sending!RowsSent = 0
  BY DEF Sending!RowsSent
<1> HIDE DEF lo, done
<1> QED BY <1>2, <1>3, <1>4, <1>5, <1>6 DEF done

LEMMA FailsKeeps ==
    ASSUME SinksAssumed, SinksInv, NEW reply \in Sending!Replies, Sending!Fails(reply)
    PROVE  SinksInv'
<1> DEFINE done == UpToCall(batch, call)
           before == (attempts - 1) * Times
<1>1. SinkTypes /\ Placed /\ OnItsWay /\ ~answer.ended
  BY DEF SinksInv, Sending!Fails
<1>2. /\ Times \in {1, 2} /\ (second => Times = 2) /\ done \in Nat /\ before \in Nat
      /\ attempts * Times = before + Times /\ (sink = "file" => done = 0)
      /\ \A r \in Sending!Row :
            /\ r \in Nat /\ r <= NumRows
            /\ r \in Asked => r > done /\ taken[r] <= before + (IF second THEN 1 ELSE 0)
            /\ r <= done => taken[r] <= before + Times
            /\ r > done /\ r \notin Asked => taken[r] <= before
  BY <1>1, CallCounts
<1>3. /\ UNCHANGED <<sink, size, toolRetry>>
      /\ \/ /\ second' = TRUE /\ sink \in Sending!OverMcp /\ ~second
            /\ UNCHANGED <<attempts, batch, call, answer>>
         \/ /\ second' = FALSE /\ attempts' = attempts + 1 /\ batch' = 1 /\ call' = 1 /\ answer' = answer
         \/ /\ second' = FALSE /\ UNCHANGED <<attempts, batch, call>>
            /\ answer' = [ended |-> TRUE, ok |-> FALSE, retryable |-> Sending!Retryable(reply),
                          sent |-> Sending!RowsSent]
  BY DEF Sending!Fails, Sending!TriesAgain, Sending!Failed
<1>4. /\ UpToCall(batch, call)' = UpToCall(batch', call') /\ Asked' = Sending!RowsOfCall(batch', call')
      /\ Sending!Batches' = Sending!Batches /\ Sending!Calls(batch)' = Sending!Calls(batch')
      /\ Times' = Times /\ PerRow' = PerRow /\ Sending!Row' = Sending!Row
  BY <1>3, SinkStays DEF Sending!Row
<1>5. /\ taken' \in [Sending!Row -> Nat]
      /\ \A r \in Sending!Row :
            /\ taken'[r] <= taken[r] + (IF r \in Asked THEN 1 ELSE 0)
            /\ sink # "file" /\ taken[r] > 0 => taken'[r] > 0
  <2>1. taken \in [Sending!Row -> Nat]
    BY <1>1 DEF SinkTypes
  <2>2. PICK S \in Sending!Taken(reply) :
           taken' = IF reply \in {"unfit", "refused", "raises"} THEN taken ELSE Sending!Reached(S)
    BY DEF Sending!Fails
  <2>3. CASE reply \in {"unfit", "refused", "raises"}
    <3>1. taken' = taken
      BY <2>2, <2>3
    <3>2. \A r \in Sending!Row : taken[r] \in Nat
      BY <2>1
    <3> QED BY <2>1, <3>1, <3>2
  <2>4. CASE reply \in {"busy", "lost"}
    <3>1. taken' = Sending!Reached(S) /\ S \subseteq Asked
      <4>1. reply \notin {"unfit", "refused", "raises"}
        BY <2>4
      <4>2. sink \in Sending!Kinds
        BY <1>1 DEF SinkTypes
      <4> QED BY <2>2, <2>4, <4>1, <4>2, TakenIsAsked
    <3>2. /\ Sending!Reached(S) \in [Sending!Row -> Nat]
          /\ \A r \in Sending!Row :
                 /\ Sending!Reached(S)[r] <= taken[r] + (IF r \in S THEN 1 ELSE 0)
                 /\ sink # "file" /\ taken[r] > 0 => Sending!Reached(S)[r] > 0
      BY <2>1, ReachedAtLeast
    <3>3. \A r \in Sending!Row : taken[r] \in Nat /\ taken'[r] \in Nat
      BY <2>1, <3>1, <3>2
    <3> QED BY <3>1, <3>2, <3>3
  <2> QED BY <2>3, <2>4 DEF Sending!Replies
<1>6. \A r \in Sending!Row : taken[r] \in Nat /\ taken'[r] \in Nat /\ (r <= done => taken[r] > 0) /\ r > 0
  BY <1>1, <1>5 DEF SinkTypes, OnItsWay, Sending!Row
<1> HIDE DEF done, before
<1>7. \A r \in Sending!Row :
         /\ taken'[r] <= before + Times
         /\ r <= done => taken'[r] > 0
         /\ r > done /\ r \notin Asked => taken'[r] <= before
         /\ ~second /\ r \in Asked => taken'[r] <= before + 1
  BY <1>2, <1>5, <1>6
<1>8. /\ Sending!RowsSent \in Nat /\ Sending!RowsSent <= done /\ done <= NumRows
  BY RowsSentGotThrough DEF done
<1>9. ASSUME answer' = answer \/ answer' = [ended |-> TRUE, ok |-> FALSE,
                 retryable |-> Sending!Retryable(reply), sent |-> Sending!RowsSent],
             attempts' = attempts \/ attempts' = attempts + 1, second' = TRUE \/ second' = FALSE
      PROVE  SinkTypes'
  <2>1. answer' \in [ended : BOOLEAN, ok : BOOLEAN, retryable : BOOLEAN, sent : Nat]
    <3>1. Sending!Retryable(reply) \in BOOLEAN
      BY DEF Sending!Retryable
    <3>2. answer \in [ended : BOOLEAN, ok : BOOLEAN, retryable : BOOLEAN, sent : Nat]
      BY <1>1 DEF SinkTypes
    <3> DEFINE again == Sending!Retryable(reply)
               rows == Sending!RowsSent
    <3> HIDE DEF again, rows
    <3>3. [ended |-> TRUE, ok |-> FALSE, retryable |-> again, sent |-> rows]
             \in [ended : BOOLEAN, ok : BOOLEAN, retryable : BOOLEAN, sent : Nat]
      BY <1>8, <3>1 DEF again, rows
    <3> QED BY <1>9, <3>2, <3>3 DEF again, rows
  <2>2. attempts' \in Nat \ {0}
    BY <1>1, <1>9 DEF SinkTypes
  <2>3. second' \in BOOLEAN
    BY <1>9, Zenon
  <2> QED BY <1>1, <1>3, <1>4, <1>5, <2>1, <2>2, <2>3 DEF SinkTypes, Sending!Kinds, Sending!RowSinks, Sending!Files, Sending!Objects, Sending!Mails, Sending!Batched,
                                                             Sending!OverMcp
<1>10. CASE second' = TRUE /\ sink \in Sending!OverMcp /\ ~second /\ UNCHANGED <<attempts, batch, call, answer>>
  <2>1. Placed'
    BY <1>1, <1>3, <1>4, <1>10 DEF Placed
  <2>2. UpToCall(batch, call)' = done /\ Asked' = Asked /\ before = (attempts' - 1) * Times'
    BY <1>4, <1>10 DEF done, before, Asked
  <2>3. \A r \in Sending!Row :
           taken'[r] <= before + (IF r <= done THEN Times ELSE IF r \in Asked THEN 1 ELSE 0)
    BY <1>2, <1>6, <1>7, <1>10
  <2>4. OnItsWay'
    BY <1>1, <1>3, <1>4, <1>7, <1>10, <2>2, <2>3 DEF OnItsWay, Sending!OverMcp
  <2> QED BY <1>1, <1>9, <1>10, <2>1, <2>4 DEF SinksInv
<1>11. CASE second' = FALSE /\ attempts' = attempts + 1 /\ batch' = 1 /\ call' = 1 /\ answer' = answer
  <2>1. Placed'
    <3>1. 1 <= Sending!Batches
      BY <1>1, BatchesAreFinite DEF SinksAssumed, SinkTypes, Placed
    <3> QED BY <1>4, <1>11, <3>1 DEF Placed
  <2>2. UpToCall(batch, call)' = 0
    BY <1>1, <1>4, <1>11, RowsOfCallIs DEF SinksAssumed, SinkTypes
  <2>3. (attempts' - 1) * Times' = before + Times
    <3>1. attempts' - 1 = attempts
      BY <1>1, <1>11 DEF SinkTypes
    <3> QED BY <1>2, <1>4, <3>1
  <2>4. \A r \in Sending!Row : ~(r <= 0)
    BY <1>2, <1>6
  <2>5. OnItsWay'
    <3>1. before + Times + 0 = before + Times
      BY <1>2
    <3> QED BY <1>1, <1>4, <1>7, <1>11, <2>2, <2>3, <2>4, <3>1 DEF OnItsWay
  <2> QED BY <1>1, <1>9, <1>11, <2>1, <2>5 DEF SinksInv
<1>12. CASE /\ second' = FALSE /\ UNCHANGED <<attempts, batch, call>>
            /\ answer' = [ended |-> TRUE, ok |-> FALSE, retryable |-> Sending!Retryable(reply),
                          sent |-> Sending!RowsSent]
  <2>1. Placed'
    BY <1>1, <1>3, <1>4, <1>12 DEF Placed
  <2>2. answer'.ended /\ ~answer'.ok /\ answer'.sent = Sending!RowsSent
    BY <1>12
  <2>3. \A r \in 1..Sending!RowsSent : r \in Sending!Row /\ r <= done
    BY <1>2, <1>8 DEF Sending!Row, SinksAssumed
  <2>4. Sending!SinkTellsTruth'
    BY <1>2, <1>4, <1>7, <1>12, <2>2, <2>3 DEF Sending!SinkTellsTruth, Times
  <2> QED BY <1>9, <1>12, <2>1, <2>2, <2>4 DEF SinksInv
<1> QED BY <1>3, <1>10, <1>11, <1>12

LEMMA SinksStep == SinksAssumed /\ SinksInv /\ [Sending!SinksNext]_sending => SinksInv'
<1> SUFFICES ASSUME SinksAssumed, SinksInv, [Sending!SinksNext]_sending PROVE SinksInv'
  OBVIOUS
<1>1. CASE Sending!SinksNext
  BY <1>1, AcceptedKeeps, FailsKeeps DEF Sending!SinksNext
<1>2. CASE UNCHANGED sending
  <2>1. UNCHANGED <<sink, toolRetry, size, batch, call, second, attempts, taken, answer>>
    BY <1>2 DEF sending
  <2>2. /\ UpToCall(batch, call)' = UpToCall(batch, call) /\ Asked' = Asked /\ Times' = Times
        /\ Sending!Batches' = Sending!Batches /\ Sending!Calls(batch)' = Sending!Calls(batch) /\ PerRow' = PerRow
    BY <2>1, SinkStays DEF Asked
  <2> QED BY <2>1, <2>2 DEF SinksInv, SinkTypes, Placed, OnItsWay, Sending!SinkTellsTruth, Sending!OverMcp,
                           Sending!Kinds, Sending!Batched, Sending!Row
<1> QED BY <1>1, <1>2

LEMMA SampledMappings ==
    ASSUME NEW mapping \in Mappings
    PROVE  \E V : mapping.flat \in Seq(Path \X V)
<1>1. PICK paths \in UpTo(3, Paths) :
          mapping = [of |-> "mapping", flat |-> [i \in DOMAIN paths |-> <<paths[i], ToString(i)>>]]
  BY DEF Mappings
<1> DEFINE n == Len(paths)
           V == {ToString(i) : i \in 1..n}
           flat == [i \in 1..n |-> <<paths[i], ToString(i)>>]
<1>2. paths \in Seq(Paths) /\ n \in Nat /\ DOMAIN paths = 1..n
  <2>1. paths \in UpTo(3, Paths)
    BY <1>1
  <2>2. paths \in Seq(Paths)
    BY <2>1, UpToIsSeq
  <2> QED BY <2>2
<1>3. \A p \in Paths : p \in Path
  <2>1. <<11>> \in Path /\ <<10>> \in Path
    BY DEF Path
  <2>2. ASSUME NEW rest \in UpTo(2, {0, 2, 10, 11}) PROVE <<10>> \o rest \in Path
    <3>1. rest \in Seq({0, 2, 10, 11})
      BY UpToIsSeq
    <3>2. rest \in Path
      BY <3>1 DEF Path
    <3> QED BY <2>1, <3>2 DEF Path
  <2> QED BY <2>1, <2>2 DEF Paths
<1>4. \A i \in 1..n : paths[i] \in Path /\ ToString(i) \in V
  BY <1>2, <1>3
<1> HIDE DEF n, V
<1>5. flat \in Seq(Path \X V)
  BY <1>2, <1>4
<1>6. mapping.flat = flat
  BY <1>1, <1>2
<1> QED BY <1>5, <1>6

\* delivery/base.py, sinks and mapping.py: however many rows, whatever the batch size and
\* however many attempts, a row that is counted as sent to a sink for rows was taken
\* there, and no sink is sent one more often than the attempts explain; and a mapping of
\* any length, with paths of any depth, arrives as it was written.
THEOREM SinksTellTheTruth ==
    /\ \A V : \A flat \in Seq(Path \X V) : Payloads!PayloadKeepsPaths(flat)
    /\ SinksAssumed /\ Sending!SinksSpec => []Sending!SinkTellsTruth
    /\ SinksAssumed /\ ServicesSpec => []SinkTellsTruth
<1>1. \A V : \A flat \in Seq(Path \X V) : Payloads!PayloadKeepsPaths(flat)
  BY PathsAreKept
<1>2. SinksAssumed /\ Sending!SinksSpec => []Sending!SinkTellsTruth
  <2> SUFFICES ASSUME SinksAssumed PROVE Sending!SinksSpec => []Sending!SinkTellsTruth
    OBVIOUS
  <2>1. Sending!SinksInit => SinksInv
    BY SinksBegin
  <2>2. SinksInv /\ [Sending!SinksNext]_sending => SinksInv'
    BY SinksStep
  <2>3. SinksInv => Sending!SinkTellsTruth
    BY SinksInvTells
  <2>4. [Sending!SinksNext]_Sending!sending => [Sending!SinksNext]_sending
    BY DEF sending, Sending!sending
  <2> QED BY <2>1, <2>2, <2>3, <2>4, PTL DEF Sending!SinksSpec
<1>3. SinksAssumed /\ ServicesSpec => []SinkTellsTruth
  <2> SUFFICES ASSUME SinksAssumed PROVE ServicesSpec => []SinkTellsTruth
    OBVIOUS
  <2>1. ServicesInit => SinksInv
    BY SinksBegin DEF ServicesInit
  <2>2. SinksInv /\ [ServicesNext]_services => SinksInv'
    <3>1. [ServicesNext]_services => [Sending!SinksNext]_sending
      BY DEF ServicesNext, services
    <3> QED BY <3>1, SinksStep
  <2>3. ASSUME SinksInv, Sampled PROVE SinkTellsTruth
    <3>1. Sending!SinkTellsTruth
      BY <2>3, SinksInvTells
    <3>2. ASSUME sample.of = "mapping" PROVE Payloads!PayloadKeepsPaths(sample.flat)
      <4>1. sample \in Mappings
        BY <2>3, <3>2, SampledByKind
      <4>2. \E V : sample.flat \in Seq(Path \X V)
        BY <4>1, SampledMappings
      <4> QED BY <1>1, <4>2
    <3> QED BY <3>1, <3>2 DEF SinkTellsTruth
  <2>4. SinksInv /\ Sampled => SinkTellsTruth
    BY <2>3
  <2> QED BY <2>1, <2>2, <2>4, SampleIsKept, PTL DEF ServicesSpec
<1> QED BY <1>1, <1>2, <1>3

-----------------------------------------------------------------------------
(***************************************************************************)
(* Answers.  What is read back: a client that pages, with pages of any     *)
(* size over any number of records, the freshness it is told, and the      *)
(* counts on the pages of the web UI over any history of runs.             *)
(***************************************************************************)

\* The rank of a record is how many are newer: among n records each number below n is
\* the rank of one.
LEMMA CardinalityOfAnswers == \A S : Answering!Cardinality(S) = Cardinality(S)
BY DEF Answering!Cardinality, Cardinality

\* How many come before i on the pages.
Rank(S, i) == Cardinality({j \in S : j > i})

LEMMA PartOfPlaces ==
    ASSUME NEW n \in Nat, NEW S, S \subseteq 1..n
    PROVE  IsFiniteSet(S) /\ Cardinality(S) \in Nat
<1>1. IsFiniteSet(1..n)
  <2>1. 1 \in Int /\ n \in Int
    OBVIOUS
  <2> QED BY <2>1, FS_Interval
<1> QED BY <1>1, FS_Subset, FS_CardinalityType

\* The ranks of n records are the numbers below n.
LEMMA RanksAre ==
    ASSUME NEW n \in Nat, NEW S, S \subseteq 1..n
    PROVE  /\ \A i \in S : Rank(S, i) \in 0..(Cardinality(S) - 1)
           /\ \A i, j \in S : i # j => Rank(S, i) # Rank(S, j)
<1>0. IsFiniteSet(S) /\ Cardinality(S) \in Nat
  BY PartOfPlaces
<1>1. ASSUME NEW i \in S PROVE Rank(S, i) \in Nat /\ Rank(S, i) < Cardinality(S)
  <2> DEFINE later == {j \in S : j > i}
  <2>1. later \subseteq S /\ i \notin later
    OBVIOUS
  <2> HIDE DEF later
  <2>2. IsFiniteSet(later) /\ Cardinality(later) \in Nat /\ Cardinality(later) <= Cardinality(S)
    BY <1>0, <2>1, FS_Subset, FS_CardinalityType
  <2>3. Cardinality(later) # Cardinality(S)
    BY <1>0, <2>1, FS_Subset
  <2>4. Cardinality(later) < Cardinality(S)
    BY <1>0, <2>2, <2>3
  <2> QED BY <2>2, <2>4 DEF Rank, later
<1>2. ASSUME NEW i \in S, NEW j \in S, i < j PROVE Rank(S, j) < Rank(S, i)
  <2> DEFINE after == {k \in S : k > j}
             more == {k \in S : k > i}
  <2>1. after \subseteq more /\ more \subseteq S /\ j \in more /\ j \notin after
    <3>1. \A k \in S : k \in Nat
      OBVIOUS
    <3>2. \A k \in S : k > j => k > i
      BY <1>2, <3>1
    <3>3. i \in Nat /\ j \in Nat /\ j > i /\ ~(j > j)
      BY <1>2, <3>1
    <3> QED BY <3>2, <3>3
  <2> HIDE DEF after, more
  <2>2. IsFiniteSet(more)
    BY <1>0, <2>1, FS_Subset
  <2>3. Cardinality(after) <= Cardinality(more) /\ Cardinality(after) # Cardinality(more) /\ IsFiniteSet(after)
    BY <2>1, <2>2, FS_Subset
  <2>4. Cardinality(after) \in Nat /\ Cardinality(more) \in Nat
    BY <2>2, <2>3, FS_CardinalityType
  <2>5. Cardinality(after) < Cardinality(more)
    BY <2>3, <2>4
  <2> QED BY <2>5 DEF Rank, after, more
<1>3. ASSUME NEW i \in S, NEW j \in S, i # j PROVE Rank(S, i) # Rank(S, j)
  <2>1. i < j \/ j < i
    BY <1>3
  <2>2. Rank(S, i) \in Nat /\ Rank(S, j) \in Nat
    BY <1>1
  <2> QED BY <1>2, <2>1, <2>2
<1>4. ASSUME NEW i \in S PROVE Rank(S, i) \in 0..(Cardinality(S) - 1)
  BY <1>0, <1>1
<1> QED BY <1>3, <1>4

\* Each number below n is the rank of one of them.
LEMMA EachRankIsTaken ==
    ASSUME NEW n \in Nat, NEW S, S \subseteq 1..n, NEW r \in 0..(Cardinality(S) - 1)
    PROVE  \E i \in S : Rank(S, i) = r
<1> DEFINE m == Cardinality(S)
           f == [i \in S |-> Rank(S, i)]
           ranks == {Rank(S, i) : i \in S}
<1>0. IsFiniteSet(S) /\ m \in Nat
  BY PartOfPlaces
<1>1. ranks \subseteq 0..(m - 1)
  BY RanksAre
<1>2. f \in Injection(S, ranks) /\ f \in Surjection(S, ranks)
  <2>1. f \in [S -> ranks]
    OBVIOUS
  <2>2. \A a, b \in S : f[a] = f[b] => a = b
    BY RanksAre
  <2>3. \A t \in ranks : \E s \in S : f[s] = t
    OBVIOUS
  <2> HIDE DEF f, ranks
  <2> QED BY <2>1, <2>2, <2>3 DEF Injection, Surjection, IsInjective
<1>3. f \in Bijection(S, ranks)
  BY <1>2 DEF Bijection
<1> HIDE DEF f, ranks
<1>4. Cardinality(ranks) = m /\ IsFiniteSet(ranks)
  BY <1>0, <1>3, FS_Bijection DEF ExistsBijection
<1>5. Cardinality(0..(m - 1)) = m /\ IsFiniteSet(0..(m - 1))
  <2>1. 0 \in Int /\ m - 1 \in Int
    BY <1>0
  <2>2. Cardinality(0..(m - 1)) = IF 0 > m - 1 THEN 0 ELSE (m - 1) - 0 + 1
    BY <2>1, FS_Interval
  <2>3. IsFiniteSet(0..(m - 1))
    BY <2>1, FS_Interval
  <2> QED BY <1>0, <2>2, <2>3
<1>6. ranks = 0..(m - 1)
  <2> DEFINE I == 0..(m - 1)
  <2>1. ranks \subseteq I /\ IsFiniteSet(I) /\ Cardinality(ranks) = Cardinality(I)
    BY <1>1, <1>4, <1>5
  <2> HIDE DEF I
  <2>2. ranks = I
    BY <2>1, FS_Subset
  <2> QED BY <2>2 DEF I
<1>7. r \in ranks
  BY <1>6
<1> QED BY <1>7 DEF ranks

LEMMA PageIs ==
    ASSUME NEW S, NEW from, NEW upto
    PROVE  \A j : j \in Answering!PageTo(S, from, upto) <=> j \in S /\ Rank(S, j) \in from..(upto - 1)
BY CardinalityOfAnswers DEF Answering!PageTo, Rank

\* A page that is not full is the last one.
LEMMA ShortPageIsLast ==
    ASSUME NEW n \in Nat, NEW S, S \subseteq 1..n, NEW from \in Nat, Limit \in Nat,
           Cardinality(Answering!PageTo(S, from, from + Limit)) # Limit
    PROVE  \A i \in S : Rank(S, i) < from + Limit
<1> SUFFICES ASSUME NEW i \in S, ~(Rank(S, i) < from + Limit) PROVE FALSE
  OBVIOUS
<1> DEFINE shown == {j \in S : Rank(S, j) \in from..(from + Limit - 1)}
           places == from..(from + Limit - 1)
           f == [j \in shown |-> Rank(S, j)]
<1>1. Answering!PageTo(S, from, from + Limit) = shown
  BY PageIs
<1>2. Cardinality(S) \in Nat /\ Rank(S, i) \in 0..(Cardinality(S) - 1)
  BY PartOfPlaces, RanksAre
<1>3. ASSUME NEW r \in places PROVE \E j \in shown : f[j] = r
  <2>1. r \in 0..(Cardinality(S) - 1)
    BY <1>2
  <2>2. PICK j \in S : Rank(S, j) = r
    BY <2>1, EachRankIsTaken
  <2> QED BY <2>2
<1>4. f \in [shown -> places]
  OBVIOUS
<1>5. \A a, b \in shown : f[a] = f[b] => a = b
  BY RanksAre
<1> HIDE DEF f, shown, places
<1>6. f \in Bijection(shown, places)
  BY <1>3, <1>4, <1>5 DEF Bijection, Injection, Surjection, IsInjective
<1>7. IsFiniteSet(places) /\ Cardinality(places) = Limit
  <2>1. from \in Int /\ from + Limit - 1 \in Int
    OBVIOUS
  <2>2. Cardinality(places) = IF from > from + Limit - 1 THEN 0 ELSE (from + Limit - 1) - from + 1
    BY <2>1, FS_Interval DEF places
  <2>3. IsFiniteSet(places)
    BY <2>1, FS_Interval DEF places
  <2> QED BY <2>2, <2>3
<1>8. shown \subseteq 1..n
  BY DEF shown
<1>9. Cardinality(shown) = Cardinality(places)
  <2>1. IsFiniteSet(shown)
    BY <1>8, PartOfPlaces
  <2> QED BY <1>6, <2>1, FS_Bijection DEF ExistsBijection
<1> QED BY <1>1, <1>7, <1>9

\* What is recorded later comes before.
LEMMA RankGrows ==
    ASSUME NEW n \in Nat, NEW T, T \subseteq 1..n, NEW S, S \subseteq T, NEW i
    PROVE  Rank(S, i) \in Nat /\ Rank(T, i) \in Nat /\ Rank(S, i) <= Rank(T, i)
<1> DEFINE s == {j \in S : j > i}
           t == {j \in T : j > i}
<1>1. s \subseteq t /\ t \subseteq 1..n /\ s \subseteq 1..n
  OBVIOUS
<1> HIDE DEF s, t
<1>2. IsFiniteSet(t) /\ Cardinality(t) \in Nat /\ Cardinality(s) \in Nat
  BY <1>1, PartOfPlaces
<1>3. Cardinality(s) <= Cardinality(t)
  BY <1>1, <1>2, FS_Subset
<1> QED BY <1>2, <1>3 DEF Rank, s, t

-----------------------------------------------------------------------------
(***************************************************************************)
(* The client that pages.                                                  *)
(***************************************************************************)
Stored == [run : Nat, wanted : BOOLEAN]
Steps == {"begin", "rows", "clean", "last", "answer"}

\* The types that the steps rely on; runs are only added.
AnswerTypes ==
    /\ runs \in Seq(Answering!Status) /\ records \in Seq(Stored)
    /\ step \in Steps /\ offset \in Nat \cup {-1}
    /\ target \in Int /\ target <= Len(runs)
    /\ passed \subseteq 1..Len(runs) /\ last \in Nat
    /\ IsFiniteSet(targets)

\* While its pages are about one target, the client has what it saw as it began up to
\* the offset, counted from the newest record there is by now.
SameTarget == targets # {} /\ \A t \in targets : t = target
Paged ==
    /\ targets = {} => step = "begin" /\ offset = 0
    /\ targets # {} => target \in targets
    /\ step \in {"begin", "rows"} => offset # -1
    /\ SameTarget =>
          /\ seen \subseteq Answering!Matches(target)
          /\ \A i \in seen : offset = -1 \/ Rank(Answering!Matches(target), i) < offset => i \in got
    /\ step = "answer" /\ tool # "search" => target <= last

AnswersInv == AnswerTypes /\ Paged

-----------------------------------------------------------------------------
LEMMA MatchesAre ==
    ASSUME records \in Seq(Stored)
    PROVE  /\ Len(records) \in Nat
           /\ \A t : Answering!Matches(t) = {i \in 1..Len(records) : records[i].wanted /\ (t = 0 \/ records[i].run = t)}
           /\ \A t : Answering!Matches(t) \subseteq 1..Len(records)
BY DEF Answering!Matches

\* Records are only added: what matched still does, and ranks grow.
LEMMA MatchesGrow ==
    ASSUME records \in Seq(Stored), records' \in Seq(Stored), Len(records) <= Len(records'),
           \A i \in 1..Len(records) : records'[i] = records[i], NEW t
    PROVE  /\ Answering!Matches(t) \subseteq Answering!Matches(t)'
           /\ \A i : Rank(Answering!Matches(t), i) \in Nat /\ Rank(Answering!Matches(t)', i) \in Nat
                     /\ Rank(Answering!Matches(t), i) <= Rank(Answering!Matches(t)', i)
<1> DEFINE S == Answering!Matches(t)
           T == Answering!Matches(t)'
<1>1. S = {i \in 1..Len(records) : records[i].wanted /\ (t = 0 \/ records[i].run = t)} /\ Len(records) \in Nat
  BY MatchesAre
<1>2. T = {i \in 1..Len(records') : records'[i].wanted /\ (t = 0 \/ records'[i].run = t)} /\ Len(records') \in Nat
  BY DEF Answering!Matches
<1> HIDE DEF S, T
<1>3. S \subseteq T /\ T \subseteq 1..Len(records')
  BY <1>1, <1>2
<1>4. \A i : Rank(S, i) \in Nat /\ Rank(T, i) \in Nat /\ Rank(S, i) <= Rank(T, i)
  BY <1>2, <1>3, RankGrows
<1> QED BY <1>3, <1>4 DEF S, T

LEMMA AnswersBegin == Limit \in Nat /\ Answering!AnswersInit => AnswersInv
<1> SUFFICES ASSUME Answering!AnswersInit PROVE AnswersInv
  OBVIOUS
<1>1. /\ runs = <<>> /\ records = <<>> /\ step = "begin" /\ offset = 0 /\ target = 0 /\ targets = {}
      /\ passed = {} /\ last = 0
  BY DEF Answering!AnswersInit
<1>2. AnswerTypes
  <2>1. runs \in Seq(Answering!Status) /\ records \in Seq(Stored) /\ Len(runs) = 0
    BY <1>1
  <2>2. IsFiniteSet(targets)
    BY <1>1, FS_EmptySet
  <2> QED BY <1>1, <2>1, <2>2 DEF AnswerTypes, Steps
<1>3. Paged
  BY <1>1 DEF Paged, SameTarget
<1> QED BY <1>2, <1>3 DEF AnswersInv

\* The runs go on, and the client does nothing.
LEMMA RunsGoOn ==
    ASSUME AnswersInv, UNCHANGED Answering!client, runs' \in Seq(Answering!Status), Len(runs) <= Len(runs'),
           records' \in Seq(Stored), Len(records) <= Len(records'),
           \A i \in 1..Len(records) : records'[i] = records[i]
    PROVE  AnswersInv'
<1>1. UNCHANGED <<tool, step, offset, target, got, seen, targets, passed, last>>
  BY DEF Answering!client
<1>2. AnswerTypes /\ Paged
  BY DEF AnswersInv
<1>3. AnswerTypes'
  <2>1. Len(runs) \in Nat /\ Len(runs') \in Nat /\ 1..Len(runs) \subseteq 1..Len(runs')
    BY <1>2 DEF AnswerTypes
  <2>2. target' \in Int /\ target' <= Len(runs')
    BY <1>1, <1>2, <2>1 DEF AnswerTypes
  <2> QED BY <1>1, <1>2, <2>1, <2>2 DEF AnswerTypes
<1>4. SameTarget' <=> SameTarget
  BY <1>1 DEF SameTarget
<1>0. PICK t : t = target
  OBVIOUS
<1> DEFINE S == Answering!Matches(t)
           T == Answering!Matches(t)'
<1>5. S \subseteq T /\ \A i : Rank(S, i) \in Nat /\ Rank(T, i) \in Nat /\ Rank(S, i) <= Rank(T, i)
  <2>1. records \in Seq(Stored)
    BY <1>2 DEF AnswerTypes
  <2> QED BY <2>1, MatchesGrow
<1>8. S = Answering!Matches(target) /\ T = Answering!Matches(target)'
  BY <1>0, <1>1 DEF Answering!Matches
<1> HIDE DEF S, T
<1>6. ASSUME SameTarget
      PROVE  seen \subseteq T /\ \A i \in seen : offset = -1 \/ Rank(T, i) < offset => i \in got
  <2>1. seen \subseteq S /\ \A i \in seen : offset = -1 \/ Rank(S, i) < offset => i \in got
    BY <1>2, <1>6, <1>8 DEF Paged
  <2>2. offset \in Nat \cup {-1}
    BY <1>2 DEF AnswerTypes
  <2>3. ASSUME NEW i \in seen, Rank(T, i) < offset, offset # -1 PROVE Rank(S, i) < offset
    BY <1>5, <2>2, <2>3
  <2> QED BY <1>5, <2>1, <2>3
<1>7. Paged'
  BY <1>1, <1>2, <1>4, <1>6, <1>8 DEF Paged
<1> QED BY <1>3, <1>7 DEF AnswersInv

LEMMA QueueKeeps == ASSUME AnswersInv, Answering!Queue PROVE AnswersInv'
<1>1. runs \in Seq(Answering!Status) /\ records \in Seq(Stored)
  BY DEF AnswersInv, AnswerTypes
<1>2. runs' = Append(runs, "queued") /\ records' = records /\ UNCHANGED Answering!client
  BY DEF Answering!Queue, Answering!client
<1>3. "queued" \in Answering!Status
  BY DEF Answering!Status
<1>4. runs' \in Seq(Answering!Status) /\ Len(runs) <= Len(runs')
  BY <1>1, <1>2, <1>3
<1>5. Len(records) <= Len(records') /\ \A i \in 1..Len(records) : records'[i] = records[i]
  BY <1>1, <1>2
<1> QED BY <1>1, <1>2, <1>4, <1>5, RunsGoOn

LEMMA OutcomeKeeps ==
    ASSUME AnswersInv, NEW r \in DOMAIN runs, NEW status \in Answering!Status, NEW n \in Nat,
           NEW rows \in [1..n -> BOOLEAN], Answering!Outcome(r, status, rows)
    PROVE  AnswersInv'
<1>1. runs \in Seq(Answering!Status) /\ records \in Seq(Stored) /\ r \in Nat /\ r \in 1..Len(runs)
  BY DEF AnswersInv, AnswerTypes
<1> DEFINE more == [i \in 1..n |-> [run |-> r, wanted |-> rows[i]]]
<1>2. runs' = [runs EXCEPT ![r] = status] /\ records' = records \o more /\ UNCHANGED Answering!client
  BY DEF Answering!Outcome, Answering!client
<1>3. more \in Seq(Stored)
  <2>1. ASSUME NEW i \in 1..n PROVE [run |-> r, wanted |-> rows[i]] \in Stored
    <3>1. rows[i] \in BOOLEAN
      BY Zenon
    <3> QED BY <1>1, <3>1, Zenon DEF Stored
  <2> QED BY <2>1
<1> HIDE DEF more
<1>4. records' \in Seq(Stored) /\ Len(records) <= Len(records') /\ \A i \in 1..Len(records) : records'[i] = records[i]
  BY <1>1, <1>2, <1>3
<1>5. runs' \in Seq(Answering!Status) /\ Len(runs) <= Len(runs')
  BY <1>1, <1>2
<1> QED BY <1>2, <1>4, <1>5, RunsGoOn

LEMMA RejudgeKeeps == ASSUME AnswersInv, NEW r \in DOMAIN runs, Answering!Rejudge(r) PROVE AnswersInv'
<1>1. runs \in Seq(Answering!Status) /\ records \in Seq(Stored) /\ r \in 1..Len(runs)
  BY DEF AnswersInv, AnswerTypes
<1>2. PICK status \in {"passed", "validation_failed"} :
          runs' = [runs EXCEPT ![r] = status] /\ records' = records /\ UNCHANGED Answering!client
  BY DEF Answering!Rejudge, Answering!client
<1>3. status \in Answering!Status
  BY DEF Answering!Status
<1>4. runs' \in Seq(Answering!Status) /\ Len(runs) <= Len(runs')
  BY <1>1, <1>2, <1>3
<1>5. Len(records) <= Len(records') /\ \A i \in 1..Len(records) : records'[i] = records[i]
  BY <1>1, <1>2
<1> QED BY <1>1, <1>2, <1>4, <1>5, RunsGoOn

LEMMA ReadTargetKeeps == ASSUME AnswersInv, Answering!ReadTarget PROVE AnswersInv'
<1>1. /\ step = "begin" /\ targets' = targets \cup {target'} /\ step' \in {"clean", "rows"}
      /\ target' = IF tool \in {"latest", "list"} THEN IF runs = <<>> THEN -1 ELSE Len(runs) ELSE 0
      /\ seen' = IF targets = {} THEN Answering!Matches(target') ELSE seen
      /\ UNCHANGED <<runs, records, tool, offset, got, passed, last>>
  BY DEF Answering!ReadTarget
<1>2. AnswerTypes /\ Paged
  BY DEF AnswersInv
<1>3. AnswerTypes'
  <2>1. target' \in Int /\ target' <= Len(runs)
    BY <1>1, <1>2 DEF AnswerTypes
  <2>2. IsFiniteSet(targets')
    BY <1>1, <1>2, FS_AddElement DEF AnswerTypes
  <2>3. step' \in Steps
    BY <1>1 DEF Steps
  <2> QED BY <1>1, <1>2, <2>1, <2>2, <2>3 DEF AnswerTypes
<1>4. target' \in targets' /\ targets' # {} /\ offset \in Nat
  BY <1>1, <1>2 DEF Paged, AnswerTypes
<1>5. ASSUME SameTarget'
      PROVE  /\ seen' \subseteq Answering!Matches(target)'
             /\ \A i \in seen' : offset' = -1 \/ Rank(Answering!Matches(target)', i) < offset' => i \in got'
  <2>0. Answering!Matches(target)' = Answering!Matches(target')
    BY <1>1 DEF Answering!Matches
  <2>1. CASE targets = {}
    <3>1. seen' = Answering!Matches(target') /\ offset' = 0
      BY <1>1, <1>2, <2>1 DEF Paged
    <3>2. \A i : Rank(Answering!Matches(target'), i) \in Nat
      <4>1. records \in Seq(Stored)
        BY <1>2 DEF AnswerTypes
      <4>2. PICK t : t = target'
        OBVIOUS
      <4>3. Answering!Matches(t) \subseteq 1..Len(records) /\ Len(records) \in Nat
        BY <4>1, MatchesAre
      <4>4. \A i : Rank(Answering!Matches(t), i) \in Nat
        BY <4>3, RankGrows
      <4> QED BY <4>2, <4>4
    <3>3. \A i : ~(offset' = -1 \/ Rank(Answering!Matches(target'), i) < offset')
      BY <3>1, <3>2
    <3> QED BY <2>0, <3>1, <3>3
  <2>2. CASE targets # {}
    <3>1. target \in targets /\ target \in targets'
      BY <1>1, <1>2, <2>2 DEF Paged
    <3>2. target' = target
      BY <1>5, <3>1 DEF SameTarget
    <3>3. SameTarget
      BY <1>1, <1>5, <2>2, <3>2 DEF SameTarget
    <3> QED BY <1>1, <1>2, <2>0, <2>2, <3>2, <3>3 DEF Paged
  <2> QED BY <2>1, <2>2
<1>6. Paged'
  <2>1. step' # "answer" /\ step' # "begin" /\ offset' # -1
    BY <1>1, <1>4
  <2> QED BY <1>4, <1>5, <2>1 DEF Paged
<1> QED BY <1>3, <1>6 DEF AnswersInv

LEMMA ReadRowsKeeps == ASSUME Limit \in Nat, AnswersInv, Answering!ReadRows PROVE AnswersInv'
<1> DEFINE S == Answering!Matches(target)
           given == Answering!PageTo(S, offset, offset + Limit)
<1>1. /\ step = "rows" /\ got' = got \cup given
      /\ offset' = IF Answering!Cardinality(given) = Limit THEN offset + Limit ELSE -1
      /\ step' = IF tool = "search" THEN "answer" ELSE "clean"
      /\ UNCHANGED <<runs, records, tool, target, seen, targets, passed, last>>
  BY DEF Answering!ReadRows, Answering!Page
<1>2. AnswerTypes /\ Paged
  BY DEF AnswersInv
<1>3. offset \in Nat /\ targets # {} /\ target \in targets
  BY <1>1, <1>2 DEF Paged, AnswerTypes
<1>4. AnswerTypes'
  <2>1. offset' \in Nat \cup {-1}
    BY <1>1, <1>3
  <2>2. step' \in Steps
    BY <1>1 DEF Steps
  <2> QED BY <1>1, <1>2, <2>1, <2>2 DEF AnswerTypes
<1>5. Len(records) \in Nat /\ S \subseteq 1..Len(records)
  <2>1. records \in Seq(Stored)
    BY <1>2 DEF AnswerTypes
  <2> QED BY <2>1, MatchesAre
<1>6. \A i \in S : Rank(S, i) \in Nat
  BY <1>5, RankGrows
<1>7. \A i \in S : Rank(S, i) \in offset..(offset + Limit - 1) => i \in given
  <2> DEFINE upto == offset + Limit
  <2>0. upto - 1 = offset + Limit - 1
    BY <1>3
  <2> HIDE DEF S, upto
  <2>1. \A i \in S : Rank(S, i) \in offset..(upto - 1) => i \in Answering!PageTo(S, offset, upto)
    BY PageIs
  <2> QED BY <2>0, <2>1 DEF upto
<1>8. Answering!Cardinality(given) # Limit => \A i \in S : Rank(S, i) < offset + Limit
  <2> HIDE DEF S
  <2> SUFFICES ASSUME Cardinality(given) # Limit PROVE \A i \in S : Rank(S, i) < offset + Limit
    BY CardinalityOfAnswers
  <2> QED BY <1>3, <1>5, ShortPageIsLast
<1> HIDE DEF S, given
<1>9. ASSUME SameTarget, NEW i \in seen, offset' = -1 \/ Rank(S, i) < offset' PROVE i \in got'
  <2>1. i \in S /\ (Rank(S, i) < offset => i \in got)
    BY <1>2, <1>9 DEF Paged, S
  <2>2. Rank(S, i) \in Nat
    BY <1>6, <2>1
  <2>3. Rank(S, i) < offset + Limit
    <3>1. CASE Answering!Cardinality(given) = Limit
      BY <1>1, <1>3, <1>9, <3>1
    <3>2. CASE Answering!Cardinality(given) # Limit
      BY <1>8, <2>1, <3>2
    <3> QED BY <3>1, <3>2
  <2>4. Rank(S, i) < offset \/ Rank(S, i) \in offset..(offset + Limit - 1)
    BY <1>3, <2>2, <2>3
  <2> QED BY <1>1, <1>7, <2>1, <2>4
<1>10. S = Answering!Matches(target)' /\ (SameTarget' <=> SameTarget)
  BY <1>1 DEF S, Answering!Matches, SameTarget
<1>11. seen \subseteq S \/ ~SameTarget
  BY <1>2 DEF Paged, S
<1>12. Paged'
  <2>1. step' # "begin" /\ step' # "rows" /\ (step' = "answer" => tool' = "search")
    BY <1>1
  <2>2. targets' # {} /\ target' \in targets' /\ seen' = seen
    BY <1>1, <1>3
  <2> QED BY <1>9, <1>10, <1>11, <2>1, <2>2 DEF Paged
<1> QED BY <1>4, <1>12 DEF AnswersInv

\* freshness, and the next page.
LEMMA FreshnessKeeps ==
    ASSUME AnswersInv, Answering!ReadClean \/ Answering!ReadLast \/ Answering!NextPage PROVE AnswersInv'
<1>1. /\ UNCHANGED <<runs, records, tool, offset, target, got, seen, targets>>
      /\ \/ step' = "last" /\ passed' = Answering!Passed(runs) /\ last' = last
         \/ step' = "answer" /\ passed' = passed /\ last' = Len(runs)
         \/ step' = "begin" /\ passed' = passed /\ last' = last /\ offset # -1
      /\ step # "begin"
  BY DEF Answering!ReadClean, Answering!ReadLast, Answering!NextPage
<1>2. AnswerTypes /\ Paged
  BY DEF AnswersInv
<1>3. AnswerTypes'
  <2>1. runs \in Seq(Answering!Status) /\ passed \subseteq 1..Len(runs) /\ last \in Nat
    BY <1>2 DEF AnswerTypes
  <2>2. Len(runs) \in Nat /\ Answering!Passed(runs) \subseteq 1..Len(runs)
    BY <2>1 DEF Answering!Passed
  <2>3. step' \in Steps /\ passed' \subseteq 1..Len(runs) /\ last' \in Nat
    BY <1>1, <2>1, <2>2 DEF Steps
  <2> QED BY <1>1, <1>2, <2>3 DEF AnswerTypes
<1>4. Answering!Matches(target)' = Answering!Matches(target) /\ (SameTarget' <=> SameTarget)
  BY <1>1 DEF Answering!Matches, SameTarget
<1>5. Paged'
  <2>1. step' = "answer" => target' <= last'
    BY <1>1, <1>2 DEF AnswerTypes
  <2>2. targets # {} /\ target \in targets
    BY <1>1, <1>2 DEF Paged
  <2>3. step' # "rows" /\ (step' = "begin" => offset' # -1)
    BY <1>1
  <2> QED BY <1>1, <1>2, <1>4, <2>1, <2>2, <2>3 DEF Paged
<1> QED BY <1>3, <1>5 DEF AnswersInv

LEMMA AnswersStep == Limit \in Nat /\ MaxStored \in Nat /\ AnswersInv /\ [Answering!AnswersNext]_answering => AnswersInv'
<1> SUFFICES ASSUME Limit \in Nat, MaxStored \in Nat, AnswersInv, [Answering!AnswersNext]_answering PROVE AnswersInv'
  OBVIOUS
<1>1. CASE UNCHANGED answering
  <2>1. UNCHANGED <<runs, records, step, offset, target, passed, last, targets, tool, got, seen>>
    BY <1>1 DEF answering
  <2> QED BY <2>1 DEF AnswersInv, AnswerTypes, Paged, SameTarget, Answering!Matches, Rank
<1>2. CASE Answering!Queue
  BY <1>2, QueueKeeps
<1>3. ASSUME NEW r \in DOMAIN runs, NEW status \in Answering!Status \ {"queued", "running"},
             NEW rows \in UNION {[1..n -> BOOLEAN] : n \in 0..MaxStored}, Answering!Outcome(r, status, rows)
      PROVE  AnswersInv'
  <2>1. PICK n \in 0..MaxStored : rows \in [1..n -> BOOLEAN]
    OBVIOUS
  <2>2. n \in Nat /\ status \in Answering!Status
    OBVIOUS
  <2> QED BY <1>3, <2>1, <2>2, OutcomeKeeps
<1>4. ASSUME NEW r \in DOMAIN runs, Answering!Rejudge(r) PROVE AnswersInv'
  BY <1>4, RejudgeKeeps
<1>5. CASE Answering!ReadTarget \/ Answering!ReadRows \/ Answering!ReadClean \/ Answering!ReadLast \/ Answering!NextPage
  BY <1>5, ReadTargetKeeps, ReadRowsKeeps, FreshnessKeeps
<1> QED BY <1>1, <1>2, <1>3, <1>4, <1>5 DEF Answering!AnswersNext

\* Of some places, the newest.
LEMMA NewestIs ==
    ASSUME NEW n \in Nat, NEW S, S \subseteq 1..n, S # {}
    PROVE  Answering!NewestOf(S) \in S /\ \A j \in S : j <= Answering!NewestOf(S)
<1> DEFINE T == {n - i : i \in S}
<1>0. \A i \in S : i \in Nat /\ i <= n /\ n - i \in Nat
  OBVIOUS
<1>1. T \in SUBSET Nat /\ T # {}
  BY <1>0
<1> HIDE DEF T
<1>2. PICK m \in T : \A x \in T : m <= x
  BY <1>1, LeastNumber
<1>3. PICK i \in S : m = n - i
  BY DEF T
<1>4. ASSUME NEW j \in S PROVE j <= i
  <2>1. n - j \in T
    BY DEF T
  <2>2. n - i <= n - j
    BY <1>2, <1>3, <2>1
  <2> QED BY <1>0, <2>2
<1>5. Answering!NewestOf(S) = CHOOSE x \in S : \A j \in S : j <= x
  BY DEF Answering!NewestOf
<1> QED BY <1>4, <1>5

LEMMA AnswersInvTells == ASSUME AnswersInv PROVE Answering!PagingMissesNothing
<1>1. AnswerTypes /\ Paged
  BY DEF AnswersInv
<1> SUFFICES ASSUME step = "answer", offset = -1, Answering!Cardinality(targets) = 1 PROVE seen \subseteq got
  BY DEF Answering!PagingMissesNothing
<1>2. PICK t : targets = {t}
  <2>1. IsFiniteSet(targets) /\ Cardinality(targets) = 1
    BY <1>1, CardinalityOfAnswers DEF AnswerTypes
  <2> QED BY <2>1, FS_Singleton
<1>3. SameTarget
  BY <1>1, <1>2 DEF Paged, SameTarget
<1> QED BY <1>1, <1>3 DEF Paged

-----------------------------------------------------------------------------
(***************************************************************************)
(* The pages of the web UI, over any history.                              *)
(***************************************************************************)
\* Histories with runs of any statuses, rows, engines and ages.
HistoriesOver(Statuses, EngineNames) ==
    Seq([status : Statuses, rows : Nat, engine : EngineNames, age : Answering!Ages])

\* The periods of the pages lie in one another, and in the history.
LEMMA PeriodsNest ==
    ASSUME NEW Statuses, NEW EngineNames, NEW pastRuns \in HistoriesOver(Statuses, EngineNames)
    PROVE  /\ Len(pastRuns) \in Nat /\ DOMAIN pastRuns = 1..Len(pastRuns)
           /\ Answering!Since(pastRuns, Answering!SinceMidnight) \subseteq Answering!Since(pastRuns, Answering!SinceDay)
           /\ Answering!Since(pastRuns, Answering!SinceWeek) \subseteq Answering!Since(pastRuns, Answering!SinceMonth)
           /\ \A age : Answering!Since(pastRuns, age) \subseteq DOMAIN pastRuns
<1> DEFINE R == [status : Statuses, rows : Nat, engine : EngineNames, age : Answering!Ages]
<1>1. pastRuns \in Seq(R)
  BY DEF HistoriesOver
<1>2. \A run \in R : run.age \in Int
  BY DEF Answering!Ages, Answering!SinceMidnight, Answering!SinceMonth
<1> HIDE DEF R
<1>3. Len(pastRuns) \in Nat /\ DOMAIN pastRuns = 1..Len(pastRuns)
  BY <1>1
<1>4. \A i \in DOMAIN pastRuns : pastRuns[i].age \in Int
  BY <1>1, <1>2
<1>5. \A i \in DOMAIN pastRuns : (pastRuns[i].age <= 0 => pastRuns[i].age <= 1)
                                /\ (pastRuns[i].age <= 2 => pastRuns[i].age <= 3)
  BY <1>4
<1> QED BY <1>3, <1>5 DEF Answering!Since, Answering!SinceMidnight, Answering!SinceDay,
           Answering!SinceWeek, Answering!SinceMonth

LEMMA ColoursAre ==
    ASSUME NEW run
    PROVE  /\ Answering!Colour(run) = "ok" <=> run.status = "passed"
           /\ Answering!Colour(run) = "warn" <=> run.status = "validation_failed"
           /\ Answering!Colour(run) = "fail" <=> run.status \in {"error", "blocked"}
<1>1. CASE run.status = "passed"
  <2>1. run.status # "validation_failed" /\ run.status \notin Answering!FAILED \ {"validation_failed"}
    BY <1>1 DEF Answering!FAILED
  <2>2. Answering!Colour(run) = "ok"
    BY <1>1, <2>1, Zenon DEF Answering!Colour
  <2> QED BY <1>1, <2>2
<1>2. CASE run.status = "validation_failed"
  <2>1. run.status # "passed" /\ run.status \notin Answering!FAILED \ {"validation_failed"}
    BY <1>2
  <2>2. Answering!Colour(run) = "warn"
    BY <1>2, <2>1, Zenon DEF Answering!Colour
  <2> QED BY <1>2, <2>2
<1>3. CASE run.status \in {"error", "blocked"}
  <2>1. run.status # "passed" /\ run.status # "validation_failed"
        /\ run.status \in Answering!FAILED \ {"validation_failed"}
    BY <1>3 DEF Answering!FAILED
  <2>2. Answering!Colour(run) = "fail"
    BY <2>1, Zenon DEF Answering!Colour
  <2> QED BY <1>3, <2>1, <2>2
<1>4. CASE run.status \notin {"passed", "validation_failed", "error", "blocked"}
  <2>1. run.status # "passed" /\ run.status # "validation_failed"
        /\ run.status \notin Answering!FAILED \ {"validation_failed"}
    BY <1>4 DEF Answering!FAILED
  <2>2. Answering!Colour(run) = "none"
    BY <2>1, Zenon DEF Answering!Colour
  <2> QED BY <1>4, <2>2
<1> QED BY <1>1, <1>2, <1>3, <1>4

LEMMA CountApart ==
    ASSUME NEW n \in Nat, NEW S, S \subseteq 1..n, NEW T, T \subseteq 1..n, S \cap T = {}
    PROVE  Cardinality(S \cup T) = Cardinality(S) + Cardinality(T) /\ Cardinality(S \cup T) <= n
<1>1. IsFiniteSet(S) /\ IsFiniteSet(T) /\ Cardinality(S) \in Nat /\ Cardinality(T) \in Nat
  BY PartOfPlaces
<1>2. Cardinality(S \cup T) = Cardinality(S) + Cardinality(T) - Cardinality(S \cap T)
  BY <1>1, FS_Union
<1>3. Cardinality(S \cap T) = 0
  BY FS_EmptySet
<1>4. IsFiniteSet(1..n) /\ Cardinality(1..n) = n
  <2>1. 1 \in Int /\ n \in Int
    OBVIOUS
  <2>2. Cardinality(1..n) = IF 1 > n THEN 0 ELSE n - 1 + 1
    BY <2>1, FS_Interval
  <2>3. IsFiniteSet(1..n)
    BY <2>1, FS_Interval
  <2> QED BY <2>2, <2>3
<1>5. S \cup T \in SUBSET (1..n)
  OBVIOUS
<1>6. Cardinality(S \cup T) <= n
  BY <1>4, <1>5, FS_Subset
<1> QED BY <1>1, <1>2, <1>3, <1>6

\* The tiles count no run twice, and the strip has what they count.
LEMMA CountsAgree ==
    ASSUME NEW Statuses, NEW EngineNames, NEW pastRuns \in HistoriesOver(Statuses, EngineNames)
    PROVE  LET today == Answering!Today(pastRuns)
               ok_ == Answering!Strip(pastRuns, "ok")
               bad_ == Answering!Strip(pastRuns, "warn") + Answering!Strip(pastRuns, "fail")
           IN /\ today.passed + today.failed <= today.runs /\ today.blocked <= today.failed
              /\ today.passed <= ok_ /\ today.failed <= bad_
              /\ Answering!Since(pastRuns, Answering!SinceDay) = Answering!Since(pastRuns, Answering!SinceMidnight) =>
                     today.passed = ok_ /\ today.failed = bad_
<1> DEFINE n == Len(pastRuns)
           now == Answering!Since(pastRuns, Answering!SinceMidnight)
           day == Answering!Since(pastRuns, Answering!SinceDay)
           passing == Answering!With(pastRuns, {"passed"})
           unhappy == Answering!With(pastRuns, Answering!FAILED)
           walled == Answering!With(pastRuns, {"blocked"})
           ok == {i \in day : Answering!Colour(pastRuns[i]) = "ok"}
           warn == {i \in day : Answering!Colour(pastRuns[i]) = "warn"}
           fail == {i \in day : Answering!Colour(pastRuns[i]) = "fail"}
<1>1. n \in Nat /\ DOMAIN pastRuns = 1..n /\ now \subseteq day /\ day \subseteq 1..n
  BY PeriodsNest
<1>2. /\ Answering!Strip(pastRuns, "ok") = Cardinality(ok) /\ Answering!Strip(pastRuns, "warn") = Cardinality(warn)
      /\ Answering!Strip(pastRuns, "fail") = Cardinality(fail)
  BY CardinalityOfAnswers DEF Answering!Strip
<1>3. /\ Answering!Today(pastRuns).passed = Cardinality(now \cap passing)
      /\ Answering!Today(pastRuns).failed = Cardinality(now \cap unhappy)
      /\ Answering!Today(pastRuns).blocked = Cardinality(now \cap walled)
      /\ Answering!Today(pastRuns).runs = Cardinality(now)
  BY CardinalityOfAnswers DEF Answering!Today
<1>4. ok = day \cap passing
  BY <1>1, ColoursAre DEF Answering!With
<1>5. warn \cup fail = day \cap unhappy /\ warn \cap fail = {}
  <2>1. \A i \in DOMAIN pastRuns :
           i \in unhappy <=> pastRuns[i].status = "validation_failed" \/ pastRuns[i].status \in {"error", "blocked"}
    BY DEF Answering!With, Answering!FAILED
  <2>2. \A i \in day : (i \in warn <=> pastRuns[i].status = "validation_failed")
                     /\ (i \in fail <=> pastRuns[i].status \in {"error", "blocked"})
    BY ColoursAre
  <2>3. warn \subseteq day /\ fail \subseteq day /\ unhappy \subseteq DOMAIN pastRuns
    BY DEF Answering!With
  <2> HIDE DEF warn, fail, unhappy, day, now
  <2> QED BY <1>1, <2>1, <2>2, <2>3
<1>6. walled \subseteq unhappy /\ passing \cap unhappy = {} /\ warn \subseteq day /\ fail \subseteq day
  BY DEF Answering!With, Answering!FAILED
<1> HIDE DEF n, now, day, passing, unhappy, walled, ok, warn, fail
<1>7. IsFiniteSet(now) /\ IsFiniteSet(day)
  <2>1. now \subseteq 1..n /\ day \subseteq 1..n
    BY <1>1
  <2> QED BY <1>1, <2>1, PartOfPlaces
<1>8. Cardinality(warn) + Cardinality(fail) = Cardinality(day \cap unhappy)
  <2>1. n \in Nat /\ warn \subseteq 1..n /\ fail \subseteq 1..n /\ warn \cap fail = {}
    BY <1>1, <1>5, <1>6
  <2>2. /\ Cardinality(warn \cup fail) = Cardinality(warn) + Cardinality(fail)
        /\ Cardinality(warn \cup fail) <= n
    BY <2>1, CountApart
  <2> QED BY <1>5, <2>2
<1>9. /\ Cardinality(now \cap passing) + Cardinality(now \cap unhappy) <= Cardinality(now)
      /\ Cardinality(now \cap walled) <= Cardinality(now \cap unhappy)
  <2> DEFINE P == now \cap passing
             U == now \cap unhappy
  <2>1. P \subseteq 1..n /\ U \subseteq 1..n /\ P \cap U = {} /\ P \cup U \subseteq now
        /\ now \cap walled \subseteq U /\ U \subseteq now
    BY <1>1, <1>6
  <2> HIDE DEF P, U
  <2>2. Cardinality(P \cup U) = Cardinality(P) + Cardinality(U)
    BY <1>1, <2>1, CountApart
  <2>3. Cardinality(P \cup U) <= Cardinality(now)
    BY <1>7, <2>1, FS_Subset
  <2>4. IsFiniteSet(U)
    BY <1>7, <2>1, FS_Subset
  <2>5. Cardinality(now \cap walled) <= Cardinality(U)
    BY <2>1, <2>4, FS_Subset
  <2> QED BY <2>2, <2>3, <2>5 DEF P, U
<1>10. /\ Cardinality(now \cap passing) <= Cardinality(day \cap passing)
       /\ Cardinality(now \cap unhappy) <= Cardinality(day \cap unhappy)
  <2>1. now \cap passing \subseteq day \cap passing /\ now \cap unhappy \subseteq day \cap unhappy
    BY <1>1
  <2>2. IsFiniteSet(day \cap passing) /\ IsFiniteSet(day \cap unhappy)
    BY <1>7, FS_Subset
  <2> QED BY <2>1, <2>2, FS_Subset
<1>11. day = now => Cardinality(now \cap passing) = Cardinality(day \cap passing)
                    /\ Cardinality(now \cap unhappy) = Cardinality(day \cap unhappy)
  OBVIOUS
<1> QED BY <1>2, <1>3, <1>4, <1>8, <1>9, <1>10, <1>11 DEF day, now

\* The bucket of a scraper and what is listed of it.
LEMMA AttentionIs ==
    ASSUME NEW pastRuns
    PROVE  LET latest == Answering!LatestStatus(pastRuns) IN
           /\ latest \in {"none", "passed", "running", "queued"} =>
                 Answering!Attention(pastRuns) = "none" /\ Answering!Health(pastRuns, TRUE) = "healthy"
           /\ latest = "validation_failed" =>
                 Answering!Attention(pastRuns) = "drift" /\ Answering!Health(pastRuns, TRUE) = "drift"
           /\ latest \notin {"none", "passed", "running", "queued", "validation_failed"} =>
                 Answering!Attention(pastRuns) = "fail" /\ Answering!Health(pastRuns, TRUE) = "failed"
<1> DEFINE latest == Answering!LatestStatus(pastRuns)
           calm == latest \in {"none", "passed", "running", "queued"}
<1>1. CASE calm
  <2>1. Answering!Attention(pastRuns) = "none" /\ Answering!Health(pastRuns, TRUE) = "healthy"
    BY <1>1, Zenon DEF Answering!Attention, Answering!Health
  <2>2. latest # "validation_failed"
    BY <1>1
  <2> QED BY <1>1, <2>1, <2>2
<1>2. CASE latest = "validation_failed"
  <2>1. ~calm
    BY <1>2
  <2>2. Answering!Attention(pastRuns) = "drift" /\ Answering!Health(pastRuns, TRUE) = "drift"
    BY <1>2, <2>1, Zenon DEF Answering!Attention, Answering!Health
  <2> QED BY <1>2, <2>1, <2>2
<1>3. CASE ~calm /\ latest # "validation_failed"
  <2>1. Answering!Attention(pastRuns) = "fail" /\ Answering!Health(pastRuns, TRUE) = "failed"
    BY <1>3, Zenon DEF Answering!Attention, Answering!Health
  <2> QED BY <1>3, <2>1
<1> QED BY <1>1, <1>2, <1>3

LEMMA FeedKindIs ==
    ASSUME NEW run, run.status \notin {"passed", "running", "queued"}
    PROVE  Answering!FeedKind(run) = IF run.status = "validation_failed" THEN "drift" ELSE "fail"
<1>1. run.status # "passed" /\ run.status # "running" /\ run.status # "queued"
  OBVIOUS
<1> QED BY <1>1, Zenon DEF Answering!FeedKind

\* What needs attention is stale, and is shown so in the feed.
LEMMA AttentionIsShown ==
    ASSUME NEW Statuses, NEW EngineNames, NEW pastRuns \in HistoriesOver(Statuses, EngineNames), NEW enabled \in BOOLEAN
    PROVE  LET statuses == Answering!StatusesOf(pastRuns) IN
           /\ enabled => /\ (Answering!Health(pastRuns, enabled) = "drift") <=> (Answering!Attention(pastRuns) = "drift")
                         /\ (Answering!Health(pastRuns, enabled) = "failed") <=> (Answering!Attention(pastRuns) = "fail")
           /\ Answering!Attention(pastRuns) # "none" =>
                 /\ Answering!Stale(Answering!NewestOf(Answering!Passed(statuses)), Len(pastRuns))
                 /\ Answering!FeedKind(pastRuns[Len(pastRuns)]) = Answering!Attention(pastRuns)
                 /\ Answering!Listed(pastRuns, FALSE, FALSE) /\ Answering!Listed(pastRuns, TRUE, TRUE)
           /\ Answering!LatestStatus(pastRuns) = "passed" => Len(pastRuns) \notin Answering!Baseline(pastRuns)
<1> DEFINE latest == Answering!LatestStatus(pastRuns)
           statuses == Answering!StatusesOf(pastRuns)
           passing == Answering!Passed(statuses)
           n == Len(pastRuns)
<1>1. n \in Nat /\ DOMAIN pastRuns = 1..n /\ (pastRuns = <<>> <=> n = 0)
  BY DEF HistoriesOver
<1>2. passing = {i \in 1..n : pastRuns[i].status = "passed"}
  BY <1>1 DEF Answering!Passed, Answering!StatusesOf
<1>3. n # 0 => latest = pastRuns[n].status
  BY <1>1 DEF Answering!LatestStatus
<1>4. n = 0 => latest = "none"
  BY <1>1 DEF Answering!LatestStatus
<1>5. Answering!Attention(pastRuns) # "none" <=> latest \notin {"none", "passed", "running", "queued"}
  BY AttentionIs
<1>6. ASSUME enabled
      PROVE  /\ (Answering!Health(pastRuns, enabled) = "drift") <=> (Answering!Attention(pastRuns) = "drift")
             /\ (Answering!Health(pastRuns, enabled) = "failed") <=> (Answering!Attention(pastRuns) = "fail")
  <2>1. enabled = TRUE
    BY <1>6
  <2>2. /\ (Answering!Health(pastRuns, TRUE) = "drift") <=> (Answering!Attention(pastRuns) = "drift")
        /\ (Answering!Health(pastRuns, TRUE) = "failed") <=> (Answering!Attention(pastRuns) = "fail")
    BY AttentionIs
  <2> QED BY <2>1, <2>2
<1> HIDE DEF passing, latest, n
<1>7. ASSUME Answering!Attention(pastRuns) # "none"
      PROVE  /\ Answering!Stale(Answering!NewestOf(passing), n)
             /\ Answering!FeedKind(pastRuns[n]) = Answering!Attention(pastRuns)
             /\ Answering!Listed(pastRuns, FALSE, FALSE) /\ Answering!Listed(pastRuns, TRUE, TRUE)
  <2>1. latest \notin {"none", "passed", "running", "queued"} /\ n # 0 /\ latest = pastRuns[n].status
    BY <1>3, <1>4, <1>5, <1>7
  <2>2. n \notin passing
    BY <1>2, <2>1
  <2>3. passing = {} \/ Answering!NewestOf(passing) \in passing
    <3>1. passing \subseteq 1..n
      BY <1>2
    <3> QED BY <1>1, <3>1, NewestIs
  <2>4. Answering!Stale(Answering!NewestOf(passing), n)
    BY <2>2, <2>3 DEF Answering!Stale, Answering!NewestOf
  <2>5. Answering!FeedKind(pastRuns[n]) = IF latest = "validation_failed" THEN "drift" ELSE "fail"
    BY <2>1, FeedKindIs
  <2>6. Answering!FeedKind(pastRuns[n]) = Answering!Attention(pastRuns)
    BY <2>1, <2>5, AttentionIs DEF latest
  <2>7. Answering!Listed(pastRuns, FALSE, FALSE) /\ Answering!Listed(pastRuns, TRUE, TRUE)
    BY <1>7 DEF Answering!Listed
  <2> QED BY <2>4, <2>6, <2>7
<1>8. ASSUME latest = "passed" PROVE n \notin Answering!Baseline(pastRuns)
  <2>1. n # 0 /\ pastRuns[n].status = "passed"
    BY <1>3, <1>4, <1>8
  <2>2. n \in passing /\ passing \subseteq 1..n
    BY <1>1, <1>2, <2>1
  <2>3. Answering!NewestOf(passing) \in passing /\ n <= Answering!NewestOf(passing)
    BY <1>1, <2>2, NewestIs
  <2>4. Answering!NewestOf(passing) = n
    <3> DEFINE m == Answering!NewestOf(passing)
    <3>1. m \in 1..n /\ n <= m
      BY <2>2, <2>3
    <3> HIDE DEF m
    <3>2. m = n
      BY <1>1, <3>1
    <3> QED BY <3>2 DEF m
  <2> QED BY <2>4 DEF Answering!Baseline, passing
<1> QED BY <1>6, <1>7, <1>8 DEF passing, latest, n

\* The sum over some places of a function that is the same on all of them.
LEMMA SumOfSame ==
    ASSUME NEW n \in Nat, NEW S, S \subseteq 1..n, NEW f, NEW c \in Nat, \A i \in S : f[i] = c
    PROVE  Answering!FoldFunctionOnSet(+, 0, f, S) = c * Cardinality(S)
<1> DEFINE First(s) == CHOOSE x \in s : TRUE
           Sum_(k, s) == IF s = {} THEN 0 ELSE f[First(s)] + k[s \ {First(s)}]
           iter == CHOOSE k : k = [s \in SUBSET S |-> Sum_(k, s)]
           g == [s \in SUBSET S |-> c * Cardinality(s)]
<1>1. Answering!FoldFunctionOnSet(+, 0, f, S) = iter[S]
  BY DEF Answering!FoldFunctionOnSet, Answering!MapThenFoldSet
<1>2. \A s \in SUBSET S : IsFiniteSet(s) /\ Cardinality(s) \in Nat
  BY PartOfPlaces
<1>3. ASSUME NEW s \in SUBSET S, s # {}
      PROVE  /\ First(s) \in s /\ s \ {First(s)} \in SUBSET S /\ f[First(s)] = c
             /\ Cardinality(s) = Cardinality(s \ {First(s)}) + 1
             /\ Cardinality(s \ {First(s)}) \in Nat
  <2>1. First(s) \in s
    BY <1>3
  <2> HIDE DEF First
  <2>2. s \ {First(s)} \in SUBSET S
    OBVIOUS
  <2>3. Cardinality(s \ {First(s)}) = Cardinality(s) - 1
    BY <1>2, <2>1, FS_RemoveElement
  <2>4. f[First(s)] = c
    BY <2>1
  <2>5. Cardinality(s) \in Nat /\ Cardinality(s \ {First(s)}) \in Nat
    BY <1>2, <2>2
  <2>6. Cardinality(s) = Cardinality(s \ {First(s)}) + 1
    BY <2>3, <2>5
  <2> QED BY <2>1, <2>2, <2>4, <2>5, <2>6
<1>4. ASSUME NEW s \in SUBSET S PROVE g[s] = Sum_(g, s)
  <2>1. CASE s = {}
    <3>1. Cardinality(s) = 0
      BY <2>1, FS_EmptySet
    <3> QED BY <2>1, <3>1
  <2>2. CASE s # {}
    <3>1. g[s] = c * Cardinality(s) /\ g[s \ {First(s)}] = c * Cardinality(s \ {First(s)})
      BY <1>3, <2>2
    <3>2. Sum_(g, s) = c + g[s \ {First(s)}]
      BY <1>3, <2>2
    <3>3. Cardinality(s) = Cardinality(s \ {First(s)}) + 1 /\ Cardinality(s \ {First(s)}) \in Nat
      BY <1>3, <2>2
    <3> HIDE DEF g, Sum_, First
    <3>4. c * Cardinality(s) = c + c * Cardinality(s \ {First(s)})
      BY <3>3
    <3> QED BY <3>1, <3>2, <3>4
  <2> QED BY <2>1, <2>2
<1>5. g = [s \in SUBSET S |-> Sum_(g, s)]
  <2>1. g = [s \in SUBSET S |-> g[s]]
    OBVIOUS
  <2> HIDE DEF g, Sum_
  <2> QED BY <1>4, <2>1
<1>6. iter = [s \in SUBSET S |-> Sum_(iter, s)]
  <2> HIDE DEF g, Sum_
  <2> QED BY <1>5
<1> DEFINE Bad == {s \in SUBSET S : iter[s] # c * Cardinality(s)}
           Sizes_ == {Cardinality(s) : s \in Bad}
<1> HIDE DEF iter
<1>7. Bad = {}
  <2> SUFFICES ASSUME Bad # {} PROVE FALSE
    OBVIOUS
  <2>1. Sizes_ \in SUBSET Nat /\ Sizes_ # {}
    BY <1>2
  <2>2. PICK s \in Bad : \A t \in Bad : Cardinality(s) <= Cardinality(t)
    <3> HIDE DEF Bad
    <3>1. PICK m \in Sizes_ : \A i \in Sizes_ : m <= i
      <4> HIDE DEF Sizes_
      <4> QED BY <2>1, LeastNumber
    <3>2. PICK s \in Bad : m = Cardinality(s)
      OBVIOUS
    <3>3. \A t \in Bad : Cardinality(t) \in Sizes_
      OBVIOUS
    <3> QED BY <3>1, <3>2, <3>3
  <2>3. s \in SUBSET S /\ iter[s] # c * Cardinality(s)
    OBVIOUS
  <2>4. iter[s] = Sum_(iter, s)
    <3> HIDE DEF Sum_, Bad
    <3> QED BY <1>6, <2>3
  <2>5. s # {}
    <3>1. Cardinality({}) = 0
      BY FS_EmptySet
    <3> QED BY <2>3, <2>4, <3>1
  <2> DEFINE t == s \ {First(s)}
  <2>6. t \in SUBSET S /\ f[First(s)] = c /\ Cardinality(s) = Cardinality(t) + 1 /\ Cardinality(t) \in Nat
    BY <1>3, <2>3, <2>5
  <2>7. iter[s] = c + iter[t]
    BY <2>4, <2>5, <2>6
  <2> HIDE DEF t
  <2>8. t \notin Bad
    <3> HIDE DEF Bad
    <3>1. Cardinality(s) \in Nat
      BY <1>2, <2>3
    <3> QED BY <2>2, <2>6, <3>1
  <2>9. iter[t] = c * Cardinality(t)
    BY <2>6, <2>8
  <2>10. c * Cardinality(s) = c + c * Cardinality(t)
    BY <2>6
  <2> QED BY <2>3, <2>7, <2>9, <2>10
<1>8. iter[S] = c * Cardinality(S)
  BY <1>7
<1> QED BY <1>1, <1>8

\* A run that passed and has as many rows as those before it has no change to show.
LEMMA DeltaIsNone ==
    ASSUME NEW Statuses, NEW EngineNames, NEW pastRuns \in HistoriesOver(Statuses, EngineNames),
           Answering!Delta(pastRuns) # -1000,
           \A i \in Answering!Baseline(pastRuns) : pastRuns[i].rows = pastRuns[Len(pastRuns)].rows
    PROVE  Answering!Delta(pastRuns) = 0
<1> DEFINE n == Len(pastRuns)
           shown_ == Answering!Baseline(pastRuns)
           f == [i \in DOMAIN pastRuns |-> pastRuns[i].rows]
           sum == Answering!RowsIn(pastRuns, shown_)
           c == pastRuns[n].rows
<1>1. n \in Nat /\ DOMAIN pastRuns = 1..n /\ \A i \in 1..n : pastRuns[i].rows \in Nat
  <2> DEFINE R == [status : Statuses, rows : Nat, engine : EngineNames, age : Answering!Ages]
  <2>1. pastRuns \in Seq(R)
    BY DEF HistoriesOver
  <2>2. \A r \in R : r.rows \in Nat
    OBVIOUS
  <2> HIDE DEF R
  <2>3. Len(pastRuns) \in Nat /\ DOMAIN pastRuns = 1..Len(pastRuns)
        /\ \A i \in 1..Len(pastRuns) : pastRuns[i] \in R
    BY <2>1
  <2> QED BY <2>2, <2>3
<1>2. shown_ \subseteq 1..n
  BY <1>1 DEF Answering!Baseline, Answering!NewestPassed, Answering!Passed, Answering!StatusesOf
<1>3. sum = Answering!FoldFunctionOnSet(+, 0, f, shown_)
  BY DEF Answering!RowsIn
<1>4. Answering!Delta(pastRuns) = IF shown_ = {} \/ sum = 0 THEN -1000
                                 ELSE ((c * Answering!Cardinality(shown_) - sum) * 100) \div sum
  BY DEF Answering!Delta
<1> HIDE DEF shown_, sum
<1>5. shown_ # {} /\ sum # 0
  BY <1>4
<1>6. n # 0 /\ c \in Nat
  <2> HIDE DEF f
  <2>1. n # 0
    <3> HIDE DEF n, c
    <3>1. PICK i \in shown_ : i \in 1..n
      BY <1>2, <1>5
    <3>2. n \in Nat
      BY <1>1
    <3> QED BY <3>1, <3>2
  <2>2. n \in 1..n
    <3> HIDE DEF n, c
    <3> QED BY <1>1, <2>1
  <2>3. pastRuns[n].rows \in Nat
    <3> HIDE DEF n
    <3> QED BY <1>1, <2>2
  <2> QED BY <2>1, <2>3
<1>7. \A i \in shown_ : f[i] = c
  BY <1>1, <1>2 DEF shown_
<1> HIDE DEF f, c, n
<1>8. sum = c * Cardinality(shown_)
  BY <1>1, <1>2, <1>3, <1>6, <1>7, SumOfSame
<1>9. Cardinality(shown_) \in Nat
  BY <1>1, <1>2, PartOfPlaces
<1>10. sum \in Nat \ {0} /\ c * Answering!Cardinality(shown_) - sum = 0
  <2>1. c * Cardinality(shown_) \in Nat
    BY <1>6, <1>9
  <2> QED BY <1>5, <1>8, <2>1, CardinalityOfAnswers
<1>11. (0 * 100) \div sum = 0
  BY <1>10
<1> QED BY <1>4, <1>5, <1>10, <1>11

LEMMA AllOfThem ==
    ASSUME NEW p \in Nat, NEW t \in Nat \ {0}, p <= t
    PROVE  (p * 100) \div t = 100 <=> p = t
<1> DEFINE q == (p * 100) \div t
<1>1. q \in Int /\ q * t <= p * 100 /\ p * 100 < q * t + t
  OBVIOUS
<1> HIDE DEF q
<1>2. q = 100 => t * 100 <= p * 100
  BY <1>1
<1>3. p = t => q = 100
  <2> SUFFICES ASSUME p = t PROVE q = 100
    OBVIOUS
  <2>1. q * t <= 100 * t /\ 100 * t < (q + 1) * t
    BY <1>1
  <2>2. ~(q > 100)
    <3> SUFFICES ASSUME q >= 101 PROVE FALSE
      BY <1>1
    <3>1. q * t >= 101 * t
      BY <1>1
    <3> QED BY <1>1, <2>1, <3>1
  <2>3. ~(q < 100)
    <3> SUFFICES ASSUME q + 1 <= 100 PROVE FALSE
      BY <1>1
    <3>1. (q + 1) * t <= 100 * t
      BY <1>1
    <3> QED BY <1>1, <2>1, <3>1
  <2> QED BY <1>1, <2>2, <2>3
<1> QED BY <1>2, <1>3 DEF q

\* Where every engine passed all of its month, the week passed, as far as it is of them.
LEMMA RatesAgree ==
    ASSUME NEW Statuses, NEW EngineNames, NEW pastRuns \in HistoriesOver(Statuses, EngineNames), NEW engs,
           \A e \in engs : Answering!OfEngine(pastRuns, e).total = 0 \/ Answering!Coverage(pastRuns, e) = 100,
           Answering!Since(pastRuns, Answering!SinceWeek) # {},
           \A i \in Answering!Since(pastRuns, Answering!SinceWeek) : pastRuns[i].engine \in engs
    PROVE  Answering!PassRate(pastRuns) = 100
<1> DEFINE n == Len(pastRuns)
           week == Answering!Since(pastRuns, Answering!SinceWeek)
           month == Answering!Since(pastRuns, Answering!SinceMonth)
           passing == Answering!With(pastRuns, {"passed"})
<1>1. n \in Nat /\ week \subseteq month /\ month \subseteq 1..n
  BY PeriodsNest
<1>2. ASSUME NEW i \in week PROVE i \in passing
  <2> DEFINE e == pastRuns[i].engine
             all == {j \in month : pastRuns[j].engine = e}
             ok == {j \in month \cap passing : pastRuns[j].engine = e}
             cell == Answering!OfEngine(pastRuns, e)
  <2>1. e \in engs /\ i \in all /\ all \subseteq 1..n /\ ok \subseteq all
    BY <1>1
  <2>2. cell.total = Cardinality(all) /\ cell.passed = Cardinality(ok)
    BY CardinalityOfAnswers DEF Answering!OfEngine
  <2>3. Answering!Coverage(pastRuns, e) = IF cell.total = 0 THEN 0 ELSE (cell.passed * 100) \div cell.total
    BY DEF Answering!Coverage
  <2>4. cell.total = 0 \/ Answering!Coverage(pastRuns, e) = 100
    BY <2>1
  <2>8. ok \subseteq passing
    OBVIOUS
  <2> HIDE DEF e, all, ok, cell, n, passing, week, month
  <2>5. IsFiniteSet(all) /\ Cardinality(all) \in Nat /\ Cardinality(all) # 0
    <3>1. IsFiniteSet(all) /\ Cardinality(all) \in Nat
      BY <1>1, <2>1, PartOfPlaces
    <3> QED BY <2>1, <3>1, FS_EmptySet
  <2>6. Cardinality(ok) \in Nat /\ Cardinality(ok) <= Cardinality(all)
        /\ (Cardinality(all) = Cardinality(ok) => all = ok)
    <3>1. ok \in SUBSET all
      BY <2>1
    <3> QED BY <2>5, <3>1, FS_Subset, FS_CardinalityType
  <2>7. Cardinality(ok) = Cardinality(all)
    BY <2>2, <2>3, <2>4, <2>5, <2>6, AllOfThem
  <2> QED BY <2>1, <2>6, <2>7, <2>8
<1>3. week \cap passing = week
  BY <1>2
<1>4. Answering!PassRate(pastRuns) =
          IF week = {} THEN 0 ELSE (Cardinality(week \cap passing) * 100) \div Cardinality(week)
  BY CardinalityOfAnswers DEF Answering!PassRate
<1>5. week # {}
  OBVIOUS
<1> HIDE DEF n, week, month, passing
<1>6. Cardinality(week) \in Nat \ {0}
  <2>1. week \subseteq 1..n
    BY <1>1
  <2>2. IsFiniteSet(week) /\ Cardinality(week) \in Nat
    BY <1>1, <2>1, PartOfPlaces
  <2> QED BY <1>5, <2>2, FS_EmptySet
<1>7. (Cardinality(week) * 100) \div Cardinality(week) = 100
  BY <1>6, AllOfThem
<1> QED BY <1>3, <1>4, <1>5, <1>7

LEMMA PagesDoAgree ==
    ASSUME NEW Statuses, NEW EngineNames, NEW pastRuns \in HistoriesOver(Statuses, EngineNames),
           NEW enabled \in BOOLEAN, NEW engs
    PROVE  Answering!PagesAgree(pastRuns, enabled, engs)
<1>1. (Answering!Delta(pastRuns) # -1000 /\ Answering!LatestStatus(pastRuns) = "passed") =>
           ((\A i \in Answering!Baseline(pastRuns) : pastRuns[i].rows = pastRuns[Len(pastRuns)].rows)
               => Answering!Delta(pastRuns) = 0)
  BY DeltaIsNone
<1>2. (\A e \in engs : Answering!OfEngine(pastRuns, e).total = 0 \/ Answering!Coverage(pastRuns, e) = 100)
           => \/ Answering!PassRate(pastRuns) = 100
              \/ Answering!Since(pastRuns, Answering!SinceWeek) = {}
              \/ \E i \in Answering!Since(pastRuns, Answering!SinceWeek) : pastRuns[i].engine \notin engs
  BY RatesAgree
<1>3. /\ enabled =>
            /\ (Answering!Health(pastRuns, enabled) = "drift") <=> (Answering!Attention(pastRuns) = "drift")
            /\ (Answering!Health(pastRuns, enabled) = "failed") <=> (Answering!Attention(pastRuns) = "fail")
      /\ Answering!Attention(pastRuns) # "none" =>
            /\ Answering!Stale(Answering!NewestOf(Answering!Passed(Answering!StatusesOf(pastRuns))), Len(pastRuns))
            /\ Answering!FeedKind(pastRuns[Len(pastRuns)]) = Answering!Attention(pastRuns)
            /\ Answering!Listed(pastRuns, FALSE, FALSE) /\ Answering!Listed(pastRuns, TRUE, TRUE)
      /\ Answering!LatestStatus(pastRuns) = "passed" => Len(pastRuns) \notin Answering!Baseline(pastRuns)
  BY AttentionIsShown
<1>4. LET today == Answering!Today(pastRuns)
          ok_ == Answering!Strip(pastRuns, "ok")
          bad_ == Answering!Strip(pastRuns, "warn") + Answering!Strip(pastRuns, "fail")
      IN /\ today.passed + today.failed <= today.runs /\ today.blocked <= today.failed
         /\ today.passed <= ok_ /\ today.failed <= bad_
         /\ Answering!Since(pastRuns, Answering!SinceDay) = Answering!Since(pastRuns, Answering!SinceMidnight) =>
                today.passed = ok_ /\ today.failed = bad_
  BY CountsAgree
<1> QED BY <1>1, <1>2, <1>3, <1>4 DEF Answering!PagesAgree

\* The samples of MCServices are such histories.
LEMMA SampledHistories ==
    ASSUME SampleSize \in Nat, NEW pages \in Histories
    PROVE  /\ pages.enabled \in BOOLEAN
           /\ pages.history \in HistoriesOver(Answering!Status, {"none", "http", "browser"})
<1> DEFINE R == [status : Answering!Status, rows : Nat, engine : {"none", "http", "browser"},
                 age : Answering!Ages]
           Today_ == PastRuns({Answering!SinceMidnight})
           Any_ == PastRuns(Answering!Ages)
<1>1. pages.history \in PastHistories /\ pages.enabled \in BOOLEAN
  BY DEF Histories
<1>2. Any_ \subseteq R
  BY DEF PastRuns, Answering!Status
<1>3. Today_ \subseteq R
  <2>1. Answering!SinceMidnight \in Answering!Ages
    BY DEF Answering!Ages, Answering!SinceMidnight, Answering!SinceMonth
  <2> QED BY <2>1 DEF PastRuns, Answering!Status
<1> HIDE DEF R
<1>4. pages.history \in Seq(Today_) \/ pages.history \in Seq(Any_)
  <2> HIDE DEF Today_, Any_
  <2>1. pages.history \in UpTo(SampleSize + 1, Today_) \/ pages.history \in UpTo(SampleSize, Any_)
    BY <1>1 DEF PastHistories, Today_, Any_
  <2> QED BY <2>1, UpToIsSeq
<1>5. pages.history \in Seq(R)
  <2> HIDE DEF Today_, Any_
  <2> QED BY <1>2, <1>3, <1>4
<1> QED BY <1>1, <1>5 DEF R, HistoriesOver

AnswersAssumed == Limit \in Nat /\ MaxStored \in Nat

\* mcp/server.py get_results and search_results, web/queries.py: a client that pages to
\* the end has every row there was as it began, however large the page and whatever is
\* recorded and judged in between; and over runs of any number, status, engine and age,
\* what the pages count, list and compare fits together.
THEOREM AnswersAgreeWithRuns ==
    /\ \A Statuses, EngineNames, engs : \A pastRuns \in HistoriesOver(Statuses, EngineNames), enabled \in BOOLEAN :
           Answering!PagesAgree(pastRuns, enabled, engs)
    /\ AnswersAssumed /\ Answering!AnswersSpec => []Answering!PagingMissesNothing
    /\ AnswersAssumed /\ SampleSize \in Nat /\ ServicesSpec => []AnswersAgree
<1>1. \A Statuses, EngineNames, engs : \A pastRuns \in HistoriesOver(Statuses, EngineNames), enabled \in BOOLEAN :
          Answering!PagesAgree(pastRuns, enabled, engs)
  BY PagesDoAgree
<1>2. AnswersAssumed /\ Answering!AnswersSpec => []Answering!PagingMissesNothing
  <2> SUFFICES ASSUME AnswersAssumed PROVE Answering!AnswersSpec => []Answering!PagingMissesNothing
    OBVIOUS
  <2>1. Answering!AnswersInit => AnswersInv
    BY AnswersBegin DEF AnswersAssumed
  <2>2. AnswersInv /\ [Answering!AnswersNext]_answering => AnswersInv'
    BY AnswersStep DEF AnswersAssumed
  <2>3. AnswersInv => Answering!PagingMissesNothing
    BY AnswersInvTells
  <2>4. [Answering!AnswersNext]_Answering!answers => [Answering!AnswersNext]_answering
    BY DEF answering, Answering!answers
  <2> QED BY <2>1, <2>2, <2>3, <2>4, PTL DEF Answering!AnswersSpec
<1>3. AnswersAssumed /\ SampleSize \in Nat /\ ServicesSpec => []AnswersAgree
  <2> SUFFICES ASSUME AnswersAssumed, SampleSize \in Nat PROVE ServicesSpec => []AnswersAgree
    OBVIOUS
  <2>1. ServicesInit => AnswersInv
    BY AnswersBegin DEF ServicesInit, AnswersAssumed
  <2>2. AnswersInv /\ [ServicesNext]_services => AnswersInv'
    <3>1. [ServicesNext]_services => [Answering!AnswersNext]_answering
      BY DEF ServicesNext, services
    <3> QED BY <3>1, AnswersStep DEF AnswersAssumed
  <2>3. ASSUME AnswersInv, Sampled PROVE AnswersAgree
    <3>1. Answering!PagingMissesNothing
      BY <2>3, AnswersInvTells
    <3>2. ASSUME sample.of = "pages"
          PROVE  Answering!PagesAgree(sample.history, sample.enabled, {"http", "browser"})
      <4>1. sample \in Histories
        BY <2>3, <3>2, SampledByKind
      <4>2. sample.enabled \in BOOLEAN
            /\ sample.history \in HistoriesOver(Answering!Status, {"none", "http", "browser"})
        BY <4>1, SampledHistories
      <4> QED BY <1>1, <4>2
    <3> QED BY <3>1, <3>2 DEF AnswersAgree
  <2>4. AnswersInv /\ Sampled => AnswersAgree
    BY <2>3
  <2> QED BY <2>1, <2>2, <2>4, SampleIsKept, PTL DEF ServicesSpec
<1> QED BY <1>1, <1>2, <1>3
=============================================================================
