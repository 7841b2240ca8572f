---------------------------- MODULE RunPipeline -----------------------------
(***************************************************************************)
(* What the web server, the queue and the worker promise together about a  *)
(* run: it is executed, judged and delivered in this order, each at most   *)
(* once, and it may be dropped on the way but never taken up again.        *)
(* RunLifecycle implements it.                                             *)
(***************************************************************************)
CONSTANT Run

VARIABLE phase

Phases == {"absent", "asked", "executing", "recorded", "judged", "delivered", "dropped"}

PhaseOK == phase \in [Run -> Phases]

Init == phase = [r \in Run |-> "absent"]

Move(r, from, to) == phase[r] \in from /\ phase' = [phase EXCEPT ![r] = to]

Ask(r)     == Move(r, {"absent"}, "asked")
Execute(r) == Move(r, {"absent", "asked"}, "executing")
Record(r)  == Move(r, {"executing"}, "recorded")
Judge(r)   == Move(r, {"recorded"}, "judged")
Deliver(r) == Move(r, {"judged"}, "delivered")

\* One crash drops everything the process had in hand.
Drop(lostRuns) ==
    /\ \A r \in lostRuns : phase[r] # "delivered"
    /\ phase' = [r \in Run |-> IF r \in lostRuns THEN "dropped" ELSE phase[r]]

Next ==
    \/ \E r \in Run : Ask(r) \/ Execute(r) \/ Record(r) \/ Judge(r) \/ Deliver(r)
    \/ \E lostRuns \in SUBSET Run : Drop(lostRuns)

Spec == Init /\ [][Next]_phase
=============================================================================
