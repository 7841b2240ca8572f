----------------------------- MODULE MCDelivery -----------------------------
(***************************************************************************)
(* Instances of Delivery for TLC.                                          *)
(***************************************************************************)
EXTENDS Delivery

CONSTANTS r1, t1, t2

OneRun == {r1}
OneTarget == {t1}
TwoTargets == {t1, t2}
=============================================================================
