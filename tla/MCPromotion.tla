---------------------------- MODULE MCPromotion ----------------------------
(***************************************************************************)
(* Instances of Promotion for TLC.                                         *)
(***************************************************************************)
EXTENDS Promotion

CONSTANTS j1, j2

OneJob == {j1}
TwoJobs == {j1, j2}
=============================================================================
