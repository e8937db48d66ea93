----------------------------- MODULE MCPollerLoop -----------------------------
(* Instances of PollerLoop for TLC.                                         *)
EXTENDS PollerLoop, TLC

CONSTANTS d1, d2, c1, c2

TwoDists == {d1, d2}
OwnContract == d1 :> c1 @@ d2 :> c2
=============================================================================
