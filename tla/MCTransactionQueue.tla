-------------------------- MODULE MCTransactionQueue --------------------------
(* Instances of TransactionQueue for TLC.                                   *)
EXTENDS TransactionQueue, TLC

CONSTANTS r1, r2, caller1, poller

OneRow == {r1}
TwoRows == {r1, r2}
OneCaller == {caller1}
NoCaller == {}
=============================================================================
