--------------------------- MODULE DistributionLife ---------------------------
(***************************************************************************)
(* What the service promises about the state of a distribution: it goes    *)
(* through its stages one after the other, an operator may end it at any   *)
(* time before it is complete, and an end is final.  Each step is atomic.  *)
(*                                                                         *)
(* PDSService and PollerLoop implement this specification.                 *)
(***************************************************************************)
EXTENDS Integers

CONSTANT Dists    \* the distributions that the service may get to know

VARIABLE dist     \* dist[d]: the state of distribution d

Stages == <<"resolved", "setup", "settling", "settled", "minting", "complete">>

Init == dist = [d \in Dists |-> "none"]

Create(d) ==
  /\ dist[d] = "none"
  /\ dist' = [dist EXCEPT ![d] = Stages[1]]

(* A handler takes distributions that are in one stage to the next one.    *)
Advance(i, D) ==
  /\ \A d \in D : dist[d] = Stages[i]
  /\ dist' = [d \in Dists |-> IF d \in D THEN Stages[i + 1] ELSE dist[d]]

Abort(d) ==
  /\ dist[d] \notin {"none", "complete"}
  /\ dist' = [dist EXCEPT ![d] = "invalid"]

Next ==
  \/ \E d \in Dists : Create(d) \/ Abort(d)
  \/ \E i \in 1..5, D \in SUBSET Dists : Advance(i, D)

Spec == Init /\ [][Next]_dist

=============================================================================
