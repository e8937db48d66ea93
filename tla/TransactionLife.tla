--------------------------- MODULE TransactionLife ---------------------------
(***************************************************************************)
(* What the queue promises about a transaction that was saved: the chain   *)
(* runs its script once, and once more for each time that the service was  *)
(* interrupted between sending it and noting that it did; the service      *)
(* answers once, and for a reason: "complete" after a run that succeeded,  *)
(* "failed" after a run that did not, or when the node refused what was    *)
(* sent last.                                                              *)
(*                                                                         *)
(* It does not promise that a refused transaction never runs: a node that  *)
(* returns an error may have taken it, and then a script runs, and may     *)
(* succeed, whose transaction has failed for the service.                  *)
(*                                                                         *)
(* TransactionQueue implements this specification.                         *)
(***************************************************************************)
EXTENDS Integers

CONSTANT Rows  \* the transactions that handlers save

VARIABLES
  saved,        \* the transactions that were saved
  runs,         \* runs[r]: how often r ran, and was executed or reverted
  interrupted,  \* interrupted[r]: how often nobody noted that r was sent
  refused,      \* the transactions that were refused, which is not noted yet
  answer        \* answer[r]: what the service says about r

Outcomes == {"executed", "reverted"}

Init ==
  /\ saved = {}
  /\ runs = [r \in Rows |-> [o \in Outcomes |-> 0]]
  /\ interrupted = [r \in Rows |-> 0]
  /\ refused = {}
  /\ answer = [r \in Rows |-> "none"]

Save(r) ==
  /\ r \notin saved
  /\ saved' = saved \cup {r}
  /\ UNCHANGED <<runs, interrupted, refused, answer>>

Run(r, o) ==
  /\ r \in saved
  /\ runs[r]["executed"] + runs[r]["reverted"] <= interrupted[r]
  /\ runs' = [runs EXCEPT ![r][o] = @ + 1]
  /\ UNCHANGED <<saved, interrupted, refused, answer>>

Open(r) == r \in saved /\ answer[r] = "none"

(* A node returns an error for r, which it may have taken all the same.    *)
Refuse(r) ==
  /\ Open(r)
  /\ refused' = refused \cup {r}
  /\ UNCHANGED <<saved, runs, interrupted, answer>>

(* The service, or its database transaction, is stopped after sending r,   *)
(* and forgets how the node has answered.                                  *)
Interrupt(r) ==
  /\ Open(r)
  /\ interrupted' = [interrupted EXCEPT ![r] = @ + 1]
  /\ refused' = refused \ {r}
  /\ UNCHANGED <<saved, runs, answer>>

AnswerRefusal(r) ==
  /\ Open(r) /\ r \in refused
  /\ answer' = [answer EXCEPT ![r] = "failed"]
  /\ refused' = refused \ {r}
  /\ UNCHANGED <<saved, runs, interrupted>>

Meaning(o) == IF o = "executed" THEN "complete" ELSE "failed"

AnswerRun(r, o) ==
  /\ Open(r) /\ runs[r][o] > 0
  /\ answer' = [answer EXCEPT ![r] = Meaning(o)]
  /\ UNCHANGED <<saved, runs, interrupted, refused>>

Next ==
  \E r \in Rows :
    \/ Save(r) \/ Refuse(r) \/ Interrupt(r) \/ AnswerRefusal(r)
    \/ \E o \in Outcomes : Run(r, o) \/ AnswerRun(r, o)

Spec == Init /\ [][Next]_<<saved, runs, interrupted, refused, answer>>

=============================================================================
