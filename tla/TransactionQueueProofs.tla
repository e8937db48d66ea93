------------------------ MODULE TransactionQueueProofs ------------------------
(***************************************************************************)
(* Proofs about TransactionQueue for every value of its constants: any     *)
(* number of rows, of requests and of keys, any bounds.                    *)
(***************************************************************************)
EXTENDS TransactionQueue, TLAPS, FiniteSetTheorems, SequenceTheorems

----------------------------------------------------------------------------
(* Sequences.                                                              *)

(* A sequence without one of its elements is a sequence.                   *)
LEMMA RemoveAtType ==
  ASSUME NEW S, NEW s \in Seq(S), NEW i \in 1..Len(s)
  PROVE  RemoveAt(s, i) \in Seq(S)
BY DEF RemoveAt

(* A set of positions has a first one.                                     *)
LEMMA FirstPosition ==
  ASSUME NEW n \in Nat, NEW I \in SUBSET (1..n), I # {}
  PROVE  Min(I) \in I
<1>1. I \in SUBSET Nat
  OBVIOUS
<1>2. PICK i \in I : \A j \in I : ~(<<j, i>> \in OpToRel(<, Nat))
  BY <1>1, NatLessThanWellFounded, WFMin
<1>3. \A j \in I : <<j, i>> \in Nat \X Nat
  BY <1>1
<1>4. \A j \in I : ~(j < i)
  <2> SUFFICES ASSUME NEW j \in I, j < i
               PROVE  FALSE
    OBVIOUS
  <2>1. <<j, i>> \in OpToRel(<, Nat)
    BY <1>3 DEF OpToRel
  <2> QED
    BY <1>2, <2>1
<1>5. \A j \in I : i <= j
  BY <1>1, <1>4
<1> QED
  BY <1>5 DEF Min

(* Removing an element leaves a sequence of the same kind.                 *)
LEMMA RemoveFirstType ==
  ASSUME NEW S, NEW s \in Seq(S), NEW e
  PROVE  RemoveFirst(s, e) \in Seq(S)
<1> DEFINE I == {i \in 1..Len(s) : s[i] = e}
<1>1. CASE I # {}
  <2>1. Min(I) \in I
    BY <1>1, FirstPosition, Len(s) \in Nat
  <2>2. RemoveFirst(s, e) = RemoveAt(s, Min(I))
    BY <1>1 DEF RemoveFirst, SelectInSeq
  <2>3. Min(I) \in 1..Len(s)
    BY <2>1
  <2> HIDE DEF I
  <2> QED
    BY <2>2, <2>3, RemoveAtType
<1>2. CASE I = {}
  BY <1>2 DEF RemoveFirst
<1> QED
  BY <1>1, <1>2

----------------------------------------------------------------------------
(* The values that the steps give to records.                              *)

WorkRecords ==
  [phase : Phases, job : Rows \cup Senders, key : Keys \cup {0}, seq : Nat,
   id : Attempts \cup {0}]

LookedWork(job, k) ==
  [phase |-> "looked", job |-> job, key |-> k, seq |-> chainSeq[k], id |-> 0]
ReadyWork(s) ==
  [phase |-> "ready", job |-> work[s].job, key |-> work[s].key,
   seq |-> NextNumber(work[s].key, work[s].seq), id |-> work[s].id]
GivenWork(s, phase) ==
  [phase |-> phase, job |-> work[s].job, key |-> work[s].key,
   seq |-> work[s].seq, id |-> Len(attempt) + 1]
EndPhase(s) == IF s = Poller THEN "idle" ELSE "done"
EndedWork(s) == [phase |-> EndPhase(s), job |-> Poller, key |-> 0, seq |-> 0, id |-> 0]
GivenAttempt(s, state) ==
  [job |-> work[s].job, key |-> work[s].key, seq |-> work[s].seq,
   run |-> crashes, state |-> state, saved |-> FALSE]

(* A sender that looks for a key has seen one that is unlocked.            *)
LEMMA FirstUnlockedIn ==
  ASSUME Keys \ locked # {}
  PROVE  FirstUnlocked \in Keys \ locked
<1> DEFINE I == Keys \ locked
<1>1. I \in SUBSET (1..NumKeys) /\ NumKeys \in Nat
  BY QueueAssumption DEF Keys
<1>2. Min(I) \in I
  BY <1>1, FirstPosition
<1>3. Min(I) = FirstUnlocked
  BY DEF Min, FirstUnlocked
<1> QED
  BY <1>2, <1>3

(* A sender that looks notes its job, a key and the number on the chain.   *)
LEMMA LookWork ==
  ASSUME NEW s, NEW job, Look(s, job)
  PROVE  work' = [work EXCEPT ![s] = LookedWork(job, FirstUnlocked)]
<1>1. PICK w : w = [Idle EXCEPT !.phase = "looked", !.job = job, !.key = FirstUnlocked,
                                !.seq = chainSeq[FirstUnlocked]]
  OBVIOUS
<1>2. work' = [work EXCEPT ![s] = w]
  BY <1>1, Zenon DEF Look
<1>3. PICK v : v = [Idle EXCEPT !.phase = "looked"]
  OBVIOUS
<1>4. PICK u : u = [v EXCEPT !.job = job]
  OBVIOUS
<1>5. PICK t : t = [u EXCEPT !.key = FirstUnlocked]
  OBVIOUS
<1>6. w = [t EXCEPT !.seq = chainSeq[FirstUnlocked]]
  BY <1>1, <1>3, <1>4, <1>5, Zenon
<1>7. v = [phase |-> "looked", job |-> Poller, key |-> 0, seq |-> 0, id |-> 0]
  BY <1>3 DEF Idle
<1>8. u = [phase |-> "looked", job |-> job, key |-> 0, seq |-> 0, id |-> 0]
  BY <1>4, <1>7
<1>9. t = [phase |-> "looked", job |-> job, key |-> FirstUnlocked, seq |-> 0, id |-> 0]
  BY <1>5, <1>8
<1>10. w = LookedWork(job, FirstUnlocked)
  BY <1>6, <1>9 DEF LookedWork
<1> QED
  BY <1>2, <1>10

(* A sender that locks notes the number that it takes.                     *)
LEMMA LockWork ==
  ASSUME QueueTypeOK, NEW s \in Senders, Lock(s)
  PROVE  work' = [work EXCEPT ![s] = ReadyWork(s)]
<1>1. work \in [Senders -> WorkRecords] /\ work[s] \in WorkRecords
  BY DEF QueueTypeOK, WorkRecords
<1>2. PICK w : w = [work[s] EXCEPT !.phase = "ready"]
  OBVIOUS
<1>3. w = [phase |-> "ready", job |-> work[s].job, key |-> work[s].key,
           seq |-> work[s].seq, id |-> work[s].id]
  BY <1>1, <1>2 DEF WorkRecords
<1>4. [w EXCEPT !.seq = NextNumber(work[s].key, work[s].seq)] = ReadyWork(s)
  BY <1>3 DEF ReadyWork
<1>5. work' = [work EXCEPT ![s].phase = "ready", ![s].seq = NextNumber(work[s].key, work[s].seq)]
  BY Zenon DEF Lock
<1>6. work' = [[work EXCEPT ![s] = w] EXCEPT ![s].seq = NextNumber(work[s].key, work[s].seq)]
  BY <1>2, <1>5, Zenon
<1>7. [work EXCEPT ![s] = w][s] = w
  BY <1>1
<1> QED
  BY <1>1, <1>4, <1>6, <1>7

(* A sender that gives a transaction to a node notes the attempt.          *)
LEMMA GiveWork ==
  ASSUME QueueTypeOK, NEW s \in Senders, NEW phase, NEW state, Give(s, phase, state)
  PROVE  work' = [work EXCEPT ![s] = GivenWork(s, phase)]
<1>1. work \in [Senders -> WorkRecords] /\ work[s] \in WorkRecords
  BY DEF QueueTypeOK, WorkRecords
<1>2. PICK w : w = [work[s] EXCEPT !.phase = phase]
  OBVIOUS
<1>3. w = [phase |-> phase, job |-> work[s].job, key |-> work[s].key,
           seq |-> work[s].seq, id |-> work[s].id]
  BY <1>1, <1>2 DEF WorkRecords
<1>4. [w EXCEPT !.id = Len(attempt) + 1] = GivenWork(s, phase)
  BY <1>3 DEF GivenWork
<1>5. work' = [work EXCEPT ![s].phase = phase, ![s].id = Len(attempt) + 1]
  BY Zenon DEF Give
<1>6. work' = [[work EXCEPT ![s] = w] EXCEPT ![s].id = Len(attempt) + 1]
  BY <1>2, <1>5, Zenon
<1>7. [work EXCEPT ![s] = w][s] = w
  BY <1>1
<1> QED
  BY <1>1, <1>4, <1>6, <1>7

(* A sender that is finished notes nothing.                                *)
LEMMA FinishedWork ==
  ASSUME NEW s
  PROVE  Finished(s) = [work EXCEPT ![s] = EndedWork(s)]
<1>1. PICK w : w = [Idle EXCEPT !.phase = EndPhase(s)]
  OBVIOUS
<1>2. w = EndedWork(s)
  BY <1>1 DEF Idle, EndedWork
<1>3. Finished(s) = [work EXCEPT ![s] = w]
  BY <1>1, Zenon DEF Finished, EndPhase
<1> QED
  BY <1>2, <1>3

(* Crash ends the work of every sender that is not idle.                   *)
LEMMA CrashWork ==
  ASSUME QueueTypeOK, Crash
  PROVE  work' = [s \in Senders |-> IF work[s].phase = "idle" THEN work[s]
                                                              ELSE EndedWork(s)]
<1>1. \A s \in Senders : Finished(s)[s] = EndedWork(s)
  BY FinishedWork DEF QueueTypeOK
<1> QED
  BY <1>1 DEF Crash

----------------------------------------------------------------------------
(* Attempts.                                                               *)

(* What a step does to attempts that were given to the network before: it  *)
(* never changes whose they are and with which key and number.             *)
SameAttempt(b, c) ==
  b.job = c.job /\ b.key = c.key /\ b.seq = c.seq /\ b.run = c.run

StateSet(t, u, a, x) ==
  /\ u \in Seq(AttemptRecords)
  /\ Len(u) = Len(t) /\ DOMAIN u = DOMAIN t
  /\ SameAttempt(u[a], t[a])
  /\ u[a].state = x /\ u[a].saved = t[a].saved
  /\ \A b \in DOMAIN t : b # a => u[b] = t[b]
SavedSet(t, u, a) ==
  /\ u \in Seq(AttemptRecords)
  /\ Len(u) = Len(t) /\ DOMAIN u = DOMAIN t
  /\ SameAttempt(u[a], t[a])
  /\ u[a].state = t[a].state /\ u[a].saved = TRUE
  /\ \A b \in DOMAIN t : b # a => u[b] = t[b]

(* The network changes the state of one attempt.                           *)
LEMMA SetState ==
  ASSUME NEW t \in Seq(AttemptRecords), NEW a \in DOMAIN t,
         NEW x \in NetworkStates, NEW u, u = [t EXCEPT ![a].state = x]
  PROVE  StateSet(t, u, a, x)
<1>1. t[a] \in AttemptRecords /\ a \in 1..Len(t)
  OBVIOUS
<1>2. PICK e : e = [t[a] EXCEPT !.state = x]
  OBVIOUS
<1>3. e = [job |-> t[a].job, key |-> t[a].key, seq |-> t[a].seq,
           run |-> t[a].run, state |-> x, saved |-> t[a].saved]
  BY <1>1, <1>2 DEF AttemptRecords
<1>4. e \in AttemptRecords
  BY <1>1, <1>3 DEF AttemptRecords
<1>5. u = [t EXCEPT ![a] = e]
  BY <1>2, Zenon
<1>6. PICK v : v = [t EXCEPT ![a] = e]
  OBVIOUS
<1>7. v = u
  BY <1>5, <1>6, Zenon
<1>8. v \in Seq(AttemptRecords) /\ Len(v) = Len(t) /\ DOMAIN v = DOMAIN t
  BY <1>1, <1>4, <1>6
<1>9. v[a] = e /\ \A b \in DOMAIN t : b # a => v[b] = t[b]
  BY <1>1, <1>6
<1> QED
  BY <1>3, <1>7, <1>8, <1>9 DEF SameAttempt, StateSet

(* A row is saved with an attempt.                                         *)
LEMMA SetSaved ==
  ASSUME NEW t \in Seq(AttemptRecords), NEW a \in DOMAIN t,
         NEW u, u = [t EXCEPT ![a].saved = TRUE]
  PROVE  SavedSet(t, u, a)
<1>1. t[a] \in AttemptRecords /\ a \in 1..Len(t)
  OBVIOUS
<1>2. PICK e : e = [t[a] EXCEPT !.saved = TRUE]
  OBVIOUS
<1>3. e = [job |-> t[a].job, key |-> t[a].key, seq |-> t[a].seq,
           run |-> t[a].run, state |-> t[a].state, saved |-> TRUE]
  BY <1>1, <1>2 DEF AttemptRecords
<1>4. e \in AttemptRecords
  BY <1>1, <1>3 DEF AttemptRecords
<1>5. u = [t EXCEPT ![a] = e]
  BY <1>2, Zenon
<1>6. PICK v : v = [t EXCEPT ![a] = e]
  OBVIOUS
<1>7. v = u
  BY <1>5, <1>6, Zenon
<1>8. v \in Seq(AttemptRecords) /\ Len(v) = Len(t) /\ DOMAIN v = DOMAIN t
  BY <1>1, <1>4, <1>6
<1>9. v[a] = e /\ \A b \in DOMAIN t : b # a => v[b] = t[b]
  BY <1>1, <1>6
<1> QED
  BY <1>3, <1>7, <1>8, <1>9 DEF SameAttempt, SavedSet

(* A new attempt comes after the others.                                   *)
LEMMA NewAttempt ==
  ASSUME NEW t \in Seq(AttemptRecords), NEW e \in AttemptRecords,
         NEW u, u = Append(t, e)
  PROVE  /\ u \in Seq(AttemptRecords)
         /\ Len(u) = Len(t) + 1 /\ DOMAIN u = DOMAIN t \cup {Len(t) + 1}
         /\ Len(t) + 1 \notin DOMAIN t
         /\ u[Len(t) + 1] = e
         /\ \A b \in DOMAIN t : u[b] = t[b]
OBVIOUS

----------------------------------------------------------------------------
(* Every variable keeps its type.                                          *)

(* The results of the network have a state of the database.                *)
LEMMA StateAfterType ==
  ASSUME NEW x
  PROVE  StateAfter(x) \in {"complete", "failed", "retry", "sent"}
BY DEF StateAfter

(* SaveRow keeps the types of the table and of its order.                  *)
LEMMA SaveRowType ==
  ASSUME QueueTypeOK, NEW r \in Rows, NEW state \in RowStates,
         NEW id \in Attempts \cup {0}, SaveRow(r, state, id)
  PROVE  /\ row' \in [Rows -> [state : RowStates, id : Attempts \cup {0}]]
         /\ order' \in Seq(Rows)
<1>1. row' \in [Rows -> [state : RowStates, id : Attempts \cup {0}]]
  BY DEF SaveRow, QueueTypeOK
<1>2. Dropped(r) \in Seq(Rows)
  BY RemoveFirstType DEF Dropped, QueueTypeOK
<1>3. Touched(r) \in Seq(Rows)
  BY <1>2 DEF Touched
<1> QED
  BY <1>1, <1>2, <1>3 DEF SaveRow

(* A number that is taken is a number.                                     *)
LEMMA NextNumberType ==
  ASSUME QueueTypeOK, NEW k \in Keys, NEW n \in Nat
  PROVE  NextNumber(k, n) \in Nat
BY DEF NextNumber, QueueTypeOK, NotRead

(* Steps that leave the attempts alone, and keep the type of the rest.     *)
LEMMA SameDomain ==
  ASSUME Attempts' = Attempts
  PROVE  WorkRecords' = WorkRecords
BY DEF WorkRecords

(* One sender moves, and the notes of all keep their type.                 *)
LEMMA WorkType ==
  ASSUME QueueTypeOK, NEW s \in Senders, NEW w \in WorkRecords,
         work' = [work EXCEPT ![s] = w], attempt' = attempt
  PROVE  work' \in [Senders -> WorkRecords']
BY DEF QueueTypeOK, WorkRecords, Attempts

----------------------------------------------------------------------------
(* What the senders are at.  This is the first part of the inductive       *)
(* invariant: the types of the variables depend on it.                     *)

Holding(s) == work[s].phase \in {"ready", "sent", "refused"}
InFlight(s) == work[s].phase \in {"sent", "refused"}

(* Who works has seen a key, and works for itself or, the poller, for a    *)
(* row that may be sent; nobody else changes that row.                     *)
JobOK(s) ==
  work[s].phase = "looked" \/ Holding(s) =>
    /\ work[s].key \in Keys
    /\ s # Poller => work[s].job = s
    /\ s = Poller => /\ work[s].job \in Rows
                     /\ row[work[s].job].state \in {"init", "retry"}

(* What is in flight is an attempt that no row knows of.                   *)
FlightOK(s) ==
  /\ InFlight(s) => /\ work[s].id \in Attempts
                    /\ attempt[work[s].id].job = work[s].job
                    /\ attempt[work[s].id].key = work[s].key
                    /\ attempt[work[s].id].saved = FALSE
  /\ ~InFlight(s) => work[s].id = 0
  /\ work[s].phase = "refused" => Faulty

JobsOK == \A s \in Senders : JobOK(s) /\ FlightOK(s)

Base == QueueTypeOK /\ JobsOK

----------------------------------------------------------------------------
(* What the steps do to attempts.                                          *)

(* The attempt that the poller has in flight belongs to a row that may be  *)
(* sent.                                                                   *)
LEMMA PollerFlight ==
  ASSUME Base, InFlight(Poller)
  PROVE  /\ work[Poller].id \in Attempts
         /\ work[Poller].job \in Rows
         /\ row[work[Poller].job].state \in {"init", "retry"}
         /\ work[Poller].key \in Keys
         /\ attempt[work[Poller].id].job = work[Poller].job
         /\ attempt[work[Poller].id].key = work[Poller].key
         /\ attempt[work[Poller].id].saved = FALSE
<1>1. Poller \in Senders
  BY DEF Senders
<1>2. JobOK(Poller) /\ FlightOK(Poller)
  BY <1>1 DEF Base, JobsOK
<1> QED
  BY <1>2 DEF JobOK, FlightOK, InFlight, Holding

(* Whatever is given to the network is an attempt.                         *)
LEMMA GiveAttempt ==
  ASSUME Base, NEW s \in Senders, NEW phase, NEW state \in {"pending", "unknown"},
         Give(s, phase, state)
  PROVE  /\ attempt' \in Seq(AttemptRecords)
         /\ Len(attempt') = Len(attempt) + 1
         /\ Attempts' = Attempts \cup {Len(attempt) + 1}
         /\ Len(attempt) + 1 \notin Attempts
         /\ attempt'[Len(attempt) + 1] = GivenAttempt(s, state)
         /\ \A b \in Attempts : attempt'[b] = attempt[b]
<1>1. attempt \in Seq(AttemptRecords) /\ work[s] \in WorkRecords /\ crashes \in Nat
  BY DEF Base, QueueTypeOK, WorkRecords
<1>2. work[s].phase = "ready" /\ attempt' = Append(attempt, GivenAttempt(s, state))
  BY DEF Give, GivenAttempt
<1>3. JobOK(s)
  BY DEF Base, JobsOK
<1>4. work[s].key \in Keys /\ work[s].job \in Rows \cup Callers
  BY <1>2, <1>3 DEF JobOK, Holding, Senders
<1>5. state \in NetworkStates /\ work[s].seq \in Nat
  BY <1>1 DEF NetworkStates, WorkRecords
<1>6. GivenAttempt(s, state) \in AttemptRecords
  BY <1>1, <1>4, <1>5 DEF GivenAttempt, AttemptRecords
<1> HIDE DEF GivenAttempt
<1> QED
  BY <1>1, <1>2, <1>6, NewAttempt DEF Attempts

(* A commit marks the attempt as one that its row knows.                   *)
LEMMA CommitAttempt ==
  ASSUME Base, Commit
  PROVE  SavedSet(attempt, attempt', work[Poller].id)
<1>1. InFlight(Poller) /\ attempt' = [attempt EXCEPT ![work[Poller].id].saved = TRUE]
  BY Zenon DEF Commit, InFlight
<1>2. PICK a : a = work[Poller].id
  OBVIOUS
<1>3. a \in DOMAIN attempt /\ attempt \in Seq(AttemptRecords)
  BY <1>1, <1>2, PollerFlight DEF Base, QueueTypeOK, Attempts
<1>4. attempt' = [attempt EXCEPT ![a].saved = TRUE]
  BY <1>1, <1>2, Zenon
<1>5. SavedSet(attempt, attempt', a)
  BY <1>3, <1>4, SetSaved
<1> QED
  BY <1>2, <1>5

(* The steps of the network change the state of one attempt.               *)
Becomes(a, x) == StateSet(attempt, attempt', a, x)

(* Finalizing changes the state of one attempt.                            *)
LEMMA FinalizeAttempt ==
  ASSUME Base, NEW a \in Attempts, Finalize(a)
  PROVE  Becomes(a, "final")
<1>1. attempt' = [attempt EXCEPT ![a].state = "final"]
  BY DEF Finalize
<1>2. attempt \in Seq(AttemptRecords) /\ "final" \in NetworkStates
  BY DEF Base, QueueTypeOK, NetworkStates
<1> QED
  BY <1>1, <1>2, SetState DEF Becomes, Attempts

(* Expiring changes the state of one attempt.                              *)
LEMMA ExpireAttempt ==
  ASSUME Base, NEW a \in Attempts, Expire(a)
  PROVE  Becomes(a, "expired")
<1>1. attempt' = [attempt EXCEPT ![a].state = "expired"]
  BY DEF Expire
<1>2. attempt \in Seq(AttemptRecords) /\ "expired" \in NetworkStates
  BY DEF Base, QueueTypeOK, NetworkStates
<1> QED
  BY <1>1, <1>2, SetState DEF Becomes, Attempts

(* Executing changes the state of the attempt at the head of the block.    *)
LEMMA ExecuteAttempt ==
  ASSUME Base, Execute
  PROVE  /\ Head(block) \in Attempts
         /\ \E x \in Sealed : Becomes(Head(block), x)
<1>1. block # <<>> /\ block \in Seq(Attempts) /\ attempt \in Seq(AttemptRecords)
  BY DEF Execute, Base, QueueTypeOK
<1>2. Head(block) \in Attempts
  BY <1>1
<1>3. \E x \in Sealed : attempt' = [attempt EXCEPT ![Head(block)].state = x]
  BY Zenon DEF Execute, Sealed
<1>4. PICK x \in Sealed : attempt' = [attempt EXCEPT ![Head(block)].state = x]
  BY <1>3
<1>5. x \in NetworkStates
  BY DEF NetworkStates
<1>6. Becomes(Head(block), x)
  BY <1>1, <1>2, <1>4, <1>5, SetState DEF Becomes, Attempts
<1> QED
  BY <1>2, <1>6

(* The steps of senders, each with the record that it gives to its sender. *)
LEMMA EndWork ==
  ASSUME Base, NEW s \in Senders, GiveUp(s) \/ CallerEnds(s)
  PROVE  /\ work' = [work EXCEPT ![s] = EndedWork(s)]
         /\ locked' = locked \ {work[s].key} /\ Holding(s)
         /\ UNCHANGED <<row, order, lastSeq, waiting, network, crashes>>
BY FinishedWork, Zenon DEF GiveUp, CallerEnds, Holding

(* The end of a database transaction frees the poller and leaves the key   *)
(* to a goroutine, whether it commits or not.                              *)
LEMMA CommitWork ==
  ASSUME Commit \/ CommitFails
  PROVE  /\ InFlight(Poller)
         /\ work' = [work EXCEPT ![Poller] = EndedWork(Poller)]
         /\ waiting' = waiting \cup {work[Poller].id}
         /\ UNCHANGED <<locked, lastSeq, block, chainSeq, crashes>>
BY FinishedWork, Zenon DEF Commit, CommitFails, InFlight, network

----------------------------------------------------------------------------
(* JobsOK is kept.                                                         *)

Kept(b) ==
  /\ b \in Attempts'
  /\ SameAttempt(attempt'[b], attempt[b])
  /\ attempt'[b].saved = attempt[b].saved

StaysSendable ==
  work[Poller].phase = "looked" \/ Holding(Poller) =>
    row'[work[Poller].job].state \in {"init", "retry"}

(* A sender that does not move keeps what it is at.                        *)
LEMMA OthersKept ==
  ASSUME NEW s \in Senders, JobOK(s), FlightOK(s), work'[s] = work[s],
         InFlight(s) => Kept(work[s].id),
         StaysSendable
  PROVE  JobOK(s)' /\ FlightOK(s)'
<1>1. JobOK(s)'
  BY DEF JobOK, Holding, StaysSendable
<1>2. FlightOK(s)'
  BY DEF FlightOK, InFlight, Kept, SameAttempt
<1> QED
  BY <1>1, <1>2

(* A sender that begins or ends has nothing in flight.                     *)
LEMMA EndedJob ==
  ASSUME NEW s \in Senders, work'[s] = EndedWork(s)
  PROVE  JobOK(s)' /\ FlightOK(s)'
BY DEF JobOK, FlightOK, Holding, InFlight, EndedWork, EndPhase

(* The network does not touch what a sender has in flight.                 *)
LEMMA KeptByNetwork ==
  ASSUME NEW a \in Attempts, NEW x, Becomes(a, x)
  PROVE  Attempts' = Attempts /\ \A b \in Attempts : Kept(b)
BY DEF Becomes, StateSet, Kept, SameAttempt, Attempts

(* Attempts that do not change are kept.                                   *)
LEMMA AllKept ==
  ASSUME attempt' = attempt
  PROVE  Attempts' = Attempts /\ \A b \in Attempts : Kept(b)
BY DEF Kept, SameAttempt, Attempts

(* Without a step of its own or of the rows, all senders keep their work.  *)
LEMMA JobsFrame ==
  ASSUME Base, work' = work, StaysSendable, \A b \in Attempts : Kept(b)
  PROVE  JobsOK'
<1>1. \A s \in Senders : JobOK(s)' /\ FlightOK(s)'
  <2> SUFFICES ASSUME NEW s \in Senders
               PROVE  JobOK(s)' /\ FlightOK(s)'
    OBVIOUS
  <2>1. JobOK(s) /\ FlightOK(s)
    BY DEF Base, JobsOK
  <2>2. InFlight(s) => Kept(work[s].id)
    BY <2>1 DEF FlightOK
  <2> QED
    BY <2>1, <2>2, OthersKept
<1> QED
  BY <1>1 DEF JobsOK, Senders

(* One sender moves.                                                       *)
LEMMA JobsStep ==
  ASSUME Base, NEW s \in Senders, NEW w, work' = [work EXCEPT ![s] = w],
         \A t \in Senders \ {s} : InFlight(t) => Kept(work[t].id),
         s = Poller \/ StaysSendable,
         JobOK(s)' /\ FlightOK(s)'
  PROVE  JobsOK'
<1>1. \A t \in Senders : JobOK(t)' /\ FlightOK(t)'
  <2> SUFFICES ASSUME NEW t \in Senders, t # s
               PROVE  JobOK(t)' /\ FlightOK(t)'
    OBVIOUS
  <2>1. JobOK(t) /\ FlightOK(t) /\ work'[t] = work[t]
    BY DEF Base, JobsOK, QueueTypeOK
  <2>2. CASE StaysSendable
    BY <2>1, <2>2, OthersKept
  <2>3. CASE s = Poller
    <3>1. JobOK(t)'
      BY <2>1, <2>3 DEF JobOK, Holding
    <3>2. FlightOK(t)'
      BY <2>1 DEF FlightOK, InFlight, Kept, SameAttempt
    <3> QED
      BY <3>1, <3>2
  <2> QED
    BY <2>2, <2>3
<1> QED
  BY <1>1 DEF JobsOK, Senders

(* Rows that do not change stay sendable.                                  *)
LEMMA RowsStay ==
  ASSUME Base, row' = row
  PROVE  StaysSendable
<1>1. JobOK(Poller)
  BY DEF Base, JobsOK, Senders
<1> QED
  BY <1>1 DEF StaysSendable, JobOK

(* No sender works on a row that is new.                                   *)
LEMMA JobsEnqueue ==
  ASSUME Base, NEW r \in Rows, Enqueue(r)
  PROVE  JobsOK'
<1>1. work' = work /\ attempt' = attempt
  BY DEF Enqueue, memory, network
<1>2. row[r].state = "none" /\ row' = [row EXCEPT ![r] = [state |-> "init", id |-> 0]]
  BY DEF Enqueue, SaveRow
<1>3. JobOK(Poller)
  BY DEF Base, JobsOK, Senders
<1>4. StaysSendable
  BY <1>2, <1>3 DEF StaysSendable, JobOK, Base, QueueTypeOK
<1> QED
  BY <1>1, <1>4, AllKept, JobsFrame

(* A sender looks for a job that may be sent.                              *)
LEMMA JobsLook ==
  ASSUME Base, NEW s \in Senders, NEW job, Look(s, job),
         s # Poller => job = s,
         s = Poller => job \in Rows /\ row[job].state \in Sendable
  PROVE  JobsOK'
<1>1. work' = [work EXCEPT ![s] = LookedWork(job, FirstUnlocked)]
  BY LookWork
<1>2. FirstUnlocked \in Keys /\ row' = row /\ attempt' = attempt
  BY FirstUnlockedIn DEF Look, network
<1>3. work'[s] = LookedWork(job, FirstUnlocked)
  BY <1>1 DEF Base, QueueTypeOK
<1>4. JobOK(s)' /\ FlightOK(s)'
  BY <1>2, <1>3 DEF JobOK, FlightOK, InFlight, Holding, LookedWork, Sendable, Keys
<1>5. \A b \in Attempts : Kept(b)
  BY <1>2, AllKept
<1>6. \A t \in Senders : InFlight(t) => Kept(work[t].id)
  BY <1>5 DEF Base, JobsOK, FlightOK
<1> QED
  BY <1>1, <1>2, <1>4, <1>6, RowsStay, JobsStep

(* A lock changes the number and the phase only.                           *)
LEMMA JobsLock ==
  ASSUME Base, NEW s \in Senders, Lock(s)
  PROVE  JobsOK'
<1>1. work' = [work EXCEPT ![s] = ReadyWork(s)]
  BY LockWork DEF Base
<1>2. work[s].phase = "looked" /\ row' = row /\ attempt' = attempt
  BY DEF Lock, network
<1>3. work'[s] = ReadyWork(s)
  BY <1>1 DEF Base, QueueTypeOK
<1>4. JobOK(s) /\ FlightOK(s)
  BY DEF Base, JobsOK
<1>5. JobOK(s)' /\ FlightOK(s)'
  BY <1>2, <1>3, <1>4 DEF JobOK, FlightOK, InFlight, Holding, ReadyWork, Keys
<1>6. \A b \in Attempts : Kept(b)
  BY <1>2, AllKept
<1>7. \A t \in Senders : InFlight(t) => Kept(work[t].id)
  BY <1>6 DEF Base, JobsOK, FlightOK
<1> QED
  BY <1>1, <1>2, <1>5, <1>7, RowsStay, JobsStep

(* The attempt of a sender is a new one, of its job and its key.           *)
LEMMA JobsGive ==
  ASSUME Base, NEW s \in Senders, NEW phase \in {"sent", "refused"},
         NEW state \in {"pending", "unknown"}, Give(s, phase, state),
         phase = "refused" => Faulty
  PROVE  JobsOK'
<1>1. work' = [work EXCEPT ![s] = GivenWork(s, phase)]
  BY GiveWork DEF Base
<1>2. work[s].phase = "ready" /\ row' = row
  BY DEF Give
<1>3. work'[s] = GivenWork(s, phase)
  BY <1>1 DEF Base, QueueTypeOK
<1>4. JobOK(s) /\ FlightOK(s)
  BY DEF Base, JobsOK
<1>5. JobOK(s)'
  BY <1>2, <1>3, <1>4 DEF JobOK, Holding, GivenWork, Keys
<1>6. /\ Attempts' = Attempts \cup {Len(attempt) + 1}
      /\ attempt'[Len(attempt) + 1] = GivenAttempt(s, state)
      /\ \A b \in Attempts : attempt'[b] = attempt[b]
  BY GiveAttempt
<1>7. FlightOK(s)'
  BY <1>3, <1>6 DEF FlightOK, InFlight, GivenWork, GivenAttempt
<1>8. \A b \in Attempts : Kept(b)
  BY <1>6 DEF Kept, SameAttempt
<1>9. \A t \in Senders : InFlight(t) => Kept(work[t].id)
  BY <1>8 DEF Base, JobsOK, FlightOK
<1> QED
  BY <1>1, <1>2, <1>5, <1>7, <1>9, RowsStay, JobsStep

(* A sender that ends has no attempt.                                      *)
LEMMA JobsEnd ==
  ASSUME Base, NEW s \in Senders, GiveUp(s) \/ CallerEnds(s)
  PROVE  JobsOK'
<1>1. work' = [work EXCEPT ![s] = EndedWork(s)]
  BY EndWork
<1>2. row' = row /\ attempt' = attempt
  BY EndWork DEF network
<1>3. work'[s] = EndedWork(s)
  BY <1>1 DEF Base, QueueTypeOK
<1>4. \A b \in Attempts : Kept(b)
  BY <1>2, AllKept
<1>5. \A t \in Senders : InFlight(t) => Kept(work[t].id)
  BY <1>4 DEF Base, JobsOK, FlightOK
<1> QED
  BY <1>1, <1>2, <1>3, <1>5, EndedJob, RowsStay, JobsStep

(* A request never has in flight what the poller commits.                  *)
LEMMA OtherFlight ==
  ASSUME Base, NEW c \in Senders, c # Poller, InFlight(c), InFlight(Poller)
  PROVE  work[c].id \in Attempts /\ work[c].id # work[Poller].id
<1>1. JobOK(c) /\ FlightOK(c) /\ c \in Callers
  BY DEF Base, JobsOK, Senders
<1>2. work[c].job = c /\ work[c].id \in Attempts /\ attempt[work[c].id].job = c
  BY <1>1 DEF JobOK, FlightOK, InFlight, Holding
<1>3. attempt[work[Poller].id].job \in Rows
  BY PollerFlight
<1> QED
  BY <1>1, <1>2, <1>3, QueueAssumption

(* The attempts of other senders are not that of the poller.               *)
LEMMA JobsCommit ==
  ASSUME Base, Commit \/ CommitFails
  PROVE  JobsOK'
<1>1. InFlight(Poller) /\ work' = [work EXCEPT ![Poller] = EndedWork(Poller)]
  BY CommitWork
<1>2. Poller \in Senders
  BY DEF Senders
<1>3. work'[Poller] = EndedWork(Poller)
  BY <1>1, <1>2 DEF Base, QueueTypeOK
<1>4. \A c \in Senders \ {Poller} : InFlight(c) => Kept(work[c].id)
  <2>1. CASE Commit
    <3>1. SavedSet(attempt, attempt', work[Poller].id)
      BY <2>1, CommitAttempt
    <3>2. \A b \in Attempts : b # work[Poller].id => Kept(b)
      BY <3>1 DEF SavedSet, Kept, SameAttempt, Attempts
    <3> QED
      BY <1>1, <3>2, OtherFlight
  <2>2. CASE CommitFails
    <3>1. attempt' = attempt
      BY <2>2 DEF CommitFails, network
    <3> QED
      BY <1>1, <3>1, AllKept, OtherFlight
  <2> QED
    BY <2>1, <2>2
<1> QED
  BY <1>1, <1>2, <1>3, <1>4, EndedJob, JobsStep

(* A result is of a row that was sent, which nobody sends.                 *)
LEMMA JobsResult ==
  ASSUME Base, HandleResult
  PROVE  JobsOK'
<1>1. work' = work /\ attempt' = attempt /\ work[Poller].phase = "idle"
  BY DEF HandleResult, memory, network
<1>2. StaysSendable
  BY <1>1 DEF StaysSendable, Holding
<1> QED
  BY <1>1, <1>2, AllKept, JobsFrame

(* After a crash nobody works.                                             *)
LEMMA JobsCrash ==
  ASSUME Base, Crash
  PROVE  JobsOK'
<1>1. \A s \in Senders : JobOK(s)' /\ FlightOK(s)'
  <2> SUFFICES ASSUME NEW s \in Senders
               PROVE  JobOK(s)' /\ FlightOK(s)'
    OBVIOUS
  <2>1. work'[s] = IF work[s].phase = "idle" THEN work[s] ELSE EndedWork(s)
    BY CrashWork DEF Base
  <2>2. FlightOK(s)
    BY DEF Base, JobsOK
  <2>3. CASE work[s].phase = "idle"
    BY <2>1, <2>2, <2>3 DEF JobOK, FlightOK, Holding, InFlight
  <2>4. CASE work[s].phase # "idle"
    BY <2>1, <2>4, EndedJob
  <2> QED
    BY <2>3, <2>4
<1> QED
  BY <1>1 DEF JobsOK, Senders

----------------------------------------------------------------------------
(* The types are kept.                                                     *)

(* The variables that name attempts keep their type while attempts stay.   *)
NamesOK ==
  /\ row \in [Rows -> [state : RowStates, id : Attempts \cup {0}]]
  /\ work \in [Senders -> WorkRecords]
  /\ waiting \subseteq Attempts
  /\ block \in Seq(Attempts)
OthersOK ==
  /\ order \in Seq(Rows)
  /\ locked \subseteq Keys
  /\ lastSeq \in [Keys -> Nat \cup {NotRead}]
  /\ attempt \in Seq(AttemptRecords)
  /\ chainSeq \in [Keys -> Nat]
  /\ crashes \in 0..MaxCrashes

(* The type invariant is the conjunction of its parts.                     *)
LEMMA TypeParts == QueueTypeOK <=> NamesOK /\ OthersOK
BY DEF QueueTypeOK, NamesOK, OthersOK, WorkRecords

(* And so after a step.                                                    *)
LEMMA TypePartsNext == NamesOK' /\ OthersOK' => QueueTypeOK'
BY DEF QueueTypeOK, NamesOK, OthersOK, WorkRecords

(* A row is appended to the order.                                         *)
LEMMA TypeEnqueue ==
  ASSUME Base, NEW r \in Rows, Enqueue(r)
  PROVE  QueueTypeOK'
<1>1. SaveRow(r, "init", 0) /\ UNCHANGED <<memory, network, crashes>>
  BY DEF Enqueue
<1>2. "init" \in RowStates
  BY DEF RowStates
<1>3. row' \in [Rows -> [state : RowStates, id : Attempts \cup {0}]] /\ order' \in Seq(Rows)
  BY <1>1, <1>2, SaveRowType DEF Base
<1> QED
  BY <1>1, <1>3, TypeParts, TypePartsNext
  DEF Base, NamesOK, OthersOK, memory, network, WorkRecords, Attempts, Senders, Keys

(* What a sender notes that looks.                                         *)
LEMMA LookedType ==
  ASSUME Base, NEW s \in Senders, NEW job \in Rows \cup Senders, Look(s, job)
  PROVE  LookedWork(job, FirstUnlocked) \in WorkRecords
<1>1. FirstUnlocked \in Keys
  BY FirstUnlockedIn DEF Look
<1>2. chainSeq[FirstUnlocked] \in Nat
  BY <1>1 DEF Base, QueueTypeOK
<1> QED
  BY <1>1, <1>2 DEF LookedWork, WorkRecords, Phases

(* What a sender notes that has ended.                                     *)
LEMMA EndedType ==
  ASSUME NEW s
  PROVE  EndedWork(s) \in WorkRecords
BY DEF EndedWork, WorkRecords, EndPhase, Phases, Senders

(* Steps that give a sender a new record and leave the attempts alone.     *)
LEMMA NamesWork ==
  ASSUME Base, NEW s \in Senders, NEW w \in WorkRecords,
         work' = [work EXCEPT ![s] = w],
         UNCHANGED <<row, attempt, block>>,
         waiting' \subseteq Attempts
  PROVE  NamesOK'
<1>1. work' \in [Senders -> WorkRecords']
  BY WorkType DEF Base
<1> QED
  BY <1>1, TypeParts DEF Base, NamesOK, Attempts, Senders

(* Looking keeps the types.                                                *)
LEMMA TypeLook ==
  ASSUME Base, NEW s \in Senders, NEW job \in Rows \cup Senders, Look(s, job)
  PROVE  QueueTypeOK'
<1>1. work' = [work EXCEPT ![s] = LookedWork(job, FirstUnlocked)]
  BY LookWork
<1>2. UNCHANGED <<row, order, locked, lastSeq, waiting, attempt, block, chainSeq, crashes>>
  BY DEF Look, network
<1>3. NamesOK'
  BY <1>1, <1>2, LookedType, NamesWork, TypeParts DEF Base, NamesOK
<1>4. OthersOK'
  BY <1>2, TypeParts DEF Base, OthersOK, Keys
<1> QED
  BY <1>3, <1>4, TypePartsNext

(* Locking keeps the types.                                                *)
LEMMA TypeLock ==
  ASSUME Base, NEW s \in Senders, Lock(s)
  PROVE  QueueTypeOK'
<1> DEFINE k == work[s].key
           n == NextNumber(k, work[s].seq)
<1>1. work' = [work EXCEPT ![s] = ReadyWork(s)]
  BY LockWork DEF Base
<1>2. /\ UNCHANGED <<row, order, waiting, attempt, block, chainSeq, crashes>>
      /\ locked' = locked \cup {k} /\ lastSeq' = [lastSeq EXCEPT ![k] = n]
      /\ work[s].phase = "looked"
  BY DEF Lock, network
<1>3. JobOK(s) /\ work[s] \in WorkRecords
  BY TypeParts DEF Base, JobsOK, NamesOK
<1>4. k \in Keys /\ work[s].seq \in Nat
  BY <1>2, <1>3 DEF JobOK, WorkRecords
<1>5. n \in Nat
  BY <1>4, NextNumberType DEF Base
<1>6. ReadyWork(s) \in WorkRecords
  BY <1>3, <1>5 DEF ReadyWork, WorkRecords, Phases
<1>7. NamesOK'
  BY <1>1, <1>2, <1>6, NamesWork, TypeParts DEF Base, NamesOK
<1> HIDE DEF k, n
<1>8. OthersOK'
  BY <1>2, <1>4, <1>5, TypeParts DEF Base, OthersOK, Keys
<1> QED
  BY <1>7, <1>8, TypePartsNext

(* Ending keeps the types.                                                 *)
LEMMA TypeEnd ==
  ASSUME Base, NEW s \in Senders, GiveUp(s) \/ CallerEnds(s)
  PROVE  QueueTypeOK'
<1>1. /\ work' = [work EXCEPT ![s] = EndedWork(s)]
      /\ locked' = locked \ {work[s].key}
      /\ UNCHANGED <<row, order, lastSeq, waiting, network, crashes>>
  BY EndWork
<1>2. NamesOK'
  BY <1>1, EndedType, NamesWork, TypeParts DEF Base, NamesOK, network
<1>3. OthersOK'
  BY <1>1, TypeParts DEF Base, OthersOK, network, Keys
<1> QED
  BY <1>2, <1>3, TypePartsNext

(* A new attempt keeps the types: whoever names an older one still does.   *)
LEMMA TypeGive ==
  ASSUME Base, NEW s \in Senders, NEW phase \in {"sent", "refused"},
         NEW state \in {"pending", "unknown"}, Give(s, phase, state)
  PROVE  QueueTypeOK'
<1>1. work' = [work EXCEPT ![s] = GivenWork(s, phase)]
  BY GiveWork DEF Base
<1>2. UNCHANGED <<row, order, locked, lastSeq, waiting, block, chainSeq, crashes>>
  BY DEF Give
<1>3. /\ attempt' \in Seq(AttemptRecords)
      /\ Attempts' = Attempts \cup {Len(attempt) + 1}
  BY GiveAttempt
<1>4. work \in [Senders -> WorkRecords]
  BY TypeParts DEF Base, NamesOK
<1>5. WorkRecords \subseteq WorkRecords'
  BY <1>3 DEF WorkRecords, Senders, Keys
<1>6. work[s] \in WorkRecords
  BY <1>4
<1>7. GivenWork(s, phase) \in WorkRecords'
  BY <1>3, <1>6 DEF GivenWork, WorkRecords, Phases, Senders, Keys
<1>8. work' \in [Senders -> WorkRecords']
  BY <1>1, <1>4, <1>5, <1>7
<1>9. row \in [Rows -> [state : RowStates, id : Attempts' \cup {0}]]
  <2>1. row \in [Rows -> [state : RowStates, id : Attempts \cup {0}]]
    BY TypeParts DEF Base, NamesOK
  <2>2. [state : RowStates, id : Attempts \cup {0}]
          \subseteq [state : RowStates, id : Attempts' \cup {0}]
    BY <1>3
  <2> QED
    BY <2>1, <2>2
<1>10. block \in Seq(Attempts') /\ waiting \subseteq Attempts'
  BY <1>3, SeqMonotonic, TypeParts DEF Base, NamesOK
<1>11. NamesOK'
  BY <1>2, <1>8, <1>9, <1>10 DEF NamesOK, Senders
<1>12. OthersOK'
  BY <1>2, <1>3, TypeParts DEF Base, OthersOK, Keys
<1> QED
  BY <1>11, <1>12, TypePartsNext

(* A commit keeps the types.                                               *)
LEMMA TypeCommit ==
  ASSUME Base, Commit
  PROVE  QueueTypeOK'
<1>1. /\ work' = [work EXCEPT ![Poller] = EndedWork(Poller)]
      /\ waiting' = waiting \cup {work[Poller].id}
      /\ InFlight(Poller)
      /\ UNCHANGED <<locked, lastSeq, block, chainSeq, crashes>>
  BY CommitWork
<1>2. SavedSet(attempt, attempt', work[Poller].id)
  BY CommitAttempt
<1>3. Attempts' = Attempts /\ attempt' \in Seq(AttemptRecords)
  BY <1>2 DEF SavedSet, Attempts
<1>4. work[Poller].id \in Attempts /\ work[Poller].job \in Rows /\ Poller \in Senders
  BY <1>1, PollerFlight DEF Senders
<1>5. \E state \in RowStates : SaveRow(work[Poller].job, state, work[Poller].id)
  BY Zenon DEF Commit, RowStates
<1>6. /\ row' \in [Rows -> [state : RowStates, id : Attempts \cup {0}]]
      /\ order' \in Seq(Rows)
  BY <1>4, <1>5, SaveRowType DEF Base
<1>7. work' \in [Senders -> WorkRecords]
  BY <1>1, <1>4, EndedType, TypeParts DEF Base, NamesOK
<1>8. NamesOK'
  BY <1>1, <1>3, <1>4, <1>6, <1>7, SameDomain, TypeParts DEF Base, NamesOK, Senders
<1>9. OthersOK'
  BY <1>1, <1>3, <1>6, TypeParts DEF Base, OthersOK, Keys
<1> QED
  BY <1>8, <1>9, TypePartsNext

(* A rollback keeps the types.                                             *)
LEMMA TypeCommitFails ==
  ASSUME Base, CommitFails
  PROVE  QueueTypeOK'
<1>1. /\ work' = [work EXCEPT ![Poller] = EndedWork(Poller)]
      /\ waiting' = waiting \cup {work[Poller].id}
      /\ InFlight(Poller)
      /\ UNCHANGED <<locked, lastSeq, block, chainSeq, crashes>>
  BY CommitWork
<1>2. UNCHANGED <<row, order, attempt>>
  BY DEF CommitFails, network
<1>3. work[Poller].id \in Attempts /\ Poller \in Senders
  BY <1>1, PollerFlight DEF Senders
<1>4. NamesOK'
  BY <1>1, <1>2, <1>3, EndedType, NamesWork, TypeParts DEF Base, NamesOK
<1>5. OthersOK'
  BY <1>1, <1>2, TypeParts DEF Base, OthersOK, Keys
<1> QED
  BY <1>4, <1>5, TypePartsNext

(* A transaction becomes final, expires, or is executed.                   *)
LEMMA TypeNetwork ==
  ASSUME Base, NEW a \in Attempts, NEW x, Becomes(a, x),
         UNCHANGED <<row, order, memory, crashes>>,
         block' \in Seq(Attempts),
         chainSeq' \in [Keys -> Nat]
  PROVE  QueueTypeOK'
<1>1. Attempts' = Attempts /\ attempt' \in Seq(AttemptRecords)
  BY DEF Becomes, StateSet, Attempts
<1>2. NamesOK'
  BY <1>1, SameDomain, TypeParts DEF Base, NamesOK, memory, Senders
<1>3. OthersOK'
  BY <1>1, TypeParts DEF Base, OthersOK, memory, Keys
<1> QED
  BY <1>2, <1>3, TypePartsNext

(* An execution keeps the types.                                           *)
LEMMA TypeExecute ==
  ASSUME Base, Execute
  PROVE  QueueTypeOK'
<1>1. PICK x \in Sealed : Head(block) \in Attempts /\ Becomes(Head(block), x)
  BY ExecuteAttempt
<1>2. block # <<>> /\ block' = Tail(block) /\ UNCHANGED <<row, order, memory, crashes>>
  BY DEF Execute
<1>3. block' \in Seq(Attempts)
  BY <1>2 DEF Base, QueueTypeOK
<1>4. chainSeq \in [Keys -> Nat]
  BY DEF Base, QueueTypeOK
<1>5. \/ chainSeq' = [chainSeq EXCEPT ![attempt[Head(block)].key]
                        = chainSeq[attempt[Head(block)].key] + 1]
      \/ chainSeq' = chainSeq
  BY Zenon DEF Execute
<1>6. chainSeq' \in [Keys -> Nat]
  BY <1>4, <1>5
<1> QED
  BY <1>1, <1>2, <1>3, <1>6, TypeNetwork

(* Unlocking keeps the types.                                              *)
LEMMA TypeUnlock ==
  ASSUME Base, NEW a \in Attempts, Unlock(a)
  PROVE  QueueTypeOK'
<1>1. /\ locked' \subseteq locked /\ waiting' \subseteq waiting
      /\ UNCHANGED <<row, order, lastSeq, work, attempt, block, chainSeq, crashes>>
  BY DEF Unlock, network
<1>2. NamesOK'
  BY <1>1, TypeParts DEF Base, NamesOK, WorkRecords, Attempts, Senders, Keys
<1>3. OthersOK'
  BY <1>1, TypeParts DEF Base, OthersOK, Keys
<1> QED
  BY <1>2, <1>3, TypePartsNext

(* A result keeps the types.                                               *)
LEMMA TypeResult ==
  ASSUME Base, HandleResult
  PROVE  QueueTypeOK'
<1>1. PICK r \in Rows : SaveRow(r, StateAfter(attempt[row[r].id].state), row[r].id)
  BY DEF HandleResult
<1>2. StateAfter(attempt[row[r].id].state) \in RowStates
  BY StateAfterType DEF RowStates
<1>3. row[r].id \in Attempts \cup {0}
  BY DEF Base, QueueTypeOK
<1>4. /\ row' \in [Rows -> [state : RowStates, id : Attempts \cup {0}]]
      /\ order' \in Seq(Rows)
  BY <1>1, <1>2, <1>3, SaveRowType DEF Base
<1>5. UNCHANGED <<memory, network, crashes>>
  BY DEF HandleResult
<1> QED
  BY <1>4, <1>5, TypeParts, TypePartsNext
  DEF Base, NamesOK, OthersOK, memory, network, WorkRecords, Attempts, Senders, Keys

(* A crash keeps the types.                                                *)
LEMMA TypeCrash ==
  ASSUME Base, Crash
  PROVE  QueueTypeOK'
<1>1. work' = [s \in Senders |-> IF work[s].phase = "idle" THEN work[s]
                                                           ELSE EndedWork(s)]
  BY CrashWork DEF Base
<1>2. /\ crashes < MaxCrashes /\ crashes' = crashes + 1
      /\ locked' = {} /\ waiting' = {} /\ lastSeq' = [k \in Keys |-> NotRead]
      /\ UNCHANGED <<row, order, attempt, block, chainSeq>>
  BY DEF Crash, network
<1>3. work' \in [Senders -> WorkRecords]
  BY <1>1, EndedType, TypeParts DEF Base, NamesOK
<1>4. NamesOK'
  BY <1>2, <1>3, TypeParts DEF Base, NamesOK, WorkRecords, Attempts, Senders, Keys
<1>5. crashes' \in 0..MaxCrashes
  BY <1>2, TypeParts, QueueAssumption DEF Base, OthersOK
<1>6. OthersOK'
  BY <1>2, <1>5, TypeParts DEF Base, OthersOK, Keys
<1> QED
  BY <1>4, <1>6, TypePartsNext

----------------------------------------------------------------------------
(* Base is an inductive invariant.                                         *)

LooksFor(s, job) ==
  /\ Look(s, job)
  /\ s # Poller => job = s
  /\ s = Poller => job \in Rows /\ row[job].state \in Sendable
Gives(s, phase, state) ==
  /\ Give(s, phase, state)
  /\ phase = "sent" => state = "pending"
  /\ phase = "refused" => Faulty

(* The steps by what they do, whoever makes them.                          *)
LEMMA Steps ==
  ASSUME [Next]_vars
  PROVE  \/ \E r \in Rows : Enqueue(r)
         \/ \E s \in Senders : \E job \in Rows \cup Senders : LooksFor(s, job)
         \/ \E s \in Senders : Lock(s)
         \/ \E s \in Senders : \E phase \in {"sent", "refused"} :
              \E state \in {"pending", "unknown"} : Gives(s, phase, state)
         \/ \E s \in Senders : GiveUp(s) \/ CallerEnds(s)
         \/ Commit
         \/ CommitFails
         \/ \E a \in Attempts : WaitEnds(a)
         \/ \E a \in Attempts : Finalize(a)
         \/ \E a \in Attempts : Expire(a)
         \/ Execute
         \/ HandleResult
         \/ Crash
         \/ UNCHANGED vars
<1>1. CASE PollerLooks
  <2>1. PICK r \in Rows : IsNext(r, Sendable) /\ Look(Poller, r)
    BY <1>1 DEF PollerLooks
  <2>2. row[r].state \in Sendable
    BY <2>1 DEF IsNext
  <2> QED
    BY <2>1, <2>2, Zenon DEF LooksFor, Senders
<1>2. CASE \E c \in Callers : Look(c, c)
  BY <1>2, QueueAssumption, Zenon DEF LooksFor, Senders
<1>3. CASE \E s \in Senders : Transmit(s) \/ Refuse(s)
  BY <1>3, Zenon DEF Transmit, Refuse, Gives
<1>4. CASE \E c \in Callers : CallerEnds(c)
  BY <1>4, Zenon DEF Senders
<1> QED
  BY <1>1, <1>2, <1>3, <1>4, Zenon DEF Next

(* Nobody works when the process starts.                                   *)
LEMMA BaseInit ==
  ASSUME Init
  PROVE  Base
<1>1. attempt = <<>> /\ Attempts = {}
  BY DEF Init, Attempts
<1>2. NamesOK
  <2>1. Idle \in WorkRecords
    BY DEF Idle, WorkRecords, Phases, Senders
  <2> QED
    BY <1>1, <2>1 DEF Init, NamesOK, RowStates
<1>3. OthersOK
  BY <1>1, QueueAssumption DEF Init, OthersOK
<1>4. JobsOK
  BY DEF Init, JobsOK, JobOK, FlightOK, Holding, InFlight, Idle
<1> QED
  BY <1>2, <1>3, <1>4, TypeParts DEF Base

(* Each step keeps the types and what senders work on.                     *)
LEMMA BaseNext ==
  ASSUME Base, [Next]_vars
  PROVE  Base'
<1>1. ASSUME NEW r \in Rows, Enqueue(r)
      PROVE  Base'
  BY <1>1, TypeEnqueue, JobsEnqueue DEF Base
<1>2. ASSUME NEW s \in Senders, NEW job \in Rows \cup Senders, LooksFor(s, job)
      PROVE  Base'
  BY <1>2, TypeLook, JobsLook DEF Base, LooksFor
<1>3. ASSUME NEW s \in Senders, Lock(s)
      PROVE  Base'
  BY <1>3, TypeLock, JobsLock DEF Base
<1>4. ASSUME NEW s \in Senders, NEW phase \in {"sent", "refused"},
             NEW state \in {"pending", "unknown"}, Gives(s, phase, state)
      PROVE  Base'
  BY <1>4, TypeGive, JobsGive DEF Base, Gives
<1>5. ASSUME NEW s \in Senders, GiveUp(s) \/ CallerEnds(s)
      PROVE  Base'
  BY <1>5, TypeEnd, JobsEnd DEF Base
<1>6. CASE Commit
  BY <1>6, TypeCommit, JobsCommit DEF Base
<1>7. CASE CommitFails
  BY <1>7, TypeCommitFails, JobsCommit DEF Base
<1>8. ASSUME NEW a \in Attempts, WaitEnds(a)
      PROVE  Base'
  <2>1. Unlock(a) /\ work' = work /\ attempt' = attempt /\ row' = row
    BY <1>8 DEF WaitEnds, Unlock, network
  <2> QED
    BY <2>1, TypeUnlock, RowsStay, AllKept, JobsFrame DEF Base
<1>9. ASSUME NEW a \in Attempts, NEW x, Becomes(a, x), UNCHANGED <<row, work>>
      PROVE  JobsOK'
  BY <1>9, KeptByNetwork, RowsStay, JobsFrame
<1>10. ASSUME NEW a \in Attempts, Finalize(a)
       PROVE  Base'
  <2>1. Becomes(a, "final") /\ UNCHANGED <<row, order, memory, chainSeq, crashes>>
    BY <1>10, FinalizeAttempt DEF Finalize
  <2>2. block' \in Seq(Attempts) /\ chainSeq' \in [Keys -> Nat]
    BY <1>10 DEF Finalize, Base, QueueTypeOK
  <2>3. QueueTypeOK'
    BY <2>1, <2>2, TypeNetwork
  <2> QED
    BY <1>9, <2>1, <2>3 DEF Base, memory
<1>11. ASSUME NEW a \in Attempts, Expire(a)
       PROVE  Base'
  <2>1. Becomes(a, "expired") /\ UNCHANGED <<row, order, memory, block, chainSeq, crashes>>
    BY <1>11, ExpireAttempt DEF Expire
  <2>2. block' \in Seq(Attempts) /\ chainSeq' \in [Keys -> Nat]
    BY <2>1 DEF Base, QueueTypeOK
  <2>3. QueueTypeOK'
    BY <2>1, <2>2, TypeNetwork
  <2> QED
    BY <1>9, <2>1, <2>3 DEF Base, memory
<1>12. CASE Execute
  <2>1. PICK x \in Sealed : Head(block) \in Attempts /\ Becomes(Head(block), x)
    BY <1>12, ExecuteAttempt
  <2>2. UNCHANGED <<row, work>>
    BY <1>12 DEF Execute, memory
  <2> QED
    BY <1>9, <1>12, <2>1, <2>2, TypeExecute DEF Base
<1>13. CASE HandleResult
  BY <1>13, TypeResult, JobsResult DEF Base
<1>14. CASE Crash
  BY <1>14, TypeCrash, JobsCrash DEF Base
<1>15. CASE UNCHANGED vars
  <2>1. NamesOK' /\ OthersOK'
    BY <1>15, TypeParts DEF vars, memory, network, Base, NamesOK, OthersOK,
       WorkRecords, Attempts, Senders, Keys
  <2>2. JobsOK'
    BY <1>15, RowsStay, AllKept, JobsFrame DEF vars, memory, network
  <2> QED
    BY <2>1, <2>2, TypePartsNext DEF Base
<1> QED
  BY <1>1, <1>2, <1>3, <1>4, <1>5, <1>6, <1>7, <1>8, <1>10, <1>11, <1>12,
     <1>13, <1>14, <1>15, Steps, Zenon

(* The types and what senders work on, in every state.                     *)
LEMMA BaseAlways == Spec => []Base
BY BaseInit, BaseNext, PTL DEF Spec

(* Every variable has a value of its type: what the database saves and a   *)
(* goroutine waits for is always an attempt that was made.                 *)
THEOREM QueueTypeCorrect == Spec => []QueueTypeOK
<1>1. Base => QueueTypeOK
  BY DEF Base
<1> QED
  BY <1>1, BaseAlways, PTL

----------------------------------------------------------------------------
(* Locks.  A key is locked for the sender that holds it, or for the        *)
(* goroutine that waits for the attempt that was sent with it.             *)

LocksOK ==
  /\ \A s \in Senders : Holding(s) => work[s].key \in locked
  /\ \A s, t \in Senders :
       Holding(s) /\ Holding(t) /\ work[s].key = work[t].key => s = t
  /\ \A a \in waiting : attempt[a].key \in locked
  /\ \A a, b \in waiting : attempt[a].key = attempt[b].key => a = b
  /\ \A s \in Senders : \A a \in waiting :
       Holding(s) => work[s].key # attempt[a].key
  /\ \A k \in locked : \/ \E s \in Senders : Holding(s) /\ work[s].key = k
                       \/ \E a \in waiting : attempt[a].key = k

SameKeys == \A a \in Attempts : attempt'[a].key = attempt[a].key

(* The key of an attempt never changes.                                    *)
LEMMA KeysStay ==
  ASSUME Base, [Next]_vars
  PROVE  Attempts \subseteq Attempts' /\ \A b \in Attempts : SameAttempt(attempt'[b], attempt[b])
<1>1. ASSUME NEW s \in Senders, NEW phase \in {"sent", "refused"},
             NEW state \in {"pending", "unknown"}, Gives(s, phase, state)
      PROVE  Attempts \subseteq Attempts' /\ \A b \in Attempts : attempt'[b] = attempt[b]
  BY <1>1, GiveAttempt DEF Gives
<1>2. ASSUME NEW a \in Attempts, NEW x, Becomes(a, x)
      PROVE  Attempts' = Attempts /\ \A b \in Attempts : SameAttempt(attempt'[b], attempt[b])
  BY <1>2, KeptByNetwork DEF Kept
<1>3. CASE Commit
  BY <1>3, CommitAttempt DEF SavedSet, SameAttempt, Attempts
<1>4. CASE attempt' = attempt
  BY <1>4, AllKept DEF Kept
<1>5. \/ attempt' = attempt
      \/ Commit
      \/ \E s \in Senders : \E phase \in {"sent", "refused"} :
           \E state \in {"pending", "unknown"} : Gives(s, phase, state)
      \/ \E a \in Attempts : \E x : Becomes(a, x)
  <2>1. ASSUME NEW r \in Rows, Enqueue(r)
        PROVE  attempt' = attempt
    BY <2>1 DEF Enqueue, network
  <2>2. ASSUME NEW s \in Senders, NEW job, LooksFor(s, job)
        PROVE  attempt' = attempt
    BY <2>2 DEF LooksFor, Look, network
  <2>3. ASSUME NEW s \in Senders, Lock(s)
        PROVE  attempt' = attempt
    BY <2>3 DEF Lock, network
  <2>4. ASSUME NEW s \in Senders, GiveUp(s) \/ CallerEnds(s)
        PROVE  attempt' = attempt
    BY <2>4 DEF GiveUp, CallerEnds, network
  <2>5. ASSUME NEW a \in Attempts, WaitEnds(a)
        PROVE  attempt' = attempt
    BY <2>5 DEF WaitEnds, Unlock, network
  <2>6. CASE CommitFails \/ HandleResult \/ Crash \/ UNCHANGED vars
    BY <2>6 DEF CommitFails, HandleResult, Crash, vars, network
  <2>7. ASSUME NEW a \in Attempts, Finalize(a) \/ Expire(a)
        PROVE  \E x : Becomes(a, x)
    BY <2>7, FinalizeAttempt, ExpireAttempt
  <2>8. CASE Execute
    BY <2>8, ExecuteAttempt
  <2> QED
    BY <2>1, <2>2, <2>3, <2>4, <2>5, <2>6, <2>7, <2>8, Steps, Zenon
<1> QED
  BY <1>1, <1>2, <1>3, <1>4, <1>5 DEF SameAttempt

(* Steps that lock and unlock nothing.                                     *)
LEMMA LocksFrame ==
  ASSUME Base, LocksOK, SameKeys, locked' = locked, waiting' = waiting,
         \A s \in Senders : Holding(s)' <=> Holding(s),
         \A s \in Senders : Holding(s) => work'[s].key = work[s].key
  PROVE  LocksOK'
<1>1. waiting \subseteq Attempts
  BY DEF Base, QueueTypeOK
<1>2. \A a \in waiting : attempt'[a].key = attempt[a].key
  BY <1>1 DEF SameKeys
<1> QED
  BY <1>2 DEF LocksOK, Senders

(* Work changes for one sender only.                                       *)
LEMMA OneMoves ==
  ASSUME Base, NEW s \in Senders, NEW w, work' = [work EXCEPT ![s] = w]
  PROVE  work'[s] = w /\ \A t \in Senders : t # s => work'[t] = work[t]
BY DEF Base, QueueTypeOK

(* Who looks holds no lock yet.                                            *)
LEMMA LocksLook ==
  ASSUME Base, LocksOK, SameKeys, NEW s \in Senders, NEW job, Look(s, job)
  PROVE  LocksOK'
<1>1. work' = [work EXCEPT ![s] = LookedWork(job, FirstUnlocked)]
  BY LookWork
<1>2. /\ work'[s] = LookedWork(job, FirstUnlocked)
      /\ \A t \in Senders : t # s => work'[t] = work[t]
  BY <1>1, OneMoves
<1>3. work[s].phase = "idle" /\ locked' = locked /\ waiting' = waiting
  BY DEF Look
<1>4. \A t \in Senders : Holding(t)' <=> Holding(t)
  BY <1>2, <1>3 DEF Holding, LookedWork
<1>5. \A t \in Senders : Holding(t) => work'[t].key = work[t].key
  BY <1>2, <1>3 DEF Holding
<1> QED
  BY <1>3, <1>4, <1>5, LocksFrame

(* A sender keeps its key when it has sent.                                *)
LEMMA LocksGive ==
  ASSUME Base, LocksOK, SameKeys, NEW s \in Senders, NEW phase \in {"sent", "refused"},
         NEW state, Give(s, phase, state)
  PROVE  LocksOK'
<1>1. work' = [work EXCEPT ![s] = GivenWork(s, phase)]
  BY GiveWork DEF Base
<1>2. /\ work'[s] = GivenWork(s, phase)
      /\ \A t \in Senders : t # s => work'[t] = work[t]
  BY <1>1, OneMoves
<1>3. work[s].phase = "ready" /\ locked' = locked /\ waiting' = waiting
  BY DEF Give
<1>4. \A t \in Senders : Holding(t)' <=> Holding(t)
  BY <1>2, <1>3 DEF Holding, GivenWork
<1>5. \A t \in Senders : Holding(t) => work'[t].key = work[t].key
  BY <1>2, <1>3 DEF Holding, GivenWork
<1> QED
  BY <1>3, <1>4, <1>5, LocksFrame

(* A key that is taken was free.                                           *)
LEMMA LocksLock ==
  ASSUME Base, LocksOK, SameKeys, NEW s \in Senders, Lock(s)
  PROVE  LocksOK'
<1>1. work' = [work EXCEPT ![s] = ReadyWork(s)]
  BY LockWork DEF Base
<1>2. /\ work'[s] = ReadyWork(s)
      /\ \A t \in Senders : t # s => work'[t] = work[t]
  BY <1>1, OneMoves
<1>3. /\ work[s].phase = "looked" /\ work[s].key \notin locked
      /\ locked' = locked \cup {work[s].key} /\ waiting' = waiting
  BY DEF Lock
<1>4. Holding(s)' /\ ~Holding(s) /\ work'[s].key = work[s].key
  BY <1>2, <1>3 DEF Holding, ReadyWork
<1>5. \A t \in Senders : t # s => (Holding(t)' <=> Holding(t)) /\ work'[t].key = work[t].key
  BY <1>2 DEF Holding
<1>6. \A a \in waiting : attempt'[a].key = attempt[a].key
  BY DEF Base, QueueTypeOK, SameKeys
<1> QED
  BY <1>3, <1>4, <1>5, <1>6 DEF LocksOK, Senders

(* A sender that ends unlocks the key that it holds, and no other.         *)
LEMMA LocksEnd ==
  ASSUME Base, LocksOK, SameKeys, NEW s \in Senders, GiveUp(s) \/ CallerEnds(s)
  PROVE  LocksOK'
<1>1. /\ work' = [work EXCEPT ![s] = EndedWork(s)]
      /\ locked' = locked \ {work[s].key} /\ Holding(s) /\ waiting' = waiting
  BY EndWork
<1>2. /\ work'[s] = EndedWork(s)
      /\ \A t \in Senders : t # s => work'[t] = work[t]
  BY <1>1, OneMoves
<1>3. ~Holding(s)'
  BY <1>2 DEF Holding, EndedWork, EndPhase
<1>4. \A t \in Senders : t # s => (Holding(t)' <=> Holding(t)) /\ work'[t].key = work[t].key
  BY <1>2 DEF Holding
<1>5. \A a \in waiting : attempt'[a].key = attempt[a].key
  BY DEF Base, QueueTypeOK, SameKeys
<1> QED
  BY <1>1, <1>3, <1>4, <1>5 DEF LocksOK, Senders

(* The poller gives its key to the goroutine that waits.                   *)
LEMMA LocksCommit ==
  ASSUME Base, LocksOK, SameKeys, Commit \/ CommitFails
  PROVE  LocksOK'
<1> DEFINE i == work[Poller].id
<1>1. /\ InFlight(Poller) /\ locked' = locked /\ waiting' = waiting \cup {i}
      /\ work' = [work EXCEPT ![Poller] = EndedWork(Poller)]
  BY CommitWork
<1>2. /\ work'[Poller] = EndedWork(Poller) /\ Poller \in Senders
      /\ \A t \in Senders : t # Poller => work'[t] = work[t]
  BY <1>1, OneMoves DEF Senders
<1>3. ~Holding(Poller)' /\ Holding(Poller)
  BY <1>1, <1>2 DEF Holding, InFlight, EndedWork, EndPhase
<1>4. \A t \in Senders : t # Poller => (Holding(t)' <=> Holding(t)) /\ work'[t].key = work[t].key
  BY <1>2 DEF Holding
<1>5. \A a \in waiting : attempt'[a].key = attempt[a].key
  BY DEF Base, QueueTypeOK, SameKeys
<1>6. i \in Attempts /\ attempt[i].key = work[Poller].key
  BY <1>1, PollerFlight
<1>7. attempt'[i].key = work[Poller].key
  BY <1>6 DEF SameKeys
<1> HIDE DEF i
<1> QED
  BY <1>1, <1>2, <1>3, <1>4, <1>5, <1>7 DEF LocksOK, Senders

(* A goroutine unlocks the key of its attempt.                             *)
LEMMA LocksUnlock ==
  ASSUME Base, LocksOK, SameKeys, NEW a \in Attempts, Unlock(a)
  PROVE  LocksOK'
<1>1. /\ a \in waiting /\ locked' = locked \ {attempt[a].key}
      /\ waiting' = waiting \ {a} /\ work' = work
  BY DEF Unlock
<1>2. \A t \in Senders : (Holding(t)' <=> Holding(t)) /\ work'[t].key = work[t].key
  BY <1>1 DEF Holding
<1>3. \A b \in waiting : attempt'[b].key = attempt[b].key
  BY DEF Base, QueueTypeOK, SameKeys
<1> QED
  BY <1>1, <1>2, <1>3 DEF LocksOK, Senders

(* The locks are lost with their holders.                                  *)
LEMMA LocksCrash ==
  ASSUME Base, Crash
  PROVE  LocksOK'
<1>1. locked' = {} /\ waiting' = {}
  BY DEF Crash
<1>2. \A s \in Senders : ~Holding(s)'
  BY CrashWork DEF Base, Holding, EndedWork, EndPhase
<1> QED
  BY <1>1, <1>2 DEF LocksOK, Senders

(* No key is locked when the process starts.                               *)
LEMMA LocksInit ==
  ASSUME Init
  PROVE  LocksOK
BY DEF Init, LocksOK, Holding, Idle

(* Each step keeps the locks and their holders together.                   *)
LEMMA LocksNext ==
  ASSUME Base, LocksOK, [Next]_vars
  PROVE  LocksOK'
<1>1. SameKeys
  BY KeysStay DEF SameKeys, SameAttempt
<1>2. CASE UNCHANGED <<locked, waiting, work>>
  <2>1. \A s \in Senders : Holding(s)' <=> Holding(s)
    BY <1>2 DEF Holding
  <2> QED
    BY <1>1, <1>2, <2>1, LocksFrame
<1>3. ASSUME NEW r \in Rows, Enqueue(r)
      PROVE  UNCHANGED <<locked, waiting, work>>
  BY <1>3 DEF Enqueue, memory
<1>4. ASSUME NEW s \in Senders, NEW job, LooksFor(s, job)
      PROVE  LocksOK'
  BY <1>1, <1>4, LocksLook DEF LooksFor
<1>5. ASSUME NEW s \in Senders, NEW phase \in {"sent", "refused"}, NEW state,
             Gives(s, phase, state)
      PROVE  LocksOK'
  BY <1>1, <1>5, LocksGive DEF Gives
<1>6. ASSUME NEW a \in Attempts, WaitEnds(a)
      PROVE  LocksOK'
  BY <1>1, <1>6, LocksUnlock DEF WaitEnds
<1>7. ASSUME NEW a \in Attempts, Finalize(a) \/ Expire(a)
      PROVE  UNCHANGED <<locked, waiting, work>>
  BY <1>7 DEF Finalize, Expire, memory
<1>8. CASE Execute \/ HandleResult \/ UNCHANGED vars
  BY <1>2, <1>8 DEF Execute, HandleResult, vars, memory
<1> QED
  BY <1>1, <1>2, <1>3, <1>4, <1>5, <1>6, <1>7, <1>8, Steps, LocksLock, LocksEnd,
     LocksCommit, LocksCrash, Zenon

(* The locks have their holders, in every state.                           *)
LEMMA LocksAlways == Spec => [](Base /\ LocksOK)
<1>1. Init => Base /\ LocksOK
  BY BaseInit, LocksInit
<1>2. Base /\ LocksOK /\ [Next]_vars => (Base /\ LocksOK)'
  BY BaseNext, LocksNext
<1> QED
  BY <1>1, <1>2, PTL DEF Spec

(* The two forms of "at most one": by number and by name.                  *)
LEMMA LocksGiveOneHolder ==
  ASSUME Base, LocksOK
  PROVE  OneHolder
<1> SUFFICES ASSUME NEW k \in Keys
             PROVE  Cardinality(HoldersOf(k)) + Cardinality(WaitersWith(k)) =
                      IF k \in locked THEN 1 ELSE 0
  BY DEF OneHolder
<1>1. \A s \in Senders : s \in HoldersOf(k) <=> Holding(s) /\ work[s].key = k
  BY DEF HoldersOf, Holding
<1>2. HoldersOf(k) \subseteq Senders /\ WaitersWith(k) \subseteq waiting
  BY DEF HoldersOf, WaitersWith
<1>3. \A a \in waiting : a \in WaitersWith(k) <=> attempt[a].key = k
  BY DEF WaitersWith
<1>4. Cardinality({}) = 0 /\ \A x : Cardinality({x}) = 1
  BY FS_EmptySet, FS_Singleton
<1>5. CASE k \notin locked
  <2>1. HoldersOf(k) = {} /\ WaitersWith(k) = {}
    BY <1>1, <1>2, <1>3, <1>5 DEF LocksOK
  <2> QED
    BY <1>4, <1>5, <2>1
<1>6. ASSUME k \in locked, NEW s \in Senders, Holding(s), work[s].key = k
      PROVE  HoldersOf(k) = {s} /\ WaitersWith(k) = {}
  BY <1>1, <1>2, <1>3, <1>6 DEF LocksOK
<1>7. ASSUME k \in locked, NEW a \in waiting, attempt[a].key = k
      PROVE  HoldersOf(k) = {} /\ WaitersWith(k) = {a}
  BY <1>1, <1>2, <1>3, <1>7 DEF LocksOK
<1>8. CASE k \in locked
  <2>1. \/ \E s : HoldersOf(k) = {s} /\ WaitersWith(k) = {}
        \/ \E a : HoldersOf(k) = {} /\ WaitersWith(k) = {a}
    BY <1>6, <1>7, <1>8 DEF LocksOK
  <2>2. \/ Cardinality(HoldersOf(k)) = 1 /\ Cardinality(WaitersWith(k)) = 0
        \/ Cardinality(HoldersOf(k)) = 0 /\ Cardinality(WaitersWith(k)) = 1
    BY <1>4, <2>1, Zenon
  <2> QED
    BY <1>8, <2>2
<1> QED
  BY <1>5, <1>8

(* Whatever fails, and whoever sends, a locked key has one holder and an   *)
(* unlocked key has none.                                                  *)
THEOREM LockHasOneHolder == Spec => []OneHolder
BY LocksAlways, LocksGiveOneHolder, PTL

----------------------------------------------------------------------------
(* Rows and their attempts.  An attempt that its row does not name any     *)
(* more can never run.                                                     *)

Dead == {"badSeq", "expired"}

RowOK(r) ==
  /\ row[r].state \in {"none", "init"} => row[r].id = 0
  /\ row[r].state \notin {"none", "init"} =>
       row[r].id \in Attempts /\ attempt[row[r].id].job = r
  /\ row[r].state = "retry" => attempt[row[r].id].state \in Dead

AttemptOK(a) ==
  /\ attempt[a].job \in Rows => row[attempt[a].job].state # "none"
  /\ attempt[a].saved => /\ attempt[a].job \in Rows
                         /\ \/ a = row[attempt[a].job].id
                            \/ attempt[a].state \in Dead

RowsOK ==
  /\ \A r \in Rows : RowOK(r)
  /\ \A a \in Attempts : AttemptOK(a)

(* A block holds each transaction once, until it is executed.              *)
BlockOK ==
  /\ \A i \in DOMAIN block : attempt[block[i]].state = "final"
  /\ \A i, j \in DOMAIN block : block[i] = block[j] => i = j

(* The steps that change states of attempts, and where they come from.     *)
LEMMA StateSteps ==
  ASSUME Base, [Next]_vars
  PROVE  \/ \A b \in Attempts : attempt'[b].state = attempt[b].state
         \/ \E a \in Attempts : /\ attempt[a].state = "pending"
                                /\ Finalize(a) /\ Becomes(a, "final")
         \/ \E a \in Attempts : /\ attempt[a].state = "pending"
                                /\ Expire(a) /\ Becomes(a, "expired")
         \/ /\ Execute /\ Head(block) \in Attempts
            /\ \E x \in Sealed : Becomes(Head(block), x)
<1>1. ASSUME NEW r \in Rows, Enqueue(r)
      PROVE  attempt' = attempt
  BY <1>1 DEF Enqueue, network
<1>2. ASSUME NEW s \in Senders, NEW job, LooksFor(s, job)
      PROVE  attempt' = attempt
  BY <1>2 DEF LooksFor, Look, network
<1>3. ASSUME NEW s \in Senders, Lock(s)
      PROVE  attempt' = attempt
  BY <1>3 DEF Lock, network
<1>4. ASSUME NEW s \in Senders, NEW phase \in {"sent", "refused"},
             NEW state \in {"pending", "unknown"}, Gives(s, phase, state)
      PROVE  \A b \in Attempts : attempt'[b].state = attempt[b].state
  BY <1>4, GiveAttempt DEF Gives
<1>5. ASSUME NEW s \in Senders, GiveUp(s) \/ CallerEnds(s)
      PROVE  attempt' = attempt
  BY <1>5 DEF GiveUp, CallerEnds, network
<1>6. CASE Commit
  BY <1>6, CommitAttempt DEF SavedSet, Attempts
<1>7. ASSUME NEW a \in Attempts, WaitEnds(a)
      PROVE  attempt' = attempt
  BY <1>7 DEF WaitEnds, Unlock, network
<1>8. ASSUME NEW a \in Attempts, Finalize(a)
      PROVE  attempt[a].state = "pending" /\ Becomes(a, "final")
  BY <1>8, FinalizeAttempt DEF Finalize
<1>9. ASSUME NEW a \in Attempts, Expire(a)
      PROVE  attempt[a].state = "pending" /\ Becomes(a, "expired")
  BY <1>9, ExpireAttempt DEF Expire
<1>10. CASE CommitFails \/ HandleResult \/ Crash \/ UNCHANGED vars
  BY <1>10 DEF CommitFails, HandleResult, Crash, vars, network
<1>11. CASE Execute
  BY <1>11, ExecuteAttempt
<1> QED
  BY <1>1, <1>2, <1>3, <1>4, <1>5, <1>6, <1>7, <1>8, <1>9, <1>10, <1>11, Steps, Zenon

(* The head of the blocks is final.                                        *)
LEMMA HeadFinal ==
  ASSUME Base, BlockOK, block # <<>>
  PROVE  Head(block) \in Attempts /\ attempt[Head(block)].state = "final"
BY DEF Base, QueueTypeOK, BlockOK

(* A result that ends an attempt for good stays.                           *)
DeadStay ==
  \A b \in Attempts : attempt[b].state \in Dead => attempt'[b].state = attempt[b].state

(* No step revives an attempt.                                             *)
LEMMA DeadStays ==
  ASSUME Base, BlockOK, [Next]_vars
  PROVE  DeadStay
<1>1. ASSUME NEW a \in Attempts, NEW x, Becomes(a, x), attempt[a].state \notin Dead
      PROVE  DeadStay
  BY <1>1 DEF Becomes, StateSet, DeadStay, Attempts
<1>2. CASE \A b \in Attempts : attempt'[b].state = attempt[b].state
  BY <1>2 DEF DeadStay
<1>3. CASE \E a \in Attempts : \E x : attempt[a].state = "pending" /\ Becomes(a, x)
  BY <1>1, <1>3 DEF Dead
<1>4. CASE Execute
  <2>1. PICK x \in Sealed : Head(block) \in Attempts /\ Becomes(Head(block), x)
    BY <1>4, ExecuteAttempt
  <2>2. attempt[Head(block)].state = "final"
    BY <1>4, HeadFinal DEF Execute
  <2> QED
    BY <1>1, <2>1, <2>2 DEF Dead
<1> QED
  BY <1>2, <1>3, <1>4, StateSteps, Zenon

(* Steps that change no row.                                               *)
LEMMA RowsFrame ==
  ASSUME Base, RowsOK, DeadStay, row' = row, \A b \in Attempts : Kept(b),
         \A b \in Attempts' \ Attempts :
           /\ attempt'[b].saved = FALSE
           /\ attempt'[b].job \in Rows => row[attempt'[b].job].state # "none"
  PROVE  RowsOK'
<1>1. \A r \in Rows : RowOK(r)'
  <2> SUFFICES ASSUME NEW r \in Rows
               PROVE  RowOK(r)'
    OBVIOUS
  <2>1. RowOK(r)
    BY DEF RowsOK
  <2> QED
    BY <2>1 DEF RowOK, Kept, SameAttempt, DeadStay
<1>2. \A a \in Attempts' : AttemptOK(a)'
  <2> SUFFICES ASSUME NEW a \in Attempts'
               PROVE  AttemptOK(a)'
    OBVIOUS
  <2>1. CASE a \in Attempts
    <3>1. AttemptOK(a) /\ Kept(a)
      BY <2>1 DEF RowsOK
    <3> QED
      BY <2>1, <3>1 DEF AttemptOK, Kept, SameAttempt, DeadStay
  <2>2. CASE a \notin Attempts
    BY <2>2 DEF AttemptOK
  <2> QED
    BY <2>1, <2>2
<1> QED
  BY <1>1, <1>2 DEF RowsOK

(* A row is saved, and its attempts are the same.                          *)
LEMMA RowUpdate ==
  ASSUME Base, NEW r \in Rows, NEW state, NEW id, SaveRow(r, state, id)
  PROVE  /\ row'[r].state = state /\ row'[r].id = id
         /\ \A q \in Rows : q # r => row'[q] = row[q]
BY DEF SaveRow, Base, QueueTypeOK

(* A row that is new knows no attempt.                                     *)
LEMMA RowsEnqueue ==
  ASSUME Base, RowsOK, NEW r \in Rows, Enqueue(r)
  PROVE  RowsOK'
<1>1. row[r].state = "none" /\ attempt' = attempt /\ Attempts' = Attempts
  BY DEF Enqueue, network, Attempts
<1>2. /\ row'[r].state = "init" /\ row'[r].id = 0
      /\ \A q \in Rows : q # r => row'[q] = row[q]
  BY RowUpdate DEF Enqueue
<1>3. \A q \in Rows : RowOK(q)'
  BY <1>1, <1>2 DEF RowsOK, RowOK
<1>4. \A a \in Attempts : AttemptOK(a)'
  BY <1>1, <1>2 DEF RowsOK, AttemptOK
<1> QED
  BY <1>1, <1>3, <1>4 DEF RowsOK

(* The attempt that was saved before can never run: the row was retried    *)
(* because of its result.                                                  *)
LEMMA RowsCommit ==
  ASSUME Base, RowsOK, DeadStay, Commit
  PROVE  RowsOK'
<1>1. PICK i : i = work[Poller].id
  OBVIOUS
<1>2. PICK r : r = work[Poller].job
  OBVIOUS
<1>3. InFlight(Poller) /\ SavedSet(attempt, attempt', i)
  BY <1>1, CommitWork, CommitAttempt
<1>4. /\ i \in Attempts /\ r \in Rows /\ attempt[i].job = r
      /\ row[r].state \in {"init", "retry"}
  BY <1>1, <1>2, <1>3, PollerFlight
<1>5. \E state \in {"sent", "failed"} : SaveRow(r, state, i)
  BY <1>1, <1>2, Zenon DEF Commit
<1>6. /\ row'[r].state \in {"sent", "failed"} /\ row'[r].id = i
      /\ \A q \in Rows : q # r => row'[q] = row[q]
  BY <1>4, <1>5, RowUpdate
<1>7. /\ Attempts' = Attempts
      /\ \A b \in Attempts : attempt'[b].job = attempt[b].job /\ attempt'[b].state = attempt[b].state
      /\ \A b \in Attempts : b # i => attempt'[b].saved = attempt[b].saved
  BY <1>3 DEF SavedSet, SameAttempt, Attempts
<1>8. 0 \notin Attempts
  BY DEF Base, QueueTypeOK, Attempts
<1>9. \A q \in Rows : RowOK(q)'
  BY <1>4, <1>6, <1>7 DEF RowsOK, RowOK
<1>10. \A a \in Attempts : AttemptOK(a)'
  <2> SUFFICES ASSUME NEW a \in Attempts
               PROVE  AttemptOK(a)'
    OBVIOUS
  <2>1. AttemptOK(a) /\ RowOK(r)
    BY <1>4 DEF RowsOK
  <2>2. CASE a = i
    BY <1>4, <1>6, <1>7, <2>2 DEF AttemptOK
  <2>3. CASE a # i /\ attempt[a].job = r
    <3>1. attempt[a].saved => attempt[a].state \in Dead
      BY <1>4, <1>8, <2>1, <2>3 DEF AttemptOK, RowOK
    <3> QED
      BY <1>4, <1>6, <1>7, <2>3, <3>1 DEF AttemptOK
  <2>4. CASE a # i /\ attempt[a].job # r
    BY <1>6, <1>7, <2>1, <2>4 DEF AttemptOK
  <2> QED
    BY <2>2, <2>3, <2>4
<1> QED
  BY <1>7, <1>9, <1>10 DEF RowsOK

(* Only a result that is final for an attempt leads to another.            *)
LEMMA RetryIsDead ==
  ASSUME NEW x, StateAfter(x) = "retry"
  PROVE  x \in Dead
BY DEF StateAfter, Dead

(* A row that will be sent again has an attempt that is dead.              *)
LEMMA RowsResult ==
  ASSUME Base, RowsOK, HandleResult
  PROVE  RowsOK'
<1>1. PICK r \in Rows : /\ IsNext(r, {"sent"})
                        /\ SaveRow(r, StateAfter(attempt[row[r].id].state), row[r].id)
  BY DEF HandleResult
<1>2. row[r].state = "sent" /\ attempt' = attempt /\ Attempts' = Attempts
  BY <1>1 DEF IsNext, HandleResult, network, Attempts
<1>3. /\ row'[r].state = StateAfter(attempt[row[r].id].state) /\ row'[r].id = row[r].id
      /\ \A q \in Rows : q # r => row'[q] = row[q]
  BY <1>1, RowUpdate
<1>4. row'[r].state \in {"complete", "failed", "retry", "sent"}
  BY <1>3, StateAfterType
<1>5. RowOK(r)'
  <2>1. RowOK(r)
    BY DEF RowsOK
  <2> QED
    BY <1>2, <1>3, <1>4, <2>1, RetryIsDead DEF RowOK
<1>6. \A q \in Rows : RowOK(q)'
  BY <1>2, <1>3, <1>5 DEF RowsOK, RowOK
<1>7. \A a \in Attempts : AttemptOK(a)'
  BY <1>2, <1>3, <1>4 DEF RowsOK, AttemptOK
<1> QED
  BY <1>2, <1>6, <1>7 DEF RowsOK

(* An attempt that was just made is not known to its row.                  *)
LEMMA RowsGive ==
  ASSUME Base, RowsOK, DeadStay, NEW s \in Senders, NEW phase,
         NEW state \in {"pending", "unknown"}, Give(s, phase, state)
  PROVE  RowsOK'
<1>1. /\ Attempts' = Attempts \cup {Len(attempt) + 1}
      /\ attempt'[Len(attempt) + 1] = GivenAttempt(s, state)
      /\ \A b \in Attempts : attempt'[b] = attempt[b]
  BY GiveAttempt
<1>2. row' = row /\ work[s].phase = "ready" /\ JobOK(s)
  BY DEF Give, Base, JobsOK
<1>3. \A b \in Attempts : Kept(b)
  BY <1>1 DEF Kept, SameAttempt
<1>4. work[s].job \in Rows => row[work[s].job].state # "none"
  BY <1>2, QueueAssumption DEF JobOK, Holding, Senders
<1>5. \A b \in Attempts' \ Attempts : attempt'[b].saved = FALSE /\ attempt'[b].job = work[s].job
  BY <1>1 DEF GivenAttempt
<1> QED
  BY <1>2, <1>3, <1>4, <1>5, RowsFrame

(* There are no rows and no attempts at first.                             *)
LEMMA RowsInit ==
  ASSUME Init
  PROVE  RowsOK /\ BlockOK
BY DEF Init, RowsOK, RowOK, AttemptOK, BlockOK, Attempts

(* Each step keeps rows and attempts together.                             *)
LEMMA RowsNext ==
  ASSUME Base, BlockOK, RowsOK, [Next]_vars
  PROVE  RowsOK'
<1>1. DeadStay
  BY DeadStays
<1>2. CASE row' = row /\ attempt' = attempt
  BY <1>1, <1>2, AllKept, RowsFrame
<1>3. ASSUME NEW s \in Senders, NEW phase \in {"sent", "refused"},
             NEW state \in {"pending", "unknown"}, Gives(s, phase, state)
      PROVE  RowsOK'
  BY <1>1, <1>3, RowsGive DEF Gives
<1>4. ASSUME NEW s \in Senders, \/ \E job \in Rows \cup Senders : LooksFor(s, job)
                                \/ Lock(s) \/ GiveUp(s) \/ CallerEnds(s)
      PROVE  row' = row /\ attempt' = attempt
  BY <1>4 DEF LooksFor, Look, Lock, GiveUp, CallerEnds, network
<1>5. ASSUME NEW a \in Attempts, WaitEnds(a)
      PROVE  row' = row /\ attempt' = attempt
  BY <1>5 DEF WaitEnds, Unlock, network
<1>6. CASE CommitFails \/ Crash \/ UNCHANGED vars
  BY <1>2, <1>6 DEF CommitFails, Crash, vars, network
<1>7. ASSUME NEW a \in Attempts, NEW x, Becomes(a, x), row' = row
      PROVE  RowsOK'
  BY <1>1, <1>7, KeptByNetwork, RowsFrame
<1>8. ASSUME NEW a \in Attempts, Finalize(a) \/ Expire(a)
      PROVE  RowsOK'
  BY <1>7, <1>8, FinalizeAttempt, ExpireAttempt DEF Finalize, Expire
<1>9. CASE Execute
  BY <1>7, <1>9, ExecuteAttempt DEF Execute
<1> QED
  BY <1>1, <1>2, <1>3, <1>4, <1>5, <1>6, <1>8, <1>9, Steps, RowsEnqueue,
     RowsCommit, RowsResult, Zenon

----------------------------------------------------------------------------
(* Blocks.                                                                 *)

(* Only finalizing and executing change the block.                         *)
LEMMA BlockSteps ==
  ASSUME [Next]_vars
  PROVE  \/ UNCHANGED <<block, chainSeq>>
         \/ \E a \in Attempts : Finalize(a)
         \/ Execute
<1>1. ASSUME NEW r \in Rows, Enqueue(r)
      PROVE  UNCHANGED <<block, chainSeq>>
  BY <1>1 DEF Enqueue, network
<1>2. ASSUME NEW s \in Senders, \/ \E job \in Rows \cup Senders : LooksFor(s, job)
                                \/ Lock(s) \/ GiveUp(s) \/ CallerEnds(s)
      PROVE  UNCHANGED <<block, chainSeq>>
  BY <1>2 DEF LooksFor, Look, Lock, GiveUp, CallerEnds, network
<1>3. ASSUME NEW s \in Senders, NEW phase, NEW state, Gives(s, phase, state)
      PROVE  UNCHANGED <<block, chainSeq>>
  BY <1>3 DEF Gives, Give
<1>4. ASSUME NEW a \in Attempts, WaitEnds(a) \/ Expire(a)
      PROVE  UNCHANGED <<block, chainSeq>>
  BY <1>4 DEF WaitEnds, Unlock, Expire, network
<1>5. CASE Commit \/ CommitFails \/ HandleResult \/ Crash \/ UNCHANGED vars
  BY <1>5 DEF Commit, CommitFails, HandleResult, Crash, vars, network
<1> QED
  BY <1>1, <1>2, <1>3, <1>4, <1>5, Steps, Zenon

(* What is appended to a block was not in one.                             *)
LEMMA BlockFinalize ==
  ASSUME Base, BlockOK, NEW a \in Attempts, Finalize(a)
  PROVE  BlockOK'
<1>1. attempt[a].state = "pending" /\ block' = Append(block, a) /\ block \in Seq(Attempts)
  BY DEF Finalize, Base, QueueTypeOK
<1>2. /\ attempt'[a].state = "final"
      /\ \A b \in Attempts : b # a => attempt'[b] = attempt[b]
  BY FinalizeAttempt DEF Becomes, StateSet, Attempts
<1>3. \A i \in DOMAIN block : block[i] \in Attempts /\ block[i] # a
  BY <1>1 DEF BlockOK
<1>4. /\ DOMAIN block' = DOMAIN block \cup {Len(block) + 1}
      /\ block'[Len(block) + 1] = a
      /\ \A i \in DOMAIN block : block'[i] = block[i]
  BY <1>1
<1> QED
  BY <1>2, <1>3, <1>4 DEF BlockOK

(* The head leaves the block when it is executed.                          *)
LEMMA BlockExecute ==
  ASSUME Base, BlockOK, Execute
  PROVE  BlockOK'
<1>1. block # <<>> /\ block' = Tail(block) /\ block \in Seq(Attempts)
  BY DEF Execute, Base, QueueTypeOK
<1>2. PICK x \in Sealed : Becomes(Head(block), x)
  BY ExecuteAttempt
<1>3. \A b \in Attempts : b # Head(block) => attempt'[b] = attempt[b]
  BY <1>2 DEF Becomes, StateSet, Attempts
<1>4. \A i \in DOMAIN block' : i + 1 \in DOMAIN block /\ block'[i] = block[i + 1] /\ i + 1 # 1
  BY <1>1
<1>5. 1 \in DOMAIN block /\ Head(block) = block[1]
  BY <1>1
<1>6. \A i \in DOMAIN block' : block'[i] # Head(block) /\ block'[i] \in Attempts
  BY <1>1, <1>4, <1>5 DEF BlockOK
<1>7. \A i \in DOMAIN block' : attempt'[block'[i]].state = "final"
  BY <1>3, <1>4, <1>6 DEF BlockOK
<1>8. ASSUME NEW i \in DOMAIN block', NEW j \in DOMAIN block', block'[i] = block'[j]
      PROVE  i = j
  <2>1. i + 1 = j + 1
    BY <1>4, <1>8 DEF BlockOK
  <2>2. i \in Int /\ j \in Int
    BY <1>1
  <2> QED
    BY <2>1, <2>2
<1> QED
  BY <1>7, <1>8 DEF BlockOK

(* Each step keeps the block without repetition.                           *)
LEMMA BlockNext ==
  ASSUME Base, BlockOK, [Next]_vars
  PROVE  BlockOK'
<1>1. CASE block' = block
  <2>1. \A i \in DOMAIN block : block[i] \in Attempts
    BY DEF Base, QueueTypeOK
  <2>2. ASSUME NEW a \in Attempts, attempt[a].state = "pending", NEW x, Becomes(a, x)
        PROVE  \A i \in DOMAIN block : attempt'[block[i]].state = "final"
    BY <2>1, <2>2 DEF Becomes, StateSet, BlockOK, Attempts
  <2>3. CASE \A b \in Attempts : attempt'[b].state = attempt[b].state
    BY <1>1, <2>1, <2>3 DEF BlockOK
  <2>4. CASE \E a \in Attempts : \E x : attempt[a].state = "pending" /\ Becomes(a, x)
    BY <1>1, <2>2, <2>4 DEF BlockOK
  <2> QED
    BY <2>3, <2>4, StateSteps, BlockExecute, Zenon
<1> QED
  BY <1>1, BlockSteps, BlockFinalize, BlockExecute

----------------------------------------------------------------------------
(* The inductive invariant.                                                *)

QueueInv == Base /\ LocksOK /\ BlockOK /\ RowsOK

(* The invariant holds at first.                                           *)
LEMMA QueueInvInit == Init => QueueInv
BY BaseInit, LocksInit, RowsInit DEF QueueInv

(* Each step keeps the invariant.                                          *)
LEMMA QueueInvNext == QueueInv /\ [Next]_vars => QueueInv'
BY BaseNext, LocksNext, BlockNext, RowsNext DEF QueueInv

(* Whatever fails: senders have their own keys and jobs, rows name their   *)
(* last attempt, and a retry means that no earlier one can run.            *)
THEOREM QueueInvariant == Spec => []QueueInv
BY QueueInvInit, QueueInvNext, PTL DEF Spec

(* There are finitely many attempts.                                       *)
LEMMA AttemptsFinite ==
  ASSUME Base, NEW S \in SUBSET Attempts
  PROVE  IsFiniteSet(S) /\ Cardinality(S) \in Nat
<1>1. Attempts = 1..Len(attempt) /\ Len(attempt) \in Nat
  BY DEF Base, QueueTypeOK, Attempts
<1>2. IsFiniteSet(1..Len(attempt))
  <2>1. 1 \in Int /\ Len(attempt) \in Int
    BY <1>1
  <2> QED
    BY <2>1, FS_Interval, Zenon
<1>3. IsFiniteSet(S)
  BY <1>1, <1>2, FS_Subset
<1> QED
  BY <1>3, FS_CardinalityType

(* The attempts of r that its row knows and that have run.                 *)
LEMMA SavedRunIsLast ==
  ASSUME QueueInv, NEW r \in Rows, NEW a \in Attempts,
         attempt[a].job = r, attempt[a].saved, attempt[a].state \notin Dead
  PROVE  a = row[r].id
BY DEF QueueInv, RowsOK, AttemptOK

(* Two attempts of a row that have run would both be its last.             *)
LEMMA InvSavedOnce ==
  ASSUME QueueInv
  PROVE  SavedOnce
<1> SUFFICES ASSUME NEW r \in Rows
             PROVE  Cardinality({a \in Attempts : /\ attempt[a].job = r
                                                  /\ attempt[a].saved
                                                  /\ attempt[a].state \in Ran}) <= 1
  BY DEF SavedOnce
<1> DEFINE S == {a \in Attempts : /\ attempt[a].job = r
                                  /\ attempt[a].saved
                                  /\ attempt[a].state \in Ran}
<1>1. S \subseteq {row[r].id}
  BY SavedRunIsLast DEF Ran, Dead
<1>2. S = {} \/ S = {row[r].id}
  BY <1>1
<1>3. Cardinality(S) = 0 \/ Cardinality(S) = 1
  BY <1>2, FS_EmptySet, FS_Singleton, Zenon
<1> QED
  BY <1>3

(* Of the attempts that the database knows of, a transaction runs one at   *)
(* most, whatever expires, is lost, rolled back or restarted.              *)
THEOREM SavedRunOnce == Spec => []SavedOnce
BY QueueInvariant, InvSavedOnce, PTL

----------------------------------------------------------------------------
(* Without failures: who tends an attempt that is not in a block yet.      *)

RunsOK == \A a \in Attempts : attempt[a].run \in Nat /\ attempt[a].run <= crashes

Tended(a) ==
  \/ a \in waiting
  \/ \E s \in Senders : work[s].phase = "sent" /\ work[s].id = a
Current(a) == attempt[a].state = "pending" /\ attempt[a].run = crashes
PendingOK == \A a \in Attempts : Current(a) => Tended(a)

(* No attempt is of a process that has not started yet.                    *)
LEMMA RunsNext ==
  ASSUME Base, RunsOK, [Next]_vars
  PROVE  RunsOK'
<1>1. crashes \in Nat /\ crashes' \in Nat
  BY BaseNext DEF Base, QueueTypeOK
<1>2. ASSUME NEW s \in Senders, NEW phase \in {"sent", "refused"},
             NEW state \in {"pending", "unknown"}, Gives(s, phase, state)
      PROVE  RunsOK'
  <2>1. /\ Attempts' = Attempts \cup {Len(attempt) + 1}
        /\ attempt'[Len(attempt) + 1] = GivenAttempt(s, state)
        /\ \A b \in Attempts : attempt'[b] = attempt[b]
    BY <1>2, GiveAttempt DEF Gives
  <2>2. crashes' = crashes
    BY <1>2 DEF Gives, Give
  <2>3. attempt'[Len(attempt) + 1].run = crashes
    BY <2>1 DEF GivenAttempt
  <2> QED
    BY <1>1, <2>1, <2>2, <2>3 DEF RunsOK
<1>3. CASE Attempts' = Attempts /\ crashes <= crashes'
  BY <1>1, <1>3, KeysStay DEF RunsOK, SameAttempt
<1>4. CASE Attempts' = Attempts /\ crashes' = crashes
  BY <1>1, <1>3, <1>4
<1>5. ASSUME NEW r \in Rows, Enqueue(r)
      PROVE  Attempts' = Attempts /\ crashes' = crashes
  BY <1>5 DEF Enqueue, network, Attempts
<1>6. ASSUME NEW s \in Senders, \/ \E job \in Rows \cup Senders : LooksFor(s, job)
                                \/ Lock(s) \/ GiveUp(s) \/ CallerEnds(s)
      PROVE  Attempts' = Attempts /\ crashes' = crashes
  BY <1>6 DEF LooksFor, Look, Lock, GiveUp, CallerEnds, network, Attempts
<1>7. ASSUME NEW a \in Attempts, WaitEnds(a)
      PROVE  Attempts' = Attempts /\ crashes' = crashes
  BY <1>7 DEF WaitEnds, Unlock, network, Attempts
<1>8. ASSUME NEW a \in Attempts, Finalize(a) \/ Expire(a)
      PROVE  Attempts' = Attempts /\ crashes' = crashes
  BY <1>8, FinalizeAttempt, ExpireAttempt, KeptByNetwork DEF Finalize, Expire
<1>9. CASE Execute
  <2>1. crashes' = crashes
    BY <1>9 DEF Execute
  <2> QED
    BY <1>4, <1>9, <2>1, ExecuteAttempt, KeptByNetwork
<1>10. CASE Commit \/ CommitFails
  <2>1. Commit => Attempts' = Attempts
    BY CommitAttempt DEF SavedSet, Attempts
  <2>2. CommitFails => attempt' = attempt
    BY DEF CommitFails, network
  <2> QED
    BY <1>4, <1>10, <2>1, <2>2, CommitWork DEF Attempts
<1>11. CASE HandleResult \/ UNCHANGED vars
  BY <1>4, <1>11 DEF HandleResult, vars, network, Attempts
<1>12. CASE Crash
  <2>1. Attempts' = Attempts /\ crashes' = crashes + 1
    BY <1>12 DEF Crash, network, Attempts
  <2> QED
    BY <1>1, <1>3, <2>1
<1> QED
  BY <1>2, <1>4, <1>5, <1>6, <1>7, <1>8, <1>9, <1>10, <1>11, <1>12, Steps, Zenon

(* Nothing becomes pending but what is sent.                               *)
LEMMA PendingBefore ==
  ASSUME Base, [Next]_vars, NEW a \in Attempts, attempt'[a].state = "pending"
  PROVE  attempt[a].state = "pending"
<1>1. ASSUME NEW b \in Attempts, NEW x, x # "pending", Becomes(b, x)
      PROVE  attempt[a].state = "pending"
  BY <1>1 DEF Becomes, StateSet, Attempts
<1>2. "final" # "pending" /\ "expired" # "pending" /\ \A x \in Sealed : x # "pending"
  BY DEF Sealed, Ran
<1> QED
  BY <1>1, <1>2, StateSteps

(* Steps after which each tended attempt is tended, or not pending.        *)
LEMMA PendingFrame ==
  ASSUME Base, PendingOK, [Next]_vars, crashes' = crashes,
         \A a \in Attempts : Tended(a) => Tended(a)' \/ attempt'[a].state # "pending",
         \A a \in Attempts' \ Attempts : Tended(a)'
  PROVE  PendingOK'
<1> SUFFICES ASSUME NEW a \in Attempts', Current(a)'
             PROVE  Tended(a)'
  BY DEF PendingOK
<1>1. CASE a \in Attempts
  <2>1. attempt'[a].state = "pending" /\ attempt'[a].run = crashes
    BY DEF Current
  <2>2. Current(a)
    BY <1>1, <2>1, PendingBefore, KeysStay DEF Current, SameAttempt
  <2> QED
    BY <1>1, <2>1, <2>2 DEF PendingOK
<1> QED
  BY <1>1

(* Without failures, who tends an attempt of this process leaves it only   *)
(* when it is in a block.                                                  *)
LEMMA PendingNext ==
  ASSUME Faulty = FALSE, Base, RunsOK, PendingOK, [Next]_vars
  PROVE  PendingOK'
<1>1. CASE UNCHANGED <<waiting, work, crashes, Attempts>>
  <2>1. \A a \in Attempts : Tended(a) => Tended(a)'
    BY <1>1 DEF Tended
  <2> QED
    BY <1>1, <2>1, PendingFrame
<1>2. ASSUME NEW r \in Rows, Enqueue(r)
      PROVE  UNCHANGED <<waiting, work, crashes, Attempts>>
  BY <1>2 DEF Enqueue, memory, network, Attempts
<1>3. ASSUME NEW s \in Senders, NEW w, work' = [work EXCEPT ![s] = w],
             work[s].phase # "sent",
             UNCHANGED <<waiting, crashes, Attempts>>
      PROVE  PendingOK'
  <2>1. \A t \in Senders : t # s => work'[t] = work[t]
    BY <1>3, OneMoves
  <2>2. \A a \in Attempts : Tended(a) => Tended(a)'
    BY <1>3, <2>1 DEF Tended, Senders
  <2> QED
    BY <1>3, <2>2, PendingFrame
<1>4. ASSUME NEW s \in Senders, NEW job \in Rows \cup Senders, LooksFor(s, job)
      PROVE  PendingOK'
  <2>1. work[s].phase # "sent" /\ UNCHANGED <<waiting, crashes, Attempts>>
    BY <1>4 DEF LooksFor, Look, network, Attempts
  <2> QED
    BY <1>3, <1>4, <2>1, LookWork DEF LooksFor
<1>5. ASSUME NEW s \in Senders, Lock(s)
      PROVE  PendingOK'
  <2>1. work[s].phase # "sent" /\ UNCHANGED <<waiting, crashes, Attempts>>
    BY <1>5 DEF Lock, network, Attempts
  <2> QED
    BY <1>3, <1>5, <2>1, LockWork DEF Base
<1>6. ASSUME NEW s \in Senders, NEW phase \in {"sent", "refused"},
             NEW state \in {"pending", "unknown"}, Gives(s, phase, state)
      PROVE  PendingOK'
  <2>1. phase = "sent" /\ work[s].phase = "ready" /\ UNCHANGED <<waiting, crashes>>
    BY <1>6 DEF Gives, Give
  <2>2. work' = [work EXCEPT ![s] = GivenWork(s, phase)]
    BY <1>6, GiveWork DEF Gives, Base
  <2>3. work'[s] = GivenWork(s, phase) /\ \A t \in Senders : t # s => work'[t] = work[t]
    BY <2>2, OneMoves
  <2>4. Attempts' = Attempts \cup {Len(attempt) + 1}
    BY <1>6, GiveAttempt DEF Gives
  <2>5. \A a \in Attempts : Tended(a) => Tended(a)'
    BY <2>1, <2>3 DEF Tended, Senders
  <2>6. \A n \in Attempts' \ Attempts : Tended(n)'
    <3>1. work'[s].phase = "sent" /\ work'[s].id = Len(attempt) + 1
      BY <2>1, <2>3 DEF GivenWork
    <3> QED
      BY <2>4, <3>1 DEF Tended, Senders
  <2> QED
    BY <2>1, <2>4, <2>5, <2>6, PendingFrame
<1>7. ASSUME NEW s \in Senders, GiveUp(s)
      PROVE  FALSE
  BY <1>7 DEF GiveUp, Base, JobsOK, FlightOK
<1>8. ASSUME NEW c \in Senders, CallerEnds(c)
      PROVE  PendingOK'
  <2>1. /\ work' = [work EXCEPT ![c] = EndedWork(c)]
        /\ UNCHANGED <<waiting, crashes, attempt>>
    BY <1>8, EndWork DEF network
  <2>2. \A t \in Senders : t # c => work'[t] = work[t]
    BY <2>1, OneMoves
  <2>3. attempt[work[c].id].state # "pending"
    BY <1>8 DEF CallerEnds, Sealed, Ran
  <2>4. \A a \in Attempts : Tended(a) => Tended(a)' \/ attempt'[a].state # "pending"
    BY <2>1, <2>2, <2>3 DEF Tended, Senders
  <2> QED
    BY <2>1, <2>4, PendingFrame DEF Attempts
<1>9. CASE Commit
  <2>1. /\ work' = [work EXCEPT ![Poller] = EndedWork(Poller)]
        /\ waiting' = waiting \cup {work[Poller].id}
        /\ crashes' = crashes
    BY <1>9, CommitWork
  <2>2. \A t \in Senders : t # Poller => work'[t] = work[t]
    BY <2>1, OneMoves DEF Senders
  <2>3. \A a \in Attempts : Tended(a) => Tended(a)'
    BY <2>1, <2>2 DEF Tended, Senders
  <2>4. Attempts' = Attempts
    BY <1>9, CommitAttempt DEF SavedSet, Attempts
  <2> QED
    BY <2>1, <2>3, <2>4, PendingFrame
<1>10. ASSUME NEW a \in Attempts, WaitEnds(a)
       PROVE  PendingOK'
  <2>1. /\ attempt[a].state # "pending" /\ waiting' = waiting \ {a}
        /\ UNCHANGED <<work, crashes, attempt>>
    BY <1>10 DEF WaitEnds, Unlock, network, Sealed, Ran
  <2>2. \A b \in Attempts : Tended(b) => Tended(b)' \/ attempt'[b].state # "pending"
    BY <2>1 DEF Tended, Senders
  <2> QED
    BY <2>1, <2>2, PendingFrame DEF Attempts
<1>11. ASSUME NEW a \in Attempts, Finalize(a) \/ Expire(a)
       PROVE  UNCHANGED <<waiting, work, crashes, Attempts>>
  BY <1>11, FinalizeAttempt, ExpireAttempt, KeptByNetwork DEF Finalize, Expire, memory
<1>12. CASE Execute
  BY <1>1, <1>12, ExecuteAttempt, KeptByNetwork DEF Execute, memory
<1>13. CASE CommitFails
  BY <1>13 DEF CommitFails
<1>14. CASE HandleResult \/ UNCHANGED vars
  BY <1>1, <1>14 DEF HandleResult, vars, memory, network, Attempts
<1>15. CASE Crash
  <2>1. crashes' = crashes + 1 /\ UNCHANGED <<attempt, Attempts>> /\ crashes \in Nat
    BY <1>15 DEF Crash, network, Attempts, Base, QueueTypeOK
  <2>2. \A a \in Attempts' : ~Current(a)'
    BY <2>1 DEF Current, RunsOK
  <2> QED
    BY <2>2 DEF PendingOK
<1> QED
  BY <1>1, <1>2, <1>4, <1>5, <1>6, <1>7, <1>8, <1>9, <1>10, <1>11, <1>12, <1>13,
     <1>14, <1>15, Steps, Zenon

(* Two attempts that are tended hold different keys.                       *)
LEMMA TendedHeld ==
  ASSUME Base, LocksOK, NEW a \in Attempts, Tended(a)
  PROVE  /\ attempt[a].key \in locked
         /\ \A b \in Attempts :
              Tended(b) /\ attempt[b].key = attempt[a].key => b = a
<1>1. \A s \in Senders : \A b \in Attempts :
        work[s].phase = "sent" /\ work[s].id = b =>
          Holding(s) /\ attempt[b].key = work[s].key
  BY DEF Base, JobsOK, FlightOK, InFlight, Holding
<1> QED
  BY <1>1 DEF LocksOK, Tended

(* Who tends an attempt holds its key.                                     *)
LEMMA InvKeyHeld ==
  ASSUME Base, LocksOK, PendingOK
  PROVE  KeyHeldUntilFinal
BY TendedHeld DEF KeyHeldUntilFinal, PendingOK, Current

(* Without failures, every attempt of this process that is pending is      *)
(* tended, in every state.                                                 *)
LEMMA LosslessRuns ==
  ASSUME Faulty = FALSE
  PROVE  Spec => [](QueueInv /\ RunsOK /\ PendingOK)
<1>1. Init => QueueInv /\ RunsOK /\ PendingOK
  BY QueueInvInit DEF Init, RunsOK, PendingOK, Attempts
<1>2. QueueInv /\ RunsOK /\ PendingOK /\ [Next]_vars
        => (QueueInv /\ RunsOK /\ PendingOK)'
  BY QueueInvNext, RunsNext, PendingNext DEF QueueInv
<1> QED
  BY <1>1, <1>2, PTL DEF Spec

(* When nothing fails, a transaction that the running process has sent     *)
(* has its key to itself until it is in a block, for any number of         *)
(* requests, keys and restarts.                                            *)
THEOREM KeysHeld ==
  ASSUME Faulty = FALSE
  PROVE  Spec => []KeyHeldUntilFinal
<1>1. QueueInv /\ RunsOK /\ PendingOK => KeyHeldUntilFinal
  BY InvKeyHeld DEF QueueInv
<1> QED
  BY <1>1, LosslessRuns, PTL

----------------------------------------------------------------------------
(* Without failures: the numbers of a key.  All that are below a number    *)
(* that was given out, and that the chain has not seen, are in blocks      *)
(* before it.                                                              *)

InBlock(j, k, n) == attempt[block[j]].key = k /\ attempt[block[j]].seq = n
BlockHas(k, n, i) == \E j \in 1..i : InBlock(j, k, n)
Leads(k, n, i) == \A m \in chainSeq[k]..(n - 1) : BlockHas(k, m, i)

SeenOK ==
  \A s \in Senders : work[s].phase = "looked" => work[s].seq <= chainSeq[work[s].key]
ReadyOK ==
  \A s \in Senders :
    work[s].phase = "ready" => Leads(work[s].key, work[s].seq, Len(block))
PendingLeads ==
  \A a \in Attempts :
    attempt[a].state = "pending" => Leads(attempt[a].key, attempt[a].seq, Len(block))
BlockLeads ==
  \A i \in DOMAIN block : Leads(attempt[block[i]].key, attempt[block[i]].seq, i - 1)

(* A number that was given out is in a block, or on its way by the process *)
(* that runs.                                                              *)
GivenOut(k, n) ==
  \/ BlockHas(k, n, Len(block))
  \/ \E a \in Attempts : attempt[a].key = k /\ attempt[a].seq = n /\ Current(a)
  \/ \E s \in Senders : work[s].phase = "ready" /\ work[s].key = k /\ work[s].seq = n
LastOK == \A k \in Keys : \A n \in chainSeq[k]..lastSeq[k] : GivenOut(k, n)

NumbersOK == SeenOK /\ ReadyOK /\ PendingLeads /\ BlockLeads /\ LastOK

(* The types that the arithmetic needs.                                    *)
LEMMA NumberTypes ==
  ASSUME Base
  PROVE  /\ \A k \in Keys : chainSeq[k] \in Nat /\ lastSeq[k] \in Nat \cup {-1}
         /\ \A s \in Senders : work[s].seq \in Nat
         /\ \A s \in Senders : work[s].phase = "looked" \/ Holding(s) => work[s].key \in Keys
         /\ \A a \in Attempts : attempt[a].key \in Keys /\ attempt[a].seq \in Nat
         /\ \A i \in DOMAIN block : block[i] \in Attempts
         /\ Len(block) \in Nat /\ DOMAIN block = 1..Len(block)
<1>1. \A k \in Keys : chainSeq[k] \in Nat /\ lastSeq[k] \in Nat \cup {-1}
  BY DEF Base, QueueTypeOK, NotRead
<1>2. \A s \in Senders : work[s].seq \in Nat
  BY DEF Base, QueueTypeOK
<1>3. \A s \in Senders : work[s].phase = "looked" \/ Holding(s) => work[s].key \in Keys
  BY DEF Base, JobsOK, JobOK
<1>4. \A a \in Attempts : attempt[a] \in AttemptRecords
  BY DEF Base, QueueTypeOK, Attempts
<1>5. \A a \in Attempts : attempt[a].key \in Keys /\ attempt[a].seq \in Nat
  BY <1>4 DEF AttemptRecords
<1>6. /\ \A i \in DOMAIN block : block[i] \in Attempts
      /\ Len(block) \in Nat /\ DOMAIN block = 1..Len(block)
  BY DEF Base, QueueTypeOK
<1> QED
  BY <1>1, <1>2, <1>3, <1>5, <1>6

(* A block that does not change, of attempts that keep key and number.     *)
LEMMA LeadsFrame ==
  ASSUME Base, [Next]_vars, UNCHANGED <<block, chainSeq>>
  PROVE  /\ \A k, n : \A i \in 0..Len(block) : BlockHas(k, n, i)' <=> BlockHas(k, n, i)
         /\ \A k, n : \A i \in 0..Len(block) : Leads(k, n, i)' <=> Leads(k, n, i)
<1>1. \A j \in 1..Len(block) : attempt'[block[j]].key = attempt[block[j]].key
                               /\ attempt'[block[j]].seq = attempt[block[j]].seq
  BY KeysStay, NumberTypes DEF SameAttempt
<1>2. \A k, n : \A j \in 1..Len(block) : InBlock(j, k, n)' <=> InBlock(j, k, n)
  BY <1>1 DEF InBlock
<1>3. ASSUME NEW i \in 0..Len(block), NEW j \in 1..i
      PROVE  j \in 1..Len(block)
  BY <1>3, NumberTypes
<1>4. \A k, n : \A i \in 0..Len(block) : BlockHas(k, n, i)' <=> BlockHas(k, n, i)
  BY <1>2, <1>3 DEF BlockHas
<1> QED
  BY <1>4 DEF Leads

ReadyWith(s, k, n) == work[s].phase = "ready" /\ work[s].key = k /\ work[s].seq = n
SameStates == \A a \in Attempts : attempt'[a].state = attempt[a].state

(* Steps that give out no number and send nothing.                         *)
LEMMA NumbersFrame ==
  ASSUME Base, NumbersOK, [Next]_vars, SeenOK', SameStates,
         UNCHANGED <<block, chainSeq, lastSeq, crashes, Attempts>>,
         \A s \in Senders : \A k, n : ReadyWith(s, k, n)' <=> ReadyWith(s, k, n)
  PROVE  NumbersOK'
<1>1. Len(block) \in 0..Len(block) /\ \A i \in DOMAIN block : i - 1 \in 0..Len(block)
  BY NumberTypes
<1>2. ReadyOK'
  BY <1>1, LeadsFrame DEF ReadyOK, NumbersOK, ReadyWith, Senders
<1>3. \A a \in Attempts : SameAttempt(attempt'[a], attempt[a])
  BY KeysStay
<1>4. PendingLeads'
  BY <1>1, <1>3, LeadsFrame DEF PendingLeads, NumbersOK, SameAttempt, SameStates
<1>5. \A i \in DOMAIN block : SameAttempt(attempt'[block[i]], attempt[block[i]])
  BY <1>3, NumberTypes
<1>6. BlockLeads'
  BY <1>1, <1>5, LeadsFrame DEF BlockLeads, NumbersOK, SameAttempt
<1>7. \A a \in Attempts : Current(a) => Current(a)'
  BY <1>3 DEF Current, SameAttempt, SameStates
<1>8. ASSUME NEW k, NEW n, GivenOut(k, n)
      PROVE  GivenOut(k, n)'
  <2>1. CASE BlockHas(k, n, Len(block))
    BY <1>1, <2>1, LeadsFrame DEF GivenOut
  <2>2. CASE \E a \in Attempts : attempt[a].key = k /\ attempt[a].seq = n /\ Current(a)
    BY <1>3, <1>7, <2>2 DEF GivenOut, SameAttempt
  <2>3. CASE \E s \in Senders : ReadyWith(s, k, n)
    BY <2>3 DEF GivenOut, ReadyWith, Senders
  <2> QED
    BY <1>8, <2>1, <2>2, <2>3 DEF GivenOut, ReadyWith
<1>9. LastOK'
  BY <1>8 DEF LastOK, NumbersOK, Keys
<1> QED
  BY <1>2, <1>4, <1>6, <1>9 DEF NumbersOK

(* One sender moves that has no number and gets none.                      *)
LEMMA NumbersStep ==
  ASSUME Base, NumbersOK, [Next]_vars, SameStates,
         UNCHANGED <<block, chainSeq, lastSeq, crashes, Attempts>>,
         NEW s \in Senders, NEW w, work' = [work EXCEPT ![s] = w],
         work[s].phase # "ready", w.phase # "ready",
         w.phase = "looked" => w.seq <= chainSeq[w.key]
  PROVE  NumbersOK'
<1>1. work'[s] = w /\ \A t \in Senders : t # s => work'[t] = work[t]
  BY OneMoves
<1>2. SeenOK'
  BY <1>1 DEF SeenOK, NumbersOK, Senders
<1>3. \A t \in Senders : \A k, n : ReadyWith(t, k, n)' <=> ReadyWith(t, k, n)
  BY <1>1 DEF ReadyWith
<1> QED
  BY <1>2, <1>3, NumbersFrame

(* A step of the queue that takes no number.                               *)
LEMMA NumbersStay ==
  ASSUME Base, NumbersOK, [Next]_vars, SameStates,
         UNCHANGED <<block, chainSeq, lastSeq, crashes, Attempts, work>>
  PROVE  NumbersOK'
<1>1. SeenOK'
  BY DEF SeenOK, NumbersOK, Senders
<1>2. \A t \in Senders : \A k, n : ReadyWith(t, k, n)' <=> ReadyWith(t, k, n)
  BY DEF ReadyWith
<1> QED
  BY <1>1, <1>2, NumbersFrame

(* The number that is taken continues those in blocks: whoever had the key *)
(* before has unlocked it when its transaction was in one.                 *)
LEMMA NumbersLock ==
  ASSUME Base, LocksOK, PendingOK, NumbersOK, [Next]_vars,
         NEW s \in Senders, Lock(s)
  PROVE  NumbersOK'
<1>1. PICK k : k = work[s].key
  OBVIOUS
<1>2. PICK m : m = NextNumber(k, work[s].seq)
  OBVIOUS
<1>3. /\ work[s].phase = "looked" /\ k \notin locked
      /\ lastSeq' = [lastSeq EXCEPT ![k] = m]
      /\ UNCHANGED <<block, chainSeq, attempt, crashes>>
  BY <1>1, <1>2 DEF Lock, network
<1>4. work' = [work EXCEPT ![s] = ReadyWork(s)]
  BY LockWork DEF Base
<1>5. work'[s] = ReadyWork(s) /\ \A t \in Senders : t # s => work'[t] = work[t]
  BY <1>4, OneMoves
<1>6. /\ k \in Keys /\ m \in Nat /\ work[s].seq \in Nat
      /\ chainSeq[k] \in Nat /\ lastSeq[k] \in Nat \cup {-1}
  BY <1>1, <1>2, <1>3, NumberTypes, NextNumberType DEF Base
<1>7. work[s].seq <= chainSeq[k]
  BY <1>1, <1>3 DEF SeenOK, NumbersOK
<1>8. m <= chainSeq[k] \/ m = lastSeq[k] + 1
  BY <1>2, <1>6, <1>7 DEF NextNumber, NotRead
<1>9. \A n \in chainSeq[k]..lastSeq[k] : BlockHas(k, n, Len(block))
  <2>1. \A t \in Senders : ~(work[t].phase = "ready" /\ work[t].key = k)
    BY <1>3 DEF LocksOK, Holding
  <2>2. \A a \in Attempts : ~(Current(a) /\ attempt[a].key = k)
    BY <1>3, TendedHeld DEF PendingOK
  <2> QED
    BY <1>6, <2>1, <2>2 DEF NumbersOK, LastOK, GivenOut
<1>10. Leads(k, m, Len(block))
  BY <1>6, <1>8, <1>9 DEF Leads
<1>11. SeenOK'
  BY <1>3, <1>5 DEF SeenOK, NumbersOK, ReadyWork, Senders
<1>12. ReadyOK'
  <2>1. Len(block) \in 0..Len(block)
    BY NumberTypes
  <2>2. \A t \in Senders : work'[t].phase = "ready" =>
          Leads(work'[t].key, work'[t].seq, Len(block))
    BY <1>1, <1>2, <1>5, <1>10 DEF ReadyWork, ReadyOK, NumbersOK
  <2> QED
    BY <1>3, <2>1, <2>2, LeadsFrame DEF ReadyOK, Senders
<1>13. PendingLeads' /\ BlockLeads'
  BY <1>3 DEF PendingLeads, BlockLeads, NumbersOK, Leads, BlockHas, InBlock, Attempts
<1>14. ASSUME NEW j, NEW n, GivenOut(j, n)
       PROVE  GivenOut(j, n)'
  <2>1. Len(block) \in 0..Len(block)
    BY NumberTypes
  <2>2. CASE BlockHas(j, n, Len(block))
    BY <1>3, <2>1, <2>2, LeadsFrame DEF GivenOut
  <2>3. CASE \E a \in Attempts : attempt[a].key = j /\ attempt[a].seq = n /\ Current(a)
    BY <1>3, <2>3 DEF GivenOut, Current, Attempts
  <2>4. CASE \E t \in Senders : ReadyWith(t, j, n)
    BY <1>3, <1>5, <2>4 DEF GivenOut, ReadyWith, Senders
  <2> QED
    BY <1>14, <2>2, <2>3, <2>4 DEF GivenOut, ReadyWith
<1>15. GivenOut(k, m)'
  BY <1>1, <1>2, <1>5 DEF GivenOut, ReadyWork, Senders
<1>16. LastOK'
  <2> SUFFICES ASSUME NEW j \in Keys, NEW n \in chainSeq[j]..lastSeq'[j]
               PROVE  GivenOut(j, n)'
    BY <1>3 DEF LastOK, Keys
  <2>1. CASE j # k
    <3>1. lastSeq'[j] = lastSeq[j]
      BY <1>3, <2>1 DEF Base, QueueTypeOK
    <3>2. n \in chainSeq[j]..lastSeq[j]
      BY <3>1
    <3> QED
      BY <1>14, <3>2 DEF LastOK, NumbersOK
  <2>2. CASE j = k /\ n = m
    BY <1>15, <2>2
  <2>3. CASE j = k /\ n # m
    <3>1. lastSeq'[k] = m
      BY <1>3, <1>6 DEF Base, QueueTypeOK
    <3>2. n \in chainSeq[k]..lastSeq[k]
      BY <1>6, <1>8, <2>3, <3>1
    <3> QED
      BY <1>14, <2>3, <3>2 DEF LastOK, NumbersOK
  <2> QED
    BY <2>1, <2>2, <2>3
<1> QED
  BY <1>11, <1>12, <1>13, <1>16 DEF NumbersOK

(* The number that a sender has taken goes to its attempt.                 *)
LEMMA NumbersGive ==
  ASSUME Base, NumbersOK, [Next]_vars, NEW s \in Senders, Give(s, "sent", "pending")
  PROVE  NumbersOK'
<1>1. work' = [work EXCEPT ![s] = GivenWork(s, "sent")]
  BY GiveWork DEF Base
<1>2. work'[s] = GivenWork(s, "sent") /\ \A t \in Senders : t # s => work'[t] = work[t]
  BY <1>1, OneMoves
<1>3. PICK i : i = Len(attempt) + 1
  OBVIOUS
<1>4. /\ Attempts' = Attempts \cup {i}
      /\ attempt'[i] = GivenAttempt(s, "pending")
      /\ \A b \in Attempts : attempt'[b] = attempt[b]
  BY <1>3, GiveAttempt
<1>5. work[s].phase = "ready" /\ UNCHANGED <<lastSeq, block, chainSeq, crashes>>
  BY DEF Give
<1>6. /\ attempt'[i].key = work[s].key /\ attempt'[i].seq = work[s].seq
      /\ attempt'[i].state = "pending" /\ attempt'[i].run = crashes
  BY <1>4 DEF GivenAttempt
<1>7. Len(block) \in 0..Len(block) /\ \A j \in DOMAIN block : j - 1 \in 0..Len(block)
  BY NumberTypes
<1>8. Leads(work[s].key, work[s].seq, Len(block))
  BY <1>5 DEF NumbersOK, ReadyOK
<1>9. SeenOK'
  BY <1>2, <1>5 DEF SeenOK, NumbersOK, GivenWork, Senders
<1>10. ReadyOK'
  BY <1>2, <1>5, <1>7, LeadsFrame DEF ReadyOK, NumbersOK, GivenWork, Senders
<1>11. PendingLeads'
  BY <1>4, <1>5, <1>6, <1>7, <1>8, LeadsFrame DEF PendingLeads, NumbersOK
<1>12. BlockLeads'
  BY <1>4, <1>5, <1>7, LeadsFrame, NumberTypes DEF BlockLeads, NumbersOK
<1>13. ASSUME NEW k, NEW n, GivenOut(k, n)
       PROVE  GivenOut(k, n)'
  <2>1. CASE BlockHas(k, n, Len(block))
    BY <1>5, <1>7, <2>1, LeadsFrame DEF GivenOut
  <2>2. CASE \E a \in Attempts : attempt[a].key = k /\ attempt[a].seq = n /\ Current(a)
    BY <1>4, <1>5, <2>2 DEF GivenOut, Current
  <2>3. CASE ReadyWith(s, k, n)
    BY <1>4, <1>5, <1>6, <2>3 DEF GivenOut, Current, ReadyWith
  <2>4. CASE \E t \in Senders : t # s /\ ReadyWith(t, k, n)
    BY <1>2, <2>4 DEF GivenOut, ReadyWith, Senders
  <2> QED
    BY <1>13, <2>1, <2>2, <2>3, <2>4 DEF GivenOut, ReadyWith
<1>14. LastOK'
  BY <1>5, <1>13 DEF LastOK, NumbersOK, Keys
<1> QED
  BY <1>9, <1>10, <1>11, <1>12, <1>14 DEF NumbersOK

(* A transaction gets into a block: it comes after those with the numbers  *)
(* below its own.                                                          *)
LEMMA NumbersFinalize ==
  ASSUME Base, NumbersOK, [Next]_vars, NEW a \in Attempts, Finalize(a)
  PROVE  NumbersOK'
<1>1. PICK l : l = Len(block)
  OBVIOUS
<1>2. /\ attempt[a].state = "pending" /\ block' = Append(block, a)
      /\ UNCHANGED <<lastSeq, work, chainSeq, crashes>> /\ block \in Seq(Attempts)
  BY DEF Finalize, memory, Base, QueueTypeOK
<1>3. /\ l \in Nat /\ Len(block') = l + 1 /\ block'[l + 1] = a
      /\ \A i \in 1..l : block'[i] = block[i] /\ block[i] \in Attempts
  BY <1>1, <1>2
<1>4. /\ Attempts' = Attempts
      /\ \A b \in Attempts : SameAttempt(attempt'[b], attempt[b])
  BY FinalizeAttempt, KeptByNetwork DEF Kept
<1>5. /\ attempt'[a].state = "final"
      /\ \A b \in Attempts : b # a => attempt'[b] = attempt[b]
  BY FinalizeAttempt DEF Becomes, StateSet, Attempts
<1>6. \A k, n : \A j \in 1..l : InBlock(j, k, n) => InBlock(j, k, n)'
  BY <1>3, <1>4 DEF InBlock, SameAttempt
<1>7. \A k, n : \A i \in 0..l : BlockHas(k, n, i) => BlockHas(k, n, i)'
  <2> SUFFICES ASSUME NEW k, NEW n, NEW i \in 0..l, NEW j \in 1..i, InBlock(j, k, n)
               PROVE  BlockHas(k, n, i)'
    BY DEF BlockHas
  <2>1. j \in 1..l
    BY <1>3
  <2> QED
    BY <1>6, <2>1 DEF BlockHas
<1>8. \A k, n : BlockHas(k, n, l) => BlockHas(k, n, l + 1)'
  <2> SUFFICES ASSUME NEW k, NEW n, NEW j \in 1..l, InBlock(j, k, n)
               PROVE  BlockHas(k, n, l + 1)'
    BY DEF BlockHas
  <2>1. j \in 1..(l + 1)
    BY <1>3
  <2> QED
    BY <1>6, <2>1 DEF BlockHas
<1>9. \A k, n : \A i \in 0..l : Leads(k, n, i) => Leads(k, n, i)'
  BY <1>2, <1>7 DEF Leads
<1>10. \A k, n : Leads(k, n, l) => Leads(k, n, l + 1)'
  BY <1>2, <1>8 DEF Leads
<1>11. SeenOK'
  BY <1>2 DEF SeenOK, NumbersOK, Senders
<1>12. ReadyOK'
  BY <1>1, <1>2, <1>3, <1>10 DEF ReadyOK, NumbersOK, Senders
<1>13. \A b \in Attempts : attempt'[b].state = "pending" => attempt[b].state = "pending"
  BY PendingBefore
<1>14. PendingLeads'
  BY <1>1, <1>3, <1>4, <1>10, <1>13 DEF PendingLeads, NumbersOK, SameAttempt
<1>15. BlockLeads'
  <2>1. \A i \in 1..l : /\ i - 1 \in 0..l
                        /\ Leads(attempt[block[i]].key, attempt[block[i]].seq, i - 1)
    BY <1>1, <1>3, NumberTypes DEF NumbersOK, BlockLeads
  <2>2. \A i \in 1..l : Leads(attempt[block[i]].key, attempt[block[i]].seq, i - 1)'
    <3> SUFFICES ASSUME NEW i \in 1..l
                 PROVE  Leads(attempt[block[i]].key, attempt[block[i]].seq, i - 1)'
      OBVIOUS
    <3>1. /\ attempt'[block'[i]].key = attempt[block[i]].key
          /\ attempt'[block'[i]].seq = attempt[block[i]].seq
      BY <1>3, <1>4 DEF SameAttempt
    <3> QED
      BY <1>9, <2>1, <3>1
  <2>3. PICK k \in Keys : k = attempt[a].key
    BY NumberTypes
  <2>4. PICK n \in Nat : n = attempt[a].seq
    BY NumberTypes
  <2>5. Leads(k, n, l)'
    <3>1. Leads(k, n, l)
      BY <1>1, <1>2, <2>3, <2>4 DEF NumbersOK, PendingLeads
    <3> QED
      BY <1>3, <1>9, <3>1
  <2>6. attempt'[block'[l + 1]].key = k /\ attempt'[block'[l + 1]].seq = n
    BY <1>3, <1>4, <2>3, <2>4 DEF SameAttempt
  <2> SUFFICES ASSUME NEW i \in 1..(l + 1)
               PROVE  Leads(attempt[block[i]].key, attempt[block[i]].seq, i - 1)'
    BY <1>1, <1>2, <1>3 DEF BlockLeads
  <2>7. CASE i = l + 1
    <3>1. i - 1 = l
      BY <1>3, <2>7
    <3> QED
      BY <2>5, <2>6, <2>7, <3>1
  <2>8. CASE i \in 1..l
    BY <2>2, <2>8
  <2> QED
    BY <1>3, <2>7, <2>8
<1>16. ASSUME NEW k, NEW n, GivenOut(k, n)
       PROVE  GivenOut(k, n)'
  <2>1. CASE BlockHas(k, n, l)
    BY <1>3, <1>8, <2>1 DEF GivenOut
  <2>2. CASE \E b \in Attempts : b # a /\ attempt[b].key = k /\ attempt[b].seq = n /\ Current(b)
    BY <1>2, <1>4, <1>5, <2>2 DEF GivenOut, Current
  <2>3. CASE attempt[a].key = k /\ attempt[a].seq = n
    <3>1. InBlock(l + 1, k, n)'
      BY <1>3, <1>4, <2>3 DEF InBlock, SameAttempt
    <3>2. BlockHas(k, n, l + 1)'
      BY <1>3, <3>1 DEF BlockHas
    <3> QED
      BY <1>3, <3>2 DEF GivenOut
  <2>4. CASE \E s \in Senders : ReadyWith(s, k, n)
    BY <1>2, <2>4 DEF GivenOut, ReadyWith, Senders
  <2> QED
    BY <1>1, <1>16, <2>1, <2>2, <2>3, <2>4 DEF GivenOut, ReadyWith
<1>17. LastOK'
  BY <1>2, <1>16 DEF LastOK, NumbersOK, Keys
<1> QED
  BY <1>11, <1>12, <1>14, <1>15, <1>17 DEF NumbersOK

(* What is executed next has a number that the chain has seen or expects:  *)
(* no transaction is invalid because its number is ahead.                  *)
LEMMA HeadExpected ==
  ASSUME Base, BlockLeads, block # <<>>
  PROVE  /\ Head(block) = block[1] /\ 1 \in DOMAIN block /\ Head(block) \in Attempts
         /\ attempt[Head(block)].key \in Keys
         /\ attempt[Head(block)].seq <= chainSeq[attempt[Head(block)].key]
<1>1. Head(block) = block[1] /\ 1 \in DOMAIN block
  BY DEF Base, QueueTypeOK
<1>2. PICK h \in Attempts : h = block[1]
  BY <1>1, NumberTypes
<1>3. PICK k \in Keys : k = attempt[h].key
  BY NumberTypes
<1>4. PICK n \in Nat : n = attempt[h].seq
  BY NumberTypes
<1>5. Leads(k, n, 0)
  BY <1>1, <1>2, <1>3, <1>4, 1 - 1 = 0 DEF BlockLeads
<1>6. \A m : ~BlockHas(k, m, 0)
  BY DEF BlockHas
<1>7. chainSeq[k] \in Nat
  BY NumberTypes
<1>8. n <= chainSeq[k]
  <2>1. chainSeq[k]..(n - 1) = {}
    BY <1>5, <1>6 DEF Leads
  <2> QED
    BY <1>7, <2>1
<1> QED
  BY <1>1, <1>2, <1>3, <1>4, <1>8

(* The head of the block does not run ahead of the chain, whose number     *)
(* goes on by one at most.                                                 *)
LEMMA NumbersExecute ==
  ASSUME Base, BlockOK, NumbersOK, [Next]_vars, Execute
  PROVE  NumbersOK'
<1>1. PICK l : l = Len(block)
  OBVIOUS
<1>2. /\ block # <<>> /\ block' = Tail(block) /\ block \in Seq(Attempts)
      /\ UNCHANGED <<lastSeq, work, crashes>>
  BY DEF Execute, memory, Base, QueueTypeOK
<1>3. /\ l \in Nat \ {0} /\ Len(block') = l - 1
      /\ \A i \in 1..(l - 1) : block'[i] = block[i + 1]
      /\ \A i \in 1..l : block[i] \in Attempts
      /\ DOMAIN block' = 1..(l - 1)
  BY <1>1, <1>2
<1>4. PICK h \in Attempts : h = Head(block)
  BY HeadExpected, <1>2 DEF NumbersOK
<1>5. PICK q \in Keys : q = attempt[h].key
  BY NumberTypes
<1>6. h = block[1] /\ attempt[h].seq <= chainSeq[q]
  BY HeadExpected, <1>2, <1>4, <1>5 DEF NumbersOK
<1>7. /\ Attempts' = Attempts
      /\ \A b \in Attempts : SameAttempt(attempt'[b], attempt[b])
  BY ExecuteAttempt, KeptByNetwork DEF Kept
<1>8. \A b \in Attempts : b # h => attempt'[b] = attempt[b]
  BY <1>4, ExecuteAttempt DEF Becomes, StateSet, Attempts
<1>9. /\ chainSeq' = IF attempt[h].seq = chainSeq[q]
                     THEN [chainSeq EXCEPT ![q] = chainSeq[q] + 1] ELSE chainSeq
  BY <1>4, <1>5, Zenon DEF Execute
<1>10. /\ chainSeq \in [Keys -> Nat] /\ attempt[h].seq \in Nat
  BY NumberTypes DEF Base, QueueTypeOK
<1>11. /\ chainSeq' \in [Keys -> Nat]
       /\ \A k \in Keys : chainSeq[k] <= chainSeq'[k]
       /\ attempt[h].seq < chainSeq'[q]
  BY <1>6, <1>9, <1>10
<1>12. ASSUME NEW k \in Keys, NEW m \in Nat, m >= chainSeq'[k],
              NEW i \in 0..l, BlockHas(k, m, i)
       PROVE  i > 0 /\ BlockHas(k, m, i - 1)'
  <2>1. PICK j \in 1..i : InBlock(j, k, m)
    BY <1>12 DEF BlockHas
  <2>2. j # 1
    BY <1>5, <1>6, <1>10, <1>11, <1>12, <2>1 DEF InBlock
  <2>3. /\ j - 1 \in 1..(i - 1) /\ j - 1 \in 1..(l - 1) /\ j - 1 + 1 = j
        /\ j \in 1..l /\ i > 0
    BY <1>3, <2>1, <2>2
  <2>4. block'[j - 1] = block[j] /\ block[j] \in Attempts
    BY <1>3, <2>3
  <2>5. InBlock(j - 1, k, m)'
    BY <1>7, <2>1, <2>4 DEF InBlock, SameAttempt
  <2> QED
    BY <2>3, <2>5 DEF BlockHas
<1>13. ASSUME NEW k \in Keys, NEW n \in Nat, NEW i \in 1..l, Leads(k, n, i)
       PROVE  Leads(k, n, i - 1)'
  <2> SUFFICES ASSUME NEW m \in chainSeq'[k]..(n - 1)
               PROVE  BlockHas(k, m, i - 1)'
    BY DEF Leads
  <2>1. m \in Nat /\ m >= chainSeq'[k] /\ m \in chainSeq[k]..(n - 1)
    BY <1>10, <1>11
  <2>2. BlockHas(k, m, i) /\ i \in 0..l
    BY <1>13, <2>1 DEF Leads
  <2> QED
    BY <1>12, <2>1, <2>2
<1>14. l \in 1..l
  BY <1>3
<1>15. SeenOK'
  <2>1. \A s \in Senders : work[s].phase = "looked" =>
          work[s].seq \in Nat /\ work[s].key \in Keys /\ work[s].seq <= chainSeq[work[s].key]
    BY NumberTypes DEF SeenOK, NumbersOK
  <2>2. \A s \in Senders : work[s].phase = "looked" => work[s].seq <= chainSeq'[work[s].key]
    BY <1>10, <1>11, <2>1
  <2> QED
    BY <1>2, <2>2 DEF SeenOK, Senders
<1>16. ReadyOK'
  <2>1. \A s \in Senders : work[s].phase = "ready" =>
          /\ work[s].seq \in Nat /\ work[s].key \in Keys
          /\ Leads(work[s].key, work[s].seq, l)
    BY <1>1, NumberTypes DEF ReadyOK, NumbersOK, Holding
  <2> QED
    BY <1>2, <1>3, <1>13, <1>14, <2>1 DEF ReadyOK, Senders
<1>17. PendingLeads'
  <2>1. \A b \in Attempts : attempt'[b].state = "pending" =>
          /\ attempt[b].key \in Keys /\ attempt[b].seq \in Nat
          /\ Leads(attempt[b].key, attempt[b].seq, l)
    BY <1>1, PendingBefore, NumberTypes DEF PendingLeads, NumbersOK
  <2> QED
    BY <1>3, <1>7, <1>13, <1>14, <2>1 DEF PendingLeads, SameAttempt
<1>18. BlockLeads'
  <2> SUFFICES ASSUME NEW i \in 1..(l - 1)
               PROVE  Leads(attempt[block[i]].key, attempt[block[i]].seq, i - 1)'
    BY <1>3 DEF BlockLeads
  <2>1. i + 1 \in 1..l /\ i \in 1..l /\ i + 1 - 1 = i
    BY <1>3
  <2>2. PICK b \in Attempts : b = block[i + 1]
    BY <1>3, <2>1
  <2>3. /\ attempt'[block'[i]].key = attempt[b].key
        /\ attempt'[block'[i]].seq = attempt[b].seq
    BY <1>3, <1>7, <2>2 DEF SameAttempt
  <2>4. i + 1 \in DOMAIN block
    BY <1>1, <1>2, <2>1
  <2>5. Leads(attempt[b].key, attempt[b].seq, i)
    BY <2>1, <2>2, <2>4 DEF BlockLeads, NumbersOK
  <2> QED
    BY <1>13, <2>1, <2>3, <2>5, NumberTypes
<1>19. ASSUME NEW k \in Keys, NEW n \in Nat, n >= chainSeq'[k], GivenOut(k, n)
       PROVE  GivenOut(k, n)'
  <2>1. CASE BlockHas(k, n, l)
    <3>1. BlockHas(k, n, l - 1)'
      BY <1>12, <1>14, <1>19, <2>1
    <3> QED
      BY <1>3, <3>1 DEF GivenOut
  <2>2. CASE \E b \in Attempts : attempt[b].key = k /\ attempt[b].seq = n /\ Current(b)
    <3>1. PICK b \in Attempts : attempt[b].key = k /\ attempt[b].seq = n /\ Current(b)
      BY <2>2
    <3>2. b # h
      BY <1>2, <1>4, <3>1, HeadFinal DEF Current
    <3> QED
      BY <1>2, <1>7, <1>8, <3>1, <3>2 DEF GivenOut, Current
  <2>3. CASE \E s \in Senders : ReadyWith(s, k, n)
    BY <1>2, <2>3 DEF GivenOut, ReadyWith, Senders
  <2> QED
    BY <1>1, <1>19, <2>1, <2>2, <2>3 DEF GivenOut, ReadyWith
<1>20. LastOK'
  <2> SUFFICES ASSUME NEW k \in Keys, NEW n \in chainSeq'[k]..lastSeq[k]
               PROVE  GivenOut(k, n)'
    BY <1>2 DEF LastOK, Keys
  <2>1. /\ n \in Nat /\ n >= chainSeq'[k] /\ n \in chainSeq[k]..lastSeq[k]
    BY <1>10, <1>11, NumberTypes
  <2> QED
    BY <1>19, <2>1 DEF LastOK, NumbersOK
<1> QED
  BY <1>15, <1>16, <1>17, <1>18, <1>20 DEF NumbersOK

(* A restart forgets the numbers, and all that was given out is sent.      *)
LEMMA NumbersCrash ==
  ASSUME Base, NumbersOK, [Next]_vars, Crash
  PROVE  NumbersOK'
<1>1. /\ lastSeq' = [k \in Keys |-> NotRead]
      /\ UNCHANGED <<attempt, block, chainSeq>>
  BY DEF Crash, network
<1>2. \A s \in Senders : work'[s].phase \notin {"looked", "ready"}
  BY CrashWork DEF Base, EndedWork, EndPhase
<1>3. SeenOK' /\ ReadyOK'
  BY <1>2 DEF SeenOK, ReadyOK, Senders
<1>4. PendingLeads' /\ BlockLeads'
  BY <1>1 DEF PendingLeads, BlockLeads, NumbersOK, Leads, BlockHas, InBlock, Attempts
<1>5. \A k \in Keys : chainSeq'[k]..lastSeq'[k] = {}
  BY <1>1, NumberTypes DEF NotRead
<1>6. LastOK'
  BY <1>5 DEF LastOK, Keys
<1> QED
  BY <1>3, <1>4, <1>6 DEF NumbersOK

(* No number was given out at first.                                       *)
LEMMA NumbersInit == Init => NumbersOK
BY DEF Init, Idle, NumbersOK, SeenOK, ReadyOK, PendingLeads, BlockLeads, LastOK,
       NotRead, Attempts

Lossless == QueueInv /\ RunsOK /\ PendingOK /\ NumbersOK

(* Each step keeps the numbers without a gap.                              *)
LEMMA NumbersNext ==
  ASSUME Faulty = FALSE, Lossless, [Next]_vars
  PROVE  NumbersOK'
<1>1. Base /\ LocksOK /\ BlockOK /\ PendingOK /\ NumbersOK
  BY DEF Lossless, QueueInv
<1>2. attempt' = attempt => SameStates /\ Attempts' = Attempts
  BY DEF SameStates, Attempts
<1>3. CASE \E r \in Rows : Enqueue(r)
  BY <1>1, <1>2, <1>3, NumbersStay DEF Enqueue, memory, network
<1>4. ASSUME NEW s \in Senders, NEW job \in Rows \cup Senders, LooksFor(s, job)
      PROVE  NumbersOK'
  <2>1. PICK w : w = LookedWork(job, FirstUnlocked)
    OBVIOUS
  <2>2. /\ work' = [work EXCEPT ![s] = w] /\ work[s].phase # "ready"
        /\ UNCHANGED <<attempt, block, chainSeq, lastSeq, crashes>>
    BY <1>4, <2>1, LookWork DEF LooksFor, Look, network
  <2>3. FirstUnlocked \in Keys
    BY <1>4, FirstUnlockedIn DEF LooksFor, Look
  <2>4. w.phase = "looked" /\ w.seq = chainSeq[w.key] /\ w.key \in Keys
    BY <2>1, <2>3 DEF LookedWork
  <2>5. w.phase # "ready" /\ w.seq <= chainSeq[w.key]
    BY <1>1, <2>4, NumberTypes
  <2> QED
    BY <1>1, <1>2, <2>2, <2>5, NumbersStep
<1>5. CASE \E s \in Senders : Lock(s)
  BY <1>1, <1>5, NumbersLock
<1>6. ASSUME NEW s \in Senders, NEW phase \in {"sent", "refused"},
             NEW state \in {"pending", "unknown"}, Gives(s, phase, state)
      PROVE  NumbersOK'
  BY <1>1, <1>6, NumbersGive DEF Gives
<1>7. ASSUME NEW s \in Senders, GiveUp(s) \/ CallerEnds(s)
      PROVE  NumbersOK'
  <2>1. PICK w : w = EndedWork(s)
    OBVIOUS
  <2>2. /\ work' = [work EXCEPT ![s] = w]
        /\ UNCHANGED <<attempt, block, chainSeq, lastSeq, crashes>>
    BY <1>1, <1>7, <2>1, EndWork DEF network
  <2>3. work[s].phase # "ready"
    BY <1>7 DEF GiveUp, CallerEnds
  <2>4. w.phase # "ready" /\ w.phase # "looked"
    BY <2>1 DEF EndedWork, EndPhase
  <2> QED
    BY <1>1, <1>2, <2>2, <2>3, <2>4, NumbersStep
<1>8. CASE Commit
  <2>1. PICK w : w = EndedWork(Poller)
    OBVIOUS
  <2>2. /\ work' = [work EXCEPT ![Poller] = w] /\ InFlight(Poller)
        /\ UNCHANGED <<block, chainSeq, lastSeq, crashes>>
    BY <1>8, <2>1, CommitWork
  <2>3. work[Poller].phase # "ready" /\ w.phase # "ready" /\ w.phase # "looked"
    BY <2>1, <2>2 DEF EndedWork, EndPhase, InFlight
  <2>4. Attempts' = Attempts /\ \A b \in Attempts : attempt'[b].state = attempt[b].state
    BY <1>1, <1>8, CommitAttempt DEF SavedSet, Attempts
  <2>5. Poller \in Senders /\ SameStates
    BY <2>4 DEF Senders, SameStates
  <2> QED
    BY <1>1, <2>2, <2>3, <2>4, <2>5, NumbersStep
<1>9. CASE CommitFails
  BY <1>9 DEF CommitFails
<1>10. CASE (\E a \in Attempts : WaitEnds(a)) \/ HandleResult \/ UNCHANGED vars
  BY <1>1, <1>2, <1>10, NumbersStay
     DEF WaitEnds, Unlock, HandleResult, vars, memory, network
<1>11. ASSUME NEW a \in Attempts, Finalize(a)
       PROVE  NumbersOK'
  BY <1>1, <1>11, NumbersFinalize
<1>12. CASE \E a \in Attempts : Expire(a)
  BY <1>12 DEF Expire
<1>13. CASE Execute
  BY <1>1, <1>13, NumbersExecute
<1>14. CASE Crash
  BY <1>1, <1>14, NumbersCrash
<1> QED
  BY <1>3, <1>4, <1>5, <1>6, <1>7, <1>8, <1>9, <1>10, <1>11, <1>12, <1>13, <1>14,
     Steps, Zenon

(* Without failures, numbers, keys and rows are in order, in every state.  *)
LEMMA LosslessAlways ==
  ASSUME Faulty = FALSE
  PROVE  Spec => []Lossless
<1>1. Init => Lossless
  BY QueueInvInit, NumbersInit DEF Init, RunsOK, PendingOK, Attempts, Lossless
<1>2. Lossless /\ [Next]_vars => Lossless'
  BY QueueInvNext, RunsNext, PendingNext, NumbersNext DEF QueueInv, Lossless
<1> QED
  BY <1>1, <1>2, PTL DEF Spec

(* When nothing is lost, no number that a key has given out is missing: it *)
(* belongs to a sender, or to a transaction that is on its way, also when  *)
(* the process restarts and reads the numbers of the chain again.          *)
THEOREM NumbersMeetChain ==
  ASSUME Faulty = FALSE
  PROVE  Spec => []NoGap
<1>1. ASSUME Lossless
      PROVE  NoGap
  <2>1. Base /\ BlockOK /\ LastOK
    BY <1>1 DEF Lossless, QueueInv, NumbersOK
  <2>2. ASSUME NEW k, NEW n, BlockHas(k, n, Len(block))
        PROVE  \E a \in Attempts : /\ attempt[a].key = k /\ attempt[a].seq = n
                                   /\ attempt[a].state \in {"pending", "final"}
    <3>1. PICK j \in 1..Len(block) : InBlock(j, k, n)
      BY <2>2 DEF BlockHas
    <3>2. block[j] \in Attempts /\ attempt[block[j]].state = "final"
      BY <2>1, <3>1, NumberTypes DEF BlockOK
    <3> QED
      BY <3>1, <3>2 DEF InBlock
  <2> QED
    BY <2>1, <2>2 DEF NoGap, LastOK, GivenOut, Current
<1> QED
  BY <1>1, LosslessAlways, PTL

=============================================================================
