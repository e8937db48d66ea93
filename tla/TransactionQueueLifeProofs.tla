---------------------- MODULE TransactionQueueLifeProofs ----------------------
(***************************************************************************)
(* The queue implements TransactionLife, whatever fails: every step of     *)
(* TransactionQueue is a step of TransactionLife, or changes nothing that  *)
(* it speaks about.                                                        *)
(***************************************************************************)
EXTENDS TransactionQueueProofs

life == <<SavedRows, Runs, Interruptions, Refusals, Answers>>

SavedSame == \A r \in Rows : row'[r].state = "none" <=> row[r].state = "none"
RunsSame == \A r \in Rows : \A o \in Ran : RunsWith(r, o)' = RunsWith(r, o)
OrphansSame == \A r \in Rows : Orphans(r)' = Orphans(r)
AnswerOf(r) == IF row[r].state \in {"complete", "failed"} THEN row[r].state ELSE "none"
AnswersSame == \A r \in Rows : AnswerOf(r)' = AnswerOf(r)

(* What the abstract variables say about one row.                          *)
LEMMA LifeValues ==
  /\ \A r \in Rows : \A o \in Ran : Runs[r][o] = Cardinality(RunsWith(r, o))
  /\ \A r \in Rows : Interruptions[r] = Cardinality(Orphans(r))
  /\ \A r \in Rows : Answers[r] = AnswerOf(r)
BY DEF Runs, Interruptions, Answers, AnswerOf

(* If no row appears, the saved rows are the same.                         *)
LEMMA SavedKept ==
  ASSUME SavedSame
  PROVE  SavedRows' = SavedRows
BY DEF SavedSame, SavedRows

(* If no attempt runs, the runs are the same.                              *)
LEMMA RunsKept ==
  ASSUME RunsSame
  PROVE  Runs' = Runs
BY DEF RunsSame, Runs, Ran

(* If no row loses an attempt, the interruptions are the same.             *)
LEMMA InterruptionsKept ==
  ASSUME OrphansSame
  PROVE  Interruptions' = Interruptions
BY DEF OrphansSame, Interruptions

(* If no row ends, the answers are the same.                               *)
LEMMA AnswersKept ==
  ASSUME AnswersSame
  PROVE  Answers' = Answers
BY DEF AnswersSame, Answers, AnswerOf

(* Only the poller has a refusal to note, and only while it is in flight.  *)
LEMMA NoRefusal ==
  /\ work[Poller].phase # "refused" => Refusals = {}
  /\ work'[Poller].phase # "refused" => Refusals' = {}
BY DEF Refusals

(* If the poller stays, so do the refusals.                                *)
LEMMA RefusalsKept ==
  ASSUME work'[Poller] = work[Poller]
  PROVE  Refusals' = Refusals
BY DEF Refusals

(* A step that does none of this is a stutter of TransactionLife.          *)
LEMMA Stutter ==
  ASSUME SavedSame, RunsSame, OrphansSame, AnswersSame, Refusals' = Refusals
  PROVE  UNCHANGED life
BY SavedKept, RunsKept, InterruptionsKept, AnswersKept DEF life

----------------------------------------------------------------------------
(* Steps that leave parts alone.                                           *)

(* The rows stay, and so does what depends on them.                        *)
LEMMA RowsAlone ==
  ASSUME row' = row
  PROVE  SavedSame /\ AnswersSame
BY DEF SavedSame, AnswersSame, AnswerOf

(* The attempts keep what they are, and the runs are the same.             *)
LEMMA AttemptsAlone ==
  ASSUME Attempts' = Attempts,
         \A b \in Attempts : SameAttempt(attempt'[b], attempt[b]),
         \A b \in Attempts :
           \/ attempt'[b].state = attempt[b].state
           \/ attempt'[b].state \notin Ran /\ attempt[b].state \notin Ran
  PROVE  RunsSame
BY DEF RunsSame, RunsWith, SameAttempt

(* What the poller has in flight, if the rest is the same, decides which   *)
(* attempts are orphans.                                                   *)
LEMMA OrphansAlone ==
  ASSUME Attempts' = Attempts, \A b \in Attempts : Kept(b),
         work'[Poller].id = work[Poller].id
  PROVE  OrphansSame
BY DEF OrphansSame, Orphans, Kept, SameAttempt

(* Steps that neither send nor finish what the poller has in flight.       *)
LEMMA QuietStep ==
  ASSUME row' = row, attempt' = attempt, work'[Poller].id = work[Poller].id,
         Refusals' = Refusals
  PROVE  UNCHANGED life
<1>1. Attempts' = Attempts /\ \A b \in Attempts : Kept(b)
  BY AllKept
<1>2. RunsSame
  BY <1>1, AttemptsAlone DEF Kept
<1> QED
  BY <1>1, <1>2, RowsAlone, OrphansAlone, Stutter

(* The network changes a state, and no script runs.                        *)
LEMMA NetworkStep ==
  ASSUME NEW a \in Attempts, NEW x, Becomes(a, x), x \notin Ran,
         attempt[a].state \notin Ran, row' = row, work' = work
  PROVE  UNCHANGED life
<1>1. Attempts' = Attempts /\ \A b \in Attempts : Kept(b)
  BY KeptByNetwork
<1>2. attempt'[a].state = x /\ \A b \in Attempts : b # a => attempt'[b] = attempt[b]
  BY DEF Becomes, StateSet, Attempts
<1>3. RunsSame
  BY <1>1, <1>2, AttemptsAlone DEF Kept
<1> QED
  BY <1>1, <1>3, RowsAlone, OrphansAlone, RefusalsKept, Stutter

(* Who is not sending has no attempt in flight, and 0 is none.             *)
LEMMA NoFlight ==
  ASSUME Base
  PROVE  /\ 0 \notin Attempts
         /\ ~InFlight(Poller) => work[Poller].id = 0
         /\ Poller \in Senders
<1>1. Poller \in Senders
  BY DEF Senders
<1>2. FlightOK(Poller)
  BY <1>1 DEF Base, JobsOK
<1>3. 0 \notin Attempts
  BY DEF Base, QueueTypeOK, Attempts
<1> QED
  BY <1>1, <1>2, <1>3 DEF FlightOK

----------------------------------------------------------------------------
(* Sending.                                                                *)

(* A new attempt has not run, and is no orphan yet; if the node refuses it, *)
(* the poller is to note that.                                              *)
LEMMA LifeGive ==
  ASSUME Base, NEW s \in Senders, NEW phase \in {"sent", "refused"},
         NEW state \in {"pending", "unknown"}, Gives(s, phase, state)
  PROVE  [Life!Next]_life
<1>1. PICK n : n = Len(attempt) + 1
  OBVIOUS
<1>2. /\ Attempts' = Attempts \cup {n} /\ n \notin Attempts
      /\ attempt'[n] = GivenAttempt(s, state)
      /\ \A b \in Attempts : attempt'[b] = attempt[b]
  BY <1>1, GiveAttempt DEF Gives
<1>3. work' = [work EXCEPT ![s] = GivenWork(s, phase)] /\ row' = row
  BY GiveWork DEF Gives, Give, Base
<1>4. work'[s] = GivenWork(s, phase) /\ \A t \in Senders : t # s => work'[t] = work[t]
  BY <1>3, OneMoves
<1>5. attempt'[n].state \notin Ran /\ attempt'[n].job = work[s].job /\ attempt'[n].saved = FALSE
  BY <1>2 DEF GivenAttempt, Ran
<1>6. RunsSame
  BY <1>2, <1>5 DEF RunsSame, RunsWith
<1>7. work[s].phase = "ready" /\ JobOK(s)
  BY DEF Gives, Give, Base, JobsOK
<1>8. OrphansSame
  <2>1. CASE s = Poller
    <3>1. work'[Poller].id = n /\ work[Poller].id = 0
      BY <1>1, <1>4, <1>7, <2>1, NoFlight DEF GivenWork, InFlight
    <3> QED
      BY <1>2, <3>1, NoFlight DEF OrphansSame, Orphans
  <2>2. CASE s # Poller
    <3>1. attempt'[n].job \notin Rows
      BY <1>5, <1>7, <2>2, QueueAssumption DEF JobOK, Holding, Senders
    <3>2. work'[Poller] = work[Poller]
      BY <1>4, <2>2, NoFlight
    <3> QED
      BY <1>2, <3>1, <3>2 DEF OrphansSame, Orphans
  <2> QED
    BY <2>1, <2>2
<1>9. CASE s = Poller /\ phase = "refused"
  <2>1. PICK r \in Rows : r = work[Poller].job /\ row[r].state \in {"init", "retry"}
    BY <1>7, <1>9 DEF JobOK, Holding
  <2>2. Refusals = {}
    BY <1>7, <1>9, NoRefusal
  <2>3. work'[Poller].phase = "refused" /\ work'[Poller].job = r
    BY <1>4, <1>9, <2>1 DEF GivenWork
  <2>4. Refusals' = Refusals \cup {r}
    BY <2>1, <2>2, <2>3 DEF Refusals
  <2>5. Life!Open(r)
    BY <2>1 DEF Life!Open, SavedRows, Answers
  <2>6. Life!Refuse(r)
    BY <1>3, <1>6, <1>8, <2>4, <2>5, RowsAlone, SavedKept, RunsKept,
       InterruptionsKept, AnswersKept DEF Life!Refuse
  <2> QED
    BY <2>6 DEF Life!Next
<1>10. CASE ~(s = Poller /\ phase = "refused")
  <2>1. Refusals' = Refusals
    <3>1. CASE s # Poller
      BY <1>4, <3>1, NoFlight, RefusalsKept
    <3>2. CASE s = Poller
      <4>1. work'[Poller].phase # "refused" /\ work[Poller].phase # "refused"
        BY <1>4, <1>7, <1>10, <3>2 DEF GivenWork
      <4> QED
        BY <4>1, NoRefusal
    <3> QED
      BY <3>1, <3>2
  <2> QED
    BY <1>3, <1>6, <1>8, <2>1, RowsAlone, Stutter
<1> QED
  BY <1>9, <1>10

----------------------------------------------------------------------------
(* Interruptions.                                                          *)

(* The poller drops what it has in flight: one orphan more, and a refusal  *)
(* is forgotten.                                                           *)
LEMMA LifeInterrupt ==
  ASSUME Base, InFlight(Poller), row' = row, attempt' = attempt,
         work'[Poller].id = 0, work'[Poller].phase # "refused"
  PROVE  Life!Interrupt(work[Poller].job)
<1>1. PICK a \in Attempts : a = work[Poller].id
  BY PollerFlight
<1>2. PICK r \in Rows : r = work[Poller].job
  BY PollerFlight
<1>3. /\ row[r].state \in {"init", "retry"}
      /\ attempt[a].job = r /\ attempt[a].saved = FALSE
  BY <1>1, <1>2, PollerFlight
<1>4. Attempts' = Attempts /\ \A b \in Attempts : Kept(b)
  BY AllKept
<1>5. SavedRows' = SavedRows /\ Runs' = Runs /\ Answers' = Answers
  BY <1>4, AttemptsAlone, RowsAlone, RunsKept, SavedKept, AnswersKept DEF Kept
<1>6. Orphans(r)' = Orphans(r) \cup {a} /\ a \notin Orphans(r)
  BY <1>1, <1>3, <1>4, NoFlight DEF Orphans
<1>7. \A q \in Rows : q # r => Orphans(q)' = Orphans(q)
  BY <1>1, <1>3, <1>4, NoFlight DEF Orphans
<1>8. IsFiniteSet(Orphans(r))
  BY AttemptsFinite DEF Orphans
<1>9. Cardinality(Orphans(r))' = Cardinality(Orphans(r)) + 1
  BY <1>6, <1>8, FS_AddElement
<1>10. Interruptions' = [Interruptions EXCEPT ![r] = Interruptions[r] + 1]
  BY <1>7, <1>9 DEF Interruptions
<1>11. Life!Open(r)
  BY <1>3 DEF SavedRows, Answers, Life!Open
<1>12. Refusals' = Refusals \ {r}
  BY <1>2, NoRefusal DEF Refusals
<1>13. Life!Interrupt(r)
  BY <1>5, <1>10, <1>11, <1>12 DEF Life!Interrupt
<1> QED
  BY <1>2, <1>13

----------------------------------------------------------------------------
(* Answers.                                                                *)

(* A row that is not at its end is saved with another state: an answer,    *)
(* for a refusal that is to be noted or for a run, or none.                *)
LEMMA LifeAnswer ==
  ASSUME Base, NEW r \in Rows, NEW state, NEW id, SaveRow(r, state, id),
         row[r].state \notin {"none", "complete", "failed"},
         state \in {"sent", "retry", "complete", "failed"},
         RunsSame, OrphansSame, Refusals' = Refusals \ {r},
         r \in Refusals => state = "failed",
         state = "complete" => Runs[r]["executed"] > 0,
         state = "failed" => r \in Refusals \/ Runs[r]["reverted"] > 0
  PROVE  [Life!Next]_life
<1>1. row'[r].state = state /\ \A q \in Rows : q # r => row'[q] = row[q]
  BY RowUpdate
<1>2. SavedSame
  BY <1>1 DEF SavedSame
<1>3. SavedRows' = SavedRows /\ Runs' = Runs /\ Interruptions' = Interruptions
  BY <1>2, SavedKept, RunsKept, InterruptionsKept
<1>4. Life!Open(r)
  BY DEF Life!Open, SavedRows, Answers
<1>5. state \in {"complete", "failed"} => Answers' = [Answers EXCEPT ![r] = state]
  <2> SUFFICES ASSUME state \in {"complete", "failed"}
               PROVE  Answers' = [Answers EXCEPT ![r] = state]
    OBVIOUS
  <2>1. AnswerOf(r)' = state
    BY <1>1 DEF AnswerOf
  <2>2. \A q \in Rows : q # r => AnswerOf(q)' = AnswerOf(q)
    BY <1>1 DEF AnswerOf
  <2> QED
    BY <2>1, <2>2 DEF Answers, AnswerOf
<1>6. CASE r \in Refusals
  <2>1. Life!AnswerRefusal(r)
    BY <1>3, <1>4, <1>5, <1>6 DEF Life!AnswerRefusal
  <2> QED
    BY <2>1 DEF Life!Next
<1>7. CASE r \notin Refusals /\ state \in {"sent", "retry"}
  <2>1. AnswersSame
    BY <1>1, <1>7 DEF AnswersSame, AnswerOf
  <2> QED
    BY <1>2, <1>7, <2>1, Stutter
<1>8. ASSUME NEW o \in Ran, r \notin Refusals, Runs[r][o] > 0, state = Life!Meaning(o)
      PROVE  [Life!Next]_life
  <2>1. state \in {"complete", "failed"}
    BY <1>8 DEF Life!Meaning
  <2>2. Refusals' = Refusals
    BY <1>8
  <2>3. Life!AnswerRun(r, o)
    BY <1>3, <1>4, <1>5, <1>8, <2>1, <2>2 DEF Life!AnswerRun
  <2>4. o \in Life!Outcomes
    BY DEF Ran, Life!Outcomes
  <2> QED
    BY <2>3, <2>4 DEF Life!Next
<1>9. CASE r \notin Refusals /\ state = "complete"
  BY <1>8, <1>9 DEF Ran, Life!Meaning
<1>10. CASE r \notin Refusals /\ state = "failed"
  BY <1>8, <1>10 DEF Ran, Life!Meaning
<1> QED
  BY <1>6, <1>7, <1>9, <1>10

(* The row knows its attempt, which is no orphan before or after; it has   *)
(* failed if the node has refused this attempt.                            *)
LEMMA LifeCommit ==
  ASSUME Base, Commit
  PROVE  [Life!Next]_life
<1>1. PICK a \in Attempts : a = work[Poller].id
  BY CommitWork, PollerFlight
<1>2. PICK r \in Rows : r = work[Poller].job
  BY CommitWork, PollerFlight
<1>3. PICK state : state = IF work[Poller].phase = "sent" THEN "sent" ELSE "failed"
  OBVIOUS
<1>4. SaveRow(r, state, a) /\ row[r].state \in {"init", "retry"}
  BY <1>1, <1>2, <1>3, CommitWork, PollerFlight DEF Commit
<1>5. SavedSet(attempt, attempt', a)
  BY <1>1, CommitAttempt
<1>6. /\ Attempts' = Attempts
      /\ \A b \in Attempts : /\ SameAttempt(attempt'[b], attempt[b])
                             /\ attempt'[b].state = attempt[b].state
      /\ attempt'[a].saved = TRUE
      /\ \A b \in Attempts : b # a => attempt'[b] = attempt[b]
  BY <1>1, <1>5 DEF SavedSet, SameAttempt, Attempts
<1>7. RunsSame
  BY <1>6, AttemptsAlone
<1>8. work'[Poller].id = 0 /\ work'[Poller].phase # "refused"
  <2>1. work' = [work EXCEPT ![Poller] = EndedWork(Poller)]
    BY CommitWork
  <2>2. work'[Poller] = EndedWork(Poller)
    BY <2>1, OneMoves, NoFlight
  <2> QED
    BY <2>2 DEF EndedWork, EndPhase
<1>9. OrphansSame
  BY <1>1, <1>6, <1>8, NoFlight DEF OrphansSame, Orphans, SameAttempt
<1>10. r \in Refusals <=> state = "failed"
  BY <1>2, <1>3, CommitWork DEF InFlight, Refusals
<1>11. Refusals' = Refusals \ {r}
  BY <1>2, <1>8, NoRefusal DEF Refusals
<1>12. state \in {"sent", "failed"}
  BY <1>3
<1> QED
  BY <1>4, <1>7, <1>9, <1>10, <1>11, <1>12, LifeAnswer

(* An attempt with an outcome is counted.                                  *)
LEMMA RunCounted ==
  ASSUME Base, NEW r \in Rows, NEW o \in Ran, NEW a \in Attempts,
         attempt[a].job = r, attempt[a].state = o
  PROVE  Runs[r][o] > 0
<1>1. RunsWith(r, o) \subseteq Attempts /\ a \in RunsWith(r, o)
  BY DEF RunsWith
<1>2. IsFiniteSet(RunsWith(r, o)) /\ Cardinality(RunsWith(r, o)) \in Nat
  BY <1>1, AttemptsFinite
<1>3. Cardinality(RunsWith(r, o)) # 0
  BY <1>1, <1>2, FS_EmptySet
<1> QED
  BY <1>2, <1>3, LifeValues

(* The answer is what the network says about the attempt of the row.       *)
LEMMA LifeResult ==
  ASSUME QueueInv, HandleResult
  PROVE  [Life!Next]_life
<1>1. Base /\ RowsOK
  BY DEF QueueInv
<1>2. PICK r \in Rows : /\ IsNext(r, {"sent"})
                        /\ SaveRow(r, StateAfter(attempt[row[r].id].state), row[r].id)
  BY DEF HandleResult
<1>3. row[r].state = "sent"
  BY <1>2 DEF IsNext
<1>4. PICK a \in Attempts : a = row[r].id /\ attempt[a].job = r
  BY <1>1, <1>3 DEF RowsOK, RowOK
<1>5. PICK state : state = StateAfter(attempt[a].state)
  OBVIOUS
<1>6. SaveRow(r, state, a)
  BY <1>2, <1>4, <1>5
<1>7. state \in {"complete", "failed", "retry", "sent"}
  BY <1>5, StateAfterType
<1>8. attempt' = attempt /\ work' = work
  BY DEF HandleResult, memory, network
<1>9. RunsSame /\ OrphansSame
  BY <1>8, AllKept, AttemptsAlone, OrphansAlone DEF Kept
<1>10. state = "complete" => Runs[r]["executed"] > 0
  <2>1. state = "complete" => attempt[a].state = "executed"
    BY <1>5 DEF StateAfter
  <2> QED
    BY <1>1, <1>4, <2>1, RunCounted DEF Ran
<1>11. state = "failed" => Runs[r]["reverted"] > 0
  <2>1. state = "failed" => attempt[a].state = "reverted"
    BY <1>5 DEF StateAfter
  <2> QED
    BY <1>1, <1>4, <2>1, RunCounted DEF Ran
<1>12. Refusals = {} /\ Refusals' = {}
  <2>1. work[Poller].phase # "refused" /\ work'[Poller].phase # "refused"
    BY <1>8 DEF HandleResult
  <2> QED
    BY <2>1, NoRefusal
<1> QED
  BY <1>1, <1>3, <1>6, <1>7, <1>9, <1>10, <1>11, <1>12, LifeAnswer

----------------------------------------------------------------------------
(* Runs.                                                                   *)

(* Of the attempts of a transaction that may still run or have run, one at *)
(* most is no orphan: the one that its row names, or the one that the      *)
(* poller has just sent, because the row is sent again only when the       *)
(* attempt that it names is dead.                                          *)
LEMMA OneNoOrphan ==
  ASSUME QueueInv, NEW r \in Rows,
         NEW a \in Attempts, attempt[a].job = r, attempt[a].state \notin Dead,
         a \notin Orphans(r),
         NEW b \in Attempts, attempt[b].job = r, attempt[b].state \notin Dead,
         b \notin Orphans(r)
  PROVE  a = b
<1>1. Base /\ RowsOK
  BY DEF QueueInv
<1>2. ASSUME NEW c \in Attempts, attempt[c].job = r, attempt[c].state \notin Dead,
             c \notin Orphans(r)
      PROVE  \/ attempt[c].saved /\ c = row[r].id
             \/ c = work[Poller].id /\ InFlight(Poller) /\ work[Poller].job = r
  <2>1. CASE attempt[c].saved
    BY <1>2, <2>1, SavedRunIsLast
  <2>2. CASE ~attempt[c].saved
    <3>1. c = work[Poller].id
      BY <1>2, <2>2 DEF Orphans
    <3>2. InFlight(Poller)
      BY <1>1, <3>1, NoFlight
    <3> QED
      BY <1>1, <1>2, <3>1, <3>2, PollerFlight
  <2> QED
    BY <2>1, <2>2
<1>3. InFlight(Poller) /\ work[Poller].job = r => row[r].state \in {"init", "retry"}
  BY <1>1, PollerFlight
<1>4. row[r].state = "init" => row[r].id \notin Attempts
  BY <1>1, NoFlight DEF RowsOK, RowOK
<1>5. row[r].state = "retry" => attempt[row[r].id].state \in Dead
  BY <1>1 DEF RowsOK, RowOK
<1> QED
  BY <1>2, <1>3, <1>4, <1>5

(* What runs has not run: all attempts that have are orphans, or all but   *)
(* one, and then the one that runs is an orphan.                           *)
LEMMA RunsBelow ==
  ASSUME QueueInv, NEW r \in Rows, NEW a \in Attempts,
         attempt[a].job = r, attempt[a].state = "final"
  PROVE  Runs[r]["executed"] + Runs[r]["reverted"] <= Interruptions[r]
<1> DEFINE E == RunsWith(r, "executed")
           R == RunsWith(r, "reverted")
           O == Orphans(r)
<1>1. E \subseteq Attempts /\ R \subseteq Attempts /\ O \subseteq Attempts
  BY DEF RunsWith, Orphans
<1>2. Base
  BY DEF QueueInv
<1>3. /\ IsFiniteSet(E) /\ Cardinality(E) \in Nat
      /\ IsFiniteSet(R) /\ Cardinality(R) \in Nat
      /\ IsFiniteSet(O) /\ Cardinality(O) \in Nat
  BY <1>1, <1>2, AttemptsFinite
<1>4. /\ IsFiniteSet(E \cup R)
      /\ Cardinality(E \cup R) = Cardinality(E) + Cardinality(R)
  <2>1. E \cap R = {}
    BY DEF RunsWith
  <2>2. Cardinality(E \cap R) = 0
    BY <2>1, FS_EmptySet
  <2>3. /\ IsFiniteSet(E \cup R)
        /\ Cardinality(E \cup R) = Cardinality(E) + Cardinality(R) - Cardinality(E \cap R)
    BY <1>3, FS_Union
  <2> QED
    BY <1>3, <2>2, <2>3
<1>5. \A b \in E \cup R : /\ b \in Attempts /\ b # a /\ attempt[b].job = r
                          /\ attempt[b].state \notin Dead
  BY DEF RunsWith, Dead
<1>6. Cardinality(E \cup R) <= Cardinality(O)
  <2>1. CASE E \cup R \subseteq O
    BY <1>3, <2>1, FS_Subset
  <2>2. CASE ~(E \cup R \subseteq O)
    <3>1. PICK b \in E \cup R : b \notin O
      BY <2>2
    <3>2. \A c \in E \cup R : c # b => c \in O
      BY <1>5, <3>1, OneNoOrphan
    <3>3. a \in O
      BY <1>5, <3>1, OneNoOrphan DEF Dead
    <3>4. (E \cup R) \ {b} \subseteq O \ {a}
      BY <1>5, <3>2
    <3>5. /\ Cardinality((E \cup R) \ {b}) = Cardinality(E \cup R) - 1
          /\ IsFiniteSet(O \ {a}) /\ Cardinality(O \ {a}) = Cardinality(O) - 1
      BY <1>3, <1>4, <3>1, <3>3, FS_RemoveElement
    <3>6. Cardinality((E \cup R) \ {b}) <= Cardinality(O \ {a})
      BY <3>4, <3>5, FS_Subset
    <3> QED
      BY <1>3, <1>4, <3>5, <3>6
  <2> QED
    BY <2>1, <2>2
<1> QED
  BY <1>4, <1>6, LifeValues DEF Ran

(* One more run of one transaction.                                        *)
LEMMA RunsUpdate ==
  ASSUME NEW r \in Rows, NEW o \in Ran, NEW n,
         Cardinality(RunsWith(r, o))' = n,
         \A q \in Rows : \A x \in Ran :
           q # r \/ x # o => RunsWith(q, x)' = RunsWith(q, x)
  PROVE  Runs' = [Runs EXCEPT ![r][o] = n]
<1>1. PICK g : g = [x \in Ran |-> IF x = o THEN n ELSE Cardinality(RunsWith(r, x))]
  OBVIOUS
<1>2. PICK f : f = [x \in Ran |-> Cardinality(RunsWith(r, x))]
  OBVIOUS
<1>3. Runs[r] = f
  BY <1>2 DEF Runs
<1>4. g = [f EXCEPT ![o] = n]
  BY <1>1, <1>2
<1>5. [Runs EXCEPT ![r][o] = n] = [Runs EXCEPT ![r] = g]
  BY <1>3, <1>4, Zenon
<1>6. \A q \in Rows : q # r => Runs'[q] = Runs[q]
  BY DEF Runs, Ran
<1>7. Runs'[r] = g
  BY <1>1 DEF Runs, Ran
<1>8. Runs' = [Runs EXCEPT ![r] = g]
  BY <1>6, <1>7 DEF Runs
<1> QED
  BY <1>5, <1>8

(* A script that runs was never run for this attempt; whether its row      *)
(* knows of it decides how many others may have run.                       *)
LEMMA LifeExecute ==
  ASSUME QueueInv, Execute
  PROVE  [Life!Next]_life
<1>1. Base /\ BlockOK /\ RowsOK
  BY DEF QueueInv
<1>2. PICK x \in Sealed : Head(block) \in Attempts /\ Becomes(Head(block), x)
  BY <1>1, ExecuteAttempt
<1>3. PICK a \in Attempts : a = Head(block)
  BY <1>2
<1>4. Becomes(a, x) /\ attempt[a].state = "final" /\ row' = row /\ work' = work
  BY <1>1, <1>2, <1>3, HeadFinal DEF Execute, memory
<1>5. CASE x \notin Ran
  <2>1. "final" \notin Ran
    BY DEF Ran
  <2> QED
    BY <1>4, <1>5, <2>1, NetworkStep
<1>6. CASE x \in Ran
  <2>1. Attempts' = Attempts /\ \A b \in Attempts : Kept(b)
    BY <1>4, KeptByNetwork
  <2>2. /\ attempt'[a].state = x /\ attempt'[a].job = attempt[a].job
        /\ \A b \in Attempts : b # a => attempt'[b] = attempt[b]
    BY <1>4 DEF Becomes, StateSet, SameAttempt, Attempts
  <2>3. SavedSame /\ OrphansSame /\ AnswersSame /\ Refusals' = Refusals
    BY <1>4, <2>1, RowsAlone, OrphansAlone, RefusalsKept
  <2>4. \A q \in Rows : \A o \in Ran :
          q # attempt[a].job \/ o # x => RunsWith(q, o)' = RunsWith(q, o)
    <3>1. \A o \in Ran : o # "final"
      BY DEF Ran
    <3> QED
      BY <1>4, <2>1, <2>2, <3>1 DEF RunsWith
  <2>5. CASE attempt[a].job \notin Rows
    <3>1. RunsSame
      BY <2>4, <2>5 DEF RunsSame
    <3> QED
      BY <2>3, <3>1, Stutter
  <2>6. CASE attempt[a].job \in Rows
    <3>1. PICK r \in Rows : r = attempt[a].job
      BY <2>6
    <3>2. RunsWith(r, x)' = RunsWith(r, x) \cup {a} /\ a \notin RunsWith(r, x)
      <4>1. "final" # x
        BY <1>6 DEF Ran
      <4> QED
        BY <1>4, <2>1, <2>2, <3>1, <4>1 DEF RunsWith
    <3>3. IsFiniteSet(RunsWith(r, x))
      BY <1>1, AttemptsFinite DEF RunsWith
    <3>4. Cardinality(RunsWith(r, x))' = Cardinality(RunsWith(r, x)) + 1
      BY <3>2, <3>3, FS_AddElement
    <3>5. PICK n : n = Cardinality(RunsWith(r, x)) + 1
      OBVIOUS
    <3>6. Runs' = [Runs EXCEPT ![r][x] = n]
      BY <1>6, <2>4, <3>1, <3>4, <3>5, RunsUpdate
    <3>7. n = Runs[r][x] + 1
      BY <1>6, <3>5, LifeValues
    <3>8. Runs' = [Runs EXCEPT ![r][x] = Runs[r][x] + 1]
      BY <3>6, <3>7, Zenon
    <3>9. row[r].state # "none"
      BY <1>1, <3>1 DEF RowsOK, AttemptOK
    <3>10. r \in SavedRows
      BY <3>9 DEF SavedRows
    <3>11. /\ SavedRows' = SavedRows /\ Interruptions' = Interruptions
           /\ Refusals' = Refusals /\ Answers' = Answers
      BY <2>3, SavedKept, InterruptionsKept, AnswersKept
    <3>12. Runs[r]["executed"] + Runs[r]["reverted"] <= Interruptions[r]
      BY <1>4, <3>1, RunsBelow
    <3>13. Life!Run(r, x)
      BY <3>8, <3>10, <3>11, <3>12, Zenon DEF Life!Run
    <3>14. x \in Life!Outcomes
      BY <1>6 DEF Ran, Life!Outcomes
    <3> QED
      BY <3>13, <3>14, Zenon DEF Life!Next
  <2> QED
    BY <2>5, <2>6
<1> QED
  BY <1>5, <1>6

----------------------------------------------------------------------------
(* Every step.                                                             *)

(* A new row is saved with no run, no interruption and no answer.          *)
LEMMA LifeEnqueue ==
  ASSUME Base, NEW r \in Rows, Enqueue(r)
  PROVE  Life!Save(r)
<1>1. /\ row[r].state = "none" /\ SaveRow(r, "init", 0)
      /\ attempt' = attempt /\ work' = work
  BY DEF Enqueue, memory, network
<1>2. row'[r].state = "init" /\ \A q \in Rows : q # r => row'[q] = row[q]
  BY <1>1, RowUpdate
<1>3. SavedRows' = SavedRows \cup {r} /\ r \notin SavedRows
  BY <1>1, <1>2 DEF SavedRows
<1>4. AnswersSame
  BY <1>1, <1>2 DEF AnswersSame, AnswerOf
<1>5. RunsSame /\ OrphansSame /\ Refusals' = Refusals
  BY <1>1, AllKept, AttemptsAlone, OrphansAlone, RefusalsKept DEF Kept
<1> QED
  BY <1>3, <1>4, <1>5, RunsKept, InterruptionsKept, AnswersKept DEF Life!Save

(* Work that ends without being noted in the database.                     *)
LEMMA LifeEnd ==
  ASSUME Base, row' = row, attempt' = attempt,
         \/ work'[Poller] = work[Poller]
         \/ work'[Poller].id = 0 /\ work'[Poller].phase # "refused"
  PROVE  [Life!Next]_life
<1>1. CASE work'[Poller] = work[Poller]
  BY <1>1, RefusalsKept, QuietStep
<1>2. CASE work'[Poller].id = 0 /\ work'[Poller].phase # "refused"
  <2>1. CASE InFlight(Poller)
    <3>1. work[Poller].job \in Rows
      BY <2>1, PollerFlight
    <3>2. Life!Interrupt(work[Poller].job)
      BY <1>2, <2>1, LifeInterrupt
    <3> QED
      BY <3>1, <3>2 DEF Life!Next
  <2>2. CASE ~InFlight(Poller)
    <3>1. work[Poller].id = 0 /\ work[Poller].phase # "refused"
      BY <2>2, NoFlight DEF InFlight
    <3> QED
      BY <1>2, <3>1, NoRefusal, QuietStep
  <2> QED
    BY <2>1, <2>2
<1> QED
  BY <1>1, <1>2

(* Each step of the queue is one of TransactionLife or a stutter.          *)
LEMMA LifeStep ==
  ASSUME QueueInv, [Next]_vars
  PROVE  [Life!Next]_life
<1>1. Base
  BY DEF QueueInv
<1>2. ASSUME NEW s \in Senders, NEW w, work' = [work EXCEPT ![s] = w],
             s = Poller => w.id = 0 /\ w.phase # "refused"
      PROVE  \/ work'[Poller] = work[Poller]
             \/ work'[Poller].id = 0 /\ work'[Poller].phase # "refused"
  BY <1>1, <1>2, OneMoves, NoFlight
<1>3. CASE \E r \in Rows : Enqueue(r)
  BY <1>1, <1>3, LifeEnqueue DEF Life!Next
<1>4. ASSUME NEW s \in Senders, NEW job \in Rows \cup Senders, LooksFor(s, job)
      PROVE  [Life!Next]_life
  <2>1. row' = row /\ attempt' = attempt
    BY <1>4 DEF LooksFor, Look, network
  <2>2. PICK w : w = LookedWork(job, FirstUnlocked)
    OBVIOUS
  <2>3. work' = [work EXCEPT ![s] = w] /\ w.id = 0 /\ w.phase # "refused"
    BY <1>4, <2>2, LookWork DEF LooksFor, LookedWork
  <2> QED
    BY <1>1, <1>2, <2>1, <2>3, LifeEnd
<1>5. ASSUME NEW s \in Senders, Lock(s)
      PROVE  [Life!Next]_life
  <2>1. row' = row /\ attempt' = attempt
    BY <1>5 DEF Lock, network
  <2>2. PICK w : w = ReadyWork(s)
    OBVIOUS
  <2>3. work' = [work EXCEPT ![s] = w] /\ w.id = work[s].id
    BY <1>1, <1>5, <2>2, LockWork DEF Base, ReadyWork
  <2>4. work'[Poller].id = work[Poller].id
    BY <1>1, <2>3, OneMoves, NoFlight
  <2>5. Refusals' = Refusals
    <3>1. CASE s # Poller
      BY <1>1, <2>3, <3>1, OneMoves, NoFlight, RefusalsKept
    <3>2. CASE s = Poller
      <4>1. work[Poller].phase # "refused"
        BY <1>5, <3>2 DEF Lock
      <4>2. w.phase # "refused"
        BY <2>2 DEF ReadyWork
      <4>3. work'[Poller] = w
        BY <1>1, <2>3, <3>2, OneMoves
      <4> QED
        BY <4>1, <4>2, <4>3, NoRefusal
    <3> QED
      BY <3>1, <3>2
  <2> QED
    BY <2>1, <2>4, <2>5, QuietStep
<1>6. ASSUME NEW s \in Senders, NEW phase \in {"sent", "refused"},
             NEW state \in {"pending", "unknown"}, Gives(s, phase, state)
      PROVE  [Life!Next]_life
  BY <1>1, <1>6, LifeGive
<1>7. ASSUME NEW s \in Senders, GiveUp(s) \/ CallerEnds(s)
      PROVE  [Life!Next]_life
  <2>1. PICK w : w = EndedWork(s)
    OBVIOUS
  <2>2. work' = [work EXCEPT ![s] = w] /\ row' = row /\ attempt' = attempt
    BY <1>1, <1>7, <2>1, EndWork DEF network
  <2>3. w.id = 0 /\ w.phase # "refused"
    BY <2>1 DEF EndedWork, EndPhase
  <2> QED
    BY <1>1, <1>2, <2>2, <2>3, LifeEnd
<1>8. CASE CommitFails
  <2>1. PICK w : w = EndedWork(Poller)
    OBVIOUS
  <2>2. work' = [work EXCEPT ![Poller] = w] /\ row' = row /\ attempt' = attempt
    BY <1>8, <2>1, CommitWork DEF CommitFails, network
  <2>3. w.id = 0 /\ w.phase # "refused"
    BY <2>1 DEF EndedWork, EndPhase
  <2> QED
    BY <1>1, <1>2, <2>2, <2>3, LifeEnd, NoFlight
<1>9. CASE Crash
  <2>1. row' = row /\ attempt' = attempt
    BY <1>9 DEF Crash, network
  <2>2. work'[Poller] = IF work[Poller].phase = "idle" THEN work[Poller]
                                                       ELSE EndedWork(Poller)
    BY <1>1, <1>9, CrashWork, NoFlight DEF Base
  <2>3. EndedWork(Poller).id = 0 /\ EndedWork(Poller).phase # "refused"
    BY DEF EndedWork, EndPhase
  <2> QED
    BY <1>1, <2>1, <2>2, <2>3, LifeEnd
<1>10. ASSUME NEW a \in Attempts, Finalize(a) \/ Expire(a)
       PROVE  [Life!Next]_life
  <2>1. PICK x \in {"final", "expired"} : Becomes(a, x)
    BY <1>1, <1>10, FinalizeAttempt, ExpireAttempt
  <2>2. attempt[a].state = "pending" /\ row' = row /\ work' = work
    BY <1>10 DEF Finalize, Expire, memory
  <2>3. x \notin Ran /\ "pending" \notin Ran
    BY DEF Ran
  <2> QED
    BY <2>1, <2>2, <2>3, NetworkStep
<1>11. CASE (\E a \in Attempts : WaitEnds(a)) \/ UNCHANGED vars
  <2>1. row' = row /\ attempt' = attempt /\ work' = work
    BY <1>11 DEF WaitEnds, Unlock, vars, memory, network
  <2> QED
    BY <2>1, RefusalsKept, QuietStep
<1> QED
  BY <1>1, <1>3, <1>4, <1>5, <1>6, <1>7, <1>8, <1>9, <1>10, <1>11,
     LifeCommit, LifeExecute, LifeResult, Steps, Zenon

(* An empty queue has no row.                                              *)
LEMMA LifeInit == Init => Life!Init
<1> SUFFICES ASSUME Init
             PROVE  Life!Init
  OBVIOUS
<1>1. \A r \in Rows : row[r].state = "none"
  BY DEF Init
<1>2. Attempts = {}
  BY DEF Init, Attempts
<1>3. \A r \in Rows : Orphans(r) = {} /\ \A o \in Ran : RunsWith(r, o) = {}
  BY <1>2 DEF Orphans, RunsWith
<1>4. SavedRows = {} /\ Answers = [r \in Rows |-> "none"]
  BY <1>1 DEF SavedRows, Answers
<1>5. Cardinality({}) = 0
  BY FS_EmptySet
<1>6. Interruptions = [r \in Rows |-> 0]
  BY <1>3, <1>5 DEF Interruptions
<1>7. Runs = [r \in Rows |-> [o \in Ran |-> 0]]
  BY <1>3, <1>5 DEF Runs
<1>8. Ran = Life!Outcomes
  BY DEF Ran, Life!Outcomes
<1>9. Refusals = {}
  <2>1. work[Poller].phase # "refused"
    BY DEF Init, Idle, Senders
  <2> QED
    BY <2>1, NoRefusal
<1> QED
  BY <1>4, <1>6, <1>7, <1>8, <1>9, Zenon DEF Life!Init

(* Whatever fails, for each transaction that is saved: one run, and one    *)
(* more for each interruption that left an attempt without a row; and one  *)
(* answer, "complete" only if a run succeeded, "failed" only if a run did  *)
(* not or when the node has just refused the transaction.                  *)
THEOREM QueueImplementsLife == Spec => ImplementsLife
<1>1. QueueInv /\ [Next]_vars => [Life!Next]_life
  BY LifeStep
<1> QED
  BY <1>1, LifeInit, QueueInvariant, PTL DEF Spec, ImplementsLife, Life!Spec, life

=============================================================================
