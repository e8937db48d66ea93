--------------------------- MODULE PollerLoopProofs ---------------------------
(***************************************************************************)
(* Proofs about PollerLoop, for any distributions and requests and any     *)
(* number of errors: what the service may rely on when who reads the       *)
(* database keeps others from committing.                                  *)
(*                                                                         *)
(* The argument: a copy of a row in an open transaction is current for as  *)
(* long as the transaction is open, since nobody else can commit.          *)
(***************************************************************************)
EXTENDS PollerLoop, SequenceTheorems, FiniteSetTheorems, TLAPS

StageOf == {"resolved", "setup", "settling", "settled", "minting", "complete"}

Types ==
  /\ dist \in [Dists -> StageOf \cup {"none", "invalid"}]
  /\ saved \in [Dists -> [Kinds -> Nat]]
  /\ poller \in [fn : Fns, open : BOOLEAN, todo : SUBSET Dists, wrote : SUBSET Dists]
  /\ abort \in [Abortable -> {"none", "read", "wrote", "ok", "refused"}]

(* What the poller works on is in the state that it was listed for.        *)
PollerCurrent ==
  /\ poller.open => poller.fn \in Handlers
  /\ ~poller.open => poller.todo = {} /\ poller.wrote = {}
  /\ \A d \in poller.todo \cup poller.wrote : dist[d] = Stages[poller.fn]

(* What a request has read can still be aborted.                           *)
AbortCurrent ==
  \A d \in Abortable :
    AbortReading(d) => dist[d] \notin {"none", "complete", "invalid"}

(* A distribution is invalid if a request has made it so.                  *)
InvalidByAbort ==
  \A d \in Dists :
    dist[d] = "invalid" <=> d \in Abortable /\ abort[d] = "ok"

LoopInv == Types /\ PollerCurrent /\ AbortCurrent /\ InvalidByAbort

----------------------------------------------------------------------------

(* The stages by their numbers.                                            *)
LEMMA StagesByNumber ==
  /\ Stages[1] = "resolved" /\ Stages[2] = "setup" /\ Stages[3] = "settling"
  /\ Stages[4] = "settled" /\ Stages[5] = "minting" /\ Stages[6] = "complete"
  /\ \A i \in Handlers : Stages[i] \in StageOf /\ Stages[i + 1] \in StageOf
<1>1. /\ Stages[1] = "resolved" /\ Stages[2] = "setup" /\ Stages[3] = "settling"
      /\ Stages[4] = "settled" /\ Stages[5] = "minting" /\ Stages[6] = "complete"
  BY DEF Stages
<1>2. \A i \in Handlers : i \in {1, 2, 3, 4, 5}
  BY DEF Handlers
<1> QED
  BY <1>1, <1>2 DEF StageOf

(* Requests to abort are for distributions.                                *)
LEMMA AbortableDist == Abortable \subseteq Dists
BY LoopAssumption

(* Counting more transactions keeps the type of the counters.              *)
LEMMA SavedWithType ==
  ASSUME saved \in [Dists -> [Kinds -> Nat]], NEW D, NEW kinds
  PROVE  SavedWith(D, kinds) \in [Dists -> [Kinds -> Nat]]
BY DEF SavedWith

(* The functions of the loop follow each other.                            *)
LEMMA NextFnType ==
  ASSUME poller.fn \in Fns
  PROVE  NextFn \in Fns
BY DEF NextFn, Fns, Handlers, PollFn

(* A poller that is not in a transaction has no copies.                    *)
LEMMA IdleCurrent ==
  ASSUME NEW fn \in Fns, poller' = Idle(fn)
  PROVE  /\ poller' \in [fn : Fns, open : BOOLEAN, todo : SUBSET Dists,
                         wrote : SUBSET Dists]
         /\ PollerCurrent'
BY DEF Idle, PollerCurrent

(* Nobody has read anything yet.                                           *)
LEMMA InitLoopInv == Init => LoopInv
<1> SUFFICES ASSUME Init PROVE LoopInv
  OBVIOUS
<1> USE DEF Init
<1>1. Types
  <2>1. 1 \in Fns
    BY DEF Fns, Handlers
  <2> QED
    BY <2>1 DEF Types, Idle, Kinds
<1>2. PollerCurrent
  BY DEF PollerCurrent, Idle
<1>3. AbortCurrent
  BY DEF AbortCurrent, AbortReading
<1>4. InvalidByAbort
  BY DEF InvalidByAbort
<1> QED
  BY <1>1, <1>2, <1>3, <1>4 DEF LoopInv

(* What changes neither a state nor a request keeps what is said of them.  *)
LEMMA RowsUnchanged ==
  ASSUME LoopInv, UNCHANGED <<dist, abort>>
  PROVE  AbortCurrent' /\ InvalidByAbort'
BY DEF LoopInv, AbortCurrent, InvalidByAbort, AbortReading

(* A step that leaves a function of the poller without committing.         *)
LEMMA LeavesFunction ==
  ASSUME LoopInv, UNCHANGED <<dist, saved, abort>>, poller' = Idle(NextFn)
  PROVE  LoopInv'
<1>1. NextFn \in Fns
  BY NextFnType DEF LoopInv, Types
<1>2. Types' /\ PollerCurrent'
  BY <1>1, IdleCurrent DEF LoopInv, Types
<1> QED
  BY <1>2, RowsUnchanged DEF LoopInv

(* A handler begins with what it has just read.                            *)
LEMMA BeginLoopInv ==
  ASSUME LoopInv, Begin
  PROVE  LoopInv'
<1>1. CASE Listed(poller.fn) = {}
  BY <1>1, LeavesFunction DEF Begin
<1>2. CASE Listed(poller.fn) # {}
  <2>1. poller' = [fn |-> poller.fn, open |-> TRUE, todo |-> Listed(poller.fn),
                   wrote |-> {}]
    BY <1>2 DEF Begin, Idle
  <2>2. Listed(poller.fn) \in SUBSET Dists
    BY DEF Listed
  <2>3. UNCHANGED <<dist, saved, abort>> /\ poller.fn \in Handlers
    BY DEF Begin
  <2>4. Types'
    BY <2>1, <2>2, <2>3 DEF LoopInv, Types
  <2>5. PollerCurrent'
    BY <2>1, <2>3 DEF PollerCurrent, Listed
  <2> QED
    BY <2>3, <2>4, <2>5, RowsUnchanged DEF LoopInv
<1> QED
  BY <1>1, <1>2

(* A handler changes its own copy only.                                    *)
LEMMA HandleLoopInv ==
  ASSUME LoopInv, NEW d \in Dists, Handle(d)
  PROVE  LoopInv'
<1>1. UNCHANGED <<dist, saved, abort>>
  BY DEF Handle
<1>2. /\ poller' \in [fn : Fns, open : BOOLEAN, todo : SUBSET Dists,
                      wrote : SUBSET Dists]
      /\ poller'.fn = poller.fn /\ poller'.open
      /\ poller'.todo \cup poller'.wrote \subseteq poller.todo \cup poller.wrote
  <2>1. CASE Finds(d)
    <3>1. poller' = [[poller EXCEPT !.todo = @ \ {d}] EXCEPT !.wrote = @ \cup {d}]
      BY <2>1 DEF Handle
    <3>2. PICK p : p = [poller EXCEPT !.todo = @ \ {d}]
      OBVIOUS
    <3>3. poller' = [p EXCEPT !.wrote = @ \cup {d}]
      BY <3>1, <3>2, Zenon
    <3> QED
      BY <3>2, <3>3 DEF Handle, LoopInv, Types
  <2>2. CASE ~Finds(d)
    <3>1. poller' = [poller EXCEPT !.todo = @ \ {d}]
      BY <2>2 DEF Handle
    <3>2. d \in poller.todo /\ poller.open
      BY DEF Handle
    <3> QED
      BY <3>1, <3>2 DEF LoopInv, Types
  <2> QED
    BY <2>1, <2>2
<1>3. PollerCurrent'
  BY <1>1, <1>2 DEF LoopInv, PollerCurrent, Handle
<1> QED
  BY <1>1, <1>2, <1>3, RowsUnchanged DEF LoopInv, Types

(* Nobody else is reading when a handler commits.                          *)
LEMMA CommitLoopInv ==
  ASSUME ReadLocks, LoopInv, Commit
  PROVE  LoopInv'
<1>1. /\ poller.fn \in Handlers
      /\ \A d \in poller.wrote : d \in Dists /\ dist[d] = Stages[poller.fn]
  BY DEF Commit, LoopInv, PollerCurrent, Types
<1>2. /\ Stages[poller.fn + 1] \in StageOf
      /\ Stages[poller.fn] \in StageOf
  BY <1>1, StagesByNumber
<1>3. /\ dist' \in [Dists -> StageOf \cup {"none", "invalid"}]
      /\ \A d \in Dists : d \notin poller.wrote => dist'[d] = dist[d]
      /\ \A d \in poller.wrote : dist'[d] = Stages[poller.fn + 1]
  BY <1>1, <1>2 DEF Commit, LoopInv, Types
<1>4. UNCHANGED abort
  BY DEF Commit
<1>5. poller' = Idle(NextFn) /\ NextFn \in Fns
  BY NextFnType DEF Commit, LoopInv, Types
<1>6. saved' \in [Dists -> [Kinds -> Nat]]
  BY SavedWithType DEF Commit, LoopInv, Types
<1>7. Types' /\ PollerCurrent'
  BY <1>3, <1>4, <1>5, <1>6, IdleCurrent DEF LoopInv, Types
<1>8. AbortCurrent'
  <2> SUFFICES ASSUME NEW d \in Abortable, AbortReading(d)
               PROVE  dist'[d] \notin {"none", "complete", "invalid"}
    BY <1>4 DEF AbortCurrent, AbortReading
  <2>1. poller.wrote = {}
    BY DEF Commit, PollerMayCommit
  <2> QED
    BY <2>1, <1>3, AbortableDist DEF LoopInv, AbortCurrent
<1>9. InvalidByAbort'
  <2> SUFFICES ASSUME NEW d \in Dists
               PROVE  dist'[d] = "invalid" <=> d \in Abortable /\ abort[d] = "ok"
    BY <1>4 DEF InvalidByAbort
  <2>1. CASE d \in poller.wrote
    BY <2>1, <1>1, <1>2, <1>3 DEF LoopInv, InvalidByAbort, StageOf
  <2>2. CASE d \notin poller.wrote
    BY <2>2, <1>3 DEF LoopInv, InvalidByAbort
  <2> QED
    BY <2>1, <2>2
<1> QED
  BY <1>7, <1>8, <1>9 DEF LoopInv

(* A distribution that is created is in no copy yet.                       *)
LEMMA CreateLoopInv ==
  ASSUME ReadLocks, LoopInv, NEW d \in Dists, Create(d)
  PROVE  LoopInv'
<1>1. /\ dist' = [dist EXCEPT ![d] = "resolved"]
      /\ UNCHANGED <<saved, poller, abort>>
      /\ dist[d] = "none" /\ ~poller.open
  BY StagesByNumber DEF Create
<1>2. Types'
  BY <1>1 DEF LoopInv, Types, StageOf
<1>3. PollerCurrent'
  BY <1>1 DEF LoopInv, PollerCurrent
<1>4. AbortCurrent'
  <2>1. \A e \in Abortable : ~AbortReading(e)
    BY DEF Create
  <2> QED
    BY <1>1, <2>1 DEF AbortCurrent, AbortReading
<1>5. InvalidByAbort'
  BY <1>1 DEF LoopInv, Types, InvalidByAbort
<1> QED
  BY <1>2, <1>3, <1>4, <1>5 DEF LoopInv

(* A request has read what is there.                                       *)
LEMMA AbortReadsLoopInv ==
  ASSUME LoopInv, NEW d \in Abortable, AbortReads(d)
  PROVE  LoopInv'
<1>1. /\ UNCHANGED <<dist, saved, poller>>
      /\ abort[d] = "none" /\ dist[d] # "none" /\ d \in Dists
      /\ abort' = [abort EXCEPT ![d] = IF dist[d] = "complete" THEN "refused"
                                                               ELSE "read"]
  BY AbortableDist DEF AbortReads
<1>2. dist[d] # "invalid"
  BY <1>1 DEF LoopInv, InvalidByAbort
<1>3. Types'
  BY <1>1 DEF LoopInv, Types
<1>4. PollerCurrent'
  BY <1>1 DEF LoopInv, PollerCurrent
<1>5. AbortCurrent'
  BY <1>1, <1>2 DEF LoopInv, Types, AbortCurrent, AbortReading
<1>6. InvalidByAbort'
  BY <1>1, <1>2 DEF LoopInv, Types, InvalidByAbort
<1> QED
  BY <1>3, <1>4, <1>5, <1>6 DEF LoopInv

(* A request writes what it has read.                                      *)
LEMMA AbortWritesLoopInv ==
  ASSUME LoopInv, NEW d \in Abortable, AbortWrites(d) \/ AbortBusy(d)
  PROVE  LoopInv'
<1>1. /\ UNCHANGED <<dist, saved, poller>>
      /\ AbortReading(d)
      /\ \E a \in {"wrote", "refused"} : abort' = [abort EXCEPT ![d] = a]
  BY DEF AbortWrites, AbortBusy, AbortReading
<1>2. Types'
  BY <1>1 DEF LoopInv, Types
<1>3. PollerCurrent'
  BY <1>1 DEF LoopInv, PollerCurrent
<1>4. AbortCurrent'
  BY <1>1 DEF LoopInv, Types, AbortCurrent, AbortReading
<1>5. InvalidByAbort'
  BY <1>1 DEF LoopInv, Types, InvalidByAbort, AbortReading
<1> QED
  BY <1>2, <1>3, <1>4, <1>5 DEF LoopInv

(* Nobody else is reading when a request commits.                          *)
LEMMA AbortCommitsLoopInv ==
  ASSUME ReadLocks, LoopInv, NEW d \in Abortable, AbortCommits(d)
  PROVE  LoopInv'
<1>1. /\ UNCHANGED poller
      /\ abort' = [abort EXCEPT ![d] = "ok"]
      /\ dist' = [dist EXCEPT ![d] = "invalid"]
      /\ d \in Dists
  BY AbortableDist DEF AbortCommits
<1>2. ~poller.open /\ \A e \in Abortable \ {d} : ~AbortReading(e)
  BY DEF AbortCommits, AbortMayCommit, PollerReads
<1>3. saved' \in [Dists -> [Kinds -> Nat]]
  BY SavedWithType DEF AbortCommits, LoopInv, Types
<1>4. Types'
  BY <1>1, <1>3 DEF LoopInv, Types
<1>5. PollerCurrent'
  BY <1>1, <1>2 DEF LoopInv, PollerCurrent
<1>6. AbortCurrent'
  BY <1>1, <1>2 DEF LoopInv, Types, AbortCurrent, AbortReading
<1>7. InvalidByAbort'
  BY <1>1 DEF LoopInv, Types, InvalidByAbort
<1> QED
  BY <1>4, <1>5, <1>6, <1>7 DEF LoopInv

(* Each step keeps the invariant.                                          *)
LEMMA NextLoopInv ==
  ASSUME ReadLocks, LoopInv, [Next]_vars
  PROVE  LoopInv'
<1>1. CASE Begin
  BY <1>1, BeginLoopInv
<1>2. CASE \E d \in Dists : Handle(d)
  BY <1>2, HandleLoopInv
<1>3. CASE Commit
  BY <1>3, CommitLoopInv
<1>4. CASE PollerBusy \/ PollerFails
  BY <1>4, LeavesFunction
     DEF PollerBusy, PollerFails, Rollback, AfterError, SavedAfterRollback
<1>5. CASE PollContracts
  BY <1>5, LeavesFunction DEF PollContracts
<1>6. CASE \E d \in Dists : Create(d)
  BY <1>6, CreateLoopInv
<1>7. CASE \E d \in Abortable : AbortReads(d)
  BY <1>7, AbortReadsLoopInv
<1>8. CASE \E d \in Abortable : AbortSteps(d)
  BY <1>8, AbortWritesLoopInv, AbortCommitsLoopInv DEF AbortSteps
<1>9. CASE \/ \E d \in Dists, k \in Kinds : Execute(d, k)
           \/ NewBlock
           \/ UNCHANGED vars
  <2>1. UNCHANGED <<dist, saved, poller, abort>>
    BY <1>9 DEF Execute, NewBlock, vars
  <2>2. PollerCurrent'
    BY <2>1 DEF LoopInv, PollerCurrent
  <2> QED
    BY <2>1, <2>2, RowsUnchanged DEF LoopInv, Types
<1> QED
  BY <1>1, <1>2, <1>3, <1>4, <1>5, <1>6, <1>7, <1>8, <1>9 DEF Next, PollerSteps

(* With read locks every copy in an open transaction is current.           *)
THEOREM CopiesCurrent ==
  ASSUME ReadLocks
  PROVE  Spec => []LoopInv
<1>1. Init => LoopInv
  BY InitLoopInv
<1>2. LoopInv /\ [Next]_vars => LoopInv'
  BY NextLoopInv
<1> QED
  BY <1>1, <1>2, PTL DEF Spec

(* With read locks an abort that was answered with Ok holds, however many  *)
(* requests, handlers and errors there are.                                *)
THEOREM AbortsHold ==
  ASSUME ReadLocks
  PROVE  Spec => []AbortHolds
<1>1. LoopInv => AbortHolds
  BY AbortableDist DEF LoopInv, InvalidByAbort, AbortHolds
<1> QED
  BY <1>1, CopiesCurrent, PTL

----------------------------------------------------------------------------

(* What a handler commits is one step of the life of distributions.        *)
LEMMA CommitAdvances ==
  ASSUME LoopInv, Commit
  PROVE  Life!Next
<1>1. poller.fn \in 1..5 /\ poller.wrote \in SUBSET Dists
  BY DEF Commit, LoopInv, PollerCurrent, Types, Handlers
<1>2. \A d \in poller.wrote : dist[d] = Life!Stages[poller.fn]
  BY DEF LoopInv, PollerCurrent, Stages, Life!Stages
<1>3. dist' = [d \in Dists |-> IF d \in poller.wrote
                               THEN Life!Stages[poller.fn + 1] ELSE dist[d]]
  BY DEF Commit, Stages, Life!Stages
<1>4. Life!Advance(poller.fn, poller.wrote)
  BY <1>2, <1>3 DEF Life!Advance
<1> QED
  BY <1>1, <1>4 DEF Life!Next

(* Each step of the loop or of a request is one of DistributionLife, or    *)
(* changes no stage.                                                       *)
LEMMA LoopStepImplementsLife ==
  ASSUME LoopInv, [Next]_vars
  PROVE  [Life!Next]_dist
<1>1. CASE Commit
  BY <1>1, CommitAdvances
<1>2. CASE \E d \in Dists : Create(d)
  <2>1. PICK d \in Dists : Create(d)
    BY <1>2
  <2>2. Life!Create(d)
    BY <2>1 DEF Create, Life!Create, Stages, Life!Stages
  <2> QED
    BY <2>2 DEF Life!Next
<1>3. CASE \E d \in Abortable : AbortCommits(d)
  <2>1. PICK d \in Abortable : AbortCommits(d)
    BY <1>3
  <2>2. dist[d] \notin {"none", "complete"}
    BY <2>1 DEF AbortCommits, LoopInv, AbortCurrent, AbortReading
  <2>3. Life!Abort(d)
    BY <2>1, <2>2 DEF AbortCommits, Life!Abort
  <2> QED
    BY <2>3, AbortableDist DEF Life!Next
<1>4. CASE \/ Begin \/ PollerBusy \/ PollerFails \/ PollContracts \/ NewBlock
           \/ \E d \in Dists : Handle(d)
           \/ \E d \in Abortable : AbortReads(d) \/ AbortWrites(d) \/ AbortBusy(d)
           \/ \E d \in Dists, k \in Kinds : Execute(d, k)
           \/ UNCHANGED vars
  BY <1>4 DEF Begin, PollerBusy, PollerFails, Rollback, PollContracts, NewBlock,
              Handle, AbortReads, AbortWrites, AbortBusy, Execute, vars
<1> QED
  BY <1>1, <1>2, <1>3, <1>4 DEF Next, PollerSteps, AbortSteps

(* With read locks the loop and the requests, each of them a read, some    *)
(* writes and a commit that others come between, implement the life of a   *)
(* distribution, in which each step is atomic.                             *)
THEOREM LoopImplementsLife ==
  ASSUME ReadLocks
  PROVE  Spec => ImplementsLife
<1>1. Init => Life!Init
  BY DEF Init, Life!Init
<1>2. LoopInv /\ [Next]_vars => [Life!Next]_dist
  BY LoopStepImplementsLife
<1> QED
  BY <1>1, <1>2, CopiesCurrent, PTL DEF Spec, ImplementsLife, Life!Spec

----------------------------------------------------------------------------

(* What SavedWithState says of one distribution.                           *)
SavedOf(state, n) ==
  /\ n["invalid"] = IF state = "invalid" THEN 1 ELSE 0
  /\ n["complete"] = IF state = "complete" THEN 1 ELSE 0
  /\ IF state = "invalid"
     THEN n["mint"] <= n["settle"] /\ n["settle"] <= 1
     ELSE /\ n["settle"] = IF state \in {"settling", "settled", "minting", "complete"}
                           THEN 1 ELSE 0
          /\ n["mint"] = IF state \in {"minting", "complete"} THEN 1 ELSE 0

(* SavedWithState speaks of each distribution alone.                       *)
LEMMA SavedOfEach ==
  SavedWithState <=> \A d \in Dists : SavedOf(dist[d], saved[d])
BY DEF SavedWithState, SavedOf

(* A handler saves the transaction that belongs to the next stage.         *)
LEMMA CommitSaves ==
  ASSUME NEW i \in Handlers, NEW n \in [Kinds -> Nat], NEW m \in [Kinds -> Nat],
         SavedOf(Stages[i], n),
         \A k \in Kinds : m[k] = n[k] + (IF k \in SavesIn(i) THEN 1 ELSE 0)
  PROVE  SavedOf(Stages[i + 1], m)
<1> USE DEF SavedOf, SavesIn, Kinds
<1>1. CASE i = 1
  BY <1>1, StagesByNumber
<1>2. CASE i = 2
  BY <1>2, StagesByNumber
<1>3. CASE i = 3
  BY <1>3, StagesByNumber
<1>4. CASE i = 4
  BY <1>4, StagesByNumber
<1>5. CASE i = 5
  BY <1>5, StagesByNumber
<1> QED
  BY <1>1, <1>2, <1>3, <1>4, <1>5 DEF Handlers

(* An abort saves one, whatever the distribution has got to.               *)
LEMMA AbortSaves ==
  ASSUME NEW state \in StageOf, state # "complete",
         NEW n \in [Kinds -> Nat], NEW m \in [Kinds -> Nat],
         SavedOf(state, n),
         \A k \in Kinds : m[k] = n[k] + (IF k \in {"invalid"} THEN 1 ELSE 0)
  PROVE  SavedOf("invalid", m)
BY DEF SavedOf, StageOf, Kinds

(* A handler saves a transaction for each distribution that it moves.      *)
LEMMA CommitSavedWithState ==
  ASSUME LoopInv, SavedWithState, Commit
  PROVE  SavedWithState'
<1>1. poller.fn \in Handlers
  BY DEF Commit, LoopInv, PollerCurrent
<1>2. SUFFICES ASSUME NEW d \in Dists
               PROVE  SavedOf(dist'[d], saved'[d])
  BY DEF SavedWithState, SavedOf
<1>3. SavedOf(dist[d], saved[d]) /\ saved[d] \in [Kinds -> Nat]
  BY SavedOfEach DEF LoopInv, Types
<1>4. CASE d \in poller.wrote
  <2>1. dist[d] = Stages[poller.fn] /\ dist'[d] = Stages[poller.fn + 1]
    BY <1>4 DEF LoopInv, PollerCurrent, Commit
  <2>2. /\ saved'[d] \in [Kinds -> Nat]
        /\ \A k \in Kinds : saved'[d][k] = saved[d][k]
                            + (IF k \in SavesIn(poller.fn) THEN 1 ELSE 0)
    BY <1>3, <1>4 DEF Commit, SavedWith
  <2> QED
    BY <1>1, <1>3, <2>1, <2>2, CommitSaves
<1>5. CASE d \notin poller.wrote
  <2>1. dist'[d] = dist[d]
    BY <1>5 DEF Commit
  <2>2. saved'[d] = [k \in Kinds |-> saved[d][k] + 0]
    BY <1>5 DEF Commit, SavedWith
  <2>3. saved'[d] = saved[d]
    BY <1>3, <2>2
  <2> QED
    BY <1>3, <2>1, <2>3
<1> QED
  BY <1>4, <1>5

(* An abort saves the transaction that tells the chain.                    *)
LEMMA AbortSavedWithState ==
  ASSUME LoopInv, SavedWithState, NEW e \in Abortable, AbortCommits(e)
  PROVE  SavedWithState'
<1>1. e \in Dists
  BY AbortableDist
<1>2. SUFFICES ASSUME NEW d \in Dists
               PROVE  SavedOf(dist'[d], saved'[d])
  BY DEF SavedWithState, SavedOf
<1>3. SavedOf(dist[d], saved[d]) /\ saved[d] \in [Kinds -> Nat]
  BY SavedOfEach DEF LoopInv, Types
<1>4. CASE d = e
  <2>1. dist[d] \in StageOf /\ dist[d] # "complete"
    BY <1>4 DEF LoopInv, Types, AbortCurrent, AbortReading, AbortCommits
  <2>2. dist'[d] = "invalid"
    BY <1>4 DEF AbortCommits, LoopInv, Types
  <2>3. /\ saved'[d] \in [Kinds -> Nat]
        /\ \A k \in Kinds : saved'[d][k] = saved[d][k]
                            + (IF k \in {"invalid"} THEN 1 ELSE 0)
    BY <1>3, <1>4 DEF AbortCommits, SavedWith
  <2> QED
    BY <1>3, <2>1, <2>2, <2>3, AbortSaves
<1>5. CASE d # e
  <2>1. dist'[d] = dist[d]
    BY <1>5 DEF AbortCommits, LoopInv, Types
  <2>2. saved'[d] = [k \in Kinds |-> saved[d][k] + 0]
    BY <1>5 DEF AbortCommits, SavedWith
  <2>3. saved'[d] = saved[d]
    BY <1>3, <2>2
  <2> QED
    BY <1>3, <2>1, <2>3
<1> QED
  BY <1>4, <1>5

(* A new distribution has saved nothing.                                   *)
LEMMA CreateSavedWithState ==
  ASSUME LoopInv, SavedWithState, NEW e \in Dists, Create(e)
  PROVE  SavedWithState'
<1>1. SUFFICES ASSUME NEW d \in Dists
               PROVE  SavedOf(dist'[d], saved'[d])
  BY DEF SavedWithState, SavedOf
<1>2. SavedOf(dist[d], saved[d]) /\ saved'[d] = saved[d]
  BY SavedOfEach DEF Create
<1>3. dist'[d] = IF d = e THEN "resolved" ELSE dist[d]
  BY StagesByNumber DEF Create, LoopInv, Types
<1>4. d = e => dist[d] = "none"
  BY DEF Create
<1> QED
  BY <1>2, <1>3, <1>4 DEF SavedOf

(* Each step commits a state with its transactions.                        *)
LEMMA NextSavedWithState ==
  ASSUME LoopInv, SavedWithState, [Next]_vars
  PROVE  SavedWithState'
<1>1. CASE Commit
  BY <1>1, CommitSavedWithState
<1>2. CASE \E d \in Dists : Create(d)
  BY <1>2, CreateSavedWithState
<1>3. CASE \E d \in Abortable : AbortCommits(d)
  BY <1>3, AbortSavedWithState
<1>4. CASE \/ Begin \/ PollerBusy \/ PollerFails \/ PollContracts \/ NewBlock
           \/ \E d \in Dists : Handle(d)
           \/ \E d \in Abortable : AbortReads(d) \/ AbortWrites(d) \/ AbortBusy(d)
           \/ \E d \in Dists, k \in Kinds : Execute(d, k)
           \/ UNCHANGED vars
  <2>1. UNCHANGED <<dist, saved>>
    BY <1>4 DEF Begin, PollerBusy, PollerFails, Rollback, SavedAfterRollback,
                PollContracts, NewBlock, Handle, AbortReads, AbortWrites,
                AbortBusy, Execute, vars
  <2> QED
    BY <2>1 DEF SavedWithState
<1> QED
  BY <1>1, <1>2, <1>3, <1>4 DEF Next, PollerSteps, AbortSteps

(* With read locks a state and the transactions that belong to it are      *)
(* saved together, whatever fails: no transaction is saved twice.          *)
THEOREM StatesSavedOnce ==
  ASSUME ReadLocks
  PROVE  Spec => []SavedWithState
<1>1. Init => SavedWithState
  BY DEF Init, SavedWithState, Kinds
<1>2. LoopInv /\ SavedWithState /\ [Next]_vars => SavedWithState'
  BY NextSavedWithState
<1> QED
  BY <1>1, <1>2, CopiesCurrent, PTL DEF Spec

----------------------------------------------------------------------------
(* Types, with or without the locks.                                       *)

(* What is saved last is moved to the end, and nothing gets lost.          *)
LEMMA SavedLastElems ==
  ASSUME NEW T \in SUBSET Contracts, order \in Seq(Contracts),
         NEW s \in SavedLast(T)
  PROVE  s \in Seq(Contracts) /\ Elems(s) = Elems(order) \cup T
<1> DEFINE C == Elems(order) \cup T
           n == Cardinality(C)
<1>1. C \in SUBSET Contracts
  <2>1. \A i \in DOMAIN order : order[i] \in Contracts
    BY ElementOfSeq, LenProperties
  <2> QED
    BY <2>1 DEF Elems
<1>2. IsFiniteSet(C) /\ n \in Nat
  BY <1>1, LoopAssumption, FS_Subset, FS_CardinalityType
<1> HIDE DEF C, n
<1>3. /\ s \in [1..n -> C]
      /\ \A i, j \in 1..n : i # j => s[i] # s[j]
  BY DEF SavedLast, SetToSeqs, C, n
<1>4. s \in Seq(Contracts)
  <2>1. s \in [1..n -> Contracts]
    BY <1>1, <1>3
  <2> QED
    BY <1>2, <2>1, SeqDef
<1>5. Elems(s) \in SUBSET C /\ DOMAIN s = 1..n
  BY <1>3 DEF Elems
<1>6. s \in Bijection(1..n, Elems(s))
  BY <1>3, <1>5 DEF Bijection, Injection, Surjection, Elems, IsInjective
<1>7. Cardinality(1..n) = n /\ IsFiniteSet(1..n)
  BY <1>2, FS_Interval
<1>8. Cardinality(Elems(s)) = n
  BY <1>6, <1>7, FS_Bijection DEF ExistsBijection
<1>9. Elems(s) = C
  BY <1>2, <1>5, <1>8, FS_Subset DEF n
<1> QED
  BY <1>4, <1>9 DEF C

(* The poller is in a transaction only in a function that has one.         *)
TypeInv == LoopTypeOK /\ (poller.open => poller.fn \in Handlers)

(* The loop starts with its first function.                                *)
LEMMA InitTypeInv == Init => TypeInv
<1>1. Init => LoopTypeOK
  <2>1. 1 \in Fns /\ Elems(order) \in SUBSET Elems(order)
    BY DEF Fns, Handlers
  <2>2. MaxErrors \in Nat /\ <<>> \in Seq(Contracts)
    BY LoopAssumption, EmptySeq
  <2> QED
    BY <2>1, <2>2 DEF Init, LoopTypeOK, Idle, Kinds
<1> QED
  BY <1>1 DEF Init, TypeInv, Idle

(* A step that only moves the poller.                                      *)
LEMMA PollerTypeInv ==
  ASSUME TypeInv, UNCHANGED <<dist, saved, executed, abort, circulation>>,
         errors' \in 0..MaxErrors, NEW fn \in Fns,
         NEW todo \in SUBSET Dists, NEW wrote \in SUBSET Dists, NEW open \in BOOLEAN,
         poller' = [fn |-> fn, open |-> open, todo |-> todo, wrote |-> wrote],
         open => fn \in Handlers
  PROVE  TypeInv'
BY DEF TypeInv, LoopTypeOK, circulation

(* A function that is over is followed by the next one.                    *)
LEMMA IdleTypeInv ==
  ASSUME TypeInv, UNCHANGED <<dist, saved, executed, abort, circulation>>,
         errors' \in 0..MaxErrors, poller' = Idle(NextFn)
  PROVE  TypeInv'
<1>1. NextFn \in Fns
  BY NextFnType DEF TypeInv, LoopTypeOK
<1> QED
  BY <1>1, PollerTypeInv DEF Idle

(* A handler lists distributions.                                          *)
LEMMA BeginTypeInv ==
  ASSUME TypeInv, Begin
  PROVE  TypeInv'
<1>1. /\ UNCHANGED <<dist, saved, executed, abort, circulation, errors>>
      /\ errors' \in 0..MaxErrors /\ poller.fn \in Fns
  BY DEF Begin, TypeInv, LoopTypeOK
<1>2. CASE Listed(poller.fn) = {}
  BY <1>1, <1>2, IdleTypeInv DEF Begin
<1>3. CASE Listed(poller.fn) # {}
  <2>1. Listed(poller.fn) \in SUBSET Dists
    BY DEF Listed
  <2>2. /\ poller' = [fn |-> poller.fn, open |-> TRUE, todo |-> Listed(poller.fn),
                      wrote |-> {}]
        /\ poller.fn \in Handlers
    BY <1>3 DEF Begin, Idle
  <2> QED
    BY <1>1, <2>1, <2>2, PollerTypeInv
<1> QED
  BY <1>2, <1>3

(* What a handler has done is taken from its list.                         *)
LEMMA HandleTypeInv ==
  ASSUME TypeInv, NEW d \in Dists, Handle(d)
  PROVE  TypeInv'
<1>1. /\ UNCHANGED <<dist, saved, executed, abort, circulation, errors>>
      /\ errors' \in 0..MaxErrors /\ poller.open
  BY DEF Handle, TypeInv, LoopTypeOK
<1>2. PICK fn \in Handlers, todo \in SUBSET Dists, wrote \in SUBSET Dists :
        poller = [fn |-> fn, open |-> TRUE, todo |-> todo, wrote |-> wrote]
  BY <1>1 DEF TypeInv, LoopTypeOK
<1>3. \/ poller' = [fn |-> fn, open |-> TRUE, todo |-> todo \ {d}, wrote |-> wrote]
      \/ poller' = [fn |-> fn, open |-> TRUE, todo |-> todo \ {d},
                    wrote |-> wrote \cup {d}]
  <2>1. CASE Finds(d)
    <3>1. poller' = [poller EXCEPT !.todo = poller.todo \ {d},
                                   !.wrote = poller.wrote \cup {d}]
      BY <2>1 DEF Handle
    <3> QED
      BY <1>2, <3>1
  <2>2. CASE ~Finds(d)
    <3>1. poller' = [poller EXCEPT !.todo = poller.todo \ {d}]
      BY <2>2 DEF Handle
    <3> QED
      BY <1>2, <3>1
  <2> QED
    BY <2>1, <2>2
<1>4. /\ fn \in Fns /\ TRUE \in BOOLEAN
      /\ todo \ {d} \in SUBSET Dists /\ wrote \cup {d} \in SUBSET Dists
  BY DEF Fns
<1> QED
  BY <1>1, <1>3, <1>4, PollerTypeInv

(* A rollback leaves what was committed.                                   *)
LEMMA RollbackTypeInv ==
  ASSUME TypeInv, Rollback, errors' \in 0..MaxErrors
  PROVE  TypeInv'
BY IdleTypeInv DEF Rollback, AfterError, SavedAfterRollback

(* An error ends the function, and there are MaxErrors at most.            *)
LEMMA FailsTypeInv ==
  ASSUME TypeInv, PollerFails \/ PollerBusy
  PROVE  TypeInv'
<1>1. Rollback
  BY DEF PollerFails, PollerBusy
<1>2. errors' \in 0..MaxErrors
  BY LoopAssumption DEF PollerFails, PollerBusy, TypeInv, LoopTypeOK
<1> QED
  BY <1>1, <1>2, RollbackTypeInv

(* A commit takes each distribution of the list one stage on.              *)
LEMMA CommitTypeInv ==
  ASSUME TypeInv, Commit
  PROVE  TypeInv'
<1>1. /\ poller.fn \in Handlers /\ poller.wrote \in SUBSET Dists
      /\ NextFn \in Fns /\ UNCHANGED <<executed, abort, errors>>
  BY NextFnType DEF Commit, TypeInv, LoopTypeOK
<1>2. dist' \in [Dists -> Elems(Stages) \cup {"none", "invalid"}]
  <2>1. Stages[poller.fn + 1] \in Elems(Stages)
    BY <1>1 DEF Stages, Elems, Handlers
  <2> HIDE DEF Stages
  <2> QED
    BY <2>1 DEF Commit, TypeInv, LoopTypeOK
<1>3. saved' \in [Dists -> [Kinds -> Nat]]
  BY SavedWithType DEF Commit, TypeInv, LoopTypeOK
<1>4. /\ poller' = Idle(NextFn)
      /\ poller' \in [fn : Fns, open : BOOLEAN, todo : SUBSET Dists,
                      wrote : SUBSET Dists]
      /\ ~poller'.open
  BY <1>1 DEF Commit, Idle
<1>5. /\ order' \in Seq(Contracts)
      /\ behind' \subseteq Elems(order') /\ handled' \subseteq Elems(order')
  <2>1. CASE UNCHANGED circulation
    BY <2>1 DEF TypeInv, LoopTypeOK, circulation
  <2>2. CASE Circulate(poller.wrote)
    <3>1. PICK touched \in SUBSET {ContractOf[d] : d \in poller.wrote} :
            /\ order' \in SavedLast(touched)
            /\ behind' = behind \cup touched
            /\ UNCHANGED handled
      BY <2>2 DEF Circulate
    <3>2. touched \in SUBSET Contracts /\ order \in Seq(Contracts)
      BY <1>1, LoopAssumption DEF TypeInv, LoopTypeOK
    <3>3. PICK s : s \in SavedLast(touched) /\ s = order'
      BY <3>1
    <3>4. s \in Seq(Contracts) /\ Elems(s) = Elems(order) \cup touched
      BY <3>2, <3>3, SavedLastElems
    <3> QED
      BY <3>1, <3>3, <3>4 DEF TypeInv, LoopTypeOK
  <2> QED
    BY <2>1, <2>2 DEF Commit
<1> QED
  BY <1>1, <1>2, <1>3, <1>4, <1>5 DEF TypeInv, LoopTypeOK

(* A poll changes the order of the contracts and loses none.               *)
LEMMA PollTypeInv ==
  ASSUME TypeInv, PollContracts
  PROVE  TypeInv'
<1>1. /\ order' \in SavedLast(Chosen \cap behind)
      /\ behind' \subseteq behind /\ handled' \subseteq behind
      /\ UNCHANGED <<dist, saved, executed, abort, errors>>
  BY DEF PollContracts, OrderAfter
<1>2. order \in Seq(Contracts) /\ behind \subseteq Elems(order)
  BY DEF TypeInv, LoopTypeOK
<1>3. behind \in SUBSET Contracts
  BY <1>2, ElementOfSeq, LenProperties DEF Elems
<1>4. PICK T : T = Chosen \cap behind
  OBVIOUS
<1>5. PICK s : s = order' /\ s \in SavedLast(T)
  BY <1>1, <1>4
<1>6. s \in Seq(Contracts) /\ Elems(s) = Elems(order) \cup T
  BY <1>2, <1>3, <1>4, <1>5, SavedLastElems
<1>7. /\ order' \in Seq(Contracts)
      /\ behind' \subseteq Elems(order') /\ handled' \subseteq Elems(order')
  BY <1>1, <1>2, <1>5, <1>6
<1>8. /\ NextFn \in Fns /\ poller' = Idle(NextFn)
  BY NextFnType DEF PollContracts, TypeInv, LoopTypeOK
<1>9. /\ poller' \in [fn : Fns, open : BOOLEAN, todo : SUBSET Dists,
                      wrote : SUBSET Dists]
      /\ ~poller'.open
  BY <1>8 DEF Idle
<1> QED
  BY <1>1, <1>7, <1>9 DEF TypeInv, LoopTypeOK

(* Requests keep the types.                                                *)
LEMMA RequestTypeInv ==
  ASSUME TypeInv, NEW d \in Dists,
         \/ Create(d)
         \/ d \in Abortable /\ (AbortReads(d) \/ AbortSteps(d))
  PROVE  TypeInv'
<1>1. "resolved" \in Elems(Stages) /\ Stages[1] = "resolved"
  BY DEF Elems, Stages
<1>2. /\ dist' \in [Dists -> Elems(Stages) \cup {"none", "invalid"}]
      /\ abort' \in [Abortable -> {"none", "read", "wrote", "ok", "refused"}]
  <2> HIDE DEF Stages
  <2>1. CASE Create(d)
    BY <1>1, <2>1 DEF Create, TypeInv, LoopTypeOK
  <2>2. CASE d \in Abortable /\ (AbortReads(d) \/ AbortSteps(d))
    BY <2>2 DEF AbortReads, AbortSteps, AbortWrites, AbortCommits, AbortBusy,
                TypeInv, LoopTypeOK
  <2> QED
    BY <2>1, <2>2
<1>3. saved' \in [Dists -> [Kinds -> Nat]]
  BY SavedWithType DEF Create, AbortReads, AbortSteps, AbortWrites, AbortCommits,
                       AbortBusy, TypeInv, LoopTypeOK
<1>4. UNCHANGED <<executed, poller, circulation, errors>>
  BY DEF Create, AbortReads, AbortSteps, AbortWrites, AbortCommits, AbortBusy
<1> QED
  BY <1>2, <1>3, <1>4 DEF TypeInv, LoopTypeOK, circulation

(* Executions and blocks keep the types.                                   *)
LEMMA ChainTypeInv ==
  ASSUME TypeInv, (\E d \in Dists, k \in Kinds : Execute(d, k)) \/ NewBlock
  PROVE  TypeInv'
<1>1. CASE \E d \in Dists, k \in Kinds : Execute(d, k)
  <2>1. /\ executed' \subseteq Dists \X Kinds
        /\ UNCHANGED <<dist, saved, poller, abort, circulation, errors>>
    BY <1>1 DEF Execute, TypeInv, LoopTypeOK
  <2> QED
    BY <2>1 DEF TypeInv, LoopTypeOK, circulation
<1>2. CASE NewBlock
  <2>1. /\ UNCHANGED <<dist, saved, executed, poller, abort, order, handled, errors>>
        /\ behind' = Elems(order) /\ Elems(order') = Elems(order)
    BY <1>2 DEF NewBlock, Elems
  <2> QED
    BY <2>1 DEF TypeInv, LoopTypeOK
<1> QED
  BY <1>1, <1>2

(* Each step keeps the types.                                              *)
LEMMA NextTypeInv ==
  ASSUME TypeInv, [Next]_vars
  PROVE  TypeInv'
<1>1. CASE PollerSteps
  BY <1>1, BeginTypeInv, HandleTypeInv, CommitTypeInv, FailsTypeInv, PollTypeInv
     DEF PollerSteps
<1>2. CASE PollerFails
  BY <1>2, FailsTypeInv
<1>3. CASE \/ \E d \in Dists : Create(d)
           \/ \E d \in Abortable : AbortReads(d) \/ AbortSteps(d)
  BY <1>3, RequestTypeInv, AbortableDist
<1>4. CASE (\E d \in Dists, k \in Kinds : Execute(d, k)) \/ NewBlock
  BY <1>4, ChainTypeInv
<1>5. CASE UNCHANGED vars
  BY <1>5 DEF vars, circulation, TypeInv, LoopTypeOK
<1> QED
  BY <1>1, <1>2, <1>3, <1>4, <1>5 DEF Next

(* Every variable has a value of its type, with any locks: the rows that a *)
(* poll saves are moved in the order and not lost, and what was polled or  *)
(* waits for a poll is a contract that circulates.                         *)
THEOREM LoopTypeCorrect == Spec => []LoopTypeOK
<1>1. TypeInv => LoopTypeOK
  BY DEF TypeInv
<1> QED
  BY <1>1, InitTypeInv, NextTypeInv, PTL DEF Spec
=============================================================================
