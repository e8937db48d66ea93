------------------------------ MODULE PollerLoop ------------------------------
(***************************************************************************)
(* The loop of the poller and the requests to abort a distribution, as     *)
(* concurrent database transactions: what each reads, when it writes, and  *)
(* when it commits or is rolled back.  In PDSService all of these are      *)
(* atomic; this module shows what the database has to guarantee for that.  *)
(*                                                                         *)
(* A handler lists the distributions in its state, works on this copy for  *)
(* as long as the chain takes to answer, and saves whole rows.  An abort   *)
(* reads a row and saves whole rows, too.                                  *)
(***************************************************************************)
EXTENDS Integers, SequencesExt

CONSTANTS
  Dists,
  Contracts,    \* PackNFT contracts
  ContractOf,   \* ContractOf[d]: the PackNFT contract of distribution d
  Abortable,    \* the distributions for which there is one request to abort
  PollLimit,    \* how many contracts one poll reads
  ReadLocks,    \* whether who reads the database keeps others from committing
                \* (SQLite) or not (PostgreSQL, MySQL)
  MaxErrors     \* bound: how often the chain or the database fails

ASSUME LoopAssumption ==
  /\ IsFiniteSet(Dists) /\ IsFiniteSet(Contracts)
  /\ ContractOf \in [Dists -> Contracts]
  /\ Abortable \subseteq Dists
  /\ PollLimit \in Nat \ {0}
  /\ ReadLocks \in BOOLEAN
  /\ MaxErrors \in Nat

VARIABLES
  dist,      \* dist[d]: the committed state of distribution d
  saved,     \* saved[d]: how many transactions of each kind were committed
  executed,  \* the <<d, kind>> that the chain has executed
  poller,    \* the function that the poller is in, and its open transaction
  abort,     \* abort[d]: how far the request to abort d is
  order,     \* the contracts that circulate, by updated_at
  behind,    \* the contracts with blocks that no poll has read
  handled,   \* the contracts whose blocks the last poll has read
  errors     \* how often something has failed

circulation == <<order, behind, handled>>
vars == <<dist, saved, executed, poller, abort, circulation, errors>>

(* The functions of the loop: number i of the first five takes             *)
(* distributions from one stage to the next, the last one polls contracts. *)
Stages == <<"resolved", "setup", "settling", "settled", "minting", "complete">>
Handlers == 1..5
PollFn == 6
Fns == Handlers \cup {PollFn}

Kinds == {"settle", "mint", "complete", "invalid"}

(* The transaction that a handler saves for each distribution it takes on. *)
SavesIn(fn) ==
  CASE fn = 2 -> {"settle"}
    [] fn = 4 -> {"mint"}
    [] fn = 5 -> {"complete"}
    [] OTHER -> {}

Elems(s) == {s[i] : i \in DOMAIN s}

----------------------------------------------------------------------------
(* The database.                                                           *)

Listed(fn) == {d \in Dists : dist[d] = Stages[fn]}

\* Mutant: the list is read before the transaction begins.
PollerReadsLate == poller.wrote # {}

PollerReads == poller.open

AbortReading(d) == abort[d] \in {"read", "wrote"}
AbortWriting(d) == abort[d] = "wrote"

(* Whether the poller may write the row of d, and the request to abort d,  *)
(* or has to wait: one session writes a row at a time, or all rows.        *)
PollerMayWrite(d) ==
  IF ReadLocks THEN \A e \in Abortable : ~AbortWriting(e)
               ELSE d \in Abortable => ~AbortWriting(d)

AbortMayWrite(d) ==
  IF ReadLocks THEN poller.wrote = {} /\ \A e \in Abortable : ~AbortWriting(e)
               ELSE d \notin poller.wrote

(* Whether what was written may be committed.                              *)
PollerMayCommit ==
  ReadLocks /\ poller.wrote # {} => \A d \in Abortable : ~AbortReading(d)

AbortMayCommit(d) ==
  ReadLocks => ~PollerReads /\ \A e \in Abortable \ {d} : ~AbortReading(e)

Idle(fn) == [fn |-> fn, open |-> FALSE, todo |-> {}, wrote |-> {}]

NextFn == IF poller.fn = PollFn THEN 1 ELSE poller.fn + 1

SavedWith(D, kinds) ==
  [d \in Dists |-> [k \in Kinds |->
     saved[d][k] + (IF d \in D /\ k \in kinds THEN 1 ELSE 0)]]

----------------------------------------------------------------------------
(* The handlers of distributions.                                          *)

Begin ==
  /\ ~poller.open
  /\ poller.fn \in Handlers
  /\ poller' = IF Listed(poller.fn) = {} THEN Idle(NextFn)
               ELSE [Idle(poller.fn) EXCEPT !.open = TRUE,
                                            !.todo = Listed(poller.fn)]
  /\ UNCHANGED <<dist, saved, executed, abort, circulation, errors>>

(* UpdateSettlementStatus and UpdateMintingStatus wait for the chain.      *)
Finds(d) ==
  /\ poller.fn = 3 => <<d, "settle">> \in executed
  /\ poller.fn = 5 => <<d, "mint">> \in executed

(* The handler of d: its check of the state is one of the copy, which is   *)
(* always what the list was made for.                                      *)
Handle(d) ==
  /\ poller.open /\ d \in poller.todo
  /\ IF Finds(d)
     THEN /\ PollerMayWrite(d)
          /\ poller' = [poller EXCEPT !.todo = @ \ {d}, !.wrote = @ \cup {d}]
     ELSE poller' = [poller EXCEPT !.todo = @ \ {d}]
  /\ UNCHANGED <<dist, saved, executed, abort, circulation, errors>>

(* Rows that are listed by updated_at: those of T come last when they are  *)
(* saved, and the others stay in their order.                              *)
Before(s, c, d) == \E i, j \in DOMAIN s : i < j /\ s[i] = c /\ s[j] = d

SavedLast(T) ==
  {s \in SetToSeqs(Elems(order) \cup T) :
     \A c \in Elems(order) \ T : \A d \in Elems(s) \ {c} :
       Before(s, c, d) <=> d \in T \/ Before(order, c, d)}

(* StartMinting saves a row for a contract that does not circulate yet,    *)
(* and may set back the cursor of one that does.                           *)
Circulate(D) ==
  LET C == {ContractOf[d] : d \in D} IN
  \E touched \in SUBSET C :
    /\ C \ Elems(order) \subseteq touched
    /\ order' \in SavedLast(touched)
    /\ behind' = behind \cup touched
    /\ UNCHANGED handled

Commit ==
  /\ poller.open /\ poller.todo = {}
  /\ PollerMayCommit
  /\ dist' = [d \in Dists |-> IF d \in poller.wrote THEN Stages[poller.fn + 1]
                                                    ELSE dist[d]]
  /\ saved' = SavedWith(poller.wrote, SavesIn(poller.fn))
  /\ IF poller.fn = 4 THEN Circulate(poller.wrote) ELSE UNCHANGED circulation
  /\ poller' = Idle(NextFn)
  /\ UNCHANGED <<executed, abort, errors>>

\* Mutants: a transaction is saved outside of the database transaction of
\* its handler; an error ends the loop.
SavedAfterRollbackToo == SavedWith(poller.wrote, SavesIn(poller.fn))
AfterErrorStopped == Idle(0)

(* An error rolls back the function it happens in, for all distributions,  *)
(* and the loop goes on with the next function.                            *)
SavedAfterRollback == saved

AfterError == Idle(NextFn)

Rollback ==
  /\ poller' = AfterError
  /\ saved' = SavedAfterRollback
  /\ UNCHANGED <<dist, executed, abort, circulation>>

PollerFails ==
  /\ poller.open \/ poller.fn = PollFn
  /\ errors < MaxErrors
  /\ errors' = errors + 1
  /\ Rollback

(* The database is locked: an error, too.                                  *)
PollerBusy ==
  /\ ReadLocks
  /\ poller.open
  /\ \/ \E d \in poller.todo : Finds(d) /\ ~PollerMayWrite(d)
     \/ poller.todo = {} /\ ~PollerMayCommit
  /\ Rollback
  /\ UNCHANGED errors

----------------------------------------------------------------------------
(* The poll of circulating contracts.  A contract without new blocks is    *)
(* not saved and keeps its updated_at.                                     *)

Chosen ==
  {order[i] : i \in 1..(IF Len(order) < PollLimit THEN Len(order) ELSE PollLimit)}

\* Mutant: the contracts are not listed by updated_at.
OrderAsBefore(H) == {order}

OrderAfter(H) ==
  {s \in SavedLast(H) : \A c, d \in H : Before(s, c, d) <=> Before(order, c, d)}

(* A range may end before the latest block.                                *)
PollContracts ==
  /\ ~poller.open
  /\ poller.fn = PollFn
  /\ handled' = Chosen \cap behind
  /\ order' \in OrderAfter(Chosen \cap behind)
  /\ \E upToDate \in SUBSET (Chosen \cap behind) : behind' = behind \ upToDate
  /\ poller' = Idle(NextFn)
  /\ UNCHANGED <<dist, saved, executed, abort, errors>>

----------------------------------------------------------------------------
(* The HTTP API.                                                           *)

Create(d) ==
  /\ dist[d] = "none"
  /\ ReadLocks => ~poller.open /\ \A e \in Abortable : ~AbortReading(e)
  /\ dist' = [dist EXCEPT ![d] = Stages[1]]
  /\ UNCHANGED <<saved, executed, poller, abort, circulation, errors>>

\* Mutant: SetInvalid accepts every state.
AbortReadsAny(d) ==
  /\ abort[d] = "none"
  /\ dist[d] # "none"
  /\ abort' = [abort EXCEPT ![d] = "read"]
  /\ UNCHANGED <<dist, saved, executed, poller, circulation, errors>>

(* GetDistributionSmall and SetInvalid.                                    *)
AbortReads(d) ==
  /\ abort[d] = "none"
  /\ dist[d] # "none"
  /\ abort' = [abort EXCEPT ![d] =
                 IF dist[d] = "complete" THEN "refused" ELSE "read"]
  /\ UNCHANGED <<dist, saved, executed, poller, circulation, errors>>

AbortWrites(d) ==
  /\ abort[d] = "read"
  /\ AbortMayWrite(d)
  /\ abort' = [abort EXCEPT ![d] = "wrote"]
  /\ UNCHANGED <<dist, saved, executed, poller, circulation, errors>>

(* The row is saved as it was read, with the state "invalid", and with it  *)
(* the transaction that tells the chain.  The answer is Ok.                *)
AbortCommits(d) ==
  /\ abort[d] = "wrote"
  /\ AbortMayCommit(d)
  /\ abort' = [abort EXCEPT ![d] = "ok"]
  /\ dist' = [dist EXCEPT ![d] = "invalid"]
  /\ saved' = SavedWith({d}, {"invalid"})
  /\ UNCHANGED <<executed, poller, circulation, errors>>

AbortBusy(d) ==
  /\ ReadLocks
  /\ \/ abort[d] = "read" /\ ~AbortMayWrite(d)
     \/ abort[d] = "wrote" /\ ~AbortMayCommit(d)
  /\ abort' = [abort EXCEPT ![d] = "refused"]
  /\ UNCHANGED <<dist, saved, executed, poller, circulation, errors>>

----------------------------------------------------------------------------
(* The chain.                                                              *)

Execute(d, k) ==
  /\ saved[d][k] > 0
  /\ <<d, k>> \notin executed
  /\ executed' = executed \cup {<<d, k>>}
  /\ UNCHANGED <<dist, saved, poller, abort, circulation, errors>>

NewBlock ==
  /\ behind' = Elems(order)
  /\ UNCHANGED <<dist, saved, executed, poller, abort, order, handled, errors>>

Init ==
  /\ dist = [d \in Dists |-> "none"]
  /\ saved = [d \in Dists |-> [k \in Kinds |-> 0]]
  /\ executed = {}
  /\ poller = Idle(1)
  /\ abort = [d \in Abortable |-> "none"]
  /\ order = <<>>
  /\ behind = {}
  /\ handled = {}
  /\ errors = 0

PollerSteps ==
  Begin \/ (\E d \in Dists : Handle(d)) \/ Commit \/ PollerBusy \/ PollContracts

AbortSteps(d) == AbortWrites(d) \/ AbortCommits(d) \/ AbortBusy(d)

Next ==
  \/ PollerSteps
  \/ PollerFails
  \/ \E d \in Dists : Create(d)
  \/ \E d \in Abortable : AbortReads(d) \/ AbortSteps(d)
  \/ \E d \in Dists, k \in Kinds : Execute(d, k)
  \/ NewBlock

Spec == Init /\ [][Next]_vars

(* The loop goes on, a request that was accepted runs, what is saved gets  *)
(* executed, and there are new blocks.                                     *)
Fairness ==
  /\ WF_vars(PollerSteps)
  /\ \A d \in Abortable : WF_vars(AbortSteps(d))
  /\ \A d \in Dists : \A k \in Kinds : WF_vars(Execute(d, k))
  /\ WF_vars(NewBlock)

FairSpec == Spec /\ Fairness

----------------------------------------------------------------------------
(* Properties.                                                             *)

LoopTypeOK ==
  /\ dist \in [Dists -> Elems(Stages) \cup {"none", "invalid"}]
  /\ saved \in [Dists -> [Kinds -> Nat]]
  /\ executed \subseteq Dists \X Kinds
  /\ poller \in [fn : Fns, open : BOOLEAN, todo : SUBSET Dists, wrote : SUBSET Dists]
  /\ abort \in [Abortable -> {"none", "read", "wrote", "ok", "refused"}]
  /\ order \in Seq(Contracts)
  /\ behind \subseteq Elems(order) /\ handled \subseteq Elems(order)
  /\ errors \in 0..MaxErrors

(* With read locks the handlers and the aborts are atomic: each commit is  *)
(* a step of the life of a distribution, whatever was read before it.      *)
Life == INSTANCE DistributionLife

ImplementsLife == Life!Spec

(* An abort that was answered with Ok holds: a handler that had read the   *)
(* row before does not write it back to life.                              *)
AbortHolds == \A d \in Abortable : abort[d] = "ok" => dist[d] = "invalid"

(* With read locks a state and the transactions that belong to it are      *)
(* committed together, whatever fails in between: none is saved twice or   *)
(* without its state, and the chain gets one verdict for a distribution.   *)
SavedWithState ==
  \A d \in Dists :
    LET n == saved[d]
        Is(S) == IF dist[d] \in S THEN 1 ELSE 0
    IN /\ n["invalid"] = Is({"invalid"})
       /\ n["complete"] = Is({"complete"})
       /\ IF dist[d] = "invalid"
          THEN n["mint"] <= n["settle"] /\ n["settle"] <= 1
          ELSE /\ n["settle"] = Is({"settling", "settled", "minting", "complete"})
               /\ n["mint"] = Is({"minting", "complete"})

(* Errors and a locked database do not keep a distribution from its end.   *)
LoopEndsDistributions ==
  \A d \in Dists : dist[d] = "resolved" ~> dist[d] \in {"complete", "invalid"}

(* However many contracts circulate, each that has new blocks is polled:   *)
(* one without new blocks does not keep its place at the head of the list  *)
(* for ever.                                                               *)
ContractsPolled ==
  \A c \in Contracts : c \in behind ~> c \in handled

=============================================================================
