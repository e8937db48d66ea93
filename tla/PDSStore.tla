------------------------------- MODULE PDSStore -------------------------------
(***************************************************************************)
(* The database of the service: its tables, and the methods of the rows    *)
(* that guard a change of state.                                           *)
(*                                                                         *)
(* A handler of the service runs in one database transaction.  An error    *)
(* rolls all of it back, so a handler is one atomic step that either does  *)
(* everything or leaves the tables as they are.                            *)
(***************************************************************************)
EXTENDS PDSLedger

CONSTANTS
  ContractOf,         \* ContractOf[d]: the PackNFT contract of distribution d
  PackRows,           \* PackRows[d]: the packs of d in the order of their keys
  CollectibleRows,    \* CollectibleRows[d]: its collectibles, in such an order
  MintingBatchSize,
  SettlementBatchSize,
  MaxBlocksPerCheck

Elems(s) == {s[i] : i \in DOMAIN s}

PacksOf(d) == Elems(PackRows[d])

ItemsOf(d) == UNION {Contents[p] : p \in PacksOf(d)}

(* What Distribution.Resolve and InsertDistribution guarantee: a pack      *)
(* belongs to one distribution, and a distribution has a row for each of   *)
(* its packs and each of its collectibles.                                 *)
ASSUME StoreAssumption ==
  /\ ContractOf \in [Dists -> Contracts]
  /\ PackRows \in [Dists -> Seq(Packs)]
  /\ CollectibleRows \in [Dists -> Seq(Collectibles)]
  /\ \A d \in Dists :
       /\ \A i, j \in DOMAIN PackRows[d] :
            PackRows[d][i] = PackRows[d][j] => i = j
       /\ \A i, j \in DOMAIN CollectibleRows[d] :
            CollectibleRows[d][i] = CollectibleRows[d][j] => i = j
       /\ Elems(CollectibleRows[d]) = ItemsOf(d)
  /\ \A d, e \in Dists : d # e => PacksOf(d) \cap PacksOf(e) = {}
  /\ \A p \in Packs : \E d \in Dists : p \in PacksOf(d)
  /\ MintingBatchSize \in Nat \ {0}
  /\ SettlementBatchSize \in Nat \ {0}
  /\ MaxBlocksPerCheck \in Nat

VARIABLES
  dist,         \* dist[d]: the state of a distribution
  pack,         \* pack[p]: the state of a pack and its id on the chain
  settlement,   \* settlement[d]: the settlement row of d
  minting,      \* minting[d]: the minting row of d
  circulating,  \* circulating[c]: StartAtBlock of a circulating pack contract
  pending       \* rows of the table transactions that are not executed yet

storeVars == <<dist, pack, settlement, minting, circulating, pending>>

vars == <<ledgerVars, storeVars>>

DistOf(p) == CHOOSE d \in Dists : p \in PacksOf(d)

----------------------------------------------------------------------------

DistributionState ==
  {"none", "resolved", "setup", "settling", "settled", "minting", "complete",
   "invalid"}

PackState ==
  {"init", "sealed", "reveal-request-handled", "revealed",
   "open-request-handled", "opened"}

NoFlowID == 0     \* FlowID{Valid: false}; the ids of a contract start at 1

NoRow == -1       \* StartAtBlock of a row that is not in its table

PackRow == [state : PackState, flowID : Nat]

SettlementRow ==
  [startAt : Nat \union {NoRow}, current : Nat, total : Nat,
   settled : SUBSET Collectibles]

MintingRow == [startAt : Nat \union {NoRow}, current : Nat, total : Nat]

NoSettlement == [startAt |-> NoRow, current |-> 0, total |-> 0, settled |-> {}]

NoMinting == [startAt |-> NoRow, current |-> 0, total |-> 0]

StoreTypeOK ==
  /\ dist \in [Dists -> DistributionState]
  /\ pack \in [Packs -> PackRow]
  /\ settlement \in [Dists -> SettlementRow]
  /\ minting \in [Dists -> MintingRow]
  /\ circulating \in [Contracts -> Nat \union {NoRow}]
  /\ pending \in SUBSET Tx

StoreInit ==
  /\ dist = [d \in Dists |-> "none"]
  /\ pack = [p \in Packs |-> [state |-> "init", flowID |-> NoFlowID]]
  /\ settlement = [d \in Dists |-> NoSettlement]
  /\ minting = [d \in Dists |-> NoMinting]
  /\ circulating = [c \in Contracts |-> NoRow]
  /\ pending = {}

----------------------------------------------------------------------------

InState(s) == {d \in Dists : dist[d] = s}

(* Distribution.SetState for every distribution of D.                      *)
SetState(D, s) == [d \in Dists |-> IF d \in D THEN s ELSE dist[d]]

(* Mutant: the row gets the hash of the event where its id belongs.        *)
SealWithHash(E) ==
  [p \in Packs |->
     IF \E e \in E : e.hash = p
     THEN [state  |-> "sealed",
           flowID |-> (CHOOSE e \in E : e.hash = p).hash]
     ELSE pack[p]]

(* Pack.Seal, for every mint event of E.                                   *)
Seal(E) ==
  [p \in Packs |->
     IF \E e \in E : e.hash = p
     THEN [state  |-> "sealed",
           flowID |-> (CHOOSE e \in E : e.hash = p).id]
     ELSE pack[p]]

(* The blocks that a poll reads when StartAtBlock is s, and the value of   *)
(* StartAtBlock after it.  The end of the range is begin+MaxBlocksPerCheck *)
(* and the range includes both ends.                                       *)
Min2(a, b) == IF a > b THEN b ELSE a

RangeEnd(s) == Min2(height, s + 1 + MaxBlocksPerCheck)

Blocks(s) == (s + 1)..RangeEnd(s)

\* Mutant: a poll starts one block too late.
NextStartLate(s) == IF Blocks(s) = {} THEN s ELSE Min2(height, RangeEnd(s) + 1)

NextStart(s) == IF Blocks(s) = {} THEN s ELSE RangeEnd(s)

EventsIn(B) == UNION {chain[b] : b \in B}

(* The rows of a table in batches, in the order of their keys.             *)
NumBatches(rows, size) == (Len(rows) + size - 1) \div size

Batch(rows, size, k) ==
  SubSeq(rows, (k - 1) * size + 1, Min2(k * size, Len(rows)))

=============================================================================
