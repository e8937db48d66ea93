---------------------------- MODULE PDSPollingProofs ----------------------------
(***************************************************************************)
(* Proofs about the polling of circulating packs in PDSService, for every  *)
(* value of its constants: when owners ask once and no two distributions   *)
(* share a contract, no event of a pack that is sealed finds it in an      *)
(* unexpected state, so none stops the polling of all contracts.           *)
(*                                                                         *)
(* The argument: the contract lets the events of a pack happen once and in *)
(* one order, and the row of a pack says exactly which of them lie before  *)
(* the cursor of the contract.                                             *)
(***************************************************************************)
EXTENDS PDSEscrowProofs

----------------------------------------------------------------------------
(* The invariant of the polling.                                           *)

Before(S, b) == \E a \in S : a <= b

Once(S) == \A a, b \in S : a = b

(* The blocks with the events RevealRequest, Revealed, OpenRequest and     *)
(* Opened of one pack: a pack is revealed after it was asked for, and only *)
(* then is it asked for to be opened, or opened.                           *)
InOrder(requests, reveals, asks, opens) ==
  /\ Once(requests) /\ Once(reveals) /\ Once(asks) /\ Once(opens)
  /\ \A b \in reveals : Before(requests, b)
  /\ \A b \in asks \union opens : Before(reveals, b)
  /\ \A a \in asks, b \in opens : a <= b

EventsInOrder ==
  \A c \in Contracts : \A id \in DOMAIN packNFT[c] :
    InOrder(Requests(c, id, "RevealRequest"), Requests(c, id, "Revealed"),
            Requests(c, id, "OpenRequest"), Requests(c, id, "Opened"))

(* A pack that is not sealed was revealed in some block.                   *)
RevealsSealed ==
  \A c \in Contracts : \A id \in DOMAIN packNFT[c] :
    packNFT[c][id].status # "Sealed" => Requests(c, id, "Revealed") # {}

(* A transaction reveals what someone has asked for.                       *)
RevealTxsAsked ==
  \A t \in pending :
    t.name = "reveal" => Requests(t.contract, t.id, "RevealRequest") # {}

(* What a row in state st says of the events of its pack up to block b.    *)
Says(st, b, requests, reveals, asks, opens) ==
  /\ st \notin {"init", "sealed"} => Before(requests, b)
  /\ st \in {"revealed", "open-request-handled", "opened"} => Before(reveals, b)
  /\ st = "open-request-handled" => Before(asks, b)
  /\ st = "opened" => Before(opens, b)

(* The row of a pack is not ahead of the cursor of its contract.           *)
RowSays(p, st, b) ==
  LET c  == ContractOf[DistOf(p)]
      id == pack[p].flowID
  IN Says(st, b, Requests(c, id, "RevealRequest"), Requests(c, id, "Revealed"),
          Requests(c, id, "OpenRequest"), Requests(c, id, "Opened"))

RowsRead ==
  \A p \in Packs : RowSays(p, pack[p].state, circulating[ContractOf[DistOf(p)]])

(* A contract circulates when its distribution has started to mint.        *)
EarlyNotCirculating ==
  \A d \in Dists :
    dist[d] \in BeforeMinting => circulating[ContractOf[d]] = NoRow

LedgerOrder == EventsInOrder /\ RevealsSealed

PollInv == LedgerOrder /\ RevealTxsAsked /\ RowsRead /\ EarlyNotCirculating

----------------------------------------------------------------------------
(* What a step does to the events of packs.                                *)

HasEvent(E, c, id, type) ==
  \E e \in E : e.type = type /\ e.contract = c /\ e.id = id

SameOthers(c, id) ==
  \A b \in Contracts : \A i \in DOMAIN packNFT'[b] : b # c \/ i # id =>
    /\ i \in DOMAIN packNFT[b]
    /\ packNFT'[b][i].status = packNFT[b][i].status

SameOrSealed ==
  \A c \in Contracts : \A id \in DOMAIN packNFT'[c] :
    IF id \in DOMAIN packNFT[c]
    THEN packNFT'[c][id].status = packNFT[c][id].status
    ELSE packNFT'[c][id].status = "Sealed"

(* A block without such an event.                                          *)
PlainStep(E) ==
  /\ chain' = Append(chain, E)
  /\ E \in SUBSET Event
  /\ \A e \in E : e.type \notin RequestTypes
  /\ SameOrSealed

(* When the contract and the service let an event happen.                  *)
MayHappen(c, id, type) ==
  /\ id \in DOMAIN packNFT[c]
  /\ type \in {"RevealRequest", "OpenRequest"} => Requests(c, id, type) = {}
  /\ type = "Revealed" => /\ packNFT[c][id].status = "Sealed"
                          /\ Requests(c, id, "RevealRequest") # {}
  /\ type \in {"OpenRequest", "Opened"} => packNFT[c][id].status = "Revealed"

(* A block with one event of pack id.                                      *)
EventStep(c, id, type, E) ==
  /\ chain' = Append(chain, E)
  /\ E \in SUBSET Event
  /\ HasEvent(E, c, id, type)
  /\ \A e \in E : e.type \in RequestTypes =>
       e.type = type /\ e.contract = c /\ e.id = id
  /\ MayHappen(c, id, type)
  /\ SameOthers(c, id)
  /\ type \in {"RevealRequest", "OpenRequest"} => packNFT' = packNFT

(* Blocks of events stay.                                                  *)
LEMMA RequestsStay ==
  ASSUME Inv, [Next]_vars, NEW c, NEW id, NEW type
  PROVE  /\ Requests(c, id, type) \in SUBSET (1..height)
         /\ Requests(c, id, type) \in SUBSET Requests(c, id, type)'
BY BlocksStay DEF Requests

(* A new block adds its own events.                                        *)
LEMMA RequestsOfBlock ==
  ASSUME LedgerTypeOK, NEW E \in SUBSET Event, chain' = Append(chain, E),
         NEW c, NEW id, NEW type
  PROVE  Requests(c, id, type)' =
           Requests(c, id, type) \union
             (IF HasEvent(E, c, id, type) THEN {height + 1} ELSE {})
<1>1. /\ height' = height + 1 /\ height \in Nat
      /\ \A b \in 1..height : chain'[b] = chain[b]
      /\ chain'[height + 1] = E
  BY ChainAppended DEF height
<1>2. \A b \in 1..height' : b \in 1..height \/ b = height + 1
  BY <1>1
<1>3. \A b \in 1..height : b \in 1..height' /\ b # height + 1
  BY <1>1
<1>4. height + 1 \in 1..height'
  BY <1>1
<1> QED
  BY <1>1, <1>2, <1>3, <1>4 DEF Requests, HasEvent

(* A number of requests below a bound of one is none.                      *)
LEMMA NoRequests ==
  ASSUME Inv, MaxRequests <= 1, NEW c, NEW id, NEW type,
         Cardinality(Requests(c, id, type)) < MaxRequests
  PROVE  Requests(c, id, type) = {}
<1>1. PICK S : S = Requests(c, id, type)
  OBVIOUS
<1>2. S \in SUBSET (1..height) /\ height \in Nat
  BY <1>1, LenProperties DEF Requests, Inv, TypeOK, LedgerTypeOK, height
<1>3. IsFiniteSet(S) /\ Cardinality(S) \in Nat
  BY <1>2, UpToFinite, FS_Subset, FS_CardinalityType
<1>4. Cardinality(S) = 0
  BY <1>1, <1>3, ServiceAssumption
<1> QED
  BY <1>1, <1>3, <1>4, FS_EmptySet

(* The one pack of a step that reveals or opens.                           *)
LEMMA StatusKeepsOthers ==
  ASSUME LedgerTypeOK, NEW c \in Contracts, NEW id \in DOMAIN packNFT[c],
         NEW st \in Status,
         packNFT' = [packNFT EXCEPT ![c][id].status = st]
  PROVE  SameOthers(c, id)
<1> DEFINE r == [packNFT[c][id] EXCEPT !.status = st]
<1>1. packNFT[c][id] \in PackNFT
  BY PackNFTType
<1>2. r \in PackNFT
  BY <1>1 DEF PackNFT
<1>3. packNFT' = [packNFT EXCEPT ![c] = [packNFT[c] EXCEPT ![id] = r]]
  OBVIOUS
<1> HIDE DEF r
<1>4. \A b \in Contracts : \A i \in DOMAIN packNFT[b] :
        b # c \/ i # id => packNFT'[b][i] = packNFT[b][i]
  BY <1>2, <1>3, OnePackChanges
<1>5. \A b \in Contracts : DOMAIN packNFT'[b] = DOMAIN packNFT[b]
  BY StatusKeepsHashes DEF SameNFTs
<1> QED
  BY <1>4, <1>5 DEF SameOthers

(* A sealed pack is revealed.                                              *)
LEMMA RevealStep ==
  ASSUME LedgerTypeOK, NEW c \in Contracts, NEW id, NEW p,
         CanReveal(c, id, p), Reveal(c, id),
         Requests(c, id, "RevealRequest") # {}
  PROVE  EventStep(c, id, "Revealed", {Revealed(c, id)})
<1>1. id \in DOMAIN packNFT[c] /\ packNFT[c][id].status = "Sealed"
  BY DEF CanReveal, Exists
<1>2. id \in Nat
  BY <1>1, PackNFTType
<1>3. SameOthers(c, id)
  BY <1>1, StatusKeepsOthers, "Revealed" \in Status DEF Reveal, Status
<1>4. MayHappen(c, id, "Revealed")
  BY <1>1 DEF MayHappen
<1>5. {Revealed(c, id)} \in SUBSET Event
  BY <1>2 DEF Revealed, Event
<1>6. /\ HasEvent({Revealed(c, id)}, c, id, "Revealed")
      /\ \A e \in {Revealed(c, id)} :
           e.type = "Revealed" /\ e.contract = c /\ e.id = id
  BY DEF HasEvent, Revealed
<1> QED
  BY <1>3, <1>4, <1>5, <1>6 DEF Reveal, Emit, EventStep

(* A revealed pack is opened.                                              *)
LEMMA OpenStep ==
  ASSUME LedgerTypeOK, NEW c \in Contracts, NEW id, NEW p \in Packs,
         NEW a \in Accounts, CanOpen(c, id, p), Open(c, id, p, a)
  PROVE  \E E : EventStep(c, id, "Opened", E)
<1> DEFINE D == {Deposit(x, a) : x \in Contents[p]}
           E == {Opened(c, id)} \union D
<1>1. id \in DOMAIN packNFT[c] /\ packNFT[c][id].status = "Revealed"
  BY DEF CanOpen, Exists
<1>2. id \in Nat
  BY <1>1, PackNFTType
<1>3. SameOthers(c, id)
  BY <1>1, StatusKeepsOthers, "Opened" \in Status DEF Open, Status
<1>4. MayHappen(c, id, "Opened")
  BY <1>1 DEF MayHappen
<1>5. D \in SUBSET Event /\ \A e \in D : e.type = "Deposit"
  <2>1. \A x \in Contents[p] : x \in Collectibles
    BY LedgerAssumption
  <2> QED
    BY <2>1 DEF Deposit, Event
<1>6. Opened(c, id) \in Event
  BY <1>2 DEF Opened, Event
<1>7. /\ Opened(c, id).type = "Opened" /\ Opened(c, id).contract = c
      /\ Opened(c, id).id = id
  BY DEF Opened
<1>8. chain' = Append(chain, E)
  BY DEF Open, Emit
<1> HIDE DEF D
<1>9. E \in SUBSET Event
  BY <1>5, <1>6
<1>10. HasEvent(E, c, id, "Opened")
  BY <1>7 DEF HasEvent
<1>11. \A e \in E : e.type \in RequestTypes =>
         e.type = "Opened" /\ e.contract = c /\ e.id = id
  BY <1>5, <1>7 DEF RequestTypes
<1> HIDE DEF E
<1>12. EventStep(c, id, "Opened", E)
  BY <1>3, <1>4, <1>8, <1>9, <1>10, <1>11 DEF EventStep
<1> QED
  BY <1>12

(* A block without events of packs, for a step that changes no pack.       *)
LEMMA PlainBlock ==
  ASSUME NEW E \in SUBSET Event, chain' = Append(chain, E), packNFT' = packNFT,
         \A e \in E : e.type \notin RequestTypes
  PROVE  PlainStep(E)
BY DEF PlainStep, SameOrSealed

(* A mint has no other events.                                             *)
LEMMA MintStepPlain ==
  ASSUME LedgerTypeOK, NEW t, t.contract \in Contracts, t.hashes \in Seq(Packs),
         Mint(t)
  PROVE  \E E : PlainStep(E)
<1> DEFINE E == {MintEvent(t.contract, Len(packNFT[t.contract]) + k, t.hashes[k]) :
                   k \in 1..Len(t.hashes)}
<1>1. chain' = Append(chain, E)
  BY DEF Mint, Emit
<1>2. E \in SUBSET Event
  <2>1. Len(packNFT[t.contract]) \in Nat /\ Len(t.hashes) \in Nat
    BY PackNFTType, LenProperties
  <2>2. \A k \in 1..Len(t.hashes) : t.hashes[k] \in Packs
    BY ElementOfSeq
  <2> QED
    BY <2>1, <2>2 DEF MintEvent, Event
<1>3. \A e \in E : e.type \notin RequestTypes
  BY DEF MintEvent, RequestTypes
<1>4. SameOrSealed
  <2>1. PICK c \in Contracts, n \in Nat, s \in Nat :
          c = t.contract /\ n = Len(t.hashes) /\ s = Len(packNFT[c])
    <3>1. PICK c \in Contracts : c = t.contract
      OBVIOUS
    <3>2. Len(packNFT[c]) \in Nat /\ Len(t.hashes) \in Nat
      BY PackNFTType, LenProperties
    <3> QED
      BY <3>1, <3>2
  <2>2. /\ DOMAIN packNFT[c] = 1..s
        /\ DOMAIN packNFT'[c] = 1..(s + n)
        /\ \A id \in 1..s : packNFT'[c][id] = packNFT[c][id]
        /\ \A k \in 1..n : packNFT'[c][s + k].status = "Sealed"
        /\ \A b \in Contracts \ {c} : packNFT'[b] = packNFT[b]
    BY <2>1, MintAddsNFTs DEF AddsNFTs
  <2>3. \A id \in 1..(s + n) : id \in 1..s \/ \E k \in 1..n : id = s + k
    <3> TAKE id \in 1..(s + n)
    <3>1. CASE id <= s
      BY <3>1
    <3>2. CASE id > s
      <4>1. id - s \in 1..n /\ id = s + (id - s)
        BY <3>2
      <4> QED
        BY <4>1
    <3> QED
      BY <3>1, <3>2
  <2> SUFFICES ASSUME NEW b \in Contracts, NEW i \in DOMAIN packNFT'[b]
               PROVE  IF i \in DOMAIN packNFT[b]
                      THEN packNFT'[b][i].status = packNFT[b][i].status
                      ELSE packNFT'[b][i].status = "Sealed"
    BY DEF SameOrSealed
  <2>4. CASE b # c
    BY <2>2, <2>4
  <2>5. CASE b = c /\ i \in 1..s
    BY <2>2, <2>5, Zenon
  <2>6. CASE b = c /\ i \notin 1..s
    <3>1. PICK k \in 1..n : i = s + k
      BY <2>2, <2>3, <2>6
    <3> QED
      BY <2>2, <2>6, <3>1, Zenon
  <2> QED
    BY <2>4, <2>5, <2>6
<1> QED
  BY <1>1, <1>2, <1>3, <1>4 DEF PlainStep

(* So a block of the chain has at most one event of a pack.                *)
EventKinds ==
  \/ UNCHANGED <<chain, packNFT>>
  \/ \E E : PlainStep(E)
  \/ \E c \in Contracts, type \in RequestTypes : \E id, E : EventStep(c, id, type, E)

(* A transaction of the service reveals a pack that was asked for, opens   *)
(* a revealed one, or has no event of a pack.                              *)
LEMMA ExecuteKinds ==
  ASSUME Inv, RevealTxsAsked, NEW t \in pending, Execute(t)
  PROVE  EventKinds
<1> USE DEF Inv, TypeOK
<1>1. t \in Tx
  BY DEF StoreTypeOK
<1>2. {} \in SUBSET Event /\ \A e \in {} : e.type \notin RequestTypes
  OBVIOUS
<1>3. CASE ~Succeeds(t)
  BY <1>2, <1>3, PlainBlock DEF Execute, EmptyBlock, Emit, EventKinds
<1>4. CASE Succeeds(t) /\ t.name = "settle"
  <2> DEFINE E == {Deposit(x, Escrow) : x \in t.items}
  <2>1. chain' = Append(chain, E) /\ packNFT' = packNFT
    BY <1>4 DEF Execute, Apply, Settle, Emit
  <2>2. t.items \in SUBSET Collectibles
    BY <1>1, <1>4 DEF Tx
  <2>3. E \in SUBSET Event /\ \A e \in E : e.type \notin RequestTypes
    BY <2>2 DEF Deposit, Event, RequestTypes
  <2> QED
    BY <2>1, <2>3, PlainBlock DEF EventKinds
<1>5. CASE Succeeds(t) /\ t.name = "update_dist_state"
  BY <1>2, <1>5, PlainBlock DEF Execute, Apply, UpdateDistState, Emit, EventKinds
<1>6. CASE Succeeds(t) /\ t.name = "mint"
  <2>1. t.contract \in Contracts /\ t.hashes \in Seq(Packs)
    BY <1>1, <1>6 DEF Tx
  <2>2. Mint(t)
    BY <1>6 DEF Execute, Apply
  <2> QED
    BY <2>1, <2>2, MintStepPlain DEF EventKinds
<1>7. CASE Succeeds(t) /\ t.name \in {"reveal", "open"}
  <2>1. t.contract \in Contracts /\ t.pack \in Packs /\ t.owner \in Accounts
    BY <1>1, <1>7 DEF Tx
  <2>2. CASE CanOpen(t.contract, t.id, t.pack)
             /\ Open(t.contract, t.id, t.pack, t.owner)
    BY <2>1, <2>2, OpenStep DEF EventKinds, RequestTypes
  <2>3. CASE /\ t.name = "reveal"
             /\ CanReveal(t.contract, t.id, t.pack)
             /\ Reveal(t.contract, t.id)
    <3>1. Requests(t.contract, t.id, "RevealRequest") # {}
      BY <2>3 DEF RevealTxsAsked
    <3> QED
      BY <2>1, <2>3, <3>1, RevealStep DEF EventKinds, RequestTypes
  <2> QED
    BY <1>7, <2>2, <2>3 DEF Execute, Apply, Succeeds
<1> QED
  BY <1>3, <1>4, <1>5, <1>6, <1>7 DEF Succeeds

(* An owner asks once, to reveal a sealed pack or to open a revealed one.  *)
LEMMA OwnerKinds ==
  ASSUME MaxRequests <= 1, Inv, OwnerRequestsReveal \/ OwnerRequestsOpen
  PROVE  EventKinds
<1> USE DEF Inv, TypeOK
<1>1. CASE OwnerRequestsReveal
  <2>1. PICK c \in Contracts, a \in Accounts, o \in BOOLEAN :
          \E id \in DOMAIN packNFT[c] :
            /\ Cardinality(Requests(c, id, "RevealRequest")) < MaxRequests
            /\ RequestReveal(c, id, a, o)
    BY <1>1 DEF OwnerRequestsReveal
  <2>2. PICK id \in DOMAIN packNFT[c] :
          /\ Cardinality(Requests(c, id, "RevealRequest")) < MaxRequests
          /\ RequestReveal(c, id, a, o)
    BY <2>1
  <2>3. PICK e : e = RevealRequest(c, id, a, o)
    OBVIOUS
  <2>4. id \in Nat
    BY PackNFTType
  <2>5. e.type = "RevealRequest" /\ e.contract = c /\ e.id = id /\ e \in Event
    BY <2>3, <2>4 DEF RevealRequest, Event
  <2>6. chain' = Append(chain, {e}) /\ packNFT' = packNFT
    BY <2>2, <2>3 DEF RequestReveal, Emit
  <2>7. MayHappen(c, id, "RevealRequest")
    BY <2>2, NoRequests DEF MayHappen
  <2>8. EventStep(c, id, "RevealRequest", {e})
    BY <2>5, <2>6, <2>7 DEF EventStep, HasEvent, SameOthers
  <2> QED
    BY <2>8 DEF EventKinds, RequestTypes
<1>2. CASE OwnerRequestsOpen
  <2>1. PICK c \in Contracts, a \in Accounts :
          \E id \in DOMAIN packNFT[c] :
            /\ Cardinality(Requests(c, id, "OpenRequest")) < MaxRequests
            /\ RequestOpen(c, id, a)
    BY <1>2 DEF OwnerRequestsOpen
  <2>2. PICK id \in DOMAIN packNFT[c] :
          /\ Cardinality(Requests(c, id, "OpenRequest")) < MaxRequests
          /\ RequestOpen(c, id, a)
    BY <2>1
  <2>3. PICK e : e = OpenRequest(c, id, a)
    OBVIOUS
  <2>4. id \in Nat
    BY PackNFTType
  <2>5. e.type = "OpenRequest" /\ e.contract = c /\ e.id = id /\ e \in Event
    BY <2>3, <2>4 DEF OpenRequest, Event
  <2>6. /\ chain' = Append(chain, {e}) /\ packNFT' = packNFT
        /\ packNFT[c][id].status = "Revealed"
    BY <2>2, <2>3 DEF RequestOpen, Emit
  <2>7. MayHappen(c, id, "OpenRequest")
    BY <2>2, <2>6, NoRequests DEF MayHappen
  <2>8. EventStep(c, id, "OpenRequest", {e})
    BY <2>5, <2>6, <2>7 DEF EventStep, HasEvent, SameOthers
  <2> QED
    BY <2>8 DEF EventKinds, RequestTypes
<1> QED
  BY <1>1, <1>2

(* A transfer changes the owner of a pack only.                            *)
LEMMA TransferKinds ==
  ASSUME Inv, OwnerTransfers
  PROVE  EventKinds
<1>1. PICK c \in Contracts, s \in Sales :
        \E id \in DOMAIN packNFT[c] : TransferPack(c, id, s[1], s[2])
  BY DEF OwnerTransfers
<1>2. PICK id \in DOMAIN packNFT[c] : TransferPack(c, id, s[1], s[2])
  BY <1>1
<1>3. PICK a \in Accounts : a = s[2]
  BY ServiceAssumption
<1> DEFINE r == [packNFT[c][id] EXCEPT !.owner = a]
<1>4. packNFT[c][id] \in PackNFT
  BY PackNFTType DEF Inv, TypeOK
<1>5. /\ r \in PackNFT /\ r.hash = packNFT[c][id].hash
      /\ r.status = packNFT[c][id].status
  BY <1>4 DEF PackNFT
<1>6. packNFT' = [packNFT EXCEPT ![c] = [packNFT[c] EXCEPT ![id] = r]]
  BY <1>2, <1>3 DEF TransferPack
<1> HIDE DEF r
<1>7. /\ packNFT'[c][id] = r
      /\ \A b \in Contracts : \A i \in DOMAIN packNFT[b] :
           b # c \/ i # id => packNFT'[b][i] = packNFT[b][i]
  BY <1>5, <1>6, OnePackChanges DEF Inv, TypeOK
<1>8. \A b \in Contracts : DOMAIN packNFT'[b] = DOMAIN packNFT[b]
  BY <1>5, <1>6, OnePackKeepsHashes DEF SameNFTs, Inv, TypeOK
<1>9. SameOrSealed
  <2> SUFFICES ASSUME NEW b \in Contracts, NEW i \in DOMAIN packNFT'[b]
               PROVE  /\ i \in DOMAIN packNFT[b]
                      /\ packNFT'[b][i].status = packNFT[b][i].status
    BY DEF SameOrSealed
  <2>1. i \in DOMAIN packNFT[b]
    BY <1>8
  <2>2. CASE b = c /\ i = id
    BY <1>5, <1>7, <2>1, <2>2, Zenon
  <2>3. CASE b # c \/ i # id
    BY <1>7, <2>1, <2>3, Zenon
  <2> QED
    BY <2>1, <2>2, <2>3
<1>10. chain' = Append(chain, {})
  BY <1>2 DEF TransferPack, Emit
<1>11. PlainStep({})
  BY <1>9, <1>10 DEF PlainStep
<1> QED
  BY <1>11 DEF EventKinds

(* A pack that others reveal was asked for.                                *)
LEMMA AnyoneKinds ==
  ASSUME Inv, RowsRead, AnyoneReveals
  PROVE  EventKinds
<1>1. PICK p \in Disclosed :
        /\ pack[p].state = "reveal-request-handled"
        /\ PublicReveal(ContractOf[DistOf(p)], pack[p].flowID, p)
  BY DEF AnyoneReveals
<1>2. PICK c \in Contracts : \E id : c = ContractOf[DistOf(p)] /\ id = pack[p].flowID
  BY ServiceAssumption, DistOfPack, StoreAssumption
<1>a. PICK id : c = ContractOf[DistOf(p)] /\ id = pack[p].flowID
  BY <1>2
<1>3. CanReveal(c, id, p) /\ Reveal(c, id)
  BY <1>1, <1>a DEF PublicReveal
<1>4. p \in Packs
  BY ServiceAssumption
<1>5. Requests(c, id, "RevealRequest") # {}
  BY <1>1, <1>a, <1>4 DEF RowsRead, RowSays, Says, Before
<1>6. EventStep(c, id, "Revealed", {Revealed(c, id)})
  BY <1>3, <1>5, RevealStep DEF Inv, TypeOK
<1> QED
  BY <1>6 DEF EventKinds, RequestTypes

(* So every step seals at most one event of a pack, when it may happen.    *)
LEMMA EventsOfStep ==
  ASSUME MaxRequests <= 1, Inv, RevealTxsAsked, RowsRead, [Next]_vars
  PROVE  EventKinds
<1>1. CASE ExecuteTx
  BY <1>1, ExecuteKinds DEF ExecuteTx
<1>2. CASE OwnerRequestsReveal \/ OwnerRequestsOpen
  BY <1>2, OwnerKinds
<1>3. CASE OwnerTransfers
  BY <1>3, TransferKinds
<1>4. CASE AnyoneReveals
  BY <1>4, AnyoneKinds
<1>5. CASE AccountSends
  <2>1. PICK m \in Moves : SendCollectible(m[1], m[2], m[3])
    BY <1>5 DEF AccountSends
  <2>2. m[1] \in Collectibles /\ m[3] \in Accounts \union {Escrow}
    BY ServiceAssumption
  <2>3. PICK e : e = Deposit(m[1], m[3])
    OBVIOUS
  <2>4. e \in Event /\ e.type \notin RequestTypes
    BY <2>2, <2>3 DEF Deposit, Event, RequestTypes
  <2>5. chain' = Append(chain, {e}) /\ packNFT' = packNFT
    BY <2>1, <2>3 DEF SendCollectible, Emit
  <2>6. {e} \in SUBSET Event /\ \A f \in {e} : f.type \notin RequestTypes
    BY <2>4
  <2> QED
    BY <2>5, <2>6, PlainBlock DEF EventKinds
<1>6. CASE OtherBlock
  <2>1. chain' = Append(chain, {}) /\ packNFT' = packNFT
    BY <1>6 DEF OtherBlock, EmptyBlock, Emit
  <2>2. {} \in SUBSET Event /\ \A f \in {} : f.type \notin RequestTypes
    OBVIOUS
  <2> QED
    BY <2>1, <2>2, PlainBlock DEF EventKinds
<1>7. CASE ~(\/ ExecuteTx \/ OwnerRequestsReveal \/ OwnerRequestsOpen
             \/ OwnerTransfers \/ AnyoneReveals \/ AccountSends \/ OtherBlock)
  BY <1>7 DEF Next, vars, ledgerVars, Create, CreateDistribution, Abort,
       AbortDistribution, HandleResolved, HandleSetup, HandleSettling,
       HandleSettled, HandleMinting, HandleComplete, PollCirculating, LoseTx,
       EventKinds
<1> QED
  BY <1>1, <1>2, <1>3, <1>4, <1>5, <1>6, <1>7

----------------------------------------------------------------------------
(* The order of the events.                                                *)

(* An event that there has been is true of its pack.                       *)
LEMMA RequestsTrue ==
  ASSUME Inv, NEW c \in Contracts, NEW id, NEW type \in RequestTypes,
         Requests(c, id, type) # {}
  PROVE  /\ id \in DOMAIN packNFT[c]
         /\ type = "Revealed" => packNFT[c][id].status # "Sealed"
         /\ type = "Opened" => packNFT[c][id].status = "Opened"
<1>1. PICK b \in 1..height : \E e \in chain[b] :
        e.type = type /\ e.contract = c /\ e.id = id
  BY DEF Requests
<1>2. PICK e \in chain[b] : e.type = type /\ e.contract = c /\ e.id = id
  BY <1>1
<1>3. EventTrue(e)
  BY SealedEvents
<1> QED
  BY <1>2, <1>3 DEF EventTrue, Exists

(* One more event keeps the order.                                         *)
LEMMA OneMore ==
  ASSUME NEW h \in Nat, NEW q \in SUBSET (1..h), NEW r \in SUBSET (1..h),
         NEW a \in SUBSET (1..h), NEW o \in SUBSET (1..h), InOrder(q, r, a, o)
  PROVE  /\ q = {} => InOrder(q \union {h + 1}, r, a, o)
         /\ r = {} /\ q # {} => InOrder(q, r \union {h + 1}, a, o)
         /\ a = {} /\ o = {} /\ r # {} => InOrder(q, r, a \union {h + 1}, o)
         /\ o = {} /\ r # {} => InOrder(q, r, a, o \union {h + 1})
<1>1. ASSUME NEW S \in SUBSET (1..h), S # {} PROVE Before(S, h + 1)
  <2>1. PICK x \in S : x \in 1..h
    BY <1>1
  <2> QED
    BY <2>1 DEF Before
<1>2. \A S \in SUBSET (1..h) : \A b \in 1..h :
        Before(S, b) => Before(S \union {h + 1}, b)
  BY DEF Before
<1>3. \A S \in SUBSET (1..h) : \A b \in S : b <= h + 1 /\ b \in 1..h
  OBVIOUS
<1>4. \A S : S = {} => Once(S \union {h + 1})
  BY DEF Once
<1>5. q = {} => InOrder(q \union {h + 1}, r, a, o)
  BY <1>2, <1>3, <1>4 DEF InOrder
<1>6. ASSUME r = {}, q # {} PROVE InOrder(q, r \union {h + 1}, a, o)
  <2>1. a = {} /\ o = {}
    BY <1>6 DEF InOrder, Before
  <2> QED
    BY <1>1, <1>4, <1>6, <2>1 DEF InOrder
<1>7. ASSUME a = {}, o = {}, r # {} PROVE InOrder(q, r, a \union {h + 1}, o)
  BY <1>1, <1>4, <1>7 DEF InOrder
<1>8. ASSUME o = {}, r # {} PROVE InOrder(q, r, a, o \union {h + 1})
  BY <1>1, <1>3, <1>4, <1>8 DEF InOrder
<1> QED
  BY <1>5, <1>6, <1>7, <1>8

(* The events of a pack in the block of an EventStep.                      *)
LEMMA EventOfStep ==
  ASSUME Inv, NEW c, NEW id, NEW type \in RequestTypes, NEW E,
         EventStep(c, id, type, E), NEW b, NEW i, NEW u \in RequestTypes
  PROVE  Requests(b, i, u)' =
           IF b = c /\ i = id /\ u = type THEN Requests(b, i, u) \union {height + 1}
                                          ELSE Requests(b, i, u)
<1>1. HasEvent(E, b, i, u) <=> b = c /\ i = id /\ u = type
  BY DEF EventStep, HasEvent
<1>2. E \in SUBSET Event /\ chain' = Append(chain, E)
  BY DEF EventStep
<1>3. Requests(b, i, u)' =
        Requests(b, i, u) \union (IF HasEvent(E, b, i, u) THEN {height + 1} ELSE {})
  BY <1>2, RequestsOfBlock DEF Inv, TypeOK
<1> QED
  BY <1>1, <1>3

(* Every step keeps the order.                                             *)
LEMMA EventsKeepOrder ==
  ASSUME Inv, LedgerOrder, NEW c \in Contracts, NEW id,
         NEW type \in RequestTypes, NEW E, EventStep(c, id, type, E)
  PROVE  LedgerOrder'
<1> DEFINE R(b, i, u) == Requests(b, i, u)
<1>1. height \in Nat
  BY LenProperties DEF Inv, TypeOK, LedgerTypeOK, height
<1>2. \A b, i, u : R(b, i, u) \in SUBSET (1..height)
  BY DEF Requests
<1>3. EventsInOrder'
  <2> SUFFICES ASSUME NEW b \in Contracts, NEW i \in DOMAIN packNFT'[b]
               PROVE  InOrder(R(b, i, "RevealRequest")', R(b, i, "Revealed")',
                              R(b, i, "OpenRequest")', R(b, i, "Opened")')
    BY DEF EventsInOrder
  <2>1. id \in DOMAIN packNFT[c]
    BY DEF EventStep, MayHappen
  <2>2. i \in DOMAIN packNFT[b]
    BY <2>1 DEF EventStep, SameOthers
  <2>3. InOrder(R(b, i, "RevealRequest"), R(b, i, "Revealed"),
                R(b, i, "OpenRequest"), R(b, i, "Opened"))
    BY <2>2 DEF LedgerOrder, EventsInOrder
  <2>4. \A u \in RequestTypes :
          R(b, i, u)' = IF b = c /\ i = id /\ u = type
                        THEN R(b, i, u) \union {height + 1} ELSE R(b, i, u)
    BY EventOfStep
  <2>5. RequestTypes = {"RevealRequest", "Revealed", "OpenRequest", "Opened"}
    BY DEF RequestTypes
  <2>6. CASE b # c \/ i # id
    BY <2>3, <2>4, <2>5, <2>6
  <2>7. CASE b = c /\ i = id
    <3>1. PICK q, r, a, o : /\ q = R(c, id, "RevealRequest")
                            /\ r = R(c, id, "Revealed")
                            /\ a = R(c, id, "OpenRequest")
                            /\ o = R(c, id, "Opened")
      OBVIOUS
    <3>2. /\ q \in SUBSET (1..height) /\ r \in SUBSET (1..height)
          /\ a \in SUBSET (1..height) /\ o \in SUBSET (1..height)
          /\ InOrder(q, r, a, o)
      BY <1>2, <2>3, <2>7, <3>1
    <3>3. CASE type = "RevealRequest"
      <4>1. q = {}
        BY <3>1, <3>3 DEF EventStep, MayHappen
      <4>2. InOrder(q \union {height + 1}, r, a, o)
        BY <1>1, <3>2, <4>1, OneMore
      <4> QED
        BY <2>4, <2>5, <2>7, <3>1, <3>3, <4>2
    <3>4. CASE type = "Revealed"
      <4>1. q # {} /\ packNFT[c][id].status = "Sealed"
        BY <3>1, <3>4 DEF EventStep, MayHappen
      <4>2. r = {}
        BY <3>1, <4>1, <2>5, RequestsTrue
      <4>3. InOrder(q, r \union {height + 1}, a, o)
        BY <1>1, <3>2, <4>1, <4>2, OneMore
      <4> QED
        BY <2>4, <2>5, <2>7, <3>1, <3>4, <4>3
    <3>5. CASE type \in {"OpenRequest", "Opened"}
      <4>1. packNFT[c][id].status = "Revealed"
        BY <3>5 DEF EventStep, MayHappen
      <4>2. r # {}
        BY <2>1, <3>1, <4>1 DEF LedgerOrder, RevealsSealed
      <4>3. o = {}
        BY <3>1, <4>1, <2>5, RequestsTrue
      <4>4. CASE type = "OpenRequest"
        <5>1. a = {}
          BY <3>1, <4>4 DEF EventStep, MayHappen
        <5>2. InOrder(q, r, a \union {height + 1}, o)
          BY <1>1, <3>2, <4>2, <4>3, <5>1, OneMore
        <5> QED
          BY <2>4, <2>5, <2>7, <3>1, <4>4, <5>2
      <4>5. CASE type = "Opened"
        <5>1. InOrder(q, r, a, o \union {height + 1})
          BY <1>1, <3>2, <4>2, <4>3, OneMore
        <5> QED
          BY <2>4, <2>5, <2>7, <3>1, <4>5, <5>1
      <4> QED
        BY <3>5, <4>4, <4>5
    <3> QED
      BY <2>5, <3>3, <3>4, <3>5
  <2> QED
    BY <2>6, <2>7
<1>4. RevealsSealed'
  <2> SUFFICES ASSUME NEW b \in Contracts, NEW i \in DOMAIN packNFT'[b],
                      packNFT'[b][i].status # "Sealed"
               PROVE  R(b, i, "Revealed")' # {}
    BY DEF RevealsSealed
  <2>1. "Revealed" \in RequestTypes
    BY DEF RequestTypes
  <2>2. R(b, i, "Revealed") \in SUBSET R(b, i, "Revealed")'
    BY <2>1, EventOfStep
  <2>3. CASE b # c \/ i # id
    <3>1. i \in DOMAIN packNFT[b] /\ packNFT[b][i].status # "Sealed"
      BY <2>3 DEF EventStep, SameOthers
    <3> QED
      BY <2>2, <3>1 DEF LedgerOrder, RevealsSealed
  <2>4. CASE b = c /\ i = id /\ type = "Revealed"
    BY <2>1, <2>4, EventOfStep
  <2>5. CASE b = c /\ i = id /\ type # "Revealed"
    <3>1. id \in DOMAIN packNFT[c] /\ packNFT[c][id].status # "Sealed"
      BY <2>5 DEF EventStep, MayHappen, RequestTypes
    <3> QED
      BY <2>2, <2>5, <3>1 DEF LedgerOrder, RevealsSealed
  <2> QED
    BY <2>3, <2>4, <2>5
<1> QED
  BY <1>3, <1>4 DEF LedgerOrder

(* A block without events of packs keeps the order, too.                   *)
LEMMA PlainKeepsOrder ==
  ASSUME Inv, LedgerOrder, NEW E, PlainStep(E)
  PROVE  LedgerOrder'
<1>1. ASSUME NEW b, NEW i, NEW u \in RequestTypes
      PROVE  Requests(b, i, u)' = Requests(b, i, u)
  <2>1. ~HasEvent(E, b, i, u)
    BY DEF PlainStep, HasEvent
  <2>2. E \in SUBSET Event /\ chain' = Append(chain, E)
    BY DEF PlainStep
  <2>3. Requests(b, i, u)' =
          Requests(b, i, u) \union (IF HasEvent(E, b, i, u) THEN {height + 1} ELSE {})
    BY <2>2, RequestsOfBlock DEF Inv, TypeOK
  <2> QED
    BY <2>1, <2>3
<1>2. RequestTypes = {"RevealRequest", "Revealed", "OpenRequest", "Opened"}
  BY DEF RequestTypes
<1>3. EventsInOrder'
  <2> SUFFICES ASSUME NEW b \in Contracts, NEW i \in DOMAIN packNFT'[b]
               PROVE  InOrder(Requests(b, i, "RevealRequest"),
                              Requests(b, i, "Revealed"),
                              Requests(b, i, "OpenRequest"),
                              Requests(b, i, "Opened"))
    BY <1>1, <1>2 DEF EventsInOrder
  <2>1. CASE i \in DOMAIN packNFT[b]
    BY <2>1 DEF LedgerOrder, EventsInOrder
  <2>2. CASE i \notin DOMAIN packNFT[b]
    <3>1. \A u \in RequestTypes : Requests(b, i, u) = {}
      BY <2>2, RequestsTrue
    <3>2. InOrder({}, {}, {}, {})
      BY DEF InOrder, Once
    <3> QED
      BY <1>2, <3>1, <3>2
  <2> QED
    BY <2>1, <2>2
<1>4. RevealsSealed'
  BY <1>1, <1>2 DEF PlainStep, SameOrSealed, LedgerOrder, RevealsSealed
<1> QED
  BY <1>3, <1>4 DEF LedgerOrder

(* Every step keeps the order of the events.                               *)
LEMMA NextKeepsOrder ==
  ASSUME MaxRequests <= 1, Inv, PollInv, [Next]_vars
  PROVE  LedgerOrder'
<1>1. LedgerOrder /\ EventKinds
  BY EventsOfStep DEF PollInv
<1>2. CASE UNCHANGED <<chain, packNFT>>
  <2>1. \A c, id, type : Requests(c, id, type)' = Requests(c, id, type)
    BY <1>2 DEF Requests, height
  <2>2. EventsInOrder'
    BY <1>1, <1>2, <2>1 DEF LedgerOrder, EventsInOrder
  <2>3. RevealsSealed'
    BY <1>1, <1>2, <2>1 DEF LedgerOrder, RevealsSealed
  <2> QED
    BY <2>2, <2>3 DEF LedgerOrder
<1> QED
  BY <1>1, <1>2, EventsKeepOrder, PlainKeepsOrder DEF EventKinds

----------------------------------------------------------------------------
(* One poll.                                                               *)

(* What the events of a pack up to block b say of its row.                 *)
Follows(st, b, q, r, a, o) ==
  /\ Before(q, b) => st \notin {"init", "sealed"}
  /\ Before(r, b) => st \in {"revealed", "open-request-handled", "opened"}
  /\ Before(a, b) => st \in {"open-request-handled", "opened"}
  /\ Before(o, b) => st = "opened"

Between(S, s, e) == {b \in S : s < b /\ b <= e}

(* Events that come in order find their pack in the state they expect.     *)
LEMMA PollInOrder ==
  ASSUME NEW q \in SUBSET Nat, NEW r \in SUBSET Nat, NEW a \in SUBSET Nat,
         NEW o \in SUBSET Nat, InOrder(q, r, a, o),
         NEW s \in Nat, NEW e \in Nat, s <= e,
         NEW st \in PackState, st # "init",
         Says(st, s, q, r, a, o), Follows(st, s, q, r, a, o),
         NEW s1, s1 = Advance(st, Between(q, s, e), {"sealed"},
                              "reveal-request-handled"),
         NEW s2, s2 = Advance(s1, Between(r, s, e), {"reveal-request-handled"},
                              "revealed"),
         NEW s3, s3 = Advance(s2, Between(a, s, e), {"revealed"},
                              "open-request-handled"),
         NEW s4, s4 = Advance(s3, Between(o, s, e),
                              {"open-request-handled", "revealed"}, "opened")
  PROVE  s4 # "error" /\ Says(s4, e, q, r, a, o)
<1> DEFINE In(S) == Between(S, s, e)
<1>1. Once(q) /\ Once(r) /\ Once(a) /\ Once(o)
  BY DEF InOrder
<1>2. ASSUME NEW S \in SUBSET Nat, Once(S), NEW x, NEW from, NEW to
      PROVE  Advance(x, In(S), from, to) =
               IF In(S) = {} THEN x ELSE IF x \in from THEN to ELSE "error"
  BY <1>2 DEF Once, Between, Advance
<1>3. /\ s1 = IF In(q) = {} THEN st
              ELSE IF st = "sealed" THEN "reveal-request-handled" ELSE "error"
      /\ s2 = IF In(r) = {} THEN s1
              ELSE IF s1 = "reveal-request-handled" THEN "revealed" ELSE "error"
      /\ s3 = IF In(a) = {} THEN s2
              ELSE IF s2 = "revealed" THEN "open-request-handled" ELSE "error"
      /\ s4 = IF In(o) = {} THEN s3
              ELSE IF s3 \in {"open-request-handled", "revealed"}
              THEN "opened" ELSE "error"
  BY <1>1, <1>2
<1>4. ASSUME NEW S \in SUBSET Nat, Once(S), Before(S, s)
      PROVE  In(S) = {}
  <2>1. PICK x \in S : x <= s
    BY <1>4 DEF Before
  <2>2. \A b \in In(S) : b = x /\ s < b /\ b \in Nat
    BY <1>4 DEF Once, Between
  <2>3. \A b \in In(S) : FALSE
    BY <2>1, <2>2
  <2> QED
    BY <2>3
<1>5. ASSUME NEW S \in SUBSET Nat
      PROVE  /\ \A b \in In(S) : b \in S /\ s < b /\ b <= e /\ b \in Nat
             /\ In(S) # {} => Before(S, e)
             /\ Before(S, s) => Before(S, e)
  <2>1. \A b \in In(S) : b \in S /\ s < b /\ b <= e /\ b \in Nat
    BY DEF Between
  <2>2. ASSUME NEW x \in S, x <= s PROVE x <= e
    BY <2>2
  <2> HIDE DEF In
  <2> QED
    BY <2>1, <2>2 DEF Before
<1>6. ASSUME NEW S \in SUBSET Nat, NEW b \in Nat, b <= e, Before(S, b)
      PROVE  /\ Before(S, s) \/ In(S) # {}
             /\ Before(S, e)
  BY <1>6 DEF Before, Between
<1>7. In(q) # {} => st = "sealed"
  BY <1>1, <1>4 DEF Says
<1>8. In(r) # {} => /\ Before(q, e)
                    /\ In(q) # {} \/ st = "reveal-request-handled"
  <2> SUFFICES ASSUME In(r) # {}
               PROVE  /\ Before(q, e)
                      /\ In(q) # {} \/ st = "reveal-request-handled"
    OBVIOUS
  <2>1. PICK b \in In(r) : b \in r /\ b <= e /\ b \in Nat
    BY <1>5
  <2>2. Before(q, b)
    BY <2>1 DEF InOrder
  <2>3. Before(q, e) /\ (Before(q, s) \/ In(q) # {})
    BY <1>6, <2>1, <2>2
  <2>4. ~Before(r, s)
    BY <1>1, <1>4
  <2>5. Before(q, s) => st = "reveal-request-handled"
    BY <2>4 DEF Says, Follows, PackState
  <2> QED
    BY <2>3, <2>5
<1>9. ASSUME NEW b \in Nat, s < b, b <= e, Before(r, b)
      PROVE  /\ Before(r, e) /\ Before(q, e)
             /\ In(r) # {} \/ st \in {"revealed", "open-request-handled", "opened"}
  <2>1. Before(r, e) /\ (Before(r, s) \/ In(r) # {})
    BY <1>6, <1>9
  <2>2. Before(r, s) => st \in {"revealed", "open-request-handled", "opened"}
    BY DEF Follows
  <2>3. PICK x \in r : x <= b
    BY <1>9 DEF Before
  <2>4. x \in Nat /\ x <= e /\ Before(q, x)
    BY <1>9, <2>3 DEF InOrder
  <2>5. Before(q, e)
    BY <1>6, <2>4
  <2> QED
    BY <2>1, <2>2, <2>5
<1>10. In(a) # {} => /\ Before(r, e) /\ Before(q, e)
                     /\ In(r) # {} \/ st = "revealed"
  <2> SUFFICES ASSUME In(a) # {}
               PROVE  /\ Before(r, e) /\ Before(q, e)
                      /\ In(r) # {} \/ st = "revealed"
    OBVIOUS
  <2>1. PICK b \in In(a) : b \in a /\ s < b /\ b <= e /\ b \in Nat
    BY <1>5
  <2>2. Before(r, b)
    BY <2>1 DEF InOrder
  <2>3. /\ Before(r, e) /\ Before(q, e)
        /\ In(r) # {} \/ st \in {"revealed", "open-request-handled", "opened"}
    BY <1>9, <2>1, <2>2
  <2>4. st # "open-request-handled"
    BY <1>1, <1>4 DEF Says
  <2>5. st # "opened"
    <3> SUFFICES ASSUME st = "opened" PROVE FALSE
      OBVIOUS
    <3>1. PICK y \in o : y <= s
      BY DEF Says, Before
    <3>2. b <= y /\ y \in Nat
      BY <2>1 DEF InOrder
    <3> QED
      BY <2>1, <3>1, <3>2
  <2> QED
    BY <2>3, <2>4, <2>5
<1>11. In(o) # {} => /\ Before(r, e) /\ Before(q, e)
                     /\ In(r) # {} \/ st \in {"revealed", "open-request-handled"}
  <2> SUFFICES ASSUME In(o) # {}
               PROVE  /\ Before(r, e) /\ Before(q, e)
                      /\ In(r) # {} \/ st \in {"revealed", "open-request-handled"}
    OBVIOUS
  <2>1. PICK b \in In(o) : b \in o /\ s < b /\ b <= e /\ b \in Nat
    BY <1>5
  <2>2. Before(r, b)
    BY <2>1 DEF InOrder
  <2>3. /\ Before(r, e) /\ Before(q, e)
        /\ In(r) # {} \/ st \in {"revealed", "open-request-handled", "opened"}
    BY <1>9, <2>1, <2>2
  <2>4. st # "opened"
    BY <1>1, <1>4 DEF Says
  <2> QED
    BY <2>3, <2>4
<1>12. /\ In(q) # {} => Before(q, e)
       /\ In(r) # {} => Before(r, e)
       /\ In(a) # {} => Before(a, e)
       /\ In(o) # {} => Before(o, e)
  BY <1>5
<1>13. Says(st, e, q, r, a, o)
  BY <1>5 DEF Says
<1> HIDE DEF In
<1>14. s4 # "error"
  BY <1>3, <1>7, <1>8, <1>10, <1>11 DEF PackState
<1>15. Says(s4, e, q, r, a, o)
  BY <1>3, <1>7, <1>8, <1>10, <1>11, <1>12, <1>13, <1>14 DEF Says, PackState
<1> QED
  BY <1>14, <1>15

(* What a poll finds for a pack lies between two values of the cursor.     *)
LEMMA BlocksBetween ==
  ASSUME Inv, NEW p \in Packs, NEW c, c = ContractOf[DistOf(p)],
         NEW s \in Nat, s = circulating[c], NEW id, id = pack[p].flowID,
         id # NoFlowID, NEW type
  PROVE  /\ NextStart(s) \in Nat /\ s <= NextStart(s)
         /\ BlocksWith(p, type) = Between(Requests(c, id, type), s, NextStart(s))
<1>1. /\ NextStart(s) \in Nat /\ s <= NextStart(s)
      /\ Blocks(s) \in SUBSET (1..height)
  BY BlocksOfPoll
<1>2. Polled(c) = Blocks(s)
  BY DEF Polled, NoRow
<1>3. height \in Nat
  BY LenProperties DEF Inv, TypeOK, LedgerTypeOK, height
<1>4. \A b \in 1..height : b \in Blocks(s) <=> s < b /\ b <= NextStart(s)
  <2>1. RangeEnd(s) \in Int
    BY <1>3, StoreAssumption DEF RangeEnd, Min2
  <2>2. CASE Blocks(s) = {}
    BY <1>3, <2>1, <2>2 DEF NextStart
  <2>3. CASE Blocks(s) # {}
    BY <1>3, <2>1, <2>3 DEF NextStart, Blocks
  <2> QED
    BY <2>2, <2>3
<1>5. BlocksWith(p, type) =
        {b \in Blocks(s) : \E e \in chain[b] :
           e.type = type /\ e.contract = c /\ e.id = id}
  BY <1>2 DEF BlocksWith
<1>6. BlocksWith(p, type) = {b \in Requests(c, id, type) : b \in Blocks(s)}
  BY <1>1, <1>5 DEF Requests
<1>7. Requests(c, id, type) \in SUBSET (1..height)
  BY DEF Requests
<1> QED
  BY <1>1, <1>4, <1>6, <1>7 DEF Between

(* A row follows the events that its cursor has passed.                    *)
LEMMA RowFollows ==
  ASSUME Inv, NoEventSkipped, NEW p \in Packs, NEW c, c = ContractOf[DistOf(p)],
         NEW s \in Nat, s = circulating[c], NEW id, id = pack[p].flowID
  PROVE  Follows(pack[p].state, s,
                 Requests(c, id, "RevealRequest"), Requests(c, id, "Revealed"),
                 Requests(c, id, "OpenRequest"), Requests(c, id, "Opened"))
<1>1. ASSUME NEW type \in RequestTypes, Before(Requests(c, id, type), s)
      PROVE  pack[p].state \in StatesAfter(type)
  <2>1. PICK b \in Requests(c, id, type) : b <= s
    BY <1>1 DEF Before
  <2>2. /\ b \in 1..height
        /\ \E e \in chain[b] : e.type = type /\ e.contract = c /\ e.id = id
    BY DEF Requests
  <2>3. PICK e \in chain[b] : e.type = type /\ e.contract = c /\ e.id = id
    BY <2>2
  <2>4. height \in Nat
    BY LenProperties DEF Inv, TypeOK, LedgerTypeOK, height
  <2>5. b \in 1..circulating[c]
    BY <2>1, <2>2, <2>4
  <2>6. c \in CirculatingContracts
    BY DistOfPack, StoreAssumption DEF CirculatingContracts, NoRow
  <2>7. PICK u \in Packs : IsPack(u, c, id) /\ pack[u].state \in StatesAfter(type)
    BY <2>3, <2>5, <2>6 DEF NoEventSkipped
  <2>8. pack[u].state # "init" /\ pack[p].state # "init"
    BY <2>7 DEF IsPack, Inv, Consistent, UnsealedHasNoID
  <2>9. packNFT[c][id].hash = u /\ packNFT[c][id].hash = p
    BY <2>7, <2>8 DEF IsPack, Inv, Consistent, StoreFollowsLedger
  <2> QED
    BY <2>7, <2>9
<1>2. pack[p].state \in PackState
  BY DEF Inv, TypeOK, StoreTypeOK, PackRow
<1> QED
  BY <1>1, <1>2 DEF Follows, StatesAfter, RequestTypes, PackState

NewCursor(c) ==
  IF circulating[c] = NoRow THEN NoRow ELSE NextStart(circulating[c])

(* No event of a poll finds its pack in an unexpected state.               *)
LEMMA PollExpected ==
  ASSUME Inv, NoEventSkipped, PollInv, NEW p \in Packs
  PROVE  /\ PolledState(p) # "error"
         /\ RowSays(p, PolledState(p), NewCursor(ContractOf[DistOf(p)]))
<1>1. pack[p].state \in PackState /\ "error" \notin PackState
  BY DEF Inv, TypeOK, StoreTypeOK, PackRow, PackState
<1>2. PICK c \in Contracts : c = ContractOf[DistOf(p)]
  BY DistOfPack, StoreAssumption
<1>3. PICK id : id = pack[p].flowID
  OBVIOUS
<1>4. RowSays(p, pack[p].state, circulating[c])
  BY <1>2 DEF PollInv, RowsRead
<1>5. ASSUME \A type : BlocksWith(p, type) = {}
      PROVE  PolledState(p) = pack[p].state
  BY <1>5 DEF PolledState, AfterOpenRequests, AfterRevealed,
              AfterRevealRequests, Advance
<1>6. CASE pack[p].state = "init"
  <2>1. \A type : BlocksWith(p, type) = {}
    BY <1>6 DEF Inv, Consistent, UnsealedHasNoID, BlocksWith
  <2>2. PolledState(p) = "init"
    BY <1>5, <1>6, <2>1
  <2> QED
    BY <2>2 DEF RowSays, Says
<1>7. CASE circulating[c] = NoRow
  <2>1. \A type : BlocksWith(p, type) = {}
    BY <1>2, <1>7 DEF BlocksWith, Polled
  <2> QED
    BY <1>1, <1>2, <1>4, <1>5, <1>7, <2>1 DEF NewCursor
<1>8. CASE pack[p].state # "init" /\ circulating[c] # NoRow
  <2>1. PICK s \in Nat : s = circulating[c]
    BY <1>8 DEF Inv, TypeOK, StoreTypeOK
  <2>2. id \in DOMAIN packNFT[c]
    BY <1>2, <1>3, <1>8 DEF Inv, Consistent, StoreFollowsLedger, Exists
  <2>3. id # NoFlowID
    BY <2>2, PackNFTType DEF NoFlowID, Inv, TypeOK
  <2>4. PICK q, r, a, o : /\ q = Requests(c, id, "RevealRequest")
                          /\ r = Requests(c, id, "Revealed")
                          /\ a = Requests(c, id, "OpenRequest")
                          /\ o = Requests(c, id, "Opened")
    OBVIOUS
  <2>5. InOrder(q, r, a, o)
    BY <2>2, <2>4 DEF PollInv, LedgerOrder, EventsInOrder
  <2>6. /\ q \in SUBSET Nat /\ r \in SUBSET Nat
        /\ a \in SUBSET Nat /\ o \in SUBSET Nat
    <3>1. \A type : Requests(c, id, type) \in SUBSET Nat
      BY DEF Requests
    <3> QED
      BY <2>4, <3>1
  <2>7. PICK st \in PackState : st = pack[p].state
    BY <1>1
  <2>8. PICK e \in Nat : e = NextStart(s) /\ s <= e
    BY <1>2, <1>3, <2>1, <2>3, BlocksBetween
  <2>9. Says(st, s, q, r, a, o)
    BY <1>2, <1>3, <1>4, <2>1, <2>4, <2>7 DEF RowSays
  <2>10. Follows(st, s, q, r, a, o)
    BY <1>2, <1>3, <2>1, <2>4, <2>7, RowFollows
  <2>11. /\ BlocksWith(p, "RevealRequest") = Between(q, s, e)
         /\ BlocksWith(p, "Revealed") = Between(r, s, e)
         /\ BlocksWith(p, "OpenRequest") = Between(a, s, e)
         /\ BlocksWith(p, "Opened") = Between(o, s, e)
    BY <1>2, <1>3, <2>1, <2>3, <2>4, <2>8, BlocksBetween
  <2>12. PICK s1, s2, s3, s4 :
           /\ s1 = Advance(st, Between(q, s, e), {"sealed"},
                           "reveal-request-handled")
           /\ s2 = Advance(s1, Between(r, s, e), {"reveal-request-handled"},
                           "revealed")
           /\ s3 = Advance(s2, Between(a, s, e), {"revealed"},
                           "open-request-handled")
           /\ s4 = Advance(s3, Between(o, s, e),
                           {"open-request-handled", "revealed"}, "opened")
    OBVIOUS
  <2>13. PolledState(p) = s4
    BY <2>7, <2>11, <2>12 DEF PolledState, AfterOpenRequests, AfterRevealed,
                              AfterRevealRequests
  <2>14. s4 # "error" /\ Says(s4, e, q, r, a, o)
    BY <1>8, <2>5, <2>6, <2>7, <2>8, <2>9, <2>10, <2>12, PollInOrder
  <2>15. NewCursor(c) = e
    BY <1>8, <2>1, <2>8 DEF NewCursor
  <2> QED
    BY <1>2, <1>3, <2>4, <2>13, <2>14, <2>15 DEF RowSays
<1> QED
  BY <1>6, <1>7, <1>8

----------------------------------------------------------------------------
(* Every step keeps the invariant.                                         *)

(* A poll reveals packs for requests that it has found in the chain.       *)
LEMMA PolledRevealAsked ==
  ASSUME Inv, NEW t \in RevealTxs \union OpenTxs, t.name = "reveal"
  PROVE  Requests(t.contract, t.id, "RevealRequest") # {}
<1>1. t \in RevealTxs
  BY DEF OpenTxs, OpenTx
<1>2. PICK c \in CirculatingContracts, p \in Packs :
        t \in {RevealTx(c, e.id, p, e.owner, e.openRequest, n) :
                 e \in RequestsSeen(c, p, "RevealRequest"), n \in {1, 2}}
  BY <1>1 DEF RevealTxs
<1>3. PICK e \in RequestsSeen(c, p, "RevealRequest"), n \in {1, 2} :
        t = RevealTx(c, e.id, p, e.owner, e.openRequest, n)
  BY <1>2
<1>4. PICK b \in 1..height : e \in chain[b]
  BY RequestsInChain
<1>5. e.type = "RevealRequest" /\ e.contract = c
  BY RequestsInChain
<1>6. t.contract = c /\ t.id = e.id
  BY <1>3 DEF RevealTx
<1> QED
  BY <1>4, <1>5, <1>6 DEF Requests

(* The other transactions that a step adds reveal nothing.                 *)
LEMMA NewRevealTxs ==
  ASSUME Inv, [Next]_vars, NEW t \in pending', t \notin pending, t.name = "reveal"
  PROVE  PollCirculating /\ t \in RevealTxs \union OpenTxs
<1>1. CASE Abort
  BY <1>1 DEF Abort, AbortDistribution, UpdateStateTx
<1>2. CASE HandleSetup
  BY <1>2 DEF HandleSetup, SettleBatches, SettleTx
<1>3. CASE HandleSettled
  BY <1>3 DEF HandleSettled, MintBatches, MintTx
<1>4. CASE HandleMinting
  BY <1>4 DEF HandleMinting, UpdateStateTx
<1>5. CASE PollCirculating
  BY <1>5 DEF PollCirculating
<1>6. CASE pending' \subseteq pending
  BY <1>6
<1> QED
  BY <1>1, <1>2, <1>3, <1>4, <1>5, <1>6
     DEF Next, vars, storeVars, Create, CreateDistribution, HandleResolved,
         HandleSettling, HandleComplete, ExecuteTx, LoseTx, OwnerRequestsReveal,
         OwnerRequestsOpen, OwnerTransfers, AnyoneReveals, AccountSends, OtherBlock

(* Every step keeps RevealTxsAsked.                                        *)
LEMMA NextKeepsRevealsAsked ==
  ASSUME Inv, RevealTxsAsked, [Next]_vars
  PROVE  RevealTxsAsked'
<1> SUFFICES ASSUME NEW t \in pending', t.name = "reveal"
             PROVE  Requests(t.contract, t.id, "RevealRequest")' # {}
  BY DEF RevealTxsAsked
<1>1. PICK c, id : c = t.contract /\ id = t.id
  OBVIOUS
<1>2. Requests(c, id, "RevealRequest") # {}
  BY <1>1, NewRevealTxs, PolledRevealAsked DEF RevealTxsAsked
<1>3. Requests(c, id, "RevealRequest")' # {}
  BY <1>2, RequestsStay
<1> QED
  BY <1>1, <1>3

(* A cursor moves when its contract is polled, or starts to circulate.     *)
LEMMA CursorMoves ==
  ASSUME Inv, EarlyNotCirculating, [Next]_vars, NEW c \in Contracts,
         circulating[c] # NoRow, ~PollCirculating
  PROVE  circulating'[c] = circulating[c]
<1>1. CASE HandleSettled
  <2>1. ~ \E d \in InState("settled") : ContractOf[d] = c
    BY DEF EarlyNotCirculating, InState, BeforeMinting
  <2> QED
    BY <1>1, <2>1 DEF HandleSettled
<1>2. CASE ~HandleSettled
  BY <1>2 DEF Next, vars, storeVars, Create, CreateDistribution, Abort,
       AbortDistribution, HandleResolved, HandleSetup, HandleSettling,
       HandleMinting, HandleComplete, ExecuteTx, LoseTx, OwnerRequestsReveal,
       OwnerRequestsOpen, OwnerTransfers, AnyoneReveals, AccountSends, OtherBlock
<1> QED
  BY <1>1, <1>2

(* Every step keeps EarlyNotCirculating: two distributions that share a    *)
(* contract could start to circulate it twice.                             *)
LEMMA NextKeepsEarly ==
  ASSUME OwnContracts, Inv, EarlyNotCirculating, [Next]_vars
  PROVE  EarlyNotCirculating'
<1> SUFFICES ASSUME NEW d \in Dists, dist'[d] \in BeforeMinting
             PROVE  circulating'[ContractOf[d]] = NoRow
  BY DEF EarlyNotCirculating
<1>1. dist[d] \in BeforeMinting /\ (HandleSettled => dist[d] # "settled")
  BY EarlyBefore
<1>2. PICK c \in Contracts : c = ContractOf[d]
  BY StoreAssumption
<1>3. circulating[c] = NoRow
  BY <1>1, <1>2 DEF EarlyNotCirculating
<1>4. CASE HandleSettled
  <2>1. ~ \E e \in InState("settled") : ContractOf[e] = c
    BY <1>1, <1>2, <1>4 DEF OwnContracts, InState
  <2> QED
    BY <1>2, <1>3, <1>4, <2>1 DEF HandleSettled
<1>5. CASE PollCirculating
  BY <1>2, <1>3, <1>5 DEF PollCirculating
<1>6. CASE ~HandleSettled /\ ~PollCirculating
  BY <1>2, <1>3, <1>6
     DEF Next, vars, storeVars, Create, CreateDistribution, Abort,
       AbortDistribution, HandleResolved, HandleSetup, HandleSettling,
       HandleMinting, HandleComplete, ExecuteTx, LoseTx, OwnerRequestsReveal,
       OwnerRequestsOpen, OwnerTransfers, AnyoneReveals, AccountSends, OtherBlock
<1> QED
  BY <1>4, <1>5, <1>6

(* What a row says stays true.                                             *)
LEMMA SaysStays ==
  ASSUME Inv, [Next]_vars, NEW c, NEW id, NEW st, NEW b,
         Says(st, b, Requests(c, id, "RevealRequest"), Requests(c, id, "Revealed"),
              Requests(c, id, "OpenRequest"), Requests(c, id, "Opened"))
  PROVE  Says(st, b, Requests(c, id, "RevealRequest")',
              Requests(c, id, "Revealed")', Requests(c, id, "OpenRequest")',
              Requests(c, id, "Opened")')
<1>1. \A S, T : S \subseteq T /\ Before(S, b) => Before(T, b)
  BY DEF Before
<1>2. /\ Requests(c, id, "RevealRequest") \in SUBSET Requests(c, id, "RevealRequest")'
      /\ Requests(c, id, "Revealed") \in SUBSET Requests(c, id, "Revealed")'
      /\ Requests(c, id, "OpenRequest") \in SUBSET Requests(c, id, "OpenRequest")'
      /\ Requests(c, id, "Opened") \in SUBSET Requests(c, id, "Opened")'
  BY RequestsStay
<1> QED
  BY <1>1, <1>2 DEF Says

(* Every step keeps the rows behind their cursors.                         *)
LEMMA NextKeepsRows ==
  ASSUME Inv, NoEventSkipped, PollInv, [Next]_vars
  PROVE  RowsRead'
<1> SUFFICES ASSUME NEW p \in Packs
             PROVE  RowSays(p, pack[p].state, circulating[ContractOf[DistOf(p)]])'
  BY DEF RowsRead
<1>1. PICK c \in Contracts : c = ContractOf[DistOf(p)]
  BY DistOfPack, StoreAssumption
<1>2. PICK id, st, b : /\ id = pack'[p].flowID /\ st = pack'[p].state
                       /\ b = circulating'[c]
  OBVIOUS
<1> SUFFICES Says(st, b, Requests(c, id, "RevealRequest")',
                  Requests(c, id, "Revealed")', Requests(c, id, "OpenRequest")',
                  Requests(c, id, "Opened")')
  BY <1>1, <1>2 DEF RowSays
<1>3. CASE st \in {"init", "sealed"}
  BY <1>3 DEF Says
<1>4. CASE PollCirculating
  <2>1. b = NewCursor(c)
    BY <1>1, <1>2, <1>4 DEF PollCirculating, NewCursor
  <2>2. /\ pack[p] \in PackRow
        /\ pack'[p] = [pack[p] EXCEPT !.state = PolledState(p)]
    BY <1>4 DEF PollCirculating, Inv, TypeOK, StoreTypeOK
  <2>3. id = pack[p].flowID /\ st = PolledState(p)
    BY <1>2, <2>2 DEF PackRow
  <2>4. RowSays(p, st, b)
    BY <1>1, <2>1, <2>3, PollExpected
  <2>5. Says(st, b, Requests(c, id, "RevealRequest"), Requests(c, id, "Revealed"),
             Requests(c, id, "OpenRequest"), Requests(c, id, "Opened"))
    BY <1>1, <2>3, <2>4 DEF RowSays
  <2> QED
    BY <2>5, SaysStays
<1>5. CASE ~PollCirculating /\ pack'[p] = pack[p]
  <2>1. id = pack[p].flowID /\ st = pack[p].state
    BY <1>2, <1>5
  <2>2. PICK s : s = circulating[c]
    OBVIOUS
  <2>3. Says(st, s, Requests(c, id, "RevealRequest"), Requests(c, id, "Revealed"),
             Requests(c, id, "OpenRequest"), Requests(c, id, "Opened"))
    BY <1>1, <2>1, <2>2 DEF PollInv, RowsRead, RowSays
  <2>4. CASE s = NoRow
    <3>1. \A type : ~Before(Requests(c, id, type), NoRow)
      BY DEF Before, Requests, NoRow
    <3>2. st \in {"init", "sealed"}
      BY <2>3, <2>4, <3>1 DEF Says
    <3> QED
      BY <3>2 DEF Says
  <2>5. CASE s # NoRow
    <3>1. b = s
      BY <1>2, <1>5, <2>2, <2>5, CursorMoves DEF PollInv
    <3> QED
      BY <2>3, <3>1, SaysStays
  <2> QED
    BY <2>4, <2>5
<1>6. CASE ~PollCirculating /\ pack'[p] # pack[p]
  <2>1. HandleMinting
    BY <1>6 DEF Next, vars, storeVars, Create, CreateDistribution, Abort,
       AbortDistribution, HandleResolved, HandleSetup, HandleSettling,
       HandleSettled, HandleComplete, ExecuteTx, LoseTx, OwnerRequestsReveal,
       OwnerRequestsOpen, OwnerTransfers, AnyoneReveals, AccountSends, OtherBlock
  <2>2. st = "sealed"
    BY <1>2, <1>6, <2>1, SealedPacks
  <2> QED
    BY <2>2, <1>3
<1> QED
  BY <1>4, <1>5, <1>6

(* The invariant holds initially.                                          *)
LEMMA InitPollInv ==
  ASSUME Init
  PROVE  PollInv
<1>1. \A c \in Contracts : DOMAIN packNFT[c] = {}
  BY DEF Init, LedgerInit
<1>2. LedgerOrder
  BY <1>1 DEF LedgerOrder, EventsInOrder, RevealsSealed
<1>3. RevealTxsAsked
  BY DEF RevealTxsAsked, Init, StoreInit
<1>4. RowsRead
  BY DEF RowsRead, RowSays, Says, Init, StoreInit
<1>5. EarlyNotCirculating
  BY StoreAssumption DEF EarlyNotCirculating, Init, StoreInit
<1> QED
  BY <1>2, <1>3, <1>4, <1>5 DEF PollInv

(* Every step keeps the invariant.                                         *)
LEMMA NextKeepsPollInv ==
  ASSUME OwnContracts, MaxRequests <= 1, Inv, NoEventSkipped, PollInv, [Next]_vars
  PROVE  PollInv'
BY NextKeepsOrder, NextKeepsRevealsAsked, NextKeepsEarly, NextKeepsRows
   DEF PollInv

(* The events of a pack happen once and in order, and its row is never     *)
(* ahead of the cursor of its contract.                                    *)
THEOREM PollInvariant ==
  ASSUME OwnContracts, MaxRequests <= 1
  PROVE  Spec => []PollInv
<1>1. Init => PollInv
  BY InitPollInv
<1>2. Inv /\ NoEventSkipped /\ PollInv /\ [Next]_vars => PollInv'
  BY NextKeepsPollInv
<1> QED
  BY <1>1, <1>2, Invariant, NoEventEverSkipped, PTL DEF Spec

(* When owners ask once for each pack and no two distributions share a     *)
(* contract, no event of a pack that the database has sealed stops the     *)
(* polling: each finds its pack in a state that expects it, in whatever    *)
(* order the transactions are executed and however many events one poll    *)
(* reads.                                                                  *)
THEOREM PollAlwaysGoesOn ==
  ASSUME OwnContracts, MaxRequests <= 1
  PROVE  Spec => []PollNeverStuck
<1>1. Inv /\ NoEventSkipped /\ PollInv => PollNeverStuck
  BY PollExpected DEF PollNeverStuck, UnexpectedState
<1> QED
  BY <1>1, Invariant, NoEventEverSkipped, PollInvariant, PTL

(* When no two distributions share a contract, the cursor of a contract    *)
(* never goes back: StartMinting sets it only once.                        *)
THEOREM CursorsMoveForward ==
  ASSUME OwnContracts
  PROVE  Spec => CursorMovesForward
<1>1. Init => EarlyNotCirculating
  BY StoreAssumption DEF EarlyNotCirculating, Init, StoreInit
<1>2. Inv /\ EarlyNotCirculating /\ [Next]_vars => EarlyNotCirculating'
  BY NextKeepsEarly
<1>3. Inv /\ Inv' /\ EarlyNotCirculating /\ [Next]_vars =>
        \A c \in Contracts : circulating'[c] >= circulating[c]
  <2> SUFFICES ASSUME Inv, Inv', EarlyNotCirculating, [Next]_vars,
                      NEW c \in Contracts
               PROVE  circulating'[c] >= circulating[c]
    OBVIOUS
  <2>1. /\ circulating[c] \in Nat \union {NoRow}
        /\ circulating'[c] \in Nat \union {NoRow}
    BY DEF Inv, TypeOK, StoreTypeOK
  <2>2. CASE circulating[c] = NoRow
    BY <2>1, <2>2 DEF NoRow
  <2>3. CASE circulating[c] # NoRow /\ PollCirculating
    <3>1. circulating'[c] = NextStart(circulating[c])
      BY <2>3 DEF PollCirculating
    <3> QED
      BY <2>1, <2>3, <3>1, BlocksOfPoll
  <2>4. CASE circulating[c] # NoRow /\ ~PollCirculating
    BY <2>1, <2>4, CursorMoves DEF NoRow
  <2> QED
    BY <2>2, <2>3, <2>4
<1> QED
  BY <1>1, <1>2, <1>3, Invariant, PTL DEF Spec, CursorMovesForward

=============================================================================
