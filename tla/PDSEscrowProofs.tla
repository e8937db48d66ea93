---------------------------- MODULE PDSEscrowProofs ----------------------------
(***************************************************************************)
(* Proofs about the escrow of PDSService, for every value of its           *)
(* constants: the PDS releases a collectible only to an owner who asked,   *)
(* and it holds every collectible of a pack that is not opened.            *)
(***************************************************************************)
EXTENDS PDSMintingProofs

----------------------------------------------------------------------------
(* What a step does to the chain and to the collectibles.                  *)

(* A block in which no collectible moves.                                  *)
QuietBlock(E) ==
  /\ chain' = Append(chain, E)
  /\ E \in SUBSET Event
  /\ \A e \in E : e.type # "Deposit"
  /\ holder' = holder

(* A block in which the escrow receives the collectibles of S.             *)
SettleBlock(S) ==
  /\ chain' = Append(chain, {Deposit(x, Escrow) : x \in S})
  /\ holder' = [x \in Collectibles |-> IF x \in S THEN Escrow ELSE holder[x]]

AsksToOpen(t) == t.name = "open" \/ (t.name = "reveal" /\ t.openRequest)

(* A block in which the PDS opens a pack for transaction t.                *)
OpenBlock(t) ==
  /\ AsksToOpen(t)
  /\ t.contract \in Contracts
  /\ t.pack \in Packs
  /\ t.owner \in Accounts
  /\ t.id \in Nat
  /\ t.id \in DOMAIN packNFT[t.contract]
  /\ packNFT[t.contract][t.id].hash = t.pack
  /\ packNFT'[t.contract][t.id].status = "Opened"
  /\ chain' = Append(chain, {Opened(t.contract, t.id)} \union
                              {Deposit(x, t.owner) : x \in Contents[t.pack]})
  /\ holder' = [x \in Collectibles |->
                  IF x \in Contents[t.pack] THEN t.owner ELSE holder[x]]

(* A block in which an account sends a collectible of its own.             *)
SendBlock(x, a, b) ==
  /\ holder[x] = a
  /\ chain' = Append(chain, {Deposit(x, b)})
  /\ holder' = [holder EXCEPT ![x] = b]

(* A transaction that opens a pack seals an OpenBlock.                     *)
LEMMA OpenSeals ==
  ASSUME LedgerTypeOK, NEW t \in Tx, AsksToOpen(t),
         CanOpen(t.contract, t.id, t.pack), Open(t.contract, t.id, t.pack, t.owner)
  PROVE  OpenBlock(t)
<1>1. /\ t.contract \in Contracts /\ t.pack \in Packs /\ t.owner \in Accounts
      /\ t.id \in Nat
  BY DEF AsksToOpen, Tx
<1>2. PICK c \in Contracts, id \in Nat : c = t.contract /\ id = t.id
  BY <1>1
<1> DEFINE r == [packNFT[c][id] EXCEPT !.status = "Opened"]
<1>3. /\ id \in DOMAIN packNFT[c] /\ packNFT[c][id] \in PackNFT
      /\ packNFT[c][id].hash = t.pack
  BY <1>2, PackNFTType DEF CanOpen, Exists
<1>4. r \in PackNFT /\ r.status = "Opened"
  BY <1>3 DEF PackNFT, Status
<1>5. packNFT' = [packNFT EXCEPT ![c] = [packNFT[c] EXCEPT ![id] = r]]
  BY <1>2 DEF Open
<1> HIDE DEF r
<1>6. packNFT'[c][id] = r
  BY <1>3, <1>4, <1>5, OnePackChanges
<1> QED
  BY <1>1, <1>2, <1>3, <1>4, <1>6 DEF Open, Emit, OpenBlock

(* So there are five kinds of steps.                                       *)
LEMMA BlockOfStep ==
  ASSUME Inv, [Next]_vars
  PROVE  \/ UNCHANGED <<chain, holder>>
         \/ \E E : QuietBlock(E)
         \/ \E S \in SUBSET Collectibles : SettleBlock(S)
         \/ \E t \in pending : OpenBlock(t)
         \/ \E x \in Collectibles, a \in Accounts, b \in Accounts \union {Escrow} :
              SendBlock(x, a, b)
<1> USE DEF Inv, TypeOK
<1>1. ASSUME EmptyBlock
      PROVE  QuietBlock({})
  BY <1>1 DEF EmptyBlock, Emit, QuietBlock
<1>2. ASSUME NEW c \in Contracts, NEW id \in DOMAIN packNFT[c], Reveal(c, id)
      PROVE  QuietBlock({Revealed(c, id)})
  <2>1. id \in Nat
    BY <1>2, PackNFTType
  <2> QED
    BY <1>2, <2>1 DEF Reveal, Emit, QuietBlock, Revealed, Event
<1>3. CASE ExecuteTx
  <2>1. PICK t \in pending : Execute(t)
    BY <1>3 DEF ExecuteTx
  <2>2. t \in Tx
    BY DEF StoreTypeOK
  <2>3. CASE ~Succeeds(t)
    BY <1>1, <2>1, <2>3 DEF Execute
  <2>4. CASE Succeeds(t) /\ t.name = "settle"
    <3>1. t.items \in SUBSET Collectibles
      BY <2>2, <2>4 DEF Tx
    <3>2. Settle(t)
      BY <2>1, <2>4 DEF Execute, Apply
    <3>3. SettleBlock(t.items)
      BY <3>2 DEF Settle, Emit, SettleBlock
    <3> QED
      BY <3>1, <3>3
  <2>5. CASE Succeeds(t) /\ t.name = "update_dist_state"
    <3>1. QuietBlock({})
      BY <2>1, <2>5 DEF Execute, Apply, UpdateDistState, Emit, QuietBlock
    <3> QED
      BY <3>1
  <2>6. CASE Succeeds(t) /\ t.name = "mint"
    <3>1. Mint(t)
      BY <2>1, <2>6 DEF Execute, Apply
    <3>2. t.contract \in Contracts /\ t.hashes \in Seq(Packs)
      BY <2>2, <2>6 DEF Tx
    <3> DEFINE E == {MintEvent(t.contract, Len(packNFT[t.contract]) + k, t.hashes[k]) :
                       k \in 1..Len(t.hashes)}
    <3>3. chain' = Append(chain, E) /\ holder' = holder
      BY <3>1 DEF Mint, Emit
    <3>4. E \in SUBSET Event
      <4>1. Len(packNFT[t.contract]) \in Nat /\ Len(t.hashes) \in Nat
        BY <3>2, PackNFTType, LenProperties
      <4>2. \A k \in 1..Len(t.hashes) : t.hashes[k] \in Packs
        BY <3>2, ElementOfSeq
      <4> QED
        BY <3>2, <4>1, <4>2 DEF MintEvent, Event
    <3>5. \A e \in E : e.type # "Deposit"
      BY DEF MintEvent
    <3> QED
      BY <3>3, <3>4, <3>5 DEF QuietBlock
  <2>7. CASE Succeeds(t) /\ t.name \in {"reveal", "open"}
    <3>1. t.contract \in Contracts
      BY <2>2, <2>7 DEF Tx
    <3>2. CASE AsksToOpen(t) /\ CanOpen(t.contract, t.id, t.pack)
               /\ Open(t.contract, t.id, t.pack, t.owner)
      BY <2>2, <3>2, OpenSeals
    <3>3. CASE Reveal(t.contract, t.id) /\ t.id \in DOMAIN packNFT[t.contract]
      BY <1>2, <3>1, <3>3
    <3> QED
      BY <2>1, <2>7, <3>2, <3>3
         DEF Execute, Apply, Succeeds, OpensRevealed, AsksToOpen, CanReveal, Exists
  <2> QED
    BY <2>3, <2>4, <2>5, <2>6, <2>7 DEF Succeeds
<1>4. CASE OwnerRequestsReveal
  <2>1. PICK c \in Contracts, a \in Accounts, o \in BOOLEAN :
          \E id \in DOMAIN packNFT[c] : RequestReveal(c, id, a, o)
    BY <1>4 DEF OwnerRequestsReveal
  <2>2. PICK id \in DOMAIN packNFT[c] : RequestReveal(c, id, a, o)
    BY <2>1
  <2>3. id \in Nat
    BY PackNFTType
  <2>4. QuietBlock({RevealRequest(c, id, a, o)})
    BY <2>2, <2>3 DEF RequestReveal, Emit, QuietBlock, RevealRequest, Event
  <2> QED
    BY <2>4
<1>5. CASE OwnerRequestsOpen
  <2>1. PICK c \in Contracts, a \in Accounts :
          \E id \in DOMAIN packNFT[c] : RequestOpen(c, id, a)
    BY <1>5 DEF OwnerRequestsOpen
  <2>2. PICK id \in DOMAIN packNFT[c] : RequestOpen(c, id, a)
    BY <2>1
  <2>3. id \in Nat
    BY PackNFTType
  <2>4. QuietBlock({OpenRequest(c, id, a)})
    BY <2>2, <2>3 DEF RequestOpen, Emit, QuietBlock, OpenRequest, Event
  <2> QED
    BY <2>4
<1>6. CASE OwnerTransfers
  <2>1. QuietBlock({})
    BY <1>6 DEF OwnerTransfers, TransferPack, Emit, QuietBlock
  <2> QED
    BY <2>1
<1>7. CASE AnyoneReveals
  <2>1. PICK p \in Disclosed : PublicReveal(ContractOf[DistOf(p)], pack[p].flowID, p)
    BY <1>7 DEF AnyoneReveals
  <2>2. PICK c \in Contracts, id \in Nat :
          c = ContractOf[DistOf(p)] /\ id = pack[p].flowID
    BY ServiceAssumption, DistOfPack, StoreAssumption DEF StoreTypeOK, PackRow
  <2>3. id \in DOMAIN packNFT[c] /\ Reveal(c, id)
    BY <2>1, <2>2 DEF PublicReveal, CanReveal, Exists
  <2> QED
    BY <1>2, <2>3
<1>8. CASE AccountSends
  <2>1. PICK m \in Moves : SendCollectible(m[1], m[2], m[3])
    BY <1>8 DEF AccountSends
  <2>2. /\ m[1] \in Collectibles /\ m[2] \in Accounts
        /\ m[3] \in Accounts \union {Escrow}
    BY ServiceAssumption
  <2>3. SendBlock(m[1], m[2], m[3])
    BY <2>1 DEF SendCollectible, Emit, SendBlock
  <2> QED
    BY <2>2, <2>3
<1>9. CASE OtherBlock
  BY <1>1, <1>9 DEF OtherBlock
<1>10. CASE ~(\/ ExecuteTx \/ OwnerRequestsReveal \/ OwnerRequestsOpen
              \/ OwnerTransfers \/ AnyoneReveals \/ AccountSends \/ OtherBlock)
  BY <1>10 DEF Next, vars, ledgerVars, Create, CreateDistribution, Abort,
       AbortDistribution, HandleResolved, HandleSetup, HandleSettling,
       HandleSettled, HandleMinting, HandleComplete, PollCirculating, LoseTx
<1> QED
  BY <1>3, <1>4, <1>5, <1>6, <1>7, <1>8, <1>9, <1>10

----------------------------------------------------------------------------
(* Whoever gets a collectible from the escrow has asked for it.            *)

OpenAsked(t, b) ==
  \/ t.name = "open" /\ OpenRequest(t.contract, t.id, t.owner) \in chain[b]
  \/ /\ t.name = "reveal"
     /\ RevealRequest(t.contract, t.id, t.owner, TRUE) \in chain[b]

(* A pending transaction that may open a pack was asked for by the account *)
(* that it gives the collectibles to.                                      *)
OpenTxsAsked ==
  \A t \in pending : AsksToOpen(t) => \E b \in 1..height : OpenAsked(t, b)

(* The blocks of before stay, and at most one is added.                    *)
LEMMA BlocksStay ==
  ASSUME Inv, [Next]_vars
  PROVE  /\ height \in Nat /\ height' \in Nat /\ height <= height'
         /\ \A b \in 1..height : b \in 1..height' /\ chain'[b] = chain[b]
BY ChainGrows, LenProperties DEF Inv, TypeOK, LedgerTypeOK, height

(* A pack on the chain stays there, with its hash.                         *)
LEMMA NextKeepsPacks ==
  ASSUME Inv, [Next]_vars
  PROVE  PacksStay
<1>1. CASE packNFT' = packNFT
  BY <1>1, SamePacksStay
<1>2. CASE ExecuteTx
  BY <1>2, ExecuteSealed
     DEF ExecuteTx, Inv, TypeOK, StoreTypeOK, Consistent, BlockSealed
<1>3. CASE \/ OwnerRequestsReveal \/ OwnerRequestsOpen \/ OwnerTransfers
           \/ AnyoneReveals \/ AccountSends \/ OtherBlock
  BY <1>3, OthersSealBlocks DEF BlockSealed
<1> QED
  BY <1>1, <1>2, <1>3 DEF Next, vars, ledgerVars, Create, CreateDistribution,
       Abort, AbortDistribution, HandleResolved, HandleSetup, HandleSettling,
       HandleSettled, HandleMinting, HandleComplete, PollCirculating, LoseTx

(* A request that a poll finds is in a sealed block.                       *)
LEMMA RequestsInChain ==
  ASSUME Inv, NEW c \in CirculatingContracts, NEW p \in Packs, NEW type,
         NEW e \in RequestsSeen(c, p, type)
  PROVE  /\ e \in Event /\ e.type = type /\ e.contract = c
         /\ \E b \in 1..height : e \in chain[b]
<1>1. c \in Contracts
  BY DEF CirculatingContracts
<1>2. PICK b \in Polled(c) : e \in chain[b]
  BY DEF RequestsSeen, PackEventsSeen, EventsIn
<1>3. b \in 1..height
  BY <1>1, PolledBlocks
<1> QED
  BY <1>2, <1>3, SealedEvents DEF RequestsSeen, PackEventsSeen

(* Every transaction that a poll adds answers a request in a sealed block. *)
LEMMA PolledAsked ==
  ASSUME Inv, NEW t \in RevealTxs \union OpenTxs, AsksToOpen(t)
  PROVE  \E b \in 1..height : OpenAsked(t, b)
<1>1. CASE t \in RevealTxs
  <2>1. PICK c \in CirculatingContracts, p \in Packs :
          t \in {RevealTx(c, e.id, p, e.owner, e.openRequest, n) :
                   e \in RequestsSeen(c, p, "RevealRequest"), n \in {1, 2}}
    BY <1>1 DEF RevealTxs
  <2>2. PICK e \in RequestsSeen(c, p, "RevealRequest"), n \in {1, 2} :
          t = RevealTx(c, e.id, p, e.owner, e.openRequest, n)
    BY <2>1
  <2>3. PICK b \in 1..height : e \in chain[b]
    BY RequestsInChain
  <2>4. /\ t.name = "reveal" /\ t.contract = c /\ t.id = e.id
        /\ t.owner = e.owner /\ e.openRequest
    BY <2>2 DEF RevealTx, AsksToOpen
  <2>5. e \in Event /\ e.type = "RevealRequest" /\ e.contract = c
    BY RequestsInChain
  <2>6. e = RevealRequest(c, e.id, e.owner, TRUE)
    BY <2>4, <2>5 DEF Event, RevealRequest
  <2>7. e = RevealRequest(t.contract, t.id, t.owner, TRUE)
    BY <2>4, <2>6, Zenon
  <2> QED
    BY <2>3, <2>4, <2>7 DEF OpenAsked
<1>2. CASE t \in OpenTxs
  <2>1. PICK c \in CirculatingContracts, p \in Packs :
          t \in {OpenTx(c, e.id, p, e.owner) :
                   e \in RequestsSeen(c, p, "OpenRequest")}
    BY <1>2 DEF OpenTxs
  <2>2. PICK e \in RequestsSeen(c, p, "OpenRequest") :
          t = OpenTx(c, e.id, p, e.owner)
    BY <2>1
  <2>3. PICK b \in 1..height : e \in chain[b]
    BY RequestsInChain
  <2>4. /\ t.name = "open" /\ t.contract = c /\ t.id = e.id
        /\ t.owner = e.owner
    BY <2>2 DEF OpenTx
  <2>5. e \in Event /\ e.type = "OpenRequest" /\ e.contract = c
    BY RequestsInChain
  <2>6. e = OpenRequest(c, e.id, e.owner)
    BY <2>5 DEF Event, OpenRequest
  <2>7. e = OpenRequest(t.contract, t.id, t.owner)
    BY <2>4, <2>6, Zenon
  <2> QED
    BY <2>3, <2>4, <2>7 DEF OpenAsked
<1> QED
  BY <1>1, <1>2

(* The other transactions that a step adds open nothing.                   *)
LEMMA NewOpenTxs ==
  ASSUME Inv, [Next]_vars, NEW t \in pending', t \notin pending, AsksToOpen(t)
  PROVE  PollCirculating /\ t \in RevealTxs \union OpenTxs
<1>1. CASE Abort
  BY <1>1 DEF Abort, AbortDistribution, UpdateStateTx, AsksToOpen
<1>2. CASE HandleSetup
  BY <1>2 DEF HandleSetup, SettleBatches, SettleTx, AsksToOpen
<1>3. CASE HandleSettled
  BY <1>3 DEF HandleSettled, MintBatches, MintTx, AsksToOpen
<1>4. CASE HandleMinting
  BY <1>4 DEF HandleMinting, UpdateStateTx, AsksToOpen
<1>5. CASE PollCirculating
  BY <1>5 DEF PollCirculating
<1>6. CASE pending' \subseteq pending
  BY <1>6
<1> QED
  BY <1>1, <1>2, <1>3, <1>4, <1>5, <1>6
     DEF Next, vars, storeVars, Create, CreateDistribution, HandleResolved,
         HandleSettling, HandleComplete, ExecuteTx, LoseTx, OwnerRequestsReveal,
         OwnerRequestsOpen, OwnerTransfers, AnyoneReveals, AccountSends, OtherBlock

(* Every step keeps OpenTxsAsked.                                          *)
LEMMA NextKeepsAsked ==
  ASSUME Inv, OpenTxsAsked, [Next]_vars
  PROVE  OpenTxsAsked'
<1> SUFFICES ASSUME NEW t \in pending', AsksToOpen(t)
             PROVE  \E b \in 1..height' : OpenAsked(t, b)'
  BY DEF OpenTxsAsked, AsksToOpen
<1>1. \E b \in 1..height : OpenAsked(t, b)
  BY NewOpenTxs, PolledAsked DEF OpenTxsAsked
<1> QED
  BY <1>1, BlocksStay DEF OpenAsked

(* What was released in a block stays so.                                  *)
ReleasedRightly(x, a, b) ==
  \/ \E c \in Contracts : \E id \in DOMAIN packNFT[c] :
       /\ Opened(c, id) \in chain[b]
       /\ x \in Contents[packNFT[c][id].hash]
       /\ RequestedBy(c, id, a, b)
  \/ \A e \in chain[b] : e = Deposit(x, a)

(* What was released rightly stays so.                                     *)
LEMMA ReleaseStays ==
  ASSUME Inv, [Next]_vars, NEW b \in 1..height, NEW x, NEW a,
         ReleasedRightly(x, a, b)
  PROVE  ReleasedRightly(x, a, b)'
<1>1. chain'[b] = chain[b]
  BY BlocksStay
<1>2. \A b0 \in 1..(b - 1) : chain'[b0] = chain[b0]
  BY BlocksStay
<1>3. \A c \in Contracts : \A id \in DOMAIN packNFT[c] :
        /\ id \in DOMAIN packNFT'[c]
        /\ packNFT'[c][id].hash = packNFT[c][id].hash
  BY NextKeepsPacks DEF PacksStay
<1>4. CASE \A e \in chain[b] : e = Deposit(x, a)
  BY <1>1, <1>4 DEF ReleasedRightly
<1>5. CASE \E c \in Contracts : \E id \in DOMAIN packNFT[c] :
             /\ Opened(c, id) \in chain[b]
             /\ x \in Contents[packNFT[c][id].hash]
             /\ RequestedBy(c, id, a, b)
  <2>1. PICK c \in Contracts : \E id \in DOMAIN packNFT[c] :
             /\ Opened(c, id) \in chain[b]
             /\ x \in Contents[packNFT[c][id].hash]
             /\ RequestedBy(c, id, a, b)
    BY <1>5
  <2>2. PICK id \in DOMAIN packNFT[c] :
             /\ Opened(c, id) \in chain[b]
             /\ x \in Contents[packNFT[c][id].hash]
             /\ RequestedBy(c, id, a, b)
    BY <2>1
  <2>3. RequestedBy(c, id, a, b)'
    BY <1>2, <2>2 DEF RequestedBy
  <2>4. /\ id \in DOMAIN packNFT'[c]
        /\ Opened(c, id) \in chain'[b]
        /\ x \in Contents[packNFT'[c][id].hash]
    BY <1>1, <1>3, <2>2
  <2> QED
    BY <2>3, <2>4 DEF ReleasedRightly
<1> QED
  BY <1>4, <1>5 DEF ReleasedRightly

(* What a step releases is released to an account that asked.              *)
LEMMA NewRelease ==
  ASSUME Inv, OpenTxsAsked, [Next]_vars, NEW b \in 1..height', b \notin 1..height,
         NEW x \in Collectibles, NEW a \in Accounts, Deposit(x, a) \in chain'[b]
  PROVE  ReleasedRightly(x, a, b)'
<1>1. /\ height \in Nat
      /\ \A k \in 1..height : chain'[k] = chain[k]
  BY BlocksStay
<1>2. a # Escrow
  BY LedgerAssumption
<1>3. ASSUME NEW E \in SUBSET Event, chain' = Append(chain, E)
      PROVE  b = height + 1 /\ chain'[b] = E /\ Deposit(x, a) \in E
  <2>1. height' = height + 1 /\ chain'[height + 1] = E
    BY <1>3, ChainAppended DEF Inv, TypeOK, height
  <2>2. b = height + 1
    BY <1>1, <2>1
  <2> QED
    BY <2>1, <2>2
<1>4. CASE \E E : QuietBlock(E)
  <2>1. PICK E \in SUBSET Event :
          chain' = Append(chain, E) /\ \A e \in E : e.type # "Deposit"
    BY <1>4 DEF QuietBlock
  <2> QED
    BY <1>3, <2>1 DEF Deposit
<1>5. CASE \E S \in SUBSET Collectibles : SettleBlock(S)
  <2>1. PICK S \in SUBSET Collectibles : SettleBlock(S)
    BY <1>5
  <2> DEFINE E == {Deposit(y, Escrow) : y \in S}
  <2>2. E \in SUBSET Event
    BY DEF Deposit, Event
  <2>3. chain' = Append(chain, E)
    BY <2>1 DEF SettleBlock
  <2>4. \A e \in E : e.to = Escrow
    BY DEF Deposit
  <2> HIDE DEF E
  <2>5. Deposit(x, a) \in E
    BY <1>3, <2>2, <2>3
  <2> QED
    BY <1>2, <2>4, <2>5 DEF Deposit
<1>6. CASE \E t \in pending : OpenBlock(t)
  <2>1. PICK t \in pending : OpenBlock(t)
    BY <1>6
  <2> DEFINE E == {Opened(t.contract, t.id)} \union
                    {Deposit(y, t.owner) : y \in Contents[t.pack]}
  <2>2. /\ t.contract \in Contracts /\ t.id \in DOMAIN packNFT[t.contract]
        /\ packNFT[t.contract][t.id].hash = t.pack
        /\ AsksToOpen(t)
    BY <2>1 DEF OpenBlock
  <2>3. E \in SUBSET Event
    <3>1. t.pack \in Packs /\ t.owner \in Accounts /\ t.id \in Nat
      BY <2>1 DEF OpenBlock
    <3>2. Contents[t.pack] \in SUBSET Collectibles
      BY <3>1, LedgerAssumption
    <3> QED
      BY <2>2, <3>1, <3>2 DEF Opened, Deposit, Event
  <2>4. b = height + 1 /\ chain'[b] = E /\ Deposit(x, a) \in E
    <3>1. chain' = Append(chain, E)
      BY <2>1 DEF OpenBlock
    <3> HIDE DEF E
    <3> QED
      BY <1>3, <2>3, <3>1
  <2>5. x \in Contents[t.pack] /\ a = t.owner
    BY <2>4 DEF Opened, Deposit
  <2>6. PICK b0 \in 1..height : OpenAsked(t, b0)
    BY <2>2 DEF OpenTxsAsked
  <2>7. b0 \in 1..(b - 1) /\ chain'[b0] = chain[b0]
    BY <1>1, <2>4
  <2>8. /\ t.id \in DOMAIN packNFT'[t.contract]
        /\ packNFT'[t.contract][t.id].hash = t.pack
    BY <2>2, NextKeepsPacks DEF PacksStay
  <2>9. PICK c \in Contracts, id \in DOMAIN packNFT[t.contract] :
          c = t.contract /\ id = t.id
    BY <2>2
  <2>10. RequestedBy(c, id, a, b)'
    BY <2>5, <2>6, <2>7, <2>9 DEF RequestedBy, OpenAsked
  <2>11. Opened(c, id) \in chain'[b]
    BY <2>4, <2>9
  <2> QED
    BY <2>5, <2>8, <2>9, <2>10, <2>11 DEF ReleasedRightly
<1>7. CASE \E y \in Collectibles, f \in Accounts, g \in Accounts \union {Escrow} :
             SendBlock(y, f, g)
  <2>1. PICK y \in Collectibles, f \in Accounts, g \in Accounts \union {Escrow} :
          SendBlock(y, f, g)
    BY <1>7
  <2>2. {Deposit(y, g)} \in SUBSET Event /\ chain' = Append(chain, {Deposit(y, g)})
    BY <2>1 DEF Deposit, Event, SendBlock
  <2>3. chain'[b] = {Deposit(y, g)} /\ Deposit(x, a) = Deposit(y, g)
    BY <1>3, <2>2
  <2> QED
    BY <2>3 DEF ReleasedRightly
<1>8. CASE chain' = chain
  BY <1>8 DEF height
<1> QED
  BY <1>4, <1>5, <1>6, <1>7, <1>8, BlockOfStep

(* The PDS releases a collectible only to an account that asked for it as  *)
(* the owner of a pack that contains it, whatever is transferred, sent,    *)
(* lost or revealed meanwhile, and in whatever order the queue sends what  *)
(* the requests have saved.                                                *)
THEOREM ReleasesRequested == Spec => []ReleaseRequested
<1> DEFINE AskedInv == OpenTxsAsked /\ ReleaseRequested
<1>1. ReleaseRequested <=>
        \A b \in 1..height : \A x \in Collectibles, a \in Accounts :
          Deposit(x, a) \in chain[b] => ReleasedRightly(x, a, b)
  BY DEF ReleaseRequested, ReleasedRightly
<1>2. Init => AskedInv
  <2> SUFFICES ASSUME Init
               PROVE  AskedInv
    OBVIOUS
  <2>1. height = 1 /\ chain[1] = {} /\ pending = {}
    BY DEF Init, LedgerInit, StoreInit, height
  <2> QED
    BY <2>1 DEF ReleaseRequested, OpenTxsAsked
<1>3. Inv /\ AskedInv /\ [Next]_vars => AskedInv'
  <2> SUFFICES ASSUME Inv, AskedInv, [Next]_vars
               PROVE  AskedInv'
    OBVIOUS
  <2>1. OpenTxsAsked'
    BY NextKeepsAsked
  <2>2. ASSUME NEW b \in 1..height', NEW x \in Collectibles, NEW a \in Accounts,
               Deposit(x, a) \in chain'[b]
        PROVE  ReleasedRightly(x, a, b)'
    <3>1. CASE b \in 1..height
      <4>1. Deposit(x, a) \in chain[b]
        BY <2>2, <3>1, BlocksStay
      <4> QED
        BY <1>1, <3>1, <4>1, ReleaseStays
    <3>2. CASE b \notin 1..height
      BY <2>2, <3>2, NewRelease
    <3> QED
      BY <3>1, <3>2
  <2>3. ReleaseRequested'
    BY <2>2 DEF ReleaseRequested, ReleasedRightly
  <2> QED
    BY <2>1, <2>3
<1>4. AskedInv => ReleaseRequested
  OBVIOUS
<1> QED
  BY <1>2, <1>3, <1>4, Invariant, PTL DEF Spec

----------------------------------------------------------------------------
(* The packs that are not opened are backed.                               *)

(* No collectible is in two packs.                                         *)
DisjointContents ==
  \A p, q \in Packs : p # q => Contents[p] \cap Contents[q] = {}

(* The escrow has received the collectible, at some time.                  *)
Deposited(x) == \E b \in 1..height : Deposit(x, Escrow) \in chain[b]

IsOpened(p) ==
  \E c \in Contracts : \E id \in DOMAIN packNFT[c] :
    packNFT[c][id].hash = p /\ packNFT[c][id].status = "Opened"

(* What the escrow has received it holds, until the pack is opened.        *)
DepositsHeld ==
  \A p \in Packs : ~IsOpened(p) =>
    \A x \in Contents[p] : Deposited(x) => holder[x] = Escrow

(* What counts as settled was deposited, and the row counts it once.       *)
SettlementCounts ==
  \A d \in InState("settling") :
    /\ settlement[d].settled \in SUBSET ItemsOf(d)
    /\ settlement[d].current = Cardinality(settlement[d].settled)
    /\ settlement[d].total = Len(CollectibleRows[d])
    /\ \A x \in settlement[d].settled : Deposited(x)

(* A settled distribution has all of its collectibles deposited.           *)
SettledDeposited ==
  \A d \in InState("settled") : \A x \in ItemsOf(d) : Deposited(x)

(* No pack is minted, or going to be, before its content was deposited.    *)
MintsDeposited ==
  \A p \in Packs : IsMinted(p) \/ ToMint(p) =>
    \A x \in Contents[p] : Deposited(x)

EscrowInv ==
  /\ DepositsHeld
  /\ SettlementCounts
  /\ SettledDeposited
  /\ MintsDeposited

(* A deposit stays in the chain.                                           *)
LEMMA DepositStays ==
  ASSUME Inv, [Next]_vars, NEW x, Deposited(x)
  PROVE  Deposited(x)'
BY BlocksStay DEF Deposited

(* A pack that is opened stays opened.                                     *)
LEMMA OpenedStays ==
  ASSUME Inv, [Next]_vars, NEW p, IsOpened(p)
  PROVE  IsOpened(p)'
BY NextKeepsPacks DEF PacksStay, IsOpened

(* A block adds the deposits that its events say and no others.            *)
LEMMA DepositsOfBlock ==
  ASSUME Inv, NEW E \in SUBSET Event, chain' = Append(chain, E), NEW x,
         Deposited(x)', ~Deposited(x)
  PROVE  Deposit(x, Escrow) \in E
<1>1. /\ height' = height + 1 /\ chain'[height + 1] = E /\ height \in Nat
      /\ \A b \in 1..height : chain'[b] = chain[b]
  BY ChainAppended DEF Inv, TypeOK, height
<1>2. PICK b \in 1..height' : Deposit(x, Escrow) \in chain'[b]
  BY DEF Deposited
<1>3. b \in 1..height \/ b = height + 1
  BY <1>1, <1>2
<1> QED
  BY <1>1, <1>2, <1>3 DEF Deposited

(* Every step keeps DepositsHeld: only the opening of a pack takes its     *)
(* collectibles out of the escrow, and it takes those of no other pack.    *)
LEMMA NextHoldsDeposits ==
  ASSUME DisjointContents, Inv, DepositsHeld, [Next]_vars
  PROVE  DepositsHeld'
<1> SUFFICES ASSUME NEW p \in Packs, ~IsOpened(p)', NEW x \in Contents[p],
                    Deposited(x)'
             PROVE  holder'[x] = Escrow
  BY DEF DepositsHeld
<1>1. ~IsOpened(p) /\ x \in Collectibles
  BY OpenedStays, LedgerAssumption
<1>2. Deposited(x) => holder[x] = Escrow
  BY <1>1 DEF DepositsHeld
<1>3. holder \in [Collectibles -> Accounts \union {Escrow}] /\ Escrow \notin Accounts
  BY LedgerAssumption DEF Inv, TypeOK, LedgerTypeOK
<1>4. CASE UNCHANGED <<chain, holder>>
  BY <1>2, <1>4 DEF Deposited, height
<1>5. CASE \E E : QuietBlock(E)
  <2>1. PICK E \in SUBSET Event :
          /\ chain' = Append(chain, E) /\ \A e \in E : e.type # "Deposit"
          /\ holder' = holder
    BY <1>5 DEF QuietBlock
  <2>2. ~Deposited(x) => Deposit(x, Escrow) \in E
    BY <2>1, DepositsOfBlock
  <2>3. Deposit(x, Escrow) \notin E
    BY <2>1 DEF Deposit
  <2> QED
    BY <1>2, <2>1, <2>2, <2>3
<1>6. CASE \E S \in SUBSET Collectibles : SettleBlock(S)
  <2>1. PICK S \in SUBSET Collectibles : SettleBlock(S)
    BY <1>6
  <2> DEFINE E == {Deposit(y, Escrow) : y \in S}
  <2>2. E \in SUBSET Event
    BY DEF Deposit, Event
  <2>3. Deposit(x, Escrow) \in E => x \in S
    BY DEF Deposit
  <2>4. /\ chain' = Append(chain, E)
        /\ holder' = [y \in Collectibles |-> IF y \in S THEN Escrow ELSE holder[y]]
    BY <2>1 DEF SettleBlock
  <2> HIDE DEF E
  <2>5. Deposited(x) \/ x \in S
    BY <2>2, <2>3, <2>4, DepositsOfBlock
  <2> QED
    BY <1>1, <1>2, <2>4, <2>5
<1>7. CASE \E t \in pending : OpenBlock(t)
  <2>1. PICK t \in pending : OpenBlock(t)
    BY <1>7
  <2> DEFINE E == {Opened(t.contract, t.id)} \union
                    {Deposit(y, t.owner) : y \in Contents[t.pack]}
  <2>2. /\ t.contract \in Contracts /\ t.pack \in Packs /\ t.owner \in Accounts
        /\ t.id \in Nat /\ t.id \in DOMAIN packNFT[t.contract]
        /\ packNFT[t.contract][t.id].hash = t.pack
        /\ packNFT'[t.contract][t.id].status = "Opened"
    BY <2>1 DEF OpenBlock
  <2>3. E \in SUBSET Event /\ Deposit(x, Escrow) \notin E
    <3>1. Contents[t.pack] \in SUBSET Collectibles
      BY <2>2, LedgerAssumption
    <3>2. E \in SUBSET Event
      BY <2>2, <3>1 DEF Opened, Deposit, Event
    <3>3. Opened(t.contract, t.id) # Deposit(x, Escrow)
      <4>1. Opened(t.contract, t.id).type = "Opened"
        BY DEF Opened
      <4>2. Deposit(x, Escrow).type = "Deposit"
        BY DEF Deposit
      <4> QED
        BY <4>1, <4>2
    <3>4. \A y : Deposit(y, t.owner) # Deposit(x, Escrow)
      BY <1>3, <2>2 DEF Deposit
    <3> QED
      BY <3>2, <3>3, <3>4
  <2>4. /\ chain' = Append(chain, E)
        /\ holder' = [y \in Collectibles |->
                        IF y \in Contents[t.pack] THEN t.owner ELSE holder[y]]
    BY <2>1 DEF OpenBlock
  <2> HIDE DEF E
  <2>5. Deposited(x)
    BY <2>3, <2>4, DepositsOfBlock
  <2>6. IsOpened(t.pack)'
    <3>1. /\ t.id \in DOMAIN packNFT'[t.contract]
          /\ packNFT'[t.contract][t.id].hash = t.pack
      BY <2>2, NextKeepsPacks DEF PacksStay
    <3>2. PICK q \in Packs : q = t.pack
      BY <2>2
    <3>3. IsOpened(q)'
      BY <2>2, <3>1, <3>2 DEF IsOpened
    <3> QED
      BY <3>2, <3>3
  <2>7. t.pack # p
    BY <2>6
  <2>8. x \notin Contents[t.pack]
    BY <2>2, <2>7 DEF DisjointContents
  <2> QED
    BY <1>1, <1>2, <2>4, <2>5, <2>8
<1>8. CASE \E y \in Collectibles, a \in Accounts, b \in Accounts \union {Escrow} :
             SendBlock(y, a, b)
  <2>1. PICK y \in Collectibles, a \in Accounts, b \in Accounts \union {Escrow} :
          SendBlock(y, a, b)
    BY <1>8
  <2>2. {Deposit(y, b)} \in SUBSET Event /\ chain' = Append(chain, {Deposit(y, b)})
    BY <2>1 DEF Deposit, Event, SendBlock
  <2>3. holder[y] = a /\ holder' = [holder EXCEPT ![y] = b]
    BY <2>1 DEF SendBlock
  <2>4. Deposited(x) \/ (x = y /\ b = Escrow)
    BY <2>2, DepositsOfBlock DEF Deposit
  <2>5. CASE x = y /\ b = Escrow
    BY <1>1, <1>3, <2>3, <2>5
  <2>6. CASE Deposited(x)
    <3>1. x # y
      BY <1>2, <1>3, <2>3, <2>6
    <3> QED
      BY <1>1, <1>2, <1>3, <2>3, <2>6, <3>1
  <2> QED
    BY <2>4, <2>5, <2>6
<1> QED
  BY <1>4, <1>5, <1>6, <1>7, <1>8, BlockOfStep

(* The collectibles that a poll settles were deposited, and were not       *)
(* settled before.                                                         *)
LEMMA NewlySettledDeposited ==
  ASSUME Inv, NEW d \in InState("settling")
  PROVE  /\ NewlySettled(d) \in SUBSET ItemsOf(d)
         /\ \A x \in NewlySettled(d) : Deposited(x)
<1>1. settlement[d].startAt \in Nat
  BY DEF InState, Inv, TypeOK, StoreTypeOK, Consistent, RowsExist, SettlementRow
<1>2. Blocks(settlement[d].startAt) \in SUBSET (1..height)
  BY <1>1, BlocksOfPoll
<1>3. \A x : DepositedIn(x, Blocks(settlement[d].startAt)) # {} => Deposited(x)
  BY <1>2 DEF DepositedIn, Deposited
<1> QED
  BY <1>3 DEF NewlySettled

(* A distribution has finitely many collectibles, one for each row at most.*)
LEMMA ItemsFinite ==
  ASSUME NEW d \in Dists
  PROVE  /\ IsFiniteSet(ItemsOf(d))
         /\ Cardinality(ItemsOf(d)) \in Nat
         /\ Cardinality(ItemsOf(d)) <= Len(CollectibleRows[d])
         /\ Len(CollectibleRows[d]) \in Nat
<1> DEFINE rows == CollectibleRows[d]
           I == 1..Len(rows)
<1>1. Len(rows) \in Nat /\ DOMAIN rows = I /\ Elems(rows) = ItemsOf(d)
  BY StoreAssumption, LenProperties
<1>2. IsFiniteSet(I) /\ Cardinality(I) = Len(rows)
  BY <1>1, FS_Interval
<1>3. [i \in I |-> rows[i]] \in Surjection(I, ItemsOf(d))
  BY <1>1 DEF Surjection, Elems
<1>4. IsFiniteSet(ItemsOf(d)) /\ Cardinality(ItemsOf(d)) \in Nat
  BY ItemsOfDist, ContentsFinite
<1> HIDE DEF I, rows
<1>5. Cardinality(ItemsOf(d)) <= Cardinality(I)
  BY <1>2, <1>3, FS_Surjection
<1> QED
  BY <1>1, <1>2, <1>4, <1>5 DEF rows

(* A poll of the settlement counts each collectible once.                  *)
LEMMA PollCounts ==
  ASSUME Inv, SettlementCounts, HandleSettling, NEW d \in InState("settling")
  PROVE  LET row == UpdatedSettlement(d) IN
         /\ row.settled \in SUBSET ItemsOf(d)
         /\ row.current = Cardinality(row.settled)
         /\ row.total = Len(CollectibleRows[d])
         /\ \A x \in row.settled : Deposited(x)
<1> DEFINE S == settlement[d].settled
           N == NewlySettled(d)
<1>1. /\ S \in SUBSET ItemsOf(d) /\ N \in SUBSET ItemsOf(d)
      /\ settlement[d].current = Cardinality(S)
      /\ settlement[d].total = Len(CollectibleRows[d])
      /\ \A x \in S \union N : Deposited(x)
  BY NewlySettledDeposited DEF SettlementCounts
<1>2. S \cap N = {}
  BY DEF HandleSettling, SettlingFails
<1>3. IsFiniteSet(S) /\ IsFiniteSet(N)
  BY <1>1, ItemsFinite, FS_Subset DEF InState
<1>4. /\ UpdatedSettlement(d).settled = S \union N
      /\ UpdatedSettlement(d).current = settlement[d].current + Cardinality(N)
      /\ UpdatedSettlement(d).total = settlement[d].total
  BY DEF UpdatedSettlement
<1> HIDE DEF S, N
<1>5. Cardinality(S \union N) = Cardinality(S) + Cardinality(N)
  <2>1. Cardinality(S \union N) =
          Cardinality(S) + Cardinality(N) - Cardinality({})
    BY <1>2, <1>3, FS_Union
  <2> QED
    BY <1>3, <2>1, FS_EmptySet, FS_CardinalityType
<1> QED
  BY <1>1, <1>4, <1>5

(* How a step changes the row of a distribution that settles after it.     *)
LEMMA SettlementRows ==
  ASSUME Inv, [Next]_vars, NEW d \in Dists, dist'[d] = "settling"
  PROVE  \/ HandleSetup /\ settlement'[d] = NewSettlement(d)
         \/ /\ d \in InState("settling") /\ HandleSettling
            /\ settlement'[d] = UpdatedSettlement(d)
         \/ d \in InState("settling") /\ settlement'[d] = settlement[d]
<1>1. dist \in [Dists -> DistributionState]
  BY DEF Inv, TypeOK, StoreTypeOK
<1>2. CASE HandleSetup
  <2>1. dist'[d] = IF dist[d] = "setup" THEN "settling" ELSE dist[d]
    BY <1>2 DEF HandleSetup, SetState, InState
  <2>2. settlement'[d] = IF dist[d] = "setup" THEN NewSettlement(d) ELSE settlement[d]
    BY <1>2 DEF HandleSetup, InState
  <2> QED
    BY <1>2, <2>1, <2>2 DEF InState
<1>3. CASE HandleSettling
  <2>1. dist'[d] = "settled" \/ dist'[d] = dist[d]
    BY <1>3 DEF HandleSettling, SetState
  <2>2. d \in InState("settling")
    BY <2>1 DEF InState
  <2>3. settlement'[d] = UpdatedSettlement(d)
    BY <1>3, <2>2 DEF HandleSettling
  <2> QED
    BY <1>3, <2>2, <2>3
<1>4. CASE HandleComplete
  <2>1. dist' = dist
    BY <1>4 DEF HandleComplete
  <2>2. settlement'[d] = settlement[d]
    BY <1>4, <2>1 DEF HandleComplete, InState
  <2> QED
    BY <2>1, <2>2 DEF InState
<1>5. CASE ~HandleSetup /\ ~HandleSettling /\ ~HandleComplete
  <2>1. settlement' = settlement /\ dist[d] = "settling"
    BY <1>1, <1>5 DEF Next, vars, storeVars, Create, CreateDistribution, Abort,
         AbortDistribution, HandleResolved, HandleSettled, HandleMinting,
         PollCirculating, ExecuteTx, LoseTx, OwnerRequestsReveal,
         OwnerRequestsOpen, OwnerTransfers, AnyoneReveals, AccountSends,
         OtherBlock, SetState, InState
  <2> QED
    BY <2>1 DEF InState
<1> QED
  BY <1>2, <1>3, <1>4, <1>5

(* Every step keeps SettlementCounts.                                      *)
LEMMA NextKeepsSettlement ==
  ASSUME Inv, SettlementCounts, [Next]_vars
  PROVE  SettlementCounts'
<1> SUFFICES ASSUME NEW d \in Dists, dist'[d] = "settling"
             PROVE  /\ settlement'[d].settled \in SUBSET ItemsOf(d)
                    /\ settlement'[d].current = Cardinality(settlement'[d].settled)
                    /\ settlement'[d].total = Len(CollectibleRows[d])
                    /\ \A x \in settlement'[d].settled : Deposited(x)'
  BY DEF SettlementCounts, InState
<1>1. CASE HandleSetup /\ settlement'[d] = NewSettlement(d)
  <2>1. /\ settlement'[d].settled = {} /\ settlement'[d].current = 0
        /\ settlement'[d].total = Len(CollectibleRows[d])
    BY <1>1 DEF NewSettlement
  <2> QED
    BY <2>1, FS_EmptySet
<1>2. CASE /\ d \in InState("settling") /\ HandleSettling
           /\ settlement'[d] = UpdatedSettlement(d)
  BY <1>2, PollCounts, DepositStays
<1>3. CASE d \in InState("settling") /\ settlement'[d] = settlement[d]
  BY <1>3, DepositStays DEF SettlementCounts
<1> QED
  BY <1>1, <1>2, <1>3, SettlementRows

(* Every step keeps SettledDeposited: a settlement that is complete has    *)
(* counted every collectible.                                              *)
LEMMA NextSettlesDeposited ==
  ASSUME Inv, SettlementCounts, SettledDeposited, [Next]_vars
  PROVE  SettledDeposited'
<1> SUFFICES ASSUME NEW d \in Dists, dist'[d] = "settled", NEW x \in ItemsOf(d)
             PROVE  Deposited(x)'
  BY DEF SettledDeposited, InState
<1>1. CASE dist[d] = "settled"
  BY <1>1, DepositStays DEF SettledDeposited, InState
<1>2. CASE dist[d] # "settled"
  <2>1. HandleSettling
    BY <1>2 DEF Next, vars, storeVars, Create, CreateDistribution, Abort,
         AbortDistribution, HandleResolved, HandleSetup, HandleSettled,
         HandleMinting, HandleComplete, PollCirculating, ExecuteTx, LoseTx,
         OwnerRequestsReveal, OwnerRequestsOpen, OwnerTransfers, AnyoneReveals,
         AccountSends, OtherBlock, SetState, InState, Inv, TypeOK, StoreTypeOK
  <2>2. d \in InState("settling") /\ SettlementComplete(d)
    BY <1>2, <2>1 DEF HandleSettling, SetState
  <2>3. PICK S : S = UpdatedSettlement(d).settled
    OBVIOUS
  <2>4. /\ S \in SUBSET ItemsOf(d)
        /\ Cardinality(S) >= Len(CollectibleRows[d])
        /\ \A y \in S : Deposited(y)
    <3>1. /\ UpdatedSettlement(d).current >= settlement[d].total
          /\ settlement[d].total = Len(CollectibleRows[d])
      BY <2>2 DEF SettlementComplete, SettlementCounts, InState
    <3>2. /\ S \in SUBSET ItemsOf(d)
          /\ UpdatedSettlement(d).current = Cardinality(S)
          /\ \A y \in S : Deposited(y)
      BY <2>1, <2>2, <2>3, PollCounts
    <3> QED
      BY <3>1, <3>2
  <2>5. /\ IsFiniteSet(ItemsOf(d)) /\ Cardinality(ItemsOf(d)) \in Nat
        /\ Cardinality(ItemsOf(d)) <= Len(CollectibleRows[d])
        /\ Len(CollectibleRows[d]) \in Nat
    BY ItemsFinite
  <2>6. Cardinality(S) \in Nat /\ Cardinality(S) <= Cardinality(ItemsOf(d))
    BY <2>4, <2>5, FS_Subset, FS_CardinalityType
  <2>7. Cardinality(ItemsOf(d)) = Cardinality(S)
    BY <2>4, <2>5, <2>6
  <2>8. S = ItemsOf(d)
    BY <2>4, <2>5, <2>7, FS_Subset
  <2> QED
    BY <2>4, <2>8, DepositStays
<1> QED
  BY <1>1, <1>2

(* Every step keeps MintsDeposited.                                        *)
LEMMA NextMintsDeposited ==
  ASSUME Inv, MintInv, SettledDeposited, MintsDeposited, [Next]_vars
  PROVE  MintsDeposited'
<1> SUFFICES ASSUME NEW p \in Packs, IsMinted(p)' \/ ToMint(p)',
                    NEW x \in Contents[p]
             PROVE  Deposited(x)
  BY DepositStays DEF MintsDeposited
<1>1. CASE IsMinted(p) \/ ToMint(p)
  BY <1>1 DEF MintsDeposited
<1>2. CASE ~IsMinted(p) /\ ~ToMint(p)
  <2>1. ~ \E t \in pending : MintStep(t)
    BY <1>2, MintMoves
  <2>2. ~IsMinted(p)'
    BY <1>2, <2>1, NFTsOfStep DEF SameNFTs, IsMinted
  <2>3. PICK t \in pending' : t.name = "mint" /\ p \in Elems(t.hashes)
    BY <2>2 DEF ToMint
  <2>4. t \notin pending
    BY <1>2, <2>3 DEF ToMint
  <2>5. PICK d \in InState("settled") : t \in MintBatches(d)
    BY <2>3, <2>4, NewMints
  <2>6. p \in PacksOf(d)
    BY <2>3, <2>5, MintBatchPacks DEF InState
  <2>7. x \in ItemsOf(d)
    BY <2>6 DEF ItemsOf
  <2> QED
    BY <2>7 DEF SettledDeposited
<1> QED
  BY <1>1, <1>2

(* The escrow holds every collectible of every pack on the chain that is   *)
(* not opened, if no collectible is in two packs: a pack is minted only    *)
(* when its content was deposited, and only opening that pack releases it. *)
THEOREM EscrowIsBacked ==
  ASSUME DisjointContents
  PROVE  Spec => []EscrowBacked
<1>1. Init => EscrowInv
  <2> SUFFICES ASSUME Init
               PROVE  EscrowInv
    OBVIOUS
  <2>1. height = 1 /\ chain[1] = {} /\ pending = {}
    BY DEF Init, LedgerInit, StoreInit, height
  <2>2. \A x : ~Deposited(x)
    BY <2>1 DEF Deposited
  <2>3. \A p : ~IsMinted(p) /\ ~ToMint(p)
    BY <2>1 DEF Init, LedgerInit, IsMinted, ToMint
  <2>4. InState("settling") = {} /\ InState("settled") = {}
    BY DEF Init, StoreInit, InState
  <2> QED
    BY <2>2, <2>3, <2>4 DEF EscrowInv, DepositsHeld, SettlementCounts,
       SettledDeposited, MintsDeposited
<1>2. Inv /\ MintInv /\ EscrowInv /\ [Next]_vars => EscrowInv'
  BY NextHoldsDeposits, NextKeepsSettlement, NextSettlesDeposited,
     NextMintsDeposited DEF EscrowInv
<1>3. Inv /\ MintInv /\ EscrowInv => EscrowBacked
  <2> SUFFICES ASSUME Inv, MintInv, EscrowInv,
                      NEW c \in Contracts, NEW id \in DOMAIN packNFT[c],
                      packNFT[c][id].status # "Opened",
                      NEW x \in Contents[packNFT[c][id].hash]
               PROVE  holder[x] = Escrow
    BY DEF EscrowBacked
  <2>1. PICK p \in Packs : p = packNFT[c][id].hash
    BY PackNFTType DEF Inv, TypeOK, PackNFT
  <2>2. IsMinted(p)
    BY <2>1 DEF IsMinted
  <2>3. ~IsOpened(p)
    <3> SUFFICES ASSUME NEW b \in Contracts, NEW i \in DOMAIN packNFT[b],
                        packNFT[b][i].hash = p, packNFT[b][i].status = "Opened"
                 PROVE  FALSE
      BY DEF IsOpened
    <3>1. b = c
      BY <2>1 DEF MintInv, NFTsOwn
    <3>2. i = id
      BY <2>1, <3>1 DEF MintInv, EachMintedOnce
    <3> QED
      BY <3>1, <3>2
  <2> QED
    BY <2>1, <2>2, <2>3 DEF EscrowInv, MintsDeposited, DepositsHeld
<1> QED
  BY <1>1, <1>2, <1>3, Invariant, MintInvariant, PTL DEF Spec

=============================================================================
