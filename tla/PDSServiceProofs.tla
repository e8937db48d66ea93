--------------------------- MODULE PDSServiceProofs ---------------------------
(***************************************************************************)
(* Proofs about PDSService for every value of its constants.               *)
(***************************************************************************)
EXTENDS PDSService, TLAPS, FiniteSetTheorems, SequenceTheorems

USE DEF NoFlowID, NoRow

----------------------------------------------------------------------------
(* Facts about the tables that never change.                               *)

(* A pack belongs to exactly one distribution.                             *)
LEMMA PackOfDist ==
  ASSUME NEW d \in Dists, NEW p \in PacksOf(d)
  PROVE  p \in Packs /\ DistOf(p) = d
<1>1. p \in Packs
  BY StoreAssumption, ElementOfSeq DEF PacksOf, Elems
<1>2. \A e \in Dists : p \in PacksOf(e) => e = d
  BY StoreAssumption
<1> QED
  BY <1>1, <1>2 DEF DistOf

(* Every pack belongs to a distribution, DistOf of it.                     *)
LEMMA DistOfPack ==
  ASSUME NEW p \in Packs
  PROVE  DistOf(p) \in Dists /\ p \in PacksOf(DistOf(p))
<1>1. \E d \in Dists : p \in PacksOf(d)
  BY StoreAssumption
<1> QED
  BY <1>1 DEF DistOf

(* A set of collectibles is finite.                                        *)
LEMMA ContentsFinite ==
  ASSUME NEW S \in SUBSET Collectibles
  PROVE  IsFiniteSet(S) /\ Cardinality(S) \in Nat
BY LedgerAssumption, FS_Subset, FS_CardinalityType

(* An interval from one is finite.                                         *)
LEMMA UpToFinite ==
  ASSUME NEW m \in Nat
  PROVE  IsFiniteSet(1..m)
<1>1. 1 \in Int /\ m \in Int
  OBVIOUS
<1> QED
  BY <1>1, FS_Interval, Zenon

(* The items of a distribution are collectibles.                           *)
LEMMA ItemsOfDist ==
  ASSUME NEW d \in Dists
  PROVE  ItemsOf(d) \in SUBSET Collectibles
BY PackOfDist, LedgerAssumption DEF ItemsOf

(* A batch holds rows of its table and no others.                          *)
LEMMA BatchOfRows ==
  ASSUME NEW S, NEW rows \in Seq(S), NEW size \in Nat \ {0},
         NEW k \in 1..NumBatches(rows, size)
  PROVE  /\ Batch(rows, size, k) \in Seq(S)
         /\ \A i \in DOMAIN Batch(rows, size, k) :
              Batch(rows, size, k)[i] \in Elems(rows)
<1> DEFINE m == (k - 1) * size + 1
           n == Min2(k * size, Len(rows))
<1>1. k \in Int /\ k >= 1
  OBVIOUS
<1>2. (k - 1) * size \in Nat /\ k * size \in Nat
  <2>1. \A a, b \in Nat : a * b \in Nat
    OBVIOUS
  <2> QED
    BY <1>1, <2>1
<1>3. Len(rows) \in Nat /\ DOMAIN rows = 1..Len(rows)
  BY LenProperties
<1>4. m \in Int /\ n \in Int /\ m >= 1 /\ n <= Len(rows)
  BY <1>2, <1>3 DEF Min2
<1> HIDE DEF m, n
<1>5. \A i \in m..n : rows[i] \in Elems(rows) /\ rows[i] \in S
  BY <1>3, <1>4, ElementOfSeq DEF Elems
<1>6. SubSeq(rows, m, n) \in Seq(S) /\ SubSeq(rows, m, n) \in Seq(Elems(rows))
  BY <1>4, <1>5, SubSeqProperties
<1>7. \A i \in DOMAIN SubSeq(rows, m, n) : SubSeq(rows, m, n)[i] \in Elems(rows)
  BY <1>6, ElementOfSeq, LenProperties
<1> QED
  BY <1>6, <1>7 DEF Batch, m, n

----------------------------------------------------------------------------
(* What every block does to the chain.                                     *)

(* A pack on the chain stays there with its hash, and its status never     *)
(* goes back.                                                              *)
PacksStay ==
  \A c \in Contracts : \A id \in DOMAIN packNFT[c] :
    /\ id \in DOMAIN packNFT'[c]
    /\ packNFT'[c][id].hash = packNFT[c][id].hash
    /\ packNFT[c][id].status # "Sealed" => packNFT'[c][id].status # "Sealed"
    /\ packNFT[c][id].status = "Opened" => packNFT'[c][id].status = "Opened"

AddsBlock(E) ==
  /\ E \in SUBSET Event
  /\ IsFiniteSet(E)
  /\ chain' = Append(chain, E)
  /\ \A e \in E : EventTrue(e)'

BlockSealed ==
  /\ LedgerTypeOK'
  /\ PacksStay
  /\ \E E : AddsBlock(E)

(* A pack on the chain has the fields of a pack.                           *)
LEMMA PackNFTType ==
  ASSUME LedgerTypeOK, NEW c \in Contracts
  PROVE  /\ packNFT[c] \in Seq(PackNFT)
         /\ Len(packNFT[c]) \in Nat
         /\ DOMAIN packNFT[c] = 1..Len(packNFT[c])
         /\ \A id \in DOMAIN packNFT[c] : id \in Nat /\ packNFT[c][id] \in PackNFT
<1>1. packNFT[c] \in Seq(PackNFT)
  BY DEF LedgerTypeOK
<1> QED
  BY <1>1, LenProperties, ElementOfSeq

(* A step that leaves the packs alone keeps them all.                      *)
LEMMA SamePacksStay ==
  packNFT' = packNFT => PacksStay
BY DEF PacksStay

(* A block that is appended changes no earlier block.                      *)
LEMMA ChainAppended ==
  ASSUME LedgerTypeOK, NEW E \in SUBSET Event
  PROVE  /\ Append(chain, E) \in Seq(SUBSET Event)
         /\ Len(Append(chain, E)) = height + 1
         /\ height \in Nat
         /\ \A b \in 1..height : Append(chain, E)[b] = chain[b]
         /\ Append(chain, E)[height + 1] = E
BY AppendProperties DEF LedgerTypeOK, height

(* An event that is neither a mint nor about a pack is true.               *)
LEMMA OtherEventsTrue ==
  ASSUME NEW e, e.type \notin RequestTypes \union {"Mint"}
  PROVE  EventTrue(e)'
BY DEF EventTrue, RequestTypes

(* A mint event is true when its pack is on the chain.                     *)
LEMMA MintEventTrue ==
  ASSUME NEW e, e.type = "Mint",
         e.id \in DOMAIN packNFT'[e.contract],
         packNFT'[e.contract][e.id].hash = e.hash,
         e.contract = ContractOf[DistOf(e.hash)]
  PROVE  EventTrue(e)'
BY DEF EventTrue, Exists, RequestTypes

(* What two sequences of packs give when put together.                     *)
LEMMA Concatenation ==
  ASSUME NEW S, NEW s \in Seq(S), NEW t \in Seq(S)
  PROVE  /\ s \o t \in Seq(S)
         /\ DOMAIN (s \o t) = 1..(Len(s) + Len(t))
         /\ \A i \in 1..Len(s) : (s \o t)[i] = s[i]
         /\ \A k \in 1..Len(t) : (s \o t)[Len(s) + k] = t[k]
<1>1. s \o t \in Seq(S) /\ Len(s \o t) = Len(s) + Len(t)
  BY ConcatProperties
<1>2. \A i \in 1..(Len(s) + Len(t)) :
        (s \o t)[i] = IF i <= Len(s) THEN s[i] ELSE t[i - Len(s)]
  BY ConcatProperties
<1>3. Len(s) \in Nat /\ Len(t) \in Nat
  BY LenProperties
<1>4. \A i \in 1..Len(s) : (s \o t)[i] = s[i]
  BY <1>2, <1>3
<1>5. ASSUME NEW k \in 1..Len(t)
      PROVE  (s \o t)[Len(s) + k] = t[k]
  <2>1. Len(s) + k \in 1..(Len(s) + Len(t)) /\ ~(Len(s) + k <= Len(s))
    BY <1>3
  <2>2. (Len(s) + k) - Len(s) = k
    BY <1>3
  <2> QED
    BY <1>2, <2>1, <2>2
<1> QED
  BY <1>1, <1>4, <1>5, LenProperties

(* A block without events keeps what BlockSealed says.                     *)
LEMMA EmptyBlockSealed ==
  ASSUME LedgerTypeOK, EmptyBlock
  PROVE  BlockSealed
<1>1. AddsBlock({})
  BY FS_EmptySet DEF EmptyBlock, Emit, AddsBlock
<1> QED
  BY <1>1, SamePacksStay, ChainAppended
     DEF EmptyBlock, Emit, BlockSealed, LedgerTypeOK

(* The transactions that the service sends.                                *)

(* The deposits of a transaction are finitely many.                        *)
LEMMA DepositsFinite ==
  ASSUME NEW S \in SUBSET Collectibles, NEW a
  PROVE  IsFiniteSet({Deposit(x, a) : x \in S})
<1> DEFINE T == {Deposit(x, a) : x \in S}
           f == [x \in S |-> Deposit(x, a)]
<1>1. f \in Surjection(S, T)
  BY DEF Surjection
<1> QED
  BY <1>1, ContentsFinite, FS_Surjection

(* So does the block of a settle transaction.                              *)
LEMMA SettleSealed ==
  ASSUME LedgerTypeOK, NEW t \in Tx, t.name = "settle", Settle(t)
  PROVE  BlockSealed
<1> DEFINE E == {Deposit(x, Escrow) : x \in t.items}
<1>1. t.items \in SUBSET Collectibles
  BY DEF Tx
<1>2. E \in SUBSET Event
  BY <1>1 DEF Deposit, Event
<1>3. AddsBlock(E)
  <2>1. chain' = Append(chain, E)
    BY DEF Settle, Emit
  <2>2. IsFiniteSet(E)
    BY <1>1, DepositsFinite
  <2>3. \A e \in E : EventTrue(e)'
    BY OtherEventsTrue DEF Deposit, RequestTypes
  <2> QED
    BY <1>2, <2>1, <2>2, <2>3 DEF AddsBlock
<1>4. LedgerTypeOK'
  BY <1>2, ChainAppended DEF Settle, Emit, LedgerTypeOK
<1> QED
  BY <1>3, <1>4, SamePacksStay DEF BlockSealed, Settle

(* So does the block of an update of a distribution.                       *)
LEMMA UpdateDistStateSealed ==
  ASSUME LedgerTypeOK, NEW t \in Tx, t.name = "update_dist_state",
         UpdateDistState(t)
  PROVE  BlockSealed
<1>1. t.dist \in Dists /\ t.state \in DistState
  BY DEF Tx
<1>2. AddsBlock({})
  BY FS_EmptySet DEF UpdateDistState, Emit, AddsBlock
<1>3. LedgerTypeOK'
  BY <1>1, ChainAppended DEF UpdateDistState, Emit, LedgerTypeOK
<1> QED
  BY <1>2, <1>3, SamePacksStay DEF BlockSealed, UpdateDistState

(* So does the block of a mint transaction of its own packs.               *)
LEMMA MintSealed ==
  ASSUME LedgerTypeOK, NEW t \in Tx, t.name = "mint", Mint(t),
         \A k \in DOMAIN t.hashes : ContractOf[DistOf(t.hashes[k])] = t.contract
  PROVE  BlockSealed
<1> DEFINE c == t.contract
           supply == Len(packNFT[c])
           n == Len(t.hashes)
           minted == [k \in 1..n |->
                        [hash |-> t.hashes[k], status |-> "Sealed",
                         owner |-> Issuer]]
           E == {MintEvent(c, supply + k, t.hashes[k]) : k \in 1..n}
<1>1. c \in Contracts /\ t.hashes \in Seq(Packs)
  BY DEF Tx
<1>2. /\ n \in Nat
      /\ DOMAIN t.hashes = 1..n
      /\ \A k \in 1..n : t.hashes[k] \in Packs
  BY <1>1, LenProperties, ElementOfSeq
<1>3. packNFT[c] \in Seq(PackNFT) /\ supply \in Nat
  BY <1>1, PackNFTType
<1>4. minted \in Seq(PackNFT) /\ Len(minted) = n
  BY <1>2, LedgerAssumption DEF PackNFT, Status
<1>5. /\ packNFT' = [packNFT EXCEPT ![c] = packNFT[c] \o minted]
      /\ chain' = Append(chain, E)
      /\ UNCHANGED <<holder, distState>>
  BY DEF Mint, Emit
<1>6. /\ packNFT'[c] = packNFT[c] \o minted
      /\ \A b \in Contracts \ {c} : packNFT'[b] = packNFT[b]
  BY <1>1, <1>5 DEF LedgerTypeOK
<1> HIDE DEF minted, supply, n, c
<1>7. /\ packNFT'[c] \in Seq(PackNFT)
      /\ DOMAIN packNFT'[c] = 1..(supply + n)
      /\ \A id \in 1..supply : packNFT'[c][id] = packNFT[c][id]
      /\ \A k \in 1..n : packNFT'[c][supply + k] = minted[k]
  BY <1>3, <1>4, <1>6, Concatenation DEF supply
<1>8. E \in SUBSET Event
  BY <1>1, <1>2, <1>3 DEF MintEvent, Event
<1>9. IsFiniteSet(E)
  <2> DEFINE f == [k \in 1..n |-> MintEvent(c, supply + k, t.hashes[k])]
  <2>1. f \in Surjection(1..n, E)
    BY DEF Surjection
  <2>2. IsFiniteSet(1..n)
    BY <1>2, UpToFinite
  <2> QED
    BY <2>1, <2>2, FS_Surjection
<1>10. ASSUME NEW e \in E
       PROVE  EventTrue(e)'
  <2>1. PICK k \in 1..n : e = MintEvent(c, supply + k, t.hashes[k])
    OBVIOUS
  <2>2. /\ e.type = "Mint" /\ e.contract = c
        /\ e.id = supply + k /\ e.hash = t.hashes[k]
    BY <2>1 DEF MintEvent
  <2>3. supply + k \in DOMAIN packNFT'[c]
    BY <1>2, <1>3, <1>7
  <2>4. packNFT'[c][supply + k].hash = t.hashes[k]
    <3>1. minted[k].hash = t.hashes[k]
      BY DEF minted
    <3> QED
      BY <1>7, <3>1
  <2>5. ContractOf[DistOf(t.hashes[k])] = c
    BY <1>2 DEF c
  <2> QED
    BY <2>2, <2>3, <2>4, <2>5, MintEventTrue
<1>11. AddsBlock(E)
  BY <1>5, <1>8, <1>9, <1>10 DEF AddsBlock
<1>12. PacksStay
  <2> SUFFICES ASSUME NEW b \in Contracts, NEW id \in DOMAIN packNFT[b]
               PROVE  id \in DOMAIN packNFT'[b] /\ packNFT'[b][id] = packNFT[b][id]
    BY DEF PacksStay
  <2>1. CASE b = c
    <3>1. DOMAIN packNFT[c] = 1..supply
      BY <1>3, LenProperties DEF supply
    <3> QED
      BY <1>2, <1>3, <1>7, <2>1, <3>1
  <2>2. CASE b # c
    BY <1>6, <2>2
  <2> QED
    BY <2>1, <2>2
<1>13. LedgerTypeOK'
  <2>1. packNFT' \in [Contracts -> Seq(PackNFT)]
    BY <1>1, <1>5, <1>6, <1>7 DEF LedgerTypeOK
  <2> QED
    BY <1>5, <1>8, <2>1, ChainAppended DEF LedgerTypeOK
<1> QED
  BY <1>11, <1>12, <1>13 DEF BlockSealed

(* One pack changes and the others do not.                                 *)
LEMMA OnePackChanges ==
  ASSUME LedgerTypeOK, NEW c \in Contracts, NEW id \in DOMAIN packNFT[c],
         NEW r \in PackNFT,
         packNFT' = [packNFT EXCEPT ![c] = [packNFT[c] EXCEPT ![id] = r]]
  PROVE  /\ packNFT' \in [Contracts -> Seq(PackNFT)]
         /\ id \in DOMAIN packNFT'[c]
         /\ packNFT'[c][id] = r
         /\ \A b \in Contracts : \A i \in DOMAIN packNFT[b] :
              /\ i \in DOMAIN packNFT'[b]
              /\ b # c \/ i # id => packNFT'[b][i] = packNFT[b][i]
<1> DEFINE s == [packNFT[c] EXCEPT ![id] = r]
<1>1. /\ packNFT[c] \in Seq(PackNFT)
      /\ DOMAIN packNFT[c] = 1..Len(packNFT[c])
      /\ packNFT \in [Contracts -> Seq(PackNFT)]
  BY PackNFTType DEF LedgerTypeOK
<1>2. s \in Seq(PackNFT)
  BY <1>1, ExceptSeq
<1>3. /\ DOMAIN s = DOMAIN packNFT[c]
      /\ s[id] = r
      /\ \A i \in DOMAIN packNFT[c] : i # id => s[i] = packNFT[c][i]
  OBVIOUS
<1> HIDE DEF s
<1>4. /\ packNFT' \in [Contracts -> Seq(PackNFT)]
      /\ packNFT'[c] = s
      /\ \A b \in Contracts : b # c => packNFT'[b] = packNFT[b]
  <2>1. packNFT' = [packNFT EXCEPT ![c] = s]
    BY DEF s
  <2> QED
    BY <1>1, <1>2, <2>1
<1> QED
  BY <1>3, <1>4

(* So does the block that reveals a pack.                                  *)
LEMMA PackRevealed ==
  ASSUME LedgerTypeOK, NEW c \in Contracts, NEW id, NEW p,
         CanReveal(c, id, p), Reveal(c, id)
  PROVE  BlockSealed
<1> DEFINE r == [packNFT[c][id] EXCEPT !.status = "Revealed"]
<1>1. id \in DOMAIN packNFT[c] /\ id \in Nat /\ packNFT[c][id] \in PackNFT
  BY PackNFTType DEF CanReveal, Exists
<1>2. /\ r \in PackNFT
      /\ r.hash = packNFT[c][id].hash
      /\ r.status = "Revealed"
  BY <1>1 DEF PackNFT, Status
<1>3. packNFT[c][id].status = "Sealed"
  BY DEF CanReveal
<1>4. /\ packNFT' = [packNFT EXCEPT ![c] = [packNFT[c] EXCEPT ![id] = r]]
      /\ chain' = Append(chain, {Revealed(c, id)})
      /\ UNCHANGED <<holder, distState>>
  BY DEF Reveal, Emit
<1> HIDE DEF r
<1>5. /\ packNFT' \in [Contracts -> Seq(PackNFT)]
      /\ id \in DOMAIN packNFT'[c]
      /\ packNFT'[c][id] = r
      /\ \A b \in Contracts : \A i \in DOMAIN packNFT[b] :
           /\ i \in DOMAIN packNFT'[b]
           /\ b # c \/ i # id => packNFT'[b][i] = packNFT[b][i]
  BY <1>1, <1>2, <1>4, OnePackChanges
<1>6. PacksStay
  BY <1>2, <1>3, <1>5 DEF PacksStay
<1>7. {Revealed(c, id)} \in SUBSET Event
  BY <1>1 DEF Revealed, Event
<1>8. AddsBlock({Revealed(c, id)})
  <2>1. EventTrue(Revealed(c, id))'
    BY <1>2, <1>5 DEF EventTrue, Exists, Revealed, RequestTypes
  <2> QED
    BY <1>4, <1>7, <2>1, FS_Singleton DEF AddsBlock
<1>9. LedgerTypeOK'
  BY <1>4, <1>5, <1>7, ChainAppended DEF LedgerTypeOK
<1> QED
  BY <1>6, <1>8, <1>9 DEF BlockSealed

(* So does the block that opens a pack.                                    *)
LEMMA PackOpened ==
  ASSUME LedgerTypeOK, NEW c \in Contracts, NEW id, NEW p \in Packs,
         NEW a \in Accounts, CanOpen(c, id, p), Open(c, id, p, a)
  PROVE  BlockSealed
<1> DEFINE r == [packNFT[c][id] EXCEPT !.status = "Opened"]
           E == {Opened(c, id)} \union {Deposit(x, a) : x \in Contents[p]}
<1>1. id \in DOMAIN packNFT[c] /\ id \in Nat /\ packNFT[c][id] \in PackNFT
  BY PackNFTType DEF CanOpen, Exists
<1>2. /\ r \in PackNFT
      /\ r.hash = packNFT[c][id].hash
      /\ r.status = "Opened"
  BY <1>1 DEF PackNFT, Status
<1>3. Contents[p] \in SUBSET Collectibles
  BY LedgerAssumption
<1>4. /\ packNFT' = [packNFT EXCEPT ![c] = [packNFT[c] EXCEPT ![id] = r]]
      /\ chain' = Append(chain, E)
      /\ distState' = distState
      /\ holder' = [x \in Collectibles |->
                      IF x \in Contents[p] THEN a ELSE holder[x]]
  BY DEF Open, Emit
<1> HIDE DEF r
<1>5. /\ packNFT' \in [Contracts -> Seq(PackNFT)]
      /\ id \in DOMAIN packNFT'[c]
      /\ packNFT'[c][id] = r
      /\ \A b \in Contracts : \A i \in DOMAIN packNFT[b] :
           /\ i \in DOMAIN packNFT'[b]
           /\ b # c \/ i # id => packNFT'[b][i] = packNFT[b][i]
  BY <1>1, <1>2, <1>4, OnePackChanges
<1>6. PacksStay
  BY <1>2, <1>5 DEF PacksStay
<1>7. E \in SUBSET Event
  BY <1>1, <1>3 DEF Opened, Deposit, Event
<1>8. AddsBlock(E)
  <2>1. EventTrue(Opened(c, id))'
    BY <1>2, <1>5 DEF EventTrue, Exists, Opened, RequestTypes
  <2>2. \A e \in {Deposit(x, a) : x \in Contents[p]} : EventTrue(e)'
    BY OtherEventsTrue DEF Deposit, RequestTypes
  <2>3. IsFiniteSet(E)
    <3>1. IsFiniteSet({Deposit(x, a) : x \in Contents[p]})
      BY <1>3, DepositsFinite
    <3>2. IsFiniteSet({Opened(c, id)})
      BY FS_Singleton
    <3> HIDE DEF E
    <3>3. E = {Opened(c, id)} \union {Deposit(x, a) : x \in Contents[p]}
      BY DEF E
    <3> QED
      BY <3>1, <3>2, <3>3, FS_Union
  <2> QED
    BY <1>4, <1>7, <2>1, <2>2, <2>3 DEF AddsBlock
<1>9. LedgerTypeOK'
  <2>1. holder' \in [Collectibles -> Accounts \union {Escrow}]
    BY <1>4 DEF LedgerTypeOK
  <2> QED
    BY <1>4, <1>5, <1>7, <2>1, ChainAppended DEF LedgerTypeOK
<1> QED
  BY <1>6, <1>8, <1>9 DEF BlockSealed

(* Whatever transaction of the service is executed, one block is sealed.   *)
LEMMA ExecuteSealed ==
  ASSUME LedgerTypeOK, MintsOwnPacks, NEW t \in pending, t \in Tx, Execute(t)
  PROVE  BlockSealed
<1>1. CASE ~Succeeds(t)
  BY <1>1, EmptyBlockSealed DEF Execute
<1>2. CASE Succeeds(t)
  <2>1. Apply(t)
    BY <1>2 DEF Execute
  <2>2. CASE t.name = "settle"
    BY <2>1, <2>2, SettleSealed DEF Apply
  <2>3. CASE t.name = "mint"
    BY <2>1, <2>3, MintSealed DEF Apply, MintsOwnPacks
  <2>4. CASE t.name = "update_dist_state"
    BY <2>1, <2>4, UpdateDistStateSealed DEF Apply
  <2>5. CASE t.name = "reveal"
    <3>1. t.contract \in Contracts /\ t.pack \in Packs /\ t.owner \in Accounts
      BY <2>5 DEF Tx
    <3>2. CASE OpensRevealed(t)
      BY <1>2, <2>1, <2>5, <3>1, <3>2, PackOpened DEF Apply, Succeeds
    <3>3. CASE ~OpensRevealed(t)
      BY <1>2, <2>1, <2>5, <3>1, <3>3, PackRevealed DEF Apply, Succeeds
    <3> QED
      BY <3>2, <3>3
  <2>6. CASE t.name = "open"
    <3>1. t.contract \in Contracts /\ t.pack \in Packs /\ t.owner \in Accounts
      BY <2>6 DEF Tx
    <3> QED
      BY <1>2, <2>1, <2>6, <3>1, PackOpened DEF Apply, Succeeds
  <2> QED
    BY <2>1, <2>2, <2>3, <2>4, <2>5, <2>6 DEF Apply
<1> QED
  BY <1>1, <1>2

(* The transactions of the owners.                                         *)

(* So does the block of a request of an owner.                             *)
LEMMA RequestSealed ==
  ASSUME LedgerTypeOK, NEW c \in Contracts, NEW a \in Accounts,
         NEW o \in BOOLEAN, NEW id \in DOMAIN packNFT[c],
         RequestReveal(c, id, a, o) \/ RequestOpen(c, id, a)
  PROVE  BlockSealed
<1>1. id \in Nat
  BY PackNFTType
<1>2. PICK e \in Event :
        /\ e.type \in {"RevealRequest", "OpenRequest"}
        /\ e.contract = c /\ e.id = id
        /\ chain' = Append(chain, {e})
  BY <1>1 DEF RequestReveal, RequestOpen, Emit, RevealRequest, OpenRequest, Event
<1>3. UNCHANGED <<packNFT, holder, distState>>
  BY DEF RequestReveal, RequestOpen
<1>4. AddsBlock({e})
  <2>1. EventTrue(e)'
    BY <1>2, <1>3 DEF EventTrue, Exists
  <2> QED
    BY <1>2, <2>1, FS_Singleton DEF AddsBlock
<1>5. LedgerTypeOK'
  BY <1>2, <1>3, ChainAppended DEF LedgerTypeOK
<1> QED
  BY <1>3, <1>4, <1>5, SamePacksStay DEF BlockSealed

(* So does the block that transfers a pack.                                *)
LEMMA TransferSealed ==
  ASSUME LedgerTypeOK, NEW c \in Contracts, NEW id \in DOMAIN packNFT[c],
         NEW a \in Accounts, NEW b \in Accounts, TransferPack(c, id, a, b)
  PROVE  BlockSealed
<1> DEFINE r == [packNFT[c][id] EXCEPT !.owner = b]
<1>1. packNFT[c][id] \in PackNFT
  BY PackNFTType
<1>2. /\ r \in PackNFT
      /\ r.hash = packNFT[c][id].hash
      /\ r.status = packNFT[c][id].status
  BY <1>1 DEF PackNFT
<1>3. /\ packNFT' = [packNFT EXCEPT ![c] = [packNFT[c] EXCEPT ![id] = r]]
      /\ chain' = Append(chain, {})
      /\ UNCHANGED <<holder, distState>>
  BY DEF TransferPack, Emit
<1> HIDE DEF r
<1>4. /\ packNFT' \in [Contracts -> Seq(PackNFT)]
      /\ packNFT'[c][id] = r
      /\ \A k \in Contracts : \A i \in DOMAIN packNFT[k] :
           /\ i \in DOMAIN packNFT'[k]
           /\ k # c \/ i # id => packNFT'[k][i] = packNFT[k][i]
  BY <1>2, <1>3, OnePackChanges
<1>5. PacksStay
  BY <1>2, <1>4 DEF PacksStay
<1>6. AddsBlock({})
  BY <1>3, FS_EmptySet DEF AddsBlock
<1>7. LedgerTypeOK'
  BY <1>3, <1>4, ChainAppended DEF LedgerTypeOK
<1> QED
  BY <1>5, <1>6, <1>7 DEF BlockSealed

(* So does the block that sends a collectible.                             *)
LEMMA SendSealed ==
  ASSUME LedgerTypeOK, NEW x \in Collectibles, NEW a \in Accounts,
         NEW b \in Accounts \union {Escrow}, SendCollectible(x, a, b)
  PROVE  BlockSealed
<1>1. {Deposit(x, b)} \in SUBSET Event
  BY DEF Deposit, Event
<1>2. AddsBlock({Deposit(x, b)})
  BY <1>1, OtherEventsTrue, FS_Singleton
     DEF SendCollectible, Emit, AddsBlock, Deposit, RequestTypes
<1>3. LedgerTypeOK'
  BY <1>1, ChainAppended DEF SendCollectible, Emit, LedgerTypeOK
<1> QED
  BY <1>2, <1>3, SamePacksStay DEF BlockSealed, SendCollectible

----------------------------------------------------------------------------
(* A block leaves what the database says of the chain true.                *)

Inv == TypeOK /\ Consistent

(* An event that is true stays true after a block.                         *)
LEMMA EventsStayTrue ==
  ASSUME LedgerTypeOK, PacksStay, NEW e \in Event, EventTrue(e)
  PROVE  EventTrue(e)'
<1>1. CASE e.type \in RequestTypes \union {"Mint"}
  <2>1. e.contract \in Contracts
    BY <1>1 DEF Event, RequestTypes
  <2> QED
    BY <1>1, <2>1 DEF EventTrue, Exists, PacksStay, RequestTypes
<1>2. CASE e.type \notin RequestTypes \union {"Mint"}
  BY <1>2, OtherEventsTrue
<1> QED
  BY <1>1, <1>2

(* A block keeps the invariant when the tables stay.                       *)
LEMMA BlockKeepsInv ==
  ASSUME Inv, BlockSealed,
         UNCHANGED <<dist, pack, settlement, minting, circulating>>,
         pending' \subseteq pending
  PROVE  Inv'
<1> USE DEF Inv, Consistent, TypeOK
<1>1. PICK E : AddsBlock(E)
  BY DEF BlockSealed
<1>2. /\ height' = height + 1
      /\ height \in Nat
      /\ \A b \in 1..height : chain'[b] = chain[b]
      /\ chain'[height + 1] = E
  BY <1>1, ChainAppended DEF AddsBlock, height
<1>3. ChainTrue'
  <2>1. height' >= 1
    BY <1>2
  <2>2. ASSUME NEW b \in 1..height
        PROVE  IsFiniteSet(chain'[b]) /\ \A e \in chain'[b] : EventTrue(e)'
    <3>1. chain[b] \in SUBSET Event
      BY <1>2, ElementOfSeq DEF LedgerTypeOK, height
    <3>2. IsFiniteSet(chain[b]) /\ \A e \in chain[b] : EventTrue(e)
      BY DEF ChainTrue
    <3> QED
      BY <1>2, <3>1, <3>2, EventsStayTrue DEF BlockSealed
  <2>3. IsFiniteSet(chain'[height + 1]) /\ \A e \in chain'[height + 1] : EventTrue(e)'
    BY <1>1, <1>2 DEF AddsBlock
  <2>4. \A b \in 1..height' : b \in 1..height \/ b = height + 1
    BY <1>2
  <2> QED
    BY <2>1, <2>2, <2>3, <2>4 DEF ChainTrue
<1>4. StoreFollowsLedger'
  <2> SUFFICES ASSUME NEW p \in Packs, pack[p].state # "init"
               PROVE  LET c  == ContractOf[DistOf(p)]
                          id == pack[p].flowID
                      IN /\ id \in DOMAIN packNFT'[c]
                         /\ packNFT'[c][id].hash = p
                         /\ pack[p].state \in {"revealed", "open-request-handled"}
                              => packNFT'[c][id].status \in {"Revealed", "Opened"}
                         /\ pack[p].state = "opened"
                              => packNFT'[c][id].status = "Opened"
    BY DEF StoreFollowsLedger, Exists
  <2> DEFINE c  == ContractOf[DistOf(p)]
             id == pack[p].flowID
  <2>1. c \in Contracts
    BY DistOfPack, StoreAssumption
  <2>2. /\ id \in DOMAIN packNFT[c]
        /\ packNFT[c][id].hash = p
        /\ pack[p].state \in {"revealed", "open-request-handled"}
             => packNFT[c][id].status \in {"Revealed", "Opened"}
        /\ pack[p].state = "opened" => packNFT[c][id].status = "Opened"
    BY DEF StoreFollowsLedger, Exists
  <2>3. /\ id \in DOMAIN packNFT'[c]
        /\ packNFT'[c][id].hash = packNFT[c][id].hash
        /\ packNFT[c][id].status # "Sealed" => packNFT'[c][id].status # "Sealed"
        /\ packNFT[c][id].status = "Opened" => packNFT'[c][id].status = "Opened"
    BY <2>1, <2>2 DEF BlockSealed, PacksStay
  <2>4. packNFT'[c][id].status \in Status
    <3>1. packNFT'[c] \in Seq(PackNFT)
      BY <2>1 DEF BlockSealed, LedgerTypeOK
    <3>2. packNFT'[c][id] \in PackNFT
      BY <2>3, <3>1, ElementOfSeq, LenProperties
    <3> QED
      BY <3>2 DEF PackNFT
  <2> QED
    BY <2>2, <2>3, <2>4 DEF Status
<1>5. TypeOK'
  BY DEF BlockSealed, StoreTypeOK
<1>6. MintsOwnPacks' /\ RowsExist' /\ UnsealedHasNoID'
  BY DEF MintsOwnPacks, RowsExist, InState, UnsealedHasNoID
<1> QED
  BY <1>3, <1>4, <1>5, <1>6

(* A handler of the service adds no block.                                 *)
LEMMA NoBlockKeepsLedger ==
  ASSUME Inv, UNCHANGED ledgerVars
  PROVE  LedgerTypeOK' /\ ChainTrue'
BY DEF Inv, TypeOK, Consistent, ledgerVars, LedgerTypeOK, ChainTrue, height,
       EventTrue, Exists

(* A step that changes neither side keeps StoreFollowsLedger.              *)
LEMMA SamePacksInDatabase ==
  ASSUME Inv, UNCHANGED <<ledgerVars, pack>>
  PROVE  StoreFollowsLedger' /\ UnsealedHasNoID'
BY DEF Inv, Consistent, ledgerVars, StoreFollowsLedger, UnsealedHasNoID, Exists

(* The blocks of a poll are blocks of the chain.                           *)
LEMMA BlocksOfPoll ==
  ASSUME Inv, NEW s \in Nat
  PROVE  /\ Blocks(s) \in SUBSET (1..height)
         /\ IsFiniteSet(Blocks(s))
         /\ NextStart(s) \in Nat
         /\ s <= NextStart(s)
<1>1. height \in Nat
  BY LenProperties DEF Inv, TypeOK, LedgerTypeOK, height
<1>2. MaxBlocksPerCheck \in Nat
  BY StoreAssumption
<1>3. RangeEnd(s) \in Nat /\ RangeEnd(s) <= height
  BY <1>1, <1>2 DEF RangeEnd, Min2
<1>4. Blocks(s) \in SUBSET (1..height)
  BY <1>1, <1>3 DEF Blocks
<1>5. IsFiniteSet(Blocks(s))
  BY <1>3, FS_Interval DEF Blocks
<1>6. CASE Blocks(s) = {}
  BY <1>4, <1>5, <1>6 DEF NextStart
<1>7. CASE Blocks(s) # {}
  <2>1. s + 1 <= RangeEnd(s)
    BY <1>3, <1>7 DEF Blocks
  <2> QED
    BY <1>3, <1>4, <1>5, <1>7, <2>1 DEF NextStart
<1> QED
  BY <1>6, <1>7

(* A poll reads sealed blocks, whose events are true.                      *)
LEMMA EventsOfPoll ==
  ASSUME Inv, NEW s \in Nat
  PROVE  /\ EventsIn(Blocks(s)) \in SUBSET Event
         /\ IsFiniteSet(EventsIn(Blocks(s)))
         /\ \A e \in EventsIn(Blocks(s)) : EventTrue(e)
<1> DEFINE B == Blocks(s)
           T == {chain[b] : b \in B}
           f == [b \in B |-> chain[b]]
<1>1. B \in SUBSET (1..height) /\ IsFiniteSet(B)
  BY BlocksOfPoll
<1>2. \A b \in B :
        /\ chain[b] \in SUBSET Event
        /\ IsFiniteSet(chain[b])
        /\ \A e \in chain[b] : EventTrue(e)
  <2>1. chain \in Seq(SUBSET Event)
    BY DEF Inv, TypeOK, LedgerTypeOK
  <2> QED
    BY <1>1, <2>1, ElementOfSeq DEF Inv, Consistent, ChainTrue, height
<1> HIDE DEF B
<1>3. IsFiniteSet(T)
  <2>1. f \in Surjection(B, T)
    BY DEF Surjection
  <2> QED
    BY <1>1, <2>1, FS_Surjection
<1>4. IsFiniteSet(UNION T)
  BY <1>2, <1>3, FS_UNION
<1> QED
  BY <1>2, <1>4 DEF EventsIn, B

----------------------------------------------------------------------------
(* The handlers that only change the state of distributions.               *)

(* SetState keeps the type of dist.                                        *)
LEMMA SetStateType ==
  ASSUME Inv, NEW D, NEW t \in DistributionState
  PROVE  SetState(D, t) \in [Dists -> DistributionState]
BY DEF Inv, TypeOK, StoreTypeOK, SetState

(* CreateDistribution keeps the invariant.                                 *)
LEMMA CreateKeepsInv ==
  ASSUME Inv, Create
  PROVE  Inv'
<1>1. PICK d \in Dists : CreateDistribution(d)
  BY DEF Create
<1>2. StoreTypeOK'
  BY <1>1 DEF CreateDistribution, Inv, TypeOK, StoreTypeOK, DistributionState
<1>3. RowsExist' /\ MintsOwnPacks'
  BY <1>1 DEF CreateDistribution, Inv, Consistent, TypeOK, StoreTypeOK,
              RowsExist, InState, MintsOwnPacks
<1> QED
  BY <1>1, <1>2, <1>3, NoBlockKeepsLedger, SamePacksInDatabase
     DEF CreateDistribution, Inv, Consistent, TypeOK

(* AbortDistribution keeps the invariant.                                  *)
LEMMA AbortKeepsInv ==
  ASSUME Inv, Abort
  PROVE  Inv'
<1>1. PICK d \in Dists : AbortDistribution(d)
  BY ServiceAssumption DEF Abort
<1>2. UpdateStateTx(d, 1) \in Tx /\ UpdateStateTx(d, 1).name # "mint"
  BY DEF UpdateStateTx, Tx, DistState
<1>3. StoreTypeOK'
  BY <1>1, <1>2 DEF AbortDistribution, Inv, TypeOK, StoreTypeOK, DistributionState
<1>4. RowsExist'
  BY <1>1 DEF AbortDistribution, Inv, Consistent, TypeOK, StoreTypeOK,
              RowsExist, InState
<1>5. MintsOwnPacks'
  BY <1>1, <1>2 DEF AbortDistribution, Inv, Consistent, MintsOwnPacks
<1> QED
  BY <1>1, <1>3, <1>4, <1>5, NoBlockKeepsLedger, SamePacksInDatabase
     DEF AbortDistribution, Inv, Consistent, TypeOK

(* HandleResolved keeps the invariant.                                     *)
LEMMA ResolvedKeepsInv ==
  ASSUME Inv, HandleResolved
  PROVE  Inv'
<1>1. StoreTypeOK'
  BY SetStateType DEF HandleResolved, Inv, TypeOK, StoreTypeOK, DistributionState
<1>2. RowsExist' /\ MintsOwnPacks'
  BY DEF HandleResolved, SetState, Inv, Consistent, RowsExist, InState,
         MintsOwnPacks
<1> QED
  BY <1>1, <1>2, NoBlockKeepsLedger, SamePacksInDatabase
     DEF HandleResolved, Inv, Consistent, TypeOK

(* The handlers of the settlement.                                         *)

(* The batches of a settlement are settle transactions.                    *)
LEMMA SettleBatchesType ==
  ASSUME NEW d \in Dists, NEW t \in SettleBatches(d)
  PROVE  t \in Tx /\ t.name # "mint"
<1>1. /\ CollectibleRows[d] \in Seq(Collectibles)
      /\ SettlementBatchSize \in Nat \ {0}
  BY StoreAssumption
<1>2. PICK k \in 1..NumBatches(CollectibleRows[d], SettlementBatchSize) :
        t = SettleTx(d, Elems(Batch(CollectibleRows[d], SettlementBatchSize, k)))
  BY DEF SettleBatches
<1>3. Batch(CollectibleRows[d], SettlementBatchSize, k) \in Seq(Collectibles)
  BY <1>1, BatchOfRows
<1>4. Elems(Batch(CollectibleRows[d], SettlementBatchSize, k)) \in SUBSET Collectibles
  BY <1>3, ElementOfSeq, LenProperties DEF Elems
<1> QED
  BY <1>2, <1>4 DEF SettleTx, Tx

(* A new row starts at a block number.                                     *)
LEMMA NewRowStart ==
  ASSUME Inv
  PROVE  height - 1 \in Nat
BY LenProperties DEF Inv, Consistent, ChainTrue, TypeOK, LedgerTypeOK, height

(* HandleSetup keeps the invariant.                                        *)
LEMMA SetupKeepsInv ==
  ASSUME Inv, HandleSetup
  PROVE  Inv'
<1> DEFINE D == InState("setup")
           New == UNION {SettleBatches(d) : d \in D}
<1>1. D \in SUBSET Dists
  BY DEF InState
<1>2. \A t \in New : t \in Tx /\ t.name # "mint"
  BY <1>1, SettleBatchesType
<1>3. /\ dist' = SetState(D, "settling")
      /\ settlement' = [d \in Dists |->
                          IF d \in D THEN NewSettlement(d) ELSE settlement[d]]
      /\ pending' = pending \union New
      /\ UNCHANGED <<ledgerVars, pack, minting, circulating>>
  BY DEF HandleSetup
<1>4. \A d \in Dists :
        /\ NewSettlement(d) \in SettlementRow
        /\ NewSettlement(d).startAt # NoRow
  <2> TAKE d \in Dists
  <2>1. Len(CollectibleRows[d]) \in Nat
    BY StoreAssumption, LenProperties
  <2>2. height - 1 \in Nat
    BY NewRowStart
  <2> QED
    BY <2>1, <2>2 DEF NewSettlement, SettlementRow
<1>5. StoreTypeOK'
  <2>1. dist' \in [Dists -> DistributionState]
    BY <1>3, SetStateType DEF DistributionState
  <2>2. settlement' \in [Dists -> SettlementRow]
    BY <1>3, <1>4 DEF Inv, TypeOK, StoreTypeOK
  <2>3. pending' \in SUBSET Tx
    BY <1>2, <1>3 DEF Inv, TypeOK, StoreTypeOK
  <2> QED
    BY <1>3, <2>1, <2>2, <2>3 DEF Inv, TypeOK, StoreTypeOK
<1>6. RowsExist'
  BY <1>3, <1>4 DEF SetState, Inv, Consistent, RowsExist, InState
<1>7. MintsOwnPacks'
  BY <1>2, <1>3 DEF Inv, Consistent, MintsOwnPacks
<1> QED
  BY <1>3, <1>5, <1>6, <1>7, NoBlockKeepsLedger, SamePacksInDatabase
     DEF Inv, Consistent, TypeOK

(* HandleSettling keeps the invariant.                                     *)
LEMMA SettlingKeepsInv ==
  ASSUME Inv, HandleSettling
  PROVE  Inv'
<1> DEFINE D == InState("settling")
           C == {d \in D : SettlementComplete(d)}
<1>1. /\ dist' = SetState(C, "settled")
      /\ settlement' = [d \in Dists |->
                          IF d \in D THEN UpdatedSettlement(d) ELSE settlement[d]]
      /\ UNCHANGED <<ledgerVars, pack, minting, circulating, pending>>
  BY DEF HandleSettling
<1>2. \A d \in D :
        /\ UpdatedSettlement(d) \in SettlementRow
        /\ UpdatedSettlement(d).startAt # NoRow
  <2> TAKE d \in D
  <2>1. /\ d \in Dists
        /\ settlement[d] \in SettlementRow
        /\ settlement[d].startAt # NoRow
    BY DEF InState, Inv, TypeOK, StoreTypeOK, Consistent, RowsExist
  <2>2. settlement[d].startAt \in Nat
    BY <2>1 DEF SettlementRow
  <2>3. NextStart(settlement[d].startAt) \in Nat
    BY <2>2, BlocksOfPoll
  <2>4. NewlySettled(d) \in SUBSET Collectibles
    BY <2>1, ItemsOfDist DEF NewlySettled
  <2>5. Cardinality(NewlySettled(d)) \in Nat
    BY <2>4, ContentsFinite
  <2> QED
    BY <2>1, <2>3, <2>4, <2>5 DEF UpdatedSettlement, SettlementRow
<1>3. StoreTypeOK'
  <2>1. dist' \in [Dists -> DistributionState]
    BY <1>1, SetStateType DEF DistributionState
  <2>2. settlement' \in [Dists -> SettlementRow]
    BY <1>1, <1>2 DEF Inv, TypeOK, StoreTypeOK
  <2> QED
    BY <1>1, <2>1, <2>2 DEF Inv, TypeOK, StoreTypeOK
<1>4. RowsExist'
  BY <1>1, <1>2 DEF SetState, Inv, Consistent, RowsExist, InState
<1>5. MintsOwnPacks'
  BY <1>1 DEF Inv, Consistent, MintsOwnPacks
<1> QED
  BY <1>1, <1>3, <1>4, <1>5, NoBlockKeepsLedger, SamePacksInDatabase
     DEF Inv, Consistent, TypeOK

(* The handlers of the minting.                                            *)

(* The batches of a minting mint packs of their distribution.              *)
LEMMA MintBatchesType ==
  ASSUME NEW d \in Dists, NEW t \in MintBatches(d)
  PROVE  /\ t \in Tx
         /\ \A k \in DOMAIN t.hashes : ContractOf[DistOf(t.hashes[k])] = t.contract
<1>1. /\ PackRows[d] \in Seq(Packs)
      /\ MintingBatchSize \in Nat \ {0}
      /\ ContractOf[d] \in Contracts
  BY StoreAssumption
<1>2. PICK k \in 1..NumBatches(PackRows[d], MintingBatchSize) :
        t = MintTx(d, ContractOf[d], Batch(PackRows[d], MintingBatchSize, k))
  BY DEF MintBatches
<1> DEFINE hs == Batch(PackRows[d], MintingBatchSize, k)
<1>3. /\ hs \in Seq(Packs)
      /\ \A i \in DOMAIN hs : hs[i] \in PacksOf(d)
  BY <1>1, BatchOfRows DEF PacksOf
<1>4. \A i \in DOMAIN hs : DistOf(hs[i]) = d
  BY <1>3, PackOfDist
<1> HIDE DEF hs
<1>5. t = [name |-> "mint", dist |-> d, contract |-> ContractOf[d], hashes |-> hs]
  BY <1>2 DEF MintTx, hs
<1>6. t \in Tx
  BY <1>1, <1>3, <1>5 DEF Tx
<1>7. t.hashes = hs /\ t.contract = ContractOf[d]
  BY <1>5
<1> QED
  BY <1>4, <1>6, <1>7

(* HandleSettled keeps the invariant.                                      *)
LEMMA SettledKeepsInv ==
  ASSUME Inv, HandleSettled
  PROVE  Inv'
<1> DEFINE D == InState("settled")
           New == UNION {MintBatches(d) : d \in D}
<1>1. D \in SUBSET Dists
  BY DEF InState
<1>2. \A t \in New :
        /\ t \in Tx
        /\ \A k \in DOMAIN t.hashes : ContractOf[DistOf(t.hashes[k])] = t.contract
  BY <1>1, MintBatchesType
<1>3. /\ dist' = SetState(D, "minting")
      /\ circulating' = [c \in Contracts |->
                           IF \E d \in D : ContractOf[d] = c
                           THEN StartCirculating(c) ELSE circulating[c]]
      /\ minting' = [d \in Dists |->
                       IF d \in D THEN NewMinting(d) ELSE minting[d]]
      /\ pending' = pending \union New
      /\ UNCHANGED <<ledgerVars, pack, settlement>>
  BY DEF HandleSettled
<1>4. \A d \in Dists :
        /\ NewMinting(d) \in MintingRow
        /\ NewMinting(d).startAt # NoRow
  <2> TAKE d \in Dists
  <2>1. Len(PackRows[d]) \in Nat
    BY StoreAssumption, LenProperties
  <2>2. height - 1 \in Nat
    BY NewRowStart
  <2> QED
    BY <2>1, <2>2 DEF NewMinting, MintingRow
<1>5. \A c \in Contracts : StartCirculating(c) \in Nat
  <2> TAKE c \in Contracts
  <2>1. circulating[c] \in Nat \union {NoRow}
    BY DEF Inv, TypeOK, StoreTypeOK
  <2>2. height - 1 \in Nat
    BY NewRowStart
  <2> QED
    BY <2>1, <2>2 DEF StartCirculating, Min2
<1>6. StoreTypeOK'
  <2>1. dist' \in [Dists -> DistributionState]
    BY <1>3, SetStateType DEF DistributionState
  <2>2. minting' \in [Dists -> MintingRow]
    BY <1>3, <1>4 DEF Inv, TypeOK, StoreTypeOK
  <2>3. circulating' \in [Contracts -> Nat \union {NoRow}]
    BY <1>3, <1>5 DEF Inv, TypeOK, StoreTypeOK
  <2>4. pending' \in SUBSET Tx
    BY <1>2, <1>3 DEF Inv, TypeOK, StoreTypeOK
  <2> QED
    BY <1>3, <2>1, <2>2, <2>3, <2>4 DEF Inv, TypeOK, StoreTypeOK
<1>7. RowsExist'
  BY <1>3, <1>4 DEF SetState, Inv, Consistent, RowsExist, InState
<1>8. MintsOwnPacks'
  BY <1>2, <1>3 DEF Inv, Consistent, MintsOwnPacks
<1> QED
  BY <1>3, <1>6, <1>7, <1>8, NoBlockKeepsLedger, SamePacksInDatabase
     DEF Inv, Consistent, TypeOK

(* A mint event that a minting distribution reads tells the id that the    *)
(* pack with its hash has in the contract of that pack.                    *)
LEMMA MintsSeenTrue ==
  ASSUME Inv, NEW d \in InState("minting")
  PROVE  /\ IsFiniteSet(MintsSeen(d))
         /\ \A e \in MintsSeen(d) :
              /\ e.hash \in Packs
              /\ e.id \in Nat
              /\ e.id \in DOMAIN packNFT[ContractOf[DistOf(e.hash)]]
              /\ packNFT[ContractOf[DistOf(e.hash)]][e.id].hash = e.hash
<1> DEFINE E == EventsIn(Blocks(minting[d].startAt))
<1>1. minting[d].startAt \in Nat
  BY DEF InState, Inv, TypeOK, StoreTypeOK, Consistent, RowsExist, MintingRow
<1>2. /\ E \in SUBSET Event
      /\ IsFiniteSet(E)
      /\ \A e \in E : EventTrue(e)
  BY <1>1, EventsOfPoll
<1> HIDE DEF E
<1>3. /\ MintsSeen(d) \in SUBSET E
      /\ \A e \in MintsSeen(d) : e.type = "Mint"
  BY DEF MintsSeen, E
<1>4. \A e \in MintsSeen(d) : e.hash \in Packs /\ e.id \in Nat
  BY <1>2, <1>3 DEF Event
<1>5. \A e \in MintsSeen(d) :
        /\ e.id \in DOMAIN packNFT[ContractOf[DistOf(e.hash)]]
        /\ packNFT[ContractOf[DistOf(e.hash)]][e.id].hash = e.hash
  BY <1>2, <1>3 DEF EventTrue, Exists
<1> QED
  BY <1>2, <1>3, <1>4, <1>5, FS_Subset

(* What sealing the packs of the mint events of a poll does.               *)
LEMMA SealedPacks ==
  ASSUME Inv, HandleMinting
  PROVE  /\ pack' \in [Packs -> PackRow]
         /\ \A p \in Packs :
              \/ pack'[p] = pack[p]
              \/ LET c == ContractOf[DistOf(p)] IN
                 /\ pack[p].state = "init"
                 /\ pack'[p].state = "sealed"
                 /\ pack'[p].flowID \in DOMAIN packNFT[c]
                 /\ packNFT[c][pack'[p].flowID].hash = p
<1> DEFINE E == MintsSeenBy(InState("minting"))
<1>1. \A e \in E :
        /\ e.hash \in Packs
        /\ e.id \in Nat
        /\ e.id \in DOMAIN packNFT[ContractOf[DistOf(e.hash)]]
        /\ packNFT[ContractOf[DistOf(e.hash)]][e.id].hash = e.hash
        /\ pack[e.hash].state = "init"
  BY MintsSeenTrue DEF MintsSeenBy, HandleMinting, MintingFails
<1> HIDE DEF E
<1>2. pack' = Seal(E)
  BY DEF HandleMinting, E
<1>3. ASSUME NEW p \in Packs, \E e \in E : e.hash = p
      PROVE  \E e \in E : /\ e.hash = p
                          /\ pack'[p] = [state |-> "sealed", flowID |-> e.id]
  BY <1>2, <1>3 DEF Seal
<1>4. ASSUME NEW p \in Packs, ~ \E e \in E : e.hash = p
      PROVE  pack'[p] = pack[p]
  BY <1>2, <1>4 DEF Seal
<1>5. ASSUME NEW p \in Packs
      PROVE  pack'[p] \in PackRow
  <2>1. CASE \E e \in E : e.hash = p
    <3>1. PICK e \in E : pack'[p] = [state |-> "sealed", flowID |-> e.id]
      BY <1>3, <2>1
    <3>2. e.id \in Nat
      BY <1>1
    <3> QED
      BY <3>1, <3>2 DEF PackRow, PackState
  <2>2. CASE ~ \E e \in E : e.hash = p
    BY <1>4, <2>2 DEF Inv, TypeOK, StoreTypeOK
  <2> QED
    BY <2>1, <2>2
<1>6. pack' \in [Packs -> PackRow]
  BY <1>2, <1>5 DEF Seal
<1>7. ASSUME NEW p \in Packs, \E e \in E : e.hash = p
      PROVE  LET c == ContractOf[DistOf(p)] IN
             /\ pack[p].state = "init"
             /\ pack'[p].state = "sealed"
             /\ pack'[p].flowID \in DOMAIN packNFT[c]
             /\ packNFT[c][pack'[p].flowID].hash = p
  <2>1. PICK e \in E : /\ e.hash = p
                       /\ pack'[p] = [state |-> "sealed", flowID |-> e.id]
    BY <1>3, <1>7
  <2> QED
    BY <1>1, <2>1
<1> QED
  BY <1>4, <1>6, <1>7

(* HandleMinting keeps the invariant.                                      *)
LEMMA MintingKeepsInv ==
  ASSUME Inv, HandleMinting
  PROVE  Inv'
<1> DEFINE D == InState("minting")
           C == {d \in D : MintingComplete(d)}
<1>1. /\ dist' = SetState(C, "complete")
      /\ minting' = [d \in Dists |->
                       IF d \in D THEN UpdatedMinting(d) ELSE minting[d]]
      /\ pending' = pending \union {UpdateStateTx(d, 2) : d \in C}
      /\ UNCHANGED <<ledgerVars, settlement, circulating>>
  BY DEF HandleMinting
<1>2. \A d \in D :
        /\ UpdatedMinting(d) \in MintingRow
        /\ UpdatedMinting(d).startAt # NoRow
  <2> TAKE d \in D
  <2>1. /\ d \in Dists
        /\ minting[d] \in MintingRow
        /\ minting[d].startAt # NoRow
    BY DEF InState, Inv, TypeOK, StoreTypeOK, Consistent, RowsExist
  <2>2. minting[d].startAt \in Nat
    BY <2>1 DEF MintingRow
  <2>3. NextStart(minting[d].startAt) \in Nat
    BY <2>2, BlocksOfPoll
  <2>4. Cardinality(MintsSeen(d)) \in Nat
    BY MintsSeenTrue, FS_CardinalityType
  <2> QED
    BY <2>1, <2>3, <2>4 DEF UpdatedMinting, MintingRow
<1>3. \A d \in C : UpdateStateTx(d, 2) \in Tx /\ UpdateStateTx(d, 2).name # "mint"
  BY DEF InState, UpdateStateTx, Tx, DistState
<1>4. StoreTypeOK'
  <2>1. dist' \in [Dists -> DistributionState]
    BY <1>1, SetStateType DEF DistributionState
  <2>2. minting' \in [Dists -> MintingRow]
    BY <1>1, <1>2 DEF Inv, TypeOK, StoreTypeOK
  <2>3. pending' \in SUBSET Tx
    BY <1>1, <1>3 DEF Inv, TypeOK, StoreTypeOK
  <2> QED
    BY <1>1, <2>1, <2>2, <2>3, SealedPacks DEF Inv, TypeOK, StoreTypeOK
<1>5. RowsExist'
  BY <1>1, <1>2 DEF SetState, Inv, Consistent, RowsExist, InState
<1>6. MintsOwnPacks'
  BY <1>1, <1>3 DEF Inv, Consistent, MintsOwnPacks
<1>7. UnsealedHasNoID'
  BY SealedPacks DEF Inv, Consistent, UnsealedHasNoID
<1>8. StoreFollowsLedger'
  <2> SUFFICES ASSUME NEW p \in Packs, pack'[p].state # "init"
               PROVE  LET c  == ContractOf[DistOf(p)]
                          id == pack'[p].flowID
                      IN /\ id \in DOMAIN packNFT[c]
                         /\ packNFT[c][id].hash = p
                         /\ pack'[p].state \in {"revealed", "open-request-handled"}
                              => packNFT[c][id].status \in {"Revealed", "Opened"}
                         /\ pack'[p].state = "opened"
                              => packNFT[c][id].status = "Opened"
    BY <1>1 DEF StoreFollowsLedger, Exists, ledgerVars
  <2>1. CASE pack'[p] = pack[p]
    BY <2>1 DEF Inv, Consistent, StoreFollowsLedger, Exists
  <2>2. CASE pack'[p] # pack[p]
    BY <2>2, SealedPacks
  <2> QED
    BY <2>1, <2>2
<1> QED
  BY <1>1, <1>4, <1>5, <1>6, <1>7, <1>8, NoBlockKeepsLedger
     DEF Inv, Consistent, TypeOK

(* HandleComplete keeps the invariant.                                     *)
LEMMA CompleteKeepsInv ==
  ASSUME Inv, HandleComplete
  PROVE  Inv'
<1>1. /\ NoSettlement \in SettlementRow
      /\ NoMinting \in MintingRow
  BY DEF NoSettlement, NoMinting, SettlementRow, MintingRow
<1>2. StoreTypeOK'
  BY <1>1 DEF HandleComplete, Inv, TypeOK, StoreTypeOK
<1>3. RowsExist' /\ MintsOwnPacks'
  BY DEF HandleComplete, Inv, Consistent, RowsExist, InState, MintsOwnPacks
<1> QED
  BY <1>2, <1>3, NoBlockKeepsLedger, SamePacksInDatabase
     DEF HandleComplete, Inv, Consistent, TypeOK

----------------------------------------------------------------------------
(* The polling of circulating packs.                                       *)

(* A poll that succeeds takes a pack forward, and makes it revealed or     *)
(* opened only for an event that says so.                                  *)
LEMMA PolledStateMoves ==
  ASSUME Inv, NEW p \in Packs, PolledState(p) # "error"
  PROVE  /\ PolledState(p) \in PackState
         /\ Rank[PolledState(p)] >= Rank[pack[p].state]
         /\ PolledState(p) = "init" <=> pack[p].state = "init"
         /\ PolledState(p) \in {"revealed", "open-request-handled"} =>
              \/ pack[p].state \in {"revealed", "open-request-handled"}
              \/ BlocksWith(p, "Revealed") # {}
         /\ PolledState(p) = "opened" =>
              pack[p].state = "opened" \/ BlocksWith(p, "Opened") # {}
<1> DEFINE s0 == pack[p].state
           s1 == AfterRevealRequests(p)
           s2 == AfterRevealed(p)
           s3 == AfterOpenRequests(p)
           s4 == PolledState(p)
<1>1. s0 \in PackState
  BY DEF Inv, TypeOK, StoreTypeOK, PackRow
<1>2. \/ s1 = s0
      \/ s0 = "sealed" /\ s1 = "reveal-request-handled"
      \/ s1 = "error"
  BY DEF AfterRevealRequests, Advance
<1>3. \/ s2 = s1
      \/ /\ s1 = "reveal-request-handled" /\ s2 = "revealed"
         /\ BlocksWith(p, "Revealed") # {}
      \/ s2 = "error"
  BY DEF AfterRevealed, Advance
<1>4. \/ s3 = s2
      \/ s2 = "revealed" /\ s3 = "open-request-handled"
      \/ s3 = "error"
  BY DEF AfterOpenRequests, Advance
<1>5. \/ s4 = s3
      \/ /\ s3 \in {"open-request-handled", "revealed"} /\ s4 = "opened"
         /\ BlocksWith(p, "Opened") # {}
      \/ s4 = "error"
  BY DEF PolledState, Advance
<1>6. s4 # "error"
  OBVIOUS
<1> HIDE DEF s0, s1, s2, s3, s4
<1>7. /\ Rank["init"] = 0 /\ Rank["sealed"] = 1
      /\ Rank["reveal-request-handled"] = 2 /\ Rank["revealed"] = 3
      /\ Rank["open-request-handled"] = 4 /\ Rank["opened"] = 5
  BY DEF Rank, PackState
<1>8. /\ s4 \in PackState
      /\ s4 = "init" <=> s0 = "init"
      /\ s4 \in {"revealed", "open-request-handled"} =>
           \/ s0 \in {"revealed", "open-request-handled"}
           \/ BlocksWith(p, "Revealed") # {}
      /\ s4 = "opened" => s0 = "opened" \/ BlocksWith(p, "Opened") # {}
  BY <1>1, <1>2, <1>3, <1>4, <1>5, <1>6 DEF PackState
<1>9. Rank[s4] >= Rank[s0]
  BY <1>1, <1>2, <1>3, <1>4, <1>5, <1>6, <1>7 DEF PackState
<1> QED
  BY <1>8, <1>9 DEF s0, s4

(* A poll of a contract reads sealed blocks.                               *)
LEMMA PolledBlocks ==
  ASSUME Inv, NEW c \in Contracts
  PROVE  Polled(c) \in SUBSET (1..height)
<1>1. circulating[c] \in Nat \union {NoRow}
  BY DEF Inv, TypeOK, StoreTypeOK
<1> QED
  BY <1>1, BlocksOfPoll DEF Polled

(* An event that a poll finds for a pack is true of it.                    *)
LEMMA BlocksWithTrue ==
  ASSUME Inv, NEW p \in Packs, NEW type, BlocksWith(p, type) # {}
  PROVE  \E e \in Event :
           /\ e.type = type
           /\ e.contract = ContractOf[DistOf(p)]
           /\ e.id = pack[p].flowID
           /\ e.id # NoFlowID
           /\ EventTrue(e)
<1> DEFINE c == ContractOf[DistOf(p)]
<1>1. c \in Contracts
  BY DistOfPack, StoreAssumption
<1>2. PICK b \in Polled(c) :
        \E e \in chain[b] : /\ e.type = type
                            /\ e.contract = c
                            /\ pack[p].flowID # NoFlowID
                            /\ e.id = pack[p].flowID
  BY DEF BlocksWith
<1>3. b \in 1..height
  BY <1>1, PolledBlocks
<1>4. chain[b] \in SUBSET Event
  BY <1>3, ElementOfSeq DEF Inv, TypeOK, LedgerTypeOK, height
<1>5. \A e \in chain[b] : EventTrue(e)
  BY <1>3 DEF Inv, Consistent, ChainTrue
<1> QED
  BY <1>2, <1>4, <1>5

(* The transactions that a poll saves are transactions.                    *)
LEMMA PolledTxs ==
  ASSUME Inv, NEW t \in RevealTxs \union OpenTxs
  PROVE  t \in Tx /\ t.name # "mint"
<1>1. ASSUME NEW c \in CirculatingContracts, NEW p \in Packs, NEW type,
             NEW e \in RequestsSeen(c, p, type)
      PROVE  c \in Contracts /\ e \in Event /\ e.type = type
  <2>1. c \in Contracts
    BY DEF CirculatingContracts
  <2>2. PICK b \in Polled(c) : e \in chain[b]
    BY DEF RequestsSeen, PackEventsSeen, EventsIn
  <2>3. chain[b] \in SUBSET Event
    BY <2>1, PolledBlocks, ElementOfSeq DEF Inv, TypeOK, LedgerTypeOK, height
  <2> QED
    BY <2>1, <2>2, <2>3 DEF RequestsSeen
<1>2. CASE t \in RevealTxs
  <2>1. PICK c \in CirculatingContracts, p \in Packs :
          t \in {RevealTx(c, e.id, p, e.owner, e.openRequest, n) :
                   e \in RequestsSeen(c, p, "RevealRequest"), n \in {1, 2}}
    BY <1>2 DEF RevealTxs
  <2>2. PICK e \in RequestsSeen(c, p, "RevealRequest"), n \in {1, 2} :
          t = RevealTx(c, e.id, p, e.owner, e.openRequest, n)
    BY <2>1
  <2>3. /\ c \in Contracts /\ e.id \in Nat
        /\ e.owner \in Accounts /\ e.openRequest \in BOOLEAN
    BY <1>1 DEF Event
  <2> QED
    BY <2>2, <2>3 DEF RevealTx, Tx
<1>3. CASE t \in OpenTxs
  <2>1. PICK c \in CirculatingContracts, p \in Packs :
          t \in {OpenTx(c, e.id, p, e.owner) :
                   e \in RequestsSeen(c, p, "OpenRequest")}
    BY <1>3 DEF OpenTxs
  <2>2. PICK e \in RequestsSeen(c, p, "OpenRequest") :
          t = OpenTx(c, e.id, p, e.owner)
    BY <2>1
  <2>3. c \in Contracts /\ e.id \in Nat /\ e.owner \in Accounts
    BY <1>1 DEF Event
  <2> QED
    BY <2>2, <2>3 DEF OpenTx, Tx
<1> QED
  BY <1>2, <1>3

(* PollCirculating keeps the invariant.                                    *)
LEMMA PollKeepsInv ==
  ASSUME Inv, PollCirculating
  PROVE  Inv'
<1>1. /\ pack' = [p \in Packs |-> [pack[p] EXCEPT !.state = PolledState(p)]]
      /\ pending' = pending \union RevealTxs \union OpenTxs
      /\ circulating' = [c \in Contracts |->
                           IF circulating[c] = NoRow THEN NoRow
                           ELSE NextStart(circulating[c])]
      /\ UNCHANGED <<ledgerVars, dist, settlement, minting>>
      /\ \A p \in Packs : PolledState(p) # "error"
  BY DEF PollCirculating, UnexpectedState
<1>2. \A p \in Packs :
        /\ pack'[p] \in PackRow
        /\ pack'[p].state = PolledState(p)
        /\ pack'[p].flowID = pack[p].flowID
  <2> TAKE p \in Packs
  <2>1. pack[p] \in PackRow /\ pack'[p] = [pack[p] EXCEPT !.state = PolledState(p)]
    BY <1>1 DEF Inv, TypeOK, StoreTypeOK
  <2>2. PolledState(p) \in PackState
    BY <1>1, PolledStateMoves
  <2> QED
    BY <2>1, <2>2 DEF PackRow
<1>3. StoreTypeOK'
  <2>1. pack' \in [Packs -> PackRow]
    BY <1>1, <1>2
  <2>2. pending' \in SUBSET Tx
    BY <1>1, PolledTxs DEF Inv, TypeOK, StoreTypeOK
  <2>3. circulating' \in [Contracts -> Nat \union {NoRow}]
    <3>1. \A c \in Contracts :
            circulating[c] # NoRow => NextStart(circulating[c]) \in Nat
      BY BlocksOfPoll DEF Inv, TypeOK, StoreTypeOK
    <3> QED
      BY <1>1, <3>1
  <2> QED
    BY <1>1, <2>1, <2>2, <2>3 DEF Inv, TypeOK, StoreTypeOK
<1>4. RowsExist'
  BY <1>1 DEF Inv, Consistent, RowsExist, InState
<1>5. MintsOwnPacks'
  BY <1>1, PolledTxs DEF Inv, Consistent, MintsOwnPacks
<1>6. UnsealedHasNoID'
  BY <1>1, <1>2, PolledStateMoves DEF Inv, Consistent, UnsealedHasNoID
<1>7. StoreFollowsLedger'
  <2> SUFFICES ASSUME NEW p \in Packs, pack'[p].state # "init"
               PROVE  LET c  == ContractOf[DistOf(p)]
                          id == pack'[p].flowID
                      IN /\ id \in DOMAIN packNFT[c]
                         /\ packNFT[c][id].hash = p
                         /\ pack'[p].state \in {"revealed", "open-request-handled"}
                              => packNFT[c][id].status \in {"Revealed", "Opened"}
                         /\ pack'[p].state = "opened"
                              => packNFT[c][id].status = "Opened"
    BY <1>1 DEF StoreFollowsLedger, Exists, ledgerVars
  <2> DEFINE c  == ContractOf[DistOf(p)]
             id == pack[p].flowID
  <2>1. pack[p].state # "init"
    BY <1>1, <1>2, PolledStateMoves
  <2>2. /\ id \in DOMAIN packNFT[c]
        /\ packNFT[c][id].hash = p
        /\ pack[p].state \in {"revealed", "open-request-handled"}
             => packNFT[c][id].status \in {"Revealed", "Opened"}
        /\ pack[p].state = "opened" => packNFT[c][id].status = "Opened"
    BY <2>1 DEF Inv, Consistent, StoreFollowsLedger, Exists
  <2>3. packNFT[c][id].status \in Status
    <3>1. c \in Contracts
      BY DistOfPack, StoreAssumption
    <3>2. packNFT[c][id] \in PackNFT
      BY <2>2, <3>1, PackNFTType DEF Inv, TypeOK
    <3> QED
      BY <3>2 DEF PackNFT
  <2>4. BlocksWith(p, "Revealed") # {} => packNFT[c][id].status # "Sealed"
    BY BlocksWithTrue DEF EventTrue
  <2>5. BlocksWith(p, "Opened") # {} => packNFT[c][id].status = "Opened"
    BY BlocksWithTrue DEF EventTrue
  <2>6. pack'[p].state \in {"revealed", "open-request-handled"} =>
          packNFT[c][id].status \in {"Revealed", "Opened"}
    BY <1>1, <1>2, <2>2, <2>3, <2>4, PolledStateMoves DEF Status
  <2>7. pack'[p].state = "opened" => packNFT[c][id].status = "Opened"
    BY <1>1, <1>2, <2>2, <2>5, PolledStateMoves
  <2> QED
    BY <1>2, <2>2, <2>6, <2>7
<1> QED
  BY <1>1, <1>3, <1>4, <1>5, <1>6, <1>7, NoBlockKeepsLedger
     DEF Inv, Consistent, TypeOK

----------------------------------------------------------------------------
(* The invariant.                                                          *)

(* The invariant holds initially.                                          *)
LEMMA InitInv ==
  ASSUME Init
  PROVE  Inv
<1>1. /\ chain = <<{}>>
      /\ height = 1
      /\ chain[1] = {}
      /\ chain \in Seq(SUBSET Event)
  BY DEF Init, LedgerInit, height
<1>2. LedgerTypeOK
  <2>1. \A c \in Contracts : packNFT[c] \in Seq(PackNFT)
    BY DEF Init, LedgerInit
  <2> QED
    BY <1>1, <2>1, LedgerAssumption DEF Init, LedgerInit, LedgerTypeOK, DistState
<1>3. StoreTypeOK
  BY DEF Init, StoreInit, StoreTypeOK, DistributionState, PackRow, PackState,
         SettlementRow, NoSettlement, MintingRow, NoMinting
<1>4. ChainTrue
  BY <1>1, FS_EmptySet DEF ChainTrue
<1>5. MintsOwnPacks /\ RowsExist /\ UnsealedHasNoID /\ StoreFollowsLedger
  BY DEF Init, StoreInit, MintsOwnPacks, RowsExist, InState, UnsealedHasNoID,
         StoreFollowsLedger
<1> QED
  BY <1>2, <1>3, <1>4, <1>5 DEF Inv, TypeOK, Consistent

(* Every step that is not one of the service's own is a block or a loss.   *)
LEMMA OthersSealBlocks ==
  ASSUME Inv,
         \/ OwnerRequestsReveal \/ OwnerRequestsOpen \/ OwnerTransfers
         \/ AnyoneReveals \/ AccountSends \/ OtherBlock
  PROVE  BlockSealed /\ UNCHANGED storeVars
<1> USE DEF Inv, TypeOK
<1>1. CASE OwnerRequestsReveal
  BY <1>1, RequestSealed DEF OwnerRequestsReveal
<1>2. CASE OwnerRequestsOpen
  <2>1. PICK c \in Contracts, a \in Accounts : \E id \in DOMAIN packNFT[c] :
          RequestOpen(c, id, a) /\ UNCHANGED storeVars
    BY <1>2 DEF OwnerRequestsOpen
  <2>2. PICK id \in DOMAIN packNFT[c] : RequestOpen(c, id, a) /\ UNCHANGED storeVars
    BY <2>1
  <2>3. TRUE \in BOOLEAN
    OBVIOUS
  <2> QED
    BY <2>2, <2>3, RequestSealed
<1>3. CASE OwnerTransfers
  <2>1. PICK c \in Contracts, s \in Sales :
          \E id \in DOMAIN packNFT[c] : TransferPack(c, id, s[1], s[2])
    BY <1>3 DEF OwnerTransfers
  <2>2. s[1] \in Accounts /\ s[2] \in Accounts
    BY ServiceAssumption
  <2> QED
    BY <1>3, <2>1, <2>2, TransferSealed DEF OwnerTransfers
<1>4. CASE AnyoneReveals
  <2>1. PICK p \in Disclosed : PublicReveal(ContractOf[DistOf(p)], pack[p].flowID, p)
    BY <1>4 DEF AnyoneReveals
  <2>2. PICK c \in Contracts : c = ContractOf[DistOf(p)]
    BY ServiceAssumption, DistOfPack, StoreAssumption
  <2>3. PICK id : id = pack[p].flowID
    OBVIOUS
  <2>4. CanReveal(c, id, p) /\ Reveal(c, id)
    BY <2>1, <2>2, <2>3 DEF PublicReveal
  <2> QED
    BY <1>4, <2>4, PackRevealed DEF AnyoneReveals
<1>5. CASE AccountSends
  <2>1. PICK m \in Moves : SendCollectible(m[1], m[2], m[3])
    BY <1>5 DEF AccountSends
  <2>2. /\ m[1] \in Collectibles /\ m[2] \in Accounts
        /\ m[3] \in Accounts \union {Escrow}
    BY ServiceAssumption
  <2> QED
    BY <1>5, <2>1, <2>2, SendSealed DEF AccountSends
<1>6. CASE OtherBlock
  BY <1>6, EmptyBlockSealed DEF OtherBlock
<1> QED
  BY <1>1, <1>2, <1>3, <1>4, <1>5, <1>6

(* Every step keeps the invariant.                                         *)
LEMMA NextKeepsInv ==
  ASSUME Inv, [Next]_vars
  PROVE  Inv'
<1>1. CASE Create
  BY <1>1, CreateKeepsInv
<1>2. CASE Abort
  BY <1>2, AbortKeepsInv
<1>3. CASE HandleResolved
  BY <1>3, ResolvedKeepsInv
<1>4. CASE HandleSetup
  BY <1>4, SetupKeepsInv
<1>5. CASE HandleSettling
  BY <1>5, SettlingKeepsInv
<1>6. CASE HandleSettled
  BY <1>6, SettledKeepsInv
<1>7. CASE HandleMinting
  BY <1>7, MintingKeepsInv
<1>8. CASE HandleComplete
  BY <1>8, CompleteKeepsInv
<1>9. CASE PollCirculating
  BY <1>9, PollKeepsInv
<1>10. CASE ExecuteTx
  <2>1. PICK t \in pending : Execute(t) /\ pending' = pending \ {t}
    BY <1>10 DEF ExecuteTx
  <2>2. BlockSealed
    BY <2>1, ExecuteSealed DEF Inv, TypeOK, StoreTypeOK, Consistent
  <2> QED
    BY <1>10, <2>1, <2>2, BlockKeepsInv DEF ExecuteTx
<1>11. CASE LoseTx
  <2>1. UNCHANGED <<ledgerVars, pack, dist, settlement, minting, circulating>>
    BY <1>11 DEF LoseTx
  <2>2. pending' \subseteq pending
    BY <1>11 DEF LoseTx
  <2>3. StoreTypeOK' /\ MintsOwnPacks' /\ RowsExist'
    BY <2>1, <2>2 DEF Inv, TypeOK, StoreTypeOK, Consistent, MintsOwnPacks,
                      RowsExist, InState
  <2> QED
    BY <2>1, <2>3, NoBlockKeepsLedger, SamePacksInDatabase
       DEF Inv, Consistent, TypeOK
<1>12. CASE \/ OwnerRequestsReveal \/ OwnerRequestsOpen \/ OwnerTransfers
            \/ AnyoneReveals \/ AccountSends \/ OtherBlock
  BY <1>12, OthersSealBlocks, BlockKeepsInv DEF storeVars
<1>13. CASE UNCHANGED vars
  BY <1>13 DEF vars, ledgerVars, storeVars, Inv, TypeOK, LedgerTypeOK,
               StoreTypeOK, Consistent, ChainTrue, height, EventTrue, Exists,
               MintsOwnPacks, RowsExist, InState, UnsealedHasNoID,
               StoreFollowsLedger
<1> QED
  BY <1>1, <1>2, <1>3, <1>4, <1>5, <1>6, <1>7, <1>8, <1>9, <1>10, <1>11,
     <1>12, <1>13 DEF Next

(* The invariant that the other theorems rest on: every table is well      *)
(* typed, every event is true of the contract that emitted it, and the     *)
(* database follows the chain.                                             *)
THEOREM Invariant == Spec => []Inv
<1>1. Init => Inv
  BY InitInv
<1>2. Inv /\ [Next]_vars => Inv'
  BY NextKeepsInv
<1> QED
  BY <1>1, <1>2, PTL DEF Spec

(* Type correctness: no row of the database and nothing on the chain ever  *)
(* leaves its type, whatever the distributions, the batch sizes, the range *)
(* of a poll, the losses and the order of requests.                        *)
THEOREM TypeCorrect == Spec => []TypeOK
<1>1. Inv => TypeOK
  BY DEF Inv
<1> QED
  BY <1>1, Invariant, PTL

(* The database and the chain always agree: every event is true, a mint    *)
(* that is pending is for the contract of its packs, a handler finds the   *)
(* row that it reads, and a pack has its id as soon as it is sealed.       *)
THEOREM AlwaysConsistent == Spec => []Consistent
<1>1. Inv => Consistent
  BY DEF Inv
<1> QED
  BY <1>1, Invariant, PTL

(* The database never runs ahead of the chain.                             *)
THEOREM DatabaseFollowsLedger == Spec => []StoreFollowsLedger
<1>1. Inv => StoreFollowsLedger
  BY DEF Inv, Consistent
<1> QED
  BY <1>1, Invariant, PTL

PacksMove ==
  \A p \in Packs :
    /\ Rank[pack'[p].state] >= Rank[pack[p].state]
    /\ pack[p].flowID # NoFlowID => pack'[p].flowID = pack[p].flowID

(* Every step moves packs forward or leaves them.                          *)
LEMMA NextMovesPacks ==
  ASSUME Inv, [Next]_vars
  PROVE  PacksMove
<1>1. /\ \A s \in PackState : Rank[s] \in 0..5
      /\ Rank["init"] = 0 /\ Rank["sealed"] = 1
  BY DEF Rank, PackState
<1>2. \A p \in Packs : pack[p].state \in PackState
  BY DEF Inv, TypeOK, StoreTypeOK, PackRow
<1>3. CASE pack' = pack
  BY <1>1, <1>2, <1>3 DEF PacksMove
<1>4. CASE HandleMinting
  <2>1. ASSUME NEW p \in Packs
        PROVE  /\ Rank[pack'[p].state] >= Rank[pack[p].state]
               /\ pack[p].flowID # NoFlowID => pack'[p].flowID = pack[p].flowID
    <3>1. CASE pack'[p] = pack[p]
      BY <1>1, <1>2, <3>1
    <3>2. CASE pack'[p] # pack[p]
      <4>1. pack[p].state = "init" /\ pack'[p].state = "sealed"
        BY <1>4, <3>2, SealedPacks
      <4>2. pack[p].flowID = NoFlowID
        BY <4>1 DEF Inv, Consistent, UnsealedHasNoID
      <4> QED
        BY <1>1, <4>1, <4>2
    <3> QED
      BY <3>1, <3>2
  <2> QED
    BY <2>1 DEF PacksMove
<1>5. CASE PollCirculating
  <2>1. \A p \in Packs :
          /\ pack'[p] = [pack[p] EXCEPT !.state = PolledState(p)]
          /\ PolledState(p) # "error"
          /\ pack[p] \in PackRow
    BY <1>5 DEF PollCirculating, UnexpectedState, Inv, TypeOK, StoreTypeOK
  <2>2. \A p \in Packs : Rank[PolledState(p)] >= Rank[pack[p].state]
    BY <2>1, PolledStateMoves
  <2>3. \A p \in Packs : /\ pack'[p].state = PolledState(p)
                         /\ pack'[p].flowID = pack[p].flowID
    BY <2>1 DEF PackRow
  <2> QED
    BY <2>2, <2>3 DEF PacksMove
<1>6. \/ pack' = pack \/ HandleMinting \/ PollCirculating
  BY DEF Next, vars, storeVars, Create, CreateDistribution, Abort,
       AbortDistribution, HandleResolved, HandleSetup, HandleSettling,
       HandleSettled, HandleComplete, ExecuteTx, LoseTx, OwnerRequestsReveal,
       OwnerRequestsOpen, OwnerTransfers, AnyoneReveals, AccountSends, OtherBlock
<1> QED
  BY <1>3, <1>4, <1>5, <1>6

(* A pack never goes back to an earlier state in the database, and never   *)
(* loses or changes its id, whatever the poller sees again after a rewind. *)
THEOREM PacksNeverGoBack == Spec => PacksMoveForward
<1>1. Inv /\ [Next]_vars => [PacksMove]_vars
  BY NextMovesPacks
<1> QED
  BY <1>1, Invariant, PTL DEF Spec, PacksMoveForward, PacksMove

----------------------------------------------------------------------------
(* No event is skipped.                                                    *)

(* The ranks of the states.                                                *)
LEMMA RankValues ==
  /\ Rank["init"] = 0 /\ Rank["sealed"] = 1
  /\ Rank["reveal-request-handled"] = 2 /\ Rank["revealed"] = 3
  /\ Rank["open-request-handled"] = 4 /\ Rank["opened"] = 5
BY DEF Rank, PackState

(* The states after an event are closed under moves forward.               *)
LEMMA StatesAfterClosed ==
  ASSUME NEW type \in RequestTypes, NEW s \in PackState, NEW t \in PackState,
         s \in StatesAfter(type), Rank[t] >= Rank[s]
  PROVE  t \in StatesAfter(type)
<1>1. CASE type = "RevealRequest"
  BY <1>1, RankValues DEF StatesAfter, PackState
<1>2. CASE type = "Revealed"
  BY <1>2, RankValues DEF StatesAfter, PackState
<1>3. CASE type = "OpenRequest"
  BY <1>3, RankValues DEF StatesAfter, PackState
<1>4. CASE type = "Opened"
  BY <1>4, RankValues DEF StatesAfter, PackState
<1> QED
  BY <1>1, <1>2, <1>3, <1>4 DEF RequestTypes

(* A pack with an event in the polled blocks ends in a state after it.     *)
LEMMA PolledStateAfter ==
  ASSUME Inv, NEW p \in Packs, PolledState(p) # "error",
         NEW type \in RequestTypes, BlocksWith(p, type) # {}
  PROVE  PolledState(p) \in StatesAfter(type)
<1> DEFINE s0 == pack[p].state
           s1 == AfterRevealRequests(p)
           s2 == AfterRevealed(p)
           s3 == AfterOpenRequests(p)
           s4 == PolledState(p)
           B(t) == BlocksWith(p, t) # {}
<1>1. IF B("RevealRequest")
      THEN s1 \in {"reveal-request-handled", "error"} ELSE s1 = s0
  BY DEF AfterRevealRequests, Advance
<1>2. IF B("Revealed")
      THEN s2 = "error" \/ (s1 = "reveal-request-handled" /\ s2 = "revealed")
      ELSE s2 = s1
  BY DEF AfterRevealed, Advance
<1>3. IF B("OpenRequest")
      THEN s3 = "error" \/ (s2 = "revealed" /\ s3 = "open-request-handled")
      ELSE s3 = s2
  BY DEF AfterOpenRequests, Advance
<1>4. IF B("Opened")
      THEN \/ s4 = "error"
           \/ (s3 \in {"open-request-handled", "revealed"} /\ s4 = "opened")
      ELSE s4 = s3
  BY DEF PolledState, Advance
<1>5. s4 # "error" /\ s0 \in PackState
  BY DEF Inv, TypeOK, StoreTypeOK, PackRow
<1>6. B(type)
  OBVIOUS
<1> HIDE DEF s0, s1, s2, s3, s4, B
<1>7. CASE type = "RevealRequest"
  BY <1>1, <1>2, <1>3, <1>4, <1>5, <1>6, <1>7 DEF StatesAfter, PackState, s4
<1>8. CASE type = "Revealed"
  BY <1>2, <1>3, <1>4, <1>5, <1>6, <1>8 DEF StatesAfter, PackState, s4
<1>9. CASE type = "OpenRequest"
  BY <1>3, <1>4, <1>5, <1>6, <1>9 DEF StatesAfter, PackState, s4
<1>10. CASE type = "Opened"
  BY <1>4, <1>5, <1>6, <1>10 DEF StatesAfter, PackState, s4
<1> QED
  BY <1>7, <1>8, <1>9, <1>10 DEF RequestTypes

(* A contract that does not circulate has no pack, so no step of anyone    *)
(* but a mint changes its packs.                                           *)
LEMMA NoFirstPack ==
  ASSUME Inv, CursorsInTime, [Next]_vars,
         NEW c \in Contracts, circulating[c] = NoRow
  PROVE  packNFT'[c] = packNFT[c]
<1>1. /\ DOMAIN packNFT[c] = {}
      /\ \A t \in pending : t.name = "mint" => t.contract # c
      /\ packNFT \in [Contracts -> Seq(PackNFT)]
  BY DEF CursorsInTime, Inv, TypeOK, LedgerTypeOK
<1>2. CASE ExecuteTx
  <2>1. PICK t \in pending : Execute(t)
    BY <1>2 DEF ExecuteTx
  <2>2. CASE ~Succeeds(t)
    BY <2>1, <2>2 DEF Execute, EmptyBlock
  <2>3. CASE Succeeds(t) /\ t.name \in {"settle", "update_dist_state"}
    BY <2>1, <2>3 DEF Execute, Apply, Settle, UpdateDistState
  <2>4. CASE Succeeds(t) /\ t.name = "mint"
    BY <1>1, <2>1, <2>4 DEF Execute, Apply, Mint
  <2>5. CASE Succeeds(t) /\ t.name \in {"reveal", "open"}
    <3>1. t.contract # c
      BY <1>1, <2>5 DEF Succeeds, CanReveal, CanOpen, Exists
    <3>2. Reveal(t.contract, t.id) \/ Open(t.contract, t.id, t.pack, t.owner)
      BY <2>1, <2>5 DEF Execute, Apply
    <3> QED
      BY <1>1, <3>1, <3>2 DEF Reveal, Open
  <2> QED
    BY <2>2, <2>3, <2>4, <2>5 DEF Succeeds
<1>3. CASE OwnerTransfers
  <2>1. PICK b \in Contracts, s \in Sales :
          \E id \in DOMAIN packNFT[b] : TransferPack(b, id, s[1], s[2])
    BY <1>3 DEF OwnerTransfers
  <2>2. b # c
    BY <1>1, <2>1
  <2> QED
    BY <1>1, <2>1, <2>2 DEF TransferPack
<1>4. CASE AnyoneReveals
  <2>1. PICK p \in Disclosed : PublicReveal(ContractOf[DistOf(p)], pack[p].flowID, p)
    BY <1>4 DEF AnyoneReveals
  <2>2. ContractOf[DistOf(p)] # c
    BY <1>1, <2>1 DEF PublicReveal, CanReveal, Exists
  <2> QED
    BY <1>1, <2>1, <2>2 DEF PublicReveal, Reveal
<1>5. CASE ~(ExecuteTx \/ OwnerTransfers \/ AnyoneReveals)
  BY <1>5 DEF Next, vars, ledgerVars, storeVars, Create, CreateDistribution,
       Abort, AbortDistribution, HandleResolved, HandleSetup, HandleSettling,
       HandleSettled, HandleMinting, HandleComplete, PollCirculating, LoseTx,
       OwnerRequestsReveal, RequestReveal, OwnerRequestsOpen, RequestOpen,
       AccountSends, SendCollectible, OtherBlock, EmptyBlock
<1> QED
  BY <1>2, <1>3, <1>4, <1>5

(* The chain only grows.                                                   *)
LEMMA ChainGrows ==
  ASSUME Inv, [Next]_vars
  PROVE  /\ height' \in Nat
         /\ height <= height'
         /\ \A b \in 1..height : chain'[b] = chain[b]
<1>1. CASE BlockSealed
  <2>1. PICK E : AddsBlock(E)
    BY <1>1 DEF BlockSealed
  <2> QED
    BY <2>1, ChainAppended DEF AddsBlock, height, Inv, TypeOK
<1>2. CASE chain' = chain
  BY <1>2, ChainAppended DEF height, Inv, TypeOK
<1>3. CASE ExecuteTx
  BY <1>1, <1>3, ExecuteSealed
     DEF ExecuteTx, Inv, TypeOK, StoreTypeOK, Consistent
<1>4. CASE \/ OwnerRequestsReveal \/ OwnerRequestsOpen \/ OwnerTransfers
           \/ AnyoneReveals \/ AccountSends \/ OtherBlock
  BY <1>1, <1>4, OthersSealBlocks
<1> QED
  BY <1>2, <1>3, <1>4 DEF Next, vars, ledgerVars, Create, CreateDistribution,
       Abort, AbortDistribution, HandleResolved, HandleSetup, HandleSettling,
       HandleSettled, HandleMinting, HandleComplete, PollCirculating, LoseTx

(* Only the start of a minting adds transactions that mint.                *)
LEMMA NewMintTxs ==
  ASSUME Inv, [Next]_vars, NEW t \in pending', t \notin pending, t.name = "mint"
  PROVE  /\ HandleSettled
         /\ \E d \in InState("settled") :
              t \in MintBatches(d) /\ t.contract = ContractOf[d]
<1>1. CASE Abort
  BY <1>1 DEF Abort, AbortDistribution, UpdateStateTx
<1>2. CASE HandleSetup
  <2>1. PICK d \in InState("setup") : t \in SettleBatches(d)
    BY <1>2 DEF HandleSetup
  <2> QED
    BY <2>1, SettleBatchesType DEF InState
<1>3. CASE HandleMinting
  BY <1>3 DEF HandleMinting, UpdateStateTx
<1>4. CASE PollCirculating
  BY <1>4, PolledTxs DEF PollCirculating
<1>5. CASE HandleSettled
  <2>1. PICK d \in InState("settled") : t \in MintBatches(d)
    BY <1>5 DEF HandleSettled
  <2> QED
    BY <1>5, <2>1 DEF MintBatches, MintTx
<1>6. CASE pending' \subseteq pending
  BY <1>6
<1> QED
  BY <1>1, <1>2, <1>3, <1>4, <1>5, <1>6
     DEF Next, vars, storeVars, Create, CreateDistribution, HandleResolved,
         HandleSettling, HandleComplete, ExecuteTx, LoseTx, OwnerRequestsReveal,
         OwnerRequestsOpen, OwnerTransfers, AnyoneReveals, AccountSends, OtherBlock

(* An event that was handled stays handled.                                *)
LEMMA HandledStaysHandled ==
  ASSUME Inv, Inv', PacksMove, NEW p \in Packs, NEW c, NEW id,
         NEW type \in RequestTypes,
         IsPack(p, c, id), pack[p].state \in StatesAfter(type)
  PROVE  IsPack(p, c, id)' /\ pack'[p].state \in StatesAfter(type)
<1>1. pack[p].state \in PackState /\ pack'[p].state \in PackState
  BY DEF Inv, TypeOK, StoreTypeOK, PackRow
<1>2. pack'[p].flowID = pack[p].flowID
  BY DEF PacksMove, IsPack
<1> QED
  BY <1>1, <1>2, StatesAfterClosed DEF PacksMove, IsPack

(* How a step moves the cursor of a contract.                              *)
LEMMA CursorSteps ==
  ASSUME Inv, CursorsInTime, [Next]_vars, NEW c \in Contracts
  PROVE  \/ circulating'[c] = circulating[c]
         \/ /\ HandleSettled
            /\ circulating'[c] \in 0..height
            /\ circulating[c] = NoRow \/ circulating'[c] <= circulating[c]
         \/ /\ PollCirculating
            /\ circulating[c] \in Nat
            /\ circulating'[c] = NextStart(circulating[c])
            /\ circulating'[c] \in 0..height
<1>1. circulating[c] \in Nat \union {NoRow} /\ circulating[c] <= height
  BY DEF CursorsInTime, Inv, TypeOK, StoreTypeOK
<1>2. height \in Nat /\ height - 1 \in Nat
  BY NewRowStart, LenProperties DEF Inv, TypeOK, LedgerTypeOK, height
<1>3. CASE HandleSettled
  <2>1. circulating'[c] \in {StartCirculating(c), circulating[c]}
    BY <1>3 DEF HandleSettled
  <2>2. /\ StartCirculating(c) \in 0..height
        /\ circulating[c] = NoRow \/ StartCirculating(c) <= circulating[c]
    BY <1>1, <1>2 DEF StartCirculating, Min2
  <2> QED
    BY <1>3, <2>1, <2>2
<1>4. CASE PollCirculating
  <2>1. circulating'[c] = IF circulating[c] = NoRow THEN NoRow
                          ELSE NextStart(circulating[c])
    BY <1>4 DEF PollCirculating
  <2>2. CASE circulating[c] = NoRow
    BY <2>1, <2>2
  <2>3. CASE circulating[c] # NoRow
    <3>1. NextStart(circulating[c]) \in Nat
      BY <1>1, <2>3, BlocksOfPoll
    <3>2. NextStart(circulating[c]) <= height
      BY <1>1, <1>2, <2>3, StoreAssumption DEF NextStart, RangeEnd, Min2
    <3> QED
      BY <1>1, <1>2, <1>4, <2>1, <2>3, <3>1, <3>2
  <2> QED
    BY <2>2, <2>3
<1>5. CASE ~(HandleSettled \/ PollCirculating)
  BY <1>5 DEF Next, vars, storeVars, Create, CreateDistribution, Abort,
       AbortDistribution, HandleResolved, HandleSetup, HandleSettling,
       HandleMinting, HandleComplete, ExecuteTx, LoseTx, OwnerRequestsReveal,
       OwnerRequestsOpen, OwnerTransfers, AnyoneReveals, AccountSends, OtherBlock
<1> QED
  BY <1>3, <1>4, <1>5

(* Every step keeps CursorsInTime.                                         *)
LEMMA NextKeepsCursors ==
  ASSUME Inv, CursorsInTime, [Next]_vars
  PROVE  CursorsInTime'
<1> SUFFICES ASSUME NEW c \in Contracts
             PROVE  /\ circulating'[c] <= height'
                    /\ circulating'[c] = NoRow =>
                         /\ DOMAIN packNFT'[c] = {}
                         /\ \A t \in pending' : t.name = "mint" => t.contract # c
  BY DEF CursorsInTime
<1>1. /\ height \in Nat /\ height' \in Nat /\ height <= height'
      /\ circulating[c] <= height
      /\ circulating[c] \in Nat \union {NoRow}
  BY ChainGrows, LenProperties
     DEF CursorsInTime, Inv, TypeOK, LedgerTypeOK, StoreTypeOK, height
<1>2. circulating'[c] <= height'
  BY <1>1, CursorSteps
<1>3. ASSUME circulating'[c] = NoRow
      PROVE  /\ DOMAIN packNFT'[c] = {}
             /\ \A t \in pending' : t.name = "mint" => t.contract # c
  <2>1. circulating[c] = NoRow
    BY <1>1, <1>3, CursorSteps
  <2>2. DOMAIN packNFT'[c] = {}
    BY <2>1, NoFirstPack DEF CursorsInTime
  <2>3. ASSUME NEW t \in pending', t.name = "mint", t.contract = c
        PROVE  FALSE
    <3>1. t \notin pending
      BY <2>1, <2>3 DEF CursorsInTime
    <3>2. HandleSettled /\ \E d \in InState("settled") : c = ContractOf[d]
      BY <2>3, <3>1, NewMintTxs
    <3>3. circulating'[c] = StartCirculating(c)
      BY <3>2 DEF HandleSettled
    <3>4. StartCirculating(c) \in Nat
      BY <2>1, NewRowStart DEF StartCirculating
    <3> QED
      BY <1>3, <3>3, <3>4
  <2> QED
    BY <2>2, <2>3
<1> QED
  BY <1>2, <1>3

(* No step moves a cursor over an event that it does not handle.           *)
LEMMA NextSkipsNoEvent ==
  ASSUME Inv, Inv', CursorsInTime, NoEventSkipped, [Next]_vars
  PROVE  NoEventSkipped'
<1> SUFFICES ASSUME NEW c \in Contracts, circulating'[c] # NoRow,
                    NEW b \in 1..circulating'[c], NEW e \in chain'[b],
                    e.type \in RequestTypes, e.contract = c
             PROVE  \E p \in Packs : /\ IsPack(p, c, e.id)'
                                     /\ pack'[p].state \in StatesAfter(e.type)
  BY DEF NoEventSkipped, CirculatingContracts
<1>1. /\ height \in Nat /\ height' \in Nat
      /\ circulating[c] <= height
      /\ circulating[c] \in Nat \union {NoRow}
      /\ \A k \in 1..height : chain'[k] = chain[k]
  BY ChainGrows, LenProperties
     DEF CursorsInTime, Inv, TypeOK, LedgerTypeOK, StoreTypeOK, height
<1>2. b \in Nat /\ b >= 1
  BY <1>1, CursorSteps
(* An event that was handled before.                                       *)
<1>3. CASE circulating[c] # NoRow /\ b <= circulating[c]
  <2>1. b \in 1..height /\ b \in 1..circulating[c] /\ e \in chain[b]
    BY <1>1, <1>2, <1>3
  <2>2. c \in CirculatingContracts
    BY <1>3 DEF CirculatingContracts
  <2>3. PICK p \in Packs : IsPack(p, c, e.id) /\ pack[p].state \in StatesAfter(e.type)
    BY <2>1, <2>2 DEF NoEventSkipped
  <2> QED
    BY <2>3, NextMovesPacks, HandledStaysHandled
(* A contract that starts to circulate has no event yet.                   *)
<1>4. CASE circulating[c] = NoRow
  <2>1. b \in 1..height
    BY <1>1, <1>2, <1>4, CursorSteps
  <2>2. e \in chain[b] /\ EventTrue(e)
    BY <1>1, <2>1 DEF Inv, Consistent, ChainTrue
  <2>3. e.id \in DOMAIN packNFT[c]
    BY <2>2 DEF EventTrue, Exists
  <2> QED
    BY <1>4, <2>3 DEF CursorsInTime
(* An event that this poll handles.                                        *)
<1>5. CASE circulating[c] # NoRow /\ ~(b <= circulating[c])
  <2>1. /\ PollCirculating
        /\ circulating'[c] = NextStart(circulating[c])
        /\ circulating'[c] \in 0..height
    BY <1>1, <1>2, <1>5, CursorSteps
  <2>2. b \in Blocks(circulating[c])
    <3>1. NextStart(circulating[c]) # circulating[c]
      BY <1>1, <1>2, <1>5, <2>1
    <3>2. NextStart(circulating[c]) = RangeEnd(circulating[c])
      BY <3>1 DEF NextStart
    <3> QED
      BY <1>1, <1>2, <1>5, <2>1, <3>2 DEF Blocks
  <2>3. e \in chain[b] /\ b \in Polled(c) /\ c \in CirculatingContracts
    BY <1>1, <1>2, <1>5, <2>1, <2>2 DEF Polled, CirculatingContracts
  <2>4. PICK p \in Packs : IsPack(p, c, e.id)
    BY <2>1, <2>3 DEF PollCirculating, UnknownPack, PackEventsSeen, EventsIn
  <2>5. BlocksWith(p, e.type) # {}
    BY <2>3, <2>4 DEF BlocksWith, IsPack
  <2>6. /\ PolledState(p) # "error"
        /\ pack'[p] = [pack[p] EXCEPT !.state = PolledState(p)]
        /\ pack[p] \in PackRow
    BY <2>1 DEF PollCirculating, UnexpectedState, Inv, TypeOK, StoreTypeOK
  <2>7. PolledState(p) \in StatesAfter(e.type)
    BY <2>5, <2>6, PolledStateAfter
  <2>8. pack'[p].state = PolledState(p) /\ pack'[p].flowID = pack[p].flowID
    BY <2>6 DEF PackRow
  <2>9. IsPack(p, c, e.id)'
    BY <2>4, <2>8 DEF IsPack
  <2> QED
    BY <2>7, <2>8, <2>9
<1> QED
  BY <1>3, <1>4, <1>5

(* No event of a pack that the poll has passed was skipped: whatever the   *)
(* range of a poll, the losses and the rewinds of the cursor, each one has *)
(* found its pack and has taken it on.                                     *)
THEOREM NoEventEverSkipped == Spec => []NoEventSkipped
<1> DEFINE CursorInv == CursorsInTime /\ NoEventSkipped
<1>1. Init => CursorInv
  <2> SUFFICES ASSUME Init
               PROVE  CursorInv
    OBVIOUS
  <2>1. height = 1
    BY DEF Init, LedgerInit, height
  <2> QED
    BY <2>1 DEF Init, LedgerInit, StoreInit, CursorsInTime, NoEventSkipped,
                CirculatingContracts
<1>2. Inv /\ Inv' /\ CursorInv /\ [Next]_vars => CursorInv'
  BY NextKeepsCursors, NextSkipsNoEvent
<1>3. CursorInv => NoEventSkipped
  OBVIOUS
<1> QED
  BY <1>1, <1>2, <1>3, Invariant, PTL DEF Spec

----------------------------------------------------------------------------
(* The service implements the life of a distribution.                      *)

(* A handler that takes the distributions D of one stage to the next one.  *)
LEMMA HandlerAdvances ==
  ASSUME NEW i \in 1..5, NEW D \in SUBSET InState(Life!Stages[i]),
         dist' = SetState(D, Life!Stages[i + 1])
  PROVE  Life!Next
<1>1. Life!Advance(i, D)
  BY DEF Life!Advance, InState, SetState
<1>2. D \in SUBSET Dists
  BY DEF InState
<1> QED
  BY <1>1, <1>2 DEF Life!Next

(* Every step of the service is a step of the life of a distribution or    *)
(* leaves all states as they are.                                          *)
LEMMA NextImplementsLife ==
  ASSUME [Next]_vars
  PROVE  [Life!Next]_dist
<1> USE DEF Life!Stages
<1>1. CASE Create
  <2>1. PICK d \in Dists : CreateDistribution(d)
    BY <1>1 DEF Create
  <2>2. Life!Create(d)
    BY <2>1 DEF CreateDistribution, Life!Create
  <2> QED
    BY <2>2 DEF Life!Next
<1>2. CASE Abort
  <2>1. PICK d \in Abortable : AbortDistribution(d)
    BY <1>2 DEF Abort
  <2>2. d \in Dists
    BY <2>1, ServiceAssumption
  <2>3. Life!Abort(d)
    BY <2>1 DEF AbortDistribution, Life!Abort
  <2> QED
    BY <2>2, <2>3 DEF Life!Next
<1>3. CASE HandleResolved
  BY <1>3, HandlerAdvances, 1 \in 1..5, 1 + 1 = 2 DEF HandleResolved
<1>4. CASE HandleSetup
  BY <1>4, HandlerAdvances, 2 \in 1..5, 2 + 1 = 3 DEF HandleSetup
<1>5. CASE HandleSettling
  <2>1. {d \in InState("settling") : SettlementComplete(d)}
          \in SUBSET InState("settling")
    OBVIOUS
  <2> QED
    BY <1>5, <2>1, HandlerAdvances, 3 \in 1..5, 3 + 1 = 4 DEF HandleSettling
<1>6. CASE HandleSettled
  BY <1>6, HandlerAdvances, 4 \in 1..5, 4 + 1 = 5 DEF HandleSettled
<1>7. CASE HandleMinting
  <2>1. {d \in InState("minting") : MintingComplete(d)}
          \in SUBSET InState("minting")
    OBVIOUS
  <2> QED
    BY <1>7, <2>1, HandlerAdvances, 5 \in 1..5, 5 + 1 = 6 DEF HandleMinting
<1>8. CASE HandleComplete \/ PollCirculating \/ ExecuteTx \/ LoseTx
  BY <1>8 DEF HandleComplete, PollCirculating, ExecuteTx, LoseTx
<1>9. CASE \/ OwnerRequestsReveal \/ OwnerRequestsOpen \/ OwnerTransfers
           \/ AnyoneReveals \/ AccountSends \/ OtherBlock
  BY <1>9 DEF OwnerRequestsReveal, OwnerRequestsOpen, OwnerTransfers,
              AnyoneReveals, AccountSends, OtherBlock, storeVars
<1>10. CASE UNCHANGED vars
  BY <1>10 DEF vars, storeVars
<1> QED
  BY <1>1, <1>2, <1>3, <1>4, <1>5, <1>6, <1>7, <1>8, <1>9, <1>10 DEF Next

(* No execution of the service leaves out a stage of a distribution or     *)
(* leaves an end again, for any contracts, losses, aborts and batch sizes. *)
THEOREM ServiceImplementsLife == Spec => ImplementsLife
<1>1. Init => Life!Init
  BY DEF Init, StoreInit, Life!Init
<1>2. [Next]_vars => [Life!Next]_dist
  BY NextImplementsLife
<1> QED
  BY <1>1, <1>2, PTL DEF Spec, ImplementsLife, Life!Spec

=============================================================================
