---------------------------- MODULE PDSMintingProofs ----------------------------
(***************************************************************************)
(* Proofs about the minting of packs in PDSService, for every value of its *)
(* constants: every pack is minted at most once, no mint event is missed,  *)
(* and a complete distribution has all of its packs on the chain.          *)
(***************************************************************************)
EXTENDS PDSServiceProofs

----------------------------------------------------------------------------
(* The invariant of the minting.                                           *)

(* The states of a distribution before StartMinting.                       *)
BeforeMinting == {"none", "resolved", "setup", "settling", "settled"}

IsMinted(p) ==
  \E c \in Contracts : \E id \in DOMAIN packNFT[c] : packNFT[c][id].hash = p

ToMint(p) == \E t \in pending : t.name = "mint" /\ p \in Elems(t.hashes)

(* A pack on the chain belongs to a distribution of its contract.          *)
NFTsOwn ==
  \A c \in Contracts : \A id \in DOMAIN packNFT[c] :
    ContractOf[DistOf(packNFT[c][id].hash)] = c

(* No two packs of a contract have the same commitment hash.               *)
EachMintedOnce ==
  \A c \in Contracts : \A i, j \in DOMAIN packNFT[c] :
    packNFT[c][i].hash = packNFT[c][j].hash => i = j

(* No pack is in two pending transactions, or twice in one.                *)
EachToMintOnce ==
  \A t \in pending : t.name = "mint" =>
    /\ \A i, j \in DOMAIN t.hashes : t.hashes[i] = t.hashes[j] => i = j
    /\ \A u \in pending : u.name = "mint" /\ u # t =>
         Elems(t.hashes) \cap Elems(u.hashes) = {}

(* No pack that is on the chain is going to be minted again.               *)
MintedIsDone == \A p \in Packs : ~(IsMinted(p) /\ ToMint(p))

(* No pack is minted before its distribution starts to mint.               *)
EarlyUnminted ==
  \A d \in Dists : dist[d] \in BeforeMinting =>
    \A p \in PacksOf(d) : ~IsMinted(p) /\ ~ToMint(p)

MintInv ==
  /\ NFTsOwn
  /\ EachMintedOnce
  /\ EachToMintOnce
  /\ MintedIsDone
  /\ EarlyUnminted

----------------------------------------------------------------------------
(* Batches.                                                                *)

(* What is at a place of a batch is in the table, at a place that tells    *)
(* the number of the batch.                                                *)
LEMMA BatchPlace ==
  ASSUME NEW S, NEW rows \in Seq(S), NEW size \in Nat \ {0},
         NEW k \in 1..NumBatches(rows, size),
         NEW i \in DOMAIN Batch(rows, size, k)
  PROVE  /\ i \in 1..size
         /\ (k - 1) * size + i \in DOMAIN rows
         /\ Batch(rows, size, k)[i] = rows[(k - 1) * size + i]
<1> DEFINE m == (k - 1) * size + 1
           n == Min2(k * size, Len(rows))
<1>1. k \in Int /\ k >= 1 /\ size \in Nat
  OBVIOUS
<1>2. (k - 1) * size \in Nat /\ k * size = (k - 1) * size + size
  <2>1. \A a, b \in Nat : a * b \in Nat
    OBVIOUS
  <2>2. \A a, b \in Nat : (a + 1) * b = a * b + b
    OBVIOUS
  <2>3. k - 1 \in Nat /\ (k - 1) + 1 = k
    BY <1>1
  <2> QED
    BY <1>1, <2>1, <2>2, <2>3
<1>3. Len(rows) \in Nat /\ DOMAIN rows = 1..Len(rows)
  BY LenProperties
<1>4. m \in Int /\ n \in Int /\ m >= 1 /\ n <= Len(rows) /\ n <= k * size
  BY <1>2, <1>3 DEF Min2
<1>5. PICK q \in Nat : q = (k - 1) * size /\ m = q + 1 /\ k * size = q + size
  BY <1>2
<1> HIDE DEF m, n
<1>6. \A j \in m..n : rows[j] \in S
  BY <1>3, <1>4, ElementOfSeq
<1>7. /\ Len(SubSeq(rows, m, n)) = IF m <= n THEN n - m + 1 ELSE 0
      /\ SubSeq(rows, m, n) \in Seq(S)
      /\ \A j \in 1..(n - m + 1) : SubSeq(rows, m, n)[j] = rows[m + j - 1]
  BY <1>4, <1>6, SubSeqProperties
<1>8. Batch(rows, size, k) = SubSeq(rows, m, n)
  BY DEF Batch, m, n
<1>9. i \in 1..(n - m + 1)
  BY <1>4, <1>7, <1>8, LenProperties
<1>10. m + i - 1 = q + i /\ q + i \in 1..Len(rows) /\ i \in 1..size
  BY <1>1, <1>3, <1>4, <1>5, <1>9
<1> QED
  BY <1>3, <1>5, <1>7, <1>8, <1>9, <1>10

(* A place of the table is in one batch only.                              *)
LEMMA OneBatch ==
  ASSUME NEW size \in Nat \ {0}, NEW k1 \in Nat, NEW k2 \in Nat,
         NEW i1 \in 1..size, NEW i2 \in 1..size,
         (k1 - 1) * size + i1 = (k2 - 1) * size + i2, k1 >= 1, k2 >= 1
  PROVE  k1 = k2 /\ i1 = i2
<1>1. \A a, b, n \in Nat : (a + b + 1) * n = a * n + b * n + n
  OBVIOUS
<1>2. \A a, b \in Nat : a * b \in Nat
  OBVIOUS
<1>3. ASSUME NEW a \in Nat, NEW b \in Nat, a < b, NEW i \in 1..size, NEW j \in 1..size
      PROVE  a * size + i # b * size + j
  <2>1. PICK c \in Nat : b = a + c + 1
    <3>1. b - a - 1 \in Nat /\ b = a + (b - a - 1) + 1
      BY <1>3
    <3> QED
      BY <3>1
  <2>2. b * size = a * size + c * size + size
    BY <1>1, <2>1
  <2>3. a * size \in Nat /\ c * size \in Nat
    BY <1>2
  <2>4. PICK as \in Nat, cs \in Nat : as = a * size /\ cs = c * size
    BY <2>3
  <2> QED
    BY <2>2, <2>4
<1>4. k1 - 1 \in Nat /\ k2 - 1 \in Nat
  OBVIOUS
<1>5. ~(k1 - 1 < k2 - 1) /\ ~(k2 - 1 < k1 - 1)
  BY <1>3, <1>4
<1>6. k1 = k2
  BY <1>4, <1>5
<1>7. PICK m \in Nat : m = (k1 - 1) * size
  BY <1>2, <1>4
<1>8. m + i1 = m + i2
  BY <1>6, <1>7
<1> QED
  BY <1>6, <1>8

(* The batches of one distribution share no pack, and none holds a pack    *)
(* twice.                                                                  *)
LEMMA BatchesApart ==
  ASSUME NEW d \in Dists, NEW k1 \in 1..NumBatches(PackRows[d], MintingBatchSize),
         NEW k2 \in 1..NumBatches(PackRows[d], MintingBatchSize),
         NEW i1 \in DOMAIN Batch(PackRows[d], MintingBatchSize, k1),
         NEW i2 \in DOMAIN Batch(PackRows[d], MintingBatchSize, k2),
         Batch(PackRows[d], MintingBatchSize, k1)[i1]
           = Batch(PackRows[d], MintingBatchSize, k2)[i2]
  PROVE  k1 = k2 /\ i1 = i2
<1>1. /\ PackRows[d] \in Seq(Packs)
      /\ MintingBatchSize \in Nat \ {0}
      /\ \A i, j \in DOMAIN PackRows[d] : PackRows[d][i] = PackRows[d][j] => i = j
  BY StoreAssumption
<1>2. /\ i1 \in 1..MintingBatchSize
      /\ (k1 - 1) * MintingBatchSize + i1 \in DOMAIN PackRows[d]
      /\ Batch(PackRows[d], MintingBatchSize, k1)[i1]
           = PackRows[d][(k1 - 1) * MintingBatchSize + i1]
  BY <1>1, BatchPlace
<1>3. /\ i2 \in 1..MintingBatchSize
      /\ (k2 - 1) * MintingBatchSize + i2 \in DOMAIN PackRows[d]
      /\ Batch(PackRows[d], MintingBatchSize, k2)[i2]
           = PackRows[d][(k2 - 1) * MintingBatchSize + i2]
  BY <1>1, BatchPlace
<1>4. (k1 - 1) * MintingBatchSize + i1 = (k2 - 1) * MintingBatchSize + i2
  BY <1>1, <1>2, <1>3, Zenon
<1>5. k1 \in Nat /\ k2 \in Nat /\ k1 >= 1 /\ k2 >= 1
  OBVIOUS
<1> QED
  BY <1>1, <1>2, <1>3, <1>4, <1>5, OneBatch

----------------------------------------------------------------------------
(* What a step does to the packs on the chain and to the mints.            *)

SameNFTs ==
  \A c \in Contracts :
    /\ DOMAIN packNFT'[c] = DOMAIN packNFT[c]
    /\ \A id \in DOMAIN packNFT[c] : packNFT'[c][id].hash = packNFT[c][id].hash

AddsNFTs(c, hs) ==
  LET s == Len(packNFT[c])
      n == Len(hs)
  IN /\ DOMAIN packNFT[c] = 1..s
     /\ DOMAIN packNFT'[c] = 1..(s + n)
     /\ \A id \in 1..s : packNFT'[c][id] = packNFT[c][id]
     /\ \A k \in 1..n :
          /\ packNFT'[c][s + k].hash = hs[k]
          /\ packNFT'[c][s + k].status = "Sealed"
     /\ \A b \in Contracts \ {c} : packNFT'[b] = packNFT[b]

MintStep(t) ==
  /\ t \in pending
  /\ t.name = "mint"
  /\ pending' = pending \ {t}
  /\ UNCHANGED <<dist, pack, settlement, minting, circulating>>
  /\ t.contract \in Contracts
  /\ t.hashes \in Seq(Packs)
  /\ AddsNFTs(t.contract, t.hashes)

(* A pack that changes keeps its hash and its contract keeps its ids.      *)
LEMMA OnePackKeepsHashes ==
  ASSUME LedgerTypeOK, NEW c \in Contracts, NEW id \in DOMAIN packNFT[c],
         NEW r \in PackNFT, r.hash = packNFT[c][id].hash,
         packNFT' = [packNFT EXCEPT ![c] = [packNFT[c] EXCEPT ![id] = r]]
  PROVE  SameNFTs
<1> DEFINE s == [packNFT[c] EXCEPT ![id] = r]
<1>1. /\ DOMAIN s = DOMAIN packNFT[c]
      /\ s[id] = r
      /\ \A i \in DOMAIN packNFT[c] : i # id => s[i] = packNFT[c][i]
  OBVIOUS
<1>2. packNFT' = [packNFT EXCEPT ![c] = s]
  OBVIOUS
<1> HIDE DEF s
<1>3. /\ packNFT'[c] = s
      /\ \A b \in Contracts : b # c => packNFT'[b] = packNFT[b]
  BY <1>2 DEF LedgerTypeOK
<1> QED
  BY <1>1, <1>3 DEF SameNFTs

(* A pack that is revealed or opened keeps its hash.                       *)
LEMMA StatusKeepsHashes ==
  ASSUME LedgerTypeOK, NEW c \in Contracts, NEW id \in DOMAIN packNFT[c],
         NEW st \in Status,
         packNFT' = [packNFT EXCEPT ![c][id].status = st]
  PROVE  SameNFTs
<1> DEFINE r == [packNFT[c][id] EXCEPT !.status = st]
<1>1. packNFT[c][id] \in PackNFT
  BY PackNFTType
<1>2. r \in PackNFT /\ r.hash = packNFT[c][id].hash
  BY <1>1 DEF PackNFT
<1>3. packNFT' = [packNFT EXCEPT ![c] = [packNFT[c] EXCEPT ![id] = r]]
  OBVIOUS
<1> QED
  BY <1>2, <1>3, OnePackKeepsHashes

(* A mint adds its packs behind those of its contract.                     *)
LEMMA MintAddsNFTs ==
  ASSUME LedgerTypeOK, NEW t, t.contract \in Contracts, t.hashes \in Seq(Packs),
         Mint(t)
  PROVE  AddsNFTs(t.contract, t.hashes)
<1> DEFINE c == t.contract
           supply == Len(packNFT[c])
           n == Len(t.hashes)
           minted == [k \in 1..n |->
                        [hash |-> t.hashes[k], status |-> "Sealed",
                         owner |-> Issuer]]
<1>1. n \in Nat /\ \A k \in 1..n : t.hashes[k] \in Packs
  BY LenProperties, ElementOfSeq
<1>2. /\ packNFT[c] \in Seq(PackNFT)
      /\ DOMAIN packNFT[c] = 1..supply
  BY PackNFTType
<1>3. minted \in Seq(PackNFT) /\ Len(minted) = n
  BY <1>1, LedgerAssumption DEF PackNFT, Status
<1>4. packNFT' = [packNFT EXCEPT ![c] = packNFT[c] \o minted]
  BY DEF Mint
<1>5. \A k \in 1..n : minted[k].hash = t.hashes[k] /\ minted[k].status = "Sealed"
  OBVIOUS
<1>6. /\ packNFT'[c] = packNFT[c] \o minted
      /\ \A b \in Contracts \ {c} : packNFT'[b] = packNFT[b]
  BY <1>4 DEF LedgerTypeOK
<1> HIDE DEF minted, supply, n, c
<1>7. /\ DOMAIN packNFT'[c] = 1..(supply + n)
      /\ \A id \in 1..supply : packNFT'[c][id] = packNFT[c][id]
      /\ \A k \in 1..n : packNFT'[c][supply + k] = minted[k]
  BY <1>2, <1>3, <1>6, Concatenation DEF supply
<1>8. \A k \in 1..n :
        /\ packNFT'[c][supply + k].hash = t.hashes[k]
        /\ packNFT'[c][supply + k].status = "Sealed"
  BY <1>5, <1>7, Zenon
<1> QED
  BY <1>2, <1>6, <1>7, <1>8, Zenon DEF AddsNFTs, supply, n, c

(* A step mints one pending transaction or keeps ids and hashes.           *)
LEMMA NFTsOfStep ==
  ASSUME Inv, [Next]_vars
  PROVE  SameNFTs \/ \E t \in pending : MintStep(t)
<1> USE DEF Inv, TypeOK
<1>1. CASE packNFT' = packNFT
  BY <1>1 DEF SameNFTs
<1>2. CASE ExecuteTx
  <2>1. PICK t \in pending :
          /\ Execute(t)
          /\ pending' = pending \ {t}
          /\ UNCHANGED <<dist, pack, settlement, minting, circulating>>
    BY <1>2 DEF ExecuteTx
  <2>2. t \in Tx
    BY DEF StoreTypeOK
  <2>3. CASE ~Succeeds(t)
    BY <1>1, <2>1, <2>3 DEF Execute, EmptyBlock
  <2>4. CASE Succeeds(t) /\ t.name \in {"settle", "update_dist_state"}
    BY <1>1, <2>1, <2>4 DEF Execute, Apply, Settle, UpdateDistState
  <2>5. CASE Succeeds(t) /\ t.name = "mint"
    <3>1. t.contract \in Contracts /\ t.hashes \in Seq(Packs)
      BY <2>2, <2>5 DEF Tx
    <3>2. Mint(t)
      BY <2>1, <2>5 DEF Execute, Apply
    <3>3. AddsNFTs(t.contract, t.hashes)
      BY <3>1, <3>2, MintAddsNFTs
    <3> QED
      BY <2>1, <2>5, <3>1, <3>3 DEF MintStep
  <2>6. CASE Succeeds(t) /\ t.name \in {"reveal", "open"}
    <3>1. t.contract \in Contracts
      BY <2>2, <2>6 DEF Tx
    <3>2. t.id \in DOMAIN packNFT[t.contract]
      BY <2>6 DEF Succeeds, CanReveal, CanOpen, Exists
    <3>3. Reveal(t.contract, t.id) \/ Open(t.contract, t.id, t.pack, t.owner)
      BY <2>1, <2>6 DEF Execute, Apply
    <3>4. PICK st \in Status :
            packNFT' = [packNFT EXCEPT ![t.contract][t.id].status = st]
      BY <3>3 DEF Reveal, Open, Status
    <3> QED
      BY <3>1, <3>2, <3>4, StatusKeepsHashes
  <2> QED
    BY <2>3, <2>4, <2>5, <2>6 DEF Succeeds
<1>3. CASE OwnerTransfers
  <2>1. PICK c \in Contracts, s \in Sales :
          \E id \in DOMAIN packNFT[c] : TransferPack(c, id, s[1], s[2])
    BY <1>3 DEF OwnerTransfers
  <2>2. PICK id \in DOMAIN packNFT[c] : TransferPack(c, id, s[1], s[2])
    BY <2>1
  <2>3. PICK a \in Accounts : a = s[2]
    BY ServiceAssumption
  <2> DEFINE r == [packNFT[c][id] EXCEPT !.owner = a]
  <2>4. packNFT[c][id] \in PackNFT
    BY PackNFTType
  <2>5. r \in PackNFT /\ r.hash = packNFT[c][id].hash
    BY <2>4 DEF PackNFT
  <2>6. packNFT' = [packNFT EXCEPT ![c] = [packNFT[c] EXCEPT ![id] = r]]
    BY <2>2, <2>3 DEF TransferPack
  <2> QED
    BY <2>5, <2>6, OnePackKeepsHashes
<1>4. CASE AnyoneReveals
  <2>1. PICK p \in Disclosed : PublicReveal(ContractOf[DistOf(p)], pack[p].flowID, p)
    BY <1>4 DEF AnyoneReveals
  <2>2. PICK c \in Contracts : c = ContractOf[DistOf(p)]
    BY ServiceAssumption, DistOfPack, StoreAssumption
  <2>3. PICK id : id = pack[p].flowID
    OBVIOUS
  <2>4. CanReveal(c, id, p) /\ Reveal(c, id)
    BY <2>1, <2>2, <2>3 DEF PublicReveal
  <2>5. /\ id \in DOMAIN packNFT[c]
        /\ packNFT' = [packNFT EXCEPT ![c][id].status = "Revealed"]
    BY <2>4 DEF CanReveal, Exists, Reveal
  <2> QED
    BY <2>5, StatusKeepsHashes, "Revealed" \in Status DEF Status
<1>5. CASE ~(ExecuteTx \/ OwnerTransfers \/ AnyoneReveals)
  <2>1. packNFT' = packNFT
    BY <1>5 DEF Next, vars, ledgerVars, Create, CreateDistribution,
         Abort, AbortDistribution, HandleResolved, HandleSetup, HandleSettling,
         HandleSettled, HandleMinting, HandleComplete, PollCirculating, LoseTx,
         OwnerRequestsReveal, RequestReveal, OwnerRequestsOpen, RequestOpen,
         AccountSends, SendCollectible, OtherBlock, EmptyBlock
  <2> QED
    BY <1>1, <2>1
<1> QED
  BY <1>2, <1>3, <1>4, <1>5

(* A distribution that has not started to mint after a step has not done   *)
(* so before, and the step does not start it.                              *)
LEMMA EarlyBefore ==
  ASSUME Inv, [Next]_vars, NEW d \in Dists, dist'[d] \in BeforeMinting
  PROVE  dist[d] \in BeforeMinting /\ (HandleSettled => dist[d] # "settled")
<1>1. dist \in [Dists -> DistributionState]
  BY DEF Inv, TypeOK, StoreTypeOK
<1>2. CASE HandleSettled
  <2>1. dist'[d] = IF dist[d] = "settled" THEN "minting" ELSE dist[d]
    BY <1>2 DEF HandleSettled, SetState, InState
  <2> QED
    BY <2>1 DEF BeforeMinting
<1>3. CASE HandleMinting
  <2>1. dist'[d] = "complete" \/ dist'[d] = dist[d]
    BY <1>3 DEF HandleMinting, SetState
  <2>2. dist[d] \in BeforeMinting
    BY <2>1 DEF BeforeMinting
  <2>3. HandleSettled => dist[d] # "settled"
    BY <1>2
  <2> QED
    BY <2>2, <2>3
<1>4. CASE dist[d] \in BeforeMinting
  BY <1>2, <1>4
<1>5. CASE ~HandleSettled /\ ~HandleMinting /\ dist[d] \notin BeforeMinting
  <2>1. dist'[d] = dist[d] \/ dist'[d] = "invalid"
    BY <1>1, <1>5 DEF Next, vars, storeVars, Create, CreateDistribution, Abort,
         AbortDistribution, HandleResolved, HandleSetup, HandleSettling,
         HandleComplete, PollCirculating, ExecuteTx, LoseTx, OwnerRequestsReveal,
         OwnerRequestsOpen, OwnerTransfers, AnyoneReveals, AccountSends,
         OtherBlock, SetState, InState, BeforeMinting
  <2> QED
    BY <1>5, <2>1 DEF BeforeMinting
<1> QED
  BY <1>2, <1>3, <1>4, <1>5

----------------------------------------------------------------------------
(* Every step keeps the invariant of the minting.                          *)

(* The hashes of a batch are packs of its distribution, each one once.     *)
LEMMA MintBatchPacks ==
  ASSUME NEW d \in Dists, NEW t \in MintBatches(d)
  PROVE  /\ t.name = "mint"
         /\ Elems(t.hashes) \in SUBSET PacksOf(d)
         /\ \A i, j \in DOMAIN t.hashes : t.hashes[i] = t.hashes[j] => i = j
         /\ \A u \in MintBatches(d) :
              u # t => Elems(t.hashes) \cap Elems(u.hashes) = {}
<1> DEFINE B(k) == Batch(PackRows[d], MintingBatchSize, k)
           K == 1..NumBatches(PackRows[d], MintingBatchSize)
<1>1. \A u \in MintBatches(d) : \E k \in K :
        u = [name |-> "mint", dist |-> d, contract |-> ContractOf[d], hashes |-> B(k)]
  BY DEF MintBatches, MintTx
<1>2. \A k1, k2 \in K : \A i1 \in DOMAIN B(k1), i2 \in DOMAIN B(k2) :
        B(k1)[i1] = B(k2)[i2] => k1 = k2 /\ i1 = i2
  BY BatchesApart
<1>3. \A k \in K : \A i \in DOMAIN B(k) : B(k)[i] \in PacksOf(d)
  BY StoreAssumption, BatchOfRows DEF PacksOf
<1> HIDE DEF B, K
<1>4. PICK k \in K :
        t = [name |-> "mint", dist |-> d, contract |-> ContractOf[d], hashes |-> B(k)]
  BY <1>1
<1>5. t.name = "mint" /\ t.hashes = B(k)
  BY <1>4
<1>6. ASSUME NEW u \in MintBatches(d), u # t
      PROVE  Elems(t.hashes) \cap Elems(u.hashes) = {}
  <2>1. PICK l \in K :
          u = [name |-> "mint", dist |-> d, contract |-> ContractOf[d], hashes |-> B(l)]
    BY <1>1
  <2>2. u.hashes = B(l) /\ l # k
    BY <1>4, <1>6, <2>1
  <2> QED
    BY <1>2, <1>5, <2>2 DEF Elems
<1> QED
  BY <1>2, <1>3, <1>5, <1>6 DEF Elems

(* A pack of one distribution is not a pack of another.                    *)
LEMMA PacksApart ==
  ASSUME NEW d \in Dists, NEW e \in Dists, d # e
  PROVE  PacksOf(d) \cap PacksOf(e) = {}
BY StoreAssumption

(* A mint that was not pending comes from a settled distribution.          *)
LEMMA NewMints ==
  ASSUME Inv, [Next]_vars, NEW t \in pending', t.name = "mint", t \notin pending
  PROVE  /\ HandleSettled
         /\ \E d \in InState("settled") : t \in MintBatches(d)
BY NewMintTxs

(* After a mint a pack is one of before or one that was just minted.       *)
LEMMA NFTAfterMint ==
  ASSUME Inv, NEW t, MintStep(t), NEW b \in Contracts, NEW i \in DOMAIN packNFT'[b]
  PROVE  \/ i \in DOMAIN packNFT[b] /\ packNFT'[b][i] = packNFT[b][i]
         \/ /\ b = t.contract
            /\ \E k \in DOMAIN t.hashes :
                 /\ i = Len(packNFT[b]) + k
                 /\ packNFT'[b][i].hash = t.hashes[k]
                 /\ packNFT'[b][i].status = "Sealed"
<1> DEFINE c == t.contract
           s == Len(packNFT[c])
           n == Len(t.hashes)
<1>1. /\ t.hashes \in Seq(Packs) /\ c \in Contracts
      /\ AddsNFTs(c, t.hashes)
  BY DEF MintStep
<1>2. n \in Nat /\ DOMAIN t.hashes = 1..n /\ s \in Nat
  BY <1>1, LenProperties, PackNFTType DEF Inv, TypeOK
<1>3. CASE b # c
  BY <1>1, <1>3 DEF AddsNFTs
<1>4. CASE b = c
  <2>1. /\ DOMAIN packNFT[c] = 1..s
        /\ DOMAIN packNFT'[c] = 1..(s + n)
        /\ \A id \in 1..s : packNFT'[c][id] = packNFT[c][id]
        /\ \A k \in 1..n : /\ packNFT'[c][s + k].hash = t.hashes[k]
                            /\ packNFT'[c][s + k].status = "Sealed"
    BY <1>1 DEF AddsNFTs
  <2>2. s = Len(packNFT[b]) /\ c = t.contract
    BY <1>4
  <2> HIDE DEF s, n, c
  <2>3. i \in 1..(s + n)
    BY <1>4, <2>1
  <2>4. CASE i > s
    <3>1. PICK k \in 1..n : i = s + k
      <4>1. i - s \in 1..n /\ i = s + (i - s)
        BY <1>2, <2>3, <2>4
      <4> QED
        BY <4>1
    <3> QED
      BY <1>2, <1>4, <2>1, <2>2, <3>1, Zenon
  <2>5. CASE ~(i > s)
    <3>1. i \in 1..s
      BY <1>2, <2>3, <2>5
    <3> QED
      BY <1>4, <2>1, <3>1
  <2> QED
    BY <2>4, <2>5
<1> QED
  BY <1>3, <1>4

(* A mint takes its packs from the table of transactions to the chain.     *)
LEMMA MintMoves ==
  ASSUME Inv, MintInv, NEW t, MintStep(t), NEW p
  PROVE  /\ IsMinted(p)' => IsMinted(p) \/ p \in Elems(t.hashes)
         /\ ToMint(p)' => ToMint(p) /\ p \notin Elems(t.hashes)
         /\ p \in Elems(t.hashes) => ToMint(p)
<1>1. t \in pending /\ t.name = "mint" /\ pending' = pending \ {t}
  BY DEF MintStep
<1>2. ASSUME NEW b \in Contracts, NEW i \in DOMAIN packNFT'[b],
             packNFT'[b][i].hash = p
      PROVE  IsMinted(p) \/ p \in Elems(t.hashes)
  BY <1>2, NFTAfterMint DEF IsMinted, Elems
<1>3. IsMinted(p)' => IsMinted(p) \/ p \in Elems(t.hashes)
  BY <1>2 DEF IsMinted
<1>4. p \in Elems(t.hashes) => ToMint(p)
  BY <1>1 DEF ToMint
<1>5. ToMint(p)' => ToMint(p) /\ p \notin Elems(t.hashes)
  <2> SUFFICES ASSUME NEW u \in pending', u.name = "mint", p \in Elems(u.hashes)
               PROVE  ToMint(p) /\ p \notin Elems(t.hashes)
    BY DEF ToMint
  <2>1. u \in pending /\ u # t
    BY <1>1
  <2>2. Elems(t.hashes) \cap Elems(u.hashes) = {}
    BY <1>1, <2>1 DEF MintInv, EachToMintOnce
  <2> QED
    BY <2>1, <2>2 DEF ToMint
<1> QED
  BY <1>3, <1>4, <1>5

(* A mint keeps the invariant of the minting.                              *)
LEMMA MintKeepsMintInv ==
  ASSUME Inv, MintInv, NEW t, MintStep(t)
  PROVE  MintInv'
<1>1. /\ t \in pending /\ t.name = "mint" /\ pending' = pending \ {t}
      /\ t.hashes \in Seq(Packs) /\ dist' = dist
  BY DEF MintStep
<1>2. \A k \in DOMAIN t.hashes :
        /\ t.hashes[k] \in Packs
        /\ t.hashes[k] \in Elems(t.hashes)
        /\ ContractOf[DistOf(t.hashes[k])] = t.contract
  BY <1>1, ElementOfSeq, LenProperties DEF Inv, Consistent, MintsOwnPacks, Elems
<1>3. NFTsOwn'
  <2> SUFFICES ASSUME NEW c \in Contracts, NEW i \in DOMAIN packNFT'[c]
               PROVE  ContractOf[DistOf(packNFT'[c][i].hash)] = c
    BY DEF NFTsOwn
  <2> QED
    BY <1>2, NFTAfterMint DEF MintInv, NFTsOwn
<1>4. EachMintedOnce'
  <2> SUFFICES ASSUME NEW c \in Contracts, NEW i \in DOMAIN packNFT'[c],
                      NEW j \in DOMAIN packNFT'[c],
                      packNFT'[c][i].hash = packNFT'[c][j].hash
               PROVE  i = j
    BY DEF EachMintedOnce
  <2> DEFINE Old(m) == m \in DOMAIN packNFT[c] /\ packNFT'[c][m] = packNFT[c][m]
             New(m) == /\ c = t.contract
                       /\ \E k \in DOMAIN t.hashes :
                            /\ m = Len(packNFT[c]) + k
                            /\ packNFT'[c][m].hash = t.hashes[k]
  <2>1. (Old(i) \/ New(i)) /\ (Old(j) \/ New(j))
    BY NFTAfterMint
  <2>2. \A k, l \in DOMAIN t.hashes : t.hashes[k] = t.hashes[l] => k = l
    BY <1>1 DEF MintInv, EachToMintOnce
  <2>3. ASSUME NEW m, NEW q, Old(m), New(q), packNFT'[c][m].hash = packNFT'[c][q].hash
        PROVE  FALSE
    <3>1. PICK k \in DOMAIN t.hashes : packNFT'[c][q].hash = t.hashes[k]
      BY <2>3
    <3>2. IsMinted(t.hashes[k])
      BY <2>3, <3>1 DEF IsMinted
    <3>3. ToMint(t.hashes[k]) /\ t.hashes[k] \in Packs
      BY <1>2, MintMoves
    <3> QED
      BY <3>2, <3>3 DEF MintInv, MintedIsDone
  <2>4. CASE Old(i) /\ Old(j)
    BY <2>4 DEF MintInv, EachMintedOnce
  <2>5. CASE New(i) /\ New(j)
    BY <2>2, <2>5
  <2> QED
    BY <2>1, <2>3, <2>4, <2>5
<1>5. EachToMintOnce'
  BY <1>1 DEF MintInv, EachToMintOnce
<1>6. MintedIsDone'
  <2> SUFFICES ASSUME NEW p \in Packs, IsMinted(p)', ToMint(p)'
               PROVE  FALSE
    BY DEF MintedIsDone
  <2> QED
    BY MintMoves DEF MintInv, MintedIsDone
<1>7. EarlyUnminted'
  <2> SUFFICES ASSUME NEW d \in Dists, dist[d] \in BeforeMinting, NEW p \in PacksOf(d)
               PROVE  ~IsMinted(p)' /\ ~ToMint(p)'
    BY <1>1 DEF EarlyUnminted
  <2>1. ~IsMinted(p) /\ ~ToMint(p)
    BY DEF MintInv, EarlyUnminted
  <2> QED
    BY <2>1, MintMoves
<1> QED
  BY <1>3, <1>4, <1>5, <1>6, <1>7 DEF MintInv

(* Every other step keeps the invariant of the minting.                    *)
LEMMA OthersKeepMintInv ==
  ASSUME Inv, MintInv, [Next]_vars, SameNFTs
  PROVE  MintInv'
<1>1. \A p : IsMinted(p)' <=> IsMinted(p)
  BY DEF SameNFTs, IsMinted
<1>2. NFTsOwn' /\ EachMintedOnce'
  BY DEF SameNFTs, MintInv, NFTsOwn, EachMintedOnce
<1>3. ASSUME NEW t \in pending', t.name = "mint", t \notin pending
      PROVE  \E d \in Dists :
               /\ HandleSettled /\ dist[d] = "settled"
               /\ t \in MintBatches(d)
               /\ \A p \in Elems(t.hashes) :
                    /\ p \in Packs /\ p \in PacksOf(d)
                    /\ ~IsMinted(p) /\ ~ToMint(p)
  <2>1. PICK d \in InState("settled") : t \in MintBatches(d) /\ HandleSettled
    BY <1>3, NewMints
  <2>2. d \in Dists /\ dist[d] = "settled"
    BY DEF InState
  <2>3. Elems(t.hashes) \in SUBSET PacksOf(d)
    BY <2>1, <2>2, MintBatchPacks
  <2>4. \A p \in PacksOf(d) : p \in Packs /\ ~IsMinted(p) /\ ~ToMint(p)
    BY <2>2, PackOfDist DEF MintInv, EarlyUnminted, BeforeMinting
  <2> QED
    BY <2>1, <2>2, <2>3, <2>4
<1>4. EachToMintOnce'
  <2> SUFFICES ASSUME NEW t \in pending', t.name = "mint"
               PROVE  /\ \A i, j \in DOMAIN t.hashes :
                           t.hashes[i] = t.hashes[j] => i = j
                      /\ \A u \in pending' : u.name = "mint" /\ u # t =>
                           Elems(t.hashes) \cap Elems(u.hashes) = {}
    BY DEF EachToMintOnce
  <2>1. \A i, j \in DOMAIN t.hashes : t.hashes[i] = t.hashes[j] => i = j
    <3>1. CASE t \in pending
      BY <3>1 DEF MintInv, EachToMintOnce
    <3>2. CASE t \notin pending
      BY <1>3, <3>2, MintBatchPacks
    <3> QED
      BY <3>1, <3>2
  <2>2. ASSUME NEW u \in pending', u.name = "mint", u # t
        PROVE  Elems(t.hashes) \cap Elems(u.hashes) = {}
    <3>1. CASE t \in pending /\ u \in pending
      BY <2>2, <3>1 DEF MintInv, EachToMintOnce
    <3>2. ASSUME NEW v \in pending, v.name = "mint",
                 NEW w \in pending', w.name = "mint", w \notin pending
          PROVE  Elems(v.hashes) \cap Elems(w.hashes) = {}
      <4>1. \A p \in Elems(v.hashes) : ToMint(p)
        BY <3>2 DEF ToMint
      <4>2. \A p \in Elems(w.hashes) : ~ToMint(p)
        BY <1>3, <3>2
      <4> QED
        BY <4>1, <4>2
    <3>3. CASE t \notin pending /\ u \notin pending
      <4>1. PICK d \in Dists : t \in MintBatches(d)
        BY <1>3, <3>3
      <4>2. PICK e \in Dists : u \in MintBatches(e)
        BY <1>3, <2>2, <3>3
      <4>3. /\ Elems(t.hashes) \in SUBSET PacksOf(d)
            /\ Elems(u.hashes) \in SUBSET PacksOf(e)
            /\ d = e => Elems(t.hashes) \cap Elems(u.hashes) = {}
        BY <2>2, <4>1, <4>2, MintBatchPacks
      <4> QED
        BY <4>3, PacksApart
    <3> QED
      BY <2>2, <3>1, <3>2, <3>3
  <2> QED
    BY <2>1, <2>2
<1>5. ASSUME NEW p, ToMint(p)'
      PROVE  \/ ToMint(p)
             \/ /\ ~IsMinted(p) /\ HandleSettled
                /\ \E d \in Dists : dist[d] = "settled" /\ p \in PacksOf(d)
  <2>1. PICK t \in pending' : t.name = "mint" /\ p \in Elems(t.hashes)
    BY <1>5 DEF ToMint
  <2>2. CASE t \in pending
    BY <2>1, <2>2 DEF ToMint
  <2>3. CASE t \notin pending
    BY <1>3, <2>1, <2>3
  <2> QED
    BY <2>2, <2>3
<1>6. MintedIsDone'
  BY <1>1, <1>5 DEF MintInv, MintedIsDone
<1>7. EarlyUnminted'
  <2> SUFFICES ASSUME NEW d \in Dists, dist'[d] \in BeforeMinting, NEW p \in PacksOf(d)
               PROVE  ~IsMinted(p)' /\ ~ToMint(p)'
    BY DEF EarlyUnminted
  <2>1. dist[d] \in BeforeMinting /\ (HandleSettled => dist[d] # "settled")
    BY EarlyBefore
  <2>2. ~IsMinted(p) /\ ~ToMint(p)
    BY <2>1 DEF MintInv, EarlyUnminted
  <2>3. ASSUME ToMint(p)'
        PROVE  FALSE
    <3>1. PICK e \in Dists : HandleSettled /\ dist[e] = "settled" /\ p \in PacksOf(e)
      BY <1>5, <2>2, <2>3
    <3>2. e = d
      BY <3>1, PackOfDist
    <3> QED
      BY <2>1, <3>1, <3>2
  <2> QED
    BY <1>1, <2>2, <2>3
<1> QED
  BY <1>2, <1>4, <1>6, <1>7 DEF MintInv

(* No pack is ever minted before its distribution starts to mint, no pack  *)
(* is minted twice, and none is in two transactions, whatever the batches, *)
(* the aborts, the losses and the order of execution.                      *)
THEOREM MintInvariant == Spec => []MintInv
<1>1. Init => MintInv
  BY DEF Init, LedgerInit, StoreInit, MintInv, NFTsOwn, EachMintedOnce,
         EachToMintOnce, MintedIsDone, EarlyUnminted, IsMinted, ToMint
<1>2. Inv /\ MintInv /\ [Next]_vars => MintInv'
  BY NFTsOfStep, MintKeepsMintInv, OthersKeepMintInv
<1> QED
  BY <1>1, <1>2, Invariant, PTL DEF Spec

----------------------------------------------------------------------------
(* No mint is skipped.                                                     *)

(* No minting distribution has read a block that is not sealed.            *)
MintCursors == \A d \in InState("minting") : minting[d].startAt <= height

(* How a step changes the row of a distribution that mints after it.       *)
LEMMA MintingRows ==
  ASSUME Inv, [Next]_vars, NEW d \in Dists, dist'[d] = "minting"
  PROVE  \/ /\ dist[d] = "settled" /\ HandleSettled
            /\ minting'[d] = NewMinting(d)
         \/ /\ d \in InState("minting") /\ HandleMinting
            /\ minting'[d] = UpdatedMinting(d)
         \/ /\ d \in InState("minting") /\ ~HandleMinting
            /\ minting'[d] = minting[d]
<1>1. dist \in [Dists -> DistributionState]
  BY DEF Inv, TypeOK, StoreTypeOK
<1>2. CASE HandleSettled
  <2>1. dist'[d] = IF dist[d] = "settled" THEN "minting" ELSE dist[d]
    BY <1>2 DEF HandleSettled, SetState, InState
  <2>2. minting'[d] = IF dist[d] = "settled" THEN NewMinting(d) ELSE minting[d]
    BY <1>2 DEF HandleSettled, InState
  <2>3. CASE dist[d] = "settled"
    BY <1>2, <2>2, <2>3
  <2>4. CASE dist[d] # "settled" /\ ~HandleMinting
    BY <2>1, <2>2, <2>4 DEF InState
  <2>5. CASE dist[d] # "settled" /\ HandleMinting
    <3>1. minting'[d] = UpdatedMinting(d)
      BY <2>1, <2>5 DEF HandleMinting, InState
    <3> QED
      BY <2>1, <2>5, <3>1 DEF InState
  <2> QED
    BY <2>3, <2>4, <2>5
<1>3. CASE HandleMinting
  <2>1. dist'[d] = "complete" \/ dist'[d] = dist[d]
    BY <1>3 DEF HandleMinting, SetState
  <2>2. d \in InState("minting")
    BY <2>1 DEF InState
  <2>3. minting'[d] = UpdatedMinting(d)
    BY <1>3, <2>2 DEF HandleMinting
  <2> QED
    BY <1>3, <2>2, <2>3
<1>4. CASE HandleComplete
  <2>1. dist' = dist
    BY <1>4 DEF HandleComplete
  <2>2. minting'[d] = minting[d]
    BY <1>4, <2>1 DEF HandleComplete, InState
  <2> QED
    BY <1>3, <2>1, <2>2 DEF InState
<1>5. CASE ~HandleSettled /\ ~HandleMinting /\ ~HandleComplete
  <2>1. minting' = minting /\ dist[d] = "minting"
    BY <1>1, <1>5 DEF Next, vars, storeVars, Create, CreateDistribution, Abort,
         AbortDistribution, HandleResolved, HandleSetup, HandleSettling,
         PollCirculating, ExecuteTx, LoseTx, OwnerRequestsReveal,
         OwnerRequestsOpen, OwnerTransfers, AnyoneReveals, AccountSends,
         OtherBlock, SetState, InState
  <2> QED
    BY <1>5, <2>1 DEF InState
<1> QED
  BY <1>2, <1>3, <1>4, <1>5

(* A pack that is sealed in the database stays so.                         *)
LEMMA SealedStays ==
  ASSUME Inv, Inv', [Next]_vars, NEW p \in Packs, pack[p].state # "init"
  PROVE  pack'[p].state # "init"
<1>1. Rank[pack'[p].state] >= Rank[pack[p].state]
  BY NextMovesPacks DEF PacksMove
<1>2. pack[p].state \in PackState
  BY DEF Inv, TypeOK, StoreTypeOK, PackRow
<1> QED
  BY <1>1, <1>2, RankValues DEF PackState

(* A poll of a minting distribution seals the packs that it sees.          *)
LEMMA SeenSealed ==
  ASSUME Inv, HandleMinting, NEW d \in InState("minting"), NEW e \in MintsSeen(d)
  PROVE  /\ pack[e.hash].state = "init"
         /\ pack'[e.hash].state = "sealed"
<1> DEFINE E == MintsSeenBy(InState("minting"))
<1>1. e \in E
  BY DEF MintsSeenBy
<1>2. pack[e.hash].state = "init"
  BY <1>1 DEF HandleMinting, MintingFails
<1>3. e.hash \in Packs
  BY MintsSeenTrue
<1>4. pack' = Seal(E)
  BY DEF HandleMinting
<1> HIDE DEF E
<1> QED
  BY <1>1, <1>2, <1>3, <1>4 DEF Seal

(* An event of a block is true and is an event.                            *)
LEMMA SealedEvents ==
  ASSUME Inv, NEW b \in 1..height, NEW e \in chain[b]
  PROVE  e \in Event /\ EventTrue(e)
<1>1. chain[b] \in SUBSET Event
  BY ElementOfSeq DEF Inv, TypeOK, LedgerTypeOK, height
<1> QED
  BY <1>1 DEF Inv, Consistent, ChainTrue

(* Every step keeps NoMintSkipped.                                         *)
LEMMA NextSkipsNoMint ==
  ASSUME Inv, Inv', MintInv, MintCursors, NoMintSkipped, [Next]_vars
  PROVE  MintCursors' /\ NoMintSkipped'
<1> SUFFICES ASSUME NEW d \in Dists, dist'[d] = "minting"
             PROVE  /\ minting'[d].startAt <= height'
                    /\ \A b \in 1..minting'[d].startAt : \A e \in chain'[b] :
                         e.type = "Mint" /\ e.hash \in PacksOf(d) =>
                           pack'[e.hash].state # "init"
  BY DEF MintCursors, NoMintSkipped, InState
<1>1. /\ height \in Nat /\ height' \in Nat /\ height <= height'
      /\ \A b \in 1..height : chain'[b] = chain[b]
      /\ height - 1 \in Nat
  BY ChainGrows, NewRowStart, LenProperties DEF Inv, TypeOK, LedgerTypeOK, height
<1>2. CASE dist[d] = "settled" /\ minting'[d] = NewMinting(d)
  <2>1. minting'[d].startAt = height - 1
    BY <1>2 DEF NewMinting
  <2>2. ASSUME NEW b \in 1..(height - 1), NEW e \in chain'[b],
               e.type = "Mint", e.hash \in PacksOf(d)
        PROVE  FALSE
    <3>1. b \in 1..height /\ e \in chain[b]
      BY <1>1, <2>2
    <3>2. e \in Event /\ EventTrue(e)
      BY <3>1, SealedEvents
    <3>3. e.contract \in Contracts
      BY <2>2, <3>2 DEF Event
    <3>4. IsMinted(e.hash)
      BY <2>2, <3>2, <3>3 DEF EventTrue, Exists, IsMinted
    <3> QED
      BY <1>2, <2>2, <3>4 DEF MintInv, EarlyUnminted, BeforeMinting
  <2> QED
    BY <1>1, <2>1, <2>2
<1>3. ASSUME d \in InState("minting")
      PROVE  /\ minting[d].startAt \in Nat /\ minting[d].startAt <= height
             /\ \A b \in 1..minting[d].startAt : \A e \in chain'[b] :
                  e.type = "Mint" /\ e.hash \in PacksOf(d) =>
                    pack'[e.hash].state # "init"
  <2>1. minting[d].startAt \in Nat /\ minting[d].startAt <= height
    BY <1>3 DEF Inv, TypeOK, StoreTypeOK, Consistent, RowsExist, InState,
                MintingRow, MintCursors
  <2>2. ASSUME NEW b \in 1..minting[d].startAt, NEW e \in chain'[b],
               e.type = "Mint", e.hash \in PacksOf(d)
        PROVE  pack'[e.hash].state # "init"
    <3>1. e \in chain[b]
      BY <1>1, <2>1, <2>2
    <3>2. pack[e.hash].state # "init"
      BY <1>3, <2>2, <3>1 DEF NoMintSkipped
    <3> QED
      BY <2>2, <3>2, PackOfDist, SealedStays
  <2> QED
    BY <2>1, <2>2
<1>4. CASE /\ d \in InState("minting") /\ HandleMinting
           /\ minting'[d] = UpdatedMinting(d)
  <2>1. PICK s \in Nat : s = minting[d].startAt /\ s <= height
    BY <1>3, <1>4
  <2>2. minting'[d].startAt = NextStart(s)
    BY <1>4, <2>1 DEF UpdatedMinting
  <2>3. RangeEnd(s) \in Nat /\ RangeEnd(s) <= height
    BY <1>1, StoreAssumption DEF RangeEnd, Min2
  <2>4. /\ NextStart(s) \in Nat /\ NextStart(s) <= height
        /\ \A b \in 1..NextStart(s) : b \in 1..s \/ b \in Blocks(s)
    <3>1. CASE Blocks(s) = {}
      BY <2>1, <3>1 DEF NextStart
    <3>2. CASE Blocks(s) # {}
      BY <2>1, <2>3, <3>2 DEF NextStart, Blocks
    <3> QED
      BY <3>1, <3>2
  <2>5. ASSUME NEW b \in Blocks(s), NEW e \in chain'[b],
               e.type = "Mint", e.hash \in PacksOf(d)
        PROVE  pack'[e.hash].state # "init"
    <3>1. b \in 1..height
      BY BlocksOfPoll
    <3>2. e \in chain[b]
      BY <1>1, <2>5, <3>1
    <3>3. EventTrue(e)
      BY <3>1, <3>2, SealedEvents
    <3>4. e.contract = ContractOf[d]
      BY <2>5, <3>3, PackOfDist DEF EventTrue
    <3>5. e \in MintsSeen(d)
      BY <2>1, <2>5, <3>2, <3>4 DEF MintsSeen, EventsIn
    <3> QED
      BY <1>4, <3>5, SeenSealed
  <2> QED
    BY <1>1, <1>3, <1>4, <2>1, <2>2, <2>4, <2>5
<1>5. CASE d \in InState("minting") /\ minting'[d] = minting[d]
  BY <1>1, <1>3, <1>5
<1> QED
  BY <1>2, <1>4, <1>5, MintingRows

(* No mint is skipped: whatever the range of a poll and the order of the   *)
(* batches, a pack that was minted in a block that its distribution has    *)
(* read is sealed in the database.                                         *)
THEOREM NoMintEverSkipped == Spec => []NoMintSkipped
<1> DEFINE SkipInv == MintCursors /\ NoMintSkipped
<1>1. Init => SkipInv
  BY DEF Init, StoreInit, MintCursors, NoMintSkipped, InState
<1>2. Inv /\ Inv' /\ MintInv /\ SkipInv /\ [Next]_vars => SkipInv'
  BY NextSkipsNoMint
<1>3. SkipInv => NoMintSkipped
  OBVIOUS
<1> QED
  BY <1>1, <1>2, <1>3, Invariant, MintInvariant, PTL DEF Spec

----------------------------------------------------------------------------
(* A complete distribution has all of its packs.                           *)

(* No two distributions share a contract, so a mint event of its contract  *)
(* is about a pack of the distribution itself.                             *)
OwnContracts == \A d, e \in Dists : ContractOf[d] = ContractOf[e] => d = e

SealedOf(d) == {p \in PacksOf(d) : pack[p].state # "init"}

(* The row of a minting distribution counts its packs that are sealed.     *)
MintCounts ==
  \A d \in InState("minting") :
    /\ minting[d].current = Cardinality(SealedOf(d))
    /\ minting[d].total = Len(PackRows[d])

(* A distribution has finitely many packs, at most one for each row.       *)
LEMMA PacksFinite ==
  ASSUME NEW d \in Dists
  PROVE  /\ IsFiniteSet(PacksOf(d))
         /\ Cardinality(PacksOf(d)) <= Len(PackRows[d])
         /\ Cardinality(PacksOf(d)) \in Nat
<1> DEFINE rows == PackRows[d]
           I == 1..Len(rows)
<1>1. Len(rows) \in Nat /\ DOMAIN rows = I
  BY StoreAssumption, LenProperties
<1>2. IsFiniteSet(I) /\ Cardinality(I) = Len(rows)
  BY <1>1, FS_Interval
<1>3. [i \in I |-> rows[i]] \in Surjection(I, PacksOf(d))
  BY <1>1 DEF Surjection, PacksOf, Elems
<1> HIDE DEF I, rows
<1>4. /\ IsFiniteSet(PacksOf(d))
      /\ Cardinality(PacksOf(d)) <= Cardinality(I)
  BY <1>2, <1>3, FS_Surjection
<1> QED
  BY <1>2, <1>4, FS_CardinalityType DEF rows

(* Only the poll of a minting seals packs.                                 *)
LEMMA OthersSealNone ==
  ASSUME Inv, [Next]_vars, ~HandleMinting, NEW p \in Packs
  PROVE  pack'[p].state = "init" <=> pack[p].state = "init"
<1>1. CASE PollCirculating
  <2>1. /\ pack'[p] = [pack[p] EXCEPT !.state = PolledState(p)]
        /\ PolledState(p) # "error"
        /\ pack[p] \in PackRow
    BY <1>1 DEF PollCirculating, UnexpectedState, Inv, TypeOK, StoreTypeOK
  <2>2. pack'[p].state = PolledState(p)
    BY <2>1 DEF PackRow
  <2> QED
    BY <2>1, <2>2, PolledStateMoves
<1>2. CASE pack' = pack
  BY <1>2
<1>3. \/ pack' = pack \/ PollCirculating
  BY DEF Next, vars, storeVars, Create, CreateDistribution, Abort,
       AbortDistribution, HandleResolved, HandleSetup, HandleSettling,
       HandleSettled, HandleComplete, ExecuteTx, LoseTx, OwnerRequestsReveal,
       OwnerRequestsOpen, OwnerTransfers, AnyoneReveals, AccountSends, OtherBlock
<1> QED
  BY <1>1, <1>2, <1>3

(* A mint event that a distribution reads is about a pack of its own.      *)
LEMMA MintsSeenOwn ==
  ASSUME OwnContracts, Inv, NEW d \in InState("minting"), NEW e \in MintsSeen(d)
  PROVE  e.hash \in PacksOf(d)
<1>1. d \in Dists /\ minting[d].startAt \in Nat
  BY DEF InState, Inv, TypeOK, StoreTypeOK, Consistent, RowsExist, MintingRow
<1>2. EventTrue(e) /\ e.type = "Mint" /\ e.contract = ContractOf[d]
  BY <1>1, EventsOfPoll DEF MintsSeen
<1>3. e.hash \in Packs
  BY MintsSeenTrue
<1>4. ContractOf[DistOf(e.hash)] = ContractOf[d]
  BY <1>2 DEF EventTrue
<1> QED
  BY <1>1, <1>3, <1>4, DistOfPack DEF OwnContracts

(* A poll of a minting adds the packs that it sees to those that are       *)
(* sealed, and counts each one once.                                       *)
LEMMA SealedCount ==
  ASSUME OwnContracts, Inv, Inv', HandleMinting, [Next]_vars,
         NEW d \in InState("minting")
  PROVE  /\ Cardinality(SealedOf(d)) \in Nat
         /\ Cardinality(MintsSeen(d)) \in Nat
         /\ Cardinality(SealedOf(d)') =
              Cardinality(SealedOf(d)) + Cardinality(MintsSeen(d))
<1> DEFINE E == MintsSeen(d)
           H == {e.hash : e \in E}
           f == [e \in E |-> e.hash]
<1>1. d \in Dists
  BY DEF InState
<1>2. IsFiniteSet(E) /\ IsFiniteSet(SealedOf(d)) /\ IsFiniteSet(SealedOf(d)')
  BY <1>1, MintsSeenTrue, PacksFinite, FS_Subset DEF SealedOf
<1>3. \A e1, e2 \in E : e1.hash = e2.hash => e1 = e2
  BY DEF HandleMinting, MintingFails, MintsSeenBy
<1>4. f \in Surjection(E, H) /\ f \in Injection(E, H)
  BY <1>3 DEF Surjection, Injection, IsInjective
<1>5. IsFiniteSet(H) /\ Cardinality(H) = Cardinality(E)
  <2> HIDE DEF E, H, f
  <2> QED
    BY <1>2, <1>4, FS_Surjection
<1>6. \A e \in E : /\ e.hash \in PacksOf(d)
                   /\ pack[e.hash].state = "init"
                   /\ pack'[e.hash].state = "sealed"
  BY MintsSeenOwn, SeenSealed
<1>7. SealedOf(d) \cap H = {}
  BY <1>6 DEF SealedOf
<1>8. SealedOf(d)' = SealedOf(d) \union H
  <2>1. ASSUME NEW p \in PacksOf(d), pack'[p].state # "init", pack[p].state = "init"
        PROVE  p \in H
    <3>1. p \in Packs
      BY <1>1, PackOfDist
    <3>2. pack' = Seal(MintsSeenBy(InState("minting")))
      BY DEF HandleMinting
    <3>3. \E e \in MintsSeenBy(InState("minting")) : e.hash = p
      BY <2>1, <3>1, <3>2 DEF Seal
    <3>4. PICK d2 \in InState("minting") : \E e \in MintsSeen(d2) : e.hash = p
      BY <3>3 DEF MintsSeenBy
    <3>5. p \in PacksOf(d2) /\ d2 \in Dists
      BY <3>4, MintsSeenOwn DEF InState
    <3>6. d2 = d
      BY <1>1, <3>5, PackOfDist
    <3> QED
      BY <3>4, <3>6
  <2>2. \A p \in PacksOf(d) : pack[p].state # "init" => pack'[p].state # "init"
    BY <1>1, PackOfDist, SealedStays
  <2>3. \A p \in H : p \in PacksOf(d) /\ pack'[p].state # "init"
    BY <1>6
  <2>4. SealedOf(d)' = {p \in PacksOf(d) : pack'[p].state # "init"}
    BY DEF SealedOf
  <2> HIDE DEF H
  <2> QED
    BY <2>1, <2>2, <2>3, <2>4 DEF SealedOf
<1> HIDE DEF E, H, f
<1>9. Cardinality(SealedOf(d)') =
        Cardinality(SealedOf(d)) + Cardinality(H) - Cardinality({})
  BY <1>2, <1>5, <1>7, <1>8, FS_Union
<1>10. Cardinality({}) = 0 /\ Cardinality(SealedOf(d)) \in Nat
       /\ Cardinality(E) \in Nat
  BY <1>2, FS_EmptySet, FS_CardinalityType
<1> QED
  BY <1>5, <1>9, <1>10 DEF E

(* Every step keeps the counts.                                            *)
LEMMA NextKeepsCounts ==
  ASSUME OwnContracts, Inv, Inv', MintInv, MintCounts, [Next]_vars
  PROVE  MintCounts'
<1> SUFFICES ASSUME NEW d \in Dists, dist'[d] = "minting"
             PROVE  /\ minting'[d].current = Cardinality(SealedOf(d)')
                    /\ minting'[d].total = Len(PackRows[d])
  BY DEF MintCounts, InState
<1>1. \A p \in PacksOf(d) : p \in Packs /\ DistOf(p) = d
  BY PackOfDist
<1>2. CASE dist[d] = "settled" /\ HandleSettled /\ minting'[d] = NewMinting(d)
  <2>1. pack' = pack
    BY <1>2 DEF HandleSettled
  <2>2. ASSUME NEW p \in PacksOf(d), pack[p].state # "init"
        PROVE  FALSE
    <3>1. ContractOf[d] \in Contracts
      BY StoreAssumption
    <3>2. IsMinted(p)
      BY <1>1, <2>2, <3>1
         DEF Inv, Consistent, StoreFollowsLedger, Exists, IsMinted
    <3> QED
      BY <1>2, <3>2 DEF MintInv, EarlyUnminted, BeforeMinting
  <2>3. SealedOf(d)' = {}
    BY <2>1, <2>2 DEF SealedOf
  <2>4. Cardinality(SealedOf(d)') = 0
    BY <2>3, FS_EmptySet
  <2> QED
    BY <1>2, <2>4 DEF NewMinting
<1>3. CASE /\ d \in InState("minting") /\ HandleMinting
           /\ minting'[d] = UpdatedMinting(d)
  BY <1>3, SealedCount DEF UpdatedMinting, MintCounts
<1>4. CASE /\ d \in InState("minting") /\ ~HandleMinting
           /\ minting'[d] = minting[d]
  <2>1. SealedOf(d)' = SealedOf(d)
    BY <1>1, <1>4, OthersSealNone DEF SealedOf
  <2> QED
    BY <1>4, <2>1 DEF MintCounts
<1> QED
  BY <1>2, <1>3, <1>4, MintingRows

(* A distribution that a step completes has all of its packs sealed.       *)
LEMMA CompletedSealed ==
  ASSUME OwnContracts, Inv, Inv', MintCounts, [Next]_vars, HandleMinting,
         NEW d \in InState("minting"), MintingComplete(d), NEW p \in PacksOf(d)
  PROVE  pack'[p].state # "init"
<1>1. d \in Dists
  BY DEF InState
<1>2. Cardinality(SealedOf(d)') >= Len(PackRows[d])
  BY SealedCount DEF MintingComplete, UpdatedMinting, MintCounts
<1>3. /\ IsFiniteSet(PacksOf(d)) /\ Cardinality(PacksOf(d)) \in Nat
      /\ Cardinality(PacksOf(d)) <= Len(PackRows[d])
      /\ Len(PackRows[d]) \in Nat
  BY <1>1, PacksFinite, StoreAssumption, LenProperties
<1>4. SealedOf(d)' \in SUBSET PacksOf(d)
  BY DEF SealedOf
<1>5. PICK S \in SUBSET PacksOf(d) : S = SealedOf(d)'
  BY <1>4
<1>6. Cardinality(S) \in Nat /\ Cardinality(S) <= Cardinality(PacksOf(d))
  BY <1>3, FS_Subset, FS_CardinalityType
<1>7. Cardinality(S) = Cardinality(PacksOf(d))
  BY <1>2, <1>3, <1>5, <1>6
<1>8. S = PacksOf(d)
  BY <1>3, <1>7, FS_Subset
<1> QED
  BY <1>5, <1>8 DEF SealedOf

(* Every step keeps CompleteMeansSealed.                                   *)
LEMMA NextCompletesSealed ==
  ASSUME OwnContracts, Inv, Inv', MintCounts, CompleteMeansSealed, [Next]_vars
  PROVE  CompleteMeansSealed'
<1> SUFFICES ASSUME NEW d \in Dists, dist'[d] = "complete", NEW p \in PacksOf(d)
             PROVE  pack'[p].state # "init"
  BY DEF CompleteMeansSealed, InState
<1>1. CASE dist[d] = "complete"
  <2>1. pack[p].state # "init"
    BY <1>1 DEF CompleteMeansSealed, InState
  <2> QED
    BY <2>1, PackOfDist, SealedStays
<1>2. CASE dist[d] # "complete"
  <2>1. HandleMinting
    BY <1>2 DEF Next, vars, storeVars, Create, CreateDistribution, Abort,
         AbortDistribution, HandleResolved, HandleSetup, HandleSettling,
         HandleSettled, HandleComplete, PollCirculating, ExecuteTx, LoseTx,
         OwnerRequestsReveal, OwnerRequestsOpen, OwnerTransfers, AnyoneReveals,
         AccountSends, OtherBlock, SetState, InState, Inv, TypeOK, StoreTypeOK
  <2>2. d \in InState("minting") /\ MintingComplete(d)
    BY <1>2, <2>1 DEF HandleMinting, SetState
  <2> QED
    BY <2>1, <2>2, CompletedSealed
<1> QED
  BY <1>1, <1>2

(* A distribution is complete only when every one of its packs was minted  *)
(* and the database knows its id, if no other distribution has the same    *)
(* contract: the counter of the minting never runs ahead of the packs.     *)
THEOREM CompleteIsSealed ==
  ASSUME OwnContracts
  PROVE  Spec => []CompleteMeansSealed
<1> DEFINE CountInv == MintCounts /\ CompleteMeansSealed
<1>1. Init => CountInv
  BY DEF Init, StoreInit, MintCounts, CompleteMeansSealed, InState
<1>2. Inv /\ Inv' /\ MintInv /\ CountInv /\ [Next]_vars => CountInv'
  BY NextKeepsCounts, NextCompletesSealed
<1>3. CountInv => CompleteMeansSealed
  OBVIOUS
<1> QED
  BY <1>1, <1>2, <1>3, Invariant, MintInvariant, PTL DEF Spec


(* When no two distributions share a contract, an event of a pack that the *)
(* database has not sealed, which stops the polling, belongs to a          *)
(* distribution that is minting or was aborted: it is on the chain, so its *)
(* distribution has started to mint, and it would be sealed if that were   *)
(* complete.                                                               *)
THEOREM UnknownNeverComplete ==
  ASSUME OwnContracts
  PROVE  Spec => []UnknownNotComplete
<1>1. ASSUME Inv, MintInv, CompleteMeansSealed
      PROVE  UnknownNotComplete
  <2> SUFFICES ASSUME NEW c \in CirculatingContracts, NEW e \in PackEventsSeen(c),
                      \A p \in Packs : ~IsPack(p, c, e.id)
               PROVE  dist[DistOf(packNFT[c][e.id].hash)] \in {"minting", "invalid"}
    BY DEF UnknownNotComplete
  <2>1. c \in Contracts /\ e.contract = c /\ e.type \in RequestTypes
    BY DEF CirculatingContracts, PackEventsSeen
  <2>2. Polled(c) \in SUBSET (1..height)
    BY <1>1, <2>1, PolledBlocks
  <2>3. Exists(c, e.id)
    <3>1. PICK b \in 1..height : e \in chain[b]
      BY <2>2 DEF PackEventsSeen, EventsIn
    <3> QED
      BY <1>1, <2>1, <3>1 DEF Inv, Consistent, ChainTrue, EventTrue
  <2>4. PICK h \in Packs : h = packNFT[c][e.id].hash
    <3>1. packNFT[c] \in Seq(PackNFT)
      BY <1>1, <2>1 DEF Inv, TypeOK, LedgerTypeOK
    <3>2. packNFT[c][e.id] \in PackNFT
      BY <2>3, <3>1, ElementOfSeq, LenProperties DEF Exists
    <3> QED
      BY <3>2 DEF PackNFT
  <2>5. ContractOf[DistOf(h)] = c /\ IsMinted(h)
    BY <1>1, <2>1, <2>3, <2>4 DEF MintInv, NFTsOwn, Exists, IsMinted
  <2>6. DistOf(h) \in Dists /\ h \in PacksOf(DistOf(h))
    BY DistOfPack
  <2>7. pack[h].state = "init"
    <3> SUFFICES ASSUME pack[h].state # "init"
                 PROVE  FALSE
      OBVIOUS
    <3>1. Exists(c, pack[h].flowID) /\ packNFT[c][pack[h].flowID].hash = h
      BY <1>1, <2>5 DEF Inv, Consistent, StoreFollowsLedger
    <3>2. pack[h].flowID = e.id
      BY <1>1, <2>1, <2>3, <2>4, <3>1 DEF MintInv, EachMintedOnce, Exists
    <3>3. e.id # NoFlowID
      BY <1>1, <2>1, <2>3 DEF Inv, TypeOK, LedgerTypeOK, Exists, NoFlowID
    <3> QED
      BY <2>5, <3>2, <3>3 DEF IsPack
  <2>8. dist[DistOf(h)] # "complete"
    BY <1>1, <2>6, <2>7 DEF CompleteMeansSealed, InState
  <2>9. dist[DistOf(h)] \notin BeforeMinting
    BY <1>1, <2>5, <2>6 DEF MintInv, EarlyUnminted
  <2>10. dist[DistOf(h)] \in DistributionState
    BY <1>1, <2>6 DEF Inv, TypeOK, StoreTypeOK
  <2> QED
    BY <2>4, <2>8, <2>9, <2>10 DEF DistributionState, BeforeMinting
<1> QED
  BY <1>1, Invariant, MintInvariant, CompleteIsSealed, PTL

=============================================================================
