---------------------- MODULE DistributionCreationProofs ----------------------
(***************************************************************************)
(* Proofs about DistributionCreation, for any clients and requests, any    *)
(* width of the numbers and any size of a batch.                           *)
(*                                                                         *)
(* The argument: whatever is committed is the result of one draw in which  *)
(* no index was out of range and no slot was left empty.  Each entry of a  *)
(* collection has one place in the order of a draw, and so one slot.       *)
(* Where a number wraps that should not, a slot stays empty or a list      *)
(* cannot be allocated.                                                    *)
(***************************************************************************)
EXTENDS DistributionCreation, SequenceTheorems, FunctionTheorems,
        FiniteSetTheorems, WellFoundedInduction, TLAPS

Phases == {"idle", "resolved", "refused", "broken", "created", "failed"}

(* What a request that is neither refused nor broken is resolved to.       *)
Resolution(q, P) ==
  /\ ~Panics(q)
  /\ \E draw \in Draws(q) : P = Distribute(q, draw)
  /\ \A p \in DOMAIN P : PackValid(P[p])

PackLists == Seq(Seq(IDs \ {NoID}))

(* What holds of one request: its phase, the packs P, n of them written,   *)
(* and what is committed.                                                  *)
Whole(ph, q, P, n, committed) ==
  /\ IF ph \in {"resolved", "created", "failed"}
     THEN Resolution(q, P) /\ n <= Len(P)
     ELSE P = <<>> /\ n = 0
  /\ committed = IF ph = "created" THEN P ELSE NotStored

CreationInv ==
  /\ phase \in [Clients -> Phases]
  /\ request \in [Clients -> Requests]
  /\ packs \in [Clients -> PackLists]
  /\ written \in [Clients -> Nat]
  /\ stored \in [Clients -> PackLists]
  /\ \A c \in Clients :
       Whole(phase[c], request[c], packs[c], written[c], stored[c])

----------------------------------------------------------------------------

(* A set of numbers that is bounded has a largest one.                     *)
LEMMA LargestExists ==
  ASSUME NEW n \in Nat, NEW S \in SUBSET (0..n), S # {}
  PROVE  \E m \in S : \A x \in S : x <= m
<1> DEFINE T == {n - x : x \in S}
<1>1. T \subseteq Nat /\ T # {}
  <2>1. \A x \in S : x \in 0..n
    OBVIOUS
  <2>2. \A x \in S : n - x \in Nat
    BY <2>1
  <2>3. \A u \in T : u \in Nat
    BY <2>2
  <2>4. PICK x \in S : TRUE
    OBVIOUS
  <2>5. n - x \in T
    OBVIOUS
  <2> QED
    BY <2>3, <2>5
<1>2. PICK t \in T : \A u \in T : <<u, t>> \notin OpToRel(<, Nat)
  <2> HIDE DEF T
  <2> QED
    BY <1>1, WFMin, NatLessThanWellFounded
<1>3. \A u \in T : t <= u
  <2> SUFFICES ASSUME NEW u \in T PROVE t <= u
    OBVIOUS
  <2> HIDE DEF T
  <2>1. u \in Nat /\ t \in Nat
    BY <1>1
  <2>2. <<u, t>> \notin OpToRel(<, Nat)
    BY <1>2
  <2>3. ~(u < t)
    BY <2>1, <2>2 DEF OpToRel
  <2> QED
    BY <2>1, <2>3
<1>4. PICK m \in S : t = n - m
  BY <1>2
<1>5. \A x \in S : n - m <= n - x
  BY <1>3, <1>4
<1> QED
  BY <1>5

(* The parts of a request have their types.                                *)
LEMMA RequestType ==
  ASSUME NEW q \in Requests
  PROVE  /\ Len(q.buckets) \in Nat /\ DOMAIN q.buckets = 1..Len(q.buckets)
         /\ \A k \in DOMAIN q.buckets :
              /\ q.buckets[k].collection \in Seq(IDs)
              /\ DOMAIN q.buckets[k].collection
                   = 1..Len(q.buckets[k].collection)
              /\ Len(q.buckets[k].collection) \in Nat
<1> DEFINE B == [count : UInt, collection : Seq(IDs)]
<1>1. q.buckets \in Seq(B)
  BY CreationAssumption
<1> HIDE DEF B
<1>2. /\ Len(q.buckets) \in Nat /\ DOMAIN q.buckets = 1..Len(q.buckets)
      /\ \A k \in DOMAIN q.buckets : q.buckets[k] \in B
  BY <1>1, LenProperties, ElementOfSeq
<1>3. \A k \in DOMAIN q.buckets : q.buckets[k].collection \in Seq(IDs)
  BY <1>2 DEF B
<1> QED
  BY <1>2, <1>3, LenProperties

(* Of picks for a slot, one is of the last bucket.                         *)
LEMMA LastOfPicks ==
  ASSUME NEW q \in Requests, NEW p, NEW s, PicksFor(q, p, s) # {}
  PROVE  (CHOOSE w \in PicksFor(q, p, s) :
            \A v \in PicksFor(q, p, s) : v[1] <= w[1]) \in PicksFor(q, p, s)
<1> DEFINE W == PicksFor(q, p, s)
           S == {w[1] : w \in W}
<1>1. \A w \in W : w[1] \in DOMAIN q.buckets
  BY DEF PicksFor
<1> HIDE DEF W
<1>2. S \in SUBSET (0..Len(q.buckets)) /\ S # {}
  <2>1. \A w \in W : w[1] \in 0..Len(q.buckets)
    BY <1>1, RequestType
  <2>2. PICK w \in W : TRUE
    BY DEF W
  <2>3. w[1] \in S
    OBVIOUS
  <2>4. \A x \in S : x \in 0..Len(q.buckets)
    BY <2>1
  <2> QED
    BY <2>3, <2>4
<1> HIDE DEF S
<1>3. PICK m \in S : \A x \in S : x <= m
  BY <1>2, RequestType, LargestExists
<1>4. \E w \in W : \A v \in W : v[1] <= w[1]
  BY <1>3 DEF S
<1> QED
  BY <1>4 DEF W

(* A slot that is not empty has been filled by a pick of a bucket that     *)
(* belongs to the slot.                                                    *)
LEMMA CollectibleOfPick ==
  ASSUME NEW q \in Requests, NEW draw, NEW p, NEW s,
         Collectible(q, draw, p, s) # NoID
  PROVE  \E k \in DOMAIN q.buckets : \E i \in Picks(q, k) :
           /\ PackIndex(q, i) = p /\ SlotIndex(q, k, i) = s
           /\ Collectible(q, draw, p, s) = q.buckets[k].collection[draw[k][i]]
<1> DEFINE W == PicksFor(q, p, s)
           last == CHOOSE w \in W : \A v \in W : v[1] <= w[1]
<1>1. \A w \in W : /\ w[1] \in DOMAIN q.buckets /\ w[2] \in Picks(q, w[1])
                   /\ PackIndex(q, w[2]) = p /\ SlotIndex(q, w[1], w[2]) = s
  BY DEF PicksFor
<1>2. W # {} /\ Collectible(q, draw, p, s)
                  = q.buckets[last[1]].collection[draw[last[1]][last[2]]]
  BY DEF Collectible
<1> HIDE DEF W
<1>3. last \in W
  BY <1>2, LastOfPicks DEF W
<1> HIDE DEF last
<1> QED
  BY <1>1, <1>2, <1>3

(* The order of a draw takes each index of a collection once.              *)
LEMMA DrawOrders ==
  ASSUME NEW q \in Requests, NEW draw \in Draws(q), NEW k \in DOMAIN q.buckets
  PROVE  /\ draw[k] \in [0..(Len(q.buckets[k].collection) - 1)
                           -> 1..Len(q.buckets[k].collection)]
         /\ \A i, j \in 0..(Len(q.buckets[k].collection) - 1) :
              draw[k][i] = draw[k][j] => i = j
<1>1. draw[k] \in Orders(Len(q.buckets[k].collection))
  BY DEF Draws
<1> QED
  BY <1>1 DEF Orders, Indexes

(* Without a panic every pick takes an entry of its collection.            *)
LEMMA PickInRange ==
  ASSUME NEW q \in Requests, ~Panics(q), NEW draw \in Draws(q),
         NEW k \in DOMAIN q.buckets, NEW i \in Picks(q, k)
  PROVE  /\ i \in 0..(Len(q.buckets[k].collection) - 1)
         /\ draw[k][i] \in DOMAIN q.buckets[k].collection
<1>1. i \in 0..(Len(q.buckets[k].collection) - 1)
  BY DEF Panics
<1> QED
  BY <1>1, DrawOrders, RequestType

(* The packs of a resolution and their slots are as many as they should be.*)
LEMMA ResolutionShape ==
  ASSUME NEW q \in Requests, NEW P, Resolution(q, P)
  PROVE  /\ PackCount(q) \in Nat /\ PackSlotCount(q) \in Nat
         /\ P \in Seq(Seq(IDs \ {NoID}))
         /\ Len(P) = PackCount(q)
         /\ \A p \in DOMAIN P : Len(P[p]) = PackSlotCount(q)
<1>1. PackCount(q) \in Nat /\ PackSlotCount(q) \in Nat
  BY CreationAssumption DEF Resolution, Panics
<1>2. PICK draw \in Draws(q) : P = Distribute(q, draw)
  BY DEF Resolution
<1>3. /\ DOMAIN P = 1..PackCount(q)
      /\ \A p \in 1..PackCount(q) :
           P[p] = [s \in 1..PackSlotCount(q) |-> Collectible(q, draw, p - 1, s - 1)]
  BY <1>2 DEF Distribute
<1>4. \A p \in DOMAIN P :
        /\ P[p] \in [1..PackSlotCount(q) -> IDs \ {NoID}]
        /\ P[p] \in Seq(IDs \ {NoID})
        /\ Len(P[p]) = PackSlotCount(q)
  <2> SUFFICES ASSUME NEW p \in DOMAIN P
               PROVE  /\ P[p] \in [1..PackSlotCount(q) -> IDs \ {NoID}]
                      /\ P[p] \in Seq(IDs \ {NoID})
                      /\ Len(P[p]) = PackSlotCount(q)
    OBVIOUS
  <2>1. /\ P[p] = [s \in 1..PackSlotCount(q) |-> Collectible(q, draw, p - 1, s - 1)]
        /\ \A s \in DOMAIN P[p] : P[p][s] # NoID
    BY <1>3 DEF Resolution, PackValid
  <2>2. ASSUME NEW s \in 1..PackSlotCount(q)
        PROVE  Collectible(q, draw, p - 1, s - 1) \in IDs \ {NoID}
    <3>1. Collectible(q, draw, p - 1, s - 1) # NoID
      BY <2>1
    <3>2. PICK k \in DOMAIN q.buckets : \E i \in Picks(q, k) :
            Collectible(q, draw, p - 1, s - 1) = q.buckets[k].collection[draw[k][i]]
      BY <3>1, CollectibleOfPick
    <3>3. PICK i \in Picks(q, k) :
            Collectible(q, draw, p - 1, s - 1) = q.buckets[k].collection[draw[k][i]]
      BY <3>2
    <3>4. draw[k][i] \in DOMAIN q.buckets[k].collection
      BY PickInRange DEF Resolution
    <3>5. q.buckets[k].collection[draw[k][i]] \in IDs
      BY <3>4, RequestType, ElementOfSeq
    <3> QED
      BY <3>1, <3>3, <3>5
  <2>3. P[p] \in [1..PackSlotCount(q) -> IDs \ {NoID}]
    BY <2>1, <2>2
  <2>4. P[p] \in Seq(IDs \ {NoID})
    BY <1>1, <2>3, SeqDef
  <2>5. Len(P[p]) \in Nat /\ 1..Len(P[p]) = 1..PackSlotCount(q)
    BY <2>3, <2>4, LenProperties
  <2> QED
    BY <1>1, <2>3, <2>4, <2>5
<1>5. P \in [1..PackCount(q) -> Seq(IDs \ {NoID})]
  <2>1. P = [p \in 1..PackCount(q) |-> P[p]]
    BY <1>2 DEF Distribute
  <2> QED
    BY <1>3, <1>4, <2>1
<1>6. P \in Seq(Seq(IDs \ {NoID}))
  BY <1>1, <1>5, SeqDef
<1>7. Len(P) \in Nat /\ 1..Len(P) = 1..PackCount(q)
  BY <1>5, <1>6, LenProperties
<1> QED
  BY <1>1, <1>4, <1>6, <1>7

(* In a resolution an entry that is listed once is in one slot.            *)
LEMMA ResolutionEachOnce ==
  ASSUME NEW q \in Requests, NEW P, Resolution(q, P), Distinct(q),
         NEW p1 \in DOMAIN P, NEW p2 \in DOMAIN P,
         NEW s1 \in DOMAIN P[p1], NEW s2 \in DOMAIN P[p2],
         P[p1][s1] = P[p2][s2]
  PROVE  p1 = p2 /\ s1 = s2
<1>1. PICK draw \in Draws(q) : P = Distribute(q, draw)
  BY DEF Resolution
<1> DEFINE Fills(k, i, p, s) ==
             /\ p \in Int /\ s \in Int
             /\ PackIndex(q, i) = p - 1 /\ SlotIndex(q, k, i) = s - 1
             /\ P[p][s] = q.buckets[k].collection[draw[k][i]]
<1>2. ASSUME NEW p \in DOMAIN P, NEW s \in DOMAIN P[p]
      PROVE  \E k \in DOMAIN q.buckets : \E i \in Picks(q, k) : Fills(k, i, p, s)
  <2>1. /\ p \in Int /\ s \in Int
        /\ P[p][s] = Collectible(q, draw, p - 1, s - 1)
    BY <1>1 DEF Distribute
  <2>2. P[p][s] # NoID
    BY DEF Resolution, PackValid
  <2> QED
    BY <2>1, <2>2, CollectibleOfPick
<1>3. PICK k1 \in DOMAIN q.buckets : \E i \in Picks(q, k1) : Fills(k1, i, p1, s1)
  BY <1>2
<1>4. PICK k2 \in DOMAIN q.buckets : \E i \in Picks(q, k2) : Fills(k2, i, p2, s2)
  BY <1>2
<1>5. PICK i1 \in Picks(q, k1) : Fills(k1, i1, p1, s1)
  BY <1>3
<1>6. PICK i2 \in Picks(q, k2) : Fills(k2, i2, p2, s2)
  BY <1>4
<1>7. /\ draw[k1][i1] \in DOMAIN q.buckets[k1].collection
      /\ draw[k2][i2] \in DOMAIN q.buckets[k2].collection
      /\ i1 \in 0..(Len(q.buckets[k1].collection) - 1)
      /\ i2 \in 0..(Len(q.buckets[k2].collection) - 1)
  BY PickInRange DEF Resolution
<1>8. k1 = k2 /\ draw[k1][i1] = draw[k2][i2]
  <2> DEFINE v == <<k1, draw[k1][i1]>>
             w == <<k2, draw[k2][i2]>>
  <2>1. q.buckets[v[1]].collection[v[2]] = q.buckets[w[1]].collection[w[2]]
    BY <1>5, <1>6
  <2>2. v \in Places(q) /\ w \in Places(q)
    BY <1>7 DEF Places
  <2>3. \A x, y \in Places(q) :
          q.buckets[x[1]].collection[x[2]] = q.buckets[y[1]].collection[y[2]]
            => x = y
    BY DEF Distinct
  <2>4. v = w
    BY <2>1, <2>2, <2>3
  <2> QED
    BY <2>4
<1>9. i1 = i2
  BY <1>7, <1>8, DrawOrders
<1> QED
  BY <1>5, <1>6, <1>8, <1>9

----------------------------------------------------------------------------

(* Lists of packs.                                                         *)
LEMMA PackListsFacts ==
  /\ <<>> \in PackLists /\ Len(<<>>) = 0
  /\ \A P \in PackLists : Len(P) \in Nat
BY EmptySeq, LenProperties DEF PackLists

(* The packs of a resolution have no empty slot.                           *)
LEMMA ResolutionPackList ==
  ASSUME NEW q \in Requests, NEW P, Resolution(q, P)
  PROVE  P \in PackLists /\ Len(P) \in Nat
BY ResolutionShape DEF PackLists

(* Before the requests are read nothing is resolved or stored.             *)
LEMMA InitCreationInv == Init => CreationInv
BY PackListsFacts DEF Init, CreationInv, Whole, Phases, NotStored

(* A step of one request leaves the others alone.                          *)
LEMMA OneClient ==
  ASSUME CreationInv, NEW c \in Clients,
         NEW ph \in Phases, NEW P \in PackLists, NEW n \in Nat,
         NEW T \in PackLists,
         phase' = [phase EXCEPT ![c] = ph], UNCHANGED request,
         packs' = [packs EXCEPT ![c] = P],
         written' = [written EXCEPT ![c] = n],
         stored' = [stored EXCEPT ![c] = T],
         Whole(ph, request[c], P, n, T)
  PROVE  CreationInv'
<1>1. /\ phase' \in [Clients -> Phases]
      /\ request' \in [Clients -> Requests]
      /\ packs' \in [Clients -> PackLists]
      /\ written' \in [Clients -> Nat]
      /\ stored' \in [Clients -> PackLists]
  BY DEF CreationInv
<1>2. ASSUME NEW e \in Clients
      PROVE  Whole(phase'[e], request'[e], packs'[e], written'[e], stored'[e])
  <2>1. CASE e = c
    BY <2>1 DEF CreationInv
  <2>2. CASE e # c
    <3>1. /\ phase'[e] = phase[e] /\ request'[e] = request[e]
          /\ packs'[e] = packs[e] /\ written'[e] = written[e]
          /\ stored'[e] = stored[e]
      BY <2>2 DEF CreationInv
    <3> QED
      BY <3>1 DEF CreationInv
  <2> QED
    BY <2>1, <2>2
<1> QED
  BY <1>1, <1>2 DEF CreationInv

(* Leaving the packs of a request as they are.                             *)
LEMMA ClientAsBefore ==
  ASSUME CreationInv, NEW c \in Clients
  PROVE  /\ packs[c] \in PackLists /\ packs = [packs EXCEPT ![c] = packs[c]]
         /\ written[c] \in Nat /\ written = [written EXCEPT ![c] = written[c]]
         /\ stored[c] \in PackLists /\ stored = [stored EXCEPT ![c] = stored[c]]
         /\ phase[c] \in Phases /\ phase = [phase EXCEPT ![c] = phase[c]]
         /\ request[c] \in Requests
         /\ Whole(phase[c], request[c], packs[c], written[c], stored[c])
BY DEF CreationInv

(* What a request resolves to is a resolution, and no other answer leaves  *)
(* packs behind.                                                           *)
LEMMA ReceiveCreationInv ==
  ASSUME CreationInv, NEW c \in Clients, Receive(c)
  PROVE  CreationInv'
<1>1. phase[c] = "idle" /\ UNCHANGED <<request, written, stored>>
  BY DEF Receive
<1>2. packs[c] = <<>> /\ written[c] = 0 /\ stored[c] = NotStored
  BY <1>1, ClientAsBefore DEF Whole
<1>3. CASE \E a \in {"refused", "broken"} : Answer(c, a) /\ UNCHANGED packs
  <2>1. PICK a \in {"refused", "broken"} :
          phase' = [phase EXCEPT ![c] = a] /\ UNCHANGED packs
    BY <1>3 DEF Answer
  <2>2. a \in Phases /\ Whole(a, request[c], packs[c], written[c], stored[c])
    BY <1>2, <2>1 DEF Whole, Phases
  <2>3. /\ packs' = [packs EXCEPT ![c] = packs[c]]
        /\ written' = [written EXCEPT ![c] = written[c]]
        /\ stored' = [stored EXCEPT ![c] = stored[c]]
    BY <1>1, <2>1, ClientAsBefore
  <2>4. packs[c] \in PackLists /\ written[c] \in Nat /\ stored[c] \in PackLists
    BY ClientAsBefore
  <2>5. UNCHANGED request /\ phase' = [phase EXCEPT ![c] = a]
    BY <1>1, <2>1
  <2> QED
    BY <2>2, <2>3, <2>4, <2>5, OneClient
<1>4. CASE \E P : /\ Resolution(request[c], P) /\ Answer(c, "resolved")
                  /\ packs' = [packs EXCEPT ![c] = P]
  <2>1. PICK P : /\ Resolution(request[c], P)
                 /\ phase' = [phase EXCEPT ![c] = "resolved"]
                 /\ packs' = [packs EXCEPT ![c] = P]
    BY <1>4 DEF Answer
  <2>2. P \in PackLists /\ Len(P) \in Nat
    BY <2>1, ResolutionPackList, ClientAsBefore
  <2>3. /\ "resolved" \in Phases
        /\ Whole("resolved", request[c], P, written[c], stored[c])
    BY <1>2, <2>1, <2>2 DEF Whole, Phases
  <2> QED
    BY <1>1, <2>1, <2>2, <2>3, ClientAsBefore, OneClient
<1> QED
  BY <1>3, <1>4 DEF Receive, Resolution

(* A batch ends with the last pack at most.                                *)
LEMMA InsertCreationInv ==
  ASSUME CreationInv, NEW c \in Clients, InsertBatch(c)
  PROVE  CreationInv'
<1> DEFINE n == IF written[c] + BatchInsertSize < Len(packs[c])
                THEN written[c] + BatchInsertSize ELSE Len(packs[c])
<1>1. /\ UNCHANGED <<phase, request, packs, stored>>
      /\ written' = [written EXCEPT ![c] = n]
      /\ phase[c] = "resolved"
  BY DEF InsertBatch, StoredInTransaction
<1>2. Len(packs[c]) \in Nat /\ written[c] \in Nat /\ BatchInsertSize \in Nat
  BY PackListsFacts, ClientAsBefore, CreationAssumption
<1>3. n \in Nat /\ n <= Len(packs[c])
  BY <1>2
<1> HIDE DEF n
<1>4. Whole(phase[c], request[c], packs[c], n, stored[c])
  BY <1>1, <1>3, ClientAsBefore DEF Whole
<1>5. /\ phase' = [phase EXCEPT ![c] = phase[c]]
      /\ packs' = [packs EXCEPT ![c] = packs[c]]
      /\ stored' = [stored EXCEPT ![c] = stored[c]]
  BY <1>1, ClientAsBefore
<1>6. phase[c] \in Phases /\ packs[c] \in PackLists /\ stored[c] \in PackLists
  BY ClientAsBefore
<1>7. UNCHANGED request /\ written' = [written EXCEPT ![c] = n]
  BY <1>1
<1> QED
  BY <1>3, <1>4, <1>5, <1>6, <1>7, OneClient

(* A commit stores all packs, an error none.                               *)
LEMMA EndCreationInv ==
  ASSUME CreationInv, NEW c \in Clients, Commit(c) \/ InsertFails(c)
  PROVE  CreationInv'
<1>1. phase[c] = "resolved" /\ UNCHANGED <<request, packs, written>>
  BY DEF Commit, InsertFails
<1>2. /\ packs' = [packs EXCEPT ![c] = packs[c]]
      /\ written' = [written EXCEPT ![c] = written[c]]
  BY <1>1, ClientAsBefore
<1>3. packs[c] \in PackLists /\ written[c] \in Nat /\ stored[c] \in PackLists
  BY ClientAsBefore
<1>4. CASE Commit(c)
  <2>1. /\ phase' = [phase EXCEPT ![c] = "created"]
        /\ stored' = [stored EXCEPT ![c] = packs[c]]
    BY <1>4 DEF Commit, Answer
  <2>2. /\ "created" \in Phases
        /\ Whole("created", request[c], packs[c], written[c], packs[c])
    BY <1>1, ClientAsBefore DEF Whole, Phases
  <2> QED
    BY <1>1, <1>2, <1>3, <2>1, <2>2, OneClient
<1>5. CASE InsertFails(c)
  <2>1. phase' = [phase EXCEPT ![c] = "failed"] /\ UNCHANGED stored
    BY <1>5 DEF InsertFails, Answer
  <2>2. /\ "failed" \in Phases
        /\ Whole("failed", request[c], packs[c], written[c], stored[c])
    BY <1>1, ClientAsBefore DEF Whole, Phases
  <2>3. stored' = [stored EXCEPT ![c] = stored[c]]
    BY <2>1, ClientAsBefore
  <2>4. UNCHANGED request /\ phase' = [phase EXCEPT ![c] = "failed"]
    BY <1>1, <2>1
  <2> QED
    BY <1>2, <1>3, <2>2, <2>3, <2>4, OneClient
<1> QED
  BY <1>4, <1>5

(* Each step keeps the invariant.                                          *)
LEMMA NextCreationInv ==
  ASSUME CreationInv, [Next]_vars
  PROVE  CreationInv'
<1>1. CASE \E c \in Clients : Receive(c)
  BY <1>1, ReceiveCreationInv
<1>2. CASE \E c \in Clients : InsertBatch(c)
  BY <1>2, InsertCreationInv
<1>3. CASE \E c \in Clients : Commit(c) \/ InsertFails(c)
  BY <1>3, EndCreationInv
<1>4. CASE UNCHANGED vars
  BY <1>4 DEF CreationInv, vars
<1> QED
  BY <1>1, <1>2, <1>3, <1>4 DEF Next

(* What is committed is what one draw has given, and nothing else.         *)
THEOREM CreationInvariant == Spec => []CreationInv
<1> QED
  BY InitCreationInv, NextCreationInv, PTL DEF Spec

(* The variables of the requests have their types.                         *)
THEOREM CreationTypeCorrect == Spec => []CreationTypeOK
<1>1. CreationInv => CreationTypeOK
  <2> SUFFICES ASSUME CreationInv PROVE CreationTypeOK
    OBVIOUS
  <2>1. ASSUME NEW c \in Clients
        PROVE  written[c] \in 0..Len(packs[c])
    <3>1. written[c] \in Nat /\ Len(packs[c]) \in Nat
      BY PackListsFacts, ClientAsBefore
    <3>2. written[c] <= Len(packs[c])
      BY <3>1, PackListsFacts, ClientAsBefore DEF Whole
    <3> QED
      BY <3>1, <3>2
  <2> QED
    BY <2>1 DEF CreationInv, CreationTypeOK, Phases, PackLists
<1> QED
  BY <1>1, CreationInvariant, PTL

(* A distribution is there with all its packs and slots, or not at all,    *)
(* whatever the numbers of a template wrap to and wherever a request ends. *)
THEOREM CreatedWhole == Spec => []AllOrNothing
<1>1. CreationInv => AllOrNothing
  <2> SUFFICES ASSUME CreationInv, NEW c \in Clients
               PROVE  IF phase[c] = "created"
                      THEN /\ Len(stored[c]) = PackCount(request[c])
                           /\ \A p \in DOMAIN stored[c] :
                                Len(stored[c][p]) = PackSlotCount(request[c])
                      ELSE stored[c] = NotStored
    BY DEF AllOrNothing
  <2>1. /\ request[c] \in Requests
        /\ Whole(phase[c], request[c], packs[c], written[c], stored[c])
    BY ClientAsBefore
  <2> QED
    BY <2>1, ResolutionShape DEF Whole
<1> QED
  BY <1>1, CreationInvariant, PTL

(* No collectible is given to two slots, even for counts that wrap.        *)
THEOREM DrawnOnce == Spec => []EachOnce
<1>1. CreationInv => EachOnce
  <2> SUFFICES ASSUME CreationInv, NEW c \in Clients, Distinct(request[c]),
                      NEW p1 \in DOMAIN stored[c], NEW p2 \in DOMAIN stored[c],
                      NEW s1 \in DOMAIN stored[c][p1],
                      NEW s2 \in DOMAIN stored[c][p2],
                      stored[c][p1][s1] = stored[c][p2][s2]
               PROVE  p1 = p2 /\ s1 = s2
    BY DEF EachOnce
  <2>1. phase[c] = "created" /\ stored[c] = packs[c]
    BY ClientAsBefore DEF Whole, NotStored
  <2>2. request[c] \in Requests /\ Resolution(request[c], stored[c])
    BY <2>1, ClientAsBefore DEF Whole
  <2> QED
    BY <2>2, ResolutionEachOnce
<1> QED
  BY <1>1, CreationInvariant, PTL

----------------------------------------------------------------------------
(* Numbers.  Arithmetic that does not leave the range of int does not wrap.*)

(* A set of numbers that is not empty has a smallest one: what holds of no *)
(* smallest counterexample holds of every number.                          *)
LEMMA SmallestExists ==
  ASSUME NEW S \in SUBSET Nat, S # {}
  PROVE  \E m \in S : \A x \in S : m <= x
<1>1. PICK m \in S : \A x \in S : <<x, m>> \notin OpToRel(<, Nat)
  BY WFMin, NatLessThanWellFounded
<1>2. ASSUME NEW x \in S PROVE m <= x
  <2>1. x \in Nat /\ m \in Nat
    OBVIOUS
  <2>2. <<x, m>> \notin OpToRel(<, Nat)
    BY <1>1
  <2>3. ~(x < m)
    BY <2>1, <2>2 DEF OpToRel
  <2> QED
    BY <2>1, <2>3
<1> QED
  BY <1>2

(* The numbers that a slice can be as long as, and those that an int is.   *)
LEMMA Limits == MaxInt \in Nat /\ MaxAlloc \in Nat /\ MaxAlloc <= MaxInt
BY CreationAssumption

(* int(n) is n for the lower half of what a uint can be, and negative for  *)
(* the upper half.                                                         *)
LEMMA SignedSmall ==
  ASSUME NEW n \in 0..MaxInt
  PROVE  Signed(n) = n
BY CreationAssumption DEF Signed

(* A number of the upper half becomes negative.                            *)
LEMMA SignedLarge ==
  ASSUME NEW n \in UInt, n > MaxInt
  PROVE  Signed(n) \in Int /\ Signed(n) < 0
BY CreationAssumption DEF Signed, UInt

(* A uint is never made larger, and is the same if it is not negative.     *)
LEMMA SignedType ==
  ASSUME NEW n \in UInt
  PROVE  Signed(n) \in Int /\ Signed(n) <= n /\ (Signed(n) >= 0 => Signed(n) = n)
<1>1. n \in Nat /\ MaxInt \in Nat
  BY CreationAssumption DEF UInt
<1>2. n \in 0..MaxInt \/ n > MaxInt
  BY <1>1
<1> QED
  BY <1>1, <1>2, SignedSmall, SignedLarge

(* Whatever wraps is an integer.                                           *)
LEMMA SignedInt ==
  ASSUME NEW n \in Int
  PROVE  Signed(n) \in Int
BY CreationAssumption DEF Signed

(* The quotients of the numbers below n * m are the numbers below m.       *)
LEMMA QuotientRange ==
  ASSUME NEW n \in Nat \ {0}, NEW m \in Nat, NEW i \in Nat, i < n * m
  PROVE  i \div n \in 0..(m - 1)
<1>1. PICK u \in Int : u = i \div n
  OBVIOUS
<1>2. n * (i \div n) <= i
  BY Z3
<1>3. i < n * (i \div n) + n
  BY Z3
<1>4. n * u < n * m /\ 0 < n * (u + 1)
  BY <1>1, <1>2, <1>3
<1>5. u < m /\ 0 <= u
  BY <1>4
<1> QED
  BY <1>1, <1>5

(* Pack and row of a pick determine the pick, and each pack and row has    *)
(* one.                                                                    *)
LEMMA QuotientOfRow ==
  ASSUME NEW n \in Nat \ {0}, NEW a \in Nat, NEW b \in 0..(n - 1)
  PROVE  /\ a * n + b \in Nat
         /\ (a * n + b) \div n = a /\ (a * n + b) % n = b
OBVIOUS

(* The pick of a pack and a row is below that of all rows.                 *)
LEMMA RowBelow ==
  ASSUME NEW n \in Nat \ {0}, NEW m \in Nat, NEW a \in 0..(m - 1),
         NEW b \in 0..(n - 1)
  PROVE  a * n + b < n * m
<1>1. a + 1 <= m
  OBVIOUS
<1>2. (a + 1) * n <= m * n
  BY <1>1
<1> QED
  BY <1>2

----------------------------------------------------------------------------
(* The slots of a pack: those of the buckets follow each other.            *)

(* The counts of the buckets are numbers, and none is larger than its      *)
(* collection.                                                             *)
Sane(q) ==
  \A k \in DOMAIN q.buckets :
    CountPerPack(q, k) \in 0..Len(q.buckets[k].collection)

(* The function s adds up the counts of the first n buckets.               *)
Sums(q, s, n) ==
  s[0] = 0 /\ \A k \in 1..n : s[k] = Signed(s[k - 1] + CountPerPack(q, k))

(* The numbers of a request.                                               *)
LEMMA CountType ==
  ASSUME NEW q \in Requests
  PROVE  /\ q.packCount \in UInt
         /\ \A k \in DOMAIN q.buckets :
              q.buckets[k].count \in UInt /\ CountPerPack(q, k) \in Int
<1> DEFINE B == [count : UInt, collection : Seq(IDs)]
<1>1. q.packCount \in UInt /\ q.buckets \in Seq(B)
  BY CreationAssumption
<1> HIDE DEF B
<1>2. \A k \in DOMAIN q.buckets : q.buckets[k] \in B
  BY <1>1, LenProperties, ElementOfSeq
<1>3. \A k \in DOMAIN q.buckets : q.buckets[k].count \in UInt
  BY <1>2 DEF B
<1> QED
  BY <1>1, <1>3, SignedType DEF CountPerPack

(* There is such a function, so SlotBase is one.                           *)
LEMMA SumsExist ==
  ASSUME NEW q \in Requests, NEW n \in 0..Len(q.buckets)
  PROVE  \E s : Sums(q, s, n)
<1> DEFINE S == {m \in 0..n : ~\E s : Sums(q, s, m)}
<1>1. SUFFICES ASSUME S # {} PROVE FALSE
  <2>1. n \in 0..n
    BY RequestType
  <2> QED
    BY <2>1
<1>2. S \in SUBSET Nat
  <2>1. \A x \in 0..n : x \in Nat
    BY RequestType
  <2> QED
    BY <2>1
<1>3. PICK m \in S : \A x \in S : m <= x
  BY <1>1, <1>2, SmallestExists
<1>4. m # 0
  <2>1. Sums(q, [k \in {0} |-> 0], 0)
    BY DEF Sums
  <2> QED
    BY <1>3, <2>1
<1>5. m - 1 \in 0..n /\ m - 1 \notin S /\ m \in Nat
  BY <1>2, <1>3, <1>4, RequestType
<1>6. PICK s : Sums(q, s, m - 1)
  BY <1>5
<1>7. PICK t : t = [k \in 0..m |-> IF k = m THEN Signed(s[m - 1] + CountPerPack(q, m))
                                            ELSE s[k]]
  OBVIOUS
<1>8. Sums(q, t, m)
  <2>1. t[0] = 0
    BY <1>4, <1>5, <1>6, <1>7 DEF Sums
  <2>2. ASSUME NEW k \in 1..m
        PROVE  t[k] = Signed(t[k - 1] + CountPerPack(q, k))
    <3>1. k - 1 \in 0..m /\ k \in 0..m /\ k - 1 # m
      BY <1>5
    <3>2. t[k - 1] = s[k - 1]
      BY <1>7, <3>1
    <3>3. CASE k = m
      BY <1>7, <3>1, <3>2, <3>3
    <3>4. CASE k # m
      <4>1. k \in 1..(m - 1) /\ t[k] = s[k]
        BY <1>5, <1>7, <3>1, <3>4
      <4> QED
        BY <1>6, <3>2, <4>1 DEF Sums
    <3> QED
      BY <3>3, <3>4
  <2> QED
    BY <2>1, <2>2 DEF Sums
<1> QED
  BY <1>3, <1>8

(* The recursive function SlotBase satisfies its equations.                *)
LEMMA SlotBaseSums ==
  ASSUME NEW q \in Requests
  PROVE  Sums(q, SlotBase(q), Len(q.buckets))
<1> DEFINE L == Len(q.buckets)
           Eq(f) == f = [k \in 0..L |->
                           IF k = 0 THEN 0 ELSE Signed(f[k - 1] + CountPerPack(q, k))]
<1>1. L \in Nat
  BY RequestType
<1>2. PICK s : Sums(q, s, L)
  BY <1>1, SumsExist
<1>3. PICK t : t = [k \in 0..L |-> s[k]]
  OBVIOUS
<1>4. Eq(t)
  <2>1. ASSUME NEW k \in 0..L
        PROVE  t[k] = IF k = 0 THEN 0 ELSE Signed(t[k - 1] + CountPerPack(q, k))
    <3>1. CASE k = 0
      BY <1>2, <1>3, <3>1 DEF Sums
    <3>2. CASE k # 0
      <4>1. k \in 1..L /\ k - 1 \in 0..L
        BY <1>1, <3>2
      <4> QED
        BY <1>2, <1>3, <3>2, <4>1 DEF Sums
    <3> QED
      BY <3>1, <3>2
  <2> QED
    BY <1>3, <2>1
<1>5. SlotBase(q) = CHOOSE f : Eq(f)
  BY DEF SlotBase
<1>6. Eq(SlotBase(q))
  <2> HIDE DEF Eq
  <2> QED
    BY <1>4, <1>5
<1> HIDE DEF Eq
<1>7. PICK f : f = SlotBase(q) /\ Eq(f)
  BY <1>6
<1>8. Sums(q, f, L)
  <2>1. f[0] = 0
    BY <1>1, <1>7 DEF Eq
  <2>2. ASSUME NEW k \in 1..L
        PROVE  f[k] = Signed(f[k - 1] + CountPerPack(q, k))
    BY <1>1, <1>7 DEF Eq
  <2> QED
    BY <2>1, <2>2 DEF Sums
<1> QED
  BY <1>7, <1>8

(* Sums that may wrap are integers all the same.                           *)
LEMMA SlotBaseType ==
  ASSUME NEW q \in Requests, NEW k \in 0..Len(q.buckets)
  PROVE  SlotBase(q)[k] \in Int
<1> DEFINE S == {m \in 0..Len(q.buckets) : SlotBase(q)[m] \notin Int}
<1>1. SUFFICES ASSUME S # {} PROVE FALSE
  OBVIOUS
<1>2. S \in SUBSET Nat
  <2>1. \A x \in 0..Len(q.buckets) : x \in Nat
    BY RequestType
  <2> QED
    BY <2>1
<1>3. PICK m \in S : \A x \in S : m <= x
  BY <1>1, <1>2, SmallestExists
<1>4. m # 0
  BY <1>3, SlotBaseSums DEF Sums
<1>5. m \in 1..Len(q.buckets) /\ m - 1 \in 0..Len(q.buckets) /\ m - 1 \notin S
  BY <1>2, <1>3, <1>4, RequestType
<1>6. SlotBase(q)[m - 1] \in Int /\ CountPerPack(q, m) \in Int
  <2>1. SlotBase(q)[m - 1] \in Int
    BY <1>5
  <2>2. m \in DOMAIN q.buckets
    BY <1>5, RequestType
  <2> QED
    BY <2>1, <2>2, CountType
<1>7. SlotBase(q)[m] = Signed(SlotBase(q)[m - 1] + CountPerPack(q, m))
  BY <1>5, SlotBaseSums DEF Sums
<1>8. PICK x \in Int : x = SlotBase(q)[m - 1] + CountPerPack(q, m)
  BY <1>6
<1>9. SlotBase(q)[m] \in Int
  BY <1>7, <1>8, SignedInt
<1> QED
  BY <1>3, <1>9

(* The places of the first n buckets, and those of one bucket.             *)
PlacesTo(q, n) == {w \in Places(q) : w[1] <= n}
PlacesOf(q, k) == {<<k, i>> : i \in DOMAIN q.buckets[k].collection}

(* A bucket has as many places as its collection has entries.              *)
LEMMA PlacesOfBucket ==
  ASSUME NEW q \in Requests, NEW k \in DOMAIN q.buckets
  PROVE  /\ IsFiniteSet(PlacesOf(q, k))
         /\ Cardinality(PlacesOf(q, k)) = Len(q.buckets[k].collection)
<1> DEFINE n == Len(q.buckets[k].collection)
<1>1. n \in Nat /\ DOMAIN q.buckets[k].collection = 1..n
  BY RequestType
<1> HIDE DEF n
<1>2. PICK f : f = [i \in 1..n |-> <<k, i>>]
  OBVIOUS
<1>3. f \in Bijection(1..n, PlacesOf(q, k))
  BY <1>1, <1>2 DEF Bijection, Injection, Surjection, IsInjective, PlacesOf
<1>4. IsFiniteSet(1..n) /\ Cardinality(1..n) = n
  BY <1>1, FS_Interval
<1> QED
  BY <1>3, <1>4, FS_Bijection DEF ExistsBijection, n

(* As long as no bucket gives a pack more than it has, the number of slots *)
(* is the sum of the counts, and at most the number of entries.            *)
SlotsTo(q, n) ==
  /\ IsFiniteSet(PlacesTo(q, n))
  /\ SlotBase(q)[n] \in 0..Cardinality(PlacesTo(q, n))
  /\ \A j \in 0..n : SlotBase(q)[j] <= SlotBase(q)[n]
  /\ n # 0 => SlotBase(q)[n] = SlotBase(q)[n - 1] + CountPerPack(q, n)

(* No part of the places is larger than what can be allocated.             *)
LEMMA PlacesFit ==
  ASSUME NEW q \in Requests, NEW n, IsFiniteSet(PlacesTo(q, n)),
         IsFiniteSet(Places(q))
  PROVE  Cardinality(PlacesTo(q, n)) \in 0..MaxAlloc
<1>1. /\ Cardinality(PlacesTo(q, n)) \in Nat /\ Cardinality(Places(q)) \in Nat
      /\ Cardinality(PlacesTo(q, n)) <= Cardinality(Places(q))
  BY FS_Subset, FS_CardinalityType DEF PlacesTo
<1> QED
  BY <1>1, CreationAssumption, RequestsFit

(* A request has finitely many places.                                     *)
LEMMA PlacesFinite ==
  ASSUME NEW q \in Requests
  PROVE  IsFiniteSet(Places(q))
<1>1. IsFiniteSet(DOMAIN q.buckets)
  BY RequestType, FS_Interval
<1>2. PICK S : S = {PlacesOf(q, k) : k \in DOMAIN q.buckets}
  OBVIOUS
<1>3. IsFiniteSet(S)
  <2>1. PICK f : f = [k \in DOMAIN q.buckets |-> PlacesOf(q, k)]
    OBVIOUS
  <2>2. f \in Surjection(DOMAIN q.buckets, S)
    BY <1>2, <2>1 DEF Surjection
  <2> QED
    BY <1>1, <2>2, FS_Surjection
<1>4. \A s \in S : IsFiniteSet(s)
  BY <1>2, PlacesOfBucket
<1>5. IsFiniteSet(UNION S)
  BY <1>3, <1>4, FS_UNION
<1>6. UNION S = Places(q)
  BY <1>2 DEF Places, PlacesOf
<1> QED
  BY <1>5, <1>6

(* No bucket, no slot.                                                     *)
LEMMA SlotsOfNone ==
  ASSUME NEW q \in Requests
  PROVE  SlotsTo(q, 0)
<1>1. PlacesTo(q, 0) = {}
  <2>1. \A w \in Places(q) : w[1] \in 1..Len(q.buckets)
    BY RequestType DEF Places
  <2> QED
    BY <2>1, RequestType DEF PlacesTo
<1>2. SlotBase(q)[0] = 0
  BY SlotBaseSums DEF Sums
<1> QED
  BY <1>1, <1>2, FS_EmptySet DEF SlotsTo

(* The sum does not wrap at the next bucket: the slots so far are no more  *)
(* than the places so far, and these can be allocated.                     *)
LEMMA SlotsOfNext ==
  ASSUME NEW q \in Requests, Sane(q), NEW n \in DOMAIN q.buckets,
         SlotsTo(q, n - 1)
  PROVE  SlotsTo(q, n)
<1> DEFINE A == PlacesTo(q, n - 1)
           B == PlacesOf(q, n)
           C == PlacesTo(q, n)
<1>1. n \in Nat \ {0} /\ n \in 1..Len(q.buckets)
  BY RequestType
<1>2. C = A \cup B /\ A \cap B = {}
  <2>1. \A w \in Places(q) : w[1] \in Nat
    BY RequestType DEF Places
  <2>2. \A w \in B : w[1] = n /\ w \in Places(q)
    BY DEF Places, PlacesOf
  <2>3. \A w \in Places(q) : w[1] = n => w \in B
    BY DEF Places, PlacesOf
  <2> QED
    BY <1>1, <2>1, <2>2, <2>3 DEF PlacesTo
<1>3. IsFiniteSet(A) /\ Cardinality(A) \in Nat
  BY FS_CardinalityType DEF SlotsTo
<1>4. IsFiniteSet(B) /\ Cardinality(B) = Len(q.buckets[n].collection)
  BY PlacesOfBucket
<1> HIDE DEF A, B, C
<1>5. IsFiniteSet(C) /\ Cardinality(C) = Cardinality(A) + Cardinality(B)
  <2>1. /\ IsFiniteSet(A \cup B)
        /\ Cardinality(A \cup B)
             = Cardinality(A) + Cardinality(B) - Cardinality(A \cap B)
    BY <1>3, <1>4, FS_Union
  <2>2. Cardinality(A \cap B) = 0 /\ Cardinality(B) \in Nat
    BY <1>2, <1>4, FS_EmptySet, RequestType
  <2> QED
    BY <1>2, <1>3, <2>1, <2>2
<1>6. Cardinality(C) \in 0..MaxAlloc
  <2>1. IsFiniteSet(PlacesTo(q, n)) /\ IsFiniteSet(Places(q))
    BY <1>5, PlacesFinite DEF C
  <2>2. Cardinality(PlacesTo(q, n)) \in 0..MaxAlloc
    BY <2>1, PlacesFit
  <2> QED
    BY <2>2 DEF C
<1>7. PICK a \in 0..Cardinality(A) : a = SlotBase(q)[n - 1]
  BY DEF SlotsTo, A
<1>8. PICK m \in 0..Cardinality(B) : m = CountPerPack(q, n)
  BY <1>4 DEF Sane
<1>9. a + m \in 0..Cardinality(C) /\ a + m \in 0..MaxInt
  <2>1. /\ Cardinality(A) \in Nat /\ Cardinality(B) \in Nat
        /\ MaxInt \in Nat /\ MaxAlloc \in Nat /\ MaxAlloc <= MaxInt
    BY <1>3, <1>4, CreationAssumption, RequestType
  <2>2. /\ Cardinality(C) = Cardinality(A) + Cardinality(B)
        /\ Cardinality(C) <= MaxAlloc
    BY <1>5, <1>6, <2>1
  <2>3. a \in Nat /\ m \in Nat /\ a <= Cardinality(A) /\ m <= Cardinality(B)
    BY <1>7, <1>8, <2>1
  <2> QED
    BY <2>1, <2>2, <2>3
<1>10. SlotBase(q)[n] = a + m
  <2>1. SlotBase(q)[n] = Signed(SlotBase(q)[n - 1] + CountPerPack(q, n))
    BY <1>1, SlotBaseSums DEF Sums
  <2> QED
    BY <1>7, <1>8, <1>9, <2>1, SignedSmall
<1>11. ASSUME NEW j \in 0..n
       PROVE  SlotBase(q)[j] <= a + m
  <2>1. CASE j = n
    BY <1>9, <1>10, <2>1
  <2>2. CASE j # n
    <3>1. j \in 0..(n - 1)
      BY <1>1, <2>2
    <3>2. SlotBase(q)[j] <= a
      BY <1>7, <3>1 DEF SlotsTo
    <3>3. SlotBase(q)[j] \in Int
      BY <1>1, <3>1, SlotBaseType
    <3> QED
      BY <1>3, <1>4, <1>7, <1>8, <3>2, <3>3, RequestType
  <2> QED
    BY <2>1, <2>2
<1> QED
  BY <1>5, <1>7, <1>8, <1>9, <1>10, <1>11 DEF SlotsTo, C

(* So it wraps at no bucket.                                               *)
LEMMA SlotsAdd ==
  ASSUME NEW q \in Requests, Sane(q), NEW n \in 0..Len(q.buckets)
  PROVE  SlotsTo(q, n)
<1> DEFINE S == {m \in 0..Len(q.buckets) : ~SlotsTo(q, m)}
<1>1. SUFFICES ASSUME S # {} PROVE FALSE
  OBVIOUS
<1>2. S \in SUBSET Nat
  <2>1. \A x \in 0..Len(q.buckets) : x \in Nat
    BY RequestType
  <2> QED
    BY <2>1
<1>3. PICK m \in S : \A x \in S : m <= x
  BY <1>1, <1>2, SmallestExists
<1>4. m # 0
  BY <1>3, SlotsOfNone
<1>5. m \in DOMAIN q.buckets /\ m - 1 \in 0..Len(q.buckets) /\ m - 1 \notin S
  BY <1>2, <1>3, <1>4, RequestType
<1> QED
  BY <1>3, <1>5, SlotsOfNext

(* The slots of a bucket.                                                  *)
SlotsOfBucket(q, k) == SlotBase(q)[k - 1]..(SlotBase(q)[k] - 1)

(* The slots of the buckets are numbers below that of all slots, as many   *)
(* as the count says, and a slot belongs to one bucket.                    *)
LEMMA SlotsOfBuckets ==
  ASSUME NEW q \in Requests, Sane(q)
  PROVE  /\ PackSlotCount(q) \in 0..MaxAlloc
         /\ \A k \in DOMAIN q.buckets :
              /\ SlotBase(q)[k - 1] \in Nat
              /\ SlotBase(q)[k] = SlotBase(q)[k - 1] + CountPerPack(q, k)
              /\ SlotBase(q)[k] <= PackSlotCount(q)
         /\ \A k, j \in DOMAIN q.buckets :
              SlotsOfBucket(q, k) \cap SlotsOfBucket(q, j) # {} => k = j
<1> DEFINE L == Len(q.buckets)
<1>1. L \in Nat /\ DOMAIN q.buckets = 1..L
  BY RequestType
<1> HIDE DEF L
<1>2. \A n \in 0..L : SlotsTo(q, n) /\ SlotBase(q)[n] \in Nat
  <2>1. ASSUME NEW n \in 0..L
        PROVE  SlotsTo(q, n) /\ SlotBase(q)[n] \in Nat
    <3>1. SlotsTo(q, n)
      BY SlotsAdd DEF L
    <3>2. Cardinality(PlacesTo(q, n)) \in Nat
      BY <3>1, FS_CardinalityType DEF SlotsTo
    <3> QED
      BY <3>1, <3>2 DEF SlotsTo
  <2> QED
    BY <2>1
<1>3. PackSlotCount(q) = SlotBase(q)[L] /\ L \in 0..L
  BY <1>1 DEF PackSlotCount, L
<1>4. PackSlotCount(q) \in 0..MaxAlloc
  <2>1. SlotsTo(q, L) /\ SlotBase(q)[L] \in Nat
    BY <1>2, <1>3
  <2>2. Cardinality(PlacesTo(q, L)) \in 0..MaxAlloc
    BY <2>1, PlacesFinite, PlacesFit DEF SlotsTo
  <2>3. SlotBase(q)[L] <= Cardinality(PlacesTo(q, L))
    BY <2>1, <2>2, CreationAssumption DEF SlotsTo
  <2> QED
    BY <1>3, <2>1, <2>2, <2>3, CreationAssumption
<1>5. ASSUME NEW k \in 1..L
      PROVE  /\ SlotBase(q)[k - 1] \in Nat
             /\ SlotBase(q)[k] = SlotBase(q)[k - 1] + CountPerPack(q, k)
             /\ SlotBase(q)[k] <= PackSlotCount(q)
  <2>1. k \in 0..L /\ k - 1 \in 0..L /\ k # 0
    BY <1>1
  <2> QED
    BY <1>2, <1>3, <2>1 DEF SlotsTo
<1>6. ASSUME NEW k \in 1..L, NEW j \in 1..L, k < j
      PROVE  SlotsOfBucket(q, k) \cap SlotsOfBucket(q, j) = {}
  <2>1. k \in 0..L /\ j - 1 \in 0..L /\ k \in 0..(j - 1) /\ k - 1 \in 0..L
    BY <1>1, <1>6
  <2>2. /\ SlotBase(q)[k] <= SlotBase(q)[j - 1]
        /\ SlotBase(q)[k] \in Nat /\ SlotBase(q)[j - 1] \in Nat
    BY <1>2, <2>1 DEF SlotsTo
  <2> QED
    BY <2>2 DEF SlotsOfBucket
<1>7. ASSUME NEW k \in 1..L, NEW j \in 1..L,
             SlotsOfBucket(q, k) \cap SlotsOfBucket(q, j) # {}
      PROVE  k = j
  <2>1. ~(k < j) /\ ~(j < k)
    BY <1>6, <1>7
  <2> QED
    BY <1>1, <2>1
<1> QED
  BY <1>1, <1>4, <1>5, <1>7

(* Each slot belongs to a bucket.                                          *)
LEMMA BucketOfSlot ==
  ASSUME NEW q \in Requests, Sane(q), NEW s \in 0..(PackSlotCount(q) - 1)
  PROVE  \E k \in DOMAIN q.buckets : s \in SlotsOfBucket(q, k)
<1> DEFINE L == Len(q.buckets)
           S == {n \in 0..L : s < SlotBase(q)[n]}
<1>1. L \in Nat /\ DOMAIN q.buckets = 1..L
  BY RequestType
<1>2. S \in SUBSET Nat /\ S # {} /\ s \in Nat
  <2>1. L \in S /\ s \in Nat
    BY <1>1, SlotsOfBuckets, CreationAssumption DEF PackSlotCount
  <2>2. \A x \in 0..L : x \in Nat
    BY <1>1
  <2> QED
    BY <2>1, <2>2
<1>3. PICK m \in S : \A x \in S : m <= x
  BY <1>2, SmallestExists
<1>4. m # 0
  BY <1>2, <1>3, SlotBaseSums DEF Sums
<1>5. m \in 1..L /\ m - 1 \in 0..L /\ m - 1 \notin S
  BY <1>1, <1>2, <1>3, <1>4
<1>6. /\ ~(s < SlotBase(q)[m - 1]) /\ s < SlotBase(q)[m]
      /\ SlotBase(q)[m - 1] \in Int /\ SlotBase(q)[m] \in Int
  BY <1>3, <1>5, SlotBaseType
<1>7. s \in SlotsOfBucket(q, m)
  BY <1>2, <1>6 DEF SlotsOfBucket
<1> QED
  BY <1>1, <1>5, <1>7

(* For packs that can be allocated, the number of entries that are drawn   *)
(* from a collection is a uint; as an int it is the same or negative, and  *)
(* then nothing is drawn.                                                  *)
LEMMA DrawnFromBucket ==
  ASSUME NEW q \in Requests, Sane(q), PackCount(q) \in 0..MaxAlloc,
         NEW k \in DOMAIN q.buckets
  PROVE  /\ PackCount(q) * CountPerPack(q, k) \in UInt
         /\ \A i \in Picks(q, k) :
              i \in Nat /\ i < PackCount(q) * CountPerPack(q, k)
         /\ \/ Picks(q, k) = {}
            \/ Picks(q, k) = 0..(PackCount(q) * CountPerPack(q, k) - 1)
<1>1. PICK n \in Nat : n = PackCount(q) /\ n <= MaxAlloc
  BY CreationAssumption
<1>2. PICK m \in Nat : m = CountPerPack(q, k) /\ m <= Len(q.buckets[k].collection)
  BY RequestType DEF Sane
<1>3. PICK l \in Nat : l = Len(q.buckets[k].collection)
  BY RequestType
<1>4. MaxAlloc * l \in UInt /\ MaxAlloc \in Nat
  BY <1>3, CreationAssumption
<1>5. n * m \in UInt
  <2>1. n * m <= MaxAlloc * m
    BY <1>1, <1>4
  <2>2. MaxAlloc * m <= MaxAlloc * l
    BY <1>2, <1>3, <1>4
  <2>3. PICK a \in Nat, b \in Nat, c \in UInt :
          a = n * m /\ b = MaxAlloc * m /\ c = MaxAlloc * l
    BY <1>4
  <2>4. a <= b /\ b <= c
    BY <2>1, <2>2, <2>3
  <2>5. a \in UInt
    BY <2>3, <2>4, Limits DEF UInt
  <2> QED
    BY <2>3, <2>5
<1>6. PICK x \in UInt : x = n * m
  BY <1>5
<1>7. /\ Signed(x) \in Int /\ Signed(x) <= x /\ (Signed(x) >= 0 => Signed(x) = x)
      /\ x \in Nat
  BY <1>6, SignedType, CreationAssumption DEF UInt
<1>8. Picks(q, k) = 0..(Signed(x) - 1)
  BY <1>1, <1>2, <1>6 DEF Picks
<1>9. \A i \in Picks(q, k) : i \in Nat /\ i < x
  BY <1>7, <1>8
<1>10. Picks(q, k) = {} \/ Picks(q, k) = 0..(x - 1)
  BY <1>7, <1>8
<1> QED
  BY <1>1, <1>2, <1>5, <1>6, <1>9, <1>10

(* A pick of a bucket goes to one of its slots, in one of the packs.       *)
LEMMA PickGoesTo ==
  ASSUME NEW q \in Requests, Sane(q), PackCount(q) \in 0..MaxAlloc,
         NEW k \in DOMAIN q.buckets, NEW i \in Picks(q, k)
  PROVE  /\ PackIndex(q, i) \in 0..(PackCount(q) - 1)
         /\ SlotIndex(q, k, i) \in SlotsOfBucket(q, k)
<1>1. PICK m \in Nat : m = CountPerPack(q, k)
  BY RequestType DEF Sane
<1>2. PICK n \in Nat : n = PackCount(q)
  BY CreationAssumption
<1>3. i \in Nat /\ i < n * m
  BY <1>1, <1>2, DrawnFromBucket
<1>4. n # 0
  BY <1>1, <1>3
<1>5. i \div n \in 0..(m - 1)
  BY <1>3, <1>4, QuotientRange
<1>6. i % n \in 0..(n - 1)
  BY <1>2, <1>3, <1>4
<1>7. SlotBase(q)[k - 1] \in Nat /\ SlotBase(q)[k] = SlotBase(q)[k - 1] + m
  BY <1>1, SlotsOfBuckets
<1> QED
  BY <1>1, <1>2, <1>5, <1>6, <1>7 DEF PackIndex, SlotIndex, SlotsOfBucket

(* The pick that goes to a slot of a bucket, if the number of picks does   *)
(* not wrap.                                                               *)
LEMMA PickOfSlot ==
  ASSUME NEW q \in Requests, Sane(q), PackCount(q) \in 0..MaxAlloc,
         NEW k \in DOMAIN q.buckets, NEW p \in 0..(PackCount(q) - 1),
         NEW s \in SlotsOfBucket(q, k),
         Picks(q, k) = 0..(PackCount(q) * CountPerPack(q, k) - 1)
  PROVE  \E i \in Picks(q, k) : PackIndex(q, i) = p /\ SlotIndex(q, k, i) = s
<1>1. PICK m \in Nat : m = CountPerPack(q, k)
  BY RequestType DEF Sane
<1>2. PICK n \in Nat : n = PackCount(q)
  BY CreationAssumption
<1>3. PICK b \in Nat : b = SlotBase(q)[k - 1] /\ SlotBase(q)[k] = b + m
  BY <1>1, SlotsOfBuckets
<1>4. PICK a \in 0..(m - 1) : s = b + a
  <2>1. s \in Int /\ b <= s /\ s <= b + m - 1
    BY <1>3 DEF SlotsOfBucket
  <2>2. s - b \in 0..(m - 1)
    BY <2>1
  <2> QED
    BY <2>1, <2>2
<1>5. n # 0 /\ p \in 0..(n - 1) /\ a \in Nat
  BY <1>2, <1>4
<1>6. PICK i \in Nat : i = a * n + p /\ i \div n = a /\ i % n = p
  BY <1>5, QuotientOfRow
<1>7. i < n * m
  BY <1>5, <1>6, RowBelow
<1>8. i \in Picks(q, k)
  <2>1. i \in 0..(n * m - 1)
    BY <1>6, <1>7
  <2> QED
    BY <1>1, <1>2, <2>1
<1>9. PackIndex(q, i) = p
  BY <1>2, <1>6 DEF PackIndex
<1>10. SlotIndex(q, k, i) = s
  <2>1. SlotIndex(q, k, i) = a + b
    BY <1>2, <1>3, <1>6 DEF SlotIndex
  <2> QED
    BY <1>4, <1>5, <2>1
<1> QED
  BY <1>8, <1>9, <1>10

----------------------------------------------------------------------------
(* Packs follow their template.                                            *)

(* What was validated gives no pack more than a bucket has.                *)
LEMMA ValidIsSane ==
  ASSUME NEW q \in Requests, Valid(q), NoNegativeCount(q)
  PROVE  Sane(q)
BY RequestType, CountType DEF Valid, BucketValid, NoNegativeCount, Sane

(* The slots of a bucket are filled from it: a pick of another bucket goes *)
(* elsewhere.                                                              *)
LEMMA ResolutionFollows ==
  ASSUME NEW q \in Requests, NEW P, Resolution(q, P), Sane(q),
         NEW p \in DOMAIN P, NEW k \in DOMAIN q.buckets,
         NEW s \in (SlotBase(q)[k - 1] + 1)..SlotBase(q)[k]
  PROVE  \E i \in DOMAIN q.buckets[k].collection :
           P[p][s] = q.buckets[k].collection[i]
<1>1. PackCount(q) \in 0..MaxAlloc
  BY DEF Resolution, Panics
<1>2. s - 1 \in SlotsOfBucket(q, k) /\ s \in 1..PackSlotCount(q)
  <2>1. PICK a \in Nat, b \in Nat :
          a = SlotBase(q)[k - 1] /\ b = SlotBase(q)[k] /\ b <= PackSlotCount(q)
    BY SlotsOfBuckets, RequestType DEF Sane
  <2>2. PackSlotCount(q) \in Nat
    BY SlotsOfBuckets, CreationAssumption
  <2> QED
    BY <2>1, <2>2 DEF SlotsOfBucket
<1>3. PICK draw \in Draws(q) : P = Distribute(q, draw)
  BY DEF Resolution
<1>4. P[p][s] = Collectible(q, draw, p - 1, s - 1) /\ P[p][s] # NoID
  BY <1>2, <1>3 DEF Distribute, Resolution, PackValid
<1>5. PICK j \in DOMAIN q.buckets : \E i \in Picks(q, j) :
        /\ SlotIndex(q, j, i) = s - 1
        /\ P[p][s] = q.buckets[j].collection[draw[j][i]]
  BY <1>4, CollectibleOfPick
<1>6. PICK i \in Picks(q, j) :
        /\ SlotIndex(q, j, i) = s - 1
        /\ P[p][s] = q.buckets[j].collection[draw[j][i]]
  BY <1>5
<1>7. s - 1 \in SlotsOfBucket(q, j)
  BY <1>1, <1>6, PickGoesTo
<1>8. j = k
  BY <1>2, <1>7, SlotsOfBuckets
<1>9. draw[k][i] \in DOMAIN q.buckets[k].collection
  BY <1>8, PickInRange DEF Resolution
<1> QED
  BY <1>6, <1>8, <1>9

(* A request that could be resolved was meaningful: had the number of      *)
(* picks of a bucket wrapped, its slots would be empty.                    *)
LEMMA ResolutionMeaningful ==
  ASSUME NEW q \in Requests, NEW P, Resolution(q, P), Valid(q), NoNegativeCount(q)
  PROVE  Meaningful(q)
<1>1. PackCount(q) \in 0..MaxAlloc /\ Sane(q)
  BY ValidIsSane DEF Resolution, Panics
<1>2. q.packCount \in Nat /\ q.packCount > 0 /\ PackCount(q) = q.packCount
  BY <1>1, CountType, SignedType, CreationAssumption DEF Valid, PackCount, UInt
<1>3. ASSUME NEW k \in DOMAIN q.buckets
      PROVE  /\ q.buckets[k].count > 0
             /\ q.packCount * q.buckets[k].count <= Len(q.buckets[k].collection)
  <2>1. PICK m \in Nat \ {0} : m = q.buckets[k].count /\ m = CountPerPack(q, k)
    <3>1. PICK c \in UInt : c = q.buckets[k].count
      BY CountType
    <3>2. CountPerPack(q, k) = Signed(c) /\ Signed(c) >= 0 /\ c # 0
      BY <3>1 DEF NoNegativeCount, CountPerPack, Valid, BucketValid
    <3>3. Signed(c) = c /\ c \in Nat
      BY <3>2, SignedType, CreationAssumption DEF UInt
    <3> QED
      BY <3>1, <3>2, <3>3
  <2>2. PICK n \in Nat \ {0} : n = q.packCount /\ n = PackCount(q)
    BY <1>2
  <2>3. PICK x \in UInt : x = n * m
    BY <1>1, <2>1, <2>2, DrawnFromBucket
  <2>4. PICK b \in Nat : b = SlotBase(q)[k - 1] /\ SlotBase(q)[k] = b + m
                         /\ b + m <= PackSlotCount(q) /\ PackSlotCount(q) \in Nat
    <3>1. PICK b \in Nat : b = SlotBase(q)[k - 1]
      BY <1>1, SlotsOfBuckets
    <3>2. SlotBase(q)[k] = b + m /\ SlotBase(q)[k] <= PackSlotCount(q)
      BY <1>1, <2>1, <3>1, SlotsOfBuckets
    <3>3. PackSlotCount(q) \in Nat
      BY <1>1, SlotsOfBuckets, CreationAssumption
    <3> QED
      BY <3>1, <3>2, <3>3
  <2>5. Picks(q, k) # {}
    <3>1. PICK draw \in Draws(q) : P = Distribute(q, draw)
      BY DEF Resolution
    <3>2. 1 \in 1..PackCount(q) /\ b + 1 \in 1..PackSlotCount(q)
      BY <2>2, <2>4
    <3>3. P[1][b + 1] = Collectible(q, draw, 1 - 1, b + 1 - 1) /\ P[1][b + 1] # NoID
      BY <3>1, <3>2 DEF Distribute, Resolution, PackValid
    <3>4. PICK j \in DOMAIN q.buckets : \E i \in Picks(q, j) :
            SlotIndex(q, j, i) = b + 1 - 1
      BY <3>3, CollectibleOfPick
    <3>5. b \in SlotsOfBucket(q, j)
      BY <1>1, <2>4, <3>4, PickGoesTo
    <3>6. b \in SlotsOfBucket(q, k)
      BY <2>1, <2>4 DEF SlotsOfBucket
    <3> QED
      BY <1>1, <3>4, <3>5, <3>6, SlotsOfBuckets
  <2>6. Signed(x) >= 0
    <3>1. Picks(q, k) = 0..(Signed(x) - 1) /\ Signed(x) \in Int
      BY <2>1, <2>2, <2>3, SignedType DEF Picks
    <3> QED
      BY <2>5, <3>1
  <2>7. x = n * m /\ Signed(x) = x
    BY <2>3, <2>6, SignedType
  <2>8. Signed(x) <= Len(q.buckets[k].collection)
    BY <2>1, <2>2, <2>3 DEF Valid, LargeEnough
  <2> QED
    BY <2>1, <2>2, <2>7, <2>8
<1> QED
  BY <1>2, <1>3 DEF Valid, Meaningful

(* A meaningful request is accepted: nothing about it wraps.               *)
LEMMA MeaningfulFits ==
  ASSUME NEW q \in Requests, Meaningful(q)
  PROVE  /\ Sane(q) /\ PackCount(q) = q.packCount /\ PackCount(q) \in 1..MaxAlloc
         /\ \A k \in DOMAIN q.buckets :
              /\ CountPerPack(q, k) = q.buckets[k].count
              /\ CountPerPack(q, k) > 0
              /\ q.packCount * q.buckets[k].count \in 0..MaxAlloc
<1>1. PICK n \in Nat \ {0} : n = q.packCount
  BY CountType, CreationAssumption DEF Meaningful, UInt
<1>2. ASSUME NEW k \in DOMAIN q.buckets
      PROVE  \E m \in Nat \ {0} :
               /\ m = q.buckets[k].count
               /\ n * m \in 0..Len(q.buckets[k].collection)
               /\ m \in 0..Len(q.buckets[k].collection)
               /\ n \in 0..Len(q.buckets[k].collection)
               /\ Len(q.buckets[k].collection) \in 0..MaxAlloc
  <2>1. PICK m \in Nat \ {0} : m = q.buckets[k].count
    BY CountType, CreationAssumption DEF Meaningful, UInt
  <2>2. PICK l \in Nat : l = Len(q.buckets[k].collection)
    BY RequestType
  <2>3. n * m \in Nat /\ n * m <= l
    BY <1>1, <2>1, <2>2 DEF Meaningful
  <2>4. 1 * m <= n * m /\ n * 1 <= n * m
    BY <1>1, <2>1
  <2>5. l <= MaxAlloc
    <3>1. PlacesOf(q, k) \in SUBSET Places(q)
      BY DEF PlacesOf, Places
    <3>2. /\ Cardinality(PlacesOf(q, k)) <= Cardinality(Places(q))
          /\ Cardinality(PlacesOf(q, k)) = l /\ Cardinality(Places(q)) \in Nat
      BY <2>2, <3>1, PlacesFinite, PlacesOfBucket, FS_Subset, FS_CardinalityType
    <3>3. Cardinality(Places(q)) <= MaxAlloc /\ MaxAlloc \in Nat
      BY RequestsFit, CreationAssumption
    <3> QED
      BY <2>2, <3>2, <3>3
  <2>6. n * m \in 0..l /\ m \in 0..l /\ n \in 0..l /\ l \in 0..MaxAlloc
    BY <2>3, <2>4, <2>5, Limits
  <2> QED
    BY <2>1, <2>2, <2>6
<1>3. MaxAlloc \in Nat /\ MaxInt \in Nat /\ MaxAlloc <= MaxInt
  BY CreationAssumption
<1>4. 1 \in DOMAIN q.buckets
  <2>1. Len(q.buckets) # 0
    BY CreationAssumption, EmptySeq, LenProperties DEF Meaningful
  <2> QED
    BY <2>1, RequestType
<1>5. n \in 1..MaxAlloc /\ n \in 0..MaxInt
  <2>1. PICK l \in Nat : l <= MaxAlloc /\ n \in 0..l
    BY <1>2, <1>3, <1>4
  <2> QED
    BY <1>3, <2>1
<1>6. PackCount(q) = n
  BY <1>1, <1>5, SignedSmall DEF PackCount
<1>7. ASSUME NEW k \in DOMAIN q.buckets
      PROVE  /\ CountPerPack(q, k) = q.buckets[k].count
             /\ CountPerPack(q, k) > 0
             /\ CountPerPack(q, k) \in 0..Len(q.buckets[k].collection)
             /\ n * q.buckets[k].count \in 0..MaxAlloc
  <2>1. PICK m \in Nat \ {0} :
               /\ m = q.buckets[k].count
               /\ n * m \in 0..Len(q.buckets[k].collection)
               /\ m \in 0..Len(q.buckets[k].collection)
               /\ Len(q.buckets[k].collection) \in 0..MaxAlloc
    BY <1>2
  <2>2. m \in 0..MaxInt /\ n * m \in 0..MaxAlloc
    BY <1>3, <2>1
  <2>3. CountPerPack(q, k) = m
    BY <2>1, <2>2, SignedSmall DEF CountPerPack
  <2> QED
    BY <2>1, <2>2, <2>3
<1> QED
  BY <1>1, <1>5, <1>6, <1>7 DEF Sane

(* What is meaningful passes the validation.                               *)
LEMMA MeaningfulIsValid ==
  ASSUME NEW q \in Requests, Meaningful(q)
  PROVE  Valid(q)
<1>1. ASSUME NEW k \in DOMAIN q.buckets
      PROVE  BucketValid(q, k) /\ LargeEnough(q, k)
  <2>1. PICK x \in 0..MaxAlloc : x = q.packCount * q.buckets[k].count
    BY MeaningfulFits
  <2>2. x <= Len(q.buckets[k].collection) /\ x \in 0..MaxInt
    BY <2>1, CreationAssumption DEF Meaningful
  <2>3. LargeEnough(q, k)
    BY <2>1, <2>2, SignedSmall DEF LargeEnough
  <2>4. PICK m \in Nat :
          /\ m = CountPerPack(q, k) /\ m = q.buckets[k].count /\ m > 0
          /\ m <= Len(q.buckets[k].collection)
    BY MeaningfulFits, RequestType DEF Sane
  <2>5. q.buckets[k].collection # <<>>
    BY <2>4, EmptySeq, RequestType
  <2> QED
    BY <2>3, <2>4, <2>5 DEF BucketValid
<1>2. q.packCount # 0
  BY CountType, CreationAssumption DEF Meaningful, UInt
<1> QED
  BY <1>1, <1>2 DEF Valid, Meaningful

(* All that a meaningful request asks for is drawn.                        *)
LEMMA MeaningfulPicks ==
  ASSUME NEW q \in Requests, Meaningful(q), NEW k \in DOMAIN q.buckets
  PROVE  /\ Picks(q, k) = 0..(PackCount(q) * CountPerPack(q, k) - 1)
         /\ PackCount(q) * CountPerPack(q, k) \in Nat
         /\ PackCount(q) * CountPerPack(q, k) <= Len(q.buckets[k].collection)
<1>1. PICK x \in 0..MaxAlloc : /\ x = q.packCount * q.buckets[k].count
                               /\ x = PackCount(q) * CountPerPack(q, k)
  BY MeaningfulFits
<1>2. x <= Len(q.buckets[k].collection) /\ x \in 0..MaxInt /\ x \in Nat
  BY <1>1, CreationAssumption DEF Meaningful
<1>3. Picks(q, k) = 0..(x - 1)
  BY <1>1, <1>2, SignedSmall DEF Picks
<1> QED
  BY <1>1, <1>2, <1>3

(* No index of a meaningful request is out of range.                       *)
LEMMA MeaningfulNoPanic ==
  ASSUME NEW q \in Requests, Meaningful(q)
  PROVE  ~Panics(q)
<1>1. Sane(q) /\ PackCount(q) \in 0..MaxAlloc
  BY MeaningfulFits, CreationAssumption
<1>2. PackSlotCount(q) \in 0..MaxAlloc
  BY <1>1, SlotsOfBuckets
<1>3. ASSUME NEW k \in DOMAIN q.buckets, NEW i \in Picks(q, k)
      PROVE  /\ i \in 0..(Len(q.buckets[k].collection) - 1)
             /\ SlotIndex(q, k, i) \in 0..(PackSlotCount(q) - 1)
  <2>1. i \in 0..(Len(q.buckets[k].collection) - 1)
    BY MeaningfulPicks, RequestType
  <2>2. SlotIndex(q, k, i) \in SlotsOfBucket(q, k)
    BY <1>1, PickGoesTo
  <2>3. PICK a \in Nat, b \in Int :
          a = SlotBase(q)[k - 1] /\ b = SlotBase(q)[k] /\ b <= PackSlotCount(q)
    BY <1>1, SlotsOfBuckets, RequestType DEF Sane
  <2>4. PackSlotCount(q) \in Int
    BY <1>2, CreationAssumption
  <2> QED
    BY <2>1, <2>2, <2>3, <2>4 DEF SlotsOfBucket
<1> QED
  BY <1>1, <1>2, <1>3 DEF Panics

(* Its packs have an entry in every slot.                                  *)
LEMMA MeaningfulFilled ==
  ASSUME NEW q \in Requests, Meaningful(q), AllDefined(q), NEW draw \in Draws(q),
         NEW p \in DOMAIN Distribute(q, draw)
  PROVE  PackValid(Distribute(q, draw)[p])
<1>1. Sane(q) /\ PackCount(q) \in 0..MaxAlloc /\ ~Panics(q)
  BY MeaningfulFits, MeaningfulNoPanic, CreationAssumption
<1>2. PICK n \in Nat, m \in Nat : n = PackCount(q) /\ m = PackSlotCount(q)
  BY <1>1, SlotsOfBuckets, CreationAssumption
<1>3. /\ p \in 1..n
      /\ Distribute(q, draw)[p] = [s \in 1..m |-> Collectible(q, draw, p - 1, s - 1)]
  BY <1>2 DEF Distribute
<1>4. ASSUME NEW s \in 1..m
      PROVE  Collectible(q, draw, p - 1, s - 1) # NoID
  <2> DEFINE W == PicksFor(q, p - 1, s - 1)
             last == CHOOSE w \in W : \A v \in W : v[1] <= w[1]
  <2>1. s - 1 \in 0..(m - 1) /\ p - 1 \in 0..(n - 1)
    BY <1>3
  <2>2. PICK k \in DOMAIN q.buckets : s - 1 \in SlotsOfBucket(q, k)
    BY <1>1, <1>2, <2>1, BucketOfSlot
  <2>3. PICK i \in Picks(q, k) : /\ PackIndex(q, i) = p - 1
                                 /\ SlotIndex(q, k, i) = s - 1
    BY <1>1, <1>2, <2>1, <2>2, MeaningfulPicks, PickOfSlot
  <2>4. <<k, i>> \in W
    BY <2>3 DEF PicksFor
  <2>5. \A w \in W : w[1] \in DOMAIN q.buckets /\ w[2] \in Picks(q, w[1])
    BY DEF PicksFor
  <2>6. Collectible(q, draw, p - 1, s - 1)
          = q.buckets[last[1]].collection[draw[last[1]][last[2]]]
    BY <2>4 DEF Collectible
  <2> HIDE DEF W
  <2>7. last \in W
    BY <1>1, <2>4, LastOfPicks DEF W
  <2> HIDE DEF last
  <2>8. draw[last[1]][last[2]] \in DOMAIN q.buckets[last[1]].collection
    BY <1>1, <2>5, <2>7, PickInRange
  <2> QED
    BY <2>5, <2>6, <2>7, <2>8 DEF AllDefined
<1>5. m >= 1
  <2>1. 1 \in DOMAIN q.buckets
    <3>1. Len(q.buckets) # 0
      BY CreationAssumption, EmptySeq, LenProperties DEF Meaningful
    <3> QED
      BY <3>1, RequestType
  <2>2. PICK a \in Nat, c \in Nat : /\ a = SlotBase(q)[1 - 1] /\ c > 0
                                    /\ a + c <= m
    <3>1. PICK c \in Nat : c = CountPerPack(q, 1) /\ c > 0
      BY <2>1, MeaningfulFits, RequestType DEF Sane
    <3>2. PICK a \in Nat : a = SlotBase(q)[1 - 1]
      BY <1>1, <2>1, SlotsOfBuckets
    <3>3. SlotBase(q)[1] = a + c /\ SlotBase(q)[1] <= m
      BY <1>1, <1>2, <2>1, <3>1, <3>2, SlotsOfBuckets
    <3> QED
      BY <3>1, <3>2, <3>3
  <2> QED
    BY <2>2
<1>6. Distribute(q, draw)[p] # <<>>
  <2>1. DOMAIN Distribute(q, draw)[p] = 1..m
    BY <1>3
  <2>2. 1 \in 1..m /\ DOMAIN <<>> = {}
    BY <1>5
  <2> QED
    BY <2>1, <2>2
<1> QED
  BY <1>3, <1>4, <1>6 DEF PackValid

(* What the answer to a request says of it.                                *)
AnswerOK(ph, q) ==
  /\ ph \in {"resolved", "broken", "created", "failed"} => Valid(q)
  /\ ph = "broken" => Panics(q)
  /\ ph = "refused" =>
       \/ ~Valid(q)
       \/ \E draw \in Draws(q) :
            \E p \in DOMAIN Distribute(q, draw) : ~PackValid(Distribute(q, draw)[p])

AnswersOK == \A c \in Clients : AnswerOK(phase[c], request[c])

(* Each step answers as the validation and the draw say.                   *)
LEMMA NextAnswers ==
  ASSUME CreationInv, AnswersOK, [Next]_vars
  PROVE  AnswersOK'
<1>1. ASSUME NEW c \in Clients, NEW ph, phase' = [phase EXCEPT ![c] = ph],
             UNCHANGED request, AnswerOK(ph, request[c])
      PROVE  AnswersOK'
  <2>1. ASSUME NEW e \in Clients PROVE AnswerOK(phase'[e], request'[e])
    <3>1. phase'[e] = IF e = c THEN ph ELSE phase[e]
      BY <1>1 DEF CreationInv
    <3> QED
      BY <1>1, <3>1 DEF AnswersOK
  <2> QED
    BY <2>1 DEF AnswersOK
<1>2. ASSUME NEW c \in Clients, Receive(c) PROVE AnswersOK'
  <2>1. UNCHANGED request
    BY <1>2 DEF Receive
  <2>2. \E ph : phase' = [phase EXCEPT ![c] = ph] /\ AnswerOK(ph, request[c])
    <3>1. CASE ~Valid(request[c]) /\ Answer(c, "refused")
      <4>1. AnswerOK("refused", request[c])
        BY <3>1 DEF AnswerOK
      <4> QED
        BY <3>1, <4>1 DEF Answer
    <3>2. CASE Valid(request[c]) /\ Panics(request[c]) /\ Answer(c, "broken")
      <4>1. AnswerOK("broken", request[c])
        BY <3>2 DEF AnswerOK
      <4> QED
        BY <3>2, <4>1 DEF Answer
    <3>3. CASE Valid(request[c]) /\ Answer(c, "resolved")
      <4>1. AnswerOK("resolved", request[c])
        BY <3>3 DEF AnswerOK
      <4> QED
        BY <3>3, <4>1 DEF Answer
    <3>4. CASE /\ Answer(c, "refused")
               /\ \E draw \in Draws(request[c]) :
                    \E p \in DOMAIN Distribute(request[c], draw) :
                      ~PackValid(Distribute(request[c], draw)[p])
      <4>1. AnswerOK("refused", request[c])
        BY <3>4 DEF AnswerOK
      <4> QED
        BY <3>4, <4>1 DEF Answer
    <3> QED
      BY <1>2, <3>1, <3>2, <3>3, <3>4 DEF Receive
  <2> QED
    BY <1>1, <2>1, <2>2
<1>3. ASSUME NEW c \in Clients, Commit(c) \/ InsertFails(c) PROVE AnswersOK'
  <2>1. phase[c] = "resolved" /\ UNCHANGED request
    BY <1>3 DEF Commit, InsertFails
  <2>2. \E ph \in {"created", "failed"} : phase' = [phase EXCEPT ![c] = ph]
    BY <1>3 DEF Commit, InsertFails, Answer
  <2>3. \A ph \in {"created", "failed"} : AnswerOK(ph, request[c])
    BY <2>1 DEF AnswersOK, AnswerOK
  <2> QED
    BY <1>1, <2>1, <2>2, <2>3
<1>4. CASE UNCHANGED <<phase, request>>
  BY <1>4 DEF AnswersOK
<1> QED
  BY <1>2, <1>3, <1>4 DEF Next, vars, InsertBatch

(* Whatever a request was answered, its validation and its draw say so.    *)
THEOREM AnswersTrue == Spec => []AnswersOK
<1>1. Init => AnswersOK
  BY DEF Init, AnswersOK, AnswerOK
<1> QED
  BY <1>1, NextAnswers, CreationInvariant, PTL DEF Spec

(* The service resolves exactly the requests whose collections suffice,    *)
(* although its own check may wrap: for every largest int, every number of *)
(* buckets and packs and all counts that are not negative as an int.       *)
THEOREM AcceptsExactlyMeaningful == Spec => []AcceptsExactly
<1>1. CreationInv /\ AnswersOK => AcceptsExactly
  <2> SUFFICES ASSUME CreationInv, AnswersOK, NEW c \in Clients,
                      NoNegativeCount(request[c])
               PROVE  /\ phase[c] \in {"resolved", "created", "failed"}
                           => Meaningful(request[c])
                      /\ phase[c] \in {"refused", "broken"} /\ AllDefined(request[c])
                           => ~Meaningful(request[c])
    BY DEF AcceptsExactly
  <2>1. PICK q \in Requests : q = request[c] /\ AnswerOK(phase[c], q)
    BY ClientAsBefore DEF AnswersOK
  <2>2. ASSUME phase[c] \in {"resolved", "created", "failed"}
        PROVE  Meaningful(q)
    <3>1. Valid(q) /\ Resolution(q, packs[c])
      BY <2>1, <2>2, ClientAsBefore DEF AnswerOK, Whole
    <3> QED
      BY <2>1, <3>1, ResolutionMeaningful
  <2>3. ASSUME phase[c] \in {"refused", "broken"}, AllDefined(q), Meaningful(q)
        PROVE  FALSE
    <3>1. Valid(q) /\ ~Panics(q)
      BY <2>3, MeaningfulIsValid, MeaningfulNoPanic
    <3> QED
      BY <2>1, <2>3, <3>1, MeaningfulFilled DEF AnswerOK
  <2> QED
    BY <2>1, <2>2, <2>3
<1> QED
  BY <1>1, AnswersTrue, CreationInvariant, PTL

(* Each slot of a stored pack holds a collectible of the bucket that the   *)
(* template has at this place.                                             *)
THEOREM StoredFollowsTemplate == Spec => []FollowsTemplate
<1>1. CreationInv /\ AnswersOK => FollowsTemplate
  <2> SUFFICES ASSUME CreationInv, AnswersOK, NEW c \in Clients,
                      NoNegativeCount(request[c]), NEW p \in DOMAIN stored[c],
                      NEW k \in DOMAIN request[c].buckets,
                      NEW s \in (SlotBase(request[c])[k - 1] + 1)
                                  ..SlotBase(request[c])[k]
               PROVE  \E i \in DOMAIN request[c].buckets[k].collection :
                        stored[c][p][s] = request[c].buckets[k].collection[i]
    BY DEF FollowsTemplate
  <2>1. phase[c] = "created" /\ stored[c] = packs[c] /\ request[c] \in Requests
    BY ClientAsBefore DEF Whole, NotStored
  <2>2. Resolution(request[c], stored[c]) /\ Valid(request[c])
    BY <2>1, ClientAsBefore DEF Whole, AnswersOK, AnswerOK
  <2>3. Sane(request[c])
    BY <2>1, <2>2, ValidIsSane
  <2> QED
    BY <2>1, <2>2, <2>3, ResolutionFollows
<1> QED
  BY <1>1, AnswersTrue, CreationInvariant, PTL

----------------------------------------------------------------------------
(* Counting the orders of a collection.                                    *)

(* Functions between finite sets are finitely many.                        *)
LEMMA FunctionsFinite ==
  ASSUME NEW S, NEW T, IsFiniteSet(S), IsFiniteSet(T)
  PROVE  IsFiniteSet([S -> T])
<1>1. IsFiniteSet(SUBSET (S \X T))
  BY FS_Product, FS_SUBSET
<1>2. PICK g : g = [f \in [S -> T] |-> {<<x, f[x]>> : x \in S}]
  OBVIOUS
<1>3. g \in [[S -> T] -> SUBSET (S \X T)]
  BY <1>2
<1>4. ASSUME NEW f1 \in [S -> T], NEW f2 \in [S -> T], g[f1] = g[f2]
      PROVE  f1 = f2
  <2>1. {<<x, f1[x]>> : x \in S} = {<<x, f2[x]>> : x \in S}
    BY <1>2, <1>4
  <2>2. ASSUME NEW x \in S PROVE f1[x] = f2[x]
    <3>1. <<x, f1[x]>> \in {<<y, f2[y]>> : y \in S}
      BY <2>1
    <3> QED
      BY <3>1
  <2> QED
    BY <2>2
<1>5. g \in Injection([S -> T], SUBSET (S \X T))
  BY <1>3, <1>4, Fun_IsInj
<1> QED
  BY <1>1, <1>5, FS_Injection

(* A set that is divided into parts of the same size is as large as all of *)
(* them together.                                                          *)
LEMMA EqualParts ==
  ASSUME NEW X, NEW A, IsFiniteSet(X), IsFiniteSet(A), NEW g \in [X -> A],
         NEW m \in Nat, \A a \in A : Cardinality({x \in X : g[x] = a}) = m
  PROVE  m * Cardinality(A) = Cardinality(X)
<1> DEFINE Over(B) == {x \in X : g[x] \in B}
           Bad == {n \in Nat : \E B \in SUBSET A :
                     Cardinality(B) = n /\ Cardinality(Over(B)) # m * n}
<1>1. ASSUME Bad # {} PROVE FALSE
  <2>1. PICK n \in Bad : \A x \in Bad : n <= x
    BY <1>1, SmallestExists
  <2>2. PICK B \in SUBSET A : Cardinality(B) = n /\ Cardinality(Over(B)) # m * n
    BY <2>1
  <2>3. IsFiniteSet(B) /\ n \in Nat
    BY FS_Subset, <2>1
  <2>4. CASE B = {}
    <3>1. Over(B) = {} /\ n = 0
      BY <2>2, <2>4, FS_EmptySet
    <3>2. Cardinality(Over(B)) = 0
      BY <3>1, FS_EmptySet
    <3>3. m * n = 0
      BY <3>1
    <3> QED
      BY <2>2, <3>2, <3>3
  <2>5. CASE B # {}
    <3>1. PICK b \in B : TRUE
      BY <2>5
    <3>2. PICK C : C = B \ {b}
      OBVIOUS
    <3>3. Cardinality(C) = n - 1 /\ C \in SUBSET A /\ n - 1 \in Nat
      <4>1. IsFiniteSet(C) /\ Cardinality(C) = n - 1
        BY <2>2, <2>3, <3>1, <3>2, FS_RemoveElement
      <4>2. Cardinality(C) \in Nat
        BY <4>1, FS_CardinalityType
      <4> QED
        BY <3>2, <4>1, <4>2
    <3>4. n - 1 \notin Bad
      <4>1. ~(n <= n - 1)
        BY <2>3
      <4> QED
        BY <2>1, <4>1
    <3>5. Cardinality(Over(C)) = m * (n - 1)
      BY <3>3, <3>4
    <3>6. PICK U, W : U = Over(C) /\ W = {x \in X : g[x] = b}
      OBVIOUS
    <3>7. Over(B) = U \cup W /\ U \cap W = {}
      BY <3>1, <3>2, <3>6
    <3>8. IsFiniteSet(U) /\ IsFiniteSet(W) /\ Cardinality(W) = m
      <4>1. U \in SUBSET X /\ W \in SUBSET X
        BY <3>6
      <4>2. b \in A
        BY <3>1
      <4> QED
        BY <3>6, <4>1, <4>2, FS_Subset
    <3>9. Cardinality(U \cap W) = 0
      BY <3>7, FS_EmptySet
    <3>10. Cardinality(U) = m * (n - 1)
      BY <3>5, <3>6
    <3>11. Cardinality(U \cup W) = m * (n - 1) + m - 0
      <4>1. Cardinality(U \cup W)
              = Cardinality(U) + Cardinality(W) - Cardinality(U \cap W)
        BY <3>8, FS_Union
      <4> QED
        BY <3>8, <3>9, <3>10, <4>1
    <3>12. m * (n - 1) + m - 0 = m * n
      BY <2>3
    <3>13. Cardinality(Over(B)) = m * n
      BY <3>7, <3>11, <3>12
    <3> QED
      BY <2>2, <3>13
  <2> QED
    BY <2>4, <2>5
<1>2. Cardinality(A) \in Nat /\ A \in SUBSET A
  BY FS_CardinalityType
<1>3. Cardinality(Over(A)) = m * Cardinality(A)
  BY <1>1, <1>2
<1>4. Over(A) = X
  OBVIOUS
<1> QED
  BY <1>3, <1>4

(* Two ways to choose different entries for the same places differ by a    *)
(* permutation of the entries.                                             *)
LEMMA PermutationBetween ==
  ASSUME NEW V, NEW T, IsFiniteSet(T),
         NEW f1 \in Injection(V, T), NEW f2 \in Injection(V, T)
  PROVE  \E sigma \in Injection(T, T) : \A v \in V : sigma[f1[v]] = f2[v]
<1> DEFINE R1 == Range(f1)
           R2 == Range(f2)
<1>1. /\ f1 \in [V -> T] /\ \A v, w \in V : f1[v] = f1[w] => v = w
      /\ f2 \in [V -> T] /\ \A v, w \in V : f2[v] = f2[w] => v = w
  BY Fun_InjectionProperties
<1>2. /\ R1 \in SUBSET T /\ \A v \in V : f1[v] \in R1
      /\ R2 \in SUBSET T /\ \A v \in V : f2[v] \in R2
      /\ \A t \in R1 : \E v \in V : f1[v] = t
  BY <1>1 DEF Range
<1>3. Cardinality(R1) = Cardinality(R2)
  <2>1. IsFiniteSet(V)
    BY FS_Injection
  <2>2. f1 \in Bijection(V, R1) /\ f2 \in Bijection(V, R2)
    BY Fun_InjMeansBijImage
  <2> QED
    BY <2>1, <2>2, FS_Bijection DEF ExistsBijection
<1> HIDE DEF R1, R2
<1>4. IsFiniteSet(R1) /\ IsFiniteSet(R2)
  BY <1>2, FS_Subset
<1>5. PICK b : b \in Bijection(T \ R1, T \ R2)
  <2>1. ASSUME NEW R \in SUBSET T
        PROVE  /\ IsFiniteSet(T \ R)
               /\ Cardinality(T \ R) = Cardinality(T) - Cardinality(R)
    <3>1. T \cap R = R
      OBVIOUS
    <3>2. Cardinality(T \ R) = Cardinality(T) - Cardinality(T \cap R)
      BY FS_Difference
    <3> QED
      BY <3>1, <3>2, FS_Difference
  <2>2. /\ IsFiniteSet(T \ R1) /\ IsFiniteSet(T \ R2)
        /\ Cardinality(T \ R1) = Cardinality(T) - Cardinality(R1)
        /\ Cardinality(T \ R2) = Cardinality(T) - Cardinality(R2)
    BY <1>2, <2>1
  <2> QED
    BY <1>3, <2>2, FS_SameCardinalityBij, Fun_ExistsBij
<1>6. /\ b \in [T \ R1 -> T \ R2]
      /\ \A x, y \in T \ R1 : b[x] = b[y] => x = y
  BY <1>5, Fun_BijectionProperties
<1>7. PICK at : \A t \in R1 : at[t] \in V /\ f1[at[t]] = t
  <2>1. PICK e : e = [t \in R1 |-> CHOOSE v \in V : f1[v] = t]
    OBVIOUS
  <2>2. \A t \in R1 : e[t] \in V /\ f1[e[t]] = t
    BY <1>2, <2>1
  <2> QED
    BY <2>2
<1>8. PICK sigma : sigma = [t \in T |-> IF t \in R1 THEN f2[at[t]] ELSE b[t]]
  OBVIOUS
<1>9. ASSUME NEW x \in T, NEW y \in T, sigma[x] = sigma[y]
      PROVE  x = y
  <2>1. CASE x \in R1 /\ y \in R1
    BY <1>1, <1>7, <1>8, <1>9, <2>1
  <2>2. CASE x \notin R1 /\ y \notin R1
    BY <1>6, <1>8, <1>9, <2>2
  <2>3. \A t \in T : t \in R1 <=> sigma[t] \in R2
    BY <1>2, <1>6, <1>7, <1>8
  <2> QED
    BY <1>9, <2>1, <2>2, <2>3
<1>10. sigma \in [T -> T]
  <2>1. \A t \in T : sigma[t] \in T
    BY <1>1, <1>6, <1>7, <1>8
  <2> QED
    BY <1>8, <2>1
<1>11. sigma \in Injection(T, T)
  BY <1>9, <1>10, Fun_IsInj
<1>12. \A v \in V : sigma[f1[v]] = f2[v]
  <2>1. ASSUME NEW v \in V PROVE sigma[f1[v]] = f2[v]
    <3>1. f1[v] \in R1 /\ f1[v] \in T
      BY <1>1, <1>2
    <3>2. at[f1[v]] = v
      BY <1>1, <1>7, <3>1
    <3> QED
      BY <1>8, <3>1, <3>2
  <2> QED
    BY <2>1
<1> QED
  BY <1>11, <1>12

(* The orders whose indexes at the positions I are those that f gives to   *)
(* the places h of the positions.                                          *)
Fibre(n, I, h, f) == {perm \in Orders(n) : \A i \in I : f[h[i]] = perm[i]}

(* A collection has finitely many orders.                                  *)
LEMMA OrdersFinite ==
  ASSUME NEW n \in Nat
  PROVE  IsFiniteSet(Orders(n))
<1>1. IsFiniteSet(0..(n - 1)) /\ IsFiniteSet(1..n)
  BY FS_Interval
<1>2. IsFiniteSet(Indexes(n)) /\ Orders(n) \in SUBSET Indexes(n)
  BY <1>1, FunctionsFinite DEF Indexes, Orders
<1> QED
  BY <1>2, FS_Subset

(* An order that agrees with one assignment becomes one that agrees with   *)
(* another when the entries are renamed, and two orders stay different.    *)
LEMMA FibresAsLarge ==
  ASSUME NEW n \in Nat, NEW I \in SUBSET (0..(n - 1)), NEW V,
         NEW h \in Bijection(I, V),
         NEW f1 \in Injection(V, 1..n), NEW f2 \in Injection(V, 1..n)
  PROVE  Cardinality(Fibre(n, I, h, f1)) <= Cardinality(Fibre(n, I, h, f2))
<1> DEFINE F1 == Fibre(n, I, h, f1)
           F2 == Fibre(n, I, h, f2)
<1>1. IsFiniteSet(1..n)
  BY FS_Interval
<1>2. PICK sigma \in Injection(1..n, 1..n) : \A v \in V : sigma[f1[v]] = f2[v]
  BY <1>1, PermutationBetween
<1>3. /\ sigma \in [1..n -> 1..n]
      /\ \A x, y \in 1..n : sigma[x] = sigma[y] => x = y
  BY Fun_InjectionProperties
<1>4. \A i \in I : h[i] \in V
  BY Fun_BijectionProperties
<1> DEFINE Renamed(perm) == [j \in 0..(n - 1) |-> sigma[perm[j]]]
<1>5. ASSUME NEW perm \in F1 PROVE Renamed(perm) \in F2
  <2>1. /\ perm \in [0..(n - 1) -> 1..n]
        /\ \A i, j \in 0..(n - 1) : perm[i] = perm[j] => i = j
        /\ \A i \in I : f1[h[i]] = perm[i]
    BY DEF Fibre, Orders, Indexes
  <2>2. Renamed(perm) \in [0..(n - 1) -> 1..n]
    BY <1>3, <2>1
  <2>3. ASSUME NEW i \in 0..(n - 1), NEW j \in 0..(n - 1),
               Renamed(perm)[i] = Renamed(perm)[j]
        PROVE  i = j
    <3>1. sigma[perm[i]] = sigma[perm[j]]
      BY <2>3
    <3>2. perm[i] \in 1..n /\ perm[j] \in 1..n
      BY <2>1
    <3> QED
      BY <1>3, <2>1, <3>1, <3>2
  <2>4. ASSUME NEW i \in I PROVE f2[h[i]] = Renamed(perm)[i]
    BY <1>2, <1>4, <2>1
  <2> HIDE DEF Renamed
  <2> QED
    BY <2>2, <2>3, <2>4 DEF Fibre, Orders, Indexes
<1>6. ASSUME NEW p1 \in F1, NEW p2 \in F1, Renamed(p1) = Renamed(p2)
      PROVE  p1 = p2
  <2>1. p1 \in [0..(n - 1) -> 1..n] /\ p2 \in [0..(n - 1) -> 1..n]
    BY DEF Fibre, Orders, Indexes
  <2>2. ASSUME NEW j \in 0..(n - 1) PROVE p1[j] = p2[j]
    <3>1. Renamed(p1)[j] = sigma[p1[j]] /\ Renamed(p2)[j] = sigma[p2[j]]
      OBVIOUS
    <3>2. p1[j] \in 1..n /\ p2[j] \in 1..n
      BY <2>1
    <3> QED
      BY <1>3, <1>6, <3>1, <3>2
  <2> QED
    BY <2>1, <2>2
<1>7. IsFiniteSet(F2)
  <2>1. F2 \in SUBSET Orders(n)
    BY DEF Fibre
  <2> QED
    BY <2>1, OrdersFinite, FS_Subset
<1> HIDE DEF F1, F2, Renamed
<1>8. PICK g : g = [perm \in F1 |-> Renamed(perm)]
  OBVIOUS
<1>9. g \in Injection(F1, F2)
  BY <1>5, <1>6, <1>8, Fun_IsInj
<1>10. Cardinality(F1) <= Cardinality(F2)
  BY <1>7, <1>9, FS_Injection
<1> QED
  BY <1>10 DEF F1, F2

(* Each assignment comes from the same share of the orders.                *)
LEMMA FairCount ==
  ASSUME NEW n \in Nat, NEW I \in SUBSET (0..(n - 1)), NEW V,
         NEW h \in Bijection(I, V), NEW f \in Injection(V, 1..n)
  PROVE  Cardinality(Fibre(n, I, h, f)) * Cardinality(Injection(V, 1..n))
           = Cardinality(Orders(n))
<1> DEFINE A == Injection(V, 1..n)
           X == Orders(n)
           m == Cardinality(Fibre(n, I, h, f))
<1>1. IsFiniteSet(1..n)
  BY FS_Interval
<1>2. IsFiniteSet(A)
  <2>1. IsFiniteSet(V)
    BY <1>1, FS_Injection
  <2>2. A \in SUBSET [V -> 1..n]
    BY Fun_InjectionProperties
  <2> QED
    BY <1>1, <2>1, <2>2, FunctionsFinite, FS_Subset
<1>3. IsFiniteSet(X)
  BY OrdersFinite
<1>4. \A a \in A : Cardinality(Fibre(n, I, h, a)) \in Nat
  <2>1. ASSUME NEW a \in A PROVE Cardinality(Fibre(n, I, h, a)) \in Nat
    <3>1. Fibre(n, I, h, a) \in SUBSET X
      BY DEF Fibre
    <3> QED
      BY <1>3, <3>1, FS_Subset, FS_CardinalityType
  <2> QED
    BY <2>1
<1>5. /\ \A i \in I : h[i] \in V
      /\ \A i, j \in I : h[i] = h[j] => i = j
      /\ \A v \in V : \E i \in I : h[i] = v
  <2>1. /\ h \in [I -> V] /\ h \in Surjection(I, V)
        /\ \A i, j \in I : h[i] = h[j] => i = j
    BY Fun_BijectionProperties
  <2>2. \A v \in V : \E i \in I : h[i] = v
    BY <2>1, Fun_SurjectionProperties
  <2> QED
    BY <2>1, <2>2
<1>6. PICK at : \A v \in V : at[v] \in I /\ h[at[v]] = v
  <2>1. PICK e : e = [v \in V |-> CHOOSE i \in I : h[i] = v]
    OBVIOUS
  <2>2. \A v \in V : e[v] \in I /\ h[e[v]] = v
    BY <1>5, <2>1
  <2> QED
    BY <2>2
<1> DEFINE Given(perm) == [v \in V |-> perm[at[v]]]
<1>7. ASSUME NEW perm \in X PROVE Given(perm) \in A
  <2>1. /\ perm \in [0..(n - 1) -> 1..n]
        /\ \A i, j \in 0..(n - 1) : perm[i] = perm[j] => i = j
    BY DEF Orders, Indexes
  <2>2. \A v \in V : at[v] \in 0..(n - 1)
    BY <1>6
  <2>3. Given(perm) \in [V -> 1..n]
    BY <2>1, <2>2
  <2>4. ASSUME NEW v \in V, NEW w \in V, Given(perm)[v] = Given(perm)[w]
        PROVE  v = w
    <3>1. perm[at[v]] = perm[at[w]]
      BY <2>4
    <3>2. at[v] = at[w]
      BY <2>1, <2>2, <3>1
    <3> QED
      BY <1>6, <3>2
  <2> HIDE DEF Given
  <2> QED
    BY <2>3, <2>4, Fun_IsInj
<1>8. ASSUME NEW a \in A, NEW perm \in X
      PROVE  Given(perm) = a <=> \A i \in I : a[h[i]] = perm[i]
  <2>1. a \in [V -> 1..n]
    BY Fun_InjectionProperties
  <2>2. ASSUME Given(perm) = a, NEW i \in I PROVE a[h[i]] = perm[i]
    <3>1. h[i] \in V /\ at[h[i]] = i
      BY <1>5, <1>6
    <3>2. Given(perm)[h[i]] = perm[at[h[i]]]
      BY <3>1
    <3> QED
      BY <2>2, <3>1, <3>2
  <2>3. ASSUME \A i \in I : a[h[i]] = perm[i] PROVE Given(perm) = a
    <3>1. \A v \in V : a[v] = perm[at[v]]
      BY <1>6, <2>3
    <3> QED
      BY <2>1, <3>1
  <2> QED
    BY <2>2, <2>3
<1> HIDE DEF Given, A, X
<1>9. PICK g : g = [perm \in X |-> Given(perm)]
  OBVIOUS
<1>10. g \in [X -> A]
  BY <1>7, <1>9
<1>11. ASSUME NEW a \in A PROVE Cardinality({x \in X : g[x] = a}) = m
  <2>1. {x \in X : g[x] = a} = {x \in X : \A i \in I : a[h[i]] = x[i]}
    BY <1>8, <1>9
  <2>2. {x \in X : g[x] = a} = Fibre(n, I, h, a)
    BY <2>1 DEF Fibre, X
  <2>3. a \in Injection(V, 1..n) /\ f \in A
    BY DEF A
  <2>4. /\ Cardinality(Fibre(n, I, h, a)) <= Cardinality(Fibre(n, I, h, f))
        /\ Cardinality(Fibre(n, I, h, f)) <= Cardinality(Fibre(n, I, h, a))
    BY <2>3, FibresAsLarge
  <2>5. /\ Cardinality(Fibre(n, I, h, a)) \in Nat
        /\ Cardinality(Fibre(n, I, h, f)) \in Nat
    BY <1>4, <2>3
  <2> QED
    BY <2>2, <2>4, <2>5
<1>12. m \in Nat
  <2>1. f \in A
    BY DEF A
  <2> QED
    BY <1>4, <2>1
<1> HIDE DEF m
<1>13. m * Cardinality(A) = Cardinality(X)
  BY <1>2, <1>3, <1>10, <1>11, <1>12, EqualParts
<1> QED
  BY <1>13 DEF m, A, X

(* Row and pack of a pick determine it.                                    *)
LEMMA RowAndPack ==
  ASSUME NEW n \in Nat \ {0}, NEW i \in Nat, NEW j \in Nat,
         i \div n = j \div n, i % n = j % n
  PROVE  i = j
<1>1. i = n * (i \div n) + (i % n)
  BY Z3
<1>2. j = n * (j \div n) + (j % n)
  BY Z3
<1> QED
  BY <1>1, <1>2

(* The picks of a bucket go to its slots, each to one and one to each.     *)
LEMMA PicksFillSlots ==
  ASSUME NEW q \in Requests, Sane(q), PackCount(q) \in 0..MaxAlloc,
         NEW k \in DOMAIN q.buckets,
         Picks(q, k) = 0..(PackCount(q) * CountPerPack(q, k) - 1)
  PROVE  [i \in Picks(q, k) |-> <<PackIndex(q, i), SlotIndex(q, k, i)>>]
           \in Bijection(Picks(q, k), Slots(q, k))
<1> DEFINE I == Picks(q, k)
           V == Slots(q, k)
<1>1. PICK n \in Nat : n = PackCount(q)
  BY CreationAssumption
<1>2. PICK b \in Nat : b = SlotBase(q)[k - 1]
  BY SlotsOfBuckets
<1>3. V = (0..(n - 1)) \X SlotsOfBucket(q, k)
  BY <1>1 DEF Slots, SlotsOfBucket
<1>4. \A i \in I : i \in Nat /\ n # 0
  <2>1. ASSUME NEW i \in I PROVE i \in Nat /\ n # 0
    <3>1. i \in Nat
      BY DrawnFromBucket
    <3>2. PackIndex(q, i) \in 0..(n - 1)
      BY <1>1, PickGoesTo
    <3> QED
      BY <3>1, <3>2
  <2> QED
    BY <2>1
<1>5. PICK h : h = [i \in I |-> <<PackIndex(q, i), SlotIndex(q, k, i)>>]
  OBVIOUS
<1>6. h \in [I -> V]
  <2>1. ASSUME NEW i \in I PROVE h[i] \in V
    <3>1. /\ PackIndex(q, i) \in 0..(n - 1)
          /\ SlotIndex(q, k, i) \in SlotsOfBucket(q, k)
      BY <1>1, PickGoesTo
    <3> QED
      BY <1>3, <1>5, <3>1
  <2> HIDE DEF I, V
  <2> QED
    BY <1>5, <2>1
<1>7. ASSUME NEW i \in I, NEW j \in I, h[i] = h[j]
      PROVE  i = j
  <2>1. PackIndex(q, i) = PackIndex(q, j) /\ SlotIndex(q, k, i) = SlotIndex(q, k, j)
    BY <1>5, <1>7
  <2>2. n \in Nat \ {0} /\ i \in Nat /\ j \in Nat
    BY <1>4
  <2>3. i % n = j % n /\ (i \div n) + b = (j \div n) + b
    BY <1>1, <1>2, <2>1 DEF PackIndex, SlotIndex
  <2>4. i % n = j % n /\ i \div n = j \div n
    BY <2>2, <2>3
  <2> QED
    BY <2>2, <2>4, RowAndPack
<1>8. ASSUME NEW v \in V PROVE \E i \in I : h[i] = v
  <2>1. PICK p \in 0..(n - 1) : \E s \in SlotsOfBucket(q, k) : v = <<p, s>>
    BY <1>3
  <2>2. PICK s \in SlotsOfBucket(q, k) : v = <<p, s>>
    BY <2>1
  <2>3. PICK i \in I : PackIndex(q, i) = p /\ SlotIndex(q, k, i) = s
    BY <1>1, PickOfSlot
  <2> QED
    BY <1>5, <2>2, <2>3
<1>9. h \in Bijection(I, V)
  BY <1>6, <1>7, <1>8, Fun_IsBij
<1> QED
  BY <1>5, <1>9

(* The draw is fair, for every collection, every number of packs and every *)
(* count: each way to give different entries of a collection to the slots  *)
(* of its bucket comes from the same number of orders.                     *)
THEOREM DrawIsFair == Spec => []FairDraw
<1>1. CreationInv /\ AnswersOK => FairDraw
  <2> SUFFICES ASSUME CreationInv, AnswersOK, NEW c \in Clients,
                      phase[c] = "resolved", NoNegativeCount(request[c]),
                      NEW q, q = request[c], NEW k \in DOMAIN q.buckets,
                      NEW f \in Assignments(q, k)
               PROVE  LET P == Orders(Len(q.buckets[k].collection)) IN
                        Cardinality({perm \in P : Gives(q, k, perm, f)})
                            * Cardinality(Assignments(q, k))
                          = Cardinality(P)
    BY DEF FairDraw
  <2>1. q \in Requests /\ Valid(q) /\ Resolution(q, packs[c])
    BY ClientAsBefore DEF AnswersOK, AnswerOK, Whole
  <2>2. Meaningful(q)
    BY <2>1, ResolutionMeaningful
  <2>3. Sane(q) /\ PackCount(q) \in 0..MaxAlloc
    BY <2>1, <2>2, MeaningfulFits, CreationAssumption
  <2>4. PICK n \in Nat : n = Len(q.buckets[k].collection)
    BY <2>1, RequestType
  <2>5. PICK x \in Nat : x = PackCount(q) * CountPerPack(q, k) /\ x <= n
    BY <2>1, <2>2, <2>4, MeaningfulPicks
  <2>6. Picks(q, k) = 0..(x - 1) /\ Picks(q, k) \in SUBSET (0..(n - 1))
    <3>1. Picks(q, k) = 0..(x - 1)
      BY <2>1, <2>2, <2>5, MeaningfulPicks
    <3> QED
      BY <2>5, <3>1
  <2>7. PICK h : h = [i \in Picks(q, k) |-> <<PackIndex(q, i), SlotIndex(q, k, i)>>]
    OBVIOUS
  <2>8. h \in Bijection(Picks(q, k), Slots(q, k))
    BY <2>1, <2>3, <2>5, <2>6, <2>7, PicksFillSlots
  <2>9. Assignments(q, k) = Injection(Slots(q, k), 1..n)
    <3>1. DOMAIN q.buckets[k].collection = 1..n
      BY <2>1, <2>4, RequestType
    <3> QED
      BY <3>1, Fun_IsInj, Fun_InjectionProperties DEF Assignments
  <2>10. {perm \in Orders(n) : Gives(q, k, perm, f)} = Fibre(n, Picks(q, k), h, f)
    BY <2>7 DEF Gives, Fibre
  <2>11. Cardinality(Fibre(n, Picks(q, k), h, f)) * Cardinality(Injection(Slots(q, k), 1..n))
           = Cardinality(Orders(n))
    BY <2>6, <2>8, <2>9, FairCount
  <2> QED
    BY <2>4, <2>9, <2>10, <2>11
<1> QED
  BY <1>1, AnswersTrue, CreationInvariant, PTL

=============================================================================
