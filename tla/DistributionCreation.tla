------------------------- MODULE DistributionCreation -------------------------
(***************************************************************************)
(* A request to create a distribution: its validation, the random draw of  *)
(* collectibles from the buckets into packs, and the database transaction  *)
(* that stores the packs.                                                  *)
(*                                                                         *)
(* The numbers of a request are unsigned and of the width of the machine,  *)
(* and some of them are converted to signed ones: arithmetic wraps.  What  *)
(* a wrapped number leads to, an index or a length that is out of range,   *)
(* is a panic that ends the request.                                       *)
(***************************************************************************)
EXTENDS Integers, Sequences, FiniteSets

CONSTANTS
  Clients,         \* the clients of the HTTP API, each with one request
  Requests,        \* what a client may send
  Admin,           \* the account of the service
  NoID,            \* FlowID{Valid: false}, in JSON null
  MaxInt,          \* the largest int, half of the largest uint
  MaxAlloc,        \* the longest slice that can be allocated
  BatchInsertSize

IDs == UNION {UNION {{q.buckets[k].collection[i] :
                        i \in DOMAIN q.buckets[k].collection} :
                       k \in DOMAIN q.buckets} : q \in Requests}

UInt == 0..(2 * MaxInt + 1)

(* The entries of the collections of a request.                            *)
Places(q) ==
  UNION {{<<k, i>> : i \in DOMAIN q.buckets[k].collection} : k \in DOMAIN q.buckets}

(* A slice that can be allocated is far shorter than the largest int: what *)
(* is drawn from a collection for each pack of a slice of packs can be     *)
(* counted.                                                                *)
ASSUME CreationAssumption ==
  /\ MaxInt \in Nat /\ MaxAlloc \in 0..MaxInt
  /\ BatchInsertSize \in Nat \ {0}
  /\ \A q \in Requests :
       /\ q.packCount \in UInt
       /\ q.buckets \in Seq([count : UInt, collection : Seq(IDs)])
       /\ \A k \in DOMAIN q.buckets :
            MaxAlloc * Len(q.buckets[k].collection) \in UInt

(* A service that has received the collections of a request can allocate   *)
(* a slice of as many entries.                                             *)
ASSUME RequestsFit ==
  \A q \in Requests : Cardinality(Places(q)) <= MaxAlloc

VARIABLES
  phase,    \* phase[c]: how far the request of c is, and its answer
  request,  \* request[c]: what c sends
  packs,    \* packs[c]: the packs that the draw has filled
  written,  \* written[c]: how many packs the open transaction has inserted
  stored    \* stored[c]: the packs that are committed with the distribution

vars == <<phase, request, packs, written, stored>>

NotStored == <<>>

----------------------------------------------------------------------------
(* Numbers.                                                                *)

(* int(n), and the sum or product n of two ints.                           *)
Signed(n) == ((n + MaxInt + 1) % (2 * MaxInt + 2)) - (MaxInt + 1)

PackCount(q) == Signed(q.packCount)

CountPerPack(q, k) == Signed(q.buckets[k].count)

(* The slots before those of bucket k + 1.                                 *)
SlotBase(q) ==
  LET sum[k \in 0..Len(q.buckets)] ==
        IF k = 0 THEN 0 ELSE Signed(sum[k - 1] + CountPerPack(q, k))
  IN sum

PackSlotCount(q) == SlotBase(q)[Len(q.buckets)]

----------------------------------------------------------------------------
(* Validation.                                                             *)

(* Bucket.Validate.                                                        *)
BucketValid(q, k) ==
  /\ q.buckets[k].count # 0
  /\ q.buckets[k].collection # <<>>
  /\ CountPerPack(q, k) <= Len(q.buckets[k].collection)

\* Mutant: a collection has to be larger than what is drawn from it.
LargerThanRequired(q, k) ==
  Signed(q.packCount * q.buckets[k].count) < Len(q.buckets[k].collection)

LargeEnough(q, k) ==
  Signed(q.packCount * q.buckets[k].count) <= Len(q.buckets[k].collection)

(* CreateDistribution and Distribution.Validate.  Ids and references are   *)
(* either all defined or not.                                              *)
Valid(q) ==
  /\ q.issuer # Admin
  /\ q.defined
  /\ q.packCount # 0
  /\ q.buckets # <<>>
  /\ \A k \in DOMAIN q.buckets : BucketValid(q, k) /\ LargeEnough(q, k)

----------------------------------------------------------------------------
(* Resolve.                                                                *)

(* Rand.Perm: the indexes of a collection, and the order they are used in. *)
Indexes(n) == [0..(n - 1) -> 1..n]

\* Mutant: the order starts anywhere but is always the same.
Rotations(n) == {[i \in 0..(n - 1) |-> ((i + j) % n) + 1] : j \in 0..(n - 1)}

Orders(n) ==
  {f \in Indexes(n) : \A i, j \in DOMAIN f : f[i] = f[j] => i = j}

Draws(q) ==
  {draw \in [DOMAIN q.buckets ->
               UNION {Orders(Len(q.buckets[k].collection)) :
                        k \in DOMAIN q.buckets}] :
     \A k \in DOMAIN q.buckets :
       draw[k] \in Orders(Len(q.buckets[k].collection))}

(* The passes of the loop over bucket k.                                   *)
Picks(q, k) == 0..(Signed(PackCount(q) * CountPerPack(q, k)) - 1)

PackIndex(q, i) == i % PackCount(q)

\* Mutant: the slots of the last bucket come first.
SlotIndexFromEnd(q, k, i) ==
  (i \div PackCount(q)) + PackSlotCount(q) - SlotBase(q)[k]

SlotIndex(q, k, i) == (i \div PackCount(q)) + SlotBase(q)[k - 1]

Panics(q) ==
  \/ PackCount(q) \notin 0..MaxAlloc
  \/ PackSlotCount(q) \notin 0..MaxAlloc
  \/ \E k \in DOMAIN q.buckets : \E i \in Picks(q, k) :
       \/ i \notin 0..(Len(q.buckets[k].collection) - 1)
       \/ SlotIndex(q, k, i) \notin 0..(PackSlotCount(q) - 1)

(* The picks that go to a slot; the one of the last bucket stays there.    *)
PicksFor(q, p, s) ==
  {w \in UNION {{k} \X Picks(q, k) : k \in DOMAIN q.buckets} :
     PackIndex(q, w[2]) = p /\ SlotIndex(q, w[1], w[2]) = s}

Collectible(q, draw, p, s) ==
  LET W == PicksFor(q, p, s)
      last == CHOOSE w \in W : \A v \in W : v[1] <= w[1]
  IN IF W = {} THEN NoID
               ELSE q.buckets[last[1]].collection[draw[last[1]][last[2]]]

Distribute(q, draw) ==
  [p \in 1..PackCount(q) |->
     [s \in 1..PackSlotCount(q) |-> Collectible(q, draw, p - 1, s - 1)]]

\* Mutant: a slot without a collectible is accepted.
HasSlots(contents) == contents # <<>>

(* Pack.Validate.                                                          *)
PackValid(contents) ==
  contents # <<>> /\ \A s \in DOMAIN contents : contents[s] # NoID

----------------------------------------------------------------------------
(* The request.                                                            *)

Answer(c, a) == phase' = [phase EXCEPT ![c] = a]

Receive(c) ==
  LET q == request[c] IN
  /\ phase[c] = "idle"
  /\ UNCHANGED <<request, written, stored>>
  /\ \/ ~Valid(q) /\ Answer(c, "refused") /\ UNCHANGED packs
     \/ Valid(q) /\ Panics(q) /\ Answer(c, "broken") /\ UNCHANGED packs
     \/ /\ Valid(q) /\ ~Panics(q)
        /\ \E draw \in Draws(q) :
             LET P == Distribute(q, draw) IN
             IF \A p \in DOMAIN P : PackValid(P[p])
             THEN Answer(c, "resolved") /\ packs' = [packs EXCEPT ![c] = P]
             ELSE Answer(c, "refused") /\ UNCHANGED packs

\* Mutant: every batch is committed.
StoredBatch(c) == [stored EXCEPT ![c] = SubSeq(packs[c], 1, written'[c])]

(* Nothing of an open transaction is seen by others.                       *)
StoredInTransaction(c) == stored

(* InsertDistribution: the row and the buckets of the distribution, its    *)
(* packs in batches, and the commit.                                       *)
InsertBatch(c) ==
  /\ phase[c] = "resolved"
  /\ written[c] < Len(packs[c])
  /\ written' = [written EXCEPT ![c] =
       IF @ + BatchInsertSize < Len(packs[c]) THEN @ + BatchInsertSize
                                              ELSE Len(packs[c])]
  /\ stored' = StoredInTransaction(c)
  /\ UNCHANGED <<phase, request, packs>>

Commit(c) ==
  /\ phase[c] = "resolved"
  /\ written[c] = Len(packs[c])
  /\ stored' = [stored EXCEPT ![c] = packs[c]]
  /\ Answer(c, "created")
  /\ UNCHANGED <<request, packs, written>>

(* An error of the database, or a commit that fails: all is rolled back.   *)
InsertFails(c) ==
  /\ phase[c] = "resolved"
  /\ Answer(c, "failed")
  /\ UNCHANGED <<request, packs, written, stored>>

Init ==
  /\ phase = [c \in Clients |-> "idle"]
  /\ request \in [Clients -> Requests]
  /\ packs = [c \in Clients |-> <<>>]
  /\ written = [c \in Clients |-> 0]
  /\ stored = [c \in Clients |-> NotStored]

Next ==
  \E c \in Clients :
    \/ Receive(c)
    \/ InsertBatch(c)
    \/ Commit(c)
    \/ InsertFails(c)

Spec == Init /\ [][Next]_vars

----------------------------------------------------------------------------
(* Properties.                                                             *)

CreationTypeOK ==
  /\ phase \in [Clients -> {"idle", "resolved", "refused", "broken",
                            "created", "failed"}]
  /\ request \in [Clients -> Requests]
  /\ packs \in [Clients -> Seq(Seq(IDs \ {NoID}))]
  /\ \A c \in Clients : written[c] \in 0..Len(packs[c])
  /\ stored \in [Clients -> Seq(Seq(IDs \ {NoID}))]

(* What others read of a distribution is all of it, each pack with all of  *)
(* its slots, or nothing; and nothing is there of a request that was       *)
(* refused, that failed, or that has ended in a panic.                     *)
AllOrNothing ==
  \A c \in Clients :
    IF phase[c] = "created"
    THEN /\ Len(stored[c]) = PackCount(request[c])
         /\ \A p \in DOMAIN stored[c] :
              Len(stored[c][p]) = PackSlotCount(request[c])
    ELSE stored[c] = NotStored

(* The collections of a template have no entry twice.                      *)
Distinct(q) ==
  \A v, w \in Places(q) :
    q.buckets[v[1]].collection[v[2]] = q.buckets[w[1]].collection[w[2]] => v = w

(* A collectible that is listed once is in one slot of one pack.           *)
EachOnce ==
  \A c \in Clients :
    Distinct(request[c]) =>
      \A p1, p2 \in DOMAIN stored[c] :
        \A s1 \in DOMAIN stored[c][p1], s2 \in DOMAIN stored[c][p2] :
          stored[c][p1][s1] = stored[c][p2][s2] => p1 = p2 /\ s1 = s2

(* What a template means, without widths.                                  *)
Meaningful(q) ==
  /\ q.issuer # Admin /\ q.defined
  /\ q.packCount > 0 /\ q.buckets # <<>>
  /\ \A k \in DOMAIN q.buckets :
       /\ q.buckets[k].count > 0
       /\ q.packCount * q.buckets[k].count <= Len(q.buckets[k].collection)

AllDefined(q) ==
  \A k \in DOMAIN q.buckets :
    \A i \in DOMAIN q.buckets[k].collection : q.buckets[k].collection[i] # NoID

NoNegativeCount(q) == \A k \in DOMAIN q.buckets : CountPerPack(q, k) >= 0

(* The service resolves exactly the templates whose collections suffice,   *)
(* although the check of it may wrap: an enormous number of packs passes   *)
(* the check and cannot be allocated.  The exception are counts that are   *)
(* negative as an int, which cancel each other.                            *)
AcceptsExactly ==
  \A c \in Clients : NoNegativeCount(request[c]) =>
    /\ phase[c] \in {"resolved", "created", "failed"} => Meaningful(request[c])
    /\ phase[c] \in {"refused", "broken"} /\ AllDefined(request[c])
         => ~Meaningful(request[c])

(* A stored pack has, for each bucket and in the order of the buckets, as  *)
(* many collectibles as the template says.                                 *)
FollowsTemplate ==
  \A c \in Clients : NoNegativeCount(request[c]) =>
    \A p \in DOMAIN stored[c] : \A k \in DOMAIN request[c].buckets :
      \A s \in (SlotBase(request[c])[k - 1] + 1)..SlotBase(request[c])[k] :
        \E i \in DOMAIN request[c].buckets[k].collection :
          stored[c][p][s] = request[c].buckets[k].collection[i]

(* The draw is fair: each way to give out entries of a collection to the   *)
(* slots of its bucket comes from the same number of permutations.         *)
Slots(q, k) ==
  (0..(PackCount(q) - 1)) \X (SlotBase(q)[k - 1]..(SlotBase(q)[k] - 1))

Assignments(q, k) ==
  {f \in [Slots(q, k) -> DOMAIN q.buckets[k].collection] :
     \A v, w \in Slots(q, k) : f[v] = f[w] => v = w}

Gives(q, k, perm, f) ==
  \A i \in Picks(q, k) : f[<<PackIndex(q, i), SlotIndex(q, k, i)>>] = perm[i]

FairDraw ==
  \A c \in Clients :
    phase[c] = "resolved" /\ NoNegativeCount(request[c]) =>
      \A k \in DOMAIN request[c].buckets :
        LET q == request[c]
            P == Orders(Len(q.buckets[k].collection))
            A == Assignments(q, k)
        IN \A f \in A :
             Cardinality({perm \in P : Gives(q, k, perm, f)}) * Cardinality(A)
               = Cardinality(P)

=============================================================================
