------------------------------ MODULE PDSService ------------------------------
(***************************************************************************)
(* The Pack Distribution Service on its chain: the HTTP API, the handlers  *)
(* of the poller, the transactions they leave in the queue, and what       *)
(* owners and issuers do on the chain meanwhile.                           *)
(*                                                                         *)
(* The poller runs its handlers one after the other, once a second; they   *)
(* are separate actions here, taken in any order, with blocks and requests *)
(* between any two.  The queue is abstracted: a pending transaction is     *)
(* executed once, in any order, or is lost if Lossy holds (it failed for a *)
(* reason outside of the model; the service never sends it again).         *)
(***************************************************************************)
EXTENDS DistributionWorkflow, CirculatingPacks

CONSTANTS
  Abortable,     \* distributions that someone may abort
  Moves,         \* the <<collectible, from, to>> that accounts may send
  Sales,         \* the <<from, to>> that accounts may transfer packs
  Disclosed,     \* packs that others reveal too, once they may know the salt
  Lossy,         \* whether a transaction of the service may get lost
  MaxRequests,   \* bound: requests of one type for one pack
  MaxHeight      \* bound: up to this height other applications add blocks,
                 \* and an abort may be repeated

ASSUME ServiceAssumption ==
  /\ Abortable \in SUBSET Dists
  /\ Moves \in SUBSET (Collectibles \X Accounts \X (Accounts \union {Escrow}))
  /\ Sales \in SUBSET (Accounts \X Accounts)
  /\ Disclosed \in SUBSET Packs
  /\ Lossy \in BOOLEAN
  /\ MaxRequests \in Nat
  /\ MaxHeight \in Nat

Init == LedgerInit /\ StoreInit

(* handleSendableTransactions and handleSentTransactions, from the row in  *)
(* the table to its result on the chain.                                   *)
ExecuteTx ==
  \E t \in pending :
    /\ Execute(t)
    /\ pending' = pending \ {t}
    /\ UNCHANGED <<dist, pack, settlement, minting, circulating>>

(* The state "failed", which no handler leaves.                            *)
LoseTx ==
  /\ Lossy
  /\ \E t \in pending : pending' = pending \ {t}
  /\ UNCHANGED <<ledgerVars, dist, pack, settlement, minting, circulating>>

Requests(c, id, type) ==
  {b \in 1..height :
     \E e \in chain[b] : e.type = type /\ e.contract = c /\ e.id = id}

OwnerRequestsReveal ==
  \E c \in Contracts, a \in Accounts, o \in BOOLEAN :
    \E id \in DOMAIN packNFT[c] :
      /\ Cardinality(Requests(c, id, "RevealRequest")) < MaxRequests
      /\ RequestReveal(c, id, a, o)
      /\ UNCHANGED storeVars

OwnerRequestsOpen ==
  \E c \in Contracts, a \in Accounts :
    \E id \in DOMAIN packNFT[c] :
      /\ Cardinality(Requests(c, id, "OpenRequest")) < MaxRequests
      /\ RequestOpen(c, id, a)
      /\ UNCHANGED storeVars

OwnerTransfers ==
  /\ \E c \in Contracts, s \in Sales :
       \E id \in DOMAIN packNFT[c] : TransferPack(c, id, s[1], s[2])
  /\ UNCHANGED storeVars

(* The salt of a pack is public from the transaction that reveals it on.   *)
AnyoneReveals ==
  /\ \E p \in Disclosed :
       /\ pack[p].state = "reveal-request-handled"
       /\ PublicReveal(ContractOf[DistOf(p)], pack[p].flowID, p)
  /\ UNCHANGED storeVars

AccountSends ==
  /\ \E m \in Moves : SendCollectible(m[1], m[2], m[3])
  /\ UNCHANGED storeVars

OtherBlock ==
  /\ height < MaxHeight
  /\ EmptyBlock
  /\ UNCHANGED storeVars

Create == \E d \in Dists : CreateDistribution(d)

(* A distribution that is invalid already may be aborted again.            *)
Abort ==
  \E d \in Abortable :
    /\ dist[d] = "invalid" => height < MaxHeight
    /\ AbortDistribution(d)

Next ==
  \/ Create
  \/ Abort
  \/ HandleResolved
  \/ HandleSetup
  \/ HandleSettling
  \/ HandleSettled
  \/ HandleMinting
  \/ HandleComplete
  \/ PollCirculating
  \/ ExecuteTx
  \/ LoseTx
  \/ OwnerRequestsReveal
  \/ OwnerRequestsOpen
  \/ OwnerTransfers
  \/ AnyoneReveals
  \/ AccountSends
  \/ OtherBlock

Spec == Init /\ [][Next]_vars

(* The ticker of the poller runs every handler again and again, and sends  *)
(* what is in the table transactions, oldest first.                        *)
Fairness ==
  /\ WF_vars(HandleResolved)
  /\ WF_vars(HandleSetup)
  /\ WF_vars(HandleSettling)
  /\ WF_vars(HandleSettled)
  /\ WF_vars(HandleMinting)
  /\ WF_vars(HandleComplete)
  /\ WF_vars(PollCirculating)
  /\ WF_vars(ExecuteTx)

FairSpec == Spec /\ Fairness

----------------------------------------------------------------------------
(* Type invariant.                                                         *)

TypeOK == LedgerTypeOK /\ StoreTypeOK

(* The database never runs ahead of the chain: a pack that has left the    *)
(* state "init" is on the chain, under the id and the commitment hash of   *)
(* its row, and is revealed or opened there whenever the row says so.      *)
StoreFollowsLedger ==
  \A p \in Packs :
    LET c  == ContractOf[DistOf(p)]
        id == pack[p].flowID
    IN pack[p].state # "init" =>
         /\ Exists(c, id)
         /\ packNFT[c][id].hash = p
         /\ pack[p].state \in {"revealed", "open-request-handled"}
              => packNFT[c][id].status \in {"Revealed", "Opened"}
         /\ pack[p].state = "opened" => packNFT[c][id].status = "Opened"

(* The states a row of a pack can have once an event was handled.          *)
StatesAfter(type) ==
  CASE type = "RevealRequest" -> PackState \ {"init", "sealed"}
    [] type = "Revealed" -> {"revealed", "open-request-handled", "opened"}
    [] type = "OpenRequest" -> {"open-request-handled", "opened"}
    [] type = "Opened" -> {"opened"}

(* No event is skipped: every event of a pack in a block up to the cursor  *)
(* of its contract has found the pack of the event and has taken it to a   *)
(* state that follows the event.                                           *)
NoEventSkipped ==
  \A c \in CirculatingContracts : \A b \in 1..circulating[c] :
    \A e \in chain[b] :
      e.type \in RequestTypes /\ e.contract = c =>
        \E p \in Packs : IsPack(p, c, e.id) /\ pack[p].state \in StatesAfter(e.type)

(* No mint is skipped: a pack that was minted in a block up to the cursor  *)
(* of its minting distribution is sealed in the database.                  *)
NoMintSkipped ==
  \A d \in InState("minting") : \A b \in 1..minting[d].startAt :
    \A e \in chain[b] :
      e.type = "Mint" /\ e.hash \in PacksOf(d) => pack[e.hash].state # "init"

(* A complete distribution has all of its packs on the chain, under ids    *)
(* that the database knows.                                                *)
CompleteMeansSealed ==
  \A d \in InState("complete") : \A p \in PacksOf(d) : pack[p].state # "init"

(* Every pack on the chain that is not opened is backed: the PDS holds     *)
(* each collectible that its hash commits to.                              *)
EscrowBacked ==
  \A c \in Contracts : \A id \in DOMAIN packNFT[c] :
    packNFT[c][id].status # "Opened" =>
      \A x \in Contents[packNFT[c][id].hash] : holder[x] = Escrow

(* The PDS releases a collectible only when it opens a pack that contains  *)
(* it, and only to an account that asked, as the owner of the pack at that *)
(* time, to open that pack.                                                *)
RequestedBy(c, id, a, b) ==
  \E b0 \in 1..(b - 1) :
    \/ RevealRequest(c, id, a, TRUE) \in chain[b0]
    \/ OpenRequest(c, id, a) \in chain[b0]

ReleaseRequested ==
  \A b \in 1..height : \A x \in Collectibles, a \in Accounts :
    Deposit(x, a) \in chain[b] =>
      \/ \E c \in Contracts : \E id \in DOMAIN packNFT[c] :
           /\ Opened(c, id) \in chain[b]
           /\ x \in Contents[packNFT[c][id].hash]
           /\ RequestedBy(c, id, a, b)
      \/ \A e \in chain[b] : e = Deposit(x, a)

(* When owners ask once and no two distributions share a contract, no      *)
(* event of a pack that the database has sealed finds it in an unexpected  *)
(* state, which would stop the polling.  What an event of another pack     *)
(* does is the subject of UnknownNotComplete.                              *)
PollNeverStuck == ~UnexpectedState

(* An event of a pack that the database has not sealed stops the polling.  *)
(* When no two distributions share a contract, the distribution of such a  *)
(* pack is minting, and its handler is about to seal the pack, or it was   *)
(* aborted, and nothing ever will: the polling never stops for good        *)
(* because of a distribution that is complete.                             *)
UnknownNotComplete ==
  \A c \in CirculatingContracts : \A e \in PackEventsSeen(c) :
    (\A p \in Packs : ~IsPack(p, c, e.id)) =>
      dist[DistOf(packNFT[c][e.id].hash)] \in {"minting", "invalid"}

(* What the rows of the database may never do: a pack never goes back to   *)
(* an earlier state, and never changes the id it was sealed with.          *)
Rank ==
  [s \in PackState |->
     CASE s = "init" -> 0
       [] s = "sealed" -> 1
       [] s = "reveal-request-handled" -> 2
       [] s = "revealed" -> 3
       [] s = "open-request-handled" -> 4
       [] s = "opened" -> 5]

PacksMoveForward ==
  [][\A p \in Packs :
       /\ Rank[pack'[p].state] >= Rank[pack[p].state]
       /\ pack[p].flowID # NoFlowID => pack'[p].flowID = pack[p].flowID]_vars

(* The cursor of a contract never goes back over blocks that it has        *)
(* handled.                                                                *)
CursorMovesForward ==
  [][\A c \in Contracts : circulating'[c] >= circulating[c]]_vars

(* Every step of the service is a step of the life of a distribution as    *)
(* DistributionLife describes it: no stage is left out, whatever executes  *)
(* or is lost, and an end, complete or invalid, is final.                  *)
Life == INSTANCE DistributionLife

ImplementsLife == Life!Spec

----------------------------------------------------------------------------
(* What the safety properties rest on, an invariant that is inductive: see *)
(* PDSServiceProofs.                                                       *)

(* An event says what the contract has done and never undoes.              *)
EventTrue(e) ==
  /\ e.type \in RequestTypes \union {"Mint"} => Exists(e.contract, e.id)
  /\ e.type = "Mint" =>
       /\ packNFT[e.contract][e.id].hash = e.hash
       /\ e.contract = ContractOf[DistOf(e.hash)]
  /\ e.type = "Revealed" => packNFT[e.contract][e.id].status # "Sealed"
  /\ e.type = "Opened" => packNFT[e.contract][e.id].status = "Opened"

ChainTrue ==
  /\ height >= 1
  /\ \A b \in 1..height :
       IsFiniteSet(chain[b]) /\ \A e \in chain[b] : EventTrue(e)

(* A transaction mints packs of the contract that it is for.               *)
MintsOwnPacks ==
  \A t \in pending : t.name = "mint" =>
    \A k \in DOMAIN t.hashes : ContractOf[DistOf(t.hashes[k])] = t.contract

(* A handler reads blocks from the start of a row that exists.             *)
RowsExist ==
  /\ \A d \in InState("settling") : settlement[d].startAt # NoRow
  /\ \A d \in InState("minting") : minting[d].startAt # NoRow

(* A pack gets its id when it leaves the state "init".                     *)
UnsealedHasNoID ==
  \A p \in Packs : pack[p].state = "init" => pack[p].flowID = NoFlowID

Consistent ==
  /\ ChainTrue
  /\ MintsOwnPacks
  /\ RowsExist
  /\ UnsealedHasNoID
  /\ StoreFollowsLedger

(* A cursor is never ahead of the chain, and a contract circulates before  *)
(* its first pack can be minted.                                           *)
CursorsInTime ==
  \A c \in Contracts :
    /\ circulating[c] <= height
    /\ circulating[c] = NoRow =>
         /\ DOMAIN packNFT[c] = {}
         /\ \A t \in pending : t.name = "mint" => t.contract # c

----------------------------------------------------------------------------
(* Liveness.                                                               *)

(* Every distribution that was created ends, complete or invalid.          *)
DistributionsEnd ==
  \A d \in Dists :
    dist[d] = "resolved" ~> dist[d] \in {"complete", "invalid"}

(* Every request to reveal a pack is answered: the pack gets revealed on   *)
(* the chain and the database comes to know it.                            *)
RevealRequested(p) ==
  \E b \in 1..height : \E e \in chain[b] :
    /\ e.type = "RevealRequest"
    /\ packNFT[e.contract][e.id].hash = p

RequestsAnswered ==
  \A p \in Packs : RevealRequested(p) ~> pack[p].state \in StatesAfter("Revealed")

(* Every request to open a pack, made with the request to reveal it or     *)
(* after it, is answered: the pack gets opened on the chain, and the       *)
(* database comes to know it.                                              *)
OpeningRequested(p) ==
  \E b \in 1..height : \E e \in chain[b] :
    /\ \/ e.type = "RevealRequest" /\ e.openRequest
       \/ e.type = "OpenRequest"
    /\ packNFT[e.contract][e.id].hash = p

OpeningAnswered ==
  \A p \in Packs : OpeningRequested(p) ~> pack[p].state = "opened"

=============================================================================
