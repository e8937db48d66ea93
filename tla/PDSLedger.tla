------------------------------ MODULE PDSLedger ------------------------------
(***************************************************************************)
(* The Flow chain as the Pack Distribution Service uses it: the contracts  *)
(* PDS.cdc and PackNFT.cdc, the collection that holds the collectibles,    *)
(* and the transaction scripts that the service and the owners of packs    *)
(* send.                                                                   *)
(*                                                                         *)
(* chain[b] is the set of events of sealed block b, and Len(chain) is the  *)
(* height of the latest sealed block.  A block seals at most one           *)
(* transaction of the system, so the events of a block are the events of   *)
(* one transaction; a transaction that reverts seals a block without       *)
(* events.  A commitment hash is a salted SHA-256 digest of the content of *)
(* a pack: it is modelled by the pack itself, an element of Packs.         *)
(***************************************************************************)
EXTENDS Integers, Sequences, FiniteSets

CONSTANTS
  Accounts,       \* Flow accounts other than the one of the PDS
  Issuer,         \* the account that issues the distributions
  Escrow,         \* the account of the PDS (cfg.AdminAddress)
  Contracts,      \* PackNFT contracts
  Dists,          \* distributions, under their on-chain ids
  Packs,          \* packs, standing for their commitment hashes too
  Collectibles,   \* collectible NFTs of one collectible contract
  Contents        \* Contents[p]: the collectibles that the hash of p commits to

ASSUME LedgerAssumption ==
  /\ IsFiniteSet(Collectibles)
  /\ Issuer \in Accounts
  /\ Escrow \notin Accounts
  /\ Contents \in [Packs -> SUBSET Collectibles]

VARIABLES
  chain,      \* chain[b]: the events of sealed block b
  packNFT,    \* packNFT[c][id]: the pack with that id in contract c
  holder,     \* holder[x]: the account whose collection has collectible x
  distState   \* distState[d]: the state of d in the PDS contract

ledgerVars == <<chain, packNFT, holder, distState>>

height == Len(chain)

----------------------------------------------------------------------------
(* Events.  A request carries the authorizer of its transaction, which the *)
(* service reads with GetTransaction.                                      *)

Deposit(x, to) == [type |-> "Deposit", id |-> x, to |-> to]

MintEvent(c, id, h) ==
  [type |-> "Mint", contract |-> c, id |-> id, hash |-> h]

RevealRequest(c, id, a, o) ==
  [type |-> "RevealRequest", contract |-> c, id |-> id,
   owner |-> a, openRequest |-> o]

Revealed(c, id) == [type |-> "Revealed", contract |-> c, id |-> id]

OpenRequest(c, id, a) ==
  [type |-> "OpenRequest", contract |-> c, id |-> id, owner |-> a]

Opened(c, id) == [type |-> "Opened", contract |-> c, id |-> id]

Event ==
  [type : {"Deposit"}, id : Collectibles, to : Accounts \union {Escrow}]
    \union [type : {"Mint"}, contract : Contracts, id : Nat, hash : Packs]
    \union [type : {"RevealRequest"}, contract : Contracts, id : Nat,
            owner : Accounts, openRequest : BOOLEAN]
    \union [type : {"Revealed", "Opened"}, contract : Contracts, id : Nat]
    \union [type : {"OpenRequest"}, contract : Contracts, id : Nat,
            owner : Accounts]

Status == {"Sealed", "Revealed", "Opened"}

PackNFT == [hash : Packs, status : Status, owner : Accounts]

DistState == 0..2    \* 0 initialized, 1 invalid, 2 complete

LedgerTypeOK ==
  /\ chain \in Seq(SUBSET Event)
  /\ packNFT \in [Contracts -> Seq(PackNFT)]
  /\ holder \in [Collectibles -> Accounts \union {Escrow}]
  /\ distState \in [Dists -> DistState]

(* The chain when the service is deployed: the issuer has the collectibles *)
(* and the distributions exist in the PDS contract.                        *)
LedgerInit ==
  /\ chain = <<{}>>
  /\ packNFT = [c \in Contracts |-> <<>>]
  /\ holder = [x \in Collectibles |-> Issuer]
  /\ distState = [d \in Dists |-> 0]

Emit(events) == chain' = Append(chain, events)

Exists(c, id) == id \in DOMAIN packNFT[c]

(* A block of other applications, or of a transaction that reverted.       *)
EmptyBlock ==
  /\ Emit({})
  /\ UNCHANGED <<packNFT, holder, distState>>

----------------------------------------------------------------------------
(* The scripts that the service sends, one record for each call.           *)

SettleTx(d, xs) == [name |-> "settle", dist |-> d, items |-> xs]

MintTx(d, c, hs) ==
  [name |-> "mint", dist |-> d, contract |-> c, hashes |-> hs]

UpdateStateTx(d, s) == [name |-> "update_dist_state", dist |-> d, state |-> s]

\* copy tells the two rows apart that a request to reveal and open saves.
RevealTx(c, id, p, a, o, n) ==
  [name |-> "reveal", contract |-> c, id |-> id, pack |-> p, owner |-> a,
   openRequest |-> o, copy |-> n]

OpenTx(c, id, p, a) ==
  [name |-> "open", contract |-> c, id |-> id, pack |-> p, owner |-> a]

Tx ==
  [name : {"settle"}, dist : Dists, items : SUBSET Collectibles]
    \union [name : {"mint"}, dist : Dists, contract : Contracts,
            hashes : Seq(Packs)]
    \union [name : {"update_dist_state"}, dist : Dists, state : DistState]
    \union [name : {"reveal"}, contract : Contracts, id : Nat, pack : Packs,
            owner : Accounts, openRequest : BOOLEAN, copy : {1, 2}]
    \union [name : {"open"}, contract : Contracts, id : Nat, pack : Packs,
            owner : Accounts]

(* settle.cdc: every collectible goes from the issuer to the escrow, or    *)
(* none does.                                                              *)
CanSettle(t) == \A x \in t.items : holder[x] = Issuer

Settle(t) ==
  /\ holder' = [x \in Collectibles |->
                  IF x \in t.items THEN Escrow ELSE holder[x]]
  /\ Emit({Deposit(x, Escrow) : x \in t.items})
  /\ UNCHANGED <<packNFT, distState>>

(* mint_packNFT.cdc: one sealed pack for each hash, given to the issuer,   *)
(* with the next ids of the contract.                                      *)
Mint(t) ==
  LET c      == t.contract
      supply == Len(packNFT[c])
      minted == [k \in 1..Len(t.hashes) |->
                   [hash |-> t.hashes[k], status |-> "Sealed",
                    owner |-> Issuer]]
  IN /\ packNFT' = [packNFT EXCEPT ![c] = @ \o minted]
     /\ Emit({MintEvent(c, supply + k, t.hashes[k]) : k \in 1..Len(t.hashes)})
     /\ UNCHANGED <<holder, distState>>

(* update_dist_state.cdc: any state from any state.                        *)
UpdateDistState(t) ==
  /\ distState' = [distState EXCEPT ![t.dist] = t.state]
  /\ UNCHANGED <<holder, packNFT>>
  /\ Emit({})

(* Pack.reveal: the pack is sealed and the content and the salt have its   *)
(* commitment hash.                                                        *)
CanReveal(c, id, p) ==
  /\ Exists(c, id)
  /\ packNFT[c][id].status = "Sealed"
  /\ packNFT[c][id].hash = p

Reveal(c, id) ==
  /\ packNFT' = [packNFT EXCEPT ![c][id].status = "Revealed"]
  /\ Emit({Revealed(c, id)})
  /\ UNCHANGED <<holder, distState>>

(* Pack.open and PDS.releaseEscrow: the pack is revealed, its content is   *)
(* verified again, and the PDS has every collectible of it.                *)
CanOpen(c, id, p) ==
  /\ Exists(c, id)
  /\ packNFT[c][id].status = "Revealed"
  /\ packNFT[c][id].hash = p
  /\ \A x \in Contents[p] : holder[x] = Escrow

Open(c, id, p, a) ==
  /\ packNFT' = [packNFT EXCEPT ![c][id].status = "Opened"]
  /\ holder' = [x \in Collectibles |->
                  IF x \in Contents[p] THEN a ELSE holder[x]]
  /\ Emit({Opened(c, id)} \union {Deposit(x, a) : x \in Contents[p]})
  /\ UNCHANGED distState

(* Mutant: the script opens a revealed pack whatever the request was.      *)
OpensAnyRevealed(t) ==
  /\ Exists(t.contract, t.id)
  /\ packNFT[t.contract][t.id].status = "Revealed"

(* reveal_packNFT.cdc opens a pack that is revealed already if the request *)
(* was to open it too, and reveals otherwise.                              *)
OpensRevealed(t) ==
  /\ t.openRequest
  /\ Exists(t.contract, t.id)
  /\ packNFT[t.contract][t.id].status = "Revealed"

(* What one sealed transaction of the service does to the chain.           *)
Succeeds(t) ==
  \/ t.name = "settle" /\ CanSettle(t)
  \/ t.name = "mint"
  \/ t.name = "update_dist_state"
  \/ t.name = "reveal" /\ ~OpensRevealed(t) /\ CanReveal(t.contract, t.id, t.pack)
  \/ t.name = "reveal" /\ OpensRevealed(t) /\ CanOpen(t.contract, t.id, t.pack)
  \/ t.name = "open" /\ CanOpen(t.contract, t.id, t.pack)

Apply(t) ==
  \/ t.name = "settle" /\ Settle(t)
  \/ t.name = "mint" /\ Mint(t)
  \/ t.name = "update_dist_state" /\ UpdateDistState(t)
  \/ t.name = "reveal" /\ ~OpensRevealed(t) /\ Reveal(t.contract, t.id)
  \/ t.name = "reveal" /\ OpensRevealed(t)
                       /\ Open(t.contract, t.id, t.pack, t.owner)
  \/ t.name = "open" /\ Open(t.contract, t.id, t.pack, t.owner)

Execute(t) == IF Succeeds(t) THEN Apply(t) ELSE EmptyBlock

----------------------------------------------------------------------------
(* The transactions of the owners of packs and of collectibles.            *)

(* reveal_request.cdc: the owner of a sealed pack asks for its content.    *)
RequestReveal(c, id, a, o) ==
  /\ Exists(c, id)
  /\ packNFT[c][id].owner = a
  /\ packNFT[c][id].status = "Sealed"
  /\ Emit({RevealRequest(c, id, a, o)})
  /\ UNCHANGED <<packNFT, holder, distState>>

(* open_request.cdc: the owner of a revealed pack asks for the             *)
(* collectibles.                                                           *)
RequestOpen(c, id, a) ==
  /\ Exists(c, id)
  /\ packNFT[c][id].owner = a
  /\ packNFT[c][id].status = "Revealed"
  /\ Emit({OpenRequest(c, id, a)})
  /\ UNCHANGED <<packNFT, holder, distState>>

(* transfer_packNFT.cdc.                                                   *)
TransferPack(c, id, a, b) ==
  /\ Exists(c, id)
  /\ a # b
  /\ packNFT[c][id].owner = a
  /\ packNFT' = [packNFT EXCEPT ![c][id].owner = b]
  /\ Emit({})
  /\ UNCHANGED <<holder, distState>>

(* public_reveal_packNFT.cdc: anyone who knows the salt reveals the pack.  *)
PublicReveal(c, id, p) ==
  /\ CanReveal(c, id, p)
  /\ Reveal(c, id)

(* An account sends a collectible of its own to another account, or to the *)
(* public collection of the PDS.                                           *)
SendCollectible(x, a, b) ==
  /\ a # b
  /\ holder[x] = a
  /\ holder' = [holder EXCEPT ![x] = b]
  /\ Emit({Deposit(x, b)})
  /\ UNCHANGED <<packNFT, distState>>

=============================================================================
