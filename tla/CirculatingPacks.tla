-------------------------- MODULE CirculatingPacks --------------------------
(***************************************************************************)
(* The polling of the contracts whose packs circulate:                     *)
(* pollCirculatingPackContractEvents and UpdateCirculatingPackContract.    *)
(*                                                                         *)
(* For each contract a poll reads one range of blocks four times, for the  *)
(* events RevealRequest, Revealed, OpenRequest and Opened in this order,   *)
(* and takes each event through the state machine of its pack.  All        *)
(* contracts are handled in one database transaction: one event that finds *)
(* its pack in an unexpected state, or finds no pack, undoes all of it.    *)
(***************************************************************************)
EXTENDS PDSStore

CirculatingContracts == {c \in Contracts : circulating[c] # NoRow}

Polled(c) == IF circulating[c] = NoRow THEN {} ELSE Blocks(circulating[c])

RequestTypes == {"RevealRequest", "Revealed", "OpenRequest", "Opened"}

PackEventsSeen(c) ==
  {e \in EventsIn(Polled(c)) : e.type \in RequestTypes /\ e.contract = c}

(* GetPackByContractAndFlowID.                                             *)
IsPack(p, c, id) ==
  /\ ContractOf[DistOf(p)] = c
  /\ pack[p].flowID = id
  /\ id # NoFlowID

UnknownPack ==
  \E c \in CirculatingContracts : \E e \in PackEventsSeen(c) :
    \A p \in Packs : ~IsPack(p, c, e.id)

(* The polled blocks with an event of a type for pack p.                   *)
BlocksWith(p, type) ==
  LET c == ContractOf[DistOf(p)] IN
  {b \in Polled(c) :
     \E e \in chain[b] : /\ e.type = type
                         /\ e.contract = c
                         /\ pack[p].flowID # NoFlowID
                         /\ e.id = pack[p].flowID}

(* The methods of Pack, applied once for each block of B: from a state     *)
(* that is not in the set from, or a second time, they return an error.    *)
Advance(s, B, from, to) ==
  IF B = {} THEN s
  ELSE IF s \in from /\ \A b1, b2 \in B : b1 = b2 THEN to
  ELSE "error"

\* Mutant: a request to reveal makes the pack revealed in the database.
AfterRevealRequestsRevealed(p) ==
  Advance(pack[p].state, BlocksWith(p, "RevealRequest"), {"sealed"}, "revealed")

AfterRevealRequests(p) ==
  Advance(pack[p].state, BlocksWith(p, "RevealRequest"),
          {"sealed"}, "reveal-request-handled")

AfterRevealed(p) ==
  Advance(AfterRevealRequests(p), BlocksWith(p, "Revealed"),
          {"reveal-request-handled"}, "revealed")

AfterOpenRequests(p) ==
  Advance(AfterRevealed(p), BlocksWith(p, "OpenRequest"),
          {"revealed"}, "open-request-handled")

\* Mutants: an opened pack needs a request to open of its own, and it gets
\* the state "revealed".
PolledStateAsked(p) ==
  Advance(AfterOpenRequests(p), BlocksWith(p, "Opened"),
          {"open-request-handled"}, "opened")

PolledStateRevealed(p) ==
  Advance(AfterOpenRequests(p), BlocksWith(p, "Opened"),
          {"open-request-handled", "revealed"}, "revealed")

PolledState(p) ==
  Advance(AfterOpenRequests(p), BlocksWith(p, "Opened"),
          {"open-request-handled", "revealed"}, "opened")

UnexpectedState == \E p \in Packs : PolledState(p) = "error"

(* The transactions that the requests of this poll add: one that reveals   *)
(* the pack, a second identical one if the request was to open it too, and *)
(* one that opens a revealed pack.                                         *)
RequestsSeen(c, p, type) ==
  {e \in PackEventsSeen(c) : e.type = type /\ IsPack(p, c, e.id)}

\* Mutants: the second transaction is never saved; the first one is saved
\* only for a request to open the pack.
RevealTxsOnce ==
  UNION {{RevealTx(c, e.id, p, e.owner, e.openRequest, 1) :
            e \in RequestsSeen(c, p, "RevealRequest")} :
         c \in CirculatingContracts, p \in Packs}

RevealTxsToOpen ==
  UNION {{t \in {RevealTx(c, e.id, p, e.owner, e.openRequest, n) :
                   e \in RequestsSeen(c, p, "RevealRequest"), n \in {1, 2}} :
            t.openRequest} :
         c \in CirculatingContracts, p \in Packs}

RevealTxs ==
  UNION {{t \in {RevealTx(c, e.id, p, e.owner, e.openRequest, n) :
                   e \in RequestsSeen(c, p, "RevealRequest"), n \in {1, 2}} :
            t.copy = 2 => t.openRequest} :
         c \in CirculatingContracts, p \in Packs}

OpenTxs ==
  UNION {{OpenTx(c, e.id, p, e.owner) : e \in RequestsSeen(c, p, "OpenRequest")} :
         c \in CirculatingContracts, p \in Packs}

PollCirculating ==
  /\ CirculatingContracts # {}
  /\ ~UnknownPack
  /\ ~UnexpectedState
  /\ pack' = [p \in Packs |-> [pack[p] EXCEPT !.state = PolledState(p)]]
  /\ pending' = pending \union RevealTxs \union OpenTxs
  /\ circulating' = [c \in Contracts |->
                       IF circulating[c] = NoRow THEN NoRow
                       ELSE NextStart(circulating[c])]
  /\ UNCHANGED <<ledgerVars, dist, settlement, minting>>

=============================================================================
