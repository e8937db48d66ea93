------------------------ MODULE DistributionWorkflow ------------------------
(***************************************************************************)
(* The life of a distribution: the requests of the HTTP API that create    *)
(* and abort it, and the handlers of the poller that take it from          *)
(* "resolved" to "complete".  A handler of the poller processes every      *)
(* distribution that is in its state.                                      *)
(***************************************************************************)
EXTENDS PDSStore

(* App.CreateDistribution.  Resolve has put the collectibles into packs,   *)
(* so the packs of d are in the table from here on.                        *)
CreateDistribution(d) ==
  /\ dist[d] = "none"
  /\ dist' = [dist EXCEPT ![d] = "resolved"]
  /\ UNCHANGED <<ledgerVars, pack, settlement, minting, circulating, pending>>

\* Mutant: a complete distribution may be aborted.
AbortAnyDistribution(d) ==
  /\ dist[d] # "none"
  /\ dist' = [dist EXCEPT ![d] = "invalid"]
  /\ pending' = pending \union {UpdateStateTx(d, 1)}
  /\ UNCHANGED <<ledgerVars, pack, settlement, minting, circulating>>

(* App.AbortDistribution.  It adds the transaction that makes the          *)
(* distribution invalid on the chain, and leaves alone the transactions    *)
(* that are pending already.                                               *)
AbortDistribution(d) ==
  /\ dist[d] \notin {"none", "complete"}
  /\ dist' = [dist EXCEPT ![d] = "invalid"]
  /\ pending' = pending \union {UpdateStateTx(d, 1)}
  /\ UNCHANGED <<ledgerVars, pack, settlement, minting, circulating>>

(* SetupDistribution.  The collection of the PDS that it sets up on the    *)
(* chain is there from the start in PDSLedger.                             *)
HandleResolved ==
  /\ InState("resolved") # {}
  /\ dist' = SetState(InState("resolved"), "setup")
  /\ UNCHANGED <<ledgerVars, pack, settlement, minting, circulating, pending>>

(* StartSettlement.                                                        *)
SettleBatches(d) ==
  {SettleTx(d, Elems(Batch(CollectibleRows[d], SettlementBatchSize, k))) :
     k \in 1..NumBatches(CollectibleRows[d], SettlementBatchSize)}

NewSettlement(d) ==
  [startAt |-> height - 1, current |-> 0, total |-> Len(CollectibleRows[d]),
   settled |-> {}]

HandleSetup ==
  LET D == InState("setup") IN
  /\ D # {}
  /\ dist' = SetState(D, "settling")
  /\ settlement' = [d \in Dists |->
                      IF d \in D THEN NewSettlement(d) ELSE settlement[d]]
  /\ pending' = pending \union UNION {SettleBatches(d) : d \in D}
  /\ UNCHANGED <<ledgerVars, pack, minting, circulating>>

(* UpdateSettlementStatus.  A deposit to the escrow counts for every       *)
(* distribution that waits for the collectible, whoever made it.  Another  *)
(* deposit of a settled collectible is an error.                           *)
DepositedIn(x, B) == {b \in B : Deposit(x, Escrow) \in chain[b]}

NewlySettled(d) ==
  {x \in ItemsOf(d) : DepositedIn(x, Blocks(settlement[d].startAt)) # {}}

SettlingFails(d) ==
  \E x \in NewlySettled(d) :
    \/ x \in settlement[d].settled
    \/ \E b1, b2 \in DepositedIn(x, Blocks(settlement[d].startAt)) : b1 # b2

UpdatedSettlement(d) ==
  LET row == settlement[d] IN
  [startAt |-> NextStart(row.startAt),
   current |-> row.current + Cardinality(NewlySettled(d)),
   total   |-> row.total,
   settled |-> row.settled \union NewlySettled(d)]

\* Mutant: the settlement is complete one collectible too early.
SettlementAlmostComplete(d) ==
  /\ Blocks(settlement[d].startAt) # {}
  /\ UpdatedSettlement(d).current + 1 >= settlement[d].total

SettlementComplete(d) ==
  /\ Blocks(settlement[d].startAt) # {}
  /\ UpdatedSettlement(d).current >= settlement[d].total

HandleSettling ==
  LET D == InState("settling") IN
  /\ D # {}
  /\ \A d \in D : ~SettlingFails(d)
  /\ settlement' = [d \in Dists |->
                      IF d \in D THEN UpdatedSettlement(d) ELSE settlement[d]]
  /\ dist' = SetState({d \in D : SettlementComplete(d)}, "settled")
  /\ UNCHANGED <<ledgerVars, pack, minting, circulating, pending>>

(* StartMinting.  A contract that circulates already keeps its row, with   *)
(* the lower of the two start blocks.                                      *)
MintBatches(d) ==
  {MintTx(d, ContractOf[d], Batch(PackRows[d], MintingBatchSize, k)) :
     k \in 1..NumBatches(PackRows[d], MintingBatchSize)}

\* Mutant: the minting starts behind the next block.
NewMintingLate(d) ==
  [startAt |-> height + 1, current |-> 0, total |-> Len(PackRows[d])]

NewMinting(d) ==
  [startAt |-> height - 1, current |-> 0, total |-> Len(PackRows[d])]

StartCirculating(c) ==
  IF circulating[c] = NoRow THEN height - 1
                            ELSE Min2(circulating[c], height - 1)

HandleSettled ==
  LET D == InState("settled") IN
  /\ D # {}
  /\ dist' = SetState(D, "minting")
  /\ circulating' = [c \in Contracts |->
                       IF \E d \in D : ContractOf[d] = c
                       THEN StartCirculating(c) ELSE circulating[c]]
  /\ minting' = [d \in Dists |->
                   IF d \in D THEN NewMinting(d) ELSE minting[d]]
  /\ pending' = pending \union UNION {MintBatches(d) : d \in D}
  /\ UNCHANGED <<ledgerVars, pack, settlement>>

(* UpdateMintingStatus.  It reads the mint events of the contract, and     *)
(* finds the pack by its commitment hash alone: a pack of another          *)
(* distribution counts too.  A pack that is not in its initial state is an *)
(* error, also when another distribution of the same poll has just sealed  *)
(* it.                                                                     *)
\* Mutant: the contract of the event is not compared.
MintsSeenAnywhere(d) ==
  {e \in EventsIn(Blocks(minting[d].startAt)) : e.type = "Mint"}

MintsSeen(d) ==
  {e \in EventsIn(Blocks(minting[d].startAt)) :
     e.type = "Mint" /\ e.contract = ContractOf[d]}

MintsSeenBy(D) == UNION {MintsSeen(d) : d \in D}

MintingFails(D) ==
  \/ \E e \in MintsSeenBy(D) : pack[e.hash].state # "init"
  \/ \E d1, d2 \in D : d1 # d2 /\ MintsSeen(d1) \cap MintsSeen(d2) # {}
  \/ \E e1, e2 \in MintsSeenBy(D) : e1 # e2 /\ e1.hash = e2.hash

UpdatedMinting(d) ==
  [startAt |-> NextStart(minting[d].startAt),
   current |-> minting[d].current + Cardinality(MintsSeen(d)),
   total   |-> minting[d].total]

\* Mutant: the minting is complete one pack too early.
MintingAlmostComplete(d) ==
  /\ Blocks(minting[d].startAt) # {}
  /\ UpdatedMinting(d).current + 1 >= minting[d].total

MintingComplete(d) ==
  /\ Blocks(minting[d].startAt) # {}
  /\ UpdatedMinting(d).current >= minting[d].total

HandleMinting ==
  LET D == InState("minting")
      C == {d \in D : MintingComplete(d)} IN
  /\ D # {}
  /\ ~MintingFails(D)
  /\ pack' = Seal(MintsSeenBy(D))
  /\ minting' = [d \in Dists |->
                   IF d \in D THEN UpdatedMinting(d) ELSE minting[d]]
  /\ dist' = SetState(C, "complete")
  /\ pending' = pending \union {UpdateStateTx(d, 2) : d \in C}
  /\ UNCHANGED <<ledgerVars, settlement, circulating>>

(* handleComplete deletes the rows that a complete distribution no longer  *)
(* needs.                                                                  *)
HandleComplete ==
  LET D == {d \in InState("complete") : settlement[d] # NoSettlement} IN
  /\ D # {}
  /\ settlement' = [d \in Dists |->
                      IF d \in D THEN NoSettlement ELSE settlement[d]]
  /\ minting' = [d \in Dists |->
                   IF d \in D THEN NoMinting ELSE minting[d]]
  /\ UNCHANGED <<ledgerVars, dist, pack, circulating, pending>>

=============================================================================
