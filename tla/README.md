# Pack Distribution Service: TLA+ models and proofs

flow-pds sells randomised packs of NFTs on the Flow chain.  An issuer
registers a *distribution*: how many packs, and which collectibles to draw for
them.  The service (a Go program with an SQL database) assigns the collectibles
to packs, moves them from the issuer into escrow (*settling*), mints one pack
NFT for each pack (*minting*), and from then on watches the chain for owners
who ask to *reveal* and to *open* their packs.

## The system

| part | state it keeps | operations | code |
| --- | --- | --- | --- |
| contracts on the chain | packs and their status, escrow, state of a distribution, events of sealed blocks | settle, mint, update state, reveal, open; requests and transfers of owners | `cadence-contracts/`, `cadence-transactions/` |
| database | rows of distributions, packs, settlements, mintings, circulating contracts, transactions | one database transaction per handler | `service/app/store_gorm.go` and the types beside it |
| poller | none of its own | once a second: six handlers of distributions, the poll of circulating contracts, the sending of transactions and the reading of their results | `service/app/poller.go`, `contract_service.go` |
| transaction queue | state and chain id of each transaction, locked keys, sequence numbers | prepare, sign, send, wait, handle the result | `service/transactions/`, `service/flow_helpers/account.go` |
| HTTP API | none | create, abort, set a capability, read | `service/http/`, `service/app/app.go` |
| resolving | packs of a new distribution | validate, draw, hash | `service/app/distribution.go`, `validation.go`, `pack.go` |

The parts meet in two places.  The *database* is shared by the poller and the
HTTP API: a handler reads rows, changes them and saves new transactions in one
database transaction, which an error rolls back.  The *chain* is shared by
everyone: the service adds transactions to it and learns what happened only
from the events of sealed blocks, which it reads in ranges that start at a
cursor (`StartAtBlock`) in a row of the database.

What is hard to get right:

- *cursors*: a range that is off by one skips an event or reads it twice; an
  event that is read twice finds its pack in an unexpected state, which is an
  error, which rolls back the poll of all contracts;
- *order*: a range is read once for each type of event, not in the order of the
  chain;
- *others on the same chain*: the issuer may send a collectible to the escrow
  by hand, owners repeat requests and transfer packs, anyone may reveal a pack
  whose salt is known;
- *partial failure*: a transaction that fails is not sent again;
- *abort* at any moment, with transactions of the distribution still queued;
- *shared contracts and collectibles*: two distributions may use one PackNFT
  contract, or list one collectible;
- *database transactions*: the loop and the requests read rows, take their time,
  and save whole rows;
- *widths*: the numbers of a template are unsigned, their products wrap, and they
  become lengths and indexes;
- *keys and restarts* in the queue.

`PROJECT.json` lists each hazard with its line and the properties that cover it.

## The modules

    PDSLedger              the chain: contracts, scripts, events
      PDSStore             the database: tables, row methods, ranges, batches
        DistributionWorkflow   create, abort, the six handlers
        CirculatingPacks       the poll of circulating contracts
          PDSService           the composition, its properties
            MCPDSService           instances for TLC
            PDSServiceProofs       types, database and chain, life of a distribution
              PDSMintingProofs       minting: once, none skipped, complete
                PDSEscrowProofs        the escrow: what it holds, whom it releases to
                  PDSPollingProofs       the poll: no event is unexpected

    PollerLoop             the loop and the requests as database transactions
      MCPollerLoop, PollerLoopProofs

    TransactionQueue       rows, proposal keys, sending, results, restarts
      MCTransactionQueue
      TransactionQueueProofs   types, locks, attempts, numbers
        TransactionQueueLifeProofs   the refinement of TransactionLife

    DistributionCreation   validation, draw and insertion of a distribution
      MCDistributionCreation, DistributionCreationProofs

    DistributionLife       what PDSService and PollerLoop implement
    TransactionLife        what TransactionQueue implements

A module that is indented EXTENDS the one above it.  The four groups model one
system at different grain, and meet as follows.

- In `PDSService` a handler of the poller and a request are one step.
  `PollerLoop` splits them into what they read, write and commit, and shows when
  this is sound: both modules implement `DistributionLife`.
- In `PDSService` a saved transaction executes once or is lost.
  `TransactionQueue` has the rows, the keys, the nodes and the restarts, and
  implements `TransactionLife`, which says how often a script runs and what the
  answer of the service about it means.
- `PDSService` starts a distribution from rows that are given by constants.
  `DistributionCreation` shows how a request turns into such rows: all of them or
  none, and each collectible in one of them.

**PDSLedger.**  `chain[b]` is the set of events of block `b`; `packNFT[c][id]`
is the `Pack` with that id in contract `c`, with the owner of its NFT; `holder`
is the collection that each collectible is in.  Each script the service sends is
a record (`SettleTx`, `MintTx`, ...).  `Succeeds` collects the assertions and
panics of the script and of the contract code it calls, `Apply` what it
changes and emits, and `Execute` is one or the other: a Cadence transaction has
all of its effects or none.  A commitment hash is represented by the pack whose
salt and content it hashes, so `packNFT[c][id].hash = p` is "the salt and
content of `p` verify".

**PDSStore.**  One variable for each table.  `NoRow` and `NoFlowID` are the
missing row and the SQL NULL.  `Blocks`, `RangeEnd` and `NextStart` are the
computation of a range that the three polling functions share;
`Batch` is `FindInBatches`; `SetState`, `Seal` are the methods of rows that
check the state before they change it.

**DistributionWorkflow.**  `CreateDistribution` and `AbortDistribution` are the
two requests; `HandleResolved` ... `HandleComplete` are the handlers of the same
name in `poller.go` with the function of `contract_service.go` that each calls
for every distribution in its state.

**CirculatingPacks.**  `PollCirculating` is `pollCirculatingPackContractEvents`.
`PolledState(p)` takes the row of `p` through the four passes, `"error"` where
the code returns one; `UnknownPack` is the failing lookup.  Either disables the
action: the code rolls everything back, and the next poll reads the same range.

**PDSService.**  The next-state relation: all of the above, `ExecuteTx` and
`LoseTx` for the queue, and what owners, issuers and other applications do.

**TransactionQueue.**  `row` and `order` are the table `transactions`; `locked`
and `lastSeq` are the mutexes and the numbers in `account.go`; `work[s]` is how
far a sender is, the poller or a request that sets a capability; `waiting` are
the goroutines in `WaitForFinalize`.  The poller's closure is split where
something else can happen in between: `PollerLooks` (the row, the account, the
check of `Next`), `Lock` (the mutex, the number), `Transmit` or `Refuse`
(`SendTransaction`), `Commit`; `GiveUp` and `CommitFails` are its errors.
`Finalize`, `Execute` and `Expire` are the network: a transaction runs if its
number is the one of the key on the chain.  `SetupDistribution` sends as a
request does, from the poller.  `Orphans(r)` are the attempts of row `r` that no
row knows of any more, since a rollback has undone what was saved before sending.

**PollerLoop.**  `poller` is the function the loop is in, with its open database
transaction: `todo` are the rows that it has listed and not handled yet, `wrote`
those it has saved.  `Begin`, `Handle`, `Commit` are the three phases of
`handleResolved` ... `handleMinting`, `PollContracts` is the poll with its limit.
`abort[d]` is the request to abort `d`: `AbortReads` (the row and the check of
`SetInvalid`), `AbortWrites`, `AbortCommits`.  `PollerFails` is an error of the
chain or the database in any of the functions; it rolls back the function, and
the loop goes on with the next one.  What the rows of other tables hold is left
to `PDSStore`; `saved[d][k]` counts the transactions of kind `k` that were
committed for `d`.  `handleComplete` looks only at distributions that are
complete, which no other step changes, and is left out.  `order` are the
contracts by `updated_at`: those that were saved last come last, in any order
among themselves (`SavedLast`), since their timestamps may be equal.

The locks are the database's.  `ReadLocks = TRUE` is SQLite, the default of
`config.go`: who reads keeps others from committing, one session writes at a
time, and the one that cannot go on gets "database is locked" (`PollerBusy`,
`AbortBusy`).  `ReadLocks = FALSE` is PostgreSQL, which `docker-compose.yml`
uses, or MySQL: only a row that was written is locked.

**DistributionCreation.**  One request of each client goes through `Receive`
(validation and `Resolve`, which touch nothing shared), `InsertBatch` and
`Commit`.  `MaxInt` is the largest `int`, so `UInt` is what a `uint` can be, and
`Signed` is Go's `int(...)`; an index or a length out of range is a panic, and
the answer "broken".  A draw is a permutation per bucket (`Orders`).  Two
assumptions name the machine: no slice is longer than `MaxAlloc`, and a service
that has received the collections of a request can allocate a slice of as many
entries (`RequestsFit`).  Salt and commitment hash of a pack stand for
its content and are left out.

**DistributionLife, TransactionLife.**  The abstract specifications.
`DistributionLife` has the six stages, `Advance(i, D)` for the handler of stage
`i`, and `Abort`.  `TransactionLife` bounds the runs of a script by the number of
times the service was interrupted, and gives each row one answer: "complete" for
a run that succeeded, "failed" for one that did not, or because the node has
refused what was sent last (`refused`).  It does not say that a refused
transaction never runs, since a node may return an error for one that it took.

### Abstractions

- A block seals at most one transaction of the system, so the blocks of the
  model are ordered as the transactions of the code are, and `Cardinality` of a
  set of events counts events.
- A handler is one step and sees one height.  In the code each distribution of
  a handler asks for the height again; a height that grows in between is a
  later poll for the second distribution.
- A handler that is rolled back is a step that is not taken.
- Handlers and HTTP requests are atomic in `PDSService`.  `PollerLoop` justifies
  this for a database with read locks; under row locks an abort can be
  overwritten (`overwrite`), which no module but `PollerLoop` has.
- In `PDSService` the queue is a set of records.  A member executes once, at any
  time, in any order, or is lost (`Lossy`).  `TransactionQueue` shows when that is
  what the code does (`SavedOnce`) and when not (`twice`).
- Pack contents are in one collectible contract.
- The collection that `SetupDistribution` sets up exists from the start, and
  capabilities are granted.
- A commitment hash is unique to its pack (a random salt of 256 bits).
- GORM ignores zero values in a struct condition, so `GetMintingPack` finds a
  pack by its hash whatever its `FlowID` is, and
  `NotSettledCollectiblesInBatches` returns settled ones too.  `MintingFails`
  and `SettlingFails` say what follows.

## What is checked

The runs of the service use `MCPDSService`, those of the queue
`MCTransactionQueue`.  What others may do is given by constants, each a finite
set: `Sales` are the transfers of packs (`<<from, to>>`), `Moves` the
collectibles that an account sends by hand, `Disclosed` the packs whose salt
somebody other than the service knows, `Abortable` the distributions an operator
may abort.  Bounds are constants too: `MaxRequests` is the number of requests of
one type for one pack, and `MaxHeight` the height up to which other applications
add empty blocks and an abort is repeated.  The service itself is not bounded,
and all it does ends when all packs are opened.

| run | instance | shows |
| --- | --- | --- |
| `one_pack` | one pack of two collectibles, batches of one, losses, abort, one sale, a disclosed salt, one request of each kind, a collectible that the issuer sends to the escrow by hand and the buyer of the opened pack sends back | `TypeOK`; `StoreFollowsLedger`: ids, hashes and states in the database are those of the contract; `NoEventSkipped`: events up to the cursor were handled; `ReleaseRequested`: the escrow releases to an account that asked as the owner; `EscrowBacked`: a pack that is not opened has its collectibles in escrow; `UnknownNotComplete`: an event of a pack that is not sealed in the database belongs to a distribution that is minting or invalid; `PacksMoveForward` |
| `two_dists` | two distributions with their own contracts, one of two packs in one batch, one block per poll, abort, nothing lost | `NoMintSkipped`; `CompleteMeansSealed`; `Consistent`, the invariant of the proofs; `ImplementsLife`; `DistributionsEnd` |
| `answers` | one pack, one sale, a disclosed salt, nothing lost, requests once | `PollNeverStuck`: no event of a sealed pack finds it in an unexpected state; `RequestsAnswered`, `OpeningAnswered` |
| `queue` | one row and one request, two keys, a restart, every failure | `OneHolder`: a locked key has exactly one holder; `SavedOnce`: the attempts that a row knows of run at most once; `ImplementsLife`: a run more for each interruption at most, "complete" only after a run that succeeded, "failed" only after one that did not or a refusal; `QueueTypeOK` |
| `restart` | two rows and one request, one key, a restart, nothing lost | `KeyHeldUntilFinal`; `NoGap`: numbers do not run ahead of the chain; `RowsEnd`, `KeysReturn` |
| `loop` | two distributions, a request to abort for each, two contracts of which a poll reads one, read locks, one error anywhere | `AbortHolds`: an abort that was answered with Ok is not overwritten; `SavedWithState`: states and transactions are committed together and once; `ImplementsLife`; `LoopEndsDistributions`; `ContractsPolled`: no contract is starved by the limit; `LoopTypeOK` |
| `resolving` | every number of packs and every count of five bits for one bucket of four collectibles, and templates of two and three buckets, with null, repeated and wrapping values | `AllOrNothing`; `EachOnce`; `AcceptsExactly`: the validation agrees with arithmetic that does not wrap; `FollowsTemplate`; `FairDraw`: each way to fill the slots comes from as many permutations; `CreationTypeOK` |
| `rewind`, `overlap`, `duplicate`, `twice`, `overwrite` | see below | violations |

Two collectibles in batches of one are the smallest numbers at which a batch
fails alone and a deposit completes a settlement with another one missing; two
accounts are enough for a pack to change hands between a request and its answer.
`MaxBlocksPerCheck` is 0 or 1, that is one or two blocks per poll, so that a poll
ends before the latest block and events of one pack lie both in one range and in
several.  Two distributions are enough for one to count what belongs to the
other.  In the queue, two keys let a sender take a second key while the first is
in use, one key makes all senders wait for each other, and `MaxSends` leaves room
for a retry in `queue`; in `restart` it is larger than what two rows and a
restart need, which `RowsEnd` confirms, since a bound that is reached would
leave a row.

In `loop`, two distributions are enough for an error or an abort of one to undo
or overtake the other in the same function, two contracts with a limit of one
stand for eleven with a limit of ten, and `MaxErrors` is one since each error
leads back to a state that the loop has without it, with the loop one function
further.  In `resolving`, `MaxInt = 15` makes numbers of five bits, whose
products wrap up to thirty times, and every pair of a count of packs and a count
of collectibles is tried; `MaxAlloc`, the length of a list that the machine can
allocate, is as large as the assumptions allow.

Each property is also run against a mutated definition that it has
to reject.

No run checks for deadlock: a service whose distributions are all complete or
invalid and whose packs are all opened has nothing left to do.

### Fairness

`Fairness` is weak fairness of each handler, of `PollCirculating` and of
`ExecuteTx`.  The ticker in `poller` runs the nine functions in sequence as long
as the process lives, an error of one does not keep the next from running
(`logPollerRun`), and `handleSendableTransactions` sends the oldest row first, so
that a handler that can do something does it in the end, and each saved
transaction is sent.  Nothing is assumed of owners, issuers, other applications
or the HTTP API.  The liveness runs set `Lossy = FALSE`: they show that the
protocol between the handlers has no gap when transactions execute, not that a
lost transaction is recovered, because the code never sends one again.
`ExecuteTx` as a whole is fair, and the set it draws from is finite and every
execution shrinks it.

In `TransactionQueue` the poller, the goroutines and the network are weakly fair;
`Refuse`, `GiveUp`, `CommitFails`, `Expire` and `Crash` are not, and new rows and
requests need not come.  Weak fairness is enough for a lock because each request
takes a key once.  The liveness run has a restart but no other failure: with one,
the properties fail, as the hazards say (a number that is never used makes every
later transaction of its key invalid until the next restart, and an expired
transaction never gives its key back).

In `PollerLoop` the steps of the loop are weakly fair together, as the loop is
one goroutine that always does the next thing; so are the steps of each request
that was accepted, the execution of what was saved, and new blocks.  Errors are
not, and there are `MaxErrors` of them: a database that always fails ends
nothing.  The loop has no step that waits for a lock: who cannot go on gets an
error, and `LoopEndsDistributions` shows that the loop and the requests do not
keep each other busy for ever.

### Where the code and its documents differ

- `rewind`: `StartMinting` sets the cursor of a contract that circulates already
  back to the latest height minus one.  The comment says that this does not
  happen in production; it happens when a second distribution of a contract
  starts minting while the poll of the contract is up to date.  The next poll
  reads a block again, and an event in that block stops the poll.
- `overlap`: nothing keeps a collectible from being listed in two distributions
  (a client that repeats a request whose answer got lost is enough), and one
  deposit settles both.  Two packs claim the collectible, and the second can
  never be opened.
- `duplicate`: a second request to reveal the same pack, before the first is
  answered, stops the poll of all contracts for good.
- `twice`: the row is saved before the transaction is sent but committed after
  it, so a process that stops in between sends the transaction again, and its
  script runs twice.
- `overwrite`: with row locks, a handler that has listed a distribution before it
  is aborted saves its copy after the abort was answered with Ok.  The
  distribution goes on while the chain is told that it is invalid.

Met while modelling, and not the subject of a run:

- `UpdateMintingStatus` counts every mint of a PackNFT contract whose hash is in
  the database, also one of another distribution: with a shared contract a
  distribution can become complete with packs that are not sealed.  This is why
  `CompleteMeansSealed` is checked for contracts of their own.
- The transactions that an aborted distribution has saved are still sent, and
  packs of an invalid distribution are minted.  Nothing seals them in the
  database, so a request of an owner of such a pack is an error
  (`contract_service.go:896`) that rolls back the poll of every contract, on
  every later poll.  `PollNeverStuck` is about sealed packs only;
  `UnknownNotComplete` says that no complete distribution has such events.
- `SendTransaction` may return an error for a transaction that the node took, an
  answer that is lost being enough.  The row is saved as failed
  (`poller.go:261-273`), the script runs, and nobody reads its result: a mint
  that succeeded has "failed".  `TransactionLife` allows this, and only this: no
  row is complete without a run that succeeded, and one that was not refused is
  failed only after a run that failed.
- A second deposit of a collectible, while its settlement waits for others, is an
  error (`contract_service.go:613`) that rolls back the settling of every
  distribution, on every later poll.  `EscrowBacked` shows only that it is not
  counted twice; no property says that settling goes on.
- Two counts above the largest `int` can cancel each other: buckets of 2^63,
  2^63 and 1 pass the validation and give packs of one slot.  The properties of
  `resolving` exclude negative counts where they say so.
- `src/models/Bucket-Create.yaml:11` asks for collections without repeated
  entries, which nothing checks; `EachOnce` is about templates that follow it.
- The loop over collectible contracts at `contract_service.go:303` lists the ids
  of a whole batch for each contract.  It cannot go wrong through the HTTP API,
  which gives all buckets of a template the same contract (`types.go:134`).

## What is proved

For every value of the constants that satisfies the assumptions of the modules:

| theorem | statement |
| --- | --- |
| `PDSServiceProofs!TypeCorrect` | `Spec => []TypeOK` |
| `PDSServiceProofs!DatabaseFollowsLedger` | `Spec => []StoreFollowsLedger` |
| `PDSServiceProofs!AlwaysConsistent` | `Spec => []Consistent` |
| `PDSServiceProofs!PacksNeverGoBack` | `Spec => PacksMoveForward` |
| `PDSServiceProofs!NoEventEverSkipped` | `Spec => []NoEventSkipped` |
| `PDSServiceProofs!ServiceImplementsLife` | `Spec => ImplementsLife` |
| `PDSMintingProofs!MintInvariant` | `Spec => []MintInv` |
| `PDSMintingProofs!NoMintEverSkipped` | `Spec => []NoMintSkipped` |
| `PDSMintingProofs!UnknownNeverComplete` | `OwnContracts` implies `Spec => []UnknownNotComplete` |
| `PDSMintingProofs!CompleteIsSealed` | `OwnContracts` implies `Spec => []CompleteMeansSealed` |
| `PDSEscrowProofs!ReleasesRequested` | `Spec => []ReleaseRequested` |
| `PDSEscrowProofs!EscrowIsBacked` | `DisjointContents` implies `Spec => []EscrowBacked` |
| `PDSPollingProofs!PollInvariant` | `OwnContracts /\ MaxRequests <= 1` implies `Spec => []PollInv` |
| `PDSPollingProofs!PollAlwaysGoesOn` | `OwnContracts /\ MaxRequests <= 1` implies `Spec => []PollNeverStuck` |
| `PDSPollingProofs!CursorsMoveForward` | `OwnContracts` implies `Spec => CursorMovesForward` |
| `TransactionQueueProofs!QueueTypeCorrect` | `Spec => []QueueTypeOK` |
| `TransactionQueueProofs!LockHasOneHolder` | `Spec => []OneHolder` |
| `TransactionQueueProofs!QueueInvariant` | `Spec => []QueueInv` |
| `TransactionQueueProofs!SavedRunOnce` | `Spec => []SavedOnce` |
| `TransactionQueueProofs!KeysHeld` | `Faulty = FALSE` implies `Spec => []KeyHeldUntilFinal` |
| `TransactionQueueProofs!NumbersMeetChain` | `Faulty = FALSE` implies `Spec => []NoGap` |
| `TransactionQueueLifeProofs!QueueImplementsLife` | `Spec => ImplementsLife` |
| `PollerLoopProofs!LoopTypeCorrect` | `Spec => []LoopTypeOK` |
| `PollerLoopProofs!CopiesCurrent` | `ReadLocks` implies `Spec => []LoopInv` |
| `PollerLoopProofs!AbortsHold` | `ReadLocks` implies `Spec => []AbortHolds` |
| `PollerLoopProofs!StatesSavedOnce` | `ReadLocks` implies `Spec => []SavedWithState` |
| `PollerLoopProofs!LoopImplementsLife` | `ReadLocks` implies `Spec => ImplementsLife` |
| `DistributionCreationProofs!CreationTypeCorrect` | `Spec => []CreationTypeOK` |
| `DistributionCreationProofs!CreatedWhole` | `Spec => []AllOrNothing` |
| `DistributionCreationProofs!DrawnOnce` | `Spec => []EachOnce` |
| `DistributionCreationProofs!AnswersTrue` | `Spec => []AnswersOK` |
| `DistributionCreationProofs!AcceptsExactlyMeaningful` | `Spec => []AcceptsExactly` |
| `DistributionCreationProofs!StoredFollowsTemplate` | `Spec => []FollowsTemplate` |
| `DistributionCreationProofs!DrawIsFair` | `Spec => []FairDraw` |

These are all the type and safety invariants, the action property and the three
refinements that the passing runs check.

Some theorems need more than the assumptions of the modules, and a run or a hazard
shows for each what happens without it:

- `OwnContracts`, no PackNFT contract belongs to two distributions, is what the
  code expects of production (the comment at `contract_service.go:385`);
  `rewind` shows a cursor that goes back when it is not so.
- `DisjointContents`, no collectible is in two packs, is what `DrawnOnce` gives
  for one distribution whose collections have no entry twice; between
  distributions nothing checks it, which is `overlap`.
- `MaxRequests <= 1`, owners ask once for each pack, is refuted by `duplicate`.
- `Faulty = FALSE`, no node refuses, no transaction expires and no commit fails,
  for the two theorems about numbers and keys of the queue.  Restarts are
  allowed.  When something fails a number is left out or a key stays locked, as
  the hazards say.
- `ReadLocks` is the default database; `overwrite` is without.

**The service.**  The assumptions say what resolving and inserting a
distribution guarantee: each pack is in one distribution, each distribution has
a row for each pack and each collectible of its packs, and the batch sizes are
positive.  They do not say that distributions have contracts of their own, that
nothing is lost, or that owners ask once: the theorems of `PDSServiceProofs`
hold for shared contracts, after a rewind of a cursor and with every loss.

`StoreFollowsLedger` is not inductive.  A handler believes an event, so the
invariant must say that events are true, now and later (`ChainTrue`): a mint
event names a pack that exists with that hash in the contract of its
distribution, a Revealed event a pack that is not sealed, an Opened event a pack
that is opened.  That the hash of a mint is of a pack of the contract needs the
same of mint transactions that wait in the queue (`MintsOwnPacks`).  A handler
reads from the start of a row, which exists (`RowsExist`), and a pack that is
not sealed has no id (`UnsealedHasNoID`), so that sealing never overwrites one.
`Consistent` is their conjunction, `Inv == TypeOK /\ Consistent` is inductive
(`Invariant`), which TLC confirms on `two_dists`, and the proof has one lemma
for each action (`...KeepsInv`).  The contract side rests on the `...Sealed`
lemmas: a block that is appended changes no earlier event and no id, and no
status goes back.

`PacksNeverGoBack` follows from `Inv` and from `PolledStateMoves`: a pass of the
poll that is no error raises the rank of a state or leaves it.
`NoEventEverSkipped` adds `CursorsInTime`: a cursor is never beyond the chain,
and a contract has a row before its first pack can be minted, so a new cursor
has no event behind it.

`ServiceImplementsLife` needs no invariant: each handler takes a subset of the
distributions that it finds in its stage, and the check of `SetInvalid` is the
guard of `Life!Abort`.

**Minting.**  `MintInv` says that a pack has one chance: until its distribution
mints, it is neither on the chain nor in a transaction that waits
(`EarlyUnminted`); it is in one transaction at most (`EachToMintOnce`), not when
it is on the chain already (`MintedIsDone`), and it is there once
(`EachMintedOnce`).  Every clause holds for shared contracts, losses and aborts.
So a mint event is the only one of its pack.  `MintCursors` adds that the cursor
of a minting is never beyond the chain; when it is set, `EarlyUnminted` says
that no mint is behind it, which gives `NoMintSkipped`.  For
`CompleteMeansSealed` the counter must be right: `MintCounts` says that it is
the number of the packs of the distribution that are sealed, which only holds
when the events of the contract are those of one distribution; a distribution is
complete when this number is that of all of its packs.  `UnknownNotComplete`
follows: a pack with an event was minted, so its distribution is past resolving,
and a complete one has sealed all of its packs.

**The escrow.**  `ReleaseRequested` is inductive with `OpenTxsAsked`: a
transaction that waits and may open a pack gives its collectibles to an account
that had asked for it as the owner, whoever owns the pack by now.
`EscrowBacked` needs to know where the service's belief comes from: what the row
of a settlement counts was deposited, and counted once (`SettlementCounts`); so
the collectibles of a settled distribution were all deposited
(`SettledDeposited`), and those of a pack that is minted or waits to be
(`MintsDeposited`).  What was deposited is held until the pack is opened
(`DepositsHeld`), because only opening a pack that contains a collectible
releases it, and with disjoint contents there is one such pack.

**The poll.**  A poll reads a range once for each of four types of events, in an
order of its own, so it is not enough to say that each event is handled at the
right time.  `PollInv` says that the events of a pack happen once and in order
on the chain: a pack is revealed after this was asked for, and only then is it
asked for to be opened, or opened (`EventsInOrder`, with `RevealTxsAsked` for
what is still in the queue).  A row is never ahead of the cursor: a row that is
"revealed" has its Revealed event before the cursor, and so on (`RowsRead`).
`NoEventSkipped` says the converse, that no row is behind.  Together they say
which events the range can hold, and each of the passes finds the state that it
expects (`PollExpected`).  `MaxRequests <= 1` is what makes a request happen
once, `OwnContracts` what keeps the cursor from going back
(`EarlyNotCirculating`: before a distribution mints, its contract does not
circulate).

**The queue.**  `Base` are the types with what a sender works on: the attempt
that the poller has in flight is not known to its row, which may still be sent.
`LocksOK` is the one-to-one relation between locked keys and their holders,
which are senders or goroutines that wait.  `RowsOK` relates rows and attempts:
a row names an attempt that was made for it, an attempt that was saved is the
one its row names or is dead, that is, it expired or its number was wrong; and a
row is sent again only when the attempt that it names is dead.  `DeadStay` says
that the network revives none, and `BlockOK` that a block has each transaction
once.  Their conjunction is `QueueInv`, inductive with every failure, and
`SavedOnce` follows: two attempts of a row that have run would both be the last.

When nothing fails more can be said (`Lossless`).  An attempt of the running
process that is not in a block yet is tended by its sender or a goroutine
(`PendingOK`), which has the key by `LocksOK`, so nobody else uses the key
before (`KeyHeldUntilFinal`).  `NumbersOK` follows the numbers of a key from the
chain on: each number from that of the chain to one that was given out belongs
to an attempt in the block, or to the one sender or attempt that has the key;
hence a sender that has locked a key continues where the block ends, also after
a restart has forgotten the numbers.  `RunsOK` tells the attempts of this
process from those of earlier ones.

`QueueImplementsLife` maps the rows to `TransactionLife`: the runs of a row are
its attempts that were executed or reverted, its interruptions the attempts that
no row knows of (`Orphans`), its answer the final state of the row, and it is
refused while the poller has it in flight with an error of the node
(`Refusals`).  A step that
runs an attempt finds, by `RowsOK`, that every other run of the row is of an
orphan, and one interruption is counted for each; a result is taken from the
attempt that the row names, and a row fails without one only when its refusal is
committed.  All other steps leave the five abstract variables alone, lemma by
lemma.

**The loop.**  What a handler has listed could have changed before it commits.
`LoopInv` says that it has not: what the open transaction works on is still in
the stage it was listed for (`PollerCurrent`), and a request that has read a row
may still abort it (`AbortCurrent`).  This is inductive under `ReadLocks`, where
nobody commits while somebody else reads (`CopiesCurrent`).  The commit of a
handler is then a step of `DistributionLife`, which is `LoopImplementsLife`;
that no Ok is overwritten needs in addition that a distribution is invalid
exactly if a request was answered (`InvalidByAbort`), and `SavedWithState` is
inductive together with `LoopInv`.  Without `ReadLocks` the run `overwrite`
refutes it.  The theorems hold for any number of errors.  `LoopTypeOK` holds
with or without `ReadLocks`: a poll takes contracts from the order and puts the
same ones back (`SavedLast`), and only a handler has a transaction open
(`TypeInv`).

**Creation.**  `CreationInv` says that the packs of a request that was resolved
are a `Resolution`: they come from one draw, no index was out of range, and no
slot is empty.  Such packs have the lengths of the template (`ResolutionShape`),
whatever these wrap to.  A slot that is not empty was filled by a pick of a
bucket (`CollectibleOfPick`, which needs that a set of bucket numbers has a
largest one, from the well-foundedness of the naturals); the pick and the bucket
determine the slot, and an entry that is listed once has one place in one draw,
so `EachOnce` follows without saying that the slots of buckets are disjoint.
The recursion of `SlotBase` is used through its equations only (`SlotBaseSums`),
and induction over the buckets is replaced by the smallest one for which a
statement fails (`SmallestExists`).

`AcceptsExactly` is about arithmetic that wraps.  One half: a request that is
resolved is meaningful.  Its pack count fits, since the packs were allocated; so
the number of entries to draw is a `uint` (`DrawnFromBucket`), and as an `int`
it is the same or negative.  Were it negative, nothing would be drawn from the
bucket, and its slots would be empty, which `Pack.Validate` refuses
(`ResolutionMeaningful`): so the check of the size compared the true number.
The other half: no number of a meaningful request wraps, also not the sum of the
counts over all buckets, since there are at most as many slots as entries
(`SlotsAdd`, from `RequestsFit`); no index is out of range (`MeaningfulNoPanic`)
and every slot is filled (`MeaningfulFilled`). `FollowsTemplate` needs that the
slots of different buckets are disjoint (`SlotsOfBuckets`), so that what is in a
slot was drawn from its bucket.

`FairDraw` counts.  The picks of a bucket correspond one to one to its slots in
all packs (`PicksFillSlots`).  Two ways to give entries to the slots differ by a
permutation of the entries (`PermutationBetween`), and renaming by it takes the
orders that lead to the one to orders that lead to the other, so both come from
equally many (`FibresAsLarge`); the orders are divided into such parts, one for
each way (`EqualParts`, `FairCount`).

**Only model-checked** are the liveness properties `DistributionsEnd`,
`RequestsAnswered`, `OpeningAnswered`, `RowsEnd`, `KeysReturn`,
`LoopEndsDistributions` and `ContractsPolled`: fairness and ENABLED are out of
the prover's reach.

## What is not modelled

- HTTP routing, reading requests, configuration, signing and encoding: no state.
- The setting up of accounts and the script of `SetDistCap`: one transaction
  each, sent as `TransactionQueue` has it.
- Distributions with several collectible contracts, which a request cannot ask
  for.
- The insertion of settlements and mintings in batches inside of a handler's
  database transaction: only the result is seen by others.  (That of packs is in
  `DistributionCreation`.)
- Google KMS and the rate limit of sending; two processes on one database, which
  the documentation excludes.
- The salt of a pack and the quality of `math/rand`: a draw takes any
  permutation.  That a seed from the clock can be guessed is not a property of
  the states.

## Plan

1. The life of a pack as an abstract specification, with `PDSService` shown to
   implement it: `PollInv` is the invariant that it needs.
2. `PollerLoop` with `ReadLocks = FALSE` and a request to abort that locks its row
   when it reads it, as a repair that restores the theorems.
3. A poll that skips an event it does not expect instead of failing, as a repair
   for which `PollNeverStuck` needs no assumption about owners.
4. The handlers of `PDSService` split where each distribution asks for the height
   of the chain again.
