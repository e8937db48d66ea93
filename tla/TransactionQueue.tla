--------------------------- MODULE TransactionQueue ---------------------------
(* The queue that sends the transactions of the service: the rows that the  *)
(* handlers save, the proposal keys and their sequence numbers, the poller  *)
(* that sends a row and reads its result, the goroutine that waits with the *)
(* key, and requests of the HTTP API that send a transaction of their own.  *)
EXTENDS Integers, SequencesExt

CONSTANTS
  Rows,       \* the transactions that handlers save
  Callers,    \* the requests to set a capability, each made once
  Poller,     \* the goroutine of the poller
  NumKeys,    \* the number of proposal keys
  Faulty,     \* whether the node or the database may fail, or lose things
  MaxSends,   \* bound: nobody starts to send after so many attempts or numbers
  MaxCrashes  \* bound: how often the process stops

ASSUME QueueAssumption ==
  /\ NumKeys \in Nat \ {0}
  /\ MaxSends \in Nat /\ MaxCrashes \in Nat
  /\ Faulty \in BOOLEAN
  /\ Poller \notin Callers
  /\ Rows \cap Callers = {}

VARIABLES
  row,       \* table transactions: state and the attempt that TransactionID names
  order,     \* the rows that are not at an end, by updated_at
  locked,    \* keys whose mutex is locked
  lastSeq,   \* lastAccountKeySeqNumber
  work,      \* how far each sender is with a transaction
  waiting,   \* attempts for which a goroutine is in WaitForFinalize
  attempt,   \* transactions given to the network, in the order of sending
  block,     \* attempts in finalized blocks that are not executed yet
  chainSeq,  \* sequence number of each key on the chain
  crashes    \* how often the process has stopped

memory == <<locked, lastSeq, work, waiting>>
network == <<attempt, block, chainSeq>>
vars == <<row, order, memory, network, crashes>>

Keys == 1..NumKeys
Senders == Callers \cup {Poller}
NotRead == -1
Idle == [phase |-> "idle", job |-> Poller, key |-> 0, seq |-> 0, id |-> 0]
Attempts == DOMAIN attempt

(***************************************************************************)
(* Rows.                                                                   *)
(***************************************************************************)
(* Mutant: a transaction to retry is forgotten.                             *)
SendableNew == {"init"}
Sendable == {"init", "retry"}

(* The query takes the row in one of the states that was updated first.     *)
IsNext(r, states) ==
  \E i \in DOMAIN order :
    /\ order[i] = r /\ row[r].state \in states
    /\ \A j \in 1..(i - 1) : row[order[j]].state \notin states

(* Save gives the row a new updated_at, and no query finds a row at its end. *)
Dropped(r) == RemoveFirst(order, r)
Touched(r) == Append(Dropped(r), r)
SaveRow(r, state, id) ==
  /\ row' = [row EXCEPT ![r] = [state |-> state, id |-> id]]
  /\ order' = IF state \in {"failed", "complete"} THEN Dropped(r) ELSE Touched(r)

(* A handler or a request saves a new transaction.                          *)
Enqueue(r) ==
  /\ row[r].state = "none"
  /\ SaveRow(r, "init", 0)
  /\ UNCHANGED <<memory, network, crashes>>

(***************************************************************************)
(* Preparing: read the account, look for a key, lock it, take a number.    *)
(***************************************************************************)
FirstUnlocked == CHOOSE k \in Keys \ locked : \A j \in Keys \ locked : k <= j

(* GetAccount, then the check of Next.  Without an unlocked key the sender  *)
(* returns ErrNoAccountKeyAvailable.                                        *)
Look(s, job) ==
  /\ work[s].phase = "idle"
  /\ Len(attempt) < MaxSends /\ \A k \in Keys : lastSeq[k] < MaxSends
  /\ Keys \ locked # {}
  /\ work' = [work EXCEPT ![s] =
       [Idle EXCEPT !.phase = "looked", !.job = job, !.key = FirstUnlocked,
                    !.seq = chainSeq[FirstUnlocked]]]
  /\ UNCHANGED <<row, order, locked, lastSeq, waiting, network, crashes>>

PollerLooks == \E r \in Rows : IsNext(r, Sendable) /\ Look(Poller, r)

(* Mutant: the number of the chain counts as used.                          *)
NextNumberAhead(k, onChain) ==
  IF lastSeq[k] = NotRead THEN onChain + 1 ELSE lastSeq[k] + 1

NextNumber(k, onChain) ==
  IF lastSeq[k] = NotRead THEN onChain ELSE lastSeq[k] + 1

(* Mutant: a key that was seen unlocked is taken.                           *)
LockAnyway(s) ==
  LET k == work[s].key
      n == NextNumber(k, work[s].seq)
  IN /\ work[s].phase = "looked"
     /\ locked' = locked \cup {k}
     /\ lastSeq' = [lastSeq EXCEPT ![k] = n]
     /\ work' = [work EXCEPT ![s].phase = "ready", ![s].seq = n]
     /\ UNCHANGED <<row, order, waiting, network, crashes>>

(* Lock blocks while another sender that saw the key unlocked has it.       *)
Lock(s) ==
  LET k == work[s].key
      n == NextNumber(k, work[s].seq)
  IN /\ work[s].phase = "looked"
     /\ k \notin locked
     /\ locked' = locked \cup {k}
     /\ lastSeq' = [lastSeq EXCEPT ![k] = n]
     /\ work' = [work EXCEPT ![s].phase = "ready", ![s].seq = n]
     /\ UNCHANGED <<row, order, waiting, network, crashes>>

Finished(s) ==
  [work EXCEPT ![s] = [Idle EXCEPT !.phase = IF s = Poller THEN "idle" ELSE "done"]]

(* An error of signing or saving: everything is rolled back but the number. *)
(* The poller does not stop for an error of SendTransaction unless it fails *)
(* to save it, a request always does.                                       *)
GiveUp(s) ==
  /\ \/ work[s].phase = "ready" /\ Faulty
     \/ work[s].phase = "refused"
  /\ locked' = locked \ {work[s].key}
  /\ work' = Finished(s)
  /\ UNCHANGED <<row, order, lastSeq, waiting, network, crashes>>

(***************************************************************************)
(* Sending.                                                                *)
(***************************************************************************)
Give(s, phase, state) ==
  /\ work[s].phase = "ready"
  /\ attempt' = Append(attempt,
       [job |-> work[s].job, key |-> work[s].key, seq |-> work[s].seq,
        run |-> crashes, state |-> state, saved |-> FALSE])
  /\ work' = [work EXCEPT ![s].phase = phase, ![s].id = Len(attempt) + 1]
  /\ UNCHANGED <<row, order, locked, lastSeq, waiting, block, chainSeq, crashes>>

Transmit(s) == Give(s, "sent", "pending")

(* SendTransaction returns an error; the transaction may have arrived.      *)
Refuse(s) ==
  /\ Faulty
  /\ \E state \in {"pending", "unknown"} : Give(s, "refused", state)

(* The row is saved as sent, or as failed; in both cases a goroutine waits. *)
Commit ==
  LET w == work[Poller] IN
  /\ w.phase \in {"sent", "refused"}
  /\ SaveRow(w.job, IF w.phase = "sent" THEN "sent" ELSE "failed", w.id)
  /\ attempt' = [attempt EXCEPT ![w.id].saved = TRUE]
  /\ waiting' = waiting \cup {w.id}
  /\ work' = Finished(Poller)
  /\ UNCHANGED <<locked, lastSeq, block, chainSeq, crashes>>

(* The database transaction fails at its end, after the goroutine started.  *)
CommitFails ==
  LET w == work[Poller] IN
  /\ Faulty
  /\ w.phase \in {"sent", "refused"}
  /\ waiting' = waiting \cup {w.id}
  /\ work' = Finished(Poller)
  /\ UNCHANGED <<row, order, locked, lastSeq, network, crashes>>

(***************************************************************************)
(* Waiting.                                                                *)
(***************************************************************************)
Ran == {"executed", "reverted"}
Sealed == Ran \cup {"badSeq"}

Unlock(a) ==
  /\ a \in waiting
  /\ locked' = locked \ {attempt[a].key}
  /\ waiting' = waiting \ {a}
  /\ UNCHANGED <<row, order, lastSeq, work, network, crashes>>

(* Mutants: a first result ends the wait, and only a success ends it.        *)
WaitEndsEarly(a) == attempt[a].state # "unknown" /\ Unlock(a)
WaitEndsWell(a) == attempt[a].state = "executed" /\ Unlock(a)

(* WaitForFinalize: not finalized, expired and unknown keep it waiting.      *)
WaitEnds(a) ==
  /\ attempt[a].state \in Sealed \cup {"final"} \/ Faulty
  /\ Unlock(a)

(* A request waits for the seal, an error, the expiry or its timeout.        *)
CallerEnds(c) ==
  /\ work[c].phase = "sent"
  /\ attempt[work[c].id].state \in Sealed \cup {"expired"} \/ Faulty
  /\ locked' = locked \ {work[c].key}
  /\ work' = Finished(c)
  /\ UNCHANGED <<row, order, lastSeq, waiting, network, crashes>>

(* Mutants: a result that is not there yet is an error, or a failure; the    *)
(* status of the network becomes the state; the error of a sealed            *)
(* transaction is not read.                                                  *)
StateAfterHasty(result) ==
  CASE result = "executed" -> "complete"
    [] result \in {"badSeq", "expired"} -> "retry"
    [] OTHER -> "failed"
StateAfterSealed(result) ==
  CASE result \in Ran -> "complete"
    [] result \in {"badSeq", "expired"} -> "retry"
    [] OTHER -> "sent"
StateAfterImpatient(result) ==
  CASE result = "executed" -> "complete"
    [] result = "reverted" -> "failed"
    [] OTHER -> "retry"
StateAfterExpired(result) ==
  CASE result = "executed" -> "complete"
    [] result = "reverted" -> "failed"
    [] result = "badSeq" -> "retry"
    [] result = "expired" -> "expired"
    [] OTHER -> "sent"

StateAfter(result) ==
  CASE result = "executed" -> "complete"
    [] result = "reverted" -> "failed"
    [] result \in {"badSeq", "expired"} -> "retry"
    [] OTHER -> "sent"

(* The result of the oldest sent row, which is saved in any case.            *)
HandleResult ==
  /\ work[Poller].phase = "idle"
  /\ \E r \in Rows :
       /\ IsNext(r, {"sent"})
       /\ SaveRow(r, StateAfter(attempt[row[r].id].state), row[r].id)
  /\ UNCHANGED <<memory, network, crashes>>

(***************************************************************************)
(* The network.                                                            *)
(***************************************************************************)
Finalize(a) ==
  /\ attempt[a].state = "pending"
  /\ attempt' = [attempt EXCEPT ![a].state = "final"]
  /\ block' = Append(block, a)
  /\ UNCHANGED <<row, order, memory, chainSeq, crashes>>

Expire(a) ==
  /\ Faulty
  /\ attempt[a].state = "pending"
  /\ attempt' = [attempt EXCEPT ![a].state = "expired"]
  /\ UNCHANGED <<row, order, memory, block, chainSeq, crashes>>

(* The script runs if the number is the one of the key, and uses it up.      *)
Execute ==
  /\ block # <<>>
  /\ LET a == Head(block)
         k == attempt[a].key
     IN IF attempt[a].seq = chainSeq[k]
        THEN /\ \E state \in Ran : attempt' = [attempt EXCEPT ![a].state = state]
             /\ chainSeq' = [chainSeq EXCEPT ![k] = @ + 1]
        ELSE /\ attempt' = [attempt EXCEPT ![a].state = "badSeq"]
             /\ UNCHANGED chainSeq
  /\ block' = Tail(block)
  /\ UNCHANGED <<row, order, memory, crashes>>

(* The process stops and starts again: what it did not commit is rolled back. *)
(* A node that does not answer GetLatestBlockHeader or GetAccount has this    *)
(* effect too: Prepare returns no function to unlock, and the poller calls it. *)
Crash ==
  /\ crashes < MaxCrashes
  /\ crashes' = crashes + 1
  /\ locked' = {}
  /\ lastSeq' = [k \in Keys |-> NotRead]
  /\ waiting' = {}
  /\ work' = [s \in Senders |-> IF work[s].phase = "idle" THEN work[s] ELSE Finished(s)[s]]
  /\ UNCHANGED <<row, order, network>>

Init ==
  /\ row = [r \in Rows |-> [state |-> "none", id |-> 0]]
  /\ order = <<>>
  /\ locked = {}
  /\ lastSeq = [k \in Keys |-> NotRead]
  /\ work = [s \in Senders |-> Idle]
  /\ waiting = {}
  /\ attempt = <<>>
  /\ block = <<>>
  /\ chainSeq = [k \in Keys |-> 0]
  /\ crashes = 0

Next ==
  \/ \E r \in Rows : Enqueue(r)
  \/ PollerLooks
  \/ \E c \in Callers : Look(c, c)
  \/ \E s \in Senders : Lock(s) \/ Transmit(s) \/ Refuse(s) \/ GiveUp(s)
  \/ Commit
  \/ CommitFails
  \/ \E a \in Attempts : WaitEnds(a) \/ Finalize(a) \/ Expire(a)
  \/ \E c \in Callers : CallerEnds(c)
  \/ HandleResult
  \/ Execute
  \/ Crash

Spec == Init /\ [][Next]_vars

(* The poller goes on, every goroutine runs, and the network makes progress. *)
Fairness ==
  /\ WF_vars(PollerLooks)
  /\ \A s \in Senders : WF_vars(Lock(s)) /\ WF_vars(Transmit(s))
  /\ WF_vars(Commit)
  /\ WF_vars(HandleResult)
  /\ WF_vars(Execute)
  /\ WF_vars(\E a \in Attempts : Finalize(a))
  /\ WF_vars(\E a \in Attempts : WaitEnds(a))
  /\ \A c \in Callers : WF_vars(CallerEnds(c))

FairSpec == Spec /\ Fairness

(***************************************************************************)
(* Properties.                                                             *)
(***************************************************************************)
RowStates == {"none", "init", "sent", "retry", "failed", "complete"}
Phases == {"idle", "looked", "ready", "sent", "refused", "done"}
NetworkStates == Sealed \cup {"pending", "unknown", "final", "expired"}
AttemptRecords == [job : Rows \cup Callers, key : Keys, seq : Nat, run : Nat,
                   state : NetworkStates, saved : BOOLEAN]

(* Every variable has a value of its type: an attempt has a key, and a saved *)
(* id, a waiting goroutine and a block name attempts.                        *)
QueueTypeOK ==
  /\ row \in [Rows -> [state : RowStates, id : Attempts \cup {0}]]
  /\ order \in Seq(Rows)
  /\ locked \subseteq Keys
  /\ lastSeq \in [Keys -> Nat \cup {NotRead}]
  /\ work \in [Senders -> [phase : Phases, job : Rows \cup Senders,
                           key : Keys \cup {0}, seq : Nat, id : Attempts \cup {0}]]
  /\ waiting \subseteq Attempts
  /\ attempt \in Seq(AttemptRecords)
  /\ block \in Seq(Attempts)
  /\ chainSeq \in [Keys -> Nat]
  /\ crashes \in 0..MaxCrashes

HoldersOf(k) ==
  {s \in Senders : work[s].key = k /\ work[s].phase \in {"ready", "sent", "refused"}}
WaitersWith(k) == {a \in waiting : attempt[a].key = k}

(* Whatever fails, a locked key has exactly one holder, the sender that took *)
(* it or the goroutine that it was given to, and a key without one is        *)
(* unlocked: no path of the poller or of a request keeps or drops a lock     *)
(* that is not its own.                                                      *)
OneHolder ==
  \A k \in Keys :
    Cardinality(HoldersOf(k)) + Cardinality(WaitersWith(k)) =
      IF k \in locked THEN 1 ELSE 0

(* Of the attempts of a row that the database knows, at most one runs its    *)
(* script: a retry follows only an attempt that can never run, whatever is   *)
(* lost, rolled back or restarted in between.                                *)
SavedOnce ==
  \A r \in Rows :
    Cardinality({a \in Attempts : /\ attempt[a].job = r
                                  /\ attempt[a].saved
                                  /\ attempt[a].state \in Ran}) <= 1

(* A transaction runs its script at most once.                               *)
AtMostOnce ==
  \A r \in Rows :
    Cardinality({a \in Attempts :
                   attempt[a].job = r /\ attempt[a].state \in Ran}) <= 1

(* When nothing fails, a transaction that is not in a block yet has its key  *)
(* to itself, as long as the process that sent it lives: the next one with   *)
(* the key, and its higher number, comes later in the chain.                 *)
KeyHeldUntilFinal ==
  \A a \in Attempts :
    attempt[a].state = "pending" /\ attempt[a].run = crashes =>
      /\ attempt[a].key \in locked
      /\ \A b \in Attempts : 
           attempt[b].key = attempt[a].key /\ attempt[b].state = "pending"
             /\ attempt[b].run = crashes => b = a

(* When nothing is lost, the numbers that a key has given out and the chain  *)
(* has not seen all belong to transactions on their way, also after a        *)
(* restart: the numbers never run ahead of the chain, which would make every *)
(* later transaction of the key invalid.                                     *)
NoGap ==
  \A k \in Keys : \A n \in chainSeq[k]..lastSeq[k] :
    \/ \E a \in Attempts : /\ attempt[a].key = k /\ attempt[a].seq = n
                           /\ attempt[a].state \in {"pending", "final"}
    \/ \E s \in Senders : work[s].phase = "ready" /\ work[s].key = k /\ work[s].seq = n

(* An attempt that no row names, and none will: the process stopped, or its  *)
(* database transaction failed, after sending it.                            *)
Orphans(r) ==
  {a \in Attempts : attempt[a].job = r /\ ~attempt[a].saved /\ a # work[Poller].id}

RunsWith(r, o) == {a \in Attempts : attempt[a].job = r /\ attempt[a].state = o}

SavedRows == {r \in Rows : row[r].state # "none"}
Runs == [r \in Rows |-> [o \in Ran |-> Cardinality(RunsWith(r, o))]]
Interruptions == [r \in Rows |-> Cardinality(Orphans(r))]
Refusals ==
  {r \in Rows : work[Poller].phase = "refused" /\ work[Poller].job = r}
Answers ==
  [r \in Rows |-> IF row[r].state \in {"complete", "failed"} THEN row[r].state ELSE "none"]

Life == INSTANCE TransactionLife WITH
  saved <- SavedRows, runs <- Runs, interrupted <- Interruptions,
  refused <- Refusals, answer <- Answers

(* However keys, results, retries and restarts interleave, a transaction has *)
(* one run, and one more per interruption that left an orphan, and one       *)
(* answer: "complete" only if a run succeeded, "failed" only if one did not, *)
(* or when the node has just refused it.  The refused one may still run:     *)
(* SendTransaction can return an error for what the node has taken.          *)
ImplementsLife == Life!Spec

(* When nothing is lost, every transaction that is saved comes to an end,    *)
(* also when the process restarts.                                           *)
RowsEnd ==
  \A r \in Rows :
    row[r].state = "init" ~> row[r].state \in {"complete", "failed"}

(* When nothing is lost, every key that is locked is unlocked again.         *)
KeysReturn == \A k \in Keys : k \in locked ~> k \notin locked
=============================================================================
