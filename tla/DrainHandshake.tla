--------------------------- MODULE DrainHandshake ---------------------------
(***************************************************************************)
(* How a drain meets the ingest loop: Coordinator.Drain waits for the      *)
(* workers, then DrainCommitter uses the commitsIn length, the one-token   *)
(* drained channel, a 10ms grace and the committer's mutex to find out     *)
(* that every completion has been ingested, and makes the final commit.    *)
(*                                                                         *)
(* Only how many work items are at each stage matters here, so they are    *)
(* counted.  Committer.mu is held by the ingest loop in the states         *)
(* Locked; every other critical section is one step.                       *)
(***************************************************************************)
EXTENDS Integers

CONSTANTS
  Drains,        \* calls of Coordinator.Drain, by revokes and by Shutdown
  MaxItems,      \* bound: work items delivered in all
  QueueLen,      \* capacity of commitsIn
  ReadBatchSize  \* readBatchSize of the ingest loop

ASSUME DrainAssumption ==
  MaxItems \in Nat /\ QueueLen \in Nat \ {0} /\ ReadBatchSize \in Nat \ {0}

VARIABLES
  delivered,    \* work items handed to workers so far
  working,      \* work items in workers
  commitsIn,    \* work items in the commitsIn channel
  held,         \* work items the ingest loop received but has not ingested
  ingested,     \* work items that have reached their tracker
  committed,    \* work items covered by an accepted commit
  ingest,       \* where the ingest loop is
  batch,        \* work items ingested in the current batch
  drained,      \* whether the drained channel holds its token
  guard,        \* who holds autoCommitGuard: {}, {"tick"} or a drain
  coordinator,  \* the drain that holds Coordinator.mu, if any
  pc,           \* [drain -> where it is]
  result,       \* [drain -> what Drain returned]
  tripped,      \* the circuit breaker was triggered by a drain
  delayed       \* history: [drain -> the places where the scheduler kept the
                \*   ingest loop from running while the drain went on]

itemVars == <<delivered, working, commitsIn, held, ingested>>
drainVars == <<coordinator, pc, result, tripped, delayed>>
vars == <<delivered, working, commitsIn, held, ingested, committed, ingest, batch,
          drained, guard, coordinator, pc, result, tripped, delayed>>

Locked == ingest \in {"batch", "signal", "unlock"}

Init ==
  /\ delivered = 0 /\ working = 0 /\ commitsIn = 0 /\ held = 0 /\ ingested = 0
  /\ committed = 0
  /\ ingest = "select" /\ batch = 0
  /\ drained = FALSE
  /\ guard = {} /\ coordinator = {}
  /\ pc = [d \in Drains |-> "idle"]
  /\ result = [d \in Drains |-> "none"]
  /\ tripped = FALSE
  /\ delayed = [d \in Drains |-> {}]

-----------------------------------------------------------------------------
(* Messages enter while polling is not stopped by a drain.                 *)
Deliver ==
  /\ \A d \in Drains : pc[d] \in {"idle", "returned"}
  /\ delivered < MaxItems
  /\ delivered' = delivered + 1
  /\ working' = working + 1
  /\ UNCHANGED <<commitsIn, held, ingested, committed, ingest, batch, drained, guard, drainVars>>

(* A worker finishes an item: it blocks while the channel is full.         *)
CollectAndCommit ==
  /\ working > 0
  /\ commitsIn < QueueLen
  /\ working' = working - 1
  /\ commitsIn' = commitsIn + 1
  /\ UNCHANGED <<delivered, held, ingested, committed, ingest, batch, drained, guard, drainVars>>

-----------------------------------------------------------------------------
(* The ingest loop.  The item is out of the channel, and the mutex not yet *)
(* taken, while the loop waits for its 100us ticker.                       *)
Receive ==
  /\ ingest = "select" /\ commitsIn > 0
  /\ ingest' = "ticker"
  /\ commitsIn' = commitsIn - 1
  /\ held' = 1
  /\ UNCHANGED <<delivered, working, ingested, committed, batch, drained, guard, drainVars>>

(* Mutant: the item received first is forgotten.                           *)
BeginBatchForgets ==
  /\ ingest = "ticker"
  /\ ingest' = "batch"
  /\ held' = 0
  /\ batch' = 1
  /\ UNCHANGED <<delivered, working, commitsIn, ingested, committed, drained, guard, drainVars>>

BeginBatch ==
  /\ ingest = "ticker"
  /\ ingest' = "batch"
  /\ held' = 0
  /\ ingested' = ingested + 1
  /\ batch' = 1
  /\ UNCHANGED <<delivered, working, commitsIn, committed, drained, guard, drainVars>>

ReceiveMore ==
  /\ ingest = "batch" /\ batch < ReadBatchSize /\ commitsIn > 0
  /\ commitsIn' = commitsIn - 1
  /\ ingested' = ingested + 1
  /\ batch' = batch + 1
  /\ UNCHANGED <<delivered, working, held, committed, ingest, drained, guard, drainVars>>

(* Mutant: the loop never finds the channel empty.                         *)
EndBatchUnsignalled ==
  /\ ingest = "batch"
  /\ batch = ReadBatchSize \/ commitsIn = 0
  /\ ingest' = IF commitsIn = 0 /\ batch < ReadBatchSize THEN "signal" ELSE "unlock"
  /\ batch' = 0
  /\ UNCHANGED <<itemVars, committed, drained, guard, drainVars>>

(* The flush, then the test of the channel length.                         *)
EndBatch ==
  /\ ingest = "batch"
  /\ batch = ReadBatchSize \/ commitsIn = 0
  /\ ingest' = IF commitsIn = 0 THEN "signal" ELSE "unlock"
  /\ batch' = 0
  /\ UNCHANGED <<itemVars, committed, drained, guard, drainVars>>

(* The token is sent after the test, and not in one step with it.          *)
SignalDrained ==
  /\ ingest = "signal"
  /\ ingest' = "unlock"
  /\ drained' = TRUE
  /\ UNCHANGED <<itemVars, committed, batch, guard, drainVars>>

Unlock ==
  /\ ingest = "unlock"
  /\ ingest' = "select"
  /\ UNCHANGED <<itemVars, committed, batch, drained, guard, drainVars>>

-----------------------------------------------------------------------------
(* CommitOffsets: the guard, then the mutex for the flush and the call.    *)
(* A commit covers what was ingested, up to the first item still missing.  *)
Outstanding == working + commitsIn + held

CommitIngested(accepted) ==
  /\ ~Locked
  /\ IF accepted THEN /\ committed' \in committed .. ingested
                      /\ Outstanding = 0 => committed' = ingested
                 ELSE committed' = committed
  /\ guard' = {}

TickAcquire ==
  /\ guard = {}
  /\ guard' = {"tick"}
  /\ UNCHANGED <<itemVars, committed, ingest, batch, drained, drainVars>>

TickCommit(accepted) ==
  /\ guard = {"tick"}
  /\ CommitIngested(accepted)
  /\ UNCHANGED <<itemVars, ingest, batch, drained, drainVars>>

-----------------------------------------------------------------------------
(* Coordinator.Drain.                                                      *)

Goto(d, from, to) == pc[d] = from /\ pc' = [pc EXCEPT ![d] = to]

(* A step of a drain that changes nothing else.                            *)
DrainStep(d, from, to) ==
  /\ Goto(d, from, to)
  /\ UNCHANGED <<itemVars, committed, ingest, batch, drained, guard, coordinator, result, tripped, delayed>>

Call(d) == DrainStep(d, "idle", "lock")

(* Mutant: drains are not serialised.                                      *)
LockUnserialised(d) ==
  /\ Goto(d, "lock", "workers")
  /\ coordinator' = coordinator \cup {d}
  /\ UNCHANGED <<itemVars, committed, ingest, batch, drained, guard, result, tripped, delayed>>

Lock(d) ==
  /\ coordinator = {}
  /\ Goto(d, "lock", "workers")
  /\ coordinator' = {d}
  /\ UNCHANGED <<itemVars, committed, ingest, batch, drained, guard, result, tripped, delayed>>

(* Drain returns: an error triggers the circuit breaker on the way out.    *)
Return(d, from, outcome) ==
  /\ Goto(d, from, "returned")
  /\ coordinator' = coordinator \ {d}
  /\ result' = [result EXCEPT ![d] = outcome]
  /\ tripped' = (tripped \/ outcome = "error")
  /\ UNCHANGED delayed

WorkersDrained(d) == working = 0 /\ DrainStep(d, "workers", "clear")

WorkersTimeout(d) ==
  /\ Return(d, "workers", "error")
  /\ UNCHANGED <<itemVars, committed, ingest, batch, drained, guard>>

-----------------------------------------------------------------------------
(* DrainCommitter.  delayed records when the ingest loop is kept from      *)
(* running: at "token", between its length test and its token while a      *)
(* drain begins; at "ticker", for the 10ms grace while it waits for its    *)
(* 100us ticker.                                                           *)

Delayed(d, place, at) == delayed' = [delayed EXCEPT ![d] = IF ingest = at THEN @ \cup {place} ELSE @]

(* Mutant: the token of an earlier batch is not cleared.                   *)
ClearStaleKeeps(d) == DrainStep(d, "clear", "check")

ClearStale(d) ==
  /\ Goto(d, "clear", "check")
  /\ drained' = FALSE
  /\ Delayed(d, "token", "signal")
  /\ UNCHANGED <<itemVars, committed, ingest, batch, guard, coordinator, result, tripped>>

(* Mutant: the length of the channel is not looked at.                     *)
CheckQueueBlind(d) == DrainStep(d, "check", "grace")

CheckQueue(d) == DrainStep(d, "check", IF commitsIn = 0 THEN "grace" ELSE "wait")

TakeToken(d) ==
  /\ pc[d] \in {"grace", "wait"} /\ drained
  /\ pc' = [pc EXCEPT ![d] = "guard"]
  /\ drained' = FALSE
  /\ UNCHANGED <<itemVars, committed, ingest, batch, guard, coordinator, result, tripped, delayed>>

GraceExpires(d) ==
  /\ Goto(d, "grace", "barrier")
  /\ Delayed(d, "ticker", "ticker")
  /\ UNCHANGED <<itemVars, committed, ingest, batch, drained, guard, coordinator, result, tripped>>

Barrier(d) == ~Locked /\ DrainStep(d, "barrier", "guard")

WaitTimeout(d) == DrainStep(d, "wait", "lateGuard")

AcquireGuard(d) ==
  /\ guard = {}
  /\ \/ Goto(d, "guard", "commit")
     \/ Goto(d, "lateGuard", "lateCommit")
  /\ guard' = {d}
  /\ UNCHANGED <<itemVars, committed, ingest, batch, drained, coordinator, result, tripped, delayed>>

GuardTimeout(d) ==
  /\ guard # {}
  /\ Return(d, "guard", "error") \/ Return(d, "lateGuard", "error")
  /\ UNCHANGED <<itemVars, committed, ingest, batch, drained, guard>>

(* surfaceFinalCommit: a commit the broker refuses is not an error.        *)
FinalCommit(d, accepted) ==
  /\ CommitIngested(accepted)
  /\ Return(d, "commit", IF accepted THEN "clean" ELSE "refused")
  /\ UNCHANGED <<itemVars, ingest, batch, drained>>

LateCommit(d, accepted) ==
  /\ CommitIngested(accepted)
  /\ Return(d, "lateCommit", "error")
  /\ UNCHANGED <<itemVars, ingest, batch, drained>>

-----------------------------------------------------------------------------
IngestLoop ==
  \/ Receive
  \/ BeginBatch
  \/ ReceiveMore
  \/ EndBatch
  \/ SignalDrained
  \/ Unlock

Advance(d) ==
  \/ Lock(d)
  \/ WorkersDrained(d)
  \/ ClearStale(d)
  \/ CheckQueue(d)
  \/ TakeToken(d)
  \/ Barrier(d)
  \/ AcquireGuard(d)
  \/ \E accepted \in BOOLEAN : FinalCommit(d, accepted)
  \/ \E accepted \in BOOLEAN : LateCommit(d, accepted)

Timeout(d) ==
  \/ WorkersTimeout(d)
  \/ WaitTimeout(d)
  \/ GuardTimeout(d)

Next ==
  \/ Deliver
  \/ CollectAndCommit
  \/ IngestLoop
  \/ TickAcquire
  \/ \E accepted \in BOOLEAN : TickCommit(accepted)
  \/ \E d \in Drains : Call(d)
  \/ \E d \in Drains : Advance(d)
  \/ \E d \in Drains : GraceExpires(d)
  \/ \E d \in Drains : Timeout(d)

Spec == Init /\ [][Next]_vars

(* Workers finish, the ingest loop and the holder of the guard run on, a   *)
(* drain takes the steps it can, and the grace runs out.  The acquisition  *)
(* of Coordinator.mu and of the guard is fair to every drain that waits.   *)
(* No drain timeout is assumed to fire.                                    *)
Fairness ==
  /\ WF_vars(CollectAndCommit)
  /\ WF_vars(IngestLoop)
  /\ SF_vars(\E accepted \in BOOLEAN : TickCommit(accepted))
  /\ \A d \in Drains : SF_vars(Advance(d)) /\ WF_vars(GraceExpires(d))

FairSpec == Spec /\ Fairness

-----------------------------------------------------------------------------
(* Every work item is at exactly one stage, and the commit never runs      *)
(* ahead of what was ingested.                                             *)
TypeOK ==
  /\ delivered \in 0 .. MaxItems
  /\ {working, commitsIn, held, ingested, committed} \subseteq 0 .. MaxItems
  /\ working + commitsIn + held + ingested = delivered
  /\ committed <= ingested
  /\ commitsIn <= QueueLen
  /\ ingest \in {"select", "ticker", "batch", "signal", "unlock"}
  /\ batch \in 0 .. ReadBatchSize
  /\ {drained, tripped} \subseteq BOOLEAN
  /\ guard \subseteq Drains \cup {"tick"} /\ coordinator \subseteq Drains
  /\ pc \in [Drains -> {"idle", "lock", "workers", "clear", "check", "grace", "wait", "barrier",
                        "guard", "commit", "lateGuard", "lateCommit", "returned"}]
  /\ result \in [Drains -> {"none", "clean", "refused", "error"}]
  /\ delayed \in [Drains -> SUBSET {"token", "ticker"}]

Finishing(d) == pc[d] \in {"guard", "commit"}

(* When a drain goes on to its final commit, every message delivered has   *)
(* been processed and its completion ingested, so an accepted commit       *)
(* leaves nothing behind, unless the scheduler held up the ingest loop at  *)
(* one of the two places delayed names during this very drain.             *)
(* (DrainCommitter's handshake with the ingest loop.)                      *)
DrainCoversAll ==
  \A d \in Drains : Finishing(d) /\ delayed[d] = {} => ingested = delivered

(* The same without allowing for the token: "all offsets are committed     *)
(* before acknowledging the rebalance", as drain_coordinator.go says.      *)
DrainCoversAllAsDocumented ==
  \A d \in Drains : Finishing(d) /\ "ticker" \notin delayed[d] => ingested = delivered

(* No lost wake-up: a drain that waits for the token without a grace       *)
(* period finds it, or the ingest loop has still work that ends in one.    *)
(* (The single token, cleared at the start of a drain; Coordinator.mu.)    *)
TokenComes ==
  \A d \in Drains : pc[d] = "wait" => drained \/ commitsIn > 0 \/ ingest \in {"ticker", "batch", "signal"}

(* A drain returns by itself: no drain timeout has to fire for it.  (The   *)
(* drain, ingest and commit loops never wait for one another in a ring.)   *)
DrainReturns ==
  \A d \in Drains : pc[d] = "lock" ~> pc[d] = "returned"

-----------------------------------------------------------------------------
(* Why they hold: the inductive invariant.                                 *)

Arrived == commitsIn = 0 /\ held = 0

(* Between the lock and the return.                                        *)
Active(d) == pc[d] \notin {"idle", "lock", "returned"}

(* Coordinator.mu admits one drain; past the worker drain nothing enters   *)
(* commitsIn, so a token sent after the clear, an expired grace and the    *)
(* way to the final commit each mean that the last item has arrived.       *)
(* (Coordinator.Drain, DrainCommitter, the ingest loop)                    *)
HandshakeInv ==
  /\ held = IF ingest = "ticker" THEN 1 ELSE 0
  /\ \A d \in Drains :
       /\ Active(d) <=> d \in coordinator
       /\ \A e \in coordinator : d \in coordinator => d = e
       /\ Active(d) /\ pc[d] # "workers" => working = 0
       /\ /\ pc[d] \in {"check", "grace", "wait"} /\ "token" \notin delayed[d]
          /\ drained \/ ingest = "signal"
          => Arrived
       /\ pc[d] = "grace" => commitsIn = 0
       /\ pc[d] = "barrier" /\ "ticker" \notin delayed[d] => Arrived
       /\ Finishing(d) /\ delayed[d] = {} => Arrived

(* The inductive invariant: with both, no wake-up is lost either.          *)
(* (Coordinator.Drain, DrainCommitter and the ingest loop together)        *)
HandshakeIndInv == TypeOK /\ HandshakeInv /\ TokenComes
=============================================================================
