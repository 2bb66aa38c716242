----------------------------- MODULE KeyWorkers -----------------------------
(***************************************************************************)
(* The fan-out of demux/pipeline: the polling loop hands each message to   *)
(* the worker of its key, borrowing a worker from the shard's pool when    *)
(* the key has none; workers process their key's messages in order, remove *)
(* themselves when their channel is empty and go back to the pool, which a *)
(* pruner shrinks; a drain waits for the active workers.  Shards share     *)
(* nothing but the guards, so one shard is modelled.                       *)
(*                                                                         *)
(* A step is a critical section of WorkerShard.mu or a channel operation.  *)
(***************************************************************************)
EXTENDS Integers, Sequences, FiniteSets

CONSTANTS
  Keys,
  Workers,      \* identities for worker goroutines; an exited one is reused
  MaxMessages,  \* bound: messages polled in all
  GuardLen,     \* cap(guard), the ConcurrentKeys limit
  OverflowLen,  \* cap(overflowGuard)
  BufferLen,    \* PerKeyBufferLen
  MinIdle       \* minIdleWorkers of the pool

ASSUME WorkersAssumption ==
  /\ {MaxMessages, OverflowLen, MinIdle} \subseteq Nat
  /\ {GuardLen, BufferLen} \subseteq Nat \ {0}
  /\ IsFiniteSet(Workers) /\ MinIdle <= Cardinality(Workers)
  /\ MinIdle <= GuardLen
  /\ "none" \notin Workers \cup Keys

Messages == 1 .. MaxMessages

PoolSize == GuardLen + OverflowLen

VARIABLES
  keyOf,    \* [message -> its key, known once it is polled]
  last,     \* the message polled last
  poller,   \* the polling loop: where it is, the guard it holds a token of,
            \*   and the worker it has borrowed
  used,     \* [guard -> tokens in it]
  workers,  \* WorkerShard.workers: [key -> its worker or None]
  pool,     \* the idle workers
  worker,   \* [worker -> its goroutine's state, channel and flags]
  settled,  \* [message -> "open", or what became of it]
  tripped,  \* the circuit breaker has tripped
  done,     \* WorkerShard.done, set some time after the trip
  pruner,   \* the pool size seen at the last tick, and whether to take a worker
  drain,    \* DrainWorkers: "idle", "waiting" or "returned"
  waitFor   \* the workers it still waits for

pollVars == <<keyOf, last, poller>>
shardVars == <<workers, pool, worker>>
breakerVars == <<tripped, done>>
drainVars == <<drain, waitFor>>
vars == <<keyOf, last, poller, used, workers, pool, worker, settled, tripped, done,
          pruner, drain, waitFor>>

None == "none"

Guards == {"guard", "overflow"}

Capacity == [guard |-> GuardLen, overflow |-> OverflowLen]

Outcomes == {"collected", "dropped"}

(* A worker goroutine that has not been started.  message, key and kind    *)
(* are the locals of its loop, active and shut its IsActive and shutdown.  *)
Unborn ==
  [pc |-> "unborn", queue |-> <<>>, message |-> 0, key |-> None, kind |-> "guard",
   active |-> FALSE, shut |-> FALSE]

Init ==
  /\ keyOf = [m \in Messages |-> None]
  /\ last = 0
  /\ poller = [pc |-> "poll", kind |-> "guard", borrowed |-> None]
  /\ used = [g \in Guards |-> 0]
  /\ workers = [k \in Keys |-> None]
  /\ pool \in {warmed \in SUBSET Workers : Cardinality(warmed) = MinIdle}
  /\ worker = [w \in Workers |-> IF w \in pool THEN [Unborn EXCEPT !.pc = "cold"] ELSE Unborn]
  /\ settled = [m \in Messages |-> "open"]
  /\ tripped = FALSE /\ done = FALSE
  /\ pruner = [prevLen |-> PoolSize, take |-> FALSE]
  /\ drain = "idle" /\ waitFor = {}

-----------------------------------------------------------------------------
(* PollAndForward and Processor.Process: a token of one of the guards, or  *)
(* the timeout.                                                            *)

PollerAt(from, to) == poller.pc = from /\ poller' = [poller EXCEPT !.pc = to]

PollerStep(from, to) ==
  /\ PollerAt(from, to)
  /\ UNCHANGED <<keyOf, last, used, shardVars, settled, breakerVars, pruner, drainVars>>

Release(g) == used' = [used EXCEPT ![g] = @ - 1]

Settle(m, outcome) == settled' = [settled EXCEPT ![m] = outcome]

Poll(k) ==
  /\ ~tripped /\ drain = "idle"
  /\ last < MaxMessages
  /\ PollerAt("poll", "acquire")
  /\ last' = last + 1
  /\ keyOf' = [keyOf EXCEPT ![last + 1] = k]
  /\ UNCHANGED <<used, shardVars, settled, breakerVars, pruner, drainVars>>

PollStops == tripped /\ PollerStep("poll", "stopped")

GuardFull == used["guard"] = GuardLen /\ PollerStep("acquire", "acquireSlow")

Acquire(g) ==
  /\ poller.pc = "acquireSlow" \/ (poller.pc = "acquire" /\ g = "guard")
  /\ used[g] < Capacity[g]
  /\ used' = [used EXCEPT ![g] = @ + 1]
  /\ poller' = [poller EXCEPT !.pc = "send", !.kind = g]
  /\ UNCHANGED <<keyOf, last, shardVars, settled, breakerVars, pruner, drainVars>>

(* Process returns an error, PollAndForward trips the breaker and returns. *)
AcquireTimeout ==
  /\ PollerAt("acquireSlow", "stopped")
  /\ Settle(last, "dropped")
  /\ tripped' = TRUE
  /\ UNCHANGED <<keyOf, last, used, shardVars, done, pruner, drainVars>>

-----------------------------------------------------------------------------
(* Demux.SendToWorkerForProcessing.                                        *)

Item == [message |-> last, key |-> keyOf[last], kind |-> poller.kind]

SendTo(w) == [worker EXCEPT ![w].queue = Append(@, Item)]

(* Mutant: the send ignores the channel's capacity.                        *)
SendToExistingUnbounded(w) ==
  /\ PollerAt("send", "release")
  /\ w = workers[keyOf[last]]
  /\ worker' = SendTo(w)
  /\ UNCHANGED <<keyOf, last, used, workers, pool, settled, breakerVars, pruner, drainVars>>

SendToExisting(w) ==
  /\ PollerAt("send", "release")
  /\ w = workers[keyOf[last]]
  /\ Len(worker[w].queue) < BufferLen
  /\ worker' = SendTo(w)
  /\ UNCHANGED <<keyOf, last, used, workers, pool, settled, breakerVars, pruner, drainVars>>

ReleaseAfterSendOf(g) ==
  /\ PollerAt("release", "poll")
  /\ Release(g)
  /\ UNCHANGED <<keyOf, last, shardVars, settled, breakerVars, pruner, drainVars>>

(* Mutant: the guard is looked up in the work item after the send, when it *)
(* may be back in the pool with its traits cleared.                        *)
ReleaseAfterSendRecycled ==
  /\ poller.pc = "release"
  /\ ReleaseAfterSendOf(IF settled[last] = "collected" THEN "guard" ELSE poller.kind)

ReleaseAfterSend == ReleaseAfterSendOf(poller.kind)

WorkerFull(w) ==
  /\ PollerStep("send", "full")
  /\ w = workers[keyOf[last]] /\ Len(worker[w].queue) = BufferLen

StalledWorkerExit ==
  /\ done
  /\ PollerAt("full", "poll")
  /\ Release(poller.kind)
  /\ Settle(last, "dropped")
  /\ UNCHANGED <<keyOf, last, shardVars, breakerVars, pruner, drainVars>>

(* The message may have waited long enough to trip the breaker.            *)
RetrySend ==
  /\ ~done
  /\ PollerAt("full", "send")
  /\ tripped' \in {tripped, TRUE}
  /\ UNCHANGED <<keyOf, last, used, shardVars, settled, done, pruner, drainVars>>

Borrow(w, isActive) ==
  /\ poller.pc = "send" /\ workers[keyOf[last]] = None
  /\ w \in pool \/ (pool = {} /\ worker[w].pc = "unborn")
  /\ pool' = pool \ {w}
  /\ worker' = [worker EXCEPT ![w].pc = "cold", ![w].active = isActive]
  /\ workers' = [workers EXCEPT ![keyOf[last]] = w]
  /\ poller' = [poller EXCEPT !.pc = "sendCold", !.borrowed = w]
  /\ UNCHANGED <<keyOf, last, used, settled, breakerVars, pruner, drainVars>>

(* Mutant: the worker is entered without being marked active.              *)
BorrowWorkerInactive(w) == Borrow(w, FALSE)

BorrowWorker(w) == Borrow(w, TRUE)

(* Sent after the unlock; the token now belongs to the worker.             *)
SendCold ==
  /\ poller.pc = "sendCold"
  /\ worker' = SendTo(poller.borrowed)
  /\ poller' = [poller EXCEPT !.pc = "poll", !.borrowed = None]
  /\ UNCHANGED <<keyOf, last, used, workers, pool, settled, breakerVars, pruner, drainVars>>

-----------------------------------------------------------------------------
(* Worker.startProcessingWorkItems.  The key and the guard of the first    *)
(* message are kept until the worker is empty.                             *)

WorkerAt(w, from, to) == worker[w].pc = from /\ worker' = [worker EXCEPT ![w].pc = to]

Take(w, to) ==
  LET s == worker[w]
      first == IF s.pc = "cold" THEN Head(s.queue) ELSE s
  IN  worker' = [worker EXCEPT ![w] =
        [pc |-> to, queue |-> Tail(s.queue), message |-> Head(s.queue).message,
         key |-> first.key, kind |-> first.kind, active |-> s.active, shut |-> s.shut]]

Receive(w) ==
  /\ worker[w].pc \in {"cold", "hot"} /\ worker[w].queue # <<>>
  /\ IF done THEN Take(w, "hot") /\ Settle(Head(worker[w].queue).message, "dropped")
             ELSE Take(w, "processing") /\ UNCHANGED settled
  /\ UNCHANGED <<pollVars, used, workers, pool, breakerVars, pruner, drainVars>>

FinishAs(w, outcome, trips) ==
  /\ WorkerAt(w, "processing", "hot")
  /\ Settle(worker[w].message, outcome)
  /\ tripped' = (tripped \/ trips)
  /\ UNCHANGED <<pollVars, used, workers, pool, done, pruner, drainVars>>

(* Mutant: a failed dead letter does not trip the breaker.                 *)
FinishQuietly(w, outcome) == FinishAs(w, outcome, FALSE)

(* Processed, or failed and written to the dead letters: collected for the *)
(* committer.  When the dead letter fails too, the breaker trips instead.  *)
Finish(w, outcome) == FinishAs(w, outcome, outcome = "dropped")

FallThrough(w) ==
  /\ worker[w].queue = <<>>
  /\ WorkerAt(w, "hot", "leaving")
  /\ UNCHANGED <<pollVars, used, workers, pool, settled, breakerVars, pruner, drainVars>>

LeaveAs(w, empty, isActive, remaining) ==
  /\ worker[w].pc = "leaving"
  /\ IF empty
     THEN /\ workers' = remaining
          /\ worker' = [worker EXCEPT ![w].pc = "release", ![w].active = isActive]
     ELSE worker' = [worker EXCEPT ![w].pc = "hot"] /\ UNCHANGED workers
  /\ UNCHANGED <<pollVars, used, pool, settled, breakerVars, pruner, drainVars>>

LeaveIf(w, empty, isActive) == LeaveAs(w, empty, isActive, [workers EXCEPT ![worker[w].key] = None])

(* Mutants: the channel is not looked at again under the mutex; IsActive   *)
(* is not cleared; the key is read from the work item, which is back in    *)
(* the pool with its key cleared.                                          *)
LeaveRecycled(w) == LeaveAs(w, worker[w].queue = <<>>, FALSE, workers)
LeaveUnchecked(w) == LeaveIf(w, TRUE, FALSE)
LeaveActive(w) == LeaveIf(w, worker[w].queue = <<>>, TRUE)

(* Under the mutex: the worker removes itself if its channel is empty.     *)
Leave(w) == LeaveIf(w, worker[w].queue = <<>>, FALSE)

ReleaseAs(w, tokens) ==
  /\ WorkerAt(w, "release", "return")
  /\ used' = tokens
  /\ UNCHANGED <<pollVars, workers, pool, settled, breakerVars, pruner, drainVars>>

(* Mutants: always the token of the main guard; no token.                  *)
ReleaseTokenOfGuard(w) == ReleaseAs(w, [used EXCEPT !["guard"] = @ - 1])
ReleaseTokenNever(w) == ReleaseAs(w, used)

ReleaseToken(w) == ReleaseAs(w, [used EXCEPT ![worker[w].kind] = @ - 1])

(* Back to the pool, or to its end when the pool is full.                  *)
ReturnWorker(w) ==
  LET full == Cardinality(pool) >= PoolSize
  IN  /\ worker[w].pc = "return"
      /\ worker' = [worker EXCEPT ![w] =
           [@ EXCEPT !.pc = "cold", !.message = 0, !.key = None, !.kind = "guard", !.shut = full]]
      /\ pool' = IF full THEN pool ELSE pool \cup {w}
      /\ UNCHANGED <<pollVars, used, workers, settled, breakerVars, pruner, drainVars>>

Exit(w) ==
  /\ worker[w].pc = "cold" /\ worker[w].shut
  /\ worker' = [worker EXCEPT ![w] = Unborn]
  /\ UNCHANGED <<pollVars, used, workers, pool, settled, breakerVars, pruner, drainVars>>

-----------------------------------------------------------------------------
(* pruneIdleWorkers: a tick looks at the pool size, and takes a worker out *)
(* a moment later if one is left.                                          *)

PruneTick ==
  LET poolSize == Cardinality(pool)
  IN  /\ ~pruner.take
      /\ pruner' = [prevLen |-> poolSize, take |-> poolSize > MinIdle /\ poolSize <= pruner.prevLen]
      /\ UNCHANGED <<pollVars, used, shardVars, settled, breakerVars, drainVars>>

PruneMiss ==
  /\ pruner.take /\ pool = {}
  /\ pruner' = [pruner EXCEPT !.take = FALSE]
  /\ UNCHANGED <<pollVars, used, shardVars, settled, breakerVars, drainVars>>

ShutDown(w) ==
  /\ pruner.take /\ w \in pool
  /\ pruner' = [pruner EXCEPT !.take = FALSE]
  /\ worker' = [worker EXCEPT ![w].shut = TRUE]
  /\ UNCHANGED <<pollVars, used, workers, settled, breakerVars, drainVars>>

(* Mutant: the worker shut down stays in the pool.                         *)
PruneTakePooled(w) == ShutDown(w) /\ UNCHANGED pool

PruneTake(w) == ShutDown(w) /\ pool' = pool \ {w}

DetectMainCtxDone ==
  /\ tripped /\ ~done
  /\ done' = TRUE
  /\ UNCHANGED <<pollVars, used, shardVars, settled, tripped, pruner, drainVars>>

-----------------------------------------------------------------------------
(* DrainWorkers, called from within poll or after the polling loop has     *)
(* ended: nothing is dispatched meanwhile.                                 *)

DrainWorkers ==
  /\ drain = "idle" /\ poller.pc \in {"poll", "stopped"}
  /\ drain' = "waiting"
  /\ waitFor' = {workers[k] : k \in Keys} \ {None}
  /\ UNCHANGED <<pollVars, used, shardVars, settled, breakerVars, pruner>>

DrainWorker(w) ==
  /\ drain = "waiting" /\ w \in waitFor /\ ~worker[w].active
  /\ waitFor' = waitFor \ {w}
  /\ UNCHANGED <<pollVars, used, shardVars, settled, breakerVars, pruner, drain>>

DrainReturns ==
  /\ drain = "waiting" /\ waitFor = {}
  /\ drain' = "returned"
  /\ UNCHANGED <<pollVars, used, shardVars, settled, breakerVars, pruner, waitFor>>

ResumePolling ==
  /\ drain = "returned"
  /\ drain' = "idle"
  /\ UNCHANGED <<pollVars, used, shardVars, settled, breakerVars, pruner, waitFor>>

-----------------------------------------------------------------------------
Dispatch ==
  \/ \E k \in Keys : Poll(k)
  \/ PollStops
  \/ GuardFull
  \/ \E g \in Guards : Acquire(g)
  \/ \E w \in Workers : SendToExisting(w) \/ WorkerFull(w) \/ BorrowWorker(w)
  \/ ReleaseAfterSend
  \/ StalledWorkerExit
  \/ RetrySend
  \/ SendCold

Work(w) ==
  \/ Receive(w)
  \/ \E outcome \in Outcomes : Finish(w, outcome)
  \/ FallThrough(w)
  \/ Leave(w)
  \/ ReleaseToken(w)
  \/ ReturnWorker(w)
  \/ Exit(w)

Prune ==
  \/ PruneTick
  \/ \E w \in Workers : PruneTake(w)
  \/ PruneMiss

Drain ==
  \/ \E w \in Workers : DrainWorker(w)
  \/ DrainReturns
  \/ ResumePolling

Next ==
  \/ Dispatch
  \/ AcquireTimeout
  \/ \E w \in Workers : Work(w)
  \/ Prune
  \/ DetectMainCtxDone
  \/ DrainWorkers
  \/ Drain

Spec == Init /\ [][Next]_vars

(* Goroutines run: the host's callbacks return, workers, polling loop and  *)
(* a waiting drain proceed.  A drain or a timeout need never happen.  The  *)
(* send retry needs strong fairness: it polls a channel that fills again.  *)
Fairness ==
  /\ \A w \in Workers : WF_vars(Work(w))
  /\ SF_vars(\E w \in Workers : SendToExisting(w))
  /\ WF_vars(Dispatch)
  /\ WF_vars(DetectMainCtxDone)
  /\ WF_vars(Drain)

FairSpec == Spec /\ Fairness

-----------------------------------------------------------------------------
(* Where a message that is not settled can be.                             *)
AtPoller ==
  {m \in {last} : poller.pc \in {"acquire", "acquireSlow", "send", "full", "sendCold"}}

InQueue(w) == {worker[w].queue[j].message : j \in DOMAIN worker[w].queue}

Processing(w) == {m \in {worker[w].message} : worker[w].pc = "processing"}

InPipeline == AtPoller \cup UNION {InQueue(w) \cup Processing(w) : w \in Workers}

(* The workers that hold a token of guard g: it comes with their first     *)
(* message.                                                                *)
Holding(g) ==
  {w \in Workers :
     \/ worker[w].pc \in {"processing", "hot", "leaving", "release"} /\ worker[w].kind = g
     \/ worker[w].pc = "cold" /\ worker[w].queue # <<>> /\ Head(worker[w].queue).kind = g}

WorkItem == [message : Messages, key : Keys, kind : Guards]

WorkerState ==
  [pc : {"unborn", "cold", "hot", "processing", "leaving", "release", "return"},
   queue : Seq(WorkItem), message : 0 .. MaxMessages, key : Keys \cup {None}, kind : Guards,
   active : BOOLEAN, shut : BOOLEAN]

TypeOK ==
  /\ keyOf \in [Messages -> Keys \cup {None}]
  /\ last \in 0 .. MaxMessages
  /\ poller \in [pc : {"poll", "acquire", "acquireSlow", "send", "sendCold", "release", "full", "stopped"},
                 kind : Guards, borrowed : Workers \cup {None}]
  /\ used \in [Guards -> Nat] /\ \A g \in Guards : used[g] <= Capacity[g]
  /\ workers \in [Keys -> Workers \cup {None}]
  /\ pool \subseteq Workers /\ Cardinality(pool) <= PoolSize
  /\ worker \in [Workers -> WorkerState]
  /\ \A w \in Workers : Len(worker[w].queue) <= BufferLen
  /\ settled \in [Messages -> {"open"} \cup Outcomes]
  /\ tripped \in BOOLEAN /\ done \in BOOLEAN
  /\ pruner \in [prevLen : Nat, take : BOOLEAN]
  /\ drain \in {"idle", "waiting", "returned"} /\ waitFor \subseteq Workers

(* Messages of one key are processed one at a time and in the order they   *)
(* were polled: while one is being processed no earlier one of its key is  *)
(* still in the pipeline.  (One worker per key, its self-removal under the *)
(* shard mutex, the send under the same mutex.)                            *)
KeyOrder ==
  \A w \in Workers : \A m \in Processing(w) :
    /\ \A n \in InPipeline : keyOf[n] = keyOf[m] => n >= m
    /\ \A v \in Workers \ {w} : m \notin Processing(v)

(* Every token of either guard is held by the polling loop or by one       *)
(* worker, so concurrency stays within the limit and no token leaks.       *)
(* (Process, SendToWorkerForProcessing, the worker's cached usedOverflow.) *)
TokensBalance ==
  \A g \in Guards :
    used[g] = Cardinality(Holding(g))
              + (IF poller.pc \in {"send", "full", "sendCold", "release"} /\ poller.kind = g THEN 1 ELSE 0)

(* A message polled is still in the pipeline, or it was processed or dead- *)
(* lettered and handed to the committer, or the breaker has tripped: no    *)
(* message vanishes in a worker that left or was shut down.                *)
NoSilentLoss ==
  \A m \in 1 .. last : m \in InPipeline \/ settled[m] = "collected" \/ tripped

(* A worker the polling loop may send to is running: it is not in the pool *)
(* and its channel will not be closed under the sender.  (BorrowWorker,    *)
(* ReturnWorker and pruneIdleWorkers.)                                     *)
ReachableAlive ==
  \A w \in ({workers[k] : k \in Keys} \cup {poller.borrowed}) \ {None} :
    worker[w].pc \in {"cold", "hot", "processing", "leaving"} /\ w \notin pool /\ ~worker[w].shut

(* When DrainWorkers returns, every message polled has been settled.       *)
(* (The snapshot of the workers map and IsActive, set and cleared under    *)
(* the shard mutex.)                                                       *)
DrainedWorkersAreDone ==
  drain = "returned" => \A m \in 1 .. last : settled[m] # "open"

(* Every message polled is settled in the end: a full worker channel, an   *)
(* exhausted guard and a worker that leaves block nobody for good.         *)
EveryMessageSettles ==
  \A m \in Messages : last = m ~> settled[m] # "open"

(* A drain returns once polling has stopped.                               *)
DrainWorkersReturns == drain = "waiting" ~> drain = "returned"

-----------------------------------------------------------------------------
(* Why they hold: the inductive invariants.                                *)

(* The workers map, the pool, the polling loop and the workers' own states *)
(* agree: a message is only ever with the one worker its key is mapped to, *)
(* that worker is marked active, and a pooled or shut worker has nothing   *)
(* to do.  A drain waits for every worker that is mapped.  (The critical   *)
(* sections of WorkerShard.mu)                                             *)
ShardInv ==
  /\ \A w \in Workers :
       /\ worker[w].pc \in {"hot", "processing", "leaving"} =>
            worker[w].key \in Keys /\ workers[worker[w].key] = w
       /\ \A j \in DOMAIN worker[w].queue : workers[worker[w].queue[j].key] = w
       /\ w \in pool \/ worker[w].shut => worker[w].pc = "cold" /\ worker[w].queue = <<>>
       /\ w \in pool => ~worker[w].shut
  /\ \A k \in Keys : \A w \in Workers : workers[k] = w =>
       /\ worker[w].pc \in {"cold", "hot", "processing", "leaving"}
       /\ w \notin pool /\ ~worker[w].shut /\ worker[w].active
       /\ worker[w].pc # "cold" => worker[w].key = k
       /\ worker[w].pc = "cold" /\ worker[w].queue = <<>> => poller.pc = "sendCold" /\ poller.borrowed = w
       /\ \A l \in Keys : workers[l] = w => l = k
       /\ drain = "waiting" => w \in waitFor
       /\ drain # "returned"
  /\ IF poller.pc = "sendCold"
     THEN /\ poller.borrowed \in Workers /\ workers[keyOf[last]] = poller.borrowed
          /\ worker[poller.borrowed].pc = "cold" /\ worker[poller.borrowed].queue = <<>>
     ELSE poller.borrowed = None
  /\ drain # "idle" => poller.pc \in {"poll", "stopped"}

(* The messages of a worker are those of its key, in the order they were   *)
(* polled; the one in dispatch is later than all of them; an open message  *)
(* is in the pipeline, and none is dropped without a trip.  (Send, worker  *)
(* loop and every way out of them)                                         *)
PipelineInv ==
  /\ AtPoller # {} => last > 0 /\ keyOf[last] \in Keys
  /\ \A w \in Workers :
       /\ worker[w].pc = "processing" =>
            /\ worker[w].message \in 1 .. last
            /\ last \in AtPoller => worker[w].message < last
            /\ keyOf[worker[w].message] = worker[w].key
       /\ \A j \in DOMAIN worker[w].queue :
            /\ worker[w].queue[j].message \in 1 .. last
            /\ last \in AtPoller => worker[w].queue[j].message < last
            /\ keyOf[worker[w].queue[j].message] = worker[w].queue[j].key
            /\ worker[w].pc = "processing" => worker[w].message < worker[w].queue[j].message
            /\ \A i \in 1 .. j - 1 : worker[w].queue[i].message < worker[w].queue[j].message
  /\ \A m \in 1 .. last : settled[m] = "open" => m \in InPipeline
  /\ done \/ (\E m \in Messages : settled[m] = "dropped") => tripped

(* A message is settled once, when it leaves the pipeline: what is in it   *)
(* is open, and so is what has not been polled.  (The worker loop and the  *)
(* early returns of Process and SendToWorkerForProcessing)                 *)
OpenInv ==
  /\ \A m \in InPipeline : settled[m] = "open"
  /\ \A m \in Messages : m > last => settled[m] = "open"

(* The inductive invariant.  (WorkerShard, WorkerPool, Demux and Worker)   *)
FanOutInv == TypeOK /\ ShardInv /\ PipelineInv /\ TokensBalance /\ OpenInv

(* What KeyedProcessing sees of the fan-out.                               *)
Promise == INSTANCE KeyedProcessing
  WITH Limit <- PoolSize,
       processing <- UNION {Processing(w) : w \in Workers},
       drained <- (drain = "returned")

(* Workers, guards, channels and pool implement KeyedProcessing: messages  *)
(* start in the order of their key, no more at once than the two guards    *)
(* have tokens, and each is settled once; none is dropped without a trip,  *)
(* and a drain returns when all are settled.  (Process,                    *)
(* SendToWorkerForProcessing, startProcessingWorkItems, DrainWorkers)      *)
ImplementsKeyedProcessing == Promise!Spec
=============================================================================
