----------------------- MODULE GracefulShutdownProofs -----------------------
(***************************************************************************)
(* Shutdown accounts for every message and leaves the broker only after    *)
(* its drain, for every number of messages and every capacity of the       *)
(* workers, the rate limiter's bucket and the collector's channel.         *)
(***************************************************************************)
EXTENDS GracefulShutdown, TLAPS

(* For the steps that name no prover: time enough on a slow machine.       *)
USE SMTT(30), ZenonT(30)

(* TypeOK, in a part about the messages and one about where everyone is.   *)
Counted ==
  /\ polled \in Nat /\ lost \in Nat /\ working \in Nat /\ committing \in Nat
  /\ out \in Nat /\ workItems \in Nat /\ waitFor \in Nat
  /\ stats \in [collected : Nat, dropped : Nat, failed : Nat]
  /\ polled <= MaxMessages /\ working <= Capacity /\ waitFor <= working /\ workItems <= BufferSize
  /\ polled = Dispatching + working + committing + Yielding + workItems + AtSink + Accounted + lost

Placed ==
  /\ collect \in {"idle", "yield"} /\ loop \in {"select", "sink", "ended"}
  /\ quit \in [closed : BOOLEAN, seen : BOOLEAN]
  /\ poller \in {"top", "poll", "acquire", "await", "send", "revoke", "ended"}
  /\ drain \in [Callers -> {"idle", "lock", "workers", "committer", "clean", "short", "failed"}]
  /\ mutex \in Callers \cup {"free"}
  /\ stop \in {"none", "taken", "timeout"}
  /\ unsub \in {"idle", "stopPolling", "drain", "draining", "left"}
  /\ shutdown \in {"idle", "stopTicker", "unsubscribing", "collector", "nil", "error"}

Flag == tripped \in BOOLEAN

LEMMA Bounds == MaxMessages \in Nat /\ Capacity \in Nat /\ Capacity > 0 /\ BufferSize \in Nat /\ BufferSize > 0
                /\ Burst \in Nat /\ Burst > 0
  BY ShutdownAssumption, BufferAssumption, BurstAssumption
     DEF ShutdownAssumption, BufferAssumption, BurstAssumption

LEMMA StageCounts == Dispatching \in 0 .. 1 /\ Yielding \in 0 .. 1 /\ AtSink \in 0 .. 1
  BY DEF Dispatching, Yielding, AtSink

LEMMA AccountedType ==
  ASSUME stats \in [collected : Nat, dropped : Nat, failed : Nat]
  PROVE  Accounted \in Nat
  BY DEF Accounted

LEMMA TypeParts == TypeOK <=> Counted /\ Placed /\ LimiterTypeOK /\ Flag
<1>1. TypeOK => Counted
  BY Bounds DEF TypeOK, Counted, CollectorTypeOK
<1>2. TypeOK => Placed /\ LimiterTypeOK /\ Flag
  BY Zenon DEF TypeOK, Placed, Flag, CollectorTypeOK
<1>3. ASSUME Counted, Placed, LimiterTypeOK, Flag
      PROVE  TypeOK
  <2>1. /\ polled \in 0 .. MaxMessages /\ lost \in 0 .. MaxMessages /\ working \in 0 .. MaxMessages
        /\ committing \in 0 .. MaxMessages /\ waitFor \in 0 .. working /\ workItems \in 0 .. BufferSize
    BY <1>3, Bounds, StageCounts, AccountedType DEF Counted
  <2>2. {polled, lost, working, committing} \subseteq 0 .. MaxMessages
    BY <2>1
  <2>3. CollectorTypeOK
    BY <1>3, <2>1 DEF CollectorTypeOK, Counted, Placed
  <2>4. QED
    BY <1>3, <2>1, <2>2, <2>3, Zenon DEF TypeOK, Counted, Placed, Flag
<1>4. QED
  BY <1>1, <1>2, <1>3

-----------------------------------------------------------------------------
(* The state after Subscribe.                                              *)
LEMMA InitHolds == Init => TypeOK /\ ShutdownInv
<1> SUFFICES ASSUME Init
             PROVE  TypeOK /\ ShutdownInv
  OBVIOUS
<1>1. Counted /\ Placed
  <2>1. Dispatching = 0 /\ Yielding = 0 /\ AtSink = 0 /\ Accounted = 0
    BY DEF Init, CollectorInit, Dispatching, Yielding, AtSink, Accounted
  <2>2. Counted
    BY <2>1, Bounds DEF Init, CollectorInit, Counted
  <2>3. Placed
    BY DEF Init, CollectorInit, Placed, Callers
  <2>4. QED
    BY <2>2, <2>3
<1>2. LimiterTypeOK
  <2>1. PICK limited \in BOOLEAN : limiter = NewLimiter(limited)
    BY Zenon DEF Init
  <2>2. Burst \in 0 .. Burst
    BY Bounds
  <2>3. QED
    BY <2>1, <2>2, Zenon DEF LimiterTypeOK, NewLimiter
<1>3. Flag
  BY Zenon DEF Init, Flag
<1>4. ShutdownInv
  BY DEF Init, CollectorInit, ShutdownInv, InUse, Dispatching, Yielding, AtSink, Callers
<1>5. QED
  BY <1>1, <1>2, <1>3, <1>4, TypeParts

-----------------------------------------------------------------------------
(* Types and conservation.                                                 *)

(* The messages of a step that moves none.                                 *)
LEMMA CountedFrame ==
  ASSUME Counted, UNCHANGED <<polled, lost, working, committing, out, workItems, stats>>,
         Dispatching' = Dispatching, Yielding' = Yielding, AtSink' = AtSink,
         waitFor' \in Nat, waitFor' <= working
  PROVE  Counted'
<1>1. Accounted' = Accounted
  BY DEF Accounted
<1>2. QED
  BY <1>1 DEF Counted

(* The polling loop: a message enters, is dispatched, or is dropped.       *)
LEMMA PollingCounted ==
  ASSUME Counted, Placed, ShutdownInv,
         PollingLoop \/ PollMessage \/ OffsetRefused \/ AcquireTimeout \/ Revoke \/ ForeignTopic
  PROVE  Counted'
<1>1. CASE PollMessage
  <2>1. /\ polled' = polled + 1 /\ out' = out + 1 /\ Dispatching = 0 /\ Dispatching' = 1
        /\ Yielding' = Yielding /\ AtSink' = AtSink /\ Accounted' = Accounted
        /\ UNCHANGED <<lost, working, committing, workItems, stats, waitFor>> /\ polled < MaxMessages
    BY <1>1 DEF PollMessage, PollerAt, Borrow, Dispatching, Yielding, AtSink, Accounted, drainVars
  <2>2. QED
    BY <2>1, Bounds, StageCounts, AccountedType DEF Counted
<1>2. CASE OffsetRefused \/ AcquireTimeout
  <2>1. /\ lost' = lost + 1 /\ Dispatching = 1 /\ Dispatching' = 0
        /\ Yielding' = Yielding /\ AtSink' = AtSink /\ Accounted' = Accounted
        /\ UNCHANGED <<polled, out, working, committing, workItems, stats, waitFor>>
    BY <1>2 DEF OffsetRefused, AcquireTimeout, ProcessFails, PollerAt, Dispatching, Yielding, AtSink,
                Accounted, drainVars, collectorVars
  <2>2. QED
    BY <2>1, StageCounts, AccountedType DEF Counted
<1>3. CASE SendToWorker
  <2>1. /\ working' = working + 1 /\ Dispatching = 1 /\ Dispatching' = 0 /\ working < Capacity
        /\ Yielding' = Yielding /\ AtSink' = AtSink /\ Accounted' = Accounted
        /\ UNCHANGED <<polled, out, lost, committing, workItems, stats, waitFor>>
    BY <1>3 DEF SendToWorker, PollerAt, Dispatching, Yielding, AtSink, Accounted, drainVars,
                collectorVars, ShutdownInv
  <2>2. QED
    BY <2>1, Bounds, StageCounts, AccountedType DEF Counted
<1>4. CASE Cancelled \/ TakeStop \/ CallPoll \/ PollNothing \/ Acquire \/ AwaitRateLimit \/ AckRevoke
           \/ Revoke \/ ForeignTopic
  <2>1. /\ UNCHANGED <<polled, lost, working, committing, out, workItems, stats, waitFor>>
        /\ Dispatching' = Dispatching /\ Yielding' = Yielding /\ AtSink' = AtSink
    BY <1>4 DEF Cancelled, TakeStop, CallPoll, PollNothing, Acquire, AwaitRateLimit, AckRevoke, Revoke,
                ForeignTopic, PollerStep, PollerAt, Dispatching, Yielding, AtSink, pipeVars, drainVars,
                collectorVars
  <2>2. waitFor \in Nat /\ waitFor <= working
    BY DEF Counted
  <2>3. QED
    BY <2>1, <2>2, CountedFrame
<1>5. QED
  BY <1>1, <1>2, <1>3, <1>4 DEF PollingLoop

(* A counter of the collector counts one message.                          *)
LEMMA CountAccounts ==
  ASSUME stats \in [collected : Nat, dropped : Nat, failed : Nat],
         NEW counter \in {"collected", "dropped", "failed"}, Count(counter)
  PROVE  /\ stats' \in [collected : Nat, dropped : Nat, failed : Nat]
         /\ Accounted' = Accounted + 1
  BY DEF Count, Accounted

(* The workers, the committer's hand-over and the collector.               *)
LEMMA PipelineCounted ==
  ASSUME Counted, Placed, ShutdownInv, Processed \/ Dropped \/ HandOver \/ HandOverAgain \/ CollectMetrics
  PROVE  Counted'
<1>1. CASE Processed \/ Dropped
  <2>1. /\ working > 0 /\ working' = working - 1
        /\ \/ waitFor > 0 /\ waitFor' = waitFor - 1
           \/ waitFor < working /\ waitFor' = waitFor
        /\ \/ committing' = committing + 1 /\ lost' = lost
           \/ committing' = committing /\ lost' = lost + 1
        /\ UNCHANGED <<polled, out, workItems, stats>>
        /\ Dispatching' = Dispatching /\ Yielding' = Yielding /\ AtSink' = AtSink /\ Accounted' = Accounted
    BY <1>1 DEF Processed, Dropped, Leaves, Dispatching, Yielding, AtSink, Accounted, collectorVars
  <2>2. /\ working' \in Nat /\ working' <= Capacity /\ working = working' + 1
        /\ waitFor' \in Nat /\ waitFor' <= working'
    BY <2>1, Bounds DEF Counted
  <2>3. CASE committing' = committing + 1 /\ lost' = lost
    BY <2>1, <2>2, <2>3, StageCounts, AccountedType DEF Counted
  <2>4. CASE committing' = committing /\ lost' = lost + 1
    BY <2>1, <2>2, <2>4, StageCounts, AccountedType DEF Counted
  <2>5. QED
    BY <2>1, <2>3, <2>4
<1>2. CASE HandOver
  <2>1. /\ committing > 0 /\ committing' = committing - 1
        /\ \/ workItems < BufferSize /\ workItems' = workItems + 1 /\ collect' = collect
           \/ workItems' = workItems /\ collect = "idle" /\ collect' = "yield"
        /\ UNCHANGED <<polled, lost, working, waitFor, out, stats>>
        /\ Dispatching' = Dispatching /\ AtSink' = AtSink /\ Accounted' = Accounted
    BY <1>2 DEF HandOver, Collect, Enqueue, Dispatching, AtSink, Accounted, drainVars
  <2>2. QED
    BY <2>1, Bounds, StageCounts, AccountedType DEF Counted, Yielding
<1>3. CASE HandOverAgain
  <2>1. /\ Yielding = 1 /\ Yielding' = 0
        /\ \/ workItems < BufferSize /\ workItems' = workItems + 1 /\ out' = out /\ stats' = stats
           \/ workItems' = workItems /\ out' = out - 1 /\ Count("dropped")
        /\ UNCHANGED <<polled, lost, working, committing, waitFor>>
        /\ Dispatching' = Dispatching /\ AtSink' = AtSink
    BY <1>3 DEF HandOverAgain, CollectAgain, CollectAgainOr, Enqueue, Dispatching, AtSink, Yielding,
                drainVars, pipeVars
  <2>2. out = InUse /\ out \in Nat
    BY DEF ShutdownInv, Counted
  <2>3. out >= 1
    BY <2>1, <2>2, StageCounts DEF InUse, Counted
  <2>4. \/ stats' = stats /\ Accounted' = Accounted
        \/ /\ Count("dropped") /\ Accounted' = Accounted + 1
           /\ stats' \in [collected : Nat, dropped : Nat, failed : Nat]
    BY <2>1, CountAccounts DEF Counted, Accounted
  <2>5. stats' = stats /\ Count("dropped") => FALSE
    BY DEF Count, Counted
  <2>6. QED
    BY <2>1, <2>2, <2>3, <2>4, <2>5, Bounds, StageCounts, AccountedType DEF Counted
<1>4. CASE TakeItem /\ UNCHANGED <<pipeVars, drainVars, poller>>
  <2>1. /\ workItems > 0 /\ workItems' = workItems - 1 /\ AtSink = 0 /\ AtSink' = 1
        /\ UNCHANGED <<polled, lost, working, committing, waitFor, out, stats>>
        /\ Dispatching' = Dispatching /\ Yielding' = Yielding /\ Accounted' = Accounted
    BY <1>4 DEF TakeItem, Dispatching, AtSink, Yielding, Accounted, drainVars, pipeVars
  <2>2. workItems' \in Nat /\ workItems' <= BufferSize /\ workItems' + AtSink' = workItems + AtSink
    BY <2>1, Bounds DEF Counted
  <2>3. QED
    BY <2>1, <2>2, StageCounts, AccountedType DEF Counted
<1>5. CASE /\ \E outcome \in {"collected", "failed"} : SendToMetricsSink(outcome)
           /\ UNCHANGED <<pipeVars, drainVars, poller>>
  <2>1. /\ out' = out - 1 /\ AtSink = 1 /\ AtSink' = 0 /\ (Count("collected") \/ Count("failed"))
        /\ UNCHANGED <<polled, lost, working, committing, waitFor, workItems>>
        /\ Dispatching' = Dispatching /\ Yielding' = Yielding
    BY <1>5 DEF SendToMetricsSink, Dispatching, AtSink, Yielding, drainVars, pipeVars
  <2>2. out = InUse /\ out \in Nat
    BY DEF ShutdownInv, Counted
  <2>3. out >= 1
    BY <2>1, <2>2, StageCounts DEF InUse, Counted
  <2>4. Accounted' = Accounted + 1 /\ stats' \in [collected : Nat, dropped : Nat, failed : Nat]
    BY <2>1, CountAccounts DEF Counted
  <2>5. QED
    BY <2>1, <2>2, <2>3, <2>4, StageCounts, AccountedType DEF Counted
<1>6. CASE SeeQuit /\ UNCHANGED <<pipeVars, drainVars, poller>>
  <2>1. /\ UNCHANGED <<polled, lost, working, committing, out, workItems, stats, waitFor>>
        /\ Dispatching' = Dispatching /\ Yielding' = Yielding /\ AtSink' = AtSink
    BY <1>6 DEF SeeQuit, Dispatching, Yielding, AtSink, pipeVars, drainVars
  <2>2. QED
    BY <2>1, CountedFrame DEF Counted
<1>7. QED
  BY <1>1, <1>2, <1>3, <1>4, <1>5, <1>6 DEF CollectMetrics, CollectLoop

(* The drains and Shutdown move no message.                                *)
LEMMA ShutdownCounted ==
  ASSUME Counted, Placed,
         RefillBucket \/ CallShutdown \/ Shutdown \/ Timeout \/ \E c \in Callers : Drain(c)
  PROVE  Counted'
<1>1. /\ UNCHANGED <<polled, lost, working, committing, out, workItems, stats, collect, loop, poller>>
      /\ waitFor' \in {waitFor, working, 0}
  BY ZenonT(30) DEF RefillBucket, CallShutdown, Shutdown, CallUnsubscribe, BeginDrain, LeaveBroker, Unsubscribed,
         ShutdownReturnsNil, Timeout, StopPollingTimeout, UnsubscribeTimeout, DrainTimeout, Drain,
         LockWorkers, WorkersDrained, CommitterDrained, DrainSame, ShutdownSame, pipeVars, drainVars,
         collectorVars
<1>2. Dispatching' = Dispatching /\ Yielding' = Yielding /\ AtSink' = AtSink
  BY <1>1 DEF Dispatching, Yielding, AtSink
<1>3. waitFor' \in Nat /\ waitFor' <= working
  BY <1>1 DEF Counted
<1>4. QED
  BY <1>1, <1>2, <1>3, CountedFrame

LEMMA CountedStep ==
  ASSUME Counted, Placed, ShutdownInv, [Next]_vars
  PROVE  Counted'
<1>1. CASE UNCHANGED vars
  <2>1. /\ UNCHANGED <<polled, lost, working, committing, out, workItems, stats, waitFor>>
        /\ Dispatching' = Dispatching /\ Yielding' = Yielding /\ AtSink' = AtSink
    BY <1>1 DEF vars, pipeVars, collectorVars, drainVars, Dispatching, Yielding, AtSink
  <2>2. QED
    BY <2>1, CountedFrame DEF Counted
<1>2. QED
  BY <1>1, PollingCounted, PipelineCounted, ShutdownCounted DEF Next

LEMMA PlacedStep ==
  ASSUME Placed, [Next]_vars
  PROVE  Placed'
<1> USE DEF Placed, Callers, drainVars, shutdownVars, collectorVars
<1>1. CASE PollingLoop
  BY <1>1 DEF PollingLoop, Cancelled, TakeStop, CallPoll, PollNothing, Acquire, AwaitRateLimit, SendToWorker,
              AckRevoke, PollerStep, PollerAt
<1>2. CASE PollMessage \/ OffsetRefused \/ AcquireTimeout \/ Revoke \/ ForeignTopic
  BY <1>2 DEF PollMessage, OffsetRefused, AcquireTimeout, ProcessFails, Revoke, ForeignTopic, PollerAt
<1>3. CASE RefillBucket \/ Processed \/ Dropped
  BY <1>3 DEF RefillBucket, Processed, Dropped
<1>4. CASE HandOver \/ HandOverAgain
  BY <1>4 DEF HandOver, HandOverAgain, Collect, CollectAgain, CollectAgainOr
<1>5. CASE CollectMetrics
  <2>1. /\ loop' \in {"select", "sink", "ended"}
        /\ UNCHANGED <<collect, poller, drain, mutex, stop, unsub, shutdown>>
    BY <1>5 DEF CollectMetrics, CollectLoop, TakeItem, SendToMetricsSink, SeeQuit
  <2>2. quit' = quit \/ quit' = [quit EXCEPT !.seen = TRUE]
    BY <1>5, Zenon DEF CollectMetrics, CollectLoop, TakeItem, SendToMetricsSink, SeeQuit
  <2>3. quit' \in [closed : BOOLEAN, seen : BOOLEAN]
    BY <2>2, Zenon
  <2>4. QED
    BY <2>1, <2>3
<1>6. CASE \E c \in Callers : Drain(c) \/ DrainTimeout(c)
  BY <1>6 DEF Drain, LockWorkers, WorkersDrained, CommitterDrained, DrainTimeout, DrainAt, DrainSame
<1>7. CASE CallShutdown \/ CallUnsubscribe \/ StopPollingTimeout \/ UnsubscribeTimeout
  BY <1>7 DEF CallShutdown, CallUnsubscribe, StopPollingTimeout, UnsubscribeTimeout, ShutdownAt, ShutdownSame
<1>8. CASE BeginDrain \/ LeaveBroker \/ Unsubscribed \/ ShutdownReturnsNil
  <2>1. quit' = quit \/ quit' = [quit EXCEPT !.closed = TRUE]
    BY <1>8, Zenon DEF BeginDrain, LeaveBroker, Unsubscribed, ShutdownReturnsNil, CloseQuit
  <2>2. quit' \in [closed : BOOLEAN, seen : BOOLEAN]
    BY <2>1, Zenon
  <2>3. QED
    BY <1>8, <2>2 DEF BeginDrain, LeaveBroker, Unsubscribed, ShutdownReturnsNil, DrainAt, ShutdownAt,
              ShutdownSame
<1>9. CASE UNCHANGED vars
  BY <1>9 DEF vars
<1>10. QED
  BY <1>1, <1>2, <1>3, <1>4, <1>5, <1>6, <1>7, <1>8, <1>9 DEF Next, Shutdown, Timeout

(* The limiter's own steps, and those of Await and Stop.                   *)
LEMMA LimiterStep ==
  ASSUME LimiterTypeOK, [Next]_vars
  PROVE  LimiterTypeOK'
<1>1. CASE UNCHANGED limiter
  BY <1>1, Zenon DEF LimiterTypeOK
<1>2. CASE TakeTick \/ EndRefill
  BY <1>2 DEF TakeTick, EndRefill, LimiterTypeOK
<1>3. CASE PutToken \/ Await
  <2>1. limiter.tokens \in 0 .. Burst
    BY DEF LimiterTypeOK
  <2>2. /\ limiter.tokens < Burst => limiter.tokens + 1 \in 0 .. Burst
        /\ limiter.tokens > 0 => limiter.tokens - 1 \in 0 .. Burst
    BY <2>1, Bounds
  <2>3. QED
    BY <1>1, <1>3, <2>2, ZenonT(30) DEF PutToken, Await, LimiterTypeOK
<1>4. CASE Cancel \/ StopTicker
  <2>1. limiter.limited \in BOOLEAN /\ (~limiter.limited) \in BOOLEAN
    BY Zenon DEF LimiterTypeOK
  <2>2. PICK b \in BOOLEAN :
          limiter' = [limiter EXCEPT !.cancelled = b] \/ limiter' = [limiter EXCEPT !.ticking = b]
    BY <1>4, <2>1, Zenon DEF Cancel, StopTicker
  <2>3. QED
    BY <2>2, SMT DEF LimiterTypeOK
<1>5. UNCHANGED limiter \/ Refill \/ Await \/ Cancel \/ StopTicker
  BY Zenon DEF Next, vars, PollingLoop, Cancelled, TakeStop, CallPoll, PollNothing, Acquire, AwaitRateLimit,
         SendToWorker, AckRevoke, PollerStep, PollMessage, OffsetRefused, AcquireTimeout, ProcessFails, Revoke,
         ForeignTopic, RefillBucket, Processed, Dropped, HandOver, HandOverAgain, CollectMetrics, Drain,
         LockWorkers, WorkersDrained, CommitterDrained, DrainTimeout, DrainSame, CallShutdown, Shutdown,
         CallUnsubscribe, BeginDrain, LeaveBroker, Unsubscribed, ShutdownReturnsNil, Timeout,
         StopPollingTimeout, UnsubscribeTimeout
<1>6. QED
  BY <1>1, <1>2, <1>3, <1>4, <1>5 DEF Refill

LEMMA FlagStep ==
  ASSUME Flag, [Next]_vars
  PROVE  Flag'
<1>1. UNCHANGED tripped \/ tripped' = TRUE
  BY Zenon DEF Next, vars, PollingLoop, Cancelled, TakeStop, CallPoll, PollNothing, Acquire, AwaitRateLimit,
         SendToWorker, AckRevoke, PollerStep, PollMessage, OffsetRefused, AcquireTimeout, ProcessFails, Revoke,
         ForeignTopic, RefillBucket, Processed, Dropped, HandOver, HandOverAgain, CollectMetrics, Drain,
         LockWorkers, WorkersDrained, CommitterDrained, DrainTimeout, CallShutdown, Shutdown,
         CallUnsubscribe, BeginDrain, LeaveBroker, Unsubscribed, ShutdownReturnsNil, Timeout,
         StopPollingTimeout, UnsubscribeTimeout
<1>2. QED
  BY <1>1, Zenon DEF Flag

-----------------------------------------------------------------------------
(* The pool and the order of the steps.                                    *)

(* Conservation ties the work items in use to the messages accounted for.  *)
LEMMA InUseIsRest ==
  ASSUME Counted
  PROVE  InUse \in Nat /\ Accounted \in Nat /\ polled = InUse + Accounted
  BY StageCounts, AccountedType DEF Counted, InUse

LEMMA PoolStep ==
  ASSUME Counted, Counted', out = InUse, [Next]_vars
  PROVE  out' = InUse'
<1>1. InUse \in Nat /\ Accounted \in Nat /\ polled = InUse + Accounted
  BY InUseIsRest
<1>2. InUse' \in Nat /\ Accounted' \in Nat /\ polled' = InUse' + Accounted'
  <2>1. (InUse \in Nat /\ Accounted \in Nat /\ polled = InUse + Accounted)'
    BY InUseIsRest, PTL
  <2>2. QED
    BY <2>1
<1>3. out \in Nat /\ out' \in Nat /\ polled' \in Nat
  BY DEF Counted
<1>4. SUFFICES polled' = out' + Accounted'
  <2>1. \A i, o, a \in Nat : i + a = o + a => o = i
    OBVIOUS
  <2>2. QED
    BY <1>2, <1>3, <2>1, Zenon
<1>5. CASE UNCHANGED <<out, polled, stats>>
  BY <1>1, <1>5 DEF Accounted
<1>6. CASE PollMessage
  <2>1. out' = out + 1 /\ polled' = polled + 1 /\ Accounted' = Accounted
    BY <1>6 DEF PollMessage, Borrow, Accounted
  <2>2. QED
    BY <1>1, <1>3, <2>1
<1>7. CASE \E counter \in {"collected", "dropped", "failed"} :
             Count(counter) /\ out' = out - 1 /\ polled' = polled
  <2>1. Accounted' = Accounted + 1 /\ out' = out - 1 /\ polled' = polled
    BY <1>7, CountAccounts DEF Counted
  <2>2. QED
    BY <1>1, <1>3, <2>1
<1>8. \/ UNCHANGED <<out, polled, stats>> \/ PollMessage
      \/ \E counter \in {"collected", "dropped", "failed"} :
           Count(counter) /\ out' = out - 1 /\ polled' = polled
  <2>1. CASE HandOverAgain
    BY <2>1 DEF HandOverAgain, CollectAgain, CollectAgainOr, Enqueue, pipeVars
  <2>2. CASE CollectMetrics
    BY <2>2 DEF CollectMetrics, CollectLoop, TakeItem, SendToMetricsSink, SeeQuit, pipeVars
  <2>3. CASE ~HandOverAgain /\ ~CollectMetrics /\ ~PollMessage
    BY <2>3, ZenonT(30) DEF Next, vars, PollingLoop, Cancelled, TakeStop, CallPoll, PollNothing, Acquire, AwaitRateLimit,
         SendToWorker, AckRevoke, PollerStep, OffsetRefused, AcquireTimeout, ProcessFails, Revoke,
         ForeignTopic, RefillBucket, Processed, Dropped, HandOver, Collect, Enqueue, Drain,
         LockWorkers, WorkersDrained, CommitterDrained, DrainTimeout, DrainSame, CallShutdown, Shutdown,
         ShutdownSame, CallUnsubscribe, BeginDrain, LeaveBroker, Unsubscribed, ShutdownReturnsNil, Timeout,
         StopPollingTimeout, UnsubscribeTimeout, collectorVars, pipeVars
  <2>4. QED
    BY <2>1, <2>2, <2>3
<1>9. QED
  BY <1>5, <1>6, <1>7, <1>8

(* What an action has to keep: ShutdownInv but for the pool.               *)
Ordered == Counted /\ Placed /\ ShutdownInv

LEMMA PollingOrdered ==
  ASSUME Ordered, out' = InUse',
         PollingLoop \/ PollMessage \/ OffsetRefused \/ AcquireTimeout \/ Revoke \/ ForeignTopic
  PROVE  ShutdownInv'
<1> USE DEF Ordered, Placed, Callers, ShutdownInv, PollerStep, PollerAt, drainVars, shutdownVars, pipeVars,
            collectorVars
<1>1. CASE Cancelled \/ CallPoll \/ PollNothing \/ AckRevoke
  <2>1. CASE Cancelled
    BY <2>1 DEF Cancelled
  <2>2. CASE CallPoll
    BY <2>2 DEF CallPoll
  <2>3. CASE PollNothing
    BY <2>3 DEF PollNothing
  <2>4. CASE AckRevoke
    BY <2>4 DEF AckRevoke
  <2>5. QED
    BY <1>1, <2>1, <2>2, <2>3, <2>4
<1>2. CASE TakeStop
  BY <1>2 DEF TakeStop
<1>3. CASE Acquire \/ AwaitRateLimit
  BY <1>3 DEF Acquire, AwaitRateLimit
<1>4. CASE SendToWorker
  BY <1>4 DEF SendToWorker
<1>5. CASE PollMessage
  BY <1>5 DEF PollMessage
<1>6. CASE OffsetRefused \/ AcquireTimeout
  BY <1>6 DEF OffsetRefused, AcquireTimeout, ProcessFails
<1>7. CASE Revoke
  BY <1>7 DEF Revoke
<1>8. CASE ForeignTopic
  BY <1>8 DEF ForeignTopic
<1>9. QED
  BY <1>1, <1>2, <1>3, <1>4, <1>5, <1>6, <1>7, <1>8, ZenonT(30) DEF PollingLoop

LEMMA PipelineOrdered ==
  ASSUME Ordered, out' = InUse', Processed \/ Dropped \/ HandOver \/ HandOverAgain \/ CollectMetrics
  PROVE  ShutdownInv'
<1> USE DEF Ordered, Counted, Placed, Callers, ShutdownInv, drainVars, shutdownVars, pipeVars, collectorVars
<1>1. CASE Processed
  BY <1>1, Bounds DEF Processed, Leaves
<1>2. CASE Dropped
  BY <1>2, Bounds DEF Dropped, Leaves
<1>3. CASE HandOver
  BY <1>3 DEF HandOver, Collect, Enqueue
<1>4. CASE HandOverAgain
  BY <1>4 DEF HandOverAgain, CollectAgain, CollectAgainOr, Enqueue
<1>5. CASE CollectMetrics
  BY <1>5 DEF CollectMetrics, CollectLoop, TakeItem, SendToMetricsSink, SeeQuit
<1>6. QED
  BY <1>1, <1>2, <1>3, <1>4, <1>5, ZenonT(30)

LEMMA ShutdownOrdered ==
  ASSUME Ordered, out' = InUse',
         RefillBucket \/ CallShutdown \/ Shutdown \/ Timeout \/ \E c \in Callers : Drain(c)
  PROVE  ShutdownInv'
<1> USE DEF Ordered, Placed, Callers, ShutdownInv, drainVars, shutdownVars, pipeVars, collectorVars,
            ShutdownAt, ShutdownSame, DrainAt, DrainSame
<1>1. CASE RefillBucket \/ CallShutdown \/ CallUnsubscribe
  BY <1>1 DEF RefillBucket, CallShutdown, CallUnsubscribe
<1>2. CASE StopPollingTimeout \/ UnsubscribeTimeout
  BY <1>2 DEF StopPollingTimeout, UnsubscribeTimeout
<1>3. CASE BeginDrain \/ LeaveBroker
  BY <1>3 DEF BeginDrain, LeaveBroker
<1>4. CASE Unsubscribed
  BY <1>4 DEF Unsubscribed, CloseQuit
<1>5. CASE ShutdownReturnsNil
  BY <1>5 DEF ShutdownReturnsNil, CollectorStopped
<1>6. CASE \E c \in Callers : LockWorkers(c)
  BY <1>6 DEF LockWorkers
<1>7. CASE \E c \in Callers : WorkersDrained(c)
  BY <1>7 DEF WorkersDrained
<1>8. CASE \E c \in Callers : \E outcome \in {"clean", "short"} : CommitterDrained(c, outcome)
  BY <1>8 DEF CommitterDrained
<1>9. CASE \E c \in Callers : DrainTimeout(c)
  BY <1>9 DEF DrainTimeout
<1>10. QED
  BY <1>1, <1>2, <1>3, <1>4, <1>5, <1>6, <1>7, <1>8, <1>9, ZenonT(30) DEF Shutdown, Timeout, Drain

-----------------------------------------------------------------------------
(* The inductive invariant holds in every reachable state.                 *)
(* (Shutdown, Subscription.Unsubscribe, Coordinator.Drain, Collector)      *)
THEOREM ShutdownInvariant == Spec => []ShutdownIndInv
<1>1. TypeOK /\ ShutdownInv /\ [Next]_vars => (TypeOK /\ ShutdownInv)'
  <2> SUFFICES ASSUME TypeOK, ShutdownInv, [Next]_vars
               PROVE  (TypeOK /\ ShutdownInv)'
    OBVIOUS
  <2>1. Counted /\ Placed /\ LimiterTypeOK /\ Flag /\ Ordered /\ out = InUse
    BY TypeParts DEF Ordered, ShutdownInv
  <2>2. Counted' /\ Placed' /\ LimiterTypeOK' /\ Flag'
    BY <2>1, CountedStep, PlacedStep, LimiterStep, FlagStep
  <2>3. (TypeOK <=> Counted /\ Placed /\ LimiterTypeOK /\ Flag)'
    BY TypeParts, PTL
  <2>4. out' = InUse'
    BY <2>1, <2>2, PoolStep
  <2>5. ShutdownInv'
    <3>1. CASE UNCHANGED vars
      BY <2>4, <3>1 DEF vars, ShutdownInv, pipeVars, collectorVars, drainVars, shutdownVars
    <3>2. QED
      BY <2>1, <2>4, <3>1, PollingOrdered, PipelineOrdered, ShutdownOrdered DEF Next
  <2>6. QED
    BY <2>2, <2>3, <2>5
<1>2. QED
  BY <1>1, InitHolds, PTL DEF Spec, ShutdownIndInv

(* Every message polled is at exactly one stage of its way, in general.    *)
(* (The life of a work item, from toWorkItem to Return)                    *)
THEOREM MessagesConserved == Spec => []TypeOK
  BY ShutdownInvariant, PTL DEF ShutdownIndInv

(* A clean Shutdown accounts for every message, in general.                *)
(* (Shutdown, startCollectLoop, sendToMetricsSink)                         *)
THEOREM CleanShutdownHolds == Spec => []CleanShutdownAccountsForAll
<1>1. TypeOK /\ ShutdownInv => CleanShutdownAccountsForAll
  <2> SUFFICES ASSUME TypeOK, ShutdownInv, shutdown = "nil", stop = "taken", drain["shutdown"] = "clean"
               PROVE  Accounted + lost = polled /\ out = lost
    BY DEF CleanShutdownAccountsForAll
  <2>1. Counted
    BY TypeParts
  <2>2. /\ poller = "ended" /\ working = 0 /\ committing = 0 /\ collect = "idle"
        /\ loop = "ended" /\ workItems = 0 /\ out = InUse
    BY DEF ShutdownInv
  <2>3. Dispatching = 0 /\ Yielding = 0 /\ AtSink = 0
    BY <2>2 DEF Dispatching, Yielding, AtSink
  <2>4. QED
    BY <2>1, <2>2, <2>3, AccountedType DEF Counted, InUse
<1>2. QED
  BY <1>1, ShutdownInvariant, PTL DEF ShutdownIndInv

(* The broker is left after the drain, in general.                         *)
(* (Subscription.Unsubscribe)                                              *)
THEOREM DrainedBeforeUnsubscribeHolds == Spec => []DrainedBeforeUnsubscribe
<1>1. ShutdownInv => DrainedBeforeUnsubscribe
  BY DEF ShutdownInv, DrainedBeforeUnsubscribe
<1>2. QED
  BY <1>1, ShutdownInvariant, PTL DEF ShutdownIndInv
=============================================================================
