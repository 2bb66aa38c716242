-------------------------- MODULE GracefulShutdown --------------------------
(***************************************************************************)
(* Consumer.Shutdown from end to end, against the polling loop, the rate   *)
(* limiter, the workers, a revoke that drains from within poll, and the    *)
(* metrics collector.  Init is the state after a successful Subscribe.     *)
(*                                                                         *)
(* Messages are interchangeable here and are counted.  The insides of a    *)
(* drain, of the workers and of the committer are DrainHandshake's,        *)
(* KeyWorkers' and OffsetCommitter's; each message has a worker of its own *)
(* and all are of one partition.                                           *)
(***************************************************************************)
EXTENDS RateLimiter, MetricsCollector

CONSTANTS
  MaxMessages,  \* bound: messages polled in all
  Capacity      \* workers, guard and overflow together

ASSUME ShutdownAssumption == MaxMessages \in Nat /\ Capacity \in Nat \ {0}

VARIABLES
  polled,      \* messages poll has returned
  lost,        \* messages dropped on the way: the breaker trips for each
  poller,      \* PollAndForward: where it is
  working,     \* messages in workers
  committing,  \* messages in the committer, Ready included
  drain,       \* [caller -> where its drain is]
  mutex,       \* the caller that holds Coordinator.mu, or "free"
  waitFor,     \* messages in the workers its DrainWorkers waits for
  stop,        \* what became of stopPolling: "none", "taken" or "timeout"
  unsub,       \* the goroutine of Subscription.Unsubscribe
  shutdown,    \* Consumer.Shutdown
  tripped      \* the circuit breaker has tripped: mainCtxDone is closed

pipeVars == <<polled, lost, working, committing>>
drainVars == <<drain, mutex, waitFor>>
shutdownVars == <<stop, unsub, shutdown>>
vars == <<limiter, collectorVars, poller, pipeVars, drainVars, shutdownVars, tripped>>

Callers == {"revoke", "shutdown"}

Init ==
  /\ limiter \in {NewLimiter(limited) : limited \in BOOLEAN}
  /\ CollectorInit
  /\ polled = 0 /\ lost = 0 /\ working = 0 /\ committing = 0
  /\ poller = "top"
  /\ drain = [c \in Callers |-> "idle"] /\ mutex = "free" /\ waitFor = 0
  /\ stop = "none" /\ unsub = "idle" /\ shutdown = "idle"
  /\ tripped = FALSE

-----------------------------------------------------------------------------
(* PollAndForward.  stopPolling is unbuffered: the loop takes it while the *)
(* sender waits.                                                           *)

PollerAt(from, to) == poller = from /\ poller' = to

PollerStep(from, to) ==
  /\ PollerAt(from, to)
  /\ UNCHANGED <<limiter, collectorVars, pipeVars, drainVars, shutdownVars, tripped>>

(* Mutant: the loop looks at stopPolling only.                             *)
CancelledNever == FALSE /\ PollerStep("top", "ended")

Cancelled == tripped /\ PollerStep("top", "ended")

TakeStop ==
  /\ PollerAt("top", "ended")
  /\ unsub = "stopPolling"
  /\ unsub' = "drain" /\ stop' = "taken"
  /\ UNCHANGED <<limiter, collectorVars, pipeVars, drainVars, shutdown, tripped>>

CallPoll == ~tripped /\ unsub # "stopPolling" /\ PollerStep("top", "poll")

PollNothing == PollerStep("poll", "top")

(* Process and toWorkItem: a work item is borrowed, and the loop goes on   *)
(* to acquire a token of a guard.                                          *)
PollMessage ==
  /\ polled < MaxMessages
  /\ PollerAt("poll", "acquire")
  /\ polled' = polled + 1
  /\ Borrow
  /\ UNCHANGED <<limiter, workItems, collect, loop, quit, stats, lost, working, committing,
                 drainVars, shutdownVars, tripped>>

(* processMessage returns an error: the breaker trips and the loop ends.   *)
(* The work item is left to the garbage collector.                         *)
ProcessFails ==
  /\ lost' = lost + 1
  /\ tripped' = TRUE
  /\ UNCHANGED <<limiter, collectorVars, polled, working, committing, drainVars, shutdownVars>>

(* GetPrevious refuses a negative, repeated or regressing offset.          *)
OffsetRefused == PollerAt("acquire", "ended") /\ ProcessFails

AcquireTimeout == PollerAt("acquire", "ended") /\ working = Capacity /\ ProcessFails

Acquire == working < Capacity /\ PollerStep("acquire", "await")

AwaitRateLimit ==
  /\ PollerAt("await", "send")
  /\ Await
  /\ UNCHANGED <<collectorVars, pipeVars, drainVars, shutdownVars, tripped>>

SendToWorker ==
  /\ PollerAt("send", "top")
  /\ working' = working + 1
  /\ UNCHANGED <<limiter, collectorVars, polled, lost, committing, drainVars, shutdownVars, tripped>>

-----------------------------------------------------------------------------
(* A worker ends with a message, which may be one a drain waits for.       *)

Leaves ==
  /\ working > 0
  /\ working' = working - 1
  /\ \/ waitFor > 0 /\ waitFor' = waitFor - 1
     \/ waitFor < working /\ UNCHANGED waitFor

Processed ==
  /\ Leaves
  /\ committing' = committing + 1
  /\ UNCHANGED <<limiter, collectorVars, poller, polled, lost, drain, mutex, shutdownVars, tripped>>

(* Neither processed nor dead-lettered, or skipped because the breaker has *)
(* tripped already.                                                        *)
Dropped ==
  /\ Leaves
  /\ lost' = lost + 1
  /\ tripped' = TRUE
  /\ UNCHANGED <<limiter, collectorVars, poller, polled, committing, drain, mutex, shutdownVars>>

(* returnMessageAndCollectMetrics: a later message takes the place of      *)
(* Ready, or the commit of Ready is accepted.                              *)
HandOver ==
  /\ committing > 0
  /\ committing' = committing - 1
  /\ Collect
  /\ UNCHANGED <<limiter, poller, polled, lost, working, drainVars, shutdownVars, tripped>>

HandOverAgain ==
  /\ CollectAgain
  /\ UNCHANGED <<limiter, poller, pipeVars, drainVars, shutdownVars, tripped>>

-----------------------------------------------------------------------------
(* Subscription.drain and Coordinator.Drain.                               *)

(* A revoke arrives inside poll, and the loop waits for its drain.         *)
Revoke ==
  /\ PollerAt("poll", "revoke")
  /\ drain["revoke"] = "idle"
  /\ drain' = [drain EXCEPT !["revoke"] = "lock"]
  /\ UNCHANGED <<limiter, collectorVars, pipeVars, mutex, waitFor, shutdownVars, tripped>>

AckRevoke == drain["revoke"] \in {"clean", "short", "failed"} /\ PollerStep("revoke", "top")

(* A rebalance of another topic is refused before anything else.           *)
ForeignTopic ==
  /\ PollerAt("poll", "top")
  /\ tripped' = TRUE
  /\ UNCHANGED <<limiter, collectorVars, pipeVars, drainVars, shutdownVars>>

DrainAt(c, from, to) == drain[c] = from /\ drain' = [drain EXCEPT ![c] = to]

DrainSame == UNCHANGED <<limiter, collectorVars, poller, pipeVars, shutdownVars>>

(* Mutant: the snapshot is taken before the last messages are dispatched.  *)
LockWorkersUnseen(c) ==
  /\ mutex = "free" /\ mutex' = c
  /\ DrainAt(c, "lock", "workers")
  /\ waitFor' = 0
  /\ DrainSame /\ UNCHANGED tripped

(* The mutex, and DrainWorkers' snapshot of the workers.                   *)
LockWorkers(c) ==
  /\ mutex = "free" /\ mutex' = c
  /\ DrainAt(c, "lock", "workers")
  /\ waitFor' = working
  /\ DrainSame /\ UNCHANGED tripped

WorkersDrained(c) ==
  /\ waitFor = 0
  /\ DrainAt(c, "workers", "committer")
  /\ DrainSame /\ UNCHANGED <<mutex, waitFor, tripped>>

(* DrainCommitter returns after its commit: all that was in the committer  *)
(* has been handed over, or ("short") the broker refused the commit, or a  *)
(* message is missing, or the ingest loop was held up.                     *)
CommitterDrained(c, outcome) ==
  /\ outcome = "clean" => committing = 0 /\ collect = "idle"
  /\ DrainAt(c, "committer", outcome)
  /\ mutex' = "free"
  /\ DrainSame /\ UNCHANGED <<waitFor, tripped>>

DrainTimeout(c) ==
  /\ DrainAt(c, "workers", "failed") \/ DrainAt(c, "committer", "failed")
  /\ mutex' = "free" /\ waitFor' = 0
  /\ tripped' = TRUE
  /\ DrainSame

Drain(c) ==
  \/ LockWorkers(c)
  \/ WorkersDrained(c)
  \/ \E outcome \in {"clean", "short"} : CommitterDrained(c, outcome)

-----------------------------------------------------------------------------
(* Shutdown, and the goroutine Unsubscribe starts for it.                  *)

ShutdownAt(from, to) == shutdown = from /\ shutdown' = to

ShutdownSame == UNCHANGED <<poller, pipeVars, drainVars, stop>>

(* stopRateLimit comes first, while the polling loop still runs.           *)
CallShutdown ==
  /\ ShutdownAt("idle", "stopTicker")
  /\ Cancel
  /\ ShutdownSame /\ UNCHANGED <<collectorVars, unsub, tripped>>

CallUnsubscribe ==
  /\ ShutdownAt("stopTicker", "unsubscribing")
  /\ StopTicker
  /\ unsub' = "stopPolling"
  /\ ShutdownSame /\ UNCHANGED <<collectorVars, tripped>>

(* Half the drain timeout has passed: "proceeding with drain".             *)
StopPollingTimeout ==
  /\ unsub = "stopPolling"
  /\ unsub' = "drain" /\ stop' = "timeout"
  /\ UNCHANGED <<limiter, collectorVars, poller, pipeVars, drainVars, shutdown, tripped>>

BeginDrain ==
  /\ unsub = "drain"
  /\ unsub' = "draining"
  /\ DrainAt("shutdown", "idle", "lock")
  /\ UNCHANGED <<limiter, collectorVars, poller, pipeVars, mutex, waitFor, stop, shutdown, tripped>>

(* Mutant: the broker is left while the drain goes on.                     *)
LeaveBrokerEarly ==
  /\ unsub = "draining"
  /\ unsub' = "left"
  /\ ShutdownSame /\ UNCHANGED <<limiter, collectorVars, shutdown, tripped>>

(* The deferred unsubscribe: a failed drain is logged and no more.         *)
LeaveBroker ==
  /\ unsub = "draining" /\ drain["shutdown"] \in {"clean", "short", "failed"}
  /\ unsub' = "left"
  /\ ShutdownSame /\ UNCHANGED <<limiter, collectorVars, shutdown, tripped>>

(* Unsubscribe has returned nil: the collector is told to stop.            *)
Unsubscribed ==
  /\ unsub = "left"
  /\ ShutdownAt("unsubscribing", "collector")
  /\ CloseQuit
  /\ ShutdownSame /\ UNCHANGED <<limiter, out, workItems, collect, loop, stats, unsub, tripped>>

UnsubscribeTimeout ==
  /\ ShutdownAt("unsubscribing", "error")
  /\ tripped' = TRUE
  /\ ShutdownSame /\ UNCHANGED <<limiter, collectorVars, unsub>>

ShutdownReturnsNil ==
  /\ CollectorStopped
  /\ ShutdownAt("collector", "nil")
  /\ ShutdownSame /\ UNCHANGED <<limiter, collectorVars, unsub, tripped>>

-----------------------------------------------------------------------------
PollingLoop ==
  \/ Cancelled
  \/ TakeStop
  \/ CallPoll
  \/ PollNothing
  \/ Acquire
  \/ AwaitRateLimit
  \/ SendToWorker
  \/ AckRevoke

RefillBucket ==
  Refill /\ UNCHANGED <<collectorVars, poller, pipeVars, drainVars, shutdownVars, tripped>>

CollectMetrics ==
  CollectLoop /\ UNCHANGED <<limiter, poller, pipeVars, drainVars, shutdownVars, tripped>>

Shutdown ==
  \/ CallUnsubscribe
  \/ BeginDrain
  \/ LeaveBroker
  \/ Unsubscribed
  \/ ShutdownReturnsNil

Timeout ==
  \/ StopPollingTimeout
  \/ UnsubscribeTimeout
  \/ \E c \in Callers : DrainTimeout(c)

Next ==
  \/ PollingLoop
  \/ PollMessage \/ OffsetRefused \/ AcquireTimeout
  \/ Revoke \/ ForeignTopic
  \/ RefillBucket
  \/ Processed \/ Dropped
  \/ HandOver \/ HandOverAgain
  \/ CollectMetrics
  \/ \E c \in Callers : Drain(c)
  \/ CallShutdown
  \/ Shutdown
  \/ Timeout

Spec == Init /\ [][Next]_vars

(* Goroutines run, the ticker ticks, the host's callbacks return, and the  *)
(* timer of stopPolling fires.  No other timeout is assumed to fire, no    *)
(* broker to accept a commit, and no message or rebalance to arrive.       *)
Fairness ==
  /\ WF_vars(PollingLoop)
  /\ WF_vars(RefillBucket)
  /\ WF_vars(Processed)
  /\ WF_vars(HandOverAgain)
  /\ WF_vars(CollectMetrics)
  /\ \A c \in Callers : WF_vars(Drain(c))
  /\ WF_vars(Shutdown)
  /\ WF_vars(StopPollingTimeout)

FairSpec == Spec /\ Fairness

-----------------------------------------------------------------------------
Dispatching == IF poller \in {"acquire", "await", "send"} THEN 1 ELSE 0
Yielding == IF collect = "yield" THEN 1 ELSE 0
AtSink == IF loop = "sink" THEN 1 ELSE 0

(* Every message polled is at one stage of its way.                        *)
TypeOK ==
  /\ LimiterTypeOK /\ CollectorTypeOK
  /\ {polled, lost, working, committing} \subseteq 0 .. MaxMessages
  /\ working <= Capacity /\ waitFor \in 0 .. working
  /\ polled = Dispatching + working + committing + Yielding + workItems + AtSink + Accounted + lost
  /\ poller \in {"top", "poll", "acquire", "await", "send", "revoke", "ended"}
  /\ drain \in [Callers -> {"idle", "lock", "workers", "committer", "clean", "short", "failed"}]
  /\ mutex \in Callers \cup {"free"}
  /\ stop \in {"none", "taken", "timeout"}
  /\ unsub \in {"idle", "stopPolling", "drain", "draining", "left"}
  /\ shutdown \in {"idle", "stopTicker", "unsubscribing", "collector", "nil", "error"}
  /\ tripped \in BOOLEAN

(* When Shutdown returns nil, the polling loop took the stop and the drain *)
(* was clean, every message that was not dropped has had its metrics       *)
(* delivered or counted as dropped or failed, and its work item is back in *)
(* the pool.  (The order of Shutdown's steps; Collector.Stop and the end   *)
(* of startCollectLoop: "relies on upstream message-workers drain".)       *)
CleanShutdownAccountsForAll ==
  shutdown = "nil" /\ stop = "taken" /\ drain["shutdown"] = "clean"
    => Accounted + lost = polled /\ out = lost

(* The broker is left only when no worker holds a message, unless the      *)
(* polling loop did not take the stop in time or the drain failed, and     *)
(* then the breaker has tripped.  (The drain and the deferred unsubscribe  *)
(* of Subscription.Unsubscribe, also while a revoke drains.)               *)
DrainedBeforeUnsubscribe ==
  unsub = "left" /\ stop = "taken" => working = 0 \/ (drain["shutdown"] = "failed" /\ tripped)

(* Shutdown returns, whatever the polling loop is blocked in, and no       *)
(* timeout but that of stopPolling has to fire.                            *)
ShutdownReturns == []<>(shutdown \in {"idle", "nil", "error"})

(* The polling loop holds a message and a guard token, and waits for a     *)
(* token that Stop has ended the refill of.                                *)
Stranded == poller = "await" /\ limiter.tokens = 0 /\ limiter.cancelled

(* After a trip the polling loop ends, unless Shutdown, which stops the    *)
(* limiter first, has stranded it in Await.  (mainCtxDone in               *)
(* PollAndForward, and every place the loop can block in.)                 *)
PollingEndsAfterTrip == []<>(tripped => poller = "ended" \/ Stranded)

-----------------------------------------------------------------------------
(* Why they hold: the inductive invariant.                                 *)

(* Every work item borrowed is with its message, or was left to the        *)
(* garbage collector with a message that was dropped.                      *)
InUse == Dispatching + working + committing + Yielding + workItems + AtSink + lost

(* A token was acquired for the message in dispatch.  The order of         *)
(* Shutdown's steps: the collector is told to stop after the broker is     *)
(* left, the broker is left after the drain, and one drain at a time is    *)
(* between its lock and its end.  Once the polling loop has taken the      *)
(* stop, nothing enters behind the drain's snapshot of the workers, so     *)
(* each stage it finds empty stays empty.  (Shutdown, Unsubscribe, Drain,  *)
(* Collector.Stop)                                                         *)
ShutdownInv ==
  /\ out = InUse
  /\ poller \in {"await", "send"} => working < Capacity
  /\ quit.seen \/ loop = "ended" => quit.closed
  /\ quit.closed => unsub = "left"
  /\ shutdown = "nil" => loop = "ended"
  /\ shutdown \in {"idle", "stopTicker"} => unsub = "idle"
  /\ unsub = "left" => drain["shutdown"] \in {"clean", "short", "failed"}
  /\ unsub \in {"idle", "stopPolling", "drain"} => drain["shutdown"] = "idle"
  /\ \A c \in Callers : drain[c] \in {"workers", "committer"} <=> mutex = c
  /\ drain["shutdown"] = "failed" => tripped
  /\ stop = "taken" =>
       /\ poller = "ended"
       /\ drain["shutdown"] = "workers" => waitFor = working
       /\ drain["shutdown"] \in {"committer", "clean", "short"} => working = 0
       /\ drain["shutdown"] = "clean" => committing = 0 /\ collect = "idle"
       /\ drain["shutdown"] = "clean" /\ loop = "ended" => workItems = 0

(* The inductive invariant: every message is at one stage of its way, and  *)
(* the stages end in order.  (Shutdown, Unsubscribe, Drain, Collector)     *)
ShutdownIndInv == TypeOK /\ ShutdownInv
=============================================================================
