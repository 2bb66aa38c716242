-------------------------- MODULE ConsumerLifecycle --------------------------
(***************************************************************************)
(* How a consumer's life ends, and who is told: Subscribe, Shutdown,       *)
(* RegisterShutdownCallback and EmergencyShutdown called by the host from  *)
(* any goroutine, the circuit breaker's election, and the watchEmergency   *)
(* observer parked at Build.  The host must hear of the end exactly once.  *)
(*                                                                         *)
(* A step is one operation on a channel or an atomic pointer.              *)
(***************************************************************************)
EXTENDS Integers, Sequences

CONSTANT Shutdowns  \* calls of Shutdown

VARIABLES
  winner,           \* how far the elected TriggerEmergencyShutdown is
  payload,          \* the emergencyShutdown channel: "empty", "full", "taken"
  callback,         \* shutdownCallback: "none", "default" or "host"
  notify,           \* the notify slot: "free", or by whom it was claimed
  gracefulDone,     \* the token that releases the observer
  emergencyReason,  \* whether a delivered trip is recorded
  observer,         \* where watchEmergency is
  sub,              \* where Subscribe is
  sd,               \* [Shutdown call -> where it is]
  heard             \* what the shutdown callback was called with, in order

breakerVars == <<winner, payload>>
noticeVars == <<notify, gracefulDone, emergencyReason>>
callerVars == <<sub, sd>>
lifecycleVars == <<winner, payload, callback, notify, gracefulDone, emergencyReason, observer,
                   sub, sd, heard>>

(* The builder may or may not be given a callback.                         *)
LifecycleInit ==
  /\ winner = "none" /\ payload = "empty"
  /\ callback \in {"none", "host"}
  /\ notify = "free" /\ gracefulDone = FALSE /\ emergencyReason = FALSE
  /\ observer = "parked"
  /\ sub = "idle"
  /\ sd = [s \in Shutdowns |-> "idle"]
  /\ heard = <<>>

(* The tripped latch is closed; processing has been cancelled before.      *)
Latched == winner \in {"latched", "complete"}

-----------------------------------------------------------------------------
(* CircuitBreaker.TriggerEmergencyShutdown.  The first call wins; a later  *)
(* one, re-entrant or not, returns at once and so is not a step.           *)

Elect == winner = "none" /\ winner' = "elected"

Trip ==
  /\ Elect
  /\ UNCHANGED <<payload, callback, noticeVars, observer, callerVars, heard>>

(* reason, mainCancelFunc, close(tripped).                                 *)
CancelAndLatch ==
  /\ winner = "elected"
  /\ winner' = "latched"
  /\ UNCHANGED <<payload, callback, noticeVars, observer, callerVars, heard>>

(* Mutant: the winner tells nobody.                                        *)
SendPayloadDropped ==
  /\ winner = "latched"
  /\ winner' = "complete"
  /\ UNCHANGED <<payload, callback, noticeVars, observer, callerVars, heard>>

SendPayload ==
  /\ winner = "latched"
  /\ winner' = "complete"
  /\ payload' = "full"
  /\ UNCHANGED <<callback, noticeVars, observer, callerVars, heard>>

-----------------------------------------------------------------------------
(* watchEmergency and emergencyExit.                                       *)

ObserverAt(from, to) == observer = from /\ observer' = to

WatchTrip ==
  /\ payload = "full"
  /\ ObserverAt("parked", "tripped")
  /\ payload' = "taken"
  /\ UNCHANGED <<winner, callback, noticeVars, callerVars, heard>>

WatchGraceful ==
  /\ gracefulDone
  /\ ObserverAt("parked", "gone")
  /\ gracefulDone' = FALSE
  /\ UNCHANGED <<breakerVars, callback, notify, emergencyReason, callerVars, heard>>

RecordReason ==
  /\ ObserverAt("tripped", "recorded")
  /\ emergencyReason' = TRUE
  /\ UNCHANGED <<breakerVars, callback, notify, gracefulDone, callerVars, heard>>

ObserverLoads ==
  /\ ObserverAt("recorded", IF callback = "none" THEN "gone" ELSE "loaded")
  /\ UNCHANGED <<breakerVars, callback, noticeVars, callerVars, heard>>

(* Mutants: the slot is always granted; it is never filled.                *)
ClaimNotifyUngated(who, claimed) == claimed /\ notify' = who
ClaimNotifyUnfilled(who, claimed) == claimed = (notify = "free") /\ UNCHANGED notify

(* claimNotify: the one slot decides who delivers.                         *)
ClaimNotify(who, claimed) ==
  /\ claimed = (notify = "free")
  /\ notify' = IF claimed THEN who ELSE notify

ObserverClaims(claimed) ==
  /\ ObserverAt("loaded", "gone")
  /\ ClaimNotify("observer", claimed)
  /\ heard' = IF claimed THEN Append(heard, "emergency") ELSE heard
  /\ UNCHANGED <<breakerVars, callback, gracefulDone, emergencyReason, callerVars>>

-----------------------------------------------------------------------------
(* Shutdown and Unsubscribe.                                               *)

ShutdownAt(s, from, to) == sd[s] = from /\ sd' = [sd EXCEPT ![s] = to]

ShutdownLoads(s) ==
  /\ ShutdownAt(s, "idle", IF callback = "none" THEN "signal" ELSE "unsubscribing")
  /\ UNCHANGED <<breakerVars, callback, noticeVars, observer, sub, heard>>

(* Drained, or the drain failed and its breaker call has returned.         *)
Unsubscribed(s) ==
  /\ \/ ShutdownAt(s, "unsubscribing", "unsubscribed")
     \/ winner = "complete" /\ ShutdownAt(s, "drainFailed", "unsubscribed")
  /\ UNCHANGED <<breakerVars, callback, noticeVars, observer, sub, heard>>

(* Coordinator.Drain fails and trips the breaker; Subscription.Unsubscribe *)
(* logs the error and goes on.                                             *)
DrainFails(s) ==
  /\ ShutdownAt(s, "unsubscribing", "drainFailed")
  /\ Elect \/ (winner # "none" /\ UNCHANGED winner)
  /\ UNCHANGED <<payload, callback, noticeVars, observer, sub, heard>>

(* DrainTimeout: Shutdown trips the breaker and returns the error.         *)
UnsubscribeTimeout(s) ==
  /\ ShutdownAt(s, "unsubscribing", "failed") \/ ShutdownAt(s, "drainFailed", "failed")
  /\ Elect \/ (winner # "none" /\ UNCHANGED winner)
  /\ UNCHANGED <<payload, callback, noticeVars, observer, sub, heard>>

(* A trip that was complete before the slot was claimed is noted with it.  *)
ShutdownClaims(s, claimed) ==
  /\ ShutdownAt(s, "unsubscribed", IF claimed THEN "deliver" ELSE "signal")
  /\ ClaimNotify(IF winner = "complete" THEN "shutdownAfterTrip" ELSE "shutdown", claimed)
  /\ UNCHANGED <<breakerVars, callback, gracefulDone, emergencyReason, observer, sub, heard>>

(* trippedReason is read only now.                                         *)
ShutdownDelivers(s) ==
  /\ ShutdownAt(s, "deliver", "signal")
  /\ heard' = Append(heard, IF emergencyReason THEN "emergency" ELSE "graceful")
  /\ UNCHANGED <<breakerVars, callback, noticeVars, observer, sub>>

(* Mutant: the observer is not released.                                   *)
SignalGracefulDoneNever(s) ==
  /\ ShutdownAt(s, "signal", "returned")
  /\ UNCHANGED <<breakerVars, callback, noticeVars, observer, sub, heard>>

SignalGracefulDone(s) ==
  /\ ShutdownAt(s, "signal", "returned")
  /\ gracefulDone' = TRUE
  /\ UNCHANGED <<breakerVars, callback, notify, emergencyReason, observer, sub, heard>>

-----------------------------------------------------------------------------
(* RegisterShutdownCallback and Subscribe.                                 *)

RegisterShutdownCallback ==
  /\ callback' = "host"
  /\ UNCHANGED <<breakerVars, noticeVars, observer, callerVars, heard>>

SubAt(from, to) == sub = from /\ sub' = to

SubStep(from, to) ==
  /\ SubAt(from, to)
  /\ UNCHANGED <<breakerVars, callback, noticeVars, observer, sd, heard>>

SubscribeChecks == SubStep("idle", IF Latched THEN "failed" ELSE "checked")

InstallDefault ==
  /\ SubAt("checked", "installed")
  /\ callback' = IF callback = "none" THEN "default" ELSE callback
  /\ UNCHANGED <<breakerVars, noticeVars, observer, sd, heard>>

(* The broker refuses, or the polling loop starts.                         *)
Join(ok) == SubStep("installed", IF ok THEN "awaiting" ELSE "failed")

Assigned == SubStep("awaiting", "assigned")

(* Mutant: the latch is not looked at again.                               *)
AfterAssignedBlind == SubStep("assigned", "subscribed")

(* A trip that raced the assignment wins.                                  *)
AfterAssigned == SubStep("assigned", IF Latched THEN "failed" ELSE "subscribed")

AwaitTripped == Latched /\ SubStep("awaiting", "failed")

(* No assignment in time: unsubscribe.  (The drain this starts may trip    *)
(* the breaker, which Trip covers.)                                        *)
AwaitTimeout == SubStep("awaiting", "leaving")

StartupLeft == SubStep("leaving", "failed")

(* The unsubscribe is stuck too: the default callback is called directly,  *)
(* past the notify slot, and ends the process.                             *)
StartupStuck == SubStep("leaving", "terminated")

-----------------------------------------------------------------------------
Breaker == CancelAndLatch \/ SendPayload

Observer ==
  \/ WatchTrip
  \/ WatchGraceful
  \/ RecordReason
  \/ ObserverLoads
  \/ \E claimed \in BOOLEAN : ObserverClaims(claimed)

Shutdown(s) ==
  \/ Unsubscribed(s)
  \/ UnsubscribeTimeout(s)
  \/ \E claimed \in BOOLEAN : ShutdownClaims(s, claimed)
  \/ ShutdownDelivers(s)
  \/ SignalGracefulDone(s)

Subscribe ==
  \/ SubscribeChecks
  \/ InstallDefault
  \/ \E ok \in BOOLEAN : Join(ok)
  \/ Assigned
  \/ AfterAssigned
  \/ AwaitTripped
  \/ AwaitTimeout
  \/ StartupLeft
  \/ StartupStuck

LifecycleNext ==
  \/ Trip
  \/ Breaker
  \/ Observer
  \/ \E s \in Shutdowns : ShutdownLoads(s) \/ DrainFails(s) \/ Shutdown(s)
  \/ RegisterShutdownCallback
  \/ Subscribe

LifecycleSpec == LifecycleInit /\ [][LifecycleNext]_lifecycleVars

(* A goroutine that can take a step takes it; nobody has to call Shutdown, *)
(* register a callback or trip the breaker.                                *)
LifecycleFairness ==
  /\ WF_lifecycleVars(Breaker)
  /\ WF_lifecycleVars(Observer)
  /\ \A s \in Shutdowns : WF_lifecycleVars(Shutdown(s))

LifecycleFairSpec == LifecycleSpec /\ LifecycleFairness

-----------------------------------------------------------------------------
LifecycleTypeOK ==
  /\ winner \in {"none", "elected", "latched", "complete"}
  /\ payload \in {"empty", "full", "taken"}
  /\ callback \in {"none", "default", "host"}
  /\ notify \in {"free", "observer", "shutdown", "shutdownAfterTrip"}
  /\ {gracefulDone, emergencyReason} \subseteq BOOLEAN
  /\ observer \in {"parked", "tripped", "recorded", "loaded", "gone"}
  /\ sub \in {"idle", "checked", "installed", "awaiting", "assigned", "subscribed", "leaving",
             "failed", "terminated"}
  /\ sd \in [Shutdowns -> {"idle", "unsubscribing", "drainFailed", "unsubscribed", "deliver",
                           "signal", "returned", "failed"}]
  /\ heard \in Seq({"graceful", "emergency"})
  /\ heard # <<>> => notify # "free"

(* The shutdown callback is called at most once, however many Shutdowns    *)
(* race a trip.  (claimNotify; the process-ending call of a start-up whose *)
(* unsubscribe is stuck is not counted.)                                   *)
HeardAtMostOnce == Len(heard) <= 1

(* Subscribe reports a healthy start only when the breaker had not tripped *)
(* by then.  (The second look at the latch after the assignment.)          *)
HealthyStart == [][sub # "subscribed" /\ sub' = "subscribed" => ~Latched]_lifecycleVars

(* Every trip of a consumer built with a callback is heard, unless a       *)
(* Shutdown was heard before.  (watchEmergency, emergencyExit, Shutdown)   *)
TripHeard == callback = "host" => (winner # "none" ~> heard # <<>>)

(* The observer goroutine does not outlive a Shutdown that returned        *)
(* without an error.  (signalGracefulDone)                                 *)
ObserverReleased == (\E s \in Shutdowns : sd[s] = "returned") ~> observer = "gone"

(* "the registered shutdown callback receives the reason": a trip that was *)
(* complete before Shutdown claimed the slot is what the callback hears.   *)
CompletedTripReported ==
  notify = "shutdownAfterTrip" => \A j \in DOMAIN heard : heard[j] = "emergency"

(* "regardless of when the trip lands": a trip that lands while a callback *)
(* is registered is heard.                                                 *)
LaterTripHeard ==
  [](callback # "none" /\ winner = "none" => [](winner # "none" => <>(heard # <<>>)))

(* Why the callback is called at most once: whoever is about to call it    *)
(* holds the slot, alone, and nobody has been told yet.  (claimNotify and  *)
(* its two callers, emergencyExit and Shutdown)                            *)
DeliveryInv ==
  /\ Len(heard) <= 1
  /\ \A s \in Shutdowns : sd[s] = "deliver" =>
       /\ notify \in {"shutdown", "shutdownAfterTrip"} /\ heard = <<>>
       /\ \A t \in Shutdowns : sd[t] = "deliver" => t = s

(* The inductive invariant.  (claimNotify, emergencyExit, Shutdown)        *)
DeliveryIndInv == LifecycleTypeOK /\ DeliveryInv
=============================================================================
