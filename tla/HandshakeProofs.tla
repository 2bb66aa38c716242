-------------------------- MODULE HandshakeProofs ---------------------------
(***************************************************************************)
(* Two agreements between goroutines.                                      *)
(*                                                                         *)
(* The drain handshake, for every number of drains, items, and every       *)
(* channel capacity and batch size: the items are conserved, no wake-up is *)
(* lost, and a drain that was not held up covers everything delivered.     *)
(*                                                                         *)
(* The notification of the host, for every number of Shutdowns: it comes   *)
(* at most once, and a healthy start is never reported after a trip.       *)
(***************************************************************************)
EXTENDS DrainHandshake, ConsumerLifecycle, TLAPS

(* For the steps that name no prover: time enough on a slow machine.       *)
USE SMTT(30), ZenonT(30)

-----------------------------------------------------------------------------
(* The drain handshake.                                                    *)

PcStates == {"idle", "lock", "workers", "clear", "check", "grace", "wait", "barrier",
             "guard", "commit", "lateGuard", "lateCommit", "returned"}

(* TypeOK, in a part about the work items and one about where the loops    *)
(* and the drains are.                                                     *)
Conserved ==
  /\ delivered \in Nat /\ working \in Nat /\ commitsIn \in Nat /\ held \in Nat
  /\ ingested \in Nat /\ committed \in Nat /\ batch \in Nat
  /\ delivered <= MaxItems /\ commitsIn <= QueueLen /\ batch <= ReadBatchSize
  /\ working + commitsIn + held + ingested = delivered
  /\ committed <= ingested

Placed ==
  /\ ingest \in {"select", "ticker", "batch", "signal", "unlock"}
  /\ guard \subseteq Drains \cup {"tick"} /\ coordinator \subseteq Drains
  /\ pc \in [Drains -> PcStates]
  /\ result \in [Drains -> {"none", "clean", "refused", "error"}]
  /\ delayed \in [Drains -> SUBSET {"token", "ticker"}]

Flags == {drained, tripped} \subseteq BOOLEAN

LEMMA TypeParts == TypeOK <=> Conserved /\ Placed /\ Flags
<1>1. MaxItems \in Nat /\ QueueLen \in Nat /\ ReadBatchSize \in Nat
  BY DrainAssumption DEF DrainAssumption
<1>2. TypeOK => Conserved
  BY <1>1 DEF TypeOK, Conserved
<1>3. TypeOK => Placed /\ Flags
  BY Zenon DEF TypeOK, Placed, Flags, PcStates
<1>4. ASSUME Conserved, Placed, Flags
      PROVE  TypeOK
  <2>1. /\ delivered \in 0 .. MaxItems /\ working \in 0 .. MaxItems /\ commitsIn \in 0 .. MaxItems
        /\ held \in 0 .. MaxItems /\ ingested \in 0 .. MaxItems /\ committed \in 0 .. MaxItems
        /\ batch \in 0 .. ReadBatchSize /\ commitsIn <= QueueLen /\ committed <= ingested
        /\ working + commitsIn + held + ingested = delivered
    BY <1>1, <1>4 DEF Conserved
  <2>2. {working, commitsIn, held, ingested, committed} \subseteq 0 .. MaxItems
    BY <2>1
  <2>3. QED
    BY <1>4, <2>1, <2>2, Zenon DEF TypeOK, Placed, Flags, PcStates
<1>5. QED
  BY <1>2, <1>3, <1>4

-----------------------------------------------------------------------------
(* The empty channels and idle drains at the start.                        *)
LEMMA InitHolds == Init => TypeOK /\ HandshakeInv /\ TokenComes
<1> SUFFICES ASSUME Init
             PROVE  TypeOK /\ HandshakeInv /\ TokenComes
  OBVIOUS
<1>1. Conserved
  BY DrainAssumption DEF DrainAssumption, Init, Conserved
<1>2. Placed
  BY DEF Init, Placed, PcStates
<1>3. Flags
  BY Zenon DEF Init, Flags
<1>4. HandshakeInv
  BY DEF Init, HandshakeInv, Active, Finishing
<1>5. TokenComes
  BY DEF Init, TokenComes
<1>6. QED
  BY <1>1, <1>2, <1>3, <1>4, <1>5, TypeParts

-----------------------------------------------------------------------------
(* Types and conservation.                                                 *)

(* Items only move from one stage to the next; the item the ingest loop    *)
(* took out of the channel is the one its batch begins with.               *)
LEMMA ConservedStep ==
  ASSUME Conserved, held = IF ingest = "ticker" THEN 1 ELSE 0, [Next]_vars
  PROVE  Conserved'
<1> USE DrainAssumption DEF DrainAssumption, Conserved, itemVars
<1>1. CASE Deliver
  BY <1>1 DEF Deliver
<1>2. CASE CollectAndCommit
  BY <1>2 DEF CollectAndCommit
<1>3. CASE Receive \/ BeginBatch
  BY <1>3 DEF Receive, BeginBatch
<1>4. CASE ReceiveMore \/ EndBatch
  BY <1>4 DEF ReceiveMore, EndBatch
<1>5. CASE SignalDrained \/ Unlock \/ TickAcquire
  BY <1>5 DEF SignalDrained, Unlock, TickAcquire
<1>6. CASE \E accepted \in BOOLEAN : TickCommit(accepted)
  BY <1>6 DEF TickCommit, CommitIngested
<1>7. CASE \E d \in Drains : \E accepted \in BOOLEAN : FinalCommit(d, accepted) \/ LateCommit(d, accepted)
  BY <1>7 DEF FinalCommit, LateCommit, CommitIngested
<1>8. CASE \E d \in Drains : Call(d) \/ Lock(d) \/ WorkersDrained(d) \/ ClearStale(d) \/ CheckQueue(d)
  BY <1>8 DEF Call, Lock, WorkersDrained, ClearStale, CheckQueue, DrainStep
<1>9. CASE \E d \in Drains : TakeToken(d) \/ Barrier(d) \/ AcquireGuard(d) \/ GraceExpires(d) \/ Timeout(d)
  BY <1>9 DEF TakeToken, Barrier, AcquireGuard, GraceExpires, Timeout, WorkersTimeout, WaitTimeout,
              GuardTimeout, DrainStep
<1>10. CASE UNCHANGED vars
  BY <1>10 DEF vars
<1>11. QED
  BY <1>1, <1>2, <1>3, <1>4, <1>5, <1>6, <1>7, <1>8, <1>9, <1>10 DEF Next, IngestLoop, Advance

LEMMA PlacedStep ==
  ASSUME Placed, [Next]_vars
  PROVE  Placed'
<1> USE DEF Placed, PcStates, drainVars
<1>1. CASE Deliver \/ CollectAndCommit \/ Receive \/ BeginBatch \/ ReceiveMore \/ EndBatch
           \/ SignalDrained \/ Unlock \/ TickAcquire
  BY <1>1 DEF Deliver, CollectAndCommit, Receive, BeginBatch, ReceiveMore, EndBatch, SignalDrained,
              Unlock, TickAcquire
<1>2. CASE \E accepted \in BOOLEAN : TickCommit(accepted)
  BY <1>2 DEF TickCommit, CommitIngested
<1>3. CASE \E d \in Drains : \E accepted \in BOOLEAN : FinalCommit(d, accepted) \/ LateCommit(d, accepted)
  BY <1>3 DEF FinalCommit, LateCommit, CommitIngested, Return, Goto
<1>4. CASE \E d \in Drains : Call(d) \/ Lock(d) \/ WorkersDrained(d) \/ CheckQueue(d) \/ Barrier(d)
  BY <1>4 DEF Call, Lock, WorkersDrained, CheckQueue, Barrier, DrainStep, Goto
<1>5. CASE \E d \in Drains : ClearStale(d) \/ GraceExpires(d) \/ TakeToken(d) \/ AcquireGuard(d)
  BY <1>5 DEF TakeToken, AcquireGuard, GraceExpires, ClearStale, Delayed, Goto
<1>6. CASE \E d \in Drains : Timeout(d)
  BY <1>6 DEF Timeout, WorkersTimeout, WaitTimeout, GuardTimeout, DrainStep, Return, Goto
<1>7. CASE UNCHANGED vars
  BY <1>7 DEF vars
<1>8. QED
  BY <1>1, <1>2, <1>3, <1>4, <1>5, <1>6, <1>7 DEF Next, IngestLoop, Advance

LEMMA FlagsStep ==
  ASSUME Flags, [Next]_vars
  PROVE  Flags'
<1>1. drained' \in {drained, TRUE, FALSE}
  BY Zenon DEF Next, vars, Deliver, CollectAndCommit, IngestLoop, Receive, BeginBatch, ReceiveMore, EndBatch,
         SignalDrained, Unlock, TickAcquire, TickCommit, Call, Advance, GraceExpires, Timeout, Lock,
         WorkersDrained, ClearStale, CheckQueue, TakeToken, Barrier, AcquireGuard, FinalCommit, LateCommit,
         WorkersTimeout, WaitTimeout, GuardTimeout, DrainStep
<1>2. tripped' = tripped \/ tripped' \in BOOLEAN
  BY Zenon DEF Next, vars, Deliver, CollectAndCommit, IngestLoop, Receive, BeginBatch, ReceiveMore, EndBatch,
         SignalDrained, Unlock, TickAcquire, TickCommit, Call, Advance, GraceExpires, Timeout, Lock,
         WorkersDrained, ClearStale, CheckQueue, TakeToken, Barrier, AcquireGuard, FinalCommit, LateCommit,
         WorkersTimeout, WaitTimeout, GuardTimeout, DrainStep, Return, drainVars
<1>3. QED
  BY <1>1, <1>2, Zenon DEF Flags

-----------------------------------------------------------------------------
(* The handshake.                                                          *)

Handshake == Conserved /\ Placed /\ HandshakeInv

(* The loops outside the drains.                                           *)
LEMMA LoopsHandshake ==
  ASSUME Handshake,
         Deliver \/ CollectAndCommit \/ IngestLoop \/ TickAcquire
           \/ \E accepted \in BOOLEAN : TickCommit(accepted)
  PROVE  HandshakeInv'
<1> USE DEF Handshake, Conserved, Placed, PcStates, HandshakeInv, Active, Finishing, Arrived, drainVars, itemVars
<1>1. CASE Deliver
  BY <1>1 DEF Deliver
<1>2. CASE CollectAndCommit
  BY <1>2 DEF CollectAndCommit
<1>3. CASE Receive
  BY <1>3 DEF Receive
<1>4. CASE BeginBatch
  BY <1>4 DEF BeginBatch
<1>5. CASE ReceiveMore
  BY <1>5 DEF ReceiveMore
<1>6. CASE EndBatch
  BY <1>6 DEF EndBatch
<1>7. CASE SignalDrained
  BY <1>7 DEF SignalDrained
<1>8. CASE Unlock
  BY <1>8 DEF Unlock
<1>9. CASE TickAcquire
  BY <1>9 DEF TickAcquire
<1>10. CASE \E accepted \in BOOLEAN : TickCommit(accepted)
  BY <1>10 DEF TickCommit
<1>11. QED
  BY <1>1, <1>2, <1>3, <1>4, <1>5, <1>6, <1>7, <1>8, <1>9, <1>10, ZenonT(30) DEF IngestLoop

(* The steps of a drain.                                                   *)
LEMMA DrainsHandshake ==
  ASSUME Handshake, NEW d \in Drains, Call(d) \/ Advance(d) \/ GraceExpires(d) \/ Timeout(d)
  PROVE  HandshakeInv'
<1> USE DEF Handshake, Conserved, Placed, PcStates, HandshakeInv, Active, Finishing, Arrived, Goto, itemVars
<1>1. CASE Call(d)
  BY <1>1 DEF Call, DrainStep
<1>2. CASE Lock(d)
  BY <1>2 DEF Lock
<1>3. CASE WorkersDrained(d)
  BY <1>3 DEF WorkersDrained, DrainStep
<1>4. CASE ClearStale(d)
  BY <1>4 DEF ClearStale, Delayed
<1>5. CASE CheckQueue(d)
  BY <1>5 DEF CheckQueue, DrainStep
<1>6. CASE TakeToken(d)
  BY <1>6 DEF TakeToken
<1>7. CASE Barrier(d)
  BY <1>7 DEF Barrier, DrainStep
<1>8. CASE AcquireGuard(d)
  BY <1>8 DEF AcquireGuard
<1>9. CASE \E accepted \in BOOLEAN : FinalCommit(d, accepted) \/ LateCommit(d, accepted)
  BY <1>9 DEF FinalCommit, LateCommit, Return
<1>10. CASE GraceExpires(d)
  BY <1>10 DEF GraceExpires, Delayed
<1>11. CASE WorkersTimeout(d) \/ GuardTimeout(d)
  BY <1>11 DEF WorkersTimeout, GuardTimeout, Return
<1>12. CASE WaitTimeout(d)
  BY <1>12 DEF WaitTimeout, DrainStep
<1>13. QED
  BY <1>1, <1>2, <1>3, <1>4, <1>5, <1>6, <1>7, <1>8, <1>9, <1>10, <1>11, <1>12, ZenonT(30) DEF Advance, Timeout

LEMMA HandshakeStep ==
  ASSUME Handshake, [Next]_vars
  PROVE  HandshakeInv'
<1>1. CASE UNCHANGED vars
  BY <1>1, ZenonT(30) DEF vars, Handshake, HandshakeInv, Active, Finishing, Arrived
<1>2. CASE Next
  BY <1>2, LoopsHandshake, DrainsHandshake DEF Next
<1>3. QED
  BY <1>1, <1>2

(* The token a waiting drain needs is only ever taken by that drain: the   *)
(* one other step that removes it, ClearStale, belongs to a drain that     *)
(* would have to hold Coordinator.mu at the same time.                     *)
LEMMA TokenStep ==
  ASSUME Handshake, TokenComes, [Next]_vars
  PROVE  TokenComes'
<1> SUFFICES ASSUME NEW e \in Drains, pc'[e] = "wait"
             PROVE  drained' \/ commitsIn' > 0 \/ ingest' \in {"ticker", "batch", "signal"}
  BY DEF TokenComes
<1> USE DEF Handshake, Conserved, Placed, PcStates, TokenComes, drainVars, itemVars
<1>1. CASE Deliver \/ CollectAndCommit \/ Receive \/ BeginBatch \/ ReceiveMore
  BY <1>1 DEF Deliver, CollectAndCommit, Receive, BeginBatch, ReceiveMore
<1>2. CASE EndBatch \/ SignalDrained \/ Unlock
  BY <1>2 DEF EndBatch, SignalDrained, Unlock
<1>3. CASE TickAcquire \/ \E accepted \in BOOLEAN : TickCommit(accepted)
  BY <1>3 DEF TickAcquire, TickCommit
<1>4. ASSUME NEW d \in Drains, Call(d) \/ Lock(d) \/ WorkersDrained(d) \/ Barrier(d) \/ Timeout(d)
      PROVE  drained' \/ commitsIn' > 0 \/ ingest' \in {"ticker", "batch", "signal"}
  <2>1. pc[e] = "wait" /\ UNCHANGED <<drained, commitsIn, ingest>>
    <3>1. CASE Call(d) \/ Lock(d)
      BY <3>1 DEF Call, Lock, DrainStep, Return, Goto
    <3>2. CASE WorkersDrained(d) \/ Barrier(d)
      BY <3>2 DEF WorkersDrained, Barrier, DrainStep, Return, Goto
    <3>3. CASE Timeout(d)
      BY <3>3 DEF Timeout, WorkersTimeout, WaitTimeout, GuardTimeout, DrainStep, Return, Goto
    <3>4. QED
      BY <1>4, <3>1, <3>2, <3>3
  <2>2. QED
    BY <2>1
<1>5. ASSUME NEW d \in Drains, CheckQueue(d)
      PROVE  drained' \/ commitsIn' > 0 \/ ingest' \in {"ticker", "batch", "signal"}
  BY <1>5 DEF CheckQueue, DrainStep, Goto
<1>6. ASSUME NEW d \in Drains, ClearStale(d) \/ TakeToken(d)
      PROVE  drained' \/ commitsIn' > 0 \/ ingest' \in {"ticker", "batch", "signal"}
  <2>1. d # e /\ pc[e] = "wait" /\ pc[d] \in {"clear", "grace", "wait"}
    BY <1>6 DEF ClearStale, TakeToken, Goto
  <2>2. QED
    BY <2>1 DEF HandshakeInv, Active
<1>7. ASSUME NEW d \in Drains,
             AcquireGuard(d) \/ GraceExpires(d)
               \/ \E accepted \in BOOLEAN : FinalCommit(d, accepted) \/ LateCommit(d, accepted)
      PROVE  drained' \/ commitsIn' > 0 \/ ingest' \in {"ticker", "batch", "signal"}
  <2>1. pc[e] = "wait" /\ UNCHANGED <<drained, commitsIn, ingest>>
    BY <1>7 DEF AcquireGuard, GraceExpires, FinalCommit, LateCommit, Return, Goto
  <2>2. QED
    BY <2>1
<1>8. CASE UNCHANGED vars
  BY <1>8 DEF vars
<1>9. QED
  BY <1>1, <1>2, <1>3, <1>4, <1>5, <1>6, <1>7, <1>8 DEF Next, IngestLoop, Advance

-----------------------------------------------------------------------------
(* The inductive invariant holds in every reachable state.                 *)
(* (Coordinator.Drain, DrainCommitter and the ingest loop together.)       *)
THEOREM HandshakeInvariant == Spec => []HandshakeIndInv
<1>1. TypeOK /\ HandshakeInv /\ TokenComes /\ [Next]_vars => (TypeOK /\ HandshakeInv /\ TokenComes)'
  <2> SUFFICES ASSUME TypeOK, HandshakeInv, TokenComes, [Next]_vars
               PROVE  (TypeOK /\ HandshakeInv /\ TokenComes)'
    OBVIOUS
  <2>1. Conserved /\ Placed /\ Flags /\ Handshake
    BY TypeParts DEF Handshake
  <2>2. held = IF ingest = "ticker" THEN 1 ELSE 0
    BY DEF HandshakeInv
  <2>3. Conserved' /\ Placed' /\ Flags'
    BY <2>1, <2>2, ConservedStep, PlacedStep, FlagsStep
  <2>4. (TypeOK <=> Conserved /\ Placed /\ Flags)'
    BY TypeParts, PTL
  <2>5. HandshakeInv' /\ TokenComes'
    BY <2>1, HandshakeStep, TokenStep
  <2>6. QED
    BY <2>3, <2>4, <2>5
<1>2. QED
  BY <1>1, InitHolds, PTL DEF Spec, HandshakeIndInv

(* Every work item is at exactly one stage and no commit covers an item    *)
(* that was not ingested, for any number of drains.  (commitsIn, the       *)
(* ingest loop's held item, readBatchSize)                                 *)
THEOREM ItemsConserved == Spec => []TypeOK
  BY HandshakeInvariant, PTL DEF HandshakeIndInv

(* No lost wake-up, in general.  (The drained token and Coordinator.mu)    *)
THEOREM TokenComesHolds == Spec => []TokenComes
  BY HandshakeInvariant, PTL DEF HandshakeIndInv

(* A drain that was not held up makes its final commit only when all that  *)
(* was delivered has been ingested, in general.  (DrainCommitter)          *)
THEOREM DrainCoversAllHolds == Spec => []DrainCoversAll
<1>1. TypeOK /\ HandshakeInv => DrainCoversAll
  <2> SUFFICES ASSUME TypeOK, HandshakeInv, NEW d \in Drains, Finishing(d), delayed[d] = {}
               PROVE  ingested = delivered
    BY DEF DrainCoversAll
  <2>1. commitsIn = 0 /\ held = 0 /\ working = 0
    BY DEF HandshakeInv, Arrived, Active, Finishing
  <2>2. QED
    BY <2>1, TypeParts DEF Conserved
<1>2. QED
  BY <1>1, HandshakeInvariant, PTL DEF HandshakeIndInv

-----------------------------------------------------------------------------
(* The notification.                                                       *)

Reasons == {"graceful", "emergency"}

(* LifecycleTypeOK, without the flags.                                              *)
LifecyclePlaced ==
  /\ winner \in {"none", "elected", "latched", "complete"}
  /\ payload \in {"empty", "full", "taken"}
  /\ callback \in {"none", "default", "host"}
  /\ notify \in {"free", "observer", "shutdown", "shutdownAfterTrip"}
  /\ observer \in {"parked", "tripped", "recorded", "loaded", "gone"}
  /\ sub \in {"idle", "checked", "installed", "awaiting", "assigned", "subscribed", "leaving",
             "failed", "terminated"}
  /\ sd \in [Shutdowns -> {"idle", "unsubscribing", "drainFailed", "unsubscribed", "deliver",
                           "signal", "returned", "failed"}]

Told == heard \in Seq(Reasons) /\ (heard # <<>> => notify # "free")

LifecycleFlags == {gracefulDone, emergencyReason} \subseteq BOOLEAN

LEMMA LifecycleTypeParts == LifecycleTypeOK <=> LifecyclePlaced /\ Told /\ LifecycleFlags
  BY Zenon DEF LifecycleTypeOK, LifecyclePlaced, Told, LifecycleFlags, Reasons

LEMMA LifecycleInitial == LifecycleInit => LifecycleTypeOK /\ DeliveryInv
<1> SUFFICES ASSUME LifecycleInit
             PROVE  LifecycleTypeOK /\ DeliveryInv
  OBVIOUS
<1>1. LifecyclePlaced
  BY DEF LifecycleInit, LifecyclePlaced
<1>2. Told /\ DeliveryInv
  BY DEF LifecycleInit, Told, DeliveryInv
<1>3. LifecycleFlags
  BY Zenon DEF LifecycleInit, LifecycleFlags
<1>4. QED
  BY <1>1, <1>2, <1>3, LifecycleTypeParts

-----------------------------------------------------------------------------
LEMMA LifecyclePlacedStep ==
  ASSUME LifecyclePlaced, [LifecycleNext]_lifecycleVars
  PROVE  LifecyclePlaced'
<1> USE DEF LifecyclePlaced, breakerVars, noticeVars, callerVars
<1>1. CASE Trip \/ Breaker
  BY <1>1 DEF Trip, Elect, Breaker, CancelAndLatch, SendPayload
<1>2. CASE Observer
  BY <1>2 DEF Observer, WatchTrip, WatchGraceful, RecordReason, ObserverLoads, ObserverClaims, ClaimNotify,
              ObserverAt
<1>3. CASE \E s \in Shutdowns : ShutdownLoads(s) \/ DrainFails(s) \/ Shutdown(s)
  BY <1>3 DEF ShutdownLoads, DrainFails, Shutdown, Unsubscribed, UnsubscribeTimeout, ShutdownClaims,
              ShutdownDelivers, SignalGracefulDone, ShutdownAt, ClaimNotify, Elect
<1>4. CASE RegisterShutdownCallback
  BY <1>4 DEF RegisterShutdownCallback
<1>5. CASE Subscribe
  BY <1>5 DEF Subscribe, SubscribeChecks, InstallDefault, Join, Assigned, AfterAssigned, AwaitTripped,
              AwaitTimeout, StartupLeft, StartupStuck, SubStep, SubAt
<1>6. CASE UNCHANGED lifecycleVars
  BY <1>6 DEF lifecycleVars
<1>7. QED
  BY <1>1, <1>2, <1>3, <1>4, <1>5, <1>6 DEF LifecycleNext

LEMMA LifecycleFlagsStep ==
  ASSUME LifecycleFlags, [LifecycleNext]_lifecycleVars
  PROVE  LifecycleFlags'
<1>1. /\ UNCHANGED gracefulDone \/ gracefulDone' \in BOOLEAN
      /\ UNCHANGED emergencyReason \/ emergencyReason' \in BOOLEAN
  BY Zenon DEF LifecycleNext, Trip, Breaker, CancelAndLatch, SendPayload, Observer, WatchTrip, WatchGraceful, RecordReason,
         ObserverLoads, ObserverClaims, ShutdownLoads, DrainFails, Shutdown, Unsubscribed, UnsubscribeTimeout,
         ShutdownClaims, ShutdownDelivers, SignalGracefulDone, RegisterShutdownCallback, Subscribe,
         SubscribeChecks, InstallDefault, Join, Assigned, AfterAssigned, AwaitTripped, AwaitTimeout,
         StartupLeft, StartupStuck, SubStep, noticeVars, lifecycleVars
<1>2. QED
  BY <1>1, Zenon DEF LifecycleFlags

(* Only the holder of the slot speaks, and its speaking is the first.      *)
LEMMA DeliveryStep ==
  ASSUME LifecyclePlaced, Told, DeliveryInv, [LifecycleNext]_lifecycleVars
  PROVE  Told' /\ DeliveryInv'
<1> USE DEF LifecyclePlaced, Told, Reasons, DeliveryInv, breakerVars, noticeVars, callerVars
<1>1. CASE UNCHANGED <<heard, notify>> /\ \A s \in Shutdowns : sd'[s] = "deliver" => sd[s] = "deliver"
  BY <1>1
<1>2. ASSUME NEW claimed \in BOOLEAN, ObserverClaims(claimed)
      PROVE  Told' /\ DeliveryInv'
  <2>1. CASE claimed
    <3>1. notify = "free" /\ notify' = "observer" /\ heard = <<>> /\ sd' = sd
      BY <1>2, <2>1, Zenon DEF ObserverClaims, ClaimNotify
    <3>2. heard' = <<"emergency">>
      BY <1>2, <2>1, <3>1 DEF ObserverClaims
    <3>3. QED
      BY <3>1, <3>2
  <2>2. CASE ~claimed
    BY <1>2, <2>2 DEF ObserverClaims, ClaimNotify
  <2>3. QED
    BY <2>1, <2>2
<1>3. ASSUME NEW s \in Shutdowns, NEW claimed \in BOOLEAN, ShutdownClaims(s, claimed)
      PROVE  Told' /\ DeliveryInv'
  <2>1. CASE claimed
    <3>1. /\ notify = "free" /\ notify' \in {"shutdown", "shutdownAfterTrip"}
          /\ heard = <<>> /\ heard' = heard /\ sd' = [sd EXCEPT ![s] = "deliver"]
      BY <1>3, <2>1, Zenon DEF ShutdownClaims, ClaimNotify, ShutdownAt
    <3>2. \A t \in Shutdowns : sd'[t] = "deliver" => t = s
      BY <3>1
    <3>3. QED
      BY <3>1, <3>2
  <2>2. CASE ~claimed
    BY <1>3, <2>2 DEF ShutdownClaims, ClaimNotify, ShutdownAt
  <2>3. QED
    BY <2>1, <2>2
<1>4. ASSUME NEW s \in Shutdowns, ShutdownDelivers(s)
      PROVE  Told' /\ DeliveryInv'
  <2>1. /\ notify \in {"shutdown", "shutdownAfterTrip"} /\ notify' = notify /\ heard = <<>>
        /\ sd' = [sd EXCEPT ![s] = "signal"] /\ sd[s] = "deliver"
    BY <1>4 DEF ShutdownDelivers, ShutdownAt
  <2>2. \A t \in Shutdowns : sd'[t] # "deliver"
    BY <2>1
  <2>3. heard' \in {<<"emergency">>, <<"graceful">>}
    BY <1>4, <2>1 DEF ShutdownDelivers
  <2>4. heard' \in Seq(Reasons) /\ Len(heard') <= 1
    <3>1. CASE heard' = <<"emergency">>
      BY <3>1
    <3>2. CASE heard' = <<"graceful">>
      BY <3>2
    <3>3. QED
      BY <2>3, <3>1, <3>2
  <2>5. QED
    BY <2>1, <2>2, <2>4
<1>5. CASE Trip \/ Breaker \/ RegisterShutdownCallback \/ Subscribe \/ UNCHANGED lifecycleVars
  BY <1>1, <1>5, ZenonT(30) DEF Trip, Breaker, CancelAndLatch, SendPayload, RegisterShutdownCallback, Subscribe,
         SubscribeChecks, InstallDefault, Join, Assigned, AfterAssigned, AwaitTripped, AwaitTimeout,
         StartupLeft, StartupStuck, SubStep, lifecycleVars
<1>6. CASE WatchTrip \/ WatchGraceful \/ RecordReason \/ ObserverLoads
  BY <1>1, <1>6 DEF WatchTrip, WatchGraceful, RecordReason, ObserverLoads
<1>7. CASE \E s \in Shutdowns : ShutdownLoads(s) \/ DrainFails(s) \/ Unsubscribed(s) \/ UnsubscribeTimeout(s)
                                \/ SignalGracefulDone(s)
  BY <1>1, <1>7 DEF ShutdownLoads, DrainFails, Unsubscribed, UnsubscribeTimeout, SignalGracefulDone, ShutdownAt
<1>8. QED
  BY <1>2, <1>3, <1>4, <1>5, <1>6, <1>7 DEF LifecycleNext, Observer, Shutdown

-----------------------------------------------------------------------------
(* The inductive invariant holds in every reachable state.                 *)
(* (claimNotify, emergencyExit, Shutdown)                                  *)
THEOREM DeliveryInvariant == LifecycleSpec => []DeliveryIndInv
<1>1. LifecycleTypeOK /\ DeliveryInv /\ [LifecycleNext]_lifecycleVars => (LifecycleTypeOK /\ DeliveryInv)'
  <2> SUFFICES ASSUME LifecycleTypeOK, DeliveryInv, [LifecycleNext]_lifecycleVars
               PROVE  (LifecycleTypeOK /\ DeliveryInv)'
    OBVIOUS
  <2>1. LifecyclePlaced' /\ LifecycleFlags' /\ Told' /\ DeliveryInv'
    BY LifecycleTypeParts, LifecyclePlacedStep, LifecycleFlagsStep, DeliveryStep
  <2>2. (LifecycleTypeOK <=> LifecyclePlaced /\ Told /\ LifecycleFlags)'
    BY LifecycleTypeParts, PTL
  <2>3. QED
    BY <2>1, <2>2
<1>2. QED
  BY <1>1, LifecycleInitial, PTL DEF LifecycleSpec, DeliveryIndInv

(* The host is told at most once, for any number of Shutdown calls.        *)
(* (claimNotify)                                                           *)
THEOREM HeardAtMostOnceHolds == LifecycleSpec => []HeardAtMostOnce
<1>1. DeliveryInv => HeardAtMostOnce
  BY DEF DeliveryInv, HeardAtMostOnce
<1>2. QED
  BY <1>1, DeliveryInvariant, PTL DEF DeliveryIndInv

(* Subscribe reports no healthy start after a trip.  (Its second look at   *)
(* the latch, and that the breaker's winner never goes back.)              *)
THEOREM HealthyStartHolds == LifecycleSpec => HealthyStart
<1>1. [LifecycleNext]_lifecycleVars => [sub # "subscribed" /\ sub' = "subscribed" => ~Latched]_lifecycleVars
  BY ZenonT(30) DEF LifecycleNext, Trip, Breaker, CancelAndLatch, SendPayload, Observer, WatchTrip, WatchGraceful, RecordReason,
         ObserverLoads, ObserverClaims, ShutdownLoads, DrainFails, Shutdown, Unsubscribed, UnsubscribeTimeout,
         ShutdownClaims, ShutdownDelivers, SignalGracefulDone, RegisterShutdownCallback, Subscribe,
         SubscribeChecks, InstallDefault, Join, Assigned, AfterAssigned, AwaitTripped, AwaitTimeout,
         StartupLeft, StartupStuck, SubStep, SubAt, callerVars, lifecycleVars
<1>2. QED
  BY <1>1, PTL DEF LifecycleSpec, HealthyStart
=============================================================================
