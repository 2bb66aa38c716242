-------------------------- MODULE KeyWorkersProofs --------------------------
(***************************************************************************)
(* Proofs for KeyWorkers, for any keys, workers, messages and capacities:  *)
(* TypeOK, ShardInv, PipelineInv, TokensBalance and OpenInv are inductive  *)
(* together, and the safety properties of the fan-out follow from them, as *)
(* does that it implements KeyedProcessing.                                *)
(*                                                                         *)
(* First what each step makes of the one worker it changes; then each of   *)
(* the five, one lemma per group of actions; then the step of the promise  *)
(* that each step of the fan-out takes.                                    *)
(***************************************************************************)
EXTENDS KeyWorkers, FiniteSetTheorems, TLAPS

(* For the steps that name no prover: time enough on a slow machine.       *)
USE SMTT(30), ZenonT(30)

LEMMA Constants ==
  /\ MaxMessages \in Nat /\ OverflowLen \in Nat /\ MinIdle \in Nat
  /\ GuardLen \in Nat \ {0} /\ BufferLen \in Nat \ {0}
  /\ IsFiniteSet(Workers) /\ MinIdle <= GuardLen
  /\ None \notin Workers /\ None \notin Keys
  BY WorkersAssumption DEF None

-----------------------------------------------------------------------------
(* What a step makes of a worker.                                          *)

WorkerPcs == {"unborn", "cold", "hot", "processing", "leaving", "release", "return"}

(* A worker's state stays one when a field is given a value of its type.   *)
LEMMA StateUpdate ==
  ASSUME NEW r \in WorkerState
  PROVE  /\ \A q \in Seq(WorkItem) : [r EXCEPT !.queue = q] \in WorkerState
         /\ \A pc \in WorkerPcs : [r EXCEPT !.pc = pc] \in WorkerState
         /\ \A b \in BOOLEAN : [r EXCEPT !.active = b] \in WorkerState
         /\ \A b \in BOOLEAN : [r EXCEPT !.shut = b] \in WorkerState
         /\ \A m \in 0 .. MaxMessages : [r EXCEPT !.message = m] \in WorkerState
         /\ \A k \in Keys \cup {None} : [r EXCEPT !.key = k] \in WorkerState
         /\ \A g \in Guards : [r EXCEPT !.kind = g] \in WorkerState
  BY Zenon DEF WorkerState, WorkerPcs

(* Only worker w has changed.                                              *)
OnlyWorker(w) ==
  /\ worker' \in [Workers -> WorkerState]
  /\ \A v \in Workers \ {w} : worker'[v] = worker[v]

LEMMA Updated ==
  ASSUME TypeOK, NEW w \in Workers, NEW r \in WorkerState, worker' = [worker EXCEPT ![w] = r]
  PROVE  OnlyWorker(w) /\ worker'[w] = r
  BY DEF TypeOK, OnlyWorker

LEMMA FieldTypes ==
  ASSUME TypeOK, NEW w \in Workers
  PROVE  /\ worker[w] \in WorkerState
         /\ worker[w].queue \in Seq(WorkItem)
         /\ worker[w].pc \in WorkerPcs
  BY DEF TypeOK, WorkerState, WorkerPcs

(* SendToWorkerForProcessing puts the message in dispatch into a channel.  *)
LEMMA SendShape ==
  ASSUME TypeOK, PipelineInv, NEW w \in Workers, poller.pc \in {"send", "sendCold"}, worker' = SendTo(w)
  PROVE  /\ Item \in WorkItem
         /\ OnlyWorker(w)
         /\ worker'[w] = [worker[w] EXCEPT !.queue = Append(worker[w].queue, Item)]
<1>1. Item \in WorkItem
  BY Constants DEF TypeOK, PipelineInv, AtPoller, Item, WorkItem, Messages, Guards
<1>2. Append(worker[w].queue, Item) \in Seq(WorkItem)
  BY <1>1, FieldTypes
<1>3. [worker[w] EXCEPT !.queue = Append(worker[w].queue, Item)] \in WorkerState
  BY <1>2, FieldTypes, StateUpdate, Zenon
<1>4. worker' = [worker EXCEPT ![w] = [worker[w] EXCEPT !.queue = Append(worker[w].queue, Item)]]
  BY DEF SendTo
<1>5. QED
  BY <1>1, <1>3, <1>4, Updated, Zenon

(* The worker loop goes on to its next place.                              *)
LEMMA PcShape ==
  ASSUME TypeOK, NEW w \in Workers, NEW to \in WorkerPcs, worker' = [worker EXCEPT ![w].pc = to]
  PROVE  OnlyWorker(w) /\ worker'[w] = [worker[w] EXCEPT !.pc = to]
<1>1. [worker[w] EXCEPT !.pc = to] \in WorkerState
  BY FieldTypes, StateUpdate
<1>2. worker' = [worker EXCEPT ![w] = [worker[w] EXCEPT !.pc = to]]
  OBVIOUS
<1>3. QED
  BY <1>1, <1>2, Updated, Zenon

LEMMA PcActiveShape ==
  ASSUME TypeOK, NEW w \in Workers, NEW to \in WorkerPcs, NEW b \in BOOLEAN,
         worker' = [worker EXCEPT ![w].pc = to, ![w].active = b]
  PROVE  OnlyWorker(w) /\ worker'[w] = [worker[w] EXCEPT !.pc = to, !.active = b]
<1>1. [worker[w] EXCEPT !.pc = to] \in WorkerState
  BY FieldTypes, StateUpdate
<1>2. [[worker[w] EXCEPT !.pc = to] EXCEPT !.active = b] \in WorkerState
  BY <1>1, StateUpdate, Zenon
<1>3. [worker[w] EXCEPT !.pc = to, !.active = b] \in WorkerState
  BY <1>2
<1>4. worker' = [worker EXCEPT ![w] = [worker[w] EXCEPT !.pc = to, !.active = b]]
  BY Zenon DEF TypeOK
<1>5. QED
  BY <1>3, <1>4, Updated, Zenon

(* The receive of Worker.startProcessingWorkItems.                         *)
LEMMA TakeShape ==
  ASSUME TypeOK, NEW w \in Workers, worker[w].queue # <<>>, NEW to \in WorkerPcs, Take(w, to)
  PROVE  /\ Head(worker[w].queue) \in WorkItem
         /\ OnlyWorker(w)
         /\ worker'[w].pc = to
         /\ worker'[w].queue = Tail(worker[w].queue)
         /\ worker'[w].message = Head(worker[w].queue).message
         /\ worker'[w].key = IF worker[w].pc = "cold" THEN Head(worker[w].queue).key ELSE worker[w].key
         /\ worker'[w].kind = IF worker[w].pc = "cold" THEN Head(worker[w].queue).kind ELSE worker[w].kind
         /\ worker'[w].active = worker[w].active
         /\ worker'[w].shut = worker[w].shut
<1> DEFINE s == worker[w]
           first == IF s.pc = "cold" THEN Head(s.queue) ELSE s
           r == [pc |-> to, queue |-> Tail(s.queue), message |-> Head(s.queue).message,
                 key |-> first.key, kind |-> first.kind, active |-> s.active, shut |-> s.shut]
<1>1. Head(s.queue) \in WorkItem /\ Tail(s.queue) \in Seq(WorkItem)
  BY FieldTypes
<1>2. first.key \in Keys \cup {None} /\ first.kind \in Guards
  BY <1>1, FieldTypes DEF WorkItem, WorkerState
<1>3. r \in WorkerState
  <2> HIDE DEF first
  <2> QED BY <1>1, <1>2, FieldTypes DEF WorkItem, WorkerState, WorkerPcs, Messages
<1>4. worker' = [worker EXCEPT ![w] = r]
  BY Zenon DEF Take
<1>5. OnlyWorker(w) /\ worker'[w] = r
  BY <1>3, <1>4, Updated, ZenonT(30)
<1>6. QED
  BY <1>1, <1>5

(* returnWorker clears the locals of the loop.                             *)
LEMMA ReturnShape ==
  ASSUME TypeOK, NEW w \in Workers, ReturnWorker(w)
  PROVE  /\ OnlyWorker(w)
         /\ worker'[w].pc = "cold"
         /\ worker'[w].queue = worker[w].queue
         /\ worker'[w].shut = (Cardinality(pool) >= PoolSize)
<1> DEFINE full == Cardinality(pool) >= PoolSize
           r == [worker[w] EXCEPT !.pc = "cold", !.message = 0, !.key = None, !.kind = "guard", !.shut = full]
<1>1. full \in BOOLEAN
  OBVIOUS
<1>2. r \in WorkerState
  <2> DEFINE r1 == [worker[w] EXCEPT !.pc = "cold"]
             r2 == [r1 EXCEPT !.message = 0]
             r3 == [r2 EXCEPT !.key = None]
             r4 == [r3 EXCEPT !.kind = "guard"]
             r5 == [r4 EXCEPT !.shut = full]
  <2>1. r1 \in WorkerState
    BY FieldTypes, StateUpdate, Zenon DEF WorkerPcs
  <2>2. r2 \in WorkerState
    <3>1. 0 \in 0 .. MaxMessages
      BY Constants
    <3>2. QED
      BY <2>1, <3>1, StateUpdate, Zenon
  <2>3. r3 \in WorkerState
    BY <2>2, StateUpdate, Zenon
  <2>4. r4 \in WorkerState
    BY <2>3, StateUpdate, Zenon DEF Guards
  <2>5. r5 \in WorkerState
    BY <2>4, <1>1, StateUpdate, Zenon
  <2>6. r = r5
    <3> HIDE DEF full
    <3> QED BY FieldTypes DEF WorkerState
  <2>7. QED
    BY <2>5, <2>6
<1>3. worker' = [worker EXCEPT ![w] = r]
  BY Zenon DEF ReturnWorker
<1>4. OnlyWorker(w) /\ worker'[w] = r
  BY <1>2, <1>3, Updated, Zenon
<1>5. QED
  BY <1>4, FieldTypes DEF WorkerState

LEMMA ExitShape ==
  ASSUME TypeOK, NEW w \in Workers, Exit(w)
  PROVE  OnlyWorker(w) /\ worker'[w] = Unborn
<1>1. Unborn \in WorkerState
  BY Constants DEF Unborn, WorkerState, Guards
<1>2. QED
  BY <1>1, Updated, Zenon DEF Exit

LEMMA ShutShape ==
  ASSUME TypeOK, NEW w \in Workers, worker' = [worker EXCEPT ![w].shut = TRUE]
  PROVE  OnlyWorker(w) /\ worker'[w] = [worker[w] EXCEPT !.shut = TRUE]
<1>1. [worker[w] EXCEPT !.shut = TRUE] \in WorkerState
  BY FieldTypes, StateUpdate, Zenon
<1>2. worker' = [worker EXCEPT ![w] = [worker[w] EXCEPT !.shut = TRUE]]
  OBVIOUS
<1>3. QED
  BY <1>1, <1>2, Updated, Zenon

LEMMA QueuedItems ==
  ASSUME TypeOK, NEW w \in Workers, NEW j \in DOMAIN worker[w].queue
  PROVE  /\ worker[w].queue[j] \in WorkItem
         /\ worker[w].queue[j].key \in Keys
         /\ worker[w].queue[j].message \in Messages
<1>1. worker[w].queue[j] \in WorkItem
  BY FieldTypes
<1>2. QED
  BY <1>1 DEF WorkItem

(* A worker that no key is mapped to has an empty channel.                 *)
LEMMA EmptyUnlessMapped ==
  ASSUME TypeOK, ShardInv, NEW w \in Workers,
         worker[w].pc \notin {"cold", "hot", "processing", "leaving"}
  PROVE  worker[w].queue = <<>> /\ \A k \in Keys : workers[k] # w
<1>1. \A k \in Keys : workers[k] # w
  BY DEF ShardInv
<1>2. \A j \in DOMAIN worker[w].queue : worker[w].queue[j] \in WorkItem
  BY FieldTypes
<1>3. DOMAIN worker[w].queue = {}
  BY <1>1, <1>2 DEF ShardInv, WorkItem
<1>4. Len(worker[w].queue) = 0
  <2>1. DOMAIN worker[w].queue = 1 .. Len(worker[w].queue) /\ Len(worker[w].queue) \in Nat
    BY FieldTypes
  <2>2. QED
    BY <1>3, <2>1
<1>5. QED
  BY <1>1, <1>4, FieldTypes

-----------------------------------------------------------------------------
(* Tokens.                                                                 *)

(* A worker in state r holds a token of guard g.                           *)
Holds(r, g) ==
  \/ r.pc \in {"processing", "hot", "leaving", "release"} /\ r.kind = g
  \/ r.pc = "cold" /\ r.queue # <<>> /\ Head(r.queue).kind = g

LEMMA HoldingFinite ==
  ASSUME NEW g \in Guards
  PROVE  /\ Holding(g) = {w \in Workers : Holds(worker[w], g)}
         /\ IsFiniteSet(Holding(g)) /\ Cardinality(Holding(g)) \in Nat
<1>1. Holding(g) = {w \in Workers : Holds(worker[w], g)}
  BY DEF Holding, Holds
<1>2. Holding(g) \subseteq Workers
  BY <1>1
<1>3. IsFiniteSet(Holding(g))
  BY <1>2, Constants, FS_Subset
<1>4. QED
  BY <1>1, <1>3, FS_CardinalityType

LEMMA HoldingFinitePrimed ==
  ASSUME NEW g \in Guards
  PROVE  /\ Holding(g)' = {w \in Workers : Holds(worker'[w], g)}
         /\ IsFiniteSet(Holding(g)')
<1>1. Holding(g)' = {w \in Workers : Holds(worker'[w], g)}
  BY DEF Holding, Holds
<1>2. Holding(g)' \subseteq Workers
  BY <1>1
<1>3. QED
  BY <1>1, <1>2, Constants, FS_Subset

(* How the number of tokens with workers changes with one worker.          *)
LEMMA HoldingChange ==
  ASSUME NEW g \in Guards, NEW w \in Workers, OnlyWorker(w)
  PROVE  /\ Holds(worker[w], g) <=> Holds(worker'[w], g)
              => Cardinality(Holding(g)') = Cardinality(Holding(g))
         /\ ~Holds(worker[w], g) /\ Holds(worker'[w], g)
              => Cardinality(Holding(g)') = Cardinality(Holding(g)) + 1
         /\ Holds(worker[w], g) /\ ~Holds(worker'[w], g)
              => Cardinality(Holding(g)') = Cardinality(Holding(g)) - 1
<1>1. (Holds(worker[w], g) <=> Holds(worker'[w], g)) => Holding(g)' = Holding(g)
  BY HoldingFinite, HoldingFinitePrimed, ZenonT(30) DEF OnlyWorker
<1>2. ASSUME ~Holds(worker[w], g), Holds(worker'[w], g)
      PROVE  Cardinality(Holding(g)') = Cardinality(Holding(g)) + 1
  <2>1. Holding(g)' = Holding(g) \cup {w} /\ w \notin Holding(g)
    <3>1. \A v \in Workers \ {w} : v \in Holding(g)' <=> v \in Holding(g)
      BY HoldingFinite, HoldingFinitePrimed DEF OnlyWorker
    <3>2. QED
      BY <3>1, <1>2, HoldingFinite, HoldingFinitePrimed
  <2>2. QED
    BY <2>1, HoldingFinite, FS_AddElement, Zenon
<1>3. ASSUME Holds(worker[w], g), ~Holds(worker'[w], g)
      PROVE  Cardinality(Holding(g)') = Cardinality(Holding(g)) - 1
  <2>1. Holding(g)' = Holding(g) \ {w} /\ w \in Holding(g)
    <3>1. \A v \in Workers \ {w} : v \in Holding(g)' <=> v \in Holding(g)
      BY HoldingFinite, HoldingFinitePrimed DEF OnlyWorker
    <3>2. QED
      BY <3>1, <1>3, HoldingFinite, HoldingFinitePrimed
  <2>2. QED
    BY <2>1, HoldingFinite, FS_RemoveElement, ZenonT(30)
<1>4. QED
  BY <1>1, <1>2, <1>3, Zenon

(* The token the polling loop has of guard g.                              *)
Polling(g) == IF poller.pc \in {"send", "full", "sendCold", "release"} /\ poller.kind = g THEN 1 ELSE 0

LEMMA Balance ==
  TokensBalance <=> \A g \in Guards : used[g] = Cardinality(Holding(g)) + Polling(g)
  BY DEF TokensBalance, Polling

LEMMA BalancePrimed ==
  TokensBalance' <=> \A g \in Guards : used'[g] = Cardinality(Holding(g)') + Polling(g)'
  BY DEF TokensBalance, Polling

LEMMA SameWorkers ==
  ASSUME worker' = worker, NEW g \in Guards
  PROVE  Holding(g)' = Holding(g)
  BY DEF Holding

(* A step of the polling loop that takes or gives back a token.            *)
LEMMA TokensPolling ==
  ASSUME TypeOK, TokensBalance,
         \/ \E k \in Keys : Poll(k)
         \/ PollStops \/ GuardFull \/ ReleaseAfterSend \/ StalledWorkerExit \/ RetrySend \/ AcquireTimeout
         \/ \E g \in Guards : Acquire(g)
         \/ \E w \in Workers : WorkerFull(w)
  PROVE  TokensBalance'
<1> SUFFICES ASSUME NEW h \in Guards PROVE used'[h] = Cardinality(Holding(h)') + Polling(h)'
  BY BalancePrimed
<1>1. worker' = worker
  BY Zenon DEF Poll, PollStops, GuardFull, ReleaseAfterSend, ReleaseAfterSendOf, StalledWorkerExit, RetrySend,
         AcquireTimeout, Acquire, WorkerFull, PollerStep, shardVars
<1>2. Holding(h)' = Holding(h) /\ Cardinality(Holding(h)) \in Nat
  BY <1>1, SameWorkers, HoldingFinite
<1>3. used[h] = Cardinality(Holding(h)) + Polling(h)
  BY Balance
<1>4. CASE \E k \in Keys : Poll(k)
  BY <1>2, <1>3, <1>4 DEF TypeOK, Poll, PollerAt, Polling
<1>5. CASE PollStops \/ GuardFull
  BY <1>2, <1>3, <1>5 DEF TypeOK, PollStops, GuardFull, PollerStep, PollerAt, Polling
<1>6. CASE ReleaseAfterSend \/ StalledWorkerExit
  BY <1>2, <1>3, <1>6 DEF TypeOK, ReleaseAfterSend, ReleaseAfterSendOf, StalledWorkerExit, Release, PollerAt, Polling
<1>7. CASE RetrySend \/ AcquireTimeout
  BY <1>2, <1>3, <1>7, ZenonT(30) DEF TypeOK, RetrySend, AcquireTimeout, PollerAt, Polling
<1>8. CASE \E g \in Guards : Acquire(g)
  <2>1. PICK g \in Guards : Acquire(g)
    BY <1>8
  <2>2. /\ Polling(h) = 0
        /\ Polling(h)' = IF g = h THEN 1 ELSE 0
    BY <2>1, Zenon DEF TypeOK, Acquire, Polling
  <2>3. used'[h] = IF g = h THEN used[h] + 1 ELSE used[h]
    BY <2>1, Zenon DEF TypeOK, Acquire
  <2>4. QED
    BY <1>2, <1>3, <2>2, <2>3 DEF TypeOK
<1>9. CASE \E w \in Workers : WorkerFull(w)
  BY <1>2, <1>3, <1>9 DEF TypeOK, WorkerFull, PollerStep, PollerAt, Polling
<1>10. QED
  BY <1>4, <1>5, <1>6, <1>7, <1>8, <1>9

(* A message to a worker that has a token already; a token that passes to  *)
(* a worker with its first message; a worker that is borrowed for it.      *)
LEMMA TokensSending ==
  ASSUME TypeOK, ShardInv, PipelineInv, TokensBalance,
         SendCold \/ \E w \in Workers : SendToExisting(w) \/ BorrowWorker(w)
  PROVE  TokensBalance'
<1> SUFFICES ASSUME NEW h \in Guards PROVE used'[h] = Cardinality(Holding(h)') + Polling(h)'
  BY BalancePrimed
<1>1. used[h] = Cardinality(Holding(h)) + Polling(h) /\ Cardinality(Holding(h)) \in Nat
  BY Balance, HoldingFinite
<1>2. CASE SendCold
  <2> DEFINE w == poller.borrowed
  <2>1. w \in Workers /\ worker[w].pc = "cold" /\ worker[w].queue = <<>>
    BY <1>2 DEF ShardInv, SendCold
  <2>2. /\ Item \in WorkItem /\ OnlyWorker(w)
        /\ worker'[w] = [worker[w] EXCEPT !.queue = Append(worker[w].queue, Item)]
    BY <2>1, <1>2, SendShape, Zenon DEF SendCold
  <2>3. worker'[w].pc = "cold" /\ worker'[w].queue = <<Item>>
    BY <2>1, <2>2, FieldTypes DEF WorkerState
  <2>4. ~Holds(worker[w], h) /\ (Holds(worker'[w], h) <=> poller.kind = h)
    BY <2>1, <2>3 DEF Holds, Item
  <2>5. used' = used /\ poller.pc = "sendCold" /\ poller'.pc = "poll"
    BY <1>2 DEF TypeOK, SendCold
  <2>6. QED
    BY <1>1, <2>1, <2>2, <2>4, <2>5, HoldingChange DEF Polling
<1>3. CASE \E w \in Workers : SendToExisting(w)
  <2>1. PICK w \in Workers : SendToExisting(w)
    BY <1>3, Zenon
  <2>2. /\ Item \in WorkItem /\ OnlyWorker(w)
        /\ worker'[w] = [worker[w] EXCEPT !.queue = Append(worker[w].queue, Item)]
    BY <2>1, SendShape DEF SendToExisting, PollerAt
  <2>3. ~(worker[w].pc = "cold" /\ worker[w].queue = <<>>)
    BY <2>1 DEF ShardInv, PipelineInv, AtPoller, SendToExisting, PollerAt
  <2>4. /\ worker'[w].pc = worker[w].pc /\ worker'[w].kind = worker[w].kind
        /\ worker'[w].queue = Append(worker[w].queue, Item)
    BY <2>2, FieldTypes DEF WorkerState
  <2>5. worker[w].queue # <<>> => Head(worker'[w].queue) = Head(worker[w].queue) /\ worker'[w].queue # <<>>
    BY <2>2, <2>4, FieldTypes
  <2>6. Holds(worker'[w], h) <=> Holds(worker[w], h)
    BY <2>3, <2>4, <2>5 DEF Holds
  <2>7. used' = used /\ Polling(h)' = Polling(h)
    BY <2>1 DEF TypeOK, SendToExisting, PollerAt, Polling
  <2>8. QED
    BY <1>1, <2>2, <2>6, <2>7, HoldingChange
<1>4. CASE \E w \in Workers : BorrowWorker(w)
  <2>1. PICK w \in Workers : Borrow(w, TRUE)
    BY <1>4, Zenon DEF BorrowWorker
  <2>2. OnlyWorker(w) /\ worker'[w] = [worker[w] EXCEPT !.pc = "cold", !.active = TRUE]
    BY <2>1, PcActiveShape, Zenon DEF Borrow, WorkerPcs
  <2>3. worker[w].queue = <<>> /\ worker[w].pc \in {"cold", "unborn"}
    <3>1. CASE w \in pool
      BY <3>1 DEF ShardInv
    <3>2. CASE worker[w].pc = "unborn"
      BY <3>2, EmptyUnlessMapped
    <3>3. QED
      BY <2>1, <3>1, <3>2 DEF Borrow
  <2>4. worker'[w].pc = "cold" /\ worker'[w].queue = <<>>
    BY <2>2, <2>3, FieldTypes DEF WorkerState
  <2>5. ~Holds(worker[w], h) /\ ~Holds(worker'[w], h)
    BY <2>3, <2>4 DEF Holds
  <2>6. used' = used /\ Polling(h)' = Polling(h)
    BY <2>1 DEF TypeOK, Borrow, Polling
  <2>7. QED
    BY <1>1, <2>2, <2>5, <2>6, HoldingChange
<1>5. QED
  BY <1>2, <1>3, <1>4

(* The worker loop: only its release gives up the token.                   *)
LEMMA TokensWorking ==
  ASSUME TypeOK, ShardInv, TokensBalance, NEW w \in Workers, Work(w)
  PROVE  TokensBalance'
<1> SUFFICES ASSUME NEW h \in Guards PROVE used'[h] = Cardinality(Holding(h)') + Polling(h)'
  BY BalancePrimed
<1>1. used[h] = Cardinality(Holding(h)) + Polling(h) /\ Cardinality(Holding(h)) \in Nat
  BY Balance, HoldingFinite
<1>2. poller' = poller
  BY DEF Work, Receive, Finish, FinishAs, FallThrough, Leave, LeaveIf, LeaveAs, ReleaseToken, ReleaseAs,
         ReturnWorker, Exit, pollVars
<1>3. Polling(h)' = Polling(h)
  BY <1>2 DEF Polling
<1> DEFINE Keeps == OnlyWorker(w) /\ (Holds(worker'[w], h) <=> Holds(worker[w], h)) /\ used' = used
<1>4. ASSUME Keeps PROVE used'[h] = Cardinality(Holding(h)') + Polling(h)'
  BY <1>1, <1>3, <1>4, HoldingChange
<1>5. CASE Receive(w)
  <2>1. worker[w].queue # <<>> /\ worker[w].pc \in {"cold", "hot"}
    BY <1>5 DEF Receive
  <2>2. PICK to \in {"hot", "processing"} : Take(w, to)
    BY <1>5, ZenonT(30) DEF Receive
  <2>3. /\ OnlyWorker(w) /\ worker'[w].pc = to
        /\ worker'[w].kind = IF worker[w].pc = "cold" THEN Head(worker[w].queue).kind ELSE worker[w].kind
    BY <2>1, <2>2, TakeShape DEF WorkerPcs
  <2>4. Holds(worker'[w], h) <=> Holds(worker[w], h)
    BY <2>1, <2>3 DEF Holds
  <2>5. used' = used
    BY <1>5 DEF Receive
  <2>6. QED
    BY <1>4, <2>3, <2>4, <2>5
<1>6. CASE (\E outcome \in Outcomes : Finish(w, outcome)) \/ FallThrough(w)
  <2>1. PICK to \in {"hot", "leaving"} : worker' = [worker EXCEPT ![w].pc = to]
    BY <1>6 DEF Finish, FinishAs, FallThrough, WorkerAt
  <2>2. worker[w].pc \in {"processing", "hot"} /\ used' = used
    BY <1>6 DEF Finish, FinishAs, FallThrough, WorkerAt
  <2>3. OnlyWorker(w) /\ worker'[w] = [worker[w] EXCEPT !.pc = to]
    BY <2>1, PcShape, Zenon DEF WorkerPcs
  <2>4. worker'[w].pc = to /\ worker'[w].kind = worker[w].kind
    BY <2>3, FieldTypes DEF WorkerState
  <2>5. QED
    BY <1>4, <2>2, <2>3, <2>4 DEF Holds
<1>7. CASE Leave(w)
  <2>1. worker[w].pc = "leaving" /\ used' = used
    BY <1>7 DEF Leave, LeaveIf, LeaveAs
  <2>2. /\ OnlyWorker(w)
        /\ worker'[w].pc \in {"hot", "release"} /\ worker'[w].kind = worker[w].kind
    <3>1. CASE worker[w].queue = <<>>
      <4>1. OnlyWorker(w) /\ worker'[w] = [worker[w] EXCEPT !.pc = "release", !.active = FALSE]
        BY <1>7, <3>1, PcActiveShape, Zenon DEF Leave, LeaveIf, LeaveAs, WorkerPcs
      <4>2. QED
        BY <4>1, FieldTypes DEF WorkerState
    <3>2. CASE worker[w].queue # <<>>
      <4>1. OnlyWorker(w) /\ worker'[w] = [worker[w] EXCEPT !.pc = "hot"]
        BY <1>7, <3>2, PcShape, Zenon DEF Leave, LeaveIf, LeaveAs, WorkerPcs
      <4>2. QED
        BY <4>1, FieldTypes DEF WorkerState
    <3>3. QED
      BY <3>1, <3>2
  <2>3. QED
    BY <1>4, <2>1, <2>2 DEF Holds
<1>8. CASE ReleaseToken(w)
  <2>1. /\ worker[w].pc = "release" /\ worker' = [worker EXCEPT ![w].pc = "return"]
        /\ used' = [used EXCEPT ![worker[w].kind] = @ - 1]
    BY <1>8 DEF ReleaseToken, ReleaseAs, WorkerAt
  <2>2. OnlyWorker(w) /\ worker'[w] = [worker[w] EXCEPT !.pc = "return"]
    BY <2>1, PcShape, Zenon DEF WorkerPcs
  <2>3. worker'[w].pc = "return" /\ worker[w].kind \in Guards
    BY <2>2, FieldTypes DEF WorkerState
  <2>4. ~Holds(worker'[w], h) /\ (Holds(worker[w], h) <=> worker[w].kind = h)
    BY <2>1, <2>3 DEF Holds
  <2>5. used'[h] = IF worker[w].kind = h THEN used[h] - 1 ELSE used[h]
    BY <2>1, <2>3 DEF TypeOK
  <2>6. Polling(h) \in {0, 1}
    BY DEF Polling
  <2>7. CASE worker[w].kind = h
    <3>1. Cardinality(Holding(h)') = Cardinality(Holding(h)) - 1
      BY <2>2, <2>4, <2>7, HoldingChange
    <3>2. QED
      BY <1>1, <1>3, <2>5, <2>6, <2>7, <3>1
  <2>8. CASE worker[w].kind # h
    <3>1. Cardinality(Holding(h)') = Cardinality(Holding(h))
      BY <2>2, <2>4, <2>8, HoldingChange, Zenon
    <3>2. QED
      BY <1>1, <1>3, <2>5, <2>8, <3>1
  <2>9. QED
    BY <2>7, <2>8
<1>9. CASE ReturnWorker(w)
  <2>1. worker[w].pc = "return" /\ used' = used
    BY <1>9 DEF ReturnWorker
  <2>2. worker[w].queue = <<>>
    BY <2>1, EmptyUnlessMapped
  <2>3. OnlyWorker(w) /\ worker'[w].pc = "cold" /\ worker'[w].queue = <<>>
    BY <1>9, <2>2, ReturnShape
  <2>4. QED
    BY <1>4, <2>1, <2>3 DEF Holds
<1>10. CASE Exit(w)
  <2>1. worker[w].pc = "cold" /\ worker[w].queue = <<>> /\ used' = used
    BY <1>10 DEF Exit, ShardInv
  <2>2. OnlyWorker(w) /\ worker'[w].pc = "unborn"
    BY <1>10, ExitShape DEF Unborn
  <2>3. QED
    BY <1>4, <2>1, <2>2, Zenon DEF Holds
<1>11. QED
  BY <1>5, <1>6, <1>7, <1>8, <1>9, <1>10 DEF Work

(* The pruner, the drain and the breaker hold no tokens.                   *)
LEMMA TokensOthers ==
  ASSUME TypeOK, ShardInv, TokensBalance, Prune \/ DetectMainCtxDone \/ DrainWorkers \/ Drain \/ UNCHANGED vars
  PROVE  TokensBalance'
<1> SUFFICES ASSUME NEW h \in Guards PROVE used'[h] = Cardinality(Holding(h)') + Polling(h)'
  BY BalancePrimed
<1>1. used[h] = Cardinality(Holding(h)) + Polling(h)
  BY Balance
<1>2. used' = used /\ poller' = poller
  BY DEF Prune, PruneTick, PruneTake, ShutDown, PruneMiss, DetectMainCtxDone, DrainWorkers, Drain, DrainWorker,
         DrainReturns, ResumePolling, vars, pollVars
<1>3. Polling(h)' = Polling(h)
  BY <1>2 DEF Polling
<1>4. CASE \E w \in Workers : PruneTake(w)
  <2>1. PICK w \in Workers : PruneTake(w)
    BY <1>4
  <2>2. worker[w].pc = "cold" /\ worker[w].queue = <<>>
    BY <2>1 DEF PruneTake, ShutDown, ShardInv
  <2>3. OnlyWorker(w) /\ worker'[w] = [worker[w] EXCEPT !.shut = TRUE]
    BY <2>1, ShutShape, Zenon DEF PruneTake, ShutDown
  <2>4. worker'[w].pc = "cold" /\ worker'[w].queue = <<>>
    BY <2>2, <2>3, FieldTypes DEF WorkerState
  <2>5. QED
    BY <1>1, <1>2, <1>3, <2>2, <2>3, <2>4, HoldingChange, Zenon DEF Holds
<1>5. CASE ~\E w \in Workers : PruneTake(w)
  <2>1. worker' = worker
    BY <1>5 DEF Prune, PruneTick, PruneMiss, DetectMainCtxDone, DrainWorkers, Drain, DrainWorker,
           DrainReturns, ResumePolling, vars, shardVars
  <2>2. QED
    BY <1>1, <1>2, <1>3, <2>1, SameWorkers
<1>6. QED
  BY <1>4, <1>5

-----------------------------------------------------------------------------
(* Types.                                                                  *)

PollerState ==
  [pc : {"poll", "acquire", "acquireSlow", "send", "sendCold", "release", "full", "stopped"},
   kind : Guards, borrowed : Workers \cup {None}]

GuardsType == used \in [Guards -> Nat] /\ \A g \in Guards : used[g] <= Capacity[g]

ShardType ==
  /\ workers \in [Keys -> Workers \cup {None}]
  /\ pool \subseteq Workers /\ Cardinality(pool) <= PoolSize
  /\ worker \in [Workers -> WorkerState]
  /\ \A w \in Workers : Len(worker[w].queue) <= BufferLen

SettledType == settled \in [Messages -> {"open"} \cup Outcomes]

LEMMA TypeParts ==
  TypeOK <=>
    /\ keyOf \in [Messages -> Keys \cup {None}] /\ last \in 0 .. MaxMessages
    /\ poller \in PollerState
    /\ GuardsType
    /\ ShardType
    /\ SettledType
    /\ tripped \in BOOLEAN /\ done \in BOOLEAN
    /\ pruner \in [prevLen : Nat, take : BOOLEAN]
    /\ drain \in {"idle", "waiting", "returned"} /\ waitFor \subseteq Workers
  BY Zenon DEF TypeOK, PollerState, GuardsType, ShardType, SettledType

LEMMA CapacityType ==
  Capacity["guard"] \in Nat /\ Capacity["overflow"] \in Nat
  BY Constants DEF Capacity

(* A token is given back only where one was taken.                         *)
LEMMA GiveBack ==
  ASSUME TypeOK, TokensBalance, NEW g \in Guards, used' = [used EXCEPT ![g] = @ - 1],
         (\E w \in Workers : Holds(worker[w], g)) \/ Polling(g) = 1
  PROVE  GuardsType'
<1>1. used[g] = Cardinality(Holding(g)) + Polling(g) /\ Cardinality(Holding(g)) \in Nat
  BY Balance, HoldingFinite
<1>2. (\E w \in Workers : Holds(worker[w], g)) => Cardinality(Holding(g)) # 0
  BY HoldingFinite, FS_EmptySet
<1>3. Polling(g) \in {0, 1}
  BY DEF Polling
<1>4. used[g] - 1 \in Nat
  BY <1>1, <1>2, <1>3
<1>5. QED
  BY <1>4, CapacityType DEF TypeOK, GuardsType, Guards

(* The pool's channel never holds more than its capacity.                  *)
LEMMA PoolShrinks ==
  ASSUME TypeOK, NEW w \in Workers
  PROVE  Cardinality(pool \ {w}) <= PoolSize
<1>1. IsFiniteSet(pool)
  BY Constants, FS_Subset DEF TypeOK
<1>2. /\ Cardinality(pool) \in Nat
      /\ Cardinality(pool \ {w}) = IF w \in pool THEN Cardinality(pool) - 1 ELSE Cardinality(pool)
  BY <1>1, FS_CardinalityType, FS_RemoveElement
<1>3. QED
  BY <1>2, Constants DEF TypeOK, PoolSize

LEMMA PoolGrows ==
  ASSUME TypeOK, NEW w \in Workers, ~(Cardinality(pool) >= PoolSize)
  PROVE  pool \cup {w} \subseteq Workers /\ Cardinality(pool \cup {w}) <= PoolSize
<1>1. IsFiniteSet(pool)
  BY Constants, FS_Subset DEF TypeOK
<1>2. /\ Cardinality(pool) \in Nat
      /\ Cardinality(pool \cup {w}) = IF w \in pool THEN Cardinality(pool) ELSE Cardinality(pool) + 1
  BY <1>1, FS_CardinalityType, FS_AddElement
<1>3. QED
  BY <1>2, Constants DEF TypeOK, PoolSize

LEMMA QueuesFit ==
  ASSUME TypeOK, NEW w \in Workers, OnlyWorker(w), Len(worker'[w].queue) <= BufferLen
  PROVE  \A v \in Workers : Len(worker'[v].queue) <= BufferLen
<1> SUFFICES ASSUME NEW v \in Workers PROVE Len(worker'[v].queue) <= BufferLen
  OBVIOUS
<1>1. Len(worker[v].queue) <= BufferLen
  BY Zenon DEF TypeOK
<1>2. v # w => worker'[v] = worker[v]
  BY Zenon DEF OnlyWorker
<1>3. QED
  BY <1>1, <1>2

LEMMA SettleType ==
  ASSUME SettledType, NEW m, NEW outcome \in Outcomes, Settle(m, outcome)
  PROVE  SettledType'
  BY Zenon DEF SettledType, Settle

LEMMA TypePolling ==
  ASSUME TypeOK, TokensBalance,
         \/ \E k \in Keys : Poll(k)
         \/ PollStops \/ GuardFull \/ ReleaseAfterSend \/ StalledWorkerExit \/ RetrySend \/ AcquireTimeout
         \/ \E g \in Guards : Acquire(g)
         \/ \E w \in Workers : WorkerFull(w)
  PROVE  TypeOK'
<1>1. /\ UNCHANGED <<workers, pool, worker, pruner, drain, waitFor, done>>
      /\ ShardType'
  BY TypeParts, ZenonT(30) DEF Poll, PollStops, GuardFull, ReleaseAfterSend, ReleaseAfterSendOf, StalledWorkerExit,
         RetrySend,
         AcquireTimeout, Acquire, WorkerFull, PollerStep, shardVars, drainVars, breakerVars, ShardType
<1>2. poller' \in PollerState
  BY TypeParts, ZenonT(30) DEF Poll, PollStops, GuardFull, ReleaseAfterSend, ReleaseAfterSendOf, StalledWorkerExit,
         RetrySend,
         AcquireTimeout, Acquire, WorkerFull, PollerStep, PollerAt, PollerState
<1>3. CASE \E k \in Keys : Poll(k)
  <2>1. keyOf' \in [Messages -> Keys \cup {None}] /\ last' \in 0 .. MaxMessages
    BY <1>3, Constants DEF TypeOK, Poll, Messages
  <2>2. UNCHANGED <<used, settled, tripped>>
    BY <1>3 DEF Poll, breakerVars
  <2>3. QED
    BY <1>1, <1>2, <2>1, <2>2, TypeParts, Zenon DEF TypeOK, PollerState, GuardsType, ShardType, SettledType
<1>4. CASE PollStops \/ GuardFull \/ \E w \in Workers : WorkerFull(w)
  <2>1. UNCHANGED <<keyOf, last, used, settled, tripped>>
    BY <1>4 DEF PollStops, GuardFull, WorkerFull, PollerStep, breakerVars
  <2>2. QED
    BY <1>1, <1>2, <2>1, Zenon DEF TypeOK, PollerState, ShardType
<1>5. CASE ReleaseAfterSend \/ StalledWorkerExit
  <2>1. /\ UNCHANGED <<keyOf, last, tripped>>
        /\ used' = [used EXCEPT ![poller.kind] = @ - 1]
        /\ poller.kind \in Guards /\ Polling(poller.kind) = 1
    BY <1>5 DEF TypeOK, ReleaseAfterSend, ReleaseAfterSendOf, StalledWorkerExit, Release, PollerAt, Polling, breakerVars
  <2>2. GuardsType'
    BY <2>1, GiveBack, Zenon
  <2>3. SettledType'
    BY <1>5, TypeParts, SettleType DEF ReleaseAfterSend, ReleaseAfterSendOf, StalledWorkerExit, Outcomes, SettledType
  <2>4. QED
    BY <1>1, <1>2, <2>1, <2>2, <2>3, ZenonT(30) DEF TypeOK, PollerState, GuardsType, ShardType, SettledType
<1>6. CASE RetrySend \/ AcquireTimeout
  <2>1. UNCHANGED <<keyOf, last, used>>
    BY <1>6, Zenon DEF RetrySend, AcquireTimeout
  <2>2. tripped' \in BOOLEAN
    BY <1>6, Zenon DEF TypeOK, RetrySend, AcquireTimeout
  <2>3. SettledType'
    BY <1>6, TypeParts, SettleType, Zenon DEF RetrySend, AcquireTimeout, Outcomes, SettledType
  <2>4. QED
    BY <1>1, <1>2, <2>1, <2>2, <2>3, Zenon DEF TypeOK, PollerState, ShardType, SettledType
<1>7. CASE \E g \in Guards : Acquire(g)
  <2>1. UNCHANGED <<keyOf, last, settled, tripped>>
    BY <1>7, Zenon DEF Acquire, breakerVars
  <2>2. GuardsType'
    BY <1>7, CapacityType DEF TypeOK, Acquire, GuardsType, Guards
  <2>3. QED
    BY <1>1, <1>2, <2>1, <2>2, Zenon DEF TypeOK, PollerState, GuardsType, ShardType, SettledType
<1>8. QED
  BY <1>3, <1>4, <1>5, <1>6, <1>7

LEMMA TypeSending ==
  ASSUME TypeOK, ShardInv, PipelineInv, SendCold \/ \E w \in Workers : SendToExisting(w) \/ BorrowWorker(w)
  PROVE  TypeOK'
<1>1. UNCHANGED <<keyOf, last, used, settled, tripped, done, pruner, drain, waitFor>>
  BY ZenonT(30) DEF SendCold, SendToExisting, BorrowWorker, Borrow, breakerVars, drainVars
<1>2. poller' \in PollerState
  BY TypeParts, ZenonT(30) DEF SendCold, SendToExisting, BorrowWorker, Borrow, PollerAt, PollerState
<1>3. CASE SendCold
  <2> DEFINE w == poller.borrowed
  <2>1. w \in Workers /\ worker[w].queue = <<>>
    BY <1>3 DEF ShardInv, SendCold
  <2>2. /\ Item \in WorkItem /\ OnlyWorker(w)
        /\ worker'[w] = [worker[w] EXCEPT !.queue = Append(worker[w].queue, Item)]
    BY <2>1, <1>3, SendShape, Zenon DEF SendCold
  <2>3. worker'[w].queue = <<Item>>
    BY <2>1, <2>2, FieldTypes DEF WorkerState
  <2>4. \A v \in Workers : Len(worker'[v].queue) <= BufferLen
    <3>1. Len(worker'[w].queue) = 1
      BY <2>3
    <3>2. Len(worker'[w].queue) <= BufferLen
      BY <3>1, Constants
    <3> HIDE DEF w
    <3>3. QED
      BY <2>1, <2>2, <3>2, QueuesFit, Zenon
  <2>5. ShardType'
    BY <1>3, <2>2, <2>4, TypeParts DEF SendCold, OnlyWorker, ShardType
  <2>6. QED
    BY <1>1, <1>2, <2>5, Zenon DEF TypeOK, PollerState, ShardType
<1>4. CASE \E w \in Workers : SendToExisting(w)
  <2>1. PICK w \in Workers : SendToExisting(w)
    BY <1>4, Zenon
  <2>2. /\ Item \in WorkItem /\ OnlyWorker(w)
        /\ worker'[w] = [worker[w] EXCEPT !.queue = Append(worker[w].queue, Item)]
    BY <2>1, SendShape, Zenon DEF SendToExisting, PollerAt
  <2>3. Len(worker'[w].queue) = Len(worker[w].queue) + 1 /\ Len(worker[w].queue) \in Nat
    BY <2>2, FieldTypes DEF WorkerState
  <2>4. \A v \in Workers : Len(worker'[v].queue) <= BufferLen
    <3>1. Len(worker'[w].queue) <= BufferLen
      BY <2>1, <2>3, Constants DEF SendToExisting
    <3>2. QED
      BY <2>2, <3>1, QueuesFit, Zenon
  <2>5. ShardType'
    BY <2>1, <2>2, <2>4, TypeParts, ZenonT(30) DEF SendToExisting, OnlyWorker, ShardType
  <2>6. QED
    BY <1>1, <1>2, <2>5, Zenon DEF TypeOK, PollerState, ShardType
<1>5. CASE \E w \in Workers : BorrowWorker(w)
  <2>1. PICK w \in Workers : Borrow(w, TRUE)
    BY <1>5, Zenon DEF BorrowWorker
  <2>2. OnlyWorker(w) /\ worker'[w] = [worker[w] EXCEPT !.pc = "cold", !.active = TRUE]
    BY <2>1, PcActiveShape, Zenon DEF Borrow, WorkerPcs
  <2>3. worker'[w].queue = worker[w].queue
    BY <2>2, FieldTypes DEF WorkerState
  <2>4. \A v \in Workers : Len(worker'[v].queue) <= BufferLen
    BY <2>2, <2>3, Zenon DEF TypeOK, OnlyWorker
  <2>5. workers' \in [Keys -> Workers \cup {None}] /\ pool' \subseteq Workers
    BY <2>1, Zenon DEF TypeOK, Borrow
  <2>6. Cardinality(pool') <= PoolSize
    BY <2>1, PoolShrinks DEF Borrow
  <2>7. ShardType'
    BY <2>2, <2>4, <2>5, <2>6 DEF OnlyWorker, ShardType
  <2>8. QED
    BY <1>1, <1>2, <2>7, Zenon DEF TypeOK, PollerState, ShardType
<1>6. QED
  BY <1>3, <1>4, <1>5

LEMMA TypeWorking ==
  ASSUME TypeOK, ShardInv, TokensBalance, NEW w \in Workers, Work(w)
  PROVE  TypeOK'
<1>1. UNCHANGED <<keyOf, last, poller, done, pruner, drain, waitFor>>
  BY DEF Work, Receive, Finish, FinishAs, FallThrough, Leave, LeaveIf, LeaveAs, ReleaseToken, ReleaseAs,
         ReturnWorker, Exit, pollVars, breakerVars, drainVars
<1>2. tripped' \in BOOLEAN
  <2>1. UNCHANGED tripped \/ tripped' = (tripped \/ TRUE) \/ tripped' = (tripped \/ FALSE)
    BY DEF Work, Receive, Finish, FinishAs, FallThrough, Leave, LeaveIf, LeaveAs, ReleaseToken, ReleaseAs,
           ReturnWorker, Exit, breakerVars, Outcomes
  <2>2. QED
    BY <2>1, Zenon DEF TypeOK
<1>3. SettledType'
  BY TypeParts, SettleType DEF Work, Receive, Finish, FinishAs, FallThrough, Leave, LeaveIf, LeaveAs, ReleaseToken,
         ReleaseAs, ReturnWorker, Exit, Outcomes, SettledType
<1>4. GuardsType'
  <2>1. CASE ReleaseToken(w)
    <3>1. /\ worker[w].pc = "release" /\ worker[w].kind \in Guards
          /\ used' = [used EXCEPT ![worker[w].kind] = @ - 1]
      BY <2>1, FieldTypes DEF ReleaseToken, ReleaseAs, WorkerAt, WorkerState
    <3>2. Holds(worker[w], worker[w].kind)
      BY <3>1 DEF Holds
    <3>3. QED
      BY <3>1, <3>2, GiveBack, Zenon
  <2>2. CASE ~ReleaseToken(w)
    <3>1. used' = used
      BY <2>2 DEF Work, Receive, Finish, FinishAs, FallThrough, Leave, LeaveIf, LeaveAs, ReturnWorker, Exit
    <3>2. QED
      BY <3>1, TypeParts DEF GuardsType
  <2>3. QED
    BY <2>1, <2>2
<1>5. OnlyWorker(w) /\ Len(worker'[w].queue) <= Len(worker[w].queue)
  <2>1. CASE Receive(w)
    <3>1. worker[w].queue # <<>>
      BY <2>1 DEF Receive
    <3>2. PICK to \in {"hot", "processing"} : Take(w, to)
      BY <2>1, Zenon DEF Receive
    <3>3. OnlyWorker(w) /\ worker'[w].queue = Tail(worker[w].queue)
      BY <3>1, <3>2, TakeShape DEF WorkerPcs
    <3>4. QED
      BY <3>1, <3>3, FieldTypes
  <2>2. CASE (\E outcome \in Outcomes : Finish(w, outcome)) \/ FallThrough(w) \/ ReleaseToken(w)
    <3>1. PICK to \in {"hot", "leaving", "return"} : worker' = [worker EXCEPT ![w].pc = to]
      BY <2>2 DEF Finish, FinishAs, FallThrough, ReleaseToken, ReleaseAs, WorkerAt
    <3>2. OnlyWorker(w) /\ worker'[w] = [worker[w] EXCEPT !.pc = to]
      BY <3>1, PcShape, Zenon DEF WorkerPcs
    <3>3. QED
      BY <3>2, FieldTypes DEF WorkerState
  <2>3. CASE Leave(w)
    <3>1. CASE worker[w].queue = <<>>
      <4>1. OnlyWorker(w) /\ worker'[w] = [worker[w] EXCEPT !.pc = "release", !.active = FALSE]
        BY <2>3, <3>1, PcActiveShape, Zenon DEF Leave, LeaveIf, LeaveAs, WorkerPcs
      <4>2. QED
        BY <4>1, FieldTypes DEF WorkerState
    <3>2. CASE worker[w].queue # <<>>
      <4>1. OnlyWorker(w) /\ worker'[w] = [worker[w] EXCEPT !.pc = "hot"]
        BY <2>3, <3>2, PcShape, Zenon DEF Leave, LeaveIf, LeaveAs, WorkerPcs
      <4>2. QED
        BY <4>1, FieldTypes DEF WorkerState
    <3>3. QED
      BY <3>1, <3>2
  <2>4. CASE ReturnWorker(w)
    BY <2>4, ReturnShape, FieldTypes
  <2>5. CASE Exit(w)
    BY <2>5, ExitShape, FieldTypes DEF Unborn
  <2>6. QED
    BY <2>1, <2>2, <2>3, <2>4, <2>5, Zenon DEF Work
<1>6. workers' \in [Keys -> Workers \cup {None}]
  BY DEF TypeOK, Work, Receive, Finish, FinishAs, FallThrough, Leave, LeaveIf, LeaveAs, ReleaseToken, ReleaseAs,
         ReturnWorker, Exit
<1>7. pool' \subseteq Workers /\ Cardinality(pool') <= PoolSize
  <2>1. CASE ReturnWorker(w) /\ pool' # pool
    BY <2>1, PoolGrows DEF ReturnWorker
  <2>2. CASE pool' = pool
    BY <2>2 DEF TypeOK
  <2>3. QED
    BY <2>1, <2>2 DEF Work, Receive, Finish, FinishAs, FallThrough, Leave, LeaveIf, LeaveAs, ReleaseToken, ReleaseAs, Exit
<1>8. ShardType'
  <2>1. \A v \in Workers : Len(worker'[v].queue) <= BufferLen
    <3>1. Len(worker'[w].queue) \in Nat /\ Len(worker[w].queue) \in Nat
      BY <1>5, FieldTypes DEF OnlyWorker, WorkerState
    <3>2. Len(worker[w].queue) <= BufferLen
      BY Zenon DEF TypeOK
    <3>3. Len(worker'[w].queue) <= BufferLen
      BY <1>5, <3>1, <3>2, Constants
    <3>4. QED
      BY <1>5, <3>3, QueuesFit
  <2>2. QED
    BY <1>5, <1>6, <1>7, <2>1 DEF OnlyWorker, ShardType
<1>9. QED
  BY <1>1, <1>2, <1>3, <1>4, <1>8, ZenonT(30) DEF TypeOK, GuardsType, ShardType, SettledType

LEMMA TypeOthers ==
  ASSUME TypeOK, Prune \/ DetectMainCtxDone \/ DrainWorkers \/ Drain \/ UNCHANGED vars
  PROVE  TypeOK'
<1>1. UNCHANGED <<keyOf, last, poller, used, workers, settled, tripped>>
  BY DEF Prune, PruneTick, PruneTake, ShutDown, PruneMiss, DetectMainCtxDone, DrainWorkers, Drain, DrainWorker,
         DrainReturns, ResumePolling, vars, pollVars, shardVars, breakerVars
<1>2. done' \in BOOLEAN
  <2>1. done' = done \/ done' = TRUE
    BY DEF Prune, PruneTick, PruneTake, ShutDown, PruneMiss, DetectMainCtxDone, DrainWorkers, Drain, DrainWorker,
           DrainReturns, ResumePolling, vars, breakerVars
  <2>2. QED
    BY <2>1, Zenon DEF TypeOK
<1>3. drain' \in {"idle", "waiting", "returned"} /\ waitFor' \subseteq Workers
  BY DEF TypeOK, Prune, PruneTick, PruneTake, ShutDown, PruneMiss, DetectMainCtxDone, DrainWorkers, Drain, DrainWorker,
         DrainReturns, ResumePolling, vars, drainVars
<1>4. pruner' \in [prevLen : Nat, take : BOOLEAN]
  <2>1. CASE PruneTick
    <3>1. Cardinality(pool) \in Nat
      BY Constants, FS_Subset, FS_CardinalityType DEF TypeOK
    <3>2. QED
      BY <2>1, <3>1, Zenon DEF PruneTick
  <2>2. CASE PruneMiss \/ \E w \in Workers : PruneTake(w)
    BY <2>2, Zenon DEF TypeOK, PruneMiss, PruneTake, ShutDown
  <2>3. CASE UNCHANGED pruner
    BY <2>3 DEF TypeOK
  <2>4. QED
    BY <2>1, <2>2, <2>3, Zenon DEF Prune, DetectMainCtxDone, DrainWorkers, Drain, DrainWorker, DrainReturns,
           ResumePolling, vars
<1>5. ShardType'
  <2>1. CASE \E w \in Workers : PruneTake(w)
    <3>1. PICK w \in Workers : PruneTake(w)
      BY <2>1
    <3>2. OnlyWorker(w) /\ worker'[w] = [worker[w] EXCEPT !.shut = TRUE]
      BY <3>1, ShutShape, ZenonT(30) DEF PruneTake, ShutDown
    <3>3. worker'[w].queue = worker[w].queue
      BY <3>2, FieldTypes, Zenon DEF WorkerState
    <3>4. pool' \subseteq Workers /\ Cardinality(pool') <= PoolSize
      BY <3>1, PoolShrinks DEF TypeOK, PruneTake
    <3>5. QED
      BY <1>1, <3>2, <3>3, <3>4, Zenon DEF TypeOK, OnlyWorker, ShardType
  <2>2. CASE ~\E w \in Workers : PruneTake(w)
    BY <2>2, TypeParts DEF Prune, PruneTick, PruneMiss, DetectMainCtxDone, DrainWorkers, Drain, DrainWorker,
           DrainReturns, ResumePolling, vars, shardVars, ShardType
  <2>3. QED
    BY <2>1, <2>2
<1>6. QED
  BY <1>1, <1>2, <1>3, <1>4, <1>5, ZenonT(30) DEF TypeOK, ShardType

-----------------------------------------------------------------------------
(* The shard.  ShardInv speaks of each worker by itself, of each key that  *)
(* has a worker, and of the polling loop.                                  *)

WorkerFits(w) ==
  /\ worker[w].pc \in {"hot", "processing", "leaving"} =>
       worker[w].key \in Keys /\ workers[worker[w].key] = w
  /\ \A j \in DOMAIN worker[w].queue : workers[worker[w].queue[j].key] = w
  /\ w \in pool \/ worker[w].shut => worker[w].pc = "cold" /\ worker[w].queue = <<>>
  /\ w \in pool => ~worker[w].shut

MappedFits(k, w) ==
  /\ worker[w].pc \in {"cold", "hot", "processing", "leaving"}
  /\ w \notin pool /\ ~worker[w].shut /\ worker[w].active
  /\ worker[w].pc # "cold" => worker[w].key = k
  /\ worker[w].pc = "cold" /\ worker[w].queue = <<>> => poller.pc = "sendCold" /\ poller.borrowed = w
  /\ \A l \in Keys : workers[l] = w => l = k
  /\ drain = "waiting" => w \in waitFor
  /\ drain # "returned"

PollerFits ==
  /\ IF poller.pc = "sendCold"
     THEN /\ poller.borrowed \in Workers /\ workers[keyOf[last]] = poller.borrowed
          /\ worker[poller.borrowed].pc = "cold" /\ worker[poller.borrowed].queue = <<>>
     ELSE poller.borrowed = None
  /\ drain # "idle" => poller.pc \in {"poll", "stopped"}

LEMMA ShardParts ==
  ShardInv <=> /\ \A w \in Workers : WorkerFits(w)
               /\ \A k \in Keys : \A w \in Workers : workers[k] = w => MappedFits(k, w)
               /\ PollerFits
  BY Zenon DEF ShardInv, WorkerFits, MappedFits, PollerFits

LEMMA ShardPartsPrimed ==
  ShardInv' <=> /\ \A w \in Workers : WorkerFits(w)'
                /\ \A k \in Keys : \A w \in Workers : workers'[k] = w => MappedFits(k, w)'
                /\ PollerFits'
  BY Zenon DEF ShardInv, WorkerFits, MappedFits, PollerFits

LEMMA ShardPolling ==
  ASSUME TypeOK, ShardInv,
         \/ \E k \in Keys : Poll(k)
         \/ PollStops \/ GuardFull \/ ReleaseAfterSend \/ StalledWorkerExit \/ RetrySend \/ AcquireTimeout
         \/ \E g \in Guards : Acquire(g)
         \/ \E w \in Workers : WorkerFull(w)
  PROVE  ShardInv'
<1>1. UNCHANGED <<workers, pool, worker, drain, waitFor>>
  BY ZenonT(30) DEF Poll, PollStops, GuardFull, ReleaseAfterSend, ReleaseAfterSendOf, StalledWorkerExit, RetrySend,
         AcquireTimeout, Acquire, WorkerFull, PollerStep, shardVars, drainVars
<1>2. /\ poller.pc # "sendCold" /\ poller'.pc # "sendCold"
      /\ poller'.borrowed = poller.borrowed
      /\ drain # "idle" => poller'.pc \in {"poll", "stopped"}
  <2>1. drain # "idle" => poller.pc \in {"poll", "stopped"}
    BY ShardParts DEF PollerFits
  <2>2. poller \in PollerState
    BY TypeParts
  <2>3. QED
    BY <2>1, <2>2, Zenon DEF PollerState, Poll, PollStops, GuardFull, ReleaseAfterSend, ReleaseAfterSendOf,
           StalledWorkerExit, RetrySend, AcquireTimeout, Acquire, WorkerFull, PollerStep, PollerAt
<1>3. \A w \in Workers : WorkerFits(w)'
  BY <1>1, ShardParts, Zenon DEF WorkerFits
<1>4. ASSUME NEW k \in Keys, NEW w \in Workers, workers'[k] = w PROVE MappedFits(k, w)'
  <2>1. MappedFits(k, w)
    BY <1>1, <1>4, ShardParts, Zenon
  <2>2. QED
    BY <1>1, <1>2, <2>1 DEF MappedFits
<1>5. PollerFits'
  BY <1>1, <1>2, ShardParts DEF PollerFits
<1>6. QED
  BY <1>3, <1>4, <1>5, ShardPartsPrimed

(* Everything but the changed worker keeps fitting.                        *)
LEMMA OthersFit ==
  ASSUME TypeOK, ShardInv, NEW w \in Workers, OnlyWorker(w), UNCHANGED <<drain, waitFor>>,
         \A v \in Workers \ {w} :
           /\ v \in pool' <=> v \in pool
           /\ \A k \in Keys : workers'[k] = v <=> workers[k] = v
           /\ poller.pc = "sendCold" /\ poller.borrowed = v => poller'.pc = "sendCold" /\ poller'.borrowed = v,
         WorkerFits(w)', \A k \in Keys : workers'[k] = w => MappedFits(k, w)', PollerFits'
  PROVE  ShardInv'
<1>1. ASSUME NEW v \in Workers, v # w PROVE WorkerFits(v)'
  <2>1. worker'[v] = worker[v] /\ (v \in pool' <=> v \in pool) /\ \A k \in Keys : workers'[k] = v <=> workers[k] = v
    BY <1>1 DEF OnlyWorker
  <2>2. WorkerFits(v)
    BY ShardParts
  <2>3. \A j \in DOMAIN worker[v].queue : worker[v].queue[j].key \in Keys
    BY QueuedItems
  <2>4. worker[v].pc \in {"hot", "processing", "leaving"} => worker[v].key \in Keys /\ workers'[worker[v].key] = v
    BY <2>1, <2>2, Zenon DEF WorkerFits
  <2>5. \A j \in DOMAIN worker[v].queue : workers'[worker[v].queue[j].key] = v
    BY <2>1, <2>2, <2>3, ZenonT(30) DEF WorkerFits
  <2>6. QED
    BY <2>1, <2>2, <2>4, <2>5, ZenonT(30) DEF WorkerFits
<1>2. ASSUME NEW k \in Keys, NEW v \in Workers, v # w, workers'[k] = v PROVE MappedFits(k, v)'
  <2>1. worker'[v] = worker[v] /\ (v \in pool' <=> v \in pool) /\ \A l \in Keys : workers'[l] = v <=> workers[l] = v
    BY <1>2 DEF OnlyWorker
  <2>2. poller.pc = "sendCold" /\ poller.borrowed = v => poller'.pc = "sendCold" /\ poller'.borrowed = v
    BY <1>2
  <2>3. MappedFits(k, v)
    BY <1>2, <2>1, ShardParts, Zenon
  <2>4. QED
    BY <2>1, <2>2, <2>3 DEF MappedFits
<1>3. QED
  BY <1>1, <1>2, ShardPartsPrimed

(* The key of a message in dispatch.                                       *)
LEMMA DispatchedKey ==
  ASSUME PipelineInv, poller.pc \in {"acquire", "acquireSlow", "send", "full", "sendCold"}
  PROVE  AtPoller = {last} /\ last > 0 /\ keyOf[last] \in Keys
  BY DEF PipelineInv, AtPoller

LEMMA ShardSending ==
  ASSUME TypeOK, ShardInv, PipelineInv, SendCold \/ \E w \in Workers : SendToExisting(w) \/ BorrowWorker(w)
  PROVE  ShardInv'
<1> DEFINE key == keyOf[last]
<1>1. poller.pc \in {"send", "sendCold"} /\ key \in Keys /\ UNCHANGED <<keyOf, last, drain, waitFor>>
  BY DispatchedKey, Zenon DEF SendCold, SendToExisting, BorrowWorker, Borrow, PollerAt, drainVars
<1>2. drain = "idle" /\ poller \in PollerState
  BY <1>1, ShardParts, TypeParts DEF PollerFits
<1> HIDE DEF key
<1>3. ASSUME NEW w \in Workers, workers[key] = w, worker' = SendTo(w), UNCHANGED <<workers, pool>>,
             SendCold \/ SendToExisting(w),
             SendCold => poller.borrowed = w
      PROVE  ShardInv'
  <2>1. /\ Item \in WorkItem /\ OnlyWorker(w)
        /\ worker'[w] = [worker[w] EXCEPT !.queue = Append(worker[w].queue, Item)]
    BY <1>1, <1>3, SendShape
  <2>2. /\ worker'[w].pc = worker[w].pc /\ worker'[w].key = worker[w].key
        /\ worker'[w].shut = worker[w].shut /\ worker'[w].active = worker[w].active
        /\ worker'[w].queue = Append(worker[w].queue, Item)
    BY <2>1, FieldTypes DEF WorkerState
  <2>3. /\ worker'[w].queue # <<>>
        /\ \A j \in DOMAIN worker'[w].queue :
             worker'[w].queue[j] = Item \/ (j \in DOMAIN worker[w].queue /\ worker'[w].queue[j] = worker[w].queue[j])
    BY <2>1, <2>2, FieldTypes
  <2>4. Item.key = key
    BY DEF Item, key
  <2>5. WorkerFits(w) /\ MappedFits(key, w)
    BY <1>1, <1>3, ShardParts, ZenonT(30)
  <2>6. WorkerFits(w)'
    <3>1. workers'[key] = w /\ w \notin pool' /\ ~worker'[w].shut
      BY <1>3, <2>2, <2>5, ZenonT(30) DEF MappedFits
    <3>2. \A j \in DOMAIN worker'[w].queue : workers'[worker'[w].queue[j].key] = w
      <4> SUFFICES ASSUME NEW j \in DOMAIN worker'[w].queue
                   PROVE  workers'[worker'[w].queue[j].key] = w
        OBVIOUS
      <4>1. workers' = workers /\ workers[key] = w
        BY <1>3, Zenon
      <4>2. CASE worker'[w].queue[j] = Item
        BY <2>4, <4>1, <4>2, Zenon
      <4>3. CASE j \in DOMAIN worker[w].queue /\ worker'[w].queue[j] = worker[w].queue[j]
        BY <2>5, <4>1, <4>3, Zenon DEF WorkerFits
      <4>4. QED
        BY <2>3, <4>2, <4>3, Zenon
    <3>3. worker'[w].pc \in {"hot", "processing", "leaving"} =>
            worker'[w].key \in Keys /\ workers'[worker'[w].key] = w
      BY <1>3, <2>2, <2>5, ZenonT(30) DEF WorkerFits
    <3>4. QED
      BY <3>1, <3>2, <3>3, ZenonT(30) DEF WorkerFits
  <2>7. \A k \in Keys : workers'[k] = w => MappedFits(k, w)'
    <3>1. \A k \in Keys : workers[k] = w => MappedFits(k, w)
      BY ShardParts
    <3>2. QED
      BY <1>1, <1>3, <2>2, <2>3, <3>1 DEF MappedFits
  <2>8. poller'.pc # "sendCold" /\ poller'.borrowed = None
    BY <1>2, <1>3, ShardParts, Zenon DEF PollerFits, SendCold, SendToExisting, PollerAt, PollerState
  <2>9. PollerFits'
    BY <1>1, <1>2, <2>8 DEF PollerFits
  <2>10. poller.pc = "sendCold" => poller.borrowed = w
    BY <1>3 DEF SendToExisting, PollerAt
  <2>11. QED
    BY <1>1, <1>3, <2>1, <2>6, <2>7, <2>9, <2>10, OthersFit
<1>4. CASE SendCold
  BY <1>4, <1>3, ShardParts DEF SendCold, PollerFits, key
<1>5. CASE \E w \in Workers : SendToExisting(w)
  BY <1>5, <1>3 DEF SendCold, SendToExisting, PollerAt, key
<1>6. CASE \E w \in Workers : BorrowWorker(w)
  <2>1. PICK w \in Workers : Borrow(w, TRUE)
    BY <1>6, Zenon DEF BorrowWorker
  <2>2. OnlyWorker(w) /\ worker'[w] = [worker[w] EXCEPT !.pc = "cold", !.active = TRUE]
    BY <2>1, PcActiveShape, Zenon DEF Borrow, WorkerPcs
  <2>3. worker[w].queue = <<>> /\ ~worker[w].shut /\ \A k \in Keys : workers[k] # w
    <3>1. CASE w \in pool
      BY <3>1, ShardParts DEF WorkerFits, MappedFits
    <3>2. CASE worker[w].pc = "unborn"
      BY <3>2, EmptyUnlessMapped, ShardParts DEF WorkerFits
    <3>3. QED
      BY <2>1, <3>1, <3>2, Zenon DEF Borrow
  <2>4. worker'[w].pc = "cold" /\ worker'[w].active /\ worker'[w].queue = <<>> /\ ~worker'[w].shut
    BY <2>2, <2>3, FieldTypes, Zenon DEF WorkerState
  <2>5. /\ workers[key] = None /\ workers' = [workers EXCEPT ![key] = w] /\ pool' = pool \ {w}
        /\ workers \in [Keys -> Workers \cup {None}]
        /\ poller'.pc = "sendCold" /\ poller'.borrowed = w /\ poller.pc = "send"
    BY <1>2, <2>1, Zenon DEF TypeOK, Borrow, key, PollerState
  <2>6. \A k \in Keys : workers'[k] = w <=> k = key
    BY <1>1, <2>3, <2>5, Zenon
  <2>7. WorkerFits(w)'
    BY <2>4, <2>5 DEF WorkerFits
  <2>8. \A k \in Keys : workers'[k] = w => MappedFits(k, w)'
    BY <1>1, <1>2, <2>4, <2>5, <2>6, Zenon DEF MappedFits
  <2>9. PollerFits'
    BY <1>1, <1>2, <2>4, <2>5, <2>6, Zenon DEF PollerFits, key
  <2>10. \A v \in Workers \ {w} : \A k \in Keys : workers'[k] = v <=> workers[k] = v
    BY <1>1, <2>5, Constants, Zenon
  <2>11. QED
    BY <1>1, <2>2, <2>5, <2>7, <2>8, <2>9, <2>10, OthersFit
<1>7. QED
  BY <1>4, <1>5, <1>6

LEMMA ShardWorking ==
  ASSUME TypeOK, ShardInv, PipelineInv, NEW w \in Workers, Work(w)
  PROVE  ShardInv'
<1>1. UNCHANGED <<keyOf, last, poller, drain, waitFor>>
  BY DEF Work, Receive, Finish, FinishAs, FallThrough, Leave, LeaveIf, LeaveAs, ReleaseToken, ReleaseAs,
         ReturnWorker, Exit, pollVars, drainVars
<1>2. WorkerFits(w) /\ PollerFits /\ \A k \in Keys : workers[k] = w => MappedFits(k, w)
  BY ShardParts, Zenon
<1>3. poller.pc = "sendCold" /\ poller.borrowed = w => worker[w].pc = "cold" /\ worker[w].queue = <<>>
  BY <1>2 DEF PollerFits
(* A step that leaves the map and the pool alone, while w is mapped.       *)
<1>4. ASSUME UNCHANGED <<workers, pool>>, OnlyWorker(w), WorkerFits(w)',
             \A k \in Keys : workers[k] = w => MappedFits(k, w)',
             ~(worker[w].pc = "cold" /\ worker[w].queue = <<>> /\ poller.pc = "sendCold" /\ poller.borrowed = w)
      PROVE  ShardInv'
  <2>1. poller.pc = "sendCold" => worker'[poller.borrowed] = worker[poller.borrowed]
    BY <1>2, <1>3, <1>4, Zenon DEF PollerFits, OnlyWorker
  <2>2. PollerFits'
    BY <1>1, <1>2, <1>4, <2>1, Zenon DEF PollerFits
  <2>3. QED
    BY <1>1, <1>4, <2>2, OthersFit, Zenon
<1>5. CASE Receive(w)
  <2>1. worker[w].queue # <<>> /\ worker[w].pc \in {"cold", "hot"} /\ UNCHANGED <<workers, pool>>
    BY <1>5 DEF Receive
  <2>2. PICK to \in {"hot", "processing"} : Take(w, to)
    BY <1>5, Zenon DEF Receive
  <2>3. /\ Head(worker[w].queue) \in WorkItem
        /\ OnlyWorker(w)
        /\ worker'[w].pc = to
        /\ worker'[w].queue = Tail(worker[w].queue)
        /\ worker'[w].key = IF worker[w].pc = "cold" THEN Head(worker[w].queue).key ELSE worker[w].key
        /\ worker'[w].active = worker[w].active
        /\ worker'[w].shut = worker[w].shut
    BY <2>1, <2>2, TakeShape, ZenonT(30) DEF WorkerPcs
  <2>4. /\ 1 \in DOMAIN worker[w].queue /\ Head(worker[w].queue) = worker[w].queue[1]
        /\ \A j \in DOMAIN worker'[w].queue :
             j + 1 \in DOMAIN worker[w].queue /\ worker'[w].queue[j] = worker[w].queue[j + 1]
    BY <2>1, <2>3, FieldTypes
  <2>5. worker'[w].key \in Keys /\ workers[worker'[w].key] = w
    BY <1>2, <2>1, <2>3, <2>4, QueuedItems, Zenon DEF WorkerFits
  <2>6. w \notin pool /\ ~worker[w].shut
    BY <1>2, <2>1, Zenon DEF WorkerFits
  <2>7. WorkerFits(w)'
    BY <1>2, <2>1, <2>3, <2>4, <2>5, <2>6, ZenonT(30) DEF WorkerFits
  <2>8. \A k \in Keys : workers[k] = w => MappedFits(k, w)'
    BY <1>1, <1>2, <2>1, <2>3, <2>5 DEF MappedFits
  <2>9. QED
    BY <1>4, <2>1, <2>3, <2>7, <2>8, ZenonT(30)
<1>6. CASE (\E outcome \in Outcomes : Finish(w, outcome)) \/ FallThrough(w)
           \/ (Leave(w) /\ worker[w].queue # <<>>)
  <2>1. PICK to \in {"hot", "leaving"} : worker' = [worker EXCEPT ![w].pc = to]
    BY <1>6 DEF Finish, FinishAs, FallThrough, Leave, LeaveIf, LeaveAs, WorkerAt
  <2>2. worker[w].pc \in {"processing", "hot", "leaving"} /\ UNCHANGED <<workers, pool>>
    BY <1>6 DEF Finish, FinishAs, FallThrough, Leave, LeaveIf, LeaveAs, WorkerAt
  <2>3. OnlyWorker(w) /\ worker'[w] = [worker[w] EXCEPT !.pc = to]
    BY <2>1, PcShape, Zenon DEF WorkerPcs
  <2>4. /\ worker'[w].pc = to /\ worker'[w].queue = worker[w].queue /\ worker'[w].key = worker[w].key
        /\ worker'[w].shut = worker[w].shut /\ worker'[w].active = worker[w].active
    BY <2>3, FieldTypes, Zenon DEF WorkerState
  <2>5. WorkerFits(w)'
    BY <1>2, <2>2, <2>4, ZenonT(30) DEF WorkerFits
  <2>6. \A k \in Keys : workers[k] = w => MappedFits(k, w)'
    BY <1>1, <1>2, <2>2, <2>4 DEF MappedFits
  <2>7. QED
    BY <1>4, <2>2, <2>3, <2>5, <2>6
<1>7. CASE Leave(w) /\ worker[w].queue = <<>>
  <2>1. /\ worker[w].pc = "leaving" /\ UNCHANGED pool
        /\ workers' = [workers EXCEPT ![worker[w].key] = None]
    BY <1>7 DEF Leave, LeaveIf, LeaveAs
  <2>2. OnlyWorker(w) /\ worker'[w] = [worker[w] EXCEPT !.pc = "release", !.active = FALSE]
    BY <1>7, PcActiveShape, Zenon DEF Leave, LeaveIf, LeaveAs, WorkerPcs
  <2>3. worker'[w].pc = "release" /\ worker'[w].queue = <<>> /\ worker'[w].shut = worker[w].shut
    BY <1>7, <2>2, FieldTypes, Zenon DEF WorkerState
  <2>4. worker[w].key \in Keys /\ workers[worker[w].key] = w
    BY <1>2, <2>1, Zenon DEF WorkerFits
  <2>5. \A k \in Keys : workers[k] = w => k = worker[w].key
    BY <1>2, <2>1, Zenon DEF MappedFits
  <2>6. /\ workers \in [Keys -> Workers \cup {None}]
        /\ \A k \in Keys : workers'[k] # w
        /\ \A v \in Workers \ {w} : \A k \in Keys : workers'[k] = v <=> workers[k] = v
    BY <2>1, <2>4, <2>5, Constants, ZenonT(30) DEF TypeOK
  <2>7. WorkerFits(w)'
    BY <1>2, <2>1, <2>3 DEF WorkerFits
  <2>8. PollerFits'
    <3>1. poller.pc = "sendCold" => poller.borrowed # w
      BY <1>3, <2>1
    <3>2. poller.pc = "sendCold" =>
            worker'[poller.borrowed] = worker[poller.borrowed] /\ workers'[keyOf[last]] = poller.borrowed
      BY <1>2, <2>1, <2>2, <2>4, <3>1 DEF PollerFits, OnlyWorker, TypeOK
    <3>3. QED
      BY <1>1, <1>2, <3>2, ZenonT(30) DEF PollerFits
  <2>9. QED
    BY <1>1, <2>1, <2>2, <2>6, <2>7, <2>8, OthersFit
<1>8. CASE ReleaseToken(w) \/ ReturnWorker(w) \/ Exit(w)
  <2>1. worker[w].queue = <<>> /\ \A k \in Keys : workers[k] # w
    <3>1. CASE ReleaseToken(w) \/ ReturnWorker(w)
      BY <3>1, EmptyUnlessMapped, ZenonT(30) DEF ReleaseToken, ReleaseAs, WorkerAt, ReturnWorker
    <3>2. CASE Exit(w)
      BY <3>2, <1>2 DEF Exit, WorkerFits, MappedFits
    <3>3. QED
      BY <1>8, <3>1, <3>2, Zenon
  <2>2. UNCHANGED workers
    BY <1>8 DEF ReleaseToken, ReleaseAs, ReturnWorker, Exit
  <2>3. pool' = pool \/ pool' = pool \cup {w}
    BY <1>8 DEF ReleaseToken, ReleaseAs, ReturnWorker, Exit
  <2>4. OnlyWorker(w) /\ WorkerFits(w)'
    <3>1. CASE ReleaseToken(w)
      <4>1. OnlyWorker(w) /\ worker'[w] = [worker[w] EXCEPT !.pc = "return"]
        BY <3>1, PcShape, Zenon DEF ReleaseToken, ReleaseAs, WorkerAt, WorkerPcs
      <4>2. worker'[w].pc = "return" /\ worker'[w].queue = worker[w].queue /\ worker'[w].shut = worker[w].shut
        BY <4>1, FieldTypes DEF WorkerState
      <4>3. worker[w].pc = "release" /\ pool' = pool
        BY <3>1, Zenon DEF ReleaseToken, ReleaseAs, WorkerAt
      <4>4. QED
        BY <1>2, <2>1, <4>1, <4>2, <4>3 DEF WorkerFits
    <3>2. CASE ReturnWorker(w)
      <4>1. /\ OnlyWorker(w) /\ worker'[w].pc = "cold" /\ worker'[w].queue = worker[w].queue
            /\ worker'[w].shut = (Cardinality(pool) >= PoolSize)
        BY <3>2, ReturnShape
      <4>2. worker'[w].shut => w \notin pool'
        BY <1>2, <3>2, <4>1, ZenonT(30) DEF ReturnWorker, WorkerFits
      <4>3. QED
        BY <2>1, <4>1, <4>2 DEF WorkerFits
    <3>3. CASE Exit(w)
      <4>1. OnlyWorker(w) /\ worker'[w] = Unborn
        BY <3>3, ExitShape, ZenonT(30)
      <4>2. w \notin pool' /\ worker'[w].pc = "unborn" /\ worker'[w].queue = <<>> /\ ~worker'[w].shut
        BY <1>2, <3>3, <4>1 DEF Exit, WorkerFits, Unborn
      <4>3. QED
        BY <4>1, <4>2 DEF WorkerFits
    <3>4. QED
      BY <1>8, <3>1, <3>2, <3>3
  <2>5. PollerFits'
    <3>1. poller.pc = "sendCold" => poller.borrowed # w
      <4>1. poller.pc = "sendCold" /\ poller.borrowed = w => workers[keyOf[last]] = w
        BY <1>2 DEF PollerFits
      <4>2. CASE ReleaseToken(w) \/ ReturnWorker(w)
        BY <4>2, <1>3, Zenon DEF ReleaseToken, ReleaseAs, WorkerAt, ReturnWorker
      <4>3. CASE Exit(w)
        <5>1. poller.pc = "sendCold" => keyOf[last] \in Keys
          BY DispatchedKey, Zenon
        <5>2. QED
          BY <2>1, <4>1, <5>1
      <4>4. QED
        BY <1>8, <4>2, <4>3, ZenonT(30)
    <3>2. poller.pc = "sendCold" => worker'[poller.borrowed] = worker[poller.borrowed]
      BY <1>2, <2>4, <3>1 DEF PollerFits, OnlyWorker
    <3>3. QED
      BY <1>1, <1>2, <2>2, <3>2, Zenon DEF PollerFits
  <2>6. QED
    BY <1>1, <2>1, <2>2, <2>3, <2>4, <2>5, OthersFit, Zenon
<1>9. QED
  BY <1>5, <1>6, <1>7, <1>8, Zenon DEF Work

LEMMA ShardOthers ==
  ASSUME TypeOK, ShardInv, PipelineInv, Prune \/ DetectMainCtxDone \/ DrainWorkers \/ Drain \/ UNCHANGED vars
  PROVE  ShardInv'
<1>1. UNCHANGED <<keyOf, last, poller, workers>>
  BY DEF Prune, PruneTick, PruneTake, ShutDown, PruneMiss, DetectMainCtxDone, DrainWorkers, Drain, DrainWorker,
         DrainReturns, ResumePolling, vars, pollVars, shardVars
<1>2. PollerFits /\ \A k \in Keys : \A w \in Workers : workers[k] = w => MappedFits(k, w)
  BY ShardParts
<1>3. CASE \E w \in Workers : PruneTake(w)
  <2>1. PICK w \in Workers : PruneTake(w)
    BY <1>3
  <2>2. w \in pool /\ pool' = pool \ {w} /\ UNCHANGED <<drain, waitFor>>
    BY <2>1 DEF PruneTake, ShutDown, drainVars
  <2>3. OnlyWorker(w) /\ worker'[w] = [worker[w] EXCEPT !.shut = TRUE]
    BY <2>1, ShutShape, ZenonT(30) DEF PruneTake, ShutDown
  <2>4. worker[w].pc = "cold" /\ worker[w].queue = <<>> /\ \A k \in Keys : workers[k] # w
    BY <1>2, <2>2, ShardParts DEF WorkerFits, MappedFits
  <2>5. worker'[w].pc = "cold" /\ worker'[w].queue = <<>>
    BY <2>3, <2>4, FieldTypes, ZenonT(30) DEF WorkerState
  <2>6. WorkerFits(w)'
    BY <2>2, <2>5 DEF WorkerFits
  <2>7. PollerFits'
    <3>1. poller.pc = "sendCold" => poller.borrowed # w
      BY <1>2, <2>4, DispatchedKey DEF PollerFits
    <3>2. poller.pc = "sendCold" => worker'[poller.borrowed] = worker[poller.borrowed]
      BY <1>2, <2>3, <3>1 DEF PollerFits, OnlyWorker
    <3>3. QED
      BY <1>1, <1>2, <2>2, <3>2, Zenon DEF PollerFits
  <2>8. QED
    BY <1>1, <2>2, <2>3, <2>4, <2>6, <2>7, OthersFit, Zenon
<1>4. CASE ~\E w \in Workers : PruneTake(w)
  <2>1. UNCHANGED <<worker, pool>>
    BY <1>4 DEF Prune, PruneTick, PruneMiss, DetectMainCtxDone, DrainWorkers, Drain, DrainWorker, DrainReturns,
           ResumePolling, vars, shardVars
  <2>2. \A w \in Workers : WorkerFits(w)'
    BY <1>1, <2>1, ShardParts, Zenon DEF WorkerFits
  <2>3. drain' # "idle" => poller.pc \in {"poll", "stopped"}
    BY <1>2, <1>4, ZenonT(30) DEF PollerFits, Prune, PruneTick, PruneMiss, DetectMainCtxDone, DrainWorkers, Drain,
           DrainWorker,
           DrainReturns, ResumePolling, vars, drainVars
  <2>4. PollerFits'
    BY <1>1, <1>2, <2>1, <2>3 DEF PollerFits
  <2>5. ASSUME NEW k \in Keys, NEW w \in Workers, workers[k] = w
        PROVE  (drain' = "waiting" => w \in waitFor') /\ drain' # "returned"
    <3>1. MappedFits(k, w)
      BY <1>2, <2>5
    <3>2. w # None
      BY Constants, Zenon
    <3>3. QED
      BY <1>4, <2>5, <3>1, <3>2 DEF MappedFits, Prune, PruneTick, PruneMiss, DetectMainCtxDone, DrainWorkers, Drain,
             DrainWorker, DrainReturns, ResumePolling, vars, drainVars
  <2>6. \A k \in Keys : \A w \in Workers : workers'[k] = w => MappedFits(k, w)'
    <3> SUFFICES ASSUME NEW k \in Keys, NEW w \in Workers, workers[k] = w PROVE MappedFits(k, w)'
      BY <1>1
    <3>1. MappedFits(k, w)
      BY <1>2
    <3>2. QED
      BY <1>1, <2>1, <2>5, <3>1 DEF MappedFits
  <2>7. QED
    BY <2>2, <2>4, <2>6, ShardPartsPrimed
<1>5. QED
  BY <1>3, <1>4

-----------------------------------------------------------------------------
(* The messages.                                                           *)

InDispatch == poller.pc \in {"acquire", "acquireSlow", "send", "full", "sendCold"}

With(w, m) ==
  \/ \E j \in DOMAIN worker[w].queue : worker[w].queue[j].message = m
  \/ worker[w].pc = "processing" /\ worker[w].message = m

Ordered(w) ==
  /\ worker[w].pc = "processing" =>
       /\ worker[w].message \in 1 .. last
       /\ InDispatch => worker[w].message < last
       /\ keyOf[worker[w].message] = worker[w].key
  /\ \A j \in DOMAIN worker[w].queue :
       /\ worker[w].queue[j].message \in 1 .. last
       /\ InDispatch => worker[w].queue[j].message < last
       /\ keyOf[worker[w].queue[j].message] = worker[w].queue[j].key
       /\ worker[w].pc = "processing" => worker[w].message < worker[w].queue[j].message
       /\ \A i \in 1 .. j - 1 : worker[w].queue[i].message < worker[w].queue[j].message

Located(m) == (InDispatch /\ m = last) \/ \E w \in Workers : With(w, m)

Dropped == \E m \in Messages : settled[m] = "dropped"

LEMMA PipelineIs == \A m : m \in InPipeline <=> Located(m)
  BY DEF InPipeline, AtPoller, InQueue, Processing, Located, InDispatch, With

LEMMA AtPollerIs == (AtPoller # {} <=> InDispatch) /\ (last \in AtPoller <=> InDispatch)
  BY DEF AtPoller, InDispatch

LEMMA PipelineParts ==
  PipelineInv <=> /\ InDispatch => last > 0 /\ keyOf[last] \in Keys
                  /\ \A w \in Workers : Ordered(w)
                  /\ \A m \in 1 .. last : settled[m] = "open" => Located(m)
                  /\ done \/ Dropped => tripped
  BY PipelineIs, AtPollerIs, Zenon DEF PipelineInv, Ordered, Dropped

LEMMA PipelinePartsPrimed ==
  PipelineInv' <=> /\ InDispatch' => last' > 0 /\ keyOf'[last'] \in Keys
                   /\ \A w \in Workers : Ordered(w)'
                   /\ \A m \in 1 .. last' : settled'[m] = "open" => Located(m)'
                   /\ done' \/ Dropped' => tripped'
<1>1. \A m : m \in InPipeline' <=> Located(m)'
  BY DEF InPipeline, AtPoller, InQueue, Processing, Located, InDispatch, With
<1>2. (AtPoller' # {} <=> InDispatch') /\ (last' \in AtPoller' <=> InDispatch')
  BY Zenon DEF AtPoller, InDispatch
<1>3. QED
  BY <1>1, <1>2, ZenonT(30) DEF PipelineInv, Ordered, Dropped

(* The messages with worker v are what they were.                          *)
SameMessages(v) ==
  /\ worker'[v].queue = worker[v].queue
  /\ worker'[v].pc = "processing" <=> worker[v].pc = "processing"
  /\ worker[v].pc = "processing" => worker'[v].message = worker[v].message /\ worker'[v].key = worker[v].key

LEMMA SameWith ==
  ASSUME NEW v \in Workers, SameMessages(v), NEW m
  PROVE  With(v, m)' <=> With(v, m)
  BY ZenonT(30) DEF With, SameMessages

LEMMA SameOrdered ==
  ASSUME NEW v \in Workers, SameMessages(v), UNCHANGED <<keyOf, last>>, InDispatch' => InDispatch, Ordered(v)
  PROVE  Ordered(v)'
  BY DEF Ordered, SameMessages

(* A message is settled, as dropped only when the breaker has tripped.     *)
LEMMA DroppedTrips ==
  ASSUME TypeOK, PipelineInv, tripped => tripped', done' => done,
         \/ settled' = settled
         \/ \E m \in Messages, outcome \in Outcomes : Settle(m, outcome) /\ (outcome = "dropped" => tripped')
  PROVE  done' \/ Dropped' => tripped'
<1>1. done \/ Dropped => tripped
  BY PipelineParts
<1>2. Dropped' => Dropped \/ tripped'
  BY DEF TypeOK, Dropped, Settle
<1>3. QED
  BY <1>1, <1>2

LEMMA PipelinePolling ==
  ASSUME TypeOK, PipelineInv,
         \/ \E k \in Keys : Poll(k)
         \/ PollStops \/ GuardFull \/ ReleaseAfterSend \/ StalledWorkerExit \/ RetrySend \/ AcquireTimeout
         \/ \E g \in Guards : Acquire(g)
         \/ \E w \in Workers : WorkerFull(w)
  PROVE  PipelineInv'
<1>1. UNCHANGED <<worker, done>>
  BY Zenon DEF Poll, PollStops, GuardFull, ReleaseAfterSend, ReleaseAfterSendOf, StalledWorkerExit, RetrySend,
         AcquireTimeout, Acquire, WorkerFull, PollerStep, shardVars, breakerVars
<1>2. /\ \A v \in Workers : SameMessages(v)
      /\ \A v \in Workers : \A m : With(v, m)' <=> With(v, m)
  <2>1. \A v \in Workers : SameMessages(v)
    BY <1>1 DEF SameMessages
  <2>2. QED
    BY <2>1, SameWith
<1>3. /\ InDispatch => last > 0 /\ keyOf[last] \in Keys
      /\ \A w \in Workers : Ordered(w)
      /\ \A m \in 1 .. last : settled[m] = "open" => Located(m)
      /\ done \/ Dropped => tripped
  BY PipelineParts
<1>4. CASE \E k \in Keys : Poll(k)
  <2>1. PICK k \in Keys : Poll(k)
    BY <1>4
  <2>2. /\ last \in Nat /\ last' = last + 1 /\ last' \in Messages
        /\ keyOf'[last'] = k /\ \A m \in 1 .. last : keyOf'[m] = keyOf[m]
        /\ ~InDispatch /\ InDispatch' /\ UNCHANGED <<settled, tripped>>
    BY <2>1, Constants DEF TypeOK, Poll, PollerAt, InDispatch, Messages, breakerVars
  <2>3. ASSUME NEW w \in Workers PROVE Ordered(w)'
    <3>1. Ordered(w)
      BY <1>3
    <3>2. QED
      BY <1>1, <2>2, <3>1 DEF Ordered
  <2>4. ASSUME NEW m \in 1 .. last', settled'[m] = "open" PROVE Located(m)'
    <3>1. CASE m = last'
      BY <2>2, <3>1, ZenonT(30) DEF Located
    <3>2. CASE m # last'
      <4>1. m \in 1 .. last
        BY <2>2, <3>2
      <4>2. Located(m)
        BY <1>3, <2>2, <2>4, <4>1, ZenonT(30)
      <4>3. QED
        BY <1>2, <2>2, <4>2 DEF Located
    <3>3. QED
      BY <3>1, <3>2, Zenon
  <2>5. done' \/ Dropped' => tripped'
    BY <1>1, <1>3, <2>2, ZenonT(30) DEF Dropped
  <2>6. last' > 0 /\ keyOf'[last'] \in Keys
    BY <2>2
  <2>7. QED
    BY <2>3, <2>4, <2>5, <2>6, PipelinePartsPrimed
(* No other step polls; one that ends the dispatch settles the message.    *)
<1>5. CASE ~\E k \in Keys : Poll(k)
  <2>1. UNCHANGED <<keyOf, last>> /\ (tripped => tripped')
    <3>1. UNCHANGED <<keyOf, last>>
      BY <1>5, ZenonT(30) DEF PollStops, GuardFull, ReleaseAfterSend, ReleaseAfterSendOf, StalledWorkerExit, RetrySend,
             AcquireTimeout, Acquire, WorkerFull, PollerStep
    <3>2. tripped' \in {tripped, TRUE}
      BY <1>5, Zenon DEF PollStops, GuardFull, ReleaseAfterSend, ReleaseAfterSendOf, StalledWorkerExit, RetrySend,
             AcquireTimeout, Acquire, WorkerFull, PollerStep, breakerVars
    <3>3. tripped => tripped'
      BY <3>2, Zenon
    <3>4. QED
      BY <3>1, <3>3
  <2>2. /\ InDispatch' => InDispatch
        /\ \/ UNCHANGED settled /\ (InDispatch => InDispatch')
           \/ InDispatch /\ Settle(last, "dropped") /\ tripped'
    <3>1. poller \in PollerState /\ (done => tripped)
      BY <1>3, TypeParts
    <3>2. CASE PollStops \/ GuardFull \/ \E w \in Workers : WorkerFull(w)
      BY <3>1, <3>2 DEF PollStops, GuardFull, WorkerFull, PollerStep, PollerAt, PollerState, InDispatch
    <3>3. CASE ReleaseAfterSend \/ RetrySend
      BY <3>1, <3>3, Zenon DEF ReleaseAfterSend, ReleaseAfterSendOf, RetrySend, PollerAt, PollerState, InDispatch
    <3>4. CASE StalledWorkerExit \/ AcquireTimeout
      BY <3>1, <3>4 DEF StalledWorkerExit, AcquireTimeout, PollerAt, PollerState, InDispatch, breakerVars
    <3>5. CASE \E g \in Guards : Acquire(g)
      BY <3>1, <3>5, Zenon DEF Acquire, PollerState, InDispatch
    <3>6. QED
      BY <1>5, <3>2, <3>3, <3>4, <3>5
  <2>3. \A w \in Workers : Ordered(w)'
    BY <1>2, <1>3, <2>1, <2>2, SameOrdered, ZenonT(30)
  <2>4. InDispatch => last \in Messages
    BY <1>3 DEF TypeOK, Messages
  <2>5. ASSUME NEW m \in 1 .. last', settled'[m] = "open" PROVE Located(m)'
    <3>1. m \in Messages /\ m \in 1 .. last
      BY <2>1, Constants DEF TypeOK, Messages
    <3>2. CASE UNCHANGED settled /\ (InDispatch => InDispatch')
      BY <1>2, <1>3, <2>1, <2>5, <3>1, <3>2, Zenon DEF Located
    <3>3. CASE Settle(last, "dropped") /\ InDispatch
      <4>1. m # last /\ settled[m] = "open"
        BY <2>4, <2>5, <3>1, <3>3, ZenonT(30) DEF Settle, TypeOK
      <4>2. QED
        BY <1>2, <1>3, <2>1, <3>1, <4>1, Zenon DEF Located
    <3>4. QED
      BY <2>2, <3>2, <3>3, ZenonT(30)
  <2>6. done' \/ Dropped' => tripped'
    BY <1>1, <2>1, <2>2, <2>4, DroppedTrips, Zenon DEF Outcomes
  <2>7. InDispatch' => last' > 0 /\ keyOf'[last'] \in Keys
    BY <1>3, <2>1, <2>2, Zenon
  <2>8. QED
    BY <2>3, <2>5, <2>6, <2>7, PipelinePartsPrimed
<1>6. QED
  BY <1>4, <1>5

(* A message goes into the channel of a worker, behind all others.         *)
LEMMA PipelineSend ==
  ASSUME TypeOK, PipelineInv, NEW w \in Workers, worker' = SendTo(w), poller.pc \in {"send", "sendCold"},
         poller'.pc \in {"release", "poll"},
         UNCHANGED <<keyOf, last, settled, tripped, done>>
  PROVE  PipelineInv'
<1>1. /\ Item \in WorkItem /\ OnlyWorker(w)
      /\ worker'[w] = [worker[w] EXCEPT !.queue = Append(worker[w].queue, Item)]
  BY SendShape
<1>2. /\ worker'[w].pc = worker[w].pc /\ worker'[w].message = worker[w].message /\ worker'[w].key = worker[w].key
      /\ worker'[w].queue = Append(worker[w].queue, Item)
  BY <1>1, FieldTypes, Zenon DEF WorkerState
<1> DEFINE q == worker[w].queue
           n == Len(worker[w].queue)
<1>3. /\ n \in Nat /\ DOMAIN q = 1 .. n /\ DOMAIN worker'[w].queue = 1 .. n + 1
      /\ worker'[w].queue[n + 1] = Item
      /\ \A j \in 1 .. n : worker'[w].queue[j] = q[j]
  BY <1>1, <1>2, FieldTypes
<1>4. Item.message = last /\ Item.key = keyOf[last]
  BY DEF Item
<1>5. /\ last > 0 /\ InDispatch /\ ~InDispatch'
      /\ \A v \in Workers : Ordered(v)
      /\ \A m \in 1 .. last : settled[m] = "open" => Located(m)
      /\ done \/ Dropped => tripped
  BY PipelineParts DEF InDispatch
<1> HIDE DEF q, n
<1>6. Ordered(w)'
  <2>1. Ordered(w)
    BY <1>5
  <2>2. last \in Nat
    BY DEF TypeOK
  <2>3. ASSUME worker[w].pc = "processing"
        PROVE  worker[w].message \in 1 .. last /\ worker[w].message < last /\ keyOf[worker[w].message] = worker[w].key
    BY <1>5, <2>1, <2>3, ZenonT(30) DEF Ordered
  <2>4. ASSUME NEW j \in 1 .. n
        PROVE  /\ q[j].message \in 1 .. last /\ q[j].message < last
               /\ keyOf[q[j].message] = q[j].key
               /\ worker[w].pc = "processing" => worker[w].message < q[j].message
               /\ \A i \in 1 .. j - 1 : q[i].message < q[j].message
    BY <1>3, <1>5, <2>1, ZenonT(30) DEF Ordered, q
  <2>5. ASSUME NEW j \in DOMAIN worker'[w].queue
        PROVE  /\ worker'[w].queue[j].message \in 1 .. last
               /\ keyOf[worker'[w].queue[j].message] = worker'[w].queue[j].key
               /\ worker[w].pc = "processing" => worker[w].message < worker'[w].queue[j].message
               /\ \A i \in 1 .. j - 1 : worker'[w].queue[i].message < worker'[w].queue[j].message
    <3>1. CASE j = n + 1
      <4>1. worker'[w].queue[j] = Item /\ j - 1 = n
        BY <1>3, <3>1
      <4>2. worker'[w].queue[j].message = last /\ worker'[w].queue[j].key = keyOf[last]
        BY <1>4, <4>1, Zenon
      <4>3. last \in 1 .. last
        BY <1>5, <2>2
      <4>4. ASSUME NEW i \in 1 .. j - 1 PROVE worker'[w].queue[i].message < last
        <5>1. i \in 1 .. n
          BY <4>1
        <5>2. QED
          BY <1>3, <2>4, <5>1, Zenon
      <4>5. QED
        BY <2>3, <4>2, <4>3, <4>4, Zenon
    <3>2. CASE j \in 1 .. n
      BY <1>3, <2>4, <3>2
    <3>3. j = n + 1 \/ j \in 1 .. n
      BY <1>3
    <3>4. QED
      BY <3>1, <3>2, <3>3, Zenon
  <2>6. QED
    BY <1>2, <1>5, <2>3, <2>5, ZenonT(30) DEF Ordered
<1>7. \A v \in Workers \ {w} : SameMessages(v)
  BY <1>1, Zenon DEF OnlyWorker, SameMessages
<1>8. \A v \in Workers : Ordered(v)'
  BY <1>5, <1>6, <1>7, SameOrdered, Zenon
<1>9. ASSUME NEW m, Located(m) PROVE Located(m)'
  <2>1. CASE m = last
    <3>1. n + 1 \in DOMAIN worker'[w].queue /\ worker'[w].queue[n + 1].message = m
      BY <1>3, <1>4, <2>1
    <3>2. With(w, m)'
      BY <3>1 DEF With
    <3>3. QED
      BY <3>2, Zenon DEF Located
  <2>2. CASE m # last
    <3>1. PICK v \in Workers : With(v, m)
      BY <1>9, <2>2, Zenon DEF Located
    <3>2. CASE v = w
      <4>1. With(w, m)'
        BY <1>2, <1>3, <3>1, <3>2 DEF With, q
      <4>2. QED
        BY <4>1, ZenonT(30) DEF Located
    <3>3. CASE v # w
      BY <1>7, <3>1, <3>3, SameWith, Zenon DEF Located
    <3>4. QED
      BY <3>2, <3>3, Zenon
  <2>3. QED
    BY <2>1, <2>2, Zenon
<1>10. done' \/ Dropped' => tripped'
  BY DroppedTrips, Zenon
<1>11. QED
  BY <1>5, <1>8, <1>9, <1>10, PipelinePartsPrimed, ZenonT(30)

(* The steps that move no message but may settle one.                      *)
LEMMA PipelineStill ==
  ASSUME TypeOK, PipelineInv, UNCHANGED <<keyOf, last, settled, tripped, done>>,
         InDispatch' <=> InDispatch, \A v \in Workers : SameMessages(v)
  PROVE  PipelineInv'
<1>1. /\ InDispatch => last > 0 /\ keyOf[last] \in Keys
      /\ \A w \in Workers : Ordered(w)
      /\ \A m \in 1 .. last : settled[m] = "open" => Located(m)
  BY PipelineParts
<1>2. \A w \in Workers : Ordered(w)'
  BY <1>1, SameOrdered, Zenon
<1>3. \A m : Located(m)' <=> Located(m)
  BY SameWith, Zenon DEF Located
<1>4. done' \/ Dropped' => tripped'
  BY DroppedTrips
<1>5. QED
  BY <1>1, <1>2, <1>3, <1>4, PipelinePartsPrimed, Zenon

LEMMA BorrowKeeps ==
  ASSUME TypeOK, ShardInv, NEW w \in Workers, BorrowWorker(w)
  PROVE  (\A v \in Workers : SameMessages(v)) /\ (InDispatch' <=> InDispatch)
<1>1. OnlyWorker(w) /\ worker'[w] = [worker[w] EXCEPT !.pc = "cold", !.active = TRUE]
  BY PcActiveShape, Zenon DEF BorrowWorker, Borrow, WorkerPcs
<1>2. worker[w].pc \in {"cold", "unborn"}
  BY ShardParts DEF BorrowWorker, Borrow, WorkerFits
<1>3. worker'[w].pc = "cold" /\ worker'[w].queue = worker[w].queue
  BY <1>1, FieldTypes DEF WorkerState
<1>4. \A v \in Workers : SameMessages(v)
  BY <1>1, <1>2, <1>3, Zenon DEF OnlyWorker, SameMessages
<1>5. QED
  BY <1>4, TypeParts, Zenon DEF BorrowWorker, Borrow, InDispatch, PollerState

LEMMA PipelineSending ==
  ASSUME TypeOK, ShardInv, PipelineInv, SendCold \/ \E w \in Workers : SendToExisting(w) \/ BorrowWorker(w)
  PROVE  PipelineInv'
<1>1. UNCHANGED <<keyOf, last, settled, tripped, done>>
  BY Zenon DEF SendCold, SendToExisting, BorrowWorker, Borrow, breakerVars
<1>2. poller \in PollerState
  BY TypeParts
<1>3. CASE SendCold
  <2>1. poller.borrowed \in Workers /\ poller.pc = "sendCold" /\ poller'.pc = "poll"
    BY <1>2, <1>3, ShardParts, Zenon DEF PollerFits, SendCold, PollerState
  <2>2. QED
    BY <1>1, <1>3, <2>1, PipelineSend, Zenon DEF SendCold
<1>4. CASE \E w \in Workers : SendToExisting(w)
  BY <1>1, <1>2, <1>4, PipelineSend, Zenon DEF SendToExisting, PollerAt, PollerState
<1>5. CASE \E w \in Workers : BorrowWorker(w)
  BY <1>1, <1>5, BorrowKeeps, PipelineStill, ZenonT(30)
<1>6. QED
  BY <1>3, <1>4, <1>5, Zenon

(* A worker takes the first message of its channel.                        *)
LEMMA PipelineReceive ==
  ASSUME TypeOK, ShardInv, PipelineInv, NEW w \in Workers, Receive(w)
  PROVE  PipelineInv'
<1>1. /\ worker[w].queue # <<>> /\ worker[w].pc \in {"cold", "hot"}
      /\ UNCHANGED <<keyOf, last, poller, tripped, done>>
  BY Zenon DEF Receive, pollVars, breakerVars
<1> DEFINE q == worker[w].queue
           n == Len(worker[w].queue)
           first == Head(worker[w].queue).message
<1>2. PICK to \in {"hot", "processing"} :
        /\ Take(w, to)
        /\ to = "hot" => done /\ Settle(first, "dropped")
        /\ to = "processing" => UNCHANGED settled
  BY Zenon DEF Receive
<1>3. /\ Head(q) \in WorkItem
      /\ OnlyWorker(w)
      /\ worker'[w].pc = to
      /\ worker'[w].queue = Tail(q)
      /\ worker'[w].message = first
      /\ worker'[w].key = IF worker[w].pc = "cold" THEN Head(q).key ELSE worker[w].key
  BY <1>1, <1>2, TakeShape, ZenonT(30) DEF WorkerPcs
<1>4. /\ n \in Nat /\ n > 0 /\ DOMAIN q = 1 .. n /\ Head(q) = q[1]
      /\ DOMAIN worker'[w].queue = 1 .. n - 1
      /\ \A j \in 1 .. n - 1 : worker'[w].queue[j] = q[j + 1]
  BY <1>1, <1>3, FieldTypes
<1>5. /\ InDispatch => last > 0 /\ keyOf[last] \in Keys
      /\ \A v \in Workers : Ordered(v)
      /\ \A m \in 1 .. last : settled[m] = "open" => Located(m)
      /\ done \/ Dropped => tripped
      /\ InDispatch' <=> InDispatch
  BY <1>1, PipelineParts, Zenon DEF InDispatch
<1>6. first = q[1].message /\ q[1].key = worker'[w].key
  <2>1. 1 \in DOMAIN worker[w].queue /\ q[1].key \in Keys
    BY <1>4, QueuedItems
  <2>2. workers[q[1].key] = w
    BY <2>1, ShardParts, Zenon DEF WorkerFits
  <2>3. worker[w].pc # "cold" => worker[w].key = q[1].key
    BY <2>1, <2>2, ShardParts, ZenonT(30) DEF MappedFits
  <2>4. QED
    BY <1>3, <1>4, <2>3, ZenonT(30)
<1>7. ASSUME NEW j \in 1 .. n
      PROVE  /\ q[j].message \in 1 .. last
             /\ InDispatch => q[j].message < last
             /\ keyOf[q[j].message] = q[j].key
             /\ \A i \in 1 .. j - 1 : q[i].message < q[j].message
  BY <1>4, <1>5 DEF Ordered
<1> HIDE DEF q, n, first
<1>8. Ordered(w)'
  <2>1. /\ first \in 1 .. last
        /\ InDispatch => first < last
        /\ keyOf[first] = worker'[w].key
    BY <1>4, <1>6, <1>7
  <2>2. ASSUME NEW j \in 1 .. n - 1
        PROVE  /\ worker'[w].queue[j].message \in 1 .. last
               /\ InDispatch => worker'[w].queue[j].message < last
               /\ keyOf[worker'[w].queue[j].message] = worker'[w].queue[j].key
               /\ first < worker'[w].queue[j].message
               /\ \A i \in 1 .. j - 1 : worker'[w].queue[i].message < worker'[w].queue[j].message
    <3>1. j + 1 \in 1 .. n /\ 1 \in 1 .. (j + 1) - 1 /\ \A i \in 1 .. j - 1 : i + 1 \in 1 .. (j + 1) - 1 /\ i \in 1 .. n - 1
      BY <1>4
    <3>2. QED
      BY <1>4, <1>6, <1>7, <3>1, ZenonT(30)
  <2>3. QED
    BY <1>1, <1>3, <1>4, <1>5, <2>1, <2>2, ZenonT(30) DEF Ordered
<1>9. \A v \in Workers \ {w} : SameMessages(v)
  BY <1>3 DEF OnlyWorker, SameMessages
<1>10. \A v \in Workers : Ordered(v)'
  BY <1>1, <1>5, <1>8, <1>9, SameOrdered
<1>11. first \in Messages
  BY <1>3 DEF first, q, WorkItem
<1>12. ASSUME NEW m \in 1 .. last, settled'[m] = "open" PROVE Located(m)'
  <2>1. settled[m] = "open" /\ (m = first => to = "processing")
    <3>1. m \in Messages /\ settled \in [Messages -> {"open"} \cup Outcomes]
      BY Constants DEF TypeOK, Messages
    <3>2. CASE to = "hot"
      BY <1>2, <1>11, <1>12, <3>1, <3>2, ZenonT(30) DEF Settle
    <3>3. CASE to = "processing"
      BY <1>2, <1>12, <3>3, ZenonT(30)
    <3>4. QED
      BY <3>2, <3>3, ZenonT(30)
  <2>2. Located(m)
    BY <1>5, <2>1, Zenon
  <2>3. CASE InDispatch /\ m = last
    BY <1>1, <1>5, <2>3, Zenon DEF Located
  <2>4. CASE \E v \in Workers : With(v, m)
    <3>1. PICK v \in Workers : With(v, m)
      BY <2>4, Zenon
    <3>2. CASE v # w
      BY <1>9, <3>1, <3>2, SameWith, Zenon DEF Located
    <3>3. CASE v = w
      <4>1. PICK j \in 1 .. n : q[j].message = m
        BY <1>1, <1>4, <3>1, <3>3, Zenon DEF With, q
      <4>2. CASE j = 1
        <5>1. worker'[w].pc = "processing" /\ worker'[w].message = m
          BY <1>3, <1>6, <2>1, <4>1, <4>2, ZenonT(30)
        <5>2. QED
          BY <5>1, Zenon DEF With, Located
      <4>3. CASE j # 1
        <5>1. j - 1 \in 1 .. n - 1 /\ q[(j - 1) + 1] = q[j]
          BY <1>4, <4>1, <4>3
        <5>2. j - 1 \in DOMAIN worker'[w].queue /\ worker'[w].queue[j - 1].message = m
          BY <1>4, <4>1, <5>1, Zenon
        <5>3. QED
          BY <5>2, ZenonT(30) DEF With, Located
      <4>4. QED
        BY <4>2, <4>3, Zenon
    <3>4. QED
      BY <3>2, <3>3, Zenon
  <2>5. QED
    BY <2>2, <2>3, <2>4, ZenonT(30) DEF Located
<1>13. done' \/ Dropped' => tripped'
  BY <1>1, <1>2, <1>5, <1>11, DroppedTrips, ZenonT(30) DEF Outcomes
<1>14. QED
  BY <1>1, <1>5, <1>10, <1>12, <1>13, PipelinePartsPrimed, ZenonT(30)

LEMMA PipelineFinish ==
  ASSUME TypeOK, PipelineInv, NEW w \in Workers, NEW outcome \in Outcomes, Finish(w, outcome)
  PROVE  PipelineInv'
<1>1. /\ worker[w].pc = "processing" /\ worker' = [worker EXCEPT ![w].pc = "hot"]
      /\ Settle(worker[w].message, outcome)
      /\ UNCHANGED <<keyOf, last, poller, done>>
  BY DEF Finish, FinishAs, WorkerAt, pollVars
<1>2. (tripped => tripped') /\ (outcome = "dropped" => tripped')
  BY Zenon DEF Finish, FinishAs
<1>3. OnlyWorker(w) /\ worker'[w] = [worker[w] EXCEPT !.pc = "hot"]
  BY <1>1, PcShape, Zenon DEF WorkerPcs
<1>4. worker'[w].pc = "hot" /\ worker'[w].queue = worker[w].queue
  BY <1>3, FieldTypes DEF WorkerState
<1>5. /\ InDispatch => last > 0 /\ keyOf[last] \in Keys
      /\ \A v \in Workers : Ordered(v)
      /\ \A m \in 1 .. last : settled[m] = "open" => Located(m)
      /\ InDispatch' <=> InDispatch
  BY <1>1, PipelineParts, ZenonT(30) DEF InDispatch
<1>6. worker[w].message \in 1 .. last /\ worker[w].message \in Messages
  <2>1. worker[w].message \in 1 .. last
    BY <1>1, <1>5, ZenonT(30) DEF Ordered
  <2>2. QED
    BY <2>1, Constants DEF TypeOK, Messages
<1>7. Ordered(w)'
  <2>1. Ordered(w)
    BY <1>5
  <2>2. QED
    BY <1>1, <1>4, <1>5, <2>1 DEF Ordered
<1>8. \A v \in Workers \ {w} : SameMessages(v)
  BY <1>3 DEF OnlyWorker, SameMessages
<1>9. \A v \in Workers : Ordered(v)'
  BY <1>1, <1>5, <1>7, <1>8, SameOrdered, ZenonT(30)
<1>10. ASSUME NEW m \in 1 .. last, settled'[m] = "open" PROVE Located(m)'
  <2>1. m # worker[w].message /\ settled[m] = "open"
    <3>1. m \in Messages
      BY Constants DEF TypeOK, Messages
    <3>2. QED
      BY <1>1, <1>6, <1>10, <3>1, ZenonT(30) DEF Settle, TypeOK, Outcomes
  <2>2. Located(m)
    BY <1>5, <2>1
  <2>3. \A v \in Workers : With(v, m) => With(v, m)'
    <3>1. With(w, m) => With(w, m)'
      BY <1>4, <2>1 DEF With
    <3>2. QED
      BY <1>8, <3>1, SameWith, ZenonT(30)
  <2>4. QED
    BY <1>1, <1>5, <2>2, <2>3, ZenonT(30) DEF Located
<1>11. done' \/ Dropped' => tripped'
  BY <1>1, <1>2, <1>6, DroppedTrips, ZenonT(30)
<1>12. QED
  BY <1>1, <1>5, <1>9, <1>10, <1>11, PipelinePartsPrimed, ZenonT(30)

(* The steps of a worker that neither takes nor finishes a message.        *)
LEMMA QuietWork ==
  ASSUME TypeOK, ShardInv, NEW w \in Workers,
         FallThrough(w) \/ Leave(w) \/ ReleaseToken(w) \/ ReturnWorker(w) \/ Exit(w)
  PROVE  /\ UNCHANGED <<keyOf, last, poller, settled, tripped, done, drain>>
         /\ \A v \in Workers : SameMessages(v)
<1>1. UNCHANGED <<keyOf, last, poller, settled, tripped, done, drain>>
  BY DEF FallThrough, Leave, LeaveIf, LeaveAs, ReleaseToken, ReleaseAs, ReturnWorker, Exit, pollVars,
         breakerVars, drainVars
<1>2. worker[w].pc # "processing"
  BY Zenon DEF FallThrough, Leave, LeaveIf, LeaveAs, ReleaseToken, ReleaseAs, ReturnWorker, Exit, WorkerAt
<1>3. OnlyWorker(w) /\ worker'[w].pc # "processing" /\ worker'[w].queue = worker[w].queue
  <2>1. CASE FallThrough(w) \/ ReleaseToken(w) \/ (Leave(w) /\ worker[w].queue # <<>>)
    <3>1. PICK to \in {"hot", "leaving", "return"} : worker' = [worker EXCEPT ![w].pc = to]
      BY <2>1 DEF FallThrough, ReleaseToken, ReleaseAs, WorkerAt, Leave, LeaveIf, LeaveAs
    <3>2. OnlyWorker(w) /\ worker'[w] = [worker[w] EXCEPT !.pc = to]
      BY <3>1, PcShape, Zenon DEF WorkerPcs
    <3>3. QED
      BY <3>2, FieldTypes, Zenon DEF WorkerState
  <2>2. CASE Leave(w) /\ worker[w].queue = <<>>
    <3>1. OnlyWorker(w) /\ worker'[w] = [worker[w] EXCEPT !.pc = "release", !.active = FALSE]
      BY <2>2, PcActiveShape, Zenon DEF Leave, LeaveIf, LeaveAs, WorkerPcs
    <3>2. QED
      BY <3>1, FieldTypes, ZenonT(30) DEF WorkerState
  <2>3. CASE ReturnWorker(w)
    BY <2>3, ReturnShape, ZenonT(30)
  <2>4. CASE Exit(w)
    <3>1. worker[w].queue = <<>>
      BY <2>4, ShardParts, ZenonT(30) DEF Exit, WorkerFits
    <3>2. QED
      BY <2>4, <3>1, ExitShape DEF Unborn
  <2>5. QED
    BY <2>1, <2>2, <2>3, <2>4, Zenon
<1>4. \A v \in Workers : SameMessages(v)
  BY <1>2, <1>3 DEF OnlyWorker, SameMessages
<1>5. QED
  BY <1>1, <1>4, Zenon

LEMMA PipelineWorking ==
  ASSUME TypeOK, ShardInv, PipelineInv, NEW w \in Workers, Work(w)
  PROVE  PipelineInv'
<1>1. CASE Receive(w) \/ \E outcome \in Outcomes : Finish(w, outcome)
  BY <1>1, PipelineReceive, PipelineFinish
<1>2. CASE FallThrough(w) \/ Leave(w) \/ ReleaseToken(w) \/ ReturnWorker(w) \/ Exit(w)
  <2>1. InDispatch' <=> InDispatch
    BY <1>2, QuietWork, Zenon DEF InDispatch
  <2>2. QED
    BY <1>2, <2>1, QuietWork, PipelineStill, ZenonT(30)
<1>3. QED
  BY <1>1, <1>2 DEF Work

(* Pruner, watcher of the breaker and drain leave the messages alone.      *)
LEMMA QuietOthers ==
  ASSUME TypeOK, Prune \/ DetectMainCtxDone \/ DrainWorkers \/ Drain \/ UNCHANGED vars
  PROVE  /\ UNCHANGED <<keyOf, last, poller, settled, tripped>>
         /\ \A v \in Workers : SameMessages(v)
<1>1. UNCHANGED <<keyOf, last, poller, settled, tripped>>
  BY DEF Prune, PruneTick, PruneTake, ShutDown, PruneMiss, DetectMainCtxDone, DrainWorkers, Drain, DrainWorker,
         DrainReturns, ResumePolling, vars, pollVars, shardVars, breakerVars
<1>2. \A v \in Workers : SameMessages(v)
  <2>1. CASE \E w \in Workers : PruneTake(w)
    <3>1. PICK w \in Workers : PruneTake(w)
      BY <2>1
    <3>2. OnlyWorker(w) /\ worker'[w] = [worker[w] EXCEPT !.shut = TRUE]
      BY <3>1, ShutShape, Zenon DEF PruneTake, ShutDown
    <3>3. SameMessages(w)
      BY <3>2, FieldTypes DEF WorkerState, SameMessages
    <3>4. QED
      BY <3>2, <3>3, Zenon DEF OnlyWorker, SameMessages
  <2>2. CASE ~\E w \in Workers : PruneTake(w)
    <3>1. UNCHANGED worker
      BY <2>2 DEF Prune, PruneTick, PruneMiss, DetectMainCtxDone, DrainWorkers, Drain, DrainWorker,
             DrainReturns, ResumePolling, vars, shardVars
    <3>2. QED
      BY <3>1 DEF SameMessages
  <2>3. QED
    BY <2>1, <2>2
<1>3. QED
  BY <1>1, <1>2, Zenon

LEMMA PipelineOthers ==
  ASSUME TypeOK, PipelineInv, Prune \/ DetectMainCtxDone \/ DrainWorkers \/ Drain \/ UNCHANGED vars
  PROVE  PipelineInv'
<1>1. UNCHANGED <<keyOf, last, poller, settled, tripped>> /\ \A v \in Workers : SameMessages(v)
  BY QuietOthers, Zenon
<1>3. InDispatch' <=> InDispatch
  BY <1>1, Zenon DEF InDispatch
<1>4. CASE DetectMainCtxDone
  <2>1. /\ InDispatch => last > 0 /\ keyOf[last] \in Keys
        /\ \A w \in Workers : Ordered(w)
        /\ \A m \in 1 .. last : settled[m] = "open" => Located(m)
    BY PipelineParts, Zenon
  <2>2. \A w \in Workers : Ordered(w)'
    BY <1>1, <1>3, <2>1, SameOrdered
  <2>3. \A m : Located(m)' <=> Located(m)
    BY <1>1, <1>3, SameWith DEF Located
  <2>4. tripped'
    BY <1>4 DEF DetectMainCtxDone
  <2>5. QED
    BY <1>1, <1>3, <2>1, <2>2, <2>3, <2>4, PipelinePartsPrimed
<1>5. CASE ~DetectMainCtxDone
  <2>1. UNCHANGED done
    BY <1>5 DEF Prune, PruneTick, PruneTake, ShutDown, PruneMiss, DrainWorkers, Drain, DrainWorker,
           DrainReturns, ResumePolling, vars, breakerVars
  <2>2. QED
    BY <1>1, <1>3, <2>1, PipelineStill
<1>6. QED
  BY <1>4, <1>5

-----------------------------------------------------------------------------
(* Each message is in one place and settled once.                          *)

LEMMA WithFacts ==
  ASSUME TypeOK, ShardInv, PipelineInv, NEW w \in Workers, NEW m, With(w, m)
  PROVE  m \in 1 .. last /\ (InDispatch => m < last) /\ workers[keyOf[m]] = w
<1>1. Ordered(w) /\ WorkerFits(w)
  BY PipelineParts, ShardParts, Zenon
<1>2. QED
  BY <1>1, Zenon DEF With, Ordered, WorkerFits

(* The messages in the pipeline, and what has become of all.               *)
OpenIs ==
  /\ \A m : Located(m) => settled[m] = "open"
  /\ \A m \in Messages : m > last => settled[m] = "open"

LEMMA OpenParts == OpenInv <=> OpenIs
  BY PipelineIs, Zenon DEF OpenInv, OpenIs

LEMMA OpenPartsPrimed == OpenInv' <=> OpenIs'
<1>1. \A m : m \in InPipeline' <=> Located(m)'
  BY DEF InPipeline, AtPoller, InQueue, Processing, Located, InDispatch, With
<1>2. QED
  BY <1>1, Zenon DEF OpenInv, OpenIs

(* No message came in and none was settled.                                *)
LEMMA OpenStill ==
  ASSUME OpenInv, UNCHANGED <<last, settled>>, \A m : Located(m)' => Located(m)
  PROVE  OpenInv'
  BY OpenParts, OpenPartsPrimed, Zenon DEF OpenIs

(* Message x was settled and has left.                                     *)
LEMMA OpenSettles ==
  ASSUME TypeOK, OpenInv, UNCHANGED last, NEW x \in 1 .. last, NEW outcome, Settle(x, outcome),
         \A m : Located(m)' => Located(m) /\ m # x /\ m \in 1 .. last
  PROVE  OpenInv'
<1>1. settled \in [Messages -> {"open"} \cup Outcomes] /\ last \in Nat /\ 1 .. last \subseteq Messages
  BY Constants DEF TypeOK, Messages
<1>2. \A m \in Messages : m # x => settled'[m] = settled[m]
  BY <1>1 DEF Settle
<1>3. \A m \in Messages : m > last => m # x
  BY <1>1
<1>4. QED
  BY <1>1, <1>2, <1>3, OpenParts, OpenPartsPrimed, Zenon DEF OpenIs

LEMMA LocatedSame ==
  ASSUME UNCHANGED last, \A v \in Workers : SameMessages(v), InDispatch' => InDispatch
  PROVE  \A m : Located(m)' => Located(m)
  BY SameWith, Zenon DEF Located

LEMMA OpenPolling ==
  ASSUME TypeOK, ShardInv, PipelineInv, OpenInv,
         \/ \E k \in Keys : Poll(k)
         \/ PollStops \/ GuardFull \/ ReleaseAfterSend \/ StalledWorkerExit \/ RetrySend \/ AcquireTimeout
         \/ \E g \in Guards : Acquire(g)
         \/ \E w \in Workers : WorkerFull(w)
  PROVE  OpenInv'
<1>1. UNCHANGED worker
  BY Zenon DEF Poll, PollStops, GuardFull, ReleaseAfterSend, ReleaseAfterSendOf, StalledWorkerExit, RetrySend,
         AcquireTimeout, Acquire, WorkerFull, PollerStep, shardVars
<1>2. \A v \in Workers : SameMessages(v) /\ \A m : With(v, m)' <=> With(v, m)
  BY <1>1, SameWith DEF SameMessages
<1>3. poller \in PollerState
  BY TypeParts
<1>4. CASE \E k \in Keys : Poll(k)
  <2>1. last' = last + 1 /\ last + 1 \in Messages /\ UNCHANGED settled
    BY <1>4, Constants DEF Poll, Messages, TypeOK
  <2>2. \A m : Located(m)' => Located(m) \/ m = last + 1
    BY <1>2, <2>1, Zenon DEF Located
  <2>3. \A m \in Messages : m > last' => m > last
    BY <2>1 DEF TypeOK, Messages
  <2>4. last + 1 > last
    BY DEF TypeOK
  <2>5. QED
    BY <2>1, <2>2, <2>3, <2>4, OpenParts, OpenPartsPrimed, Zenon DEF OpenIs
<1>5. CASE \/ PollStops \/ GuardFull \/ ReleaseAfterSend \/ RetrySend
           \/ \E g \in Guards : Acquire(g)
           \/ \E w \in Workers : WorkerFull(w)
  <2>1. UNCHANGED <<last, settled>>
    BY <1>5, Zenon DEF PollStops, GuardFull, ReleaseAfterSend, ReleaseAfterSendOf, RetrySend, Acquire, WorkerFull, PollerStep
  <2>2. InDispatch' => InDispatch
    BY <1>3, <1>5, Zenon
       DEF PollStops, GuardFull, ReleaseAfterSend, ReleaseAfterSendOf, RetrySend, Acquire, WorkerFull,
           PollerStep, PollerAt, InDispatch, PollerState
  <2>3. QED
    BY <1>2, <2>1, <2>2, LocatedSame, OpenStill, Zenon
<1>6. CASE StalledWorkerExit \/ AcquireTimeout
  <2>1. UNCHANGED last /\ Settle(last, "dropped") /\ InDispatch /\ ~InDispatch'
    BY <1>3, <1>6 DEF StalledWorkerExit, AcquireTimeout, PollerAt, InDispatch, PollerState
  <2>2. last \in 1 .. last
    BY <2>1, PipelineParts DEF TypeOK
  <2>3. ASSUME NEW m, Located(m)' PROVE Located(m) /\ m # last /\ m \in 1 .. last
    <3>1. PICK v \in Workers : With(v, m)
      BY <1>2, <2>1, <2>3, Zenon DEF Located
    <3>2. m \in 1 .. last /\ m < last
      BY <2>1, <3>1, WithFacts, Zenon
    <3>3. QED
      BY <3>1, <3>2 DEF Located, TypeOK
  <2>4. QED
    BY <2>1, <2>2, <2>3, OpenSettles, Zenon
<1>7. QED
  BY <1>4, <1>5, <1>6, Zenon

LEMMA SendLocates ==
  ASSUME TypeOK, PipelineInv, NEW w \in Workers, worker' = SendTo(w), poller.pc \in {"send", "sendCold"},
         poller'.pc \in {"release", "poll"}, UNCHANGED last
  PROVE  /\ \A m : Located(m)' => Located(m)
         /\ \A v \in Workers : worker'[v].pc = worker[v].pc /\ worker'[v].message = worker[v].message
<1>1. /\ Item \in WorkItem /\ OnlyWorker(w)
      /\ worker'[w] = [worker[w] EXCEPT !.queue = Append(worker[w].queue, Item)]
  BY SendShape
<1>2. /\ worker'[w].pc = worker[w].pc /\ worker'[w].message = worker[w].message
      /\ worker'[w].queue = Append(worker[w].queue, Item)
  BY <1>1, FieldTypes, Zenon DEF WorkerState
<1>3. \A j \in DOMAIN worker'[w].queue :
        worker'[w].queue[j] = Item \/ (j \in DOMAIN worker[w].queue /\ worker'[w].queue[j] = worker[w].queue[j])
  BY <1>1, <1>2, FieldTypes
<1>4. Item.message = last /\ InDispatch /\ ~InDispatch'
  BY DEF Item, InDispatch
<1>5. \A v \in Workers \ {w} : worker'[v] = worker[v]
  BY <1>1 DEF OnlyWorker
<1>6. \A m : With(w, m)' => With(w, m) \/ m = last
  BY <1>2, <1>3, <1>4, Zenon DEF With
<1>7. \A v \in Workers : \A m : With(v, m)' => With(v, m) \/ m = last
  <2>1. \A v \in Workers \ {w} : \A m : With(v, m)' => With(v, m)
    BY <1>5, Zenon DEF With
  <2>2. QED
    BY <1>6, <2>1, Zenon
<1>8. QED
  BY <1>2, <1>4, <1>5, <1>7, Zenon DEF Located

LEMMA OpenSending ==
  ASSUME TypeOK, ShardInv, PipelineInv, OpenInv,
         SendCold \/ \E w \in Workers : SendToExisting(w) \/ BorrowWorker(w)
  PROVE  OpenInv'
<1>1. UNCHANGED <<last, settled>>
  BY Zenon DEF SendCold, SendToExisting, BorrowWorker, Borrow
<1>2. poller \in PollerState
  BY TypeParts
<1>3. CASE SendCold
  <2>1. poller.borrowed \in Workers /\ poller.pc = "sendCold" /\ poller'.pc = "poll"
    BY <1>2, <1>3, ShardParts, Zenon DEF PollerFits, SendCold, PollerState
  <2>2. QED
    BY <1>1, <1>3, <2>1, SendLocates, OpenStill, Zenon DEF SendCold
<1>4. CASE \E w \in Workers : SendToExisting(w)
  BY <1>1, <1>2, <1>4, SendLocates, OpenStill, Zenon DEF SendToExisting, PollerAt, PollerState
<1>5. CASE \E w \in Workers : BorrowWorker(w)
  BY <1>1, <1>5, BorrowKeeps, LocatedSame, OpenStill, Zenon
<1>6. QED
  BY <1>3, <1>4, <1>5, Zenon

(* A worker takes the first message of its channel: the others are later.  *)
LEMMA ReceiveFacts ==
  ASSUME TypeOK, ShardInv, PipelineInv, NEW w \in Workers, Receive(w)
  PROVE  LET first == Head(worker[w].queue).message
         IN  /\ worker[w].pc \in {"cold", "hot"} /\ worker[w].queue # <<>>
             /\ UNCHANGED <<keyOf, last, poller, tripped, done, drain>>
             /\ OnlyWorker(w) /\ With(w, first) /\ worker'[w].message = first
             /\ IF done THEN worker'[w].pc = "hot" /\ Settle(first, "dropped")
                        ELSE worker'[w].pc = "processing" /\ UNCHANGED settled
             /\ \A m : With(w, m) => m >= first
             /\ \A m : With(w, m)' => With(w, m) /\ (m # first \/ worker'[w].pc = "processing")
<1> DEFINE q == worker[w].queue
           first == Head(q).message
<1>1. /\ q # <<>> /\ worker[w].pc \in {"cold", "hot"}
      /\ UNCHANGED <<keyOf, last, poller, tripped, done, drain>>
  BY Zenon DEF Receive, pollVars, breakerVars, drainVars
<1>2. PICK to \in {"hot", "processing"} :
        /\ Take(w, to)
        /\ IF done THEN to = "hot" /\ Settle(first, "dropped") ELSE to = "processing" /\ UNCHANGED settled
  BY Zenon DEF Receive
<1>3. /\ OnlyWorker(w) /\ worker'[w].pc = to /\ worker'[w].queue = Tail(q) /\ worker'[w].message = first
  BY <1>1, <1>2, TakeShape, ZenonT(30) DEF WorkerPcs
<1>4. /\ 1 \in DOMAIN q /\ Head(q) = q[1] /\ DOMAIN q \subseteq Nat \ {0}
      /\ \A j \in DOMAIN worker'[w].queue :
           j + 1 \in DOMAIN q /\ worker'[w].queue[j] = q[j + 1] /\ 1 \in 1 .. (j + 1) - 1
  BY <1>1, <1>3, FieldTypes
<1>5. Ordered(w)
  BY PipelineParts, Zenon
<1>6. \A j \in DOMAIN q : j # 1 => q[1].message < q[j].message
  BY <1>4, <1>5 DEF Ordered
<1>7. \A j \in DOMAIN q : q[j].message \in 1 .. last
  BY <1>5, Zenon DEF Ordered
<1>8. With(w, first)
  BY <1>4, Zenon DEF With
<1>9. \A m : With(w, m) => \E j \in DOMAIN q : m = q[j].message
  BY <1>1, Zenon DEF With
<1>10. \A m : With(w, m) => m >= first
  <2>1. \A j \in DOMAIN q : q[j].message >= q[1].message
    BY <1>4, <1>6, <1>7
  <2>2. first = q[1].message
    BY <1>4, Zenon
  <2> HIDE DEF q, first
  <2>3. QED
    BY <1>9, <2>1, <2>2, Zenon
<1>11. ASSUME NEW m, With(w, m)' PROVE With(w, m) /\ (m # first \/ worker'[w].pc = "processing")
  <2>1. CASE worker'[w].pc = "processing" /\ worker'[w].message = m
    BY <1>3, <1>8, <2>1, Zenon
  <2>2. CASE \E j \in DOMAIN worker'[w].queue : worker'[w].queue[j].message = m
    <3>1. PICK j \in DOMAIN q : q[j].message = m /\ j # 1
      BY <1>4, <2>2
    <3>2. m # first
      BY <1>4, <1>6, <1>7, <3>1
    <3>3. QED
      BY <3>1, <3>2, Zenon DEF With
  <2>3. QED
    BY <1>11, <2>1, <2>2, Zenon DEF With
<1>12. QED
  BY <1>1, <1>2, <1>3, <1>8, <1>10, <1>11, Zenon

LEMMA FinishFacts ==
  ASSUME TypeOK, ShardInv, PipelineInv, NEW w \in Workers, NEW outcome \in Outcomes, Finish(w, outcome)
  PROVE  LET x == worker[w].message
         IN  /\ worker[w].pc = "processing" /\ worker'[w].pc = "hot" /\ With(w, x)
             /\ OnlyWorker(w) /\ Settle(x, outcome)
             /\ UNCHANGED <<keyOf, last, poller, drain>> /\ tripped' = (tripped \/ outcome = "dropped")
             /\ \A m : With(w, m)' => With(w, m) /\ m # x
<1>1. /\ worker[w].pc = "processing" /\ worker' = [worker EXCEPT ![w].pc = "hot"]
      /\ Settle(worker[w].message, outcome)
      /\ UNCHANGED <<keyOf, last, poller, drain>> /\ tripped' = (tripped \/ outcome = "dropped")
  BY Zenon DEF Finish, FinishAs, WorkerAt, pollVars, drainVars
<1>2. OnlyWorker(w) /\ worker'[w] = [worker[w] EXCEPT !.pc = "hot"]
  BY <1>1, PcShape, Zenon DEF WorkerPcs
<1>3. worker'[w].pc = "hot" /\ worker'[w].queue = worker[w].queue
  BY <1>2, FieldTypes DEF WorkerState
<1>4. Ordered(w)
  BY PipelineParts, Zenon
<1>5. \A j \in DOMAIN worker[w].queue :
        /\ worker[w].queue[j].message \in 1 .. last /\ worker[w].message \in 1 .. last
        /\ worker[w].message < worker[w].queue[j].message
  BY <1>1, <1>4, Zenon DEF Ordered
<1>6. \A j \in DOMAIN worker[w].queue : worker[w].queue[j].message # worker[w].message
  BY <1>5
<1>7. QED
  BY <1>1, <1>2, <1>3, <1>6, Zenon DEF With

LEMMA OpenWorking ==
  ASSUME TypeOK, ShardInv, PipelineInv, OpenInv, NEW w \in Workers, Work(w)
  PROVE  OpenInv'
<1>1. CASE FallThrough(w) \/ Leave(w) \/ ReleaseToken(w) \/ ReturnWorker(w) \/ Exit(w)
  BY <1>1, QuietWork, LocatedSame, OpenStill, Zenon DEF InDispatch
<1>2. ASSUME UNCHANGED <<last, poller>>, OnlyWorker(w), \A m : With(w, m)' => With(w, m)
      PROVE  \A m : /\ Located(m)' => Located(m)
                    /\ \A x : With(w, x) /\ Located(m)' /\ (With(w, m)' => m # x) => m # x /\ m \in 1 .. last
  <2>1. InDispatch' <=> InDispatch
    BY <1>2, Zenon DEF InDispatch
  <2>2. \A v \in Workers \ {w} : \A m : With(v, m)' <=> With(v, m)
    BY <1>2, Zenon DEF OnlyWorker, With
  <2>3. \A m : Located(m)' => Located(m)
    BY <1>2, <2>1, <2>2, Zenon DEF Located
  <2>4. ASSUME NEW m, NEW x, With(w, x), Located(m)', With(w, m)' => m # x PROVE m # x /\ m \in 1 .. last
    <3>1. x \in 1 .. last /\ (InDispatch => x < last) /\ workers[keyOf[x]] = w
      BY <2>4, WithFacts, Zenon
    <3>2. CASE InDispatch /\ m = last
      BY <3>1, <3>2, PipelineParts DEF TypeOK
    <3>3. CASE \E v \in Workers : With(v, m)'
      <4>1. PICK v \in Workers : With(v, m)'
        BY <3>3, Zenon
      <4>2. With(v, m)
        BY <1>2, <2>2, <4>1, Zenon
      <4>3. m \in 1 .. last /\ workers[keyOf[m]] = v
        BY <4>2, WithFacts, Zenon
      <4>4. QED
        BY <2>4, <3>1, <4>1, <4>3, Zenon
    <3>4. QED
      BY <1>2, <2>1, <2>4, <3>2, <3>3, Zenon DEF Located
  <2>5. QED
    BY <2>3, <2>4, Zenon
<1>3. CASE Receive(w)
  <2>1. PICK first : /\ With(w, first) /\ OnlyWorker(w) /\ UNCHANGED <<last, poller>>
                     /\ UNCHANGED settled \/ (worker'[w].pc = "hot" /\ Settle(first, "dropped"))
                     /\ \A m : With(w, m)' => With(w, m) /\ (m # first \/ worker'[w].pc = "processing")
    BY <1>3, ReceiveFacts, Zenon
  <2>2. first \in 1 .. last
    BY <2>1, WithFacts, Zenon
  <2>3. \A m : Located(m)' => Located(m)
    BY <1>2, <2>1, Zenon
  <2>4. CASE UNCHANGED settled
    BY <2>1, <2>3, <2>4, OpenStill, Zenon
  <2>5. CASE worker'[w].pc = "hot" /\ Settle(first, "dropped")
    <3>1. \A m : With(w, m)' => m # first
      BY <2>1, <2>5
    <3>2. \A m : Located(m)' => Located(m) /\ m # first /\ m \in 1 .. last
      BY <1>2, <2>1, <3>1, Zenon
    <3>3. QED
      BY <2>1, <2>2, <2>5, <3>2, OpenSettles, Zenon
  <2>6. QED
    BY <2>1, <2>4, <2>5, Zenon
<1>4. ASSUME NEW outcome \in Outcomes, Finish(w, outcome) PROVE OpenInv'
  <2>1. PICK x : /\ With(w, x) /\ OnlyWorker(w) /\ UNCHANGED <<last, poller>> /\ Settle(x, outcome)
                 /\ \A m : With(w, m)' => With(w, m) /\ m # x
    BY <1>4, FinishFacts, Zenon
  <2>2. x \in 1 .. last
    BY <2>1, WithFacts, Zenon
  <2>3. \A m : Located(m)' => Located(m) /\ m # x /\ m \in 1 .. last
    BY <1>2, <2>1, Zenon
  <2>4. QED
    BY <2>1, <2>2, <2>3, OpenSettles, Zenon
<1>5. QED
  BY <1>1, <1>3, <1>4, Zenon DEF Work

LEMMA OpenOthers ==
  ASSUME TypeOK, OpenInv, Prune \/ DetectMainCtxDone \/ DrainWorkers \/ Drain \/ UNCHANGED vars
  PROVE  OpenInv'
  BY QuietOthers, LocatedSame, OpenStill, Zenon DEF InDispatch

LEMMA OpenInitial == Init /\ TypeOK => OpenInv
<1> SUFFICES ASSUME Init, TypeOK PROVE OpenInv
  OBVIOUS
<1>1. settled = [m \in Messages |-> "open"] /\ ~InDispatch /\ \A w \in Workers : \A m : ~With(w, m)
  BY DEF Init, Unborn, InDispatch, With
<1>2. QED
  BY <1>1, OpenParts, Zenon DEF OpenIs, Located

-----------------------------------------------------------------------------
(* Init.                                                                   *)

LEMMA InitInvariant == Init => FanOutInv
<1> SUFFICES ASSUME Init PROVE FanOutInv
  OBVIOUS
<1>1. Unborn \in WorkerState /\ [Unborn EXCEPT !.pc = "cold"] \in WorkerState
  <2>1. <<>> \in Seq(WorkItem) /\ 0 \in 0 .. MaxMessages /\ FALSE \in BOOLEAN
    BY Constants
  <2>2. Unborn \in WorkerState
    BY <2>1 DEF Unborn, WorkerState, Guards
  <2>3. QED
    BY <2>2 DEF WorkerState
<1>2. pool \subseteq Workers /\ Cardinality(pool) = MinIdle
  BY DEF Init
<1>3. /\ worker \in [Workers -> WorkerState]
      /\ \A w \in Workers : /\ worker[w].pc = IF w \in pool THEN "cold" ELSE "unborn"
                            /\ worker[w].queue = <<>> /\ ~worker[w].shut
  BY <1>1 DEF Init, Unborn
<1>4. ShardType
  BY <1>2, <1>3, Constants DEF Init, ShardType, PoolSize
<1>5. GuardsType
  BY CapacityType DEF Init, GuardsType, Guards
<1>6. /\ keyOf \in [Messages -> Keys \cup {None}] /\ last \in 0 .. MaxMessages
      /\ poller \in PollerState
      /\ SettledType
      /\ drain \in {"idle", "waiting", "returned"} /\ waitFor \subseteq Workers
  BY Constants DEF Init, PollerState, SettledType, Guards
<1>7. tripped \in BOOLEAN /\ done \in BOOLEAN
  BY Zenon DEF Init
<1>8. pruner \in [prevLen : Nat, take : BOOLEAN]
  BY Constants DEF Init, PoolSize
<1>9. TypeOK
  BY <1>4, <1>5, <1>6, <1>7, <1>8, TypeParts, ZenonT(30)
<1>10. ShardInv
  <2>1. \A w \in Workers : WorkerFits(w)
    BY <1>3 DEF WorkerFits
  <2>2. \A k \in Keys : \A w \in Workers : workers[k] # w
    BY Constants DEF Init
  <2>3. PollerFits
    BY DEF Init, PollerFits
  <2>4. QED
    BY <2>1, <2>2, <2>3, ShardParts, ZenonT(30)
<1>11. PipelineInv
  <2>1. last = 0 /\ ~InDispatch
    BY ZenonT(30) DEF Init, InDispatch
  <2>2. \A w \in Workers : Ordered(w)
    BY <1>3 DEF Ordered
  <2>3. ~done /\ ~Dropped
    BY DEF Init, Dropped
  <2>4. QED
    BY <2>1, <2>2, <2>3, PipelineParts
<1>12. TokensBalance
  <2> SUFFICES ASSUME NEW g \in Guards PROVE used[g] = Cardinality(Holding(g)) + Polling(g)
    BY Balance, ZenonT(30)
  <2>1. Holding(g) = {}
    BY <1>3, HoldingFinite DEF Holds
  <2>2. Polling(g) = 0 /\ used[g] = 0
    BY DEF Init, Polling
  <2>3. QED
    BY <2>1, <2>2, FS_EmptySet
<1>13. QED
  BY <1>9, <1>10, <1>11, <1>12, OpenInitial, Zenon DEF FanOutInv

-----------------------------------------------------------------------------
(* The inductive invariant of the fan-out, for any keys, workers, messages *)
(* and capacities: the workers map, pool and workers agree, messages are   *)
(* where they belong, and tokens balance.  (WorkerShard.mu, Demux, Worker) *)
THEOREM FanOutInvariant == Spec => []FanOutInv
<1>1. FanOutInv /\ [Next]_vars => FanOutInv'
  <2> SUFFICES ASSUME TypeOK, ShardInv, PipelineInv, TokensBalance, OpenInv, [Next]_vars
               PROVE  TypeOK' /\ ShardInv' /\ PipelineInv' /\ TokensBalance' /\ OpenInv'
    BY Zenon DEF FanOutInv
  <2>1. CASE \/ \E k \in Keys : Poll(k)
             \/ PollStops \/ GuardFull \/ ReleaseAfterSend \/ StalledWorkerExit \/ RetrySend \/ AcquireTimeout
             \/ \E g \in Guards : Acquire(g)
             \/ \E w \in Workers : WorkerFull(w)
    BY <2>1, TypePolling, ShardPolling, PipelinePolling, TokensPolling, OpenPolling, Zenon
  <2>2. CASE SendCold \/ \E w \in Workers : SendToExisting(w) \/ BorrowWorker(w)
    BY <2>2, TypeSending, ShardSending, PipelineSending, TokensSending, OpenSending, Zenon
  <2>3. CASE \E w \in Workers : Work(w)
    BY <2>3, TypeWorking, ShardWorking, PipelineWorking, TokensWorking, OpenWorking, Zenon
  <2>4. CASE Prune \/ DetectMainCtxDone \/ DrainWorkers \/ Drain \/ UNCHANGED vars
    BY <2>4, TypeOthers, ShardOthers, PipelineOthers, TokensOthers, OpenOthers, ZenonT(30)
  <2>5. QED
    BY <2>1, <2>2, <2>3, <2>4, Zenon DEF Next, Dispatch
<1>2. QED
  BY <1>1, InitInvariant, PTL DEF Spec

(* Messages of one key are processed one at a time and in the order they   *)
(* were polled, in general.                                                *)
THEOREM KeyOrderHolds == Spec => []KeyOrder
<1>1. TypeOK /\ ShardInv /\ PipelineInv => KeyOrder
  <2> SUFFICES ASSUME TypeOK, ShardInv, PipelineInv, NEW w \in Workers, worker[w].pc = "processing",
                      NEW m, m = worker[w].message
               PROVE  /\ \A n \in InPipeline : keyOf[n] = keyOf[m] => n >= m
                      /\ \A v \in Workers \ {w} : m \notin Processing(v)
    BY Zenon DEF KeyOrder, Processing
  <2>1. /\ m \in 1 .. last /\ (InDispatch => m < last) /\ keyOf[m] = worker[w].key /\ Ordered(w)
    BY PipelineParts, Zenon DEF Ordered
  <2>2. worker[w].key \in Keys /\ workers[worker[w].key] = w
    BY ShardParts, Zenon DEF WorkerFits
  (* Whoever has a message of this key is w.                               *)
  <2>3. ASSUME NEW v \in Workers, NEW n, With(v, n), keyOf[n] = keyOf[m] PROVE v = w
    <3>1. Ordered(v) /\ WorkerFits(v)
      BY PipelineParts, ShardParts, Zenon
    <3>2. workers[keyOf[n]] = v
      BY <2>3, <3>1, Zenon DEF With, Ordered, WorkerFits
    <3>3. QED
      BY <2>1, <2>2, <2>3, <3>2, Zenon
  <2>4. ASSUME NEW n \in InPipeline, keyOf[n] = keyOf[m] PROVE n >= m
    <3>1. Located(n) /\ last \in Nat
      BY PipelineIs DEF TypeOK
    <3>2. CASE InDispatch /\ n = last
      BY <2>1, <3>1, <3>2
    <3>3. CASE With(w, n)
      BY <2>1, <3>1, <3>3 DEF With, Ordered
    <3>4. QED
      BY <2>3, <2>4, <3>1, <3>2, <3>3, ZenonT(30) DEF Located
  <2>5. ASSUME NEW v \in Workers, v # w PROVE m \notin Processing(v)
    BY <2>3, <2>5 DEF With, Processing
  <2>6. QED
    BY <2>4, <2>5, Zenon
<1>2. QED
  BY <1>1, FanOutInvariant, PTL DEF FanOutInv

(* Tokens are neither lost nor made up, in general.  (the two guards)      *)
THEOREM TokensBalanceHolds == Spec => []TokensBalance
  BY FanOutInvariant, PTL DEF FanOutInv

(* No message vanishes without a trip, in general.                         *)
THEOREM NoSilentLossHolds == Spec => []NoSilentLoss
<1>1. TypeOK /\ PipelineInv => NoSilentLoss
  <2> SUFFICES ASSUME TypeOK, PipelineInv, NEW m \in 1 .. last
               PROVE  m \in InPipeline \/ settled[m] = "collected" \/ tripped
    BY ZenonT(30) DEF NoSilentLoss
  <2>1. m \in Messages
    BY Constants DEF TypeOK, Messages
  <2>2. settled[m] \in {"open", "collected", "dropped"}
    BY <2>1 DEF TypeOK, Outcomes
  <2>3. QED
    BY <2>1, <2>2, PipelineParts, PipelineIs, ZenonT(30) DEF Dropped
<1>2. QED
  BY <1>1, FanOutInvariant, PTL DEF FanOutInv

(* The polling loop never sends to a worker that is going away.            *)
(* (BorrowWorker, returnWorker, pruneIdleWorkers)                          *)
THEOREM ReachableAliveHolds == Spec => []ReachableAlive
<1>1. TypeOK /\ ShardInv /\ PipelineInv => ReachableAlive
  <2> SUFFICES ASSUME TypeOK, ShardInv, PipelineInv,
                      NEW w \in ({workers[k] : k \in Keys} \cup {poller.borrowed}) \ {None}
               PROVE  worker[w].pc \in {"cold", "hot", "processing", "leaving"} /\ w \notin pool /\ ~worker[w].shut
    BY Zenon DEF ReachableAlive
  <2>1. \E k \in Keys : workers[k] = w
    BY ShardParts, DispatchedKey, Zenon DEF PollerFits
  <2>2. w \in Workers
    BY <2>1, ZenonT(30) DEF TypeOK
  <2>3. QED
    BY <2>1, <2>2, ShardParts, Zenon DEF MappedFits
<1>2. QED
  BY <1>1, FanOutInvariant, PTL DEF FanOutInv

(* A drain of the workers returns only when every message polled has been  *)
(* settled, in general.  (DrainWorkers, IsActive)                          *)
THEOREM DrainedWorkersAreDoneHolds == Spec => []DrainedWorkersAreDone
<1>1. TypeOK /\ ShardInv /\ PipelineInv => DrainedWorkersAreDone
  <2> SUFFICES ASSUME TypeOK, ShardInv, PipelineInv, drain = "returned",
                      NEW m \in 1 .. last, settled[m] = "open"
               PROVE  FALSE
    BY Zenon DEF DrainedWorkersAreDone
  <2>1. Located(m) /\ ~InDispatch
    BY PipelineParts, ShardParts, Zenon DEF PollerFits, InDispatch
  <2>2. PICK w \in Workers : With(w, m)
    BY <2>1, ZenonT(30) DEF Located
  <2>3. PICK k \in Keys : workers[k] = w
    BY <2>2, QueuedItems, ShardParts DEF With, WorkerFits
  <2>4. QED
    BY <2>3, ShardParts DEF MappedFits
<1>2. QED
  BY <1>1, FanOutInvariant, PTL DEF FanOutInv

-----------------------------------------------------------------------------
(* The messages being processed.                                           *)

InProcess == UNION {Processing(w) : w \in Workers}

Runs(r, m) == r.pc = "processing" /\ r.message = m

LEMMA InProcessIs ==
  /\ \A m : m \in InProcess <=> \E w \in Workers : Runs(worker[w], m)
  /\ \A m : m \in InProcess' <=> \E w \in Workers : Runs(worker'[w], m)
  BY DEF InProcess, Processing, Runs

LEMMA InProcessSame ==
  ASSUME \A v \in Workers : /\ worker'[v].pc = "processing" <=> worker[v].pc = "processing"
                            /\ worker[v].pc = "processing" => worker'[v].message = worker[v].message
  PROVE  InProcess' = InProcess
<1>1. \A v \in Workers : \A m : Runs(worker'[v], m) <=> Runs(worker[v], m)
  BY Zenon DEF Runs
<1>2. \A m : m \in InProcess' <=> m \in InProcess
  BY <1>1, InProcessIs, Zenon
<1>3. QED
  BY <1>2, Zenon

(* A worker with something to take holds a token, and so does every one    *)
(* that processes a message: there is room for one more.  (the two guards) *)
LEMMA RoomForOne ==
  ASSUME TypeOK, TokensBalance, NEW w \in Workers, worker[w].pc \in {"cold", "hot"}, worker[w].queue # <<>>
  PROVE  Cardinality(InProcess) < PoolSize
<1> DEFINE busy == {v \in Workers : worker[v].pc = "processing"}
<1>1. IsFiniteSet(busy) /\ w \notin busy
  BY Constants, FS_Subset
<1>2. Cardinality(InProcess) <= Cardinality(busy) /\ IsFiniteSet(InProcess)
  <2> DEFINE f == [v \in busy |-> worker[v].message]
  <2>1. f \in Surjection(busy, InProcess)
    BY InProcessIs DEF Surjection, Runs
  <2>2. QED
    BY <1>1, <2>1, FS_Surjection, Zenon
<1>3. busy \cup {w} \subseteq Holding("guard") \cup Holding("overflow")
  <2>1. \A v \in Workers : worker[v].kind \in Guards
    BY FieldTypes DEF WorkerState
  <2>2. Head(worker[w].queue).kind \in Guards
    <3>1. 1 \in DOMAIN worker[w].queue /\ Head(worker[w].queue) = worker[w].queue[1]
      BY FieldTypes
    <3>2. QED
      BY <3>1, QueuedItems DEF WorkItem
  <2>3. QED
    BY <2>1, <2>2 DEF Holding, Guards
<1>4. /\ IsFiniteSet(Holding("guard")) /\ Cardinality(Holding("guard")) \in Nat
      /\ IsFiniteSet(Holding("overflow")) /\ Cardinality(Holding("overflow")) \in Nat
  BY HoldingFinite DEF Guards
<1>5. /\ IsFiniteSet(Holding("guard") \cup Holding("overflow"))
      /\ Cardinality(Holding("guard") \cup Holding("overflow")) <= Cardinality(Holding("guard")) + Cardinality(Holding("overflow"))
  <2>1. IsFiniteSet(Holding("guard") \cap Holding("overflow"))
    BY <1>4, FS_Subset
  <2>2. Cardinality(Holding("guard") \cap Holding("overflow")) \in Nat
    BY <2>1, FS_CardinalityType
  <2>3. /\ IsFiniteSet(Holding("guard") \cup Holding("overflow"))
        /\ Cardinality(Holding("guard") \cup Holding("overflow")) =
             Cardinality(Holding("guard")) + Cardinality(Holding("overflow"))
               - Cardinality(Holding("guard") \cap Holding("overflow"))
    BY <1>4, FS_Union, Zenon
  <2>4. QED
    BY <1>4, <2>2, <2>3
<1>6. Cardinality(busy \cup {w}) = Cardinality(busy) + 1 /\ Cardinality(busy) \in Nat /\ Cardinality(InProcess) \in Nat
  BY <1>1, <1>2, FS_AddElement, FS_CardinalityType, Zenon
<1>7. Cardinality(busy \cup {w}) <= Cardinality(Holding("guard") \cup Holding("overflow"))
      /\ Cardinality(Holding("guard") \cup Holding("overflow")) \in Nat
  BY <1>3, <1>5, FS_Subset, FS_CardinalityType
<1>8. Cardinality(Holding("guard")) <= GuardLen /\ Cardinality(Holding("overflow")) <= OverflowLen
  <2>1. \A g \in Guards : used[g] \in Nat /\ used[g] <= Capacity[g]
    BY DEF TypeOK
  <2>2. \A g \in Guards : Cardinality(Holding(g)) <= used[g]
    BY <1>4, <2>1, Balance DEF Polling, Guards
  <2>3. QED
    BY <1>4, <2>1, <2>2, Constants DEF Guards, Capacity
<1>9. QED
  BY <1>2, <1>4, <1>5, <1>6, <1>7, <1>8, Constants DEF PoolSize

-----------------------------------------------------------------------------
(* The fan-out implements KeyedProcessing, step by step.                   *)

LEMMA LocatedIsOpen ==
  ASSUME FanOutInv, NEW m, Located(m)
  PROVE  m \in Promise!Open /\ m \in Messages
<1>1. settled[m] = "open"
  BY OpenParts, Zenon DEF FanOutInv, OpenIs
<1>2. m \in 1 .. last
  <2>1. CASE InDispatch /\ m = last
    BY <2>1, PipelineParts DEF FanOutInv, TypeOK
  <2>2. CASE \E w \in Workers : With(w, m)
    BY <2>2, WithFacts, Zenon DEF FanOutInv
  <2>3. QED
    BY <2>1, <2>2, Zenon DEF Located
<1>3. m \in Messages
  BY <1>2, Constants DEF FanOutInv, TypeOK, Messages
<1>4. QED
  BY <1>1, <1>2, <1>3 DEF Promise!Open

(* Nothing the promise speaks of changes, but perhaps the breaker trips.   *)
LEMMA TripOrStutter ==
  ASSUME UNCHANGED <<keyOf, last, settled>>, InProcess' = InProcess, tripped' = tripped \/ tripped' = TRUE,
         drain' = "returned" <=> drain = "returned"
  PROVE  Promise!Next \/ UNCHANGED Promise!vars
<1>1. (drain' = "returned") = (drain = "returned")
  OBVIOUS
<1>2. CASE tripped' = tripped
  BY <1>1, <1>2, Zenon DEF InProcess, Promise!vars
<1>3. CASE tripped' = TRUE
  BY <1>1, <1>3, Zenon DEF InProcess, Promise!Next, Promise!Trip
<1>4. QED
  BY <1>2, <1>3, Zenon

(* Dispatch drops the message it holds.                                    *)
LEMMA DispatchDrops ==
  ASSUME FanOutInv, StalledWorkerExit \/ AcquireTimeout
  PROVE  Promise!Next
<1>1. /\ UNCHANGED <<keyOf, last, worker, drain>> /\ Settle(last, "dropped") /\ InDispatch
  BY Zenon DEF StalledWorkerExit, AcquireTimeout, PollerAt, InDispatch, shardVars, drainVars
<1>2. tripped' = TRUE
  <2>1. done => tripped
    BY PipelineParts, Zenon DEF FanOutInv
  <2>2. tripped \in BOOLEAN
    BY Zenon DEF FanOutInv, TypeOK
  <2>3. QED
    BY <2>1, <2>2, Zenon DEF StalledWorkerExit, AcquireTimeout, breakerVars
<1>3. last \in Promise!Open /\ last \in Messages
  BY <1>1, LocatedIsOpen, Zenon DEF Located
<1>4. InProcess' = InProcess \ {last}
  <2>1. InProcess' = InProcess
    BY <1>1, InProcessSame, Zenon
  <2>2. last \notin InProcess
    <3>1. ASSUME last \in InProcess PROVE FALSE
      <4>1. PICK w \in Workers : With(w, last)
        BY <3>1, InProcessIs, Zenon DEF With, Runs
      <4>2. last < last
        BY <1>1, <4>1, WithFacts, Zenon DEF FanOutInv
      <4>3. QED
        BY <4>2 DEF FanOutInv, TypeOK
    <3>2. QED
      BY <3>1
  <2>3. QED
    BY <2>1, <2>2
<1>5. Promise!Drop(last)
  BY <1>1, <1>2, <1>3, <1>4, Zenon DEF Promise!Drop, InProcess, Settle
<1>6. QED
  BY <1>3, <1>5, Zenon DEF Promise!Next

(* A message is with one worker.                                           *)
LEMMA OneWorker ==
  ASSUME FanOutInv, NEW v \in Workers, NEW w \in Workers, NEW m, NEW n, With(v, m), With(w, n), keyOf[m] = keyOf[n]
  PROVE  v = w
<1>1. TypeOK /\ ShardInv /\ PipelineInv
  BY Zenon DEF FanOutInv
<1>2. workers[keyOf[m]] = v
  BY <1>1, WithFacts
<1>3. workers[keyOf[n]] = w
  BY <1>1, WithFacts
<1>4. QED
  BY <1>2, <1>3

LEMMA ReceivePromised ==
  ASSUME FanOutInv, NEW w \in Workers, Receive(w)
  PROVE  Promise!Next
<1>1. PICK first :
        /\ first = Head(worker[w].queue).message
        /\ worker[w].pc \in {"cold", "hot"} /\ worker[w].queue # <<>>
        /\ UNCHANGED <<keyOf, last, tripped, drain>>
        /\ OnlyWorker(w) /\ With(w, first) /\ worker'[w].message = first
        /\ IF done THEN worker'[w].pc = "hot" /\ Settle(first, "dropped")
                   ELSE worker'[w].pc = "processing" /\ UNCHANGED settled
        /\ \A m : With(w, m) => m >= first
  BY ReceiveFacts, Zenon DEF FanOutInv
<1>2. first \in Promise!Open /\ first \in Messages
  BY <1>1, LocatedIsOpen, Zenon DEF Located
<1>3. worker[w].pc # "processing"
  BY <1>1
<1>4. first \notin InProcess
  <2>1. ASSUME NEW v \in Workers, worker[v].pc = "processing", worker[v].message = first PROVE FALSE
    <3>1. v = w
      BY <1>1, <2>1, OneWorker, Zenon DEF With
    <3>2. QED
      BY <1>3, <2>1, <3>1
  <2>2. QED
    BY <2>1, InProcessIs, Zenon DEF Runs
<1>5. \A v \in Workers \ {w} : worker'[v] = worker[v]
  BY <1>1, Zenon DEF OnlyWorker
<1>6. CASE done
  <2>1. worker'[w].pc # "processing"
    BY <1>1, <1>6
  <2>2. InProcess' = InProcess
    BY <1>3, <1>5, <2>1, InProcessSame, Zenon
  <2>3. InProcess' = InProcess \ {first}
    BY <1>4, <2>2
  <2>4. tripped' = TRUE
    <3>1. done => tripped
      BY PipelineParts, Zenon DEF FanOutInv
    <3>2. tripped \in BOOLEAN
      BY Zenon DEF FanOutInv, TypeOK
    <3>3. QED
      BY <1>1, <1>6, <3>1, <3>2, Zenon
  <2>5. Promise!Drop(first)
    BY <1>1, <1>2, <1>6, <2>3, <2>4, Zenon DEF Promise!Drop, InProcess, Settle
  <2>6. QED
    BY <1>2, <2>5, Zenon DEF Promise!Next
<1>7. CASE ~done
  <2>1. worker'[w].pc = "processing" /\ UNCHANGED settled
    BY <1>1, <1>7
  <2>2. InProcess' = InProcess \cup {first}
    <3>1. \A m : m \in InProcess' => m \in InProcess \/ m = first
      <4>1. \A m : Runs(worker'[w], m) => m = first
        BY <1>1, Zenon DEF Runs
      <4>2. QED
        BY <1>5, <4>1, InProcessIs, Zenon
    <3>2. \A m : m \in InProcess => m \in InProcess'
      <4>1. \A m : ~Runs(worker[w], m)
        BY <1>3, Zenon DEF Runs
      <4>2. QED
        BY <1>5, <4>1, InProcessIs, Zenon
    <3>3. first \in InProcess'
      BY <1>1, <2>1, InProcessIs, Zenon DEF Runs
    <3>4. QED
      BY <3>1, <3>2, <3>3
  <2>3. ASSUME NEW n \in Promise!Open, keyOf[n] = keyOf[first] PROVE n >= first
    <3>1. n \in 1 .. last /\ settled[n] = "open"
      BY DEF Promise!Open
    <3>2. Located(n)
      BY <3>1, PipelineParts, Zenon DEF FanOutInv
    <3>3. CASE InDispatch /\ n = last
      <4>1. first \in 1 .. last
        BY <1>1, WithFacts, Zenon DEF FanOutInv
      <4>2. QED
        BY <3>3, <4>1 DEF FanOutInv, TypeOK
    <3>4. CASE \E v \in Workers : With(v, n)
      BY <1>1, <2>3, <3>4, OneWorker, Zenon
    <3>5. QED
      BY <3>2, <3>3, <3>4, Zenon DEF Located
  <2>4. Cardinality(InProcess) < PoolSize
    BY <1>1, RoomForOne, Zenon DEF FanOutInv
  <2>5. Promise!Start(first)
    <3>1. first \in Promise!Open \ InProcess /\ \A n \in Promise!Open : keyOf[n] = keyOf[first] => n >= first
      BY <1>2, <1>4, <2>3, Zenon
    <3>2. Promise!Cardinality(InProcess) < PoolSize
      BY <2>4, Zenon DEF Promise!Cardinality, Cardinality
    <3>3. QED
      BY <1>1, <2>1, <2>2, <3>1, <3>2, Zenon DEF Promise!Start, InProcess
  <2>6. QED
    BY <1>2, <2>5, Zenon DEF Promise!Next
<1>8. QED
  BY <1>6, <1>7

LEMMA FinishPromised ==
  ASSUME FanOutInv, NEW w \in Workers, NEW outcome \in Outcomes, Finish(w, outcome)
  PROVE  Promise!Next
<1>1. PICK x :
        /\ x = worker[w].message /\ worker[w].pc = "processing" /\ worker'[w].pc = "hot" /\ With(w, x)
        /\ OnlyWorker(w) /\ Settle(x, outcome)
        /\ UNCHANGED <<keyOf, last, drain>> /\ tripped' = (tripped \/ outcome = "dropped")
  BY FinishFacts, Zenon DEF FanOutInv
<1>2. x \in Promise!Open /\ x \in Messages
  BY <1>1, LocatedIsOpen, Zenon DEF Located
<1>3. x \in InProcess
  BY <1>1, InProcessIs, Zenon DEF Runs
<1>4. InProcess' = InProcess \ {x}
  <2>1. \A v \in Workers \ {w} : worker'[v] = worker[v]
    BY <1>1, Zenon DEF OnlyWorker
  <2>2. \A m : ~Runs(worker'[w], m) /\ (Runs(worker[w], m) => m = x)
    BY <1>1 DEF Runs
  <2>3. \A v \in Workers \ {w} : ~Runs(worker[v], x)
    BY <1>1, OneWorker, Zenon DEF With, Runs
  <2>4. \A m : m \in InProcess' => m \in InProcess /\ m # x
    BY <2>1, <2>2, <2>3, InProcessIs, Zenon
  <2>5. \A m : m \in InProcess /\ m # x => m \in InProcess'
    BY <2>1, <2>2, InProcessIs, Zenon
  <2>6. QED
    BY <2>4, <2>5
<1>5. CASE outcome = "collected"
  <2>1. tripped \in BOOLEAN /\ outcome # "dropped"
    BY <1>5, Zenon DEF FanOutInv, TypeOK
  <2>2. tripped' = tripped
    BY <1>1, <2>1, Zenon
  <2>3. Promise!Collect(x)
    BY <1>1, <1>2, <1>3, <1>4, <1>5, <2>2, Zenon DEF Promise!Collect, InProcess, Settle
  <2>4. QED
    BY <1>2, <2>3, Zenon DEF Promise!Next
<1>6. CASE outcome = "dropped"
  <2>1. tripped' = TRUE
    BY <1>1, <1>6, Zenon
  <2>2. Promise!Drop(x)
    BY <1>1, <1>2, <1>4, <1>6, <2>1, Zenon DEF Promise!Drop, InProcess, Settle
  <2>3. QED
    BY <1>2, <2>2, Zenon DEF Promise!Next
<1>7. QED
  BY <1>5, <1>6 DEF Outcomes

LEMMA PollPromised ==
  ASSUME FanOutInv, NEW k \in Keys, Poll(k)
  PROVE  Promise!Next
<1>1. /\ ~tripped /\ drain = "idle" /\ last < MaxMessages /\ last' = last + 1
      /\ keyOf' = [keyOf EXCEPT ![last + 1] = k]
      /\ UNCHANGED <<worker, settled, tripped, drain>>
  BY Zenon DEF Poll, shardVars, breakerVars, drainVars
<1>2. last + 1 \in Messages
  BY <1>1, Constants DEF FanOutInv, TypeOK, Messages
<1>3. InProcess' = InProcess
  BY <1>1, InProcessSame, Zenon
<1>4. drain # "returned"
  BY <1>1
<1>5. Promise!Poll(k)
  BY <1>1, <1>2, <1>3, <1>4, Zenon DEF Promise!Poll, InProcess
<1>6. QED
  BY <1>5, Zenon DEF Promise!Next

LEMMA DispatchPromised ==
  ASSUME FanOutInv,
         \/ PollStops \/ GuardFull \/ ReleaseAfterSend \/ RetrySend
         \/ \E g \in Guards : Acquire(g)
         \/ \E w \in Workers : WorkerFull(w) \/ SendToExisting(w) \/ BorrowWorker(w)
         \/ SendCold
  PROVE  Promise!Next \/ UNCHANGED Promise!vars
<1>1. UNCHANGED <<keyOf, last, settled, drain>> /\ (tripped' = tripped \/ tripped' = TRUE)
  BY Zenon DEF PollStops, GuardFull, ReleaseAfterSend, ReleaseAfterSendOf, RetrySend, Acquire, WorkerFull,
         SendToExisting, BorrowWorker, Borrow, SendCold, PollerStep, breakerVars, drainVars
<1>2. InProcess' = InProcess
  <2>1. CASE \/ PollStops \/ GuardFull \/ ReleaseAfterSend \/ RetrySend
             \/ \E g \in Guards : Acquire(g)
             \/ \E w \in Workers : WorkerFull(w)
    <3>1. UNCHANGED worker
      BY <2>1, Zenon DEF PollStops, GuardFull, ReleaseAfterSend, ReleaseAfterSendOf, RetrySend, Acquire, WorkerFull,
             PollerStep, shardVars
    <3>2. QED
      BY <3>1, InProcessSame, Zenon
  <2>2. CASE SendCold \/ \E w \in Workers : SendToExisting(w)
    <3>1. PICK w \in Workers : /\ worker' = SendTo(w) /\ poller.pc \in {"send", "sendCold"}
                               /\ poller'.pc \in {"release", "poll"}
      <4>1. poller \in PollerState
        BY TypeParts DEF FanOutInv
      <4>2. CASE SendCold
        <5>1. poller.borrowed \in Workers /\ poller.pc = "sendCold" /\ poller'.pc = "poll"
          BY <4>1, <4>2, ShardParts, Zenon DEF FanOutInv, PollerFits, SendCold, PollerState
        <5>2. QED
          BY <4>2, <5>1, Zenon DEF SendCold
      <4>3. CASE \E w \in Workers : SendToExisting(w)
        BY <4>1, <4>3, Zenon DEF SendToExisting, PollerAt, PollerState
      <4>4. QED
        BY <2>2, <4>2, <4>3
    <3>2. QED
      BY <1>1, <3>1, SendLocates, InProcessSame, Zenon DEF FanOutInv
  <2>3. CASE \E w \in Workers : BorrowWorker(w)
    <3>1. \A v \in Workers : SameMessages(v)
      BY <2>3, BorrowKeeps, Zenon DEF FanOutInv
    <3>2. QED
      BY <3>1, InProcessSame, Zenon DEF SameMessages
  <2>4. QED
    BY <2>1, <2>2, <2>3, Zenon
<1>3. QED
  BY <1>1, <1>2, TripOrStutter, Zenon

LEMMA WorkPromised ==
  ASSUME FanOutInv, NEW w \in Workers, Work(w)
  PROVE  Promise!Next \/ UNCHANGED Promise!vars
<1>1. CASE FallThrough(w) \/ Leave(w) \/ ReleaseToken(w) \/ ReturnWorker(w) \/ Exit(w)
  <2>1. UNCHANGED <<keyOf, last, settled, tripped, drain>> /\ \A v \in Workers : SameMessages(v)
    BY <1>1, QuietWork, Zenon DEF FanOutInv
  <2>2. InProcess' = InProcess
    BY <2>1, InProcessSame, Zenon DEF SameMessages
  <2>3. QED
    BY <2>1, <2>2, TripOrStutter, Zenon
<1>2. QED
  BY <1>1, ReceivePromised, FinishPromised, Zenon DEF Work

LEMMA OthersPromised ==
  ASSUME FanOutInv, DrainedWorkersAreDone', Prune \/ DetectMainCtxDone \/ DrainWorkers \/ Drain \/ UNCHANGED vars
  PROVE  Promise!Next \/ UNCHANGED Promise!vars
<1>1. UNCHANGED <<keyOf, last, settled, tripped>> /\ \A v \in Workers : SameMessages(v)
  BY QuietOthers, Zenon DEF FanOutInv
<1>2. InProcess' = InProcess
  BY <1>1, InProcessSame, Zenon DEF SameMessages
<1>3. CASE drain' = "returned" <=> drain = "returned"
  BY <1>1, <1>2, <1>3, TripOrStutter, Zenon
<1>4. CASE drain' = "returned" /\ drain # "returned"
  <2>1. Promise!Open = {}
    BY <1>1, <1>4 DEF DrainedWorkersAreDone, Promise!Open
  <2>2. (drain' = "returned") = TRUE
    BY <1>4
  <2>3. QED
    BY <1>1, <1>2, <2>1, <2>2, Zenon DEF Promise!Next, Promise!DrainReturns, InProcess
<1>5. CASE drain' # "returned" /\ drain = "returned"
  <2>1. (drain' = "returned") = FALSE
    BY <1>5
  <2>2. QED
    BY <1>1, <1>2, <2>1, Zenon DEF Promise!Next, Promise!Resume, InProcess
<1>6. QED
  BY <1>3, <1>4, <1>5, Zenon

LEMMA PromiseInitial == Init => Promise!Init
<1> SUFFICES ASSUME Init PROVE Promise!Init
  OBVIOUS
<1>1. InProcess = {}
  <2>1. \A w \in Workers : worker[w].pc # "processing"
    BY DEF Init, Unborn
  <2>2. QED
    BY <2>1, InProcessIs DEF Runs
<1>2. (drain = "returned") = FALSE
  BY DEF Init
<1>3. QED
  BY <1>1, <1>2, Zenon DEF Init, InProcess, Promise!Init, None

(* The fan-out keeps what it promises its host, for any keys, workers,     *)
(* messages and capacities: every step of the polling loop, the workers,   *)
(* the pruner and a drain is one of KeyedProcessing or changes nothing it  *)
(* speaks of.  (Demux, Worker, WorkerShard, DrainWorkers)                  *)
THEOREM KeyWorkersKeepPromise == Spec => ImplementsKeyedProcessing
<1>1. FanOutInv /\ DrainedWorkersAreDone' /\ [Next]_vars => [Promise!Next]_(Promise!vars)
  <2> SUFFICES ASSUME FanOutInv, DrainedWorkersAreDone', [Next]_vars
               PROVE  Promise!Next \/ UNCHANGED Promise!vars
    BY Zenon
  <2>1. CASE \E k \in Keys : Poll(k)
    BY <2>1, PollPromised, Zenon
  <2>2. CASE StalledWorkerExit \/ AcquireTimeout
    BY <2>2, DispatchDrops, Zenon
  <2>3. CASE \/ PollStops \/ GuardFull \/ ReleaseAfterSend \/ RetrySend
             \/ \E g \in Guards : Acquire(g)
             \/ \E w \in Workers : WorkerFull(w) \/ SendToExisting(w) \/ BorrowWorker(w)
             \/ SendCold
    BY <2>3, DispatchPromised, Zenon
  <2>4. CASE \E w \in Workers : Work(w)
    BY <2>4, WorkPromised, Zenon
  <2>5. CASE Prune \/ DetectMainCtxDone \/ DrainWorkers \/ Drain \/ UNCHANGED vars
    BY <2>5, OthersPromised, Zenon
  <2>6. QED
    BY <2>1, <2>2, <2>3, <2>4, <2>5, Zenon DEF Next, Dispatch
<1>2. QED
  BY <1>1, PromiseInitial, FanOutInvariant, DrainedWorkersAreDoneHolds, PTL
     DEF Spec, ImplementsKeyedProcessing, Promise!Spec
=============================================================================
