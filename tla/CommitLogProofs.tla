-------------------------- MODULE CommitLogProofs ---------------------------
(***************************************************************************)
(* CommitOwnership and, when the adapter always knows the committed        *)
(* position of a partition it assigns, CommitMonotonic and that the        *)
(* committer implements CommitLog, for every set of partitions, log        *)
(* length, number of epochs and choice of broker answers.                  *)
(***************************************************************************)
EXTENDS OffsetCommitterProofs

(* For the steps that name no prover: time enough on a slow machine.       *)
USE SMTT(30), ZenonT(30)

-----------------------------------------------------------------------------
(* What the operators of OffsetsTracker do to the position a tracker       *)
(* would commit.                                                           *)

WellFormed(t) == ReadyUnique(t) /\ OffsetsBounded(t)

(* u commits nothing that t would not have been behind of.                 *)
Keeps(t, u) ==
  /\ WellFormed(u)
  /\ \A b \in Int : NotBehind(t, b) => NotBehind(u, b)
  /\ u.committedPlusOne >= t.committedPlusOne

(* Ingest never lowers the baseline, and Ready stays a single item.        *)
(* (processCommit, checkAndAdvance)                                        *)
LEMMA ProcessCommitKeeps ==
  ASSUME NEW t \in Tracker, NEW w \in WorkItem, WellFormed(t),
         w.previousOffset < w.offset, w.offset \in Records
  PROVE  Keeps(t, ProcessCommit(t, w))
<1> DEFINE b == IF w.first /\ w.offset >= t.committedPlusOne THEN w.offset ELSE t.committedPlusOne
           raised == [t EXCEPT !.committedPlusOne = b]
           u == CheckAndAdvance(raised, w)
<1>1. ProcessCommit(t, w) = u
  BY DEF ProcessCommit
<1>2. /\ raised \in Tracker
      /\ raised.ready = t.ready /\ raised.gapBuffer = t.gapBuffer
      /\ raised.committedPlusOne \in Int /\ t.committedPlusOne \in Int
      /\ raised.committedPlusOne >= t.committedPlusOne
  BY DEF Tracker, WorkItem
<1> HIDE DEF raised, u
<1>3. WellFormed(raised)
  BY <1>2 DEF WellFormed, ReadyUnique, OffsetsBounded
<1>4. Keeps(t, raised)
  BY <1>2, <1>3 DEF Keeps, NotBehind
<1>5. CASE u = raised
  BY <1>1, <1>4, <1>5
<1>6. CASE BecomesReady(raised, w, u)
  <2>1. PICK flag \in BOOLEAN : u = [raised EXCEPT !.ready = {w}, !.needsGapAdvance = flag]
    BY <1>6, Zenon DEF BecomesReady
  <2>2. /\ u.ready = {w} /\ u.gapBuffer = raised.gapBuffer
        /\ u.committedPlusOne = raised.committedPlusOne
    BY <1>2, <2>1 DEF Tracker
  <2>3. \A r \in raised.ready : r.offset <= w.offset /\ r.offset \in Nat
    BY <1>2, <1>3, <1>6 DEF BecomesReady, WellFormed, ReadyUnique, Tracker, WorkItem
  <2>4. WellFormed(u)
    BY <1>3, <2>2 DEF WellFormed, ReadyUnique, OffsetsBounded
  <2>5. ASSUME NEW c \in Int, NotBehind(raised, c)
        PROVE  NotBehind(u, c)
    BY <1>2, <2>2, <2>3, <2>5 DEF NotBehind, WorkItem
  <2>6. QED
    BY <1>1, <1>2, <1>4, <2>2, <2>4, <2>5 DEF Keeps
<1>7. CASE IsBuffered(raised, w, u)
  <2>1. PICK flag \in BOOLEAN :
          u = [raised EXCEPT !.gapBuffer = @ \cup {w}, !.needsGapAdvance = flag]
    BY <1>7, Zenon DEF IsBuffered
  <2>2. /\ u.ready = raised.ready /\ u.gapBuffer = raised.gapBuffer \cup {w}
        /\ u.committedPlusOne = raised.committedPlusOne
    BY <1>2, <2>1 DEF Tracker
  <2>3. QED
    BY <1>1, <1>3, <1>4, <2>2 DEF Keeps, NotBehind, WellFormed, ReadyUnique, OffsetsBounded
<1>8. QED
  BY <1>2, <1>5, <1>6, <1>7, CheckAndAdvanceCases DEF u

(* A flush leaves the baseline alone, and Ready a single item.             *)
(* (flushGapBuffers)                                                       *)
LEMMA FlushKeeps ==
  ASSUME NEW t \in Tracker, WellFormed(t)
  PROVE  /\ Keeps(t, FlushGapBuffer(t))
         /\ FlushGapBuffer(t).committedPlusOne = t.committedPlusOne
<1> DEFINE f == FlushGapBuffer(t)
           buffer == Deduped(t.gapBuffer)
           start == WalkStart(t, buffer)
           walked == start \cup UNION {Reached(buffer, s.offset) : s \in start}
<1>1. /\ walked \subseteq t.ready \cup t.gapBuffer
      /\ t.ready \subseteq walked
      /\ FlushedReady(t) = Highest(walked)
  BY DEF FlushedReady, WalkStart, Reached, Deduped
<1>2. walked \in SUBSET WorkItem /\ \A w \in walked : w.offset \in Nat /\ w.offset <= MaxOffset
  BY <1>1 DEF Tracker, WellFormed, OffsetsBounded, Records, WorkItem
<1> HIDE DEF walked
<1>3. ASSUME t.ready # {}
      PROVE  FlushedReady(t) # {}
  <2>1. walked # {} /\ walked \in SUBSET WorkItem /\ MaxOffset \in Nat
        /\ \A w \in walked : w.offset <= MaxOffset
    BY <1>1, <1>2, <1>3, OffsetAssumption
  <2>2. Highest(walked) # {}
    BY <2>1, HighestExists
  <2>3. QED
    BY <1>1, <2>2
<1>4. /\ \A r, s \in FlushedReady(t) : r.offset = s.offset
      /\ \A r \in FlushedReady(t), s \in t.ready : s.offset <= r.offset
      /\ FlushedReady(t) \subseteq walked
  BY <1>1, <1>2 DEF Highest
<1>5. ASSUME NEW kept \in SUBSET t.gapBuffer,
             f = [t EXCEPT !.needsGapAdvance = FALSE, !.ready = FlushedReady(t), !.gapBuffer = kept]
      PROVE  Keeps(t, f) /\ f.committedPlusOne = t.committedPlusOne
  <2>1. /\ f.ready = FlushedReady(t) /\ f.gapBuffer = kept
        /\ f.committedPlusOne = t.committedPlusOne /\ t.committedPlusOne \in Int
    BY <1>5 DEF Tracker
  <2> HIDE DEF f
  <2>2. WellFormed(f)
    BY <1>1, <1>4, <2>1 DEF WellFormed, ReadyUnique, OffsetsBounded
  <2>3. ASSUME NEW b \in Int, NotBehind(t, b)
        PROVE  NotBehind(f, b)
    <3>1. CASE b <= t.committedPlusOne
      BY <2>1, <3>1 DEF NotBehind
    <3>2. CASE t.ready # {} /\ \A r \in t.ready : b <= r.offset + 1
      <4>1. PICK s \in t.ready : b <= s.offset + 1
        BY <3>2
      <4>2. \A r \in FlushedReady(t) : b <= r.offset + 1
        BY <1>1, <1>2, <1>4, <4>1
      <4>3. QED
        BY <1>3, <2>1, <3>2, <4>2 DEF NotBehind
    <3>3. QED
      BY <2>3, <3>1, <3>2 DEF NotBehind
  <2>4. QED
    BY <2>1, <2>2, <2>3 DEF Keeps
<1>6. CASE f = t
  BY <1>6 DEF Keeps, Tracker
<1>7. QED
  BY <1>5, <1>6, FlushShape, Zenon

(* So does a repair, which only promotes items at or above the baseline.   *)
(* (repairSuccessor)                                                       *)
LEMMA RepairKeeps ==
  ASSUME NEW t \in Tracker, NEW twin, WellFormed(t)
  PROVE  Keeps(t, RepairSuccessor(t, twin))
<1> DEFINE successor == Successor(t, twin)
           kept == {g \in t.gapBuffer \ successor : \A s \in successor : g.offset >= s.offset}
           u == [t EXCEPT !.ready = successor, !.gapBuffer = kept, !.needsGapAdvance = kept # {}]
<1>1. /\ successor \subseteq t.gapBuffer
      /\ \A r, s \in successor : r.offset <= s.offset
  BY DEF Successor
<1>2. RepairSuccessor(t, twin) = t \/ (t.ready = {} /\ RepairSuccessor(t, twin) = u)
  BY DEF RepairSuccessor
<1> HIDE DEF successor
<1>3. Keeps(t, t)
  BY DEF Keeps, Tracker
<1>4. ASSUME t.ready = {}
      PROVE  Keeps(t, u)
  <2>1. /\ u.ready = successor /\ u.gapBuffer \subseteq t.gapBuffer
        /\ u.committedPlusOne = t.committedPlusOne /\ t.committedPlusOne \in Int
    BY DEF Tracker
  <2> HIDE DEF u
  <2>2. \A r, s \in successor : r.offset = s.offset
    BY <1>1 DEF Tracker, WorkItem
  <2>3. QED
    BY <1>1, <1>4, <2>1, <2>2 DEF Keeps, NotBehind, WellFormed, ReadyUnique, OffsetsBounded
<1>5. QED
  BY <1>2, <1>3, <1>4

(* What a tick is about to commit for an assigned partition is not behind  *)
(* any position the tracker was not behind of, and not below the baseline. *)
LEMMA PrepareKeeps ==
  ASSUME NEW t \in Tracker, NEW twin, WellFormed(t)
  PROVE  LET u == DropStaleReady(RepairSuccessor(FlushGapBuffer(t), twin))
         IN  Keeps(t, u) /\ \A r \in u.ready : r.offset >= u.committedPlusOne
<1> DEFINE f == FlushGapBuffer(t)
           v == RepairSuccessor(f, twin)
           u == DropStaleReady(v)
<1>1. f \in Tracker /\ Keeps(t, f)
  BY FlushType, FlushKeeps
<1>2. v \in Tracker /\ Keeps(f, v)
  BY <1>1, RepairKeeps, RepairType DEF Keeps
<1> HIDE DEF f, v
<1>3. \A r \in v.ready : r.offset \in Nat
  BY <1>2 DEF Tracker, WorkItem
<1>4. v.committedPlusOne \in Int /\ f.committedPlusOne \in Int /\ t.committedPlusOne \in Int
  BY <1>1, <1>2 DEF Tracker
<1>5. Keeps(t, v)
  BY <1>1, <1>2, <1>4 DEF Keeps
<1>6. CASE \E r \in v.ready : r.offset < v.committedPlusOne
  <2>1. /\ u.ready = {} /\ u.gapBuffer = v.gapBuffer
        /\ u.committedPlusOne = v.committedPlusOne
    BY <1>2, <1>6 DEF DropStaleReady, Tracker
  <2> HIDE DEF u
  <2>2. WellFormed(u)
    BY <1>2, <2>1 DEF Keeps, WellFormed, ReadyUnique, OffsetsBounded
  <2>3. ASSUME NEW b \in Int, NotBehind(v, b)
        PROVE  NotBehind(u, b)
    BY <1>3, <1>4, <1>6, <2>1, <2>3 DEF NotBehind
  <2>4. QED
    BY <1>4, <1>5, <2>1, <2>2, <2>3 DEF Keeps, u, v, f
<1>7. CASE ~ \E r \in v.ready : r.offset < v.committedPlusOne
  <2>1. u = v
    BY <1>7 DEF DropStaleReady
  <2>2. \A r \in u.ready : r.offset >= u.committedPlusOne
    BY <1>3, <1>4, <1>7, <2>1
  <2>3. QED
    BY <1>5, <2>1, <2>2 DEF v, f
<1>8. QED
  BY <1>6, <1>7 DEF v, f

(* So does the clean-up of a partition that is not assigned.               *)
(* (discardOrphanedTracker)                                                *)
LEMMA DiscardKeeps ==
  ASSUME NEW t \in Tracker, WellFormed(t)
  PROVE  LET u == DiscardOrphanedTracker(FlushGapBuffer(t))
         IN  /\ WellFormed(u)
             /\ u.ready = {}
             /\ u.committedPlusOne = t.committedPlusOne
<1> DEFINE f == FlushGapBuffer(t)
<1>1. f \in Tracker /\ Keeps(t, f) /\ f.committedPlusOne = t.committedPlusOne
  BY FlushType, FlushKeeps
<1> HIDE DEF f
<1>2. LET u == DiscardOrphanedTracker(f)
      IN  WellFormed(u) /\ u.ready = {} /\ u.committedPlusOne = t.committedPlusOne
  BY <1>1 DEF Keeps, DiscardOrphanedTracker, WellFormed, ReadyUnique, OffsetsBounded, Tracker
<1>3. QED
  BY <1>2 DEF f

(* An accepted commit leaves the baseline right after the committed        *)
(* record or above.  (CommitOffsets)                                       *)
LEMMA CommitSucceededKeeps ==
  ASSUME NEW t \in Tracker, WellFormed(t)
  PROVE  LET u == CommitSucceeded(t)
         IN  /\ WellFormed(u)
             /\ t.ready = {} => u = t
             /\ t.ready # {} => NotBehind(u, ReadyOffset(t) + 1)
<1>1. CASE t.ready = {}
  BY <1>1 DEF CommitSucceeded
<1>2. CASE t.ready # {}
  <2>1. ReadyOffset(t) \in Nat
    BY <1>2, ReadyOffsetIsReady DEF Tracker, WorkItem
  <2>2. /\ CommitSucceeded(t).ready = {}
        /\ CommitSucceeded(t).gapBuffer = t.gapBuffer
        /\ CommitSucceeded(t).committedPlusOne >= ReadyOffset(t) + 1
    BY <1>2, <2>1 DEF CommitSucceeded, Tracker
  <2>3. QED
    BY <1>2, <2>1, <2>2 DEF WellFormed, ReadyUnique, OffsetsBounded, NotBehind
<1>3. QED
  BY <1>1, <1>2

-----------------------------------------------------------------------------
(* Ownership.                                                              *)

(* Every step keeps the assigned map in agreement with the phase of the    *)
(* rebalance.  (MarkPartitionAssigned, MarkPartitionRevoked)               *)
LEMMA OwnershipStep == TypeOK /\ OwnershipInv /\ [Next]_vars => OwnershipInv'
<1> SUFFICES ASSUME TypeOK, OwnershipInv, [Next]_vars
             PROVE  OwnershipInv'
  OBVIOUS
<1>1. CASE \E p \in Partitions : Rebalance(p)
  <2>1. PICK p \in Partitions : Rebalance(p)
    BY <1>1
  <2>2. CASE AssignReset(p)
    BY <2>2 DEF AssignReset, ResetPrevOffsets, Enter, OwnershipInv, TypeOK
  <2>3. CASE MarkPartitionAssigned(p)
    BY <2>3 DEF MarkPartitionAssigned, Enter, OwnershipInv, TypeOK
  <2>4. CASE AckAssign(p)
    BY <2>4 DEF AckAssign, Enter, OwnershipInv, TypeOK, committerVars
  <2>5. CASE BeginDrain(p)
    BY <2>5 DEF BeginDrain, Enter, OwnershipInv, TypeOK, committerVars
  <2>6. CASE MarkPartitionRevoked(p)
    BY <2>6 DEF MarkPartitionRevoked, Enter, OwnershipInv, TypeOK
  <2>7. CASE AckRevoke(p)
    BY <2>7 DEF AckRevoke, Enter, OwnershipInv, TypeOK, committerVars
  <2>8. QED
    BY <2>1, <2>2, <2>3, <2>4, <2>5, <2>6, <2>7 DEF Rebalance
<1>2. CASE UNCHANGED <<phase, assigned>>
  BY <1>2 DEF OwnershipInv
<1>3. QED
  BY <1>1, <1>2 DEF Next, vars, Deliver, ProcessCommitItem, EndBatch, CommitOffsets,
                    OtherOwnerCommits, Compact, committerVars

(* The assigned map holds exactly the partitions between the mark of       *)
(* their assign and the mark of their revoke.  (HandleRebalance,           *)
(* Committer.assigned)                                                     *)
THEOREM OwnershipInvariant == Spec => []OwnershipInv
<1>1. Init => OwnershipInv
  BY DEF Init, OwnershipInv
<1>2. QED
  BY <1>1, OwnershipStep, TypeCorrect, PTL DEF Spec

(* A tick commits nothing for a partition that is not assigned.            *)
LEMMA UnassignedNotCommitted ==
  ASSUME NEW p \in Partitions, NEW t \in Tracker, NEW twin, p \notin assigned
  PROVE  PrepareCommit(t, p \in assigned, twin).ready = {}
<1>1. PrepareCommit(t, p \in assigned, twin) = DiscardOrphanedTracker(FlushGapBuffer(t))
  BY DEF PrepareCommit
<1>2. FlushGapBuffer(t) \in Tracker
  BY FlushType
<1>3. QED
  BY <1>1, <1>2, Zenon DEF DiscardOrphanedTracker, Tracker

(* Commit ownership, in general: a tick moves the position of a partition  *)
(* only while this consumer owns it.  (CommitOffsets' assigned check, and  *)
(* MarkPartitionRevoked before ackRebalance in HandleRebalance.)           *)
THEOREM CommitOwnershipHolds == Spec => CommitOwnership
<1> DEFINE Owned == (\E answer \in Answers, twin \in Twins : CommitOffsets(answer, twin))
                    => \A p \in Partitions : brokerPos'[p] # brokerPos[p] =>
                         phase[p] \in {"marked", "owned", "draining"}
<1>1. TypeOK /\ OwnershipInv => Owned
  <2> SUFFICES ASSUME TypeOK, OwnershipInv, NEW answer \in Answers, NEW twin \in Twins,
                      CommitOffsets(answer, twin), NEW p \in Partitions,
                      brokerPos'[p] # brokerPos[p]
               PROVE  phase[p] \in {"marked", "owned", "draining"}
    OBVIOUS
  <2>1. PrepareCommit(tracker[p], p \in assigned, twin[p]).ready # {}
    BY DEF CommitOffsets, Prepared, BrokerPosAfter
  <2>2. tracker[p] \in Tracker
    BY DEF TypeOK
  <2>3. p \in assigned
    BY <2>1, <2>2, UnassignedNotCommitted
  <2>4. QED
    BY <2>3 DEF OwnershipInv
<1>2. QED
  BY <1>1, TypeCorrect, OwnershipInvariant, PTL DEF CommitOwnership

-----------------------------------------------------------------------------
(* Monotonicity, one partition at a time.                                  *)

PartitionMonotonic(p) ==
  /\ WellFormed(tracker[p])
  /\ \A w \in inflight[p] : w.offset \in Records
  /\ phase[p] = "reset" => brokerPos[p] <= tracker[p].committedPlusOne
  /\ p \in assigned => NotBehind(tracker[p], brokerPos[p])

(* The invariant, one partition at a time.                                 *)
LEMMA MonotonicByPartition ==
  MonotonicInv <=> \A p \in Partitions : PartitionMonotonic(p)
  BY DEF MonotonicInv, PartitionMonotonic, WellFormed

MonotonicHyp == TypeOK /\ SafetyInv /\ OwnershipInv /\ MonotonicInv /\ ~LookupMayFail

(* A step of HandleRebalance moves no committed position, and the reset    *)
(* baseline is that position.  (ResetCommittedOffsets)                     *)
LEMMA RebalanceMonotonic ==
  ASSUME MonotonicHyp, NEW p \in Partitions, Rebalance(p), NEW q \in Partitions
  PROVE  PartitionMonotonic(q)' /\ brokerPos'[q] = brokerPos[q]
<1>1. /\ PartitionMonotonic(q) /\ tracker[q] \in Tracker /\ brokerPos[q] \in Int
      /\ q \in assigned <=> phase[q] \in {"marked", "owned", "draining"}
  BY MonotonicByPartition DEF MonotonicHyp, OwnershipInv, TypeOK
<1>2. brokerPos' = brokerPos /\ inflight' = inflight
  BY DEF Rebalance, AssignReset, ResetPrevOffsets, MarkPartitionAssigned, AckAssign, BeginDrain,
         MarkPartitionRevoked, AckRevoke, brokerVars
<1>3. CASE q # p
  <2>1. phase'[q] = phase[q] /\ tracker'[q] = tracker[q] /\ (q \in assigned' <=> q \in assigned)
    BY <1>3 DEF Rebalance, AssignReset, ResetPrevOffsets, MarkPartitionAssigned, AckAssign, BeginDrain,
                MarkPartitionRevoked, AckRevoke, Enter, committerVars, MonotonicHyp, TypeOK
  <2>2. QED
    BY <1>1, <1>2, <2>1 DEF PartitionMonotonic
<1>4. CASE q = p
  <2>1. CASE AssignReset(p)
    <3> DEFINE t == ResetCommittedOffset(tracker[p], brokerPos[p])
    <3>1. tracker'[p] = t /\ phase'[p] = "reset" /\ p \notin assigned'
      BY <1>1, <1>4, <2>1 DEF AssignReset, ResetPrevOffsets, Enter, MonotonicHyp, TypeOK
    <3>2. WellFormed(t) /\ t.committedPlusOne = brokerPos[p]
      BY <1>1, <1>4, ZenonT(30) DEF PartitionMonotonic, ResetCommittedOffset, WellFormed, ReadyUnique,
                        OffsetsBounded
    <3> HIDE DEF t
    <3>3. QED
      BY <1>1, <1>2, <1>4, <3>1, <3>2 DEF PartitionMonotonic
  <2>2. CASE MarkPartitionAssigned(p)
    <3>1. phase[p] = "reset" /\ phase'[p] = "marked" /\ tracker'[p] = tracker[p]
      BY <2>2 DEF MarkPartitionAssigned, Enter, MonotonicHyp, TypeOK
    <3>2. QED
      BY <1>1, <1>2, <1>4, <3>1 DEF PartitionMonotonic, NotBehind
  <2>3. CASE MarkPartitionRevoked(p)
    <3>1. /\ phase'[p] = "revoked" /\ p \notin assigned'
          /\ tracker'[p] = MarkTrackerRevoked(tracker[p])
      BY <2>3 DEF MarkPartitionRevoked, Enter, MonotonicHyp, TypeOK
    <3>2. WellFormed(MarkTrackerRevoked(tracker[p]))
      BY <1>1, <1>4 DEF PartitionMonotonic, MarkTrackerRevoked, WellFormed, ReadyUnique,
                        OffsetsBounded, Tracker
    <3>3. QED
      BY <1>1, <1>2, <1>4, <3>1, <3>2 DEF PartitionMonotonic
  <2>4. CASE AckAssign(p) \/ BeginDrain(p) \/ AckRevoke(p)
    <3>1. phase'[p] # "reset" /\ tracker'[p] = tracker[p] /\ assigned' = assigned
      BY <2>4 DEF AckAssign, BeginDrain, AckRevoke, Enter, committerVars, MonotonicHyp, TypeOK
    <3>2. QED
      BY <1>1, <1>2, <1>4, <3>1 DEF PartitionMonotonic
  <2>5. QED
    BY <2>1, <2>2, <2>3, <2>4 DEF Rebalance
<1>5. QED
  BY <1>3, <1>4

(* Ingest keeps the baseline at or above the position.  (processCommit)    *)
LEMMA IngestMonotonic ==
  ASSUME MonotonicHyp, NEW p \in Partitions, NEW w \in inflight[p], ProcessCommitItem(p, w),
         NEW q \in Partitions
  PROVE  PartitionMonotonic(q)' /\ brokerPos'[q] = brokerPos[q]
<1>1. /\ PartitionMonotonic(q) /\ tracker[q] \in Tracker /\ brokerPos[q] \in Int
      /\ brokerPos'[q] = brokerPos[q] /\ phase'[q] = phase[q] /\ assigned' = assigned
  BY MonotonicByPartition DEF MonotonicHyp, TypeOK, ProcessCommitItem, brokerVars
<1>2. CASE q # p
  <2>1. tracker'[q] = tracker[q] /\ inflight'[q] = inflight[q]
    BY <1>2 DEF ProcessCommitItem, MonotonicHyp, TypeOK
  <2>2. QED
    BY <1>1, <2>1 DEF PartitionMonotonic
<1>3. CASE q = p
  <2>1. tracker'[q] = ProcessCommit(tracker[q], w) /\ inflight'[q] \subseteq inflight[q]
    BY <1>3 DEF ProcessCommitItem, MonotonicHyp, TypeOK
  <2>2. w \in WorkItem /\ w.previousOffset < w.offset /\ w.offset \in Records
    BY <1>1, <1>3 DEF MonotonicHyp, TypeOK, SafetyInv, ItemSafe, StampTrue, PartitionMonotonic
  <2>3. Keeps(tracker[q], ProcessCommit(tracker[q], w))
    BY <1>1, <2>2, ProcessCommitKeeps DEF PartitionMonotonic
  <2>4. tracker'[q] \in Tracker
    BY ProcessCommitItemSafe DEF MonotonicHyp, TypeOK
  <2>5. QED
    BY <1>1, <2>1, <2>3, <2>4 DEF PartitionMonotonic, Keeps, Tracker
<1>4. QED
  BY <1>2, <1>3

(* So does the flush at the end of a batch.  (flushGapBuffers)             *)
LEMMA EndBatchMonotonic ==
  ASSUME MonotonicHyp, EndBatch, NEW q \in Partitions
  PROVE  PartitionMonotonic(q)' /\ brokerPos'[q] = brokerPos[q]
<1>1. /\ PartitionMonotonic(q) /\ tracker[q] \in Tracker /\ brokerPos[q] \in Int
      /\ brokerPos'[q] = brokerPos[q] /\ phase'[q] = phase[q] /\ assigned' = assigned
      /\ inflight'[q] = inflight[q] /\ tracker'[q] = FlushGapBuffer(tracker[q])
  BY MonotonicByPartition DEF MonotonicHyp, TypeOK, EndBatch, brokerVars
<1>2. /\ Keeps(tracker[q], FlushGapBuffer(tracker[q]))
      /\ FlushGapBuffer(tracker[q]).committedPlusOne = tracker[q].committedPlusOne
  BY <1>1, FlushKeeps DEF PartitionMonotonic
<1>3. QED
  BY <1>1, <1>2 DEF PartitionMonotonic, Keeps

(* The step that matters: a commit does not move the position back.        *)
LEMMA CommitOffsetsMonotonic ==
  ASSUME MonotonicHyp, NEW answer \in Answers, NEW twin \in Twins,
         CommitOffsets(answer, twin), NEW q \in Partitions
  PROVE  PartitionMonotonic(q)' /\ brokerPos[q] <= brokerPos'[q]
<1> DEFINE u == PrepareCommit(tracker[q], q \in assigned, twin[q])
<1>1. /\ PartitionMonotonic(q) /\ tracker[q] \in Tracker /\ brokerPos[q] \in Int
      /\ phase'[q] = phase[q] /\ assigned' = assigned /\ inflight'[q] = inflight[q]
      /\ q \in assigned => phase[q] # "reset"
  BY MonotonicByPartition DEF MonotonicHyp, OwnershipInv, TypeOK, CommitOffsets
<1>2. /\ tracker'[q] \in {u, CommitSucceeded(u)}
      /\ \/ u.ready = {} /\ brokerPos'[q] = brokerPos[q]
         \/ /\ u.ready # {}
            /\ \/ brokerPos'[q] = brokerPos[q] /\ tracker'[q] = u
               \/ brokerPos'[q] = ReadyOffset(u) + 1
  BY AnswersAssumption DEF CommitOffsets, Prepared, BrokerPosAfter
<1>3. CASE q \notin assigned
  <2>1. u = DiscardOrphanedTracker(FlushGapBuffer(tracker[q]))
    BY <1>3 DEF PrepareCommit
  <2> HIDE DEF u
  <2>2. WellFormed(u) /\ u.ready = {} /\ u.committedPlusOne = tracker[q].committedPlusOne
    BY <1>1, <2>1, DiscardKeeps DEF PartitionMonotonic
  <2>3. CommitSucceeded(u) = u
    BY <2>2 DEF CommitSucceeded
  <2>4. QED
    BY <1>1, <1>2, <1>3, <2>2, <2>3 DEF PartitionMonotonic
<1>4. CASE q \in assigned
  <2>1. u = DropStaleReady(RepairSuccessor(FlushGapBuffer(tracker[q]), twin[q]))
    BY <1>4 DEF PrepareCommit
  <2>2. u \in Tracker
    <3>1. RepairSuccessor(FlushGapBuffer(tracker[q]), twin[q]) \in Tracker
      BY <1>1, FlushType, RepairType
    <3>2. QED
      BY <2>1, <3>1, ZenonT(30) DEF DropStaleReady, Tracker
  <2> HIDE DEF u
  <2>3. Keeps(tracker[q], u) /\ \A r \in u.ready : r.offset >= u.committedPlusOne
    BY <1>1, <2>1, PrepareKeeps DEF PartitionMonotonic
  <2>4. NotBehind(u, brokerPos[q]) /\ WellFormed(u)
    BY <1>1, <1>4, <2>3 DEF PartitionMonotonic, Keeps
  <2>5. CASE u.ready = {}
    <3>1. CommitSucceeded(u) = u
      BY <2>5 DEF CommitSucceeded
    <3>2. QED
      BY <1>1, <1>2, <1>4, <2>4, <2>5, <3>1 DEF PartitionMonotonic
  <2>6. CASE u.ready # {}
    <3>1. PICK r \in u.ready : ReadyOffset(u) = r.offset
      BY <2>2, <2>6, ReadyOffsetIsReady
    <3>2. r.offset \in Nat /\ u.committedPlusOne \in Int
      BY <2>2 DEF Tracker, WorkItem
    <3>3. brokerPos[q] <= ReadyOffset(u) + 1
      BY <1>1, <2>3, <2>4, <3>1, <3>2 DEF NotBehind
    <3>4. NotBehind(u, ReadyOffset(u) + 1)
      BY <2>4, <2>6, <3>1, <3>2 DEF NotBehind, WellFormed, ReadyUnique
    <3>5. WellFormed(CommitSucceeded(u)) /\ NotBehind(CommitSucceeded(u), ReadyOffset(u) + 1)
      BY <2>2, <2>4, <2>6, CommitSucceededKeeps
    <3>6. QED
      BY <1>1, <1>2, <1>4, <2>4, <2>6, <3>1, <3>2, <3>3, <3>4, <3>5 DEF PartitionMonotonic
  <2>7. QED
    BY <2>5, <2>6
<1>5. QED
  BY <1>3, <1>4

(* Other owners move the position forward, and only while this consumer    *)
(* has the partition neither reset nor assigned.                           *)
LEMMA OutsideMonotonic ==
  ASSUME MonotonicHyp, NEW p \in Partitions, NEW o \in log[p],
         Deliver(p, o) \/ OtherOwnerCommits(p, o) \/ Compact(p, o), NEW q \in Partitions
  PROVE  PartitionMonotonic(q)' /\ brokerPos[q] <= brokerPos'[q]
<1>1. /\ PartitionMonotonic(q) /\ brokerPos[q] \in Int /\ o \in Records /\ o \in Int
      /\ q \in assigned => phase[q] # "unowned"
  BY MonotonicByPartition, OffsetAssumption DEF MonotonicHyp, OwnershipInv, TypeOK, Records
<1>2. phase' = phase /\ assigned' = assigned /\ tracker' = tracker
  BY DEF Deliver, OtherOwnerCommits, Compact, committerVars
<1>3. \A w \in inflight'[q] : w.offset \in Records
  BY <1>1 DEF Deliver, OtherOwnerCommits, Compact, Stamped, PartitionMonotonic, MonotonicHyp, TypeOK
<1>4. CASE brokerPos'[q] = brokerPos[q]
  <2>1. brokerPos[q] <= brokerPos'[q]
    BY <1>1, <1>4
  <2>2. PartitionMonotonic(q)'
    BY <1>1, <1>2, <1>3, <1>4, ZenonT(30) DEF PartitionMonotonic
  <2>3. QED
    BY <2>1, <2>2
<1>5. CASE q = p /\ OtherOwnerCommits(p, o)
  <2>1. phase[q] = "unowned" /\ brokerPos'[q] = o + 1 /\ brokerPos[q] <= o
    BY <1>1, <1>5 DEF OtherOwnerCommits, MonotonicHyp, TypeOK
  <2>2. QED
    BY <1>1, <1>2, <1>3, <2>1 DEF PartitionMonotonic
<1>6. QED
  BY <1>4, <1>5 DEF Deliver, OtherOwnerCommits, Compact, brokerVars, MonotonicHyp, TypeOK

(* Every step keeps the invariant and moves no position back.              *)
LEMMA MonotonicStep ==
  ASSUME MonotonicHyp, [Next]_vars
  PROVE  MonotonicInv' /\ \A p \in Partitions : brokerPos[p] <= brokerPos'[p]
<1> SUFFICES ASSUME NEW q \in Partitions
             PROVE  PartitionMonotonic(q)' /\ brokerPos[q] <= brokerPos'[q]
  BY DEF MonotonicInv, PartitionMonotonic, WellFormed
<1>1. brokerPos[q] \in Int /\ PartitionMonotonic(q)
  BY MonotonicByPartition DEF MonotonicHyp, TypeOK
<1>2. CASE \E p \in Partitions : Rebalance(p)
  BY <1>1, <1>2, RebalanceMonotonic
<1>3. CASE \E p \in Partitions : \E w \in inflight[p] : ProcessCommitItem(p, w)
  BY <1>1, <1>3, IngestMonotonic
<1>4. CASE EndBatch
  BY <1>1, <1>4, EndBatchMonotonic
<1>5. CASE \E answer \in Answers, twin \in Twins : CommitOffsets(answer, twin)
  BY <1>5, CommitOffsetsMonotonic
<1>6. CASE \E p \in Partitions : \E o \in log[p] :
             Deliver(p, o) \/ OtherOwnerCommits(p, o) \/ Compact(p, o)
  BY <1>6, OutsideMonotonic
<1>7. CASE UNCHANGED vars
  BY <1>1, <1>7 DEF vars, PartitionMonotonic
<1>8. QED
  BY <1>2, <1>3, <1>4, <1>5, <1>6, <1>7 DEF Next

(* In general: when the adapter always knows the committed position of the *)
(* partitions it assigns, an assigned tracker is never behind that         *)
(* position.  (ResetCommittedOffsets, processCommit, CommitOffsets)        *)
THEOREM MonotonicInvariant ==
  ASSUME ~LookupMayFail
  PROVE  Spec => []MonotonicInv
<1>1. Init => MonotonicInv
  BY DEF Init, MonotonicInv, ReadyUnique, OffsetsBounded, NewTracker
<1>2. TypeOK /\ SafetyInv /\ OwnershipInv /\ MonotonicInv /\ [Next]_vars => MonotonicInv'
  BY MonotonicStep DEF MonotonicHyp
<1>3. QED
  BY <1>1, <1>2, SafetyInvariant, OwnershipInvariant, PTL DEF Spec

(* Commit monotonicity, in general: when the adapter always knows the      *)
(* committed position of the partitions it assigns, no commit moves a      *)
(* position back.  (ResetCommittedOffsets, the stale-Ready discard of      *)
(* CommitOffsets and the order of HandleRebalance's revoke steps.)         *)
THEOREM CommitMonotonicHolds ==
  ASSUME ~LookupMayFail
  PROVE  Spec => CommitMonotonic
<1>1. TypeOK /\ SafetyInv /\ OwnershipInv /\ MonotonicInv /\ [Next]_vars
        => \A p \in Partitions : brokerPos[p] <= brokerPos'[p]
  BY MonotonicStep DEF MonotonicHyp
<1>2. QED
  BY <1>1, SafetyInvariant, OwnershipInvariant, MonotonicInvariant, PTL DEF Spec, CommitMonotonic

-----------------------------------------------------------------------------
(* The committer implements CommitLog.                                     *)

(* What is pending in CommitLog.                                           *)
Pending == [p \in Partitions |-> Unprocessed(p)]

(* A partition a step does not touch keeps what is pending.                *)
LEMMA PendingFrame ==
  ASSUME NEW q \in Partitions, log'[q] = log[q], done'[q] = done[q], phase'[q] = phase[q],
         epoch'[q] = epoch[q], inflight'[q] = inflight[q]
  PROVE  Unprocessed(q)' = Unprocessed(q)
  BY DEF Unprocessed, Current

(* A step at one partition that only shrinks what is pending there, and    *)
(* moves neither a position nor the assigned map, is a Resolve.            *)
LEMMA ResolveStep ==
  ASSUME NEW p \in Partitions, brokerPos' = brokerPos, assigned' = assigned,
         Unprocessed(p)' \subseteq Unprocessed(p),
         \A q \in Partitions \ {p} : Unprocessed(q)' = Unprocessed(q)
  PROVE  Promise!Resolve(p)
<1>1. Pending' = [Pending EXCEPT ![p] = Unprocessed(p)']
  BY Zenon DEF Pending
<1>2. Unprocessed(p)' \in SUBSET Pending[p]
  BY DEF Pending
<1>3. QED
  BY <1>1, <1>2, Zenon DEF Promise!Resolve, Pending

(* A step that leaves everything the group can see alone.                  *)
LEMMA StutterStep ==
  ASSUME brokerPos' = brokerPos, assigned' = assigned,
         \A q \in Partitions : Unprocessed(q)' = Unprocessed(q)
  PROVE  UNCHANGED Promise!vars
  BY DEF Promise!vars

(* HandleRebalance: entering and leaving the assigned map are Acquire and  *)
(* Release; the acknowledgements may only drop what was pending, because   *)
(* compaction has removed a record while it was in flight.                 *)
LEMMA RebalanceRefines ==
  ASSUME TypeOK, OwnershipInv, SafetyInv, NEW p \in Partitions, Rebalance(p)
  PROVE  Promise!Next
<1>1. /\ brokerPos' = brokerPos /\ log' = log /\ done' = done /\ inflight' = inflight
      /\ \A q \in Partitions \ {p} : phase'[q] = phase[q] /\ epoch'[q] = epoch[q]
  BY DEF Rebalance, AssignReset, ResetPrevOffsets, MarkPartitionAssigned, AckAssign, BeginDrain,
         MarkPartitionRevoked, AckRevoke, Enter, brokerVars, TypeOK
<1>2. \A q \in Partitions \ {p} : Unprocessed(q)' = Unprocessed(q)
  BY <1>1, PendingFrame, ZenonT(30)
<1>3. CASE assigned' = assigned
  <2>1. Current(p)' \subseteq Current(p)
    <3>1. CASE AssignReset(p)
      <4>1. epoch[p] \in Nat /\ epoch'[p] = epoch[p] + 1
        BY <3>1 DEF AssignReset, TypeOK
      <4>2. \A w \in inflight[p] : w.readTime \in Nat /\ w.readTime <= epoch[p]
        BY DEF SafetyInv, ReadSafe, TypeOK, WorkItem
      <4>3. QED
        BY <1>1, <4>1, <4>2 DEF Current
    <3>2. CASE ~AssignReset(p)
      BY <1>1, <3>2 DEF Rebalance, MarkPartitionAssigned, AckAssign, BeginDrain,
         MarkPartitionRevoked, AckRevoke, Enter, Current, TypeOK
    <3>3. QED
      BY <3>1, <3>2
  <2>2. Unprocessed(p)' \subseteq Unprocessed(p)
    BY <1>1, <2>1 DEF Unprocessed
  <2>3. QED
    BY <1>1, <1>2, <1>3, <2>2, ResolveStep, ZenonT(30) DEF Promise!Next
<1>4. CASE assigned' # assigned
  <2>1. /\ MarkPartitionAssigned(p) \/ MarkPartitionRevoked(p)
        /\ assigned' = assigned \cup {p} \/ assigned' = assigned \ {p}
        /\ phase[p] # "unowned" /\ phase'[p] # "unowned" /\ epoch' = epoch
    BY <1>4 DEF Rebalance, AssignReset, MarkPartitionAssigned, AckAssign, BeginDrain,
         MarkPartitionRevoked, AckRevoke, Enter, committerVars, TypeOK
  <2>2. Unprocessed(p)' = Unprocessed(p)
    BY <1>1, <2>1, ZenonT(30) DEF Unprocessed, Current
  <2>3. Pending' = Pending
    BY <1>2, <2>2 DEF Pending
  <2>4. QED
    BY <1>1, <2>1, <2>3 DEF Promise!Next, Promise!Acquire, Promise!Release, Pending
<1>5. QED
  BY <1>3, <1>4

(* Reading a record changes neither what is pending nor a position.        *)
LEMMA DeliverRefines ==
  ASSUME TypeOK, NEW p \in Partitions, NEW o \in log[p], Deliver(p, o)
  PROVE  UNCHANGED Promise!vars
<1>1. /\ brokerPos' = brokerPos /\ assigned' = assigned /\ log' = log /\ done' = done
      /\ phase' = phase /\ epoch' = epoch
      /\ inflight' = [inflight EXCEPT ![p] = @ \cup {Stamped(p, o)}]
  BY DEF Deliver, brokerVars, committerVars
<1>2. inflight'[p] = inflight[p] \cup {Stamped(p, o)}
  BY <1>1 DEF TypeOK
<1>3. \A q \in Partitions \ {p} : inflight'[q] = inflight[q]
  BY <1>1 DEF TypeOK
<1>4. \A q \in Partitions \ {p} : Unprocessed(q)' = Unprocessed(q)
  BY <1>1, <1>3, PendingFrame
<1>5. Stamped(p, o).offset = o
  BY DEF Stamped
<1>6. /\ Current(p) \subseteq Current(p)'
      /\ Current(p)' \subseteq Current(p) \cup {Stamped(p, o)}
  BY <1>1, <1>2 DEF Current
<1>7. Unprocessed(p)' = Unprocessed(p)
  BY <1>1, <1>5, <1>6 DEF Unprocessed
<1>8. QED
  BY <1>1, <1>4, <1>7, StutterStep

(* Ingesting a completion, and compaction, resolve a record.               *)
LEMMA IngestRefines ==
  ASSUME TypeOK, NEW p \in Partitions, NEW w \in inflight[p], ProcessCommitItem(p, w)
  PROVE  Promise!Resolve(p)
<1>1. /\ brokerPos' = brokerPos /\ assigned' = assigned /\ log' = log
      /\ phase' = phase /\ epoch' = epoch
  BY DEF ProcessCommitItem, brokerVars
<1>2. inflight'[p] = inflight[p] \ {w} /\ done'[p] = done[p] \cup {w.offset}
  BY DEF ProcessCommitItem, TypeOK
<1>3. \A q \in Partitions \ {p} : inflight'[q] = inflight[q] /\ done'[q] = done[q]
  BY DEF ProcessCommitItem, TypeOK
<1>4. \A q \in Partitions \ {p} : Unprocessed(q)' = Unprocessed(q)
  BY <1>1, <1>3, PendingFrame
<1>5. Unprocessed(p)' \subseteq Unprocessed(p)
  BY <1>1, <1>2 DEF Unprocessed, Current
<1>6. QED
  BY <1>1, <1>4, <1>5, ResolveStep

LEMMA CompactRefines ==
  ASSUME TypeOK, NEW p \in Partitions, NEW o \in log[p], Compact(p, o)
  PROVE  Promise!Resolve(p)
<1>1. /\ brokerPos' = brokerPos /\ assigned' = assigned /\ done' = done
      /\ phase' = phase /\ epoch' = epoch /\ inflight' = inflight
  BY DEF Compact, committerVars
<1>2. log'[p] \subseteq log[p] /\ \A q \in Partitions \ {p} : log'[q] = log[q]
  BY DEF Compact, TypeOK
<1>3. \A q \in Partitions \ {p} : Unprocessed(q)' = Unprocessed(q)
  BY <1>1, <1>2, PendingFrame
<1>4. Unprocessed(p)' \subseteq Unprocessed(p)
  BY <1>1, <1>2 DEF Unprocessed, Current
<1>5. QED
  BY <1>1, <1>3, <1>4, ResolveStep

(* A step of another owner: what it leaves pending lies at or above the    *)
(* position it commits, because SafetyInv holds after the step.            *)
LEMMA OtherOwnerRefines ==
  ASSUME TypeOK, TypeOK', OwnershipInv, SafetyInv', NEW p \in Partitions, NEW o \in log[p],
         OtherOwnerCommits(p, o)
  PROVE  Promise!OthersCommit(p)
<1>1. /\ assigned' = assigned /\ log' = log /\ phase' = phase /\ epoch' = epoch
      /\ inflight' = inflight /\ phase[p] = "unowned" /\ o >= brokerPos[p]
      /\ brokerPos' = [brokerPos EXCEPT ![p] = o + 1]
  BY DEF OtherOwnerCommits, committerVars
<1>2. done[p] \subseteq done'[p] /\ \A q \in Partitions \ {p} : done'[q] = done[q]
  BY DEF OtherOwnerCommits, TypeOK
<1>3. \A q \in Partitions \ {p} : Unprocessed(q)' = Unprocessed(q)
  BY <1>1, <1>2, PendingFrame
<1>4. Unprocessed(p)' \subseteq Unprocessed(p)
  BY <1>1, <1>2 DEF Unprocessed, Current
<1>5. /\ Pending' = [Pending EXCEPT ![p] = Unprocessed(p)']
      /\ Unprocessed(p)' \in SUBSET Pending[p]
      /\ Pending'[p] = Unprocessed(p)'
  BY <1>3, <1>4, Zenon DEF Pending
<1>6. p \notin assigned
  BY <1>1 DEF OwnershipInv
<1>7. brokerPos'[p] = o + 1 /\ o \in Int /\ brokerPos[p] \in Int
  BY <1>1, OffsetAssumption DEF TypeOK, Records
<1>8. brokerPos[p] < brokerPos'[p] /\ brokerPos' = [brokerPos EXCEPT ![p] = brokerPos'[p]]
  <2>1. brokerPos' = [brokerPos EXCEPT ![p] = brokerPos'[p]]
    BY <1>1, <1>7, Zenon
  <2>2. brokerPos[p] <= o
    BY <1>1, <1>7
  <2>3. QED
    BY <1>7, <2>1, <2>2
<1>9. \A r \in Unprocessed(p)' : brokerPos'[p] <= r
  BY DEF SafetyInv
<1>10. QED
  BY <1>1, <1>5, <1>6, <1>8, <1>9, Zenon DEF Promise!OthersCommit, Promise!Advances, Pending

(* A tick: every position that moves belongs to an assigned partition,     *)
(* moves forward, and stays at or below what is pending.                   *)
LEMMA CommitRefines ==
  ASSUME MonotonicHyp, TypeOK', SafetyInv', NEW answer \in Answers, NEW twin \in Twins,
         CommitOffsets(answer, twin)
  PROVE  Promise!Commit
<1>1. /\ assigned' = assigned /\ log' = log /\ phase' = phase /\ epoch' = epoch
      /\ inflight' = inflight /\ done' = done
  BY DEF CommitOffsets
<1>2. \A q \in Partitions : Unprocessed(q)' = Unprocessed(q)
  BY <1>1, PendingFrame
<1>3. Pending' = Pending
  BY <1>2 DEF Pending
<1>4. brokerPos' \in [Partitions -> Int]
  BY DEF TypeOK
<1>5. ASSUME NEW p \in Partitions, brokerPos'[p] # brokerPos[p]
      PROVE  p \in assigned /\ brokerPos[p] < brokerPos'[p] /\ \A o \in Pending'[p] : brokerPos'[p] <= o
  <2>1. p \in assigned
    <3>1. tracker[p] \in Tracker
      BY DEF MonotonicHyp, TypeOK
    <3>2. PrepareCommit(tracker[p], p \in assigned, twin[p]).ready # {}
      BY <1>5 DEF CommitOffsets, Prepared, BrokerPosAfter
    <3>3. QED
      BY <3>1, <3>2, UnassignedNotCommitted
  <2>2. brokerPos[p] <= brokerPos'[p]
    BY CommitOffsetsMonotonic
  <2>3. brokerPos[p] \in Int /\ brokerPos'[p] \in Int
    BY DEF MonotonicHyp, TypeOK
  <2>4. Pending'[p] = Unprocessed(p)'
    BY DEF Pending
  <2>5. QED
    BY <1>5, <2>1, <2>2, <2>3, <2>4 DEF SafetyInv
<1>6. QED
  BY <1>1, <1>3, <1>4, <1>5 DEF Promise!Commit, Promise!Advances, Pending

(* Every step of the committer is a step of CommitLog, or leaves all that  *)
(* the group can see alone.                                                *)
LEMMA PromiseStep ==
  ASSUME MonotonicHyp, [Next]_vars
  PROVE  [Promise!Next]_(Promise!vars)
<1>1. TypeOK /\ SafetyInv /\ OwnershipInv /\ TypeOK' /\ SafetyInv'
  BY SafetyStep DEF MonotonicHyp
<1>2. CASE \E p \in Partitions : Rebalance(p)
  BY <1>1, <1>2, RebalanceRefines
<1>3. CASE \E p \in Partitions : \E o \in log[p] : Deliver(p, o)
  BY <1>1, <1>3, DeliverRefines
<1>4. CASE \E p \in Partitions : \E w \in inflight[p] : ProcessCommitItem(p, w)
  BY <1>1, <1>4, IngestRefines DEF Promise!Next
<1>5. CASE EndBatch
  <2>1. /\ brokerPos' = brokerPos /\ assigned' = assigned
        /\ log' = log /\ done' = done /\ phase' = phase /\ epoch' = epoch /\ inflight' = inflight
    BY <1>5 DEF EndBatch, brokerVars
  <2>2. \A q \in Partitions : Unprocessed(q)' = Unprocessed(q)
    BY <2>1, PendingFrame
  <2>3. QED
    BY <2>1, <2>2, StutterStep
<1>6. CASE \E answer \in Answers, twin \in Twins : CommitOffsets(answer, twin)
  BY <1>1, <1>6, CommitRefines DEF Promise!Next
<1>7. CASE \E p \in Partitions : \E o \in log[p] : OtherOwnerCommits(p, o)
  BY <1>1, <1>7, OtherOwnerRefines DEF Promise!Next
<1>8. CASE \E p \in Partitions : \E o \in log[p] : Compact(p, o)
  BY <1>1, <1>8, CompactRefines DEF Promise!Next
<1>9. CASE UNCHANGED vars
  <2>1. /\ brokerPos' = brokerPos /\ assigned' = assigned
        /\ log' = log /\ done' = done /\ phase' = phase /\ epoch' = epoch /\ inflight' = inflight
    BY <1>9 DEF vars
  <2>2. \A q \in Partitions : Unprocessed(q)' = Unprocessed(q)
    BY <2>1, PendingFrame
  <2>3. QED
    BY <2>1, <2>2, StutterStep
<1>10. QED
  BY <1>2, <1>3, <1>4, <1>5, <1>6, <1>7, <1>8, <1>9, ZenonT(30) DEF Next

(* The promise, in general: when the adapter always knows the committed    *)
(* position of the partitions it assigns, the committer (HandleRebalance,  *)
(* processCommit, flushGapBuffers, repairSuccessor, CommitOffsets)         *)
(* implements CommitLog.                                                   *)
THEOREM CommitterImplementsCommitLog ==
  ASSUME ~LookupMayFail
  PROVE  Spec => ImplementsCommitLog
<1>1. Init => Promise!Init /\ MonotonicInv
  <2> SUFFICES ASSUME Init
               PROVE  Promise!Init /\ MonotonicInv
    OBVIOUS
  <2>1. MonotonicInv
    BY DEF Init, MonotonicInv, ReadyUnique, OffsetsBounded, NewTracker
  <2>2. \A p \in Partitions : Unprocessed(p) \in SUBSET Records
    BY DEF Init, Unprocessed, Current
  <2>3. Pending \in [Partitions -> SUBSET Records]
    BY <2>2 DEF Pending
  <2>4. QED
    BY <2>1, <2>3 DEF Init, Promise!Init, Pending
<1>2. TypeOK /\ SafetyInv /\ OwnershipInv /\ MonotonicInv /\ [Next]_vars
        => MonotonicInv' /\ [Promise!Next]_(Promise!vars)
  BY MonotonicStep, PromiseStep DEF MonotonicHyp
<1>3. QED
  BY <1>1, <1>2, SafetyInvariant, OwnershipInvariant, PTL DEF Spec, ImplementsCommitLog, Promise!Spec
=============================================================================
