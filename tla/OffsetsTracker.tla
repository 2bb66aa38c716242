---------------------------- MODULE OffsetsTracker ----------------------------
(***************************************************************************)
(* The per-partition watermark algorithm of demux/offset: what the         *)
(* committer does to ONE partition's OffsetsTracker.  No variables: every  *)
(* operator maps a tracker to the tracker the Go method leaves behind.     *)
(*                                                                         *)
(* Abstractions.  The gap buffer is a set: its order is only read by the   *)
(* flush walk, which sorts it first.  Ready is a set with at most one work *)
(* item, {} standing for nil.  A work item keeps the four fields the       *)
(* algorithm reads; readTime only has to order the reads of two ownership  *)
(* epochs, so it is the number of the epoch that read the item.  A tracker *)
(* that the Go map does not hold yet is NewTracker: both creation sites    *)
(* (processCommit, ResetCommittedOffsets) start from those values.         *)
(***************************************************************************)
EXTENDS Integers

WorkItem == [offset : Nat, previousOffset : Int, first : BOOLEAN, readTime : Nat]

Tracker == [ready : SUBSET WorkItem,
            committedPlusOne : Int,
            lastCommittedOffset : Int,
            assignment : {"Assign", "Revoke"},
            gapBuffer : SUBSET WorkItem,
            needsGapAdvance : BOOLEAN]

NewTracker == [ready |-> {},
               committedPlusOne |-> -1,
               lastCommittedOffset |-> -1,
               assignment |-> "Assign",
               gapBuffer |-> {},
               needsGapAdvance |-> FALSE]

Held(t) == t.ready \cup t.gapBuffer

(* What a tracker in use looks like: its items are records of the log read *)
(* in an epoch, each buffered once or in Ready, and the last committed     *)
(* record is below the baseline.                                           *)
IsTracker(t, maxOffset, maxRead) ==
  /\ \A w \in Held(t) :
       /\ w.offset \in 0 .. maxOffset /\ w.readTime \in 1 .. maxRead
       /\ w.previousOffset \in -1 .. w.offset - 1
  /\ \A v, w \in Held(t) : v.offset = w.offset /\ v.readTime = w.readTime => v = w
  /\ t.ready \cap t.gapBuffer = {}
  /\ \A v, w \in t.ready : v = w
  /\ t.committedPlusOne \in -1 .. maxOffset + 1
  /\ t.lastCommittedOffset \in -1 .. maxOffset
  /\ t.lastCommittedOffset >= 0 => t.lastCommittedOffset < t.committedPlusOne

-----------------------------------------------------------------------------
(* Ingest of one completed work item.                                      *)

AddToGapBuffer(t, w) == [t EXCEPT !.gapBuffer = @ \cup {w}]

(* Some buffered item names the new Ready record as its predecessor: ask   *)
(* the batch-end flush for the sort and walk.                              *)
AdvanceThroughGapBuffer(t) ==
  [t EXCEPT !.needsGapAdvance =
     @ \/ \E r \in t.ready, g \in t.gapBuffer : g.previousOffset = r.offset]

(* The two rules that may give an empty Ready a value.                     *)
InitialisesReady(t, w) ==
  \/ w.offset = t.committedPlusOne
  \/ /\ t.lastCommittedOffset >= 0
     /\ w.previousOffset = t.lastCommittedOffset

ReadyOffset(t) == (CHOOSE r \in t.ready : TRUE).offset

CheckAndAdvance(t, w) ==
  IF t.ready = {}
  THEN CASE t.committedPlusOne = w.offset ->
              AdvanceThroughGapBuffer([t EXCEPT !.ready = {w}])
         [] t.committedPlusOne > w.offset -> t
         [] t.committedPlusOne < w.offset ->
              [AddToGapBuffer(t, w) EXCEPT !.needsGapAdvance = @ \/ InitialisesReady(t, w)]
  ELSE CASE ReadyOffset(t) > w.offset -> t
         [] ReadyOffset(t) \in {w.previousOffset, w.offset} ->
              AdvanceThroughGapBuffer([t EXCEPT !.ready = {w}])
         [] OTHER -> AddToGapBuffer(t, w)

(* Mutant: a First record sets the baseline, also backwards.               *)
ProcessCommitFirstLowers(t, w) ==
  CheckAndAdvance([t EXCEPT !.committedPlusOne = IF w.first THEN w.offset ELSE @], w)

(* A First record may only raise the baseline.                             *)
ProcessCommit(t, w) ==
  CheckAndAdvance(
    [t EXCEPT !.committedPlusOne = IF w.first /\ w.offset >= @ THEN w.offset ELSE @], w)

-----------------------------------------------------------------------------
(* The batch-end flush.                                                    *)

(* sortGapBuffer: of two items with the same offset the later-read one is  *)
(* kept.                                                                   *)
Deduped(buffer) ==
  {g \in buffer : \A h \in buffer : h.offset = g.offset => h.readTime <= g.readTime}

(* h directly follows its predecessor in the sorted buffer: the predecessor *)
(* is the start of the walk or a buffered item above it, with nothing       *)
(* buffered in between.                                                     *)
Linked(buffer, start, h) ==
  /\ \/ h.previousOffset = start
     \/ \E k \in buffer : k.offset > start /\ k.offset = h.previousOffset
  /\ \A k \in buffer : ~ (h.previousOffset < k.offset /\ k.offset < h.offset)

(* The items the walk reaches from Ready: every buffered item from the     *)
(* start up to them is linked.                                             *)
Reached(buffer, start) ==
  {g \in buffer : /\ g.offset > start
                  /\ \A h \in buffer : (start < h.offset /\ h.offset <= g.offset)
                                         => Linked(buffer, start, h)}

(* Where the walk starts: the Ready record, or, when Ready is nil, the     *)
(* lowest buffered item at or above the baseline if a rule admits it.      *)
WalkStart(t, buffer) ==
  IF t.ready # {} THEN t.ready
  ELSE {g \in buffer : /\ g.offset >= t.committedPlusOne
                       /\ InitialisesReady(t, g)
                       /\ \A h \in buffer : h.offset >= t.committedPlusOne
                                              => g.offset <= h.offset}

Highest(items) == {g \in items : \A h \in items : h.offset <= g.offset}

FlushGapBuffer(t) ==
  IF ~t.needsGapAdvance THEN t
  ELSE LET buffer == Deduped(t.gapBuffer)
           start == WalkStart(t, buffer)
           ready == Highest(start \cup UNION {Reached(buffer, s.offset) : s \in start})
           kept == IF start = {}
                   THEN {g \in buffer : g.offset >= t.committedPlusOne}
                   ELSE {g \in buffer : \A r \in ready : g.offset > r.offset}
       IN  [t EXCEPT !.needsGapAdvance = FALSE, !.ready = ready, !.gapBuffer = kept]

-----------------------------------------------------------------------------
(* The commit tick.                                                        *)

(* Mutant: any item above the baseline counts as the successor.            *)
ProvableSuccessorUnproved(t, g) == g.offset >= t.committedPlusOne

(* repairSuccessor's two proofs that g holds the record right after the    *)
(* last committed one.                                                     *)
ProvableSuccessor(t, g) ==
  /\ g.offset >= t.committedPlusOne
  /\ \/ g.offset = t.committedPlusOne
     \/ 0 <= g.previousOffset /\ g.previousOffset <= t.lastCommittedOffset

(* The lowest provable successor.  Of several items with the same offset   *)
(* the scan takes the one that was buffered first, which may be any: twin  *)
(* is the epoch that read it.                                              *)
Successor(t, twin) ==
  LET provable == {g \in t.gapBuffer : ProvableSuccessor(t, g)}
      lowest == {g \in provable : \A h \in provable : g.offset <= h.offset}
      first == {g \in lowest : g.readTime = twin}
  IN  IF first # {} THEN first
      ELSE {g \in lowest : \A h \in lowest : h.readTime <= g.readTime}

(* Mutant: no repair.                                                      *)
RepairSuccessorNever(t, twin) == t

RepairSuccessor(t, twin) ==
  LET successor == Successor(t, twin)
      kept == {g \in t.gapBuffer \ successor : \A s \in successor : g.offset >= s.offset}
  IN  IF \/ t.ready # {}
         \/ t.needsGapAdvance
         \/ t.lastCommittedOffset < 0
         \/ successor = {}
      THEN t
      ELSE [t EXCEPT !.ready = successor, !.gapBuffer = kept, !.needsGapAdvance = kept # {}]

(* Mutant: a stale Ready is kept.                                          *)
DropStaleReadyNever(t) == t

(* A Ready below the baseline is discarded, never committed.               *)
DropStaleReady(t) ==
  IF \E r \in t.ready : r.offset < t.committedPlusOne
  THEN [t EXCEPT !.ready = {}, !.needsGapAdvance = @ \/ t.gapBuffer # {}]
  ELSE t

DiscardOrphanedTracker(t) ==
  IF t.ready = {} /\ t.gapBuffer = {} THEN t
  ELSE [t EXCEPT !.ready = {}, !.gapBuffer = {}, !.needsGapAdvance = FALSE]

(* What CommitOffsets does to a tracker before it calls the broker; the    *)
(* partition is part of the commit when Ready is left non-nil.             *)
PrepareCommit(t, isAssigned, twin) ==
  LET flushed == FlushGapBuffer(t)
  IN  IF isAssigned THEN DropStaleReady(RepairSuccessor(flushed, twin))
                    ELSE DiscardOrphanedTracker(flushed)

(* Mutants: the baseline is the committed record instead of the position   *)
(* after it; the flush is not asked to look at what is still buffered.     *)
CommitSucceededOffByOne(t) ==
  IF t.ready = {} THEN t
  ELSE [t EXCEPT !.committedPlusOne = IF ReadyOffset(t) > @ THEN ReadyOffset(t) ELSE @,
                 !.lastCommittedOffset = ReadyOffset(t), !.ready = {},
                 !.needsGapAdvance = @ \/ t.gapBuffer # {}]

CommitSucceededNoFlag(t) ==
  IF t.ready = {} THEN t
  ELSE [t EXCEPT !.committedPlusOne = ReadyOffset(t) + 1,
                 !.lastCommittedOffset = ReadyOffset(t), !.ready = {}]

(* What CommitOffsets does once the broker has accepted the commit.        *)
CommitSucceeded(t) ==
  IF t.ready = {} THEN t
  ELSE LET offset == ReadyOffset(t)
       IN  [t EXCEPT
              !.committedPlusOne = IF offset + 1 > @ THEN offset + 1 ELSE @,
              !.lastCommittedOffset = IF offset > @ THEN offset ELSE @,
              !.ready = {},
              !.needsGapAdvance = @ \/ t.gapBuffer # {}]

-----------------------------------------------------------------------------
(* Rebalance.                                                              *)

ResetCommittedOffset(t, baseline) ==
  LET buffer == IF t.assignment = "Revoke" THEN {} ELSE t.gapBuffer
  IN  [ready |-> IF t.assignment = "Revoke" THEN {}
                 ELSE {r \in t.ready : r.offset >= baseline},
       committedPlusOne |-> baseline,
       lastCommittedOffset |-> -1,
       assignment |-> "Assign",
       gapBuffer |-> buffer,
       needsGapAdvance |-> buffer # {}]

(* Mutant: the mark is the zero value instead of Revoke.                   *)
MarkTrackerZero(t) == [t EXCEPT !.assignment = ""]

MarkTrackerRevoked(t) == [t EXCEPT !.assignment = "Revoke"]
=============================================================================
