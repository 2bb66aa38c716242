---------------------------- MODULE TrackerLoops ----------------------------
(***************************************************************************)
(* The loops a commit tick runs over one tracker, one iteration per step:  *)
(* flushGapBuffers sorts, compacts and walks the buffer of a flagged       *)
(* tracker; then, when Ready is empty, repairSuccessor scans the buffer    *)
(* for a successor and prunes what is below it.  They are compared with    *)
(* FlushGapBuffer and RepairSuccessor, the operators by which              *)
(* OffsetCommitter describes each of them at once, and they account for    *)
(* the work items handed back to the pool.                                 *)
(***************************************************************************)
EXTENDS OffsetsTracker, Sequences, Functions

CONSTANTS
  MaxOffset,    \* bound: the highest offset of a work item
  MaxRead,      \* bound: the epochs that read the items
  MaxBuffered,  \* bound: how many items are buffered
  Firsts,       \* bound: the items' First flags, which no loop reads
  Assignments   \* bound: the tracker's marks, which no loop reads

ASSUME LoopAssumption == {MaxOffset, MaxBuffered} \subseteq Nat /\ MaxRead \in Nat \ {0}

VARIABLES
  t,         \* the tracker when the tick begins
  buffer,    \* tracker.GapBuffer, already sorted when t is flagged
  i,         \* the index of the next buffered item
  ready,     \* tracker.Ready; in repairSuccessor, the successor chosen so far
  advanced,  \* advancedOffsetIndex (0 for -1: sequences start at 1)
  kept,      \* the items the compact, or repairSuccessor's prune pass, has kept
  returned,  \* the items handed to returnMessageAndCollectMetrics, in order
  pc         \* "compact", "walk", "trim", "flushed", "scan", "prune" or "done"

vars == <<t, buffer, i, ready, advanced, kept, returned, pc>>

(* Mutant: of two twins the older one comes first, so the compact drops    *)
(* the current epoch's stamp.                                              *)
SortsBeforeOlderFirst(a, b) ==
  a.offset < b.offset \/ (a.offset = b.offset /\ a.readTime < b.readTime)

(* The order sortGapBuffer gives SortFunc: by offset, of two twins the one *)
(* read later first.                                                       *)
SortsBefore(a, b) ==
  a.offset < b.offset \/ (a.offset = b.offset /\ a.readTime > b.readTime)

Sorted(items) == \A j, k \in DOMAIN items : j < k => SortsBefore(items[j], items[k])

-----------------------------------------------------------------------------
(* Trackers at the start of a tick, as IsTracker describes them, with the  *)
(* buffer in any order.  An unflagged one matters only when Ready is       *)
(* empty: otherwise the tick leaves it alone.                              *)
Items ==
  {w \in [offset : 0 .. MaxOffset, previousOffset : -1 .. MaxOffset - 1,
          first : Firsts, readTime : 1 .. MaxRead] : w.previousOffset < w.offset}

Buffers ==
  {b \in UNION {[1 .. n -> Items] : n \in 0 .. MaxBuffered} :
     \A j, k \in DOMAIN b : b[j].offset = b[k].offset /\ b[j].readTime = b[k].readTime => j = k}

(* An unflagged buffer is in the order its items arrived in; a flagged one *)
(* has been through SortFunc.                                              *)
Init ==
  /\ buffer \in Buffers
  /\ \E flag \in BOOLEAN, r \in {{}} \cup {{w} : w \in Items}, baseline \in -1 .. MaxOffset + 1,
        anchor \in -1 .. MaxOffset, mark \in Assignments :
       /\ IF flag THEN Sorted(buffer) ELSE r = {}
       /\ t = [ready |-> r, committedPlusOne |-> baseline, lastCommittedOffset |-> anchor,
               assignment |-> mark, gapBuffer |-> Range(buffer), needsGapAdvance |-> flag]
  /\ IsTracker(t, MaxOffset, MaxRead)
  /\ i = 1
  /\ ready = t.ready
  /\ advanced = 0
  /\ kept = <<>>
  /\ returned = <<>>
  /\ pc = IF t.needsGapAdvance THEN "compact" ELSE "flushed"

-----------------------------------------------------------------------------
(* flushGapBuffers: the compact of sortGapBuffer, then the walk.           *)

g == buffer[i]

(* CompactFunc keeps the first of each run of equal offsets.  (Without     *)
(* twins it would keep all; foundDuplicate only saves the work.)           *)
CompactItem ==
  /\ pc = "compact" /\ i <= Len(buffer)
  /\ kept' = IF i > 1 /\ buffer[i - 1].offset = g.offset THEN kept ELSE Append(kept, g)
  /\ i' = i + 1
  /\ UNCHANGED <<t, buffer, ready, advanced, returned, pc>>

EndCompact ==
  /\ pc = "compact" /\ i > Len(buffer)
  /\ pc' = "walk"
  /\ buffer' = kept
  /\ kept' = <<>>
  /\ i' = 1
  /\ UNCHANGED <<t, ready, advanced, returned>>

InLoop == pc = "walk" /\ i <= Len(buffer)

(* The loop body went past item i, and handed items back.                  *)
Consumed(newReady, handedBack) ==
  /\ ready' = newReady
  /\ returned' = returned \o handedBack
  /\ advanced' = i
  /\ i' = i + 1
  /\ UNCHANGED <<t, buffer, kept, pc>>

PruneBelowBaseline ==
  /\ InLoop /\ ready = {} /\ g.offset < t.committedPlusOne
  /\ Consumed({}, <<g>>)

Initialise ==
  /\ InLoop /\ ready = {} /\ g.offset >= t.committedPlusOne
  /\ InitialisesReady(t, g)
  /\ Consumed({g}, <<>>)

PruneAtOrBelowReady ==
  /\ InLoop
  /\ \E r \in ready : g.offset <= r.offset
  /\ Consumed(ready, <<g>>)

(* Mutant: the item Ready held before is not handed back.                  *)
AdvanceLeaks ==
  /\ InLoop
  /\ \E r \in ready : g.offset > r.offset /\ r.offset = g.previousOffset
  /\ Consumed({g}, <<>>)

Advance ==
  /\ InLoop
  /\ \E r \in ready : /\ g.offset > r.offset /\ r.offset = g.previousOffset
                      /\ Consumed({g}, <<r>>)

(* break walk, from either of its two cases.                               *)
BreakWalk ==
  /\ InLoop
  /\ \/ ready = {} /\ g.offset >= t.committedPlusOne /\ ~InitialisesReady(t, g)
     \/ \E r \in ready : g.offset > r.offset /\ r.offset # g.previousOffset
  /\ pc' = "trim"
  /\ UNCHANGED <<t, buffer, i, ready, advanced, kept, returned>>

EndOfBuffer ==
  /\ pc = "walk" /\ i > Len(buffer)
  /\ pc' = "trim"
  /\ UNCHANGED <<t, buffer, i, ready, advanced, kept, returned>>

Trim ==
  /\ pc = "trim"
  /\ pc' = "flushed"
  /\ buffer' = SubSeq(buffer, advanced + 1, Len(buffer))
  /\ UNCHANGED <<t, i, ready, advanced, kept, returned>>

-----------------------------------------------------------------------------
(* repairSuccessor.                                                        *)

(* The early returns; the flush has cleared the flag by now.               *)
Gated == ready # {} \/ buffer = <<>> \/ t.lastCommittedOffset < 0

Repair ==
  /\ pc = "flushed"
  /\ pc' = IF Gated THEN "done" ELSE "scan"
  /\ i' = 1
  /\ UNCHANGED <<t, buffer, ready, advanced, kept, returned>>

(* Mutant: the first provable item wins, not the lowest.                   *)
ChoosesFirst ==
  /\ g.offset >= t.committedPlusOne
  /\ ready = {}
  /\ \/ g.offset = t.committedPlusOne
     \/ g.previousOffset >= 0 /\ g.previousOffset <= t.lastCommittedOffset

(* The switch of the scan: which items replace the successor.              *)
Chooses ==
  /\ g.offset >= t.committedPlusOne
  /\ \A s \in ready : g.offset < s.offset
  /\ \/ g.offset = t.committedPlusOne
     \/ g.previousOffset >= 0 /\ g.previousOffset <= t.lastCommittedOffset

ScanItem ==
  /\ pc = "scan" /\ i <= Len(buffer)
  /\ ready' = IF Chooses THEN {g} ELSE ready
  /\ i' = i + 1
  /\ UNCHANGED <<t, buffer, advanced, kept, returned, pc>>

EndScan ==
  /\ pc = "scan" /\ i > Len(buffer)
  /\ pc' = IF ready = {} THEN "done" ELSE "prune"
  /\ i' = 1
  /\ UNCHANGED <<t, buffer, ready, advanced, kept, returned>>

PruneItem ==
  /\ pc = "prune" /\ i <= Len(buffer)
  /\ LET stale == \E s \in ready : g.offset < s.offset
     IN  /\ kept' = IF stale \/ g \in ready THEN kept ELSE Append(kept, g)
         /\ returned' = IF stale THEN Append(returned, g) ELSE returned
  /\ i' = i + 1
  /\ UNCHANGED <<t, buffer, ready, advanced, pc>>

Promote ==
  /\ pc = "prune" /\ i > Len(buffer)
  /\ pc' = "done"
  /\ buffer' = kept
  /\ UNCHANGED <<t, i, ready, advanced, kept, returned>>

Next ==
  \/ CompactItem
  \/ EndCompact
  \/ PruneBelowBaseline
  \/ Initialise
  \/ PruneAtOrBelowReady
  \/ Advance
  \/ BreakWalk
  \/ EndOfBuffer
  \/ Trim
  \/ Repair
  \/ ScanItem
  \/ EndScan
  \/ PruneItem
  \/ Promote

Spec == Init /\ [][Next]_vars

-----------------------------------------------------------------------------
(* The walk ends with the tracker FlushGapBuffer describes.                *)
WalkIsFlush ==
  pc = "flushed" =>
    FlushGapBuffer(t) = [t EXCEPT !.needsGapAdvance = FALSE,
                                  !.ready = ready, !.gapBuffer = Range(buffer)]

Repaired ==
  LET flushed == FlushGapBuffer(t)
      promoted == flushed.ready = {} /\ ready # {}
  IN  \E twin \in 1 .. MaxRead :
        RepairSuccessor(flushed, twin) =
          [t EXCEPT !.ready = ready, !.gapBuffer = Range(buffer),
                    !.needsGapAdvance = promoted /\ buffer # <<>>]

(* The tick leaves the tracker RepairSuccessor describes for the flushed   *)
(* one, whatever the order of the buffer (which decides between twins).    *)
ScanIsRepair == pc = "done" => Repaired

(* Every work item the tick started with is, at the end, in exactly one    *)
(* place: still buffered, in Ready, or handed back once.  The one          *)
(* exception is a twin the compact of a flush dropped, which is nowhere.   *)
(* (returnMessageAndCollectMetrics, sortGapBuffer, the prune passes)       *)
WorkItemAccounting ==
  pc = "done" =>
    LET places(w) == {<<"returned", k>> : k \in {j \in DOMAIN returned : returned[j] = w}}
                       \cup {<<"buffered", k>> : k \in {j \in DOMAIN buffer : buffer[j] = w}}
                       \cup {<<"ready", 1>> : r \in ready \cap {w}}
        compacted == IF t.needsGapAdvance THEN t.gapBuffer \ Deduped(t.gapBuffer) ELSE {}
    IN  \A w \in t.ready \cup t.gapBuffer :
          IF w \in compacted THEN places(w) = {} ELSE \E p \in places(w) : places(w) = {p}

-----------------------------------------------------------------------------
(* Behind them, what each loop has done after i - 1 iterations.            *)

LoopTypes ==
  /\ t \in [ready : SUBSET Items, committedPlusOne : Int, lastCommittedOffset : Int,
            assignment : Assignments, gapBuffer : SUBSET Items, needsGapAdvance : BOOLEAN]
  /\ \A r \in t.ready, w \in t.gapBuffer : r.offset = w.offset => r.readTime # w.readTime
  /\ \A v, w \in t.gapBuffer : v.offset = w.offset /\ v.readTime = w.readTime => v = w
  /\ \A v, w \in t.ready : v = w
  /\ ready \subseteq Items /\ \A v, w \in ready : v = w
  /\ buffer \in Seq(Items) /\ kept \in Seq(Items) /\ returned \in Seq(Items)
  /\ i \in Nat \ {0}
  /\ pc \in {"compact", "walk", "trim", "flushed", "scan", "prune", "done"}

Increasing(items) == \A j, k \in DOMAIN items : j < k => items[j].offset < items[k].offset

Passed == {buffer[j] : j \in {k \in DOMAIN buffer : k < i}}

Ahead == {buffer[j] : j \in {k \in DOMAIN buffer : k >= i}}

CompactInv ==
  /\ t.needsGapAdvance /\ ready = t.ready /\ returned = <<>> /\ advanced = 0
  /\ Sorted(buffer) /\ Range(buffer) = t.gapBuffer
  /\ Increasing(kept) /\ Range(kept) \subseteq Passed \cap Deduped(t.gapBuffer)
  /\ \A w \in Passed : \E v \in Range(kept) : v.offset = w.offset

(* The walk holds what it has reached, and has handed back the rest.       *)
WalkInv ==
  LET deduped == Deduped(t.gapBuffer)
  IN  /\ t.needsGapAdvance /\ kept = <<>> /\ advanced = i - 1 /\ i <= Len(buffer) + 1
      /\ Increasing(buffer) /\ Range(buffer) = deduped
      /\ ready = {} => t.ready = {} /\ \A w \in Passed : w.offset < t.committedPlusOne
      /\ \A r \in ready :
           /\ \A w \in Passed : w.offset <= r.offset
           /\ \E s \in WalkStart(t, deduped) : r = s \/ r \in Reached(deduped, s.offset)
      /\ IsInjective(returned) /\ Range(returned) \cap ready = {}
      /\ Range(returned) \cup ready = t.ready \cup Passed

Stopped ==
  i <= Len(buffer) =>
    \/ ready = {} /\ g.offset >= t.committedPlusOne /\ ~InitialisesReady(t, g)
    \/ \E r \in ready : g.offset > r.offset /\ r.offset # g.previousOffset

Flushed(r, items) ==
  FlushGapBuffer(t) = [t EXCEPT !.needsGapAdvance = FALSE, !.ready = r, !.gapBuffer = items]

(* Everything the tick still accounts for is in one of the three places.   *)
Shared(handedBack, buffered, r) ==
  /\ handedBack \cup buffered \cup r =
       t.ready \cup (IF t.needsGapAdvance THEN Deduped(t.gapBuffer) ELSE t.gapBuffer)
  /\ handedBack \cap buffered = {} /\ handedBack \cap r = {} /\ buffered \cap r = {}

FlushedInv ==
  /\ Flushed(ready, Range(buffer)) /\ kept = <<>>
  /\ IsInjective(buffer) /\ IsInjective(returned) /\ Shared(Range(returned), Range(buffer), ready)

(* The successor is the lowest among these.                                *)
LowestIn(items) ==
  /\ \A s \in ready : s \in items /\ ProvableSuccessor(t, s)
  /\ \A w \in items : ProvableSuccessor(t, w) => \E s \in ready : s.offset <= w.offset

ScanInv ==
  /\ Flushed({}, Range(buffer)) /\ kept = <<>> /\ t.lastCommittedOffset >= 0
  /\ LowestIn(Passed)
  /\ IsInjective(buffer) /\ IsInjective(returned) /\ Shared(Range(returned), Range(buffer), {})

PruneInv ==
  /\ Flushed({}, Range(buffer)) /\ t.lastCommittedOffset >= 0
  /\ ready # {} /\ LowestIn(Range(buffer))
  /\ Range(kept) = {w \in Passed \ ready : \A s \in ready : w.offset >= s.offset}
  /\ IsInjective(buffer) /\ IsInjective(kept) /\ IsInjective(returned)
  /\ Shared(Range(returned), Range(kept) \cup (Ahead \ ready), ready)

DoneInv ==
  /\ Repaired
  /\ IsInjective(buffer) /\ IsInjective(returned) /\ Shared(Range(returned), Range(buffer), ready)

LoopInv ==
  /\ LoopTypes
  /\ pc = "compact" => CompactInv
  /\ pc \in {"walk", "trim"} => WalkInv
  /\ pc = "trim" => Stopped
  /\ pc = "flushed" => FlushedInv
  /\ pc = "scan" => ScanInv
  /\ pc = "prune" => PruneInv
  /\ pc = "done" => DoneInv
=============================================================================
