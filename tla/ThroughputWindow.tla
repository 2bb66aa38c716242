-------------------------- MODULE ThroughputWindow --------------------------
(***************************************************************************)
(* demux/offset/committer_metrics.go and demux/metrics/snapshot: the ring  *)
(* of per-second counters the committer fills as it hands work items back, *)
(* and the snapshot that turns it into labelled windows.  Messages are     *)
(* recorded when their watermark passes them, so with completion times in  *)
(* any order; the snapshot is taken on another goroutine, which reads the  *)
(* clock first and the ring later.                                         *)
(***************************************************************************)
EXTENDS Integers, Sequences, FiniteSetsExt

CONSTANTS
  BucketCount,    \* buckets in the ring
  BucketSeconds,  \* seconds per bucket
  Durations,      \* end-to-end durations, in some unit; a read precedes its advance
  MaxSeconds,     \* bound: the clock
  MaxRecords      \* bound: messages recorded

ASSUME WindowAssumption ==
  /\ {BucketCount, BucketSeconds} \subseteq Nat \ {0}
  /\ Durations \subseteq Nat \ {0}
  /\ {MaxSeconds, MaxRecords} \subseteq Nat

VARIABLES
  clock,     \* time.Now(), in seconds
  ring,      \* the metricsRingBuffer
  recorded,  \* history: the epoch each message was counted in, and what it was
  snap       \* TakeSnapshot: what it has read so far

windowVars == <<clock, ring, recorded, snap>>

Slots == 0 .. BucketCount - 1

Epoch(seconds) == seconds \div BucketSeconds

EmptyBucket == [count |-> 0, deadLetterCount |-> 0, maxEndToEnd |-> 0, minEndToEnd |-> 0]

NewRingBuffer(now) ==
  [buckets |-> [b \in Slots |-> EmptyBucket], currentIndex |-> 0, lastEpoch |-> Epoch(now)]

WindowInit ==
  /\ clock = 0
  /\ ring = NewRingBuffer(0)
  /\ recorded = <<>>
  /\ snap = [pc |-> "idle", now |-> 0, entries |-> <<>>]

-----------------------------------------------------------------------------
ClearedTo(rb, nowEpoch, gap, last) ==
  LET skipped == {(rb.currentIndex + i) % BucketCount : i \in 1 .. last}
  IN  [buckets |-> [b \in Slots |-> IF b \in skipped THEN EmptyBucket ELSE rb.buckets[b]],
       currentIndex |-> (rb.currentIndex + gap) % BucketCount,
       lastEpoch |-> nowEpoch]

Gap(rb, nowEpoch) == Min({nowEpoch - rb.lastEpoch, BucketCount})

(* Mutant: the bucket moved to keeps what it held a turn ago.              *)
AdvanceRingShort(rb, nowEpoch) == ClearedTo(rb, nowEpoch, Gap(rb, nowEpoch), Gap(rb, nowEpoch) - 1)

(* advance: skipped buckets are zeroed, at most once round.                *)
AdvanceRing(rb, nowEpoch) == ClearedTo(rb, nowEpoch, Gap(rb, nowEpoch), Gap(rb, nowEpoch))

Counted(b, endToEnd, deadLetter) ==
  [count |-> b.count + 1,
   deadLetterCount |-> b.deadLetterCount + (IF deadLetter THEN 1 ELSE 0),
   maxEndToEnd |-> Max({b.maxEndToEnd, endToEnd}),
   minEndToEnd |-> IF b.minEndToEnd = 0 \/ endToEnd < b.minEndToEnd THEN endToEnd ELSE b.minEndToEnd]

(* record: a message completed before the current bucket counts in it.     *)
Record(processedAt, endToEnd, deadLetter) ==
  LET nowEpoch == Epoch(processedAt)
      rb == IF nowEpoch > ring.lastEpoch THEN AdvanceRing(ring, nowEpoch) ELSE ring
  IN  /\ Len(recorded) < MaxRecords
      /\ ring' = [rb EXCEPT !.buckets[rb.currentIndex] = Counted(@, endToEnd, deadLetter)]
      /\ recorded' = Append(recorded, [epoch |-> rb.lastEpoch, endToEnd |-> endToEnd, deadLetter |-> deadLetter])
      /\ UNCHANGED <<clock, snap>>

Second ==
  /\ clock < MaxSeconds
  /\ clock' = clock + 1
  /\ UNCHANGED <<ring, recorded, snap>>

-----------------------------------------------------------------------------
(* windowData: the buckets, oldest first, and their extremes.              *)
WindowData(rb) ==
  LET filled == {b \in Slots : rb.buckets[b].count > 0}
  IN  [perBucket |-> [i \in Slots |-> rb.buckets[(rb.currentIndex + 1 + i) % BucketCount]],
       maxEndToEnd |-> Max({0} \cup {rb.buckets[b].maxEndToEnd : b \in Slots}),
       minEndToEnd |-> IF filled = {} THEN 0 ELSE Min({rb.buckets[b].minEndToEnd : b \in filled})]

(* Mutant: the counts are not reversed.                                    *)
BuildThroughputOldestFirst(now, wd) ==
  [i \in Slots |-> [from |-> Epoch(now) - i, processed |-> wd.perBucket[i].count]]

(* buildThroughput: most recent first, labelled from the bucket of now.    *)
BuildThroughput(now, wd) ==
  [i \in Slots |-> [from |-> Epoch(now) - i, processed |-> wd.perBucket[BucketCount - 1 - i].count]]

ReadClock ==
  /\ snap.pc = "idle"
  /\ snap' = [snap EXCEPT !.pc = "sample", !.now = clock]
  /\ UNCHANGED <<clock, ring, recorded>>

SampleWindow ==
  /\ snap.pc = "sample"
  /\ snap' = [snap EXCEPT !.pc = IF Epoch(snap.now) = ring.lastEpoch THEN "current" ELSE "shifted",
                          !.entries = BuildThroughput(snap.now, WindowData(ring))]
  /\ UNCHANGED <<clock, ring, recorded>>

WindowNext ==
  \/ \E processedAt \in 0 .. clock, endToEnd \in Durations, deadLetter \in BOOLEAN :
       Record(processedAt, endToEnd, deadLetter)
  \/ Second
  \/ ReadClock
  \/ SampleWindow

WindowSpec == WindowInit /\ [][WindowNext]_windowVars

-----------------------------------------------------------------------------
CountedIn(epoch) == {j \in DOMAIN recorded : recorded[j].epoch = epoch}

InWindow == {j \in DOMAIN recorded : recorded[j].epoch > ring.lastEpoch - BucketCount}

(* What the ring reports is what a log of all records says of the last     *)
(* BucketCount epochs, however far the clock jumped between two records    *)
(* and however late they came.  (record, advance, windowData)              *)
WindowIsHistory ==
  LET wd == WindowData(ring)
      times == {recorded[j].endToEnd : j \in InWindow}
  IN  /\ \A i \in Slots :
           LET js == CountedIn(ring.lastEpoch - (BucketCount - 1 - i))
           IN  /\ wd.perBucket[i].count = Cardinality(js)
               /\ wd.perBucket[i].deadLetterCount = Cardinality({j \in js : recorded[j].deadLetter})
      /\ wd.maxEndToEnd = Max({0} \cup times)
      /\ wd.minEndToEnd = IF times = {} THEN 0 ELSE Min(times)

(* Behind it, bucket by bucket: what is counted in a bucket are the        *)
(* records of the epoch as many before the last as the bucket is behind    *)
(* the current one.  (record, advance)                                     *)
Age(rb, b) == IF b <= rb.currentIndex THEN rb.currentIndex - b
                                      ELSE rb.currentIndex - b + BucketCount

Summarises(bucket, js) ==
  /\ bucket.count = Cardinality(js)
  /\ bucket.deadLetterCount = Cardinality({j \in js : recorded[j].deadLetter})
  /\ \A j \in js : /\ bucket.minEndToEnd <= recorded[j].endToEnd
                   /\ recorded[j].endToEnd <= bucket.maxEndToEnd
  /\ IF js = {} THEN bucket = EmptyBucket
     ELSE \E j, k \in js : /\ recorded[j].endToEnd = bucket.minEndToEnd
                           /\ recorded[k].endToEnd = bucket.maxEndToEnd

RingFits(rb) ==
  /\ rb \in [buckets : [Slots -> [count : Nat, deadLetterCount : Nat, maxEndToEnd : Nat, minEndToEnd : Nat]],
             currentIndex : Slots, lastEpoch : Nat]
  /\ \A j \in DOMAIN recorded : recorded[j].epoch <= rb.lastEpoch
  /\ \A b \in Slots : Summarises(rb.buckets[b], CountedIn(rb.lastEpoch - Age(rb, b)))

WindowInv ==
  /\ clock \in Nat
  /\ recorded \in Seq([epoch : Nat, endToEnd : Durations, deadLetter : BOOLEAN])
  /\ snap = [pc |-> snap.pc, now |-> snap.now, entries |-> snap.entries]
  /\ RingFits(ring)

(* A snapshot whose clock reading falls in the ring's current bucket       *)
(* labels each count with the epoch it was counted in.  A ring that has    *)
(* been idle, or that moves on between the two readings, is reported under *)
(* shifted labels.  (TakeSnapshot, buildThroughput)                        *)
CurrentSnapshotLabelled ==
  [][SampleWindow /\ snap'.pc = "current" =>
       \A i \in Slots : snap'.entries[i].processed = Cardinality(CountedIn(snap'.entries[i].from))]_windowVars
=============================================================================
