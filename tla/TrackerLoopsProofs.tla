------------------------- MODULE TrackerLoopsProofs -------------------------
(***************************************************************************)
(* Proofs that the loops of a commit tick compute what OffsetsTracker says *)
(* of them, for a buffer of any length.  LoopInv says what each loop has   *)
(* done after i - 1 iterations; one lemma per loop shows an iteration      *)
(* keeps it, and one per end of a loop that it says enough for the next.   *)
(***************************************************************************)
EXTENDS TrackerLoops, TLAPS

(* For the steps that name no prover: time enough on a slow machine.       *)
USE SMTT(30), ZenonT(30)

-----------------------------------------------------------------------------
(* Items, sequences of them, and the part of the buffer a loop has passed. *)

LEMMA ItemFacts ==
  ASSUME NEW w \in Items
  PROVE  /\ w.offset \in Nat /\ w.previousOffset \in Int /\ w.previousOffset < w.offset
         /\ w.readTime \in 1 .. MaxRead
<1>1. MaxOffset \in Nat
  BY LoopAssumption
<1>2. QED
  BY <1>1 DEF Items

LEMMA ElementsOf ==
  ASSUME NEW S, NEW q \in Seq(S)
  PROVE  Range(q) \subseteq S /\ \A j \in DOMAIN q : q[j] \in S
  BY DEF Range

LEMMA Appended ==
  ASSUME NEW S, NEW q \in Seq(S), NEW x \in S
  PROVE  /\ q \o <<>> = q /\ q \o <<x>> = Append(q, x)
         /\ Append(q, x) \in Seq(S) /\ Range(Append(q, x)) = Range(q) \cup {x}
         /\ IsInjective(q) /\ x \notin Range(q) => IsInjective(Append(q, x))
<1>1. q \o <<>> = q /\ q \o <<x>> = Append(q, x)
  OBVIOUS
<1>2. /\ DOMAIN Append(q, x) = DOMAIN q \cup {Len(q) + 1} /\ Append(q, x)[Len(q) + 1] = x
      /\ \A j \in DOMAIN q : Append(q, x)[j] = q[j]
      /\ Append(q, x) \in Seq(S)
  OBVIOUS
<1>3. Range(Append(q, x)) = Range(q) \cup {x}
  BY <1>2, Zenon DEF Range
<1>4. IsInjective(q) /\ x \notin Range(q) => IsInjective(Append(q, x))
  BY <1>2, Zenon DEF IsInjective, Range
<1>5. QED
  BY <1>1, <1>2, <1>3, <1>4

LEMMA NothingPassed ==
  ASSUME buffer \in Seq(Items), i = 1
  PROVE  Passed = {} /\ Ahead = Range(buffer)
<1>1. \A k \in DOMAIN buffer : k >= i /\ ~(k < i)
  OBVIOUS
<1>2. QED
  BY <1>1, Zenon DEF Passed, Ahead, Range

LEMMA AllPassed ==
  ASSUME buffer \in Seq(Items), i \in Nat, i > Len(buffer)
  PROVE  Passed = Range(buffer) /\ Ahead = {}
<1>1. \A k \in DOMAIN buffer : ~(k >= i) /\ k < i
  OBVIOUS
<1>2. QED
  BY <1>1, Zenon DEF Passed, Ahead, Range

LEMMA PassedOrAhead ==
  ASSUME buffer \in Seq(Items), i \in Nat \ {0}, i <= Len(buffer)
  PROVE  /\ Passed \cup Ahead = Range(buffer) /\ i \in DOMAIN buffer /\ g \in Items /\ g \in Ahead
         /\ IsInjective(buffer) => Passed \cap Ahead = {}
<1>1. i \in DOMAIN buffer /\ \A k \in DOMAIN buffer : k \in Nat /\ (k < i \/ k >= i) /\ ~(k < i /\ k >= i)
  OBVIOUS
<1>2. i >= i
  OBVIOUS
<1>3. g \in Items /\ g \in Ahead
  BY <1>1, <1>2, ElementsOf, Zenon DEF g, Ahead
<1>4. Passed \cup Ahead = Range(buffer)
  BY <1>1, Zenon DEF Passed, Ahead, Range
<1>5. IsInjective(buffer) => Passed \cap Ahead = {}
  BY <1>1, Zenon DEF Passed, Ahead, IsInjective
<1>6. QED
  BY <1>1, <1>3, <1>4, <1>5

LEMMA PassesOne ==
  ASSUME buffer \in Seq(Items), i \in Nat \ {0}, i <= Len(buffer), i' = i + 1, buffer' = buffer
  PROVE  /\ Passed' = Passed \cup {g} /\ Ahead = Ahead' \cup {g}
         /\ IsInjective(buffer) => g \notin Passed /\ g \notin Ahead'
<1>1. /\ i \in DOMAIN buffer
      /\ \A k \in DOMAIN buffer : (k < i' <=> k < i \/ k = i) /\ (k >= i <=> k >= i' \/ k = i)
      /\ ~(i < i) /\ ~(i >= i')
  OBVIOUS
<1>2. Passed' = Passed \cup {g} /\ Ahead = Ahead' \cup {g}
  BY <1>1, Zenon DEF Passed, Ahead, g
<1>3. IsInjective(buffer) => g \notin Passed /\ g \notin Ahead'
  BY <1>1, Zenon DEF Passed, Ahead, g, IsInjective
<1>4. QED
  BY <1>2, <1>3

LEMMA IncreasingFacts ==
  ASSUME NEW q \in Seq(Items), Increasing(q)
  PROVE  /\ IsInjective(q)
         /\ \A v, w \in Range(q) : v.offset = w.offset => v = w
<1>1. \A j, k \in DOMAIN q : j \in Nat /\ k \in Nat /\ (j = k \/ j < k \/ k < j)
  OBVIOUS
<1>2. \A j \in DOMAIN q : q[j].offset \in Nat
  BY ElementsOf, ItemFacts, Zenon
<1>3. ASSUME NEW j \in DOMAIN q, NEW k \in DOMAIN q, q[j].offset = q[k].offset
      PROVE  j = k
  BY <1>1, <1>2, <1>3 DEF Increasing
<1>4. QED
  BY <1>3, Zenon DEF IsInjective, Range

(* In a buffer in order, what is passed is below what is ahead.            *)
LEMMA PassedIsBelow ==
  ASSUME buffer \in Seq(Items), Increasing(buffer), i \in Nat \ {0}, i <= Len(buffer)
  PROVE  /\ \A w \in Passed : w.offset < g.offset
         /\ \A w \in Ahead : w = g \/ g.offset < w.offset
<1>1. \A k \in DOMAIN buffer : (k < i \/ k >= i) /\ (k >= i => k = i \/ i < k)
  OBVIOUS
<1>2. i \in DOMAIN buffer
  OBVIOUS
<1>3. QED
  BY <1>1, <1>2, Zenon DEF Passed, Ahead, Increasing, g

(* A higher item at the end keeps a sequence increasing.                   *)
LEMMA AppendIncreasing ==
  ASSUME NEW q \in Seq(Items), Increasing(q), NEW x \in Items, \A v \in Range(q) : v.offset < x.offset
  PROVE  Increasing(Append(q, x))
<1>1. /\ DOMAIN Append(q, x) = DOMAIN q \cup {Len(q) + 1} /\ Append(q, x)[Len(q) + 1] = x
      /\ \A j \in DOMAIN q : Append(q, x)[j] = q[j] /\ ~(Len(q) + 1 < j)
      /\ ~(Len(q) + 1 < Len(q) + 1)
  OBVIOUS
<1>2. \A j \in DOMAIN q : q[j].offset < x.offset
  BY Zenon DEF Range
<1>3. QED
  BY <1>1, <1>2, Zenon DEF Increasing

-----------------------------------------------------------------------------
(* The compact.                                                            *)

(* An item that is not a twin of the one before it is above all before it, *)
(* and the one to keep of those with its offset.                           *)
LEMMA CompactKeeps ==
  ASSUME LoopTypes, CompactInv, i <= Len(buffer), ~(i > 1 /\ buffer[i - 1].offset = g.offset)
  PROVE  g \in Deduped(t.gapBuffer) /\ \A w \in Passed : w.offset < g.offset
<1>1. /\ buffer \in Seq(Items) /\ i \in Nat \ {0} /\ i \in DOMAIN buffer
      /\ Sorted(buffer) /\ Range(buffer) = t.gapBuffer
  BY DEF LoopTypes, CompactInv
<1>2. \A k \in DOMAIN buffer : k \in Nat /\ buffer[k].offset \in Nat /\ buffer[k].readTime \in Nat
  <2>1. \A k \in DOMAIN buffer : k \in Nat
    BY <1>1
  <2>2. \A k \in DOMAIN buffer : buffer[k] \in Items
    BY <1>1, ElementsOf, Zenon
  <2>3. QED
    BY <2>1, <2>2, ItemFacts
<1>3. ASSUME NEW k \in DOMAIN buffer, k < i
      PROVE  buffer[k].offset < g.offset
  <2>1. i > 1 /\ i - 1 \in DOMAIN buffer /\ i - 1 < i /\ (k = i - 1 \/ k < i - 1)
    BY <1>1, <1>3
  <2>2. SortsBefore(buffer[i - 1], g) /\ buffer[i - 1].offset # g.offset
    BY <1>1, <2>1, Zenon DEF Sorted, g
  <2>3. k < i - 1 => SortsBefore(buffer[k], buffer[i - 1])
    BY <1>1, <2>1, Zenon DEF Sorted
  <2>4. buffer[i - 1].offset < g.offset
    BY <2>2, Zenon DEF SortsBefore
  <2>5. buffer[k].offset <= buffer[i - 1].offset
    BY <1>2, <2>1, <2>3 DEF SortsBefore
  <2>6. QED
    BY <1>1, <1>2, <2>1, <2>4, <2>5 DEF g
<1>4. ASSUME NEW k \in DOMAIN buffer, buffer[k].offset = g.offset
      PROVE  buffer[k].readTime <= g.readTime
  <2>1. k < i \/ k = i \/ i < k
    BY <1>1, <1>2
  <2>2. ~(k < i)
    BY <1>1, <1>2, <1>3, <1>4 DEF g
  <2>3. CASE k = i
    BY <1>2, <2>3 DEF g
  <2>4. CASE i < k
    <3>1. SortsBefore(g, buffer[k])
      BY <1>1, <2>4, Zenon DEF Sorted, g
    <3>2. QED
      BY <1>1, <1>2, <1>4, <3>1 DEF SortsBefore, g
  <2>5. QED
    BY <2>1, <2>2, <2>3, <2>4
<1>5. g \in t.gapBuffer
  BY <1>1, Zenon DEF g, Range
<1>6. QED
  BY <1>1, <1>3, <1>4, <1>5, Zenon DEF Deduped, Passed, Range

(* One iteration of the compact.  (CompactFunc)                            *)
LEMMA CompactItemKeeps ==
  ASSUME LoopTypes, CompactInv, CompactItem
  PROVE  LoopTypes' /\ CompactInv'
<1>1. /\ i <= Len(buffer) /\ i' = i + 1 /\ UNCHANGED <<t, buffer, ready, advanced, returned, pc>>
      /\ t' = t /\ buffer' = buffer /\ ready' = ready /\ advanced' = advanced /\ returned' = returned /\ pc' = pc
  BY DEF CompactItem
<1>2. /\ buffer \in Seq(Items) /\ kept \in Seq(Items) /\ i \in Nat \ {0} /\ i \in DOMAIN buffer
      /\ Increasing(kept) /\ Range(kept) \subseteq Passed \cap Deduped(t.gapBuffer)
  BY <1>1 DEF LoopTypes, CompactInv
<1>3. Passed' = Passed \cup {g} /\ g \in Items
  BY <1>1, <1>2, PassesOne, PassedOrAhead, Zenon
<1>4. CASE i > 1 /\ buffer[i - 1].offset = g.offset
  <2>1. kept' = kept
    BY <1>4, Zenon DEF CompactItem
  <2>2. buffer[i - 1] \in Passed
    <3>1. i - 1 \in DOMAIN buffer /\ i - 1 < i
      BY <1>2, <1>4
    <3>2. QED
      BY <3>1, Zenon DEF Passed
  <2>3. \A w \in Passed' : \E v \in Range(kept) : v.offset = w.offset
    BY <1>3, <1>4, <2>2, Zenon DEF CompactInv
  <2>4. i' \in Nat \ {0}
    BY <1>1, <1>2
  <2>5. CompactInv'
    <3>1. Range(kept') = Range(kept) /\ Increasing(kept') /\ \A w \in Passed' : \E v \in Range(kept') : v.offset = w.offset
      BY <1>2, <2>1, <2>3
    <3>2. QED
      BY <1>1, <1>2, <1>3, <3>1, Zenon DEF CompactInv, Sorted, Deduped
  <2>6. QED
    BY <1>1, <2>1, <2>4, <2>5, Zenon DEF LoopTypes
<1>5. CASE ~(i > 1 /\ buffer[i - 1].offset = g.offset)
  <2>1. kept' = Append(kept, g)
    BY <1>5, Zenon DEF CompactItem
  <2>2. g \in Deduped(t.gapBuffer) /\ \A w \in Passed : w.offset < g.offset
    BY <1>1, <1>5, CompactKeeps, Zenon
  <2>3. kept' \in Seq(Items) /\ Range(kept') = Range(kept) \cup {g}
    BY <1>2, <1>3, <2>1, Appended, Zenon
  <2>4. Increasing(kept')
    BY <1>2, <1>3, <2>1, <2>2, AppendIncreasing, Zenon
  <2>5. \A w \in Passed' : \E v \in Range(kept') : v.offset = w.offset
    BY <1>3, <2>3, Zenon DEF CompactInv
  <2>6. i' \in Nat \ {0}
    BY <1>1, <1>2
  <2>7. CompactInv'
    BY <1>1, <1>2, <1>3, <2>2, <2>3, <2>4, <2>5, Zenon DEF CompactInv, Sorted, Deduped
  <2>8. QED
    BY <1>1, <2>3, <2>6, <2>7, Zenon DEF LoopTypes
<1>6. QED
  BY <1>4, <1>5

(* The compact leaves the deduplicated buffer, in order.                   *)
LEMMA EndCompactKeeps ==
  ASSUME LoopTypes, CompactInv, EndCompact
  PROVE  LoopTypes' /\ WalkInv'
<1>1. /\ i > Len(buffer) /\ buffer' = kept /\ kept' = <<>> /\ i' = 1 /\ pc' = "walk"
      /\ t' = t /\ ready' = ready /\ advanced' = advanced /\ returned' = returned
  BY DEF EndCompact
<1>2. /\ buffer \in Seq(Items) /\ kept \in Seq(Items) /\ i \in Nat /\ Increasing(kept)
      /\ Range(buffer) = t.gapBuffer /\ t.gapBuffer \in SUBSET Items
  BY DEF LoopTypes, CompactInv
<1>3. Range(kept) = Deduped(t.gapBuffer)
  <2>1. Passed = t.gapBuffer
    BY <1>1, <1>2, AllPassed, Zenon
  <2>2. ASSUME NEW d \in Deduped(t.gapBuffer)
        PROVE  d \in Range(kept)
    <3>1. d \in t.gapBuffer
      BY DEF Deduped
    <3>2. PICK v \in Range(kept) : v.offset = d.offset
      BY <2>1, <3>1, Zenon DEF CompactInv
    <3>3. v \in Deduped(t.gapBuffer) /\ v \in t.gapBuffer
      BY <2>1, Zenon DEF CompactInv
    <3>4. v.readTime <= d.readTime /\ d.readTime <= v.readTime
      BY <3>1, <3>2, <3>3, Zenon DEF Deduped
    <3>5. v.readTime = d.readTime
      BY <1>2, <3>1, <3>3, <3>4, ItemFacts
    <3>6. v = d
      BY <3>1, <3>2, <3>3, <3>5, Zenon DEF LoopTypes
    <3>7. QED
      BY <3>6
  <2>3. QED
    BY <2>2, Zenon DEF CompactInv
<1>4. LoopTypes'
  <2>1. i' \in Nat \ {0} /\ <<>> \in Seq(Items)
    BY <1>1
  <2>2. QED
    BY <1>1, <1>2, <2>1, Zenon DEF LoopTypes
<1>5. WalkInv'
  <2>1. Passed' = {}
    <3>1. buffer' \in Seq(Items) /\ i' = 1
      BY <1>1, <1>2
    <3>2. \A k \in DOMAIN buffer' : ~(k < i')
      BY <3>1
    <3>3. QED
      BY <3>2, Zenon DEF Passed
  <2>2. returned = <<>> /\ advanced = 0 /\ ready = t.ready /\ t.needsGapAdvance
    BY DEF CompactInv
  <2>3. Range(returned) = {} /\ IsInjective(returned)
    BY <2>2 DEF Range, IsInjective
  <2>4. \A r \in ready : r \in WalkStart(t, Deduped(t.gapBuffer))
    BY <2>2 DEF WalkStart
  <2>5. advanced' = i' - 1 /\ i' <= Len(buffer') + 1
    BY <1>1, <1>2, <2>2
  <2>6. QED
    BY <1>1, <1>2, <1>3, <2>1, <2>2, <2>3, <2>4, <2>5, Zenon DEF WalkInv
<1>6. QED
  BY <1>4, <1>5

-----------------------------------------------------------------------------
(* The walk.                                                               *)

(* What is known at the head of an iteration.                              *)
LEMMA WalkFacts ==
  ASSUME LoopTypes, WalkInv, i <= Len(buffer)
  PROVE  /\ buffer \in Seq(Items) /\ returned \in Seq(Items) /\ i \in Nat \ {0}
         /\ g \in Items /\ g \in Deduped(t.gapBuffer) /\ g \notin Passed /\ g \notin t.ready
         /\ g \notin Range(returned) /\ g \notin ready
         /\ \A w \in Passed : w.offset < g.offset
         /\ \A w \in Deduped(t.gapBuffer) : w \in Passed \/ w = g \/ g.offset < w.offset
         /\ Passed \subseteq Deduped(t.gapBuffer) /\ Deduped(t.gapBuffer) \subseteq Items
<1>1. /\ buffer \in Seq(Items) /\ returned \in Seq(Items) /\ i \in Nat \ {0} /\ t.gapBuffer \in SUBSET Items
      /\ Increasing(buffer) /\ Range(buffer) = Deduped(t.gapBuffer)
  BY DEF LoopTypes, WalkInv
<1>2. /\ Passed \cup Ahead = Range(buffer) /\ g \in Items /\ g \in Ahead
      /\ IsInjective(buffer)
      /\ IsInjective(buffer) => Passed \cap Ahead = {}
  BY <1>1, PassedOrAhead, IncreasingFacts, Zenon
<1>3. /\ \A w \in Passed : w.offset < g.offset
      /\ \A w \in Ahead : w = g \/ g.offset < w.offset
  BY <1>1, PassedIsBelow, Zenon
<1>4. Deduped(t.gapBuffer) \subseteq t.gapBuffer
  BY DEF Deduped
<1>5. g \notin t.ready
  <2>1. g \in t.gapBuffer
    BY <1>1, <1>2, <1>4
  <2>2. QED
    BY <2>1, Zenon DEF LoopTypes
<1>6. g \notin Passed
  BY <1>2
<1>7. g \notin Range(returned) /\ g \notin ready
  BY <1>5, <1>6, Zenon DEF WalkInv
<1>8. QED
  BY <1>1, <1>2, <1>3, <1>4, <1>5, <1>6, <1>7, Zenon

(* An iteration that hands back items keeps the accounts.                  *)
LEMMA ConsumedKeeps ==
  ASSUME LoopTypes, WalkInv, InLoop, NEW r \in SUBSET Items, \A v, w \in r : v = w,
         NEW x \in Items, NEW handedBack \in {<<>>, <<x>>}, Consumed(r, handedBack),
         handedBack = <<x>> => x \notin Range(returned) /\ x \notin r,
         Range(returned) \cap r = {},
         Range(returned) \cup r \cup (IF handedBack = <<x>> THEN {x} ELSE {}) = t.ready \cup Passed \cup {g},
         r = {} => t.ready = {} /\ \A w \in Passed \cup {g} : w.offset < t.committedPlusOne,
         \A v \in r : /\ \A w \in Passed \cup {g} : w.offset <= v.offset
                      /\ \E s \in WalkStart(t, Deduped(t.gapBuffer)) :
                            v = s \/ v \in Reached(Deduped(t.gapBuffer), s.offset)
  PROVE  LoopTypes' /\ WalkInv' /\ pc' = "walk"
<1>1. /\ ready' = r /\ returned' = returned \o handedBack /\ advanced' = i /\ i' = i + 1
      /\ t' = t /\ buffer' = buffer /\ kept' = kept /\ pc' = pc /\ pc = "walk" /\ i <= Len(buffer)
  BY DEF Consumed, InLoop
<1>2. /\ buffer \in Seq(Items) /\ returned \in Seq(Items) /\ i \in Nat \ {0}
  BY DEF LoopTypes
<1>3. Passed' = Passed \cup {g}
  BY <1>1, <1>2, PassesOne, Zenon
<1>4. /\ returned' \in Seq(Items) /\ IsInjective(returned') /\ Range(returned') \cap r = {}
      /\ Range(returned') \cup r = t.ready \cup Passed \cup {g}
  <2>1. CASE handedBack = <<>>
    <3>1. returned' = returned /\ handedBack # <<x>>
      BY <1>1, <1>2, <2>1
    <3>2. QED
      BY <1>2, <3>1 DEF WalkInv
  <2>2. CASE handedBack = <<x>>
    <3>1. /\ returned' \in Seq(Items) /\ IsInjective(returned')
          /\ Range(returned') = Range(returned) \cup {x}
      <4>1. IsInjective(returned) /\ x \notin Range(returned)
        BY <2>2, Zenon DEF WalkInv
      <4>2. returned' = Append(returned, x)
        BY <1>1, <1>2, <2>2
      <4>3. /\ Append(returned, x) \in Seq(Items) /\ IsInjective(Append(returned, x))
            /\ Range(Append(returned, x)) = Range(returned) \cup {x}
        BY <1>2, <4>1, Appended
      <4>4. QED
        BY <4>2, <4>3, Zenon
    <3>2. QED
      BY <2>2, <3>1
  <2>3. QED
    BY <2>1, <2>2
<1>5. i' \in Nat \ {0} /\ advanced' = i' - 1 /\ i' <= Len(buffer') + 1
  BY <1>1, <1>2
<1>6. LoopTypes'
  BY <1>1, <1>4, <1>5, Zenon DEF LoopTypes
<1>7. WalkInv'
  BY <1>1, <1>3, <1>4, <1>5, Zenon DEF WalkInv
<1>8. QED
  BY <1>1, <1>6, <1>7

(* From an item the walk has reached to the one that names it.             *)
LEMMA ReachesNext ==
  ASSUME LoopTypes, WalkInv, i <= Len(buffer), NEW r \in ready, g.offset > r.offset, r.offset = g.previousOffset,
         NEW s \in Items, r = s \/ r \in Reached(Deduped(t.gapBuffer), s.offset)
  PROVE  g \in Reached(Deduped(t.gapBuffer), s.offset)
<1> DEFINE D == Deduped(t.gapBuffer)
           o == s.offset
<1>1. /\ g \in D /\ D \subseteq Items /\ g \in Items
      /\ \A w \in D : w \in Passed \/ w = g \/ g.offset < w.offset
  BY WalkFacts, Zenon
<1>2. r \in Items /\ \A w \in Passed : w.offset <= r.offset
  BY DEF LoopTypes, WalkInv
<1>3. /\ o \in Int /\ r.offset \in Int /\ g.offset \in Int /\ g.previousOffset \in Int
      /\ \A w \in D : w.offset \in Int
  BY <1>1, <1>2, ItemFacts
<1>4. r.offset >= o /\ (r = s \/ r \in D)
  BY <1>3 DEF Reached
<1>5. ASSUME NEW h \in D, o < h.offset, h.offset <= g.offset
      PROVE  Linked(D, o, h)
  <2>1. CASE h = g
    <3>1. h.previousOffset = o \/ \E k \in D : k.offset > o /\ k.offset = h.previousOffset
      <4>1. CASE r = s
        BY <2>1, <4>1
      <4>2. CASE r \in Reached(D, o)
        <5>1. r \in D /\ r.offset > o
          BY <4>2, Zenon DEF Reached
        <5>2. QED
          BY <2>1, <5>1, Zenon
      <4>3. QED
        BY <4>1, <4>2
    <3>2. ASSUME NEW k \in D, h.previousOffset < k.offset, k.offset < h.offset
          PROVE  FALSE
      <4>1. k \in Passed
        BY <1>1, <1>3, <2>1, <3>2
      <4>2. k.offset <= r.offset
        BY <1>2, <4>1
      <4>3. QED
        BY <1>3, <2>1, <3>2, <4>2
    <3>3. QED
      BY <3>1, <3>2, Zenon DEF Linked
  <2>2. CASE h # g
    <3>1. h \in Passed
      BY <1>1, <1>3, <1>5, <2>2
    <3>2. h.offset <= r.offset
      BY <1>2, <3>1
    <3>3. r # s
      BY <1>3, <1>5, <3>2
    <3>4. r \in Reached(D, o)
      BY <3>3
    <3>5. QED
      BY <1>5, <3>2, <3>4, Zenon DEF Reached
  <2>3. QED
    BY <2>1, <2>2
<1>6. g.offset > o
  BY <1>3, <1>4
<1>7. QED
  BY <1>1, <1>5, <1>6, Zenon DEF Reached

(* One iteration of the walk, whichever case it takes.  (flushGapBuffers)  *)
LEMMA WalkItemKeeps ==
  ASSUME LoopTypes, WalkInv, PruneBelowBaseline \/ Initialise \/ PruneAtOrBelowReady \/ Advance
  PROVE  LoopTypes' /\ WalkInv' /\ pc' = "walk"
<1> DEFINE D == Deduped(t.gapBuffer)
<1>1. InLoop /\ i <= Len(buffer)
  BY DEF PruneBelowBaseline, Initialise, PruneAtOrBelowReady, Advance, InLoop
<1>2. /\ g \in Items /\ g \in D /\ g \notin Passed /\ g \notin t.ready
      /\ g \notin Range(returned) /\ g \notin ready
      /\ \A w \in Passed : w.offset < g.offset
      /\ \A w \in D : w \in Passed \/ w = g \/ g.offset < w.offset
      /\ Passed \subseteq D /\ D \subseteq Items
  BY <1>1, WalkFacts, Zenon
<1>3. /\ ready \in SUBSET Items /\ \A v, w \in ready : v = w
      /\ \A w \in D : w.offset \in Nat
      /\ t.committedPlusOne \in Int /\ \A v \in ready : v.offset \in Nat
  BY <1>2, ItemFacts DEF LoopTypes
<1>4. /\ ready = {} => t.ready = {} /\ \A w \in Passed : w.offset < t.committedPlusOne
      /\ \A r \in ready :
           /\ \A w \in Passed : w.offset <= r.offset
           /\ \E s \in WalkStart(t, D) : r = s \/ r \in Reached(D, s.offset)
      /\ Range(returned) \cap ready = {} /\ Range(returned) \cup ready = t.ready \cup Passed
  BY DEF WalkInv
<1> HIDE DEF D
<1>5. CASE PruneBelowBaseline
  <2>1. ready = {} /\ g.offset < t.committedPlusOne /\ Consumed({}, <<g>>)
    BY <1>5 DEF PruneBelowBaseline
  <2>2. Range(returned) \cup {} \cup (IF <<g>> = <<g>> THEN {g} ELSE {}) = t.ready \cup Passed \cup {g}
    BY <1>4, <2>1
  <2>3. QED
    BY <1>1, <1>2, <1>4, <2>1, <2>2, ConsumedKeeps, Zenon DEF D
<1>6. CASE Initialise
  <2>1. ready = {} /\ g.offset >= t.committedPlusOne /\ InitialisesReady(t, g) /\ Consumed({g}, <<>>)
    BY <1>6 DEF Initialise
  <2>2. g \in WalkStart(t, D)
    <3>1. \A h \in D : h.offset >= t.committedPlusOne => g.offset <= h.offset
      BY <1>2, <1>3, <1>4, <2>1
    <3>2. QED
      BY <1>2, <1>4, <2>1, <3>1, Zenon DEF WalkStart
  <2>3. \A w \in Passed \cup {g} : w.offset <= g.offset
    BY <1>2, <1>3
  <2>4. Range(returned) \cup {g} \cup (IF <<>> = <<g>> THEN {g} ELSE {}) = t.ready \cup Passed \cup {g}
    BY <1>4, <2>1
  <2>5. <<>> # <<g>> /\ Range(returned) \cap {g} = {} /\ {g} \in SUBSET Items
    BY <1>2
  <2>6. QED
    BY <1>1, <1>2, <1>4, <2>1, <2>2, <2>3, <2>4, <2>5, ConsumedKeeps, Zenon DEF D
<1>7. CASE PruneAtOrBelowReady
  <2>1. PICK r \in ready : g.offset <= r.offset
    BY <1>7, Zenon DEF PruneAtOrBelowReady
  <2>2. Consumed(ready, <<g>>) /\ ready # {}
    BY <1>7 DEF PruneAtOrBelowReady
  <2>3. Range(returned) \cup ready \cup (IF <<g>> = <<g>> THEN {g} ELSE {}) = t.ready \cup Passed \cup {g}
    BY <1>4
  <2>4. \A v \in ready : \A w \in Passed \cup {g} : w.offset <= v.offset
    BY <1>3, <1>4, <2>1, Zenon
  <2>5. QED
    BY <1>1, <1>2, <1>3, <1>4, <2>2, <2>3, <2>4, ConsumedKeeps, Zenon DEF D
<1>8. CASE Advance
  <2>1. PICK r \in ready : g.offset > r.offset /\ r.offset = g.previousOffset /\ Consumed({g}, <<r>>)
    BY <1>8, Zenon DEF Advance
  <2>2. PICK s \in WalkStart(t, D) : r = s \/ r \in Reached(D, s.offset)
    BY <1>4, Zenon
  <2>3. s \in Items
    BY <1>2 DEF WalkStart, LoopTypes
  <2>4. g \in Reached(D, s.offset)
    BY <1>1, <2>1, <2>2, <2>3, ReachesNext, Zenon DEF D
  <2>5. \A w \in Passed \cup {g} : w.offset <= g.offset
    BY <1>2, <1>3
  <2>6. r \in Items /\ ready = {r} /\ r \notin Range(returned) /\ r # g
    BY <1>2, <1>3, <1>4
  <2>7. Range(returned) \cup {g} \cup (IF <<r>> = <<r>> THEN {r} ELSE {}) = t.ready \cup Passed \cup {g}
    BY <1>4, <2>6
  <2>8. Range(returned) \cap {g} = {} /\ {g} \in SUBSET Items
    BY <1>2
  <2>9. /\ \A v \in {g} : /\ \A w \in Passed \cup {g} : w.offset <= v.offset
                         /\ \E z \in WalkStart(t, D) : v = z \/ v \in Reached(D, z.offset)
        /\ \A v, w \in {g} : v = w
        /\ <<r>> \in {<<>>, <<r>>} /\ r \notin {g} /\ {g} # {}
    BY <2>2, <2>4, <2>5, <2>6, Zenon
  <2>10. QED
    BY <1>1, <2>1, <2>6, <2>7, <2>8, <2>9, ConsumedKeeps, Zenon DEF D
<1>9. QED
  BY <1>5, <1>6, <1>7, <1>8

(* The walk starts in one place at most.                                   *)
LEMMA WalkStartUnique ==
  ASSUME LoopTypes, WalkInv
  PROVE  /\ WalkStart(t, Deduped(t.gapBuffer)) \subseteq Items
         /\ \A v, w \in WalkStart(t, Deduped(t.gapBuffer)) : v = w
<1> DEFINE D == Deduped(t.gapBuffer)
<1>1. /\ t.ready \in SUBSET Items /\ \A v, w \in t.ready : v = w
      /\ buffer \in Seq(Items) /\ Increasing(buffer) /\ Range(buffer) = D
  BY DEF LoopTypes, WalkInv
<1>2. D \subseteq Items /\ \A v, w \in D : v.offset = w.offset => v = w
  BY <1>1, ElementsOf, IncreasingFacts, ZenonT(30)
<1>3. CASE t.ready # {}
  BY <1>1, <1>3, Zenon DEF WalkStart
<1>4. CASE t.ready = {}
  <2>1. \A v, w \in WalkStart(t, D) : v \in D /\ w \in D /\ v.offset <= w.offset /\ w.offset <= v.offset
    BY <1>4, Zenon DEF WalkStart
  <2>2. \A v \in D : v.offset \in Nat
    BY <1>2, ItemFacts
  <2>3. \A v, w \in WalkStart(t, D) : v.offset = w.offset
    BY <2>1, <2>2
  <2>4. QED
    BY <1>2, <2>1, <2>3, Zenon
<1>5. QED
  BY <1>3, <1>4

(* Where the walk has stopped.                                             *)
LEMMA StoppedFacts ==
  ASSUME LoopTypes, WalkInv, Stopped
  PROVE  /\ Passed \cup Ahead = Deduped(t.gapBuffer) /\ Passed \cap Ahead = {}
         /\ Deduped(t.gapBuffer) \subseteq Items
         /\ Ahead # {} => /\ i <= Len(buffer) /\ g \in Ahead
                          /\ \A w \in Ahead : w = g \/ g.offset < w.offset
<1>1. /\ buffer \in Seq(Items) /\ i \in Nat \ {0} /\ Increasing(buffer) /\ Range(buffer) = Deduped(t.gapBuffer)
  BY DEF LoopTypes, WalkInv
<1>2. IsInjective(buffer) /\ Range(buffer) \subseteq Items
  BY <1>1, IncreasingFacts, ElementsOf, Zenon
<1>3. CASE i <= Len(buffer)
  BY <1>1, <1>2, <1>3, PassedOrAhead, PassedIsBelow, Zenon
<1>4. CASE i > Len(buffer)
  <2>1. Passed = Range(buffer) /\ Ahead = {}
    BY <1>1, <1>4, AllPassed
  <2>2. QED
    BY <1>1, <1>2, <2>1
<1>5. QED
  BY <1>1, <1>3, <1>4

(* With nothing to start from, the flush leaves what is at or above the    *)
(* baseline.                                                               *)
LEMMA WalkEndsEmpty ==
  ASSUME LoopTypes, WalkInv, Stopped, ready = {}
  PROVE  /\ WalkStart(t, Deduped(t.gapBuffer)) = {}
         /\ Ahead = {w \in Deduped(t.gapBuffer) : w.offset >= t.committedPlusOne}
<1> DEFINE D == Deduped(t.gapBuffer)
<1>1. /\ t.ready = {} /\ \A w \in Passed : w.offset < t.committedPlusOne
      /\ t.committedPlusOne \in Int
  BY DEF WalkInv, LoopTypes
<1>2. /\ Passed \cup Ahead = D /\ Passed \cap Ahead = {} /\ D \subseteq Items
      /\ Ahead # {} => /\ g \in Ahead /\ g.offset >= t.committedPlusOne /\ ~InitialisesReady(t, g)
                       /\ \A w \in Ahead : w = g \/ g.offset < w.offset
  BY StoppedFacts, Zenon DEF Stopped
<1>3. \A w \in D : w.offset \in Int
  BY <1>2, ItemFacts
<1>4. Ahead = {w \in D : w.offset >= t.committedPlusOne}
  <2>1. \A w \in D : ~(w.offset < t.committedPlusOne /\ w.offset >= t.committedPlusOne)
    BY <1>1, <1>3
  <2>2. \A w \in Ahead : w.offset >= t.committedPlusOne
    BY <1>1, <1>2, <1>3
  <2>3. QED
    BY <1>1, <1>2, <2>1, <2>2
<1>5. ASSUME NEW s \in WalkStart(t, D)
      PROVE  FALSE
  <2>1. /\ s \in D /\ s.offset >= t.committedPlusOne /\ InitialisesReady(t, s)
        /\ \A h \in D : h.offset >= t.committedPlusOne => s.offset <= h.offset
    BY <1>1, Zenon DEF WalkStart
  <2>2. s \in Ahead
    BY <1>4, <2>1
  <2>3. g \in D /\ g.offset >= t.committedPlusOne /\ ~InitialisesReady(t, g) /\ (s = g \/ g.offset < s.offset)
    BY <1>2, <2>2
  <2>4. s.offset <= g.offset
    BY <2>1, <2>3, Zenon
  <2>5. s # g
    BY <2>1, <2>3, Zenon
  <2>6. QED
    BY <1>3, <2>1, <2>3, <2>4, <2>5
<1>6. QED
  BY <1>4, <1>5

(* The walk stops at the highest item that can be reached.                 *)
LEMMA WalkEndsHighest ==
  ASSUME LoopTypes, WalkInv, Stopped, NEW r \in ready, NEW s \in WalkStart(t, Deduped(t.gapBuffer)),
         r = s \/ r \in Reached(Deduped(t.gapBuffer), s.offset)
  PROVE  /\ Highest({s} \cup Reached(Deduped(t.gapBuffer), s.offset)) = {r}
         /\ Ahead = {w \in Deduped(t.gapBuffer) : w.offset > r.offset}
<1> DEFINE D == Deduped(t.gapBuffer)
           o == s.offset
           all == {s} \cup Reached(D, o)
<1>1. /\ r \in Items /\ \A w \in Passed : w.offset <= r.offset
      /\ s \in Items /\ \A v, w \in ready : v = w
  BY WalkStartUnique, Zenon DEF LoopTypes, WalkInv
<1>2. /\ Passed \cup Ahead = D /\ Passed \cap Ahead = {} /\ D \subseteq Items
      /\ Ahead # {} => /\ g \in Ahead /\ g.offset > r.offset /\ r.offset # g.previousOffset
                       /\ \A w \in Ahead : w = g \/ g.offset < w.offset
  BY <1>1, StoppedFacts, Zenon DEF Stopped
<1>3. /\ \A w \in D : w.offset \in Int /\ w.previousOffset \in Int /\ w.previousOffset < w.offset
      /\ o \in Int /\ r.offset \in Int
  BY <1>1, <1>2, ItemFacts
<1>4. /\ r.offset >= o /\ (r.offset = o \/ (r \in D /\ r.offset > o)) /\ (r = s \/ (r \in D /\ r.offset > o))
      /\ Reached(D, o) \subseteq D /\ \A w \in Reached(D, o) : w.offset > o
  <2>1. Reached(D, o) \subseteq D /\ \A w \in Reached(D, o) : w.offset > o
    BY Zenon DEF Reached
  <2>2. r = s \/ (r \in D /\ r.offset > o)
    BY <2>1
  <2>3. QED
    BY <1>3, <2>1, <2>2
<1>5. \A w \in Ahead : w.offset > r.offset
  BY <1>2, <1>3
<1>6. Ahead = {w \in D : w.offset > r.offset}
  BY <1>1, <1>2, <1>3, <1>5
<1>7. ASSUME NEW h \in Reached(D, o), h.offset > r.offset
      PROVE  FALSE
  <2>1. h \in D /\ h \in Ahead
    BY <1>4, <1>6, <1>7
  <2>2. /\ g \in D /\ g.offset > r.offset /\ r.offset # g.previousOffset /\ g.offset <= h.offset
        /\ \A w \in Ahead : w = g \/ g.offset < w.offset
    BY <1>2, <1>3, <2>1
  <2>3. Linked(D, o, g)
    <3>1. o < g.offset
      BY <1>3, <1>4, <2>2
    <3>2. QED
      BY <2>2, <3>1, Zenon DEF Reached
  <2>4. \A k \in D : k.offset < g.offset => k.offset <= r.offset
    BY <1>1, <1>2, <1>3, <2>2
  <2>5. g.previousOffset <= r.offset
    <3>1. CASE g.previousOffset = o
      BY <1>4, <3>1
    <3>2. ASSUME NEW k \in D, k.offset = g.previousOffset
          PROVE  g.previousOffset <= r.offset
      BY <1>3, <2>2, <2>4, <3>2
    <3>3. QED
      BY <2>3, <3>1, <3>2, Zenon DEF Linked
  <2>6. CASE r.offset = o
    BY <1>3, <2>2, <2>3, <2>5, <2>6 DEF Linked
  <2>7. CASE r \in D /\ r.offset > o
    <3>1. ~(g.previousOffset < r.offset /\ r.offset < g.offset)
      BY <2>3, <2>7, Zenon DEF Linked
    <3>2. QED
      BY <1>3, <2>2, <2>5, <3>1
  <2>8. QED
    BY <1>4, <2>6, <2>7
<1>8. \A h \in all : h.offset <= r.offset
  BY <1>3, <1>4, <1>7
<1>9. ASSUME NEW x \in all, \A h \in all : h.offset <= x.offset
      PROVE  x = r
  <2>1. r \in all
    OBVIOUS
  <2>2. x.offset = r.offset
    BY <1>3, <1>4, <1>8, <1>9, <2>1
  <2>3. \A v, w \in D : v.offset = w.offset => v = w
    <3>1. buffer \in Seq(Items) /\ Increasing(buffer) /\ Range(buffer) = D
      BY DEF LoopTypes, WalkInv
    <3>2. QED
      BY <3>1, IncreasingFacts, Zenon
  <2>4. QED
    BY <1>3, <1>4, <2>2, <2>3
<1>10. Highest(all) = {r}
  BY <1>8, <1>9 DEF Highest
<1>11. QED
  BY <1>6, <1>10, Zenon

(* So it ends with what FlushGapBuffer describes.                          *)
LEMMA WalkEnds ==
  ASSUME LoopTypes, WalkInv, Stopped
  PROVE  Flushed(ready, Ahead)
<1> DEFINE D == Deduped(t.gapBuffer)
           S == WalkStart(t, D)
           top == Highest(S \cup UNION {Reached(D, s.offset) : s \in S})
           rest == IF S = {} THEN {w \in D : w.offset >= t.committedPlusOne}
                             ELSE {w \in D : \A r \in top : w.offset > r.offset}
<1>1. FlushGapBuffer(t) = [t EXCEPT !.needsGapAdvance = FALSE, !.ready = top, !.gapBuffer = rest]
  <2>1. t.needsGapAdvance
    BY DEF WalkInv
  <2>2. QED
    BY <2>1, Zenon DEF FlushGapBuffer
<1> HIDE DEF D
<1>2. CASE ready = {}
  <2>1. S = {} /\ Ahead = {w \in D : w.offset >= t.committedPlusOne}
    BY <1>2, WalkEndsEmpty, Zenon DEF D
  <2>2. top = {}
    BY <2>1 DEF Highest
  <2>3. QED
    BY <1>1, <1>2, <2>1, <2>2, Zenon DEF Flushed
<1>3. CASE ready # {}
  <2>1. PICK r \in ready : TRUE
    BY <1>3
  <2>2. ready = {r}
    BY <2>1 DEF LoopTypes
  <2>3. PICK s \in S : r = s \/ r \in Reached(D, s.offset)
    BY <2>1, Zenon DEF WalkInv, D
  <2>4. S = {s}
    BY <2>3, WalkStartUnique, Zenon DEF D
  <2>5. UNION {Reached(D, z.offset) : z \in S} = Reached(D, s.offset)
    BY <2>4, Zenon
  <2>6. Highest({s} \cup Reached(D, s.offset)) = {r} /\ Ahead = {w \in D : w.offset > r.offset}
    BY <2>1, <2>3, WalkEndsHighest, Zenon DEF D
  <2>7. top = {r}
    BY <2>4, <2>5, <2>6, Zenon
  <2>8. rest = Ahead
    <3>1. S # {}
      BY <2>4
    <3>2. {w \in D : \A z \in {r} : w.offset > z.offset} = {w \in D : w.offset > r.offset}
      OBVIOUS
    <3>3. QED
      BY <2>6, <2>7, <3>1, <3>2, Zenon
  <2>9. QED
    BY <1>1, <2>2, <2>7, <2>8, Zenon DEF Flushed
<1>4. QED
  BY <1>2, <1>3

(* The slice behind the items that were passed.                            *)
LEMMA Trimmed ==
  ASSUME buffer \in Seq(Items), i \in Nat \ {0}, i <= Len(buffer) + 1
  PROVE  LET q == SubSeq(buffer, i, Len(buffer))
         IN  q \in Seq(Items) /\ Range(q) = Ahead /\ (IsInjective(buffer) => IsInjective(q))
<1> DEFINE n == Len(buffer)
           q == SubSeq(buffer, i, n)
<1>1. n \in Nat /\ DOMAIN buffer = 1 .. n /\ \A k \in i .. n : k \in DOMAIN buffer /\ buffer[k] \in Items
  OBVIOUS
<1>2. /\ q \in Seq(Items) /\ DOMAIN q = 1 .. (n - i + 1)
      /\ \A k \in 1 .. (n - i + 1) : q[k] = buffer[i + k - 1]
  BY <1>1
<1> HIDE DEF n, q
<1>3. /\ \A k \in 1 .. (n - i + 1) : i + k - 1 \in DOMAIN buffer /\ i + k - 1 >= i
      /\ \A k \in DOMAIN buffer : k >= i => k - i + 1 \in 1 .. (n - i + 1) /\ i + (k - i + 1) - 1 = k
      /\ \A j, k \in 1 .. (n - i + 1) : i + j - 1 = i + k - 1 => j = k
  BY <1>1
<1>4. Range(q) = Ahead
  <2>1. ASSUME NEW k \in DOMAIN q
        PROVE  q[k] \in Ahead
    <3>1. q[k] = buffer[i + k - 1] /\ i + k - 1 \in DOMAIN buffer /\ i + k - 1 >= i
      BY <1>2, <1>3
    <3>2. QED
      BY <3>1, Zenon DEF Ahead
  <2>2. ASSUME NEW k \in DOMAIN buffer, k >= i
        PROVE  buffer[k] \in Range(q)
    <3>1. k - i + 1 \in DOMAIN q /\ q[k - i + 1] = buffer[k]
      BY <1>2, <1>3, <2>2
    <3>2. QED
      BY <3>1, Zenon DEF Range
  <2>3. QED
    BY <2>1, <2>2, Zenon DEF Range, Ahead
<1>5. ASSUME IsInjective(buffer)
      PROVE  IsInjective(q)
  <2>1. ASSUME NEW j \in DOMAIN q, NEW k \in DOMAIN q, q[j] = q[k]
        PROVE  j = k
    <3>1. /\ i + j - 1 \in DOMAIN buffer /\ i + k - 1 \in DOMAIN buffer /\ buffer[i + j - 1] = buffer[i + k - 1]
      BY <1>2, <1>3, <2>1
    <3>2. i + j - 1 = i + k - 1
      BY <1>5, <3>1, Zenon DEF IsInjective
    <3>3. QED
      BY <1>2, <1>3, <3>2
  <2>2. QED
    BY <2>1, Zenon DEF IsInjective
<1>6. QED
  BY <1>2, <1>4, <1>5 DEF q, n

(* The two ways out of the walk.                                           *)
LEMMA StopKeeps ==
  ASSUME LoopTypes, WalkInv, BreakWalk \/ EndOfBuffer
  PROVE  LoopTypes' /\ WalkInv' /\ Stopped' /\ pc' = "trim"
<1>1. /\ t' = t /\ buffer' = buffer /\ i' = i /\ ready' = ready /\ advanced' = advanced /\ kept' = kept
      /\ returned' = returned /\ pc' = "trim"
  BY DEF BreakWalk, EndOfBuffer
<1>2. Passed' = Passed /\ g' = g
  BY <1>1, Zenon DEF Passed, g
<1>3. Stopped
  <2>1. i \in Nat /\ Len(buffer) \in Nat
    BY DEF LoopTypes
  <2>2. CASE BreakWalk
    BY <2>2, Zenon DEF BreakWalk, Stopped
  <2>3. CASE EndOfBuffer
    BY <2>1, <2>3 DEF EndOfBuffer, Stopped
  <2>4. QED
    BY <2>2, <2>3
<1>4. LoopTypes'
  BY <1>1, Zenon DEF LoopTypes
<1>5. WalkInv'
  BY <1>1, <1>2, Zenon DEF WalkInv
<1>6. Stopped'
  BY <1>1, <1>2, <1>3, Zenon DEF Stopped
<1>7. QED
  BY <1>1, <1>4, <1>5, <1>6

(* The trim leaves the flushed tracker.                                    *)
LEMMA TrimKeeps ==
  ASSUME LoopTypes, WalkInv, Stopped, Trim
  PROVE  LoopTypes' /\ FlushedInv' /\ pc' = "flushed"
<1> DEFINE q == SubSeq(buffer, i, Len(buffer))
<1>1. /\ t' = t /\ i' = i /\ ready' = ready /\ advanced' = advanced /\ kept' = kept
      /\ returned' = returned /\ pc' = "flushed" /\ buffer' = SubSeq(buffer, advanced + 1, Len(buffer))
  BY DEF Trim
<1>2. /\ buffer \in Seq(Items) /\ i \in Nat \ {0} /\ i <= Len(buffer) + 1 /\ advanced = i - 1
      /\ t.needsGapAdvance /\ kept = <<>> /\ Increasing(buffer) /\ IsInjective(returned)
      /\ Range(returned) \cap ready = {} /\ Range(returned) \cup ready = t.ready \cup Passed
  BY DEF LoopTypes, WalkInv
<1>3. buffer' = q
  <2>1. advanced + 1 = i
    BY <1>2
  <2>2. QED
    BY <1>1, <2>1, Zenon
<1>4. q \in Seq(Items) /\ Range(q) = Ahead /\ IsInjective(q)
  BY <1>2, Trimmed, IncreasingFacts, Zenon
<1> HIDE DEF q
<1>5. Flushed(ready, Ahead)
  BY WalkEnds
<1>6. Shared(Range(returned), Ahead, ready)
  <2>1. /\ Passed \cup Ahead = Deduped(t.gapBuffer) /\ Passed \cap Ahead = {}
    BY StoppedFacts, Zenon
  <2>2. t.ready \cap Ahead = {}
    <3>1. Ahead \subseteq t.gapBuffer
      BY <2>1 DEF Deduped
    <3>2. QED
      BY <3>1, Zenon DEF LoopTypes
  <2>3. QED
    BY <1>2, <2>1, <2>2 DEF Shared
<1>7. LoopTypes'
  BY <1>1, <1>3, <1>4, Zenon DEF LoopTypes
<1>8. FlushedInv'
  BY <1>1, <1>2, <1>3, <1>4, <1>5, <1>6, Zenon DEF FlushedInv, Flushed, Shared
<1>9. QED
  BY <1>1, <1>7, <1>8

-----------------------------------------------------------------------------
(* repairSuccessor.                                                        *)

(* Without a provable successor the repair changes nothing.                *)
LEMMA RepairNothing ==
  ASSUME NEW u, NEW twin,
         \/ u.ready # {}
         \/ u.lastCommittedOffset < 0
         \/ \A x \in u.gapBuffer : ~ProvableSuccessor(u, x)
  PROVE  RepairSuccessor(u, twin) = u
<1>1. CASE u.ready # {} \/ u.lastCommittedOffset < 0
  BY <1>1, Zenon DEF RepairSuccessor
<1>2. CASE \A x \in u.gapBuffer : ~ProvableSuccessor(u, x)
  <2>1. Successor(u, twin) = {}
    BY <1>2, Zenon DEF Successor
  <2>2. QED
    BY <2>1, Zenon DEF RepairSuccessor
<1>3. QED
  BY <1>1, <1>2

(* Of the lowest provable items, at most one of each read time, each is    *)
(* the successor when the scan meets it first.                             *)
LEMMA SuccessorIs ==
  ASSUME NEW u, u.gapBuffer \in SUBSET Items,
         \A v, w \in u.gapBuffer : v.offset = w.offset /\ v.readTime = w.readTime => v = w,
         NEW s \in u.gapBuffer, ProvableSuccessor(u, s),
         \A w \in u.gapBuffer : ProvableSuccessor(u, w) => s.offset <= w.offset
  PROVE  \E twin \in 1 .. MaxRead : Successor(u, twin) = {s}
<1> DEFINE provable == {x \in u.gapBuffer : ProvableSuccessor(u, x)}
           lowest == {x \in provable : \A h \in provable : x.offset <= h.offset}
           first == {x \in lowest : x.readTime = s.readTime}
<1>1. s \in provable /\ s \in lowest
  BY Zenon
<1>2. \A w \in lowest : w.offset = s.offset /\ w \in u.gapBuffer
  <2>1. \A w \in lowest : w \in u.gapBuffer /\ w.offset <= s.offset /\ s.offset <= w.offset
    BY <1>1, Zenon
  <2>2. \A w \in u.gapBuffer : w.offset \in Nat
    BY ItemFacts
  <2>3. QED
    BY <2>1, <2>2
<1>3. s.readTime \in 1 .. MaxRead
  BY ItemFacts, Zenon
<1>4. Successor(u, s.readTime) =
        IF first # {} THEN first ELSE {x \in lowest : \A h \in lowest : h.readTime <= x.readTime}
  BY Zenon DEF Successor
<1> HIDE DEF lowest
<1>5. first = {s}
  BY <1>1, <1>2, Zenon
<1>6. Successor(u, s.readTime) = {s}
  BY <1>4, <1>5, Zenon
<1>7. QED
  BY <1>3, <1>6, Zenon

(* What the prune pass keeps when s is promoted.                           *)
AtOrAbove(items, s) == {x \in items \ {s} : x.offset >= s.offset}

LEMMA RepairFinds ==
  ASSUME NEW u, NEW twin, NEW s \in Successor(u, twin), \A x \in Successor(u, twin) : x = s,
         u.ready = {}, ~u.needsGapAdvance, ~(u.lastCommittedOffset < 0)
  PROVE  RepairSuccessor(u, twin) =
           [u EXCEPT !.ready = {s}, !.gapBuffer = AtOrAbove(u.gapBuffer, s),
                     !.needsGapAdvance = AtOrAbove(u.gapBuffer, s) # {}]
<1>1. {x \in u.gapBuffer \ {s} : \A z \in {s} : x.offset >= z.offset} = AtOrAbove(u.gapBuffer, s)
  BY DEF AtOrAbove
<1>2. {s} # {} /\ Successor(u, twin) = {s}
  OBVIOUS
<1>3. QED
  BY <1>1, <1>2, Zenon DEF RepairSuccessor

(* What the flush leaves, field by field.                                  *)
LEMMA FlushedFields ==
  ASSUME LoopTypes, NEW r, NEW items, Flushed(r, items)
  PROVE  LET u == FlushGapBuffer(t)
         IN  /\ u.ready = r /\ u.gapBuffer = items /\ ~u.needsGapAdvance
             /\ u.lastCommittedOffset = t.lastCommittedOffset
             /\ u = [ready |-> r, committedPlusOne |-> t.committedPlusOne,
                     lastCommittedOffset |-> t.lastCommittedOffset, assignment |-> t.assignment,
                     gapBuffer |-> items, needsGapAdvance |-> FALSE]
             /\ \A x : ProvableSuccessor(u, x) <=> ProvableSuccessor(t, x)
<1> DEFINE u == FlushGapBuffer(t)
<1>1. u = [ready |-> r, committedPlusOne |-> t.committedPlusOne,
           lastCommittedOffset |-> t.lastCommittedOffset, assignment |-> t.assignment,
           gapBuffer |-> items, needsGapAdvance |-> FALSE]
  <2>1. t \in [ready : SUBSET Items, committedPlusOne : Int, lastCommittedOffset : Int,
               assignment : Assignments, gapBuffer : SUBSET Items, needsGapAdvance : BOOLEAN]
    BY DEF LoopTypes
  <2>2. QED
    BY <2>1, Zenon DEF Flushed
<1>2. u.committedPlusOne = t.committedPlusOne /\ u.lastCommittedOffset = t.lastCommittedOffset
  BY <1>1
<1>3. u.ready = r /\ u.gapBuffer = items /\ ~u.needsGapAdvance
  BY <1>1
<1>4. \A x : ProvableSuccessor(u, x) <=> ProvableSuccessor(t, x)
  BY <1>2, Zenon DEF ProvableSuccessor
<1>5. QED
  BY <1>1, <1>2, <1>3, <1>4, Zenon

(* Nothing to repair: the tick ends with the flushed tracker.              *)
LEMMA RepairsNothing ==
  ASSUME LoopTypes, Flushed(ready, Range(buffer)),
         \/ ready # {}
         \/ t.lastCommittedOffset < 0
         \/ \A x \in Range(buffer) : ~ProvableSuccessor(t, x)
  PROVE  Repaired
<1> DEFINE u == FlushGapBuffer(t)
<1>1. /\ u.ready = ready /\ u.gapBuffer = Range(buffer) /\ u.lastCommittedOffset = t.lastCommittedOffset
      /\ u = [t EXCEPT !.needsGapAdvance = FALSE, !.ready = ready, !.gapBuffer = Range(buffer)]
      /\ \A x : ProvableSuccessor(u, x) <=> ProvableSuccessor(t, x)
  BY FlushedFields, Zenon DEF Flushed
<1>2. u = [t EXCEPT !.ready = ready, !.gapBuffer = Range(buffer), !.needsGapAdvance = FALSE]
  BY <1>1, Zenon DEF LoopTypes
<1> HIDE DEF u
<1>3. \A twin : RepairSuccessor(u, twin) = u
  BY <1>1, RepairNothing, Zenon
<1>4. (u.ready = {} /\ ready # {} /\ buffer # <<>>) = FALSE
  BY <1>1
<1>5. 1 \in 1 .. MaxRead
  BY LoopAssumption
<1>6. QED
  BY <1>2, <1>3, <1>4, <1>5, Zenon DEF Repaired, u

(* The early returns of repairSuccessor, and the start of its scan.        *)
LEMMA RepairKeeps ==
  ASSUME LoopTypes, FlushedInv, Repair
  PROVE  /\ LoopTypes'
         /\ pc' \in {"scan", "done"}
         /\ pc' = "scan" => ScanInv'
         /\ pc' = "done" => DoneInv'
<1>1. /\ t' = t /\ buffer' = buffer /\ i' = 1 /\ ready' = ready /\ advanced' = advanced /\ kept' = kept
      /\ returned' = returned /\ pc' = IF Gated THEN "done" ELSE "scan"
  BY DEF Repair
<1>2. /\ buffer \in Seq(Items) /\ Flushed(ready, Range(buffer)) /\ kept = <<>>
      /\ IsInjective(buffer) /\ IsInjective(returned) /\ Shared(Range(returned), Range(buffer), ready)
      /\ t.lastCommittedOffset \in Int
  BY DEF LoopTypes, FlushedInv
<1>3. LoopTypes'
  <2>1. i' \in Nat \ {0} /\ pc' \in {"scan", "done"}
    BY <1>1
  <2>2. QED
    BY <1>1, <2>1, Zenon DEF LoopTypes
<1>4. CASE Gated
  <2>1. \/ ready # {}
        \/ t.lastCommittedOffset < 0
        \/ \A x \in Range(buffer) : ~ProvableSuccessor(t, x)
    BY <1>4 DEF Gated, Range
  <2>2. Repaired
    BY <1>2, <2>1, RepairsNothing, Zenon
  <2>3. DoneInv'
    BY <1>1, <1>2, <2>2, Zenon DEF DoneInv, Repaired, Shared
  <2>4. QED
    BY <1>1, <1>3, <1>4, <2>3
<1>5. CASE ~Gated
  <2>1. ready = {} /\ t.lastCommittedOffset >= 0 /\ pc' = "scan"
    BY <1>1, <1>2, <1>5 DEF Gated
  <2>2. Passed' = {}
    <3>1. \A k \in DOMAIN buffer' : ~(k < i')
      BY <1>1, <1>2
    <3>2. QED
      BY <3>1, Zenon DEF Passed
  <2>3. LowestIn(Passed)'
    BY <1>1, <2>1, <2>2, Zenon DEF LowestIn
  <2>4. ScanInv'
    BY <1>1, <1>2, <2>1, <2>3, Zenon DEF ScanInv, Flushed, Shared
  <2>5. QED
    BY <1>3, <2>1, <2>4
<1>6. QED
  BY <1>4, <1>5

(* The scan keeps the lowest provable item so far.                         *)
LEMMA ScanItemKeeps ==
  ASSUME LoopTypes, ScanInv, ScanItem
  PROVE  LoopTypes' /\ ScanInv' /\ pc' = pc
<1>1. /\ t' = t /\ buffer' = buffer /\ i' = i + 1 /\ advanced' = advanced /\ kept' = kept
      /\ returned' = returned /\ pc' = pc /\ i <= Len(buffer)
      /\ ready' = IF Chooses THEN {g} ELSE ready
  BY DEF ScanItem
<1>2. /\ buffer \in Seq(Items) /\ i \in Nat \ {0} /\ ready \in SUBSET Items
      /\ t.lastCommittedOffset \in Int /\ t.committedPlusOne \in Int
  BY DEF LoopTypes
<1>3. Passed' = Passed \cup {g} /\ g \in Items
  BY <1>1, <1>2, PassesOne, PassedOrAhead, Zenon
<1>4. Chooses <=> ProvableSuccessor(t, g) /\ \A s \in ready : g.offset < s.offset
  <2>1. g.previousOffset \in Int
    BY <1>3, ItemFacts
  <2>2. QED
    BY <1>2, <2>1 DEF Chooses, ProvableSuccessor
<1>5. /\ \A s \in ready : s \in Passed /\ ProvableSuccessor(t, s)
      /\ \A w \in Passed : ProvableSuccessor(t, w) => \E s \in ready : s.offset <= w.offset
      /\ \A v, w \in ready : v = w
  BY DEF ScanInv, LowestIn, LoopTypes
<1>6. \A w \in Passed \cup {g} \cup ready : w.offset \in Nat
  <2>1. Passed \subseteq Items
    <3>1. \A j \in DOMAIN buffer : buffer[j] \in Items
      BY <1>2, ElementsOf, Zenon
    <3>2. QED
      BY <3>1, Zenon DEF Passed
  <2>2. QED
    BY <1>2, <1>3, <2>1, ItemFacts
<1>7. CASE Chooses
  <2>1. ready' = {g} /\ ProvableSuccessor(t, g) /\ \A s \in ready : g.offset < s.offset
    BY <1>1, <1>4, <1>7
  <2>2. \A w \in Passed \cup {g} : ProvableSuccessor(t, w) => g.offset <= w.offset
    BY <1>5, <1>6, <2>1
  <2>3. LowestIn(Passed)'
    BY <1>1, <1>3, <2>1, <2>2, Zenon DEF LowestIn
  <2>4. ready' \in SUBSET Items /\ \A v, w \in ready' : v = w
    BY <1>3, <2>1
  <2>5. i' \in Nat \ {0}
    BY <1>1, <1>2
  <2>6. QED
    BY <1>1, <2>3, <2>4, <2>5, Zenon DEF ScanInv, Flushed, Shared, LoopTypes
<1>8. CASE ~Chooses
  <2>1. ready' = ready /\ (ProvableSuccessor(t, g) => \E s \in ready : ~(g.offset < s.offset))
    BY <1>1, <1>4, <1>8
  <2>2. \A w \in Passed \cup {g} : ProvableSuccessor(t, w) => \E s \in ready : s.offset <= w.offset
    BY <1>5, <1>6, <2>1
  <2>3. LowestIn(Passed)'
    BY <1>1, <1>3, <1>5, <2>1, <2>2, Zenon DEF LowestIn
  <2>4. i' \in Nat \ {0}
    BY <1>1, <1>2
  <2>5. QED
    BY <1>1, <2>1, <2>3, <2>4, Zenon DEF ScanInv, Flushed, Shared, LoopTypes
<1>9. QED
  BY <1>7, <1>8

(* The scan ends with the successor, or finds none.                        *)
LEMMA EndScanKeeps ==
  ASSUME LoopTypes, ScanInv, EndScan
  PROVE  /\ LoopTypes'
         /\ pc' \in {"prune", "done"}
         /\ pc' = "prune" => PruneInv'
         /\ pc' = "done" => DoneInv'
<1>1. /\ t' = t /\ buffer' = buffer /\ i' = 1 /\ advanced' = advanced /\ kept' = kept /\ ready' = ready
      /\ returned' = returned /\ i > Len(buffer)
      /\ pc' = IF ready = {} THEN "done" ELSE "prune"
  BY DEF EndScan
<1>2. /\ buffer \in Seq(Items) /\ i \in Nat /\ Flushed({}, Range(buffer)) /\ kept = <<>>
      /\ IsInjective(buffer) /\ IsInjective(returned) /\ Shared(Range(returned), Range(buffer), {})
      /\ t.lastCommittedOffset >= 0
  BY DEF LoopTypes, ScanInv
<1>3. Passed = Range(buffer) /\ LowestIn(Range(buffer))
  BY <1>1, <1>2, AllPassed, Zenon DEF ScanInv
<1>4. LoopTypes'
  <2>1. i' \in Nat \ {0} /\ pc' \in {"prune", "done"}
    BY <1>1
  <2>2. QED
    BY <1>1, <2>1, Zenon DEF LoopTypes
<1>5. CASE ready = {}
  <2>1. \A x \in Range(buffer) : ~ProvableSuccessor(t, x)
    BY <1>3, <1>5, Zenon DEF LowestIn
  <2>2. Repaired
    BY <1>2, <1>5, <2>1, RepairsNothing, Zenon
  <2>3. DoneInv'
    BY <1>1, <1>2, <1>5, <2>2, Zenon DEF DoneInv, Repaired, Shared
  <2>4. QED
    BY <1>1, <1>4, <1>5, <2>3
<1>6. CASE ready # {}
  <2>1. Passed' = {} /\ Ahead' = Range(buffer)
    <3>1. \A k \in DOMAIN buffer : ~(k < 1) /\ k >= 1
      BY <1>2
    <3>2. QED
      BY <1>1, <3>1, Zenon DEF Passed, Ahead, Range
  <2>2. Range(kept) = {} /\ IsInjective(kept)
    BY <1>2 DEF Range, IsInjective
  <2>3. Shared(Range(returned), {} \cup (Range(buffer) \ ready), ready)
    <3>1. ready \subseteq Range(buffer)
      BY <1>3 DEF LowestIn
    <3>2. QED
      BY <1>2, <3>1 DEF Shared
  <2>4. PruneInv'
    BY <1>1, <1>2, <1>3, <1>6, <2>1, <2>2, <2>3, Zenon DEF PruneInv, Flushed, Shared, LowestIn
  <2>5. QED
    BY <1>1, <1>4, <1>6, <2>4
<1>7. QED
  BY <1>5, <1>6

(* One iteration of the prune pass.                                        *)
LEMMA PruneItemKeeps ==
  ASSUME LoopTypes, PruneInv, PruneItem
  PROVE  LoopTypes' /\ PruneInv' /\ pc' = pc
<1> DEFINE stale == \E s \in ready : g.offset < s.offset
           passing(q) == {w \in q \ ready : \A s \in ready : w.offset >= s.offset}
<1>1. /\ t' = t /\ buffer' = buffer /\ i' = i + 1 /\ advanced' = advanced /\ ready' = ready
      /\ pc' = pc /\ i <= Len(buffer)
      /\ kept' = IF stale \/ g \in ready THEN kept ELSE Append(kept, g)
      /\ returned' = IF stale THEN Append(returned, g) ELSE returned
  BY DEF PruneItem
<1>2. /\ buffer \in Seq(Items) /\ kept \in Seq(Items) /\ returned \in Seq(Items) /\ i \in Nat \ {0}
      /\ ready \in SUBSET Items
      /\ Range(kept) = passing(Passed) /\ IsInjective(buffer) /\ IsInjective(kept) /\ IsInjective(returned)
      /\ Shared(Range(returned), Range(kept) \cup (Ahead \ ready), ready)
  BY DEF LoopTypes, PruneInv
<1>3. /\ Passed' = Passed \cup {g} /\ Ahead = Ahead' \cup {g} /\ g \in Items
      /\ g \notin Passed /\ g \notin Ahead'
  BY <1>1, <1>2, PassesOne, PassedOrAhead, Zenon
<1>4. g.offset \in Nat /\ \A s \in ready : s.offset \in Nat
  BY <1>2, <1>3, ItemFacts
<1>5. /\ \A v, w \in ready : v = w
      /\ g \notin Range(kept)
  BY <1>2, <1>3 DEF LoopTypes
<1>6. i' \in Nat \ {0}
  BY <1>1, <1>2
<1> HIDE DEF stale
<1>7. ASSUME /\ kept' \in Seq(Items) /\ returned' \in Seq(Items) /\ IsInjective(kept') /\ IsInjective(returned')
             /\ Range(kept') = passing(Passed \cup {g})
             /\ Shared(Range(returned'), Range(kept') \cup (Ahead' \ ready), ready)
      PROVE  LoopTypes' /\ PruneInv' /\ pc' = pc
  <2>1. LoopTypes'
    BY <1>1, <1>6, <1>7, Zenon DEF LoopTypes
  <2>2. PruneInv'
    BY <1>1, <1>3, <1>7, Zenon DEF PruneInv, Flushed, LowestIn, Shared
  <2>3. QED
    BY <1>1, <2>1, <2>2
<1>8. CASE stale
  <2>1. kept' = kept /\ returned' = Append(returned, g)
    BY <1>1, <1>8
  <2>2. g \notin ready /\ ~\A s \in ready : g.offset >= s.offset
    BY <1>4, <1>5, <1>8 DEF stale
  <2>3. passing(Passed \cup {g}) = passing(Passed)
    BY <2>2, Zenon
  <2>4. g \notin Range(returned)
    BY <1>2, <1>3, <2>2 DEF Shared
  <2>5. /\ Append(returned, g) \in Seq(Items) /\ IsInjective(Append(returned, g))
        /\ Range(Append(returned, g)) = Range(returned) \cup {g}
    BY <1>2, <1>3, <2>4, Appended
  <2>6. Shared(Range(returned) \cup {g}, Range(kept) \cup (Ahead' \ ready), ready)
    BY <1>2, <1>3, <1>5, <2>2 DEF Shared
  <2>7. QED
    BY <1>2, <1>7, <2>1, <2>3, <2>5, <2>6, Zenon
<1>9. CASE ~stale /\ g \in ready
  <2>1. kept' = kept /\ returned' = returned
    BY <1>1, <1>9
  <2>2. passing(Passed \cup {g}) = passing(Passed)
    BY <1>9, Zenon
  <2>3. Ahead' \ ready = Ahead \ ready
    BY <1>3, <1>9
  <2>4. QED
    BY <1>2, <1>7, <2>1, <2>2, <2>3, Zenon
<1>10. CASE ~stale /\ g \notin ready
  <2>1. kept' = Append(kept, g) /\ returned' = returned
    BY <1>1, <1>10
  <2>2. \A s \in ready : g.offset >= s.offset
    BY <1>4, <1>10 DEF stale
  <2>3. passing(Passed \cup {g}) = passing(Passed) \cup {g}
    BY <1>10, <2>2
  <2>4. /\ Append(kept, g) \in Seq(Items) /\ IsInjective(Append(kept, g))
        /\ Range(Append(kept, g)) = Range(kept) \cup {g}
    BY <1>2, <1>3, <1>5, Appended
  <2>5. Range(kept) \cup {g} \cup (Ahead' \ ready) = Range(kept) \cup (Ahead \ ready)
    BY <1>3, <1>10
  <2>6. QED
    BY <1>2, <1>7, <2>1, <2>3, <2>4, <2>5, Zenon
<1>11. QED
  BY <1>8, <1>9, <1>10

(* A flush adds nothing to the buffer.                                     *)
LEMMA FlushKeepsBuffered ==
  ASSUME LoopTypes
  PROVE  FlushGapBuffer(t).gapBuffer \subseteq t.gapBuffer
<1> DEFINE buffered == Deduped(t.gapBuffer)
           start == WalkStart(t, buffered)
           highest == Highest(start \cup UNION {Reached(buffered, s.offset) : s \in start})
           left == IF start = {}
                   THEN {w \in buffered : w.offset >= t.committedPlusOne}
                   ELSE {w \in buffered : \A r \in highest : w.offset > r.offset}
<1>1. CASE ~t.needsGapAdvance
  BY <1>1, Zenon DEF FlushGapBuffer
<1>2. CASE t.needsGapAdvance
  <2>1. left \subseteq t.gapBuffer
    <3>1. buffered \subseteq t.gapBuffer
      BY Zenon DEF Deduped
    <3> HIDE DEF buffered, start, highest
    <3>2. QED
      BY <3>1, Zenon
  <2>2. FlushGapBuffer(t) = [t EXCEPT !.needsGapAdvance = FALSE, !.ready = highest, !.gapBuffer = left]
    BY <1>2, Zenon DEF FlushGapBuffer
  <2> HIDE DEF left, highest
  <2>3. FlushGapBuffer(t).gapBuffer = left
    BY <2>2 DEF LoopTypes
  <2>4. QED
    BY <2>1, <2>3
<1>3. QED
  BY <1>1, <1>2

(* The promotion is the repair.                                            *)
LEMMA PromoteKeeps ==
  ASSUME LoopTypes, PruneInv, Promote
  PROVE  LoopTypes' /\ DoneInv' /\ pc' = "done"
<1> DEFINE u == FlushGapBuffer(t)
           B == Range(buffer)
<1>1. /\ t' = t /\ i' = i /\ advanced' = advanced /\ ready' = ready /\ kept' = kept /\ returned' = returned
      /\ buffer' = kept /\ pc' = "done" /\ i > Len(buffer)
  BY DEF Promote
<1>2. /\ buffer \in Seq(Items) /\ kept \in Seq(Items) /\ i \in Nat /\ ready \in SUBSET Items
      /\ t.gapBuffer \in SUBSET Items /\ t.lastCommittedOffset \in Int
      /\ Flushed({}, B) /\ t.lastCommittedOffset >= 0 /\ LowestIn(B)
      /\ Range(kept) = {w \in Passed \ ready : \A s \in ready : w.offset >= s.offset}
      /\ IsInjective(kept) /\ IsInjective(returned)
      /\ Shared(Range(returned), Range(kept) \cup (Ahead \ ready), ready)
  BY DEF LoopTypes, PruneInv
<1>3. Passed = B /\ Ahead = {} /\ B \subseteq Items
  BY <1>1, <1>2, AllPassed, ElementsOf, Zenon
<1>4. PICK s : ready = {s}
  <2>1. PICK s : s \in ready
    BY Zenon DEF PruneInv
  <2>2. \A v \in ready : v = s
    BY <2>1, Zenon DEF LoopTypes
  <2>3. ready = {s}
    BY <2>1, <2>2
  <2>4. QED
    BY <2>3
<1>5. /\ u.ready = {} /\ u.gapBuffer = B /\ ~u.needsGapAdvance /\ u.lastCommittedOffset = t.lastCommittedOffset
      /\ u = [ready |-> {}, committedPlusOne |-> t.committedPlusOne,
              lastCommittedOffset |-> t.lastCommittedOffset, assignment |-> t.assignment,
              gapBuffer |-> B, needsGapAdvance |-> FALSE]
      /\ \A x : ProvableSuccessor(u, x) <=> ProvableSuccessor(t, x)
  BY <1>2, FlushedFields, Zenon
<1> HIDE DEF u, B
<1>6. B \subseteq t.gapBuffer
  BY <1>5, FlushKeepsBuffered, Zenon DEF u
<1>7. PICK twin \in 1 .. MaxRead : Successor(u, twin) = {s}
  <2>1. \A v, w \in B : v.offset = w.offset /\ v.readTime = w.readTime => v = w
    BY <1>6, Zenon DEF LoopTypes
  <2>2. s \in B /\ ProvableSuccessor(t, s) /\ \A w \in B : ProvableSuccessor(t, w) => s.offset <= w.offset
    BY <1>2, <1>4, Zenon DEF LowestIn
  <2>3. QED
    BY <1>3, <1>5, <2>1, <2>2, SuccessorIs, Zenon
<1>8. Range(kept) = {x \in B \ {s} : x.offset >= s.offset}
  BY <1>2, <1>3, <1>4
<1>9. RepairSuccessor(u, twin) =
        [u EXCEPT !.ready = {s}, !.gapBuffer = Range(kept), !.needsGapAdvance = Range(kept) # {}]
  <2>1. ~(t.lastCommittedOffset < 0)
    BY <1>2
  <2>2. u.ready = {} /\ ~u.needsGapAdvance /\ ~(u.lastCommittedOffset < 0)
    BY <1>5, <2>1, Zenon
  <2>3. AtOrAbove(u.gapBuffer, s) = Range(kept)
    BY <1>5, <1>8, Zenon DEF AtOrAbove
  <2>4. s \in Successor(u, twin) /\ \A x \in Successor(u, twin) : x = s
    BY <1>7
  <2>5. RepairSuccessor(u, twin) =
          [u EXCEPT !.ready = {s}, !.gapBuffer = AtOrAbove(u.gapBuffer, s),
                    !.needsGapAdvance = AtOrAbove(u.gapBuffer, s) # {}]
    BY <2>2, <2>4, RepairFinds, ZenonT(30)
  <2>6. QED
    BY <2>3, <2>5, Zenon
<1>10. Range(kept) # {} <=> kept # <<>>
  BY <1>2 DEF Range
<1>11. [u EXCEPT !.ready = {s}, !.gapBuffer = Range(kept), !.needsGapAdvance = Range(kept) # {}] =
         [t EXCEPT !.ready = ready, !.gapBuffer = Range(kept),
                   !.needsGapAdvance = u.ready = {} /\ ready # {} /\ kept # <<>>]
  <2>1. Range(kept) # {} <=> u.ready = {} /\ ready # {} /\ kept # <<>>
    BY <1>4, <1>5, <1>10
  <2>3. PICK K, flag : K = Range(kept) /\ flag = (Range(kept) # {})
    OBVIOUS
  <2>4. flag = (u.ready = {} /\ ready # {} /\ kept # <<>>)
    BY <2>1, <2>3, Zenon
  <2>5. [u EXCEPT !.ready = {s}, !.gapBuffer = K, !.needsGapAdvance = flag] =
          [t EXCEPT !.ready = {s}, !.gapBuffer = K, !.needsGapAdvance = flag]
    <3>1. u = [t EXCEPT !.needsGapAdvance = FALSE, !.ready = {}, !.gapBuffer = B]
      BY <1>2, Zenon DEF Flushed, u
    <3>2. t \in [ready : SUBSET Items, committedPlusOne : Int, lastCommittedOffset : Int,
                  assignment : Assignments, gapBuffer : SUBSET Items, needsGapAdvance : BOOLEAN]
      BY DEF LoopTypes
    <3>3. QED
      BY <3>1, <3>2, Zenon
  <2>6. QED
    BY <1>4, <2>3, <2>4, <2>5, Zenon
<1>12. Repaired'
  <2>1. FlushGapBuffer(t)' = u
    BY <1>1 DEF u
  <2>2. RepairSuccessor(u, twin) =
          [t EXCEPT !.ready = ready, !.gapBuffer = Range(kept),
                    !.needsGapAdvance = u.ready = {} /\ ready # {} /\ kept # <<>>]
    BY <1>9, <1>11, Zenon
  <2>3. QED
    BY <1>1, <2>2, Zenon DEF Repaired, u
<1>13. LoopTypes'
  <2>1. pc' \in {"compact", "walk", "trim", "flushed", "scan", "prune", "done"}
    BY <1>1
  <2>2. QED
    BY <1>1, <1>2, <2>1, Zenon DEF LoopTypes
<1>14. Range(kept) \cup (Ahead \ ready) = Range(kept)
  BY <1>3
<1>15. QED
  BY <1>1, <1>2, <1>12, <1>13, <1>14, Zenon DEF DoneInv, Shared

-----------------------------------------------------------------------------
(* The first step of a tick, and every step of it.                         *)

LEMMA LoopInitial == Init => LoopInv
<1> SUFFICES ASSUME Init PROVE LoopInv
  OBVIOUS
<1>1. /\ buffer \in Seq(Items) /\ buffer \in Buffers
      /\ \A j, k \in DOMAIN buffer :
           buffer[j].offset = buffer[k].offset /\ buffer[j].readTime = buffer[k].readTime => j = k
  <2>1. PICK n \in 0 .. MaxBuffered : buffer \in [1 .. n -> Items]
    BY Zenon DEF Init, Buffers
  <2>2. n \in Nat
    BY <2>1, LoopAssumption
  <2>3. buffer \in Seq(Items)
    BY <2>1, <2>2
  <2>4. QED
    BY <2>3, Zenon DEF Init, Buffers
<1>2. IsInjective(buffer)
  BY <1>1, Zenon DEF IsInjective
<1>3. PICK flag \in BOOLEAN, r \in {{}} \cup {{w} : w \in Items}, baseline \in -1 .. MaxOffset + 1,
           anchor \in -1 .. MaxOffset, mark \in Assignments :
        /\ IF flag THEN Sorted(buffer) ELSE r = {}
        /\ t = [ready |-> r, committedPlusOne |-> baseline, lastCommittedOffset |-> anchor,
                assignment |-> mark, gapBuffer |-> Range(buffer), needsGapAdvance |-> flag]
  BY Zenon DEF Init
<1>4. /\ t.ready = r /\ t.gapBuffer = Range(buffer) /\ t.needsGapAdvance = flag
      /\ t.committedPlusOne = baseline /\ t.lastCommittedOffset = anchor
  BY <1>3
<1>5. /\ i = 1 /\ ready = t.ready /\ advanced = 0 /\ kept = <<>> /\ returned = <<>>
      /\ pc = IF t.needsGapAdvance THEN "compact" ELSE "flushed"
      /\ IsTracker(t, MaxOffset, MaxRead)
  BY DEF Init
<1>6. r \subseteq Items /\ \A v, w \in r : v = w
  BY <1>3
<1>7. Range(<<>>) = {} /\ IsInjective(<<>>) /\ <<>> \in Seq(Items)
  BY DEF Range, IsInjective
<1>8. LoopTypes
  <2>1. t \in [ready : SUBSET Items, committedPlusOne : Int, lastCommittedOffset : Int,
               assignment : Assignments, gapBuffer : SUBSET Items, needsGapAdvance : BOOLEAN]
    <3>1. Range(buffer) \in SUBSET Items /\ r \in SUBSET Items
      BY <1>1, <1>6, ElementsOf
    <3>2. baseline \in Int /\ anchor \in Int
      BY LoopAssumption
    <3>3. QED
      BY <1>3, <3>1, <3>2
  <2>2. \A v, w \in t.gapBuffer : v.offset = w.offset /\ v.readTime = w.readTime => v = w
    BY <1>1, <1>4, Zenon DEF Range
  <2>3. \A v, w \in t.ready : v = w
    BY <1>4, <1>6, Zenon
  <2>4. i \in Nat \ {0} /\ pc \in {"compact", "walk", "trim", "flushed", "scan", "prune", "done"}
    BY <1>5
  <2>5. ready \subseteq Items
    BY <1>4, <1>5, <1>6, Zenon
  <2>6. QED
    <3>1. \A v \in t.ready, w \in t.gapBuffer : v.offset = w.offset => v.readTime # w.readTime
      BY <1>5, Zenon DEF IsTracker, Held
    <3>2. \A v, w \in ready : v = w
      BY <1>5, <2>3, Zenon
    <3>3. QED
      BY <1>1, <1>5, <1>7, <2>1, <2>2, <2>3, <2>4, <2>5, <3>1, <3>2, Zenon DEF LoopTypes
<1>9. CASE t.needsGapAdvance
  <2>1. CompactInv
    <3>1. Passed = {}
      BY <1>1, <1>5, NothingPassed
    <3>2. Increasing(<<>>)
      BY DEF Increasing
    <3>3. Sorted(buffer)
      BY <1>3, <1>4, <1>9, Zenon
    <3>4. QED
      BY <1>4, <1>5, <1>7, <1>9, <3>1, <3>2, <3>3, Zenon DEF CompactInv
  <2>2. pc = "compact"
    BY <1>5, <1>9
  <2>3. QED
    BY <1>8, <2>1, <2>2 DEF LoopInv
<1>10. CASE ~t.needsGapAdvance
  <2>1. Flushed(ready, Range(buffer))
    <3>1. FlushGapBuffer(t) = t
      BY <1>10, Zenon DEF FlushGapBuffer
    <3>2. t = [t EXCEPT !.needsGapAdvance = FALSE, !.ready = ready, !.gapBuffer = Range(buffer)]
      BY <1>3, <1>4, <1>5, <1>10, Zenon
    <3>3. QED
      BY <3>1, <3>2, Zenon DEF Flushed
  <2>2. t.ready = {}
    BY <1>3, <1>4, <1>10, Zenon
  <2>3. Shared(Range(returned), Range(buffer), ready)
    BY <1>4, <1>5, <1>7, <1>10, <2>2 DEF Shared
  <2>4. FlushedInv
    BY <1>2, <1>5, <1>7, <2>1, <2>3, Zenon DEF FlushedInv
  <2>5. pc = "flushed"
    BY <1>5, <1>10
  <2>6. QED
    BY <1>8, <2>4, <2>5 DEF LoopInv
<1>11. QED
  BY <1>9, <1>10

LEMMA LoopStep == LoopInv /\ [Next]_vars => LoopInv'
<1> SUFFICES ASSUME LoopInv, [Next]_vars PROVE LoopInv'
  OBVIOUS
<1> USE DEF LoopInv
<1>1. CASE CompactItem
  <2>1. pc = "compact" /\ pc' = pc
    BY <1>1 DEF CompactItem
  <2>2. LoopTypes' /\ CompactInv'
    BY <1>1, <2>1, CompactItemKeeps
  <2>3. QED
    BY <2>1, <2>2
<1>2. CASE EndCompact
  <2>1. pc = "compact" /\ pc' = "walk"
    BY <1>2 DEF EndCompact
  <2>2. LoopTypes' /\ WalkInv'
    BY <1>2, <2>1, EndCompactKeeps
  <2>3. QED
    BY <2>1, <2>2
<1>3. CASE PruneBelowBaseline \/ Initialise \/ PruneAtOrBelowReady \/ Advance
  <2>1. pc = "walk"
    BY <1>3 DEF PruneBelowBaseline, Initialise, PruneAtOrBelowReady, Advance, InLoop
  <2>2. LoopTypes' /\ WalkInv' /\ pc' = "walk"
    BY <1>3, <2>1, WalkItemKeeps
  <2>3. QED
    BY <2>2
<1>4. CASE BreakWalk \/ EndOfBuffer
  <2>1. pc = "walk"
    BY <1>4 DEF BreakWalk, EndOfBuffer, InLoop
  <2>2. LoopTypes' /\ WalkInv' /\ Stopped' /\ pc' = "trim"
    BY <1>4, <2>1, StopKeeps
  <2>3. QED
    BY <2>2
<1>5. CASE Trim
  <2>1. LoopTypes' /\ FlushedInv' /\ pc' = "flushed"
    BY <1>5, TrimKeeps DEF Trim
  <2>2. QED
    BY <2>1
<1>6. CASE Repair
  <2>1. /\ LoopTypes' /\ pc' \in {"scan", "done"}
        /\ pc' = "scan" => ScanInv'
        /\ pc' = "done" => DoneInv'
    BY <1>6, RepairKeeps DEF Repair
  <2>2. QED
    BY <2>1
<1>7. CASE ScanItem
  <2>1. LoopTypes' /\ ScanInv' /\ pc' = "scan"
    BY <1>7, ScanItemKeeps DEF ScanItem
  <2>2. QED
    BY <2>1
<1>8. CASE EndScan
  <2>1. /\ LoopTypes' /\ pc' \in {"prune", "done"}
        /\ pc' = "prune" => PruneInv'
        /\ pc' = "done" => DoneInv'
    BY <1>8, EndScanKeeps DEF EndScan
  <2>2. QED
    BY <2>1
<1>9. CASE PruneItem
  <2>1. LoopTypes' /\ PruneInv' /\ pc' = "prune"
    BY <1>9, PruneItemKeeps DEF PruneItem
  <2>2. QED
    BY <2>1
<1>10. CASE Promote
  <2>1. LoopTypes' /\ DoneInv' /\ pc' = "done"
    BY <1>10, PromoteKeeps DEF Promote
  <2>2. QED
    BY <2>1
<1>11. CASE UNCHANGED vars
  <2>1. /\ t' = t /\ buffer' = buffer /\ i' = i /\ ready' = ready /\ advanced' = advanced
        /\ kept' = kept /\ returned' = returned /\ pc' = pc
    BY <1>11 DEF vars
  <2>2. Passed' = Passed /\ Ahead' = Ahead
    BY <2>1, Zenon DEF Passed, Ahead
  <2>3. LoopTypes' <=> LoopTypes
    BY <2>1, Zenon DEF LoopTypes
  <2>4. (CompactInv' <=> CompactInv) /\ (WalkInv' <=> WalkInv) /\ (Stopped' <=> Stopped)
    <3>1. CompactInv' <=> CompactInv
      BY <2>1, <2>2, Zenon DEF CompactInv
    <3>2. WalkInv' <=> WalkInv
      BY <2>1, <2>2, Zenon DEF WalkInv
    <3>3. Stopped' <=> Stopped
      BY <2>1, Zenon DEF Stopped, g
    <3>4. QED
      BY <3>1, <3>2, <3>3
  <2>5. (FlushedInv' <=> FlushedInv) /\ (ScanInv' <=> ScanInv) /\ (PruneInv' <=> PruneInv)
    <3>1. FlushedInv' <=> FlushedInv
      BY <2>1, Zenon DEF FlushedInv, Flushed, Shared
    <3>2. ScanInv' <=> ScanInv
      BY <2>1, <2>2, Zenon DEF ScanInv, Flushed, LowestIn, Shared
    <3>3. PruneInv' <=> PruneInv
      BY <2>1, <2>2, Zenon DEF PruneInv, Flushed, LowestIn, Shared
    <3>4. QED
      BY <3>1, <3>2, <3>3
  <2>6. DoneInv' <=> DoneInv
    BY <2>1, Zenon DEF DoneInv, Repaired, Shared
  <2>7. QED
    BY <2>1, <2>3, <2>4, <2>5, <2>6
<1>12. QED
  BY <1>1, <1>2, <1>3, <1>4, <1>5, <1>6, <1>7, <1>8, <1>9, <1>10, <1>11 DEF Next

(* For any buffer and any tracker: after any number of iterations of any   *)
(* of the loops LoopInv holds.                                             *)
THEOREM LoopInvariant == Spec => []LoopInv
  BY LoopInitial, LoopStep, PTL DEF Spec

(* For any buffer: the walk of flushGapBuffers leaves the tracker          *)
(* FlushGapBuffer describes.                                               *)
THEOREM WalkIsFlushHolds == Spec => []WalkIsFlush
<1>1. LoopInv => WalkIsFlush
  BY Zenon DEF LoopInv, FlushedInv, Flushed, WalkIsFlush
<1>2. QED
  BY <1>1, LoopInvariant, PTL

(* For any buffer: the scan and the prune of repairSuccessor leave the     *)
(* tracker RepairSuccessor describes.                                      *)
THEOREM ScanIsRepairHolds == Spec => []ScanIsRepair
<1>1. LoopInv => ScanIsRepair
  BY Zenon DEF LoopInv, DoneInv, ScanIsRepair
<1>2. QED
  BY <1>1, LoopInvariant, PTL

(* For any buffer: a tick leaves every work item in exactly one place, but *)
(* for the twins its compact dropped.                                      *)
THEOREM WorkItemAccountingHolds == Spec => []WorkItemAccounting
<1>1. ASSUME LoopTypes, DoneInv, NEW w \in t.ready \cup t.gapBuffer
      PROVE  LET places == {<<"returned", k>> : k \in {j \in DOMAIN returned : returned[j] = w}}
                             \cup {<<"buffered", k>> : k \in {j \in DOMAIN buffer : buffer[j] = w}}
                             \cup {<<"ready", 1>> : r \in ready \cap {w}}
                 compacted == IF t.needsGapAdvance THEN t.gapBuffer \ Deduped(t.gapBuffer) ELSE {}
             IN  IF w \in compacted THEN places = {} ELSE \E p \in places : places = {p}
  <2> DEFINE inReturned == {<<"returned", k>> : k \in {j \in DOMAIN returned : returned[j] = w}}
             inBuffer == {<<"buffered", k>> : k \in {j \in DOMAIN buffer : buffer[j] = w}}
             inReady == {<<"ready", 1>> : r \in ready \cap {w}}
             compacted == IF t.needsGapAdvance THEN t.gapBuffer \ Deduped(t.gapBuffer) ELSE {}
             total == t.ready \cup (IF t.needsGapAdvance THEN Deduped(t.gapBuffer) ELSE t.gapBuffer)
  <2>1. /\ w \notin Range(returned) => inReturned = {}
        /\ w \notin Range(buffer) => inBuffer = {}
        /\ w \notin ready => inReady = {}
    BY Zenon DEF Range
  <2>2. w \in Range(returned) => \E p : inReturned = {p}
    <3> SUFFICES ASSUME NEW k \in DOMAIN returned, returned[k] = w PROVE inReturned = {<<"returned", k>>}
      BY Zenon DEF Range
    <3>1. \A j \in DOMAIN returned : returned[j] = w => j = k
      BY <1>1, Zenon DEF DoneInv, IsInjective
    <3>2. QED
      BY <3>1, Zenon
  <2>3. w \in Range(buffer) => \E p : inBuffer = {p}
    <3> SUFFICES ASSUME NEW k \in DOMAIN buffer, buffer[k] = w PROVE inBuffer = {<<"buffered", k>>}
      BY Zenon DEF Range
    <3>1. \A j \in DOMAIN buffer : buffer[j] = w => j = k
      BY <1>1, Zenon DEF DoneInv, IsInjective
    <3>2. QED
      BY <3>1, Zenon
  <2>4. w \in ready => \E p : inReady = {p}
    <3>1. w \in ready => inReady = {<<"ready", 1>>}
      BY Zenon
    <3>2. QED
      BY <3>1, Zenon
  <2> HIDE DEF inReturned, inBuffer, inReady
  <2>5. w \in compacted <=> w \notin total
    <3>1. \A r \in t.ready, v \in t.gapBuffer : r.offset = v.offset => r.readTime # v.readTime
      BY <1>1, Zenon DEF LoopTypes
    <3>2. w \notin t.ready \/ w \notin t.gapBuffer
      BY <3>1
    <3>3. Deduped(t.gapBuffer) \subseteq t.gapBuffer
      BY Zenon DEF Deduped
    <3>4. QED
      BY <1>1, <3>2, <3>3
  <2>6. /\ w \in total <=> w \in Range(returned) \/ w \in Range(buffer) \/ w \in ready
        /\ ~(w \in Range(returned) /\ w \in Range(buffer)) /\ ~(w \in Range(returned) /\ w \in ready)
        /\ ~(w \in Range(buffer) /\ w \in ready)
    <3>1. Shared(Range(returned), Range(buffer), ready)
      BY <1>1 DEF DoneInv
    <3>2. QED
      BY <3>1 DEF Shared
  <2> HIDE DEF compacted, total
  <2>7. IF w \in compacted THEN inReturned \cup inBuffer \cup inReady = {}
        ELSE \E p \in inReturned \cup inBuffer \cup inReady : inReturned \cup inBuffer \cup inReady = {p}
    BY <2>1, <2>2, <2>3, <2>4, <2>5, <2>6
  <2>8. QED
    BY <2>7, Zenon DEF inReturned, inBuffer, inReady, compacted
<1>2. LoopInv => WorkItemAccounting
  BY <1>1, Zenon DEF LoopInv, WorkItemAccounting
<1>3. QED
  BY <1>2, LoopInvariant, PTL

-----------------------------------------------------------------------------
(* How many passes a tick still has before it.                             *)
PassesLeft ==
  [compact |-> 6, walk |-> 5, trim |-> 4, flushed |-> 3, scan |-> 2, prune |-> 1, done |-> 0][pc]

Nearer ==
  \/ PassesLeft' < PassesLeft
  \/ pc' = pc /\ buffer' = buffer /\ i \in 1 .. Len(buffer) /\ i' = i + 1

(* A tick ends, however long the buffer: a step begins a later pass or     *)
(* takes the next item of a buffer that stays as it is, so there are fewer *)
(* passes left, or as many and fewer items.  (flushGapBuffers,             *)
(* sortGapBuffer, repairSuccessor)                                         *)
THEOREM TickEnds == Spec => [](PassesLeft \in 0 .. 6) /\ [][Nearer]_vars
<1>1. LoopInv => PassesLeft \in 0 .. 6
  BY DEF LoopInv, LoopTypes, PassesLeft
<1>2. LoopInv /\ [Next]_vars => [Nearer]_vars
  <2> SUFFICES ASSUME LoopInv, Next PROVE Nearer
    BY Zenon
  <2>1. i \in Nat \ {0} /\ buffer \in Seq(Items)
    BY DEF LoopInv, LoopTypes
  <2>2. CASE CompactItem
    BY <2>1, <2>2 DEF CompactItem, Nearer
  <2>3. CASE PruneBelowBaseline \/ Initialise \/ PruneAtOrBelowReady \/ Advance
    <3>1. i <= Len(buffer) /\ pc' = pc /\ buffer' = buffer /\ i' = i + 1
      BY <2>3, Zenon DEF PruneBelowBaseline, Initialise, PruneAtOrBelowReady, Advance, InLoop, Consumed
    <3>2. QED
      BY <2>1, <3>1 DEF Nearer
  <2>4. CASE ScanItem \/ PruneItem
    <3>1. i <= Len(buffer) /\ pc' = pc /\ buffer' = buffer /\ i' = i + 1
      BY <2>4, Zenon DEF ScanItem, PruneItem
    <3>2. QED
      BY <2>1, <3>1 DEF Nearer
  <2>5. CASE EndCompact \/ BreakWalk \/ EndOfBuffer \/ Trim \/ Repair \/ EndScan \/ Promote
    <3>1. <<pc, pc'>> \in {<<"compact", "walk">>, <<"walk", "trim">>, <<"trim", "flushed">>, <<"flushed", "done">>,
                           <<"flushed", "scan">>, <<"scan", "done">>, <<"scan", "prune">>, <<"prune", "done">>}
      BY <2>5 DEF EndCompact, BreakWalk, InLoop, EndOfBuffer, Trim, Repair, EndScan, Promote
    <3>2. PassesLeft' < PassesLeft
      BY <3>1 DEF PassesLeft
    <3>3. QED
      BY <3>2 DEF Nearer
  <2>6. QED
    BY <2>2, <2>3, <2>4, <2>5 DEF Next
<1>3. QED
  BY <1>1, <1>2, LoopInvariant, PTL DEF Spec
=============================================================================
