--------------------------- MODULE MCSeparateParts ---------------------------
(***************************************************************************)
(* Parts of the system that share no state with the others, for TLC in one *)
(* run: a behaviour exercises the one part it starts with.                 *)
(***************************************************************************)
EXTENDS TrackerLoops, ThroughputWindow, BandwidthAggregator, KeyHash, Bitwise

VARIABLE part

(* The operators of KeyHash against the bitwise ones of the library, and   *)
(* the hash of "a" against its published value, 0xE40C292C.                *)
ASSUME BitsAgree ==
  /\ \A a, b \in 0 .. 255 : Xor8(a, b) = a ^^ b /\ And8(a, b) = (a & b)
  /\ \A a, b \in {0, 1, 255, 256, 4660, 32767, 32768, 43981, 65535} : And16(a, b) = (a & b)
  /\ TimesPrime(XorByte(OffsetBasis, 97)) = [high |-> 58380, low |-> 10540]

(* A tracker no tick looks at, and a configuration nobody builds from.     *)
NoTick ==
  /\ t = [needsGapAdvance |-> FALSE] /\ buffer = <<>> /\ i = 0 /\ ready = {} /\ advanced = 0
  /\ kept = <<>> /\ returned = <<>> /\ pc = "none"

NoConfig ==
  /\ config = Unset /\ skip = FALSE /\ builds = 0 /\ earlier = Unset /\ panicked = FALSE
  /\ HashInit

(* A host sets up to two fields.                                           *)
Settings(f) ==
  LET l == Limits[f] IN
  {-1, 1, l[2] - 1, l[2], l[3], l[3] + 1}
    \cup (IF f = "WorkerShardsCount" THEN {2, 3, 48, 128} ELSE {})
    \cup (IF f = "ConcurrentKeys" THEN {17, 49, 50, 1000, 1001} ELSE {})

TwoFieldsSet ==
  \E f, h \in Fields : \E v \in Settings(f), w \in Settings(h) :
    config = [Unset EXCEPT ![f] = v, ![h] = w]

MCInit ==
  \/ part = "tick" /\ Init /\ WindowInit /\ AggregatorInit /\ NoConfig
  \/ part = "window" /\ NoTick /\ WindowInit /\ AggregatorInit /\ NoConfig
  \/ part = "bandwidth" /\ NoTick /\ WindowInit /\ AggregatorInit /\ NoConfig
  \/ part = "config" /\ NoTick /\ WindowInit /\ AggregatorInit /\ TwoFieldsSet /\ ConfigInit
     /\ HashInit

buildVars == <<configVars, hashVars>>

MCNext ==
  \/ part = "tick" /\ Next /\ UNCHANGED <<part, windowVars, aggregatorVars, buildVars>>
  \/ part = "window" /\ WindowNext /\ UNCHANGED <<part, vars, aggregatorVars, buildVars>>
  \/ part = "bandwidth" /\ AggregatorNext /\ UNCHANGED <<part, vars, windowVars, buildVars>>
  \/ part = "config" /\ HashNext /\ UNCHANGED <<part, vars, windowVars, aggregatorVars>>

MCSpec == MCInit /\ [][MCNext]_<<part, vars, windowVars, aggregatorVars, buildVars>>
=============================================================================
