------------------------------ MODULE KeyHash -------------------------------
(***************************************************************************)
(* demux/pipeline/fnv: the hash of a partition key, a byte per step, and   *)
(* the shard it selects under the mask of an accepted configuration.       *)
(***************************************************************************)
EXTENDS DemuxConfig

CONSTANTS
  Bytes,     \* the bytes of partition keys
  MaxKeyLen  \* bound: the length of a partition key

ASSUME BytesAssumption == Bytes \subseteq 0 .. 255 /\ MaxKeyLen \in Nat

VARIABLES
  hash,   \* h, a uint32 in two halves
  hashed  \* i: how many bytes of the key are in it

hashVars == <<hash, hashed>>

-----------------------------------------------------------------------------
(* The exclusive or of two bytes and the and of two halves: of one bit,    *)
(* then of twice as many at a time.                                        *)

Xor1(a, b) == (a + b) % 2
Xor2(a, b) == 2 * Xor1(a \div 2, b \div 2) + Xor1(a % 2, b % 2)
Xor4(a, b) == 4 * Xor2(a \div 4, b \div 4) + Xor2(a % 4, b % 4)
Xor8(a, b) == 16 * Xor4(a \div 16, b \div 16) + Xor4(a % 16, b % 16)

And1(a, b) == IF a = 1 THEN b ELSE 0
And2(a, b) == 2 * And1(a \div 2, b \div 2) + And1(a % 2, b % 2)
And4(a, b) == 4 * And2(a \div 4, b \div 4) + And2(a % 4, b % 4)
And8(a, b) == 16 * And4(a \div 16, b \div 16) + And4(a % 16, b % 16)
And16(a, b) == 256 * And8(a \div 256, b \div 256) + And8(a % 256, b % 256)

Half == 65536

Halves(n) == [high |-> n \div Half, low |-> n % Half]

Hashes == [high : 0 .. Half - 1, low : 0 .. Half - 1]

(* 2166136261                                                              *)
OffsetBasis == [high |-> 33052, low |-> 40389]

(* h ^= uint32(partitionKey[i])                                            *)
XorByte(h, byte) == [h EXCEPT !.low = 256 * (@ \div 256) + Xor8(@ % 256, byte)]

(* h *= primeFactor, which is 256 * Half + 403, modulo Half * Half.        *)
TimesPrime(h) ==
  LET low == h.low * 403
  IN  [high |-> (h.high * 403 + h.low * 256 + low \div Half) % Half, low |-> low % Half]

(* return h & bitMask                                                      *)
HashIndex(h, bitMask) ==
  LET mask == Halves(bitMask)
  IN  Half * And16(h.high, mask.high) + And16(h.low, mask.low)

(* Mutant: the mask is the number of shards.                               *)
ShardOfCount(c, h) == HashIndex(h, c.WorkerShardsCount)

(* The index SendToWorkerForProcessing uses in workerShards.               *)
ShardOf(c, h) == HashIndex(h, c.WorkerShardsCount - 1)

-----------------------------------------------------------------------------
HashInit == hash = OffsetBasis /\ hashed = 0

(* An iteration of the loop.  Every prefix of a key is a key: the loop may *)
(* end after any of them.                                                  *)
HashByte(byte) ==
  /\ builds > 0 /\ ~panicked /\ hashed < MaxKeyLen
  /\ hash' = TimesPrime(XorByte(hash, byte))
  /\ hashed' = hashed + 1
  /\ UNCHANGED configVars

HashNext ==
  \/ Build /\ UNCHANGED hashVars
  \/ \E byte \in Bytes : HashByte(byte)

HashSpec == ConfigInit /\ HashInit /\ [][HashNext]_<<configVars, hashVars>>

-----------------------------------------------------------------------------
(* A configuration that was accepted, also with the validation skipped,    *)
(* gives the other modules what they assume: the sizes, and a mask under   *)
(* which every key has a shard and every shard is some hash's.             *)
(* (SetDemuxConfigDefaults, NewDemux, NewWorkerShard, HashIndex)           *)
AcceptedConfigSuits ==
  builds > 0 /\ ~panicked =>
    LET shards == 0 .. config.WorkerShardsCount - 1
    IN  /\ SizesSuit(config)
        /\ ShardOf(config, hash) \in shards
        /\ {ShardOf(config, Halves(s)) : s \in shards} = shards
=============================================================================
