----------------------------- MODULE DemuxConfig -----------------------------
(***************************************************************************)
(* demux/config and the sizes derived from a configuration.  Build applies *)
(* SetDemuxConfigDefaults to the host's own struct, which the host may     *)
(* give to several builders; all other modules rest on what it lets        *)
(* through.  Durations are in milliseconds.                                *)
(***************************************************************************)
EXTENDS Integers

CONSTANT MaxSetting  \* bound: settings, so that their products fit an int

ASSUME SettingAssumption == MaxSetting \in Nat /\ MaxSetting < 2 ^ 30

VARIABLES
  config,   \* the host's DemuxConfig
  skip,     \* isValidationSkipped: the environment variable
  builds,   \* how many builders have been given config
  earlier,  \* history: config after the first Build
  panicked  \* SetDemuxConfigDefaults has panicked

configVars == <<config, skip, builds, earlier, panicked>>

(* default, minimum and maximum of every field.                            *)
Limits ==
  [ConcurrentKeys                     |-> <<250, 1, 5000>>,
   PerKeyBufferLen                    |-> <<16, 1, 64>>,
   PollTimeout                        |-> <<100, 20, 2000>>,
   AutoCommitInterval                 |-> <<5000, 250, 15000>>,
   DrainTimeout                       |-> <<20000, 2000, 55000>>,
   AwaitAssignmentsTimeout            |-> <<50000, 5000, 300000>>,
   CommitIngestChannelLen             |-> <<25000, 1000, 200000>>,
   CommitPartitionSliceLen            |-> <<400, 50, 2000>>,
   QueryTimeout                       |-> <<5000, 1000, 10000>>,
   AcquireWorkerTimeoutCircuitBreaker |-> <<60000, 15000, 900000>>,
   WorkerShardsCount                  |-> <<16, 1, 64>>,
   RebalancePausePollingTimeout       |-> <<30000, 10000, 600000>>,
   AcquireCommitGuardTimeout          |-> <<10000, 100, 30000>>]

Fields == DOMAIN Limits

-----------------------------------------------------------------------------
(* SetDemuxConfigDefaults.                                                 *)

IsPowerOfTwo(n) == n \in {2 ^ k : k \in 1 .. 29}

(* Mutant: the product is not capped.                                      *)
DefaultIngestLenUncapped(keys) == IF keys < 50 THEN 5000 ELSE keys * 100

DefaultIngestLen(keys) == IF keys < 50 THEN 5000 ELSE IF keys > 1000 THEN 100000 ELSE keys * 100

(* ConcurrentKeys has its default before the ingest length is calculated.  *)
Default(f, c) ==
  IF f # "CommitIngestChannelLen" THEN Limits[f][1]
  ELSE DefaultIngestLen(IF c.ConcurrentKeys < 1 THEN Limits.ConcurrentKeys[1] ELSE c.ConcurrentKeys)

(* Mutant: skipping the validation skips the power of two as well.         *)
RejectedUnlessSkipped(f, v) ==
  /\ v >= 1 /\ ~skip
  /\ (v < Limits[f][2] \/ v > Limits[f][3]) \/ (f = "WorkerShardsCount" /\ ~IsPowerOfTwo(v))

Rejected(f, v) ==
  /\ v >= 1
  /\ \/ ~skip /\ (v < Limits[f][2] \/ v > Limits[f][3])
     \/ f = "WorkerShardsCount" /\ ~IsPowerOfTwo(v)

SetDemuxConfigDefaults(c) == [f \in Fields |-> IF c[f] < 1 THEN Default(f, c) ELSE c[f]]

-----------------------------------------------------------------------------
(* What is derived from a configuration.                                   *)

(* Mutant: the shards that get no full share are forgotten.                *)
CalcMinimumIdleWorkersFloor(c) == c.ConcurrentKeys \div c.WorkerShardsCount

CalcMinimumIdleWorkers(c) == (c.WorkerShardsCount + c.ConcurrentKeys - 1) \div c.WorkerShardsCount

Clamp(n, low, high) == IF n < low THEN low ELSE IF n > high THEN high ELSE n

CalculateCollectBufferSize(c) == Clamp(5 * c.ConcurrentKeys * c.PerKeyBufferLen, 20000, 100000)

CalcWorkItemPoolSize(c) == Clamp(c.ConcurrentKeys * c.PerKeyBufferLen + c.ConcurrentKeys * (50 + 25), 5000, 100000)

-----------------------------------------------------------------------------
Unset == [f \in Fields |-> 0]

ConfigInit ==
  /\ config \in [Fields -> -MaxSetting .. MaxSetting]
  /\ skip \in BOOLEAN
  /\ builds = 0 /\ earlier = Unset /\ panicked = FALSE

(* A panic leaves the fields before the rejected one set; nothing is built *)
(* from that struct, so it is not followed.                                *)
Build ==
  /\ builds < 2 /\ ~panicked
  /\ IF \E f \in Fields : Rejected(f, config[f])
     THEN panicked' = TRUE /\ UNCHANGED <<config, earlier>>
     ELSE /\ config' = SetDemuxConfigDefaults(config)
          /\ earlier' = IF builds = 0 THEN config' ELSE earlier
          /\ UNCHANGED panicked
  /\ builds' = builds + 1
  /\ UNCHANGED skip

ConfigSpec == ConfigInit /\ [][Build]_configVars

-----------------------------------------------------------------------------
(* What the other modules assume of the sizes: tickers and channels of     *)
(* positive size (the ingest loop tests the length of its channel), a warm *)
(* worker per shard but no more than the pool holds, and a power of two of *)
(* shards.                                                                 *)
SizesSuit(c) ==
  /\ \A f \in Fields : c[f] > 0
  /\ CalculateCollectBufferSize(c) > 0 /\ CalcWorkItemPoolSize(c) > 0
  /\ CalcMinimumIdleWorkers(c) \in 1 .. c.ConcurrentKeys
  /\ IsPowerOfTwo(c.WorkerShardsCount)

(* A second consumer built from the same struct gets the configuration the *)
(* first one got: defaults, the calculated one included, are accepted when *)
(* they are found as settings.  (Build, SetDemuxConfigDefaults)            *)
SecondBuildAgrees == builds = 2 /\ earlier # Unset => ~panicked /\ config = earlier
=============================================================================
