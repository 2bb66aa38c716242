---------------------------- MODULE RateLimiter ----------------------------
(***************************************************************************)
(* demux/pipeline/throttle: the token bucket in front of the dispatch to   *)
(* workers.  A goroutine takes a tick from the ticker and then puts it in  *)
(* the bucket; Stop ends the refill but does not close the bucket.         *)
(***************************************************************************)
EXTENDS Integers

CONSTANT Burst  \* capacity of the bucket; 1 for NewTicker

ASSUME BurstAssumption == Burst \in Nat \ {0}

VARIABLE limiter  \* limited: a limiter is configured; tokens in the bucket;
                  \*   refill: where the goroutine is; ticking, cancelled

(* createAndPreFillBurstChannel: the bucket starts full.                   *)
NewLimiter(limited) ==
  [limited |-> limited, tokens |-> Burst, refill |-> "tick", ticking |-> TRUE, cancelled |-> FALSE]

(* The goroutine has evaluated "<-ticker.C", and holds the tick.  Without  *)
(* a ticker it waits here for ever, cancelled or not.                      *)
TakeTick ==
  /\ limiter.limited /\ limiter.refill = "tick" /\ limiter.ticking
  /\ limiter' = [limiter EXCEPT !.refill = "offer"]

PutToken ==
  /\ limiter.refill = "offer" /\ limiter.tokens < Burst
  /\ limiter' = [limiter EXCEPT !.refill = "tick", !.tokens = @ + 1]

EndRefill ==
  /\ limiter.refill = "offer" /\ limiter.cancelled
  /\ limiter' = [limiter EXCEPT !.refill = "ended"]

Refill == TakeTick \/ PutToken \/ EndRefill

(* Await consumes a token, or is the no-op of NoOpRateLimiter.             *)
Await ==
  \/ ~limiter.limited /\ UNCHANGED limiter
  \/ /\ limiter.limited /\ limiter.tokens > 0
     /\ limiter' = [limiter EXCEPT !.tokens = @ - 1]

(* Stop, in its two steps.                                                 *)
Cancel == limiter' = [limiter EXCEPT !.cancelled = limiter.limited]
StopTicker == limiter' = [limiter EXCEPT !.ticking = ~limiter.limited]

LimiterTypeOK ==
  limiter \in [limited : BOOLEAN, tokens : 0 .. Burst, refill : {"tick", "offer", "ended"},
               ticking : BOOLEAN, cancelled : BOOLEAN]
=============================================================================
