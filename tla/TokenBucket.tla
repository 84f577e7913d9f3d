---------------------------- MODULE TokenBucket ----------------------------
(***************************************************************************)
(* What RateLimitedLlmClient promises: a bucket that fills continuously,   *)
(* by FillUnits a clock tick, up to Capacity units, and pays TokenUnits for *)
(* every call it lets through.  The client keeps no such bucket: it holds  *)
(* the content of the last refill and adds what is due when it is asked.   *)
(***************************************************************************)
EXTENDS Integers

CONSTANTS
  Capacity,     \* units in a full bucket
  TokenUnits,   \* units in one token
  FillUnits     \* units it gains in a tick

VARIABLES
  level,
  clock         \* the parity of the clock: it ticks when this changes

bucketVars == <<level, clock>>

Least(m, n) == IF m <= n THEN m ELSE n

BucketInit == level = Capacity /\ clock = 0

Fill == /\ clock' = 1 - clock
        /\ level' = Least(Capacity, level + FillUnits)

Pay == /\ level >= TokenUnits
       /\ level' = level - TokenUnits
       /\ UNCHANGED clock

BucketSpec == BucketInit /\ [][Fill \/ Pay]_bucketVars
=============================================================================
