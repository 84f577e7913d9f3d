------------------------------ MODULE LlmStack ------------------------------
(***************************************************************************)
(* The resilience decorators stacked around one provider, with a backup:   *)
(*                                                                         *)
(*   FallbackLlmClient(                                                    *)
(*     RetryingLlmClient(CircuitBreakerLlmClient(RateLimitedLlmClient(     *)
(*       provider))), backup)                                              *)
(*                                                                         *)
(* The breaker's steps are CircuitBreaker's.  Time is counted in the ticks *)
(* of its clock, the content of the limiter's bucket, which the code has   *)
(* as a fraction of tokens, in units that make the earnings of a tick, and *)
(* the cost of a call, whole numbers: refillPerNano is Earned / TokenCost. *)
(***************************************************************************)
EXTENDS CircuitBreaker

CONSTANTS
  MaxAttempts,   \* RetryingLlmClient's
  Permits,       \* RateLimitedLlmClient's: tokens in a full bucket
  TokenCost,     \* units in a token
  Earned         \* units the bucket earns in a tick

ASSUME StackAssumption ==
  /\ MaxAttempts \in Nat \ {0}
  /\ Permits \in Nat \ {0}
  /\ TokenCost \in Nat \ {0}
  /\ Earned \in Nat \ {0}

VARIABLES
  stage,     \* stage[c]: where the request of caller c is (Stages below)
  attempt,   \* attempt[c]: RetryingLlmClient's loop variable
  wake,      \* wake[c]: ticks until c's awaitNanos times out
  tokens,    \* units in the bucket when it was last refilled
  since,     \* units earned since then (lastRefillNanos), as far as they fit in
  clock      \* history: the parity of the clock

requests == <<stage, attempt>>
limiter == <<wake, tokens, since, clock>>
stackVars == <<vars, requests, limiter>>

Stages == {"idle", "asking", "limited", "waiting", "calling", "backoff", "backup"}

capacity == Permits * TokenCost
AtMost(m, n) == IF m <= n THEN m ELSE n

StackTypeOK ==
  /\ TypeOK
  /\ stage \in [Callers -> Stages]
  /\ attempt \in [Callers -> 0 .. MaxAttempts - 1]
  /\ wake \in [Callers -> 0 .. TokenCost]
  /\ tokens \in 0 .. capacity
  /\ since \in 0 .. capacity
  /\ clock \in {0, 1}
  /\ \A c \in Callers : call[c] # "none" <=> stage[c] \in {"limited", "waiting", "calling"}

StackInit ==
  /\ Init
  /\ stage = [c \in Callers |-> "idle"]
  /\ attempt = [c \in Callers |-> 0]
  /\ wake = [c \in Callers |-> 0]
  /\ tokens = capacity
  /\ since = 0
  /\ clock = 0

Goes(c, to) == stage' = [stage EXCEPT ![c] = to]

(* The request is over, with a response or an exception.                   *)
Answered(c) ==
  /\ Goes(c, "idle")
  /\ attempt' = [attempt EXCEPT ![c] = 0]

(* A tick of the clock: for the cooldown, the bucket and the sleepers.     *)
Time ==
  /\ clock' = 1 - clock
  /\ cooling' = IF cooling > 0 THEN cooling - 1 ELSE 0
  /\ since' = AtMost(capacity, since + Earned)
  /\ wake' = [c \in Callers |-> IF wake[c] > 0 THEN wake[c] - 1 ELSE 0]
  /\ UNCHANGED <<state, consecutiveFailures, probeInFlight, failing, call,
                 requests, tokens>>

-----------------------------------------------------------------------------
(* FallbackLlmClient asks its first client.                                *)
Ask(c) ==
  /\ stage[c] = "idle"
  /\ Goes(c, "asking")
  /\ UNCHANGED <<vars, attempt, limiter>>

(* An attempt is admitted by the breaker ...                               *)
Admitted(c) ==
  /\ stage[c] = "asking"
  /\ AdmitPlain(c) \/ AdmitProbe(c)
  /\ Goes(c, "limited")
  /\ UNCHANGED <<attempt, limiter>>

(* ... or rejected: neither the retries nor the failover are for           *)
(* CircuitOpenException, and the request fails.                            *)
Rejected(c) ==
  /\ stage[c] = "asking"
  /\ Rejecting
  /\ Answered(c)
  /\ UNCHANGED <<vars, limiter>>

-----------------------------------------------------------------------------
(* RateLimitedLlmClient                                                    *)

Refilled == AtMost(capacity, tokens + since)

(* Wrong: rounded down, and one tick more to be sure.                      *)
WaitIsPast(n, missing) == (n - 1) * Earned <= missing /\ missing < n * Earned

(* nanosToNextToken: the least number of ticks that earn what is missing   *)
(* (Math.ceil).                                                            *)
WaitIs(n, missing) == (n - 1) * Earned < missing /\ missing <= n * Earned

Waits(c, missing) ==
  /\ Goes(c, "waiting")
  /\ \E n \in 1 .. TokenCost : WaitIs(n, missing) /\ wake' = [wake EXCEPT ![c] = n]

(* Wrong: the time of the last refill is kept when nothing can be taken.   *)
AcquireForgets(c) ==
  /\ stage[c] \in {"limited", "waiting"}
  /\ IF Refilled >= TokenCost
     THEN /\ tokens' = Refilled - TokenCost
          /\ Goes(c, "calling")
          /\ since' = 0
          /\ UNCHANGED wake
     ELSE /\ tokens' = Refilled
          /\ Waits(c, TokenCost - Refilled)
          /\ UNCHANGED since
  /\ UNCHANGED <<vars, attempt, clock>>

(* Wrong: the bucket is not refilled after the wait.                       *)
AcquireRefillsOnce(c) ==
  LET there == IF stage[c] = "limited" THEN Refilled ELSE tokens
  IN  /\ stage[c] \in {"limited", "waiting"}
      /\ since' = IF stage[c] = "limited" THEN 0 ELSE since
      /\ IF there >= TokenCost
         THEN /\ tokens' = there - TokenCost
              /\ wake' = [wake EXCEPT ![c] = 0]
              /\ Goes(c, "calling")
         ELSE tokens' = there /\ Waits(c, TokenCost - there)
      /\ UNCHANGED <<vars, attempt, clock>>

(* A stretch of acquire that holds the lock, on arrival or when awaitNanos *)
(* returns, which it may before its time: refill, take a token or wait.    *)
Acquire(c) ==
  /\ stage[c] \in {"limited", "waiting"}
  /\ since' = 0
  /\ IF Refilled >= TokenCost
     THEN /\ tokens' = Refilled - TokenCost
          /\ wake' = [wake EXCEPT ![c] = 0]
          /\ Goes(c, "calling")
     ELSE tokens' = Refilled /\ Waits(c, TokenCost - Refilled)
  /\ UNCHANGED <<vars, attempt, clock>>

(* The waiting thread is interrupted: a RuntimeException, which the breaker *)
(* counts and nothing else catches.                                        *)
AcquireInterrupted(c) ==
  /\ stage[c] = "waiting"
  /\ PlainFails(c) \/ ProbeFails(c)
  /\ wake' = [wake EXCEPT ![c] = 0]
  /\ Answered(c)
  /\ UNCHANGED <<tokens, since, clock>>

-----------------------------------------------------------------------------
(* The provider answers.                                                   *)

Succeeds(c) ==
  /\ stage[c] = "calling"
  /\ OnSuccess(c)
  /\ Answered(c)
  /\ UNCHANGED limiter

(* 429, 5xx or UncheckedIOException: slept on and retried; the last of     *)
(* them is failed over.                                                    *)
FailsTransiently(c) ==
  /\ stage[c] = "calling"
  /\ PlainFails(c) \/ ProbeFails(c)
  /\ IF attempt[c] < MaxAttempts - 1
     THEN /\ Goes(c, "backoff")
          /\ attempt' = [attempt EXCEPT ![c] = @ + 1]
     ELSE /\ Goes(c, "backup")
          /\ attempt' = [attempt EXCEPT ![c] = 0]
  /\ UNCHANGED limiter

(* 408 is failed over and not retried.                                     *)
FailsWith408(c) ==
  /\ stage[c] = "calling"
  /\ PlainFails(c) \/ ProbeFails(c)
  /\ Goes(c, "backup")
  /\ attempt' = [attempt EXCEPT ![c] = 0]
  /\ UNCHANGED limiter

(* Any other exception, and an Error, ends the request.                    *)
FailsForGood(c) ==
  /\ stage[c] = "calling"
  /\ PlainFails(c) \/ ProbeFails(c) \/ DelegateDies(c)
  /\ Answered(c)
  /\ UNCHANGED limiter

(* The backoff ends, or is interrupted, which ends the request.            *)
BackoffEnds(c) ==
  /\ stage[c] = "backoff"
  /\ \/ Goes(c, "asking") /\ UNCHANGED attempt
     \/ Answered(c)
  /\ UNCHANGED <<vars, limiter>>

BackupAnswers(c) ==
  /\ stage[c] = "backup"
  /\ Answered(c)
  /\ UNCHANGED <<vars, limiter>>

-----------------------------------------------------------------------------
Provider(c) == Succeeds(c) \/ FailsTransiently(c) \/ FailsWith408(c) \/ FailsForGood(c)

StackNext ==
  \/ Time
  \/ \E c \in Callers :
       \/ Ask(c) \/ Admitted(c) \/ Rejected(c)
       \/ Acquire(c) \/ AcquireInterrupted(c)
       \/ Provider(c) \/ BackoffEnds(c) \/ BackupAnswers(c)

StackSpec == StackInit /\ [][StackNext]_stackVars

(* Time passes, threads are scheduled, a wait that has timed out ends, and *)
(* the providers answer (their clients have a timeout).  Nobody is obliged *)
(* to interrupt, or to wake a thread before its time.                      *)
FairStackSpec ==
  /\ StackSpec
  /\ WF_stackVars(Time)
  /\ \A c \in Callers :
       /\ WF_stackVars(Ask(c))
       /\ WF_stackVars(Admitted(c) \/ Rejected(c))
       /\ WF_stackVars(wake[c] = 0 /\ Acquire(c))
       /\ WF_stackVars(Provider(c))
       /\ WF_stackVars(BackoffEnds(c))
       /\ WF_stackVars(BackupAnswers(c))

-----------------------------------------------------------------------------
(* Properties                                                              *)

(* The limiter's lazy bucket, shared by its callers, lets calls through    *)
(* only when a bucket that fills continuously would have paid for them:    *)
(* no unit of time is counted twice, by however many callers wait, are     *)
(* woken early or give up.                                                 *)
Bucket == INSTANCE TokenBucket WITH Capacity <- capacity,
                                    TokenUnits <- TokenCost, FillUnits <- Earned,
                                    level <- Refilled
RateKept == Bucket!BucketSpec

(* Nobody signals tokenAvailable, so a waiting caller must not sleep past  *)
(* the moment at which a token is there for it: a tick before its wait is  *)
(* over there is none, however the wait was rounded.                       *)
NoOversleep == \A c \in Callers :
  wake[c] > 0 => stage[c] = "waiting" /\ Refilled + (wake[c] - 1) * Earned < TokenCost

(* Callers that wait for tokens do not wait for nothing: calls keep going  *)
(* out, although a caller may be overtaken (the lock is not fair).         *)
TokensFlow ==
  (\E c \in Callers : stage[c] = "waiting")
    ~> \/ \E c \in Callers : stage[c] = "calling"
       \/ \A c \in Callers : stage[c] # "waiting"
=============================================================================
