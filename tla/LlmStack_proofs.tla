--------------------------- MODULE LlmStack_proofs ---------------------------
(***************************************************************************)
(* Proofs about the circuit breaker, and about LlmStack, of which it is    *)
(* one part, for any callers, threshold, cooldown, attempts, permits and   *)
(* rate.  CircuitBreaker comes first: its theorems are about its own       *)
(* specification, Spec, and the stack's steps are shown to be steps of it. *)
(***************************************************************************)
EXTENDS LlmStack, FiniteSetTheorems, TLAPS

(* The fields agree with one another, and the calls that have passed a     *)
(* closed breaker and not returned yet are counted against the failures    *)
(* they may still add.                                                     *)
Plain == {c \in Callers : call[c] = "plain"}

FieldsAgree ==
  /\ probeInFlight <=> state = "HALF_OPEN"
  /\ state # "CLOSED" => failing

BelowThreshold == state = "CLOSED" => consecutiveFailures < FailureThreshold

FailuresToCome ==
  consecutiveFailures + Cardinality(Plain) < FailureThreshold + Cardinality(Callers)

BreakerInv == TypeOK /\ FieldsAgree /\ BelowThreshold /\ FailuresToCome

(* The breaker starts in a well-typed state.                               *)
LEMMA InitTypeOK == Init => TypeOK
<1> SUFFICES ASSUME Init PROVE TypeOK
  OBVIOUS
<1>1. consecutiveFailures \in Nat /\ cooling \in 0 .. Cooldown
  BY BreakerAssumption DEF Init
<1> QED
  BY <1>1 DEF Init, TypeOK, Calls

(* Every step of the breaker keeps TypeOK.                                 *)
LEMMA StepTypeOK == TypeOK /\ [Next]_vars => TypeOK'
<1> SUFFICES ASSUME TypeOK, [Next]_vars PROVE TypeOK'
  OBVIOUS
<1> USE BreakerAssumption DEF TypeOK, Calls
<1>1. CASE Tick
  <2>1. cooling' \in 0 .. Cooldown
    BY <1>1 DEF Tick
  <2> QED
    BY <1>1, <2>1 DEF Tick
<1>2. ASSUME NEW c \in Callers, AdmitPlain(c) PROVE TypeOK'
  BY <1>2 DEF AdmitPlain, breaker
<1>3. ASSUME NEW c \in Callers, AdmitProbe(c) PROVE TypeOK'
  BY <1>3 DEF AdmitProbe
<1>4. ASSUME NEW c \in Callers, OnSuccess(c) PROVE TypeOK'
  BY <1>4 DEF OnSuccess
<1>5. ASSUME NEW c \in Callers, ProbeFails(c) PROVE TypeOK'
  <2>1. cooling' \in 0 .. Cooldown
    BY <1>5 DEF ProbeFails
  <2> QED
    BY <1>5, <2>1 DEF ProbeFails
<1>6. ASSUME NEW c \in Callers, PlainFails(c) PROVE TypeOK'
  BY <1>6 DEF PlainFails
<1>7. ASSUME NEW c \in Callers, DelegateDies(c) PROVE TypeOK'
  BY <1>7 DEF DelegateDies, breaker
<1>8. CASE UNCHANGED vars
  BY <1>8 DEF vars, breaker
<1> QED
  BY <1>1, <1>2, <1>3, <1>4, <1>5, <1>6, <1>7, <1>8 DEF Next, Returns

(* Type correctness of the breaker.                                        *)
THEOREM TypeCorrect == Spec => []TypeOK
  BY InitTypeOK, StepTypeOK, PTL DEF Spec

(* The plain calls are finitely many, and no more than the callers.        *)
LEMMA PlainIsFinite ==
  ASSUME IsFiniteSet(Callers)
  PROVE  /\ IsFiniteSet(Plain)
         /\ Cardinality(Plain) \in Nat
         /\ Cardinality(Callers) \in Nat
         /\ Cardinality(Plain) <= Cardinality(Callers)
<1>1. Plain \subseteq Callers
  BY DEF Plain
<1> QED
  BY <1>1, FS_Subset, FS_CardinalityType

(* A caller whose call was plain and is not any more leaves one call fewer *)
(* to come; any other change of call that adds no plain call, none more.   *)
LEMMA PlainAfterReturn ==
  ASSUME IsFiniteSet(Callers), TypeOK, NEW c \in Callers, NEW k \in Calls,
         k # "plain", call' = [call EXCEPT ![c] = k]
  PROVE  /\ call[c] = "plain" => Cardinality(Plain') = Cardinality(Plain) - 1
         /\ call[c] # "plain" => Cardinality(Plain') = Cardinality(Plain)
<1>1. Plain' = Plain \ {c}
  BY DEF Plain, TypeOK
<1>2. CASE call[c] = "plain"
  <2>1. c \in Plain
    BY <1>2 DEF Plain
  <2> QED
    BY <1>1, <1>2, <2>1, PlainIsFinite, FS_RemoveElement
<1>3. CASE call[c] # "plain"
  <2>1. Plain' = Plain
    BY <1>1, <1>3 DEF Plain
  <2> QED
    BY <1>3, <2>1
<1> QED
  BY <1>2, <1>3

(* The fields of the breaker agree after every step.                       *)
LEMMA FieldsKeepAgreeing ==
  ASSUME TypeOK, FieldsAgree, [Next]_vars
  PROVE  FieldsAgree'
<1> USE DEF FieldsAgree, TypeOK
<1>1. CASE Tick
  BY <1>1 DEF Tick
<1>2. ASSUME NEW c \in Callers, AdmitPlain(c) PROVE FieldsAgree'
  BY <1>2 DEF AdmitPlain, breaker
<1>3. ASSUME NEW c \in Callers, AdmitProbe(c) PROVE FieldsAgree'
  <2>1. state # "CLOSED"
    BY <1>3 DEF AdmitProbe, MayProbe
  <2> QED
    BY <1>3, <2>1 DEF AdmitProbe
<1>4. ASSUME NEW c \in Callers, OnSuccess(c) PROVE FieldsAgree'
  BY <1>4 DEF OnSuccess
<1>5. ASSUME NEW c \in Callers, ProbeFails(c) PROVE FieldsAgree'
  BY <1>5 DEF ProbeFails
<1>6. ASSUME NEW c \in Callers, PlainFails(c) PROVE FieldsAgree'
  <2>1. /\ state' = state \/ (state = "CLOSED" /\ state' = "OPEN")
        /\ failing' = TRUE /\ probeInFlight' = probeInFlight
    BY <1>6 DEF PlainFails
  <2> QED
    BY <2>1
<1>7. ASSUME NEW c \in Callers, DelegateDies(c) PROVE FieldsAgree'
  BY <1>7 DEF DelegateDies, breaker
<1>8. CASE UNCHANGED vars
  BY <1>8 DEF vars, breaker
<1> QED
  BY <1>1, <1>2, <1>3, <1>4, <1>5, <1>6, <1>7, <1>8 DEF Next, Returns

(* Arithmetic of the counter: failures below the threshold leave room for  *)
(* every caller's call to fail.                                            *)
LEMMA RoomForPlain ==
  \A f, t, p, a \in Nat : f < t /\ p <= a => f + p < t + a
OBVIOUS

(* Arithmetic of the counter: with fewer calls to come there is room still. *)
LEMMA RoomStays ==
  \A f, t, p, q, a \in Nat : f + p < t + a /\ q <= p => f + q < t + a
OBVIOUS

(* The inductive invariant behind the safety theorems.                     *)
THEOREM BreakerInvariant ==
  ASSUME IsFiniteSet(Callers)
  PROVE  Spec => []BreakerInv
<1> DEFINE P == Cardinality(Plain)
           A == Cardinality(Callers)
           Counted == BelowThreshold /\ FailuresToCome
<1>1. Init => BreakerInv
  <2> SUFFICES ASSUME Init PROVE BreakerInv
    OBVIOUS
  <2>1. TypeOK
    BY InitTypeOK
  <2>2. Plain = {} /\ FieldsAgree
    BY DEF Init, Plain, FieldsAgree
  <2>3. P = 0
    BY <2>2, FS_EmptySet
  <2>4. Counted
    BY <2>3, PlainIsFinite, BreakerAssumption
    DEF Init, BelowThreshold, FailuresToCome
  <2> QED
    BY <2>1, <2>2, <2>4 DEF BreakerInv
<1>2. BreakerInv /\ TypeOK' /\ [Next]_vars => BreakerInv'
  <2> SUFFICES ASSUME BreakerInv, TypeOK', [Next]_vars
               PROVE  Counted'
    BY FieldsKeepAgreeing DEF BreakerInv
  <2>0. /\ P \in Nat /\ A \in Nat /\ P <= A
        /\ P' \in Nat /\ P' <= A
        /\ consecutiveFailures + P < FailureThreshold + A
        /\ consecutiveFailures \in Nat /\ consecutiveFailures' \in Nat
        /\ FailureThreshold \in Nat /\ FailureThreshold > 0
    <3>1. Plain' \subseteq Callers
      BY DEF Plain
    <3>2. P' \in Nat /\ P' <= A
      BY <3>1, FS_Subset, FS_CardinalityType
    <3> QED
      BY <3>2, PlainIsFinite, BreakerAssumption
      DEF BreakerInv, FailuresToCome, TypeOK
  <2>g. /\ FailuresToCome' <=> consecutiveFailures' + P' < FailureThreshold + A
        /\ BelowThreshold' <=>
             (state' = "CLOSED" => consecutiveFailures' < FailureThreshold)
        /\ state = "CLOSED" => consecutiveFailures < FailureThreshold
        /\ TypeOK
    BY DEF FailuresToCome, BelowThreshold, BreakerInv
  <2> HIDE DEF P, A
  <2>1. CASE Tick
    <3>1. P' = P
      BY <2>1 DEF Tick, P, Plain
    <3> QED
      BY <2>0, <2>g, <2>1, <3>1 DEF Tick
  <2>2. ASSUME NEW c \in Callers, AdmitPlain(c) PROVE Counted'
    <3>1. /\ state = "CLOSED" /\ state' = state
          /\ consecutiveFailures' = consecutiveFailures
      BY <2>2 DEF AdmitPlain, breaker
    <3>2. consecutiveFailures < FailureThreshold
      BY <2>g, <3>1
    <3>3. consecutiveFailures + P' < FailureThreshold + A
      BY <2>0, <3>2, RoomForPlain
    <3> QED
      BY <2>g, <3>1, <3>2, <3>3
  <2>3. ASSUME NEW c \in Callers, AdmitProbe(c) PROVE Counted'
    <3>1. P' = P
      <4>1. "probe" \in Calls /\ "probe" # "plain" /\ call[c] # "plain"
        BY <2>3 DEF AdmitProbe, Calls
      <4> QED
        BY <2>g, <2>3, <4>1, PlainAfterReturn DEF AdmitProbe, P
    <3> QED
      BY <2>0, <2>g, <2>3, <3>1 DEF AdmitProbe
  <2>4. ASSUME NEW c \in Callers, call' = [call EXCEPT ![c] = "none"]
        PROVE  P' = (IF call[c] = "plain" THEN P - 1 ELSE P)
    <3>1. "none" \in Calls /\ "none" # "plain"
      BY DEF Calls
    <3> QED
      BY <2>g, <2>4, <3>1, PlainAfterReturn DEF P
  <2>5. ASSUME NEW c \in Callers, OnSuccess(c) PROVE Counted'
    <3>1. consecutiveFailures' = 0
      BY <2>5 DEF OnSuccess
    <3>2. 0 < FailureThreshold /\ 0 + P' < FailureThreshold + A
      BY <2>0, RoomForPlain
    <3> QED
      BY <2>g, <3>1, <3>2
  <2>6. ASSUME NEW c \in Callers, ProbeFails(c) PROVE Counted'
    <3>1. P' = P /\ consecutiveFailures' = consecutiveFailures /\ state' = "OPEN"
      BY <2>4, <2>6 DEF ProbeFails
    <3> QED
      BY <2>0, <2>g, <3>1
  <2>7. ASSUME NEW c \in Callers, PlainFails(c) PROVE Counted'
    <3>1. P' = P - 1
      BY <2>4, <2>7 DEF PlainFails
    <3> QED
      BY <2>0, <2>g, <2>7, <3>1 DEF PlainFails
  <2>8. ASSUME NEW c \in Callers, DelegateDies(c) PROVE Counted'
    <3>1. /\ P' = P \/ P' = P - 1
          /\ consecutiveFailures' = consecutiveFailures /\ state' = state
      BY <2>4, <2>8 DEF DelegateDies, breaker
    <3>2. P' <= P
      BY <2>0, <3>1
    <3>3. consecutiveFailures + P' < FailureThreshold + A
      BY <2>0, <3>2, RoomStays
    <3> QED
      BY <2>g, <3>1, <3>3
  <2>9. CASE UNCHANGED vars
    <3>1. P' = P
      BY <2>9 DEF vars, P, Plain
    <3> QED
      BY <2>0, <2>g, <2>9, <3>1 DEF vars, breaker
  <2> QED
    BY <2>1, <2>2, <2>3, <2>5, <2>6, <2>7, <2>8, <2>9 DEF Next, Returns
<1> QED
  BY <1>1, <1>2, TypeCorrect, PTL DEF Spec

(* A rejection always has a failure to name as its cause, whatever order   *)
(* concurrent calls of complete return in.                                 *)
THEOREM RejectionsAreExplained ==
  ASSUME IsFiniteSet(Callers)
  PROVE  Spec => []RejectionHasCause
<1>1. BreakerInv => RejectionHasCause
  BY DEF BreakerInv, FieldsAgree, RejectionHasCause, Rejecting
<1> QED
  BY <1>1, BreakerInvariant, PTL

(* The failure counter: below the threshold while closed, and never more   *)
(* than a failure per caller above it.                                     *)
THEOREM FailuresAreCounted ==
  ASSUME IsFiniteSet(Callers)
  PROVE  Spec => []FailuresCounted
<1>1. BreakerInv => FailuresCounted
  <2> SUFFICES ASSUME BreakerInv PROVE FailuresCounted
    OBVIOUS
  <2>1. Cardinality(Plain) \in Nat /\ Cardinality(Callers) \in Nat
    BY PlainIsFinite
  <2> QED
    BY <2>1, BreakerAssumption
    DEF BreakerInv, TypeOK, BelowThreshold, FailuresToCome, FailuresCounted
<1> QED
  BY <1>1, BreakerInvariant, PTL

(* When no probe ends in an Error, a half-open breaker is never left       *)
(* without the probe that will settle it.                                  *)
THEOREM ProbesAreOut ==
  ASSUME IsFiniteSet(Callers), "probe" \notin ErrorsOn
  PROVE  Spec => []ProbeIsOut
<1>1. Init => ProbeIsOut
  BY DEF Init, ProbeIsOut
<1>2. BreakerInv /\ ProbeIsOut /\ [Next]_vars => ProbeIsOut'
  <2> SUFFICES ASSUME BreakerInv, ProbeIsOut, [Next]_vars, state' = "HALF_OPEN"
               PROVE  probeInFlight' /\ \E c \in Callers : call'[c] = "probe"
    BY DEF ProbeIsOut
  <2> USE DEF BreakerInv, TypeOK, FieldsAgree
  <2>1. CASE Tick
    BY <2>1 DEF Tick, ProbeIsOut
  <2>2. ASSUME NEW c \in Callers, AdmitPlain(c) PROVE FALSE
    BY <2>2 DEF AdmitPlain, breaker
  <2>3. ASSUME NEW c \in Callers, AdmitProbe(c)
        PROVE  probeInFlight' /\ call'[c] = "probe"
    BY <2>3 DEF AdmitProbe
  <2>4. ASSUME NEW c \in Callers, OnSuccess(c) \/ ProbeFails(c) PROVE FALSE
    BY <2>4 DEF OnSuccess, ProbeFails
  <2>5. ASSUME NEW c \in Callers, PlainFails(c)
        PROVE  probeInFlight' /\ \E d \in Callers : call'[d] = "probe"
    <3>1. state = "HALF_OPEN"
      BY <2>5 DEF PlainFails
    <3>2. PICK d \in Callers : call[d] = "probe"
      BY <3>1 DEF ProbeIsOut
    <3>3. d # c /\ call'[d] = "probe"
      BY <2>5, <3>2 DEF PlainFails
    <3> QED
      BY <2>5, <3>1, <3>3 DEF PlainFails
  <2>6. ASSUME NEW c \in Callers, DelegateDies(c)
        PROVE  probeInFlight' /\ \E d \in Callers : call'[d] = "probe"
    <3>1. state = "HALF_OPEN" /\ probeInFlight' = probeInFlight /\ call[c] # "probe"
      BY <2>6 DEF DelegateDies, breaker
    <3>2. PICK d \in Callers : call[d] = "probe"
      BY <3>1 DEF ProbeIsOut
    <3>3. d # c /\ call'[d] = "probe"
      BY <2>6, <3>1, <3>2 DEF DelegateDies
    <3> QED
      BY <3>1, <3>3
  <2>7. CASE UNCHANGED vars
    BY <2>7 DEF vars, breaker, ProbeIsOut
  <2> QED
    BY <2>1, <2>2, <2>3, <2>4, <2>5, <2>6, <2>7 DEF Next, Returns
<1> QED
  BY <1>1, <1>2, BreakerInvariant, PTL DEF Spec

-----------------------------------------------------------------------------
(* The stack.                                                              *)

(* The bucket alone, of which the calls and the breaker know nothing.      *)
BucketOK ==
  /\ tokens \in 0 .. capacity
  /\ since \in 0 .. capacity
  /\ clock \in {0, 1}

(* A full bucket holds a token.                                            *)
LEMMA CapacityPos == capacity \in Nat /\ capacity >= TokenCost
<1>1. \A p, t \in Nat \ {0} : p * t \in Nat /\ p * t >= t
  OBVIOUS
<1> QED
  BY <1>1, StackAssumption DEF capacity

(* A refill keeps the bucket between empty and full.                       *)
LEMMA RefilledType == BucketOK => Refilled \in 0 .. capacity
  BY CapacityPos DEF BucketOK, Refilled, AtMost

(* The breaker inside the stack is CircuitBreaker: what is proved of that  *)
(* specification holds of the breaker in the stack, whose calls wait for   *)
(* tokens, are interrupted while they wait and are retried.                *)
LEMMA TimeTicks == TypeOK /\ Time => Tick \/ UNCHANGED vars
<1> SUFFICES ASSUME TypeOK, Time PROVE Tick \/ UNCHANGED vars
  OBVIOUS
<1>1. CASE cooling > 0
  BY <1>1 DEF Time, Tick
<1>2. CASE ~(cooling > 0)
  <2>1. cooling = 0
    BY <1>2, BreakerAssumption DEF TypeOK
  <2> QED
    BY <2>1 DEF Time, vars, breaker
<1> QED
  BY <1>1, <1>2

(* A step of the stack is a step of the breaker, or leaves it alone.       *)
LEMMA StackStepsAreBreakerSteps == TypeOK /\ [StackNext]_stackVars => [Next]_vars
<1> SUFFICES ASSUME TypeOK, [StackNext]_stackVars PROVE [Next]_vars
  OBVIOUS
<1>1. CASE Time
  BY <1>1, TimeTicks DEF Next
<1>2. ASSUME NEW c \in Callers, Admitted(c) PROVE [Next]_vars
  BY <1>2 DEF Admitted, Next
<1>3. ASSUME NEW c \in Callers, Provider(c) \/ AcquireInterrupted(c) PROVE [Next]_vars
  BY <1>3 DEF Provider, Succeeds, FailsTransiently, FailsWith408, FailsForGood,
              AcquireInterrupted, Next, Returns
<1>4. ASSUME NEW c \in Callers,
             Ask(c) \/ Rejected(c) \/ Acquire(c) \/ BackoffEnds(c) \/ BackupAnswers(c)
      PROVE  [Next]_vars
  BY <1>4 DEF Ask, Rejected, Acquire, BackoffEnds, BackupAnswers
<1>5. CASE UNCHANGED stackVars
  BY <1>5 DEF stackVars
<1> QED
  BY <1>1, <1>2, <1>3, <1>4, <1>5 DEF StackNext

(* What the stack adds to the breaker's state is well typed, and a call is  *)
(* inside the breaker exactly while its request waits for a token or for   *)
(* the provider.                                                           *)
Inside == {"limited", "waiting", "calling"}

RequestsOK ==
  /\ stage \in [Callers -> Stages]
  /\ attempt \in [Callers -> 0 .. MaxAttempts - 1]
  /\ \A c \in Callers : call[c] # "none" <=> stage[c] \in Inside

WakesOK == wake \in [Callers -> 0 .. TokenCost]

(* The type invariant by what it speaks of.                                *)
LEMMA TypeParts == StackTypeOK <=> TypeOK /\ RequestsOK /\ WakesOK /\ BucketOK
  BY DEF StackTypeOK, RequestsOK, WakesOK, BucketOK, Inside

(* The same of the next state.                                             *)
LEMMA TypePartsNext == TypeOK' /\ RequestsOK' /\ WakesOK' /\ BucketOK' => StackTypeOK'
  BY DEF StackTypeOK, RequestsOK, WakesOK, BucketOK, Inside, capacity

(* The type invariant holds at first.                                      *)
LEMMA StackInitTypeOK == StackInit => StackTypeOK
<1> SUFFICES ASSUME StackInit PROVE StackTypeOK
  OBVIOUS
<1>1. TypeOK
  BY InitTypeOK DEF StackInit
<1>2. RequestsOK
  BY StackAssumption DEF StackInit, Init, RequestsOK, Stages, Inside
<1>3. WakesOK
  BY StackAssumption DEF StackInit, WakesOK
<1>4. BucketOK
  BY CapacityPos DEF StackInit, BucketOK
<1> QED
  BY <1>1, <1>2, <1>3, <1>4, TypeParts

(* Every step keeps the bucket between empty and full.                     *)
LEMMA StepBucketOK == BucketOK /\ [StackNext]_stackVars => BucketOK'
<1> SUFFICES ASSUME BucketOK, [StackNext]_stackVars PROVE BucketOK'
  OBVIOUS
<1> USE DEF BucketOK
<1>1. CASE Time
  <2>1. since' \in 0 .. capacity
    BY <1>1, CapacityPos, StackAssumption DEF Time, AtMost, capacity
  <2>2. tokens' = tokens /\ clock' \in {0, 1}
    BY <1>1 DEF Time
  <2> QED
    BY <2>1, <2>2 DEF capacity
<1>2. ASSUME NEW c \in Callers, Acquire(c) PROVE BucketOK'
  <2>1. since' = 0 /\ clock' = clock
    BY <1>2 DEF Acquire
  <2>2. tokens' = Refilled \/ (Refilled >= TokenCost /\ tokens' = Refilled - TokenCost)
    BY <1>2 DEF Acquire
  <2>3. tokens' \in 0 .. capacity
    BY <2>2, RefilledType, CapacityPos, StackAssumption
  <2> QED
    BY <2>1, <2>3, CapacityPos DEF capacity
<1>3. CASE UNCHANGED <<tokens, since, clock>>
  BY <1>3 DEF capacity
<1>4. ASSUME NEW c \in Callers,
             \/ Ask(c) \/ Admitted(c) \/ Rejected(c) \/ AcquireInterrupted(c)
             \/ Provider(c) \/ BackoffEnds(c) \/ BackupAnswers(c)
      PROVE  UNCHANGED <<tokens, since, clock>>
  BY <1>4 DEF Ask, Admitted, Rejected, AcquireInterrupted, Provider, Succeeds,
              FailsTransiently, FailsWith408, FailsForGood, BackoffEnds,
              BackupAnswers, limiter
<1>5. CASE UNCHANGED stackVars
  BY <1>5, <1>3 DEF stackVars, limiter
<1> QED
  BY <1>1, <1>2, <1>3, <1>4, <1>5 DEF StackNext

(* Nobody is told to wait longer than a token takes.                       *)
LEMMA StepWakesOK == WakesOK /\ BucketOK /\ [StackNext]_stackVars => WakesOK'
<1> SUFFICES ASSUME WakesOK, BucketOK, [StackNext]_stackVars PROVE WakesOK'
  OBVIOUS
<1> USE DEF WakesOK
<1>1. CASE Time
  <2>1. \A c \in Callers : wake'[c] \in 0 .. TokenCost
    BY <1>1, StackAssumption DEF Time
  <2> QED
    BY <1>1, <2>1 DEF Time
<1>2. ASSUME NEW c \in Callers, Acquire(c) PROVE WakesOK'
  <2>1. Refilled \in Nat
    BY RefilledType, CapacityPos
  <2>2. CASE Refilled >= TokenCost
    BY <1>2, <2>2, StackAssumption DEF Acquire
  <2>3. CASE ~(Refilled >= TokenCost)
    <3>1. PICK n \in 1 .. TokenCost : wake' = [wake EXCEPT ![c] = n]
      BY <1>2, <2>3 DEF Acquire, Waits
    <3> QED
      BY <3>1, StackAssumption
  <2> QED
    BY <2>2, <2>3
<1>3. ASSUME NEW c \in Callers, AcquireInterrupted(c) PROVE WakesOK'
  BY <1>3, StackAssumption DEF AcquireInterrupted
<1>4. ASSUME NEW c \in Callers,
             \/ Ask(c) \/ Admitted(c) \/ Rejected(c)
             \/ Provider(c) \/ BackoffEnds(c) \/ BackupAnswers(c)
      PROVE  WakesOK'
  BY <1>4 DEF Ask, Admitted, Rejected, Provider, Succeeds, FailsTransiently,
              FailsWith408, FailsForGood, BackoffEnds, BackupAnswers, limiter
<1>5. CASE UNCHANGED stackVars
  BY <1>5 DEF stackVars, limiter
<1> QED
  BY <1>1, <1>2, <1>3, <1>4, <1>5 DEF StackNext

(* A call enters the breaker when it is admitted and leaves it when the    *)
(* delegate, which is the limiter, returns or throws.                      *)
LEMMA ReturnFreesCall ==
  ASSUME TypeOK, NEW c \in Callers,
         OnSuccess(c) \/ PlainFails(c) \/ ProbeFails(c) \/ DelegateDies(c)
  PROVE  call' = [call EXCEPT ![c] = "none"]
  BY DEF OnSuccess, PlainFails, ProbeFails, DelegateDies

(* Requests and the breaker's calls go together in every step.             *)
LEMMA StepRequestsOK ==
  TypeOK /\ RequestsOK /\ [StackNext]_stackVars => RequestsOK'
<1> SUFFICES ASSUME TypeOK, RequestsOK, [StackNext]_stackVars PROVE RequestsOK'
  OBVIOUS
<1> USE StackAssumption DEF RequestsOK, Stages, Inside, Goes, Answered
<1>1. ASSUME NEW c \in Callers, Ask(c) PROVE RequestsOK'
  BY <1>1 DEF Ask, vars
<1>2. ASSUME NEW c \in Callers, Admitted(c) PROVE RequestsOK'
  <2>1. \/ call' = [call EXCEPT ![c] = "plain"]
        \/ call' = [call EXCEPT ![c] = "probe"]
    BY <1>2 DEF Admitted, AdmitPlain, AdmitProbe
  <2>2. stage' = [stage EXCEPT ![c] = "limited"] /\ attempt' = attempt
    BY <1>2 DEF Admitted
  <2> QED
    BY <2>1, <2>2 DEF TypeOK
<1>3. ASSUME NEW c \in Callers, Rejected(c) PROVE RequestsOK'
  BY <1>3 DEF Rejected, vars
<1>4. ASSUME NEW c \in Callers, Acquire(c) PROVE RequestsOK'
  <2>1. \/ stage' = [stage EXCEPT ![c] = "calling"]
        \/ stage' = [stage EXCEPT ![c] = "waiting"]
    BY <1>4 DEF Acquire, Waits
  <2>2. stage[c] \in {"limited", "waiting"} /\ call' = call /\ attempt' = attempt
    BY <1>4 DEF Acquire, vars
  <2> QED
    BY <2>1, <2>2
<1>5. ASSUME NEW c \in Callers, AcquireInterrupted(c) \/ Succeeds(c) \/ FailsForGood(c)
      PROVE  RequestsOK'
  <2>1. call' = [call EXCEPT ![c] = "none"]
    BY <1>5, ReturnFreesCall DEF AcquireInterrupted, Succeeds, FailsForGood
  <2>2. /\ stage' = [stage EXCEPT ![c] = "idle"]
        /\ attempt' = [attempt EXCEPT ![c] = 0]
    BY <1>5 DEF AcquireInterrupted, Succeeds, FailsForGood
  <2> QED
    BY <2>1, <2>2 DEF TypeOK
<1>6. ASSUME NEW c \in Callers, FailsTransiently(c) \/ FailsWith408(c)
      PROVE  RequestsOK'
  <2>1. call' = [call EXCEPT ![c] = "none"]
    BY <1>6, ReturnFreesCall DEF FailsTransiently, FailsWith408
  <2>2. /\ \/ stage' = [stage EXCEPT ![c] = "backoff"]
           \/ stage' = [stage EXCEPT ![c] = "backup"]
        /\ \/ attempt' = [attempt EXCEPT ![c] = 0]
           \/ attempt[c] < MaxAttempts - 1 /\ attempt' = [attempt EXCEPT ![c] = @ + 1]
    BY <1>6 DEF FailsTransiently, FailsWith408
  <2>3. attempt' \in [Callers -> 0 .. MaxAttempts - 1]
    BY <2>2
  <2> QED
    BY <2>1, <2>2, <2>3 DEF TypeOK
<1>7. ASSUME NEW c \in Callers, BackoffEnds(c) \/ BackupAnswers(c) PROVE RequestsOK'
  BY <1>7 DEF BackoffEnds, BackupAnswers, vars
<1>8. CASE Time
  BY <1>8 DEF Time, requests
<1>9. CASE UNCHANGED stackVars
  BY <1>9 DEF stackVars, vars, requests
<1> QED
  BY <1>1, <1>2, <1>3, <1>4, <1>5, <1>6, <1>7, <1>8, <1>9 DEF StackNext, Provider

(* Type correctness of the stack.                                          *)
THEOREM StackTypeCorrect == StackSpec => []StackTypeOK
<1>1. StackTypeOK /\ [StackNext]_stackVars => StackTypeOK'
  BY TypeParts, StepTypeOK, StackStepsAreBreakerSteps, StepBucketOK, StepWakesOK,
     StepRequestsOK, TypePartsNext
<1> QED
  BY StackInitTypeOK, <1>1, PTL DEF StackSpec

-----------------------------------------------------------------------------
(* What a step does to the content of the bucket: a tick adds what it      *)
(* earns, as far as it fits, a call that goes out takes a token, and       *)
(* nothing else changes it, although the limiter's fields change in other  *)
(* steps too.                                                              *)
LEMMA TimeFills ==
  BucketOK /\ Time => Refilled' = AtMost(capacity, Refilled + Earned) /\ clock' = 1 - clock
<1> SUFFICES ASSUME BucketOK, Time PROVE Refilled' = AtMost(capacity, Refilled + Earned)
  BY DEF Time
<1>1. tokens' = tokens /\ since' = AtMost(capacity, since + Earned) /\ capacity' = capacity
  BY DEF Time, capacity
<1>2. \A cap, m, n \in Nat :
        AtMost(cap, m + AtMost(cap, n + Earned)) = AtMost(cap, AtMost(cap, m + n) + Earned)
  BY StackAssumption DEF AtMost
<1>3. capacity \in Nat /\ tokens \in Nat /\ since \in Nat
  BY CapacityPos DEF BucketOK
<1>4. Refilled' = AtMost(capacity, tokens + AtMost(capacity, since + Earned))
  BY <1>1 DEF Refilled
<1> QED
  BY <1>2, <1>3, <1>4 DEF Refilled

(* A call that is let through takes a token; one that waits takes none.    *)
LEMMA AcquirePays ==
  ASSUME BucketOK, NEW c \in Callers, Acquire(c)
  PROVE  /\ UNCHANGED clock
         /\ Refilled >= TokenCost =>
              /\ Refilled' = Refilled - TokenCost
              /\ wake' = [wake EXCEPT ![c] = 0]
              /\ stage' = [stage EXCEPT ![c] = "calling"]
         /\ ~(Refilled >= TokenCost) =>
              /\ Refilled' = Refilled
              /\ \E n \in 1 .. TokenCost : /\ (n - 1) * Earned < TokenCost - Refilled
                                            /\ wake' = [wake EXCEPT ![c] = n]
              /\ stage' = [stage EXCEPT ![c] = "waiting"]
<1>1. \A n \in 0 .. capacity : AtMost(capacity, n + 0) = n
  BY CapacityPos DEF AtMost
<1>2. Refilled' = AtMost(capacity, tokens' + since')
  BY DEF Refilled, capacity
<1>3. since' = 0
  BY DEF Acquire
<1>4. Refilled \in 0 .. capacity
  BY RefilledType
<1>5. CASE Refilled >= TokenCost
  <2>1. tokens' = Refilled - TokenCost
    BY <1>5 DEF Acquire
  <2>2. tokens' \in 0 .. capacity
    BY <2>1, <1>4, <1>5, CapacityPos, StackAssumption
  <2>3. Refilled' = tokens'
    BY <1>1, <1>2, <1>3, <2>2
  <2> QED
    BY <1>5, <2>1, <2>3 DEF Acquire, Goes
<1>6. CASE ~(Refilled >= TokenCost)
  <2>1. tokens' = Refilled
    BY <1>6 DEF Acquire
  <2>2. Refilled' = Refilled
    BY <1>1, <1>2, <1>3, <1>4, <2>1
  <2> QED
    BY <1>6, <2>2 DEF Acquire, Waits, WaitIs, Goes
<1> QED
  BY <1>5, <1>6

(* Only acquire and the clock touch the bucket.                            *)
LEMMA OthersLeaveBucket ==
  ASSUME NEW c \in Callers,
         \/ Ask(c) \/ Admitted(c) \/ Rejected(c) \/ AcquireInterrupted(c)
         \/ Provider(c) \/ BackoffEnds(c) \/ BackupAnswers(c)
  PROVE  UNCHANGED <<Refilled, clock>>
<1>1. UNCHANGED <<tokens, since, clock>>
  BY DEF Ask, Admitted, Rejected, AcquireInterrupted, Provider, Succeeds,
         FailsTransiently, FailsWith408, FailsForGood, BackoffEnds,
         BackupAnswers, limiter
<1> QED
  BY <1>1 DEF Refilled, capacity

(* The limiter implements the continuously filling bucket: the calls of    *)
(* any number of threads, early wakings, interrupts, failures and retries  *)
(* never take a token such a bucket would not have paid.                   *)
THEOREM LimiterKeepsRate == StackSpec => RateKept
<1>1. StackInit => Bucket!BucketInit
  <2>1. capacity \in Nat => AtMost(capacity, capacity + 0) = capacity
    BY DEF AtMost
  <2> QED
    BY <2>1, CapacityPos DEF StackInit, Bucket!BucketInit, Refilled
<1>2. StackTypeOK /\ [StackNext]_stackVars
        => [Bucket!Fill \/ Bucket!Pay]_(Bucket!bucketVars)
  <2> SUFFICES ASSUME StackTypeOK, [StackNext]_stackVars
               PROVE  Bucket!Fill \/ Bucket!Pay \/ UNCHANGED <<Refilled, clock>>
    BY DEF Bucket!bucketVars
  <2>1. BucketOK
    BY TypeParts
  <2>2. CASE Time
    <3>1. Bucket!Least(capacity, Refilled + Earned) = AtMost(capacity, Refilled + Earned)
      BY DEF Bucket!Least, AtMost
    <3> QED
      BY <2>1, <2>2, <3>1, TimeFills DEF Bucket!Fill
  <2>3. ASSUME NEW c \in Callers, Acquire(c)
        PROVE  Bucket!Pay \/ UNCHANGED <<Refilled, clock>>
    BY <2>1, <2>3, AcquirePays DEF Bucket!Pay
  <2>4. CASE UNCHANGED stackVars
    BY <2>4 DEF stackVars, limiter, Refilled, capacity
  <2> QED
    BY <2>2, <2>3, <2>4, OthersLeaveBucket DEF StackNext
<1> QED
  BY <1>1, <1>2, StackTypeCorrect, PTL DEF StackSpec, RateKept, Bucket!BucketSpec

(* Multiplication by what a tick earns, as far as the waits need it.       *)
LEMMA OneTickLess ==
  ASSUME NEW n \in Nat, n >= 2
  PROVE  /\ (n - 1) * Earned = ((n - 1) - 1) * Earned + Earned
         /\ (n - 1) * Earned \in Nat /\ ((n - 1) - 1) * Earned \in Nat
<1>1. \A k, e \in Nat : (k + 1) * e = k * e + e /\ k * e \in Nat /\ (k + 1) * e \in Nat
  OBVIOUS
<1>2. n - 2 \in Nat /\ n - 1 = (n - 2) + 1 /\ (n - 1) - 1 = n - 2 /\ Earned \in Nat
  BY StackAssumption
<1> QED
  BY <1>1, <1>2

(* Of a caller that sleeps for n ticks the last but one earns no token.    *)
THEOREM NobodyOversleeps == StackSpec => []NoOversleep
<1>1. StackInit => NoOversleep
  BY DEF StackInit, NoOversleep
<1>2. StackTypeOK /\ NoOversleep /\ [StackNext]_stackVars => NoOversleep'
  <2> SUFFICES ASSUME StackTypeOK, NoOversleep, [StackNext]_stackVars,
                      NEW d \in Callers, wake'[d] > 0
               PROVE  stage'[d] = "waiting" /\ Refilled' + (wake'[d] - 1) * Earned < TokenCost
    BY DEF NoOversleep
  <2>1. /\ BucketOK /\ WakesOK /\ RequestsOK
        /\ Refilled \in Nat /\ wake[d] \in Nat /\ TokenCost \in Nat
    BY TypeParts, RefilledType, CapacityPos, StackAssumption DEF WakesOK
  <2>2. wake[d] > 0 => stage[d] = "waiting" /\ Refilled + (wake[d] - 1) * Earned < TokenCost
    BY DEF NoOversleep
  <2>3. CASE Time
    <3>1. wake[d] > 0 /\ wake'[d] = wake[d] - 1 /\ stage' = stage
      BY <2>1, <2>3 DEF Time, requests
    <3>2. Refilled' <= Refilled + Earned /\ Refilled' \in Nat /\ Earned \in Nat
      BY <2>1, <2>3, TimeFills, CapacityPos, StackAssumption DEF AtMost
    <3>3. wake[d] >= 2
      BY <2>1, <3>1
    <3> DEFINE now == (wake[d] - 1) * Earned
               then == ((wake[d] - 1) - 1) * Earned
    <3>4. now = then + Earned /\ now \in Nat /\ then \in Nat
      BY <2>1, <3>3, OneTickLess
    <3>5. Refilled + now < TokenCost
      BY <2>2, <3>1
    <3>6. (wake'[d] - 1) * Earned = then
      BY <3>1
    <3> HIDE DEF now, then
    <3>7. \A a, b, e, x, y, t \in Nat :
            b <= a + e /\ x = y + e /\ a + x < t => b + y < t
      OBVIOUS
    <3>8. Refilled' + then < TokenCost
      BY <2>1, <3>2, <3>4, <3>5, <3>7
    <3> QED
      BY <2>2, <3>1, <3>6, <3>8
  <2>4. ASSUME NEW c \in Callers, Acquire(c)
        PROVE  stage'[d] = "waiting" /\ Refilled' + (wake'[d] - 1) * Earned < TokenCost
    <3>1. CASE Refilled >= TokenCost
      <4>1. /\ Refilled' = Refilled - TokenCost
            /\ wake' = [wake EXCEPT ![c] = 0]
            /\ stage' = [stage EXCEPT ![c] = "calling"]
        BY <2>1, <2>4, <3>1, AcquirePays
      <4>2. d # c /\ wake'[d] = wake[d] /\ stage'[d] = stage[d]
        BY <2>1, <4>1 DEF WakesOK, RequestsOK
      <4> QED
        BY <2>1, <2>2, <4>1, <4>2, <3>1, StackAssumption
    <3>2. CASE ~(Refilled >= TokenCost)
      <4>1. /\ Refilled' = Refilled
            /\ stage' = [stage EXCEPT ![c] = "waiting"]
        BY <2>1, <2>4, <3>2, AcquirePays
      <4>0. PICK n \in 1 .. TokenCost : /\ (n - 1) * Earned < TokenCost - Refilled
                                        /\ wake' = [wake EXCEPT ![c] = n]
        BY <2>1, <2>4, <3>2, AcquirePays
      <4>2. CASE d = c
        <5>1. wake'[d] = n /\ stage'[d] = "waiting"
          BY <2>1, <4>0, <4>1, <4>2 DEF WakesOK, RequestsOK
        <5>2. (n - 1) * Earned \in Int /\ Refilled' = Refilled
          BY <4>1, StackAssumption
        <5>3. Refilled' + (n - 1) * Earned < TokenCost
          BY <2>1, <4>0, <5>2
        <5> QED
          BY <5>1, <5>3
      <4>3. CASE d # c
        <5>1. wake'[d] = wake[d] /\ stage'[d] = stage[d]
          BY <2>1, <4>0, <4>1, <4>3 DEF WakesOK, RequestsOK
        <5> QED
          BY <2>1, <2>2, <4>1, <5>1
      <4> QED
        BY <4>2, <4>3
    <3> QED
      BY <3>1, <3>2
  <2>5. ASSUME NEW c \in Callers, AcquireInterrupted(c)
        PROVE  stage'[d] = "waiting" /\ Refilled' + (wake'[d] - 1) * Earned < TokenCost
    <3>1. /\ wake' = [wake EXCEPT ![c] = 0]
          /\ stage' = [stage EXCEPT ![c] = "idle"]
      BY <2>5 DEF AcquireInterrupted, Answered, Goes
    <3>2. d # c /\ wake'[d] = wake[d] /\ stage'[d] = stage[d]
      BY <2>1, <3>1 DEF WakesOK, RequestsOK
    <3>3. Refilled' = Refilled
      BY <2>5, OthersLeaveBucket
    <3> QED
      BY <2>1, <2>2, <3>2, <3>3
  <2>6. ASSUME NEW c \in Callers,
               \/ Ask(c) \/ Admitted(c) \/ Rejected(c)
               \/ Provider(c) \/ BackoffEnds(c) \/ BackupAnswers(c)
        PROVE  stage'[d] = "waiting" /\ Refilled' + (wake'[d] - 1) * Earned < TokenCost
    <3>1. stage[c] # "waiting" /\ wake' = wake
      BY <2>6 DEF Ask, Admitted, Rejected, Provider, Succeeds, FailsTransiently,
                  FailsWith408, FailsForGood, BackoffEnds, BackupAnswers, limiter
    <3>2. \A e \in Callers \ {c} : stage'[e] = stage[e]
      BY <2>1, <2>6 DEF Ask, Admitted, Rejected, Provider, Succeeds,
         FailsTransiently, FailsWith408, FailsForGood, BackoffEnds, BackupAnswers,
         Answered, Goes, RequestsOK, requests
    <3>3. Refilled' = Refilled
      BY <2>6, OthersLeaveBucket
    <3> QED
      BY <2>1, <2>2, <3>1, <3>2, <3>3
  <2>7. CASE UNCHANGED stackVars
    <3>1. Refilled' = Refilled /\ wake' = wake /\ stage' = stage
      BY <2>7 DEF stackVars, limiter, requests, Refilled, capacity
    <3> QED
      BY <2>1, <2>2, <3>1
  <2> QED
    BY <2>3, <2>4, <2>5, <2>6, <2>7 DEF StackNext
<1> QED
  BY <1>1, <1>2, StackTypeCorrect, PTL DEF StackSpec

(* The stack's breaker is CircuitBreaker's, and inherits its invariants.   *)
THEOREM StackHasBreaker == StackSpec => Spec
<1>1. StackInit => Init
  BY DEF StackInit
<1>2. StackTypeOK /\ [StackNext]_stackVars => [Next]_vars
  BY TypeParts, StackStepsAreBreakerSteps
<1> QED
  BY <1>1, <1>2, StackTypeCorrect, PTL DEF StackSpec, Spec

(* The breaker keeps its promises inside the stack, behind retries and     *)
(* failover and in front of the limiter, when no probe ends in an Error.   *)
THEOREM StackBreakerSound ==
  ASSUME IsFiniteSet(Callers), "probe" \notin ErrorsOn
  PROVE  StackSpec => [](ProbeIsOut /\ RejectionHasCause /\ FailuresCounted)
  BY StackHasBreaker, ProbesAreOut, RejectionsAreExplained, FailuresAreCounted, PTL

-----------------------------------------------------------------------------
(* A window of time that opens in any state the stack can be in: the units *)
(* its ticks have earned, and those that the calls which have gone out in  *)
(* it cost.                                                                *)
VARIABLES due, sent

windowVars == <<stackVars, due, sent>>

GoesOut(c) == stage[c] # "calling" /\ stage'[c] = "calling"

WindowOpens == StackTypeOK /\ due = 0 /\ sent = 0

WindowStep ==
  /\ StackNext
  /\ due' = IF clock' # clock THEN due + Earned ELSE due
  /\ sent' = IF \E c \in Callers : GoesOut(c) THEN sent + TokenCost ELSE sent

WindowInv ==
  /\ StackTypeOK
  /\ due \in Nat /\ sent \in Nat
  /\ Refilled + sent <= capacity + due

(* Only acquire lets a call out.                                           *)
LEMMA OthersLetNoneOut ==
  ASSUME RequestsOK, NEW c \in Callers, NEW d \in Callers, GoesOut(d),
         \/ Ask(c) \/ Admitted(c) \/ Rejected(c) \/ AcquireInterrupted(c)
         \/ Provider(c) \/ BackoffEnds(c) \/ BackupAnswers(c)
  PROVE  FALSE
<1>1. \/ stage' = [stage EXCEPT ![c] = "idle"]
      \/ stage' = [stage EXCEPT ![c] = "asking"]
      \/ stage' = [stage EXCEPT ![c] = "limited"]
      \/ stage' = [stage EXCEPT ![c] = "backoff"]
      \/ stage' = [stage EXCEPT ![c] = "backup"]
  BY DEF Ask, Admitted, Rejected, AcquireInterrupted, Provider, Succeeds,
         FailsTransiently, FailsWith408, FailsForGood, BackoffEnds,
         BackupAnswers, Answered, Goes
<1> QED
  BY <1>1 DEF RequestsOK, GoesOut

(* The quota: over any window of time, however long and wherever it        *)
(* starts, the calls that go out to the provider cost no more than a full  *)
(* bucket and what the window's ticks have earned.                         *)
THEOREM QuotaHolds ==
  WindowOpens /\ [][WindowStep]_windowVars => [](sent <= capacity + due)
<1>1. WindowOpens => WindowInv
  BY TypeParts, RefilledType, CapacityPos DEF WindowOpens, WindowInv
<1>2. WindowInv /\ [WindowStep]_windowVars => WindowInv'
  <2> SUFFICES ASSUME WindowInv, [WindowStep]_windowVars PROVE WindowInv'
    OBVIOUS
  <2> USE DEF WindowInv
  <2>1. /\ BucketOK /\ RequestsOK
        /\ Refilled \in Nat /\ capacity \in Nat /\ TokenCost \in Nat
        /\ due \in Nat /\ sent \in Nat /\ Refilled + sent <= capacity + due
    BY TypeParts, RefilledType, CapacityPos, StackAssumption
  <2>2. StackTypeOK' /\ capacity' = capacity
    <3>1. [StackNext]_stackVars
      BY DEF WindowStep, windowVars
    <3> QED
      BY <3>1, TypeParts, StepTypeOK, StackStepsAreBreakerSteps, StepBucketOK,
         StepWakesOK, StepRequestsOK, TypePartsNext DEF capacity
  <2>3. CASE WindowStep /\ Time
    <3>1. Refilled' = AtMost(capacity, Refilled + Earned) /\ clock' # clock
      BY <2>1, <2>3, TimeFills DEF BucketOK
    <3>2. due' = due + Earned /\ sent' = sent
      BY <2>3, <3>1 DEF WindowStep, Time, requests, GoesOut
    <3>3. Refilled' <= Refilled + Earned /\ Refilled' \in Nat
      BY <2>1, <3>1, StackAssumption DEF AtMost
    <3>4. \A r, s, k, e, rr \in Nat :
            r + s <= k + e /\ rr <= r + Earned => rr + s <= k + (e + Earned)
      BY StackAssumption
    <3>5. Refilled' + sent <= capacity + (due + Earned)
      BY <2>1, <3>3, <3>4
    <3>6. due + Earned \in Nat
      BY <2>1, StackAssumption
    <3> QED
      BY <2>1, <2>2, <3>2, <3>5, <3>6
  <2>4. ASSUME NEW c \in Callers, WindowStep, Acquire(c) PROVE WindowInv'
    <3>1. due' = due
      BY <2>1, <2>4, AcquirePays DEF WindowStep
    <3>2. CASE Refilled >= TokenCost
      <4>1. Refilled' = Refilled - TokenCost
        BY <2>1, <2>4, <3>2, AcquirePays
      <4>2. sent' \in {sent, sent + TokenCost}
        BY <2>4 DEF WindowStep
      <4>3. \A r, s, k, e, t \in Nat :
              r + s <= k + e =>
                s + t \in Nat /\ (r - t) + s <= k + e /\ (r - t) + (s + t) <= k + e
        OBVIOUS
      <4>4. /\ sent + TokenCost \in Nat
            /\ (Refilled - TokenCost) + sent <= capacity + due
            /\ (Refilled - TokenCost) + (sent + TokenCost) <= capacity + due
        BY <2>1, <4>3
      <4> QED
        BY <2>1, <2>2, <3>1, <4>1, <4>2, <4>4
    <3>3. CASE ~(Refilled >= TokenCost)
      <4>1. Refilled' = Refilled /\ stage' = [stage EXCEPT ![c] = "waiting"]
        BY <2>1, <2>4, <3>3, AcquirePays
      <4>2. sent' = sent
        BY <2>1, <2>4, <4>1 DEF WindowStep, GoesOut, RequestsOK
      <4> QED
        BY <2>1, <2>2, <3>1, <4>1, <4>2
    <3> QED
      BY <3>2, <3>3
  <2>5. ASSUME NEW c \in Callers, WindowStep,
               \/ Ask(c) \/ Admitted(c) \/ Rejected(c) \/ AcquireInterrupted(c)
               \/ Provider(c) \/ BackoffEnds(c) \/ BackupAnswers(c)
        PROVE  WindowInv'
    <3>1. UNCHANGED <<Refilled, clock>>
      BY <2>5, OthersLeaveBucket
    <3>2. \A d \in Callers : ~GoesOut(d)
      BY <2>1, <2>5, OthersLetNoneOut
    <3>3. due' = due /\ sent' = sent
      BY <2>5, <3>1, <3>2 DEF WindowStep
    <3> QED
      BY <2>2, <3>1, <3>3
  <2>6. CASE UNCHANGED windowVars
    <3>1. Refilled' = Refilled /\ due' = due /\ sent' = sent
      BY <2>6 DEF windowVars, stackVars, limiter, Refilled, capacity
    <3> QED
      BY <2>2, <3>1
  <2> QED
    BY <2>3, <2>4, <2>5, <2>6 DEF WindowStep, StackNext
<1>3. WindowInv => sent <= capacity + due
  BY TypeParts, RefilledType, CapacityPos DEF WindowInv
<1> QED
  BY <1>1, <1>2, <1>3, PTL
=============================================================================
