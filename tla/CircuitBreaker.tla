--------------------------- MODULE CircuitBreaker ---------------------------
(***************************************************************************)
(* CircuitBreakerLlmClient: one breaker shared by several callers.  admit, *)
(* onSuccess and onFailure each hold the lock, so each is one step; the    *)
(* call to the delegate runs between them outside the lock, and a call may *)
(* return long after the state it was admitted in is gone.                 *)
(***************************************************************************)
EXTENDS Integers, FiniteSets

CONSTANTS
  Callers,           \* threads that call complete
  FailureThreshold,
  Cooldown,          \* clock ticks in a cooldown
  ErrorsOn           \* the kinds of calls that may end in an Error

ASSUME BreakerAssumption ==
  /\ FailureThreshold \in Nat \ {0}
  /\ Cooldown \in Nat \ {0}
  /\ ErrorsOn \subseteq {"plain", "probe"}

VARIABLES
  state,
  consecutiveFailures,
  cooling,        \* ticks until nanoTime - openedAtNanos >= cooldownNanos
  probeInFlight,
  failing,        \* lastFailure # null
  call            \* call[c]: what c is doing (Calls below)

breaker == <<state, consecutiveFailures, cooling, probeInFlight, failing>>
vars == <<breaker, call>>

Calls == {"none", "plain", "probe"}

TypeOK ==
  /\ state \in {"CLOSED", "OPEN", "HALF_OPEN"}
  /\ consecutiveFailures \in Nat
  /\ cooling \in 0 .. Cooldown
  /\ probeInFlight \in BOOLEAN
  /\ failing \in BOOLEAN
  /\ call \in [Callers -> Calls]

Init ==
  /\ state = "CLOSED"
  /\ consecutiveFailures = 0
  /\ cooling = 0
  /\ probeInFlight = FALSE
  /\ failing = FALSE
  /\ call = [c \in Callers |-> "none"]

Tick ==
  /\ cooling > 0
  /\ cooling' = cooling - 1
  /\ UNCHANGED <<state, consecutiveFailures, probeInFlight, failing, call>>

-----------------------------------------------------------------------------
(* admit                                                                   *)

AdmitPlain(c) ==
  /\ call[c] = "none"
  /\ state = "CLOSED"
  /\ call' = [call EXCEPT ![c] = "plain"]
  /\ UNCHANGED breaker

MayProbe == IF state = "OPEN" THEN cooling = 0
                              ELSE state = "HALF_OPEN" /\ ~probeInFlight

(* Wrong: the circuit stays open while it is probed.                       *)
AdmitProbeStaysOpen(c) ==
  /\ call[c] = "none"
  /\ MayProbe
  /\ probeInFlight' = TRUE
  /\ call' = [call EXCEPT ![c] = "probe"]
  /\ UNCHANGED <<state, consecutiveFailures, cooling, failing>>

AdmitProbe(c) ==
  /\ call[c] = "none"
  /\ MayProbe
  /\ state' = "HALF_OPEN"
  /\ probeInFlight' = TRUE
  /\ call' = [call EXCEPT ![c] = "probe"]
  /\ UNCHANGED <<consecutiveFailures, cooling, failing>>

Rejecting == state # "CLOSED" /\ ~MayProbe

-----------------------------------------------------------------------------
(* The delegate returns or throws.                                         *)

(* Wrong: a success is ignored unless the circuit is closed.               *)
OnSuccessWhenClosed(c) ==
  /\ call[c] # "none"
  /\ consecutiveFailures' = IF state = "CLOSED" THEN 0 ELSE consecutiveFailures
  /\ failing' = (state # "CLOSED" /\ failing)
  /\ call' = [call EXCEPT ![c] = "none"]
  /\ UNCHANGED <<state, cooling, probeInFlight>>

(* Wrong: a late success leaves an open circuit open but is forgiven.      *)
OnSuccessUnlessOpen(c) ==
  /\ call[c] # "none"
  /\ state' = IF state = "OPEN" THEN "OPEN" ELSE "CLOSED"
  /\ consecutiveFailures' = 0
  /\ probeInFlight' = FALSE
  /\ failing' = FALSE
  /\ call' = [call EXCEPT ![c] = "none"]
  /\ UNCHANGED cooling

(* onSuccess does not ask what the circuit was when the call was admitted. *)
OnSuccess(c) ==
  /\ call[c] # "none"
  /\ state' = "CLOSED"
  /\ consecutiveFailures' = 0
  /\ probeInFlight' = FALSE
  /\ failing' = FALSE
  /\ call' = [call EXCEPT ![c] = "none"]
  /\ UNCHANGED cooling

(* onFailure(e, true)                                                      *)
ProbeFails(c) ==
  /\ call[c] = "probe"
  /\ state' = "OPEN"
  /\ cooling' = Cooldown
  /\ probeInFlight' = FALSE
  /\ failing' = TRUE
  /\ call' = [call EXCEPT ![c] = "none"]
  /\ UNCHANGED consecutiveFailures

(* Wrong: one failure more than the threshold.                             *)
PlainFailsOnceMore(c) ==
  LET opens == state = "CLOSED" /\ consecutiveFailures + 1 > FailureThreshold
  IN  /\ call[c] = "plain"
      /\ consecutiveFailures' = consecutiveFailures + 1
      /\ state' = IF opens THEN "OPEN" ELSE state
      /\ cooling' = IF opens THEN Cooldown ELSE cooling
      /\ failing' = TRUE
      /\ call' = [call EXCEPT ![c] = "none"]
      /\ UNCHANGED probeInFlight

(* onFailure(e, false)                                                     *)
PlainFails(c) ==
  LET opens == state = "CLOSED" /\ consecutiveFailures + 1 >= FailureThreshold
  IN  /\ call[c] = "plain"
      /\ consecutiveFailures' = consecutiveFailures + 1
      /\ state' = IF opens THEN "OPEN" ELSE state
      /\ cooling' = IF opens THEN Cooldown ELSE cooling
      /\ failing' = TRUE
      /\ call' = [call EXCEPT ![c] = "none"]
      /\ UNCHANGED probeInFlight

(* complete catches RuntimeException only: an Error tells the breaker nothing. *)
DelegateDies(c) ==
  /\ call[c] \in ErrorsOn
  /\ call' = [call EXCEPT ![c] = "none"]
  /\ UNCHANGED breaker

Returns(c) == OnSuccess(c) \/ ProbeFails(c) \/ PlainFails(c) \/ DelegateDies(c)

Next == \/ Tick
        \/ \E c \in Callers : AdmitPlain(c) \/ AdmitProbe(c) \/ Returns(c)

Spec == Init /\ [][Next]_vars

(* Time passes, the provider answers every call with a response or an      *)
(* exception (its client has a timeout), and callers keep calling.         *)
FairSpec == /\ Spec
            /\ WF_vars(Tick)
            /\ \A c \in Callers : WF_vars(Returns(c))
            /\ \A c \in Callers : WF_vars(AdmitPlain(c) \/ AdmitProbe(c))

-----------------------------------------------------------------------------
(* Properties                                                              *)

(* A half-open breaker always has a probe out that will settle it: late    *)
(* answers of older calls and older probes never leave it waiting for a    *)
(* call that has already returned.                                         *)
ProbeIsOut ==
  state = "HALF_OPEN" => probeInFlight /\ \E c \in Callers : call[c] = "probe"

(* Every rejection carries the failure that explains it: whichever order   *)
(* concurrent calls return in, CircuitOpenException's cause is not null.   *)
RejectionHasCause == Rejecting => failing

(* A closed breaker never has the failures that should have opened it, and *)
(* calls that fail while it is open or half-open add at most one failure   *)
(* per caller to the threshold.                                            *)
FailuresCounted ==
  /\ state = "CLOSED" => consecutiveFailures < FailureThreshold
  /\ consecutiveFailures < FailureThreshold + Cardinality(Callers)

(* A provider that answers is not locked out: an open circuit comes to be  *)
(* probed, and every probe is settled.                                     *)
CircuitSettles ==
  /\ state = "OPEN" ~> state # "OPEN"
  /\ state = "HALF_OPEN" ~> state # "HALF_OPEN"
=============================================================================
