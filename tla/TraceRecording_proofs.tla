------------------------ MODULE TraceRecording_proofs -----------------------
(***************************************************************************)
(* What RecordingTraceRecorder keeps of an execution, for any number of    *)
(* calls, steps, flushes and crashes.  That what is stored was executed,   *)
(* in that order, needs nothing; that nothing is lost between the calls    *)
(* needs that they take turns.                                             *)
(***************************************************************************)
EXTENDS TraceRecording, SequenceTheorems, FiniteSetTheorems, TLAPS

-----------------------------------------------------------------------------
(* Sequences of steps, and numbers of them                                 *)

(* What was executed stays so when one more step is.                       *)
LEMMA LongerHistory ==
  ASSUME NEW n \in Nat, NEW s \in Seq(1 .. n)
  PROVE  s \in Seq(1 .. n + 1) /\ Append(s, n + 1) \in Seq(1 .. n + 1)
<1>1. Len(s) \in Nat /\ DOMAIN s = 1 .. Len(s) /\ \A i \in 1 .. Len(s) : s[i] \in 1 .. n
  BY LenProperties, ElementOfSeq
<1>2. s \in [1 .. Len(s) -> 1 .. n]
  BY LenProperties
<1>3. s \in [1 .. Len(s) -> 1 .. n + 1]
  BY <1>1, <1>2
<1>4. s \in Seq(1 .. n + 1)
  BY <1>1, <1>3, SeqDef
<1>5. n + 1 \in 1 .. n + 1
  OBVIOUS
<1>6. QED BY <1>4, <1>5, AppendProperties

(* A newer step behind an increasing sequence of older ones.               *)
LEMMA AppendIncreasing ==
  ASSUME NEW n \in Nat, NEW s \in Seq(1 .. n), Increasing(s)
  PROVE  Increasing(Append(s, n + 1))
<1> DEFINE t == Append(s, n + 1)
<1>1. /\ Len(s) \in Nat
      /\ DOMAIN t = 1 .. Len(s) + 1
      /\ DOMAIN s = 1 .. Len(s)
      /\ \A i \in 1 .. Len(s) : t[i] = s[i] /\ s[i] \in 1 .. n
      /\ t[Len(s) + 1] = n + 1
  BY LenProperties, ElementOfSeq, AppendProperties
<1> HIDE DEF t
<1>2. ASSUME NEW i \in DOMAIN t, NEW j \in DOMAIN t, i < j PROVE t[i] < t[j]
  <2>1. i \in 1 .. Len(s)
    BY <1>1, <1>2
  <2>2. CASE j = Len(s) + 1
    BY <1>1, <2>1, <2>2
  <2>3. CASE j # Len(s) + 1
    <3>1. j \in 1 .. Len(s)
      BY <1>1, <2>3
    <3>2. QED BY <1>1, <1>2, <2>1, <3>1 DEF Increasing
  <2>4. QED BY <2>2, <2>3
<1>3. QED BY <1>2 DEF Increasing, t

(* The multiples of F are never further apart than F.                      *)
LEMMA MultiplesAreClose ==
  ASSUME NEW F \in Nat \ {0}, NEW m \in Nat, NEW n \in Nat, m <= n,
         \A k \in (m + 1) .. n : k % F # 0
  PROVE  n - m <= F - 1
<1> DEFINE q == m \div F
           r == m % F
<1>1. m = (F * q) + r /\ r \in 0 .. F - 1 /\ q \in Nat
  BY SMT
<1>2. (F * (q + 1)) % F = 0
  BY <1>1, SMT
<1>3. F * (q + 1) = (F * q) + F
  BY <1>1, SMT
<1>4. F * q \in Nat
  BY <1>1, SMT
<1> HIDE DEF q, r
<1> DEFINE p == F * q
<1>5. F * (q + 1) \in (m + 1) .. (m + F)
  <2>1. m = p + r /\ p \in Nat /\ F * (q + 1) = p + F
    BY <1>1, <1>3, <1>4
  <2> HIDE DEF p
  <2>2. QED BY <1>1, <2>1
<1>6. F * (q + 1) \notin (m + 1) .. n
  BY <1>2
<1>7. QED BY <1>5, <1>6

-----------------------------------------------------------------------------
(* Type correctness                                                        *)

(* What AddStep leaves in the builders and in the store.                   *)
LEMMA AddStepEffect ==
  ASSUME TypeOK, AddStep
  PROVE  /\ executed' = executed + 1 /\ UNCHANGED <<active, crashes>>
         /\ active = None => UNCHANGED <<builder, store>>
         /\ active # None =>
              /\ builder' = [builder EXCEPT ![active] = Append(@, executed + 1)]
              /\ store' = store \/ store' = [status |-> "RUNNING", steps |-> builder'[active]]
BY DEF AddStep, TypeOK

(* A step of the run is added to builders that are open.                   *)
LEMMA AddStepType == TypeOK /\ AddStep /\ pc' \in [Calls -> PCs] => TypeOK'
<1> SUFFICES ASSUME TypeOK, AddStep, pc' \in [Calls -> PCs] PROVE TypeOK'
  OBVIOUS
<1>1. executed \in Nat /\ executed' = executed + 1 /\ Executed' = 1 .. executed + 1
  BY AddStepEffect DEF TypeOK, Executed
<1>2. \A c \in Calls : builder[c] \in Seq(1 .. executed)
  BY DEF TypeOK, Executed
<1>3. /\ \A c \in Calls : builder[c] \in Seq(Executed')
      /\ \A c \in Calls : Append(builder[c], executed + 1) \in Seq(Executed')
  BY <1>1, <1>2, LongerHistory
<1>4. builder' \in [Calls -> Seq(Executed')]
  <2>1. CASE active = None
    BY <1>3, <2>1, AddStepEffect DEF TypeOK
  <2>2. CASE active # None
    BY <1>3, <2>2, AddStepEffect DEF TypeOK
  <2>3. QED BY <2>1, <2>2
<1>5. store' \in Trace'
  <2>1. store.steps \in Seq(Executed') /\ store \in Trace'
    BY <1>1, LongerHistory DEF TypeOK, Trace, Executed
  <2>2. active # None => builder'[active] \in Seq(Executed')
    BY <1>4 DEF TypeOK
  <2>3. QED BY <2>1, <2>2, AddStepEffect DEF Trace
<1>6. QED BY <1>1, <1>4, <1>5, AddStepEffect DEF TypeOK

(* Every step keeps the type invariant.                                    *)
LEMMA NextTypeOK == TypeOK /\ [Next]_vars => TypeOK'
<1> SUFFICES ASSUME TypeOK, [Next]_vars PROVE TypeOK'
  OBVIOUS
<1>1. ASSUME NEW c \in Calls, RecordStart(c) PROVE TypeOK'
  BY <1>1 DEF RecordStart, Goes, TypeOK, PCs, Trace, Executed
<1>2. ASSUME NEW c \in Calls, PutActive(c) \/ ResumeThrows(c) PROVE TypeOK'
  BY <1>2 DEF PutActive, ResumeThrows, Goes, TypeOK, PCs, Trace, Executed
<1>3. ASSUME NEW c \in Calls, RecordExit(c) \/ RecordError(c) PROVE TypeOK'
  <2>1. pc' \in [Calls -> PCs]
    BY <1>3 DEF RecordExit, RecordError, Goes, TypeOK, PCs
  <2>2. QED BY <1>3, <2>1, AddStepType DEF RecordExit, RecordError
<1>4. ASSUME NEW c \in Calls, NEW s \in Final, RecordComplete(c, s) PROVE TypeOK'
  <2>1. store' \in Trace
    BY <1>4 DEF RecordComplete, TypeOK, Trace
  <2>2. QED BY <1>4, <2>1 DEF RecordComplete, Goes, TypeOK, PCs, Trace, Executed
<1>5. CASE Crash
  BY <1>5 DEF Crash, InProgress, TypeOK, PCs, Trace, Executed
<1>6. CASE UNCHANGED vars
  BY <1>6 DEF vars, TypeOK, Trace, Executed
<1>7. QED BY <1>1, <1>2, <1>3, <1>4, <1>5, <1>6 DEF Next

(* Types: builders and stores hold steps that were executed.               *)
THEOREM TypeCorrect == Spec => []TypeOK
<1>1. Init => TypeOK
  BY EmptySeq DEF Init, TypeOK, PCs, Trace, Executed
<1>2. QED BY <1>1, NextTypeOK, PTL DEF Spec

-----------------------------------------------------------------------------
(* Faithfulness                                                            *)

(* Increasing(store.steps) is not inductive: what is stored comes out of   *)
(* the builders.                                                           *)
OrderInv ==
  /\ Increasing(store.steps)
  /\ \A c \in Calls : Increasing(builder[c])

(* Every step keeps the order of what is recorded.                         *)
LEMMA OrderInvNext == TypeOK /\ OrderInv /\ [Next]_vars => OrderInv'
<1> SUFFICES ASSUME TypeOK, OrderInv, [Next]_vars PROVE OrderInv'
  OBVIOUS
<1>1. ASSUME NEW c \in Calls, RecordStart(c) PROVE OrderInv'
  BY <1>1 DEF RecordStart, OrderInv, TypeOK
<1>2. ASSUME UNCHANGED <<builder, store>> PROVE OrderInv'
  BY <1>2 DEF OrderInv
<1>3. CASE AddStep
  <2>1. CASE active = None
    BY <1>2, <1>3, <2>1, AddStepEffect
  <2>2. CASE active # None
    <3>1. \A c \in Calls : Increasing(Append(builder[c], executed + 1))
      BY AppendIncreasing DEF OrderInv, TypeOK, Executed
    <3>2. \A c \in Calls : Increasing(builder'[c])
      BY <1>3, <2>2, <3>1, AddStepEffect DEF OrderInv, TypeOK
    <3>3. active \in Calls
      BY <2>2 DEF TypeOK
    <3>4. Increasing(store'.steps)
      BY <1>3, <2>2, <3>2, <3>3, AddStepEffect DEF OrderInv
    <3>5. QED BY <3>2, <3>4 DEF OrderInv
  <2>3. QED BY <2>1, <2>2
<1>4. ASSUME NEW c \in Calls, NEW s \in Final, RecordComplete(c, s) PROVE OrderInv'
  <2>1. CASE active = None
    BY <1>2, <1>4, <2>1 DEF RecordComplete
  <2>2. CASE active # None
    BY <1>4, <2>2 DEF RecordComplete, OrderInv, TypeOK
  <2>3. QED BY <2>1, <2>2
<1>5. QED
  BY <1>1, <1>2, <1>3, <1>4
     DEF Next, PutActive, ResumeThrows, RecordExit, RecordError, Crash, vars

(* Whatever overlaps, throws or dies: the stored trace holds steps that    *)
(* were executed, each once and in the order they were.                    *)
THEOREM TracesAreFaithful == Spec => []TraceIsFaithful
<1>1. Init => OrderInv
  BY EmptySeq DEF Init, OrderInv, Increasing
<1>2. TypeOK /\ OrderInv => TraceIsFaithful
  <2> SUFFICES ASSUME TypeOK, OrderInv PROVE TraceIsFaithful
    OBVIOUS
  <2>1. store.steps \in Seq(1 .. executed) /\ executed \in Nat
    BY DEF TypeOK, Trace, Executed
  <2>2. \A i \in DOMAIN store.steps : store.steps[i] \in 1 .. executed
    BY <2>1, ElementOfSeq, LenProperties
  <2>3. QED BY <2>1, <2>2 DEF OrderInv, TraceIsFaithful
<1>3. QED BY <1>1, <1>2, OrderInvNext, TypeCorrect, PTL DEF Spec

-----------------------------------------------------------------------------
(* Calls that take turns                                                   *)

(* At most one call is in progress, and once it runs the active builder is *)
(* its own.                                                                *)
TurnInv ==
  /\ \A c, d \in InProgress : c = d
  /\ \A c \in Calls : pc[c] \in {"running", "failing"} => active = c
  /\ active # None => active \in InProgress \/ pc[active] = "threw"

(* Every step keeps TurnInv when a call waits for the one before it.       *)
LEMMA TurnInvNext ==
  ASSUME OneAtATime, TypeOK, TurnInv, [Next]_vars
  PROVE  TurnInv'
<1> USE DEF InProgress, TurnInv
<1>0. pc \in [Calls -> PCs] /\ active \in Calls \union {None} /\ None \notin Calls
  BY RecordingAssumption DEF TypeOK
<1>1. ASSUME NEW c \in Calls, RecordStart(c) PROVE TurnInv'
  <2>1. \A d \in Calls : pc[d] \in {"new", "threw", "done"}
    BY <1>1 DEF RecordStart, Free
  <2>2. pc' = [pc EXCEPT ![c] = "starting"] /\ pc[c] = "new" /\ UNCHANGED active
    BY <1>1 DEF RecordStart, Goes
  <2>3. QED BY <1>0, <2>1, <2>2
<1>2. ASSUME NEW c \in Calls, PutActive(c) PROVE TurnInv'
  <2>1. /\ pc' = [pc EXCEPT ![c] = "running"] /\ pc[c] = "starting" /\ active' = c
    BY <1>2 DEF PutActive, Goes
  <2>2. QED BY <1>0, <2>1
<1>3. ASSUME NEW c \in Calls, ResumeThrows(c) PROVE TurnInv'
  <2>1. /\ pc' = [pc EXCEPT ![c] = "threw"] /\ pc[c] = "starting" /\ active' = c
    BY <1>3 DEF ResumeThrows, Goes
  <2>2. QED BY <1>0, <2>1
<1>4. ASSUME NEW c \in Calls, RecordExit(c) \/ RecordError(c) PROVE TurnInv'
  <2>1. /\ pc[c] = "running" /\ UNCHANGED active
        /\ UNCHANGED pc \/ pc' = [pc EXCEPT ![c] = "failing"]
    BY <1>4, AddStepEffect DEF RecordExit, RecordError, Goes
  <2>2. QED BY <1>0, <2>1
<1>5. ASSUME NEW c \in Calls, NEW s \in Final, RecordComplete(c, s) PROVE TurnInv'
  <2>1. /\ pc' = [pc EXCEPT ![c] = "done"] /\ pc[c] \in {"running", "failing"}
        /\ active' = None
    BY <1>5 DEF RecordComplete, Goes
  <2>2. QED BY <1>0, <2>1
<1>6. CASE Crash
  <2>1. /\ active' = None
        /\ pc' = [c \in Calls |-> IF c \in InProgress THEN "done" ELSE pc[c]]
    BY <1>6 DEF Crash
  <2>2. QED BY <1>0, <2>1
<1>7. CASE UNCHANGED vars
  BY <1>7 DEF vars
<1>8. QED BY <1>1, <1>2, <1>3, <1>4, <1>5, <1>6, <1>7 DEF Next

(* The beginning: no call is in progress.                                  *)
LEMMA TurnInvInit == Init => TurnInv
BY RecordingAssumption DEF Init, TurnInv, InProgress

(* Calls that take turns leave no builder behind, but the one of a resume  *)
(* that threw.                                                             *)
THEOREM BuildersGo ==
  ASSUME OneAtATime
  PROVE  Spec => []NoStaleBuilder
<1>1. TurnInv => NoStaleBuilder
  BY DEF TurnInv, NoStaleBuilder
<1>2. QED BY <1>1, TurnInvInit, TurnInvNext, TypeCorrect, PTL DEF Spec

(* The builder of the call in progress holds what is stored and more, and  *)
(* as long as nothing crashed every step.                                  *)
WholeInv ==
  /\ \A c \in InProgress :
       /\ Len(store.steps) <= Len(builder[c])
       /\ crashes = 0 => Len(builder[c]) = executed
       /\ crashes = 0 /\ pc[c] = "starting" => Len(store.steps) = executed
  /\ InProgress = {} /\ crashes = 0 => Len(store.steps) = executed

(* What a step of the call in progress does to the lengths.                *)
LEMMA AddStepLengths ==
  ASSUME TypeOK, AddStep, active # None
  PROVE  /\ Len(builder'[active]) = Len(builder[active]) + 1
         /\ store' = store \/ store'.steps = builder'[active]
<1>1. active \in Calls /\ builder[active] \in Seq(Executed) /\ executed \in Nat
  BY DEF TypeOK
<1>2. builder[active] \in Seq(1 .. executed + 1) /\ executed + 1 \in 1 .. executed + 1
  BY <1>1, LongerHistory DEF Executed
<1>3. Len(Append(builder[active], executed + 1)) = Len(builder[active]) + 1
  BY <1>2, AppendProperties
<1>4. QED BY <1>1, <1>3, AddStepEffect DEF TypeOK

(* What is built and stored has a length.                                  *)
LEMMA LengthTypes ==
  ASSUME TypeOK
  PROVE  /\ Len(store.steps) \in Nat /\ executed \in Nat /\ crashes \in Nat
         /\ \A c \in Calls : Len(builder[c]) \in Nat
<1>1. store.steps \in Seq(Executed) /\ \A c \in Calls : builder[c] \in Seq(Executed)
  BY DEF TypeOK, Trace
<1>2. QED BY <1>1, LenProperties DEF TypeOK

(* Every step keeps WholeInv when calls take turns.                        *)
LEMMA WholeInvNext ==
  ASSUME OneAtATime, TypeOK, TurnInv, WholeInv, [Next]_vars
  PROVE  WholeInv' /\ Len(store'.steps) >= Len(store.steps)
<1> DEFINE Whole == WholeInv' /\ Len(store'.steps) >= Len(store.steps)
<1> USE DEF InProgress, WholeInv
<1>0. /\ pc \in [Calls -> PCs] /\ builder \in [Calls -> Seq(Executed)]
      /\ Len(store.steps) \in Nat /\ executed \in Nat /\ crashes \in Nat
      /\ \A c \in Calls : Len(builder[c]) \in Nat
  BY LengthTypes DEF TypeOK
<1>1. ASSUME NEW c \in Calls, RecordStart(c) PROVE Whole
  <2>1. /\ \A d \in Calls : pc[d] \in {"new", "threw", "done"}
        /\ pc' = [pc EXCEPT ![c] = "starting"] /\ pc[c] = "new"
        /\ builder' = [builder EXCEPT ![c] = store.steps]
        /\ UNCHANGED <<store, executed, crashes>>
    BY <1>1 DEF RecordStart, Free, Goes
  <2>2. InProgress' = {c}
    BY <1>0, <2>1
  <2>3. builder'[c] = store.steps
    BY <1>0, <2>1
  <2>4. crashes = 0 => Len(store.steps) = executed
    BY <2>1
  <2>5. QED BY <1>0, <2>1, <2>2, <2>3, <2>4
<1>2. ASSUME NEW c \in Calls, PutActive(c) PROVE Whole
  <2>1. /\ pc' = [pc EXCEPT ![c] = "running"] /\ pc[c] = "starting"
        /\ UNCHANGED <<builder, store, executed, crashes>>
    BY <1>2 DEF PutActive, Goes
  <2>2. c \in InProgress /\ InProgress' = InProgress
    BY <1>0, <2>1
  <2>3. QED BY <1>0, <2>1, <2>2
<1>3. ASSUME NEW c \in Calls, ResumeThrows(c) PROVE Whole
  <2>1. /\ pc' = [pc EXCEPT ![c] = "threw"] /\ pc[c] = "starting"
        /\ UNCHANGED <<builder, store, executed, crashes>>
    BY <1>3 DEF ResumeThrows, Goes
  <2>2. c \in InProgress /\ InProgress' = {}
    BY <1>0, <2>1 DEF TurnInv
  <2>3. QED BY <1>0, <2>1, <2>2
<1>4. ASSUME NEW c \in Calls, RecordExit(c) \/ RecordError(c) PROVE Whole
  <2>1. /\ pc[c] = "running" /\ AddStep
        /\ UNCHANGED pc \/ pc' = [pc EXCEPT ![c] = "failing"]
    BY <1>4 DEF RecordExit, RecordError, Goes
  <2>2. InProgress = {c} /\ InProgress' = {c} /\ pc'[c] # "starting" /\ active = c
    BY <1>0, <2>1 DEF TurnInv
  <2>3. c # None
    BY RecordingAssumption
  <2>4. /\ Len(builder'[c]) = Len(builder[c]) + 1
        /\ store' = store \/ store'.steps = builder'[c]
        /\ executed' = executed + 1 /\ UNCHANGED crashes
    BY <2>1, <2>2, <2>3, AddStepLengths, AddStepEffect
  <2>5. Len(store.steps) <= Len(builder[c]) /\ (crashes = 0 => Len(builder[c]) = executed)
    BY <2>2
  <2>6. \A d \in InProgress' : d = c
    BY <2>2
  <2>7. Len(store'.steps) <= Len(builder'[c]) /\ Len(store'.steps) >= Len(store.steps)
    BY <1>0, <2>4, <2>5
  <2>8. QED BY <1>0, <2>2, <2>4, <2>5, <2>6, <2>7
<1>5. ASSUME NEW c \in Calls, NEW s \in Final, RecordComplete(c, s) PROVE Whole
  <2>1. /\ pc' = [pc EXCEPT ![c] = "done"] /\ pc[c] \in {"running", "failing"}
        /\ active = c /\ c # None
        /\ UNCHANGED <<builder, executed, crashes>>
    BY <1>5, RecordingAssumption DEF RecordComplete, Goes, TurnInv
  <2>2. store'.steps = builder[c]
    BY <1>5, <2>1 DEF RecordComplete
  <2>3. InProgress = {c} /\ InProgress' = {}
    BY <1>0, <2>1 DEF TurnInv
  <2>4. QED BY <1>0, <2>1, <2>2, <2>3
<1>6. CASE Crash
  <2>1. crashes' = crashes + 1 /\ UNCHANGED store
        /\ pc' = [c \in Calls |-> IF c \in InProgress THEN "done" ELSE pc[c]]
    BY <1>6 DEF Crash
  <2>2. InProgress' = {}
    BY <1>0, <2>1
  <2>3. QED BY <1>0, <2>1, <2>2
<1>7. CASE UNCHANGED vars
  BY <1>0, <1>7 DEF vars
<1>8. QED BY <1>1, <1>2, <1>3, <1>4, <1>5, <1>6, <1>7 DEF Next

(* Calls that take turns, however they flush, end and die, never take away *)
(* a stored step.                                                          *)
THEOREM TracesGrow ==
  ASSUME OneAtATime
  PROVE  Spec => TraceNeverShrinks
<1>1. Init => WholeInv
  BY EmptySeq DEF Init, WholeInv, InProgress
<1>2. QED
  BY <1>1, WholeInvNext, TurnInvInit, TurnInvNext, TypeCorrect, PTL
     DEF Spec, TraceNeverShrinks

(* Without crashes such calls lose no step at all.                         *)
THEOREM TracesAreWhole ==
  ASSUME OneAtATime
  PROVE  Spec => []TraceIsWhole
<1>1. Init => WholeInv
  BY EmptySeq DEF Init, WholeInv, InProgress
<1>2. WholeInv => TraceIsWhole
  BY DEF WholeInv, TraceIsWhole
<1>3. QED
  BY <1>1, <1>2, WholeInvNext, TurnInvInit, TurnInvNext, TypeCorrect, PTL DEF Spec

-----------------------------------------------------------------------------
(* What crashes cost                                                       *)

Cost == crashes * (FlushEverySteps - 1)

(* Each crash so far cost fewer than FlushEverySteps steps, and the call   *)
(* in progress has met no multiple of it since the last flush.             *)
LossInv ==
  /\ \A c \in InProgress :
       /\ executed - Len(builder[c]) <= Cost
       /\ \A k \in (Len(store.steps) + 1) .. Len(builder[c]) : k % FlushEverySteps # 0
       /\ pc[c] = "starting" => Len(builder[c]) = Len(store.steps)
  /\ InProgress = {} => executed - Len(store.steps) <= Cost

(* What the crashes so far and one more may cost.                          *)
LEMMA CostType ==
  ASSUME TypeOK, FlushEverySteps > 0
  PROVE  Cost \in Nat /\ (crashes + 1) * (FlushEverySteps - 1) = Cost + (FlushEverySteps - 1)
BY RecordingAssumption, SMT DEF TypeOK, Cost

(* The gap between a builder and the store.                                *)
LEMMA GapIsSmall ==
  ASSUME TypeOK, WholeInv, LossInv, FlushEverySteps > 0, NEW c \in InProgress
  PROVE  executed - Len(store.steps) <= Cost + (FlushEverySteps - 1)
<1> DEFINE n == Len(builder[c])
           m == Len(store.steps)
<1>1. c \in Calls /\ FlushEverySteps \in Nat \ {0}
  BY RecordingAssumption DEF InProgress
<1>2. m \in Nat /\ n \in Nat /\ executed \in Nat /\ Cost \in Nat
  BY <1>1, LengthTypes, CostType
<1>3. m <= n /\ executed - n <= Cost
  BY DEF WholeInv, LossInv
<1>4. \A k \in (m + 1) .. n : k % FlushEverySteps # 0
  BY DEF LossInv
<1> HIDE DEF m, n
<1>5. n - m <= FlushEverySteps - 1
  BY <1>1, <1>2, <1>3, <1>4, MultiplesAreClose
<1> HIDE DEF Cost
<1>6. executed - m <= Cost + (FlushEverySteps - 1)
  BY <1>1, <1>2, <1>3, <1>5
<1>7. QED BY <1>6 DEF m

(* Whether a step was flushed shows in its number.                         *)
LEMMA AddStepFlushes ==
  ASSUME TypeOK, AddStep, active # None, FlushEverySteps > 0
  PROVE  \/ store'.steps = builder'[active]
         \/ store' = store /\ Len(builder'[active]) % FlushEverySteps # 0
<1> DEFINE steps == Append(builder[active], executed + 1)
           flush == FlushEverySteps > 0 /\ Len(steps) % FlushEverySteps = 0
<1>1. /\ builder' = [builder EXCEPT ![active] = steps]
      /\ store' = IF flush THEN [status |-> "RUNNING", steps |-> steps] ELSE store
  BY DEF AddStep
<1>2. builder'[active] = steps
  BY <1>1 DEF TypeOK
<1> HIDE DEF steps
<1>3. CASE flush
  BY <1>1, <1>2, <1>3
<1>4. CASE ~flush
  BY <1>1, <1>2, <1>4
<1>5. QED BY <1>3, <1>4

(* Every step keeps LossInv when calls take turns.                         *)
LEMMA LossInvNext ==
  ASSUME OneAtATime, FlushEverySteps > 0,
         TypeOK, TurnInv, WholeInv, LossInv, [Next]_vars
  PROVE  LossInv'
<1> USE DEF InProgress
<1>0. /\ pc \in [Calls -> PCs] /\ builder \in [Calls -> Seq(Executed)]
      /\ Len(store.steps) \in Nat /\ executed \in Nat /\ crashes \in Nat
      /\ \A c \in Calls : Len(builder[c]) \in Nat
      /\ Cost \in Nat
  BY LengthTypes, CostType DEF TypeOK
<1>1. ASSUME NEW c \in Calls, RecordStart(c) PROVE LossInv'
  <2>1. /\ InProgress = {}
        /\ pc' = [pc EXCEPT ![c] = "starting"] /\ pc[c] = "new"
        /\ builder' = [builder EXCEPT ![c] = store.steps]
        /\ UNCHANGED <<store, executed, crashes>>
    BY <1>1 DEF RecordStart, Free, Goes
  <2>2. InProgress' = {c} /\ builder'[c] = store.steps /\ Cost' = Cost
    BY <1>0, <2>1 DEF Cost
  <2>3. executed - Len(store.steps) <= Cost
    BY <2>1 DEF LossInv
  <2>4. \A k \in (Len(store'.steps) + 1) .. Len(builder'[c]) : FALSE
    BY <1>0, <2>1, <2>2
  <2>5. \A d \in InProgress' : d = c
    BY <2>2
  <2>6. QED BY <2>1, <2>2, <2>3, <2>4, <2>5 DEF LossInv
<1>2. ASSUME NEW c \in Calls, PutActive(c) PROVE LossInv'
  <2>1. /\ pc' = [pc EXCEPT ![c] = "running"] /\ pc[c] = "starting"
        /\ UNCHANGED <<builder, store, executed, crashes>>
    BY <1>2 DEF PutActive, Goes
  <2>2. InProgress = {c} /\ InProgress' = {c} /\ pc'[c] # "starting" /\ Cost' = Cost
    BY <1>0, <2>1 DEF TurnInv, Cost
  <2>3. QED BY <2>1, <2>2 DEF LossInv
<1>3. ASSUME NEW c \in Calls, ResumeThrows(c) PROVE LossInv'
  <2>1. /\ pc' = [pc EXCEPT ![c] = "threw"] /\ pc[c] = "starting"
        /\ UNCHANGED <<builder, store, executed, crashes>>
    BY <1>3 DEF ResumeThrows, Goes
  <2>2. c \in InProgress /\ InProgress' = {} /\ Cost' = Cost
    BY <1>0, <2>1 DEF TurnInv, Cost
  <2>3. QED BY <2>1, <2>2 DEF LossInv
<1>4. ASSUME NEW c \in Calls, RecordExit(c) \/ RecordError(c) PROVE LossInv'
  <2>1. /\ pc[c] = "running" /\ AddStep
        /\ UNCHANGED pc \/ pc' = [pc EXCEPT ![c] = "failing"]
    BY <1>4 DEF RecordExit, RecordError, Goes
  <2>2. InProgress = {c} /\ InProgress' = {c} /\ pc'[c] # "starting" /\ active = c
    BY <1>0, <2>1 DEF TurnInv
  <2>3. c # None
    BY RecordingAssumption
  <2>4. /\ Len(builder'[c]) = Len(builder[c]) + 1
        /\ executed' = executed + 1 /\ Cost' = Cost
    BY <2>1, <2>2, <2>3, AddStepLengths, AddStepEffect DEF Cost
  <2>5. executed' - Len(builder'[c]) <= Cost'
    BY <1>0, <2>2, <2>4 DEF LossInv
  <2>6. \A k \in (Len(store'.steps) + 1) .. Len(builder'[c]) : k % FlushEverySteps # 0
    <3>1. CASE store'.steps = builder'[c]
      BY <1>0, <2>4, <3>1
    <3>2. CASE store' = store /\ Len(builder'[c]) % FlushEverySteps # 0
      <4>1. \A k \in (Len(store.steps) + 1) .. Len(builder[c]) : k % FlushEverySteps # 0
        BY <2>2 DEF LossInv
      <4>2. \A k \in (Len(store'.steps) + 1) .. Len(builder'[c]) :
              k = Len(builder'[c]) \/ k \in (Len(store.steps) + 1) .. Len(builder[c])
        BY <1>0, <2>4, <3>2
      <4>3. QED BY <3>2, <4>1, <4>2
    <3>3. QED BY <2>1, <2>2, <2>3, <3>1, <3>2, AddStepFlushes
  <2>7. \A d \in InProgress' : d = c
    BY <2>2
  <2>8. QED BY <2>2, <2>5, <2>6, <2>7 DEF LossInv
<1>5. ASSUME NEW c \in Calls, NEW s \in Final, RecordComplete(c, s) PROVE LossInv'
  <2>1. /\ pc' = [pc EXCEPT ![c] = "done"] /\ pc[c] \in {"running", "failing"}
        /\ active = c /\ c # None
        /\ UNCHANGED <<builder, executed, crashes>>
    BY <1>5, RecordingAssumption DEF RecordComplete, Goes, TurnInv
  <2>2. store'.steps = builder[c]
    BY <1>5, <2>1 DEF RecordComplete
  <2>3. InProgress = {c} /\ InProgress' = {} /\ Cost' = Cost
    BY <1>0, <2>1 DEF TurnInv, Cost
  <2>4. QED BY <2>1, <2>2, <2>3 DEF LossInv
<1>6. CASE Crash
  <2>1. /\ InProgress # {} /\ crashes' = crashes + 1 /\ UNCHANGED <<store, executed>>
        /\ pc' = [c \in Calls |-> IF c \in InProgress THEN "done" ELSE pc[c]]
    BY <1>6 DEF Crash
  <2>2. InProgress' = {}
    BY <1>0, <2>1
  <2>3. Cost' = Cost + (FlushEverySteps - 1)
    BY <2>1, CostType DEF Cost
  <2>4. executed - Len(store.steps) <= Cost + (FlushEverySteps - 1)
    BY <2>1, GapIsSmall
  <2>5. QED BY <2>1, <2>2, <2>3, <2>4 DEF LossInv
<1>7. CASE UNCHANGED vars
  BY <1>7 DEF vars, LossInv, Cost
<1>8. QED BY <1>1, <1>2, <1>3, <1>4, <1>5, <1>6, <1>7 DEF Next

(* "At most N" steps are lost to a crash when a trace is flushed every N   *)
(* steps: fewer, if calls take turns.                                      *)
THEOREM CrashesCostFew ==
  ASSUME OneAtATime
  PROVE  Spec => []CrashLosesFew
<1>1. CASE FlushEverySteps > 0
  <2>1. Init => WholeInv /\ LossInv
    BY <1>1, EmptySeq, RecordingAssumption
       DEF Init, WholeInv, LossInv, InProgress, Cost
  <2>2. TypeOK /\ TurnInv /\ WholeInv /\ LossInv => CrashLosesFew
    <3> SUFFICES ASSUME TypeOK, TurnInv, WholeInv, LossInv PROVE CrashLosesFew
      OBVIOUS
    <3>1. CASE InProgress = {}
      <4>1. Cardinality(InProgress) = 0 /\ crashes \in Nat
        BY <3>1, FS_EmptySet DEF TypeOK
      <4>2. executed - Len(store.steps) <= Cost
        BY <3>1 DEF LossInv
      <4>3. crashes + Cardinality(InProgress) = crashes
        BY <4>1
      <4>4. QED BY <4>2, <4>3 DEF CrashLosesFew, Cost
    <3>2. CASE InProgress # {}
      <4>1. PICK c \in InProgress : TRUE
        BY <3>2
      <4>2. InProgress = {c}
        BY <4>1 DEF TurnInv
      <4>3. Cardinality(InProgress) = 1
        BY <4>2, FS_Singleton
      <4>4. executed - Len(store.steps) <= Cost + (FlushEverySteps - 1)
        BY <1>1, <4>1, GapIsSmall
      <4>5. QED BY <1>1, <4>3, <4>4, CostType DEF CrashLosesFew
    <3>3. QED BY <3>1, <3>2
  <2>3. QED
    BY <1>1, <2>1, <2>2, LossInvNext, WholeInvNext, TurnInvInit, TurnInvNext,
       TypeCorrect, PTL DEF Spec
<1>2. CASE ~(FlushEverySteps > 0)
  <2>1. CrashLosesFew
    BY <1>2 DEF CrashLosesFew
  <2>2. QED BY <2>1, PTL
<1>3. QED BY <1>1, <1>2
=============================================================================
