--------------------------- MODULE TraceRecording ---------------------------
(***************************************************************************)
(* RecordingTraceRecorder and its TraceStore for one execution id that     *)
(* several calls run or resume: the builder that recordStart makes from    *)
(* the stored trace and puts in "active", the steps added to whichever     *)
(* builder is active, the periodic flush, and recordComplete.              *)
(***************************************************************************)
EXTENDS Integers, Sequences, FiniteSets

CONSTANTS
  Calls,           \* run and resume calls for the id
  None,            \* no call
  FlushEverySteps,
  OneAtATime,      \* do the calls for the id wait for one another?
  PredicatesThrow, \* may resume throw between recordStart and completing()?
  MaxSteps,        \* bound: steps of all calls together
  MaxCrashes       \* bound: crashes

ASSUME RecordingAssumption ==
  /\ None \notin Calls
  /\ FlushEverySteps \in Nat
  /\ OneAtATime \in BOOLEAN
  /\ PredicatesThrow \in BOOLEAN
  /\ MaxSteps \in Nat
  /\ MaxCrashes \in Nat

VARIABLES
  pc,        \* pc[c]: where call c is
  builder,   \* builder[c]: the steps in the builder that call c made
  active,    \* active.get(id): the call whose builder it is
  store,     \* TraceStore: the trace saved for the id
  executed,  \* history: steps executed; step k is the k-th of them
  crashes    \* history: crashes

vars == <<pc, builder, active, store, executed, crashes>>

PCs == {"new", "starting", "running", "failing", "threw", "done"}

(* To the recorder HALTED and TERMINATED are like COMPLETED.  A call halted *)
(* by the max-step guard has recorded an error, like one that FAILED.      *)
Final == {"COMPLETED", "INTERRUPTED", "FAILED"}
Executed == 1 .. executed
Trace == [status : Final \union {"RUNNING", "ABSENT"}, steps : Seq(Executed)]

TypeOK ==
  /\ pc \in [Calls -> PCs]
  /\ builder \in [Calls -> Seq(Executed)]
  /\ active \in Calls \union {None}
  /\ store \in Trace
  /\ executed \in Nat
  /\ crashes \in Nat

Init ==
  /\ pc = [c \in Calls |-> "new"]
  /\ builder = [c \in Calls |-> <<>>]
  /\ active = None
  /\ store = [status |-> "ABSENT", steps |-> <<>>]
  /\ executed = 0
  /\ crashes = 0

Goes(c, to) == pc' = [pc EXCEPT ![c] = to]

InProgress == {c \in Calls : pc[c] \notin {"new", "threw", "done"}}
Free == OneAtATime => InProgress = {}

-----------------------------------------------------------------------------
(* Wrong: the builder starts empty.                                        *)
RecordStartFresh(c) ==
  /\ pc[c] = "new"
  /\ Free
  /\ builder' = [builder EXCEPT ![c] = <<>>]
  /\ Goes(c, "starting")
  /\ UNCHANGED <<active, store, executed, crashes>>

(* recordStart: a new builder takes the steps of the stored trace ...      *)
RecordStart(c) ==
  /\ pc[c] = "new"
  /\ Free
  /\ builder' = [builder EXCEPT ![c] = store.steps]
  /\ Goes(c, "starting")
  /\ UNCHANGED <<active, store, executed, crashes>>

(* ... and replaces whatever builder is active.                            *)
PutActive(c) ==
  /\ pc[c] = "starting"
  /\ active' = c
  /\ Goes(c, "running")
  /\ UNCHANGED <<builder, store, executed, crashes>>

(* A predicate throws when resume picks the node to go on with, after      *)
(* recordStart and outside completing().                                   *)
ResumeThrows(c) ==
  /\ PredicatesThrow
  /\ executed > 0
  /\ pc[c] = "starting"
  /\ active' = c
  /\ Goes(c, "threw")
  /\ UNCHANGED <<builder, store, executed, crashes>>

(* Wrong: a flush empties the builder.                                     *)
AddStepEmpties ==
  /\ executed < MaxSteps
  /\ executed' = executed + 1
  /\ IF active = None
     THEN UNCHANGED <<builder, store>>
     ELSE LET steps == Append(builder[active], executed + 1)
              flush == FlushEverySteps > 0 /\ Len(steps) % FlushEverySteps = 0
          IN  /\ builder' = [builder EXCEPT ![active] = IF flush THEN <<>> ELSE steps]
              /\ store' = IF flush THEN [status |-> "RUNNING", steps |-> steps]
                                   ELSE store
  /\ UNCHANGED <<active, crashes>>

(* Wrong: a flush appends the snapshot to what is stored.                  *)
AddStepAppends ==
  /\ executed < MaxSteps
  /\ executed' = executed + 1
  /\ IF active = None
     THEN UNCHANGED <<builder, store>>
     ELSE LET steps == Append(builder[active], executed + 1)
              flush == FlushEverySteps > 0 /\ Len(steps) % FlushEverySteps = 0
          IN  /\ builder' = [builder EXCEPT ![active] = steps]
              /\ store' = IF flush THEN [status |-> "RUNNING", steps |-> store.steps \o steps]
                                   ELSE store
  /\ UNCHANGED <<active, crashes>>

(* Wrong: a flush every N + 1 steps.                                       *)
AddStepFlushLate ==
  /\ executed < MaxSteps
  /\ executed' = executed + 1
  /\ IF active = None
     THEN UNCHANGED <<builder, store>>
     ELSE LET steps == Append(builder[active], executed + 1)
              flush == FlushEverySteps > 0 /\ Len(steps) % (FlushEverySteps + 1) = 0
          IN  /\ builder' = [builder EXCEPT ![active] = steps]
              /\ store' = IF flush THEN [status |-> "RUNNING", steps |-> steps]
                                   ELSE store
  /\ UNCHANGED <<active, crashes>>

(* The next step goes into the active builder, if there is one; every      *)
(* FlushEverySteps steps of it the trace is saved.                         *)
AddStep ==
  /\ executed < MaxSteps
  /\ executed' = executed + 1
  /\ IF active = None
     THEN UNCHANGED <<builder, store>>
     ELSE LET steps  == Append(builder[active], executed + 1)
              flush  == FlushEverySteps > 0 /\ Len(steps) % FlushEverySteps = 0
          IN  /\ builder' = [builder EXCEPT ![active] = steps]
              /\ store' = IF flush THEN [status |-> "RUNNING", steps |-> steps]
                                   ELSE store
  /\ UNCHANGED <<active, crashes>>

RecordExit(c) ==
  /\ pc[c] = "running"
  /\ AddStep
  /\ UNCHANGED pc

RecordError(c) ==
  /\ pc[c] = "running"
  /\ AddStep
  /\ Goes(c, "failing")

(* Wrong: get where remove is meant.                                       *)
RecordCompleteKeeps(c, status) ==
  /\ pc[c] = "running" \/ (pc[c] = "failing" /\ status = "FAILED")
  /\ store' = IF active = None THEN store
              ELSE [status |-> status, steps |-> builder[active]]
  /\ Goes(c, "done")
  /\ UNCHANGED <<active, builder, executed, crashes>>

(* recordComplete takes the active builder away and saves what it holds.   *)
(* A call that throws is recorded as FAILED too.                           *)
RecordComplete(c, status) ==
  /\ pc[c] = "running" \/ (pc[c] = "failing" /\ status = "FAILED")
  /\ active' = None
  /\ store' = IF active = None THEN store
              ELSE [status |-> status, steps |-> builder[active]]
  /\ Goes(c, "done")
  /\ UNCHANGED <<builder, executed, crashes>>

(* The process dies with the builders of its calls.                        *)
Crash ==
  /\ crashes < MaxCrashes
  /\ InProgress # {}
  /\ crashes' = crashes + 1
  /\ active' = None
  /\ pc' = [c \in Calls |-> IF c \in InProgress THEN "done" ELSE pc[c]]
  /\ UNCHANGED <<builder, store, executed>>

Next == \/ \E c \in Calls :
              \/ RecordStart(c) \/ PutActive(c)
              \/ RecordExit(c) \/ RecordError(c)
              \/ \E status \in Final : RecordComplete(c, status)
              \/ ResumeThrows(c)
        \/ Crash

Spec == Init /\ [][Next]_vars

-----------------------------------------------------------------------------
(* Properties                                                              *)

Increasing(s) == \A i, j \in DOMAIN s : i < j => s[i] < s[j]

(* The stored trace holds steps that were executed, each once and in the   *)
(* order they were, however often the calls for an id flush, end, throw or *)
(* die and are followed by others.                                         *)
TraceIsFaithful ==
  /\ Increasing(store.steps)
  /\ \A i \in DOMAIN store.steps : store.steps[i] <= executed

(* With a flush every N steps a crash costs an id whose calls take turns   *)
(* fewer than N steps: the constructor promises "at most N".               *)
CrashLosesFew ==
  FlushEverySteps > 0 =>
    executed - Len(store.steps)
      <= (crashes + Cardinality(InProgress)) * (FlushEverySteps - 1)

(* The stored trace only grows: what a call saves starts with what the     *)
(* calls before it saved.                                                  *)
TraceNeverShrinks == [][Len(store'.steps) >= Len(store.steps)]_vars

(* No builder outlives its call, to be kept for ever or to collect the      *)
(* steps of a later call, unless that call threw before it could complete  *)
(* its trace; and a call in progress always has a builder to record into.  *)
NoStaleBuilder ==
  /\ active # None => active \in InProgress \/ pc[active] = "threw"
  /\ \A c \in Calls : pc[c] \in {"running", "failing"} => active = c

(* When no call is in progress and none has crashed, the trace has every   *)
(* step.  tracegraph-core/README.md says so of concurrent calls too: "run" *)
(* and "resume" need no synchronization.                                   *)
TraceIsWhole == InProgress = {} /\ crashes = 0 => Len(store.steps) = executed
=============================================================================
