--------------------------- MODULE GraphExecutor ----------------------------
(***************************************************************************)
(* One execution id of a TraceGraph graph: Executor.run, runFrom and the   *)
(* two resume methods, the executor loop with its retries, interrupts,     *)
(* GoTo routing and SendAll fan-out, the checkpoint it writes after every  *)
(* node, and the bookends of the execution's trace.  The process may crash *)
(* between any two steps and callbacks may throw.  What a fan-out and a    *)
(* parallel node do inside is the subject of the module FanOut.            *)
(***************************************************************************)
EXTENDS GraphEdges, FiniteSets

CONSTANTS
  StartNodes,        \* where run (Entry) and runFrom start executions
  InterruptBefore,   \* Builder.interruptBefore
  InterruptAfter,    \* Builder.interruptAfter
  MaxSteps,          \* Builder.maxSteps
  MaxAttempts,       \* MaxAttempts[n]: RetryPolicy.maxAttempts of node n
  Outputs,           \* Outputs[n]: the values node n can leave in the state
  Results,           \* Results[n]: the NodeResults node n can return
  ResumeOn,          \* the outcomes after which the operator resumes
  Edits,             \* does the operator resume with a state of their own?
  Careful,           \* does the operator resume only where nothing is lost?
  StoreKeepsPending, \* does CheckpointStore.latest return interruptPending?
  PredicatesThrow,   \* may an edge predicate throw?
  MaxFaults,         \* bound: what the environment does to a run (below)
  MaxWalk            \* bound: longest walk that is resumed once more

Statuses == {"COMPLETED", "HALTED", "INTERRUPTED", "TERMINATED", "FAILED",
             "THREW",    \* run or resume threw instead of returning
             "CRASHED"}  \* the process died during the call

ASSUME ExecutorAssumption ==
  /\ StartNodes \subseteq Nodes
  /\ InterruptBefore \subseteq Nodes
  /\ InterruptAfter \subseteq Nodes
  /\ MaxSteps \in Nat
  /\ MaxAttempts \in [Nodes -> Nat \ {0}]
  /\ Outputs \in [Nodes -> SUBSET Vals]
  /\ Results \in [Nodes -> SUBSET NodeResult]
  /\ ResumeOn \subseteq Statuses
  /\ Edits \in BOOLEAN
  /\ Careful \in BOOLEAN
  /\ StoreKeepsPending \in BOOLEAN
  /\ PredicatesThrow \in BOOLEAN
  /\ MaxFaults \in Nat
  /\ MaxWalk \in Nat

VARIABLES
  pc,          \* where the calling thread is (PCs below)
  current,     \* loop: the node being run
  state,       \* loop: the state, and the walk that made it
  path,        \* loop: the nodes of this call
  steps,       \* loop: the max-step guard's counter
  gateOpen,    \* loop: firstNode && skipFirstInterruptBefore
  attempt,     \* invokeWithRetry: the attempt
  status,      \* how the last call ended
  checkpoint,  \* CheckpointStore: the row of this execution id
  tracing,     \* recordStart was called and recordComplete was not yet
  origin,      \* history: the node the execution was started at
  faults       \* history: crashes, failures and exceptions so far

loopVars == <<current, state, path, steps, gateOpen, attempt>>
vars == <<pc, loopVars, status, checkpoint, tracing, origin, faults>>

PCs == {"idle", "top", "invoke", "backoff", "exited", "saved",
        "fanOut", "route", "stopped"}

(* The state of a run: what predicates see, and the walk whose effects it  *)
(* contains (a history that goes wherever the state goes).                 *)
RunState == [val : Vals, walk : Seq(Step)]
Seed(v)  == [val |-> v, walk |-> <<>>]
Extend(s, step) == [val |-> step.val, walk |-> Append(s.walk, step)]
NoState  == Seed(CHOOSE v \in Vals : TRUE)

(* A Checkpoint, and the gate it was saved in front of: a history that the *)
(* store does not keep and no action reads.                                *)
Checkpoint == [last    : Nodes \union {NoNode},
               state   : RunState,
               pending : BOOLEAN,
               gate    : Nodes \union {NoNode}]

SavedAfter(n, s) == [last |-> n, state |-> s, pending |-> FALSE, gate |-> NoNode]

SavedBefore(gated, n, s) ==
  [last |-> n, state |-> s, pending |-> TRUE, gate |-> gated]

NoCheckpoint == SavedAfter(NoNode, NoState)

(* CheckpointStore.latest.  JdbcCheckpointStore has no column for           *)
(* interruptPending, InMemoryCheckpointStore keeps the whole record.       *)
Latest == IF StoreKeepsPending THEN checkpoint
                               ELSE [checkpoint EXCEPT !.pending = FALSE]

TypeOK ==
  /\ pc \in PCs
  /\ current \in Nodes \union {NoNode}
  /\ pc \notin {"idle", "stopped"} => current \in Nodes
  /\ state \in RunState
  /\ path \in Seq(Nodes)
  /\ steps \in Nat
  /\ gateOpen \in BOOLEAN
  /\ attempt \in Nat
  /\ status \in Statuses \union {"NONE"}
  /\ checkpoint \in Checkpoint
  /\ tracing \in BOOLEAN
  /\ origin \in Nodes \union {NoNode}
  /\ faults \in Nat

-----------------------------------------------------------------------------
(* The environment's budget: each crash, failed node, exception of a        *)
(* callback or predicate and each termination signal uses one of MaxFaults. *)
(* A failed attempt that is retried is free: the policy alone bounds those. *)
Fault == faults < MaxFaults /\ faults' = faults + 1

(* The loop returns an ExecutionResult, and the entry point completes the  *)
(* trace.                                                                  *)
Return(s) ==
  /\ pc' = "stopped"
  /\ status' = s
  /\ tracing' = FALSE

(* Wrong: the exception is rethrown without recordComplete.                *)
ThrowUnrecorded == pc' = "stopped" /\ status' = "THREW" /\ UNCHANGED tracing

(* An exception leaves the loop: completing() records FAILED and rethrows. *)
Throw == Return("THREW")

(* Enter the loop at node n with state s; open is skipFirstInterruptBefore. *)
StartLoop(n, s, open) ==
  /\ pc' = "top"
  /\ current' = n
  /\ state' = s
  /\ path' = <<>>
  /\ steps' = 0
  /\ gateOpen' = open
  /\ attempt' = 0
  /\ tracing' = TRUE

Init ==
  /\ pc = "idle"
  /\ current = NoNode
  /\ state = NoState
  /\ path = <<>>
  /\ steps = 0
  /\ gateOpen = FALSE
  /\ attempt = 0
  /\ status = "NONE"
  /\ checkpoint = NoCheckpoint
  /\ tracing = FALSE
  /\ origin = NoNode
  /\ faults = 0

(* run (n = Entry) and runFrom.  An id whose run died before its first      *)
(* checkpoint has nothing to resume and may be run again.  The code takes  *)
(* an id that has a checkpoint too; the caller modelled here gives a fresh *)
(* one and resumes the others.                                             *)
Run(n, v) ==
  /\ pc \in {"idle", "stopped"}
  /\ checkpoint = NoCheckpoint
  /\ StartLoop(n, Seed(v), FALSE)
  /\ origin' = n
  /\ UNCHANGED <<status, checkpoint, faults>>

(* Wrong: no case for an interrupt before the first node of a call.        *)
ResumeTargetNoEntry(cp, s) ==
  IF ~cp.pending /\ cp.last \in Terminals THEN NoNode ELSE PickNext(cp.last, s.val)

(* The node a resume runs first; NoNode when there is nothing left to run. *)
ResumeTarget(cp, s) ==
  CASE ~cp.pending /\ cp.last \in Terminals -> NoNode
    [] cp.pending /\ cp.last = NoNode -> Entry
    [] OTHER -> PickNext(cp.last, s.val)

(* Wrong: the interrupt that was pending is not skipped.                   *)
ResumeWithGateShut(s) ==
  LET n == ResumeTarget(Latest, s)
  IN  IF n = NoNode
      THEN Return("COMPLETED") /\ state' = s /\ path' = <<>>
           /\ UNCHANGED <<current, steps, gateOpen, attempt>>
      ELSE StartLoop(n, s, FALSE) /\ UNCHANGED status

(* resume(id) with s the saved state, resume(id, override) with s another. *)
ResumeWith(s) ==
  LET cp == Latest
      n  == ResumeTarget(cp, s)
  IN  IF n = NoNode
      THEN /\ Return("COMPLETED")
           /\ state' = s
           /\ path' = <<>>
           /\ UNCHANGED <<current, steps, gateOpen, attempt>>
      ELSE StartLoop(n, s, cp.pending) /\ UNCHANGED status

(* A resume with state s takes the walk up where the checkpoint leaves it:  *)
(* the last node left the choice to the edges, a gate in front of the next *)
(* node is the one that is pending, and an execution stopped before its    *)
(* first node began at the entry.                                          *)
NothingLost(s) ==
  /\ LET walk == checkpoint.state.walk
     IN  walk # <<>> => walk[Len(walk)].then = ToEdges
  /\ ResumeTarget(Latest, s) \in InterruptBefore => Latest.pending
  /\ checkpoint.last = NoNode => origin = Entry

MayResume(s) ==
  /\ pc = "stopped"
  /\ status \in ResumeOn
  /\ checkpoint # NoCheckpoint
  /\ Len(checkpoint.state.walk) < MaxWalk
  /\ Careful => NothingLost(s)

Resume ==
  /\ MayResume(checkpoint.state)
  /\ ResumeWith(checkpoint.state)
  /\ UNCHANGED <<checkpoint, origin, faults>>

ResumeEdited(v) ==
  LET edited == Extend(checkpoint.state, Edit(checkpoint.last, v))
  IN  /\ Edits
      /\ MayResume(edited)
      /\ ResumeWith(edited)
      /\ UNCHANGED <<checkpoint, origin, faults>>

(* Both resume methods select the next node outside completing(): when a   *)
(* predicate throws there, recordStart has no recordComplete.              *)
ResumeThrows ==
  /\ MayResume(checkpoint.state)
  /\ PredicatesThrow
  /\ Fault
  /\ pc' = "stopped"
  /\ status' = "THREW"
  /\ tracing' = TRUE
  /\ UNCHANGED <<loopVars, checkpoint, origin>>

-----------------------------------------------------------------------------
(* The head of the loop.                                                   *)

(* Wrong: the guard compares with <= what the loop compares with <.        *)
StepsLeftLate == steps <= MaxSteps

StepsLeft == steps < MaxSteps
Gated     == current \in InterruptBefore /\ ~gateOpen

Halt ==
  /\ pc = "top"
  /\ ~StepsLeft
  /\ Return("HALTED")
  /\ UNCHANGED <<loopVars, checkpoint, origin, faults>>

(* Wrong: the pending checkpoint names the node that has not run.          *)
StopBeforeAtGate ==
  /\ pc = "top"
  /\ StepsLeft
  /\ Gated
  /\ checkpoint' = SavedBefore(current, current, state)
  /\ Return("INTERRUPTED")
  /\ UNCHANGED <<loopVars, origin, faults>>

(* The pending checkpoint names the node before in this call's path.        *)
StopBefore ==
  /\ pc = "top"
  /\ StepsLeft
  /\ Gated
  /\ checkpoint' = SavedBefore(current,
                               IF path = <<>> THEN NoNode ELSE path[Len(path)],
                               state)
  /\ Return("INTERRUPTED")
  /\ UNCHANGED <<loopVars, origin, faults>>

(* Wrong: firstNode is never reset.                                        *)
EnterLeavesGateOpen ==
  /\ pc = "top"
  /\ StepsLeft
  /\ ~Gated
  /\ pc' = "invoke"
  /\ steps' = steps + 1
  /\ path' = Append(path, current)
  /\ attempt' = 1
  /\ UNCHANGED <<current, state, gateOpen, status, checkpoint, tracing, origin, faults>>

Enter ==
  /\ pc = "top"
  /\ StepsLeft
  /\ ~Gated
  /\ pc' = "invoke"
  /\ steps' = steps + 1
  /\ path' = Append(path, current)
  /\ gateOpen' = FALSE
  /\ attempt' = 1
  /\ UNCHANGED <<current, state, status, checkpoint, tracing, origin, faults>>

-----------------------------------------------------------------------------
(* invokeWithRetry and its two siblings.  A subgraph's attempt succeeds    *)
(* when the inner run COMPLETED and fails with every other status.         *)

AttemptSucceeds ==
  /\ pc = "invoke"
  /\ \E v \in Outputs[current], r \in Results[current] :
        state' = Extend(state, Exit(current, v, r))
  /\ pc' = "exited"
  /\ UNCHANGED <<current, path, steps, gateOpen, attempt,
                 status, checkpoint, tracing, origin, faults>>

(* shouldRetry accepts the exception: onRetry, then the backoff sleep.     *)
AttemptRetried ==
  /\ pc = "invoke"
  /\ attempt < MaxAttempts[current]
  /\ pc' = "backoff"
  /\ UNCHANGED <<loopVars, status, checkpoint, tracing, origin, faults>>

(* The attempts are used up, or the exception is an Error, an              *)
(* InterruptedException or one retryOn rejects.                            *)
AttemptFails ==
  /\ pc = "invoke"
  /\ Fault
  /\ Return("FAILED")
  /\ UNCHANGED <<loopVars, checkpoint, origin>>

(* Wrong: the attempt is not counted.                                      *)
BackoffEndsUncounted ==
  /\ pc = "backoff"
  /\ pc' = "invoke"
  /\ UNCHANGED <<loopVars, status, checkpoint, tracing, origin, faults>>

BackoffEnds ==
  /\ pc = "backoff"
  /\ pc' = "invoke"
  /\ attempt' = attempt + 1
  /\ UNCHANGED <<current, state, path, steps, gateOpen,
                 status, checkpoint, tracing, origin, faults>>

BackoffInterrupted ==
  /\ pc = "backoff"
  /\ Fault
  /\ Return("FAILED")
  /\ UNCHANGED <<loopVars, checkpoint, origin>>

-----------------------------------------------------------------------------
(* After a node: the checkpoint, onExit, and the choice of the next node.  *)

(* Wrong: every other node is checkpointed.                                *)
SaveEveryOther ==
  /\ pc = "exited"
  /\ checkpoint' = IF steps % 2 = 0 THEN checkpoint
                   ELSE SavedAfter(current, state)
  /\ pc' = "saved"
  /\ UNCHANGED <<loopVars, status, tracing, origin, faults>>

Save ==
  /\ pc = "exited"
  /\ checkpoint' = SavedAfter(current, state)
  /\ pc' = "saved"
  /\ UNCHANGED <<loopVars, status, tracing, origin, faults>>

(* onExit throws a TerminationSignalException (Listeners, TerminationListener, *)
(* the budget listeners).                                                  *)
Terminate ==
  /\ pc = "saved"
  /\ Fault
  /\ Return("TERMINATED")
  /\ UNCHANGED <<loopVars, checkpoint, origin>>

LastStep == state.walk[Len(state.walk)]

(* interruptAfter is looked at before the terminals.                       *)
StopAfter ==
  /\ pc = "saved"
  /\ current \in InterruptAfter
  /\ Return("INTERRUPTED")
  /\ UNCHANGED <<loopVars, checkpoint, origin, faults>>

(* A terminal ends the run, whatever its node asked for.                   *)
Complete ==
  /\ pc = "saved"
  /\ current \in Terminals \ InterruptAfter
  /\ Return("COMPLETED")
  /\ UNCHANGED <<loopVars, checkpoint, origin, faults>>

Leave ==
  /\ pc = "saved"
  /\ current \notin Terminals \union InterruptAfter
  /\ pc' = IF LastStep.then = ToSends THEN "fanOut" ELSE "route"
  /\ UNCHANGED <<loopVars, status, checkpoint, tracing, origin, faults>>

(* Wrong: the merged state is dropped.                                     *)
FanOutForgets ==
  /\ pc = "fanOut"
  /\ pc' = "route"
  /\ UNCHANGED <<loopVars, status, checkpoint, tracing, origin, faults>>

(* executeSendAll returns the merger's state; nothing is saved.            *)
FanOut ==
  /\ pc = "fanOut"
  /\ \E v \in Outputs[current] : state' = Extend(state, Merge(current, v))
  /\ pc' = "route"
  /\ UNCHANGED <<current, path, steps, gateOpen, attempt,
                 status, checkpoint, tracing, origin, faults>>

FanOutFails ==
  /\ pc = "fanOut"
  /\ Fault
  /\ Return("FAILED")
  /\ UNCHANGED <<loopVars, checkpoint, origin>>

AskedFor == LastStep.then.kind = "goto"

Target == IF AskedFor THEN LastStep.then.to ELSE PickNext(current, state.val)

(* Wrong: the next node is not looked at.                                  *)
RouteAnyway ==
  /\ pc = "route"
  /\ pc' = "top"
  /\ current' = Target
  /\ UNCHANGED <<state, path, steps, gateOpen, attempt,
                 status, checkpoint, tracing, origin, faults>>

Route ==
  /\ pc = "route"
  /\ Target \in Nodes
  /\ pc' = "top"
  /\ current' = Target
  /\ UNCHANGED <<state, path, steps, gateOpen, attempt,
                 status, checkpoint, tracing, origin, faults>>

(* GoTo a name that is not declared.                                       *)
UnknownTarget ==
  /\ pc = "route"
  /\ AskedFor
  /\ Target \notin Nodes
  /\ Return("FAILED")
  /\ UNCHANGED <<loopVars, checkpoint, origin, faults>>

NoEdge ==
  /\ pc = "route"
  /\ ~AskedFor
  /\ Target \notin Nodes
  /\ Return("COMPLETED")
  /\ UNCHANGED <<loopVars, checkpoint, origin, faults>>

(* A listener, the recorder, the store or an edge predicate throws:        *)
(* CheckpointStore.save or recordError at "top"; onEnter, onRetry or onError *)
(* at "invoke"; onState or save at "exited"; onExit at "saved"; onError at  *)
(* "fanOut"; a predicate, or onError for an unknown target, at "route".     *)
CallbackThrows ==
  /\ \/ pc \in {"invoke", "exited", "saved", "fanOut"}
     \/ pc = "top" /\ (Gated \/ ~StepsLeft)
     \/ pc = "route" /\ IF AskedFor THEN Target \notin Nodes ELSE PredicatesThrow
  /\ Fault
  /\ Throw
  /\ UNCHANGED <<loopVars, checkpoint, origin>>

(* The process dies; what was not checkpointed is gone.                    *)
Crash ==
  /\ pc \notin {"idle", "stopped"}
  /\ Fault
  /\ pc' = "stopped"
  /\ status' = "CRASHED"
  /\ tracing' = FALSE
  /\ current' = NoNode
  /\ state' = NoState
  /\ path' = <<>>
  /\ steps' = 0
  /\ gateOpen' = FALSE
  /\ attempt' = 0
  /\ UNCHANGED <<checkpoint, origin>>

-----------------------------------------------------------------------------
Call == \/ \E n \in StartNodes, v \in Vals : Run(n, v)
        \/ Resume
        \/ \E v \in Vals : ResumeEdited(v)
        \/ ResumeThrows

Proceed == \/ Halt \/ StopBefore \/ Enter
           \/ AttemptSucceeds \/ AttemptRetried \/ AttemptFails
           \/ BackoffEnds \/ BackoffInterrupted
           \/ Save \/ Terminate \/ StopAfter \/ Complete \/ Leave
           \/ FanOut \/ FanOutFails
           \/ Route \/ UnknownTarget \/ NoEdge
           \/ CallbackThrows

Next == Call \/ Proceed \/ Crash

Spec == Init /\ [][Next]_vars

(* The operator's way of going on after a call that did not complete.      *)
Recover == Resume \/ (pc = "stopped" /\ \E v \in Vals : Run(origin, v))

(* The calling thread keeps running and node functions return; an operator *)
(* who recovers does so again and again.  First calls are never forced.    *)
FairSpec == Spec /\ WF_vars(Proceed) /\ WF_vars(Recover)

-----------------------------------------------------------------------------
(* Properties                                                              *)

(* The state in memory and the state in the store are always the outcome   *)
(* of a legal walk of the graph from the node the execution began at: a    *)
(* resume "skips completed nodes, and continues forward".                  *)
ResumeContinuesForward ==
  /\ LegalWalk(state.walk, origin)
  /\ LegalWalk(checkpoint.state.walk, origin)

(* Save, StopBefore, Resume: seen through its checkpoint, an execution     *)
(* implements DurableWalk.                                                 *)
Durable == INSTANCE DurableWalk WITH walk <- checkpoint.state.walk
DurableSpec == Durable!Spec

(* Checkpoints are written after node exit and before edge resolution: the *)
(* store holds the walk in memory but for its last steps, and of the nodes *)
(* this run or an earlier one has completed it lacks none, or, between an  *)
(* exit and its Save, that one: a crash loses one node at most.            *)
CrashLosesOneNode ==
  pc \notin {"idle", "stopped"} =>
    LET saved   == checkpoint.state.walk
        unsaved == (Len(saved) + 1)..Len(state.walk)
    IN  /\ Len(saved) <= Len(state.walk)
        /\ \A i \in 1..Len(saved) : state.walk[i] = saved[i]
        /\ {i \in unsaved : state.walk[i].kind = "exit"} =
              IF pc = "exited" THEN {Len(state.walk)} ELSE {}

(* run and resume answer COMPLETED only when the walk is at its end: in a  *)
(* terminal, or where no edge accepts the state.                           *)
CompletedMeansFinished ==
  pc = "stopped" /\ status = "COMPLETED" => Finished(state.walk, origin)

(* The max-step guard: no call runs more than MaxSteps nodes, and a call   *)
(* is HALTED only when it ran that many.                                   *)
StepGuard ==
  /\ Len(path) <= MaxSteps
  /\ pc = "stopped" /\ status = "HALTED" => Len(path) = MaxSteps

(* No node is attempted more often than its retry policy allows, nor       *)
(* backed off for after its last attempt.                                  *)
AttemptsWithinPolicy ==
  /\ pc = "invoke" => attempt \in 1..MaxAttempts[current]
  /\ pc = "backoff" => attempt < MaxAttempts[current]

(* completing(): however a call ends, its trace is completed.              *)
TraceClosed == pc = "stopped" => ~tracing

(* interruptBefore: a gated node is entered only when an interrupt is      *)
(* pending in the latest checkpoint, that is, when the operator was asked  *)
(* and no node has been completed since; and, unless the operator has put  *)
(* a state of their own in place, it is the node they were asked about.    *)
GateHolds ==
  [][pc = "top" /\ pc' = "invoke" /\ current \in InterruptBefore
       => /\ checkpoint.pending
          /\ state = checkpoint.state => checkpoint.gate = current]_vars

(* Resuming an execution that stopped before a node runs that node, with   *)
(* its gate open.                                                          *)
ResumeRunsGatedNode ==
  [][Resume /\ status = "INTERRUPTED" /\ checkpoint.pending
       => pc' = "top" /\ current' = current /\ gateOpen']_vars

(* What a call still has before it: nodes, then stages of the node it is   *)
(* at, then attempts and backoffs.                                         *)
InCall == pc \notin {"idle", "stopped"}

StepsToGo == MaxSteps - steps

StagesToGo ==
  CASE pc \in {"invoke", "backoff"} -> 5
    [] pc = "exited" -> 4
    [] pc = "saved"  -> 3
    [] pc = "fanOut" -> 2
    [] pc = "route"  -> 1
    [] OTHER         -> 0

AttemptsToGo == 2 * (MaxAttempts[current] - attempt) + IF pc = "invoke" THEN 1 ELSE 0

Below(m, n) == m \in Nat /\ n \in Nat /\ m < n

(* A step of a call comes nearer to its end, in the lexicographic order of *)
(* three numbers that are never negative.                                  *)
ComesNearer ==
  \/ Below(StepsToGo', StepsToGo)
  \/ StepsToGo' = StepsToGo /\ Below(StagesToGo', StagesToGo)
  \/ /\ StepsToGo' = StepsToGo /\ StagesToGo' = StagesToGo
     /\ Below(AttemptsToGo', AttemptsToGo)

(* The max-step guard and the retry policies bound a call, also one that   *)
(* goes round a cycle of the graph: each of its steps uses up what they    *)
(* leave it, until one ends it.                                            *)
CallsAreBounded == [][InCall /\ InCall' => ComesNearer]_vars

(* Every call returns or throws, also where the graph has a cycle and a    *)
(* node that fails is attempted again.                                     *)
CallsReturn == InCall ~> pc = "stopped"

(* An execution that is recovered whenever it stops early completes.       *)
EventuallyCompletes == pc # "idle" ~> pc = "stopped" /\ status = "COMPLETED"
=============================================================================
