------------------------ MODULE GraphExecutor_proofs ------------------------
(***************************************************************************)
(* Proofs about GraphExecutor, for every graph, policy and bound the       *)
(* assumptions of GraphEdges and GraphExecutor allow.                      *)
(*                                                                         *)
(* In three parts: the loop's types and bounds, when resuming is sound,    *)
(* and what a call's end means.                                            *)
(***************************************************************************)
EXTENDS GraphExecutor, SequenceTheorems, WellFoundedInduction, TLAPS

-----------------------------------------------------------------------------
(* pickNext                                                                *)

(* Every non-empty set of naturals has a least element.                    *)
LEMMA LeastElement ==
  ASSUME NEW S \in SUBSET Nat, S # {}
  PROVE  \E m \in S : \A k \in S : m <= k
<1>1. PICK m \in S : \A k \in S : ~ (<<k, m>> \in OpToRel(<, Nat))
  BY NatLessThanWellFounded, WFMin
<1>2. ASSUME NEW k \in S PROVE m <= k
  <2>1. k \in Nat /\ m \in Nat
    OBVIOUS
  <2>2. <<k, m>> \in Nat \X Nat
    BY <2>1
  <2>3. ~ (k < m)
    BY <1>1, <2>2 DEF OpToRel
  <2>4. QED BY <2>1, <2>3
<1>3. QED BY <1>2

(* pickNext answers a declared node or none.                               *)
LEMMA PickNextType ==
  ASSUME NEW n \in Nodes \union {NoNode}, NEW v \in Vals
  PROVE  PickNext(n, v) \in Nodes \union {NoNode}
<1>1. CASE n \notin Nodes \/ Matching(n, v) = {}
  BY <1>1 DEF PickNext
<1>2. CASE n \in Nodes /\ Matching(n, v) # {}
  <2>1. Edges[n] \in Seq(Edge)
    BY <1>2, GraphAssumption
  <2>2. Matching(n, v) \subseteq 1..Len(Edges[n])
    BY <2>1 DEF Matching
  <2>3. FirstMatch(n, v) \in Matching(n, v)
    <3>1. \E i \in Matching(n, v) : \A j \in Matching(n, v) : i <= j
      BY <1>2, <2>2, LeastElement
    <3>2. QED BY <3>1 DEF FirstMatch
  <2>4. Edges[n][FirstMatch(n, v)] \in Edge
    BY <2>1, <2>2, <2>3, ElementOfSeq
  <2>5. QED BY <1>2, <2>4 DEF PickNext, Edge
<1>3. QED BY <1>1, <1>2

(* resume goes on at a declared node, or nowhere.                          *)
LEMMA ResumeTargetType ==
  ASSUME NEW cp \in Checkpoint, NEW s \in RunState
  PROVE  ResumeTarget(cp, s) \in Nodes \union {NoNode}
<1>1. cp.last \in Nodes \union {NoNode} /\ s.val \in Vals
  BY DEF Checkpoint, RunState
<1>2. Entry \in Nodes
  BY GraphAssumption
<1>3. PickNext(cp.last, s.val) \in Nodes \union {NoNode}
  BY <1>1, PickNextType
<1>4. QED BY <1>2, <1>3 DEF ResumeTarget

-----------------------------------------------------------------------------
(* Types                                                                   *)

(* The state before any run.                                               *)
LEMMA NoStateType == NoState \in RunState
<1>1. (CHOOSE v \in Vals : TRUE) \in Vals
  BY GraphAssumption
<1>2. << >> \in Seq(Step)
  BY EmptySeq
<1>3. QED BY <1>1, <1>2 DEF NoState, Seed, RunState

(* A run state that executes one more step is a run state.                 *)
LEMMA ExtendType ==
  ASSUME NEW s \in RunState, NEW b \in Step
  PROVE  Extend(s, b) \in RunState
<1>1. s.walk \in Seq(Step) /\ b.val \in Vals
  BY DEF RunState, Step
<1>2. Append(s.walk, b) \in Seq(Step)
  BY <1>1, AppendProperties
<1>3. QED BY <1>1, <1>2 DEF Extend, RunState

(* What a node, a fan-out and an edit do are steps.                        *)
LEMMA StepTypes ==
  ASSUME NEW n \in Nodes \union {NoNode}, NEW v \in Vals, NEW r \in NodeResult
  PROVE  Exit(n, v, r) \in Step /\ Merge(n, v) \in Step /\ Edit(n, v) \in Step
BY DEF Exit, Merge, Edit, Step, NodeResult

(* What the store answers is a checkpoint.                                 *)
LEMMA LatestType == TypeOK => Latest \in Checkpoint
BY DEF TypeOK, Latest, Checkpoint

(* The type invariant holds before the first call.                         *)
LEMMA InitTypeOK == Init => TypeOK
<1> SUFFICES ASSUME Init PROVE TypeOK
  OBVIOUS
<1>1. << >> \in Seq(Nodes)
  BY EmptySeq
<1>2. QED BY <1>1, NoStateType DEF Init, TypeOK, PCs, NoCheckpoint, SavedAfter, Checkpoint

(* Entering the loop at a declared node keeps the types.                   *)
LEMMA StartLoopType ==
  ASSUME TypeOK, NEW n \in Nodes, NEW s \in RunState, NEW open \in BOOLEAN,
         StartLoop(n, s, open), UNCHANGED <<status, checkpoint>>,
         origin' \in Nodes \union {NoNode}, faults' \in Nat
  PROVE  TypeOK'
<1>1. << >> \in Seq(Nodes)
  BY EmptySeq
<1>2. QED BY <1>1 DEF StartLoop, TypeOK, PCs

(* So does a resume, with whatever state it is given.                      *)
LEMMA ResumeWithType ==
  ASSUME TypeOK, NEW s \in RunState,
         ResumeWith(s), UNCHANGED <<checkpoint, origin, faults>>
  PROVE  TypeOK'
<1> DEFINE n == ResumeTarget(Latest, s)
<1>1. Latest \in Checkpoint
  BY LatestType
<1>2. n \in Nodes \union {NoNode}
  BY <1>1, ResumeTargetType
<1>3. << >> \in Seq(Nodes)
  BY EmptySeq
<1>4. CASE n = NoNode
  BY <1>3, <1>4 DEF ResumeWith, Return, TypeOK, PCs, Statuses
<1>5. CASE n # NoNode
  <2>1. StartLoop(n, s, Latest.pending) /\ UNCHANGED status
    BY <1>5 DEF ResumeWith
  <2>2. Latest.pending \in BOOLEAN /\ n \in Nodes
    BY <1>1, <1>2, <1>5 DEF Checkpoint
  <2>3. origin' \in Nodes \union {NoNode} /\ faults' \in Nat
    BY DEF TypeOK
  <2>4. QED BY <2>1, <2>2, <2>3, StartLoopType
<1>6. QED BY <1>4, <1>5

(* So does every step of the executor.                                     *)
LEMMA NextTypeOK == TypeOK /\ [Next]_vars => TypeOK'
<1> SUFFICES ASSUME TypeOK, [Next]_vars PROVE TypeOK'
  OBVIOUS
<1> USE ExecutorAssumption
<1>1. ASSUME NEW n \in StartNodes, NEW v \in Vals, Run(n, v) PROVE TypeOK'
  <2>1. Seed(v) \in RunState
    BY EmptySeq DEF Seed, RunState
  <2>2. QED BY <1>1, <2>1, StartLoopType DEF Run, TypeOK
<1>2. CASE Resume
  BY <1>2, ResumeWithType DEF Resume, TypeOK, Checkpoint
<1>3. ASSUME NEW v \in Vals, ResumeEdited(v) PROVE TypeOK'
  <2>1. checkpoint.last \in Nodes \union {NoNode} /\ checkpoint.state \in RunState
    BY DEF TypeOK, Checkpoint
  <2>2. Edit(checkpoint.last, v) \in Step
    BY <2>1, StepTypes DEF NodeResult
  <2>3. QED BY <1>3, <2>1, <2>2, ExtendType, ResumeWithType DEF ResumeEdited
<1>4. CASE ResumeThrows
  BY <1>4 DEF ResumeThrows, Fault, TypeOK, PCs, Statuses, loopVars
<1>5. CASE Halt \/ Terminate \/ StopAfter \/ Complete \/ AttemptFails
           \/ BackoffInterrupted \/ FanOutFails \/ UnknownTarget \/ NoEdge
           \/ CallbackThrows
  <2>1. \E s \in Statuses : Return(s)
    BY <1>5 DEF Halt, Terminate, StopAfter, Complete, AttemptFails,
                BackoffInterrupted, FanOutFails, UnknownTarget, NoEdge,
                CallbackThrows, Throw, Statuses
  <2>2. UNCHANGED <<loopVars, checkpoint, origin>>
    BY <1>5 DEF Halt, Terminate, StopAfter, Complete, AttemptFails,
                BackoffInterrupted, FanOutFails, UnknownTarget, NoEdge,
                CallbackThrows
  <2>3. faults' \in Nat
    BY <1>5 DEF Halt, Terminate, StopAfter, Complete, AttemptFails,
                BackoffInterrupted, FanOutFails, UnknownTarget, NoEdge,
                CallbackThrows, Fault, TypeOK
  <2>4. QED BY <2>1, <2>2, <2>3 DEF Return, TypeOK, PCs, loopVars
<1>6. CASE StopBefore
  <2>1. path # <<>> => path[Len(path)] \in Nodes
    BY EmptySeq, ElementOfSeq DEF TypeOK
  <2>2. checkpoint' \in Checkpoint
    BY <1>6, <2>1 DEF StopBefore, SavedBefore, Checkpoint, TypeOK
  <2>3. QED BY <1>6, <2>2 DEF StopBefore, Return, TypeOK, PCs, Statuses, loopVars
<1>7. CASE Enter
  <2>1. Append(path, current) \in Seq(Nodes)
    BY <1>7, AppendProperties DEF Enter, TypeOK
  <2>2. steps' \in Nat /\ attempt' \in Nat
    BY <1>7 DEF Enter, TypeOK
  <2>3. pc' \in PCs /\ current' \in Nodes /\ gateOpen' \in BOOLEAN
    BY <1>7 DEF Enter, TypeOK, PCs
  <2>4. QED BY <1>7, <2>1, <2>2, <2>3 DEF Enter, TypeOK
<1>8. CASE AttemptSucceeds
  <2>1. PICK v \in Outputs[current], r \in Results[current] :
           state' = Extend(state, Exit(current, v, r))
    BY <1>8 DEF AttemptSucceeds
  <2>2. current \in Nodes /\ v \in Vals /\ r \in NodeResult
    BY <1>8, <2>1 DEF AttemptSucceeds, TypeOK
  <2>3. state' \in RunState
    BY <2>1, <2>2, StepTypes, ExtendType DEF TypeOK
  <2>4. QED BY <1>8, <2>3 DEF AttemptSucceeds, TypeOK, PCs
<1>9. CASE AttemptRetried \/ BackoffEnds
  BY <1>9 DEF AttemptRetried, BackoffEnds, Fault, TypeOK, PCs, loopVars
<1>10. CASE Save \/ Leave
  <2>1. checkpoint' \in Checkpoint
    <3>1. CASE Save
      BY <3>1 DEF Save, SavedAfter, TypeOK, Checkpoint
    <3>2. CASE Leave
      BY <3>2 DEF Leave, TypeOK
    <3>3. QED BY <1>10, <3>1, <3>2
  <2>2. pc' \in PCs /\ pc \notin {"idle", "stopped"}
    BY <1>10 DEF Save, Leave, PCs
  <2>3. UNCHANGED <<loopVars, status, tracing, origin, faults>>
    BY <1>10 DEF Save, Leave
  <2>4. QED BY <2>1, <2>2, <2>3 DEF TypeOK, loopVars
<1>11. CASE FanOut
  <2>1. PICK v \in Outputs[current] : state' = Extend(state, Merge(current, v))
    BY <1>11 DEF FanOut
  <2>2. current \in Nodes /\ v \in Vals
    BY <1>11, <2>1 DEF FanOut, TypeOK
  <2>3. state' \in RunState
    BY <2>1, <2>2, StepTypes, ExtendType DEF TypeOK, NodeResult
  <2>4. QED BY <1>11, <2>3 DEF FanOut, TypeOK, PCs
<1>12. CASE Route
  BY <1>12 DEF Route, TypeOK, PCs
<1>13. CASE Crash
  <2>1. << >> \in Seq(Nodes)
    BY EmptySeq
  <2>2. faults' \in Nat /\ pc' \in PCs /\ status' \in Statuses
    BY <1>13 DEF Crash, Fault, TypeOK, PCs, Statuses
  <2>3. QED BY <1>13, <2>1, <2>2, NoStateType DEF Crash, TypeOK
<1>14. CASE UNCHANGED vars
  BY <1>14 DEF vars, loopVars, TypeOK
<1>15. QED
  BY <1>1, <1>2, <1>3, <1>4, <1>5, <1>6, <1>7, <1>8, <1>9, <1>10, <1>11,
     <1>12, <1>13, <1>14 DEF Next, Call, Proceed

(* Every variable keeps its type, and the thread is always at a declared   *)
(* node while a call is in the loop.                                       *)
THEOREM TypeCorrect == Spec => []TypeOK
BY InitTypeOK, NextTypeOK, PTL DEF Spec

-----------------------------------------------------------------------------
(* The max-step guard, the retry policy and the trace's bookends            *)

(* StepGuard is not inductive: it needs that the guard's counter is the    *)
(* number of nodes of this call, and that the counter stays within bounds. *)
LoopInv ==
  /\ pc # "stopped" => steps = Len(path)
  /\ StepGuard
  /\ AttemptsWithinPolicy

(* Every step of the executor keeps LoopInv.                               *)
LEMMA LoopInvInductive == TypeOK /\ LoopInv /\ [Next]_vars => LoopInv'
<1> SUFFICES ASSUME TypeOK, LoopInv, [Next]_vars PROVE LoopInv'
  OBVIOUS
<1> USE ExecutorAssumption DEF LoopInv, StepGuard, AttemptsWithinPolicy
<1>0. /\ Len(<< >>) = 0
      /\ Len(path) \in Nat
  BY EmptySeq, LenProperties DEF TypeOK
<1>1. ASSUME NEW n, NEW s, NEW open, StartLoop(n, s, open) PROVE LoopInv'
  BY <1>0, <1>1 DEF StartLoop
<1>2. ASSUME NEW s, ResumeWith(s) PROVE LoopInv'
  <2>1. CASE ResumeTarget(Latest, s) = NoNode
    BY <1>0, <1>2, <2>1 DEF ResumeWith, Return
  <2>2. CASE ResumeTarget(Latest, s) # NoNode
    BY <1>1, <1>2, <2>2 DEF ResumeWith
  <2>3. QED BY <2>1, <2>2
<1>3. CASE Call
  BY <1>1, <1>2, <1>3 DEF Call, Run, Resume, ResumeEdited, ResumeThrows, loopVars
<1>4. CASE Halt
  BY <1>0, <1>4 DEF Halt, StepsLeft, Return, loopVars, TypeOK
<1>5. CASE Enter
  <2>1. Len(path') = Len(path) + 1
    BY <1>5, AppendProperties DEF Enter, TypeOK
  <2>2. current \in Nodes
    BY <1>5 DEF Enter, TypeOK
  <2>3. QED BY <1>0, <1>5, <2>1, <2>2 DEF Enter, StepsLeft, TypeOK
<1>6. CASE AttemptRetried
  BY <1>6 DEF AttemptRetried, loopVars, TypeOK
<1>7. CASE BackoffEnds
  <2>1. current \in Nodes
    BY <1>7 DEF BackoffEnds, TypeOK
  <2>2. QED BY <1>7, <2>1 DEF BackoffEnds, TypeOK
<1>8. CASE \/ StopBefore \/ Terminate \/ StopAfter \/ Complete \/ AttemptFails
           \/ BackoffInterrupted \/ FanOutFails \/ UnknownTarget \/ NoEdge
           \/ CallbackThrows
  BY <1>8 DEF StopBefore, Terminate, StopAfter, Complete, AttemptFails,
              BackoffInterrupted, FanOutFails, UnknownTarget, NoEdge,
              CallbackThrows, Throw, Return, loopVars
<1>9. CASE AttemptSucceeds \/ Save \/ Leave \/ FanOut \/ Route
  BY <1>9 DEF AttemptSucceeds, Save, Leave, FanOut, Route, loopVars
<1>10. CASE Crash
  BY <1>0, <1>10 DEF Crash
<1>11. CASE UNCHANGED vars
  BY <1>11 DEF vars, loopVars
<1>12. QED
  BY <1>3, <1>4, <1>5, <1>6, <1>7, <1>8, <1>9, <1>10, <1>11 DEF Next, Proceed

(* Whatever crashes, failures and resumes happen: no call runs more nodes  *)
(* than the max-step guard allows, HALTED says it ran exactly that many,   *)
(* and no node is attempted more often than its policy allows.             *)
THEOREM LoopBounds == Spec => [](StepGuard /\ AttemptsWithinPolicy)
<1>1. Init => LoopInv
  BY EmptySeq, ExecutorAssumption
     DEF Init, LoopInv, StepGuard, AttemptsWithinPolicy
<1>2. LoopInv => StepGuard /\ AttemptsWithinPolicy
  BY DEF LoopInv
<1>3. QED BY <1>1, <1>2, LoopInvInductive, TypeCorrect, PTL DEF Spec

(* Every step but the one that ends the call comes nearer to it.           *)
LEMMA ProceedComesNearer ==
  ASSUME TypeOK, LoopInv, Proceed, InCall'
  PROVE  ComesNearer
<1> USE ExecutorAssumption DEF ComesNearer, Below, InCall
<1>1. CASE Enter
  BY <1>1 DEF Enter, StepsLeft, StepsToGo, TypeOK
<1>2. CASE AttemptSucceeds \/ Save \/ Leave \/ FanOut \/ Route
  <2>1. StepsToGo' = StepsToGo
    BY <1>2 DEF StepsToGo, AttemptSucceeds, Save, Leave, FanOut, Route, loopVars
  <2>2. Below(StagesToGo', StagesToGo)
    BY <1>2 DEF StagesToGo, AttemptSucceeds, Save, Leave, FanOut, Route
  <2> QED
    BY <2>1, <2>2
<1>3. CASE AttemptRetried \/ BackoffEnds
  <2>1. StepsToGo' = StepsToGo /\ StagesToGo' = StagesToGo
    BY <1>3 DEF StepsToGo, StagesToGo, AttemptRetried, BackoffEnds, loopVars
  <2>2. current' = current /\ MaxAttempts[current] \in Nat
    BY <1>3 DEF AttemptRetried, BackoffEnds, loopVars, TypeOK
  <2>3. CASE AttemptRetried
    BY <2>1, <2>2, <2>3
    DEF AttemptRetried, AttemptsToGo, loopVars, TypeOK
  <2>4. CASE BackoffEnds
    BY <2>1, <2>2, <2>4
    DEF BackoffEnds, AttemptsToGo, TypeOK, LoopInv, AttemptsWithinPolicy
  <2> QED
    BY <1>3, <2>3, <2>4
<1>4. CASE \/ Halt \/ StopBefore \/ Terminate \/ StopAfter \/ Complete \/ AttemptFails
           \/ BackoffInterrupted \/ FanOutFails \/ UnknownTarget \/ NoEdge
           \/ CallbackThrows
  BY <1>4 DEF Halt, StopBefore, Terminate, StopAfter, Complete, AttemptFails,
              BackoffInterrupted, FanOutFails, UnknownTarget, NoEdge,
              CallbackThrows, Throw, Return
<1> QED
  BY <1>1, <1>2, <1>3, <1>4 DEF Proceed

(* A call cannot go on for ever: whatever its graph, and also when it goes *)
(* round a cycle, each of its steps uses up what the guard and the retry   *)
(* policies leave it, until one ends it.                                   *)
THEOREM CallsComeToAnEnd == Spec => CallsAreBounded
<1>1. TypeOK /\ LoopInv /\ [Next]_vars => [InCall /\ InCall' => ComesNearer]_vars
  <2> SUFFICES ASSUME TypeOK, LoopInv, Next, InCall, InCall' PROVE ComesNearer
    OBVIOUS
  <2>1. CASE Proceed
    BY <2>1, ProceedComesNearer
  <2>2. CASE Call
    BY <2>2 DEF Call, Run, Resume, ResumeEdited, ResumeThrows, MayResume, InCall
  <2>3. CASE Crash
    BY <2>3 DEF Crash, InCall
  <2> QED
    BY <2>1, <2>2, <2>3 DEF Next
<1>2. Init => LoopInv
  BY EmptySeq, ExecutorAssumption
     DEF Init, LoopInv, StepGuard, AttemptsWithinPolicy
<1> QED
  BY <1>1, <1>2, LoopInvInductive, TypeCorrect, PTL DEF Spec, CallsAreBounded

(* However a call ends, its trace is completed, provided no edge predicate *)
(* throws: resume evaluates predicates outside completing().               *)
THEOREM TracesClose ==
  ASSUME ~PredicatesThrow
  PROVE  Spec => []TraceClosed
<1>1. Init => TraceClosed
  BY DEF Init, TraceClosed
<1>2. TraceClosed /\ [Next]_vars => TraceClosed'
  <2> SUFFICES ASSUME TraceClosed, [Next]_vars PROVE TraceClosed'
    OBVIOUS
  <2> USE DEF TraceClosed
  <2>1. CASE Call
    BY <2>1 DEF Call, Run, Resume, ResumeEdited, ResumeThrows, ResumeWith,
                StartLoop, Return
  <2>2. CASE Proceed
    BY <2>2 DEF Proceed, Halt, StopBefore, Enter, AttemptSucceeds, AttemptRetried,
                AttemptFails, BackoffEnds, BackoffInterrupted, Save, Terminate,
                StopAfter, Complete, Leave, FanOut, FanOutFails, Route,
                UnknownTarget, NoEdge, CallbackThrows, Throw, Return
  <2>3. CASE Crash
    BY <2>3 DEF Crash
  <2>4. CASE UNCHANGED vars
    BY <2>4 DEF vars
  <2>5. QED BY <2>1, <2>2, <2>3, <2>4 DEF Next
<1>3. QED BY <1>1, <1>2, PTL DEF Spec

-----------------------------------------------------------------------------
(***************************************************************************)
(* When resuming is sound.  Two ways lead there: an operator who resumes   *)
(* only where nothing is lost (Careful), on any graph; or a graph whose    *)
(* nodes leave the choice of the next node to the edges and that has no    *)
(* interruptBefore, resumed at will.  Under every crash, failure,          *)
(* interrupt, termination and operator's edit, and with either store,      *)
(* executions then walk the graph legally, and what their checkpoints hold *)
(* implements DurableWalk.  (MCFind_gate shows what happens                *)
(* to an operator who is not careful.)                                     *)
(***************************************************************************)

EdgesDecide ==
  /\ \A n \in Nodes : Results[n] \subseteq {ToEdges}
  /\ InterruptBefore = {}

(* The node due after a walk. *)
Due(walk, start) ==
  IF walk = <<>> THEN start ELSE Successor(walk[Len(walk)], start)

(* The last step of a walk is one of node n, and left the state val.       *)
EndsAt(walk, n, v) ==
  /\ walk # <<>>
  /\ walk[Len(walk)].node = n
  /\ walk[Len(walk)].val = v

(* walk2 continues walk1.                                                   *)
Continues(walk1, walk2) ==
  /\ Len(walk1) <= Len(walk2)
  /\ \A i \in 1..Len(walk1) : walk2[i] = walk1[i]

Durables == checkpoint.state.walk

Before == {"top", "invoke", "backoff"}
After  == {"exited", "saved", "fanOut", "route"}

(* Where the thread is on its walk.                                        *)
PositionInv ==
  /\ pc # "idle" => origin \in Nodes
  /\ pc \in Before => Due(state.walk, origin) = current
  /\ pc \in After => EndsAt(state.walk, current, state.val)
  /\ pc \in {"exited", "saved", "fanOut"} => LastStep.kind = "exit"
  /\ pc = "fanOut" => LastStep.then = ToSends
  /\ pc = "route" => LastStep.then # ToSends

(* What StopBefore takes from the path of the call.                        *)
PathInv ==
  /\ pc \in {"invoke", "backoff"} \union After =>
       path # <<>> /\ path[Len(path)] = current
  /\ pc = "top" =>
       IF path = <<>> THEN Gated => state.walk = <<>>
                      ELSE EndsAt(state.walk, path[Len(path)], state.val)

(* What a checkpoint says of the walk it holds.                            *)
CheckpointInv ==
  checkpoint # NoCheckpoint =>
    IF checkpoint.last = NoNode
    THEN Durables = <<>>
    ELSE EndsAt(Durables, checkpoint.last, checkpoint.state.val)

WalkInv == LegalWalk(state.walk, origin) /\ LegalWalk(Durables, origin)

(* How far the thread is ahead of the checkpoint.                          *)
AheadInv ==
  pc \in Before \union After =>
    /\ Continues(Durables, state.walk)
    /\ \A i \in (Len(Durables) + 1)..Len(state.walk) :
          state.walk[i].kind = "exit" => pc = "exited" /\ i = Len(state.walk)
    /\ pc = "exited" => Len(Durables) < Len(state.walk)

ResumeInv == PositionInv /\ PathInv /\ CheckpointInv /\ WalkInv /\ AheadInv

-----------------------------------------------------------------------------
(* Walks                                                                   *)

(* No steps are a legal walk, and its start is due.                        *)
LEMMA EmptyWalk ==
  ASSUME NEW start
  PROVE  LegalWalk(<< >>, start) /\ Due(<< >>, start) = start
<1>1. Len(<< >>) = 0
  BY EmptySeq
<1>2. QED BY <1>1 DEF LegalWalk, Due

(* A walk stays legal when it is extended by a step that may come next.    *)
LEMMA AppendLegal ==
  ASSUME NEW w \in Seq(Step), NEW b \in Step, NEW start, LegalWalk(w, start),
         \/ b.kind = "exit" /\ b.node \in Nodes /\ b.node = Due(w, start)
         \/ b.kind = "edit" /\ w = <<>> /\ b.node = NoNode
         \/ b.kind = "edit" /\ w # <<>> /\ b.node = w[Len(w)].node
         \/ /\ b.kind = "merge" /\ w # <<>> /\ b.node = w[Len(w)].node
            /\ w[Len(w)].kind = "exit" /\ w[Len(w)].then = ToSends
  PROVE  LegalWalk(Append(w, b), start)
<1> DEFINE x == Append(w, b)
<1>1. /\ x # << >>
      /\ Len(x) = Len(w) + 1
      /\ \A i \in 1..Len(w) : x[i] = w[i]
      /\ x[Len(w) + 1] = b
      /\ Len(w) \in Nat
      /\ w # <<>> => Len(w) > 0
      /\ w = <<>> => Len(w) = 0
  BY AppendProperties, LenProperties, EmptySeq
<1> HIDE DEF x
<1>2. CASE w = <<>>
  <2>1. Len(x) = 1 /\ x[1] = b
    BY <1>1, <1>2
  <2>2. \/ b.kind = "exit" /\ b.node = start
        \/ b.kind = "edit" /\ b.node = NoNode
    BY <1>2 DEF Due
  <2>3. LegalWalk(x, start)
    BY <2>1, <2>2 DEF LegalWalk
  <2>4. QED BY <2>3 DEF x
<1>3. CASE w # <<>>
  <2>1. x[1] = w[1]
    BY <1>1, <1>3
  <2>2. Leads(w[Len(w)], b, start)
    BY <1>3, GraphAssumption DEF Due, Leads
  <2>3. ASSUME NEW i \in 1..(Len(x) - 1) PROVE Leads(x[i], x[i + 1], start)
    <3>1. CASE i = Len(w)
      BY <1>1, <1>3, <2>2, <3>1
    <3>2. CASE i # Len(w)
      <4>1. i \in 1..(Len(w) - 1) /\ i + 1 \in 1..Len(w)
        BY <1>1, <3>2
      <4>2. x[i] = w[i] /\ x[i + 1] = w[i + 1]
        BY <1>1, <4>1
      <4>3. Leads(w[i], w[i + 1], start)
        BY <4>1 DEF LegalWalk
      <4>4. QED BY <4>2, <4>3
    <3>3. QED BY <3>1, <3>2
  <2>4. LegalWalk(x, start)
    BY <1>1, <1>3, <2>1, <2>3 DEF LegalWalk
  <2>5. QED BY <2>4 DEF x
<1>4. QED BY <1>2, <1>3

(* The state after a step: its last step is that one.                      *)
LEMMA ExtendEnds ==
  ASSUME NEW s \in RunState, NEW b \in Step
  PROVE  /\ Extend(s, b).walk = Append(s.walk, b)
         /\ EndsAt(Extend(s, b).walk, b.node, Extend(s, b).val)
         /\ Extend(s, b).walk[Len(Extend(s, b).walk)] = b
<1>1. s.walk \in Seq(Step)
  BY DEF RunState
<1>2. QED BY <1>1, AppendProperties DEF Extend, EndsAt

(* A longer walk continues what the shorter one continued, and no step but *)
(* the last is new.                                                        *)
LEMMA ContinuesAppend ==
  ASSUME NEW w \in Seq(Step), NEW x \in Seq(Step), NEW b \in Step,
         Continues(w, x),
         \A i \in (Len(w) + 1)..Len(x) : x[i].kind # "exit"
  PROVE  /\ Continues(w, Append(x, b))
         /\ Len(w) < Len(Append(x, b))
         /\ \A i \in (Len(w) + 1)..Len(Append(x, b)) :
               Append(x, b)[i].kind = "exit" => b.kind = "exit" /\ i = Len(Append(x, b))
<1> DEFINE y == Append(x, b)
<1>1. /\ Len(y) = Len(x) + 1
      /\ \A i \in 1..Len(x) : y[i] = x[i]
      /\ y[Len(y)] = b
      /\ Len(w) \in Nat /\ Len(x) \in Nat
  BY AppendProperties, LenProperties
<1> HIDE DEF y
<1>2. Len(w) <= Len(x) /\ \A i \in 1..Len(w) : x[i] = w[i]
  BY DEF Continues
<1>3. Continues(w, y) /\ Len(w) < Len(y)
  BY <1>1, <1>2 DEF Continues
<1>4. ASSUME NEW i \in (Len(w) + 1)..Len(y), y[i].kind = "exit"
      PROVE  b.kind = "exit" /\ i = Len(y)
  <2>1. i \notin 1..Len(x)
    BY <1>1, <1>2, <1>4
  <2>2. i = Len(y)
    BY <1>1, <1>2, <2>1
  <2>3. QED BY <1>1, <1>4, <2>2
<1>5. QED BY <1>3, <1>4 DEF y

-----------------------------------------------------------------------------
(* The inductive invariant                                                 *)

(* The beginning: nothing has run and nothing is durable.                  *)
LEMMA ResumeInvInit == Init => ResumeInv
<1> SUFFICES ASSUME Init PROVE ResumeInv
  OBVIOUS
<1>1. state.walk = << >> /\ Durables = << >>
  BY DEF Init, NoState, Seed, NoCheckpoint, SavedAfter, Durables
<1>2. QED
  BY <1>1, EmptyWalk
     DEF Init, ResumeInv, PositionInv, PathInv, CheckpointInv, WalkInv, AheadInv,
         NoCheckpoint, SavedAfter, Before, After

(* A new run begins with an empty walk at its start node.                  *)
LEMMA RunKeeps ==
  ASSUME ResumeInv, NEW n \in StartNodes, NEW v \in Vals, Run(n, v)
  PROVE  ResumeInv'
<1>1. /\ state' = Seed(v) /\ state'.walk = << >> /\ path' = << >>
      /\ checkpoint' = NoCheckpoint /\ checkpoint = NoCheckpoint
      /\ Durables' = << >>
      /\ pc' = "top" /\ current' = n /\ origin' = n
  BY DEF Run, StartLoop, Seed, Durables, NoCheckpoint, SavedAfter, NoState
<1>2. n \in Nodes
  BY ExecutorAssumption
<1>3. LegalWalk(<< >>, origin') /\ Due(<< >>, origin') = origin'
  BY EmptyWalk
<1>4. PositionInv'
  BY <1>1, <1>2, <1>3 DEF PositionInv, Before, After
<1>5. PathInv'
  BY <1>1 DEF PathInv, After
<1>6. CheckpointInv'
  BY <1>1 DEF CheckpointInv
<1>7. WalkInv'
  BY <1>1, <1>3 DEF WalkInv
<1>8. AheadInv'
  BY <1>1, EmptySeq DEF AheadInv, Continues, Before, After
<1>9. QED BY <1>4, <1>5, <1>6, <1>7, <1>8 DEF ResumeInv

(* Both resumes: s is the checkpoint's state, or an edit of it.            *)
LEMMA ResumeWithKeeps ==
  ASSUME TypeOK, ResumeInv, checkpoint # NoCheckpoint, pc = "stopped",
         NEW s \in RunState, NothingLost(s), LegalWalk(s.walk, origin),
         IF checkpoint.last = NoNode
         THEN Due(s.walk, origin) = origin
         ELSE /\ EndsAt(s.walk, checkpoint.last, s.val)
              /\ s.walk[Len(s.walk)].then = ToEdges,
         Continues(Durables, s.walk),
         \A i \in (Len(Durables) + 1)..Len(s.walk) : s.walk[i].kind # "exit",
         ResumeWith(s), UNCHANGED <<checkpoint, origin, faults>>
  PROVE  ResumeInv'
<1> DEFINE n == ResumeTarget(Latest, s)
<1>1. checkpoint \in Checkpoint /\ Latest \in Checkpoint /\ Latest.last = checkpoint.last
  BY LatestType DEF TypeOK, Checkpoint, Latest
<1>2. origin \in Nodes
  BY DEF ResumeInv, PositionInv
<1>3. CheckpointInv' /\ WalkInv'
  <2>1. state' = s
    BY DEF ResumeWith, StartLoop
  <2>2. QED BY <2>1 DEF ResumeInv, CheckpointInv, WalkInv, Durables
<1>4. CASE n = NoNode
  <2>1. pc' = "stopped"
    BY <1>4 DEF ResumeWith, Return
  <2>2. QED
    BY <1>2, <1>3, <2>1 DEF ResumeInv, PositionInv, PathInv, AheadInv, Before, After
<1>5. CASE n # NoNode
  <2>1. /\ pc' = "top" /\ state' = s /\ current' = n /\ path' = <<>>
        /\ gateOpen' = Latest.pending
    BY <1>5 DEF ResumeWith, StartLoop
  <2>2. Due(s.walk, origin) = n
    <3>1. CASE checkpoint.last = NoNode
      <4>1. n = Entry
        BY <1>1, <1>5, <3>1, GraphAssumption DEF ResumeTarget, PickNext
      <4>2. QED BY <3>1, <4>1 DEF NothingLost
    <3>2. CASE checkpoint.last # NoNode
      <4>1. n = PickNext(checkpoint.last, s.val)
        BY <1>1, <1>5, <3>2 DEF ResumeTarget
      <4>2. QED
        BY <3>2, <4>1 DEF EndsAt, Due, Successor, ToEdges
    <3>3. QED BY <3>1, <3>2
  <2>3. PositionInv'
    BY <1>2, <2>1, <2>2 DEF PositionInv, Before, After
  <2>4. PathInv'
    <3>1. ~Gated'
      <4>1. n \in InterruptBefore => Latest.pending
        BY DEF NothingLost
      <4>2. QED BY <2>1, <4>1 DEF Gated
    <3>2. QED BY <2>1, <3>1 DEF PathInv, After
  <2>5. AheadInv'
    BY <2>1 DEF AheadInv, Durables
  <2>6. QED BY <1>3, <2>3, <2>4, <2>5 DEF ResumeInv
<1>6. QED BY <1>4, <1>5

(* A resume where nothing is lost goes on where the walk ends.             *)
LEMMA ResumeKeeps ==
  ASSUME TypeOK, ResumeInv, Resume, NothingLost(checkpoint.state)
  PROVE  ResumeInv'
<1> DEFINE s == checkpoint.state
<1>1. checkpoint # NoCheckpoint /\ pc = "stopped"
  BY DEF Resume, MayResume
<1>2. s \in RunState /\ Durables \in Seq(Step) /\ s.walk = Durables
  BY DEF TypeOK, Checkpoint, RunState, Durables
<1>3. LegalWalk(Durables, origin)
  BY DEF ResumeInv, WalkInv
<1>4. Durables # <<>> => Durables[Len(Durables)].then = ToEdges
  BY DEF NothingLost, Durables
<1>5. IF checkpoint.last = NoNode
      THEN Due(s.walk, origin) = origin
      ELSE /\ EndsAt(s.walk, checkpoint.last, s.val)
           /\ s.walk[Len(s.walk)].then = ToEdges
  BY <1>1, <1>2, <1>4 DEF ResumeInv, CheckpointInv, Due, EndsAt
<1>6. /\ Continues(Durables, Durables)
      /\ (Len(Durables) + 1)..Len(Durables) = {}
  BY <1>2, LenProperties DEF Continues
<1>7. ResumeWith(s) /\ UNCHANGED <<checkpoint, origin, faults>>
  BY DEF Resume
<1> HIDE DEF s
<1>8. QED
  BY <1>1, <1>2, <1>3, <1>5, <1>6, <1>7, ResumeWithKeeps DEF s

(* So does one with an edited state: the edit is a step of the walk.       *)
LEMMA ResumeEditedKeeps ==
  ASSUME TypeOK, ResumeInv, NEW v \in Vals, ResumeEdited(v),
         NothingLost(Extend(checkpoint.state, Edit(checkpoint.last, v)))
  PROVE  ResumeInv'
<1> DEFINE b == Edit(checkpoint.last, v)
           s == Extend(checkpoint.state, b)
<1>1. checkpoint # NoCheckpoint /\ pc = "stopped"
  BY DEF ResumeEdited, MayResume
<1>2. /\ checkpoint.state \in RunState /\ Durables \in Seq(Step)
      /\ checkpoint.last \in Nodes \union {NoNode}
  BY DEF TypeOK, Checkpoint, RunState, Durables
<1>3. LegalWalk(Durables, origin)
  BY DEF ResumeInv, WalkInv
<1>4. b \in Step /\ b.kind = "edit" /\ b.node = checkpoint.last /\ b.then = ToEdges
  BY <1>2, StepTypes DEF NodeResult, Edit
<1>5. /\ s \in RunState
      /\ s.walk = Append(Durables, b)
      /\ EndsAt(s.walk, checkpoint.last, s.val)
      /\ s.walk[Len(s.walk)] = b
  BY <1>2, <1>4, ExtendType, ExtendEnds DEF Durables
<1>6. LegalWalk(s.walk, origin)
  <2>1. IF checkpoint.last = NoNode
        THEN Durables = <<>>
        ELSE Durables # <<>> /\ Durables[Len(Durables)].node = checkpoint.last
    BY <1>1 DEF ResumeInv, CheckpointInv, EndsAt
  <2>2. QED BY <1>2, <1>3, <1>4, <1>5, <2>1, AppendLegal
<1>7. IF checkpoint.last = NoNode
      THEN Due(s.walk, origin) = origin
      ELSE /\ EndsAt(s.walk, checkpoint.last, s.val)
           /\ s.walk[Len(s.walk)].then = ToEdges
  <2>1. checkpoint.last = NoNode => Successor(b, origin) = origin
    BY <1>4 DEF Successor, ToEdges
  <2>2. s.walk # <<>>
    BY <1>5 DEF EndsAt
  <2>3. QED BY <1>4, <1>5, <2>1, <2>2 DEF Due
<1>8. /\ Continues(Durables, s.walk)
      /\ \A i \in (Len(Durables) + 1)..Len(s.walk) : s.walk[i].kind # "exit"
  <2>1. Continues(Durables, Durables) /\ (Len(Durables) + 1)..Len(Durables) = {}
    BY <1>2, LenProperties DEF Continues
  <2>2. QED BY <1>2, <1>4, <1>5, <2>1, ContinuesAppend
<1>9. ResumeWith(s) /\ UNCHANGED <<checkpoint, origin, faults>>
  BY DEF ResumeEdited
<1> HIDE DEF s
<1>10. QED
  BY <1>1, <1>5, <1>6, <1>7, <1>8, <1>9, ResumeWithKeeps DEF s

(* An attempt that succeeds and a fan-out extend the walk.                 *)
LEMMA AttemptSucceedsKeeps ==
  ASSUME TypeOK, ResumeInv, AttemptSucceeds
  PROVE  ResumeInv'
<1>1. PICK v \in Outputs[current], r \in Results[current] :
         state' = Extend(state, Exit(current, v, r))
  BY DEF AttemptSucceeds
<1> DEFINE b == Exit(current, v, r)
<1>2. current \in Nodes /\ v \in Vals /\ r \in NodeResult
  BY <1>1, ExecutorAssumption DEF AttemptSucceeds, TypeOK
<1>3. b \in Step /\ b.kind = "exit" /\ b.node = current
  BY <1>2, StepTypes DEF Exit
<1>4. state \in RunState /\ state.walk \in Seq(Step) /\ Durables \in Seq(Step)
  BY DEF TypeOK, RunState, Checkpoint, Durables
<1>5. /\ state'.walk = Append(state.walk, b)
      /\ EndsAt(state'.walk, current, state'.val)
      /\ state'.walk[Len(state'.walk)] = b
  BY <1>1, <1>3, <1>4, ExtendEnds
<1>6. /\ pc = "invoke" /\ pc' = "exited"
      /\ UNCHANGED <<current, path, checkpoint, origin>>
      /\ Durables' = Durables
  BY DEF AttemptSucceeds, Durables
<1>7. Due(state.walk, origin) = current
  BY <1>6 DEF ResumeInv, PositionInv, Before
<1>8. LegalWalk(state.walk, origin)
  BY DEF ResumeInv, WalkInv
<1>9. LegalWalk(state'.walk, origin)
  BY <1>2, <1>3, <1>4, <1>5, <1>7, <1>8, AppendLegal
<1>10. PositionInv'
  BY <1>3, <1>5, <1>6 DEF ResumeInv, PositionInv, LastStep, Before, After
<1>11. PathInv' /\ CheckpointInv' /\ WalkInv'
  BY <1>6, <1>9 DEF ResumeInv, PathInv, CheckpointInv, WalkInv, Durables, After
<1>12. AheadInv'
  <2>1. /\ Continues(Durables, state.walk)
        /\ \A i \in (Len(Durables) + 1)..Len(state.walk) : state.walk[i].kind # "exit"
    BY <1>6 DEF ResumeInv, AheadInv, Before
  <2>2. QED BY <1>3, <1>4, <1>5, <1>6, <2>1, ContinuesAppend DEF AheadInv
<1>13. QED BY <1>10, <1>11, <1>12 DEF ResumeInv

(* A fan-out merges into the walk after the node that asked for it.        *)
LEMMA FanOutKeeps ==
  ASSUME TypeOK, ResumeInv, FanOut
  PROVE  ResumeInv'
<1>1. PICK v \in Outputs[current] : state' = Extend(state, Merge(current, v))
  BY DEF FanOut
<1> DEFINE b == Merge(current, v)
<1>2. current \in Nodes /\ v \in Vals
  BY <1>1, ExecutorAssumption DEF FanOut, TypeOK
<1>3. b \in Step /\ b.kind = "merge" /\ b.node = current /\ b.then = ToEdges
  BY <1>2, StepTypes DEF Merge, NodeResult
<1>4. state \in RunState /\ state.walk \in Seq(Step) /\ Durables \in Seq(Step)
  BY DEF TypeOK, RunState, Checkpoint, Durables
<1>5. /\ state'.walk = Append(state.walk, b)
      /\ EndsAt(state'.walk, current, state'.val)
      /\ state'.walk[Len(state'.walk)] = b
  BY <1>1, <1>3, <1>4, ExtendEnds
<1>6. /\ pc = "fanOut" /\ pc' = "route"
      /\ UNCHANGED <<current, path, checkpoint, origin>>
      /\ Durables' = Durables
  BY DEF FanOut, Durables
<1>7. /\ state.walk # <<>> /\ state.walk[Len(state.walk)].node = current
      /\ state.walk[Len(state.walk)].kind = "exit"
      /\ state.walk[Len(state.walk)].then = ToSends
  BY <1>6 DEF ResumeInv, PositionInv, After, EndsAt, LastStep
<1>8. LegalWalk(state.walk, origin)
  BY DEF ResumeInv, WalkInv
<1>9. LegalWalk(state'.walk, origin)
  BY <1>3, <1>4, <1>5, <1>7, <1>8, AppendLegal
<1>10. PositionInv'
  BY <1>3, <1>5, <1>6
     DEF ResumeInv, PositionInv, LastStep, Before, After, ToEdges, ToSends
<1>11. PathInv' /\ CheckpointInv' /\ WalkInv'
  BY <1>6, <1>9 DEF ResumeInv, PathInv, CheckpointInv, WalkInv, Durables, After
<1>12. AheadInv'
  <2>1. /\ Continues(Durables, state.walk)
        /\ \A i \in (Len(Durables) + 1)..Len(state.walk) : state.walk[i].kind # "exit"
    BY <1>6 DEF ResumeInv, AheadInv, After
  <2>2. QED BY <1>3, <1>4, <1>5, <1>6, <2>1, ContinuesAppend DEF AheadInv
<1>13. QED BY <1>10, <1>11, <1>12 DEF ResumeInv

(* The two steps that write the store.                                     *)
LEMMA SaveKeeps ==
  ASSUME TypeOK, ResumeInv, Save
  PROVE  ResumeInv'
<1>1. /\ pc = "exited" /\ pc' = "saved"
      /\ checkpoint' = SavedAfter(current, state)
      /\ Durables' = state.walk
      /\ UNCHANGED <<state, current, path, origin>>
  BY DEF Save, SavedAfter, Durables, loopVars
<1>2. EndsAt(state.walk, current, state.val) /\ current \in Nodes
  BY <1>1 DEF ResumeInv, PositionInv, After, TypeOK
<1>3. Len(state.walk) \in Nat
  BY LenProperties DEF TypeOK, RunState
<1>4. PositionInv' /\ PathInv'
  BY <1>1, <1>2
     DEF ResumeInv, PositionInv, PathInv, LastStep, Before, After
<1>5. CheckpointInv'
  BY <1>1, <1>2, GraphAssumption DEF SavedAfter, CheckpointInv
<1>6. WalkInv'
  BY <1>1 DEF ResumeInv, WalkInv
<1>7. AheadInv'
  BY <1>1, <1>3 DEF AheadInv, Continues
<1>8. QED BY <1>4, <1>5, <1>6, <1>7 DEF ResumeInv

(* A gate saves a walk that ends before the gated node.                    *)
LEMMA StopBeforeKeeps ==
  ASSUME TypeOK, ResumeInv, StopBefore
  PROVE  ResumeInv'
<1> DEFINE last == IF path = <<>> THEN NoNode ELSE path[Len(path)]
<1>1. /\ pc = "top" /\ pc' = "stopped" /\ Gated
      /\ checkpoint' = SavedBefore(current, last, state)
      /\ Durables' = state.walk
      /\ UNCHANGED <<state, current, path, origin>>
  BY DEF StopBefore, SavedBefore, Return, Durables, loopVars
<1>2. path # <<>> => path[Len(path)] # NoNode
  BY EmptySeq, ElementOfSeq, GraphAssumption DEF TypeOK
<1>3. IF last = NoNode THEN state.walk = <<>> ELSE EndsAt(state.walk, last, state.val)
  BY <1>1, <1>2 DEF ResumeInv, PathInv
<1>4. PositionInv' /\ PathInv' /\ AheadInv'
  BY <1>1 DEF ResumeInv, PositionInv, PathInv, AheadInv, Before, After
<1>5. CheckpointInv'
  <2> HIDE DEF last
  <2> QED BY <1>1, <1>3 DEF SavedBefore, CheckpointInv
<1>6. WalkInv'
  BY <1>1 DEF ResumeInv, WalkInv
<1>7. QED BY <1>4, <1>5, <1>6 DEF ResumeInv

(* Entering a node adds it to the path and nothing to the walk.            *)
LEMMA EnterKeeps ==
  ASSUME TypeOK, ResumeInv, Enter
  PROVE  ResumeInv'
<1>1. /\ pc = "top" /\ pc' = "invoke" /\ path' = Append(path, current)
      /\ UNCHANGED <<state, current, checkpoint, origin>>
      /\ Durables' = Durables
  BY DEF Enter, Durables
<1>2. path' # <<>> /\ path'[Len(path')] = current
  BY <1>1, AppendProperties DEF TypeOK
<1>3. PositionInv' /\ PathInv'
  BY <1>1, <1>2 DEF ResumeInv, PositionInv, PathInv, Before, After
<1>4. CheckpointInv' /\ WalkInv' /\ AheadInv'
  BY <1>1 DEF ResumeInv, CheckpointInv, WalkInv, AheadInv, Durables, Before, After
<1>5. QED BY <1>3, <1>4 DEF ResumeInv

(* Leaving a node changes neither the path nor the walk.                   *)
LEMMA LeaveKeeps ==
  ASSUME TypeOK, ResumeInv, Leave
  PROVE  ResumeInv'
<1>1. /\ pc = "saved"
      /\ pc' = IF LastStep.then = ToSends THEN "fanOut" ELSE "route"
      /\ UNCHANGED <<state, current, path, checkpoint, origin>>
      /\ LastStep' = LastStep
  BY DEF Leave, loopVars, LastStep
<1>2. PositionInv' /\ PathInv'
  BY <1>1 DEF ResumeInv, PositionInv, PathInv, Before, After
<1>3. CheckpointInv' /\ WalkInv' /\ AheadInv'
  BY <1>1 DEF ResumeInv, CheckpointInv, WalkInv, AheadInv, Durables, Before, After
<1>4. QED BY <1>2, <1>3 DEF ResumeInv

(* The next node is the one the walk leads to.                             *)
LEMMA RouteKeeps ==
  ASSUME TypeOK, ResumeInv, Route
  PROVE  ResumeInv'
<1>1. /\ pc = "route" /\ pc' = "top" /\ current' = Target
      /\ UNCHANGED <<state, path, checkpoint, origin>>
  BY DEF Route
<1>2. /\ EndsAt(state.walk, current, state.val) /\ current \in Nodes
      /\ LastStep.then # ToSends
      /\ path # <<>> /\ path[Len(path)] = current
  BY <1>1 DEF ResumeInv, PositionInv, PathInv, After, TypeOK
<1>3. LastStep \in Step /\ LastStep.node = current /\ LastStep.val = state.val
  <2>1. state.walk \in Seq(Step)
    BY DEF TypeOK, RunState
  <2>2. Len(state.walk) \in 1..Len(state.walk)
    BY <1>2, <2>1, EmptySeq DEF EndsAt
  <2>3. QED BY <1>2, <2>1, <2>2, ElementOfSeq DEF LastStep, EndsAt
<1>4. LastStep.then.kind # "sendAll"
  <2>1. LastStep.then \in NodeResult
    BY <1>3 DEF Step
  <2>2. QED BY <1>2, <2>1 DEF NodeResult, ToEdges, ToSends, ToNode
<1>5. Successor(LastStep, origin) = Target
  BY <1>2, <1>3, <1>4, GraphAssumption DEF Successor, Target, AskedFor
<1>6. Due(state.walk, origin) = current'
  BY <1>1, <1>2, <1>5 DEF Due, EndsAt, LastStep
<1>7. PositionInv'
  BY <1>1, <1>6 DEF ResumeInv, PositionInv, Before, After
<1>8. PathInv'
  BY <1>1, <1>2 DEF PathInv, After
<1>9. CheckpointInv' /\ WalkInv'
  BY <1>1 DEF ResumeInv, CheckpointInv, WalkInv, Durables
<1>10. AheadInv'
  BY <1>1 DEF ResumeInv, AheadInv, Before, After, Durables
<1>11. QED BY <1>7, <1>8, <1>9, <1>10 DEF ResumeInv

(* A crash leaves the checkpoint, which is all that is claimed of it.      *)
LEMMA CrashKeeps ==
  ASSUME ResumeInv, Crash
  PROVE  ResumeInv'
<1>1. /\ pc' = "stopped" /\ state'.walk = << >> /\ pc # "idle"
      /\ UNCHANGED <<checkpoint, origin>>
  BY DEF Crash, NoState, Seed
<1>2. PositionInv' /\ PathInv' /\ CheckpointInv' /\ AheadInv'
  BY <1>1
     DEF ResumeInv, PositionInv, PathInv, CheckpointInv, AheadInv, Before, After, Durables
<1>3. WalkInv'
  BY <1>1, EmptyWalk DEF ResumeInv, WalkInv, Durables
<1>4. QED BY <1>2, <1>3 DEF ResumeInv

(* The steps that leave the walk, the checkpoint and the position alone.   *)
LEMMA QuietKeeps ==
  ASSUME ResumeInv,
         UNCHANGED <<state, current, path, gateOpen, checkpoint, origin>>,
         \/ pc' = "stopped" /\ pc # "idle"
         \/ pc \in {"invoke", "backoff"} /\ pc' \in {"invoke", "backoff"}
         \/ pc' = pc
  PROVE  ResumeInv'
<1>1. CheckpointInv' /\ WalkInv'
  BY DEF ResumeInv, CheckpointInv, WalkInv, Durables
<1>2. PositionInv'
  BY DEF ResumeInv, PositionInv, Before, After, LastStep
<1>3. PathInv'
  BY DEF ResumeInv, PathInv, After, Gated
<1>4. AheadInv'
  BY DEF ResumeInv, AheadInv, Before, After, Durables
<1>5. QED BY <1>1, <1>2, <1>3, <1>4 DEF ResumeInv

(* The hypothesis of both theorems, for one step: a resume loses nothing.  *)
NoResumeLoses == \A s \in RunState : MayResume(s) => NothingLost(s)

(* When no resume loses anything, every step keeps ResumeInv.              *)
LEMMA ResumeInvNext ==
  ASSUME NoResumeLoses, TypeOK, ResumeInv, [Next]_vars
  PROVE  ResumeInv'
<1>1. ASSUME NEW n \in StartNodes, NEW v \in Vals, Run(n, v) PROVE ResumeInv'
  BY <1>1, RunKeeps
<1>2. CASE Resume
  <2>1. checkpoint.state \in RunState
    BY DEF TypeOK, Checkpoint
  <2>2. NothingLost(checkpoint.state)
    BY <1>2, <2>1 DEF Resume, NoResumeLoses
  <2>3. QED BY <1>2, <2>2, ResumeKeeps
<1>3. ASSUME NEW v \in Vals, ResumeEdited(v) PROVE ResumeInv'
  <2> DEFINE s == Extend(checkpoint.state, Edit(checkpoint.last, v))
  <2>1. checkpoint.last \in Nodes \union {NoNode} /\ checkpoint.state \in RunState
    BY DEF TypeOK, Checkpoint
  <2>2. s \in RunState
    BY <2>1, StepTypes, ExtendType DEF NodeResult
  <2>3. MayResume(s)
    BY <1>3 DEF ResumeEdited
  <2>4. NothingLost(s)
    BY <2>2, <2>3 DEF NoResumeLoses
  <2>5. QED BY <1>3, <2>4, ResumeEditedKeeps
<1>4. CASE ResumeThrows
  BY <1>4, QuietKeeps DEF ResumeThrows, MayResume, loopVars
<1>5. CASE AttemptSucceeds \/ FanOut \/ Save \/ StopBefore
  BY <1>5, AttemptSucceedsKeeps, FanOutKeeps, SaveKeeps, StopBeforeKeeps
<1>6. CASE Enter \/ Leave \/ Route \/ Crash
  BY <1>6, EnterKeeps, LeaveKeeps, RouteKeeps, CrashKeeps
<1>7. CASE AttemptRetried \/ BackoffEnds
  BY <1>7, QuietKeeps DEF AttemptRetried, BackoffEnds, loopVars
<1>8. CASE \/ Halt \/ Terminate \/ StopAfter \/ Complete \/ AttemptFails
           \/ BackoffInterrupted \/ FanOutFails \/ UnknownTarget \/ NoEdge
           \/ CallbackThrows
  BY <1>8, QuietKeeps
     DEF Halt, Terminate, StopAfter, Complete, AttemptFails, BackoffInterrupted,
         FanOutFails, UnknownTarget, NoEdge, CallbackThrows, Throw, Return, loopVars
<1>9. CASE UNCHANGED vars
  BY <1>9, QuietKeeps DEF vars, loopVars
<1>10. QED
  BY <1>1, <1>2, <1>3, <1>4, <1>5, <1>6, <1>7, <1>8, <1>9 DEF Next, Call, Proceed

-----------------------------------------------------------------------------
(* Graphs whose edges decide: no resume of theirs loses anything.          *)

EdgeSteps(walk) == \A i \in 1..Len(walk) : walk[i].then = ToEdges

EdgesInv ==
  /\ EdgeSteps(state.walk)
  /\ EdgeSteps(Durables)
  /\ checkpoint # NoCheckpoint => checkpoint.last # NoNode

(* A walk whose steps ask for edges, extended by one that does.            *)
LEMMA ExtendEdgeSteps ==
  ASSUME NEW s \in RunState, NEW b \in Step, EdgeSteps(s.walk), b.then = ToEdges
  PROVE  EdgeSteps(Extend(s, b).walk)
<1>1. s.walk \in Seq(Step)
  BY DEF RunState
<1>2. QED BY <1>1, AppendProperties, LenProperties DEF Extend, EdgeSteps

(* No step was taken yet.                                                  *)
LEMMA EdgesInvInit == Init => EdgesInv
BY EmptySeq DEF Init, EdgesInv, EdgeSteps, NoState, NoCheckpoint, SavedAfter, Seed,
                Durables

(* In a graph that routes by its edges, every step keeps EdgesInv.         *)
LEMMA EdgesInvNext ==
  ASSUME EdgesDecide, TypeOK, EdgesInv, [Next]_vars
  PROVE  EdgesInv'
<1>1. EdgeSteps(<< >>)
  BY EmptySeq DEF EdgeSteps
<1>2. ASSUME EdgeSteps(state'.walk), UNCHANGED checkpoint PROVE EdgesInv'
  BY <1>2 DEF EdgesInv, Durables
<1>3. ASSUME NEW n \in StartNodes, NEW v \in Vals, Run(n, v) PROVE EdgesInv'
  BY <1>1, <1>2, <1>3 DEF Run, StartLoop, Seed
<1>4. CASE Resume
  <2>1. state' = checkpoint.state /\ UNCHANGED checkpoint
    BY <1>4 DEF Resume, ResumeWith, StartLoop
  <2>2. QED BY <1>2, <2>1 DEF EdgesInv, Durables
<1>5. ASSUME NEW v \in Vals, ResumeEdited(v) PROVE EdgesInv'
  <2> DEFINE b == Edit(checkpoint.last, v)
  <2>1. state' = Extend(checkpoint.state, b) /\ UNCHANGED checkpoint
    BY <1>5 DEF ResumeEdited, ResumeWith, StartLoop
  <2>2. checkpoint.last \in Nodes \union {NoNode} /\ checkpoint.state \in RunState
    BY DEF TypeOK, Checkpoint
  <2>3. b \in Step /\ b.then = ToEdges
    BY <2>2, StepTypes DEF NodeResult, Edit
  <2>4. EdgeSteps(checkpoint.state.walk)
    BY DEF EdgesInv, Durables
  <2>5. QED BY <1>2, <2>1, <2>2, <2>3, <2>4, ExtendEdgeSteps
<1>6. CASE AttemptSucceeds
  <2>1. PICK v \in Outputs[current], r \in Results[current] :
           state' = Extend(state, Exit(current, v, r))
    BY <1>6 DEF AttemptSucceeds
  <2>2. current \in Nodes /\ v \in Vals /\ r \in NodeResult /\ r = ToEdges
    BY <1>6, <2>1, ExecutorAssumption DEF AttemptSucceeds, TypeOK, EdgesDecide
  <2>3. Exit(current, v, r) \in Step /\ Exit(current, v, r).then = ToEdges
    BY <2>2, StepTypes DEF Exit
  <2>4. EdgeSteps(state'.walk)
    BY <2>1, <2>3, ExtendEdgeSteps DEF TypeOK, EdgesInv
  <2>5. QED BY <1>2, <1>6, <2>4 DEF AttemptSucceeds
<1>7. CASE FanOut
  <2>1. PICK v \in Outputs[current] : state' = Extend(state, Merge(current, v))
    BY <1>7 DEF FanOut
  <2>2. current \in Nodes /\ v \in Vals
    BY <1>7, <2>1, ExecutorAssumption DEF FanOut, TypeOK
  <2>3. Merge(current, v) \in Step /\ Merge(current, v).then = ToEdges
    BY <2>2, StepTypes DEF Merge, NodeResult
  <2>4. EdgeSteps(state'.walk)
    BY <2>1, <2>3, ExtendEdgeSteps DEF TypeOK, EdgesInv
  <2>5. QED BY <1>2, <1>7, <2>4 DEF FanOut
<1>8. CASE Save
  <2>1. /\ checkpoint' = SavedAfter(current, state)
        /\ UNCHANGED state
        /\ current \in Nodes
    BY <1>8 DEF Save, TypeOK, loopVars
  <2>2. QED BY <2>1, GraphAssumption DEF SavedAfter, EdgesInv, Durables
<1>9. CASE StopBefore
  BY <1>9 DEF StopBefore, Gated, EdgesDecide
<1>10. CASE Crash
  BY <1>1, <1>2, <1>10 DEF Crash, NoState, Seed
<1>11. ASSUME UNCHANGED <<state, checkpoint>> PROVE EdgesInv'
  BY <1>11 DEF EdgesInv, Durables
<1>12. CASE \/ ResumeThrows \/ Halt \/ Enter \/ AttemptRetried \/ AttemptFails
            \/ BackoffEnds \/ BackoffInterrupted \/ Terminate \/ StopAfter
            \/ Complete \/ Leave \/ FanOutFails \/ Route \/ UnknownTarget
            \/ NoEdge \/ CallbackThrows
  BY <1>11, <1>12
     DEF ResumeThrows, Halt, Enter, AttemptRetried, AttemptFails, BackoffEnds,
         BackoffInterrupted, Terminate, StopAfter, Complete, Leave, FanOutFails,
         Route, UnknownTarget, NoEdge, CallbackThrows, loopVars
<1>13. CASE UNCHANGED vars
  BY <1>11, <1>13 DEF vars, loopVars
<1>14. QED
  BY <1>3, <1>4, <1>5, <1>6, <1>7, <1>8, <1>9, <1>10, <1>12, <1>13
     DEF Next, Call, Proceed

SoundInv == ResumeInv /\ (EdgesDecide => EdgesInv)

(* Neither a careful operator nor a graph of edges loses anything.         *)
LEMMA NothingIsLost ==
  ASSUME Careful \/ EdgesDecide, TypeOK, EdgesDecide => EdgesInv
  PROVE  NoResumeLoses
<1> SUFFICES ASSUME NEW s \in RunState, MayResume(s) PROVE NothingLost(s)
  BY DEF NoResumeLoses
<1>1. CASE Careful
  BY <1>1 DEF MayResume
<1>2. CASE EdgesDecide
  <2>1. Durables # <<>> => Durables[Len(Durables)].then = ToEdges
    <3>1. Durables \in Seq(Step)
      BY DEF TypeOK, Checkpoint, RunState, Durables
    <3>2. Durables # <<>> => Len(Durables) \in 1..Len(Durables)
      BY <3>1, EmptySeq
    <3>3. QED BY <1>2, <3>2 DEF EdgesInv, EdgeSteps
  <2>2. InterruptBefore = {}
    BY <1>2 DEF EdgesDecide
  <2>3. checkpoint.last # NoNode
    BY <1>2 DEF MayResume, EdgesInv
  <2>4. QED BY <2>1, <2>2, <2>3 DEF NothingLost, Durables
<1>3. QED BY <1>1, <1>2

(* Every step keeps SoundInv, under either hypothesis.                     *)
LEMMA SoundInvNext ==
  ASSUME Careful \/ EdgesDecide, TypeOK, SoundInv, [Next]_vars
  PROVE  SoundInv'
<1>1. ResumeInv'
  BY NothingIsLost, ResumeInvNext DEF SoundInv
<1>2. EdgesDecide => EdgesInv'
  BY EdgesInvNext DEF SoundInv
<1>3. QED BY <1>1, <1>2 DEF SoundInv, EdgesDecide

-----------------------------------------------------------------------------
(* Resuming is sound: in memory and in the store, an execution is always   *)
(* the outcome of a legal walk from the node it was started at.            *)
THEOREM ResumeIsSound ==
  ASSUME Careful \/ EdgesDecide
  PROVE  Spec => []ResumeContinuesForward
<1>1. Init => SoundInv
  BY ResumeInvInit, EdgesInvInit DEF SoundInv
<1>2. SoundInv => ResumeContinuesForward
  BY DEF SoundInv, ResumeInv, WalkInv, ResumeContinuesForward, Durables
<1>3. QED
  BY <1>1, <1>2, SoundInvNext, TypeCorrect, PTL DEF Spec

(* DurableWalk's notion of a legal walk is the executor's.                 *)
LEMMA DurableLegalWalk ==
  ASSUME NEW w, NEW start
  PROVE  Durable!LegalWalk(w, start) <=> LegalWalk(w, start)
<1>1. ASSUME NEW n, NEW v
      PROVE  Durable!PickNext(n, v) = PickNext(n, v)
  BY DEF PickNext, Durable!PickNext, FirstMatch, Durable!FirstMatch,
         Matching, Durable!Matching
<1>2. ASSUME NEW b
      PROVE  Durable!Successor(b, start) = Successor(b, start)
  BY <1>1 DEF Successor, Durable!Successor
<1>3. ASSUME NEW b1, NEW b2
      PROVE  Durable!Leads(b1, b2, start) <=> Leads(b1, b2, start)
  BY <1>2 DEF Leads, Durable!Leads, ToSends, Durable!ToSends
<1>4. QED BY <1>3 DEF LegalWalk, Durable!LegalWalk

(* A write of the loop's state makes at most one node's execution durable, *)
(* behind what already was; a walk it does not change is not rewritten.    *)
LEMMA WriteRecords ==
  ASSUME TypeOK, ResumeInv, Save \/ StopBefore
  PROVE  Durable!Record \/ UNCHANGED <<checkpoint.state.walk, origin>>
<1> DEFINE w == Durables
           x == state.walk
<1>1. /\ pc \in {"top", "exited"}
      /\ checkpoint'.state.walk = x
      /\ UNCHANGED origin
  BY DEF Save, StopBefore, SavedAfter, SavedBefore
<1>2. w \in Seq(Step) /\ x \in Seq(Step)
  BY DEF TypeOK, Checkpoint, RunState, Durables
<1>3. /\ Continues(w, x)
      /\ \A i \in (Len(w) + 1)..Len(x) : x[i].kind = "exit" => i = Len(x)
      /\ LegalWalk(x, origin)
  BY <1>1 DEF ResumeInv, AheadInv, WalkInv, Before, After
<1>4. Len(w) \in Nat /\ Len(x) \in Nat
  BY <1>2, LenProperties
<1> HIDE DEF w, x
<1>5. SubSeq(x, 1, Len(w)) = w
  <2>1. \A i \in 1..Len(w) : x[i] \in Step
    BY <1>2, <1>3, <1>4, ElementOfSeq DEF Continues
  <2>2. /\ SubSeq(x, 1, Len(w)) \in Seq(Step)
        /\ Len(SubSeq(x, 1, Len(w))) = IF 1 <= Len(w) THEN Len(w) - 1 + 1 ELSE 0
        /\ \A i \in 1..(Len(w) - 1 + 1) : SubSeq(x, 1, Len(w))[i] = x[1 + i - 1]
    BY <1>4, <2>1, SubSeqProperties
  <2>3. Len(SubSeq(x, 1, Len(w))) = Len(w)
    BY <1>4, <2>2
  <2>4. \A i \in 1..Len(SubSeq(x, 1, Len(w))) : SubSeq(x, 1, Len(w))[i] = w[i]
    BY <1>3, <1>4, <2>2, <2>3 DEF Continues
  <2>5. QED BY <1>2, <2>2, <2>3, <2>4, SeqEqual
<1>6. \A i, j \in Durable!ExitsAfter(x, Len(w)) : i = j
  BY <1>3 DEF Durable!ExitsAfter
<1>7. Durable!LegalWalk(x, origin)
  BY <1>3, DurableLegalWalk
<1>8. CASE Len(w) = Len(x)
  <2>1. w = x
    BY <1>2, <1>3, <1>4, <1>8, SeqEqual DEF Continues
  <2>2. QED BY <1>1, <2>1 DEF w, Durables
<1>9. CASE Len(w) # Len(x)
  <2>1. Len(w) < Len(x)
    BY <1>3, <1>4, <1>9 DEF Continues
  <2>2. QED
    BY <1>1, <1>5, <1>6, <1>7, <2>1 DEF Durable!Record, w, Durables
<1>10. QED BY <1>8, <1>9

(* A new run maps to the beginning of a durable walk.                      *)
LEMMA RunBegins ==
  ASSUME NEW n \in StartNodes, NEW v \in Vals, Run(n, v)
  PROVE  Durable!Begin
BY ExecutorAssumption DEF Run, Durable!Begin, NoCheckpoint, SavedAfter, NoState,
                          Seed

(* What the checkpoints of an execution hold implements DurableWalk: runs  *)
(* begin walks, writes record steps of it, and everything else, crashes    *)
(* and resumes included, is invisible.                                     *)
THEOREM CheckpointsImplementDurableWalk ==
  ASSUME Careful \/ EdgesDecide
  PROVE  Spec => DurableSpec
<1>1. Init => Durable!Init /\ SoundInv
  BY ResumeInvInit, EdgesInvInit
     DEF Init, Durable!Init, NoCheckpoint, SavedAfter, NoState, Seed, SoundInv
<1>2. ASSUME TypeOK, ResumeInv, [Next]_vars
      PROVE  [Durable!Next]_<<checkpoint.state.walk, origin>>
  <2>1. ASSUME NEW n \in StartNodes, NEW v \in Vals, Run(n, v)
        PROVE  Durable!Next
    BY <2>1, RunBegins DEF Durable!Next
  <2>2. CASE Save \/ StopBefore
    BY <1>2, <2>2, WriteRecords DEF Durable!Next
  <2>3. ASSUME UNCHANGED <<checkpoint, origin>>
        PROVE  UNCHANGED <<checkpoint.state.walk, origin>>
    BY <2>3
  <2>4. CASE Resume \/ ResumeThrows \/ \E v \in Vals : ResumeEdited(v)
    BY <2>3, <2>4 DEF Resume, ResumeThrows, ResumeEdited
  <2>5. CASE \/ Halt \/ Enter \/ AttemptSucceeds \/ AttemptRetried \/ AttemptFails
             \/ BackoffEnds \/ BackoffInterrupted \/ Terminate \/ StopAfter
             \/ Complete \/ Leave \/ FanOut \/ FanOutFails \/ Route
             \/ UnknownTarget \/ NoEdge \/ CallbackThrows \/ Crash
    BY <2>3, <2>5
       DEF Halt, Enter, AttemptSucceeds, AttemptRetried, AttemptFails,
           BackoffEnds, BackoffInterrupted, Terminate, StopAfter, Complete,
           Leave, FanOut, FanOutFails, Route, UnknownTarget, NoEdge,
           CallbackThrows, Crash
  <2>6. CASE UNCHANGED vars
    BY <2>3, <2>6 DEF vars
  <2>7. QED
    BY <1>2, <2>1, <2>2, <2>4, <2>5, <2>6 DEF Next, Call, Proceed
<1>3. SoundInv => ResumeInv
  BY DEF SoundInv
<1>4. QED
  BY <1>1, <1>2, <1>3, SoundInvNext, TypeCorrect, PTL
     DEF Spec, DurableSpec, Durable!Spec

-----------------------------------------------------------------------------
(***************************************************************************)
(* What the walk of the second part makes of a call's end: what a crash    *)
(* may lose, what COMPLETED means, that a gate is asked before its node    *)
(* runs, and that the resume after it runs that node.                      *)
(***************************************************************************)

(* A crash loses the node that has exited and is not yet saved, and no     *)
(* other (AheadInv): checkpoints are written after every node.             *)
THEOREM CrashLosesOne ==
  ASSUME Careful \/ EdgesDecide
  PROVE  Spec => []CrashLosesOneNode
<1>1. Init => SoundInv
  BY ResumeInvInit, EdgesInvInit DEF SoundInv
<1>2. TypeOK /\ SoundInv => CrashLosesOneNode
  <2> SUFFICES ASSUME TypeOK, ResumeInv, pc \notin {"idle", "stopped"}
               PROVE  CrashLosesOneNode
    BY DEF SoundInv, CrashLosesOneNode
  <2> DEFINE n == Len(state.walk)
             m == Len(Durables)
  <2>1. pc \in Before \union After
    BY DEF TypeOK, PCs, Before, After
  <2>2. /\ m <= n
        /\ \A i \in 1..m : state.walk[i] = Durables[i]
        /\ \A i \in (m + 1)..n : state.walk[i].kind = "exit" => pc = "exited" /\ i = n
        /\ pc = "exited" => m < n /\ state.walk[n].kind = "exit"
    BY <2>1 DEF ResumeInv, AheadInv, PositionInv, Continues, LastStep
  <2>3. m \in Nat /\ n \in Nat
    BY LenProperties DEF TypeOK, Checkpoint, RunState, Durables
  <2> HIDE DEF m, n
  <2>4. pc = "exited" => n \in (m + 1)..n /\ state.walk[n].kind = "exit"
    BY <2>2, <2>3
  <2>5. {i \in (m + 1)..n : state.walk[i].kind = "exit"} =
          IF pc = "exited" THEN {n} ELSE {}
    BY <2>2, <2>4
  <2>6. QED BY <2>2, <2>5 DEF CrashLosesOneNode, Durables, m, n
<1>3. QED BY <1>1, <1>2, SoundInvNext, TypeCorrect, PTL DEF Spec

-----------------------------------------------------------------------------
(* Gates                                                                   *)

(* A gate is open only at the head of the loop, and only where the         *)
(* checkpoint says that the interrupt is pending.                          *)
GateInv ==
  /\ pc = "top" /\ gateOpen => checkpoint.pending
  /\ pc \in {"invoke", "backoff"} \union After => ~gateOpen

(* Every step keeps GateInv: an entry opens the gate for a pending          *)
(* checkpoint, Enter shuts it, and nothing is saved in between.            *)
LEMMA GateInvNext == GateInv /\ [Next]_vars => GateInv'
<1> SUFFICES ASSUME GateInv, [Next]_vars PROVE GateInv'
  OBVIOUS
<1> USE DEF GateInv, After
<1>1. ASSUME NEW n \in StartNodes, NEW v \in Vals, Run(n, v) PROVE GateInv'
  BY <1>1 DEF Run, StartLoop
<1>2. ASSUME NEW s, ResumeWith(s), UNCHANGED checkpoint PROVE GateInv'
  <2>1. Latest.pending => checkpoint.pending
    BY DEF Latest
  <2>2. CASE pc' = "stopped"
    BY <2>2
  <2>3. CASE pc' # "stopped"
    <3>1. pc' = "top" /\ gateOpen' = Latest.pending
      BY <1>2, <2>3 DEF ResumeWith, Return, StartLoop
    <3>2. QED BY <1>2, <2>1, <3>1
  <2>4. QED BY <2>2, <2>3
<1>3. CASE Resume \/ \E v \in Vals : ResumeEdited(v)
  BY <1>2, <1>3 DEF Resume, ResumeEdited
<1>4. CASE Halt \/ StopBefore \/ ResumeThrows \/ AttemptFails \/ BackoffInterrupted
           \/ Terminate \/ StopAfter \/ Complete \/ FanOutFails \/ UnknownTarget
           \/ NoEdge \/ CallbackThrows \/ Crash
  <2>1. pc' = "stopped"
    BY <1>4 DEF Halt, StopBefore, ResumeThrows, AttemptFails, BackoffInterrupted,
                Terminate, StopAfter, Complete, FanOutFails, UnknownTarget, NoEdge,
                CallbackThrows, Crash, Return, Throw
  <2>2. QED BY <2>1
<1>5. CASE Enter
  BY <1>5 DEF Enter
<1>6. CASE AttemptSucceeds \/ AttemptRetried \/ BackoffEnds \/ Save \/ Leave \/ FanOut
  <2>1. pc \in {"invoke", "backoff"} \union After /\ UNCHANGED gateOpen /\ pc' # "top"
    BY <1>6 DEF AttemptSucceeds, AttemptRetried, BackoffEnds, Save, Leave, FanOut,
                loopVars
  <2>2. QED BY <2>1
<1>7. CASE Route
  BY <1>7 DEF Route
<1>8. CASE UNCHANGED vars
  BY <1>8 DEF vars, loopVars
<1>9. QED
  BY <1>1, <1>3, <1>4, <1>5, <1>6, <1>7, <1>8 DEF Next, Call, Proceed

(* Where an execution stopped before a node, that node is due after what   *)
(* its checkpoint holds.                                                   *)
StoppedInv ==
  /\ pc = "saved" => ~checkpoint.pending
  /\ pc = "stopped" /\ status = "INTERRUPTED" /\ checkpoint.pending =>
       Due(Durables, origin) = current /\ current \in Nodes

(* StopBefore establishes StoppedInv; other steps that stop end otherwise, *)
(* or right after a Save.                                                  *)
LEMMA StoppedInvNext ==
  TypeOK /\ PositionInv /\ StoppedInv /\ [Next]_vars => StoppedInv'
<1> SUFFICES ASSUME TypeOK, PositionInv, StoppedInv, [Next]_vars PROVE StoppedInv'
  OBVIOUS
<1> USE DEF StoppedInv
<1>1. CASE StopBefore
  <2>1. /\ pc = "top" /\ pc' = "stopped" /\ UNCHANGED <<current, origin>>
        /\ Durables' = state.walk
    BY <1>1 DEF StopBefore, SavedBefore, Return, loopVars, Durables
  <2>2. Due(state.walk, origin) = current /\ current \in Nodes
    BY <2>1 DEF PositionInv, Before, TypeOK
  <2>3. QED BY <2>1, <2>2 DEF Due, Successor, PickNext
<1>2. CASE Save
  BY <1>2 DEF Save, SavedAfter
<1>3. CASE StopAfter
  BY <1>3 DEF StopAfter
<1>4. ASSUME NEW n \in StartNodes, NEW v \in Vals, Run(n, v) PROVE StoppedInv'
  BY <1>4 DEF Run, StartLoop
<1>5. ASSUME NEW s, ResumeWith(s), pc = "stopped" PROVE StoppedInv'
  <2>1. pc' = "top" \/ (pc' = "stopped" /\ status' = "COMPLETED")
    BY <1>5 DEF ResumeWith, StartLoop, Return
  <2>2. QED BY <2>1
<1>6. CASE Resume \/ \E v \in Vals : ResumeEdited(v)
  BY <1>5, <1>6 DEF Resume, ResumeEdited, MayResume
<1>7. CASE Halt \/ ResumeThrows \/ AttemptFails \/ BackoffInterrupted \/ Terminate
           \/ Complete \/ FanOutFails \/ UnknownTarget \/ NoEdge
           \/ CallbackThrows \/ Crash
  <2>1. pc' = "stopped" /\ status' # "INTERRUPTED"
    BY <1>7 DEF Halt, ResumeThrows, AttemptFails, BackoffInterrupted, Terminate,
                Complete, FanOutFails, UnknownTarget, NoEdge, CallbackThrows, Crash,
                Return, Throw
  <2>2. QED BY <2>1
<1>8. CASE Enter \/ AttemptSucceeds \/ AttemptRetried \/ BackoffEnds \/ Leave
           \/ FanOut \/ Route
  <2>1. pc' \notin {"saved", "stopped"}
    BY <1>8 DEF Enter, AttemptSucceeds, AttemptRetried, BackoffEnds, Leave, FanOut, Route
  <2>2. QED BY <2>1
<1>9. CASE UNCHANGED vars
  <2>1. UNCHANGED <<pc, status, current, checkpoint, origin>>
    BY <1>9 DEF vars, loopVars
  <2>2. Due(Durables, origin)' = Due(Durables, origin)
    BY <2>1 DEF Due, Successor, PickNext, Durables
  <2>3. QED BY <2>1, <2>2
<1>10. QED
  BY <1>1, <1>2, <1>3, <1>4, <1>6, <1>7, <1>8, <1>9 DEF Next, Call, Proceed

(* A checkpoint with a pending interrupt knows the gate it was saved in    *)
(* front of: the node due after the walk it holds.                         *)
GatedInv == checkpoint.pending => Due(Durables, origin) = checkpoint.gate

(* Only StopBefore saves a pending interrupt, and a new run begins where   *)
(* there is no checkpoint.                                                 *)
LEMMA GatedInvNext == PositionInv /\ GatedInv /\ [Next]_vars => GatedInv'
<1> SUFFICES ASSUME PositionInv, GatedInv, [Next]_vars PROVE GatedInv'
  OBVIOUS
<1> USE DEF GatedInv
<1>1. CASE StopBefore
  <2>1. /\ pc = "top" /\ UNCHANGED origin
        /\ Durables' = state.walk /\ checkpoint'.gate = current
    BY <1>1 DEF StopBefore, SavedBefore, Durables
  <2>2. Due(state.walk, origin) = current
    BY <2>1 DEF PositionInv, Before
  <2>3. QED BY <2>1, <2>2 DEF Due, Successor, PickNext
<1>2. CASE Save
  BY <1>2 DEF Save, SavedAfter
<1>3. ASSUME NEW n \in StartNodes, NEW v \in Vals, Run(n, v) PROVE GatedInv'
  BY <1>3 DEF Run, NoCheckpoint, SavedAfter
<1>4. CASE UNCHANGED <<checkpoint, origin>>
  BY <1>4 DEF Due, Successor, PickNext, Durables
<1>5. CASE \/ Resume \/ (\E v \in Vals : ResumeEdited(v)) \/ ResumeThrows \/ Halt
           \/ Enter \/ AttemptSucceeds \/ AttemptRetried \/ AttemptFails
           \/ BackoffEnds \/ BackoffInterrupted \/ Terminate \/ StopAfter
           \/ Complete \/ Leave \/ FanOut \/ FanOutFails \/ Route
           \/ UnknownTarget \/ NoEdge \/ CallbackThrows \/ Crash
  BY <1>4, <1>5
     DEF Resume, ResumeEdited, ResumeThrows, Halt, Enter, AttemptSucceeds,
         AttemptRetried, AttemptFails, BackoffEnds, BackoffInterrupted, Terminate,
         StopAfter, Complete, Leave, FanOut, FanOutFails, Route, UnknownTarget,
         NoEdge, CallbackThrows, Crash
<1>6. QED
  BY <1>1, <1>2, <1>3, <1>4, <1>5 DEF Next, Call, Proceed, vars

(* Where nothing is lost, a resume with the saved state and a pending      *)
(* interrupt runs the node due.                                            *)
LEMMA PendingTarget ==
  ASSUME CheckpointInv, checkpoint # NoCheckpoint, Latest.pending,
         NothingLost(checkpoint.state)
  PROVE  ResumeTarget(Latest, checkpoint.state) = Due(Durables, origin)
<1> DEFINE s == checkpoint.state
<1>1. Latest = checkpoint /\ checkpoint.pending
  BY DEF Latest
<1>2. IF checkpoint.last = NoNode
      THEN Durables = <<>>
      ELSE EndsAt(Durables, checkpoint.last, s.val)
  BY DEF CheckpointInv
<1>3. CASE checkpoint.last = NoNode
  BY <1>1, <1>2, <1>3 DEF ResumeTarget, NothingLost, Due
<1>4. CASE checkpoint.last # NoNode
  <2>1. ResumeTarget(checkpoint, s) = PickNext(checkpoint.last, s.val)
    BY <1>1, <1>4 DEF ResumeTarget
  <2>2. Durables # <<>> /\ Durables[Len(Durables)].then = ToEdges
    BY <1>2, <1>4 DEF EndsAt, NothingLost, Durables
  <2>3. QED
    BY <1>1, <1>2, <1>4, <2>1, <2>2 DEF EndsAt, Due, Successor, ToEdges
<1>5. QED BY <1>3, <1>4

(* The resume of an execution that stopped before a node runs that node    *)
(* with its gate open, when nothing is lost and the store keeps the        *)
(* interrupt (JdbcCheckpointStore does not).                               *)
THEOREM ResumesRunTheGatedNode ==
  ASSUME Careful \/ EdgesDecide, StoreKeepsPending
  PROVE  Spec => ResumeRunsGatedNode
<1>1. Init => SoundInv /\ StoppedInv
  BY ResumeInvInit, EdgesInvInit DEF SoundInv, Init, StoppedInv
<1>2. TypeOK /\ SoundInv /\ StoppedInv /\ [Next]_vars =>
        [Resume /\ status = "INTERRUPTED" /\ checkpoint.pending
           => pc' = "top" /\ current' = current /\ gateOpen']_vars
  <2> SUFFICES ASSUME TypeOK, SoundInv, StoppedInv,
                      Resume, status = "INTERRUPTED", checkpoint.pending
               PROVE  pc' = "top" /\ current' = current /\ gateOpen'
    OBVIOUS
  <2> DEFINE s == checkpoint.state
  <2>1. /\ pc = "stopped" /\ checkpoint # NoCheckpoint /\ MayResume(s)
        /\ ResumeWith(s) /\ Latest = checkpoint
    BY DEF Resume, MayResume, Latest
  <2>2. s \in RunState /\ s.walk = Durables
    BY DEF TypeOK, Checkpoint, Durables
  <2>3. NothingLost(s)
    BY <2>1, <2>2, NothingIsLost DEF NoResumeLoses, SoundInv
  <2>4. Due(Durables, origin) = current /\ current \in Nodes
    BY <2>1 DEF StoppedInv
  <2>5. CheckpointInv
    BY DEF SoundInv, ResumeInv
  <2>6. ResumeTarget(checkpoint, s) = current
    BY <2>1, <2>3, <2>4, <2>5, PendingTarget
  <2>7. current # NoNode
    BY <2>4, GraphAssumption
  <2>8. StartLoop(current, s, checkpoint.pending)
    BY <2>1, <2>6, <2>7 DEF ResumeWith
  <2>9. QED BY <2>8 DEF StartLoop
<1>3. SoundInv => PositionInv
  BY DEF SoundInv, ResumeInv
<1>4. QED
  BY <1>1, <1>2, <1>3, SoundInvNext, StoppedInvNext, TypeCorrect, PTL
     DEF Spec, ResumeRunsGatedNode

(* An edit makes a state of its own.                                       *)
LEMMA EditsDiffer ==
  ASSUME NEW s \in RunState, NEW b \in Step
  PROVE  Extend(s, b) # s
<1>1. s.walk \in Seq(Step) /\ Extend(s, b).walk = Append(s.walk, b)
  BY DEF RunState, Extend
<1>2. Len(Append(s.walk, b)) = Len(s.walk) + 1 /\ Len(s.walk) \in Nat
  BY <1>1, AppendProperties, LenProperties
<1>3. QED BY <1>1, <1>2

(* While a gate is open for the state that was saved, the loop is at the   *)
(* node the checkpoint was saved in front of.                              *)
OpenedInv ==
  pc = "top" /\ gateOpen /\ state = checkpoint.state => current = checkpoint.gate

(* Only a resume opens a gate.                                             *)
LEMMA OpenedInvNext ==
  ASSUME Careful, TypeOK, SoundInv, GateInv, GatedInv, OpenedInv, [Next]_vars
  PROVE  OpenedInv'
<1> USE DEF OpenedInv
<1>1. ASSUME NEW n \in StartNodes, NEW v \in Vals, Run(n, v) PROVE OpenedInv'
  BY <1>1 DEF Run, StartLoop
<1>2. CASE Resume
  <2> DEFINE s == checkpoint.state
  <2>1. /\ checkpoint # NoCheckpoint /\ ResumeWith(s) /\ UNCHANGED checkpoint
        /\ NothingLost(s) /\ CheckpointInv
    BY <1>2 DEF Resume, MayResume, SoundInv, ResumeInv
  <2>2. SUFFICES ASSUME pc' = "top", gateOpen' PROVE current' = checkpoint.gate
    BY <2>1
  <2>3. current' = ResumeTarget(Latest, s) /\ Latest.pending
    BY <2>1, <2>2 DEF ResumeWith, StartLoop, Return
  <2>4. current' = Due(Durables, origin)
    BY <2>1, <2>3, PendingTarget
  <2>5. QED BY <2>3, <2>4 DEF GatedInv, Latest
<1>3. ASSUME NEW v \in Vals, ResumeEdited(v) PROVE OpenedInv'
  <2> DEFINE b == Edit(checkpoint.last, v)
  <2>1. checkpoint.state \in RunState /\ b \in Step
    BY StepTypes DEF TypeOK, Checkpoint, NodeResult
  <2>2. state' = Extend(checkpoint.state, b) /\ UNCHANGED checkpoint
    BY <1>3 DEF ResumeEdited, ResumeWith, StartLoop
  <2>3. QED BY <2>1, <2>2, EditsDiffer
<1>4. CASE Halt \/ StopBefore \/ ResumeThrows \/ AttemptFails \/ BackoffInterrupted
           \/ Terminate \/ StopAfter \/ Complete \/ FanOutFails \/ UnknownTarget
           \/ NoEdge \/ CallbackThrows \/ Crash
  <2>1. pc' = "stopped"
    BY <1>4 DEF Halt, StopBefore, ResumeThrows, AttemptFails, BackoffInterrupted,
                Terminate, StopAfter, Complete, FanOutFails, UnknownTarget, NoEdge,
                CallbackThrows, Crash, Return, Throw
  <2>2. QED BY <2>1
<1>5. CASE \/ Enter \/ AttemptSucceeds \/ AttemptRetried \/ BackoffEnds \/ Save
           \/ Leave \/ FanOut
  <2>1. pc' # "top"
    BY <1>5 DEF Enter, AttemptSucceeds, AttemptRetried, BackoffEnds, Save, Leave, FanOut
  <2>2. QED BY <2>1
<1>6. CASE Route
  BY <1>6 DEF Route, GateInv, After
<1>7. CASE UNCHANGED vars
  BY <1>7 DEF vars, loopVars
<1>8. QED
  BY <1>1, <1>2, <1>3, <1>4, <1>5, <1>6, <1>7 DEF Next, Call, Proceed

(* interruptBefore holds, on every graph and with either store, for an     *)
(* operator who resumes where nothing is lost: a gated node is entered     *)
(* only while its own interrupt is the latest checkpoint, or, after an     *)
(* edit, while one is and the edges chose the node for the edited state.   *)
THEOREM GatesAreAsked ==
  ASSUME Careful
  PROVE  Spec => GateHolds
<1> DEFINE Inv == SoundInv /\ GateInv /\ GatedInv /\ OpenedInv
<1>1. Init => Inv
  BY ResumeInvInit, EdgesInvInit
     DEF Init, SoundInv, GateInv, GatedInv, OpenedInv, After, NoCheckpoint, SavedAfter
<1>2. TypeOK /\ Inv /\ [Next]_vars => Inv'
  BY SoundInvNext, GateInvNext, GatedInvNext, OpenedInvNext DEF SoundInv, ResumeInv
<1>3. Inv /\ [Next]_vars =>
        [pc = "top" /\ pc' = "invoke" /\ current \in InterruptBefore
           => /\ checkpoint.pending
              /\ state = checkpoint.state => checkpoint.gate = current]_vars
  <2> SUFFICES ASSUME GateInv, OpenedInv, Next, pc = "top", pc' = "invoke",
                      current \in InterruptBefore
               PROVE  /\ checkpoint.pending
                      /\ state = checkpoint.state => checkpoint.gate = current
    OBVIOUS
  <2>1. Enter
    BY DEF Next, Call, Proceed, Run, StartLoop, Resume, ResumeEdited, MayResume,
           ResumeThrows, Halt, StopBefore, Return, AttemptSucceeds, AttemptRetried,
           AttemptFails, BackoffEnds, BackoffInterrupted, Save, Terminate, StopAfter,
           Complete, Leave, FanOut, FanOutFails, Route, UnknownTarget, NoEdge,
           CallbackThrows, Throw, Crash
  <2>2. gateOpen
    BY <2>1 DEF Enter, Gated
  <2>3. QED BY <2>2 DEF GateInv, OpenedInv
<1> HIDE DEF Inv
<1>4. QED BY <1>1, <1>2, <1>3, TypeCorrect, PTL DEF Spec, GateHolds

-----------------------------------------------------------------------------
(* Completion                                                              *)

(* A checkpoint that names no node is one of a pending interrupt.          *)
PendingInv ==
  checkpoint # NoCheckpoint /\ checkpoint.last = NoNode => checkpoint.pending

(* Only StopBefore and Save write checkpoints, and Save names a node.      *)
LEMMA PendingInvNext == TypeOK /\ PendingInv /\ [Next]_vars => PendingInv'
<1> SUFFICES ASSUME TypeOK, PendingInv, [Next]_vars PROVE PendingInv'
  OBVIOUS
<1>1. CASE UNCHANGED checkpoint
  BY <1>1 DEF PendingInv, NoCheckpoint, SavedAfter
<1>2. CASE StopBefore
  BY <1>2 DEF StopBefore, SavedBefore, PendingInv
<1>3. CASE Save
  <2>1. current \in Nodes /\ checkpoint'.last = current
    BY <1>3 DEF Save, SavedAfter, TypeOK
  <2>2. QED BY <2>1, GraphAssumption DEF PendingInv
<1>4. Next => UNCHANGED checkpoint \/ StopBefore \/ Save
  BY DEF Next, Call, Proceed, Run, Resume, ResumeEdited, ResumeThrows, Halt, Enter,
         AttemptSucceeds, AttemptRetried, AttemptFails, BackoffEnds,
         BackoffInterrupted, Terminate, StopAfter, Complete, Leave, FanOut,
         FanOutFails, Route, UnknownTarget, NoEdge, CallbackThrows, Crash
<1>5. QED BY <1>1, <1>2, <1>3, <1>4 DEF vars

(* A resume that finds nothing left to run finds a finished walk.          *)
LEMMA NothingLeftToRun ==
  ASSUME (Careful /\ StoreKeepsPending) \/ EdgesDecide,
         TypeOK, SoundInv, PendingInv, checkpoint # NoCheckpoint,
         NEW s \in RunState, ResumeTarget(Latest, s) = NoNode,
         checkpoint.last # NoNode =>
           /\ EndsAt(s.walk, checkpoint.last, s.val)
           /\ s.walk[Len(s.walk)].then = ToEdges
  PROVE  Finished(s.walk, origin)
<1> DEFINE z == s.walk[Len(s.walk)]
<1>1. Latest.last = checkpoint.last
  BY LatestType DEF Latest, TypeOK, Checkpoint
<1>2. checkpoint.last # NoNode
  <2>1. CASE EdgesDecide
    BY <2>1 DEF SoundInv, EdgesInv
  <2>2. CASE StoreKeepsPending
    <3>1. Latest = checkpoint
      BY <2>2 DEF Latest
    <3>2. QED BY <3>1, GraphAssumption DEF PendingInv, ResumeTarget
  <2>3. QED BY <2>1, <2>2
<1>3. s.walk # <<>> /\ z.node = checkpoint.last /\ z.val = s.val /\ z.then = ToEdges
  BY <1>2 DEF EndsAt
<1>4. checkpoint.last \in Terminals \/ PickNext(checkpoint.last, s.val) = NoNode
  BY <1>1, <1>2 DEF ResumeTarget
<1>5. CASE checkpoint.last \in Terminals
  BY <1>3, <1>5 DEF Finished
<1>6. CASE PickNext(checkpoint.last, s.val) = NoNode
  <2>1. Successor(z, origin) = NoNode
    BY <1>2, <1>3, <1>6 DEF Successor, ToEdges
  <2>2. QED BY <1>3, <2>1 DEF Finished
<1>7. QED BY <1>4, <1>5, <1>6

(* COMPLETED means that the walk is at its end, where nothing is lost and  *)
(* the store keeps the interrupt, or the edges decide.                     *)
THEOREM CompletionIsFinal ==
  ASSUME (Careful /\ StoreKeepsPending) \/ EdgesDecide
  PROVE  Spec => []CompletedMeansFinished
<1>1. Init => SoundInv /\ PendingInv /\ CompletedMeansFinished
  BY ResumeInvInit, EdgesInvInit
     DEF SoundInv, Init, PendingInv, CompletedMeansFinished
<1>2. ASSUME TypeOK, SoundInv, PendingInv, CompletedMeansFinished, [Next]_vars
      PROVE  CompletedMeansFinished'
  <2> USE <1>2
  <2>1. ASSUME NEW n \in StartNodes, NEW v \in Vals, Run(n, v)
        PROVE  CompletedMeansFinished'
    BY <2>1 DEF Run, StartLoop, CompletedMeansFinished
  <2>2. ASSUME NEW s \in RunState, ResumeWith(s), UNCHANGED origin,
               ResumeTarget(Latest, s) = NoNode => Finished(s.walk, origin)
        PROVE  CompletedMeansFinished'
    <3>1. CASE ResumeTarget(Latest, s) = NoNode
      <4>1. state' = s /\ Finished(s.walk, origin)
        BY <2>2, <3>1 DEF ResumeWith
      <4>2. QED
        BY <2>2, <4>1 DEF CompletedMeansFinished, Finished, Successor, PickNext
    <3>2. CASE ResumeTarget(Latest, s) # NoNode
      BY <2>2, <3>2 DEF ResumeWith, StartLoop, CompletedMeansFinished
    <3>3. QED BY <3>1, <3>2
  <2>3. CASE Resume
    <3> DEFINE s == checkpoint.state
    <3>1. /\ checkpoint # NoCheckpoint /\ MayResume(s) /\ ResumeWith(s)
          /\ UNCHANGED origin
      BY <2>3 DEF Resume, MayResume
    <3>2. s \in RunState
      BY DEF TypeOK, Checkpoint
    <3>3. NothingLost(s)
      BY <3>1, <3>2, NothingIsLost DEF NoResumeLoses, SoundInv
    <3>4. checkpoint.last # NoNode =>
            EndsAt(s.walk, checkpoint.last, s.val) /\ s.walk[Len(s.walk)].then = ToEdges
      BY <3>1, <3>3
         DEF SoundInv, ResumeInv, CheckpointInv, NothingLost, EndsAt, Durables
    <3> HIDE DEF s
    <3>5. ResumeTarget(Latest, s) = NoNode => Finished(s.walk, origin)
      BY <3>1, <3>2, <3>4, NothingLeftToRun
    <3>6. QED BY <2>2, <3>1, <3>2, <3>5
  <2>4. ASSUME NEW v \in Vals, ResumeEdited(v) PROVE CompletedMeansFinished'
    <3> DEFINE e == Edit(checkpoint.last, v)
               s == Extend(checkpoint.state, e)
    <3>1. checkpoint # NoCheckpoint /\ ResumeWith(s) /\ UNCHANGED origin
      BY <2>4 DEF ResumeEdited, MayResume
    <3>2. /\ checkpoint.state \in RunState
          /\ e \in Step /\ e.node = checkpoint.last /\ e.then = ToEdges
      BY StepTypes DEF TypeOK, Checkpoint, NodeResult, Edit
    <3> HIDE DEF e
    <3>3. /\ s \in RunState /\ EndsAt(s.walk, checkpoint.last, s.val)
          /\ s.walk[Len(s.walk)].then = ToEdges
      BY <3>2, ExtendType, ExtendEnds
    <3> HIDE DEF s
    <3>4. ResumeTarget(Latest, s) = NoNode => Finished(s.walk, origin)
      BY <3>1, <3>3, NothingLeftToRun
    <3>5. QED BY <2>2, <3>1, <3>3, <3>4
  <2>5. CASE Complete
    <3>1. /\ pc = "saved" /\ current \in Terminals
          /\ UNCHANGED <<state, origin>>
      BY <2>5 DEF Complete, loopVars
    <3>2. EndsAt(state.walk, current, state.val)
      BY <3>1 DEF SoundInv, ResumeInv, PositionInv, After
    <3>3. Finished(state.walk, origin)
      BY <3>1, <3>2 DEF EndsAt, Finished
    <3>4. QED BY <3>1, <3>3 DEF CompletedMeansFinished, Finished, Successor, PickNext
  <2>6. CASE NoEdge
    <3>1. /\ pc = "route" /\ ~AskedFor /\ Target \notin Nodes
          /\ UNCHANGED <<state, origin>>
      BY <2>6 DEF NoEdge, loopVars
    <3>2. EndsAt(state.walk, current, state.val) /\ LastStep.then # ToSends
      BY <3>1 DEF SoundInv, ResumeInv, PositionInv, After
    <3>3. /\ current \in Nodes /\ state.val \in Vals /\ current # NoNode
          /\ state.walk \in Seq(Step)
      BY <3>1, GraphAssumption DEF TypeOK, RunState
    <3>4. LastStep \in Step
      BY <3>2, <3>3, EmptySeq DEF LastStep, EndsAt
    <3>5. LastStep.then = ToEdges
      BY <3>1, <3>2, <3>4 DEF AskedFor, Step, NodeResult, ToEdges, ToSends, ToNode
    <3>6. PickNext(current, state.val) = NoNode
      BY <3>1, <3>3, PickNextType DEF Target
    <3>7. Successor(LastStep, origin) = NoNode
      BY <3>2, <3>3, <3>5, <3>6 DEF Successor, EndsAt, LastStep, ToEdges
    <3>8. Finished(state.walk, origin)
      BY <3>2, <3>5, <3>7 DEF Finished, EndsAt, LastStep
    <3>9. QED BY <3>1, <3>8 DEF CompletedMeansFinished, Finished, Successor, PickNext
  <2>7. CASE Halt \/ StopBefore \/ StopAfter \/ ResumeThrows \/ AttemptFails
             \/ BackoffInterrupted \/ Terminate \/ FanOutFails \/ UnknownTarget
             \/ CallbackThrows \/ Crash
    <3>1. status' # "COMPLETED"
      BY <2>7 DEF Halt, StopBefore, StopAfter, ResumeThrows, AttemptFails,
                  BackoffInterrupted, Terminate, FanOutFails, UnknownTarget,
                  CallbackThrows, Crash, Return, Throw
    <3>2. QED BY <3>1 DEF CompletedMeansFinished
  <2>8. CASE Enter \/ AttemptSucceeds \/ AttemptRetried \/ BackoffEnds \/ Save
             \/ Leave \/ FanOut \/ Route
    <3>1. pc' # "stopped"
      BY <2>8 DEF Enter, AttemptSucceeds, AttemptRetried, BackoffEnds, Save, Leave,
                  FanOut, Route
    <3>2. QED BY <3>1 DEF CompletedMeansFinished
  <2>9. CASE UNCHANGED vars
    BY <2>9 DEF vars, loopVars, CompletedMeansFinished, Finished, Successor, PickNext
  <2>10. QED
    BY <1>2, <2>1, <2>3, <2>4, <2>5, <2>6, <2>7, <2>8, <2>9 DEF Next, Call, Proceed
<1>3. QED
  BY <1>1, <1>2, SoundInvNext, PendingInvNext, TypeCorrect, PTL DEF Spec
=============================================================================
