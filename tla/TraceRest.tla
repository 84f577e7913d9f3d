------------------------------ MODULE TraceRest ------------------------------
(***************************************************************************)
(* The REST endpoints that start executions out of stored traces: replay,  *)
(* fork and resume of TraceReplayController, and delete of TraceController *)
(* beside them, each on a request thread of its own.  They meet in the     *)
(* trace store, in the checkpoints, in RecordingTraceRecorder's builders   *)
(* and staged lineage, and in the semaphore that bounds replays.           *)
(*                                                                         *)
(* The graph is a line of nodes 1 .. LastNode, some of them gated by       *)
(* interruptBefore (graphs of any shape are GraphExecutor's subject).  A   *)
(* state is the number of nodes whose work is in it, so node n is right to *)
(* start from state n - 1; Null is Java's null.  A trace is indexed from   *)
(* 1, and step 0 here is the code's step -1, the beginning.                *)
(***************************************************************************)
EXTENDS Integers, Sequences, FiniteSets

CONSTANTS
  Requests,       \* request threads
  LastNode,
  Gates,          \* interruptBefore
  MaxConcurrent,  \* tracegraph.web.replay.max-concurrent
  Habits,         \* what the clients do: see AllHabits
  MaxRuns,        \* bound: executions
  MaxResumes      \* bound: resumes of all executions

(* Clients may replay or fork a step that failed; resume what was forked;  *)
(* replay from the beginning a trace whose initial state is not that of    *)
(* the entry, because it was resumed or forked from a later step; resume   *)
(* an execution that somebody else is resuming.                            *)
AllHabits == {"replayFailed", "resumeForks", "replayMiddle", "resumeTwice"}

ASSUME RestAssumption ==
  /\ LastNode \in Nat \ {0}
  /\ Gates \subseteq 2 .. LastNode
  /\ MaxConcurrent \in Nat \ {0}
  /\ Habits \subseteq AllHabits
  /\ MaxRuns \in Nat /\ MaxResumes \in Nat

Runs == 1 .. MaxRuns
Nodes == 1 .. LastNode
Null == -1
None == 0                       \* no execution
NoFork == [id |-> None, step |-> 0]

VARIABLES
  trace,       \* TraceStore: trace[x] of execution x
  checkpoint,  \* CheckpointStore.latest
  builder,     \* the recorder's active builders
  lineage,     \* the recorder's pendingLineage
  permits,     \* of replaySemaphore
  request,     \* request[q]: what thread q is doing
  used,        \* how many execution ids were handed out
  resumes,     \* history: resumes
  madeFrom     \* history: what execution x was really made from

stores == <<trace, checkpoint>>
recorder == <<builder, lineage>>
vars == <<stores, recorder, permits, request, used, resumes, madeFrom>>

Statuses == {"ABSENT", "COMPLETED", "INTERRUPTED", "FAILED"}
States == 0 .. LastNode
Steps == Seq([node : Nodes, before : States \union {Null}])
Forks == [id : Runs \union {None}, step : Nat]
Trace == [status : Statuses, init : States, steps : Steps, fork : Forks]
Absent == [status |-> "ABSENT", init |-> 0, steps |-> <<>>, fork |-> NoFork]

NoBuilder == [open |-> FALSE, init |-> 0, steps |-> <<>>]
NoCheckpoint == [last |-> 0, state |-> Null, pending |-> FALSE]

Stages == {"free", "loaded", "running", "ending", "answering"}
Kinds == {"run", "replay", "fork", "forkEdited", "resume"}
Free == [stage |-> "free", kind |-> "run", from |-> None, step |-> 0,
         snapshot |-> Absent, run |-> None, node |-> 1, state |-> 0,
         gateOpen |-> FALSE, began |-> 0, status |-> "COMPLETED"]

TypeOK ==
  /\ trace \in [Runs -> Trace]
  /\ checkpoint \in [Runs -> [last : 0 .. LastNode, state : States \union {Null},
                              pending : BOOLEAN]]
  /\ builder \in [Runs -> [open : BOOLEAN, init : States, steps : Steps]]
  /\ lineage \in [Runs -> Forks]
  /\ permits \in 0 .. MaxConcurrent
  /\ request \in [Requests ->
       [stage : Stages, kind : Kinds, from : Runs \union {None}, step : Nat,
        snapshot : Trace, run : Runs \union {None}, node : 1 .. LastNode + 1,
        state : States, gateOpen : BOOLEAN, began : 0 .. LastNode + 1,
        status : Statuses]]
  /\ used \in 0 .. MaxRuns
  /\ resumes \in 0 .. MaxResumes
  /\ madeFrom \in [Runs -> Forks]

Init ==
  /\ trace = [x \in Runs |-> Absent]
  /\ checkpoint = [x \in Runs |-> NoCheckpoint]
  /\ builder = [x \in Runs |-> NoBuilder]
  /\ lineage = [x \in Runs |-> NoFork]
  /\ permits = MaxConcurrent
  /\ request = [q \in Requests |-> Free]
  /\ used = 0
  /\ resumes = 0
  /\ madeFrom = [x \in Runs |-> NoFork]

-----------------------------------------------------------------------------
(* Executor.run, runFrom and resume, up to the loop: recordStart makes a   *)
(* builder, with the steps stored for x unless lineage is staged for it,   *)
(* and the loop is entered at the node.                                    *)
Enters(q, x, node, state, gateOpen, staged) ==
  /\ builder' = [builder EXCEPT ![x] =
       [open |-> TRUE, init |-> state,
        steps |-> IF staged # NoFork THEN <<>> ELSE trace[x].steps]]
  /\ request' = [request EXCEPT
       ![q].stage = "running", ![q].run = x, ![q].node = node, ![q].state = state,
       ![q].gateOpen = gateOpen, ![q].began = node, ![q].snapshot = Absent]

(* An application runs the graph.                                          *)
Run(q) ==
  /\ request[q].stage = "free"
  /\ used < MaxRuns
  /\ used' = used + 1
  /\ Enters(q, used + 1, 1, 0, FALSE, NoFork)
  /\ UNCHANGED <<stores, lineage, permits, resumes, madeFrom>>

(* The executions that somebody is running or about to resume.             *)
Busy == {request[q].run : q \in {p \in Requests : request[p].stage \in {"running", "ending"}}}
          \union {request[q].from : q \in {p \in Requests :
                                     request[p].kind = "resume" /\ request[p].stage = "loaded"}}

MayReplay(x, step) ==
  /\ step > 0 /\ trace[x].steps[step].before = Null => "replayFailed" \in Habits
  /\ step = 0 /\ trace[x].init > 0 => "replayMiddle" \in Habits

MayResume(x) ==
  /\ madeFrom[x] # NoFork => "resumeForks" \in Habits
  /\ x \in Busy => "resumeTwice" \in Habits

Loads(q, kind, x, step) ==
  request' = [request EXCEPT ![q].stage = "loaded", ![q].kind = kind, ![q].from = x,
                             ![q].step = step, ![q].snapshot = trace[x]]

(* replay and fork: 404 without a trace, 400 for a step out of range, 429  *)
(* when the semaphore has no permit for a replay.                          *)
AskReplay(q, x, step) ==
  /\ request[q].stage = "free"
  /\ trace[x].status # "ABSENT"
  /\ step <= Len(trace[x].steps)
  /\ MayReplay(x, step)
  /\ \/ permits > 0 /\ permits' = permits - 1 /\ Loads(q, "replay", x, step)
     \/ \E kind \in {"fork", "forkEdited"} : Loads(q, kind, x, step) /\ UNCHANGED permits
  /\ UNCHANGED <<stores, recorder, used, resumes, madeFrom>>

(* resume: 409 unless the trace is INTERRUPTED.                            *)
AskResume(q, x) ==
  /\ request[q].stage = "free"
  /\ trace[x].status = "INTERRUPTED"
  /\ MayResume(x)
  /\ resumes < MaxResumes
  /\ resumes' = resumes + 1
  /\ Loads(q, "resume", x, 0)
  /\ UNCHANGED <<stores, recorder, permits, used, madeFrom>>

-----------------------------------------------------------------------------
(* ReplayRunner                                                            *)

(* Where it goes on, by the trace that was loaded: at the step that is     *)
(* replayed or, with an edited state, after it.                            *)
StartNode(r) ==
  IF r.step = 0 THEN 1
  ELSE IF r.kind = "forkEdited"
       THEN IF r.step < Len(r.snapshot.steps) THEN r.snapshot.steps[r.step + 1].node ELSE 0
       ELSE r.snapshot.steps[r.step].node

(* Wrong: the state the step before it started from.                       *)
SeedOfStepBefore(r) ==
  IF r.kind = "forkEdited" THEN StartNode(r) - 1
  ELSE IF r.step <= 1 THEN r.snapshot.init
  ELSE r.snapshot.steps[r.step - 1].before

(* The seed: a client that edits the state makes one that fits.            *)
Seed(r) ==
  IF r.kind = "forkEdited" THEN StartNode(r) - 1
  ELSE IF r.step = 0 THEN r.snapshot.init
  ELSE r.snapshot.steps[r.step].before

(* Wrong: the lineage is staged under the id of the parent.                *)
ReRunStagesParent(q) ==
  LET r == request[q]
      x == used + 1
      from == [id |-> r.from, step |-> r.step]
  IN  /\ r.stage = "loaded" /\ r.kind # "resume"
      /\ StartNode(r) # 0 /\ Seed(r) # Null
      /\ used < MaxRuns
      /\ used' = used + 1
      /\ lineage' = [lineage EXCEPT ![r.from] = from]
      /\ madeFrom' = [madeFrom EXCEPT ![x] = from]
      /\ Enters(q, x, StartNode(r), Seed(r), FALSE, from)
      /\ UNCHANGED <<stores, permits, resumes>>

(* reRunFrom and reRunAfter: the lineage is staged under a new id, and the *)
(* graph is run under it from the start node.                              *)
ReRun(q) ==
  LET r == request[q]
      x == used + 1
      from == [id |-> r.from, step |-> r.step]
  IN  /\ r.stage = "loaded" /\ r.kind # "resume"
      /\ StartNode(r) # 0 /\ Seed(r) # Null
      /\ used < MaxRuns
      /\ used' = used + 1
      /\ lineage' = [lineage EXCEPT ![x] = from]
      /\ madeFrom' = [madeFrom EXCEPT ![x] = from]
      /\ Enters(q, x, StartNode(r), Seed(r), FALSE, from)
      /\ UNCHANGED <<stores, permits, resumes>>

(* A step that failed has no state before it: runFrom refuses the null,    *)
(* after the lineage was staged.                                           *)
ReRunRefused(q) ==
  LET r == request[q]
  IN  /\ r.stage = "loaded" /\ r.kind # "resume"
      /\ StartNode(r) # 0 /\ Seed(r) = Null
      /\ used < MaxRuns
      /\ used' = used + 1
      /\ lineage' = [lineage EXCEPT ![used + 1] = [id |-> r.from, step |-> r.step]]
      /\ request' = [request EXCEPT ![q].stage = "answering", ![q].snapshot = Absent]
      /\ UNCHANGED <<stores, builder, permits, resumes, madeFrom>>

(* There is no step after the last: IndexOutOfBoundsException.             *)
ReRunAfterLast(q) ==
  LET r == request[q]
  IN  /\ r.stage = "loaded" /\ r.kind = "forkEdited"
      /\ StartNode(r) = 0
      /\ request' = [request EXCEPT ![q].stage = "answering", ![q].snapshot = Absent]
      /\ UNCHANGED <<stores, recorder, permits, used, resumes, madeFrom>>

-----------------------------------------------------------------------------
(* Executor.resume: from the checkpoint, which is where the execution is   *)
(* now and not where it was when its trace was loaded: past the last node  *)
(* there is nothing to run.                                                *)
Resume(q) ==
  LET r == request[q]
      cp == checkpoint[r.from]
  IN  /\ r.stage = "loaded" /\ r.kind = "resume"
      /\ Enters(q, r.from, cp.last + 1, cp.state, cp.pending, lineage[r.from])
      /\ UNCHANGED <<stores, lineage, permits, used, resumes, madeFrom>>

-----------------------------------------------------------------------------
(* The loop                                                                *)

Running(q) == request[q].stage = "running"
Ends(q, status) == [request EXCEPT ![q].stage = "ending", ![q].status = status]

(* recordExit, recordError: into the execution's builder, if it has one.   *)
Records(x, step) ==
  builder' = IF builder[x].open
             THEN [builder EXCEPT ![x].steps = Append(@, step)]
             ELSE builder

(* Wrong: the gated node is taken for the last one completed.              *)
StopsAfterGate(q) ==
  LET r == request[q]
  IN  /\ Running(q) /\ r.node \in Gates /\ ~r.gateOpen
      /\ checkpoint' = [checkpoint EXCEPT ![r.run] =
           [last |-> r.node, state |-> r.state, pending |-> TRUE]]
      /\ request' = Ends(q, "INTERRUPTED")
      /\ UNCHANGED <<trace, recorder, permits, used, resumes, madeFrom>>

(* The pending checkpoint names the node before the gate, if this call has *)
(* been there.                                                             *)
StopsAtGate(q) ==
  LET r == request[q]
  IN  /\ Running(q) /\ r.node \in Gates /\ ~r.gateOpen
      /\ checkpoint' = [checkpoint EXCEPT ![r.run] =
           [last |-> IF r.node = r.began THEN 0 ELSE r.node - 1,
            state |-> r.state, pending |-> TRUE]]
      /\ request' = Ends(q, "INTERRUPTED")
      /\ UNCHANGED <<trace, recorder, permits, used, resumes, madeFrom>>

PassesGate(r) == r.node \in Nodes /\ (r.node \in Gates => r.gateOpen)

NodeSucceeds(q) ==
  LET r == request[q]
  IN  /\ Running(q) /\ PassesGate(r) /\ r.state < LastNode
      /\ Records(r.run, [node |-> r.node, before |-> r.state])
      /\ checkpoint' = [checkpoint EXCEPT ![r.run] =
           [last |-> r.node, state |-> r.state + 1, pending |-> FALSE]]
      /\ request' = [request EXCEPT ![q].node = @ + 1, ![q].state = @ + 1,
                                    ![q].gateOpen = FALSE]
      /\ UNCHANGED <<trace, lineage, permits, used, resumes, madeFrom>>

NodeFails(q) ==
  LET r == request[q]
  IN  /\ Running(q) /\ PassesGate(r)
      /\ Records(r.run, [node |-> r.node, before |-> Null])
      /\ request' = Ends(q, "FAILED")
      /\ UNCHANGED <<stores, lineage, permits, used, resumes, madeFrom>>

Finishes(q) ==
  /\ Running(q) /\ request[q].node = LastNode + 1
  /\ request' = Ends(q, "COMPLETED")
  /\ UNCHANGED <<stores, recorder, permits, used, resumes, madeFrom>>

(* recordComplete: the builder and the lineage are taken away together,    *)
(* and the trace that they make replaces the one that is stored.           *)
RecordComplete(q) ==
  LET r == request[q]
      b == builder[r.run]
  IN  /\ r.stage = "ending"
      /\ IF b.open
         THEN /\ trace' = [trace EXCEPT ![r.run] =
                   [status |-> r.status, init |-> b.init, steps |-> b.steps,
                    fork |-> lineage[r.run]]]
              /\ builder' = [builder EXCEPT ![r.run] = NoBuilder]
              /\ lineage' = [lineage EXCEPT ![r.run] = NoFork]
         ELSE UNCHANGED <<trace, recorder>>
      /\ request' = [request EXCEPT ![q].stage = "answering"]
      /\ UNCHANGED <<checkpoint, permits, used, resumes, madeFrom>>

(* Wrong: a fork gives a permit back too.                                  *)
AnswerReleasesAlways(q) ==
  /\ request[q].stage = "answering"
  /\ permits' = permits + 1
  /\ request' = [request EXCEPT ![q] = Free]
  /\ UNCHANGED <<stores, recorder, used, resumes, madeFrom>>

(* Wrong: the permit is given back only after a run.                       *)
AnswerKeepsPermit(q) ==
  /\ request[q].stage = "answering"
  /\ permits' = IF request[q].kind = "replay" /\ request[q].run # None
                   /\ request[q].status # "FAILED"
                THEN permits + 1 ELSE permits
  /\ request' = [request EXCEPT ![q] = Free]
  /\ UNCHANGED <<stores, recorder, used, resumes, madeFrom>>

(* The request is answered; a replay gives its permit back, however it     *)
(* ended.                                                                  *)
Answer(q) ==
  /\ request[q].stage = "answering"
  /\ permits' = IF request[q].kind = "replay" THEN permits + 1 ELSE permits
  /\ request' = [request EXCEPT ![q] = Free]
  /\ UNCHANGED <<stores, recorder, used, resumes, madeFrom>>

(* TraceController.delete: the trace, and nothing else of the execution.   *)
Delete(x) ==
  /\ trace[x].status # "ABSENT"
  /\ trace' = [trace EXCEPT ![x] = Absent]
  /\ UNCHANGED <<checkpoint, recorder, permits, request, used, resumes, madeFrom>>

-----------------------------------------------------------------------------
Works(q) ==
  \/ ReRun(q) \/ ReRunRefused(q) \/ ReRunAfterLast(q) \/ Resume(q)
  \/ StopsAtGate(q) \/ NodeSucceeds(q) \/ NodeFails(q) \/ Finishes(q)
  \/ RecordComplete(q) \/ Answer(q)

Next ==
  \/ \E q \in Requests :
       \/ Run(q)
       \/ \E x \in Runs : AskResume(q, x) \/ \E step \in 0 .. LastNode : AskReplay(q, x, step)
       \/ Works(q)
  \/ \E x \in Runs : Delete(x)

Spec == Init /\ [][Next]_vars

-----------------------------------------------------------------------------
(* Properties                                                              *)

(* Every permit that is out belongs to a replay in progress.               *)
PermitsConserved ==
  permits + Cardinality({q \in Requests : request[q].kind = "replay"}) = MaxConcurrent

(* "The resulting ExecutionTrace carries forkedFromExecutionId and         *)
(* forkedFromStepIndex to record lineage" (tracegraph-observability's      *)
(* README), and only it does.                                              *)
LineageKept == \A x \in Runs : trace[x].status # "ABSENT" => trace[x].fork = madeFrom[x]

(* Whatever was run, replayed, forked and resumed on the way, a node is    *)
(* entered with the state the nodes before it have made.                   *)
SeedsFit == \A q \in Requests : request[q].stage = "running" =>
              request[q].state = request[q].node - 1

(* A stored trace is one walk along the graph: no node is missing, comes   *)
(* twice or follows a failure.                                             *)
OneWalk == \A x \in Runs : \A i \in 2 .. Len(trace[x].steps) :
  LET before == trace[x].steps[i - 1]
      step == trace[x].steps[i]
  IN  before.before # Null /\ step.node = before.node + 1
=============================================================================
