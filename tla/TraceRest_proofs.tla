-------------------------- MODULE TraceRest_proofs --------------------------
(***************************************************************************)
(* Replay, fork, resume and delete over HTTP, for any number of requests,  *)
(* executions and resumes and any line of nodes: their types, the replay   *)
(* permits, and the lineage of what was forked.                            *)
(***************************************************************************)
EXTENDS TraceRest, SequenceTheorems, FiniteSetTheorems, TLAPS

-----------------------------------------------------------------------------
(* Types                                                                   *)

Request == [stage : Stages, kind : Kinds, from : Runs \union {None}, step : Nat,
            snapshot : Trace, run : Runs \union {None}, node : 1 .. LastNode + 1,
            state : States, gateOpen : BOOLEAN, began : 0 .. LastNode + 1,
            status : Statuses]

Builder == [open : BOOLEAN, init : States, steps : Steps]

Saved == [last : 0 .. LastNode, state : States \union {Null}, pending : BOOLEAN]

Replays == {q \in Requests : request[q].kind = "replay"}

(* TypeOK is not inductive: a resume takes its state from a checkpoint,    *)
(* which is there because the trace said INTERRUPTED; a replay takes its   *)
(* node from a step, which its trace had when it was loaded; and there are *)
(* never more permits than at the start because those that come back were  *)
(* out.                                                                    *)
LoadedOK(r) ==
  /\ r.stage = "free" => r.kind # "replay"
  /\ r.stage = "loaded" => /\ r.from \in Runs /\ r.kind # "run"
                           /\ r.step <= Len(r.snapshot.steps)
                           /\ r.kind = "resume" => checkpoint[r.from].state # Null
  /\ r.stage \in {"running", "ending"} => r.run \in Runs
  /\ r.stage = "ending" /\ r.status = "INTERRUPTED" => checkpoint[r.run].state # Null

RestInv ==
  /\ \A q \in Requests : LoadedOK(request[q])
  /\ \A x \in Runs : trace[x].status = "INTERRUPTED" => checkpoint[x].state # Null
  /\ PermitsConserved

(* What is assumed of the constants, put as the steps below need it.       *)
LEMMA Constants ==
  /\ LastNode \in Nat \ {0} /\ MaxConcurrent \in Nat \ {0}
  /\ MaxRuns \in Nat /\ MaxResumes \in Nat
  /\ 0 \in States /\ 1 \in Nodes /\ None \notin Runs /\ Null \notin States
  /\ Nodes = 1 .. LastNode /\ States = 0 .. LastNode
BY RestAssumption DEF States, Nodes, None, Runs, Null

(* What the stores and the recorder begin with.                            *)
LEMMA AbsentType == Absent \in Trace /\ NoFork \in Forks /\ NoBuilder \in Builder /\ NoCheckpoint \in Saved
<1>1. << >> \in Steps
  BY EmptySeq DEF Steps
<1>2. NoFork \in Forks
  BY DEF NoFork, Forks
<1>3. 0 \in 0 .. LastNode /\ 0 \in States
  BY Constants
<1>4. QED
  BY <1>1, <1>2, <1>3
     DEF Absent, Trace, Statuses, NoBuilder, Builder, NoCheckpoint, Saved

(* A thread with no request.                                               *)
LEMMA FreeType == Free \in Request
<1>1. 1 \in 1 .. LastNode + 1 /\ 0 \in 0 .. LastNode + 1 /\ 0 \in States
  BY Constants
<1>2. QED BY <1>1, AbsentType DEF Free, Request, Stages, Kinds, Statuses

(* TypeOK, said with these sets.                                           *)
LEMMA TypesSaid ==
  TypeOK <=> /\ trace \in [Runs -> Trace]
             /\ checkpoint \in [Runs -> Saved]
             /\ builder \in [Runs -> Builder]
             /\ lineage \in [Runs -> Forks]
             /\ permits \in 0 .. MaxConcurrent
             /\ request \in [Requests -> Request]
             /\ used \in 0 .. MaxRuns
             /\ resumes \in 0 .. MaxResumes
             /\ madeFrom \in [Runs -> Forks]
BY DEF TypeOK, Saved, Builder, Request

(* The steps of a trace.                                                   *)
LEMMA StepsOf ==
  ASSUME NEW s \in Steps
  PROVE  /\ Len(s) \in Nat
         /\ \A i \in 1 .. Len(s) : s[i].node \in Nodes /\ s[i].before \in States \union {Null}
<1>1. s \in Seq([node : Nodes, before : States \union {Null}])
  BY DEF Steps
<1>2. \A i \in 1 .. Len(s) : s[i] \in [node : Nodes, before : States \union {Null}]
  BY <1>1, ElementOfSeq
<1>3. QED BY <1>1, <1>2, LenProperties

(* What a replay or fork starts from.                                      *)
LEMMA SeedType ==
  ASSUME NEW r \in Request, r.stage = "loaded", r.kind # "resume", LoadedOK(r)
  PROVE  /\ StartNode(r) \in Nodes \union {0}
         /\ StartNode(r) # 0 => Seed(r) \in States \union {Null}
<1>1. /\ r.step \in Nat /\ r.snapshot.steps \in Steps /\ r.snapshot.init \in States
      /\ r.step <= Len(r.snapshot.steps)
  BY DEF Request, Trace, LoadedOK
<1>2. Len(r.snapshot.steps) \in Nat
  BY <1>1, StepsOf
<1>3. StartNode(r) \in Nodes \union {0}
  <2>1. CASE r.step = 0
    BY <2>1, Constants DEF StartNode
  <2>2. CASE r.step # 0 /\ r.kind = "forkEdited"
    <3>1. r.step < Len(r.snapshot.steps) => r.step + 1 \in 1 .. Len(r.snapshot.steps)
      BY <1>1, <1>2
    <3>2. QED BY <1>1, <2>2, <3>1, StepsOf DEF StartNode
  <2>3. CASE r.step # 0 /\ r.kind # "forkEdited"
    <3>1. r.step \in 1 .. Len(r.snapshot.steps)
      BY <1>1, <1>2, <2>3
    <3>2. QED BY <1>1, <2>3, <3>1, StepsOf DEF StartNode
  <2>4. QED BY <2>1, <2>2, <2>3
<1>4. ASSUME StartNode(r) # 0 PROVE Seed(r) \in States \union {Null}
  <2>1. CASE r.kind = "forkEdited"
    <3>1. StartNode(r) \in 1 .. LastNode
      BY <1>3, <1>4, Constants
    <3>2. StartNode(r) - 1 \in 0 .. LastNode
      BY <3>1, Constants
    <3>3. QED BY <2>1, <3>2, Constants DEF Seed
  <2>2. CASE r.kind # "forkEdited" /\ r.step = 0
    BY <1>1, <2>2 DEF Seed
  <2>3. CASE r.kind # "forkEdited" /\ r.step # 0
    <3>1. r.step \in 1 .. Len(r.snapshot.steps)
      BY <1>1, <1>2, <2>3
    <3>2. QED BY <1>1, <2>3, <3>1, StepsOf DEF Seed
  <2>4. QED BY <2>1, <2>2, <2>3
<1>5. QED BY <1>3, <1>4

-----------------------------------------------------------------------------
(* What the operations do to the request that does them.                   *)

(* Entering the loop: one builder and one request change.                  *)
LEMMA EntersEffect ==
  ASSUME TypeOK, NEW q \in Requests, NEW x \in Runs, NEW node \in 1 .. LastNode + 1,
         NEW state \in States, NEW gateOpen \in BOOLEAN, NEW staged \in Forks,
         Enters(q, x, node, state, gateOpen, staged)
  PROVE  /\ builder' \in [Runs -> Builder]
         /\ builder' = [builder EXCEPT ![x] = builder'[x]]
         /\ builder'[x].open
         /\ builder'[x].init = state
         /\ builder'[x].steps = IF staged # NoFork THEN <<>> ELSE trace[x].steps
         /\ request' \in [Requests -> Request]
         /\ request' = [request EXCEPT ![q] = request'[q]]
         /\ request'[q].stage = "running" /\ request'[q].run = x
         /\ request'[q].kind = request[q].kind
         /\ request'[q].node = node /\ request'[q].state = state
         /\ request'[q].gateOpen = gateOpen /\ request'[q].began = node
<1>1. /\ request \in [Requests -> Request] /\ builder \in [Runs -> Builder]
      /\ trace \in [Runs -> Trace]
  BY TypesSaid
<1> DEFINE b == [open |-> TRUE, init |-> state,
                 steps |-> IF staged # NoFork THEN <<>> ELSE trace[x].steps]
           r == [request[q] EXCEPT !.stage = "running", !.run = x, !.node = node,
                                   !.state = state, !.gateOpen = gateOpen,
                                   !.began = node, !.snapshot = Absent]
<1>2. b \in Builder
  <2>1. << >> \in Steps /\ trace[x].steps \in Steps
    BY <1>1, EmptySeq DEF Steps, Trace
  <2>2. QED BY <2>1 DEF Builder
<1>3. node \in 0 .. LastNode + 1 /\ x \in Runs \union {None} /\ Absent \in Trace
  BY Constants, AbsentType
<1>4. /\ r \in Request /\ r.stage = "running" /\ r.run = x /\ r.kind = request[q].kind
      /\ r.node = node /\ r.state = state /\ r.gateOpen = gateOpen /\ r.began = node
  BY <1>1, <1>3 DEF Request, Stages
<1>5. builder' = [builder EXCEPT ![x] = b]
  BY DEF Enters
<1>6. request' = [request EXCEPT ![q] = r]
  BY <1>1 DEF Enters, Request
<1> HIDE DEF r
<1>7. QED BY <1>1, <1>2, <1>4, <1>5, <1>6

(* What a request loads.                                                   *)
LEMMA LoadsEffect ==
  ASSUME TypeOK, NEW q \in Requests, NEW kind \in Kinds, NEW x \in Runs, NEW step \in Nat,
         Loads(q, kind, x, step)
  PROVE  /\ request' \in [Requests -> Request]
         /\ request' = [request EXCEPT ![q] = request'[q]]
         /\ request'[q].stage = "loaded" /\ request'[q].kind = kind
         /\ request'[q].from = x /\ request'[q].step = step
         /\ request'[q].snapshot = trace[x]
<1>1. request \in [Requests -> Request] /\ trace \in [Runs -> Trace]
  BY TypesSaid
<1> DEFINE r == [request[q] EXCEPT !.stage = "loaded", !.kind = kind, !.from = x,
                                   !.step = step, !.snapshot = trace[x]]
<1>2. /\ r \in Request /\ r.stage = "loaded" /\ r.kind = kind /\ r.from = x
      /\ r.step = step /\ r.snapshot = trace[x]
  BY <1>1 DEF Request, Stages
<1>3. request' = [request EXCEPT ![q] = r]
  BY <1>1 DEF Loads, Request
<1> HIDE DEF r
<1>4. QED BY <1>1, <1>2, <1>3

(* A run that ends.                                                        *)
LEMMA EndsEffect ==
  ASSUME TypeOK, NEW q \in Requests, NEW s \in Statuses, request' = Ends(q, s)
  PROVE  /\ request' \in [Requests -> Request]
         /\ request' = [request EXCEPT ![q] = request'[q]]
         /\ request'[q].stage = "ending" /\ request'[q].status = s
         /\ request'[q].run = request[q].run /\ request'[q].kind = request[q].kind
<1>1. request \in [Requests -> Request]
  BY TypesSaid
<1> DEFINE r == [request[q] EXCEPT !.stage = "ending", !.status = s]
<1>2. /\ r \in Request /\ r.stage = "ending" /\ r.status = s
      /\ r.run = request[q].run /\ r.kind = request[q].kind
  BY <1>1 DEF Request, Stages
<1>3. request' = [request EXCEPT ![q] = r]
  BY <1>1 DEF Ends, Request
<1> HIDE DEF r
<1>4. QED BY <1>1, <1>2, <1>3

(* A request that is about to be answered.                                 *)
LEMMA AnswersEffect ==
  ASSUME TypeOK, NEW q \in Requests,
         \/ request' = [request EXCEPT ![q].stage = "answering", ![q].snapshot = Absent]
         \/ request' = [request EXCEPT ![q].stage = "answering"]
  PROVE  /\ request' \in [Requests -> Request]
         /\ request' = [request EXCEPT ![q] = request'[q]]
         /\ request'[q].stage = "answering" /\ request'[q].kind = request[q].kind
<1>1. request \in [Requests -> Request]
  BY TypesSaid
<1> DEFINE r1 == [request[q] EXCEPT !.stage = "answering", !.snapshot = Absent]
           r2 == [request[q] EXCEPT !.stage = "answering"]
<1>2. /\ r1 \in Request /\ r1.stage = "answering" /\ r1.kind = request[q].kind
      /\ r2 \in Request /\ r2.stage = "answering" /\ r2.kind = request[q].kind
  BY <1>1, AbsentType DEF Request, Stages
<1>3. request' = [request EXCEPT ![q] = r1] \/ request' = [request EXCEPT ![q] = r2]
  BY <1>1 DEF Request
<1> HIDE DEF r1, r2
<1>4. QED BY <1>1, <1>2, <1>3

(* A node that is executed: the next one is due, with one more in the state. *)
LEMMA NodeEffect ==
  ASSUME TypeOK, NEW q \in Requests, NodeSucceeds(q)
  PROVE  /\ request' \in [Requests -> Request]
         /\ request' = [request EXCEPT ![q] = request'[q]]
         /\ request'[q].stage = "running" /\ request'[q].run = request[q].run
         /\ request'[q].kind = request[q].kind
         /\ request'[q].node = request[q].node + 1
         /\ request'[q].state = request[q].state + 1
         /\ ~request'[q].gateOpen
         /\ request'[q].began = request[q].began
         /\ request[q].node \in Nodes /\ request[q].state + 1 \in States
<1>1. request \in [Requests -> Request]
  BY TypesSaid
<1>2. /\ request[q].node \in 1 .. LastNode /\ request[q].state < LastNode
      /\ request[q].stage = "running"
  BY Constants DEF NodeSucceeds, PassesGate, Running
<1>3. request[q].node + 1 \in 1 .. LastNode + 1 /\ request[q].state + 1 \in States
  BY <1>1, <1>2, Constants DEF Request
<1> DEFINE r == [request[q] EXCEPT !.node = @ + 1, !.state = @ + 1, !.gateOpen = FALSE]
<1>4. /\ r \in Request /\ r.stage = "running" /\ r.run = request[q].run
      /\ r.kind = request[q].kind /\ r.node = request[q].node + 1
      /\ r.state = request[q].state + 1 /\ ~r.gateOpen /\ r.began = request[q].began
  BY <1>1, <1>2, <1>3 DEF Request
<1>5. request' = [request EXCEPT ![q] = r]
  BY <1>1 DEF NodeSucceeds, Request
<1> HIDE DEF r
<1>6. QED BY <1>1, <1>2, <1>3, <1>4, <1>5, Constants

(* What is recorded is a step.                                             *)
LEMMA RecordsEffect ==
  ASSUME TypeOK, NEW x \in Runs, NEW n \in Nodes, NEW v \in States \union {Null},
         Records(x, [node |-> n, before |-> v])
  PROVE  /\ builder' \in [Runs -> Builder]
         /\ builder' = [builder EXCEPT ![x] = builder'[x]]
         /\ builder'[x].open = builder[x].open
         /\ builder[x].open =>
              builder'[x].steps = Append(builder[x].steps, [node |-> n, before |-> v])
<1>1. builder \in [Runs -> Builder]
  BY TypesSaid
<1> DEFINE step == [node |-> n, before |-> v]
<1>2. CASE builder[x].open
  <2> DEFINE b == [builder[x] EXCEPT !.steps = Append(@, step)]
  <2>1. builder[x].steps \in Steps
    BY <1>1 DEF Builder
  <2>2. step \in [node : Nodes, before : States \union {Null}]
    OBVIOUS
  <2>3. Append(builder[x].steps, step) \in Steps
    BY <2>1, <2>2, AppendProperties DEF Steps
  <2> HIDE DEF step
  <2>4. /\ b \in Builder /\ b.open = builder[x].open
        /\ b.steps = Append(builder[x].steps, step)
    BY <1>1, <2>3 DEF Builder
  <2>5. builder' = [builder EXCEPT ![x] = b]
    BY <1>1, <1>2 DEF Records, Builder, step
  <2> HIDE DEF b
  <2>6. QED BY <1>1, <2>4, <2>5 DEF step
<1>3. CASE ~builder[x].open
  BY <1>1, <1>3 DEF Records
<1>4. QED BY <1>2, <1>3

-----------------------------------------------------------------------------
(* Types and permits are kept                                              *)

(* A permit changes hands when the request's kind does.                    *)
LEMMA PermitsNext ==
  ASSUME IsFiniteSet(Requests), TypeOK, PermitsConserved, NEW q \in Requests,
         request' \in [Requests -> Request],
         request' = [request EXCEPT ![q] = request'[q]],
         \/ permits' = permits /\ (request'[q].kind = "replay" <=> request[q].kind = "replay")
         \/ /\ permits' = permits - 1 /\ permits > 0
            /\ request'[q].kind = "replay" /\ request[q].kind # "replay"
         \/ /\ permits' = permits + 1
            /\ request'[q].kind # "replay" /\ request[q].kind = "replay"
  PROVE  PermitsConserved' /\ permits' \in 0 .. MaxConcurrent
<1>1. request \in [Requests -> Request] /\ permits \in Nat /\ MaxConcurrent \in Nat
  BY TypesSaid, Constants
<1>2. /\ IsFiniteSet(Replays) /\ IsFiniteSet(Replays')
      /\ Cardinality(Replays) \in Nat /\ Cardinality(Replays') \in Nat
  BY FS_Subset, FS_CardinalityType DEF Replays
<1>3. permits + Cardinality(Replays) = MaxConcurrent
  BY DEF PermitsConserved, Replays
<1>4. permits' + Cardinality(Replays') = MaxConcurrent /\ permits' \in Nat
  <2>1. CASE permits' = permits /\ (request'[q].kind = "replay" <=> request[q].kind = "replay")
    <3>1. Replays' = Replays
      BY <1>1, <2>1 DEF Replays
    <3>2. QED BY <1>1, <1>3, <2>1, <3>1
  <2>2. CASE /\ permits' = permits - 1 /\ permits > 0
             /\ request'[q].kind = "replay" /\ request[q].kind # "replay"
    <3>1. Replays' = Replays \union {q} /\ q \notin Replays
      BY <1>1, <2>2 DEF Replays
    <3>2. Cardinality(Replays') = Cardinality(Replays) + 1
      BY <1>2, <3>1, FS_AddElement
    <3>3. QED BY <1>1, <1>2, <1>3, <2>2, <3>2
  <2>3. CASE /\ permits' = permits + 1
             /\ request'[q].kind # "replay" /\ request[q].kind = "replay"
    <3>1. Replays' = Replays \ {q} /\ q \in Replays
      BY <1>1, <2>3 DEF Replays
    <3>2. Cardinality(Replays') = Cardinality(Replays) - 1
      BY <1>2, <3>1, FS_RemoveElement
    <3>3. QED BY <1>1, <1>2, <1>3, <2>3, <3>2
  <2>4. QED BY <2>1, <2>2, <2>3
<1>5. permits' \in 0 .. MaxConcurrent
  BY <1>1, <1>2, <1>4
<1>6. QED BY <1>4, <1>5 DEF PermitsConserved, Replays

(* The requests that stand by stay as they are, while checkpoints stay.    *)
LEMMA OthersLoadedOK ==
  ASSUME TypeOK, RestInv, NEW q \in Requests,
         request' = [request EXCEPT ![q] = request'[q]],
         \A x \in Runs : checkpoint[x].state # Null => checkpoint'[x].state # Null,
         LoadedOK(request[q])'
  PROVE  \A p \in Requests : LoadedOK(request[p])'
<1>1. request \in [Requests -> Request]
  BY TypesSaid
<1>2. ASSUME NEW p \in Requests, p # q PROVE LoadedOK(request[p])'
  <2>1. request'[p] = request[p] /\ LoadedOK(request[p])
    BY <1>1, <1>2 DEF RestInv
  <2>2. QED BY <2>1 DEF LoadedOK
<1>3. QED BY <1>2

RestStep == TypeOK' /\ RestInv'

(* An application runs the graph.                                          *)
LEMMA RunKeeps ==
  ASSUME IsFiniteSet(Requests), TypeOK, RestInv, NEW q \in Requests, Run(q)
  PROVE  RestStep
<1>1. /\ request[q].stage = "free" /\ used < MaxRuns /\ used' = used + 1
      /\ Enters(q, used + 1, 1, 0, FALSE, NoFork)
      /\ UNCHANGED <<trace, checkpoint, lineage, permits, resumes, madeFrom>>
  BY DEF Run, stores
<1>2. /\ used + 1 \in Runs /\ used' \in 0 .. MaxRuns
      /\ 1 \in 1 .. LastNode + 1 /\ 0 \in States /\ NoFork \in Forks
  BY <1>1, Constants, TypesSaid, AbsentType DEF Runs
<1>3. /\ builder' \in [Runs -> Builder] /\ request' \in [Requests -> Request]
      /\ request' = [request EXCEPT ![q] = request'[q]]
      /\ request'[q].stage = "running" /\ request'[q].run \in Runs
      /\ request'[q].kind = request[q].kind
  BY <1>1, <1>2, EntersEffect
<1>4. LoadedOK(request[q])'
  BY <1>3 DEF LoadedOK
<1>5. PermitsConserved' /\ permits' \in 0 .. MaxConcurrent
  BY <1>1, <1>3, PermitsNext DEF RestInv
<1>6. TypeOK'
  BY <1>1, <1>2, <1>3, <1>5, TypesSaid DEF TypeOK, Builder, Request, Saved
<1>7. RestInv'
  BY <1>1, <1>3, <1>4, <1>5, OthersLoadedOK DEF RestInv
<1>8. QED BY <1>6, <1>7 DEF RestStep

(* A replay takes a permit, a fork takes none.                             *)
LEMMA AskReplayKeeps ==
  ASSUME IsFiniteSet(Requests), TypeOK, RestInv, NEW q \in Requests, NEW x \in Runs,
         NEW step \in 0 .. LastNode, AskReplay(q, x, step)
  PROVE  RestStep
<1>1. /\ request[q].stage = "free" /\ step <= Len(trace[x].steps) /\ step \in Nat
      /\ UNCHANGED <<trace, checkpoint, builder, lineage, used, resumes, madeFrom>>
  BY DEF AskReplay, stores, recorder
<1>2. PICK kind \in {"replay", "fork", "forkEdited"} :
        /\ Loads(q, kind, x, step)
        /\ kind = "replay" => permits > 0 /\ permits' = permits - 1
        /\ kind # "replay" => permits' = permits
  BY DEF AskReplay
<1>3. kind \in Kinds
  BY DEF Kinds
<1>4. /\ request' \in [Requests -> Request]
      /\ request' = [request EXCEPT ![q] = request'[q]]
      /\ request'[q].stage = "loaded" /\ request'[q].kind = kind
      /\ request'[q].from = x /\ request'[q].step = step
      /\ request'[q].snapshot = trace[x]
  BY <1>1, <1>2, <1>3, LoadsEffect
<1>5. LoadedOK(request[q])'
  BY <1>1, <1>4 DEF LoadedOK
<1>6. request[q].kind # "replay"
  BY <1>1 DEF RestInv, LoadedOK
<1>7. PermitsConserved' /\ permits' \in 0 .. MaxConcurrent
  BY <1>2, <1>4, <1>6, PermitsNext DEF RestInv
<1>8. TypeOK'
  BY <1>1, <1>4, <1>7, TypesSaid DEF TypeOK, Builder, Request, Saved
<1>9. RestInv'
  BY <1>1, <1>4, <1>5, <1>7, OthersLoadedOK DEF RestInv
<1>10. QED BY <1>8, <1>9 DEF RestStep

(* A trace that is INTERRUPTED has a checkpoint behind it.                 *)
LEMMA AskResumeKeeps ==
  ASSUME IsFiniteSet(Requests), TypeOK, RestInv, NEW q \in Requests, NEW x \in Runs,
         AskResume(q, x)
  PROVE  RestStep
<1>1. /\ request[q].stage = "free" /\ trace[x].status = "INTERRUPTED"
      /\ resumes < MaxResumes /\ resumes' = resumes + 1
      /\ Loads(q, "resume", x, 0)
      /\ UNCHANGED <<trace, checkpoint, builder, lineage, permits, used, madeFrom>>
  BY DEF AskResume, stores, recorder
<1>2. /\ request' \in [Requests -> Request]
      /\ request' = [request EXCEPT ![q] = request'[q]]
      /\ request'[q].stage = "loaded" /\ request'[q].kind = "resume"
      /\ request'[q].from = x /\ request'[q].step = 0
      /\ request'[q].snapshot = trace[x]
  BY <1>1, LoadsEffect DEF Kinds
<1>3. trace[x].steps \in Steps /\ checkpoint[x].state # Null
  BY <1>1, TypesSaid DEF Trace, RestInv
<1>4. LoadedOK(request[q])'
  BY <1>1, <1>2, <1>3, StepsOf DEF LoadedOK
<1>5. request[q].kind # "replay"
  BY <1>1 DEF RestInv, LoadedOK
<1>6. PermitsConserved' /\ permits' \in 0 .. MaxConcurrent
  BY <1>1, <1>2, <1>5, PermitsNext DEF RestInv
<1>7. resumes' \in 0 .. MaxResumes
  BY <1>1, TypesSaid, Constants
<1>8. TypeOK'
  BY <1>1, <1>2, <1>6, <1>7, TypesSaid DEF TypeOK, Builder, Request, Saved
<1>9. RestInv'
  BY <1>1, <1>2, <1>4, <1>6, OthersLoadedOK DEF RestInv
<1>10. QED BY <1>8, <1>9 DEF RestStep

(* What replays and forks stage.                                           *)
LEMMA LineageType ==
  ASSUME TypeOK, NEW q \in Requests, NEW x \in Runs
  PROVE  LET from == [id |-> request[q].from, step |-> request[q].step]
         IN  /\ from \in Forks
             /\ [lineage EXCEPT ![x] = from] \in [Runs -> Forks]
             /\ [madeFrom EXCEPT ![x] = from] \in [Runs -> Forks]
<1>1. request[q] \in Request
  BY TypesSaid
<1>2. [id |-> request[q].from, step |-> request[q].step] \in Forks
  BY <1>1 DEF Request, Forks
<1> DEFINE from == [id |-> request[q].from, step |-> request[q].step]
<1>3. from \in Forks
  BY <1>2
<1> HIDE DEF from
<1>4. /\ [lineage EXCEPT ![x] = from] \in [Runs -> Forks]
      /\ [madeFrom EXCEPT ![x] = from] \in [Runs -> Forks]
  BY <1>3, TypesSaid
<1>5. QED BY <1>3, <1>4 DEF from

(* A replay or a fork enters the loop.                                     *)
LEMMA ReRunKeeps ==
  ASSUME IsFiniteSet(Requests), TypeOK, RestInv, NEW q \in Requests, ReRun(q)
  PROVE  RestStep
<1> DEFINE r == request[q]
           from == [id |-> r.from, step |-> r.step]
<1>1. /\ r.stage = "loaded" /\ r.kind # "resume"
      /\ StartNode(r) # 0 /\ Seed(r) # Null
      /\ used < MaxRuns /\ used' = used + 1
      /\ lineage' = [lineage EXCEPT ![used + 1] = from]
      /\ madeFrom' = [madeFrom EXCEPT ![used + 1] = from]
      /\ Enters(q, used + 1, StartNode(r), Seed(r), FALSE, from)
      /\ UNCHANGED <<trace, checkpoint, permits, resumes>>
  BY DEF ReRun, stores
<1>2. r \in Request /\ LoadedOK(r)
  BY TypesSaid DEF RestInv
<1>3. StartNode(r) \in Nodes \union {0} /\ (StartNode(r) # 0 => Seed(r) \in States \union {Null})
  BY <1>1, <1>2, SeedType
<1>4. /\ used + 1 \in Runs /\ used' \in 0 .. MaxRuns
      /\ StartNode(r) \in 1 .. LastNode + 1 /\ Seed(r) \in States
  BY <1>1, <1>3, Constants, TypesSaid DEF Runs
<1>5. /\ from \in Forks /\ lineage' \in [Runs -> Forks] /\ madeFrom' \in [Runs -> Forks]
  BY <1>1, <1>4, LineageType
<1> DEFINE n == StartNode(r)
           v == Seed(r)
<1>6. /\ n \in 1 .. LastNode + 1 /\ v \in States
      /\ Enters(q, used + 1, n, v, FALSE, from)
  BY <1>1, <1>4
<1> HIDE DEF r, from, n, v
<1>7. /\ builder' \in [Runs -> Builder] /\ request' \in [Requests -> Request]
      /\ request' = [request EXCEPT ![q] = request'[q]]
      /\ request'[q].stage = "running" /\ request'[q].run \in Runs
      /\ request'[q].kind = request[q].kind
  BY <1>4, <1>5, <1>6, EntersEffect
<1>8. LoadedOK(request[q])'
  BY <1>7 DEF LoadedOK
<1>9. PermitsConserved' /\ permits' \in 0 .. MaxConcurrent
  BY <1>1, <1>7, PermitsNext DEF RestInv
<1>10. TypeOK'
  BY <1>1, <1>4, <1>5, <1>7, <1>9, TypesSaid DEF TypeOK, Builder, Request, Saved
<1>11. RestInv'
  BY <1>1, <1>7, <1>8, <1>9, OthersLoadedOK DEF RestInv
<1>12. QED BY <1>10, <1>11 DEF RestStep

(* A replay that is refused keeps its permit until it is answered.         *)
LEMMA RefusedKeeps ==
  ASSUME IsFiniteSet(Requests), TypeOK, RestInv, NEW q \in Requests,
         ReRunRefused(q) \/ ReRunAfterLast(q)
  PROVE  RestStep
<1>1. /\ request' = [request EXCEPT ![q].stage = "answering", ![q].snapshot = Absent]
      /\ UNCHANGED <<trace, checkpoint, builder, permits, resumes, madeFrom>>
  BY DEF ReRunRefused, ReRunAfterLast, stores, recorder
<1>2. lineage' \in [Runs -> Forks] /\ used' \in 0 .. MaxRuns
  <2>1. CASE ReRunRefused(q)
    <3>1. /\ used < MaxRuns /\ used' = used + 1
          /\ lineage' = [lineage EXCEPT ![used + 1] =
                           [id |-> request[q].from, step |-> request[q].step]]
      BY <2>1 DEF ReRunRefused
    <3>2. used + 1 \in Runs /\ used' \in 0 .. MaxRuns
      BY <3>1, Constants, TypesSaid DEF Runs
    <3>3. QED BY <3>1, <3>2, LineageType
  <2>2. CASE ReRunAfterLast(q)
    BY <2>2, TypesSaid DEF ReRunAfterLast, recorder
  <2>3. QED BY <2>1, <2>2
<1>3. /\ request' \in [Requests -> Request]
      /\ request' = [request EXCEPT ![q] = request'[q]]
      /\ request'[q].stage = "answering" /\ request'[q].kind = request[q].kind
  BY <1>1, AnswersEffect
<1>4. LoadedOK(request[q])'
  BY <1>3 DEF LoadedOK
<1>5. PermitsConserved' /\ permits' \in 0 .. MaxConcurrent
  BY <1>1, <1>3, PermitsNext DEF RestInv
<1>6. TypeOK'
  BY <1>1, <1>2, <1>3, <1>5, TypesSaid DEF TypeOK, Builder, Request, Saved
<1>7. RestInv'
  BY <1>1, <1>3, <1>4, <1>5, OthersLoadedOK DEF RestInv
<1>8. QED BY <1>6, <1>7 DEF RestStep

(* A resume enters the loop from its checkpoint.                           *)
LEMMA ResumeKeeps ==
  ASSUME IsFiniteSet(Requests), TypeOK, RestInv, NEW q \in Requests, Resume(q)
  PROVE  RestStep
<1> DEFINE x == request[q].from
           n == checkpoint[x].last + 1
           v == checkpoint[x].state
           open == checkpoint[x].pending
           staged == lineage[x]
<1>1. /\ request[q].stage = "loaded" /\ request[q].kind = "resume"
      /\ Enters(q, x, n, v, open, staged)
      /\ UNCHANGED <<trace, checkpoint, lineage, permits, used, resumes, madeFrom>>
  BY DEF Resume, stores
<1>2. x \in Runs /\ v # Null
  BY <1>1 DEF RestInv, LoadedOK
<1>3. checkpoint[x] \in Saved /\ staged \in Forks
  BY <1>2, TypesSaid
<1>4. n \in 1 .. LastNode + 1 /\ v \in States /\ open \in BOOLEAN
  BY <1>2, <1>3, Constants DEF Saved
<1> HIDE DEF x, n, v, open, staged
<1>5. /\ builder' \in [Runs -> Builder] /\ request' \in [Requests -> Request]
      /\ request' = [request EXCEPT ![q] = request'[q]]
      /\ request'[q].stage = "running" /\ request'[q].run \in Runs
      /\ request'[q].kind = request[q].kind
  BY <1>1, <1>2, <1>3, <1>4, EntersEffect
<1>6. LoadedOK(request[q])'
  BY <1>5 DEF LoadedOK
<1>7. PermitsConserved' /\ permits' \in 0 .. MaxConcurrent
  BY <1>1, <1>5, PermitsNext DEF RestInv
<1>8. TypeOK'
  BY <1>1, <1>5, <1>7, TypesSaid DEF TypeOK, Builder, Request, Saved
<1>9. RestInv'
  BY <1>1, <1>5, <1>6, <1>7, OthersLoadedOK DEF RestInv
<1>10. QED BY <1>8, <1>9 DEF RestStep

(* Both writes of a checkpoint leave a state in it.                        *)
LEMMA CheckpointKeeps ==
  ASSUME TypeOK, RestInv, NEW x \in Runs, NEW cp \in Saved, cp.state # Null,
         checkpoint' = [checkpoint EXCEPT ![x] = cp]
  PROVE  /\ checkpoint' \in [Runs -> Saved] /\ checkpoint'[x] = cp
         /\ \A y \in Runs : checkpoint[y].state # Null => checkpoint'[y].state # Null
BY TypesSaid

(* A gate leaves a pending checkpoint.                                     *)
LEMMA StopsAtGateKeeps ==
  ASSUME IsFiniteSet(Requests), TypeOK, RestInv, NEW q \in Requests, StopsAtGate(q)
  PROVE  RestStep
<1> DEFINE r == request[q]
           x == r.run
           cp == [last |-> IF r.node = r.began THEN 0 ELSE r.node - 1,
                  state |-> r.state, pending |-> TRUE]
<1>1. /\ r.stage = "running" /\ r.node \in Gates
      /\ checkpoint' = [checkpoint EXCEPT ![x] = cp]
      /\ request' = Ends(q, "INTERRUPTED")
      /\ UNCHANGED <<trace, builder, lineage, permits, used, resumes, madeFrom>>
  BY DEF StopsAtGate, Running, recorder
<1>2. r \in Request /\ x \in Runs
  BY <1>1, TypesSaid DEF RestInv, LoadedOK
<1>3. cp \in Saved /\ cp.state # Null
  <2>1. r.node \in 2 .. LastNode
    BY <1>1, RestAssumption
  <2>2. r.node - 1 \in 0 .. LastNode /\ 0 \in 0 .. LastNode
    BY <2>1, Constants
  <2>3. QED BY <1>2, <2>2, Constants DEF Request, Saved
<1> HIDE DEF r, x, cp
<1>4. /\ checkpoint' \in [Runs -> Saved] /\ checkpoint'[x].state # Null
      /\ \A y \in Runs : checkpoint[y].state # Null => checkpoint'[y].state # Null
  BY <1>1, <1>2, <1>3, CheckpointKeeps
<1>5. /\ request' \in [Requests -> Request]
      /\ request' = [request EXCEPT ![q] = request'[q]]
      /\ request'[q].stage = "ending" /\ request'[q].status = "INTERRUPTED"
      /\ request'[q].run = x /\ request'[q].kind = request[q].kind
  BY <1>1, EndsEffect DEF Statuses, x, r
<1>6. LoadedOK(request[q])'
  BY <1>2, <1>4, <1>5 DEF LoadedOK
<1>7. PermitsConserved' /\ permits' \in 0 .. MaxConcurrent
  BY <1>1, <1>5, PermitsNext DEF RestInv
<1>8. TypeOK'
  BY <1>1, <1>4, <1>5, <1>7, TypesSaid DEF TypeOK, Builder, Request, Saved
<1>9. RestInv'
  BY <1>1, <1>4, <1>5, <1>6, <1>7, OthersLoadedOK DEF RestInv
<1>10. QED BY <1>8, <1>9 DEF RestStep

(* A node leaves a step and a checkpoint.                                  *)
LEMMA NodeSucceedsKeeps ==
  ASSUME IsFiniteSet(Requests), TypeOK, RestInv, NEW q \in Requests, NodeSucceeds(q)
  PROVE  RestStep
<1> DEFINE r == request[q]
           x == r.run
           cp == [last |-> r.node, state |-> r.state + 1, pending |-> FALSE]
<1>1. /\ r.stage = "running"
      /\ Records(x, [node |-> r.node, before |-> r.state])
      /\ checkpoint' = [checkpoint EXCEPT ![x] = cp]
      /\ UNCHANGED <<trace, lineage, permits, used, resumes, madeFrom>>
  BY DEF NodeSucceeds, Running
<1>2. r \in Request /\ x \in Runs
  BY <1>1, TypesSaid DEF RestInv, LoadedOK
<1>3. /\ request' \in [Requests -> Request]
      /\ request' = [request EXCEPT ![q] = request'[q]]
      /\ request'[q].stage = "running" /\ request'[q].run = x
      /\ request'[q].kind = request[q].kind
      /\ r.node \in Nodes /\ r.state + 1 \in States
  BY NodeEffect
<1>4. cp \in Saved /\ cp.state # Null
  BY <1>3, Constants DEF Saved
<1>5. r.state \in States \union {Null}
  BY <1>2 DEF Request
<1> HIDE DEF r, x, cp
<1>6. builder' \in [Runs -> Builder]
  BY <1>1, <1>2, <1>3, <1>5, RecordsEffect
<1>7. /\ checkpoint' \in [Runs -> Saved]
      /\ \A y \in Runs : checkpoint[y].state # Null => checkpoint'[y].state # Null
  BY <1>1, <1>2, <1>4, CheckpointKeeps
<1>8. LoadedOK(request[q])'
  BY <1>2, <1>3 DEF LoadedOK
<1>9. PermitsConserved' /\ permits' \in 0 .. MaxConcurrent
  BY <1>1, <1>3, PermitsNext DEF RestInv
<1>10. TypeOK'
  BY <1>1, <1>3, <1>6, <1>7, <1>9, TypesSaid DEF TypeOK, Builder, Request, Saved
<1>11. RestInv'
  BY <1>1, <1>3, <1>7, <1>8, <1>9, OthersLoadedOK DEF RestInv
<1>12. QED BY <1>10, <1>11 DEF RestStep

(* A run that fails or finishes.                                           *)
LEMMA NodeFailsKeeps ==
  ASSUME IsFiniteSet(Requests), TypeOK, RestInv, NEW q \in Requests,
         NodeFails(q) \/ Finishes(q)
  PROVE  RestStep
<1> DEFINE x == request[q].run
<1>1. PICK s \in {"FAILED", "COMPLETED"} : request' = Ends(q, s)
  BY DEF NodeFails, Finishes
<1>2. /\ request[q].stage = "running"
      /\ UNCHANGED <<trace, checkpoint, lineage, permits, used, resumes, madeFrom>>
  BY DEF NodeFails, Finishes, Running, stores, recorder
<1>3. request[q] \in Request /\ x \in Runs
  BY <1>2, TypesSaid DEF RestInv, LoadedOK
<1>4. builder' \in [Runs -> Builder]
  <2>1. CASE NodeFails(q)
    <3>1. Records(x, [node |-> request[q].node, before |-> Null])
      BY <2>1 DEF NodeFails
    <3>2. request[q].node \in Nodes
      BY <2>1 DEF NodeFails, PassesGate
    <3>3. QED BY <1>3, <3>1, <3>2, RecordsEffect
  <2>2. CASE Finishes(q)
    BY <2>2, TypesSaid DEF Finishes, recorder
  <2>3. QED BY <2>1, <2>2
<1>5. s \in Statuses
  BY DEF Statuses
<1> HIDE DEF x
<1>6. /\ request' \in [Requests -> Request]
      /\ request' = [request EXCEPT ![q] = request'[q]]
      /\ request'[q].stage = "ending" /\ request'[q].status = s
      /\ request'[q].run = x /\ request'[q].kind = request[q].kind
  BY <1>1, <1>5, EndsEffect DEF x
<1>7. LoadedOK(request[q])'
  BY <1>3, <1>6 DEF LoadedOK
<1>8. PermitsConserved' /\ permits' \in 0 .. MaxConcurrent
  BY <1>2, <1>6, PermitsNext DEF RestInv
<1>9. TypeOK'
  BY <1>2, <1>4, <1>6, <1>8, TypesSaid DEF TypeOK, Builder, Request, Saved
<1>10. RestInv'
  BY <1>2, <1>6, <1>7, <1>8, OthersLoadedOK DEF RestInv
<1>11. QED BY <1>9, <1>10 DEF RestStep

(* The trace that recordComplete saves.                                    *)
LEMMA CompletedTrace ==
  ASSUME TypeOK, RestInv, NEW q \in Requests, RecordComplete(q)
  PROVE  LET x == request[q].run
             t == [status |-> request[q].status, init |-> builder[x].init,
                   steps |-> builder[x].steps, fork |-> lineage[x]]
         IN  /\ x \in Runs /\ t \in Trace
             /\ t.status = "INTERRUPTED" => checkpoint[x].state # Null
             /\ IF builder[x].open
                THEN /\ trace' = [trace EXCEPT ![x] = t]
                     /\ builder' = [builder EXCEPT ![x] = NoBuilder]
                     /\ lineage' = [lineage EXCEPT ![x] = NoFork]
                ELSE UNCHANGED <<trace, builder, lineage>>
<1> DEFINE x == request[q].run
<1>1. request[q].stage = "ending"
  BY DEF RecordComplete
<1>2. x \in Runs /\ request[q] \in Request
  BY <1>1, TypesSaid DEF RestInv, LoadedOK
<1>3. builder[x] \in Builder /\ lineage[x] \in Forks
  BY <1>2, TypesSaid
<1>4. [status |-> request[q].status, init |-> builder[x].init,
       steps |-> builder[x].steps, fork |-> lineage[x]] \in Trace
  BY <1>2, <1>3 DEF Request, Builder, Trace
<1>5. request[q].status = "INTERRUPTED" => checkpoint[x].state # Null
  BY <1>1 DEF RestInv, LoadedOK
<1>6. QED BY <1>2, <1>4, <1>5 DEF RecordComplete, recorder

(* What is saved was built, and its checkpoint is there if it stopped.     *)
LEMMA RecordCompleteKeeps ==
  ASSUME IsFiniteSet(Requests), TypeOK, RestInv, NEW q \in Requests, RecordComplete(q)
  PROVE  RestStep
<1> DEFINE x == request[q].run
           t == [status |-> request[q].status, init |-> builder[x].init,
                 steps |-> builder[x].steps, fork |-> lineage[x]]
<1>1. /\ x \in Runs /\ t \in Trace
      /\ t.status = "INTERRUPTED" => checkpoint[x].state # Null
      /\ IF builder[x].open
         THEN /\ trace' = [trace EXCEPT ![x] = t]
              /\ builder' = [builder EXCEPT ![x] = NoBuilder]
              /\ lineage' = [lineage EXCEPT ![x] = NoFork]
         ELSE UNCHANGED <<trace, builder, lineage>>
  BY CompletedTrace
<1>2. /\ request' = [request EXCEPT ![q].stage = "answering"]
      /\ UNCHANGED <<checkpoint, permits, used, resumes, madeFrom>>
  BY DEF RecordComplete
<1> HIDE DEF t, x
<1>3. /\ trace' \in [Runs -> Trace] /\ builder' \in [Runs -> Builder]
      /\ lineage' \in [Runs -> Forks]
      /\ \A y \in Runs : trace'[y].status = "INTERRUPTED" => checkpoint[y].state # Null
  <2>1. CASE builder[x].open
    BY <1>1, <2>1, TypesSaid, AbsentType DEF RestInv
  <2>2. CASE ~builder[x].open
    BY <1>1, <2>2, TypesSaid DEF RestInv
  <2>3. QED BY <2>1, <2>2
<1>4. /\ request' \in [Requests -> Request]
      /\ request' = [request EXCEPT ![q] = request'[q]]
      /\ request'[q].stage = "answering" /\ request'[q].kind = request[q].kind
  BY <1>2, AnswersEffect
<1>5. LoadedOK(request[q])'
  BY <1>4 DEF LoadedOK
<1>6. PermitsConserved' /\ permits' \in 0 .. MaxConcurrent
  BY <1>2, <1>4, PermitsNext DEF RestInv
<1>7. TypeOK'
  BY <1>2, <1>3, <1>4, <1>6, TypesSaid DEF TypeOK, Builder, Request, Saved
<1>8. RestInv'
  BY <1>2, <1>3, <1>4, <1>5, <1>6, OthersLoadedOK DEF RestInv
<1>9. QED BY <1>7, <1>8 DEF RestStep

(* The answer gives the permit of a replay back.                           *)
LEMMA AnswerKeeps ==
  ASSUME IsFiniteSet(Requests), TypeOK, RestInv, NEW q \in Requests, Answer(q)
  PROVE  RestStep
<1>1. /\ permits' = IF request[q].kind = "replay" THEN permits + 1 ELSE permits
      /\ request' = [request EXCEPT ![q] = Free]
      /\ UNCHANGED <<trace, checkpoint, builder, lineage, used, resumes, madeFrom>>
  BY DEF Answer, stores, recorder
<1>2. /\ request' \in [Requests -> Request] /\ request'[q] = Free
      /\ request' = [request EXCEPT ![q] = request'[q]]
  BY <1>1, FreeType, TypesSaid
<1>3. Free.stage = "free" /\ Free.kind = "run"
  BY DEF Free
<1>4. LoadedOK(request[q])'
  BY <1>2, <1>3 DEF LoadedOK
<1>5. PermitsConserved' /\ permits' \in 0 .. MaxConcurrent
  <2>1. CASE request[q].kind = "replay"
    BY <1>1, <1>2, <1>3, <2>1, PermitsNext DEF RestInv
  <2>2. CASE request[q].kind # "replay"
    BY <1>1, <1>2, <1>3, <2>2, PermitsNext DEF RestInv
  <2>3. QED BY <2>1, <2>2
<1>6. TypeOK'
  BY <1>1, <1>2, <1>5, TypesSaid DEF TypeOK, Builder, Request, Saved
<1>7. RestInv'
  BY <1>1, <1>2, <1>4, <1>5, OthersLoadedOK DEF RestInv
<1>8. QED BY <1>6, <1>7 DEF RestStep

(* A trace goes, its checkpoint stays.                                     *)
LEMMA DeleteKeeps ==
  ASSUME TypeOK, RestInv, NEW x \in Runs, Delete(x)
  PROVE  RestStep
<1>1. /\ trace' = [trace EXCEPT ![x] = Absent]
      /\ UNCHANGED <<checkpoint, builder, lineage, permits, request, used, resumes, madeFrom>>
  BY DEF Delete, recorder
<1>2. trace' \in [Runs -> Trace] /\ Absent.status = "ABSENT"
  BY <1>1, TypesSaid, AbsentType DEF Absent
<1>3. \A y \in Runs : trace'[y].status = "INTERRUPTED" => checkpoint[y].state # Null
  BY <1>1, <1>2, TypesSaid DEF RestInv
<1>4. TypeOK'
  BY <1>1, <1>2, TypesSaid DEF TypeOK, Builder, Request, Saved
<1>5. RestInv'
  BY <1>1, <1>3 DEF RestInv, LoadedOK, PermitsConserved
<1>6. QED BY <1>4, <1>5 DEF RestStep

(* Every step keeps the types and what they rest on.                       *)
LEMMA RestInvNext ==
  ASSUME IsFiniteSet(Requests), TypeOK, RestInv, [Next]_vars
  PROVE  RestStep
<1>1. CASE UNCHANGED vars
  <2>1. UNCHANGED <<trace, checkpoint, builder, lineage, permits, request, used, resumes,
                    madeFrom>>
    BY <1>1 DEF vars, stores, recorder
  <2>2. TypeOK'
    BY <2>1 DEF TypeOK
  <2>3. RestInv'
    BY <2>1 DEF RestInv, LoadedOK, PermitsConserved
  <2>4. QED BY <2>2, <2>3 DEF RestStep
<1>2. CASE Next
  BY <1>2, RunKeeps, AskReplayKeeps, AskResumeKeeps, ReRunKeeps, RefusedKeeps,
     ResumeKeeps, StopsAtGateKeeps, NodeSucceedsKeeps, NodeFailsKeeps,
     RecordCompleteKeeps, AnswerKeeps, DeleteKeeps DEF Next, Works
<1>3. QED BY <1>1, <1>2

(* The beginning: every permit is there.                                   *)
LEMMA RestInvInit ==
  ASSUME IsFiniteSet(Requests), Init
  PROVE  TypeOK /\ RestInv
<1>1. TypeOK
  BY AbsentType, FreeType, Constants, TypesSaid DEF Init
<1>2. \A q \in Requests : request[q] = Free
  BY DEF Init
<1>3. Free.stage = "free" /\ Free.kind = "run" /\ Absent.status = "ABSENT"
  BY DEF Free, Absent
<1>4. PermitsConserved
  <2>1. Replays = {}
    BY <1>2, <1>3 DEF Replays
  <2>2. Cardinality(Replays) = 0
    BY <2>1, FS_EmptySet
  <2>3. permits = MaxConcurrent /\ MaxConcurrent \in Nat
    BY Constants DEF Init
  <2>4. permits + Cardinality(Replays) = MaxConcurrent
    BY <2>2, <2>3
  <2>5. QED BY <2>4 DEF PermitsConserved, Replays
<1>5. \A x \in Runs : trace[x].status # "INTERRUPTED"
  BY <1>3 DEF Init
<1>6. QED BY <1>1, <1>2, <1>3, <1>4, <1>5 DEF RestInv, LoadedOK

(* The requests' and the stores' types, whatever the clients do.           *)
THEOREM TypeCorrect ==
  ASSUME IsFiniteSet(Requests)
  PROVE  Spec => []TypeOK
<1>1. TypeOK /\ RestInv /\ [Next]_vars => (TypeOK /\ RestInv)'
  BY RestInvNext DEF RestStep
<1>2. QED BY <1>1, RestInvInit, PTL DEF Spec

(* Every permit that is not there is out on a replay in progress, whatever *)
(* the clients do and however the replays end.                             *)
THEOREM PermitsComeBack ==
  ASSUME IsFiniteSet(Requests)
  PROVE  Spec => []PermitsConserved
<1>1. TypeOK /\ RestInv /\ [Next]_vars => (TypeOK /\ RestInv)'
  BY RestInvNext DEF RestStep
<1>2. RestInv => PermitsConserved
  BY DEF RestInv
<1>3. QED BY <1>1, <1>2, RestInvInit, PTL DEF Spec

-----------------------------------------------------------------------------
(* Lineage                                                                 *)

(* LineageKept is not inductive: recordComplete saves what was staged, so  *)
(* that has to be right while a builder is open, and gone when an          *)
(* execution that was not forked is resumed.                               *)
ExecOK(x) ==
  /\ builder[x].open => lineage[x] = madeFrom[x]
  /\ trace[x].status # "ABSENT" =>
       trace[x].fork = madeFrom[x] /\ lineage[x] \in {NoFork, madeFrom[x]}
  /\ x > used => /\ lineage[x] = NoFork /\ madeFrom[x] = NoFork
                 /\ ~builder[x].open /\ trace[x].status = "ABSENT"

RequestOK(r) ==
  r.stage = "loaded" =>
    /\ r.from \in 1 .. used
    /\ r.kind = "resume" => madeFrom[r.from] = NoFork /\ lineage[r.from] = NoFork

LineageInv ==
  /\ \A x \in Runs : ExecOK(x)
  /\ \A q \in Requests : RequestOK(request[q])

(* Where only one request changes, and not what it was loaded with.        *)
LEMMA OthersRequestOK ==
  ASSUME TypeOK, LineageInv, NEW q \in Requests,
         request' = [request EXCEPT ![q] = request'[q]],
         used' >= used, used' \in Nat,
         \A x \in 1 .. used : /\ madeFrom'[x] = madeFrom[x]
                              /\ lineage[x] = NoFork => lineage'[x] = NoFork,
         RequestOK(request[q])'
  PROVE  \A p \in Requests : RequestOK(request[p])'
<1>1. request \in [Requests -> Request] /\ used \in Nat
  BY TypesSaid, Constants
<1>2. ASSUME NEW p \in Requests, p # q PROVE RequestOK(request[p])'
  <2>1. request'[p] = request[p] /\ RequestOK(request[p])
    BY <1>1, <1>2 DEF LineageInv
  <2>2. QED BY <1>1, <2>1 DEF RequestOK
<1>3. QED BY <1>2

(* Steps that leave the executions alone.                                  *)
LEMMA QuietSteps ==
  ASSUME TypeOK, LineageInv,
         UNCHANGED <<trace, lineage, used, madeFrom>>,
         \A x \in Runs : builder'[x].open = builder[x].open
  PROVE  \A x \in Runs : ExecOK(x)'
BY DEF LineageInv, ExecOK

(* A resume is asked of what was not forked.                               *)
LEMMA AsksKeepLineage ==
  ASSUME "resumeForks" \notin Habits, TypeOK, RestInv, LineageInv,
         NEW q \in Requests, NEW x \in Runs,
         AskResume(q, x) \/ \E step \in 0 .. LastNode : AskReplay(q, x, step)
  PROVE  LineageInv'
<1>1. UNCHANGED <<trace, builder, lineage, used, madeFrom>> /\ trace[x].status # "ABSENT"
  BY DEF AskResume, AskReplay, stores, recorder
<1>2. PICK kind \in Kinds, step \in Nat :
        Loads(q, kind, x, step) /\ (kind = "resume" => madeFrom[x] = NoFork)
  <2>1. CASE AskResume(q, x)
    <3>1. Loads(q, "resume", x, 0) /\ madeFrom[x] = NoFork
      BY <2>1 DEF AskResume, MayResume
    <3>2. QED BY <3>1 DEF Kinds
  <2>2. ASSUME NEW step \in 0 .. LastNode, AskReplay(q, x, step)
        PROVE  \E kind \in Kinds : Loads(q, kind, x, step) /\ kind # "resume"
    BY <2>2 DEF AskReplay, Kinds
  <2>3. 0 .. LastNode \subseteq Nat
    BY Constants
  <2>4. QED BY <2>1, <2>2, <2>3
<1>3. /\ request' = [request EXCEPT ![q] = request'[q]]
      /\ request'[q].kind = kind /\ request'[q].from = x
  BY <1>2, LoadsEffect
<1>4. ExecOK(x) /\ used \in Nat /\ x \in 1 .. MaxRuns /\ MaxRuns \in Nat
  BY TypesSaid, Constants DEF LineageInv, Runs
<1>5. x \in 1 .. used /\ lineage[x] \in {NoFork, madeFrom[x]}
  BY <1>1, <1>4 DEF ExecOK
<1>6. RequestOK(request[q])'
  BY <1>1, <1>2, <1>3, <1>5 DEF RequestOK
<1>7. \A p \in Requests : RequestOK(request[p])'
  BY <1>1, <1>3, <1>4, <1>6, OthersRequestOK
<1>8. QED BY <1>1, <1>7, QuietSteps DEF LineageInv

(* A request that runs, ends or is answered needs nothing.                 *)
LEMMA WorkKeepsLineage ==
  ASSUME TypeOK, RestInv, LineageInv, NEW q \in Requests,
         \/ StopsAtGate(q) \/ NodeSucceeds(q) \/ NodeFails(q) \/ Finishes(q)
         \/ ReRunAfterLast(q) \/ Answer(q)
  PROVE  LineageInv'
<1>1. UNCHANGED <<trace, lineage, used, madeFrom>> /\ used \in Nat
  BY TypesSaid, Constants
     DEF StopsAtGate, NodeSucceeds, NodeFails, Finishes, ReRunAfterLast, Answer,
         stores, recorder
<1>2. /\ request' = [request EXCEPT ![q] = request'[q]]
      /\ request'[q].stage # "loaded"
  <2>1. CASE StopsAtGate(q)
    BY <2>1, EndsEffect DEF StopsAtGate, Statuses
  <2>2. CASE NodeSucceeds(q)
    BY <2>2, NodeEffect
  <2>3. CASE NodeFails(q)
    BY <2>3, EndsEffect DEF NodeFails, Statuses
  <2>4. CASE Finishes(q)
    BY <2>4, EndsEffect DEF Finishes, Statuses
  <2>5. CASE ReRunAfterLast(q)
    BY <2>5, AnswersEffect DEF ReRunAfterLast
  <2>6. CASE Answer(q)
    <3>1. request' = [request EXCEPT ![q] = Free] /\ Free.stage = "free"
      BY <2>6 DEF Answer, Free
    <3>2. QED BY <3>1, TypesSaid
  <2>7. QED BY <2>1, <2>2, <2>3, <2>4, <2>5, <2>6
<1>3. \A x \in Runs : builder'[x].open = builder[x].open
  <2>1. ASSUME NEW v \in States \union {Null},
               request[q].stage = "running", request[q].node \in Nodes,
               Records(request[q].run, [node |-> request[q].node, before |-> v])
        PROVE  \A x \in Runs : builder'[x].open = builder[x].open
    <3>1. request[q].run \in Runs
      BY <2>1 DEF RestInv, LoadedOK
    <3>2. builder \in [Runs -> Builder]
      BY TypesSaid
    <3> DEFINE x == request[q].run
    <3>3. /\ builder' = [builder EXCEPT ![x] = builder'[x]]
          /\ builder'[x].open = builder[x].open
      BY <2>1, <3>1, RecordsEffect
    <3> HIDE DEF x
    <3>4. QED BY <3>2, <3>3
  <2>2. CASE NodeSucceeds(q) \/ NodeFails(q)
    <3>1. request[q] \in Request
      BY TypesSaid
    <3>2. /\ request[q].stage = "running" /\ request[q].node \in Nodes
          /\ request[q].state \in States \union {Null}
      BY <2>2, <3>1 DEF NodeSucceeds, NodeFails, Running, PassesGate, Request
    <3>3. QED BY <2>1, <2>2, <3>2 DEF NodeSucceeds, NodeFails
  <2>3. CASE StopsAtGate(q) \/ Finishes(q) \/ ReRunAfterLast(q) \/ Answer(q)
    BY <2>3 DEF StopsAtGate, Finishes, ReRunAfterLast, Answer, recorder
  <2>4. QED BY <2>2, <2>3
<1>4. RequestOK(request[q])'
  BY <1>2 DEF RequestOK
<1>5. \A p \in Requests : RequestOK(request[p])'
  BY <1>1, <1>2, <1>4, OthersRequestOK
<1>6. QED BY <1>1, <1>3, <1>5, QuietSteps DEF LineageInv

(* A new execution, forked from another or from none.                      *)
LEMMA NewExecutionKeepsLineage ==
  ASSUME TypeOK, RestInv, LineageInv, NEW q \in Requests,
         used < MaxRuns, used' = used + 1, UNCHANGED trace,
         NEW made \in Forks, NEW staged \in Forks, NEW open \in BOOLEAN,
         lineage' = [lineage EXCEPT ![used + 1] = staged],
         madeFrom' = [madeFrom EXCEPT ![used + 1] = made],
         open => staged = made,
         \A x \in Runs : builder'[x].open =
                          IF x = used + 1 /\ open THEN TRUE ELSE builder[x].open,
         request' = [request EXCEPT ![q] = request'[q]],
         request'[q].stage # "loaded"
  PROVE  LineageInv'
<1>1. /\ used \in Nat /\ MaxRuns \in Nat /\ used + 1 \in Runs
      /\ \A x \in Runs : x \in Nat
      /\ lineage \in [Runs -> Forks] /\ madeFrom \in [Runs -> Forks]
  BY TypesSaid, Constants DEF Runs
<1>2. ASSUME NEW x \in Runs, x # used + 1 PROVE ExecOK(x)'
  <2>1. /\ lineage'[x] = lineage[x] /\ madeFrom'[x] = madeFrom[x]
        /\ builder'[x].open = builder[x].open /\ trace'[x] = trace[x]
    BY <1>1, <1>2
  <2>2. ExecOK(x)
    BY DEF LineageInv
  <2>3. x > used' => x > used
    BY <1>1
  <2>4. QED BY <2>1, <2>2, <2>3 DEF ExecOK
<1>3. ASSUME NEW x \in Runs, x = used + 1 PROVE ExecOK(x)'
  <2>1. ExecOK(x) /\ x > used /\ ~(x > used')
    BY <1>1, <1>3 DEF LineageInv
  <2>2. trace[x].status = "ABSENT" /\ ~builder[x].open
    BY <2>1 DEF ExecOK
  <2>3. /\ builder'[x].open => staged = made
        /\ lineage'[x] = staged /\ madeFrom'[x] = made
    BY <1>1, <1>3, <2>2
  <2>4. QED BY <2>1, <2>2, <2>3 DEF ExecOK
<1>4. RequestOK(request[q])'
  BY DEF RequestOK
<1>5. \A x \in 1 .. used : madeFrom'[x] = madeFrom[x] /\ lineage'[x] = lineage[x]
  BY <1>1 DEF Runs
<1>6. \A p \in Requests : RequestOK(request[p])'
  BY <1>1, <1>4, <1>5, OthersRequestOK
<1>7. QED BY <1>2, <1>3, <1>6 DEF LineageInv

(* Runs, replays and forks begin executions; so does a refused one, though *)
(* all it leaves is what it staged.                                        *)
LEMMA RunsKeepLineage ==
  ASSUME TypeOK, RestInv, LineageInv, NEW q \in Requests,
         Run(q) \/ ReRun(q) \/ ReRunRefused(q)
  PROVE  LineageInv'
<1> DEFINE x == used + 1
           r == request[q]
           from == [id |-> r.from, step |-> r.step]
<1>1. used < MaxRuns /\ used' = used + 1 /\ UNCHANGED trace
  BY DEF Run, ReRun, ReRunRefused, stores
<1>2. /\ x \in Runs /\ x > used
      /\ lineage \in [Runs -> Forks] /\ madeFrom \in [Runs -> Forks]
      /\ builder \in [Runs -> Builder] /\ r \in Request
  BY <1>1, TypesSaid, Constants DEF Runs
<1>3. lineage[x] = NoFork /\ madeFrom[x] = NoFork /\ NoFork \in Forks
  <2>1. ExecOK(x)
    BY <1>2 DEF LineageInv
  <2>2. QED BY <1>2, <2>1, AbsentType DEF ExecOK
<1>4. from \in Forks
  BY <1>2 DEF Request, Forks
<1>5. ASSUME NEW n \in 1 .. LastNode + 1, NEW v \in States, NEW staged \in Forks,
             Enters(q, x, n, v, FALSE, staged)
      PROVE  /\ \A y \in Runs : builder'[y].open =
                               IF y = x /\ TRUE THEN TRUE ELSE builder[y].open
             /\ request' = [request EXCEPT ![q] = request'[q]]
             /\ request'[q].stage # "loaded"
  <2> HIDE DEF x, r, from
  <2>1. /\ builder' \in [Runs -> Builder]
        /\ builder' = [builder EXCEPT ![x] = builder'[x]] /\ builder'[x].open
        /\ request' = [request EXCEPT ![q] = request'[q]]
        /\ request'[q].stage = "running"
    BY <1>2, <1>5, EntersEffect
  <2>2. builder'[x].open = TRUE
    BY <1>2, <2>1 DEF Builder
  <2>3. QED BY <1>2, <2>1, <2>2
<1>6. CASE Run(q)
  <2>1. Enters(q, x, 1, 0, FALSE, NoFork) /\ UNCHANGED <<lineage, madeFrom>>
    BY <1>6 DEF Run
  <2>2. 1 \in 1 .. LastNode + 1 /\ 0 \in States
    BY Constants
  <2> HIDE DEF r, from
  <2>3. /\ lineage' = [lineage EXCEPT ![x] = NoFork]
        /\ madeFrom' = [madeFrom EXCEPT ![x] = NoFork]
    BY <1>2, <1>3, <2>1
  <2>4. /\ \A y \in Runs : builder'[y].open =
                           IF y = x /\ TRUE THEN TRUE ELSE builder[y].open
        /\ request' = [request EXCEPT ![q] = request'[q]]
        /\ request'[q].stage # "loaded"
    BY <1>3, <1>5, <2>1, <2>2
  <2>5. QED BY <1>1, <1>3, <2>3, <2>4, NewExecutionKeepsLineage
<1>7. CASE ReRun(q)
  <2> DEFINE n == StartNode(r)
             v == Seed(r)
  <2>1. /\ r.stage = "loaded" /\ r.kind # "resume" /\ n # 0 /\ v # Null
        /\ lineage' = [lineage EXCEPT ![x] = from]
        /\ madeFrom' = [madeFrom EXCEPT ![x] = from]
        /\ Enters(q, x, n, v, FALSE, from)
    BY <1>7 DEF ReRun
  <2>2. LoadedOK(r)
    BY DEF RestInv
  <2>3. n \in Nodes /\ v \in States
    BY <1>2, <2>1, <2>2, SeedType
  <2>4. n \in 1 .. LastNode + 1
    BY <2>3, Constants
  <2> HIDE DEF n, v, from, r
  <2>5. /\ \A y \in Runs : builder'[y].open =
                           IF y = x /\ TRUE THEN TRUE ELSE builder[y].open
        /\ request' = [request EXCEPT ![q] = request'[q]]
        /\ request'[q].stage # "loaded"
    BY <1>4, <1>5, <2>1, <2>3, <2>4
  <2>6. QED BY <1>1, <1>4, <2>1, <2>5, NewExecutionKeepsLineage
<1>8. CASE ReRunRefused(q)
  <2>1. /\ lineage' = [lineage EXCEPT ![x] = from]
        /\ request' = [request EXCEPT ![q].stage = "answering", ![q].snapshot = Absent]
        /\ UNCHANGED <<builder, madeFrom>>
    BY <1>8 DEF ReRunRefused
  <2>2. /\ request' = [request EXCEPT ![q] = request'[q]]
        /\ request'[q].stage # "loaded"
    BY <2>1, AnswersEffect
  <2> HIDE DEF r, from
  <2>3. madeFrom' = [madeFrom EXCEPT ![x] = NoFork]
    BY <1>2, <1>3, <2>1
  <2>4. \A y \in Runs : builder'[y].open =
                         IF y = x /\ FALSE THEN TRUE ELSE builder[y].open
    BY <2>1
  <2>5. QED BY <1>1, <1>3, <1>4, <2>1, <2>2, <2>3, <2>4, NewExecutionKeepsLineage
<1>9. QED BY <1>6, <1>7, <1>8

(* A resume enters with nothing staged, and nothing was.                   *)
LEMMA ResumeKeepsLineage ==
  ASSUME TypeOK, RestInv, LineageInv, NEW q \in Requests, Resume(q)
  PROVE  LineageInv'
<1> DEFINE x == request[q].from
           n == checkpoint[x].last + 1
           v == checkpoint[x].state
           open == checkpoint[x].pending
           staged == lineage[x]
<1>1. /\ request[q].stage = "loaded" /\ request[q].kind = "resume"
      /\ Enters(q, x, n, v, open, staged)
      /\ UNCHANGED <<trace, lineage, used, madeFrom>>
  BY DEF Resume, stores
<1>2. x \in Runs /\ v # Null
  BY <1>1 DEF RestInv, LoadedOK
<1>3. checkpoint[x] \in Saved /\ staged \in Forks /\ builder \in [Runs -> Builder]
  BY <1>2, TypesSaid
<1>4. n \in 1 .. LastNode + 1 /\ v \in States /\ open \in BOOLEAN
  BY <1>2, <1>3, Constants DEF Saved
<1>5. x \in 1 .. used /\ used \in Nat /\ madeFrom[x] = NoFork /\ lineage[x] = NoFork
  BY <1>1, TypesSaid, Constants DEF LineageInv, RequestOK
<1> HIDE DEF x, n, v, open, staged
<1>6. /\ builder' = [builder EXCEPT ![x] = builder'[x]]
      /\ request' = [request EXCEPT ![q] = request'[q]]
      /\ request'[q].stage = "running"
  BY <1>1, <1>2, <1>3, <1>4, EntersEffect
<1>7. ASSUME NEW y \in Runs PROVE ExecOK(y)'
  <2>1. ExecOK(y)
    BY DEF LineageInv
  <2>2. CASE y = x
    <3>1. ~(y > used) /\ lineage[y] = madeFrom[y]
      BY <1>5, <2>2
    <3>2. QED BY <1>1, <2>1, <3>1 DEF ExecOK
  <2>3. CASE y # x
    BY <1>1, <1>3, <1>6, <2>1, <2>3 DEF ExecOK
  <2>4. QED BY <2>2, <2>3
<1>8. RequestOK(request[q])'
  BY <1>6 DEF RequestOK
<1>9. \A p \in Requests : RequestOK(request[p])'
  BY <1>1, <1>5, <1>6, <1>8, OthersRequestOK
<1>10. QED BY <1>7, <1>9 DEF LineageInv

(* The trace is saved with what was staged, which is taken away.           *)
LEMMA RecordCompleteKeepsLineage ==
  ASSUME TypeOK, RestInv, LineageInv, NEW q \in Requests, RecordComplete(q)
  PROVE  LineageInv'
<1> DEFINE x == request[q].run
           t == [status |-> request[q].status, init |-> builder[x].init,
                 steps |-> builder[x].steps, fork |-> lineage[x]]
<1>1. /\ x \in Runs
      /\ IF builder[x].open
         THEN /\ trace' = [trace EXCEPT ![x] = t]
              /\ builder' = [builder EXCEPT ![x] = NoBuilder]
              /\ lineage' = [lineage EXCEPT ![x] = NoFork]
         ELSE UNCHANGED <<trace, builder, lineage>>
  BY CompletedTrace
<1>2. /\ request' = [request EXCEPT ![q].stage = "answering"]
      /\ UNCHANGED <<used, madeFrom>>
  BY DEF RecordComplete
<1>3. t.fork = lineage[x] /\ ~NoBuilder.open
  BY DEF NoBuilder
<1>4. /\ lineage \in [Runs -> Forks] /\ trace \in [Runs -> Trace]
      /\ builder \in [Runs -> Builder] /\ used \in Nat
  BY TypesSaid, Constants
<1> HIDE DEF x, t
<1>5. ASSUME NEW y \in Runs PROVE ExecOK(y)'
  <2>1. ExecOK(y)
    BY DEF LineageInv
  <2>2. CASE builder[x].open /\ y = x
    <3>1. /\ trace'[y].fork = madeFrom[y] /\ lineage'[y] = NoFork
          /\ ~builder'[y].open /\ ~(y > used)
      BY <1>1, <1>3, <1>4, <2>1, <2>2 DEF ExecOK
    <3>2. QED BY <1>2, <3>1 DEF ExecOK
  <2>3. CASE ~(builder[x].open /\ y = x)
    <3>1. trace'[y] = trace[y] /\ lineage'[y] = lineage[y] /\ builder'[y] = builder[y]
      BY <1>1, <1>4, <2>3
    <3>2. QED BY <1>2, <2>1, <3>1 DEF ExecOK
  <2>4. QED BY <2>2, <2>3
<1>6. /\ request' = [request EXCEPT ![q] = request'[q]]
      /\ request'[q].stage = "answering"
  BY <1>2, AnswersEffect
<1>7. RequestOK(request[q])'
  BY <1>6 DEF RequestOK
<1>8. \A y \in 1 .. used : lineage[y] = NoFork => lineage'[y] = NoFork
  <2>1. \A y \in 1 .. used : y \in Runs
    BY <1>4, TypesSaid, Constants DEF Runs
  <2>2. QED BY <1>1, <1>4, <2>1
<1>9. \A p \in Requests : RequestOK(request[p])'
  <2>1. /\ used' >= used /\ used' \in Nat
        /\ \A y \in 1 .. used : /\ madeFrom'[y] = madeFrom[y]
                                /\ lineage[y] = NoFork => lineage'[y] = NoFork
    BY <1>2, <1>4, <1>8
  <2>2. QED BY <1>6, <1>7, <2>1, OthersRequestOK
<1>10. QED BY <1>5, <1>9 DEF LineageInv

(* A trace that is gone claims nothing.                                    *)
LEMMA DeleteKeepsLineage ==
  ASSUME TypeOK, LineageInv, NEW x \in Runs, Delete(x)
  PROVE  LineageInv'
<1>1. /\ trace' = [trace EXCEPT ![x] = Absent]
      /\ UNCHANGED <<builder, lineage, request, used, madeFrom>>
  BY DEF Delete, recorder
<1>2. \A y \in Runs : trace'[y] = trace[y] \/ trace'[y].status = "ABSENT"
  BY <1>1, TypesSaid DEF Absent
<1>3. \A y \in Runs : ExecOK(y)'
  BY <1>1, <1>2 DEF LineageInv, ExecOK
<1>4. QED BY <1>1, <1>3 DEF LineageInv, RequestOK

(* The beginning: nothing was forked.                                      *)
LEMMA LineageInvInit ==
  ASSUME Init PROVE LineageInv
<1>1. \A x \in Runs : /\ trace[x] = Absent /\ builder[x] = NoBuilder
                      /\ lineage[x] = NoFork /\ madeFrom[x] = NoFork
  BY DEF Init
<1>2. \A q \in Requests : request[q] = Free
  BY DEF Init
<1>3. QED
  BY <1>1, <1>2 DEF LineageInv, ExecOK, RequestOK, Absent, NoBuilder, Free

(* Every step keeps the lineage, unless what was forked is resumed.        *)
LEMMA LineageInvNext ==
  ASSUME "resumeForks" \notin Habits, TypeOK, RestInv, LineageInv, [Next]_vars
  PROVE  LineageInv'
<1>1. CASE UNCHANGED vars
  BY <1>1 DEF vars, stores, recorder, LineageInv, ExecOK, RequestOK
<1>2. CASE Next
  BY <1>2, AsksKeepLineage, WorkKeepsLineage, RunsKeepLineage, ResumeKeepsLineage,
     RecordCompleteKeepsLineage, DeleteKeepsLineage DEF Next, Works
<1>3. QED BY <1>1, <1>2

(* A trace says that it was forked, and from what, if and only if it was,  *)
(* whatever is replayed, forked, resumed, refused and deleted at the same  *)
(* time: as long as nobody resumes an execution that was forked, whose     *)
(* lineage recordComplete has taken away.                                  *)
THEOREM LineageIsKept ==
  ASSUME IsFiniteSet(Requests), "resumeForks" \notin Habits
  PROVE  Spec => []LineageKept
<1>1. TypeOK /\ RestInv /\ LineageInv /\ [Next]_vars => (TypeOK /\ RestInv /\ LineageInv)'
  BY RestInvNext, LineageInvNext DEF RestStep
<1>2. LineageInv => LineageKept
  BY DEF LineageInv, ExecOK, LineageKept
<1>3. QED BY <1>1, <1>2, RestInvInit, LineageInvInit, PTL DEF Spec

-----------------------------------------------------------------------------
(* States and walks                                                        *)

(* The execution that a request runs, ends or is about to resume.          *)
BusyWith(r) ==
  IF r.stage \in {"running", "ending"} THEN r.run
  ELSE IF r.stage = "loaded" /\ r.kind = "resume" THEN r.from ELSE None

(* Steps of one walk, that ends with node n, completed (or did not begin). *)
Fit(s) == \A i \in 1 .. Len(s) : s[i].before \in {Null, s[i].node - 1}

Consecutive(s) ==
  \A i \in 2 .. Len(s) : s[i - 1].before # Null /\ s[i].node = s[i - 1].node + 1

AtEnd(s, n) == s # <<>> => s[Len(s)].before # Null /\ s[Len(s)].node = n

Walk(s) == Fit(s) /\ Consecutive(s)

(* An execution that was run, not forked, and stopped at a gate.           *)
Plain(x) == madeFrom[x] = NoFork

ResumeReady(x, s) ==
  /\ checkpoint[x].pending
  /\ checkpoint[x].state = checkpoint[x].last
  /\ AtEnd(s, checkpoint[x].last)

RequestFits(r) ==
  /\ r.stage = "loaded" /\ r.kind # "resume" =>
       Fit(r.snapshot.steps) /\ (r.step = 0 => r.snapshot.init = 0)
  /\ r.stage = "loaded" /\ r.kind = "resume" =>
       ResumeReady(r.from, trace[r.from].steps)
  /\ r.stage = "running" =>
       /\ r.run <= used /\ builder[r.run].open
       /\ r.state = r.node - 1 /\ r.began <= r.node
       /\ AtEnd(builder[r.run].steps, r.node - 1)
       /\ Plain(r.run) /\ r.node = r.began => r.gateOpen \/ r.node \notin Gates
  /\ r.stage = "ending" =>
       /\ r.run <= used /\ builder[r.run].open
       /\ r.status = "INTERRUPTED" /\ Plain(r.run) =>
            ResumeReady(r.run, builder[r.run].steps)

Idle(x) == \A q \in Requests : BusyWith(request[q]) # x

ExecFits(x) ==
  /\ Walk(trace[x].steps) /\ Walk(builder[x].steps)
  /\ trace[x].status = "INTERRUPTED" /\ Plain(x) /\ Idle(x) =>
       ResumeReady(x, trace[x].steps)
  /\ x > used => trace[x].steps = <<>>

(* No two requests are busy with one execution: "resumeTwice" is not among *)
(* the habits.                                                             *)
Exclusive ==
  \A p, q \in Requests :
    p # q /\ BusyWith(request[p]) # None => BusyWith(request[p]) # BusyWith(request[q])

FitInv ==
  /\ Exclusive
  /\ \A q \in Requests : RequestFits(request[q])
  /\ \A x \in Runs : ExecFits(x)

(* The next step of a walk.                                                *)
LEMMA WalkGoesOn ==
  ASSUME NEW s \in Steps, Walk(s), NEW n \in Nodes, AtEnd(s, n - 1),
         NEW v \in {Null, n - 1}
  PROVE  LET t == Append(s, [node |-> n, before |-> v])
         IN  Walk(t) /\ (v # Null => AtEnd(t, n))
<1> DEFINE step == [node |-> n, before |-> v]
           t == Append(s, step)
<1>1. /\ Len(s) \in Nat /\ Len(t) = Len(s) + 1
      /\ \A i \in 1 .. Len(s) : t[i] = s[i]
      /\ t[Len(s) + 1] = step
      /\ s = <<>> <=> Len(s) = 0
  <2>1. s \in Seq([node : Nodes, before : States \union {Null}])
    BY DEF Steps
  <2>2. step \in [node : Nodes, before : States \union {Null}]
    <3>1. n - 1 \in States
      BY Constants
    <3>2. QED BY <3>1
  <2> HIDE DEF step
  <2>3. QED BY <2>1, <2>2, AppendProperties, LenProperties, EmptySeq
<1>2. step.node = n /\ step.before = v
  OBVIOUS
<1> HIDE DEF step, t
<1>3. Fit(t)
  <2> SUFFICES ASSUME NEW i \in 1 .. Len(t)
               PROVE  t[i].before \in {Null, t[i].node - 1}
    BY DEF Fit
  <2>1. CASE i = Len(s) + 1
    BY <1>1, <1>2, <2>1
  <2>2. CASE i # Len(s) + 1
    <3>1. i \in 1 .. Len(s)
      BY <1>1, <2>2
    <3>2. QED BY <1>1, <3>1 DEF Walk, Fit
  <2>3. QED BY <2>1, <2>2
<1>4. Consecutive(t)
  <2> SUFFICES ASSUME NEW i \in 2 .. Len(t)
               PROVE  t[i - 1].before # Null /\ t[i].node = t[i - 1].node + 1
    BY DEF Consecutive
  <2>1. CASE i = Len(s) + 1
    <3>1. Len(s) # 0 /\ t[i - 1] = s[Len(s)] /\ t[i] = step
      BY <1>1, <2>1
    <3>2. s[Len(s)].before # Null /\ s[Len(s)].node = n - 1
      BY <1>1, <3>1 DEF AtEnd
    <3>3. n \in Int
      BY Constants
    <3>4. QED BY <1>2, <3>1, <3>2, <3>3
  <2>2. CASE i # Len(s) + 1
    <3>1. i \in 2 .. Len(s) /\ i - 1 \in 1 .. Len(s) /\ i \in 1 .. Len(s)
      BY <1>1, <2>2
    <3>2. QED BY <1>1, <3>1 DEF Walk, Consecutive
  <2>3. QED BY <2>1, <2>2
<1>5. v # Null => AtEnd(t, n)
  BY <1>1, <1>2 DEF AtEnd
<1>6. QED BY <1>3, <1>4, <1>5 DEF Walk, t, step

(* A step of request q, busy with execution x and with it alone.           *)
LEMMA OneExecution ==
  ASSUME TypeOK, RestInv, FitInv, NEW q \in Requests, NEW x \in Runs,
         request' = [request EXCEPT ![q] = request'[q]],
         BusyWith(request[q]) \in {x, None}, BusyWith(request'[q]) \in {x, None},
         \A p \in Requests : p # q => BusyWith(request[p]) # x,
         \A y \in Runs : y # x => /\ trace'[y] = trace[y] /\ builder'[y] = builder[y]
                                /\ checkpoint'[y] = checkpoint[y]
                                /\ madeFrom'[y] = madeFrom[y],
         used' \in Nat, used' >= used,
         RequestFits(request[q])', ExecFits(x)'
  PROVE  FitInv'
<1>1. /\ request \in [Requests -> Request] /\ None \notin Runs
      /\ used \in Nat /\ \A y \in Runs : y \in Nat
  BY TypesSaid, Constants DEF Runs
<1>2. \A p \in Requests : p # q => request'[p] = request[p]
  BY <1>1
<1>3. Exclusive'
  <2>1. \A p \in Requests : p # q => BusyWith(request'[p]) = BusyWith(request[p])
    BY <1>2
  <2>2. Exclusive
    BY DEF FitInv
  <2>3. \A p1, p2 \in Requests :
          p1 # p2 /\ BusyWith(request'[p1]) # None
            => BusyWith(request'[p1]) # BusyWith(request'[p2])
    <3> SUFFICES ASSUME NEW p1 \in Requests, NEW p2 \in Requests,
                        p1 # p2, BusyWith(request'[p1]) # None
                 PROVE  BusyWith(request'[p1]) # BusyWith(request'[p2])
      OBVIOUS
    <3>1. CASE p1 = q
      BY <2>1, <3>1
    <3>2. CASE p2 = q
      BY <2>1, <3>2
    <3>3. CASE p1 # q /\ p2 # q
      BY <2>1, <2>2, <3>3 DEF Exclusive
    <3>4. QED BY <3>1, <3>2, <3>3
  <2>4. QED BY <2>3 DEF Exclusive, BusyWith
<1>4. ASSUME NEW p \in Requests PROVE RequestFits(request[p])'
  <2>1. CASE p = q
    BY <2>1
  <2>2. CASE p # q
    <3> DEFINE r == request[p]
    <3>1. request'[p] = r /\ RequestFits(r) /\ LoadedOK(r) /\ BusyWith(r) # x
      BY <1>2, <2>2 DEF FitInv, RestInv
    <3> HIDE DEF r
    <3>2. CASE r.stage \in {"running", "ending"}
      <4>1. r.run \in Runs /\ r.run # x
        BY <3>1, <3>2 DEF LoadedOK, BusyWith
      <4>2. /\ trace'[r.run] = trace[r.run] /\ builder'[r.run] = builder[r.run]
            /\ checkpoint'[r.run] = checkpoint[r.run] /\ madeFrom'[r.run] = madeFrom[r.run]
        BY <4>1
      <4>3. r.run <= used => r.run <= used'
        BY <1>1, <4>1
      <4>4. QED
        BY <3>1, <3>2, <4>2, <4>3 DEF RequestFits, ResumeReady, Plain
    <3>3. CASE r.stage = "loaded" /\ r.kind = "resume"
      <4>1. r.from \in Runs /\ r.from # x
        BY <3>1, <3>3 DEF LoadedOK, BusyWith
      <4>2. trace'[r.from] = trace[r.from] /\ checkpoint'[r.from] = checkpoint[r.from]
        BY <4>1
      <4>3. QED BY <3>1, <3>3, <4>2 DEF RequestFits, ResumeReady
    <3>4. CASE ~(r.stage \in {"running", "ending"}) /\ ~(r.stage = "loaded" /\ r.kind = "resume")
      BY <3>1, <3>4 DEF RequestFits
    <3>5. QED BY <3>2, <3>3, <3>4
  <2>3. QED BY <2>1, <2>2
<1>5. ASSUME NEW y \in Runs PROVE ExecFits(y)'
  <2>1. CASE y = x
    BY <2>1
  <2>2. CASE y # x
    <3>1. /\ trace'[y] = trace[y] /\ builder'[y] = builder[y]
          /\ checkpoint'[y] = checkpoint[y] /\ madeFrom'[y] = madeFrom[y]
          /\ ExecFits(y)
      BY <2>2 DEF FitInv
    <3>2. Idle(y)' => Idle(y)
      <4>1. \A p \in Requests :
              BusyWith(request'[p]) = BusyWith(request[p]) \/ BusyWith(request[p]) # y
        BY <1>1, <1>2, <2>2
      <4>2. QED BY <4>1 DEF Idle, BusyWith
    <3>3. y > used' => y > used
      BY <1>1
    <3>4. QED BY <3>1, <3>2, <3>3 DEF ExecFits, Plain, ResumeReady
  <2>3. QED BY <2>1, <2>2
<1>6. QED BY <1>3, <1>4, <1>5 DEF FitInv

(* A step of a request that is busy with no execution.                     *)
LEMMA NoExecution ==
  ASSUME TypeOK, FitInv, NEW q \in Requests,
         request' = [request EXCEPT ![q] = request'[q]],
         BusyWith(request[q]) = None, BusyWith(request'[q]) = None,
         UNCHANGED <<trace, builder, checkpoint, madeFrom>>,
         used' \in Nat, used' >= used,
         RequestFits(request[q])'
  PROVE  FitInv'
<1>1. /\ request \in [Requests -> Request]
      /\ used \in Nat /\ \A y \in Runs : y \in Nat
  BY TypesSaid, Constants DEF Runs
<1>2. \A p \in Requests : /\ p # q => request'[p] = request[p]
                          /\ BusyWith(request'[p]) = BusyWith(request[p])
  BY <1>1
<1>3. Exclusive'
  BY <1>2 DEF FitInv, Exclusive, BusyWith
<1>4. ASSUME NEW p \in Requests PROVE RequestFits(request[p])'
  <2>1. CASE p = q
    BY <2>1
  <2>2. CASE p # q
    <3> DEFINE r == request[p]
    <3>1. request'[p] = r /\ RequestFits(r)
      BY <1>2, <2>2 DEF FitInv
    <3>2. r.stage \in {"running", "ending"} => r.run <= used /\ (r.run <= used => r.run <= used')
      <4>1. r.stage \in {"running", "ending"} => r.run <= used
        BY <3>1 DEF RequestFits
      <4>2. r.run \in Nat
        BY <1>1, Constants DEF Request, Runs, None
      <4>3. QED BY <1>1, <4>1, <4>2
    <3> HIDE DEF r
    <3>3. QED BY <3>1, <3>2 DEF RequestFits, ResumeReady, Plain
  <2>3. QED BY <2>1, <2>2
<1>5. ASSUME NEW y \in Runs PROVE ExecFits(y)'
  <2>1. Idle(y)' => Idle(y)
    BY <1>2 DEF Idle, BusyWith
  <2>2. ExecFits(y) /\ (y > used' => y > used)
    BY <1>1 DEF FitInv
  <2>3. QED BY <2>1, <2>2 DEF ExecFits, Plain, ResumeReady
<1>6. QED BY <1>3, <1>4, <1>5 DEF FitInv

(* Somebody asks to replay or fork: what was loaded is a walk.             *)
LEMMA AskReplayFits ==
  ASSUME "replayMiddle" \notin Habits, TypeOK, RestInv, FitInv,
         NEW q \in Requests, NEW x \in Runs, NEW step \in 0 .. LastNode,
         AskReplay(q, x, step)
  PROVE  FitInv'
<1>1. /\ request[q].stage = "free" /\ ~(step = 0 /\ trace[x].init > 0) /\ step \in Nat
      /\ UNCHANGED <<trace, checkpoint, builder, used, madeFrom>>
  BY DEF AskReplay, MayReplay, stores, recorder
<1>2. PICK kind \in {"replay", "fork", "forkEdited"} : Loads(q, kind, x, step)
  BY DEF AskReplay
<1>3. /\ request' = [request EXCEPT ![q] = request'[q]]
      /\ request'[q].stage = "loaded" /\ request'[q].kind = kind
      /\ request'[q].step = step /\ request'[q].snapshot = trace[x]
  BY <1>1, <1>2, LoadsEffect DEF Kinds
<1>4. Fit(trace[x].steps)
  BY DEF FitInv, ExecFits, Walk
<1>5. step = 0 => trace[x].init = 0
  BY <1>1, TypesSaid, Constants DEF Trace
<1>6. RequestFits(request[q])'
  BY <1>3, <1>4, <1>5 DEF RequestFits
<1>7. BusyWith(request[q]) = None /\ BusyWith(request'[q]) = None
  BY <1>1, <1>3 DEF BusyWith
<1>8. used' \in Nat /\ used' >= used
  BY <1>1, TypesSaid, Constants
<1>9. QED BY <1>1, <1>3, <1>6, <1>7, <1>8, NoExecution

(* A replay that is refused, and an answer.                                *)
LEMMA AnswerFits ==
  ASSUME TypeOK, RestInv, FitInv, NEW q \in Requests,
         ReRunRefused(q) \/ ReRunAfterLast(q) \/ Answer(q)
  PROVE  FitInv'
<1>1. /\ UNCHANGED <<trace, checkpoint, builder, madeFrom>>
      /\ used' \in Nat /\ used' >= used
  <2>1. used \in Nat
    BY TypesSaid, Constants
  <2>2. used' \in {used, used + 1}
    BY DEF ReRunRefused, ReRunAfterLast, Answer
  <2>3. UNCHANGED <<trace, checkpoint, builder, madeFrom>>
    BY DEF ReRunRefused, ReRunAfterLast, Answer, stores, recorder
  <2>4. QED BY <2>1, <2>2, <2>3
<1>2. /\ request' = [request EXCEPT ![q] = request'[q]]
      /\ request'[q].stage \in {"free", "answering"}
  <2>1. CASE ReRunRefused(q) \/ ReRunAfterLast(q)
    BY <2>1, AnswersEffect DEF ReRunRefused, ReRunAfterLast
  <2>2. CASE Answer(q)
    <3>1. request' = [request EXCEPT ![q] = Free] /\ Free.stage = "free"
      BY <2>2 DEF Answer, Free
    <3>2. QED BY <3>1, TypesSaid
  <2>3. QED BY <2>1, <2>2
<1>3. BusyWith(request[q]) = None
  <2>1. \/ request[q].stage = "answering"
        \/ request[q].stage = "loaded" /\ request[q].kind # "resume"
    BY DEF ReRunRefused, ReRunAfterLast, Answer
  <2>2. QED BY <2>1 DEF BusyWith
<1>4. BusyWith(request'[q]) = None
  BY <1>2 DEF BusyWith
<1>5. RequestFits(request[q])'
  BY <1>2 DEF RequestFits
<1>6. QED BY <1>1, <1>2, <1>3, <1>4, <1>5, NoExecution

(* A new execution is entered with a state that fits.                      *)
LEMMA BeginsFit ==
  ASSUME TypeOK, RestInv, LineageInv, FitInv, NEW q \in Requests,
         NEW x \in Runs, x = used + 1, used' = used + 1,
         NEW n \in Nodes, NEW v \in States, v = n - 1, NEW staged \in Forks,
         NEW gateOpen \in BOOLEAN, Enters(q, x, n, v, gateOpen, staged),
         UNCHANGED <<trace, checkpoint>>,
         \A y \in Runs : y # x => madeFrom'[y] = madeFrom[y],
         BusyWith(request[q]) = None,
         Plain(x)' => n \notin Gates
  PROVE  FitInv'
<1>1. /\ used \in Nat /\ x > used /\ builder \in [Runs -> Builder] /\ n \in Nat
      /\ n \in 1 .. LastNode + 1 /\ None \notin Runs
  BY TypesSaid, Constants DEF Runs
<1>2. /\ builder' = [builder EXCEPT ![x] = builder'[x]] /\ builder'[x].open
      /\ builder'[x].steps = IF staged # NoFork THEN <<>> ELSE trace[x].steps
      /\ request' = [request EXCEPT ![q] = request'[q]]
      /\ request'[q].stage = "running" /\ request'[q].run = x
      /\ request'[q].node = n /\ request'[q].state = v /\ request'[q].began = n
  <2>1. Enters(q, x, n, v, gateOpen, staged)
    OBVIOUS
  <2>2. /\ builder' = [builder EXCEPT ![x] = builder'[x]]
        /\ builder'[x].open
        /\ builder'[x].init = v
        /\ builder'[x].steps = IF staged # NoFork THEN <<>> ELSE trace[x].steps
        /\ request' = [request EXCEPT ![q] = request'[q]]
        /\ request'[q].stage = "running" /\ request'[q].run = x
        /\ request'[q].node = n /\ request'[q].state = v
        /\ request'[q].gateOpen = gateOpen /\ request'[q].began = n
    BY <1>1, <2>1, EntersEffect
  <2>3. QED BY <2>2
<1>3. trace[x].steps = <<>> /\ Walk(trace[x].steps)
  BY <1>1 DEF FitInv, ExecFits
<1>4. builder'[x].steps = <<>>
  BY <1>2, <1>3
<1>5. \A p \in Requests : BusyWith(request[p]) # x
  <2> SUFFICES ASSUME NEW p \in Requests, BusyWith(request[p]) = x PROVE FALSE
    OBVIOUS
  <2>1. RequestFits(request[p]) /\ RequestOK(request[p])
    BY DEF FitInv, LineageInv
  <2>2. CASE request[p].stage \in {"running", "ending"}
    <3>1. request[p].run = x /\ request[p].run <= used
      BY <2>1, <2>2 DEF BusyWith, RequestFits
    <3>2. QED BY <1>1, <3>1
  <2>3. CASE request[p].stage = "loaded" /\ request[p].kind = "resume"
    <3>1. request[p].from = x /\ request[p].from \in 1 .. used
      BY <2>1, <2>3 DEF BusyWith, RequestOK
    <3>2. QED BY <1>1, <3>1
  <2>4. QED BY <1>1, <2>2, <2>3 DEF BusyWith
<1>6. BusyWith(request'[q]) = x
  BY <1>2 DEF BusyWith
<1>7. RequestFits(request[q])'
  <2>1. AtEnd(builder'[x].steps, n - 1)
    BY <1>4 DEF AtEnd
  <2>2. x <= used' /\ v = n - 1 /\ n <= n
    BY <1>1
  <2>3. QED BY <1>2, <2>1, <2>2 DEF RequestFits
<1>8. ExecFits(x)'
  <2>1. ~Idle(x)'
    BY <1>6 DEF Idle, BusyWith
  <2>2. Walk(builder'[x].steps)
    BY <1>3, <1>4
  <2>3. ~(x > used')
    BY <1>1
  <2>4. QED BY <1>3, <2>1, <2>2, <2>3 DEF ExecFits
<1>9. \A y \in Runs : y # x => builder'[y] = builder[y]
  BY <1>1, <1>2
<1>10. used' \in Nat /\ used' >= used
  BY <1>1
<1>11. QED BY <1>2, <1>5, <1>6, <1>7, <1>8, <1>9, <1>10, OneExecution

(* What a replay or a fork starts from fits the node it starts at.         *)
LEMMA SeedFits ==
  ASSUME NEW r \in Request, r.stage = "loaded", r.kind # "resume", LoadedOK(r),
         RequestFits(r), StartNode(r) # 0, Seed(r) # Null
  PROVE  Seed(r) = StartNode(r) - 1
<1>1. /\ r.step \in Nat /\ r.snapshot.steps \in Steps
      /\ r.step <= Len(r.snapshot.steps) /\ Len(r.snapshot.steps) \in Nat
  BY StepsOf DEF Request, Trace, LoadedOK
<1>2. Fit(r.snapshot.steps) /\ (r.step = 0 => r.snapshot.init = 0)
  BY DEF RequestFits
<1>3. CASE r.kind = "forkEdited"
  BY <1>3 DEF Seed
<1>4. CASE r.kind # "forkEdited" /\ r.step = 0
  BY <1>2, <1>4 DEF Seed, StartNode
<1>5. CASE r.kind # "forkEdited" /\ r.step # 0
  <2>1. r.step \in 1 .. Len(r.snapshot.steps)
    BY <1>1, <1>5
  <2>2. r.snapshot.steps[r.step].before \in {Null, r.snapshot.steps[r.step].node - 1}
    BY <1>2, <2>1 DEF Fit
  <2>3. /\ Seed(r) = r.snapshot.steps[r.step].before
        /\ StartNode(r) = r.snapshot.steps[r.step].node
    BY <1>5 DEF Seed, StartNode
  <2>4. QED BY <2>2, <2>3
<1>6. QED BY <1>3, <1>4, <1>5

(* Runs, replays and forks begin with states that fit.                     *)
LEMMA RunsFit ==
  ASSUME TypeOK, RestInv, LineageInv, FitInv, NEW q \in Requests,
         Run(q) \/ ReRun(q)
  PROVE  FitInv'
<1>1. PICK x \in Runs : x = used + 1
  <2>1. used < MaxRuns
    BY DEF Run, ReRun
  <2>2. used + 1 \in Runs
    BY <2>1, TypesSaid, Constants DEF Runs
  <2>3. QED BY <2>2
<1>2. used' = used + 1 /\ UNCHANGED <<trace, checkpoint>>
  BY DEF Run, ReRun, stores
<1>3. BusyWith(request[q]) = None
  BY DEF Run, ReRun, BusyWith
<1>4. CASE Run(q)
  <2>1. Enters(q, x, 1, 0, FALSE, NoFork) /\ UNCHANGED madeFrom
    BY <1>1, <1>4 DEF Run
  <2>2. 1 \in Nodes /\ 0 \in States /\ 0 = 1 - 1 /\ NoFork \in Forks /\ 1 \notin Gates
    BY Constants, AbsentType, RestAssumption
  <2>3. QED BY <1>1, <1>2, <1>3, <2>1, <2>2, BeginsFit
<1>5. CASE ReRun(q)
  <2> DEFINE r == request[q]
             from == [id |-> r.from, step |-> r.step]
             n == StartNode(r)
             v == Seed(r)
  <2>1. /\ r.stage = "loaded" /\ r.kind # "resume" /\ n # 0 /\ v # Null
        /\ madeFrom' = [madeFrom EXCEPT ![x] = from]
        /\ Enters(q, x, n, v, FALSE, from)
    BY <1>1, <1>5 DEF ReRun
  <2>2. /\ r \in Request /\ LoadedOK(r) /\ RequestFits(r)
        /\ madeFrom \in [Runs -> Forks]
    BY TypesSaid DEF RestInv, FitInv
  <2>3. n \in Nodes /\ v \in States
    BY <2>1, <2>2, SeedType
  <2>4. v = n - 1
    BY <2>1, <2>2, SeedFits
  <2>5. r.from \in Runs
    BY <2>1, <2>2 DEF LoadedOK
  <2>6. from \in Forks
    BY <2>2 DEF Request, Forks
  <2>7. from # NoFork
    BY <2>5, Constants DEF NoFork
  <2> HIDE DEF r, from, n, v
  <2>8. ~Plain(x)'
    BY <2>1, <2>2, <2>7 DEF Plain
  <2>9. \A y \in Runs : y # x => madeFrom'[y] = madeFrom[y]
    BY <2>1, <2>2
  <2>10. QED BY <1>1, <1>2, <1>3, <2>1, <2>3, <2>4, <2>6, <2>8, <2>9, BeginsFit
<1>6. QED BY <1>4, <1>5

(* Nobody else is busy with what a request is busy with.                   *)
LEMMA Alone ==
  ASSUME TypeOK, RestInv, FitInv, NEW q \in Requests, NEW x \in Runs,
         BusyWith(request[q]) = x
  PROVE  \A p \in Requests : p # q => BusyWith(request[p]) # x
BY Constants DEF FitInv, Exclusive

(* Somebody asks to resume what stopped at a gate.                         *)
LEMMA AskResumeFits ==
  ASSUME "resumeForks" \notin Habits, "resumeTwice" \notin Habits,
         TypeOK, RestInv, FitInv, NEW q \in Requests, NEW x \in Runs, AskResume(q, x)
  PROVE  FitInv'
<1>1. /\ request[q].stage = "free" /\ trace[x].status = "INTERRUPTED"
      /\ Plain(x) /\ x \notin Busy /\ Loads(q, "resume", x, 0)
      /\ UNCHANGED <<trace, checkpoint, builder, used, madeFrom>>
  BY DEF AskResume, MayResume, Plain, stores, recorder
<1>2. /\ request' = [request EXCEPT ![q] = request'[q]]
      /\ request'[q].stage = "loaded" /\ request'[q].kind = "resume"
      /\ request'[q].from = x
  BY <1>1, LoadsEffect DEF Kinds
<1>3. \A p \in Requests : BusyWith(request[p]) # x
  BY <1>1, Constants DEF Busy, BusyWith
<1>4. BusyWith(request[q]) = None /\ BusyWith(request'[q]) = x
  BY <1>1, <1>2 DEF BusyWith
<1>5. ExecFits(x)
  BY DEF FitInv
<1>6. ResumeReady(x, trace[x].steps)
  BY <1>1, <1>3, <1>5 DEF ExecFits, Idle
<1>7. RequestFits(request[q])'
  BY <1>1, <1>2, <1>6 DEF RequestFits, ResumeReady
<1>8. ExecFits(x)'
  <2>1. ~Idle(x)'
    BY <1>4 DEF Idle, BusyWith
  <2>2. QED BY <1>1, <1>5, <2>1 DEF ExecFits
<1>9. used' \in Nat /\ used' >= used
  BY <1>1, TypesSaid, Constants
<1>10. QED BY <1>1, <1>2, <1>3, <1>4, <1>7, <1>8, <1>9, OneExecution

(* A resume goes on where the trace ends.                                  *)
LEMMA ResumeFits ==
  ASSUME TypeOK, RestInv, LineageInv, FitInv, NEW q \in Requests, Resume(q)
  PROVE  FitInv'
<1>0. PICK x \in Runs : x = request[q].from
  BY DEF Resume, RestInv, LoadedOK
<1> DEFINE n == checkpoint[x].last + 1
           v == checkpoint[x].state
           open == checkpoint[x].pending
           staged == lineage[x]
<1>1. /\ request[q].stage = "loaded" /\ request[q].kind = "resume"
      /\ Enters(q, x, n, v, open, staged)
      /\ UNCHANGED <<trace, checkpoint, used, madeFrom>>
  BY <1>0 DEF Resume, stores
<1>2. x \in Runs /\ v # Null
  BY <1>0, <1>1 DEF RestInv, LoadedOK
<1>3. checkpoint[x] \in Saved /\ staged \in Forks /\ builder \in [Runs -> Builder]
  BY <1>2, TypesSaid
<1>4. /\ n \in 1 .. LastNode + 1 /\ v \in States /\ open \in BOOLEAN
      /\ checkpoint[x].last \in Nat /\ n - 1 = checkpoint[x].last /\ n <= n
  BY <1>2, <1>3, Constants DEF Saved
<1>5. /\ x \in 1 .. used /\ used \in Nat /\ x <= used /\ ~(x > used)
      /\ staged = NoFork
  BY <1>0, <1>1, TypesSaid, Constants DEF LineageInv, RequestOK
<1>6. ResumeReady(x, trace[x].steps) /\ ExecFits(x)
  BY <1>0, <1>1, <1>2 DEF FitInv, RequestFits
<1>7. open /\ v = n - 1 /\ AtEnd(trace[x].steps, n - 1)
  BY <1>4, <1>6 DEF ResumeReady
<1>8. BusyWith(request[q]) = x
  BY <1>0, <1>1 DEF BusyWith
<1> HIDE DEF n, v, open, staged
<1>9. /\ builder' = [builder EXCEPT ![x] = builder'[x]] /\ builder'[x].open
      /\ builder'[x].steps = IF staged # NoFork THEN <<>> ELSE trace[x].steps
      /\ request' = [request EXCEPT ![q] = request'[q]]
      /\ request'[q].stage = "running" /\ request'[q].run = x
      /\ request'[q].node = n /\ request'[q].state = v
      /\ request'[q].gateOpen = open /\ request'[q].began = n
  BY <1>1, <1>2, <1>3, <1>4, EntersEffect
<1>10. builder'[x].steps = trace[x].steps
  BY <1>5, <1>9
<1>11. RequestFits(request[q])'
  BY <1>1, <1>4, <1>5, <1>7, <1>9, <1>10 DEF RequestFits
<1>12. BusyWith(request'[q]) = x
  BY <1>9 DEF BusyWith
<1>13. ExecFits(x)'
  <2>1. ~Idle(x)'
    BY <1>12 DEF Idle, BusyWith
  <2>2. QED BY <1>1, <1>5, <1>6, <1>10, <2>1 DEF ExecFits
<1>14. \A y \in Runs : y # x => builder'[y] = builder[y]
  BY <1>3, <1>9
<1>15. \A p \in Requests : p # q => BusyWith(request[p]) # x
  BY <1>2, <1>8, Alone
<1>16. used' \in Nat /\ used' >= used
  BY <1>1, <1>5
<1>17. QED
  BY <1>1, <1>2, <1>8, <1>9, <1>11, <1>12, <1>13, <1>14, <1>15, <1>16, OneExecution

(* What a request runs, before it takes a step.                            *)
LEMMA RunningFits ==
  ASSUME TypeOK, RestInv, FitInv, NEW q \in Requests,
         request[q].stage \in {"running", "ending"}
  PROVE  LET x == request[q].run
         IN  /\ x \in Runs /\ request[q] \in Request
             /\ RequestFits(request[q]) /\ ExecFits(x)
             /\ x <= used /\ used \in Nat /\ ~(x > used) /\ builder[x].open
             /\ BusyWith(request[q]) = x
             /\ \A p \in Requests : p # q => BusyWith(request[p]) # x
<1> DEFINE x == request[q].run
<1>1. x \in Runs /\ request[q] \in Request
  BY TypesSaid DEF RestInv, LoadedOK
<1>2. RequestFits(request[q]) /\ ExecFits(x)
  BY <1>1 DEF FitInv
<1>3. x <= used /\ builder[x].open
  BY <1>2 DEF RequestFits
<1>4. x \in Nat /\ used \in Nat
  BY <1>1, TypesSaid, Constants DEF Runs
<1>5. ~(x > used)
  BY <1>3, <1>4
<1>6. BusyWith(request[q]) = x
  BY DEF BusyWith
<1>7. \A p \in Requests : p # q => BusyWith(request[p]) # x
  BY <1>1, <1>6, Alone
<1>8. QED BY <1>1, <1>2, <1>3, <1>4, <1>5, <1>6, <1>7

(* At a gate the checkpoint is one that the execution can be resumed from. *)
LEMMA StopsAtGateFits ==
  ASSUME TypeOK, RestInv, FitInv, NEW q \in Requests, StopsAtGate(q)
  PROVE  FitInv'
<1>0. PICK x \in Runs : x = request[q].run
  BY DEF StopsAtGate, Running, RestInv, LoadedOK
<1> DEFINE r == request[q]
           cp == [last |-> IF r.node = r.began THEN 0 ELSE r.node - 1,
                  state |-> r.state, pending |-> TRUE]
<1>1. /\ r.stage = "running" /\ r.node \in Gates /\ ~r.gateOpen
      /\ checkpoint' = [checkpoint EXCEPT ![x] = cp]
      /\ request' = Ends(q, "INTERRUPTED")
      /\ UNCHANGED <<trace, builder, used, madeFrom>>
  BY <1>0 DEF StopsAtGate, Running, recorder
<1>2. /\ x \in Runs /\ r \in Request /\ RequestFits(r) /\ ExecFits(x)
      /\ x <= used /\ used \in Nat /\ ~(x > used) /\ builder[x].open
      /\ BusyWith(r) = x
      /\ \A p \in Requests : p # q => BusyWith(request[p]) # x
  BY <1>0, <1>1, RunningFits
<1>3. /\ r.state = r.node - 1 /\ AtEnd(builder[x].steps, r.node - 1)
      /\ Plain(x) => r.node # r.began
  BY <1>0, <1>1, <1>2 DEF RequestFits
<1>4. Plain(x) => cp.pending /\ cp.state = cp.last /\ AtEnd(builder[x].steps, cp.last)
  BY <1>3
<1>5. /\ request' = [request EXCEPT ![q] = request'[q]]
      /\ request'[q].stage = "ending" /\ request'[q].run = x
  BY <1>0, <1>1, EndsEffect DEF Statuses
<1>6. /\ checkpoint'[x] = cp
      /\ \A y \in Runs : y # x => checkpoint'[y] = checkpoint[y]
  BY <1>1, <1>2, TypesSaid
<1> HIDE DEF cp, r
<1>7. RequestFits(request[q])'
  BY <1>1, <1>2, <1>4, <1>5, <1>6 DEF RequestFits, ResumeReady, Plain
<1>8. BusyWith(request'[q]) = x
  BY <1>5 DEF BusyWith
<1>9. ExecFits(x)'
  <2>1. ~Idle(x)'
    BY <1>8 DEF Idle, BusyWith
  <2>2. QED BY <1>1, <1>2, <2>1 DEF ExecFits
<1>10. used' \in Nat /\ used' >= used
  BY <1>1, <1>2
<1>11. QED
  BY <1>1, <1>2, <1>5, <1>6, <1>7, <1>8, <1>9, <1>10, OneExecution DEF r

(* A node that is executed adds the next step of the walk.                 *)
LEMMA NodeSucceedsFits ==
  ASSUME TypeOK, RestInv, FitInv, NEW q \in Requests, NodeSucceeds(q)
  PROVE  FitInv'
<1>0. PICK x \in Runs : x = request[q].run
  BY DEF NodeSucceeds, Running, RestInv, LoadedOK
<1> DEFINE r == request[q]
           cp == [last |-> r.node, state |-> r.state + 1, pending |-> FALSE]
           step == [node |-> r.node, before |-> r.state]
           t == Append(builder[x].steps, step)
<1>1. /\ r.stage = "running" /\ Records(x, step)
      /\ checkpoint' = [checkpoint EXCEPT ![x] = cp]
      /\ UNCHANGED <<trace, used, madeFrom>>
  BY <1>0 DEF NodeSucceeds, Running
<1>2. /\ r \in Request /\ RequestFits(r) /\ ExecFits(x)
      /\ x <= used /\ used \in Nat /\ ~(x > used) /\ builder[x].open
      /\ BusyWith(r) = x
      /\ \A p \in Requests : p # q => BusyWith(request[p]) # x
  BY <1>0, <1>1, RunningFits
<1>3. /\ r.state = r.node - 1 /\ r.began <= r.node
      /\ AtEnd(builder[x].steps, r.node - 1)
  BY <1>0, <1>1, <1>2 DEF RequestFits
<1>4. /\ request' = [request EXCEPT ![q] = request'[q]]
      /\ request'[q].stage = "running" /\ request'[q].run = x
      /\ request'[q].node = r.node + 1 /\ request'[q].state = r.state + 1
      /\ request'[q].began = r.began
      /\ r.node \in Nodes
  BY <1>0, NodeEffect
<1>5. /\ r.node \in Nat /\ r.began \in Int /\ r.state \in States /\ r.state # Null
      /\ builder \in [Runs -> Builder] /\ builder[x].steps \in Steps
  BY <1>0, <1>2, TypesSaid, Constants DEF Request, Builder
<1>6. /\ r.state + 1 = (r.node + 1) - 1 /\ r.began <= r.node + 1
      /\ r.node + 1 # r.began /\ (r.node + 1) - 1 = r.node
  BY <1>3, <1>5
<1>7. Walk(t) /\ AtEnd(t, r.node)
  <2>1. Walk(builder[x].steps)
    BY <1>2 DEF ExecFits
  <2>2. r.state \in {Null, r.node - 1}
    BY <1>3
  <2>3. QED BY <1>3, <1>4, <1>5, <2>1, <2>2, WalkGoesOn
<1>8. /\ builder' = [builder EXCEPT ![x] = builder'[x]]
      /\ builder'[x].open = builder[x].open /\ builder'[x].steps = t
  <2> HIDE DEF r, cp
  <2>1. r.state \in States \union {Null}
    BY <1>5
  <2>2. /\ builder' = [builder EXCEPT ![x] = builder'[x]]
        /\ builder'[x].open = builder[x].open
        /\ builder[x].open => builder'[x].steps = Append(builder[x].steps, step)
    BY <1>1, <1>4, <2>1, RecordsEffect
  <2>3. QED BY <1>2, <2>2
<1>9. \A y \in Runs : y # x => checkpoint'[y] = checkpoint[y] /\ builder'[y] = builder[y]
  BY <1>1, <1>5, <1>8, TypesSaid
<1> HIDE DEF cp, step, t, r
<1>10. RequestFits(request[q])'
  <2>1. x <= used' /\ builder'[x].open
    BY <1>1, <1>2, <1>8
  <2>2. AtEnd(builder'[x].steps, (r.node + 1) - 1)
    BY <1>6, <1>7, <1>8
  <2>3. QED BY <1>4, <1>6, <2>1, <2>2 DEF RequestFits
<1>11. BusyWith(request'[q]) = x
  BY <1>4 DEF BusyWith
<1>12. ExecFits(x)'
  <2>1. ~Idle(x)'
    BY <1>11 DEF Idle, BusyWith
  <2>2. QED BY <1>1, <1>2, <1>7, <1>8, <2>1 DEF ExecFits
<1>13. used' \in Nat /\ used' >= used
  BY <1>1, <1>2
<1>14. QED
  BY <1>1, <1>2, <1>4, <1>9, <1>10, <1>11, <1>12, <1>13, OneExecution DEF r

(* A run that ends leaves a walk, the step that failed in it.              *)
LEMMA EndsFit ==
  ASSUME TypeOK, RestInv, FitInv, NEW q \in Requests, NodeFails(q) \/ Finishes(q)
  PROVE  FitInv'
<1>0. PICK x \in Runs : x = request[q].run
  BY DEF NodeFails, Finishes, Running, RestInv, LoadedOK
<1> DEFINE r == request[q]
           t == Append(builder[x].steps, [node |-> r.node, before |-> Null])
<1>1. PICK s \in {"FAILED", "COMPLETED"} : request' = Ends(q, s)
  BY DEF NodeFails, Finishes
<1>2. /\ r.stage = "running"
      /\ UNCHANGED <<trace, checkpoint, used, madeFrom>>
  BY DEF NodeFails, Finishes, Running, stores, recorder
<1>3. /\ r \in Request /\ RequestFits(r) /\ ExecFits(x)
      /\ x <= used /\ used \in Nat /\ ~(x > used) /\ builder[x].open
      /\ BusyWith(r) = x
      /\ \A p \in Requests : p # q => BusyWith(request[p]) # x
  BY <1>0, <1>2, RunningFits
<1>4. AtEnd(builder[x].steps, r.node - 1) /\ Walk(builder[x].steps)
  BY <1>0, <1>2, <1>3 DEF RequestFits, ExecFits
<1>5. builder \in [Runs -> Builder] /\ builder[x].steps \in Steps
  BY TypesSaid DEF Builder
<1>6. /\ builder'[x].open /\ Walk(builder'[x].steps)
      /\ \A y \in Runs : y # x => builder'[y] = builder[y]
  <2>1. CASE NodeFails(q)
    <3>1. /\ Records(x, [node |-> r.node, before |-> Null])
          /\ r.node \in Nodes
      BY <1>0, <2>1 DEF NodeFails, PassesGate
    <3>2. /\ builder' = [builder EXCEPT ![x] = builder'[x]]
          /\ builder'[x].open = builder[x].open /\ builder'[x].steps = t
      <4> HIDE DEF r
      <4>1. Null \in States \union {Null}
        OBVIOUS
      <4>2. /\ builder' = [builder EXCEPT ![x] = builder'[x]]
            /\ builder'[x].open = builder[x].open
            /\ builder[x].open => builder'[x].steps = t
        BY <3>1, <4>1, RecordsEffect
      <4>3. QED BY <1>3, <4>2
    <3>3. Walk(t)
      BY <1>4, <1>5, <3>1, WalkGoesOn
    <3>4. QED BY <1>3, <1>5, <3>2, <3>3
  <2>2. CASE Finishes(q)
    BY <1>3, <1>4, <2>2 DEF Finishes, recorder
  <2>3. QED BY <2>1, <2>2
<1>7. /\ request' = [request EXCEPT ![q] = request'[q]]
      /\ request'[q].stage = "ending" /\ request'[q].status = s
      /\ request'[q].run = x
  BY <1>0, <1>1, EndsEffect DEF Statuses
<1> HIDE DEF r, t
<1>8. RequestFits(request[q])'
  BY <1>2, <1>3, <1>6, <1>7 DEF RequestFits
<1>9. BusyWith(request'[q]) = x
  BY <1>7 DEF BusyWith
<1>10. ExecFits(x)'
  <2>1. ~Idle(x)'
    BY <1>9 DEF Idle, BusyWith
  <2>2. QED BY <1>2, <1>3, <1>6, <2>1 DEF ExecFits
<1>11. used' \in Nat /\ used' >= used
  BY <1>2, <1>3
<1>12. QED
  BY <1>2, <1>3, <1>6, <1>7, <1>8, <1>9, <1>10, <1>11, OneExecution DEF r

(* What is stored is the walk that was built.                              *)
LEMMA RecordCompleteFits ==
  ASSUME TypeOK, RestInv, FitInv, NEW q \in Requests, RecordComplete(q)
  PROVE  FitInv'
<1>0. PICK x \in Runs : x = request[q].run
  BY DEF RecordComplete, RestInv, LoadedOK
<1> DEFINE r == request[q]
           t == [status |-> r.status, init |-> builder[x].init,
                 steps |-> builder[x].steps, fork |-> lineage[x]]
<1>1. r.stage = "ending" /\ UNCHANGED <<checkpoint, used, madeFrom>>
  BY DEF RecordComplete
<1>2. /\ RequestFits(r) /\ ExecFits(x)
      /\ x <= used /\ used \in Nat /\ ~(x > used) /\ builder[x].open
      /\ BusyWith(r) = x
      /\ \A p \in Requests : p # q => BusyWith(request[p]) # x
  BY <1>0, <1>1, RunningFits
<1>3. /\ trace' = [trace EXCEPT ![x] = t]
      /\ builder' = [builder EXCEPT ![x] = NoBuilder]
  BY <1>0, <1>2 DEF RecordComplete
<1>4. trace'[x] = t /\ builder'[x] = NoBuilder
  BY <1>3, TypesSaid
<1>5. /\ request' = [request EXCEPT ![q] = request'[q]]
      /\ request'[q].stage = "answering"
  BY AnswersEffect DEF RecordComplete
<1>6. Walk(<<>>) /\ NoBuilder.steps = <<>>
  BY DEF Walk, Fit, Consecutive, NoBuilder
<1>7. /\ t.steps = builder[x].steps /\ Walk(t.steps)
      /\ t.status = "INTERRUPTED" /\ Plain(x) => ResumeReady(x, t.steps)
  BY <1>0, <1>1, <1>2 DEF RequestFits, ExecFits
<1>8. \A y \in Runs : y # x => trace'[y] = trace[y] /\ builder'[y] = builder[y]
  BY <1>3, TypesSaid
<1> HIDE DEF r, t
<1>9. ExecFits(x)'
  BY <1>1, <1>2, <1>4, <1>6, <1>7 DEF ExecFits, ResumeReady, Plain
<1>10. RequestFits(request[q])' /\ BusyWith(request'[q]) = None
  BY <1>5 DEF RequestFits, BusyWith
<1>11. used' \in Nat /\ used' >= used
  BY <1>1, <1>2
<1>12. QED
  BY <1>1, <1>2, <1>5, <1>8, <1>9, <1>10, <1>11, OneExecution DEF r

(* A trace that is gone is a walk of no steps.                             *)
LEMMA DeleteFits ==
  ASSUME TypeOK, RestInv, FitInv, NEW x \in Runs, Delete(x)
  PROVE  FitInv'
<1>1. /\ trace' = [trace EXCEPT ![x] = Absent]
      /\ UNCHANGED <<checkpoint, builder, request, used, madeFrom>>
  BY DEF Delete, recorder
<1>2. /\ Walk(<<>>) /\ Absent.steps = <<>> /\ Absent.status = "ABSENT"
      /\ \A n : AtEnd(<<>>, n)
  BY DEF Walk, Fit, Consecutive, AtEnd, Absent
<1>3. /\ trace'[x] = Absent
      /\ \A y \in Runs : y # x => trace'[y] = trace[y]
  BY <1>1, TypesSaid
<1>4. ASSUME NEW y \in Runs PROVE ExecFits(y)'
  <2>1. ExecFits(y)
    BY DEF FitInv
  <2>2. Idle(y)' => Idle(y)
    BY <1>1 DEF Idle, BusyWith
  <2>3. CASE y = x
    BY <1>1, <1>2, <1>3, <2>1, <2>3 DEF ExecFits
  <2>4. CASE y # x
    BY <1>1, <1>3, <2>1, <2>2, <2>4 DEF ExecFits, ResumeReady, Plain
  <2>5. QED BY <2>3, <2>4
<1>5. ASSUME NEW p \in Requests PROVE RequestFits(request[p])'
  <2> DEFINE r == request[p]
  <2>1. request'[p] = r /\ RequestFits(r) /\ LoadedOK(r)
    BY <1>1 DEF FitInv, RestInv
  <2> HIDE DEF r
  <2>2. CASE r.stage = "loaded" /\ r.kind = "resume"
    <3>1. r.from \in Runs /\ ResumeReady(r.from, trace[r.from].steps)
      BY <2>1, <2>2 DEF LoadedOK, RequestFits
    <3>2. AtEnd(trace'[r.from].steps, checkpoint[r.from].last)
      BY <1>2, <1>3, <3>1 DEF ResumeReady
    <3>3. QED BY <1>1, <2>1, <2>2, <3>1, <3>2 DEF RequestFits, ResumeReady
  <2>3. CASE ~(r.stage = "loaded" /\ r.kind = "resume")
    BY <1>1, <2>1, <2>3 DEF RequestFits, ResumeReady, Plain
  <2>4. QED BY <2>2, <2>3
<1>6. Exclusive'
  BY <1>1 DEF FitInv, Exclusive, BusyWith
<1>7. QED BY <1>4, <1>5, <1>6 DEF FitInv

(* The beginning: nobody is busy and there are no steps.                   *)
LEMMA FitInvInit ==
  ASSUME Init PROVE FitInv
<1>1. \A x \in Runs : trace[x] = Absent /\ builder[x] = NoBuilder
  BY DEF Init
<1>2. \A q \in Requests : request[q] = Free
  BY DEF Init
<1>3. /\ Walk(<<>>) /\ Absent.steps = <<>> /\ Absent.status = "ABSENT"
      /\ NoBuilder.steps = <<>> /\ Free.stage = "free"
  BY DEF Walk, Fit, Consecutive, Absent, NoBuilder, Free
<1>4. \A x \in Runs : ExecFits(x)
  BY <1>1, <1>3 DEF ExecFits
<1>5. \A q \in Requests : RequestFits(request[q]) /\ BusyWith(request[q]) = None
  BY <1>2, <1>3 DEF RequestFits, BusyWith
<1>6. QED BY <1>4, <1>5 DEF FitInv, Exclusive

(* Every step keeps the states fit and the traces walks, while the clients *)
(* neither replay a trace that was resumed from its beginning, nor resume  *)
(* what was forked or what somebody else is resuming.                      *)
LEMMA FitInvNext ==
  ASSUME "replayMiddle" \notin Habits, "resumeForks" \notin Habits,
         "resumeTwice" \notin Habits, TypeOK, RestInv, LineageInv, FitInv, [Next]_vars
  PROVE  FitInv'
<1>1. CASE UNCHANGED vars
  <2>1. UNCHANGED <<trace, checkpoint, builder, request, used, madeFrom>>
    BY <1>1 DEF vars, stores, recorder
  <2>2. Exclusive'
    BY <2>1 DEF FitInv, Exclusive, BusyWith
  <2>3. \A q \in Requests : RequestFits(request[q])'
    BY <2>1 DEF FitInv, RequestFits, ResumeReady, Plain
  <2>4. \A x \in Runs : Idle(x)' => Idle(x)
    BY <2>1 DEF Idle, BusyWith
  <2>5. \A x \in Runs : ExecFits(x)'
    BY <2>1, <2>4 DEF FitInv, ExecFits, ResumeReady, Plain
  <2>6. QED BY <2>2, <2>3, <2>5 DEF FitInv
<1>2. CASE Next
  BY <1>2, RunsFit, AskReplayFits, AskResumeFits, AnswerFits, ResumeFits,
     StopsAtGateFits, NodeSucceedsFits, EndsFit, RecordCompleteFits, DeleteFits
     DEF Next, Works
<1>3. QED BY <1>1, <1>2

(* The four invariants together.                                           *)
LEMMA AllKept ==
  ASSUME IsFiniteSet(Requests), "replayMiddle" \notin Habits,
         "resumeForks" \notin Habits, "resumeTwice" \notin Habits
  PROVE  Spec => [](TypeOK /\ RestInv /\ LineageInv /\ FitInv)
<1>1. Init => TypeOK /\ RestInv /\ LineageInv /\ FitInv
  BY RestInvInit, LineageInvInit, FitInvInit
<1>2. TypeOK /\ RestInv /\ LineageInv /\ FitInv /\ [Next]_vars
        => (TypeOK /\ RestInv /\ LineageInv /\ FitInv)'
  BY RestInvNext, LineageInvNext, FitInvNext DEF RestStep
<1>3. QED BY <1>1, <1>2, PTL DEF Spec

(* Whatever is replayed, forked, edited, resumed, refused and deleted at   *)
(* the same time, a node is entered with the state that the nodes before   *)
(* it have made.                                                           *)
THEOREM SeedsFitAlways ==
  ASSUME IsFiniteSet(Requests), "replayMiddle" \notin Habits,
         "resumeForks" \notin Habits, "resumeTwice" \notin Habits
  PROVE  Spec => []SeedsFit
<1>1. FitInv => SeedsFit
  BY DEF FitInv, RequestFits, SeedsFit
<1>2. QED BY <1>1, AllKept, PTL

(* And every stored trace is one walk along the graph: also that of an     *)
(* execution that several requests resumed, one after the other.           *)
THEOREM TracesAreWalks ==
  ASSUME IsFiniteSet(Requests), "replayMiddle" \notin Habits,
         "resumeForks" \notin Habits, "resumeTwice" \notin Habits
  PROVE  Spec => []OneWalk
<1>1. FitInv => OneWalk
  BY DEF FitInv, ExecFits, Walk, Consecutive, OneWalk
<1>2. QED BY <1>1, AllKept, PTL
=============================================================================
