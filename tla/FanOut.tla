------------------------------- MODULE FanOut -------------------------------
(***************************************************************************)
(* What happens inside one concurrent node: the branches of NodeKind.Parallel *)
(* and the sends of Executor.executeSendAll, run on the executor that      *)
(* withExecutor makes for the call, a virtual thread per task, or on the   *)
(* pool the graph was given, which several calls share.  A call submits    *)
(* its branches and waits.  A send to a parallel node runs on a thread     *)
(* that submits that node's branches to the same executor and joins them.  *)
(***************************************************************************)
EXTENDS Integers, FiniteSets

CONSTANTS
  Runs,        \* concurrent executions, each at one fan-out
  Kind,        \* Kind[e]: "parallel" or "sends"
  Width,       \* Width[e]: the number of branches or sends
  Inner,       \* Inner[e][i]: branches of the parallel node send i goes to,
               \*              or 0 when it goes to any other node
  Undeclared,  \* Undeclared[e]: the sends that may go to an undeclared node
  Owned,       \* the executions whose executor withExecutor makes for the call
  PoolSize,    \* threads of the pool the other executions share
  Together     \* which executions happen together

ASSUME FanOutAssumption ==
  /\ Kind \in [Runs -> {"parallel", "sends"}]
  /\ Width \in [Runs -> Nat \ {0}]
  /\ \A e \in Runs : Inner[e] \in [1 .. Width[e] -> Nat]
  /\ \A e \in Runs : Undeclared[e] \subseteq 1 .. Width[e]
  /\ \A e \in Runs : Kind[e] = "parallel" =>
        Undeclared[e] = {} /\ Inner[e] = [i \in 1 .. Width[e] |-> 0]
  /\ PoolSize \in Nat \ {0}
  /\ Owned \subseteq Runs
  /\ Together \subseteq SUBSET Runs

(* A task is <<e, i, 0>>, branch i of e, or <<e, i, k>>, the k-th branch of *)
(* the parallel node that send i of e goes to.                             *)
Branches(e) == {<<e, i, 0>> : i \in 1 .. Width[e]}
Nested(e, i) == {<<e, i, k>> : k \in 1 .. Inner[e][i]}
TasksOf(e) == Branches(e) \union UNION {Nested(e, i) : i \in 1 .. Width[e]}
Tasks == UNION {TasksOf(e) : e \in Runs}

VARIABLES
  caller,     \* caller[e]: what the calling thread does
  submitted,  \* submitted[e]: how many branches it has submitted
  joined,     \* joined[e]: how many sends it has joined
  task,       \* task[t]: the progress of a task
  cancelled,  \* the tasks whose future was cancelled
  outcome     \* outcome[e]: what came of the fan-out

vars == <<caller, submitted, joined, task, cancelled, outcome>>

Idle     == {"new", "ok", "failed", "skipped"}
Busy     == {"running", "joining"}  \* tasks that hold a pool thread
Progress == Idle \union Busy \union {"queued"}

Merged        == [by |-> "merger", branch |-> 0]
MergerThrew   == [by |-> "throw",  branch |-> 0]
FailedAt(i)   == [by |-> "branch", branch |-> i]
RefusedAt(i)  == [by |-> "target", branch |-> i]
Pending       == [by |-> "none",   branch |-> 0]
Outcome       == [by : {"merger", "throw", "branch", "target", "none"}, branch : Nat]

TypeOK ==
  /\ caller \in [Runs -> {"submit", "join", "close", "returned"}]
  /\ submitted \in [Runs -> Nat]
  /\ joined \in [Runs -> Nat]
  /\ \A e \in Runs : submitted[e] <= Width[e] /\ joined[e] <= Width[e]
  /\ \A e \in Runs : caller[e] = "submit" => submitted[e] < Width[e]
  /\ task \in [Tasks -> Progress]
  /\ cancelled \subseteq Tasks
  /\ outcome \in [Runs -> Outcome]

Init ==
  /\ \E group \in Together :
        caller = [e \in Runs |-> IF e \in group THEN "submit" ELSE "returned"]
  /\ submitted = [e \in Runs |-> 0]
  /\ joined = [e \in Runs |-> 0]
  /\ task = [t \in Tasks |-> "new"]
  /\ cancelled = {}
  /\ outcome = [e \in Runs |-> Pending]

-----------------------------------------------------------------------------
(* The calling thread                                                      *)

(* The fan-out is over: leave withExecutor, which closes the executor only *)
(* when it made it.                                                        *)
Settle(e, how) ==
  /\ outcome' = [outcome EXCEPT ![e] = how]
  /\ caller' = [caller EXCEPT ![e] = IF e \in Owned THEN "close" ELSE "returned"]

Submit(e) ==
  LET i == submitted[e] + 1
  IN  /\ caller[e] = "submit"
      /\ submitted' = [submitted EXCEPT ![e] = i]
      /\ task' = [task EXCEPT ![<<e, i, 0>>] = "queued"]
      /\ caller' = [caller EXCEPT ![e] = IF i = Width[e] THEN "join" ELSE "submit"]
      /\ UNCHANGED <<joined, cancelled, outcome>>

(* A send to an undeclared node throws; the sends before it are on their way. *)
Refuse(e) ==
  /\ caller[e] = "submit"
  /\ submitted[e] + 1 \in Undeclared[e]
  /\ Settle(e, RefusedAt(submitted[e] + 1))
  /\ UNCHANGED <<submitted, joined, task, cancelled>>

Branch(e, i) == task[<<e, i, 0>>]
AllDone(e)   == \A i \in 1 .. Width[e] : Branch(e, i) \in {"ok", "failed"}
Failed(e)    == {i \in 1 .. Width[e] : Branch(e, i) = "failed"}

(* executeSendAll joins the sends in the order they were declared.         *)
JoinSend(e) ==
  LET i == joined[e] + 1
  IN  /\ caller[e] = "join"
      /\ Kind[e] = "sends"
      /\ joined[e] < Width[e]
      /\ Branch(e, i) = "ok"
      /\ joined' = [joined EXCEPT ![e] = i]
      /\ UNCHANGED <<caller, submitted, task, cancelled, outcome>>

(* Wrong: the first failure in time is reported.                           *)
JoinAnyFailure(e) ==
  /\ caller[e] = "join"
  /\ Kind[e] = "sends"
  /\ \E i \in Failed(e) :
        /\ cancelled' = cancelled \union {<<e, j, 0>> : j \in i + 1 .. Width[e]}
        /\ Settle(e, FailedAt(i))
  /\ UNCHANGED <<submitted, joined, task>>

(* Wrong: the send right after the failed one is not cancelled.            *)
JoinFailureSkipsOne(e) ==
  LET i == joined[e] + 1
  IN  /\ caller[e] = "join"
      /\ Kind[e] = "sends"
      /\ joined[e] < Width[e]
      /\ Branch(e, i) = "failed"
      /\ cancelled' = cancelled \union {<<e, j, 0>> : j \in i + 2 .. Width[e]}
      /\ Settle(e, FailedAt(i))
      /\ UNCHANGED <<submitted, joined, task>>

(* The first failure it meets cancels the futures of the sends after it,   *)
(* which stops those that no thread has taken yet.                         *)
JoinFailure(e) ==
  LET i == joined[e] + 1
  IN  /\ caller[e] = "join"
      /\ Kind[e] = "sends"
      /\ joined[e] < Width[e]
      /\ Branch(e, i) = "failed"
      /\ cancelled' = cancelled \union {<<e, j, 0>> : j \in i + 1 .. Width[e]}
      /\ Settle(e, FailedAt(i))
      /\ UNCHANGED <<submitted, joined, task>>

(* Wrong: anyOf for allOf: the first branch to fail ends the node.         *)
AnyOf(e) ==
  /\ caller[e] = "join"
  /\ Kind[e] = "parallel"
  /\ \E i \in Failed(e) : Settle(e, FailedAt(i))
  /\ UNCHANGED <<submitted, joined, task, cancelled>>

(* Parallel waits for allOf its branches and then looks at them in order.  *)
AllOf(e) ==
  /\ caller[e] = "join"
  /\ Kind[e] = "parallel"
  /\ AllDone(e)
  /\ \E i \in Failed(e) : /\ \A j \in Failed(e) : i <= j
                          /\ Settle(e, FailedAt(i))
  /\ UNCHANGED <<submitted, joined, task, cancelled>>

Merge(e) ==
  /\ caller[e] = "join"
  /\ IF Kind[e] = "sends" THEN joined[e] = Width[e] ELSE AllDone(e) /\ Failed(e) = {}
  /\ \E how \in {Merged, MergerThrew} : Settle(e, how)
  /\ UNCHANGED <<submitted, joined, task, cancelled>>

Quiet(e) == \A t \in TasksOf(e) : task[t] \in Idle

(* ExecutorService.close waits for every task it was given.                *)
Close(e) ==
  /\ caller[e] = "close"
  /\ Quiet(e)
  /\ caller' = [caller EXCEPT ![e] = "returned"]
  /\ UNCHANGED <<submitted, joined, task, cancelled, outcome>>

-----------------------------------------------------------------------------
(* The executor's threads                                                  *)

BusyThreads == {t \in Tasks : t[1] \notin Owned /\ task[t] \in Busy}

Progresses(t, to) ==
  /\ task' = [task EXCEPT ![t] = to]
  /\ UNCHANGED <<caller, submitted, joined, cancelled, outcome>>

(* AsyncSupply.run does not call the function of a completed future.       *)
Start(t) ==
  /\ task[t] = "queued"
  /\ t[1] \in Owned \/ Cardinality(BusyThreads) < PoolSize
  /\ Progresses(t, IF t \in cancelled THEN "skipped" ELSE "running")

Forks(t) == IF t[3] = 0 THEN Nested(t[1], t[2]) ELSE {}

(* A branch that is not a parallel node returns or throws.                 *)
Finish(t) ==
  /\ task[t] = "running"
  /\ Forks(t) = {}
  /\ \E how \in {"ok", "failed"} : Progresses(t, how)

(* Branches of the parallel node that t goes to, not yet submitted.        *)
ToFork(t) == {u \in Forks(t) : task[u] = "new"}

(* A send's thread submits the branches of its parallel node one by one ... *)
Fork(t) ==
  /\ task[t] = "running"
  /\ caller[t[1]] # "close"
  /\ \E u \in ToFork(t) : /\ \A w \in ToFork(t) : u[3] <= w[3]
                          /\ Progresses(u, "queued")

(* ... and blocks.                                                         *)
Forked(t) ==
  /\ task[t] = "running"
  /\ Forks(t) # {} /\ ToFork(t) = {}
  /\ Progresses(t, "joining")

(* An executor that is being closed rejects the next branch, and the send  *)
(* fails; those before it are on their way.                                *)
ForkRejected(t) ==
  /\ task[t] = "running"
  /\ ToFork(t) # {}
  /\ caller[t[1]] = "close"
  /\ Progresses(t, "failed")

(* Wrong: a parallel node with a failed branch never completes.            *)
JoinInnerOk(t) ==
  /\ task[t] = "joining"
  /\ \A u \in Forks(t) : task[u] = "ok"
  /\ Progresses(t, "ok")

JoinInner(t) ==
  /\ task[t] = "joining"
  /\ \A u \in Forks(t) : task[u] \in {"ok", "failed"}
  /\ Progresses(t, IF \E u \in Forks(t) : task[u] = "failed" THEN "failed" ELSE "ok")

-----------------------------------------------------------------------------
Call(e) == \/ Submit(e) \/ Refuse(e)
           \/ JoinSend(e) \/ JoinFailure(e) \/ AllOf(e) \/ Merge(e)
           \/ Close(e)

Work(t) == \/ Start(t) \/ Finish(t)
           \/ Fork(t) \/ Forked(t) \/ ForkRejected(t) \/ JoinInner(t)

Next == (\E e \in Runs : Call(e)) \/ (\E t \in Tasks : Work(t))

Spec == Init /\ [][Next]_vars

(* Threads keep running, branches return, and a thread that is free takes  *)
(* a queued task.                                                          *)
FairSpec == /\ Spec
            /\ \A e \in Runs : WF_vars(Call(e))
            /\ WF_vars(\E t \in Tasks : Work(t))

-----------------------------------------------------------------------------
(* Properties                                                              *)

(* The first failure in declaration order wins, however the branches were  *)
(* scheduled, and only a fan-out all of whose branches succeeded is merged. *)
FirstDeclaredFailureWins ==
  \A e \in Runs :
    CASE outcome[e].by = "branch" ->
           /\ Branch(e, outcome[e].branch) = "failed"
           /\ \A j \in 1 .. outcome[e].branch - 1 : Branch(e, j) = "ok"
      [] outcome[e].by \in {"merger", "throw"} ->
           \A j \in 1 .. Width[e] : Branch(e, j) = "ok"
      [] OTHER -> TRUE

(* A call to a graph with the default executor, and a parallel node on any *)
(* executor, leave no branch running behind the caller's back.             *)
NoBranchLeftBehind ==
  \A e \in Runs :
    caller[e] = "returned" /\ (e \in Owned \/ Kind[e] = "parallel") => Quiet(e)

(* Once executeSendAll has chosen the failure it reports, no send declared *)
(* after the failed one is started any more.                               *)
FailureStopsTheRest ==
  [][\A e \in Runs : outcome[e].by = "branch" =>
       \A i \in outcome[e].branch + 1 .. Width[e] :
          Branch(e, i) = "queued" => task'[<<e, i, 0>>] \in {"queued", "skipped"}]_vars

(* Every call returns when the pool has a thread more than there are sends *)
(* to parallel nodes, each of which blocks a thread until its branches,    *)
(* which need threads of the same pool, are done.                          *)
CallsReturn == \A e \in Runs : <>(caller[e] = "returned")
=============================================================================
