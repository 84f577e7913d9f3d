--------------------------- MODULE FanOut_proofs ---------------------------
(***************************************************************************)
(* Proofs about FanOut for any number of executions, branches and threads. *)
(***************************************************************************)
EXTENDS FanOut, FiniteSetTheorems, TLAPS

(* What a call still has to submit has not been started.                   *)
SubmitInv ==
  \A e \in Runs : \A i \in 1 .. Width[e] : i > submitted[e] => Branch(e, i) = "new"

(* What executeSendAll has joined has succeeded.                           *)
JoinInv ==
  \A e \in Runs : \A i \in 1 .. joined[e] : Branch(e, i) = "ok"

(* A reported failure is the failure of a branch there is.                 *)
OutcomeInv ==
  \A e \in Runs : outcome[e].by = "branch" => outcome[e].branch \in 1 .. Width[e]

(* The branches of a call are tasks, and the branches a send forks are not *)
(* branches of the call itself.                                            *)
LEMMA TaskShape ==
  /\ \A e \in Runs : \A i \in 1 .. Width[e] : <<e, i, 0>> \in Tasks
  /\ \A e \in Runs : \A i \in 1 .. Width[e] : \A t \in Tasks : <<e, i, 0>> \notin Forks(t)
  /\ \A t \in Tasks : t = <<t[1], t[2], t[3]>> /\ t[1] \in Runs
<1>1. ASSUME NEW e \in Runs, NEW i \in 1 .. Width[e] PROVE <<e, i, 0>> \in Tasks
  BY DEF Tasks, TasksOf, Branches
<1>2. ASSUME NEW e \in Runs, NEW i \in 1 .. Width[e], NEW t \in Tasks
      PROVE  <<e, i, 0>> \notin Forks(t)
  <2> SUFFICES ASSUME NEW k \in 1 .. Inner[t[1]][t[2]],
                      <<e, i, 0>> = <<t[1], t[2], k>>
               PROVE  FALSE
    BY DEF Forks, Nested
  <2> QED
    OBVIOUS
<1>3. ASSUME NEW t \in Tasks PROVE t = <<t[1], t[2], t[3]>> /\ t[1] \in Runs
  BY DEF Tasks, TasksOf, Branches, Nested
<1> QED
  BY <1>1, <1>2, <1>3

(* Each task belongs to one call, and so do the branches it forks.         *)
LEMMA TasksAreDisjoint ==
  /\ \A e \in Runs : \A t \in TasksOf(e) : t \in Tasks /\ t[1] = e
  /\ \A t \in Tasks : t \in TasksOf(t[1]) /\ \A u \in Forks(t) : u[1] = t[1]
<1>1. ASSUME NEW e \in Runs, NEW t \in TasksOf(e) PROVE t \in Tasks /\ t[1] = e
  BY DEF Tasks, TasksOf, Branches, Nested
<1>2. ASSUME NEW t \in Tasks PROVE t \in TasksOf(t[1])
  <2>1. PICK e \in Runs : t \in TasksOf(e)
    BY DEF Tasks
  <2> QED
    BY <1>1, <2>1
<1>3. ASSUME NEW t \in Tasks, NEW u \in Forks(t) PROVE u[1] = t[1]
  <2>1. u \in Nested(t[1], t[2])
    BY DEF Forks
  <2> QED
    BY <2>1 DEF Nested
<1> QED
  BY <1>1, <1>2, <1>3

(* A send forks tasks of one parallel node, no two sends the same, and     *)
(* they fork nothing themselves.                                           *)
LEMMA ForkShape ==
  \A t \in Tasks : \A u \in Forks(t) :
    /\ t[3] = 0 /\ t = <<u[1], u[2], 0>>
    /\ u \in Tasks /\ u[3] # 0 /\ u # t /\ Forks(u) = {}
<1> SUFFICES ASSUME NEW t \in Tasks, NEW u \in Forks(t)
             PROVE  /\ t[3] = 0 /\ t = <<u[1], u[2], 0>>
                    /\ u \in Tasks /\ u[3] # 0 /\ u # t /\ Forks(u) = {}
  OBVIOUS
<1>1. t[3] = 0 /\ u \in Nested(t[1], t[2])
  BY DEF Forks
<1>2. PICK k \in 1 .. Inner[t[1]][t[2]] : u = <<t[1], t[2], k>>
  BY <1>1 DEF Nested
<1>3. t = <<t[1], t[2], t[3]>> /\ t[1] \in Runs /\ t \in TasksOf(t[1])
  BY TaskShape, TasksAreDisjoint
<1>4. k # 0 /\ u[1] = t[1] /\ u[2] = t[2] /\ u[3] = k
  BY <1>2
<1>5. t[2] \in 1 .. Width[t[1]]
  BY <1>3 DEF TasksOf, Branches, Nested
<1>6. u \in TasksOf(t[1])
  BY <1>1, <1>5 DEF TasksOf
<1>7. u \in Tasks
  BY <1>3, <1>6 DEF Tasks
<1> QED
  BY <1>1, <1>3, <1>4, <1>7 DEF Forks

(* A step of a thread of the executor moves the task it works on, or       *)
(* submits a branch of the parallel node that this task goes to.           *)
LEMMA WorkMoves ==
  ASSUME NEW t \in Tasks, Work(t)
  PROVE  \/ /\ task[t] \in {"queued", "running", "joining"}
            /\ \E to \in Progress \ {"new", "queued"} : Progresses(t, to)
         \/ \E u \in Forks(t) : task[u] = "new" /\ Progresses(u, "queued")
<1>1. CASE Fork(t)
  BY <1>1 DEF Fork, ToFork
<1>2. CASE ~Fork(t)
  BY <1>2 DEF Work, Start, Finish, Forked, ForkRejected, JoinInner, Progress, Idle, Busy
<1> QED
  BY <1>1, <1>2

(* Type correctness of the fan-out.                                        *)
THEOREM TypeCorrect == Spec => []TypeOK
<1>1. Init => TypeOK
  BY FanOutAssumption DEF Init, TypeOK, Progress, Idle, Outcome, Pending
<1>2. TypeOK /\ [Next]_vars => TypeOK'
  <2> SUFFICES ASSUME TypeOK, [Next]_vars PROVE TypeOK'
    OBVIOUS
  <2> USE FanOutAssumption DEF TypeOK
  <2>s. ASSUME NEW e \in Runs, NEW how \in Outcome, Settle(e, how)
        PROVE  /\ caller' \in [Runs -> {"submit", "join", "close", "returned"}]
               /\ \A f \in Runs : caller'[f] = "submit" => caller[f] = "submit"
               /\ outcome' \in [Runs -> Outcome]
    BY <2>s DEF Settle
  <2>p. ASSUME NEW t \in Tasks, NEW to \in Progress, Progresses(t, to)
        PROVE  TypeOK'
    BY <2>p DEF Progresses
  <2>1. ASSUME NEW e \in Runs, Submit(e) PROVE TypeOK'
    <3>1. submitted' \in [Runs -> Nat] /\ submitted'[e] = submitted[e] + 1
      BY <2>1 DEF Submit
    <3>2. submitted[e] < Width[e] /\ Width[e] \in Nat
      BY <2>1 DEF Submit
    <3>3. /\ submitted'[e] <= Width[e]
          /\ caller'[e] = "submit" => submitted'[e] < Width[e]
      BY <2>1, <3>1, <3>2 DEF Submit
    <3>4. \A f \in Runs \ {e} : submitted'[f] = submitted[f] /\ caller'[f] = caller[f]
      BY <2>1 DEF Submit
    <3>5. task' \in [Tasks -> Progress]
      BY <2>1 DEF Submit, Progress
    <3>6. caller' \in [Runs -> {"submit", "join", "close", "returned"}]
      BY <2>1 DEF Submit
    <3> QED
      BY <2>1, <3>1, <3>3, <3>4, <3>5, <3>6 DEF Submit
  <2>2. ASSUME NEW e \in Runs, Refuse(e) PROVE TypeOK'
    <3>2. RefusedAt(submitted[e] + 1) \in Outcome
      BY DEF Outcome, RefusedAt
    <3> QED
      BY <2>2, <2>s, <3>2 DEF Refuse
  <2>3. ASSUME NEW e \in Runs, JoinSend(e) PROVE TypeOK'
    BY <2>3 DEF JoinSend
  <2>4. ASSUME NEW e \in Runs, JoinFailure(e) PROVE TypeOK'
    <3>1. FailedAt(joined[e] + 1) \in Outcome
      BY DEF Outcome, FailedAt
    <3>2. {<<e, j, 0>> : j \in joined[e] + 2 .. Width[e]} \subseteq Tasks
      BY TaskShape
    <3> QED
      BY <2>4, <2>s, <3>1, <3>2 DEF JoinFailure
  <2>5. ASSUME NEW e \in Runs, AllOf(e) PROVE TypeOK'
    BY <2>5, <2>s DEF AllOf, Failed, Outcome, FailedAt
  <2>6. ASSUME NEW e \in Runs, Merge(e) PROVE TypeOK'
    BY <2>6, <2>s DEF Merge, Outcome, Merged, MergerThrew
  <2>7. ASSUME NEW e \in Runs, Close(e) PROVE TypeOK'
    BY <2>7 DEF Close
  <2>8. ASSUME NEW t \in Tasks, Work(t) PROVE TypeOK'
    <3>1. \E u \in Tasks, to \in Progress : Progresses(u, to)
      BY <2>8, WorkMoves, ForkShape DEF Progress, Idle, Busy
    <3> QED
      BY <3>1, <2>p
  <2>9. CASE UNCHANGED vars
    BY <2>9 DEF vars
  <2> QED
    BY <2>1, <2>2, <2>3, <2>4, <2>5, <2>6, <2>7, <2>8, <2>9 DEF Next, Call
<1> QED
  BY <1>1, <1>2, PTL DEF Spec

(* A step of the pool leaves the branches that have ended, and those that  *)
(* were never submitted, as they are.                                      *)
LEMMA WorkKeepsBranches ==
  ASSUME TypeOK, NEW t \in Tasks, Work(t), NEW e \in Runs, NEW i \in 1 .. Width[e],
         Branch(e, i) \in {"new", "ok", "failed"}
  PROVE  Branch(e, i)' = Branch(e, i)
<1> USE TaskShape DEF TypeOK, Branch
<1>1. CASE Start(t)
  BY <1>1 DEF Start, Progresses
<1>2. CASE Finish(t) \/ Forked(t) \/ ForkRejected(t) \/ JoinInner(t)
  BY <1>2 DEF Finish, Forked, ForkRejected, JoinInner, Progresses
<1>3. CASE Fork(t)
  BY <1>3 DEF Fork, ToFork, Progresses
<1> QED
  BY <1>1, <1>2, <1>3 DEF Work

(* The outcome reported by a call agrees with its branches.                *)
Explains(e, how) ==
  /\ how.by = "branch" => /\ how.branch \in 1 .. Width[e]
                          /\ Branch(e, how.branch) = "failed"
                          /\ \A j \in 1 .. how.branch - 1 : Branch(e, j) = "ok"
  /\ how.by \in {"merger", "throw"} => \A j \in 1 .. Width[e] : Branch(e, j) = "ok"

Explained == \A e \in Runs : Explains(e, outcome[e])

(* The property and its strengthening, in the form the proof uses.         *)
LEMMA ExplainedIsProperty ==
  ASSUME TypeOK
  PROVE  Explained <=> OutcomeInv /\ FirstDeclaredFailureWins
BY DEF Explained, Explains, OutcomeInv, FirstDeclaredFailureWins, TypeOK, Outcome

(* The inductive invariant of a fan-out.                                   *)
THEOREM FanOutInvariant == Spec => [](TypeOK /\ SubmitInv /\ JoinInv /\ Explained)
<1> DEFINE Inv == SubmitInv /\ JoinInv /\ Explained
<1>1. Init => Inv
  <2> SUFFICES ASSUME Init PROVE Inv
    OBVIOUS
  <2>1. SubmitInv
    BY TaskShape DEF Init, SubmitInv, Branch
  <2>2. JoinInv
    BY DEF Init, JoinInv
  <2>3. Explained
    BY DEF Init, Explained, Explains, Pending
  <2> QED
    BY <2>1, <2>2, <2>3
<1>2. TypeOK /\ Inv /\ [Next]_vars => Inv'
  <2> SUFFICES ASSUME TypeOK, SubmitInv, JoinInv, Explained, [Next]_vars
               PROVE  Inv'
    OBVIOUS
  <2> USE FanOutAssumption, TaskShape
  <2>k. ASSUME UNCHANGED outcome,
               \A f \in Runs : \A j \in 1 .. Width[f] :
                  Branch(f, j) \in {"ok", "failed"} => Branch(f, j)' = Branch(f, j)
        PROVE  Explained'
    <3> SUFFICES ASSUME NEW e \in Runs PROVE Explains(e, outcome[e])'
      BY DEF Explained
    <3>1. Explains(e, outcome[e]) /\ outcome'[e] = outcome[e] /\ Width[e] \in Nat
      BY <2>k DEF Explained
    <3> QED
      BY <2>k, <3>1 DEF Explains
  <2>s. ASSUME NEW e \in Runs, NEW how, Settle(e, how), Explains(e, how),
               UNCHANGED <<submitted, joined, task>>
        PROVE  Inv'
    <3>1. SubmitInv' /\ JoinInv'
      BY <2>s DEF SubmitInv, JoinInv, Branch
    <3>2. outcome' = [outcome EXCEPT ![e] = how] /\ outcome \in [Runs -> Outcome]
      BY <2>s DEF Settle, TypeOK
    <3>3. Explained'
      BY <2>s, <3>2 DEF Explained, Explains, Branch
    <3> QED
      BY <3>1, <3>3
  <2>1. ASSUME NEW e \in Runs, Submit(e) PROVE Inv'
    <3> DEFINE i == submitted[e] + 1
    <3>1. i \in 1 .. Width[e] /\ Branch(e, i) = "new"
      BY <2>1 DEF Submit, TypeOK, SubmitInv
    <3>2. ASSUME NEW f \in Runs, NEW j \in 1 .. Width[f]
          PROVE  Branch(f, j)' = IF f = e /\ j = i THEN "queued" ELSE Branch(f, j)
      <4>1. <<f, j, 0>> \in Tasks /\ task' = [task EXCEPT ![<<e, i, 0>>] = "queued"]
        BY <2>1 DEF Submit
      <4>2. <<f, j, 0>> = <<e, i, 0>> <=> f = e /\ j = i
        OBVIOUS
      <4> QED
        BY <4>1, <4>2 DEF TypeOK, Branch
    <3>3. submitted' = [submitted EXCEPT ![e] = i] /\ submitted \in [Runs -> Nat]
      BY <2>1 DEF Submit, TypeOK
    <3>4. SubmitInv'
      BY <3>2, <3>3 DEF SubmitInv
    <3>5. \A f \in Runs : \A j \in 1 .. Width[f] :
             Branch(f, j) \in {"ok", "failed"} => Branch(f, j)' = Branch(f, j)
      BY <3>1, <3>2
    <3>6. JoinInv'
      BY <2>1, <3>5 DEF Submit, TypeOK, JoinInv
    <3>7. Explained'
      BY <2>1, <2>k, <3>5 DEF Submit
    <3> QED
      BY <3>4, <3>6, <3>7
  <2>2. ASSUME NEW e \in Runs, Refuse(e) PROVE Inv'
    <3>1. Explains(e, RefusedAt(submitted[e] + 1))
      BY DEF Explains, RefusedAt
    <3> QED
      BY <2>2, <2>s, <3>1 DEF Refuse
  <2>3. ASSUME NEW e \in Runs, JoinSend(e) PROVE Inv'
    <3>1. SubmitInv' /\ Explained'
      BY <2>3 DEF JoinSend, SubmitInv, Explained, Explains, Branch
    <3>2. /\ joined[e] \in Nat /\ joined' = [joined EXCEPT ![e] = joined[e] + 1]
          /\ joined \in [Runs -> Nat] /\ task' = task
          /\ Branch(e, joined[e] + 1) = "ok"
      BY <2>3 DEF JoinSend, TypeOK
    <3>3. ASSUME NEW f \in Runs, NEW j \in 1 .. joined'[f]
          PROVE  Branch(f, j)' = "ok"
      <4>1. Branch(f, j)' = Branch(f, j)
        BY <3>2 DEF Branch
      <4>2. CASE f = e
        <5>1. j \in 1 .. joined[e] \/ j = joined[e] + 1
          BY <3>2, <4>2
        <5> QED
          BY <3>2, <4>1, <4>2, <5>1 DEF JoinInv
      <4>3. CASE f # e
        BY <3>2, <4>1, <4>3 DEF JoinInv
      <4> QED
        BY <4>2, <4>3
    <3>4. JoinInv'
      BY <3>3 DEF JoinInv
    <3> QED
      BY <3>1, <3>4
  <2>4. ASSUME NEW e \in Runs, JoinFailure(e) PROVE Inv'
    <3>1. /\ joined[e] \in Nat /\ joined[e] < Width[e] /\ Width[e] \in Nat
          /\ Branch(e, joined[e] + 1) = "failed"
          /\ \A j \in 1 .. joined[e] : Branch(e, j) = "ok"
      BY <2>4 DEF JoinFailure, JoinInv, TypeOK
    <3>2. Explains(e, FailedAt(joined[e] + 1))
      BY <3>1 DEF Explains, FailedAt
    <3> QED
      BY <2>4, <2>s, <3>2 DEF JoinFailure
  <2>5. ASSUME NEW e \in Runs, AllOf(e) PROVE Inv'
    <3>1. PICK i \in Failed(e) : (\A j \in Failed(e) : i <= j) /\ Settle(e, FailedAt(i))
      BY <2>5 DEF AllOf
    <3>2. i \in 1 .. Width[e] /\ Branch(e, i) = "failed" /\ Width[e] \in Nat
      BY DEF Failed
    <3>3. ASSUME NEW j \in 1 .. i - 1 PROVE Branch(e, j) = "ok"
      <4>1. j \in 1 .. Width[e] /\ ~(i <= j)
        BY <3>2
      <4>2. j \notin Failed(e)
        BY <3>1, <4>1
      <4> QED
        BY <2>5, <4>1, <4>2 DEF AllOf, AllDone, Failed
    <3>4. Explains(e, FailedAt(i))
      BY <3>2, <3>3 DEF Explains, FailedAt
    <3> QED
      BY <2>5, <2>s, <3>1, <3>4 DEF AllOf
  <2>6. ASSUME NEW e \in Runs, Merge(e) PROVE Inv'
    <3>1. ASSUME NEW j \in 1 .. Width[e] PROVE Branch(e, j) = "ok"
      <4>1. CASE Kind[e] = "sends"
        BY <2>6, <4>1 DEF Merge, JoinInv
      <4>2. CASE Kind[e] # "sends"
        BY <2>6, <4>2 DEF Merge, AllDone, Failed
      <4> QED
        BY <4>1, <4>2
    <3>2. PICK how \in {Merged, MergerThrew} : Settle(e, how)
      BY <2>6 DEF Merge
    <3>3. Explains(e, how)
      BY <3>1 DEF Explains, Merged, MergerThrew
    <3> QED
      BY <2>6, <2>s, <3>2, <3>3 DEF Merge
  <2>7. ASSUME NEW e \in Runs, Close(e) PROVE Inv'
    BY <2>7 DEF Close, SubmitInv, JoinInv, Explained, Explains, Branch
  <2>8. ASSUME NEW t \in Tasks, Work(t) PROVE Inv'
    <3>1. \A e \in Runs : \A i \in 1 .. Width[e] :
             Branch(e, i) \in {"new", "ok", "failed"} => Branch(e, i)' = Branch(e, i)
      BY <2>8, WorkKeepsBranches
    <3>2. UNCHANGED <<caller, submitted, joined, cancelled, outcome>>
      BY <2>8 DEF Work, Start, Finish, Fork, Forked, ForkRejected, JoinInner, Progresses
    <3>3. SubmitInv'
      BY <3>1, <3>2 DEF SubmitInv
    <3>4. JoinInv'
      BY <3>1, <3>2 DEF JoinInv, TypeOK
    <3>5. Explained'
      BY <2>k, <3>1, <3>2
    <3> QED
      BY <3>3, <3>4, <3>5
  <2>9. CASE UNCHANGED vars
    BY <2>9 DEF vars, SubmitInv, JoinInv, Explained, Explains, Branch
  <2> QED
    BY <2>1, <2>2, <2>3, <2>4, <2>5, <2>6, <2>7, <2>8, <2>9 DEF Next, Call
<1> QED
  BY <1>1, <1>2, TypeCorrect, PTL DEF Spec

(* The first failure in declaration order wins, and only fan-outs all of   *)
(* whose branches succeeded are merged, for every schedule of every pool.  *)
THEOREM FirstFailureWins == Spec => []FirstDeclaredFailureWins
<1>1. TypeOK /\ Explained => FirstDeclaredFailureWins
  BY ExplainedIsProperty
<1> QED
  BY <1>1, FanOutInvariant, PTL

(* The branches of a parallel node fork nothing: they are all its tasks.   *)
LEMMA ParallelIsFlat ==
  ASSUME NEW e \in Runs, Kind[e] = "parallel"
  PROVE  TasksOf(e) = Branches(e) /\ Undeclared[e] = {}
<1>1. Undeclared[e] = {} /\ \A i \in 1 .. Width[e] : Inner[e][i] = 0
  BY FanOutAssumption
<1>2. \A i \in 1 .. Width[e] : Nested(e, i) = {}
  BY <1>1 DEF Nested
<1> QED
  BY <1>1, <1>2 DEF TasksOf

(* Work of other calls, and none of its own, leaves a quiet call quiet.    *)
LEMMA WorkKeepsQuiet ==
  ASSUME TypeOK, NEW t \in Tasks, Work(t), NEW e \in Runs, Quiet(e)
  PROVE  Quiet(e)'
<1> SUFFICES ASSUME NEW u \in TasksOf(e) PROVE task'[u] \in Idle
  BY DEF Quiet
<1>1. t[1] # e
  <2> SUFFICES ASSUME t[1] = e PROVE FALSE
    OBVIOUS
  <2>1. task[t] \in Idle
    BY TasksAreDisjoint DEF Quiet
  <2> QED
    BY <2>1 DEF Work, Start, Finish, Fork, Forked, ForkRejected, JoinInner, Idle
<1>2. /\ u \in Tasks /\ u # t /\ u \notin Forks(t)
      /\ task[u] \in Idle
  BY <1>1, TasksAreDisjoint DEF Quiet
<1>3. task'[u] = task[u]
  BY <1>2, WorkMoves DEF TypeOK, Progresses
<1> QED
  BY <1>2, <1>3

(* With the executor of the call, and for a parallel node on any executor, *)
(* no branch is queued or running once the call has returned.              *)
THEOREM NothingIsLeftBehind == Spec => []NoBranchLeftBehind
<1>1. Init => NoBranchLeftBehind
  BY TasksAreDisjoint DEF Init, NoBranchLeftBehind, Quiet, Idle
<1>2. TypeOK /\ NoBranchLeftBehind /\ [Next]_vars => NoBranchLeftBehind'
  <2> SUFFICES ASSUME TypeOK, NoBranchLeftBehind, [Next]_vars, NEW e \in Runs,
                      caller'[e] = "returned", e \in Owned \/ Kind[e] = "parallel"
               PROVE  Quiet(e)'
    BY DEF NoBranchLeftBehind
  <2>0. ASSUME task' = task, Quiet(e) PROVE Quiet(e)'
    BY <2>0 DEF Quiet
  <2>1. ASSUME NEW f \in Runs, Submit(f) PROVE Quiet(e)'
    <3>1. f # e /\ caller[e] = "returned"
      BY <2>1 DEF Submit, TypeOK
    <3>2. Quiet(e)
      BY <3>1 DEF NoBranchLeftBehind
    <3>3. ASSUME NEW u \in TasksOf(e) PROVE task'[u] = task[u]
      <4>1. u \in Tasks /\ u[1] = e
        BY TasksAreDisjoint
      <4>2. u # <<f, submitted[f] + 1, 0>>
        BY <3>1, <4>1
      <4> QED
        BY <2>1, <4>1, <4>2 DEF Submit, TypeOK
    <3> QED
      BY <3>2, <3>3 DEF Quiet
  <2>s. ASSUME NEW f \in Runs, NEW how, Settle(f, how), caller[f] # "returned",
               task' = task,
               f = e /\ e \notin Owned => Quiet(e)
        PROVE  Quiet(e)'
    <3>1. CASE f = e
      <4>1. e \notin Owned
        BY <2>s, <3>1 DEF Settle, TypeOK
      <4> QED
        BY <2>0, <2>s, <3>1, <4>1
    <3>2. CASE f # e
      <4>1. caller[e] = "returned"
        BY <2>s, <3>2 DEF Settle, TypeOK
      <4> QED
        BY <2>0, <2>s, <4>1 DEF NoBranchLeftBehind
    <3> QED
      BY <3>1, <3>2
  <2>d. ASSUME Kind[e] = "parallel", AllDone(e) PROVE Quiet(e)
    BY <2>d, ParallelIsFlat DEF AllDone, Branch, Branches, Quiet, Idle
  <2>2. ASSUME NEW f \in Runs, Refuse(f) PROVE Quiet(e)'
    <3>1. f = e /\ e \notin Owned => FALSE
      <4> SUFFICES ASSUME f = e, e \notin Owned PROVE FALSE
        OBVIOUS
      <4>1. Undeclared[e] = {} /\ submitted[e] + 1 \in Undeclared[e]
        BY <2>2, ParallelIsFlat DEF Refuse, TypeOK
      <4> QED
        BY <4>1
    <3> QED
      BY <2>2, <2>s, <3>1 DEF Refuse
  <2>3. ASSUME NEW f \in Runs, JoinSend(f) PROVE Quiet(e)'
    BY <2>0, <2>3 DEF JoinSend, NoBranchLeftBehind
  <2>4. ASSUME NEW f \in Runs, JoinFailure(f) PROVE Quiet(e)'
    <3>1. f = e /\ e \notin Owned => FALSE
      BY <2>4 DEF JoinFailure
    <3> QED
      BY <2>4, <2>s, <3>1 DEF JoinFailure
  <2>5. ASSUME NEW f \in Runs, AllOf(f) PROVE Quiet(e)'
    <3>1. PICK i \in Failed(f) : Settle(f, FailedAt(i))
      BY <2>5 DEF AllOf
    <3>2. f = e /\ e \notin Owned => Quiet(e)
      BY <2>5, <2>d DEF AllOf
    <3> QED
      BY <2>5, <2>s, <3>1, <3>2 DEF AllOf
  <2>6. ASSUME NEW f \in Runs, Merge(f) PROVE Quiet(e)'
    <3>1. PICK how \in {Merged, MergerThrew} : Settle(f, how)
      BY <2>6 DEF Merge
    <3>2. f = e /\ e \notin Owned => Quiet(e)
      BY <2>6, <2>d DEF Merge
    <3> QED
      BY <2>6, <2>s, <3>1, <3>2 DEF Merge
  <2>7. ASSUME NEW f \in Runs, Close(f) PROVE Quiet(e)'
    <3>1. Quiet(e)
      <4>1. CASE f = e
        BY <2>7, <4>1 DEF Close
      <4>2. CASE f # e
        <5>1. caller[e] = "returned"
          BY <2>7, <4>2 DEF Close, TypeOK
        <5> QED
          BY <5>1 DEF NoBranchLeftBehind
      <4> QED
        BY <4>1, <4>2
    <3> QED
      BY <2>0, <2>7, <3>1 DEF Close
  <2>8. ASSUME NEW t \in Tasks, Work(t) PROVE Quiet(e)'
    <3>1. caller' = caller
      BY <2>8 DEF Work, Start, Finish, Fork, Forked, ForkRejected, JoinInner, Progresses
    <3>2. Quiet(e)
      BY <3>1 DEF NoBranchLeftBehind
    <3> QED
      BY <2>8, <3>2, WorkKeepsQuiet
  <2>9. CASE UNCHANGED vars
    BY <2>0, <2>9 DEF vars, NoBranchLeftBehind
  <2> QED
    BY <2>1, <2>2, <2>3, <2>4, <2>5, <2>6, <2>7, <2>8, <2>9 DEF Next, Call
<1> QED
  BY <1>1, <1>2, TypeCorrect, PTL DEF Spec

-----------------------------------------------------------------------------
(* A fan-out that has an outcome is over for its caller, and what a failed *)
(* one still has in the queue after the failure is cancelled.              *)
SettledInv ==
  \A e \in Runs : outcome[e].by = "branch" =>
    /\ caller[e] \in {"close", "returned"}
    /\ \A i \in outcome[e].branch + 1 .. Width[e] :
         Branch(e, i) = "queued" => <<e, i, 0>> \in cancelled

(* A branch gets into the queue by being submitted, and in no other way.   *)
LEMMA WorkQueuesNoBranch ==
  ASSUME TypeOK, NEW t \in Tasks, Work(t), NEW e \in Runs, NEW i \in 1 .. Width[e],
         Branch(e, i)' = "queued"
  PROVE  Branch(e, i) = "queued"
<1> USE TaskShape DEF TypeOK, Branch
<1>1. CASE Start(t)
  BY <1>1 DEF Start, Progresses
<1>2. CASE Finish(t) \/ Forked(t) \/ ForkRejected(t) \/ JoinInner(t)
  BY <1>2 DEF Finish, Forked, ForkRejected, JoinInner, Progresses
<1>3. CASE Fork(t)
  BY <1>3 DEF Fork, ToFork, Progresses
<1> QED
  BY <1>1, <1>2, <1>3 DEF Work

(* An outcome that is reported now meets the invariant if its branches do. *)
LEMMA SettleKeepsSettled ==
  ASSUME TypeOK, SettledInv, NEW e \in Runs, NEW how \in Outcome, Settle(e, how),
         task' = task, cancelled \subseteq cancelled',
         how.by = "branch" =>
           \A i \in how.branch + 1 .. Width[e] :
             Branch(e, i) = "queued" => <<e, i, 0>> \in cancelled'
  PROVE  SettledInv'
<1> SUFFICES ASSUME NEW f \in Runs, outcome'[f].by = "branch"
             PROVE  /\ caller'[f] \in {"close", "returned"}
                    /\ \A i \in outcome'[f].branch + 1 .. Width[f] :
                         Branch(f, i) = "queued" => <<f, i, 0>> \in cancelled'
  BY DEF SettledInv, Branch
<1>1. CASE f = e
  BY <1>1 DEF Settle, TypeOK
<1>2. CASE f # e
  <2>1. outcome'[f] = outcome[f] /\ caller'[f] = caller[f]
    BY <1>2 DEF Settle, TypeOK
  <2> QED
    BY <2>1 DEF SettledInv
<1> QED
  BY <1>1, <1>2

(* No fan-out has an outcome at first.                                     *)
LEMMA SettledInvInit == Init => SettledInv
  BY DEF Init, SettledInv, Pending

(* Every step of a fan-out keeps to that.                                  *)
LEMMA SettledInvNext == TypeOK /\ SettledInv /\ [Next]_vars => SettledInv'
<1> SUFFICES ASSUME TypeOK, SettledInv, [Next]_vars PROVE SettledInv'
  OBVIOUS
<1> USE FanOutAssumption
<1>1. ASSUME NEW e \in Runs, Submit(e) PROVE SettledInv'
  <2> SUFFICES ASSUME NEW f \in Runs, outcome'[f].by = "branch"
               PROVE  /\ caller'[f] \in {"close", "returned"}
                      /\ \A i \in outcome'[f].branch + 1 .. Width[f] :
                           Branch(f, i)' = "queued" => <<f, i, 0>> \in cancelled'
    BY DEF SettledInv
  <2>1. f # e
    BY <1>1 DEF Submit, SettledInv
  <2>2. caller'[f] = caller[f] /\ \A i \in 1 .. Width[f] : Branch(f, i)' = Branch(f, i)
    BY <1>1, <2>1, TaskShape DEF Submit, TypeOK, Branch
  <2>3. \A i \in outcome[f].branch + 1 .. Width[f] : i \in 1 .. Width[f]
    BY DEF TypeOK, Outcome
  <2> QED
    BY <1>1, <2>2, <2>3 DEF Submit, SettledInv
<1>2. ASSUME NEW e \in Runs, Refuse(e) PROVE SettledInv'
  BY <1>2, SettleKeepsSettled DEF Refuse, RefusedAt, Outcome, TypeOK
<1>3. ASSUME NEW e \in Runs, JoinSend(e) PROVE SettledInv'
  BY <1>3 DEF JoinSend, SettledInv, Branch
<1>4. ASSUME NEW e \in Runs, JoinFailure(e) PROVE SettledInv'
  <2> DEFINE i == joined[e] + 1
  <2>1. i \in Nat /\ FailedAt(i) \in Outcome /\ FailedAt(i).by = "branch" /\ FailedAt(i).branch = i
    BY DEF TypeOK, FailedAt, Outcome
  <2>2. /\ cancelled' = cancelled \union {<<e, j, 0>> : j \in i + 1 .. Width[e]}
        /\ Settle(e, FailedAt(i))
        /\ task' = task
    BY <1>4 DEF JoinFailure
  <2>3. cancelled \subseteq cancelled' /\ \A j \in i + 1 .. Width[e] : <<e, j, 0>> \in cancelled'
    BY <2>2
  <2> HIDE DEF i
  <2> QED
    BY <2>1, <2>2, <2>3, SettleKeepsSettled
<1>5. ASSUME NEW e \in Runs, AllOf(e) PROVE SettledInv'
  <2>1. PICK i \in 1 .. Width[e] : Settle(e, FailedAt(i))
    BY <1>5 DEF AllOf, Failed
  <2>2. \A j \in i + 1 .. Width[e] : Branch(e, j) # "queued"
    BY <1>5 DEF AllOf, AllDone
  <2> QED
    BY <1>5, <2>1, <2>2, SettleKeepsSettled DEF AllOf, FailedAt, Outcome, TypeOK
<1>6. ASSUME NEW e \in Runs, Merge(e) PROVE SettledInv'
  BY <1>6, SettleKeepsSettled DEF Merge, Merged, MergerThrew, Outcome, TypeOK
<1>7. ASSUME NEW e \in Runs, Close(e) PROVE SettledInv'
  BY <1>7 DEF Close, SettledInv, Branch, TypeOK
<1>8. ASSUME NEW t \in Tasks, Work(t) PROVE SettledInv'
  <2>1. UNCHANGED <<caller, cancelled, outcome>>
    BY <1>8 DEF Work, Start, Finish, Fork, Forked, ForkRejected, JoinInner, Progresses
  <2>2. \A f \in Runs : \A i \in outcome[f].branch + 1 .. Width[f] : i \in 1 .. Width[f]
    BY DEF TypeOK, Outcome
  <2> QED
    BY <1>8, <2>1, <2>2, WorkQueuesNoBranch DEF SettledInv
<1>9. CASE UNCHANGED vars
  BY <1>9 DEF vars, SettledInv, Branch
<1> QED
  BY <1>1, <1>2, <1>3, <1>4, <1>5, <1>6, <1>7, <1>8, <1>9 DEF Next, Call

(* No send declared after the one whose failure is reported is started any *)
(* more, however the pool schedules what is in its queue.                  *)
THEOREM NoneStartsAfterFailure == Spec => FailureStopsTheRest
<1> DEFINE Stops == \A e \in Runs : outcome[e].by = "branch" =>
                      \A i \in outcome[e].branch + 1 .. Width[e] :
                        Branch(e, i) = "queued" => task'[<<e, i, 0>>] \in {"queued", "skipped"}
<1>1. TypeOK /\ SettledInv /\ [Next]_vars => [Stops]_vars
  <2> SUFFICES ASSUME TypeOK, SettledInv, Next,
                      NEW e \in Runs, outcome[e].by = "branch",
                      NEW i \in outcome[e].branch + 1 .. Width[e],
                      Branch(e, i) = "queued"
               PROVE  task'[<<e, i, 0>>] \in {"queued", "skipped"}
    OBVIOUS
  <2> USE FanOutAssumption
  <2>1. i \in 1 .. Width[e] /\ <<e, i, 0>> \in cancelled
    BY DEF TypeOK, Outcome, SettledInv
  <2>2. task[<<e, i, 0>>] = "queued" /\ <<e, i, 0>> \in Tasks
    BY <2>1, TaskShape DEF Branch
  <2>3. ASSUME NEW f \in Runs, Call(f) PROVE task'[<<e, i, 0>>] \in {"queued", "skipped"}
    <3>1. CASE Submit(f)
      BY <2>2, <3>1 DEF Submit, TypeOK
    <3>2. CASE ~Submit(f)
      <4>1. task' = task
        BY <2>3, <3>2 DEF Call, Refuse, JoinSend, JoinFailure, AllOf, Merge, Close
      <4> QED
        BY <2>2, <4>1
    <3> QED
      BY <3>1, <3>2
  <2>4. ASSUME NEW t \in Tasks, Work(t) PROVE task'[<<e, i, 0>>] \in {"queued", "skipped"}
    <3> USE <2>1, <2>2 DEF TypeOK
    <3>1. CASE Start(t)
      BY <3>1 DEF Start, Progresses
    <3>2. CASE Finish(t) \/ Forked(t) \/ ForkRejected(t) \/ JoinInner(t)
      BY <3>2 DEF Finish, Forked, ForkRejected, JoinInner, Progresses
    <3>3. CASE Fork(t)
      BY <3>3, TaskShape DEF Fork, ToFork, Progresses
    <3> QED
      BY <2>4, <3>1, <3>2, <3>3 DEF Work
  <2> QED
    BY <2>3, <2>4 DEF Next
<1> QED
  BY <1>1, TypeCorrect, SettledInvInit, SettledInvNext, PTL DEF Spec, FailureStopsTheRest

-----------------------------------------------------------------------------
(* Nobody waits for ever: what CallsReturn needs besides fairness          *)

(* What guards the steps of a call and of a task: the conditions of the    *)
(* actions that it can take.                                               *)
CallGoesOn(e) ==
  \/ caller[e] = "submit"
  \/ /\ caller[e] = "join" /\ Kind[e] = "sends"
     /\ joined[e] < Width[e] => Branch(e, joined[e] + 1) \in {"ok", "failed"}
  \/ caller[e] = "join" /\ Kind[e] = "parallel" /\ AllDone(e)
  \/ caller[e] = "close" /\ Quiet(e)

TaskGoesOn(t) ==
  \/ task[t] = "queued" /\ (t[1] \in Owned \/ Cardinality(BusyThreads) < PoolSize)
  \/ task[t] = "running"
  \/ task[t] = "joining" /\ \A u \in Forks(t) : task[u] \in {"ok", "failed"}

(* While a call has not returned, somebody goes on.                        *)
SomebodyGoesOn ==
  (\E e \in Runs : caller[e] # "returned")
    => (\E e \in Runs : CallGoesOn(e)) \/ (\E t \in Tasks : TaskGoesOn(t))

(* The sends to parallel nodes, which block a thread of the shared pool.   *)
Blocking == {t \in Tasks : t[1] \notin Owned /\ Forks(t) # {}}

EnoughThreads == IsFiniteSet(Blocking) /\ Cardinality(Blocking) < PoolSize

(* Who is cancelled or skipped belongs to a fan-out whose failure was      *)
(* reported; the branches of a parallel node are submitted when a send's   *)
(* thread waits for them.                                                  *)
TaskInv ==
  /\ \A t \in cancelled : t[3] = 0 /\ outcome[t[1]].by = "branch"
  /\ \A t \in Tasks : task[t] = "skipped" => t \in cancelled
  /\ \A t \in Tasks : task[t] = "joining" => \A u \in Forks(t) : task[u] # "new"

(* A caller waits for branches that it has submitted, all of them.         *)
CallerInv ==
  /\ \A e \in Runs : caller[e] = "join" => submitted[e] = Width[e]
  /\ \A e \in Runs : \A i \in 1 .. submitted[e] : Branch(e, i) # "new"

(* A task that moves leaves the others where they are.                     *)
LEMMA MoveKeepsTaskInv ==
  ASSUME TypeOK, TaskInv, NEW t \in Tasks, NEW to \in Progress \ {"new"},
         task' = [task EXCEPT ![t] = to], UNCHANGED <<cancelled, outcome>>,
         to = "skipped" => t \in cancelled,
         to = "joining" => \A u \in Forks(t) : task[u] # "new"
  PROVE  TaskInv'
<1>1. task'[t] = to /\ \A u \in Tasks : u # t => task'[u] = task[u]
  BY DEF TypeOK
<1>2. \A s \in Tasks : task'[s] = "skipped" => s \in cancelled
  BY <1>1 DEF TaskInv
<1>3. ASSUME NEW s \in Tasks, task'[s] = "joining", NEW u \in Forks(s) PROVE task'[u] # "new"
  <2>1. u \in Tasks /\ task[u] # "new"
    BY <1>1, <1>3, ForkShape DEF TaskInv
  <2> QED
    BY <1>1, <2>1
<1> QED
  BY <1>2, <1>3 DEF TaskInv

(* The caller, when it reports an outcome, cancels branches of its own.    *)
LEMMA SettleKeepsTaskInv ==
  ASSUME TypeOK, SettledInv, TaskInv, NEW e \in Runs, NEW how, Settle(e, how), task' = task,
         caller[e] \in {"submit", "join"},
         cancelled \subseteq cancelled',
         \A t \in cancelled' : t \in cancelled \/ (t[1] = e /\ t[3] = 0 /\ how.by = "branch")
  PROVE  TaskInv'
<1>1. outcome[e].by # "branch"
  BY DEF SettledInv
<1>2. outcome'[e] = how /\ \A f \in Runs : f # e => outcome'[f] = outcome[f]
  BY DEF Settle, TypeOK
<1>3. ASSUME NEW t \in cancelled' PROVE t[3] = 0 /\ outcome'[t[1]].by = "branch"
  <2>1. CASE t \in cancelled
    <3>1. t[3] = 0 /\ outcome[t[1]].by = "branch" /\ t[1] \in Runs
      BY <2>1, TaskShape DEF TaskInv, TypeOK
    <3> QED
      BY <1>1, <1>2, <3>1
  <2>2. CASE t \notin cancelled
    BY <1>2, <1>3, <2>2
  <2> QED
    BY <2>1, <2>2
<1> QED
  BY <1>3 DEF TaskInv

(* No step makes a task new again.                                         *)
LEMMA NothingIsNewAgain ==
  ASSUME TypeOK, Next, NEW u \in Tasks, task[u] # "new" PROVE task'[u] # "new"
<1> USE DEF TypeOK
<1>1. ASSUME NEW e \in Runs, Call(e) PROVE task'[u] # "new"
  BY <1>1, TaskShape DEF Call, Submit, Refuse, JoinSend, JoinFailure, AllOf, Merge, Close
<1>2. ASSUME NEW t \in Tasks, Work(t) PROVE task'[u] # "new"
  BY <1>2, WorkMoves, ForkShape DEF Progresses
<1> QED
  BY <1>1, <1>2 DEF Next

(* Every step keeps tasks in their place.                                  *)
LEMMA TaskInvNext == TypeOK /\ SubmitInv /\ SettledInv /\ TaskInv /\ [Next]_vars => TaskInv'
<1> SUFFICES ASSUME TypeOK, SubmitInv, SettledInv, TaskInv, [Next]_vars PROVE TaskInv'
  OBVIOUS
<1> USE FanOutAssumption
<1>1. ASSUME NEW e \in Runs, Submit(e) PROVE TaskInv'
  <2>1. submitted[e] + 1 \in 1 .. Width[e]
    BY <1>1 DEF Submit, TypeOK
  <2>2. <<e, submitted[e] + 1, 0>> \in Tasks
    BY <2>1, TaskShape
  <2>3. task[<<e, submitted[e] + 1, 0>>] = "new"
    BY <2>1 DEF SubmitInv, Branch, TypeOK
  <2>4. PICK t \in Tasks : t = <<e, submitted[e] + 1, 0>>
    BY <2>2
  <2>5. t[3] = 0 /\ task[t] = "new" /\ task' = [task EXCEPT ![t] = "queued"]
        /\ UNCHANGED <<cancelled, outcome>>
    BY <1>1, <2>3, <2>4 DEF Submit
  <2> QED
    BY <2>5, MoveKeepsTaskInv DEF Progress
<1>2. ASSUME NEW e \in Runs, Refuse(e) PROVE TaskInv'
  BY <1>2, SettleKeepsTaskInv DEF Refuse
<1>3. ASSUME NEW e \in Runs, JoinSend(e) PROVE TaskInv'
  BY <1>3 DEF JoinSend, TaskInv
<1>4. ASSUME NEW e \in Runs, JoinFailure(e) PROVE TaskInv'
  <2>1. /\ cancelled' = cancelled \union {<<e, j, 0>> : j \in joined[e] + 2 .. Width[e]}
        /\ Settle(e, FailedAt(joined[e] + 1)) /\ task' = task /\ caller[e] = "join"
    BY <1>4 DEF JoinFailure, TypeOK
  <2>2. \A t \in cancelled' : t \in cancelled \/ (t[1] = e /\ t[3] = 0)
    BY <2>1
  <2> QED
    BY <2>1, <2>2, SettleKeepsTaskInv DEF FailedAt
<1>5. ASSUME NEW e \in Runs, AllOf(e) PROVE TaskInv'
  BY <1>5, SettleKeepsTaskInv DEF AllOf
<1>6. ASSUME NEW e \in Runs, Merge(e) PROVE TaskInv'
  BY <1>6, SettleKeepsTaskInv DEF Merge
<1>7. ASSUME NEW e \in Runs, Close(e) PROVE TaskInv'
  BY <1>7 DEF Close, TaskInv
<1>8. ASSUME NEW t \in Tasks, Work(t) PROVE TaskInv'
  <2> USE DEF Progress, Busy, Idle
  <2>1. CASE Start(t)
    <3>1. task[t] = "queued" /\ UNCHANGED <<cancelled, outcome>>
      BY <2>1 DEF Start, Progresses
    <3>2. CASE t \in cancelled
      <4>1. task' = [task EXCEPT ![t] = "skipped"]
        BY <2>1, <3>2 DEF Start, Progresses
      <4> QED
        BY <3>1, <3>2, <4>1, MoveKeepsTaskInv
    <3>3. CASE t \notin cancelled
      <4>1. task' = [task EXCEPT ![t] = "running"]
        BY <2>1, <3>3 DEF Start, Progresses
      <4> QED
        BY <3>1, <4>1, MoveKeepsTaskInv
    <3> QED
      BY <3>2, <3>3
  <2>2. CASE Finish(t) \/ ForkRejected(t) \/ JoinInner(t)
    <3>1. PICK to \in {"ok", "failed"} : Progresses(t, to)
      BY <2>2 DEF Finish, ForkRejected, JoinInner
    <3> QED
      BY <3>1, MoveKeepsTaskInv DEF Progresses
  <2>3. CASE Forked(t)
    <3>1. Progresses(t, "joining") /\ \A u \in Forks(t) : task[u] # "new"
      BY <2>3 DEF Forked, ToFork
    <3> QED
      BY <3>1, MoveKeepsTaskInv DEF Progresses
  <2>4. CASE Fork(t)
    <3>1. PICK u \in Forks(t) : Progresses(u, "queued")
      BY <2>4 DEF Fork, ToFork
    <3> QED
      BY <3>1, ForkShape, MoveKeepsTaskInv DEF Progresses
  <2> QED
    BY <1>8, <2>1, <2>2, <2>3, <2>4 DEF Work
<1>9. CASE UNCHANGED vars
  BY <1>9 DEF vars, TaskInv
<1> QED
  BY <1>1, <1>2, <1>3, <1>4, <1>5, <1>6, <1>7, <1>8, <1>9 DEF Next, Call

(* And callers wait for what they submitted.                               *)
LEMMA CallerInvNext == TypeOK /\ CallerInv /\ [Next]_vars => CallerInv'
<1> SUFFICES ASSUME TypeOK, CallerInv, [Next]_vars PROVE CallerInv'
  OBVIOUS
<1> USE FanOutAssumption
<1>1. ASSUME NEW e \in Runs, Submit(e) PROVE CallerInv'
  <2>1. /\ submitted'[e] = submitted[e] + 1 /\ task'[<<e, submitted[e] + 1, 0>>] = "queued"
        /\ caller'[e] = "join" => submitted[e] + 1 = Width[e]
        /\ \A f \in Runs : f # e => submitted'[f] = submitted[f] /\ caller'[f] = caller[f]
        /\ submitted[e] + 1 \in 1 .. Width[e]
    BY <1>1, TaskShape DEF Submit, TypeOK
  <2>2. ASSUME NEW f \in Runs, NEW i \in 1 .. submitted[f] PROVE Branch(f, i)' # "new"
    <3>1. i \in 1 .. Width[f] /\ Branch(f, i) # "new"
      BY DEF CallerInv, TypeOK
    <3> QED
      BY <1>1, <3>1, NothingIsNewAgain, TaskShape DEF Branch, Next, Call
  <2>3. ASSUME NEW f \in Runs, NEW i \in 1 .. submitted'[f] PROVE Branch(f, i)' # "new"
    <3>1. CASE f = e /\ i = submitted[e] + 1
      BY <2>1, <3>1 DEF Branch
    <3>2. CASE ~(f = e /\ i = submitted[e] + 1)
      <4>1. i \in 1 .. submitted[f]
        BY <2>1, <3>2 DEF TypeOK
      <4> QED
        BY <2>2, <4>1
    <3> QED
      BY <3>1, <3>2
  <2>4. \A f \in Runs : caller'[f] = "join" => submitted'[f] = Width[f]
    BY <2>1 DEF CallerInv
  <2> QED
    BY <2>3, <2>4 DEF CallerInv
<1>2. ASSUME NEW e \in Runs, Call(e), ~Submit(e) PROVE CallerInv'
  <2>1. UNCHANGED <<submitted, task>> /\ \A f \in Runs : caller'[f] = "join" => caller[f] = "join"
    BY <1>2 DEF Call, Refuse, JoinSend, JoinFailure, AllOf, Merge, Close, Settle, TypeOK
  <2> QED
    BY <2>1 DEF CallerInv, Branch
<1>3. ASSUME NEW t \in Tasks, Work(t) PROVE CallerInv'
  <2>1. UNCHANGED <<caller, submitted>>
    BY <1>3 DEF Work, Start, Finish, Fork, Forked, ForkRejected, JoinInner, Progresses
  <2>2. ASSUME NEW f \in Runs, NEW i \in 1 .. submitted[f] PROVE Branch(f, i)' # "new"
    <3>1. i \in 1 .. Width[f] /\ Branch(f, i) # "new"
      BY DEF CallerInv, TypeOK
    <3> QED
      BY <1>3, <3>1, NothingIsNewAgain, TaskShape DEF Branch, Next
  <2> QED
    BY <2>1, <2>2 DEF CallerInv
<1>4. CASE UNCHANGED vars
  BY <1>4 DEF vars, CallerInv, Branch
<1> QED
  BY <1>1, <1>2, <1>3, <1>4 DEF Next

(* Nothing has been submitted at first.                                    *)
LEMMA WaitInit == Init => TaskInv /\ CallerInv
<1> SUFFICES ASSUME Init PROVE TaskInv /\ CallerInv
  OBVIOUS
<1>1. TaskInv
  BY ForkShape DEF Init, TaskInv
<1>2. CallerInv
  BY DEF Init, CallerInv
<1> QED
  BY <1>1, <1>2

(* If no task goes on, none runs and none is queued, since each that holds *)
(* a thread of the pool is a send that waits; so none waits either.        *)
LEMMA StuckMeansIdle ==
  ASSUME EnoughThreads, TypeOK, TaskInv, SettledInv, \A t \in Tasks : ~TaskGoesOn(t)
  PROVE  \A t \in Tasks : task[t] \in Idle
<1>1. BusyThreads \subseteq Blocking
  <2> SUFFICES ASSUME NEW t \in BusyThreads PROVE t \in Blocking
    OBVIOUS
  <2>1. t \in Tasks /\ t[1] \notin Owned /\ task[t] = "joining"
    BY DEF BusyThreads, Busy, TaskGoesOn
  <2>2. ASSUME Forks(t) = {} PROVE FALSE
    BY <2>1, <2>2 DEF TaskGoesOn
  <2> QED
    BY <2>1, <2>2 DEF Blocking
<1>2. Cardinality(BusyThreads) < PoolSize
  <2>1. /\ IsFiniteSet(BusyThreads) /\ Cardinality(BusyThreads) <= Cardinality(Blocking)
        /\ IsFiniteSet(Blocking)
    BY <1>1, FS_Subset DEF EnoughThreads
  <2>2. Cardinality(BusyThreads) \in Nat /\ Cardinality(Blocking) \in Nat
    BY <2>1, FS_CardinalityType
  <2> QED
    BY <2>1, <2>2, FanOutAssumption DEF EnoughThreads
<1>3. \A t \in Tasks : task[t] \in Idle \union {"joining"}
  BY <1>2 DEF TaskGoesOn, TypeOK, Progress, Busy
<1>4. ASSUME NEW t \in Tasks PROVE task[t] # "joining"
  <2> SUFFICES ASSUME task[t] = "joining" PROVE FALSE
    OBVIOUS
  <2>1. PICK u \in Forks(t) : task[u] \notin {"ok", "failed"}
    BY DEF TaskGoesOn
  <2>2. u \in Tasks /\ u[3] # 0 /\ Forks(u) = {} /\ task[u] # "new"
    BY ForkShape DEF TaskInv
  <2>3. task[u] # "skipped"
    BY <2>2 DEF TaskInv
  <2>4. task[u] = "joining"
    BY <1>3, <2>1, <2>2, <2>3 DEF Idle
  <2> QED
    BY <2>2, <2>4 DEF TaskGoesOn
<1> QED
  BY <1>3, <1>4

(* When the shared pool has a thread more than there are sends to parallel *)
(* nodes, whoever waits waits for somebody who can go on: no scheduling of *)
(* submits, forks and joins leads into a deadlock.                         *)
THEOREM NobodyWaitsForNothing == ASSUME EnoughThreads PROVE Spec => []SomebodyGoesOn
<1>1. TypeOK /\ TaskInv /\ SettledInv /\ CallerInv => SomebodyGoesOn
  <2> SUFFICES ASSUME TypeOK, TaskInv, SettledInv, CallerInv,
                      \A t \in Tasks : ~TaskGoesOn(t),
                      NEW e \in Runs, caller[e] # "returned"
               PROVE  CallGoesOn(e)
    BY DEF SomebodyGoesOn
  <2>1. \A t \in Tasks : task[t] \in Idle
    BY StuckMeansIdle
  <2>2. CASE caller[e] = "submit"
    BY <2>2 DEF CallGoesOn
  <2>3. CASE caller[e] = "close"
    BY <2>1, <2>3, TasksAreDisjoint DEF CallGoesOn, Quiet
  <2>4. CASE caller[e] = "join"
    <3>1. outcome[e].by # "branch" /\ submitted[e] = Width[e]
      BY <2>4 DEF SettledInv, CallerInv
    <3>2. ASSUME NEW i \in 1 .. Width[e] PROVE Branch(e, i) \in {"ok", "failed"}
      <4>1. PICK t \in Tasks : t = <<e, i, 0>>
        BY TaskShape
      <4>2. task[t] # "new"
        BY <3>1, <4>1 DEF CallerInv, Branch
      <4>3. task[t] # "skipped"
        BY <3>1, <4>1 DEF TaskInv
      <4> QED
        BY <2>1, <4>1, <4>2, <4>3 DEF Branch, Idle
    <3>3. joined[e] < Width[e] => joined[e] + 1 \in 1 .. Width[e]
      BY FanOutAssumption DEF TypeOK
    <3>4. Kind[e] \in {"parallel", "sends"}
      BY FanOutAssumption
    <3> QED
      BY <2>4, <3>2, <3>3, <3>4 DEF CallGoesOn, AllDone
  <2> QED
    BY <2>2, <2>3, <2>4 DEF TypeOK
<1> QED
  BY <1>1, WaitInit, TaskInvNext, CallerInvNext, SettledInvInit, SettledInvNext,
     FanOutInvariant, TypeCorrect, PTL DEF Spec

(* How far a task and a call are.                                          *)
TaskRank(p) == CASE p = "new" -> 0 [] p = "queued" -> 1 [] p = "running" -> 2
                 [] p = "joining" -> 3 [] OTHER -> 4

CallRank(p) == CASE p = "submit" -> 0 [] p = "join" -> 1 [] p = "close" -> 2 [] OTHER -> 3

(* A step takes what it changes further, and changes something of these.   *)
Advances ==
  /\ \A t \in Tasks : task'[t] # task[t] => TaskRank(task[t]) < TaskRank(task'[t])
  /\ \A e \in Runs :
       /\ caller'[e] # caller[e] => CallRank(caller[e]) < CallRank(caller'[e])
       /\ submitted[e] <= submitted'[e] /\ submitted'[e] <= Width[e]
       /\ joined[e] <= joined'[e] /\ joined'[e] <= Width[e]
  /\ <<task, caller, submitted, joined>>' # <<task, caller, submitted, joined>>

(* A step of the calling thread.                                           *)
LEMMA CallAdvances ==
  ASSUME TypeOK, SubmitInv, NEW e \in Runs, Call(e)
  PROVE  Advances
<1> USE FanOutAssumption DEF TypeOK
<1>1. CASE Submit(e)
  <2>1. /\ submitted'[e] = submitted[e] + 1 /\ submitted[e] + 1 \in 1 .. Width[e]
        /\ \A f \in Runs : f # e => submitted'[f] = submitted[f] /\ caller'[f] = caller[f]
        /\ joined' = joined
    BY <1>1 DEF Submit
  <2>2. caller[e] = "submit" /\ caller'[e] \in {"submit", "join"}
    BY <1>1 DEF Submit
  <2>3. ASSUME NEW t \in Tasks, task'[t] # task[t] PROVE TaskRank(task[t]) < TaskRank(task'[t])
    <3>1. t = <<e, submitted[e] + 1, 0>> /\ task'[t] = "queued"
      BY <1>1, <2>3 DEF Submit
    <3>2. task[t] = "new"
      BY <2>1, <3>1 DEF SubmitInv, Branch
    <3> QED
      BY <3>1, <3>2 DEF TaskRank
  <2>4. submitted' # submitted
    BY <2>1
  <2>5. ASSUME NEW f \in Runs
        PROVE  /\ caller'[f] # caller[f] => CallRank(caller[f]) < CallRank(caller'[f])
               /\ submitted[f] <= submitted'[f] /\ submitted'[f] <= Width[f]
               /\ joined[f] <= joined'[f] /\ joined'[f] <= Width[f]
    <3>1. caller'[f] # caller[f] => CallRank(caller[f]) < CallRank(caller'[f])
      BY <2>1, <2>2 DEF CallRank
    <3>2. submitted[f] <= submitted'[f] /\ submitted'[f] <= Width[f]
      <4>1. submitted[f] \in Nat /\ submitted[f] <= Width[f] /\ Width[f] \in Nat
        OBVIOUS
      <4>2. CASE f = e
        BY <2>1, <4>1, <4>2
      <4>3. CASE f # e
        BY <2>1, <4>1, <4>3
      <4> QED
        BY <4>2, <4>3
    <3> QED
      BY <2>1, <3>1, <3>2
  <2> QED
    BY <2>3, <2>4, <2>5 DEF Advances
<1>2. CASE JoinSend(e)
  <2>1. /\ joined'[e] = joined[e] + 1 /\ joined[e] + 1 \in 1 .. Width[e]
        /\ \A f \in Runs : f # e => joined'[f] = joined[f]
        /\ UNCHANGED <<task, caller, submitted>>
    BY <1>2 DEF JoinSend
  <2>2. joined' # joined
    BY <2>1
  <2>3. ASSUME NEW f \in Runs PROVE joined[f] <= joined'[f] /\ joined'[f] <= Width[f]
    <3>1. joined[f] \in Nat /\ joined[f] <= Width[f] /\ Width[f] \in Nat
      OBVIOUS
    <3>2. CASE f = e
      BY <2>1, <3>1, <3>2
    <3>3. CASE f # e
      BY <2>1, <3>1, <3>3
    <3> QED
      BY <3>2, <3>3
  <2> QED
    BY <2>1, <2>2, <2>3 DEF Advances
<1>3. CASE Refuse(e) \/ JoinFailure(e) \/ AllOf(e) \/ Merge(e) \/ Close(e)
  <2>1. /\ UNCHANGED <<task, submitted, joined>>
        /\ caller[e] \in {"submit", "join", "close"}
        /\ \A f \in Runs : f # e => caller'[f] = caller[f]
        /\ \/ caller[e] # "close" /\ caller'[e] \in {"close", "returned"}
           \/ caller'[e] = "returned"
    BY <1>3 DEF Refuse, JoinFailure, AllOf, Merge, Close, Settle
  <2>2. CallRank(caller[e]) < CallRank(caller'[e]) /\ caller'[e] # caller[e]
    BY <2>1 DEF CallRank
  <2>3. caller' # caller
    BY <2>2
  <2> QED
    BY <2>1, <2>2, <2>3 DEF Advances
<1> QED
  BY <1>1, <1>2, <1>3 DEF Call

(* A step of a task.                                                       *)
LEMMA WorkAdvances ==
  ASSUME TypeOK, TaskInv, NEW t \in Tasks, Work(t)
  PROVE  Advances
<1> USE DEF TypeOK
<1>1. UNCHANGED <<caller, submitted, joined>>
  BY DEF Work, Start, Finish, Fork, Forked, ForkRejected, JoinInner, Progresses
<1> DEFINE Moved(u, p) == /\ task' = [task EXCEPT ![u] = p]
                          /\ TaskRank(task[u]) < TaskRank(p)
<1>2. PICK x \in Tasks, to \in Progress : Moved(x, to)
  <2>p. {"queued", "running", "joining", "ok", "failed", "skipped"} \subseteq Progress
    BY DEF Progress, Idle, Busy
  <2>1. CASE Fork(t)
    <3>1. PICK u \in Forks(t) : task[u] = "new" /\ Progresses(u, "queued")
      BY <2>1 DEF Fork, ToFork
    <3>2. Moved(u, "queued") /\ u \in Tasks
      BY <3>1, ForkShape DEF Progresses, TaskRank
    <3> QED
      BY <2>p, <3>2
  <2>2. CASE Start(t)
    <3>1. PICK p \in {"running", "skipped"} : task' = [task EXCEPT ![t] = p]
      BY <2>2 DEF Start, Progresses
    <3>2. Moved(t, p)
      BY <2>2, <3>1 DEF Start, TaskRank
    <3> QED
      BY <2>p, <3>2
  <2>3. CASE Forked(t)
    <3>1. Moved(t, "joining")
      BY <2>3 DEF Forked, Progresses, TaskRank
    <3> QED
      BY <2>p, <3>1
  <2>4. CASE Finish(t) \/ ForkRejected(t) \/ JoinInner(t)
    <3>1. task[t] \in {"running", "joining"}
      BY <2>4 DEF Finish, ForkRejected, JoinInner
    <3>2. PICK p \in {"ok", "failed"} : task' = [task EXCEPT ![t] = p]
      BY <2>4 DEF Finish, ForkRejected, JoinInner, Progresses
    <3>3. Moved(t, p)
      BY <3>1, <3>2 DEF TaskRank
    <3> QED
      BY <2>p, <3>3
  <2> QED
    BY <2>1, <2>2, <2>3, <2>4 DEF Work
<1>3. task'[x] = to /\ \A u \in Tasks : u # x => task'[u] = task[u]
  BY <1>2
<1>4. task' # task
  <2>1. task[x] # to
    BY <1>2 DEF TaskRank
  <2> QED
    BY <1>3, <2>1
<1> QED
  BY <1>1, <1>2, <1>3, <1>4 DEF Advances

(* No task is queued, started or settled twice and no caller goes back, so *)
(* that a fan-out is over after finitely many steps, if only they happen.  *)
THEOREM EveryStepAdvances == Spec => [][Advances]_vars
<1>1. TypeOK /\ SubmitInv /\ TaskInv /\ [Next]_vars => [Advances]_vars
  BY CallAdvances, WorkAdvances DEF Next
<1> QED
  BY <1>1, WaitInit, TaskInvNext, SettledInvInit, SettledInvNext,
     FanOutInvariant, TypeCorrect, PTL DEF Spec
=============================================================================
