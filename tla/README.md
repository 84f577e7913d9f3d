# A TLA+ model of TraceGraph

TraceGraph (`src/`) runs graphs of Java functions: an executor walks from node
to node, writes a checkpoint after each, can be interrupted and resumed, records
a trace of what it did, and calls language models through a stack of client
decorators; its traces can be watched live, and replayed, forked and resumed over
HTTP. This directory holds TLA+ modules for its core, TLC configurations
that check them on small instances, and TLAPS proofs of the main results for
every value of the constants.

`PROJECT.json` is the index: which lines each definition stands for (`map`),
what each run checks, a mutant of the code for each property, the hazards of the
code with the properties that watch them, and the theorems.

    tlc -workers 2 -config MCExec_calls.cfg MCGraphExecutor.tla
    tlapm GraphExecutor_proofs.tla

## 1. Inventory

Paths are below `src/tracegraph-<module>/src/main/java/io/tracegraph/`.

| component | state | operations | talks to |
|---|---|---|---|
| **Executor** (core: `Graph`, `exec/Executor`, `exec/NodeKind`, `RetryPolicy`) | per call: current node, state, path, step counter, first-node flag, attempt; per id: the checkpoint in the store | `run`, `runFrom`, `resume(id)`, `resume(id, state)`, `stream` | checkpoint store, trace recorder, listeners, edge predicates (synchronous callbacks), an `Executor` for fan-outs |
| **Checkpoint stores** (runtime: in memory, JDBC) | one row per id | `save`, `latest`, `delete` | executor |
| **Fan-out** (core: `NodeKind.Parallel`, `Executor.executeSendAll`) | futures of branches or sends, a pool | submit, join, cancel, merge | pool shared with other calls, or made per call |
| **Graph validation** (core: `Graph.Builder.validate`, `GraphComplexity`) | none | reachability, dead ends | — |
| **Streaming and listeners** (core: `Graph.stream`, `StreamingNodeListener`; boot: `TraceStreamController`; observability: termination and budget listeners) | a publisher with a buffer per stream, its client's demand; counters per listener | `onEnter/onExit/onError/onRetry/onState`, `submit`, `close`, `closeExceptionally` | called from the loop; delivers on a pool |
| **Live trace feed** (observability: `live/`; boot: `TraceLiveController`) | one publisher per viewer, a shared list of them | `subscribe`, `publish`, `close` | called by the recorder's callers, delivers on *their* thread |
| **Trace recording** (observability: `RecordingTraceRecorder`, `ExecutionTrace`) | active builder per id; staged lineage; stored trace per id | `recordStart`, `recordExit/Error`, flush, `recordComplete` | executor calls it, trace store below |
| **REST resume, replay and fork** (boot: `TraceReplayController`, `TraceController`; observability: `ReplayRunner`) | a semaphore; the stores | resume, replay, fork, delete, each on a request thread | executor, recorder, both stores |
| **Trace viewer** (ui: `app.js`) | the address, one element, requests under way, a toast and its timer | the router, four asynchronous renderers, replay | the REST endpoints |
| **Trace stores, diff, export** (observability) | files, rows, caches | save, find, diff | trace recorder |
| **LLM client decorators** (connectors: fallback over retrying over circuit breaker over rate limiter; caches) | breaker state; token bucket, sleepers; attempt; cache entries | `complete` | each other and the provider |
| **Chat session and memory** (connectors, memory: `TtlMemoryStore`, windows, file stores) | a history under one key; entries with a time to live | read-extend-write, check-then-evict | agents' nodes, the store |
| **Agent bus** (a2a: `InMemoryAgentBus`, `Agent`) | subscriptions per agent id, a latch per waiting call | `send`, `sendAndAwait`, `subscribe` | agents' graphs, one virtual thread per delivery |
| Agents, providers, tools, prompts, guardrails, retrieval, evaluation, CLI, Spring wiring, diagrams | none that outlives a call | translation, text, arithmetic, graphs built for the executor | — |

What is hard in them, and what makes them correct:

* **Executor.** Everything is sequential per call but the process can die between
  any two steps, any callback can throw, and the next call starts from a checkpoint
  that records *which node ran last* and not *which node is due*. Correct means: the
  walk goes on legally after any of that; a crash loses one node; gates are asked;
  COMPLETED is the end; the trace is closed; calls end.
* **Fan-out.** Branches run and fail in any order on a pool other calls use too.
  Correct means: the reported failure does not depend on scheduling, nothing is left
  running when a call's own executor is closed, nobody waits for ever.
* **Circuit breaker.** Calls return long after the state they were admitted in.
  Correct means: a half-open breaker always has a probe that will settle it, every
  rejection has a cause, failures are counted right.
* **Trace recording.** Calls for one id follow each other (or overlap), flush in the
  middle and die. Correct means: the stored trace is what was executed, only grows,
  and a crash costs fewer steps than the flush interval.
* **The LLM stack.** Four decorators, each simple, retry, wait and give up on each other's
  exceptions while callers compete for tokens. Correct means: no more calls than the bucket
  pays for, nobody sleeps past its token, calls go on getting through.
* **Streams and the feed.** An execution meets clients at their own pace: a stream makes it
  wait, the feed must not. Correct means: a client that is told the end was sent
  everything, a viewer sees each execution in order, nobody keeps a stream but those it is for, streams end.
* **REST.** Requests overlap on the same trace and checkpoint, and what was resumed can be
  forked and replayed. Correct means: permits come back, lineage is true, a node is entered with
  the state made before it, a trace is one walk.
* **Agents that talk.** Replies to one caller go to all handlers of its id, race timeouts, and the
  runs they start share a history. Correct means: a call gets its own reply and leaves nothing
  behind, and what was answered is remembered.
* **Trace viewer.** Answers come back in another order than they were asked for. Correct
  means: the page is the address's unless that happened, and never stays loading.
* **Caches, file stores, windows, budget listeners.** Temporary files under two
  writers, clear against eviction, counters shared by runs. Listed under `hazards`; no module.

## 2. Modules

| module | models | proofs in |
|---|---|---|
| `GraphEdges` | edges, `Executor.pickNext`, `NodeResult`, what a legal walk is | (used by the two below) |
| `DurableWalk` | abstract specification: what checkpointing promises | — |
| `GraphExecutor` | one execution id: all entry points, the loop, retries, gates, routing, checkpoints, crash, trace bookends | `GraphExecutor_proofs` |
| `FanOut` | inside `Parallel` and `executeSendAll`, several calls on a pool | `FanOut_proofs` |
| `CircuitBreaker` | `CircuitBreakerLlmClient` with concurrent callers | `LlmStack_proofs` |
| `TokenBucket` | abstract specification: a bucket that fills continuously | — |
| `LlmStack` | `FallbackLlmClient` over `RetryingLlmClient` over the breaker (EXTENDS `CircuitBreaker`) over `RateLimitedLlmClient` | `LlmStack_proofs` |
| `TraceRecording` | `RecordingTraceRecorder` and its trace store for one id | `TraceRecording_proofs` |
| `TraceRest` | resume, replay, fork and delete over HTTP, with recorder and stores | `TraceRest_proofs` |
| `Streaming` | `Graph.stream` and `LiveTraceFeed` with their clients | `Streaming_proofs` |
| `AgentBus` | `InMemoryAgentBus` and `Agent` | `AgentChat_proofs` |
| `ChatMemory` | `ChatSession` over `TtlMemoryStore` | `AgentChat_proofs` |
| `AgentChat` | the two composed: an agent that remembers | `AgentChat_proofs` |
| `TraceUi` | `app.js` | `TraceUi_proofs` |
| `MCGraphExecutor`, `MCFanOut`, `MCTraceRest`, `MCAgentChat` | graphs, policies, fan-outs, symmetry for TLC | — |

Operators whose comment begins with *Wrong:* are mutants: forms of the operator
after them that the code could have had by mistake. No specification uses them;
`PROJECT.json` says which property each must break, and on which run.

### GraphExecutor

`pc` is where the calling thread is in `Executor.executeLoop`:

| `pc` | in the code | actions from there |
|---|---|---|
| `idle`, `stopped` | no call for the id | `Run`, `Resume`, `ResumeEdited`, `ResumeThrows` |
| `top` | head of the loop (line 277) | `Halt`, `StopBefore`, `Enter` |
| `invoke`, `backoff` | `invokeWithRetry` and its siblings | `AttemptSucceeds`, `AttemptRetried`, `AttemptFails`, `BackoffEnds`, `BackoffInterrupted` |
| `exited` | the node returned, nothing is saved | `Save` |
| `saved` | the checkpoint is written | `Terminate`, `StopAfter`, `Complete`, `Leave` |
| `fanOut` | `executeSendAll` | `FanOut`, `FanOutFails` |
| `route` | GoTo or `pickNext` | `Route`, `UnknownTarget`, `NoEdge` |

`CallbackThrows` is an exception of a listener, the recorder, the store or a
predicate, at each place that calls one; `Crash` may come at any step of a call.

A graph's state is user data; all the executor learns of it is what the edge
predicates answer, so a state is a member of `Vals`. To say what a state *is the
result of*, it carries its `walk`: the exits, merges and edits whose effects it
contains. The walk goes wherever the state goes, into the checkpoint and out of it;
no guard of the executor reads it (two properties and the operator's discipline
do). `origin` is history too, and `faults` bounds the environment.

`ResumeOn`, `Edits` and `Careful` describe the operator. `Careful` is a *discipline,
not something the code enforces*: a careful operator resumes only where the
checkpoint says everything there is to know (`NothingLost`), that is, where the last
node left the choice to the edges and its fan-out (if any) was merged, where a gate in
front of the next node is the one that is pending, and where an execution stopped
before its first node began at the entry. What a careless one meets is the subject of
the run `gate` and of section 6.

### FanOut

A task is a branch of a parallel node, a send, or a branch of the parallel node a
send goes to. A task holds a pool thread while it runs, and while it joins the
branches it forked. Several executions share one pool (`PoolSize`), those in
`Owned` have the virtual-thread executor `withExecutor` makes and closes.
`Together` says which executions happen at once. Callers submit, join in the code's order
and merge; a send to a parallel node submits its branches one by one (`Fork`) and then blocks (`Forked`), and
an executor that is closed in between rejects the rest (`ForkRejected`); `Refuse` is a send to an undeclared node, met after earlier sends are
under way.

### CircuitBreaker

`admit`, `onSuccess` and `onFailure` each hold the lock and are one action each; the
call to the delegate lies between them. `cooling` is the time left of the
cooldown. A call may end in an `Error`, of which the breaker hears nothing
(`complete` catches `RuntimeException`): `ErrorsOn` says of which kinds.

### TraceRecording

A step is a number, the order in which nodes were executed over all calls for
the id. `recordStart` is two actions because the read of the store and the
replacement of the active builder are not atomic. With `OneAtATime` the calls for the
id take turns. HALTED and TERMINATED are COMPLETED here: the recorder treats them alike.

### LlmStack

`stage[c]` is where the request of caller `c` is: `asking` the fallback client, `limited`
(past the breaker, at the limiter), `waiting` in `awaitNanos`, `calling` the provider, in `backoff`, at
the `backup`. The breaker's actions are `CircuitBreaker`'s, conjoined with what the
decorators around it do with the outcome: an exception of the limiter or of the provider is
one the breaker counts, an open circuit is an exception the retrying client does not retry and the
fallback does not fail over from. Time is in ticks, the bucket's content in units: a token is `TokenCost`
units and a tick earns `Earned`, so `refillPerNano` is their ratio. `tokens` and `since` are `tokens` and what
`now - lastRefillNanos` earned; `refill` adds what is due when `acquire` is called or woken, as the code does. The
wait, `wake`, is the least number of ticks that earns what is missing (`WaitIs`, the code's `Math.ceil`); where
`TokenCost` is no multiple of `Earned` it is longer than needed by a part of a tick. A waiter may be woken early
or late, or interrupted.

### TraceRest

A request goes through the stages the controller has: it loads the trace (`loaded`), runs
(`running`, one node a step, telling the recorder), ends the run and answers. The graph is a
line of nodes with gates, and a state the number of nodes whose work it contains, so that
"the right state for a node" can be said; `Null` is Java's null, the state of a step that
failed. `permits` is the replay semaphore, `lineage` the recorder's `pendingLineage`, and
`madeFrom` remembers what an execution was really made from. `Habits` says what clients
do: they may replay steps that failed, resume forks, replay from
the beginning what was resumed, resume what is being resumed.

### Streaming

An execution's thread tells each of its events to the stream (`Submit` waits for room in the
buffer) and to the feed (`Offer` to each viewer in turn). The pool delivers a stream's events to a
client that may leave and that asks for `Credit` more at a time. A viewer's events are delivered by
the thread that offers them, inside `offer` (the publisher's executor is `Runnable::run`), while it holds the
publisher's lock (`deliverer`). Another execution with an event for that viewer waits at `offer` for the lock, and
`CloseViewer` waits for it in `close`; so at most the event that is being delivered is in the viewer's buffer, and the
feed's handler for drops is never called. The publishers are the JDK's and modelled by their contract. `Fails`, `Throws` and
`RetryNode` are choices here, for the executions in `Failing` and `Retried`.

### AgentBus, ChatMemory, AgentChat

A call of `sendAndAwait` subscribes its handler, sends, waits, and removes the handler; the worker's
graph runs on the virtual thread of the message, and its reply is delivered on one more thread to
*every* handler the caller's id has by then (`threads`). `ChatMemory` splits `append` at
the calls to the store, and `TtlMemoryStore.get` between the check and the eviction. `AgentChat` makes
the node of the worker's graph append its message to the agent's session; its `NodeFailed` is a run
that fails or a handler that throws, after which nothing is answered.

### TraceUi

An action is one JavaScript task: an event handler, or what an `async` function does from one
`await` to the next. `calls` holds the functions that wait, with what they will write; `settled` and
`overtaken` remember whether an earlier renderer wrote after a later one.

## 3. Runs

| run | checks | what it shows |
|---|---|---|
| `exec_calls` | walk, durability, gates, completion, trace, refinement of `DurableWalk`, the end of calls | a careful operator may resume after any outcome, with edits, through two faults; calls that go round a cycle, or fail and are retried, end |
| `exec_live` | `EventuallyCompletes` | an execution that is recovered completes |
| `fan` | scheduling of fan-outs | first declared failure wins, nobody waits for ever, nothing is left behind |
| `llm` | breaker, limiter, retries and fallback together; refinement of `TokenBucket` | two callers in every order, with late answers, early and late wake-ups, interrupts |
| `recording` | the recorder | calls that take turns, flush, fail, throw and die |
| `rest` | permits, lineage, seeds, walks | two request threads over three executions |
| `stream` | streams and the feed | a streamed execution and another one, a viewer who comes and goes, every buffer of size one, close |
| `agents` | replies, timeouts, memory | two calls to an agent with a session that expires and is cleared |
| `ui` | views, loading, toast | three moves, four requests, answers in any order |
| `gate`, `jdbc`, `feed` | one property each | violated: section 6 |

The configuration of a run is `MC<name>.cfg` (`MCExec_calls`, `MCExec_live`, `MCFan`, `MCLlm`, `MCTrace`,
`MCRest`, `MCStream`, `MCAgents`, `MCUi`, `MCFind_*`); `PROJECT.json` has the pairs.

**Bounds, and why they are enough.**

* *Graphs.* `LoopEdges` has a cycle that a call can go round for as long as the step guard lets it, and a loop of one node, two edges of one node that accept the same value
  (declaration order decides), a value no edge accepts, a routing node that may ask
  for edges, a declared node, an undeclared one or a fan-out, a gate before the
  entry and one before the terminal. What the executor does at a step depends on the node it
  is at, the one due next and the one before, so three nodes show all of it; the
  theorems of section 5 do not depend on the graph.
* `MaxFaults = 2` (crashes, failures, exceptions and terminations): a fault, the
  recovery from it, and a fault in that recovery. Attempts that fail and are retried are not counted: it is the
  policy, and not this bound, that ends them.
* `MaxWalk` bounds the walk that is resumed once more: four steps, i.e. each
  node and a second round of the cycle; `exec_live` uses 9, more than its executions need.
* `MaxSteps` (2 in `exec_calls`, 1 in `exec_live`) makes the guard bite and be
  resumed from in the same run.
* *Fan-outs.* Three sends have a first, a middle and a last; two threads are one more
  than the blocking sends, the smallest pool on which the call returns (section 6 has the
  smaller one).
* *LLM stack.* Threshold 2 (below, at, above), cooldown 2 (elapsed, or running), two attempts
  (one retry), a bucket of two tokens of three units, of which a tick earns two: an empty bucket takes a tick and a half
  to earn a token, so the wait is rounded up and half a tick is left over. Two callers are a late plain call and
  a probe; a third takes the run past five minutes, and the proofs of section 5 cover any
  number.
* *Recorder.* Flush every 3 steps, up to 8 steps: two flushes in different calls.
* *REST.* Three executions are a run, a fork of it and a fork or replay of the fork; a gate in the
  middle of three nodes; one permit, so that two replays compete; one resume.
* *Streams.* One node and its outcome are enough to fill a buffer of one twice; one execution fails
  and another retries, so that the viewer sees both interleaved, and either waits while the other delivers. A second
  viewer takes the run past its time; two viewers and the circles of locks they might make possible are in the
  proof of `StreamsGoOn`, which is for any number.
* *Agents.* Two calls: the handler of each sees the other's reply, and two runs append at once. Three
  calls exceed the time and add no new pair. The time to live is one tick: entries expire while an append
  is under way, or do not.
* *Viewer.* Three moves and four requests: two renderers overtake each other while a third waits.

`CHECK_DEADLOCK FALSE` stands where the system may stop: all calls returned,
the operator does not resume any more, nobody clicks. The LLM stack may not: `llm` checks deadlock.

**Fairness.** `GraphExecutor`: the thread of a call keeps running (`WF(Proceed)`; node
functions return, backoffs end), and for `EventuallyCompletes` an operator who
recovers does it again (`WF(Recover)`). Nothing forces a first call, a fault or a particular
result of a node. `FanOut`: each caller goes on, and as long as some task can
take a step some task does: no order among tasks is assumed, not even a queue's. `LlmStack`: time passes, each thread
goes on, a waiter whose time is up asks for its token again, the provider answers (the HTTP clients
have timeouts) and callers keep calling; no fairness says *how* a call returns, and nobody has to
interrupt. `Streaming`: executions and the publishers' pool are scheduled, and a thread that
waits for a viewer's lock gets it if the lock is free from some time on (weak fairness: the others publish finitely many events,
so no order among those who wait is needed); that a viewer reads is assumed in
`FairSpec` only, and `feed` shows what happens in `SlowViewerSpec`, without it. `AgentChat`: a
caller's thread goes on and its wait has a timeout; nothing is assumed of the worker. `TraceUi`: an
answer, or a failure, comes for some request as long as one waits. `TraceRecording` and
`TraceRest` are checked for safety only. Strong fairness is not used.

## 4. Properties and what they are for

* `ResumeContinuesForward`: the state in memory and in the store is at all times the
  outcome of a legal walk. This relates every resume to every earlier call.
* `DurableSpec`: refinement of `DurableWalk` with `walk <- checkpoint.state.walk`: what
  is durable is never rewritten and grows by one execution of a node at a time.
* `CrashLosesOneNode`: the store lacks one exit at most, and only between exit and `Save`.
* `CompletedMeansFinished`: COMPLETED means a terminal or no edge that accepts the state.
* `GateHolds`: a gated node is entered only while an interrupt is pending in the latest checkpoint, and only while it is
  its own, unless the operator has put another state in place (section 6 says what then happens).
  `ResumeRunsGatedNode`: a resume of a pending interrupt runs the node it is for.
* `CallsAreBounded`: each step of a call lowers what the step guard, the stage of the node and its retry policy
  leave, lexicographically; `CallsReturn`: every call ends. Both on a graph with a cycle.
* `TraceClosed`, `EventuallyCompletes`.
* `FirstDeclaredFailureWins`, `NoBranchLeftBehind`, `FailureStopsTheRest`, `CallsReturn`
  (`FanOut`).
* `ProbeIsOut`, `RejectionHasCause`, `FailuresCounted`, `CircuitSettles`: a half-open breaker has a
  probe on its way, a rejection a cause, failures are counted once, and no circuit stays open or half-open
  while callers call (`CircuitBreaker`, checked inside the stack).
* `RateKept`: the limiter, which keeps only the last refill, implements a bucket that fills all the
  time (`TokenBucket`); `NoOversleep`: a waiter never sleeps past the first tick at which a token is there for
  it (nobody would wake it), however the wait was rounded; `TokensFlow`: calls go on getting through (`LlmStack`).
* `TraceIsFaithful`, `CrashLosesFew`, `TraceNeverShrinks`, `NoStaleBuilder`, `TraceIsWhole`
  (`TraceRecording`).
* `PermitsConserved`, `LineageKept`, `SeedsFit` (a node is entered with the state the nodes before
  it made, however the execution came about), `OneWalk` (`TraceRest`).
* `StreamIsWhole`, `LiveInOrder` (each execution's events in order, without a gap, and none behind the one that
  is being delivered), `StreamsEnd`; `StreamGoesOn`: no stream with a client comes to a standstill, but that one
  viewer keeps it, at the thread that delivers to it or at its lock, and nothing besides (`Streaming`).
* `RepliesReach`: a reply sent while its call waits is on its way to it; `AnsweredIsRemembered`: a
  message that was answered is in the history, or was cleared or expired; `CallsEnd`: every call ends
  and leaves no handler behind (`AgentBus`, `AgentChat`).
* `StaleOnlyIfOvertaken`, `LoadingEnds`, `ToastStaysItsTime` (`TraceUi`).

Every module of a component has a type invariant, each proved for all constants (section 5) and not run once
more, like `StepGuard` and `AttemptsWithinPolicy`.

## 5. What is proved

Each theorem holds for every value of the constants that satisfies the modules'
assumptions (`GraphAssumption`, `ExecutorAssumption`, `FanOutAssumption`,
`BreakerAssumption`, `StackAssumption`, `RecordingAssumption`, `RestAssumption`,
`StreamingAssumption`, `MemoryAssumption`, `UiAssumption`),
which TLC evaluates on every run, and for walks, faults and calls without a bound.

| theorem | says | along |
|---|---|---|
| `GraphExecutor_proofs!TypeCorrect` | `TypeOK` | `PickNextType`: a first match exists because the indices are well-founded |
| `GraphExecutor_proofs!LoopBounds` | `StepGuard`, `AttemptsWithinPolicy` | `LoopInv`: the step counter *is* the length of the path; without it nothing links the guard to the nodes run |
| `GraphExecutor_proofs!CallsComeToAnEnd` | `CallsAreBounded`: a step of a call ends it, or lowers the lexicographic triple of nodes, stages and attempts that are left | `LoopInv`: the guard and the retry policies keep the three from going below zero |
| `GraphExecutor_proofs!TracesClose` | `TraceClosed` when no predicate throws | inductive with that hypothesis; without it the property fails (section 6) |
| `GraphExecutor_proofs!ResumeIsSound` | `ResumeContinuesForward` under `Careful \/ EdgesDecide` | `SoundInv`, below |
| `GraphExecutor_proofs!CheckpointsImplementDurableWalk` | refinement of `DurableWalk`, same hypothesis | `SoundInv`, and a step-by-step map: `Save` and `StopBefore` record, all else stutters |
| `GraphExecutor_proofs!CrashLosesOne` | `CrashLosesOneNode`, under `Careful \/ EdgesDecide` | from `SoundInv` and what it says of memory and store |
| `GraphExecutor_proofs!GatesAreAsked` | `GateHolds`, under `Careful` | `GateInv`: an open gate belongs to the first node of a resume from a pending checkpoint; `GatedInv`: the node that checkpoint names is the one due after its state; `OpenedInv`: with that state, the thread is at that node |
| `GraphExecutor_proofs!ResumesRunTheGatedNode` | `ResumeRunsGatedNode`, under `Careful \/ EdgesDecide`, with a store that keeps the interrupt | `StoppedInv` |
| `GraphExecutor_proofs!CompletionIsFinal` | `CompletedMeansFinished`, same two, or under `EdgesDecide` alone | `PendingInv`: a pending checkpoint names a gated node |
| `FanOut_proofs!TypeCorrect`, `FirstFailureWins`, `NothingIsLeftBehind` | the fan-out's invariants | `SubmitInv` (what was submitted is not new), `JoinInv` (what was joined ended well), `Explained` |
| `FanOut_proofs!NoneStartsAfterFailure` | `FailureStopsTheRest` | `SettledInv`: once a send's failure is reported, every later one that still is in the queue is cancelled |
| `FanOut_proofs!NobodyWaitsForNothing` | `SomebodyGoesOn`: as long as a call is out, a caller or a task can take a step; under `EnoughThreads` | `TaskInv`, `CallerInv`, below |
| `FanOut_proofs!EveryStepAdvances` | `Advances`: each step takes one task or caller forward, and none back | the invariants above |
| `LlmStack_proofs!TypeCorrect`, `RejectionsAreExplained`, `FailuresAreCounted`, `ProbesAreOut` | the breaker's invariants | `BreakerInv`: failures plus plain calls still out are bounded, by counting callers |
| `LlmStack_proofs!StackTypeCorrect`, `StackHasBreaker` | the stack's type; every step of the stack is a step or a stutter of the breaker | `StackTypeOK` links the stage of a request to the breaker's call |
| `LlmStack_proofs!StackBreakerSound` | the breaker's invariants inside the stack | the two above and `BreakerInv`; for finitely many callers, and probes that end without an `Error` |
| `LlmStack_proofs!LimiterKeepsRate`, `QuotaHolds` | refinement of `TokenBucket`; in any window of time the calls let out cost no more units than a full bucket holds and the window's ticks earn | what the code's bucket would hold if refilled now is what the abstract one holds |
| `LlmStack_proofs!NobodyOversleeps` | `NoOversleep` | the wait is the deficit rounded up, so one tick less earns less than a token (`OneTickLess`) |
| `TraceRecording_proofs!TypeCorrect`, `TracesAreFaithful` | `TypeOK`, `TraceIsFaithful`, for overlapping calls too | `OrderInv`: what is in a builder or stored is increasing and was executed |
| `TraceRecording_proofs!BuildersGo` | `NoStaleBuilder`, when calls take turns | `TurnInv` |
| `TraceRecording_proofs!TracesAreWhole`, `TracesGrow` | `TraceIsWhole`, `TraceNeverShrinks`, when calls take turns | `WholeInv`: the builder of the running call begins with the stored trace |
| `TraceRecording_proofs!CrashesCostFew` | `CrashLosesFew`, when calls take turns | `LossInv`: what is not flushed is shorter than the interval |
| `TraceRest_proofs!TypeCorrect`, `PermitsComeBack` | the REST endpoints' type, `PermitsConserved` | `RestInv` |
| `TraceRest_proofs!LineageIsKept` | `LineageKept`, for clients that do not resume forks | `LineageInv` |
| `TraceRest_proofs!SeedsFitAlways`, `TracesAreWalks` | `SeedsFit`, `OneWalk`, for clients with none of the habits `replayMiddle`, `resumeForks`, `resumeTwice` | `FitInv`: one thread at most works on an execution, and trace, checkpoint and thread agree on how far it is |
| `Streaming_proofs!TypeCorrect` | `TypeOK` | `TypeInv`, with `WaitInv`: who waits for a subscriber has told nothing |
| `Streaming_proofs!StreamsAreWhole` | `StreamIsWhole` | `WholeInv`: the buffer holds what was submitted and not sent, in order |
| `Streaming_proofs!ViewersGetEventsInOrder` | `LiveInOrder` | `LiveInv`, below |
| `Streaming_proofs!StreamsGoOn` | `StreamGoesOn`: a stream with a client can go on, at the client or at its thread, or it waits for one viewer and nothing else | `EndInv`: the credit of a client is whole, what ended is closed; `OneLock`: a thread holds the lock of one viewer at most |
| `AgentChat_proofs!TypeCorrect` | `TypeOK` | the types of bus and memory |
| `AgentChat_proofs!RepliesReachTheirCalls` | `RepliesReach` | `BusInv`: where worker, handlers and deliveries of a call are |
| `AgentChat_proofs!AnswersAreRemembered` | `AnsweredIsRemembered`, under `OneSession` | `LockInv` (who is between two calls of the store holds the lock), `MemoryInv` (the history an append puts back has all that is there and was not forgotten) |
| `AgentChat_proofs!NoHandlerIsLeft` | `HandlersOfCalls`: the handlers are those of the calls under way | inductive as it stands |
| `TraceUi_proofs!TypeCorrect`, `ToastIsHiddenByItsTimer` | `TypeOK`, `ToastStaysItsTime` | `UiInv`: calls are numbered in the order of their start, the one timer that runs is that of the message shown |
| `TraceUi_proofs!PageIsAsAsked` | `StaleOnlyIfOvertaken` | `LatestInv`: once events are handled, what the address asks for is shown or on its way, and nothing later is |
| `TraceUi_proofs!LoadingHasACall` | `LoadingIsPending`: what is loading has a call that will write it | with `UiInv` |

`ResumeIsSound` has the longest argument. The property says of two walks that they are
legal; that is not inductive, because a step is legal only if the thread is where its walk
says it is. `ResumeInv` adds: `PositionInv` (before a node, it is the one due
after the walk; after it, the walk ends at it), `PathInv` (the path of the call ends where
the walk does; an empty path at a gate means an empty walk, and this is where
the operator's discipline is needed), `CheckpointInv` (`last` and the stored state are
those of the stored walk's end) and `AheadInv` (memory continues what is stored, by one exit at
most). `SoundInv` adds, for graphs that route by edges alone, that every step asked for
the edges, which discharges `NothingLost` for an operator who is not careful.

`NobodyWaitsForNothing` needs `EnoughThreads`: the sends to parallel nodes on the shared pool, each of
which keeps a thread while it joins what it forked, are finitely many and fewer than the threads. Without
it the theorem is false (section 6), and TLC shows the deadlock with one thread. Were everybody
stuck, no task would run, so every task that holds a thread would be such a send; a queued task would
then find a thread free, so none is queued, and the joins have nothing to wait for. Together with
`EveryStepAdvances` this is `CallsReturn` but for its fairness.

`ViewersGetEventsInOrder` is about several threads that tell one viewer of their executions. `LiveInOrder` is not
inductive: an event just numbered has not been offered yet. `LiveInv` adds that a viewer has events only of
what it watches (`Watched`), that one with events is subscribed (`Present`), and that one which is still to be
offered an event has everything before it (`Expected`). That an event in a buffer is its deliverer's
(`Delivered`), and that there is one at most, is what the publisher's lock does.

`AnswersAreRemembered` needs `OneSession`: the writers share one `ChatSession`, and nobody else reads while entries
can expire. Both are needed: two sessions lose messages, as their class comment says, and a reader evicts
what an append has put meanwhile (section 6).

TLC checks the same properties first; the mutants of `PROJECT.json` show that the
properties can fail. `SomebodyGoesOn`, `HandlersOfCalls` and `LoadingIsPending`, which
only the proofs state, were checked by TLC on the runs of their modules before they were proved.

**Only model-checked:** every safety property that a run checks is stated by a theorem. What remains
with TLC is what needs fairness, which is beyond the prover: `CallsReturn` (of `GraphExecutor` and of
`FanOut`), `EventuallyCompletes`, `CircuitSettles`, `TokensFlow`, `StreamsEnd`, `CallsEnd`, `LoadingEnds`. For
most of them the part that needs none is proved: calls and fan-outs take finitely many steps
(`CallsComeToAnEnd`, `EveryStepAdvances`), a fan-out and a stream always have somebody whose turn it is
(`NobodyWaitsForNothing`, `StreamsGoOn`), a half-open circuit has a probe on its way (`ProbesAreOut`), a waiter
wakes no later than its token comes (`NobodyOversleeps`), a call leaves no handler (`NoHandlerIsLeft`) and what is loading
has a call that will write it (`LoadingHasACall`). That the step of the one whose turn it is is ENABLED is not
proved: the guards of the actions are named one by one in these properties instead.

## 6. Where code and documents disagree

Checked, each by a run that violates one property:

| run | property | |
|---|---|---|
| `gate` | `ResumeContinuesForward` | a gate met before the first node of a resume saves `last = ""`; the next resume starts at the entry |
| `jdbc` | `CompletedMeansFinished` | `JdbcCheckpointStore` loses `interruptPending`: the gate is met twice, then COMPLETED |
| `feed` | `StreamsEnd` | a viewer of the live feed that does not read stops the execution whose thread delivers to it and, at the publisher's lock, every other one that publishes to it, and `close` |

No run of their own, but shown by the same modules with another constant and the property named:

* a GoTo is not in the checkpoint, so a resume takes an edge the node did not ask for:
  `ResumeContinuesForward` with `Careful = FALSE` in `exec_calls`;
* a predicate that throws inside `resume` leaves a trace without `recordComplete`: `TraceClosed` with
  `PredicatesThrow = TRUE`;
* a send to a parallel node on a bounded executor waits for ever (`parallel` itself does not):
  `CallsReturn` of `FanOut` with `PoolSize = 1`;
* a probe that ends in an `Error` leaves the circuit half-open: `CircuitSettles` with `"probe"` in
  `ErrorsOn`;
* overlapping calls for one id drop each other's steps: `TraceIsWhole` with `OneAtATime = FALSE`;
* `recordStart` takes the state it is given for the trace's initial state, also a resume's:
  a replay from the beginning then runs the entry on a state of the middle, against
  `tracegraph-observability/README.md:352`: `SeedsFit` with the habit `replayMiddle`, `MaxRuns = 2`;
* a fork that is interrupted and resumed loses its lineage, against
  `tracegraph-observability/README.md:357`: `LineageKept` with `resumeForks`;
* two resumes of one interrupt both pass the check: `OneWalk` with `resumeTwice`, `MaxResumes = 2`;
* a thread that only reads a session can evict what an append has just put in place of the expired
  entry it saw (`TtlMemoryStore` lines 49-51): `AnsweredIsRemembered` with a reader in `Readers`;
* two `ChatSession` objects for one id lose messages, as the class comment says:
  `AnsweredIsRemembered` with two `Objects`.

Seen while modelling, with no run of their own (paths below `src/`):

* A resume with an edited state opens the gate of whatever node the edges choose for it (`Executor` lines 240-246 and 289),
  which may be another gated one than the operator was asked about; nobody is asked about that one. `GateHolds`
  therefore names the node only where the state is the checkpoint's.
* A run with an id that has a checkpoint already replaces it at its first save only, and a subgraph runs under
  `executionId:name` every time its node is reached (lines 467-469). A crash before that save makes a resume go on with the
  earlier execution.
* A SendAll is saved before it fans out (`Executor` lines 341 and 361), so an execution
  stopped by `interruptAfter` at its node, or by a crash, goes on without the fan-out;
  `docs/site/docs/tutorial/04-checkpoints-and-resume.md:55` says it "continues forward".
* `runFrom` saves checkpoints; `docs/wiki/Execution-Model.md:61` reads otherwise.
* A non-terminal whose edges accept nothing ends as COMPLETED (`docs/wiki/Execution-Model.md:97`).
* A FAILED execution can be resumed (`tracegraph-runtime/README.md:721`).
* A `Parallel` node cancels nothing when a branch fails (`tracegraph-runtime/README.md:217`), and on an
  executor of the user sends may outlive their call (tutorial `05-parallel-and-send.md:66`).
* After a late success two probes may be out at once, and a circuit may open
  right after a success, because of calls admitted before (`CircuitBreakerLlmClient` lines 14-17).
* After a crash that follows a flush the stored status stays RUNNING, which the REST resume refuses.
* Replaying from a FAILED step takes its null state (`tracegraph-observability/README.md:354` does not
  exclude it): the request answers 500 after the lineage was staged, and the staged lineage stays.
  A fork with an edited state after the last step is an IndexOutOfBounds, also a 500.
* `runFrom` writes checkpoints, so a replay does, against `tracegraph-observability/README.md:358`.
* Deleting an execution while it runs is undone by its next flush. Traces that are not RUNNING are served as
  publicly cacheable for 60 s (`TraceController` lines 97-99), although a resume or a delete may follow.
* A stream that fails closes with `closeExceptionally`, which overtakes what is still in the buffer after
  50 ms, and its failure event may come twice.
* A viewer that cancels stays registered in the feed. `LiveTraceFeed.close` closes viewers one by one: an
  offer to a closed publisher throws into the execution, and a viewer who subscribes in between is
  dropped without a completion.
* An open circuit is neither retried nor failed over; an interrupt in the limiter and a 4xx of the provider
  count as failures of the breaker. A waiter of the limiter can be overtaken without end: the lock is not fair.
* `TtlMemoryStore` never calls the store it wraps, so wrapping a `FileMemoryStore` persists nothing; a `clear`
  during an append is undone by it.
* An agent that is started under the id it also calls `sendAndAwait` from runs its graph on the replies.
* The compare button of the viewer goes to `#/diff?a=..`, which the router takes for the list.

## 7. Abstractions

* `GraphExecutor` models one execution id and one call at a time for it. Calls for different
  ids share nothing but the fan-out pool (`FanOut`) and listeners. Overlapping calls for one id
  are in `TraceRecording` and `TraceRest`.
* `Run` takes a fresh id, or one whose run died before its first checkpoint. The code does not ask for that
  (`Executor` lines 160-177, `Graph` lines 122-132): see section 6.
* A fan-out is one step of `GraphExecutor` and many of `FanOut`. A subgraph is a node whose attempt
  succeeds when the inner run completes.
* Stores are atomic per call; `delete` is not modelled. `recordComplete`'s remove and save are one
  action.
* Asynchronous branches (`CompletionStage` nodes) free their thread while they wait; here a branch
  holds it until it ends. `FanOut` asks more of the pool than such a branch does.
* A user's executor that is shut down during a fan-out is not modelled.
* The content of traces (usage, raw requests, the lineage of subgraphs) is left out.
* `TraceRest` has a line of nodes where `GraphExecutor` has any graph, no periodic flush and so no stored RUNNING,
  no `max-concurrent` of 0 or less (which means no bound), and no cache headers.
* `LlmStack` has exact rational numbers where the code has doubles: the rounding of the wait to whole
  nanoseconds is modelled, the error of a double's addition and division is not. A wait that comes out a nanosecond short by it is
  followed by another round of the loop, which the model has anyway (`awaitNanos` may return early); one that comes out
  a nanosecond long is not modelled.
* `Streaming` leaves out what an execution does but for its events. A publish goes through the
  viewers in any order, not in that of their subscription.
* `AgentChat` has one agent, one caller's id and one session; `Agent`s that call each other in a circle
  are not modelled. `TraceUi` reduces answers to their kind and leaves out what a view looks like; an answer has the
  form the endpoint gives it. JSON of another form makes the code after an `await`, outside its `try`, throw
  (`app.js` lines 158-160), and the view then stays loading.
* Backoff durations are left out: a backoff ends or is interrupted.

### Not modelled

* **Graph validation**: sequential, in plain recursion over a graph; an operator against reachability
  defined by paths would be the model, and is the first item of the plan.
* **Trace stores, memory stores, caches**: concurrent writers of one temporary file, and
  clear against eviction, are real hazards (`PROJECT.json`) without a module.
* **Budget, metrics and tracing listeners**: what they do to a run is `Terminate` and `CallbackThrows` of
  `GraphExecutor`; their counters are not modelled.
* **Agents** (hand-off, supervision, group chat, voting): graphs for the executor whose only new behaviour is
  what a language model answers.
* **Providers, tools, prompts, guardrails, structured output, retrieval, evaluation, record and replay of LLM
  calls, agent-to-agent HTTP, trace diff and export, CLI, benchmarks, diagrams, Spring wiring**: translation, arithmetic
  or output; no state that two steps compete for.
* **The React pages** (`tracegraph/ui/src/*.jsx`): presentation over sample data, with no state that two events
  compete for. **`wordcut.js` and `tinyseg.js`** of the documentation site are third-party. Together with
  `app.js`, which is modelled, these are all the JavaScript of the repository, three quarters of it
  `wordcut.js`: a share of 30 % of its JavaScript cannot be modelled, since what the program
  does is in its Java. The map covers that instead.

## 8. Plan

1. **Graph validation** as operators, against reachability defined by paths, over all graphs of three nodes.
2. **File stores and caches**: temporary files under two writers, clear against eviction.
3. **Budget listeners**: counters that all runs of a graph share.
4. **Agents** that call each other over the bus, in a circle and with a bounded pool.
5. What `EventuallyCompletes` needs besides fairness: how far each recovered call takes an execution.

Runs are kept few: one per component or composition, and one per disagreement that a constant of
another run does not show as well.
