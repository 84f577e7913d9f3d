------------------------------ MODULE AgentBus ------------------------------
(***************************************************************************)
(* InMemoryAgentBus and Agent: calls of sendAndAwait to an agent, the      *)
(* worker, all from one agent id, so that every reply is delivered to the  *)
(* handler of every call that still waits.  The bus starts a virtual       *)
(* thread for each handler a message is delivered to; they run in any      *)
(* order.  What the worker's graph does with a message is left open here.  *)
(*                                                                         *)
(* A call is named by the id of its message: a reply carries it as its     *)
(* correlation id.                                                         *)
(***************************************************************************)
EXTENDS Naturals, FiniteSets

CONSTANT Calls

VARIABLES
  started,    \* the worker is subscribed
  awaiting,   \* subscribers of the callers' id: the calls whose handler is there
  call,       \* call[k]: how far call k is
  reply,      \* the calls whose reply is set and whose latch is open
  worker,     \* worker[k]: the worker's thread for the message of call k
  threads     \* threads that deliver a reply: to which call's handler, about which call

bus == <<started, awaiting, call, reply, worker, threads>>

Delivery == [to : Calls, about : Calls]

BusTypeOK ==
  /\ started \in BOOLEAN
  /\ awaiting \subseteq Calls
  /\ call \in [Calls -> {"new", "subscribed", "waiting", "received", "timedOut",
                         "interrupted", "returned", "threw"}]
  /\ reply \subseteq Calls
  /\ worker \in [Calls -> {"none", "working", "replying", "replied", "failed"}]
  /\ threads \subseteq Delivery

BusInit ==
  /\ started = FALSE
  /\ awaiting = {}
  /\ call = [k \in Calls |-> "new"]
  /\ reply = {}
  /\ worker = [k \in Calls |-> "none"]
  /\ threads = {}

-----------------------------------------------------------------------------
(* Agent.start, and the Runnable it returns.                               *)
StartsOrStops ==
  /\ started' = ~started
  /\ UNCHANGED <<awaiting, call, reply, worker, threads>>

(* sendAndAwait: the handler is there before the message goes out.         *)
Subscribe(k) ==
  /\ call[k] = "new"
  /\ awaiting' = awaiting \union {k}
  /\ call' = [call EXCEPT ![k] = "subscribed"]
  /\ UNCHANGED <<started, reply, worker, threads>>

(* send: nothing happens to a message that nobody is subscribed for.       *)
Send(k) ==
  /\ call[k] = "subscribed"
  /\ call' = [call EXCEPT ![k] = "waiting"]
  /\ worker' = IF started THEN [worker EXCEPT ![k] = "working"] ELSE worker
  /\ UNCHANGED <<started, awaiting, reply, threads>>

Awaited(k, how) ==
  /\ call[k] = "waiting"
  /\ call' = [call EXCEPT ![k] = how]
  /\ UNCHANGED <<started, awaiting, reply, worker, threads>>

Receives(k) == k \in reply /\ Awaited(k, "received")
TimesOut(k) == k \notin reply /\ Awaited(k, "timedOut")
Interrupted(k) == Awaited(k, "interrupted")

Outcome(k) == IF call[k] = "received" THEN "returned" ELSE "threw"

(* Wrong: the handlers of the caller's id are removed, not this one alone. *)
CancelsAll(k) ==
  /\ call[k] \in {"received", "timedOut", "interrupted"}
  /\ awaiting' = {}
  /\ call' = [call EXCEPT ![k] = Outcome(k)]
  /\ UNCHANGED <<started, reply, worker, threads>>

(* Wrong: after a timeout the handler stays.                               *)
CancelsWhenReceived(k) ==
  /\ call[k] \in {"received", "timedOut", "interrupted"}
  /\ awaiting' = IF call[k] = "received" THEN awaiting \ {k} ELSE awaiting
  /\ call' = [call EXCEPT ![k] = Outcome(k)]
  /\ UNCHANGED <<started, reply, worker, threads>>

(* However the wait ended, the handler goes.                               *)
Cancels(k) ==
  /\ call[k] \in {"received", "timedOut", "interrupted"}
  /\ awaiting' = awaiting \ {k}
  /\ call' = [call EXCEPT ![k] = Outcome(k)]
  /\ UNCHANGED <<started, reply, worker, threads>>

-----------------------------------------------------------------------------
(* The worker's graph has run, and its reply handler is called; or it has  *)
(* thrown.                                                                 *)
GraphRan(k, how) ==
  /\ worker[k] = "working"
  /\ worker' = [worker EXCEPT ![k] = how]
  /\ UNCHANGED <<started, awaiting, call, reply, threads>>

(* The reply handler sends the reply: to each handler on a new thread.     *)
Reply(k) ==
  /\ worker[k] = "replying"
  /\ worker' = [worker EXCEPT ![k] = "replied"]
  /\ threads' = threads \union {[to |-> c, about |-> k] : c \in awaiting}
  /\ UNCHANGED <<started, awaiting, call, reply>>

(* Wrong: any reply is taken for the reply to the call.                    *)
HandleAny(d) ==
  /\ d \in threads
  /\ threads' = threads \ {d}
  /\ reply' = reply \union {d.to}
  /\ UNCHANGED <<started, awaiting, call, worker>>

(* The handler of a call: a reply to another is not for it.                *)
Handle(d) ==
  /\ d \in threads
  /\ threads' = threads \ {d}
  /\ reply' = IF d.about = d.to THEN reply \union {d.to} ELSE reply
  /\ UNCHANGED <<started, awaiting, call, worker>>

CallStep(k) ==
  \/ Subscribe(k) \/ Send(k)
  \/ Receives(k) \/ TimesOut(k) \/ Interrupted(k)
  \/ Cancels(k)

-----------------------------------------------------------------------------
(* A reply that is sent while its call waits is on its way to it, however  *)
(* many calls of the same agent begin, end and time out at the same time.  *)
RepliesReach ==
  \A k \in Calls : call[k] = "waiting" /\ worker[k] = "replied" /\ k \notin reply
                     => [to |-> k, about |-> k] \in threads
=============================================================================
