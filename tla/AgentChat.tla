------------------------------ MODULE AgentChat ------------------------------
(***************************************************************************)
(* An agent with a memory: the worker of AgentBus runs a graph whose node  *)
(* appends the message it is given to the agent's ChatSession.  The bus    *)
(* gives every message a thread of its own, so the runs of one agent meet  *)
(* in the session's lock and in the store.                                 *)
(***************************************************************************)
EXTENDS AgentBus, ChatMemory

ASSUME OneMessageACall == Writers = Calls

vars == <<bus, memory>>

Init == BusInit /\ MemoryInit

TypeOK == BusTypeOK /\ MemoryTypeOK

(* The node's function, on the thread that the message was given; a reader *)
(* has a thread of its own.                                                *)
SessionStep(t) ==
  /\ t \in Calls => worker[t] = "working"
  /\ ThreadStep(t)
  /\ UNCHANGED bus

NodeDone(k) == chat[k].at = "done" /\ GraphRan(k, "replying") /\ UNCHANGED memory

NodeFailed(k) ==
  /\ chat[k].at \in {"out", "failed", "done"}
  /\ GraphRan(k, "failed")
  /\ UNCHANGED memory

BusStep ==
  \/ StartsOrStops
  \/ \E k \in Calls : CallStep(k) \/ Reply(k)
  \/ \E d \in threads : Handle(d)

Next ==
  \/ BusStep /\ UNCHANGED memory
  \/ \E t \in Threads : SessionStep(t)
  \/ \E k \in Calls : NodeDone(k) \/ NodeFailed(k)
  \/ StoreStep /\ UNCHANGED bus

(* A caller's thread goes on, and its wait has a timeout.                  *)
Spec ==
  /\ Init /\ [][Next]_vars
  /\ \A k \in Calls : WF_vars(CallStep(k) /\ UNCHANGED memory)

-----------------------------------------------------------------------------
(* A message that was answered is in the conversation's history, unless    *)
(* the history expired or was cleared since: no other message that was     *)
(* handled at the same time has cost it its place ("appends on a single    *)
(* instance are atomic", ChatSession), and no caller was given the answer  *)
(* to another's message.                                                   *)
AnsweredIsRemembered ==
  \A k \in Calls : call[k] = "returned" => k \in Contents(entry) \union forgotten

(* Every call ends, and leaves no handler behind, whatever became of its   *)
(* message.                                                                *)
CallsEnd ==
  \A k \in Calls : k \in awaiting ~> call[k] \in {"returned", "threw"} /\ k \notin awaiting
=============================================================================
