---------------------------- MODULE MCAgentChat ----------------------------
(***************************************************************************)
(* One ChatSession object for the agent.                                   *)
(***************************************************************************)
EXTENDS AgentChat

OneObject == [t \in Threads |-> 1]
=============================================================================
