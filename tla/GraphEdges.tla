----------------------------- MODULE GraphEdges -----------------------------
(***************************************************************************)
(* The static part of a TraceGraph graph, as Graph.Builder.build() leaves  *)
(* it, and what it means to walk one: which node an edge list selects for  *)
(* a state (Executor.pickNext), and when a sequence of node executions is  *)
(* one the graph allows.                                                   *)
(*                                                                         *)
(* A graph's state S is user data.  All the executor ever learns about it  *)
(* is the answer of the edge predicates, so a state is a member of Vals,   *)
(* and a predicate is the set of values it accepts.                        *)
(***************************************************************************)
EXTENDS Integers, Sequences

CONSTANTS
  Nodes,      \* the declared node names
  NoNode,     \* no node: the "" of a checkpoint, the null of pickNext, and
              \* the name of a node that was never declared
  Entry,      \* Builder.entry
  Terminals,  \* Builder.terminal
  Vals,       \* what edge predicates can tell about a state
  Edges       \* Edges[n] lists the edges from n in declaration order

Edge == [to : Nodes, on : SUBSET Vals]

ASSUME GraphAssumption ==
  /\ NoNode \notin Nodes
  /\ Entry \in Nodes
  /\ Terminals \subseteq Nodes
  /\ Vals # {}
  /\ Edges \in [Nodes -> Seq(Edge)]

-----------------------------------------------------------------------------
(* Executor.pickNext: the first edge, in declaration order, that matches.  *)

Matching(n, v) == {i \in DOMAIN Edges[n] : v \in Edges[n][i].on}

FirstMatch(n, v) ==
  CHOOSE i \in Matching(n, v) : \A j \in Matching(n, v) : i <= j

PickNext(n, v) ==
  IF n \notin Nodes \/ Matching(n, v) = {}
  THEN NoNode
  ELSE Edges[n][FirstMatch(n, v)].to

-----------------------------------------------------------------------------
(* What a node asked for (NodeResult): continue along the edges, GoTo a    *)
(* node (NoNode stands for an undeclared name), or a SendAll fan-out.      *)

ToEdges   == [kind |-> "next", to |-> NoNode]
ToSends   == [kind |-> "sendAll", to |-> NoNode]
ToNode(n) == [kind |-> "goto", to |-> n]

NodeResult ==
  {ToEdges, ToSends} \union {ToNode(n) : n \in Nodes \union {NoNode}}

(* One change of a run's state: a node's exit, the merge of its fan-out,   *)
(* or the edit of an operator who resumes with a state of their own.       *)
Step == [kind : {"exit", "merge", "edit"},
         node : Nodes \union {NoNode},
         val  : Vals,
         then : NodeResult]

Exit(n, v, r) == [kind |-> "exit",  node |-> n, val |-> v, then |-> r]
Merge(n, v)   == [kind |-> "merge", node |-> n, val |-> v, then |-> ToEdges]
Edit(n, v)    == [kind |-> "edit",  node |-> n, val |-> v, then |-> ToEdges]

(* The node that has to run after step a of a run that began at origin.    *)
Successor(a, origin) ==
  CASE a.then.kind = "goto"    -> a.then.to
    [] a.then.kind = "sendAll" -> NoNode
    [] OTHER -> IF a.node = NoNode THEN origin ELSE PickNext(a.node, a.val)

(* May step b come directly after step a?                                  *)
Leads(a, b, origin) ==
  \/ b.kind = "exit"  /\ b.node # NoNode /\ b.node = Successor(a, origin)
  \/ b.kind = "merge" /\ b.node = a.node /\ a.kind = "exit" /\ a.then = ToSends
  \/ b.kind = "edit"  /\ b.node = a.node

(* A legal walk starts at the node its run was started at, and every step  *)
(* is one the step before it leads to.                                     *)
LegalWalk(walk, origin) ==
  /\ walk # <<>> => \/ walk[1].kind = "exit" /\ walk[1].node = origin
                    \/ walk[1].kind = "edit" /\ walk[1].node = NoNode
  /\ \A i \in 1..(Len(walk) - 1) : Leads(walk[i], walk[i + 1], origin)

(* The walk can go no further: it ended in a terminal, or its last node     *)
(* left the choice to the edges and none accepts the state.                *)
Finished(walk, origin) ==
  /\ walk # <<>>
  /\ LET z == walk[Len(walk)]
     IN  \/ z.node \in Terminals
         \/ z.then = ToEdges /\ Successor(z, origin) = NoNode
=============================================================================
