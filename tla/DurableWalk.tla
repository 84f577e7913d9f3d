---------------------------- MODULE DurableWalk -----------------------------
(***************************************************************************)
(* What checkpointing promises about one execution id, whatever crashes,   *)
(* failures, retries, interrupts and resumes happen to the runs behind it: *)
(* the walk that has been made durable is a legal walk of the graph, it is *)
(* never rewritten, and one write never makes more than one node's         *)
(* execution durable (so a crash loses at most the node that was running). *)
(***************************************************************************)
EXTENDS GraphEdges

VARIABLES
  walk,    \* the steps whose effects are in the stored checkpoint's state
  origin   \* the node the execution was started at; NoNode before that

ExitsAfter(w, k) == {i \in (k + 1)..Len(w) : w[i].kind = "exit"}

Init == walk = <<>> /\ origin = NoNode

(* The execution is started, at the entry or at a node runFrom names; as   *)
(* long as nothing is durable it may be started again.                     *)
Begin ==
  /\ walk = <<>>
  /\ origin' \in Nodes
  /\ UNCHANGED walk

(* A checkpoint is written.                                                *)
Record ==
  /\ Len(walk) < Len(walk')
  /\ SubSeq(walk', 1, Len(walk)) = walk
  /\ LegalWalk(walk', origin)
  /\ \A i, j \in ExitsAfter(walk', Len(walk)) : i = j
  /\ UNCHANGED origin

Next == Begin \/ Record

Spec == Init /\ [][Next]_<<walk, origin>>
=============================================================================
