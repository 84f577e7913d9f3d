-------------------------- MODULE MCGraphExecutor ---------------------------
(***************************************************************************)
(* Graphs and policies for checking GraphExecutor.  Every graph is one     *)
(* Builder.validate accepts.                                               *)
(***************************************************************************)
EXTENDS GraphExecutor, TLC

CONSTANTS a, b, c,      \* nodes
          lo, hi, off   \* what the predicates can tell about a state

On(n, vs) == [to |-> n, on |-> vs]

(* a -> b, but off leaves a without a successor; b -> c for hi, back to a   *)
(* for lo (and hi: the second edge overlaps the first), and b once more    *)
(* for off; c is terminal.                                                 *)
LoopEdges == (a :> <<On(b, {lo, hi})>>)
             @@ (b :> <<On(c, {hi}), On(a, {lo, hi}), On(b, {off})>>)
             @@ (c :> <<>>)

(* a -> b -> c.                                                            *)
LineEdges == (a :> <<On(b, Vals)>>) @@ (b :> <<On(c, Vals)>>) @@ (c :> <<>>)

(* A routing node a with edges to b for hi only; b is followed by c.       *)
RoutingEdges == (a :> <<On(b, {hi})>>) @@ (b :> <<On(c, Vals)>>) @@ (c :> <<>>)

AnyOutput   == [n \in Nodes |-> Vals]
EdgesOnly   == [n \in Nodes |-> {ToEdges}]
RoutingAtA  == [n \in Nodes |->
                  IF n = a THEN {ToEdges, ToNode(c), ToNode(NoNode), ToSends}
                           ELSE {ToEdges}]
GoToAtA     == [n \in Nodes |-> IF n = a THEN {ToNode(c)} ELSE {ToEdges}]

OneAttempt  == [n \in Nodes |-> 1]
TwoAttempts == [n \in Nodes |-> 2]
TwoAtB      == [n \in Nodes |-> IF n = b THEN 2 ELSE 1]

EveryOutcome   == Statuses
OnlyInterrupted == {"INTERRUPTED"}
UnlessComplete == Statuses \ {"COMPLETED"}
=============================================================================
