------------------------------ MODULE MCFanOut ------------------------------
(* Three fan-outs: the sends of "own", one to a parallel node and the last  *)
(* perhaps to no node at all, on the executor of their call; and, on one   *)
(* pool, the sends of "send", the first to a parallel node, and the        *)
(* parallel node "par".                                                    *)
EXTENDS FanOut, TLC

AllRuns == {"own", "send", "par"}
OwnRuns == {"own"}
SomeTogether == {{"own"}, {"send", "par"}}
OnlySend == {{"send"}}

Kinds      == "own" :> "sends"     @@ "send" :> "sends"  @@ "par" :> "parallel"
Widths     == "own" :> 3           @@ "send" :> 2        @@ "par" :> 2
Inners     == "own" :> <<0, 2, 0>> @@ "send" :> <<2, 0>> @@ "par" :> <<0, 0>>
MayRefuse  == "own" :> {3}         @@ "send" :> {}       @@ "par" :> {}
=============================================================================
