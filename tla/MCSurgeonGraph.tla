--------------------------- MODULE MCSurgeonGraph ---------------------------
(***************************************************************************)
(* Graphs of two or three nodes for TLC.                                   *)
(***************************************************************************)
EXTENDS SurgeonGraph

X == <<"x">>
W == <<"w">>
P == <<"p">>
Q == <<"q">>
Y == <<"y">>
Z == <<"z">>

MCGraph(nodes, ins, outs, inputs, outputs, inits) ==
    [nodes |-> nodes, ins |-> ins, outs |-> outs,
     inputs |-> inputs, outputs |-> outputs, inits |-> inits]

MCChain ==
    MCGraph(<<"a", "b">>, [a |-> <<X>>, b |-> <<P>>], [a |-> <<P>>, b |-> <<Y>>], {X}, {Y}, {})

(* The input is added to the output of a branch. *)
MCResidual ==
    MCGraph(<<"a", "b", "c">>, [a |-> <<X>>, b |-> <<P>>, c |-> <<Q, X>>],
            [a |-> <<P>>, b |-> <<Q>>, c |-> <<Y>>], {X}, {Y}, {})

(* A square that nobody reads. *)
MCSquare ==
    MCGraph(<<"a", "b", "c">>, [a |-> <<X>>, b |-> <<P, P>>, c |-> <<P>>],
            [a |-> <<P>>, b |-> <<Q>>, c |-> <<Y>>], {X}, {Y}, {})

(* An output of the graph is read inside. *)
MCInnerOutput ==
    MCGraph(<<"a", "b">>, [a |-> <<X>>, b |-> <<Y>>], [a |-> <<Y>>, b |-> <<Z>>], {X}, {Y, Z}, {})

(* Two outputs of a node, nodes out of order, an initializer that is listed *)
(* among the inputs, as old versions of ONNX do.                            *)
MCSplit ==
    MCGraph(<<"c", "b", "a">>, [a |-> <<X>>, b |-> <<P>>, c |-> <<Q, W>>],
            [a |-> <<P, Q>>, b |-> <<Y>>, c |-> <<Z>>], {X, W}, {Y, Z}, {W})

MCCycle ==
    MCGraph(<<"a", "b">>, [a |-> <<X, Q>>, b |-> <<P>>], [a |-> <<P, Y>>, b |-> <<Q>>], {X}, {Y}, {})

MCInitials == {MCChain, MCResidual, MCSquare, MCInnerOutput, MCSplit, MCCycle}

MCFresh == <<"n", "m">>

(* remove by default, remove without connections, the second input kept. *)
MCWirings == {<<1>>, << >>, 2 :> 1}
=============================================================================
