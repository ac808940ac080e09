---------------------------- MODULE ShardedModel ----------------------------
(***************************************************************************)
(* What saving a model in shards promises, whoever saves which tensor: an  *)
(* index is published once, when every tensor has been saved, and it then  *)
(* names every tensor.  Nothing is saved or published after that.          *)
(***************************************************************************)
CONSTANT Tensors

VARIABLES saved,      \* the tensors saved so far
          published   \* the tensors named by the index, none before there is one

vars == <<saved, published>>

Init == saved = {} /\ published = {}

Save == /\ published = {}
        /\ \E S \in SUBSET (Tensors \ saved) : saved' = saved \cup S
        /\ UNCHANGED published

Publish == /\ published = {}
           /\ saved = Tensors
           /\ published' = Tensors
           /\ UNCHANGED saved

Next == Save \/ Publish

Spec == Init /\ [][Next]_vars
=============================================================================
