------------------------- MODULE MCDistributedSave -------------------------
(***************************************************************************)
(* Small models for TLC: modules that all ranks hold, and modules that one *)
(* rank holds.                                                             *)
(***************************************************************************)
EXTENDS DistributedSave

(* Each rank holds one module of its own. *)
MCHolds(r) == (1 .. Modules - World) \cup {Modules - World + 1 + r}

(* Rank 1 alone holds more than the two modules all share, and a third     *)
(* rank has nothing to save.                                               *)
MCHoldsFew(r) == {1, 2} \cup (IF r = 1 THEN {3} ELSE {})

(* In no layer there is more than in most modules. *)
MCSizeOf(t) == IF t = Rest \/ t[2] = 1 THEN 2 ELSE 1

(* Nothing, or shards of earlier runs: one that was not renamed, one that  *)
(* was the only one of its run, one of two.                                *)
MCLeftovers == {{}, {<<1, 0>>, <<1, 1>>, <<2, 2>>}}
MCNoLeftovers == {{}}
=============================================================================
