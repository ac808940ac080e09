------------------------- MODULE MCGeneratedSchedule -------------------------
(***************************************************************************)
(* Up to three units for TLC, of one processor or of two.                  *)
(***************************************************************************)
EXTENDS GeneratedSchedule

MCUnits == {<<k>> : k \in Kind} \cup {<<j, k>> : j, k \in Kind}

MCPipelines == UNION {[1..n -> MCUnits] : n \in 0..2} \cup [1..3 -> {<<k>> : k \in Kind}]
=============================================================================
