------------------------- MODULE MC_EntityCaches -------------------------
(* Model-checking instance of EntityCaches: one callsign, one airport,    *)
(* a getter called from inside another getter's wait loop, and two     *)
(* processEvents slices per wait loop.                                    *)
EXTENDS EntityCaches, TLC

CONSTANTS c1, ap1

MC_Callsigns  == {c1}
MC_Airports   == {ap1}
MC_MaxNesting == 2
MC_MaxSlices  == 2
=============================================================================
