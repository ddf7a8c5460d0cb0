------------------------ MODULE MC_SimulatorContext ------------------------
(* Two plugins: enough for a load of one plugin to be overridden by the   *)
(* selected other, and for the fallback to the first by short name.       *)
EXTENDS SimulatorContext

CONSTANTS fsx, xp

MC_Plugins   == {fsx, xp}
MC_ShortName == [p \in MC_Plugins |-> IF p = fsx THEN 1 ELSE 2]
=============================================================================
