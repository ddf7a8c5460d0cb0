----------------------------- MODULE MC_PartsSync -----------------------------
EXTENDS PartsSync

MC_Fields == {"gear", "lights"}
MC_Values == {"off", "on"}
MC_DefaultParts == [f \in MC_Fields |-> "off"]
MC_TokenCapacity == 1
MC_MaxChanges == 3
MC_MaxInFlight == 3
=============================================================================
