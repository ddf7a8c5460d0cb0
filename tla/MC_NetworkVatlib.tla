--------------------------- MODULE MC_NetworkVatlib ---------------------------
EXTENDS NetworkVatlib

CONSTANTS c1, p0, p1

MC_Callsigns == {c1}
MC_Parts == {p0, p1}
MC_TokenCapacity == 1
=============================================================================
