---------------------------- MODULE MC_DbOwnModels ----------------------------
EXTENDS DbOwnModels

CONSTANTS fsx, xplane

MC_Sims == {fsx, xplane}
MC_InitLoaderMode == {}
MC_MaxQueue == 3
=============================================================================
