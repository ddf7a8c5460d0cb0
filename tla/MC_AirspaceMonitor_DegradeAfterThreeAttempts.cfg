\* Expected violation: DegradeAfterThreeAttempts.
CONSTANTS
    a1 = a1
    i1 = i1
    NoIcao = NoIcao
    NoEntry = NoEntry
    NoReady = NoReady
    Callsigns <- MC_Callsigns
    Icaos <- MC_Icaos
SPECIFICATION Spec
INVARIANT
    DegradeAfterThreeAttempts
