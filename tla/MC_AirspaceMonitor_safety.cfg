\* Safety of the aircraft half of the airspace monitor.
CONSTANTS
    a1 = a1
    i1 = i1
    NoIcao = NoIcao
    NoEntry = NoEntry
    NoReady = NoReady
    Callsigns <- MC_Callsigns
    Icaos <- MC_Icaos
SPECIFICATION Spec
INVARIANTS
    TypeOK
    RenderedAreInRange
    IcaoCacheOnlyForAbsent
PROPERTY
    ReadinessCheckTerminates
