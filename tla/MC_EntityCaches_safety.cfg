\* Every getter call, nested ones included, returns.
CONSTANTS
    c1 = c1
    ap1 = ap1
    NoResult = NoResult
    Callsigns <- MC_Callsigns
    Airports <- MC_Airports
    MaxNesting <- MC_MaxNesting
    MaxSlices <- MC_MaxSlices
SPECIFICATION Spec
INVARIANTS
    TypeOK

    
