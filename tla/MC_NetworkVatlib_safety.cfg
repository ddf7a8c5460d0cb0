CONSTANTS
    c1 = c1
    p0 = p0
    p1 = p1
    Callsigns <- MC_Callsigns
    Parts <- MC_Parts
    DefaultParts = p0
    TokenCapacity <- MC_TokenCapacity
SPECIFICATION Spec
INVARIANT TypeOK
PROPERTY ConfigSenderRefined
