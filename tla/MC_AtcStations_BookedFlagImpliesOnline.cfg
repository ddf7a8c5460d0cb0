CONSTANTS
    s1 = s1
    u1 = u1
    NoUrl = NoUrl
    Callsigns <- MC_Callsigns
    Urls <- MC_Urls
SPECIFICATION Spec
INVARIANT
    BookedFlagImpliesOnline
