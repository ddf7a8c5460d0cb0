CONSTANTS
    s1 = s1
    u1 = u1
    NoUrl = NoUrl
    Callsigns <- MC_Callsigns
    Urls <- MC_Urls
    MaxQueued <- MC_MaxQueued
SPECIFICATION Spec
VIEW MC_View
INVARIANTS
    TypeOK
    AtcWatchedIffOnline
    OnlineViewShowsOnlyOnline
