CONSTANTS
    fsx = fsx
    xplane = xplane
    Fsx = fsx
    Sims <- MC_Sims
    InitLoaderMode <- MC_InitLoaderMode
    MaxQueue <- MC_MaxQueue
SPECIFICATION Spec
INVARIANT NoStuckLoader
