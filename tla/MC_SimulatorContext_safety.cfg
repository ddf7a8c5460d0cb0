\* Plugin loading, settings and connection status of the simulator context.
CONSTANTS
    fsx = fsx
    xp = xp
    Unspecified = Unspecified
    NoSim = NoSim
    Plugins <- MC_Plugins
    ShortName <- MC_ShortName
SPECIFICATION Spec
INVARIANTS
    TypeOK
    SelectedPluginLoaded
PROPERTY
    FromSettingsLoadsSelectedOrFirst
