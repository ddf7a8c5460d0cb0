CONSTANTS
    ch1 = ch1
    ch2 = ch2
    u1 = u1
    u2 = u2
    i1 = i1
    o1 = o1
    o2 = o2
    Unplugged = Unplugged
    NoName = NoName
    InputDevices <- MC_InputDevices
    OutputDevices <- MC_OutputDevices
    InitInNames <- MC_InitInNames
    InitOutNames <- MC_InitOutNames
    Channel1 = ch1
    Channel2 = ch2
    NoChannel = NoChannel
    NoRoom = NoRoom
    Urls <- MC_Urls
    MaxVolume <- MC_MaxVolume
    InitVolume <- MC_InitVolume
    MinUnmuteVolume <- MC_MinUnmuteVolume
    MaxPool <- MC_MaxPool
SPECIFICATION Spec
INVARIANTS TypeOK PoolNeverExhausted VolumeSignalsTrackDevice DeviceSettingsInUse
