--------------------------- MODULE MC_AudioContext ---------------------------
EXTENDS AudioContext

CONSTANTS ch1, ch2, u1, u2, i1, o1, o2

MC_Urls == {u1, u2}
MC_MaxVolume == 3
MC_InitVolume == 3
MC_MinUnmuteVolume == 2
MC_MaxPool == 4
MC_InputDevices == {i1}
MC_OutputDevices == {o1, o2}
\* an empty input setting, and an output setting naming a device that is gone
MC_InitInNames == {i1, NoName}
MC_InitOutNames == {o1, o2, Unplugged}
=============================================================================
