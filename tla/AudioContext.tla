---------------------------- MODULE AudioContext ----------------------------
(***************************************************************************)
(* CContextAudio (src/src/blackcore/context/contextaudioimpl.cpp): the two *)
(* vatlib voice channels shared by the COM1 and COM2 units, and the       *)
(* output volume with its mute.                                           *)
(*                                                                         *)
(* m_voiceChannelMapping maps a COM unit to a channel; two units tuned to *)
(* the same voice room share one channel.  m_unusedVoiceChannels is the   *)
(* pool a unit takes a channel from when no mapped channel is in its      *)
(* room.  A channel's own room is the IVoiceChannel implementation's      *)
(* (not in the repository): joinVoiceRoom sets it, leaveVoiceRoom clears  *)
(* it.  All handlers run on the context's thread, one at a time.          *)
(*                                                                         *)
(* shownVolume and shownMuted are a listener of changedAudioVolume and    *)
(* changedMute, such as the audio GUI, that starts from the getters.      *)
(***************************************************************************)
EXTENDS Integers, Sequences, Functions

CONSTANTS
    Channel1, Channel2, \* m_channel1, m_channel2
    NoChannel,          \* a null QSharedPointer<IVoiceChannel>
    Urls,               \* voice room URLs
    NoRoom,             \* CVoiceRoom(): invalid, empty URL
    MaxVolume,          \* the highest volume the command line accepts (300)
    InitVolume,         \* the constructor's setVoiceOutputVolume(90)
    MinUnmuteVolume,    \* the lowest volume unmuting restores
    MaxPool,            \* bound on the length of the unused-channel list
    InputDevices,       \* m_voiceInputDevice->getInputDevices()
    OutputDevices,      \* m_voiceOutputDevice->getOutputDevices()
    Unplugged,          \* a device name a setting holds but no device has
    NoName,             \* an empty device-name setting
    InitInNames,        \* the input-device settings a start may find
    InitOutNames        \* the output-device settings a start may find

Channels == {Channel1, Channel2}
Coms     == {"com1", "com2"}
Rooms    == Urls \cup {NoRoom}

VARIABLES
    mapping,        \* m_voiceChannelMapping: COM unit -> channel or NoChannel
    unused,         \* m_unusedVoiceChannels, in order
    room,           \* the room each channel has joined
    requested,      \* the room last set for each COM unit
    fault,          \* getVoiceChannelBy took from an empty pool
    volume,         \* m_voiceOutputDevice->getOutputVolume()
    before,         \* m_outVolumeBeforeMute
    shownVolume,    \* the listener's volume
    shownMuted,     \* the listener's mute state
    micPorts,       \* the mixer outputs InputMicrophone is connected to
    transmitting,   \* the argument of the last setVoiceTransmission call
    curIn, curOut,  \* getCurrentInputDevice(), getCurrentOutputDevice()
    setIn, setOut   \* m_inputDeviceSetting, m_outputDeviceSetting (names)

vars == <<mapping, unused, room, requested, fault, volume, before, shownVolume, shownMuted,
          micPorts, transmitting, curIn, curOut, setIn, setOut>>
chanVars == <<mapping, unused, room, requested, fault>>
volVars  == <<volume, before, shownVolume, shownMuted>>
micVars  == <<micPorts, transmitting>>
devVars  == <<curIn, curOut, setIn, setOut>>

(* A device is known by its name.                                        *)
Names == InputDevices \cup OutputDevices \cup {Unplugged, NoName}

ASSUME InitInNames \subseteq InputDevices \cup {Unplugged, NoName}
ASSUME InitOutNames \subseteq OutputDevices \cup {Unplugged, NoName}

(* the mixer outputs: each voice channel's, and the output device's       *)
VoicePorts == {"OutputVoiceChannel1", "OutputVoiceChannel2"}
MixerPorts == VoicePorts \cup {"OutputOutputDevice1"}

(* m_voiceChannelOutputPortMapping                                       *)
OutputPort(ch) == IF ch = Channel1 THEN "OutputVoiceChannel1" ELSE "OutputVoiceChannel2"

TypeOK ==
    /\ mapping \in [Coms -> Channels \cup {NoChannel}]
    /\ unused \in Seq(Channels) /\ Len(unused) <= MaxPool
    /\ room \in [Channels -> Rooms]
    /\ requested \in [Coms -> Rooms]
    /\ fault \in BOOLEAN
    /\ volume \in 0..MaxVolume /\ before \in 0..MaxVolume
    /\ shownVolume \in 0..MaxVolume /\ shownMuted \in BOOLEAN
    /\ micPorts \subseteq MixerPorts /\ transmitting \in BOOLEAN
    /\ curIn \in InputDevices /\ curOut \in OutputDevices
    /\ setIn \in Names /\ setOut \in Names

IsMuted == volume < 1

(* the constructor: both channels unused, volume 90; the volume saved    *)
(* before a mute is whatever the device held                             *)
(* The device part of the context as a record.                           *)
Devices(i, o, si, so) == [curIn |-> i, curOut |-> o, setIn |-> si, setOut |-> so]

(* setCurrentAudioDevice: an input device is selected if it differs from *)
(* the current one and its name stored in m_inputDeviceSetting; an       *)
(* output device likewise.  (changedSelectedAudioDevices, emitted when a *)
(* device changed, changes no state of the context.)                     *)
SetCurrentAudioDeviceOf(d, dev) ==
    IF dev \in InputDevices THEN [d EXCEPT !.curIn = dev, !.setIn = dev]
    ELSE [d EXCEPT !.curOut = dev, !.setOut = dev]

(* Mutation: the output setting is looked up among the input devices.    *)
ChangeDeviceSettingsWrongList(d) ==
    LET d1 == IF d.setIn # NoName /\ d.setIn \in InputDevices
              THEN SetCurrentAudioDeviceOf(d, d.setIn) ELSE d
    IN  IF d1.setOut # NoName /\ d1.setOut \in InputDevices
        THEN SetCurrentAudioDeviceOf(d1, d1.setOut) ELSE d1

(* changeDeviceSettings: a non-empty input setting selects the input     *)
(* device of that name, if there is one; then the output setting the     *)
(* output device                                                         *)
ChangeDeviceSettings(d) ==
    LET d1 == IF d.setIn # NoName /\ d.setIn \in InputDevices
              THEN SetCurrentAudioDeviceOf(d, d.setIn) ELSE d
    IN  IF d1.setOut # NoName /\ d1.setOut \in OutputDevices
        THEN SetCurrentAudioDeviceOf(d1, d1.setOut) ELSE d1

(* the constructor: the devices vatlib opens by default, the settings as *)
(* persisted by an earlier run (InitInNames, InitOutNames), and          *)
(* changeDeviceSettings                                                  *)
InitDevices ==
    \E i \in InputDevices, o \in OutputDevices, si \in InitInNames, so \in InitOutNames :
        LET d == ChangeDeviceSettings(Devices(i, o, si, so))
        IN  /\ curIn = d.curIn /\ curOut = d.curOut
            /\ setIn = d.setIn /\ setOut = d.setOut

Init ==
    /\ InitDevices
    /\ mapping = [c \in Coms |-> NoChannel]
    /\ unused = <<Channel1, Channel2>>
    /\ room = [ch \in Channels |-> NoRoom]
    /\ requested = [c \in Coms |-> NoRoom]
    /\ fault = FALSE
    /\ volume = InitVolume
    /\ before \in 0..MaxVolume
    /\ shownVolume = InitVolume
    /\ shownMuted = (InitVolume < 1)
    /\ micPorts = {}
    /\ transmitting = FALSE

-----------------------------------------------------------------------------
(* The channel part of the context as a record, so that the two COM       *)
(* units of one setComVoiceRooms call can be applied one after the other. *)
State == [mapping |-> mapping, unused |-> unused, room |-> room, fault |-> fault]

(* getVoiceChannelBy: a mapped channel already in the room, else the     *)
(* first unused one (Q_ASSERT: the pool is not empty)                    *)
GetVoiceChannelBy(s, url) ==
    LET inRoom == {ch \in Range(s.mapping) \ {NoChannel} : s.room[ch] = url}
    IN  IF inRoom # {} THEN [ch |-> CHOOSE ch \in inRoom : TRUE, unused |-> s.unused, fault |-> FALSE]
        ELSE IF s.unused = <<>> THEN [ch |-> NoChannel, unused |-> <<>>, fault |-> TRUE]
        ELSE [ch |-> Head(s.unused), unused |-> Tail(s.unused), fault |-> FALSE]

(* Mutation: the old channel is dropped from the mapping but never       *)
(* returned to the pool.                                                 *)
UpdateComKeepOld(s, c, cur, url) ==
    IF cur = url THEN s
    ELSE LET old == s.mapping[c]
             m1  == [s.mapping EXCEPT ![c] = NoChannel]
             s1  == [s EXCEPT !.mapping = m1]
         IN  IF url = NoRoom THEN s1
             ELSE LET g == GetVoiceChannelBy(s1, url)
                  IN  IF g.fault THEN [s1 EXCEPT !.fault = TRUE]
                      ELSE [mapping |-> [m1 EXCEPT ![c] = g.ch], unused |-> g.unused,
                            room |-> IF g.ch \in Range(m1) THEN s1.room
                                     ELSE [s1.room EXCEPT ![g.ch] = url],
                            fault |-> s1.fault]

(* One COM unit of setComVoiceRooms, cur being its room when the call    *)
(* started: if the URL differs, the unit's old channel is unmapped, and  *)
(* left and returned to the pool unless the other unit uses it; a valid  *)
(* new room takes a channel by getVoiceChannelBy, which joins the room   *)
(* unless the other unit already uses that channel.                      *)
UpdateCom(s, c, cur, url) ==
    IF cur = url THEN s
    ELSE LET old     == s.mapping[c]
             m1      == [s.mapping EXCEPT ![c] = NoChannel]
             release == old # NoChannel /\ old \notin Range(m1)
             s1      == [mapping |-> m1,
                         unused  |-> IF release THEN Append(s.unused, old) ELSE s.unused,
                         room    |-> IF release THEN [s.room EXCEPT ![old] = NoRoom] ELSE s.room,
                         fault   |-> s.fault]
         IN  IF url = NoRoom THEN s1
             ELSE LET g == GetVoiceChannelBy(s1, url)
                  IN  IF g.fault THEN [s1 EXCEPT !.fault = TRUE]
                      ELSE [mapping |-> [m1 EXCEPT ![c] = g.ch], unused |-> g.unused,
                            room |-> IF g.ch \in Range(m1) THEN s1.room
                                     ELSE [s1.room EXCEPT ![g.ch] = url],
                            fault |-> s1.fault]

(* getComVoiceRooms: the room of each unit's channel, or none            *)
ComRoom(s, c) == IF s.mapping[c] = NoChannel THEN NoRoom ELSE s.room[s.mapping[c]]

SetComVoiceRooms(new) ==
    /\ LET s0 == State
           s1 == UpdateCom(s0, "com1", ComRoom(s0, "com1"), new["com1"])
           s2 == UpdateCom(s1, "com2", ComRoom(s0, "com2"), new["com2"])
       IN  /\ Len(s2.unused) <= MaxPool
           /\ mapping' = s2.mapping /\ unused' = s2.unused
           /\ room' = s2.room /\ fault' = s2.fault
    /\ requested' = new
    /\ UNCHANGED volVars /\ UNCHANGED micVars /\ UNCHANGED devVars

(* leaveAllVoiceRooms: the mapping is cleared, and both channels leave   *)
(* their rooms and are appended to the pool                              *)
LeaveAllVoiceRooms ==
    /\ Len(unused) + 2 <= MaxPool
    /\ mapping' = [c \in Coms |-> NoChannel]
    /\ room' = [ch \in Channels |-> NoRoom]
    /\ unused' = unused \o <<Channel1, Channel2>>
    /\ requested' = [c \in Coms |-> NoRoom]
    /\ UNCHANGED <<fault>> /\ UNCHANGED volVars /\ UNCHANGED micVars /\ UNCHANGED devVars

-----------------------------------------------------------------------------
(* Mutation: the mute crossing is tested against 1 instead of 0.         *)
SetVoiceOutputVolumeOffByOne(v) ==
    /\ volume # v
    /\ volume' = v /\ before' = v /\ shownVolume' = v
    /\ shownMuted' = IF (v > 1 /\ IsMuted) \/ (v < 1 /\ ~IsMuted) THEN v < 1 ELSE shownMuted
    /\ UNCHANGED chanVars /\ UNCHANGED micVars /\ UNCHANGED devVars

(* setVoiceOutputVolume: nothing if unchanged; else the volume is set    *)
(* and saved, changedAudioVolume is emitted, and changedMute too when    *)
(* the volume crosses between 0 and audible                              *)
SetVoiceOutputVolume(v) ==
    /\ volume # v
    /\ volume' = v /\ before' = v /\ shownVolume' = v
    /\ shownMuted' = IF (v > 0 /\ IsMuted) \/ (v < 1 /\ ~IsMuted) THEN v < 1 ELSE shownMuted
    /\ UNCHANGED chanVars /\ UNCHANGED micVars /\ UNCHANGED devVars

(* setMute: nothing if already in that state; muting saves the volume    *)
(* and sets 0, unmuting restores the saved volume but at least           *)
(* MinUnmuteVolume; changedAudioVolume if the volume changes, then       *)
(* changedMute                                                           *)
SetMute(muted) ==
    /\ IsMuted # muted
    /\ LET newVolume == IF muted THEN 0
                        ELSE IF before < MinUnmuteVolume THEN MinUnmuteVolume ELSE before
       IN  /\ before' = IF muted THEN volume ELSE newVolume
           /\ volume' = newVolume
           /\ shownVolume' = IF newVolume # volume THEN newVolume ELSE shownVolume
    /\ shownMuted' = muted
    /\ UNCHANGED chanVars /\ UNCHANGED micVars /\ UNCHANGED devVars

(* Mutation: the ".vol" argument is not range checked.                   *)
ParseCommandLineNoRangeCheck ==
    \/ SetMute(TRUE)
    \/ SetMute(FALSE)
    \/ \E v \in -1..MaxVolume + 1 : SetVoiceOutputVolume(v)

(* parseCommandLine: ".mute", ".unmute", and ".vol v", applied only for  *)
(* 0 <= v <= 300 (MaxVolume); the same calls the audio GUI makes         *)
(* directly                                                              *)
ParseCommandLine ==
    \/ SetMute(TRUE)
    \/ SetMute(FALSE)
    \/ \E v \in -1..MaxVolume + 1 : 0 <= v /\ v <= MaxVolume /\ SetVoiceOutputVolume(v)

-----------------------------------------------------------------------------
(* setVoiceTransmission: nothing if COM1 has no channel (the early       *)
(* return); otherwise enabling connects the microphone to the output port *)
(* of COM1's channel and disabling removes it from both voice-channel     *)
(* ports.  transmitting records the call, whether it had an effect or not.*)
SetVoiceTransmission(enable) ==
    /\ micPorts' = CASE mapping["com1"] = NoChannel -> micPorts
                     [] enable -> micPorts \cup {OutputPort(mapping["com1"])}
                     [] OTHER  -> micPorts \ VoicePorts
    /\ transmitting' = enable
    /\ UNCHANGED chanVars /\ UNCHANGED volVars /\ UNCHANGED devVars

(* enableAudioLoopback: the microphone to the output device, or not      *)
EnableAudioLoopback(enable) ==
    /\ micPorts' = IF enable THEN micPorts \cup {"OutputOutputDevice1"}
                   ELSE micPorts \ {"OutputOutputDevice1"}
    /\ UNCHANGED chanVars /\ UNCHANGED volVars /\ UNCHANGED transmitting /\ UNCHANGED devVars

(* setCurrentAudioDevice, from the audio setup GUI's device lists         *)
SetCurrentAudioDevice(dev) ==
    /\ LET d == SetCurrentAudioDeviceOf(Devices(curIn, curOut, setIn, setOut), dev)
       IN  /\ curIn' = d.curIn /\ curOut' = d.curOut
           /\ setIn' = d.setIn /\ setOut' = d.setOut
    /\ UNCHANGED chanVars /\ UNCHANGED volVars /\ UNCHANGED micVars

Next ==
    \/ \E new \in [Coms -> Rooms] : SetComVoiceRooms(new)
    \/ \E dev \in InputDevices \cup OutputDevices : SetCurrentAudioDevice(dev)
    \/ LeaveAllVoiceRooms
    \/ ParseCommandLine
    \/ \E enable \in BOOLEAN : SetVoiceTransmission(enable)
    \/ \E enable \in BOOLEAN : EnableAudioLoopback(enable)

Spec == Init /\ [][Next]_vars

-----------------------------------------------------------------------------
(* getVoiceChannelBy never finds the unused-channel list empty when a    *)
(* COM unit needs a channel of its own (its Q_ASSERT; takeFirst on an    *)
(* empty list in a release build): setComVoiceRooms returns a unit's old *)
(* channel to the pool before taking a new one, over any sequence of     *)
(* room changes, shared rooms and leaveAllVoiceRooms.                    *)
PoolNeverExhausted == ~fault

(* A listener of changedAudioVolume and changedMute always shows the     *)
(* device's volume and mute state: setVoiceOutputVolume and setMute,     *)
(* from the GUI or the command line, emit exactly the changes they make, *)
(* at the 0 / audible boundary included.                                 *)
VolumeSignalsTrackDevice ==
    shownVolume = volume /\ shownMuted = IsMuted

(* getComVoiceRooms reports, for each COM unit, the room last set for    *)
(* it: a unit never listens in another unit's room.                      *)
RoomsAsRequested ==
    \A c \in Coms : ComRoom(State, c) = requested[c]

(* The device settings name the devices in use: a persisted name of an   *)
(* available device is selected again by the constructor, and every      *)
(* selection from the GUI is stored, so a restart picks the same input  *)
(* and output devices.                                                    *)
DeviceSettingsInUse ==
    /\ setIn \in InputDevices => curIn = setIn
    /\ setOut \in OutputDevices => curOut = setOut

(* The microphone is heard in a voice room only while transmission is   *)
(* on: after setVoiceTransmission(false), the push-to-talk release, no    *)
(* channel that is in a room carries the microphone, even when COM1's     *)
(* channel changed or was dropped by leaveAllVoiceRooms in between and   *)
(* the unit rejoined a room later.                                        *)
MicSilentWhenReleased ==
    ~transmitting =>
        \A ch \in Channels : room[ch] # NoRoom => OutputPort(ch) \notin micPorts

=============================================================================
