-------------------------- MODULE SimulatorContext --------------------------
(***************************************************************************)
(* The plugin half of CContextSimulator (context_simulator_impl.cpp): the  *)
(* simulator driver factories found at start, the one loaded driver        *)
(* m_simulator, the simulator settings it applies, and the connection      *)
(* status it reports through connectionChanged.                            *)
(*                                                                         *)
(* loadSimulatorPlugin calls settingsChanged, and settingsChanged calls    *)
(* loadSimulatorPlugin for the plugin the settings select: the two are     *)
(* mutually recursive operators on the driver state, and a load is one     *)
(* atomic step, as it is one uninterrupted call on the context's thread.  *)
(* The remote aircraft handed to the driver are modelled in               *)
(* AirspaceMonitor; the drivers themselves (plugins) are the environment: *)
(* they connect, fail and lose the simulator on their own.                 *)
(***************************************************************************)
EXTENDS Naturals, Sequences, SequencesExt

CONSTANTS
    Plugins,      \* simulator plugins that may be installed
    ShortName,    \* rank of each plugin's short name, for sorting
    Unspecified,  \* CSimulatorInfo::UnspecifiedSim()
    NoSim         \* m_simulator == nullptr

ASSUME ShortName \in [Plugins -> Nat]

VARIABLES
    factories,        \* m_simulatorFactories
    selected,         \* settings: getSelectedPlugin()
    timeSyncSet,      \* settings: isTimeSyncEnabled()
    settingsPending,  \* a settings change not yet passed to settingsChanged
    simulator,        \* m_simulator's plugin, or NoSim
    simTimeSync,      \* the loaded driver's time synchronization
    conn,             \* the loaded driver's connection status
    shown,            \* last value emitted by connectionChanged
    crashed           \* a member call was made through a null m_simulator

vars == <<factories, selected, timeSyncSet, settingsPending, simulator,
          simTimeSync, conn, shown, crashed>>

Status == {"Disconnected", "Connecting", "Connected"}

TypeOK ==
    /\ factories \subseteq Plugins
    /\ selected \in Plugins \cup {Unspecified}
    /\ timeSyncSet \in BOOLEAN
    /\ settingsPending \in BOOLEAN
    /\ simulator \in factories \cup {NoSim}
    /\ simTimeSync \in BOOLEAN
    /\ conn \in Status
    /\ shown \in BOOLEAN
    /\ crashed \in BOOLEAN

(* findSimulatorPlugins, run by the constructor: every library in the     *)
(* plugin directory that loads and is a factory is kept.  Which ones do   *)
(* depends on the installation, so any subset.                            *)
Init ==
    /\ factories \in SUBSET Plugins
    /\ selected \in Plugins \cup {Unspecified}
    /\ timeSyncSet \in BOOLEAN
    /\ settingsPending = FALSE
    /\ simulator = NoSim
    /\ simTimeSync = FALSE
    /\ conn = "Disconnected"
    /\ shown = FALSE
    /\ crashed = FALSE

(* Mutant: the plugins sorted the wrong way round. *)
AvailablePluginsReversed ==
    SetToSortSeq(factories, LAMBDA a, b : ShortName[a] > ShortName[b])

(* getAvailableSimulatorPlugins: the factories' infos sorted by short name *)
AvailableSimulatorPlugins ==
    SetToSortSeq(factories, LAMBDA a, b : ShortName[a] < ShortName[b])

(* The driver state a call works on, and writing it back. *)
Cur == [sim |-> simulator, ts |-> simTimeSync, conn |-> conn, crash |-> crashed]

Apply(d) ==
    /\ simulator' = d.sim
    /\ simTimeSync' = d.ts
    /\ conn' = d.conn
    /\ crashed' = d.crash

(* getSimulatorInfo *)
SimulatorInfo(d) == IF d.sim = NoSim THEN Unspecified ELSE d.sim

(* unloadSimulatorPlugin: all the driver's signals are disconnected before *)
(* disconnectFrom, so its status change reaches nobody.                    *)
UnloadOf(d) == [d EXCEPT !.sim = NoSim, !.conn = "Disconnected"]

(* asyncConnectToSimulator (m_canConnectResult is never started, so only  *)
(* the null check guards it).  What the driver's asyncConnectTo does is   *)
(* not in the repository: it is taken to start a connection attempt from  *)
(* the disconnected state and to leave any other status alone.           *)
AsyncConnectOf(d) ==
    IF d.sim # NoSim /\ d.conn = "Disconnected"
    THEN [d EXCEPT !.conn = "Connecting"] ELSE d

(* Mutant: a load that does not apply the settings to the new driver. *)
LoadSimulatorPluginNoSettings(d, p) ==
    CASE d.sim # NoSim /\ d.sim = p -> [st |-> d, ok |-> TRUE]
      [] p = Unspecified \/ p \notin factories -> [st |-> d, ok |-> FALSE]
      [] OTHER ->
           [st |-> AsyncConnectOf([UnloadOf(d) EXCEPT !.sim = p]), ok |-> TRUE]

(* Mutant: no "plugin not found" return. *)
LoadSimulatorPluginNoFactoryCheck(d, p) ==
    CASE d.sim # NoSim /\ d.sim = p -> [st |-> d, ok |-> TRUE]
      [] p = Unspecified -> [st |-> d, ok |-> FALSE]
      [] OTHER ->
           [st |-> AsyncConnectOf([UnloadOf(d) EXCEPT !.sim = p]), ok |-> TRUE]

RECURSIVE LoadSimulatorPluginOf(_, _), SettingsChangedOf(_)

(* loadSimulatorPlugin: a new driver from the plugin's factory replaces   *)
(* the old one, then the settings are applied (which may load the         *)
(* selected plugin instead) and a connection is attempted.               *)
LoadSimulatorPluginOf(d, p) ==
    CASE d.sim # NoSim /\ d.sim = p -> [st |-> d, ok |-> TRUE]
      [] p = Unspecified \/ p \notin factories -> [st |-> d, ok |-> FALSE]
      [] OTHER ->
           LET new == [UnloadOf(d) EXCEPT !.sim = p, !.ts = FALSE]
           IN  [st |-> AsyncConnectOf(SettingsChangedOf(new)), ok |-> TRUE]

(* settingsChanged(SettingsSimulator): load the selected plugin unless    *)
(* it is the current one, then set the time synchronization through      *)
(* m_simulator, which is null if nothing was loaded and the load failed. *)
SettingsChangedOf(d) ==
    LET l == IF SimulatorInfo(d) # selected
             THEN LoadSimulatorPluginOf(d, selected).st ELSE d
    IN  IF l.sim = NoSim THEN [l EXCEPT !.crash = TRUE]
                         ELSE [l EXCEPT !.ts = timeSyncSet]

Running == ~crashed

LoadSimulatorPlugin(p) ==
    /\ Running
    /\ Apply(LoadSimulatorPluginOf(Cur, p).st)
    /\ UNCHANGED <<factories, selected, timeSyncSet, settingsPending, shown>>

(* Mutant: no fallback to the first plugin when the selected one fails. *)
FromSettingsNoFallback ==
    LET plugins == AvailableSimulatorPlugins
    IN  /\ Running
        /\ plugins # <<>>
        /\ Apply(IF Len(plugins) = 1
                 THEN LoadSimulatorPluginOf(Cur, plugins[1]).st
                 ELSE LoadSimulatorPluginOf(Cur, selected).st)
        /\ UNCHANGED <<factories, selected, timeSyncSet, settingsPending, shown>>

(* loadSimulatorPluginFromSettings: the only plugin, else the selected    *)
(* one, else the first by short name.  With no plugin it does nothing.    *)
LoadSimulatorPluginFromSettings ==
    LET plugins == AvailableSimulatorPlugins
        bySel   == LoadSimulatorPluginOf(Cur, selected)
    IN  /\ Running
        /\ plugins # <<>>
        /\ Apply(IF Len(plugins) = 1
                 THEN LoadSimulatorPluginOf(Cur, plugins[1]).st
                 ELSE IF bySel.ok THEN bySel.st
                      ELSE LoadSimulatorPluginOf(bySel.st, plugins[1]).st)
        /\ UNCHANGED <<factories, selected, timeSyncSet, settingsPending, shown>>

UnloadSimulatorPlugin ==
    /\ Running
    /\ simulator # NoSim
    /\ Apply(UnloadOf(Cur))
    /\ UNCHANGED <<factories, selected, timeSyncSet, settingsPending, shown>>

Others(vs) == UNCHANGED <<factories, selected, timeSyncSet, settingsPending>>
                /\ UNCHANGED vs

(* connectToSimulator: a synchronous connect that may fail. *)
ConnectToSimulator ==
    /\ Running
    /\ simulator # NoSim
    /\ conn # "Connected"
    /\ conn' = "Connected"
    /\ shown' = TRUE
    /\ Others(<<simulator, simTimeSync, crashed>>)

AsyncConnectToSimulator ==
    /\ Running
    /\ simulator # NoSim
    /\ conn = "Disconnected"
    /\ Apply(AsyncConnectOf(Cur))
    /\ Others(<<shown>>)

(* disconnectFromSimulator: the driver's status change is delivered to   *)
(* ps_onConnectionStatusChanged while its signals are connected.         *)
DisconnectFromSimulator ==
    /\ Running
    /\ simulator # NoSim
    /\ conn # "Disconnected"
    /\ conn' = "Disconnected"
    /\ shown' = FALSE
    /\ Others(<<simulator, simTimeSync, crashed>>)

SetTimeSynchronization(enable) ==
    /\ Running
    /\ simulator # NoSim
    /\ simTimeSync' = enable
    /\ Others(<<simulator, conn, shown, crashed>>)

(* The loaded driver changes its status on its own (an asynchronous      *)
(* connect ends, the simulator quits) and ps_onConnectionStatusChanged    *)
(* emits connectionChanged(status == Connected).                          *)
DriverStatusChanged(status) ==
    /\ Running
    /\ simulator # NoSim
    /\ conn # status
    /\ conn = "Connecting" \/ status = "Disconnected"
    /\ conn' = status
    /\ shown' = (status = "Connected")
    /\ Others(<<simulator, simTimeSync, crashed>>)

(* The settings context stores new simulator settings and notifies the    *)
(* simulator context of them.                                             *)
ChangeSimulatorSettings(plugin, timeSync) ==
    /\ Running
    /\ selected' = plugin
    /\ timeSyncSet' = timeSync
    /\ settingsPending' = TRUE
    /\ UNCHANGED <<factories, simulator, simTimeSync, conn, shown, crashed>>

SettingsChanged ==
    /\ Running
    /\ settingsPending
    /\ settingsPending' = FALSE
    /\ Apply(SettingsChangedOf(Cur))
    /\ UNCHANGED <<factories, selected, timeSyncSet, shown>>

(* After a call through a null pointer the process is gone. *)
Crashed == crashed /\ UNCHANGED vars

Next ==
    \/ \E p \in Plugins \cup {Unspecified} : LoadSimulatorPlugin(p)
    \/ LoadSimulatorPluginFromSettings
    \/ UnloadSimulatorPlugin
    \/ ConnectToSimulator
    \/ AsyncConnectToSimulator
    \/ DisconnectFromSimulator
    \/ \E e \in BOOLEAN : SetTimeSynchronization(e)
    \/ \E s \in Status : DriverStatusChanged(s)
    \/ \E p \in Plugins \cup {Unspecified}, e \in BOOLEAN :
           ChangeSimulatorSettings(p, e)
    \/ SettingsChanged
    \/ Crashed

Spec == Init /\ [][Next]_vars

-----------------------------------------------------------------------------
(* Once the settings have been passed to settingsChanged, a loaded driver *)
(* is the selected plugin whenever that plugin is installed: whichever   *)
(* plugin loadSimulatorPlugin or loadSimulatorPluginFromSettings was      *)
(* asked for, its nested settingsChanged replaces it by the selected one. *)
SelectedPluginLoaded ==
    ~settingsPending /\ simulator # NoSim /\ selected \in factories
        => simulator = selected

(* loadSimulatorPluginFromSettings ends with the selected plugin loaded  *)
(* if it is installed and otherwise with the first plugin by short name,  *)
(* whatever driver was loaded before: the single-plugin branch, the       *)
(* fallback and the nested settingsChanged loads together.                *)
FirstByShortName ==
    CHOOSE p \in factories : \A q \in factories : ShortName[p] <= ShortName[q]

FromSettingsLoadsSelectedOrFirst ==
    [][LoadSimulatorPluginFromSettings =>
         simulator' = IF selected \in factories THEN selected
                      ELSE FirstByShortName]_vars

(* A call through m_simulator never finds it null: settingsChanged sets   *)
(* the time synchronization after trying to load the selected plugin.    *)
NoNullSimulatorUse == ~crashed
====
