-------------------------- MODULE AirspaceMonitor --------------------------
(***************************************************************************)
(* The remote-aircraft half of CAirspaceMonitor                           *)
(* (src/src/blackcore/airspace_monitor.cpp): the in-range aircraft list,  *)
(* the "other clients" list, the ICAO cache, the aircraft watchdog, the   *)
(* situation and parts histories, the deferred "ready for model matching" *)
(* retry, and the simulator context that consumes readyForModelMatching / *)
(* removedAircraft (src/src/blackcore/context_simulator_impl.cpp).        *)
(*                                                                         *)
(* Every handler runs to completion on the monitor's thread, so each is   *)
(* one atomic action.  The network is an unconstrained environment: any   *)
(* decoded event may arrive at any time, also after the connection has    *)
(* dropped (events still being drained).  Time is abstracted to "a window  *)
(* has elapsed" steps: a watchdog deadline passing, a situation ageing    *)
(* out of the retention window.  Per-aircraft fields exist only while the *)
(* aircraft is in range; they are reset when it is removed.               *)
(***************************************************************************)
EXTENDS Naturals, FiniteSets

CONSTANTS
    Callsigns,      \* aircraft callsigns seen on the network
    Icaos,          \* valid aircraft type designators
    NoIcao,         \* an ICAO record without an aircraft designator
    NoEntry,        \* "key not in the ICAO cache"
    NoReady         \* no readyForModelMatching emitted yet

ASSUME NoIcao \notin Icaos /\ NoEntry \notin Icaos \cup {NoIcao}

(* ps_sendReadyForModelMatching retries while trial < 3                    *)
MaxTrials == 3
(* default trial argument of fireDelayedReadyForModelMatching (header)    *)
DefaultTrial == 1

VARIABLES
    connected,      \* m_network->isConnected()
    inRange,        \* callsigns in m_aircraftInRange
    acIcao,         \* designator of an aircraft in range
    named,          \* aircraft in range whose pilot has a valid real name
    synced,         \* aircraft in range with isPartsSynchronized()
    clients,        \* callsigns in m_otherClients
    icaoCache,      \* m_icaoCodeCache
    watched,        \* callsigns armed in m_aircraftWatchdog
    sitAge,         \* m_aircraftSituations per callsign: "none", "fresh", "old"
    partsHeld,      \* callsigns with an entry in m_aircraftParts
    timers,         \* pending singleShot lambdas of fireDelayedReadyForModelMatching
    pluginLoaded,   \* CContextSimulator has a simulator driver
    rendered,       \* aircraft added to the simulator driver
    readyOut,       \* the readyForModelMatching emitted by the last step, if any
    out             \* the kinds of outbound network call made by the last step

vars == <<connected, inRange, acIcao, named, synced, clients, icaoCache,
          watched, sitAge, partsHeld, timers, pluginLoaded, rendered,
          readyOut, out>>

IcaoValues == Icaos \cup {NoIcao}
QueryKinds == {"freq", "name", "caps", "server", "icao", "fsipir", "fsipi", "config"}
(* a pending lambda: the trial it passes, and which attempt of its chain  *)
(* it is (attempt 1 is the call that started the chain)                   *)
Timer      == [cs : Callsigns, trial : 1..(MaxTrials + 2), attempt : 1..(MaxTrials + 1)]

TypeOK ==
    /\ connected \in BOOLEAN
    /\ inRange \subseteq Callsigns
    /\ acIcao \in [Callsigns -> IcaoValues]
    /\ named \subseteq inRange
    /\ synced \subseteq inRange
    /\ clients \subseteq Callsigns
    /\ icaoCache \in [Callsigns -> IcaoValues \cup {NoEntry}]
    /\ watched \subseteq Callsigns
    /\ sitAge \in [Callsigns -> {"none", "fresh", "old"}]
    /\ partsHeld \subseteq Callsigns
    /\ timers \subseteq Timer
    /\ pluginLoaded \in BOOLEAN
    /\ rendered \subseteq Callsigns
    /\ readyOut \in {NoReady} \cup
                    [cs : Callsigns, complete : BOOLEAN, attempt : 1..(MaxTrials + 1)]
    /\ out \subseteq QueryKinds

Init ==
    /\ connected \in BOOLEAN
    /\ inRange = {}
    /\ acIcao = [c \in Callsigns |-> NoIcao]
    /\ named = {}
    /\ synced = {}
    /\ clients = {}
    /\ icaoCache = [c \in Callsigns |-> NoEntry]
    /\ watched = {}
    /\ sitAge = [c \in Callsigns |-> "none"]
    /\ partsHeld = {}
    /\ timers = {}
    /\ pluginLoaded \in BOOLEAN
    /\ rendered = {}
    /\ readyOut = NoReady
    /\ out = {}

-----------------------------------------------------------------------------
(* the readiness decision of ps_sendReadyForModelMatching                 *)
ReadyComplete(cs, icao, nm) == icao \in Icaos /\ cs \in nm

(* emit readyForModelMatching; the simulator context, when a driver is    *)
(* loaded, turns it into addRemoteAircraft                                *)
EmitReady(cs, complete, n) ==
    /\ rendered' = IF pluginLoaded THEN rendered \cup {cs} ELSE rendered
    /\ readyOut' = [cs |-> cs, complete |-> complete, attempt |-> n]

(* Mutation: the "aircraft still in range" early return is missing.     *)
SendReadyNoPresenceCheck(cs, trial, n, inR, icao, nm, tms) ==
    IF trial < MaxTrials /\ ~ReadyComplete(cs, icao, nm)
    THEN /\ timers' = tms \cup {[cs |-> cs, trial |-> trial + 2, attempt |-> n + 1]}
         /\ UNCHANGED rendered
         /\ readyOut' = NoReady
    ELSE /\ timers' = tms
         /\ EmitReady(cs, ReadyComplete(cs, icao, nm), n)

(* Mutation: incomplete data after the last trial is dropped, not emitted *)
SendReadyNoDegrade(cs, trial, n, inR, icao, nm, tms) ==
    /\ timers' = IF cs \in inR /\ trial < MaxTrials /\ ~ReadyComplete(cs, icao, nm)
                 THEN tms \cup {[cs |-> cs, trial |-> trial + 2, attempt |-> n + 1]}
                 ELSE tms
    /\ IF cs \in inR /\ ReadyComplete(cs, icao, nm)
       THEN EmitReady(cs, TRUE, n)
       ELSE /\ UNCHANGED rendered
            /\ readyOut' = NoReady

(* ps_sendReadyForModelMatching(cs, trial) as the n-th attempt of its     *)
(* chain, on the aircraft list inR as the calling step leaves it: abort   *)
(* if the aircraft is gone; retry through                                 *)
(* fireDelayedReadyForModelMatching(cs, trial + 1), whose lambda calls    *)
(* back with (trial + 1) + 1; or emit.                                    *)
SendReadyForModelMatching(cs, trial, n, inR, icao, nm, tms) ==
    IF cs \notin inR
    THEN /\ timers' = tms
         /\ UNCHANGED rendered
         /\ readyOut' = NoReady
    ELSE IF trial < MaxTrials /\ ~ReadyComplete(cs, icao, nm)
    THEN /\ timers' = tms \cup {[cs |-> cs, trial |-> trial + 2, attempt |-> n + 1]}
         /\ UNCHANGED rendered
         /\ readyOut' = NoReady
    ELSE /\ timers' = tms
         /\ EmitReady(cs, ReadyComplete(cs, icao, nm), n)

(* Mutation: the pilot's real name outlives the aircraft object.        *)
DropAircraftKeepName(gone) ==
    /\ inRange' = inRange \ gone
    /\ acIcao' = [c \in Callsigns |-> IF c \in gone THEN NoIcao ELSE acIcao[c]]
    /\ UNCHANGED named
    /\ synced' = synced \ gone

(* the aircraft object is destroyed: its fields go with it                *)
DropAircraft(gone) ==
    /\ inRange' = inRange \ gone
    /\ acIcao' = [c \in Callsigns |-> IF c \in gone THEN NoIcao ELSE acIcao[c]]
    /\ named' = named \ gone
    /\ synced' = synced \ gone

(* ps_pilotDisconnected; removeFromAircraftCaches drops the ICAO entry    *)
(* (the flight-plan entry is in EntityCaches); removedAircraft reaches    *)
(* the simulator context's ps_removeRemoteAircraft                        *)
PilotDisconnectedBody(cs) ==
    /\ watched' = watched \ {cs}
    /\ clients' = clients \ {cs}
    /\ IF cs \in inRange
       THEN /\ DropAircraft({cs})
            /\ icaoCache' = [icaoCache EXCEPT ![cs] = NoEntry]
            /\ rendered' = rendered \ {cs}
       ELSE UNCHANGED <<inRange, acIcao, named, synced, icaoCache, rendered>>
    /\ out' = {}
    /\ UNCHANGED <<connected, sitAge, partsHeld, timers, pluginLoaded>>
    /\ readyOut' = NoReady

(* ps_icaoCodesReceived(cs, icao), the data-file fallback lookup giving   *)
(* dfIcao.  applyIfCallsign counts every aircraft it matches, so c > 0    *)
(* whenever the aircraft is in range.                                     *)
IcaoCodesBody(cs, icao, dfIcao) ==
    LET applied == IF icao # NoIcao THEN icao ELSE dfIcao IN
    IF applied = NoIcao
    THEN /\ UNCHANGED <<acIcao, icaoCache, timers, rendered>>  \* give up
         /\ readyOut' = NoReady
    ELSE IF cs \notin inRange
    THEN /\ icaoCache' = [icaoCache EXCEPT ![cs] = icao]   \* the reply as received
         /\ UNCHANGED <<acIcao, timers, rendered>>
         /\ readyOut' = NoReady
    ELSE /\ acIcao' = [acIcao EXCEPT ![cs] = applied]
         /\ UNCHANGED icaoCache
         /\ SendReadyForModelMatching(cs, 1, 1, inRange, applied, named, timers)

-----------------------------------------------------------------------------
(***************************************************************************)
(* Network events                                                          *)
(***************************************************************************)

(* Mutation: the cached ICAO entry is read but left in the cache.       *)
KeepInIcaoCache(cs) == UNCHANGED icaoCache

(* a cached ICAO reply is consumed by the aircraft it is applied to       *)
TakeFromIcaoCache(cs) == icaoCache' = [icaoCache EXCEPT ![cs] = NoEntry]

(* ps_aircraftUpdateReceived: store the situation and prune the history;  *)
(* create the aircraft (ICAO from the cache, pilot name maybe from the    *)
(* VATSIM data file, placeholder client) and, only while connected, query *)
(* it, start the readiness chain or ask for ICAO codes, and arm the       *)
(* watchdog; or, for a known aircraft, reset the watchdog.                *)
AircraftUpdate(cs) ==
    /\ sitAge' = [c \in Callsigns |->
                    IF c = cs THEN "fresh"
                    ELSE IF sitAge[c] = "old" THEN "none" ELSE sitAge[c]]
    /\ IF cs \notin inRange
       THEN LET setIcao == icaoCache[cs] # NoEntry IN
            \E dataFileName \in BOOLEAN :
               /\ inRange' = inRange \cup {cs}
               /\ acIcao' = [acIcao EXCEPT ![cs] = IF setIcao THEN icaoCache[cs] ELSE NoIcao]
               /\ named' = IF dataFileName THEN named \cup {cs} ELSE named
               /\ TakeFromIcaoCache(cs)
               /\ clients' = clients \cup {cs}
               /\ IF connected
                  THEN /\ out' = {"fsipir", "freq", "name", "caps", "server"}
                                 \cup (IF setIcao THEN {} ELSE {"icao"})
                       /\ timers' = IF setIcao
                                    THEN timers \cup {[cs |-> cs, trial |-> DefaultTrial + 1, attempt |-> 1]}
                                    ELSE timers
                       /\ watched' = watched \cup {cs}
                  ELSE /\ out' = {}
                       /\ UNCHANGED <<timers, watched>>
       ELSE /\ out' = {}
            /\ UNCHANGED <<inRange, acIcao, named, icaoCache, clients, timers, watched>>
    /\ UNCHANGED <<connected, synced, partsHeld, pluginLoaded, rendered>>
    /\ readyOut' = NoReady

(* ps_pilotDisconnected, for an explicit delete-pilot packet              *)
PilotDisconnected(cs) == PilotDisconnectedBody(cs)

(* ps_icaoCodesReceived                                                   *)
IcaoCodesReceived(cs, icao) ==
    \E dfIcao \in IcaoValues :
       /\ IcaoCodesBody(cs, icao, dfIcao)
       /\ out' = {}
       /\ UNCHANGED <<connected, inRange, named, synced, clients, watched,
                      sitAge, partsHeld, pluginLoaded>>

(* ps_realNameReplyReceived (non-empty name): patch the pilot of an       *)
(* aircraft in range, create or patch the client                          *)
RealNameReceived(cs) ==
    /\ named' = named \cup ({cs} \cap inRange)
    /\ clients' = clients \cup {cs}
    /\ out' = {}
    /\ UNCHANGED <<connected, inRange, acIcao, synced, icaoCache, watched,
                   sitAge, partsHeld, timers, pluginLoaded, rendered>>
    /\ readyOut' = NoReady

(* ps_capabilitiesReplyReceived: create or patch the client; ask for the  *)
(* full aircraft config if the peer supports configs                      *)
CapabilitiesReceived(cs, supportsConfig) ==
    /\ clients' = clients \cup {cs}
    /\ out' = IF supportsConfig THEN {"config"} ELSE {}
    /\ UNCHANGED <<connected, inRange, acIcao, named, synced, icaoCache,
                   watched, sitAge, partsHeld, timers, pluginLoaded,
                   rendered>>
    /\ readyOut' = NoReady

(* ps_fsipirCustomPacketReceived with a non-empty model string: create or *)
(* patch the client, answer with our own FSIPI packet, and pass a         *)
(* non-empty designator on to ps_icaoCodesReceived                        *)
(* (an empty callsign or model string returns at once, changing nothing,  *)
(* so it is no step)                                                      *)
FsipirCustomPacketReceived(cs, designator) ==
    /\ clients' = clients \cup {cs}
    /\ out' = {"fsipi"}
    /\ IF designator = NoIcao
       THEN /\ UNCHANGED <<acIcao, icaoCache, timers, rendered>>
            /\ readyOut' = NoReady
       ELSE IcaoCodesBody(cs, designator, NoIcao)
    /\ UNCHANGED <<connected, inRange, named, synced, watched, sitAge,
                   partsHeld, pluginLoaded>>

(* ps_serverReplyReceived: create or patch the client                     *)
ServerReplyReceived(cs) ==
    /\ clients' = clients \cup {cs}
    /\ out' = {}
    /\ UNCHANGED <<connected, inRange, acIcao, named, synced, icaoCache,
                   watched, sitAge, partsHeld, timers, pluginLoaded,
                   rendered>>
    /\ readyOut' = NoReady

(* ps_aircraftConfigReceived: known aircraft only; incremental packets    *)
(* only once synchronised; append the merged parts, mark synchronised,    *)
(* reset the watchdog (the merge itself is in PartsSync)                  *)
AircraftConfigReceived(cs, isFull) ==
    /\ cs \in inRange
    /\ cs \in synced \/ isFull
    /\ partsHeld' = partsHeld \cup {cs}
    /\ synced' = synced \cup {cs}
    /\ out' = {}
    /\ UNCHANGED <<connected, inRange, acIcao, named, clients, icaoCache,
                   watched, sitAge, timers, pluginLoaded, rendered>>
    /\ readyOut' = NoReady

-----------------------------------------------------------------------------
(***************************************************************************)
(* Timers, public calls, the connection and time                          *)
(***************************************************************************)

(* the singleShot lambda of fireDelayedReadyForModelMatching fires        *)
ReadyTimerFires(t) ==
    /\ t \in timers
    /\ SendReadyForModelMatching(t.cs, t.trial, t.attempt, inRange,
                                 acIcao[t.cs], named, timers \ {t})
    /\ out' = {}
    /\ UNCHANGED <<connected, inRange, acIcao, named, synced, clients,
                   icaoCache, watched, sitAge, partsHeld, pluginLoaded>>

(* CAirspaceWatchdog: no reset before the deadline; the callsign is       *)
(* dropped and the timeout signal runs ps_pilotDisconnected               *)
WatchdogTimeout(cs) ==
    /\ cs \in watched
    /\ PilotDisconnectedBody(cs)

(* the retention window passes over the situations of a callsign          *)
SituationsAge(cs) ==
    /\ sitAge[cs] = "fresh"
    /\ sitAge' = [sitAge EXCEPT ![cs] = "old"]
    /\ out' = {}
    /\ UNCHANGED <<connected, inRange, acIcao, named, synced, clients,
                   icaoCache, watched, partsHeld, timers, pluginLoaded,
                   rendered>>
    /\ readyOut' = NoReady

(* requestDataUpdates: while connected, query every aircraft's frequency  *)
(* and, where it has no valid designator yet, its ICAO codes              *)
RequestDataUpdates ==
    /\ connected
    /\ out' = (IF inRange # {} THEN {"freq"} ELSE {})
              \cup (IF \E c \in inRange : acIcao[c] \notin Icaos THEN {"icao"} ELSE {})
    /\ UNCHANGED <<connected, inRange, acIcao, named, synced, clients,
                   icaoCache, watched, sitAge, partsHeld, timers,
                   pluginLoaded, rendered>>
    /\ readyOut' = NoReady

(* clear(): the ICAO cache, then removeAllAircraft (watchdog emptied,     *)
(* removedAircraft for each aircraft, histories cleared) and              *)
(* removeAllOtherClients; pending singleShot timers stay queued           *)
Clear ==
    /\ DropAircraft(inRange)
    /\ rendered' = rendered \ inRange
    /\ clients' = {}
    /\ icaoCache' = [c \in Callsigns |-> NoEntry]
    /\ watched' = {}
    /\ sitAge' = [c \in Callsigns |-> "none"]
    /\ partsHeld' = {}
    /\ out' = {}
    /\ UNCHANGED <<connected, timers, pluginLoaded>>
    /\ readyOut' = NoReady

(* INetwork connection status changes                                      *)
Connect ==
    /\ ~connected
    /\ connected' = TRUE
    /\ out' = {}
    /\ UNCHANGED <<inRange, acIcao, named, synced, clients, icaoCache,
                   watched, sitAge, partsHeld, timers, pluginLoaded,
                   rendered>>
    /\ readyOut' = NoReady

Disconnect ==
    /\ connected
    /\ connected' = FALSE
    /\ out' = {}
    /\ UNCHANGED <<inRange, acIcao, named, synced, clients, icaoCache,
                   watched, sitAge, partsHeld, timers, pluginLoaded,
                   rendered>>
    /\ readyOut' = NoReady

(* CContextSimulator::loadSimulatorPlugin of a simulator other than the   *)
(* loaded one: the old driver is unloaded, the new one is connected to    *)
(* readyForModelMatching / removedAircraft and given every aircraft in    *)
(* range.  Reloading the loaded simulator returns at once, and an empty  *)
(* factory list or a missing plugin returns before the old one is unloaded;*)
(* none of these changes the monitor's state, so they are no steps.       *)
LoadSimulatorPlugin ==
    /\ pluginLoaded' = TRUE
    /\ rendered' = inRange
    /\ out' = {}
    /\ UNCHANGED <<connected, inRange, acIcao, named, synced, clients,
                   icaoCache, watched, sitAge, partsHeld, timers>>
    /\ readyOut' = NoReady

(* CContextSimulator::unloadSimulatorPlugin                               *)
UnloadSimulatorPlugin ==
    /\ pluginLoaded
    /\ pluginLoaded' = FALSE
    /\ rendered' = {}
    /\ out' = {}
    /\ UNCHANGED <<connected, inRange, acIcao, named, synced, clients,
                   icaoCache, watched, sitAge, partsHeld, timers>>
    /\ readyOut' = NoReady

-----------------------------------------------------------------------------
Next ==
    \/ \E cs \in Callsigns :
          \/ AircraftUpdate(cs)
          \/ PilotDisconnected(cs)
          \/ \E icao \in IcaoValues : IcaoCodesReceived(cs, icao)
          \/ RealNameReceived(cs)
          \/ \E b \in BOOLEAN : CapabilitiesReceived(cs, b)
          \/ \E d \in IcaoValues : FsipirCustomPacketReceived(cs, d)
          \/ ServerReplyReceived(cs)
          \/ \E isFull \in BOOLEAN : AircraftConfigReceived(cs, isFull)
          \/ WatchdogTimeout(cs)
          \/ SituationsAge(cs)
    \/ \E t \in timers : ReadyTimerFires(t)
    \/ RequestDataUpdates
    \/ Clear
    \/ Connect
    \/ Disconnect
    \/ LoadSimulatorPlugin
    \/ UnloadSimulatorPlugin

(* singleShot timers fire while the event loop runs, which it always does *)
Fairness == \A t \in Timer : WF_vars(ReadyTimerFires(t))

Spec == Init /\ [][Next]_vars /\ Fairness

-----------------------------------------------------------------------------
(***************************************************************************)
(* Properties                                                              *)
(***************************************************************************)

(* Every aircraft handed to the simulator driver (readyForModelMatching,  *)
(* or the plugin load) is still in range: a deferred readiness check that *)
(* fires after ps_pilotDisconnected or clear() must not add a departed    *)
(* aircraft, and every removal path must emit removedAircraft.            *)
RenderedAreInRange == rendered \subseteq inRange

(* An ICAO reply parked in m_icaoCodeCache is only ever for a callsign    *)
(* that is not in range: creation consumes the entry, and                 *)
(* ps_icaoCodesReceived / the FSIPIR handler apply it directly once the   *)
(* aircraft exists, so no stale entry waits to overwrite a live aircraft. *)
IcaoCacheOnlyForAbsent == \A cs \in inRange : icaoCache[cs] = NoEntry

(* The deferred ready-for-model-matching retry never stalls: while a     *)
(* readiness check is pending for an aircraft in range, the chain of      *)
(* fireDelayedReadyForModelMatching lambdas ends in readyForModelMatching *)
(* for it, unless the aircraft leaves first (spec 4.4: best-effort        *)
(* degrade rather than an indefinite stall).                              *)
PendingChecks == {t.cs : t \in timers}
ReadinessCheckTerminates ==
    \A cs \in Callsigns :
        (cs \in PendingChecks /\ cs \in inRange)
            ~> ((readyOut # NoReady /\ readyOut.cs = cs) \/ cs \notin inRange)

(* spec 4.4: ready with incomplete data is emitted only after 3 attempts. *)
DegradeAfterThreeAttempts ==
    (readyOut # NoReady /\ ~readyOut.complete) => readyOut.attempt >= MaxTrials
=============================================================================
