------------------------- MODULE AtcStationComponent -------------------------
(***************************************************************************)
(* The ATC station views of the GUI, CAtcStationComponent                 *)
(* (src/src/blackgui/components/atcstationcomponent.cpp), composed with   *)
(* the ATC half of the airspace monitor (AtcStations) that feeds them.    *)
(*                                                                         *)
(* The component hears the monitor through the network context, over     *)
(* queued connections: the per-station                                    *)
(* changedAtcStationOnlineConnectionStatus and connectionStatusChanged    *)
(* arrive in emission order (one sender, one receiver thread), and the    *)
(* "online" / "booked" notifications arrive as digests, coalesced and     *)
(* delayed.  They only mark the data as changed; the component pulls the  *)
(* monitor's lists in update(), run by its update timer while connected,  *)
(* and skipped while it is hidden and already shows data.                 *)
(*                                                                         *)
(* The monitor's clear() is the context's reaction to a disconnect (spec  *)
(* 5: it "must be called on disconnect/logout"), so it is taken only      *)
(* while disconnected.  The station-list settings are taken to be the     *)
(* defaults: no filter on frequency, voice room or range.                 *)
(***************************************************************************)
EXTENDS Naturals, Sequences

CONSTANTS
    Callsigns,
    Urls,
    NoUrl,
    MaxQueued       \* queued notifications not yet delivered to the component

VARIABLES
    connected, online, voiceUrl, atcWatched, booked, bookedOnline,
    clients, pending, out, emitted,
    chan,           \* notifications queued for the component's thread
    digestOnline,   \* changedAtcStationsOnlineDigest due, not yet queued
    digestBooked,   \* changedAtcStationsBookedDigest due, not yet queued
    view,           \* stations shown in tvp_AtcStationsOnline
    bookedView,     \* bookings shown in tvp_AtcStationsBooked
    bookedViewOnline, \* shown bookings whose online flag is set
    onlineStamped,  \* m_timestampOnlineStationsChanged is a valid time
    onlineDirty,    \* m_timestampOnlineStationsChanged > m_timestampLastReadOnlineStations
    bookedDirty,    \* m_timestampBookedStationsChanged > m_timestampLastReadBookedStations
    timerActive,    \* m_updateTimer.isActive()
    visible,        \* isVisibleWidget()
    shots           \* pending singleShot updates of infoAreaTabBarChanged

M == INSTANCE AtcStations

monitorVars == <<connected, online, voiceUrl, atcWatched, booked, bookedOnline,
                 clients, pending, out, emitted>>
guiVars == <<chan, digestOnline, digestBooked, view, bookedView, bookedViewOnline,
             onlineStamped, onlineDirty, bookedDirty, timerActive, visible, shots>>
vars == <<monitorVars, guiVars>>

(* the 1000 ms singleShots of infoAreaTabBarChanged still pending         *)
MaxShots == 1

Queued == M!Signal \cup [kind : {"conn"}, up : BOOLEAN]
          \cup [kind : {"onlineDigest", "bookedDigest"}]

TypeOK ==
    /\ M!TypeOK
    /\ chan \in Seq(Queued) /\ Len(chan) <= MaxQueued
    /\ digestOnline \in BOOLEAN /\ digestBooked \in BOOLEAN
    /\ view \subseteq Callsigns
    /\ bookedView \subseteq Callsigns /\ bookedViewOnline \subseteq bookedView
    /\ onlineStamped \in BOOLEAN /\ onlineDirty \in BOOLEAN /\ bookedDirty \in BOOLEAN
    /\ timerActive \in BOOLEAN /\ visible \in BOOLEAN
    /\ shots \in 0..MaxShots

(* the component is built at start-up; its constructor runs               *)
(* settingsChanged(), which, when connected, stamps the online data as    *)
(* changed, starts the timer and pulls the (still empty) lists            *)
Init ==
    /\ M!Init
    /\ chan = <<>> /\ digestOnline = FALSE /\ digestBooked = FALSE
    /\ view = {} /\ bookedView = {} /\ bookedViewOnline = {}
    /\ onlineStamped = connected /\ onlineDirty = FALSE /\ bookedDirty = FALSE
    /\ timerActive = connected
    /\ visible \in BOOLEAN
    /\ shots = 0

-----------------------------------------------------------------------------
(* Monitor side.  A step of the monitor queues its status notifications   *)
(* in order, arms the digests of its "online" / "booked" notifications,   *)
(* and, if the connection changed, queues connectionStatusChanged.        *)
IsStatus(s) == s.kind = "status"
Forward ==
    /\ chan' = chan \o SelectSeq(emitted', IsStatus)
                    \o (IF connected' # connected
                        THEN <<[kind |-> "conn", up |-> connected']>> ELSE <<>>)
    /\ Len(chan') <= MaxQueued
    /\ digestOnline' = (digestOnline \/ \E i \in 1..Len(emitted') : emitted'[i] = M!OnlineSig)
    /\ digestBooked' = (digestBooked \/ \E i \in 1..Len(emitted') : emitted'[i] = M!BookedSig)
    /\ UNCHANGED <<view, bookedView, bookedViewOnline, onlineStamped, onlineDirty,
                   bookedDirty, timerActive, visible, shots>>

MonitorStep ==
    /\ M!NextExceptClear \/ (~connected /\ M!Clear)
    /\ Forward

(* CDigestSignal of the network context (not under src/): after its delay *)
(* one digest notification stands for the whole burst                     *)
DigestOnlineFires ==
    /\ digestOnline /\ Len(chan) < MaxQueued
    /\ chan' = Append(chan, [kind |-> "onlineDigest"]) /\ digestOnline' = FALSE
    /\ UNCHANGED <<monitorVars, digestBooked, view, bookedView, bookedViewOnline,
                   onlineStamped, onlineDirty, bookedDirty, timerActive, visible, shots>>

DigestBookedFires ==
    /\ digestBooked /\ Len(chan) < MaxQueued
    /\ chan' = Append(chan, [kind |-> "bookedDigest"]) /\ digestBooked' = FALSE
    /\ UNCHANGED <<monitorVars, digestOnline, view, bookedView, bookedViewOnline,
                   onlineStamped, onlineDirty, bookedDirty, timerActive, visible, shots>>

-----------------------------------------------------------------------------
(* Component side.                                                        *)

(* CAtcStationView::changedAtcStationConnectionStatus (not under src/):   *)
(* an added station is shown, a removed one is taken out of the view      *)
ViewStatusChange(v, cs, added) == IF added THEN v \cup {cs} ELSE v \ {cs}

(* reloadAtcStationsBooked, called other than by the booked view: the     *)
(* bookings are pulled and the read time stamped                          *)
ReloadBooked ==
    /\ bookedView' = booked /\ bookedViewOnline' = bookedOnline
    /\ bookedDirty' = FALSE

(* update(), run with the change marks as the calling handler leaves      *)
(* them.  A hidden component that already shows data skips the update.   *)
(* Otherwise changed bookings are reloaded, and the online stations are   *)
(* pulled when connected and changed, or cleared when not connected.      *)
Update(oDirty, bDirty) ==
    IF (view # {} \/ bookedView # {}) /\ ~visible
    THEN /\ onlineDirty' = oDirty /\ bookedDirty' = bDirty
         /\ UNCHANGED <<view, bookedView, bookedViewOnline>>
    ELSE /\ IF bDirty THEN ReloadBooked
                      ELSE /\ bookedDirty' = bDirty
                           /\ UNCHANGED <<bookedView, bookedViewOnline>>
         /\ IF ~connected THEN view' = {} /\ onlineDirty' = oDirty
            ELSE IF oDirty THEN view' = online /\ onlineDirty' = FALSE
            ELSE view' = view /\ onlineDirty' = oDirty

(* m_updateTimer times out                                                *)
TimerFires ==
    /\ timerActive
    /\ Update(onlineDirty, bookedDirty)
    /\ UNCHANGED <<monitorVars, chan, digestOnline, digestBooked, onlineStamped,
                   timerActive, visible, shots>>

Delivered(kind) == chan # <<>> /\ Head(chan).kind = kind /\ chan' = Tail(chan)

(* changedAtcStationOnlineConnectionStatus: the station is shown or       *)
(* removed at once                                                        *)
DeliverStatus ==
    /\ Delivered("status")
    /\ view' = ViewStatusChange(view, Head(chan).cs, Head(chan).added)
    /\ UNCHANGED <<monitorVars, digestOnline, digestBooked, bookedView, bookedViewOnline,
                   onlineStamped, onlineDirty, bookedDirty, timerActive, visible, shots>>

(* changedAtcStationsOnline: only the change time is stamped; the timer   *)
(* pulls the data                                                         *)
DeliverOnlineDigest ==
    /\ Delivered("onlineDigest")
    /\ onlineStamped' = TRUE /\ onlineDirty' = TRUE
    /\ UNCHANGED <<monitorVars, digestOnline, digestBooked, view, bookedView,
                   bookedViewOnline, bookedDirty, timerActive, visible, shots>>

(* changedAtcStationsBooked: the change time is stamped; without an       *)
(* active timer the update runs at once                                   *)
DeliverBookedDigest ==
    /\ Delivered("bookedDigest")
    /\ IF timerActive
       THEN /\ bookedDirty' = TRUE
            /\ UNCHANGED <<view, bookedView, bookedViewOnline, onlineDirty>>
       ELSE Update(onlineDirty, TRUE)
    /\ UNCHANGED <<monitorVars, digestOnline, digestBooked, onlineStamped,
                   timerActive, visible, shots>>

(* Mutation: on connected only the timer is started, the view is kept.   *)
DeliverConnectionKeepView ==
    /\ Delivered("conn")
    /\ view' = IF Head(chan).up THEN view ELSE {}
    /\ timerActive' = Head(chan).up
    /\ UNCHANGED <<monitorVars, digestOnline, digestBooked, bookedView, bookedViewOnline,
                   onlineStamped, onlineDirty, bookedDirty, visible, shots>>

(* connectionStatusChanged: on connected the online view is cleared and   *)
(* the timer started; on disconnected the timer is stopped and the online *)
(* views cleared                                                          *)
DeliverConnection ==
    /\ Delivered("conn")
    /\ view' = {}
    /\ timerActive' = Head(chan).up
    /\ UNCHANGED <<monitorVars, digestOnline, digestBooked, bookedView, bookedViewOnline,
                   onlineStamped, onlineDirty, bookedDirty, visible, shots>>

(* requestOnlineStationsUpdate (the online view asks for new data): the   *)
(* last read time is set to the epoch, so a valid change time is newer    *)
RequestOnlineStationsUpdate ==
    /\ Update(onlineStamped, bookedDirty)
    /\ UNCHANGED <<monitorVars, chan, digestOnline, digestBooked, onlineStamped,
                   timerActive, visible, shots>>

(* forceUpdate (the station settings changed): stamped as changed now     *)
ForceUpdate ==
    /\ onlineStamped' = TRUE
    /\ Update(TRUE, bookedDirty)
    /\ UNCHANGED <<monitorVars, chan, digestOnline, digestBooked, timerActive,
                   visible, shots>>

(* settingsChanged (the view update interval changed): when connected,    *)
(* stamped as changed, the timer restarted and the update run; otherwise  *)
(* the timer stopped                                                      *)
SettingsChanged ==
    /\ IF connected
       THEN /\ onlineStamped' = TRUE /\ timerActive' = TRUE
            /\ Update(TRUE, bookedDirty)
       ELSE /\ timerActive' = FALSE
            /\ UNCHANGED <<onlineStamped, view, bookedView, bookedViewOnline,
                           onlineDirty, bookedDirty>>
    /\ UNCHANGED <<monitorVars, chan, digestOnline, digestBooked, visible, shots>>

(* infoAreaTabBarChanged: a visible, docked component schedules an        *)
(* update 1000 ms later                                                   *)
InfoAreaTabBarChanged ==
    /\ visible /\ shots < MaxShots
    /\ shots' = shots + 1
    /\ UNCHANGED <<monitorVars, chan, digestOnline, digestBooked, view, bookedView,
                   bookedViewOnline, onlineStamped, onlineDirty, bookedDirty,
                   timerActive, visible>>

ShotFires ==
    /\ shots > 0 /\ shots' = shots - 1
    /\ Update(onlineDirty, bookedDirty)
    /\ UNCHANGED <<monitorVars, chan, digestOnline, digestBooked, onlineStamped,
                   timerActive, visible>>

(* atcStationsTabChanged to the booked tab with an empty booked view      *)
AtcStationsTabChanged ==
    /\ bookedView = {}
    /\ ReloadBooked
    /\ UNCHANGED <<monitorVars, chan, digestOnline, digestBooked, view, onlineStamped,
                   onlineDirty, timerActive, visible, shots>>

(* the component is shown or hidden (dock, tab, window)                   *)
SetVisible(b) ==
    /\ visible # b /\ visible' = b
    /\ UNCHANGED <<monitorVars, chan, digestOnline, digestBooked, view, bookedView,
                   bookedViewOnline, onlineStamped, onlineDirty, bookedDirty,
                   timerActive, shots>>

Next ==
    \/ MonitorStep
    \/ DigestOnlineFires \/ DigestBookedFires
    \/ TimerFires
    \/ DeliverStatus \/ DeliverOnlineDigest \/ DeliverBookedDigest \/ DeliverConnection
    \/ RequestOnlineStationsUpdate \/ ForceUpdate \/ SettingsChanged
    \/ InfoAreaTabBarChanged \/ ShotFires
    \/ AtcStationsTabChanged
    \/ \E b \in BOOLEAN : SetVisible(b)

Spec == Init /\ [][Next]_vars

-----------------------------------------------------------------------------
(* Nothing for the component is still on its way: no queued notification, *)
(* no digest due, no change stamp newer than the last read.               *)
Quiescent == chan = <<>> /\ ~digestOnline /\ ~digestBooked

(* AtcStations!AtcWatchedIffOnline, checked in the composition            *)
AtcWatchedIffOnline == M!AtcWatchedIffOnline

(* While connected, once every queued notification has reached the        *)
(* component, the online view shows no station the monitor no longer has: *)
(* every removal path emits status(station, false) behind the status that *)
(* added it, clear() runs only while disconnected and the                 *)
(* connectionStatusChanged that follows empties the view.                 *)
OnlineViewShowsOnlyOnline == (Quiescent /\ connected) => view \subseteq online

(* Once everything the monitor emitted has reached the component and been *)
(* read, the booked view shows the monitor's bookings with their current  *)
(* online flags (spec 4.4: ATC disconnect marks the booking offline).     *)
BookedViewCurrentWhenQuiescent ==
    (Quiescent /\ ~bookedDirty /\ bookedView # {})
        => bookedViewOnline = bookedOnline \cap bookedView

=============================================================================
