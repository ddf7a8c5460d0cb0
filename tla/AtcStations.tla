---------------------------- MODULE AtcStations ----------------------------
(***************************************************************************)
(* The ATC half of CAirspaceMonitor (src/src/blackcore/airspace_monitor.cpp): *)
(* the online stations m_atcStationsOnline, the bookings                  *)
(* m_atcStationsBooked with their "is online" flag, the ATC watchdog, and *)
(* the "other clients" entries that ATC replies create.                   *)
(*                                                                         *)
(* Every handler runs to completion on the monitor's thread: one action   *)
(* each.  A reply arrives only for a query the monitor sent and that is   *)
(* still outstanding; it may arrive late, after the station has timed out *)
(* or the connection has dropped, or never.  A controller that logs off   *)
(* answers nothing more (its replies precede its #DA on the server's      *)
(* stream).  Station data (frequency, ATIS text, controller name, METAR,  *)
(* logoff time) is abstracted away; what is kept is which collection      *)
(* holds a callsign, the voice-room URL, the bookings' online flag, and   *)
(* the notifications each handler emits, in order.                        *)
(***************************************************************************)
EXTENDS Naturals, Sequences

CONSTANTS
    Callsigns,      \* ATC callsigns seen on the network or in the bookings
    Urls,           \* non-empty voice-room URLs
    NoUrl           \* the empty URL of a station without a voice room

ASSUME NoUrl \notin Urls

VARIABLES
    connected,      \* m_network->isConnected()
    online,         \* callsigns in m_atcStationsOnline
    voiceUrl,       \* voice-room URL of an online station
    atcWatched,     \* callsigns armed in m_atcWatchdog
    booked,         \* callsigns in m_atcStationsBooked
    bookedOnline,   \* booked entries whose IsOnline flag is set
    clients,        \* callsigns in m_otherClients
    pending,        \* queries sent to a controller and not yet answered
    out,            \* queries sent by the last step
    emitted         \* notifications emitted by the last step, in order

vars == <<connected, online, voiceUrl, atcWatched, booked, bookedOnline,
          clients, pending, out, emitted>>

QueryKinds == {"realname", "atis", "server"}
Query      == [kind : QueryKinds, cs : Callsigns]
(* changedAtcStationsOnline, changedAtcStationsBooked and                 *)
(* changedAtcStationOnlineConnectionStatus(station, added)                *)
Signal     == [kind : {"online", "booked"}] \cup
              [kind : {"status"}, cs : Callsigns, added : BOOLEAN]

OnlineSig      == [kind |-> "online"]
BookedSig      == [kind |-> "booked"]
StatusSig(cs, b) == [kind |-> "status", cs |-> cs, added |-> b]
(* the notification is emitted only if the condition held               *)
SigIf(c, s) == IF c THEN <<s>> ELSE <<>>

TypeOK ==
    /\ connected \in BOOLEAN
    /\ online \subseteq Callsigns
    /\ voiceUrl \in [Callsigns -> Urls \cup {NoUrl}]
    /\ atcWatched \subseteq Callsigns
    /\ booked \subseteq Callsigns
    /\ bookedOnline \subseteq booked
    /\ clients \subseteq Callsigns
    /\ pending \subseteq Query
    /\ out \subseteq Query
    /\ emitted \in Seq(Signal)

Init ==
    /\ connected \in BOOLEAN
    /\ online = {} /\ voiceUrl = [cs \in Callsigns |-> NoUrl]
    /\ atcWatched = {}
    /\ booked = {} /\ bookedOnline = {}
    /\ clients = {}
    /\ pending = {} /\ out = {}
    /\ emitted = <<>>

(* the queries of cs still outstanding after the step                     *)
Sent(qs) == /\ out' = qs
            /\ pending' = pending \cup qs
Queries(cs, kinds) == {[kind |-> k, cs |-> cs] : k \in kinds}
Answer(k, cs) == /\ [kind |-> k, cs |-> cs] \in pending
                 /\ pending' = pending \ {[kind |-> k, cs |-> cs]}
                 /\ out' = {}

-----------------------------------------------------------------------------
(* Mutation: the station is armed in the watchdog only while connected,   *)
(* as ps_aircraftUpdateReceived does for aircraft.                        *)
AtcPositionUpdateWatchOnlyConnected(cs) ==
    /\ \/ /\ cs \notin online
          /\ \E prefill \in Urls \cup {NoUrl} :
                voiceUrl' = [voiceUrl EXCEPT ![cs] = prefill]
          /\ online' = online \cup {cs}
          /\ IF connected THEN Sent(Queries(cs, QueryKinds)) ELSE Sent({})
          /\ atcWatched' = IF connected THEN atcWatched \cup {cs} ELSE atcWatched
          /\ emitted' = <<OnlineSig>>
       \/ /\ cs \in online
          /\ \E changed \in BOOLEAN : emitted' = SigIf(changed, OnlineSig)
          /\ Sent({})
          /\ UNCHANGED <<online, voiceUrl, atcWatched>>
    /\ UNCHANGED <<connected, booked, bookedOnline, clients>>

(* ps_atcPositionUpdate.  An unknown callsign becomes a new online        *)
(* station, pre-filled from the VATSIM data file (which may carry a voice *)
(* room); real-name, ATIS and server queries go out only when connected; *)
(* the station is always armed in the ATC watchdog.  A known station has  *)
(* frequency, position and range patched (skipEqualValues, so the         *)
(* notification only on a real change) and its watchdog reset.            *)
AtcPositionUpdate(cs) ==
    /\ \/ /\ cs \notin online
          /\ \E prefill \in Urls \cup {NoUrl} :
                voiceUrl' = [voiceUrl EXCEPT ![cs] = prefill]
          /\ online' = online \cup {cs}
          /\ IF connected THEN Sent(Queries(cs, QueryKinds)) ELSE Sent({})
          /\ atcWatched' = atcWatched \cup {cs}
          /\ emitted' = <<OnlineSig>>
       \/ /\ cs \in online
          /\ \E changed \in BOOLEAN : emitted' = SigIf(changed, OnlineSig)
          /\ Sent({})
          /\ UNCHANGED <<online, voiceUrl, atcWatched>>
    /\ UNCHANGED <<connected, booked, bookedOnline, clients>>

(* the body of ps_atcControllerDisconnected: out of the watchdog and the  *)
(* client list; an online station is removed with "online" and            *)
(* status(station, false); the booking is flagged offline, silently.      *)
AtcControllerDisconnectedBody(cs) ==
    /\ atcWatched' = atcWatched \ {cs}
    /\ clients' = clients \ {cs}
    /\ online' = online \ {cs}
    /\ voiceUrl' = [voiceUrl EXCEPT ![cs] = NoUrl]
    /\ emitted' = IF cs \in online THEN <<OnlineSig, StatusSig(cs, FALSE)>> ELSE <<>>
    /\ bookedOnline' = bookedOnline \ {cs}
    /\ UNCHANGED <<connected, booked>>

(* #DA from the server: the controller has logged off and will answer     *)
(* none of its outstanding queries                                       *)
AtcControllerDisconnected(cs) ==
    /\ AtcControllerDisconnectedBody(cs)
    /\ pending' = {q \in pending : q.cs # cs}
    /\ out' = {}

(* CAirspaceWatchdog (spec 4.3): no position update within 50 s; the     *)
(* callsign leaves the watchdog and timeout() runs                        *)
(* ps_atcControllerDisconnected.  The controller may still be there, so   *)
(* its replies may still come.                                            *)
AtcWatchdogTimeout(cs) ==
    /\ cs \in atcWatched
    /\ AtcControllerDisconnectedBody(cs)
    /\ UNCHANGED pending /\ out' = {}

(* ps_atisVoiceRoomReceived: the URL is applied to the online station    *)
(* with skipEqualValues; unless it really changes the handler returns.    *)
(* Otherwise "online" and status(station, true) go out, and the booking   *)
(* gets the URL and IsOnline (skipEqualValues again, so "booked" only if  *)
(* something changed; the booking's own URL is not modelled and may       *)
(* differ).  The client's voice capability is set on an existing entry.   *)
VoiceRoomChanged(cs, url) == cs \in online /\ url # voiceUrl[cs]
AtisVoiceRoomSigs(cs, url, bookedUrlDiffers) ==
    IF VoiceRoomChanged(cs, url)
    THEN <<OnlineSig, StatusSig(cs, TRUE)>>
         \o SigIf(cs \in booked /\ (cs \notin bookedOnline \/ bookedUrlDiffers), BookedSig)
    ELSE <<>>

(* ps_atisLogoffTimeReceived: a 4-digit "hhmm" is applied with            *)
(* skipEqualValues to the online station and the booking, each notified  *)
(* if it changed                                                          *)
AtisLogoffTimeSigs(cs, valid, changedOnline, changedBooked) ==
    IF valid THEN SigIf(changedOnline /\ cs \in online, OnlineSig)
                  \o SigIf(changedBooked /\ cs \in booked, BookedSig)
             ELSE <<>>

(* ps_atisReceived: the ATIS goes to the online station and, together     *)
(* with IsOnline, to the booking, whether or not the station is online    *)
AtisSigs(cs) == SigIf(cs \in online, OnlineSig) \o SigIf(cs \in booked, BookedSig)

(* CNetworkVatlib::onAtisReplyReceived: one ATIS reply emits the voice    *)
(* room, then the logoff time, then, unless a text line is a placeholder  *)
(* ("z", "z1", a single character) that makes it return first, the ATIS.  *)
(* The three monitor handlers run in this order within the callback.      *)
AtisReplyReceived(cs, url, logoffValid, placeholder) ==
    /\ Answer("atis", cs)
    /\ \E bookedUrlDiffers, logoffOnline, logoffBooked \in BOOLEAN :
         LET vrChanged == VoiceRoomChanged(cs, url)
             flagged   == (IF vrChanged THEN {cs} ELSE {})
                          \cup (IF placeholder THEN {} ELSE {cs})
         IN /\ voiceUrl' = IF vrChanged THEN [voiceUrl EXCEPT ![cs] = url] ELSE voiceUrl
            /\ bookedOnline' = bookedOnline \cup (flagged \cap booked)
            /\ emitted' = AtisVoiceRoomSigs(cs, url, bookedUrlDiffers)
                          \o AtisLogoffTimeSigs(cs, logoffValid, logoffOnline, logoffBooked)
                          \o (IF placeholder THEN <<>> ELSE AtisSigs(cs))
    /\ UNCHANGED <<connected, online, atcWatched, booked, clients>>

(* ps_metarReceived: a METAR of at least 10 characters is applied to the  *)
(* "<ICAO>_TWR" station cs, online and booked, with a notification for    *)
(* each list that holds it (the METAR cache is in EntityCaches)           *)
MetarReceived(cs, longEnough) ==
    /\ emitted' = IF longEnough
                  THEN SigIf(cs \in online, OnlineSig) \o SigIf(cs \in booked, BookedSig)
                  ELSE <<>>
    /\ out' = {}
    /\ UNCHANGED <<connected, online, voiceUrl, atcWatched, booked, bookedOnline,
                   clients, pending>>

(* ps_realNameReplyReceived: an empty name is ignored; otherwise the name *)
(* goes to the stations (silently) and the client entry is created if    *)
(* missing                                                                *)
RealNameReplyReceived(cs, nonEmpty) ==
    /\ Answer("realname", cs)
    /\ clients' = IF nonEmpty THEN clients \cup {cs} ELSE clients
    /\ emitted' = <<>>
    /\ UNCHANGED <<connected, online, voiceUrl, atcWatched, booked, bookedOnline>>

(* ps_serverReplyReceived: a non-empty server name creates the client     *)
(* entry if missing                                                       *)
ServerReplyReceived(cs, nonEmpty) ==
    /\ Answer("server", cs)
    /\ clients' = IF nonEmpty THEN clients \cup {cs} ELSE clients
    /\ emitted' = <<>>
    /\ UNCHANGED <<connected, online, voiceUrl, atcWatched, booked, bookedOnline>>

(* CAtcStationList::mergeWithBooking (blackmisc, spec 3: "both sides are  *)
(* updated"): a booking whose station is online is flagged online         *)
MergeWithBooking(newBooked) == newBooked \cap online

(* Mutation: the booked list is not cleared before the bookings just read *)
(* are pushed, so flags of bookings no longer listed survive.             *)
ReceivedBookingsKeepFlags(newBooked) ==
    /\ booked' = newBooked
    /\ bookedOnline' = bookedOnline \cup MergeWithBooking(newBooked)
    /\ emitted' = <<BookedSig>>
    /\ out' = {}
    /\ UNCHANGED <<connected, online, voiceUrl, atcWatched, clients, pending>>

(* ps_receivedBookings: the booked list is replaced by the bookings just  *)
(* read, each merged with its online station                              *)
ReceivedBookings(newBooked) ==
    /\ booked' = newBooked
    /\ bookedOnline' = MergeWithBooking(newBooked)
    /\ emitted' = <<BookedSig>>
    /\ out' = {}
    /\ UNCHANGED <<connected, online, voiceUrl, atcWatched, clients, pending>>

(* requestAtisUpdates: when connected, an ATIS query per online station   *)
RequestAtisUpdates ==
    /\ IF connected THEN Sent({[kind |-> "atis", cs |-> cs] : cs \in online})
                    ELSE Sent({})
    /\ emitted' = <<>>
    /\ UNCHANGED <<connected, online, voiceUrl, atcWatched, booked, bookedOnline, clients>>

(* the ATC part of clear(): removeAllOnlineAtcStations (watchdog emptied, *)
(* online list cleared, no notification, bookings untouched) and          *)
(* removeAllOtherClients                                                  *)
Clear ==
    /\ atcWatched' = {}
    /\ online' = {}
    /\ voiceUrl' = [cs \in Callsigns |-> NoUrl]
    /\ clients' = {}
    /\ emitted' = <<>> /\ out' = {}
    /\ UNCHANGED <<connected, booked, bookedOnline, pending>>

(* the network session reaches or leaves the connected state; replies to  *)
(* queries already sent may still be drained afterwards                   *)
Connect ==
    /\ ~connected /\ connected' = TRUE
    /\ emitted' = <<>> /\ out' = {}
    /\ UNCHANGED <<online, voiceUrl, atcWatched, booked, bookedOnline, clients, pending>>

Disconnect ==
    /\ connected /\ connected' = FALSE
    /\ emitted' = <<>> /\ out' = {}
    /\ UNCHANGED <<online, voiceUrl, atcWatched, booked, bookedOnline, clients, pending>>

(* every step of the monitor and its network but clear()                 *)
NextExceptClear ==
    \/ \E cs \in Callsigns :
          \/ AtcPositionUpdate(cs)
          \/ AtcControllerDisconnected(cs)
          \/ AtcWatchdogTimeout(cs)
          \/ \E url \in Urls \cup {NoUrl}, lv, ph \in BOOLEAN : AtisReplyReceived(cs, url, lv, ph)
          \/ \E b \in BOOLEAN : MetarReceived(cs, b)
                                \/ RealNameReplyReceived(cs, b)
                                \/ ServerReplyReceived(cs, b)
    \/ \E nb \in SUBSET Callsigns : ReceivedBookings(nb)
    \/ RequestAtisUpdates
    \/ Connect
    \/ Disconnect

Next == NextExceptClear \/ Clear

Spec == Init /\ [][Next]_vars

-----------------------------------------------------------------------------
(* Every online station is armed in the ATC watchdog and nothing else is: *)
(* ps_atcPositionUpdate arms a new station whether or not the network is  *)
(* connected, every removal path disarms it, and clear() empties both.    *)
(* Otherwise a station created while disconnected would never time out.  *)
AtcWatchedIffOnline == atcWatched = online

(* Spec 3 and 4.4: a booking is flagged online exactly while its station  *)
(* is online; ATC disconnect "marks the corresponding booked-list entry   *)
(* as offline".                                                           *)
BookedFlagImpliesOnline == bookedOnline \subseteq online

=============================================================================
