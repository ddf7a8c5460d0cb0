--------------------------- MODULE MC_AtcStations ---------------------------
(* One ATC callsign and one voice-room URL.  Every ATC handler touches     *)
(* only its own callsign's entries except clear() and the bookings read,  *)
(* which treat all callsigns alike, so the interesting orders (a reply    *)
(* after a timeout, a booking read while the station is online, clear()   *)
(* after a flag) all happen with one callsign.                            *)
EXTENDS AtcStations

CONSTANTS s1, u1

MC_Callsigns == {s1}
MC_Urls == {u1}
=============================================================================
