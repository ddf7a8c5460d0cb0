----------------------- MODULE MC_AtcStationComponent -----------------------
(* One ATC callsign, one voice-room URL, at most 2 queued notifications:  *)
(* enough for a status notification, a digest and a connection change to *)
(* be in flight together.                                                 *)
EXTENDS AtcStationComponent

CONSTANTS s1, u1

MC_Callsigns == {s1}
MC_Urls == {u1}
MC_MaxQueued == 2

(* States are told apart without what the last step sent or emitted      *)
(* (outputs, read only by the step that writes them) and without the      *)
(* client list and the real-name / server queries, which no guard and no  *)
(* other variable depends on.                                             *)
MC_View == <<connected, online, voiceUrl, atcWatched, booked, bookedOnline,
             {q \in pending : q.kind = "atis"}, guiVars>>
=============================================================================
