---------------------------- MODULE ConfigSender ----------------------------
(***************************************************************************)
(* What the own-aircraft parts broadcast of CNetworkVatlib promises, with  *)
(* the token bucket, the timers and the vatlib session left out:          *)
(*   - only the current parts are ever broadcast, and only while          *)
(*     connected;                                                          *)
(*   - while connected, parts that differ from the last broadcast ones are *)
(*     eventually broadcast (weak fairness of Broadcast).                  *)
(* The connection and the parts are the environment's; they change       *)
(* freely.  NetworkVatlib is shown to implement this specification.       *)
(***************************************************************************)
CONSTANTS Parts

VARIABLES
    connected,      \* the session is connected
    parts,          \* the own aircraft's current parts
    sent            \* the parts last broadcast

avars == <<connected, parts, sent>>

Init ==
    /\ connected = FALSE
    /\ parts \in Parts
    /\ sent = parts

Broadcast ==
    /\ connected
    /\ sent # parts
    /\ sent' = parts
    /\ UNCHANGED <<connected, parts>>

PartsChange ==
    /\ parts' \in Parts
    /\ UNCHANGED <<connected, sent>>

ConnectionChange ==
    /\ connected' \in BOOLEAN
    /\ UNCHANGED <<parts, sent>>

Next == Broadcast \/ PartsChange \/ ConnectionChange

Spec == Init /\ [][Next]_avars /\ WF_avars(Broadcast)
=============================================================================
