----------------------------- MODULE PartsSync -----------------------------
(***************************************************************************)
(* The aircraft parts (config) protocol between two clients: the sender's *)
(* CNetworkVatlib (src/src/blackcore/vatsim/networkvatlib.cpp) broadcasts  *)
(* the fields that changed since its last broadcast and answers a config  *)
(* query with its full parts; the receiver's CAirspaceMonitor             *)
(* (src/src/blackcore/airspace_monitor.cpp) queries once the sender       *)
(* reports the capability, drops incremental packets until it has a full  *)
(* one, and merges each packet onto the parts it holds.                   *)
(*                                                                         *)
(* The sender's session stays connected here (its life cycle is           *)
(* NetworkVatlib's).  The FSD server relays the packets of one client in  *)
(* the order they were sent: two FIFO channels.  Callbacks run inside     *)
(* process(), after its sendIncrementalAircraftConfig.                    *)
(***************************************************************************)
EXTENDS Naturals, Sequences

CONSTANTS
    Fields,         \* the fields of CAircraftParts (gear, lights, ...)
    Values,         \* the values a field takes
    DefaultParts,   \* CAircraftParts() as the receiver defaults it
    TokenCapacity,  \* m_tokenBucket capacity (10 in the code)
    MaxChanges,     \* bound on the sender's parts changes
    MaxInFlight     \* bound on the packets on their way to the receiver

Absent == "absent"
Parts  == [Fields -> Values]
Config == [Fields -> Values \cup {Absent}]

ASSUME DefaultParts \in Parts /\ Absent \notin Values

VARIABLES
    ownParts,       \* sender: getOwnAircraftParts()
    sentParts,      \* sender: m_sentAircraftConfig
    tokens,         \* sender: m_tokenBucket
    scheduled,      \* sender: m_scheduledConfigUpdate is active
    changes,        \* sender: parts changes so far (bounded)
    toSender,       \* config queries on their way to the sender
    toReceiver,     \* config packets on their way to the receiver
    inRange,        \* receiver: the sender's aircraft is in m_aircraftInRange
    queried,        \* receiver: the capabilities reply has been handled
    synced,         \* receiver: isPartsSynchronized()
    rcvParts        \* receiver: m_aircraftParts.findBackByCallsign()

vars == <<ownParts, sentParts, tokens, scheduled, changes, toSender, toReceiver,
          inRange, queried, synced, rcvParts>>

Packets == [full : BOOLEAN, config : Config]

TypeOK ==
    /\ ownParts \in Parts /\ sentParts \in Parts
    /\ tokens \in 0..TokenCapacity /\ scheduled \in BOOLEAN
    /\ changes \in 0..MaxChanges
    /\ toSender \in Seq({"fullRequest"})
    /\ toReceiver \in Seq(Packets) /\ Len(toReceiver) <= MaxInFlight
    /\ inRange \in BOOLEAN /\ queried \in BOOLEAN /\ synced \in BOOLEAN
    /\ rcvParts \in Parts

(* getIncrementalObject (not in the repository; spec 4.4): the fields of    *)
(* cur that differ from prev                                               *)
IncrementalObject(prev, cur) == [f \in Fields |-> IF prev[f] = cur[f] THEN Absent ELSE cur[f]]

(* applyIncrementalObject (spec 4.4): the fields present in the packet      *)
(* overwrite the held ones                                                 *)
ApplyIncrementalObject(held, cfg) == [f \in Fields |-> IF cfg[f] = Absent THEN held[f] ELSE cfg[f]]

(* toJson of the full parts: every field present                          *)
FullConfig(p) == [f \in Fields |-> p[f]]

Init ==
    /\ ownParts = DefaultParts /\ sentParts = DefaultParts
    /\ tokens = TokenCapacity /\ scheduled = FALSE /\ changes = 0
    /\ toSender = <<>> /\ toReceiver = <<>>
    /\ inRange = FALSE /\ queried = FALSE /\ synced = FALSE
    /\ rcvParts = DefaultParts

-----------------------------------------------------------------------------
(* Sender.                                                                 *)

(* sendIncrementalAircraftConfig (session connected): nothing if the parts *)
(* are unchanged; without a token, the single-shot retry is started if it  *)
(* is not active; else the retry is stopped and the changed fields are     *)
(* broadcast (broadcastAircraftConfig).  Its result is the packets sent.   *)
SendIncremental(sch) ==
    IF sentParts = ownParts
    THEN [sent |-> sentParts, tokens |-> tokens, scheduled |-> sch, out |-> <<>>]
    ELSE IF tokens = 0
    THEN [sent |-> sentParts, tokens |-> tokens, scheduled |-> TRUE, out |-> <<>>]
    ELSE [sent |-> ownParts, tokens |-> tokens - 1, scheduled |-> FALSE,
          out |-> <<[full |-> FALSE, config |-> IncrementalObject(sentParts, ownParts)]>>]

(* replyToConfigQuery: the full parts, flagged is_full_data, to the asker *)
ReplyToConfigQuery == [full |-> TRUE, config |-> FullConfig(ownParts)]

(* process(): sendIncrementalAircraftConfig, then Vat_ExecuteNetworkTasks, *)
(* whose onAircraftConfigReceived answers each config query received (n   *)
(* of those waiting) at once                                                *)
Process ==
    \E n \in 0..Len(toSender) :
        LET r == SendIncremental(scheduled)
            replies == [i \in 1..n |-> ReplyToConfigQuery]
        IN  /\ Len(toReceiver) + Len(r.out) + n <= MaxInFlight
            /\ sentParts' = r.sent /\ tokens' = r.tokens /\ scheduled' = r.scheduled
            /\ toReceiver' = toReceiver \o r.out \o replies
            /\ toSender' = SubSeq(toSender, n + 1, Len(toSender))
            /\ UNCHANGED <<ownParts, changes, inRange, queried, synced, rcvParts>>

(* m_scheduledConfigUpdate times out                                      *)
ScheduledConfigUpdate ==
    /\ scheduled
    /\ LET r == SendIncremental(FALSE)
       IN  /\ Len(toReceiver) + Len(r.out) <= MaxInFlight
           /\ sentParts' = r.sent /\ tokens' = r.tokens /\ scheduled' = r.scheduled
           /\ toReceiver' = toReceiver \o r.out
    /\ UNCHANGED <<ownParts, changes, toSender, inRange, queried, synced, rcvParts>>

(* the pilot changes the own aircraft's parts (the simulator)             *)
OwnPartsChanged ==
    /\ changes < MaxChanges
    /\ ownParts' \in Parts \ {ownParts}
    /\ changes' = changes + 1
    /\ UNCHANGED <<sentParts, tokens, scheduled, toSender, toReceiver, inRange, queried, synced, rcvParts>>

(* the token bucket gains a token as time passes                          *)
Refill ==
    /\ tokens < TokenCapacity
    /\ tokens' = tokens + 1
    /\ UNCHANGED <<ownParts, sentParts, scheduled, changes, toSender, toReceiver, inRange, queried, synced, rcvParts>>

-----------------------------------------------------------------------------
(* Receiver.                                                               *)

(* the sender's first position update: the aircraft is created, not yet  *)
(* synchronized, with no parts history                                    *)
AircraftSeen ==
    /\ ~inRange
    /\ inRange' = TRUE
    /\ UNCHANGED <<ownParts, sentParts, tokens, scheduled, changes, toSender, toReceiver, queried, synced, rcvParts>>

(* ps_capabilitiesReplyReceived: the sender supports aircraft configs, so *)
(* sendAircraftConfigQuery asks it for the full parts                      *)
CapabilitiesReplyReceived ==
    /\ inRange /\ ~queried
    /\ queried' = TRUE
    /\ toSender' = Append(toSender, "fullRequest")
    /\ UNCHANGED <<ownParts, sentParts, tokens, scheduled, changes, toReceiver, inRange, synced, rcvParts>>

(* onAircraftConfigReceived, then ps_aircraftConfigReceived: an empty     *)
(* config is dropped; an unknown callsign is skipped; an incremental      *)
(* packet before the first full one is thrown away; else the packet is    *)
(* merged onto the held parts, and the aircraft is synchronized            *)
AircraftConfigReceived ==
    /\ toReceiver # <<>>
    /\ LET p == Head(toReceiver)
           apply == inRange /\ (synced \/ p.full) /\ \E f \in Fields : p.config[f] # Absent
       IN  /\ rcvParts' = IF apply THEN ApplyIncrementalObject(rcvParts, p.config) ELSE rcvParts
           /\ synced' = (synced \/ apply)
    /\ toReceiver' = Tail(toReceiver)
    /\ UNCHANGED <<ownParts, sentParts, tokens, scheduled, changes, toSender, inRange, queried>>

Next ==
    \/ Process \/ ScheduledConfigUpdate \/ OwnPartsChanged \/ Refill
    \/ AircraftSeen \/ CapabilitiesReplyReceived \/ AircraftConfigReceived

Spec == Init /\ [][Next]_vars

-----------------------------------------------------------------------------
(* Once the receiver is synchronized and the exchange has settled (the    *)
(* sender has broadcast its current parts, no retry is pending, nothing   *)
(* is on its way), the receiver holds exactly the sender's parts: the     *)
(* merge of the full reply and the increments reconstructs them.          *)
SettledPartsAgree ==
    (synced /\ sentParts = ownParts /\ ~scheduled /\ toSender = <<>> /\ toReceiver = <<>>)
        => rcvParts = ownParts
=============================================================================
