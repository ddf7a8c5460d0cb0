---------------------------- MODULE EntityCaches ----------------------------
(***************************************************************************)
(* The flight-plan and METAR caches of CAirspaceMonitor and the two        *)
(* pseudo-synchronous getters that bridge them to the network:            *)
(* loadFlightPlanFromNetwork and getMetar                                  *)
(* (src/src/blackcore/airspace_monitor.cpp).  A getter whose cache entry  *)
(* is absent or too old sends a query and spins in a loop of              *)
(* processEvents slices until the entry appears or 1000 ms have passed.   *)
(* Each processEvents slice runs other handlers, among them the replies,  *)
(* the pilot removals, clear(), and further getter calls, which then nest *)
(* on the stack above the waiting one.                                    *)
(*                                                                         *)
(* Entry age is abstracted to "none", "fresh" (younger than the getter's  *)
(* threshold: 30 s for a flight plan, 10 s for a METAR) and "stale".  The *)
(* time of a wait loop is counted in processEvents slices: a call has at  *)
(* most MaxSlices of them before its 1000 ms deadline, and a slice may    *)
(* host one nested getter call.                                           *)
(***************************************************************************)
EXTENDS Naturals, Sequences, SequencesExt

CONSTANTS
    Callsigns,      \* flight-plan keys
    Airports,       \* METAR keys
    MaxNesting,     \* getter calls nested through processEvents
    MaxSlices,      \* processEvents slices a wait loop gets before its deadline
    NoResult        \* no getter returned in the last step

Kinds == {"fp", "metar"}
Ages  == {"none", "fresh", "stale"}
Keys(k) == IF k = "fp" THEN Callsigns ELSE Airports

VARIABLES
    cache,          \* cache[k][key]: age of the m_flightPlanCache / m_metarCache entry
    waits,          \* stack of getter calls inside their wait loops, innermost last
    result,         \* what a getter returned in the last step
    out             \* the query sent by the last step, if any

vars == <<cache, waits, result, out>>

Call == [kind : Kinds, key : Callsigns \cup Airports, initial : {"none", "stale"},
         slices : 0..MaxSlices]

TypeOK ==
    /\ cache \in [Kinds -> [Callsigns \cup Airports -> Ages]]
    /\ waits \in Seq(Call) /\ Len(waits) <= MaxNesting
    /\ result \in {NoResult} \cup [kind : Kinds, key : Callsigns \cup Airports,
                                   age : Ages, timedOut : BOOLEAN]
    /\ out \subseteq [kind : Kinds, key : Callsigns \cup Airports]

Init ==
    /\ cache = [k \in Kinds |-> [x \in Callsigns \cup Airports |-> "none"]]
    /\ waits = <<>>
    /\ result = NoResult
    /\ out = {}

-----------------------------------------------------------------------------
(* A new call in its wait loop, with all its slices ahead of it.         *)
NewCall(k, key) ==
    [kind |-> k, key |-> key, initial |-> cache[k][key], slices |-> MaxSlices]

(* The stack as the new call finds it: a call nested in a wait loop runs  *)
(* inside one of that loop's processEvents slices, which it uses up.      *)
Caller ==
    IF waits = <<>> THEN waits
    ELSE [waits EXCEPT ![Len(waits)].slices = @ - 1]

NestingAllowed == IF waits = <<>> THEN TRUE ELSE Last(waits).slices > 0

(* Mutation: the cache-hit shortcut is missing; every call waits.       *)
GetAlwaysQuery(k, key) ==
    /\ Len(waits) < MaxNesting /\ NestingAllowed
    /\ waits' = Append(Caller, NewCall(k, key))
    /\ out' = {[kind |-> k, key |-> key]}
    /\ result' = NoResult
    /\ UNCHANGED cache

(* loadFlightPlanFromNetwork / getMetar: a fresh entry is returned at     *)
(* once; otherwise the query is sent and the call enters its wait loop,    *)
(* remembering the (absent or stale) entry it started from.  A call is    *)
(* either the outermost one or made from inside a processEvents slice.    *)
Get(k, key) ==
    /\ Len(waits) < MaxNesting /\ NestingAllowed
    /\ IF cache[k][key] = "fresh"
       THEN /\ result' = [kind |-> k, key |-> key, age |-> "fresh", timedOut |-> FALSE]
            /\ out' = {}
            /\ UNCHANGED waits
       ELSE /\ waits' = Append(Caller, NewCall(k, key))
            /\ out' = {[kind |-> k, key |-> key]}
            /\ result' = NoResult
    /\ UNCHANGED cache

WaitSlice ==
    /\ waits # <<>>
    /\ LET w == Last(waits)
           now == cache[w.kind][w.key]
       IN \/ /\ now # "none"
             /\ \E deadlinePassed \in BOOLEAN :
                   /\ deadlinePassed \/ w.slices > 0
                   /\ result' = [kind |-> w.kind, key |-> w.key, age |-> now,
                                 timedOut |-> deadlinePassed]
             /\ waits' = Front(waits)
          \/ /\ now = "none"
             /\ result' = [kind |-> w.kind, key |-> w.key, age |-> w.initial,
                           timedOut |-> TRUE]
             /\ waits' = Front(waits)
          \/ /\ now = "none"
             /\ w.slices > 0
             /\ waits' = [waits EXCEPT ![Len(waits)].slices = @ - 1]
             /\ result' = NoResult
    /\ out' = {}
    /\ UNCHANGED cache

(* ps_flightPlanReceived: the plan is stamped now and overwrites the entry *)
FlightPlanReceived(cs) ==
    /\ cache' = [cache EXCEPT !["fp"][cs] = "fresh"]
    /\ result' = NoResult /\ out' = {}
    /\ UNCHANGED waits

(* ps_metarReceived: a message of at least 10 characters is cached under  *)
(* its first four; a shorter one is dropped                               *)
MetarReceived(ap, longEnough) ==
    /\ cache' = IF longEnough THEN [cache EXCEPT !["metar"][ap] = "fresh"] ELSE cache
    /\ result' = NoResult /\ out' = {}
    /\ UNCHANGED waits

(* an entry grows older than its getter's threshold.  The thresholds are  *)
(* 10 s and 30 s, and a wait loop with everything nested in it lasts at   *)
(* most MaxNesting times 1000 ms, so no entry ages while a getter waits.  *)
EntryAges(k, key) ==
    /\ waits = <<>>
    /\ cache[k][key] = "fresh"
    /\ cache' = [cache EXCEPT ![k][key] = "stale"]
    /\ result' = NoResult /\ out' = {}
    /\ UNCHANGED waits

(* removeFromAircraftCaches, from ps_pilotDisconnected of an aircraft in  *)
(* range                                                                  *)
RemoveFromAircraftCaches(cs) ==
    /\ cache' = [cache EXCEPT !["fp"][cs] = "none"]
    /\ result' = NoResult /\ out' = {}
    /\ UNCHANGED waits

(* clear(): both caches emptied (removeAllAircraft empties the            *)
(* flight-plan cache once more)                                           *)
Clear ==
    /\ cache' = [k \in Kinds |-> [x \in Callsigns \cup Airports |-> "none"]]
    /\ result' = NoResult /\ out' = {}
    /\ UNCHANGED waits

Next ==
    \/ \E k \in Kinds : \E key \in Keys(k) : Get(k, key) \/ EntryAges(k, key)
    \/ WaitSlice
    \/ \E cs \in Callsigns : FlightPlanReceived(cs) \/ RemoveFromAircraftCaches(cs)
    \/ \E ap \in Airports, b \in BOOLEAN : MetarReceived(ap, b)
    \/ Clear

(* The wait loop gets control back after every processEvents slice: it   *)
(* runs on the GUI thread's own event loop, which always runs.  Replies,  *)
(* removals and new calls are not fair.                                   *)
Spec == Init /\ [][Next]_vars /\ WF_vars(WaitSlice)

-----------------------------------------------------------------------------
WaitForFreshReply ==
    (result # NoResult /\ result.age # "fresh") => result.timedOut
=============================================================================
