---------------------------- MODULE NetworkVatlib ----------------------------
(***************************************************************************)
(* CNetworkVatlib (src/src/blackcore/vatsim/networkvatlib.cpp): the vatlib *)
(* session, its connection status, the position timers, the incremental   *)
(* own-aircraft parts broadcast with its token bucket and 1 s single-shot *)
(* retry, the 0 ms reply timers for client queries, and the queued        *)
(* terminate signal of a fatal server error.                               *)
(*                                                                         *)
(* Everything runs on the object's thread.  vatlib calls back only from   *)
(* inside Vat_ExecuteNetworkTasks, which process() calls: process() and   *)
(* terminateConnection() open a batch of callbacks (tasks # "none"), the  *)
(* callbacks are actions enabled only inside the batch, and TasksDone     *)
(* ends it.  Timers, queued signals and user calls run only between       *)
(* batches.  vatlib itself is not under src/; the status it reports is    *)
(* an environment constrained to a plausible session life cycle.          *)
(***************************************************************************)
EXTENDS Naturals

CONSTANTS
    Callsigns,      \* other clients that query us
    Parts,          \* own-aircraft parts values
    DefaultParts,   \* a default-constructed CAircraftParts
    TokenCapacity   \* capacity of m_tokenBucket (10 in the code)

ASSUME DefaultParts \in Parts

VatStatuses == {"idle", "connecting", "connected", "disconnecting", "disconnected", "error"}
LoginModes  == {"normal", "stealth", "observer"}
QueryKinds  == {"freq", "name", "other", "info"}   \* "info": a pilot-info request
SendKinds   == {"logon", "logoff", "position", "interim", "config", "reply"}

VARIABLES
    status,         \* m_status
    hasNet,         \* m_net is not null
    loggedOn,       \* vatlib: a logon is in progress or established
    loginMode,      \* m_loginMode
    posTimer,       \* m_positionUpdateTimer active
    interimTimer,   \* m_interimPositionUpdateTimer active
    ownParts,       \* getOwnAircraftParts()
    sentParts,      \* m_sentAircraftConfig
    tokens,         \* tokens available in m_tokenBucket
    scheduled,      \* m_scheduledConfigUpdate active
    tasks,          \* "none", or the caller of the running Vat_ExecuteNetworkTasks
    replyTimers,    \* pending 0 ms single-shot reply timers
    terminateQueued,\* a queued terminate() signal
    out             \* what the last step sent: kind and whether the session was live

vars == <<status, hasNet, loggedOn, loginMode, posTimer, interimTimer, ownParts,
          sentParts, tokens, scheduled, tasks, replyTimers, terminateQueued, out>>

ReplyTimer == [to : Callsigns, kind : QueryKinds]

TypeOK ==
    /\ status \in VatStatuses
    /\ hasNet \in BOOLEAN /\ loggedOn \in BOOLEAN /\ loginMode \in LoginModes
    /\ posTimer \in BOOLEAN /\ interimTimer \in BOOLEAN
    /\ ownParts \in Parts /\ sentParts \in Parts
    /\ tokens \in 0..TokenCapacity
    /\ scheduled \in BOOLEAN
    /\ tasks \in {"none", "process", "terminate"}
    /\ replyTimers \subseteq ReplyTimer
    /\ terminateQueued \in BOOLEAN
    /\ out \subseteq [kind : SendKinds, live : BOOLEAN]

IsConnected(s)    == s = "connected"
IsDisconnected(s) == s \notin {"connecting", "connected"}

\* a send through m_net.data() in the current state
Send(k) == [kind |-> k, live |-> hasNet /\ IsConnected(status)]

Init ==
    /\ status = "idle"
    /\ hasNet = FALSE
    /\ loggedOn = FALSE
    /\ loginMode = "normal"
    /\ posTimer = FALSE /\ interimTimer = FALSE
    /\ ownParts = DefaultParts /\ sentParts = DefaultParts
    /\ tokens \in 0..TokenCapacity
    /\ scheduled = FALSE
    /\ tasks = "none"
    /\ replyTimers = {}
    /\ terminateQueued = FALSE
    /\ out = {}

-----------------------------------------------------------------------------
(* Mutation: the token is taken without asking the bucket.               *)
SendIncrementalNoBucketCheck(sch) ==
    IF ~IsConnected(status) \/ sentParts = ownParts
    THEN /\ scheduled' = sch /\ out' = {}
         /\ UNCHANGED <<sentParts, tokens>>
    ELSE /\ tokens' = tokens - 1
         /\ scheduled' = FALSE
         /\ sentParts' = ownParts
         /\ out' = {Send("config")}

(* Mutation: the broadcast parts are not remembered.                     *)
SendIncrementalKeepSent(sch) ==
    IF ~IsConnected(status) \/ sentParts = ownParts
    THEN /\ scheduled' = sch /\ out' = {}
         /\ UNCHANGED <<sentParts, tokens>>
    ELSE IF tokens = 0
    THEN /\ scheduled' = TRUE /\ out' = {}
         /\ UNCHANGED <<sentParts, tokens>>
    ELSE /\ tokens' = tokens - 1
         /\ scheduled' = FALSE
         /\ out' = {Send("config")}
         /\ UNCHANGED sentParts

(* sendIncrementalAircraftConfig, with sch the activity of the single-   *)
(* shot timer as the caller leaves it: nothing while not connected or    *)
(* unchanged; without a token the 1 s timer is started (if inactive);    *)
(* with one, the timer is stopped and the difference is broadcast.       *)
SendIncrementalAircraftConfig(sch) ==
    IF ~IsConnected(status) \/ sentParts = ownParts
    THEN /\ scheduled' = sch /\ out' = {}
         /\ UNCHANGED <<sentParts, tokens>>
    ELSE IF tokens = 0
    THEN /\ scheduled' = TRUE /\ out' = {}
         /\ UNCHANGED <<sentParts, tokens>>
    ELSE /\ tokens' = tokens - 1
         /\ scheduled' = FALSE
         /\ sentParts' = ownParts
         /\ out' = {Send("config")}

(* process(), on m_processingTimer: nothing without a session; otherwise *)
(* the parts broadcast, then a batch of vatlib callbacks                 *)
Process ==
    /\ tasks = "none"
    /\ IF hasNet
       THEN SendIncrementalAircraftConfig(scheduled) /\ tasks' = "process"
       ELSE out' = {} /\ UNCHANGED <<sentParts, tokens, scheduled, tasks>>
    /\ UNCHANGED <<status, hasNet, loggedOn, loginMode, posTimer, interimTimer,
                   ownParts, replyTimers, terminateQueued>>

(* Vat_ExecuteNetworkTasks returns; in terminateConnection the logoff    *)
(* follows                                                               *)
TasksDone ==
    /\ tasks # "none"
    /\ tasks' = "none"
    /\ IF tasks = "terminate"
       THEN loggedOn' = FALSE /\ out' = {Send("logoff")}
       ELSE out' = {} /\ UNCHANGED loggedOn
    /\ UNCHANGED <<status, hasNet, loginMode, posTimer, interimTimer, ownParts,
                   sentParts, tokens, scheduled, replyTimers, terminateQueued>>

-----------------------------------------------------------------------------
(* The vatlib callbacks, inside a batch.                                   *)

(* statuses vatlib may report next: a logon leads to connecting, which   *)
(* ends connected or failed; a session ends by logoff or a server drop   *)
VatlibNext(s) ==
    CASE s \in {"idle", "disconnected", "error"} -> IF loggedOn THEN {"connecting"} ELSE {}
      [] s = "connecting"    -> {"connected", "disconnected", "error"}
      [] s = "connected"     -> {"disconnecting", "disconnected", "error"}
      [] s = "disconnecting" -> {"disconnected"}

(* stopPositionTimers                                                    *)
StopPositionTimers == posTimer' = FALSE /\ interimTimer' = FALSE

(* changeConnectionStatus: a new status is stored, and a disconnected    *)
(* one stops the position timers, before connectionStatusChanged         *)
ChangeConnectionStatus(new) ==
    /\ status # new
    /\ status' = new
    /\ IF IsDisconnected(new)
       THEN StopPositionTimers
       ELSE UNCHANGED <<posTimer, interimTimer>>

(* onConnectionStatusChanged: both branches call changeConnectionStatus  *)
OnConnectionStatusChanged ==
    /\ tasks # "none"
    /\ \E new \in VatlibNext(status) :
          /\ ChangeConnectionStatus(new)
          /\ loggedOn' = (loggedOn /\ new \notin {"disconnecting", "disconnected", "error"})
    /\ out' = {}
    /\ UNCHANGED <<hasNet, loginMode, ownParts, sentParts, tokens, scheduled, tasks,
                   replyTimers, terminateQueued>>

(* onInfoQueryRequestReceived (kind freq, name, other) and               *)
(* onPilotInfoRequestReceived (kind info): a 0 ms single-shot timer is   *)
(* started for every request; only freq, name and info get a reply      *)
(* connected to it.  Other clients reach us only while we are connected. *)
OnQueryRequestReceived(cs, k) ==
    /\ tasks # "none"
    /\ IsConnected(status)
    /\ replyTimers' = replyTimers \cup {[to |-> cs, kind |-> k]}
    /\ out' = {}
    /\ UNCHANGED <<status, hasNet, loggedOn, loginMode, posTimer, interimTimer, ownParts,
                   sentParts, tokens, scheduled, tasks, terminateQueued>>

(* onErrorReceived with one of the fatal errors: terminate() is emitted, *)
(* queued to terminateConnection; the other errors are only logged.  The *)
(* server answers a logon or a session, so errors come while connecting  *)
(* or connected.                                                         *)
OnErrorReceived ==
    /\ tasks # "none"
    /\ ~IsDisconnected(status)
    /\ terminateQueued' = TRUE
    /\ out' = {}
    /\ UNCHANGED <<status, hasNet, loggedOn, loginMode, posTimer, interimTimer, ownParts,
                   sentParts, tokens, scheduled, tasks, replyTimers>>

-----------------------------------------------------------------------------
(* Timers, queued signals and calls, between batches.                      *)

(* a reply timer fires: replyToFrequencyQuery / replyToNameQuery /       *)
(* sendAircraftInfo send through m_net.data() without any check; a timer *)
(* of another query kind has no slot and does nothing                    *)
ReplyTimerFires(t) ==
    /\ tasks = "none"
    /\ t \in replyTimers
    /\ replyTimers' = replyTimers \ {t}
    /\ out' = IF t.kind = "other" THEN {} ELSE {Send("reply")}
    /\ UNCHANGED <<status, hasNet, loggedOn, loginMode, posTimer, interimTimer, ownParts,
                   sentParts, tokens, scheduled, tasks, terminateQueued>>

(* m_scheduledConfigUpdate times out (single shot, so it is inactive     *)
(* when sendIncrementalAircraftConfig runs)                              *)
ScheduledConfigUpdate ==
    /\ tasks = "none"
    /\ scheduled
    /\ SendIncrementalAircraftConfig(FALSE)
    /\ UNCHANGED <<status, hasNet, loggedOn, loginMode, posTimer, interimTimer,
                   ownParts, tasks, replyTimers, terminateQueued>>

(* sendPositionUpdate / sendInterimPositions: nothing without a session  *)
(* or a connection; interim positions only in normal login mode          *)
SendPositionUpdate ==
    /\ tasks = "none"
    /\ posTimer
    /\ out' = IF hasNet /\ IsConnected(status) THEN {Send("position")} ELSE {}
    /\ UNCHANGED <<status, hasNet, loggedOn, loginMode, posTimer, interimTimer, ownParts,
                   sentParts, tokens, scheduled, tasks, replyTimers, terminateQueued>>

SendInterimPositions ==
    /\ tasks = "none"
    /\ interimTimer
    /\ out' = IF hasNet /\ IsConnected(status) /\ loginMode = "normal"
              THEN {Send("interim")} ELSE {}
    /\ UNCHANGED <<status, hasNet, loggedOn, loginMode, posTimer, interimTimer, ownParts,
                   sentParts, tokens, scheduled, tasks, replyTimers, terminateQueued>>

(* initializeSession: the vatlib session is created and every callback  *)
(* registered on it                                                      *)
InitializeSession == hasNet' = TRUE

(* startPositionTimers: the interim timer only if the server's FSD setup *)
(* sends or receives interim positions                                   *)
StartPositionTimers == posTimer' = TRUE /\ interimTimer' \in BOOLEAN

(* initiateConnection (asserts isDisconnected): a session is created if  *)
(* there is none, the logon is sent and the position timers start       *)
InitiateConnection ==
    /\ tasks = "none"
    /\ IsDisconnected(status)
    /\ IF hasNet THEN UNCHANGED hasNet ELSE InitializeSession
    /\ loggedOn' = TRUE
    /\ StartPositionTimers
    /\ out' = {[kind |-> "logon", live |-> FALSE]}
    /\ UNCHANGED <<status, loginMode, ownParts, sentParts, tokens, scheduled, tasks,
                   replyTimers, terminateQueued>>

(* terminateConnection: the position timers stop; if connected, process()*)
(* runs (broadcast, then a batch of callbacks) and Vat_Logoff follows    *)
(* when the batch ends                                                   *)
TerminateBody ==
    /\ StopPositionTimers
    /\ IF hasNet /\ IsConnected(status)
       THEN SendIncrementalAircraftConfig(scheduled) /\ tasks' = "terminate"
       ELSE out' = {} /\ UNCHANGED <<sentParts, tokens, scheduled, tasks>>
    /\ UNCHANGED <<status, hasNet, loggedOn, loginMode, ownParts, replyTimers>>

TerminateConnection ==
    /\ tasks = "none"
    /\ TerminateBody
    /\ UNCHANGED terminateQueued

(* the queued terminate() signal is delivered                            *)
TerminateSignal ==
    /\ tasks = "none"
    /\ terminateQueued
    /\ terminateQueued' = FALSE
    /\ TerminateBody

(* presetLoginMode (asserts isDisconnected): the session is destroyed    *)
PresetLoginMode(m) ==
    /\ tasks = "none"
    /\ IsDisconnected(status)
    /\ loginMode' = m
    /\ hasNet' = FALSE
    /\ out' = {}
    /\ UNCHANGED <<status, loggedOn, posTimer, interimTimer, ownParts, sentParts, tokens,
                   scheduled, tasks, replyTimers, terminateQueued>>

(* the own aircraft's parts change in the provider                      *)
OwnPartsChanged(p) ==
    /\ ownParts # p
    /\ ownParts' = p
    /\ out' = {}
    /\ UNCHANGED <<status, hasNet, loggedOn, loginMode, posTimer, interimTimer, sentParts,
                   tokens, scheduled, tasks, replyTimers, terminateQueued>>

(* the token bucket refills one token per interval, up to its capacity   *)
Refill ==
    /\ tokens < TokenCapacity
    /\ tokens' = tokens + 1
    /\ out' = {}
    /\ UNCHANGED <<status, hasNet, loggedOn, loginMode, posTimer, interimTimer, ownParts,
                   sentParts, scheduled, tasks, replyTimers, terminateQueued>>

Next ==
    \/ Process \/ TasksDone \/ OnConnectionStatusChanged \/ OnErrorReceived
    \/ \E cs \in Callsigns, k \in QueryKinds : OnQueryRequestReceived(cs, k)
    \/ \E t \in replyTimers : ReplyTimerFires(t)
    \/ ScheduledConfigUpdate \/ SendPositionUpdate \/ SendInterimPositions
    \/ InitiateConnection \/ TerminateConnection \/ TerminateSignal
    \/ \E m \in LoginModes : PresetLoginMode(m)
    \/ \E p \in Parts : OwnPartsChanged(p)
    \/ Refill

(* The processing timer, the single-shot timer and the end of a batch    *)
(* are events of the object's own event loop, which always runs; time    *)
(* passing refills the bucket.  The network and the user are not fair.   *)
Spec ==
    /\ Init /\ [][Next]_vars
    /\ WF_vars(Process) /\ WF_vars(TasksDone) /\ WF_vars(ScheduledConfigUpdate)
    /\ WF_vars(Refill)

-----------------------------------------------------------------------------
CS == INSTANCE ConfigSender WITH
          connected <- IsConnected(status), parts <- ownParts, sent <- sentParts

(* The parts broadcast of sendIncrementalAircraftConfig implements       *)
(* ConfigSender: only the current parts are broadcast, only while        *)
(* connected, and parts that differ from the last broadcast are          *)
(* eventually broadcast while the connection lasts, whatever the token   *)
(* bucket, the 1 s retry timer and terminateConnection do.               *)
ConfigSenderRefined == CS!Spec
=============================================================================
