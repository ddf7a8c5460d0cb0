---------------------------- MODULE DbOwnModels ----------------------------
(***************************************************************************)
(* CDbOwnModelsComponent (src/src/blackgui/components/dbownmodelscomponent *)
(* .cpp) over the model loaders of IAircraftModelLoader                    *)
(* (src/src/blackmisc/simulation/aircraftmodelloader.cpp).                  *)
(*                                                                         *)
(* There is one loader per simulator (CMultiAircraftModelLoaderProvider,   *)
(* not in the repository); the component points at one of them            *)
(* (m_modelLoader) and shows a model list in its view.  The model caches   *)
(* are per simulator and shared by every loader.  A disk load runs in the  *)
(* background; loadingFinished and cacheChanged reach the component        *)
(* through queued connections, and loadingFinished also reaches the       *)
(* loader's own onLoadingFinished, queued first.  All queued calls run on  *)
(* the GUI thread in the order they were posted: one FIFO queue.           *)
(*                                                                         *)
(* A model list is abstracted to where it came from: Empty, or a pair of   *)
(* the simulator and the origin (parsed from disk, a JSON file loaded into *)
(* the view, or written by another process sharing the cache).             *)
(***************************************************************************)
EXTENDS Naturals, Sequences

CONSTANTS
    Sims,           \* the single simulators
    Fsx,            \* CSimulatorInfo::fsx()
    InitLoaderMode, \* default "load" argument of initModelLoader (header)
    MaxQueue        \* bound on the queued calls waiting for the GUI thread

ASSUME Fsx \in Sims

Empty   == <<>>
Origins == {"disk", "file", "ext"}
Lists   == {Empty} \cup (Sims \X Origins)

(* IAircraftModelLoader::LoadMode flags, and the combinations used        *)
InBackgroundWithCache == {"background", "cacheFirst"}
InBackgroundNoCache   == {"background", "cacheSkipped"}
CacheOnly             == {"cacheOnly"}
ASSUME InitLoaderMode \subseteq {"background", "cacheFirst", "cacheSkipped", "cacheOnly"}

Infos  == {"cacheLoaded", "skipped", "parsed"}
Events ==
    [k : {"loaderFinished", "cacheChanged"}, sim : Sims]
    \cup [k : {"finished"}, sim : Sims, info : Infos, ok : BOOLEAN]
    \cup [k : {"jsonLoaded"}, ok : BOOLEAN]

VARIABLES
    cache,          \* the model cache of each simulator
    inProgress,     \* m_loadingInProgress of each simulator's loader
    diskLoading,    \* a background disk parse runs for the simulator
    loader,         \* m_modelLoader: the simulator of the current loader
    simulator,      \* m_simulator
    selector,       \* ui->comp_SimulatorSelector->getValue()
    view,           \* the models shown by ui->tvp_OwnAircraftModels
    queue,          \* queued calls waiting for the GUI thread
    dialog          \* the "save to cache?" message box is open

vars == <<cache, inProgress, diskLoading, loader, simulator, selector, view, queue, dialog>>

TypeOK ==
    /\ cache \in [Sims -> Lists]
    /\ inProgress \in [Sims -> BOOLEAN] /\ diskLoading \in [Sims -> BOOLEAN]
    /\ loader \in Sims
    /\ simulator \in Sims /\ selector \in Sims
    /\ view \in Lists
    /\ queue \in Seq(Events) /\ Len(queue) <= MaxQueue
    /\ dialog \in BOOLEAN

(* The state as a record, so that the calls a handler makes can be        *)
(* applied one after the other.                                           *)
S == [cache |-> cache, inProgress |-> inProgress, diskLoading |-> diskLoading,
      loader |-> loader, simulator |-> simulator, selector |-> selector,
      view |-> view, queue |-> queue]

Apply(s) ==
    /\ Len(s.queue) <= MaxQueue
    /\ cache' = s.cache /\ inProgress' = s.inProgress /\ diskLoading' = s.diskLoading
    /\ loader' = s.loader /\ simulator' = s.simulator /\ selector' = s.selector
    /\ view' = s.view /\ queue' = s.queue

-----------------------------------------------------------------------------
(* emit loadingFinished: to the loader's onLoadingFinished, then to the    *)
(* component through the provider                                         *)
EmitFinished(s, sim, info, ok) ==
    [s EXCEPT !.queue = @ \o <<[k |-> "loaderFinished", sim |-> sim],
                               [k |-> "finished", sim |-> sim, info |-> info, ok |-> ok]>>]

(* IAircraftModelLoader::needsCacheSynchronized                           *)
NeedsCacheSynchronized(mode) == mode \cap {"cacheFirst", "cacheOnly"} # {}

(* Mutation: a cache-only load that finds no data leaves the loader      *)
(* "in progress", relying on a later cache load to end it.                *)
StartLoadingCacheOnlyKeepsFlag(s, sim, mode, noDirs) ==
    IF s.inProgress[sim] THEN s
    ELSE LET useCachedData == "cacheSkipped" \notin mode /\ s.cache[sim] # Empty
             s1 == [s EXCEPT !.inProgress[sim] = TRUE]
         IN  IF useCachedData /\ NeedsCacheSynchronized(mode) THEN EmitFinished(s1, sim, "cacheLoaded", TRUE)
             ELSE IF "cacheOnly" \in mode THEN s1
             ELSE IF noDirs THEN EmitFinished(s1, sim, "skipped", TRUE)
             ELSE [s1 EXCEPT !.diskLoading[sim] = TRUE]

(* IAircraftModelLoader::startLoading of the loader for sim: nothing while *)
(* a load is in progress; cached data answers a cache-first or cache-only  *)
(* load at once; a cache-only load without data just ends; an empty model *)
(* directory skips the load; otherwise the disk parse starts.  noDirs is  *)
(* whether the model directories are empty or missing.                    *)
StartLoading(s, sim, mode, noDirs) ==
    IF s.inProgress[sim] THEN s
    ELSE LET useCachedData == "cacheSkipped" \notin mode /\ s.cache[sim] # Empty
             s1 == [s EXCEPT !.inProgress[sim] = TRUE]
         IN  IF useCachedData /\ NeedsCacheSynchronized(mode) THEN EmitFinished(s1, sim, "cacheLoaded", TRUE)
             ELSE IF "cacheOnly" \in mode THEN s
             ELSE IF noDirs THEN EmitFinished(s1, sim, "skipped", TRUE)
             ELSE [s1 EXCEPT !.diskLoading[sim] = TRUE]

(* initModelLoader: take the loader of sim unless the current one serves  *)
(* it, and start it                                                        *)
InitModelLoader(s, sim, mode, noDirs) ==
    IF s.loader # sim
    THEN StartLoading([s EXCEPT !.loader = sim], sim, mode, noDirs)
    ELSE s

(* loadInstalledModels: nothing without a loader, or while the current    *)
(* loader, serving sim, is loading; else initModelLoader with its default *)
(* mode and startLoading with the requested one                           *)
LoadInstalledModels(s, sim, mode, noDirs) ==
    IF s.inProgress[s.loader] /\ s.loader = sim THEN s
    ELSE LET s1 == InitModelLoader(s, sim, InitLoaderMode, noDirs)
         IN  StartLoading(s1, s1.loader, mode, noDirs)

(* setSimulator: nothing if unchanged; else load with cache in background *)
(* and show the simulator in the selector                                 *)
SetSimulator(s, sim, noDirs) ==
    IF s.simulator = sim THEN s
    ELSE LET s1 == LoadInstalledModels([s EXCEPT !.simulator = sim], sim, InBackgroundWithCache, noDirs)
         IN  [s1 EXCEPT !.selector = sim]

(* clearSimulatorCache                                                     *)
ClearSimulatorCache(s, sim) == [s EXCEPT !.cache[sim] = Empty]

-----------------------------------------------------------------------------
(* The constructor: the remembered selection, the loaders idle, the caches *)
(* as persisted; initModelLoader with CacheOnly takes the selection's      *)
(* loader and starts it.  The checks for a null m_modelLoader are left    *)
(* out: the provider has a loader for every single simulator, so the      *)
(* pointer is set from the constructor on.                                *)
Init ==
    \E sel \in Sims, c0 \in [Sims -> Lists], noDirs \in BOOLEAN :
        /\ \A sim \in Sims : c0[sim] \in {Empty, <<sim, "disk">>}
        /\ LET s0 == [cache |-> c0, inProgress |-> [sim \in Sims |-> FALSE],
                      diskLoading |-> [sim \in Sims |-> FALSE], loader |-> sel,
                      simulator |-> sel, selector |-> sel, view |-> Empty, queue |-> <<>>]
               s1 == StartLoading(s0, sel, CacheOnly, noDirs)
           IN  /\ cache = s1.cache /\ inProgress = s1.inProgress /\ diskLoading = s1.diskLoading
               /\ loader = s1.loader /\ simulator = s1.simulator /\ selector = s1.selector
               /\ view = s1.view /\ queue = s1.queue
        /\ dialog = FALSE

(* The user picks a simulator in the selector: onSimulatorSelectorChanged *)
SelectSimulator(sim, noDirs) ==
    /\ ~dialog
    /\ Apply(SetSimulator([S EXCEPT !.selector = sim], sim, noDirs))
    /\ UNCHANGED dialog

(* requestModelsInBackground, called by the mapping tool                  *)
RequestModelsInBackground(sim, onlyIfNotEmpty, noDirs) ==
    /\ ~dialog
    /\ LET s1    == SetSimulator(S, sim, noDirs)
           count == IF s1.cache[s1.selector] = Empty THEN 0 ELSE 1
           mode  == IF onlyIfNotEmpty THEN InBackgroundNoCache ELSE {"background"}
       IN  Apply(IF onlyIfNotEmpty /\ count > 0 THEN s1 ELSE LoadInstalledModels(s1, sim, mode, noDirs))
    /\ UNCHANGED dialog

(* The simulators whose "Clear <sim> cache" lambda is connected to the   *)
(* simulator's load action (m_loadActions[0]) instead of its clear action *)
ClearWiredToLoad == {Fsx}

(* The "<sim> models" entry of the load menu, followed by a cache clear   *)
(* where the clear lambda is wired to it.                                 *)
LoadMenu(sim, noDirs) ==
    /\ ~dialog
    /\ LET s1 == LoadInstalledModels(S, sim, InBackgroundWithCache, noDirs)
       IN  Apply(IF sim \in ClearWiredToLoad THEN ClearSimulatorCache(s1, sim) ELSE s1)
    /\ UNCHANGED dialog

(* "Force model reload": requestSimulatorModels with InBackgroundNoCache  *)
ReloadMenu(sim, noDirs) ==
    /\ ~dialog
    /\ Apply(LoadInstalledModels(S, sim, InBackgroundNoCache, noDirs))
    /\ UNCHANGED dialog

(* "Clear model caches": an entry whose lambda went to the load action    *)
(* triggers nothing                                                       *)
ClearMenu(sim) ==
    /\ ~dialog
    /\ Apply(IF sim \in ClearWiredToLoad THEN S ELSE ClearSimulatorCache(S, sim))
    /\ UNCHANGED dialog

(* requestOwnModelsUpdate: show the cached models of the selection        *)
RequestOwnModelsUpdate ==
    /\ ~dialog
    /\ view' = cache[selector]
    /\ UNCHANGED <<cache, inProgress, diskLoading, loader, simulator, selector, queue, dialog>>

(* The view loads a JSON file and emits jsonLoadCompleted (queued); one   *)
(* file load at a time                                                     *)
ViewLoadJson(ok) ==
    /\ ~dialog /\ Len(queue) < MaxQueue
    /\ \A i \in 1..Len(queue) : queue[i].k # "jsonLoaded"
    /\ view' = IF ok THEN <<selector, "file">> ELSE view
    /\ queue' = Append(queue, [k |-> "jsonLoaded", ok |-> ok])
    /\ UNCHANGED <<cache, inProgress, diskLoading, loader, simulator, selector, dialog>>

-----------------------------------------------------------------------------
(* The queued calls, in order.                                            *)

(* IAircraftModelLoader::onLoadingFinished                                *)
OnLoadingFinished(s, sim) == [s EXCEPT !.inProgress[sim] = FALSE]

(* onModelLoaderLoadingFinished: show the cached models, or clear the     *)
(* view on failure; unless answered from the cache, select the simulator  *)
OnModelLoaderLoadingFinished(s, e, noDirs) ==
    LET s1 == [s EXCEPT !.view = IF e.ok THEN s.cache[e.sim] ELSE Empty]
    IN  IF e.info = "cacheLoaded" THEN s1 ELSE SetSimulator(s1, e.sim, noDirs)

(* onCacheChanged: show the cached models of that simulator               *)
OnCacheChanged(s, sim) == [s EXCEPT !.view = s.cache[sim]]

(* The GUI thread runs the oldest queued call; the message box of         *)
(* onViewDiskLoadingFinished runs a nested event loop, so queued calls    *)
(* also run while it is open.                                              *)
HandleQueued(noDirs) ==
    /\ queue # <<>>
    /\ LET e  == Head(queue)
           s0 == [S EXCEPT !.queue = Tail(queue)]
       IN  /\ Apply(CASE e.k = "loaderFinished" -> OnLoadingFinished(s0, e.sim)
                       [] e.k = "finished"       -> OnModelLoaderLoadingFinished(s0, e, noDirs)
                       [] e.k = "cacheChanged"   -> OnCacheChanged(s0, e.sim)
                       [] e.k = "jsonLoaded"     -> s0)
           /\ dialog' = (dialog \/ (e.k = "jsonLoaded" /\ e.ok))

(* onViewDiskLoadingFinished, after the message box: the code returns on  *)
(* every answer but Cancel, and on Cancel stores the view's models in the *)
(* cache of the selected simulator                                        *)
AnswerDialog(reply) ==
    /\ dialog
    /\ IF reply = "cancel" /\ view # Empty
       THEN cache' = [cache EXCEPT ![selector] = view]
       ELSE UNCHANGED cache
    /\ dialog' = FALSE
    /\ UNCHANGED <<inProgress, diskLoading, loader, simulator, selector, view, queue>>

-----------------------------------------------------------------------------
(* The environment: the background parse ends, or another process writes  *)
(* a cache.                                                               *)

(* the derived loader's disk parse: the models are cached on success, and *)
(* loadingFinished is emitted                                             *)
DiskLoadDone(sim, ok) ==
    /\ diskLoading[sim]
    /\ LET s1 == [S EXCEPT !.diskLoading[sim] = FALSE,
                           !.cache[sim] = IF ok THEN <<sim, "disk">> ELSE @]
       IN  Apply(EmitFinished(s1, sim, "parsed", ok))
    /\ UNCHANGED dialog

ExternalCacheWrite(sim) ==
    /\ Len(queue) < MaxQueue
    /\ cache' = [cache EXCEPT ![sim] = <<sim, "ext">>]
    /\ queue' = Append(queue, [k |-> "cacheChanged", sim |-> sim])
    /\ UNCHANGED <<inProgress, diskLoading, loader, simulator, selector, view, dialog>>

Next ==
    \/ \E sim \in Sims, noDirs \in BOOLEAN :
          \/ SelectSimulator(sim, noDirs)
          \/ LoadMenu(sim, noDirs)
          \/ ReloadMenu(sim, noDirs)
          \/ \E only \in BOOLEAN : RequestModelsInBackground(sim, only, noDirs)
    \/ \E sim \in Sims : ClearMenu(sim)
    \/ RequestOwnModelsUpdate
    \/ \E ok \in BOOLEAN : ViewLoadJson(ok)
    \/ \E noDirs \in BOOLEAN : HandleQueued(noDirs)
    \/ \E reply \in {"save", "cancel"} : AnswerDialog(reply)
    \/ \E sim \in Sims, ok \in BOOLEAN : DiskLoadDone(sim, ok)
    \/ \E sim \in Sims : ExternalCacheWrite(sim)

Spec == Init /\ [][Next]_vars

-----------------------------------------------------------------------------
(* A loader never stays "in progress" with nothing left to end it:        *)
(* startLoading sets m_loadingInProgress, and only the loader's queued    *)
(* onLoadingFinished clears it; if a path sets it without a disk parse    *)
(* running or a loadingFinished on its way, every later startLoading of   *)
(* that loader returns at once and its simulator can never be loaded.     *)
NoStuckLoader ==
    \A sim \in Sims :
        inProgress[sim] =>
            \/ diskLoading[sim]
            \/ \E i \in 1..Len(queue) : queue[i] = [k |-> "loaderFinished", sim |-> sim]
=============================================================================
