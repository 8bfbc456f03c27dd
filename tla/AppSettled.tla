------------------------------ MODULE AppSettled ------------------------------
(***************************************************************************)
(* The App object, the two reconcilers that write its status, and the      *)
(* Settled condition that `rdd set` waits for. The App reconciler passes   *)
(* spec.running and the template on to the LimaVM (VMContract) and mirrors *)
(* its Running condition back; the engine reconciler follows that mirror:  *)
(* it connects a watcher to the engine in the guest, which keeps mirror    *)
(* resources, and removes them when the guest is down. Both read informer  *)
(* caches and stamp what they conclude with a generation.                  *)
(* Source: rdd/pkg/controllers/app/app/controllers/app_controller.go and   *)
(* rdd/pkg/controllers/app/engine/controllers/watch_reconciler.go.         *)
(***************************************************************************)
EXTENDS VMContract

CONSTANTS
    Docker,     \* the templates that run moby, the others run containerd
    MaxEdits,   \* bound on the user's edits of the App
    MaxFaults,  \* bound on guest crashes and failed sweeps
    Lagging,    \* the reconcilers that may begin on a cache that misses a write
    Overlap,    \* may a new spec arrive while a call works on the older one?
    GivesUp     \* may RetryOnConflict run out of attempts?

ASSUME AppAssumption ==
    /\ Docker \subseteq Templates
    /\ {MaxEdits, MaxFaults} \subseteq Nat
    /\ Lagging \subseteq {"app", "engine"} /\ {Overlap, GivesUp} \subseteq BOOLEAN

VARIABLES
    app,        \* the App: spec, and the conditions in its status
    appCache,   \* the informers' copies, shared by the two reconcilers
    limaCache,
    cmCache,
    queued,     \* which reconcilers have a request pending
    appCall,    \* the App reconcile in progress and its copies
    engCall,    \* the engine reconcile in progress and its copy
    watcher,    \* the engine watcher: does it run, and does it see the guest?
    lastEngine, \* watcherEngine: the engine the mirrors came from
    mirrors,    \* the engines that mirror resources exist for
    spent

appVars == <<app, appCache, limaCache, cmCache, queued, appCall, engCall,
             watcher, lastEngine, mirrors, spent>>
vars == <<vmVars, appVars>>
caches == <<appCache, limaCache, cmCache>>
engine == <<engCall, watcher, lastEngine, mirrors>>
lima == <<cond, observed, disk, guest, going, view>>

Engines == {"moby", "containerd"}
Engine(t) == IF t \in Docker THEN "moby" ELSE "containerd"
NoEngine == "none"

Results == {"Connected", "ConnectFailed", "Stopped"}
App == [gen : Nat, running : BOOLEAN, template : Templates,
        vm : Conditions, eng : {"None"} \cup Results,
        engGen : Nat, settled : BOOLEAN, settledGen : Nat]
LimaVM == [running : BOOLEAN, cond : Conditions, observed : Nat]
ConfigMap == [rv : Nat, data : Templates]
\* broken: the guest is gone and the watcher has not noticed.
Watcher == {"off", "alive", "broken", "dead"}
\* The copies that a call holds go with its phases.
Idle == [pc |-> "idle"]

\* The types of what the two reconcilers, the LimaVM and the user write.
TypeOK ==
    /\ ContractType
    /\ app \in App /\ appCache \in App
    /\ limaCache \in LimaVM /\ cmCache \in ConfigMap
    /\ queued \subseteq {"app", "engine"}
    /\ appCall \in {Idle} \cup [pc : {"settle"}, vm : Conditions, applied : BOOLEAN]
    /\ engCall \in {Idle} \cup [pc : {"stamp"}, result : Results]
    /\ watcher \in Watcher
    /\ lastEngine \in Engines \cup {NoEngine}
    /\ mirrors \subseteq Engines
    /\ spent \in [edits : 0..MaxEdits, faults : 0..MaxFaults]

NewApp(r, t) == [gen |-> 1, running |-> r, template |-> t, vm |-> "Other",
              eng |-> "None", engGen |-> 0, settled |-> FALSE, settledGen |-> 0]
Lima == [running |-> running, cond |-> cond, observed |-> observed]

\* The LimaVM has been created for the App as it is, nothing has been started.
Init ==
    /\ ContractInit /\ view = "watched"
    /\ app = NewApp(running, cm.data) /\ appCache = app
    /\ limaCache = Lima /\ cmCache = cm
    /\ queued = {"app", "engine"}
    /\ appCall = Idle /\ engCall = Idle
    /\ watcher = "off" /\ lastEngine = NoEngine
    /\ mirrors = {}
    /\ spent = [edits |-> 0, faults |-> 0]

-----------------------------------------------------------------------------
Current == appCache = app /\ limaCache = Lima /\ cmCache = cm
Fault == /\ spent.faults < MaxFaults
         /\ spent' = [spent EXCEPT !.faults = @ + 1]

\* A call takes the request that began it unless it fails or asks for another.
AppDone == queued' = queued \ {"app"}
EngineDone == queued' = queued \ {"engine"}

\* RetryOnConflict: the status is computed from a copy read again, and the write
\* is refused unless that copy is current.
Stamp(new) == /\ appCache = app \/ new = appCache
              /\ app' = IF appCache = app THEN new ELSE app
Conflict == GivesUp /\ appCache # app

-----------------------------------------------------------------------------
(* The App reconciler *)

Reconcile == /\ appCall = Idle /\ "app" \in queued
             /\ "app" \in Lagging \/ Current
             /\ Overlap \/ appCache.gen = app.gen

ToStop  == limaCache.running /\ ~appCache.running
ToStart == ~limaCache.running /\ appCache.running
ToApply == cmCache.data # appCache.template

\* r.Update is refused if the LimaVM has changed since it was read. (A change that
\* was undone counts as none here.)
PropagateRunning ==
    IF limaCache = Lima
    THEN running' = appCache.running /\ AppDone
    ELSE UNCHANGED <<running, queued>>

PropagateStop ==
    /\ Reconcile /\ ToStop
    /\ PropagateRunning
    /\ UNCHANGED <<lima, cm, app, caches, appCall, engine, spent>>

\* A merge patch of the data, without precondition. The call asks for another.
PropagateTemplate ==
    /\ Reconcile /\ ~ToStop /\ ToApply
    /\ cm' = IF cm.data = appCache.template THEN cm
             ELSE [rv |-> cm.rv + 1, data |-> appCache.template]
    /\ UNCHANGED <<lima, running, app, caches, queued, appCall, engine, spent>>

PropagateStart ==
    /\ Reconcile /\ ~ToStop /\ ~ToApply /\ ToStart
    /\ PropagateRunning
    /\ UNCHANGED <<lima, cm, app, caches, appCall, engine, spent>>

\* templateUpToDate
CompareVersions ==
    /\ Reconcile /\ ~ToStop /\ ~ToApply /\ ~ToStart
    /\ appCall' = [pc |-> "settle", vm |-> limaCache.cond,
                   applied |-> cmCache.rv = limaCache.observed]
    /\ AppDone
    /\ UNCHANGED <<vmVars, app, caches, engine, spent>>

SettledIgnoresTemplate(a, applied) ==
    /\ IF a.running THEN a.vm = "Started" /\ a.eng = "Connected"
                    ELSE a.vm = "Stopped" /\ a.eng = "Stopped"
    /\ a.engGen >= a.gen

\* computeSettledCondition, with the engine reconciler alone enabled.
Settled(a, applied) ==
    /\ applied
    /\ IF a.running THEN a.vm = "Started" /\ a.eng = "Connected"
                    ELSE a.vm = "Stopped" /\ a.eng = "Stopped"
    /\ a.engGen >= a.gen

WithSettled(a, applied) ==
    [a EXCEPT !.settled = Settled(a, applied), !.settledGen = a.gen]

Settle ==
    /\ appCall.pc = "settle"
    /\ Stamp(WithSettled([appCache EXCEPT !.vm = appCall.vm], appCall.applied))
    /\ appCall' = Idle
    /\ UNCHANGED <<vmVars, caches, queued, engine, spent>>

SettleConflict ==
    /\ appCall.pc = "settle" /\ Conflict
    /\ appCall' = Idle
    /\ queued' = queued \cup {"app"}
    /\ UNCHANGED <<vmVars, app, caches, engine, spent>>

-----------------------------------------------------------------------------
(* The engine reconciler *)

ReconcileWatcher ==
    engCall = Idle /\ "engine" \in queued /\ ("engine" \in Lagging \/ appCache = app)

WantWatcher == appCache.vm = "Started"
Selected == Engine(appCache.template)
Switched == lastEngine \notin {NoEngine, Selected}
Died == ~Switched /\ watcher = "dead"
Reachable == guest # Off /\ Engine(guest) = Selected

ToStamp(result) == /\ engCall' = [pc |-> "stamp", result |-> result]
                   /\ EngineDone

SweepSwallows == /\ Fault
                 /\ mirrors' \in SUBSET mirrors
                 /\ ToStamp("Stopped")

\* Sweeping may stop halfway: the call fails.
SweepFails == /\ Fault
              /\ mirrors' \in SUBSET mirrors
              /\ UNCHANGED <<engCall, queued>>

\* The mirrors are there no more if the status says so for this generation.
AlreadyClean == /\ ~Died
                /\ appCache.eng = "Stopped"
                /\ appCache.engGen >= appCache.gen

StopEngine ==
    /\ ReconcileWatcher /\ ~WantWatcher
    /\ watcher' = "off"
    /\ lastEngine' = IF Switched THEN NoEngine ELSE lastEngine
    /\ \/ /\ mirrors' = IF AlreadyClean THEN mirrors ELSE {}
          /\ ToStamp("Stopped")
          /\ UNCHANGED spent
       \/ ~AlreadyClean /\ SweepFails
    /\ UNCHANGED <<vmVars, app, caches, appCall>>

\* Another engine is selected: if its predecessor's mirrors cannot be swept, the
\* call ends there and watcherEngine stays.
SwitchFails ==
    /\ ReconcileWatcher /\ WantWatcher /\ Switched
    /\ watcher' = "off"
    /\ SweepFails
    /\ UNCHANGED <<vmVars, app, caches, appCall, lastEngine>>

\* startWatcherAndSync, after the sweep if there is one: the initial sync leaves
\* this engine's mirrors only.
ToConnect == WantWatcher /\ (Switched \/ watcher \in {"off", "dead"})

StartWatcher ==
    /\ ReconcileWatcher /\ ToConnect /\ Reachable
    /\ watcher' = "alive"
    /\ lastEngine' = Selected
    /\ mirrors' = {Selected}
    /\ ToStamp("Connected")
    /\ UNCHANGED <<vmVars, app, caches, appCall, spent>>

\* There is no engine to reach, or the sync fails halfway.
StartFails ==
    /\ ReconcileWatcher /\ ToConnect
    /\ watcher' = "off"
    /\ lastEngine' = IF Switched THEN NoEngine ELSE lastEngine
    /\ LET swept == IF Switched THEN {} ELSE mirrors
       IN \/ ~Reachable /\ mirrors' = swept /\ UNCHANGED spent
          \/ Reachable /\ mirrors' \in {swept, swept \cup {Selected}} /\ Fault
    /\ ToStamp("ConnectFailed")
    /\ UNCHANGED <<vmVars, app, caches, appCall>>

KeepWatcherSilent ==
    /\ ReconcileWatcher /\ WantWatcher /\ ~ToConnect
    /\ EngineDone
    /\ UNCHANGED <<vmVars, app, caches, appCall, engCall, watcher, lastEngine,
                   mirrors, spent>>

\* Connected is asserted again by every reconcile.
KeepWatcher ==
    /\ ReconcileWatcher /\ WantWatcher /\ ~ToConnect
    /\ ToStamp("Connected")
    /\ UNCHANGED <<vmVars, app, caches, appCall, watcher, lastEngine, mirrors,
                   spent>>

\* setEngineCondition: what the call found, with the generation of today.
SetEngineCondition ==
    /\ engCall.pc = "stamp"
    /\ Stamp([appCache EXCEPT !.eng = engCall.result, !.engGen = appCache.gen])
    /\ engCall' = Idle
    /\ queued' = IF engCall.result = "ConnectFailed" THEN queued \cup {"engine"}
                                                    ELSE queued
    /\ UNCHANGED <<vmVars, caches, appCall, watcher, lastEngine, mirrors, spent>>

StampConflict ==
    /\ engCall.pc = "stamp" /\ Conflict
    /\ engCall' = Idle
    /\ queued' = queued \cup {"engine"}
    /\ UNCHANGED <<vmVars, app, caches, appCall, watcher, lastEngine, mirrors,
                   spent>>

WatcherEndsSwapped ==
    /\ watcher = "broken"
    /\ \/ queued' = queued \cup {"engine"} /\ UNCHANGED watcher
       \/ watcher' = "dead" /\ UNCHANGED queued
    /\ UNCHANGED <<vmVars, app, caches, appCall, engCall, lastEngine, mirrors,
                   spent>>

\* run's deferred calls: done is closed before the reconciler is woken. What comes
\* in between may as well come before or after.
WatcherEnds ==
    /\ watcher = "broken"
    /\ watcher' = "dead"
    /\ queued' = queued \cup {"engine"}
    /\ UNCHANGED <<vmVars, app, caches, appCall, engCall, lastEngine, mirrors,
                   spent>>

-----------------------------------------------------------------------------
(* The informers and the user *)

SyncApp ==
    /\ appCache # app
    /\ appCache' = app
    /\ queued' = {"app", "engine"}
    /\ UNCHANGED <<vmVars, app, limaCache, cmCache, appCall, engine, spent>>

SyncLimaVM ==
    /\ limaCache # Lima
    /\ limaCache' = Lima
    /\ queued' = queued \cup {"app"}
    /\ UNCHANGED <<vmVars, app, appCache, cmCache, appCall, engine, spent>>

\* The mirrors are watched too: an event of one may come long after the write.
MirrorEvent ==
    /\ "engine" \notin queued
    /\ queued' = queued \cup {"engine"}
    /\ UNCHANGED <<vmVars, app, caches, appCall, engine, spent>>

\* ConfigMaps are cached, but wake nobody.
SyncConfigMap ==
    /\ cmCache # cm
    /\ cmCache' = cm
    /\ UNCHANGED <<vmVars, app, appCache, limaCache, queued, appCall, engine, spent>>

EditApp ==
    /\ spent.edits < MaxEdits /\ (Overlap \/ appCall = Idle)
    /\ spent' = [spent EXCEPT !.edits = @ + 1]
    /\ \E r \in BOOLEAN, t \in Templates :
         /\ <<r, t>> # <<app.running, app.template>>
         /\ app' = [app EXCEPT !.gen = @ + 1, !.running = r, !.template = t]
    /\ UNCHANGED <<vmVars, caches, queued, appCall, engine>>

-----------------------------------------------------------------------------
(* The LimaVM: of what VMContract allows, that which brings it closer to the  *)
(* spec and the template it has read                                          *)

\* A start goes on after the client has changed its mind only if calls overlap.
Fresh == Overlap \/ going = running
SameCall == going' = going
SameVM == SameCall /\ view' = view
Stale == guest \notin {Off, cm.data}

VMReads    == going # running /\ going' = running /\ view' = view /\ Quietly
VMStarts   == SameVM /\ Fresh /\ cond # "Starting" /\ Announce
VMBoots    == SameVM /\ Fresh /\ going /\ cond = "Starting" /\ Boot
VMReports  == /\ SameVM /\ Fresh /\ view = "watched" /\ guest # Off
              /\ ReportStarted
VMStopped  == /\ SameVM /\ cond # "Stopped" /\ guest = Off
              /\ going => observed # cm.rv /\ cond # "Starting"
              /\ ReportStopped
VMWrites   == SameVM /\ disk # cm.data /\ WriteDisk /\ disk' = cm.data
VMObserves == SameVM /\ Observe /\ observed' = cm.rv
VMFails    == SameVM /\ cond # "Other" /\ ReportOther

\* The watch of a guest fails. A stop that finds it so reports Stopped at once,
\* a start drops the watcher too; either way the guest is then found and stopped.
VMLoses    == SameCall /\ view = "watched" /\ guest # Off /\ view' = "lost" /\ Quietly
VMForgets  == /\ SameCall /\ view = "lost" /\ view' = "found"
              /\ IF going THEN Quietly ELSE ReportStopped

\* The watcher's connection breaks with the guest. The next guest is watched.
GuestGone == /\ SameCall /\ guest # Off /\ PowerOff
             /\ view' = "watched"
             /\ watcher' = IF watcher = "alive"
                           THEN "broken" ELSE watcher
VMStops   == /\ ~going \/ Stale \/ cond = "Other" \/ view = "found"
             /\ view # "lost" /\ GuestGone

VMOnly == UNCHANGED <<app, caches, queued, appCall, engCall, lastEngine, mirrors>>
VMWrite == VMOnly /\ VMWrites /\ UNCHANGED <<watcher, spent>>
VMWork ==
    /\ VMOnly /\ UNCHANGED spent
    /\ \/ /\ \/ VMReads \/ VMStarts \/ VMBoots \/ VMReports \/ VMStopped
             \/ VMObserves \/ VMForgets
          /\ UNCHANGED watcher
       \/ VMStops
VMTrouble ==
    /\ VMOnly /\ Fault
    /\ \/ GuestGone
       \/ (VMFails \/ VMLoses) /\ UNCHANGED watcher

-----------------------------------------------------------------------------
AppStep == \/ PropagateStop \/ PropagateTemplate \/ PropagateStart
           \/ CompareVersions \/ Settle \/ SettleConflict
EngineStep == \/ StopEngine \/ SwitchFails \/ StartWatcher \/ StartFails
              \/ KeepWatcher \/ SetEngineCondition \/ StampConflict

Next == \/ AppStep \/ EngineStep \/ WatcherEnds
        \/ SyncApp \/ SyncLimaVM \/ SyncConfigMap \/ MirrorEvent
        \/ VMWrite \/ VMWork \/ VMTrouble \/ EditApp

Spec == Init /\ [][Next]_vars

\* Every controller goes on, the informers deliver, a dead connection is noticed.
Fairness ==
    /\ WF_vars(AppStep) /\ WF_vars(EngineStep) /\ WF_vars(WatcherEnds)
    /\ WF_vars(SyncApp) /\ WF_vars(SyncLimaVM) /\ WF_vars(SyncConfigMap)
    /\ WF_vars(VMWrite) /\ WF_vars(VMWork)
FairSpec == Spec /\ Fairness

-----------------------------------------------------------------------------
(* Properties *)

SettledNow == app.settled /\ app.settledGen = app.gen

\* computeSettledCondition: when Settled is True for the current generation, as
\* `rdd set` waits for, the spec has been passed on, no guest runs another
\* template, and none runs at all if the App is to be stopped, unless the watch
\* of that guest failed and it has not been stopped yet.
SettledMeansApplied ==
    SettledNow =>
        /\ running = app.running /\ cm.data = app.template
        /\ view = "watched" =>
             guest \in IF app.running THEN {Off, app.template} ELSE {Off}

\* cleanupMirrorResources: a stopped App that is settled has no mirrors left, a
\* running one none of another engine.
SettledMeansSwept ==
    SettledNow =>
        mirrors \subseteq IF app.running THEN {Engine(app.template)} ELSE {}

\* The same once the engine reconciler has nothing left to do.
QuietMeansSwept ==
    (engCall = Idle /\ "engine" \notin queued /\ appCache = app) => SettledMeansSwept

\* setEngineCondition: what an engine reconciler with nothing left to do has said of
\* this generation is what it holds: Connected means that the guest of the selected
\* engine is watched (or has just gone), Stopped that nothing is. No event of the
\* App and no end of a watcher is lost.
QuietMeansWatched ==
    (engCall = Idle /\ "engine" \notin queued /\ appCache = app) =>
        /\ app.engGen = app.gen
        /\ IF app.vm = "Started"
           THEN /\ app.eng = "Connected" /\ watcher \in {"alive", "broken"}
                /\ lastEngine = Engine(app.template)
           ELSE app.eng = "Stopped" /\ watcher = "off"

\* Once the user rests, the App settles for good, on what the spec says.
Settles ==
    <>[](/\ SettledNow
         /\ guest = IF app.running THEN app.template ELSE Off
         /\ app.running => mirrors = {Engine(app.template)})
=============================================================================
