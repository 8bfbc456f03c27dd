--------------------------- MODULE AppSettledProofs ---------------------------
(***************************************************************************)
(* AppSettled keeps its types and the LimaVM's contract, whatever the      *)
(* templates, the bounds and the order in which reads and writes arrive.   *)
(* The App controller is thus a client that the contract allows. What the  *)
(* Settled condition says of the spec, the guest and the mirrors is so.    *)
(***************************************************************************)
EXTENDS AppSettled, VMContractProofs

\* What TypeOK says beyond ContractType.
AppType ==
    /\ app \in App /\ appCache \in App
    /\ limaCache \in LimaVM /\ cmCache \in ConfigMap
    /\ queued \subseteq {"app", "engine"}
    /\ appCall \in {Idle} \cup [pc : {"settle"}, vm : Conditions, applied : BOOLEAN]
    /\ engCall \in {Idle} \cup [pc : {"stamp"}, result : Results]
    /\ watcher \in Watcher
    /\ lastEngine \in Engines \cup {NoEngine}
    /\ mirrors \subseteq Engines
    /\ spent \in [edits : 0..MaxEdits, faults : 0..MaxFaults]

LEMMA TypeSplit == TypeOK <=> ContractType /\ AppType
    BY DEF TypeOK, AppType

-----------------------------------------------------------------------------
(* The contract *)

\* An App reconcile changes at most what a client of the LimaVM may.
LEMMA AppStepKeeps ==
    ContractType /\ AppType /\ AppStep => [ContractNext]_vmVars
<1> SUFFICES ASSUME ContractType, AppType, AppStep PROVE [ContractNext]_vmVars
    OBVIOUS
<1>1. CASE PropagateStop \/ PropagateStart
    <2>1. CASE limaCache = Lima
        <3>1. running' = ~running
            <4>1. limaCache.running = running /\ running \in BOOLEAN
                BY <2>1 DEF Lima, ContractType
            <4>2. appCache.running \in BOOLEAN
                BY DEF AppType, App
            <4>3. running' = appCache.running
                BY <1>1, <2>1 DEF PropagateStop, PropagateStart, PropagateRunning
            <4> QED
                BY <1>1, <4>1, <4>2, <4>3, Zenon
                DEF PropagateStop, PropagateStart, ToStop, ToStart
        <3>2. UNCHANGED <<cond, observed, cm, disk, guest, going, view>>
            BY <1>1 DEF PropagateStop, PropagateStart, lima
        <3> QED
            BY <3>1, <3>2 DEF ContractNext, SetRunning, Remember
    <2>2. CASE limaCache # Lima
        BY <1>1, <2>2
        DEF PropagateStop, PropagateStart, PropagateRunning, lima, vmVars
    <2> QED
        BY <2>1, <2>2
<1>2. CASE PropagateTemplate
    <2>1. appCache.template \in Templates
        BY DEF AppType, App
    <2>2. UNCHANGED <<running, cond, observed, disk, guest, going, view>>
        BY <1>2 DEF PropagateTemplate, lima
    <2>3. cm' = cm \/ cm' = [rv |-> cm.rv + 1, data |-> appCache.template]
        BY <1>2 DEF PropagateTemplate
    <2> QED
        BY <2>1, <2>2, <2>3 DEF ContractNext, EditTemplate, Remember, vmVars
<1>3. CASE CompareVersions \/ Settle \/ SettleConflict
    BY <1>3 DEF CompareVersions, Settle, SettleConflict
<1> QED
    BY <1>1, <1>2, <1>3 DEF AppStep

\* The steps of the LimaVM are steps of its contract.
LEMMA VMStepKeeps ==
    ContractType /\ (VMWrite \/ VMWork \/ VMTrouble) => [ContractNext]_vmVars
<1> SUFFICES ASSUME ContractType, VMWrite \/ VMWork \/ VMTrouble
             PROVE ContractNext
    OBVIOUS
<1>1. CASE VMReads
    BY <1>1 DEF VMReads, ContractNext, VMStep, Remember
<1>2. CASE SameVM /\ VMStep
    BY <1>2 DEF SameVM, SameCall, ContractNext, Remember
<1>3. CASE GuestGone
    BY <1>3 DEF GuestGone, SameCall, PowerOff, ContractNext, VMStep, Remember
<1>4. CASE VMLoses \/ VMForgets
    BY <1>4 DEF VMLoses, VMForgets, SameCall, ReportStopped, ContractNext, VMStep, Remember
<1> QED
    BY <1>1, <1>2, <1>3, <1>4
    DEF VMWrite, VMWork, VMTrouble, VMStarts, VMBoots, VMReports, VMStopped,
        VMWrites, VMObserves, VMFails, VMStops, VMStep

\* Every step is a step of the contract, or none that the contract sees.
LEMMA StepKeeps == ContractType /\ AppType /\ [Next]_vars => [ContractNext]_vmVars
<1> SUFFICES ASSUME ContractType, AppType, [Next]_vars
             PROVE  [ContractNext]_vmVars
    OBVIOUS
<1>1. CASE AppStep
    BY <1>1, AppStepKeeps
<1>2. CASE VMWrite \/ VMWork \/ VMTrouble
    BY <1>2, VMStepKeeps
<1>3. CASE EngineStep
    BY <1>3 DEF EngineStep, StopEngine, SwitchFails, StartWatcher, StartFails,
                KeepWatcher, SetEngineCondition, StampConflict
<1>4. CASE \/ WatcherEnds \/ SyncApp \/ SyncLimaVM \/ SyncConfigMap
           \/ MirrorEvent \/ EditApp
    BY <1>4 DEF WatcherEnds, SyncApp, SyncLimaVM, SyncConfigMap, MirrorEvent,
                EditApp
<1>5. CASE UNCHANGED vars
    BY <1>5 DEF vars
<1> QED
    BY <1>1, <1>2, <1>3, <1>4, <1>5 DEF Next
-----------------------------------------------------------------------------
(* The types *)

LEMMA InitTypes == Init => AppType
<1> SUFFICES ASSUME Init PROVE AppType
    OBVIOUS
<1>1. ContractType
    BY InitInv DEF Init, ContractInv
<1>2. app \in App
    <2>1. running \in BOOLEAN /\ cm.data \in Templates
        BY <1>1 DEF ContractType
    <2> QED
        BY <2>1 DEF Init, NewApp, App, Conditions, Results
<1>3. limaCache \in LimaVM /\ cmCache \in ConfigMap
    BY <1>1 DEF Init, Lima, LimaVM, ConfigMap, ContractType
<1>4. spent \in [edits : 0..MaxEdits, faults : 0..MaxFaults]
    BY AppAssumption DEF Init
<1> QED
    BY <1>2, <1>3, <1>4
    DEF Init, AppType, Idle, Watcher, NoEngine, Engines

\* A fault is counted within its bound.
LEMMA FaultTypes ==
    ASSUME spent \in [edits : 0..MaxEdits, faults : 0..MaxFaults], Fault
    PROVE  spent' \in [edits : 0..MaxEdits, faults : 0..MaxFaults]
    BY AppAssumption DEF Fault

\* A status is written over the copy it was computed from, or not at all.
LEMMA StampTypes ==
    ASSUME app \in App, NEW new \in App, Stamp(new)
    PROVE  app' \in App
    BY DEF Stamp

LEMMA AppStepTypes == ContractType /\ AppType /\ AppStep => AppType'
<1> SUFFICES ASSUME ContractType, AppType, AppStep PROVE AppType'
    OBVIOUS
<1> USE DEF AppType
<1>1. CASE PropagateStop \/ PropagateTemplate \/ PropagateStart
    BY <1>1 DEF PropagateStop, PropagateTemplate, PropagateStart,
                PropagateRunning, AppDone, caches, engine
<1>2. CASE CompareVersions
    <2>1. limaCache.cond \in Conditions
        BY DEF LimaVM
    <2>2. appCall' \in [pc : {"settle"}, vm : Conditions, applied : BOOLEAN]
        BY <1>2, <2>1 DEF CompareVersions
    <2> QED
        BY <1>2, <2>2 DEF CompareVersions, AppDone, caches, engine
<1>3. CASE Settle
    <2>1. appCall.vm \in Conditions
        BY <1>3 DEF Settle, Idle
    <2> DEFINE seen == [appCache EXCEPT !.vm = appCall.vm]
    <2>2. seen \in App
        BY <2>1 DEF App
    <2>3. Settled(seen, appCall.applied) \in BOOLEAN
        BY DEF Settled
    <2>4. WithSettled(seen, appCall.applied) \in App
        <3>1. seen.gen \in Nat
            BY <2>2 DEF App
        <3> HIDE DEF seen
        <3> QED
            BY <2>2, <2>3, <3>1 DEF WithSettled, App
    <2>5. app' \in App
        BY <1>3, <2>4, StampTypes DEF Settle
    <2> QED
        BY <1>3, <2>5 DEF Settle, caches, engine
<1>4. CASE SettleConflict
    BY <1>4 DEF SettleConflict, caches, engine
<1> QED
    BY <1>1, <1>2, <1>3, <1>4 DEF AppStep

LEMMA EngineStepTypes == ContractType /\ AppType /\ EngineStep => AppType'
<1> SUFFICES ASSUME ContractType, AppType, EngineStep PROVE AppType'
    OBVIOUS
<1> USE DEF AppType
<1>1. Selected \in Engines /\ "off" \in Watcher
    BY DEF Selected, Engine, Engines, Watcher
<1>2. ASSUME NEW r \in Results, ToStamp(r)
      PROVE  /\ engCall' \in {Idle} \cup [pc : {"stamp"}, result : Results]
             /\ queued' \subseteq {"app", "engine"}
    BY <1>2 DEF ToStamp, EngineDone
<1>3. {"Stopped", "Connected", "ConnectFailed"} \subseteq Results
    BY DEF Results
<1>4. ASSUME SweepFails
      PROVE  /\ mirrors' \subseteq Engines
             /\ spent' \in [edits : 0..MaxEdits, faults : 0..MaxFaults]
             /\ UNCHANGED <<engCall, queued>>
    BY <1>4, FaultTypes DEF SweepFails
<1>5. CASE StopEngine
    <2>1. /\ watcher' \in Watcher /\ lastEngine' \in Engines \cup {NoEngine}
          /\ UNCHANGED <<app, appCache, limaCache, cmCache, appCall>>
        BY <1>1, <1>5 DEF StopEngine, caches
    <2>2. CASE SweepFails
        BY <1>4, <2>1, <2>2
    <2>3. CASE /\ mirrors' = IF AlreadyClean THEN mirrors ELSE {}
               /\ ToStamp("Stopped") /\ UNCHANGED spent
        BY <1>2, <1>3, <2>1, <2>3
    <2> QED
        BY <1>5, <2>2, <2>3 DEF StopEngine
<1>6. CASE SwitchFails
    BY <1>1, <1>4, <1>6 DEF SwitchFails, caches
<1>7. CASE StartWatcher
    <2>1. watcher' \in Watcher
        BY <1>1, <1>7 DEF StartWatcher, Watcher
    <2> QED
        BY <1>1, <1>2, <1>3, <1>7, <2>1 DEF StartWatcher, caches
<1>8. CASE StartFails
    <2>1. mirrors' \subseteq Engines
        BY <1>1, <1>8 DEF StartFails
    <2>2. spent' \in [edits : 0..MaxEdits, faults : 0..MaxFaults]
        BY <1>8, FaultTypes DEF StartFails
    <2> QED
        BY <1>1, <1>2, <1>3, <1>8, <2>1, <2>2 DEF StartFails, caches
<1>9. CASE KeepWatcher
    BY <1>2, <1>3, <1>9 DEF KeepWatcher, caches
<1>10. CASE SetEngineCondition
    <2>1. engCall.result \in Results
        BY <1>10 DEF SetEngineCondition, Idle
    <2>2. [appCache EXCEPT !.eng = engCall.result, !.engGen = appCache.gen] \in App
        <3>1. appCache.gen \in Nat
            BY DEF App
        <3> QED
            BY <2>1, <3>1 DEF App
    <2>3. app' \in App
        BY <1>10, <2>2, StampTypes DEF SetEngineCondition
    <2> QED
        BY <1>10, <2>3 DEF SetEngineCondition, caches
<1>11. CASE StampConflict
    BY <1>11 DEF StampConflict, caches
<1> QED
    BY <1>5, <1>6, <1>7, <1>8, <1>9, <1>10, <1>11 DEF EngineStep

\* The informers copy what is there, and the user edits what he may.
LEMMA OtherTypes ==
    /\ ContractType /\ AppType
    /\ \/ WatcherEnds \/ SyncApp \/ SyncLimaVM \/ SyncConfigMap \/ MirrorEvent
       \/ VMWrite \/ VMWork \/ VMTrouble \/ EditApp
    => AppType'
<1> SUFFICES ASSUME ContractType, AppType,
                    \/ WatcherEnds \/ SyncApp \/ SyncLimaVM \/ SyncConfigMap
                    \/ MirrorEvent \/ VMWrite \/ VMWork \/ VMTrouble \/ EditApp
             PROVE  AppType'
    OBVIOUS
<1> USE DEF AppType
<1>1. CASE WatcherEnds
    <2>1. watcher' \in Watcher
        BY <1>1 DEF WatcherEnds, Watcher
    <2> QED
        BY <1>1, <2>1 DEF WatcherEnds, caches
<1>2. CASE SyncApp
    BY <1>2 DEF SyncApp, engine
<1>3. CASE SyncLimaVM
    <2>1. Lima \in LimaVM
        BY DEF Lima, LimaVM, ContractType
    <2> QED
        BY <1>3, <2>1 DEF SyncLimaVM, engine
<1>4. CASE SyncConfigMap \/ MirrorEvent
    BY <1>4 DEF SyncConfigMap, MirrorEvent, engine, caches, ConfigMap, ContractType
<1>5. CASE VMWrite \/ VMWork \/ VMTrouble
    <2>1. GuestGone => watcher' \in Watcher
        BY DEF GuestGone, Watcher
    <2>2. watcher' \in Watcher
        BY <1>5, <2>1 DEF VMWrite, VMWork, VMTrouble, VMStops
    <2>3. spent' \in [edits : 0..MaxEdits, faults : 0..MaxFaults]
        BY <1>5, FaultTypes DEF VMWrite, VMWork, VMTrouble
    <2> QED
        BY <1>5, <2>2, <2>3 DEF VMWrite, VMWork, VMTrouble, VMOnly, caches
<1>6. CASE EditApp
    <2>1. app' \in App
        <3>1. PICK r \in BOOLEAN, t \in Templates :
                app' = [app EXCEPT !.gen = @ + 1, !.running = r, !.template = t]
            BY <1>6 DEF EditApp
        <3>2. app.gen + 1 \in Nat
            BY DEF App
        <3> QED
            BY <3>1, <3>2 DEF App
    <2>2. spent' \in [edits : 0..MaxEdits, faults : 0..MaxFaults]
        <3>1. /\ spent.edits < MaxEdits
              /\ spent' = [spent EXCEPT !.edits = @ + 1]
            BY <1>6 DEF EditApp
        <3>2. spent.edits + 1 \in 0..MaxEdits
            BY <3>1, AppAssumption
        <3> QED
            BY <3>1, <3>2
    <2> QED
        BY <1>6, <2>1, <2>2 DEF EditApp, caches, engine
<1> QED
    BY <1>1, <1>2, <1>3, <1>4, <1>5, <1>6

LEMMA StepTypes == ContractType /\ AppType /\ [Next]_vars => AppType'
<1> SUFFICES ASSUME ContractType, AppType, [Next]_vars PROVE AppType'
    OBVIOUS
<1>1. CASE UNCHANGED vars
    BY <1>1 DEF vars, appVars, AppType
<1> QED
    BY <1>1, AppStepTypes, EngineStepTypes, OtherTypes DEF Next

-----------------------------------------------------------------------------
\* AppSettled keeps its types.
THEOREM TypeCorrect == Spec => []TypeOK
<1>1. Init => ContractType /\ AppType
    BY InitInv, InitTypes DEF Init, ContractInv
<1>2. ContractType /\ [ContractNext]_vmVars => ContractType'
    BY TypeStep DEF vmVars, ContractType
<1>3. ContractType /\ AppType /\ [Next]_vars => (ContractType /\ AppType)'
    BY <1>2, StepKeeps, StepTypes
<1> QED
    BY <1>1, <1>3, TypeSplit, PTL DEF Spec

\* Whatever the App controller and the engine reconciler do, with whatever copies,
\* the LimaVM among them keeps its contract.
THEOREM AppKeepsContract == Spec => Contract
<1>1. Init => ContractInit
    BY DEF Init
<1>2. TypeOK /\ [Next]_vars => [ContractNext]_vmVars
    BY StepKeeps, TypeSplit
<1> QED
    BY <1>1, <1>2, TypeCorrect, PTL DEF Spec, Contract

-----------------------------------------------------------------------------
(* What the engine reconciler sweeps *)

\* It begins on the App as it is, and its status is written in the end.
Careful == "engine" \notin Lagging /\ ~GivesUp

\* What is due of the mirrors, with the condition that the App mirrors now.
Due == IF app.vm = "Started" THEN {Engine(app.template)} ELSE {}

\* The inductive invariant: a watcher that was started has left the mirrors of its
\* engine only, Stopped is concluded and written only where there are none, and a
\* reconciler that is done with the App as it is has left what is due.
MirrorInv ==
    /\ SettledNow => app.vm = IF app.running THEN "Started" ELSE "Stopped"
    /\ appCache.gen <= app.gen /\ app.settledGen <= app.gen
    /\ watcher # "off" => lastEngine # NoEngine /\ mirrors = {lastEngine}
    /\ engCall # Idle => /\ appCache.eng = app.eng
                         /\ engCall.result = "Stopped" => mirrors = {}
    /\ engCall = Idle /\ app.eng = "Stopped" => mirrors = {}
    /\ "engine" \notin queued /\ appCache = app =>
         mirrors = Due \/ (engCall # Idle /\ engCall.result = "ConnectFailed")

LEMMA MirrorInit == Init => MirrorInv
<1> SUFFICES ASSUME Init PROVE MirrorInv
    OBVIOUS
<1>1. /\ app.settled = FALSE /\ app.settledGen = 0 /\ appCache = app /\ app.gen = 1 /\ app.eng = "None"
      /\ watcher = "off" /\ engCall = Idle /\ "engine" \in queued
    BY DEF Init, NewApp
<1> QED
    BY <1>1 DEF MirrorInv, SettledNow

\* A step that leaves the engine reconciler, its mirrors and the App alone.
LEMMA AsideMirror ==
    ASSUME MirrorInv, UNCHANGED <<app, engCall, lastEngine, mirrors>>,
           \/ UNCHANGED <<watcher, appCache>>
           \/ UNCHANGED appCache /\ watcher # "off"
           \/ UNCHANGED watcher /\ appCache' = app,
           "engine" \in queued' \/ ("engine" \notin queued /\ UNCHANGED appCache),
           app \in App
    PROVE  MirrorInv'
<1>1. app.gen \in Nat
    BY DEF App
<1>2. UNCHANGED <<SettledNow, Due>>
    BY DEF SettledNow, Due
<1> QED
    BY <1>1, <1>2 DEF MirrorInv

\* A status or spec is written: the cache has not seen it, unless it is as before.
LEMMA WrittenMirror ==
    ASSUME MirrorInv, app \in App, appCache \in App,
           UNCHANGED <<appCache, engCall, watcher, lastEngine, mirrors>>,
           "engine" \in queued' <=> "engine" \in queued,
           \/ appCache = app
           \/ app'.gen > app.gen,
           app'.eng = app.eng, app'.gen >= app.gen, app'.gen \in Nat,
           app'.settledGen <= app'.gen,
           SettledNow' => app'.vm = IF app'.running THEN "Started" ELSE "Stopped"
    PROVE  MirrorInv'
<1>1. app.gen \in Nat /\ appCache.gen \in Nat
    BY DEF App
<1>2. appCache' = app' => app' = app
    BY <1>1 DEF MirrorInv
<1>3. appCache' = app' => Due' = Due
    BY <1>2 DEF Due
<1>4. appCache'.gen <= app'.gen
    BY <1>1 DEF MirrorInv
<1> QED
    BY <1>2, <1>3, <1>4 DEF MirrorInv

\* The App reconciler's status: Settled and the condition it mirrors go together.
LEMMA SettleMirror ==
    ASSUME MirrorInv, AppType, Settle
    PROVE  MirrorInv'
<1> DEFINE seen == [appCache EXCEPT !.vm = appCall.vm]
           new == WithSettled(seen, appCall.applied)
<1>1. app \in App /\ appCache \in App /\ queued \subseteq {"app", "engine"}
    BY DEF AppType
<1>2. UNCHANGED <<appCache, queued, engCall, watcher, lastEngine, mirrors>>
    BY DEF Settle, caches, engine
<1>3. Stamp(new)
    BY DEF Settle
<1>4. /\ new.eng = appCache.eng /\ new.gen = appCache.gen
      /\ new.running = appCache.running /\ new.vm = seen.vm
      /\ new.settledGen = appCache.gen
      /\ new.settled = Settled(seen, appCall.applied)
      /\ new.settled => seen.vm = IF seen.running THEN "Started" ELSE "Stopped"
      /\ seen.running = appCache.running
    <2>1. /\ seen.eng = appCache.eng /\ seen.gen = appCache.gen
          /\ seen.running = appCache.running
        BY <1>1 DEF App
    <2>2. seen \in [{"gen", "running", "template", "vm", "eng", "engGen", "settled",
                     "settledGen"} -> {seen[f] : f \in {"gen", "running", "template",
                     "vm", "eng", "engGen", "settled", "settledGen"}}]
        BY <1>1 DEF App
    <2> HIDE DEF seen
    <2> QED
        BY <2>1, <2>2 DEF WithSettled, Settled
<1> HIDE DEF new
<1>5. CASE appCache = app
    <2>1. app' = new
        BY <1>3, <1>5 DEF Stamp
    <2>2. app'.gen \in Nat /\ app.gen \in Nat
        BY <1>1, <1>4, <1>5, <2>1 DEF App
    <2>3. SettledNow' => app'.vm = IF app'.running THEN "Started" ELSE "Stopped"
        BY <1>4, <2>1 DEF SettledNow
    <2> QED
        BY <1>1, <1>2, <1>4, <1>5, <2>1, <2>2, <2>3, WrittenMirror
<1>6. CASE appCache # app
    <2>1. app' = app
        BY <1>3, <1>6 DEF Stamp
    <2> QED
        BY <1>2, <2>1, <1>1 DEF MirrorInv, SettledNow, Due
<1> QED
    BY <1>5, <1>6

\* An edit unsettles the App.
LEMMA EditMirror ==
    ASSUME MirrorInv, AppType, EditApp
    PROVE  MirrorInv'
<1>1. app \in App /\ appCache \in App
    BY DEF AppType
<1>2. UNCHANGED <<appCache, queued, engCall, watcher, lastEngine, mirrors>>
    BY DEF EditApp, caches, engine
<1>3. PICK r \in BOOLEAN, t \in Templates :
        app' = [app EXCEPT !.gen = @ + 1, !.running = r, !.template = t]
    BY DEF EditApp
<1>4. app'.gen = app.gen + 1 /\ app'.eng = app.eng /\ app.gen \in Nat
    BY <1>1, <1>3 DEF App
<1>5. app'.settledGen = app.settledGen /\ app'.settled = app.settled /\ app'.vm = app.vm
    BY <1>1, <1>3 DEF App
<1>6. ~SettledNow' /\ app'.settledGen <= app'.gen
    <2>1. app.settledGen \in Nat /\ app.settledGen <= app.gen
        BY <1>1 DEF App, MirrorInv
    <2> QED
        BY <1>4, <1>5, <2>1 DEF SettledNow
<1>7. app'.gen > app.gen /\ app'.gen >= app.gen /\ app'.gen \in Nat
    BY <1>4
<1> QED
    BY <1>1, <1>2, <1>4, <1>6, <1>7, WrittenMirror

\* The engine reconciler itself.
LEMMA EngineMirror ==
    ASSUME MirrorInv, AppType, Careful, EngineStep
    PROVE  MirrorInv'
<1>0. /\ app \in App /\ appCache \in App /\ UNCHANGED <<appCache, appCall>>
      /\ app.gen \in Nat
    BY DEF AppType, App, EngineStep, StopEngine, SwitchFails, StartWatcher,
           StartFails, KeepWatcher, SetEngineCondition, StampConflict, caches
<1>1. ReconcileWatcher => engCall = Idle /\ "engine" \in queued /\ appCache = app
    BY DEF ReconcileWatcher, Careful
<1>2. ASSUME ReconcileWatcher, NEW r, ToStamp(r), app' = app
      PROVE  /\ engCall' # Idle /\ engCall'.result = r /\ appCache'.eng = app'.eng
             /\ SettledNow' = SettledNow /\ Due' = Due
    BY <1>0, <1>1, <1>2 DEF ToStamp, Idle, SettledNow, Due
<1>3. ASSUME ReconcileWatcher, SweepFails, watcher' = "off", app' = app
      PROVE  MirrorInv'
    BY <1>0, <1>1, <1>3 DEF SweepFails, MirrorInv, SettledNow
<1>4. ASSUME ReconcileWatcher, NEW r, ToStamp(r), app' = app,
             watcher' # "off" => lastEngine' # NoEngine /\ mirrors' = {lastEngine'},
             r = "Stopped" => mirrors' = {},
             mirrors' = Due \/ r = "ConnectFailed"
      PROVE  MirrorInv'
    BY <1>0, <1>2, <1>4 DEF MirrorInv
<1>5. CASE StopEngine
    <2>1. CASE SweepFails
        BY <1>3, <1>5, <2>1 DEF StopEngine
    <2>2. CASE /\ mirrors' = IF AlreadyClean THEN mirrors ELSE {}
               /\ ToStamp("Stopped")
        <3>1. AlreadyClean => mirrors = {}
            BY <1>1, <1>5 DEF StopEngine, AlreadyClean, MirrorInv
        <3>2. Due = {}
            BY <1>1, <1>5 DEF StopEngine, WantWatcher, Due
        <3> QED
            BY <1>4, <1>5, <2>2, <3>1, <3>2 DEF StopEngine
    <2> QED
        BY <1>5, <2>1, <2>2 DEF StopEngine
<1>6. CASE SwitchFails
    BY <1>3, <1>6 DEF SwitchFails
<1>7. CASE StartWatcher
    <2>1. Due = {Selected}
        BY <1>1, <1>7 DEF StartWatcher, ToConnect, WantWatcher, Due, Selected
    <2>2. Selected # NoEngine
        BY DEF Selected, Engine, NoEngine
    <2> QED
        BY <1>4, <1>7, <2>1, <2>2 DEF StartWatcher
<1>8. CASE StartFails
    BY <1>4, <1>8 DEF StartFails
<1>9. CASE KeepWatcher
    <2>1. watcher # "off" /\ lastEngine \in {NoEngine, Selected}
        BY <1>9 DEF KeepWatcher, ToConnect, Switched
    <2>2. Due = {Selected}
        BY <1>1, <1>9 DEF KeepWatcher, WantWatcher, Due, Selected
    <2> QED
        BY <1>4, <1>9, <2>1, <2>2 DEF KeepWatcher, MirrorInv
<1>10. CASE SetEngineCondition
    <2> DEFINE r == engCall.result
               new == [appCache EXCEPT !.eng = r, !.engGen = appCache.gen]
    <2>1. /\ engCall # Idle /\ engCall' = Idle /\ Stamp(new)
          /\ UNCHANGED <<watcher, lastEngine, mirrors>>
          /\ queued' = IF r = "ConnectFailed" THEN queued \cup {"engine"} ELSE queued
        BY <1>10 DEF SetEngineCondition, Idle
    <2>2. /\ new.eng = r /\ new.gen = appCache.gen /\ new.vm = appCache.vm
          /\ new.running = appCache.running /\ new.settled = appCache.settled
          /\ new.settledGen = appCache.settledGen
        BY <1>0 DEF App
    <2>3. app'.eng = r
        <3>1. appCache # app /\ new = appCache => app.eng = r
            BY <2>1, <2>2 DEF MirrorInv
        <3> HIDE DEF new
        <3> QED
            BY <2>1, <2>2, <3>1 DEF Stamp
    <2>4. \/ app' = app
          \/ appCache = app /\ app' = new
        <3> HIDE DEF new
        <3> QED
            BY <2>1 DEF Stamp
    <2>5. /\ SettledNow' = SettledNow /\ app'.gen = app.gen /\ app'.vm = app.vm
          /\ app'.settledGen = app.settledGen /\ app'.running = app.running
        <3> HIDE DEF new
        <3> QED
            BY <2>2, <2>4 DEF SettledNow
    <2>6. appCache' = app' => app' = app
        <3> HIDE DEF new
        <3> QED
            BY <1>0, <2>4
    <2>7. "engine" \notin queued' => "engine" \notin queued /\ r # "ConnectFailed"
        BY <2>1
    <2>8. "engine" \notin queued' /\ appCache' = app' => mirrors' = Due'
        BY <1>0, <2>1, <2>6, <2>7 DEF MirrorInv, Due
    <2> HIDE DEF r, new
    <2> QED
        BY <1>0, <2>1, <2>3, <2>5, <2>8 DEF MirrorInv, r
<1>11. CASE StampConflict
    BY <1>11 DEF StampConflict, Conflict, Careful
<1> QED
    BY <1>5, <1>6, <1>7, <1>8, <1>9, <1>10, <1>11 DEF EngineStep
LEMMA MirrorStep == Careful /\ AppType /\ MirrorInv /\ [Next]_vars => MirrorInv'
<1> SUFFICES ASSUME Careful, AppType, MirrorInv, [Next]_vars PROVE MirrorInv'
    OBVIOUS
<1>0. app \in App
    BY DEF AppType
<1>1. CASE \/ PropagateStop \/ PropagateTemplate \/ PropagateStart
           \/ CompareVersions \/ SettleConflict \/ UNCHANGED vars
    <2>1. /\ UNCHANGED <<app, appCache, engCall, watcher, lastEngine, mirrors>>
          /\ "engine" \in queued' <=> "engine" \in queued
        BY <1>1 DEF PropagateStop, PropagateTemplate, PropagateStart, CompareVersions,
           SettleConflict, PropagateRunning, AppDone, caches, engine, vars, appVars
    <2> QED
        BY <1>0, <2>1, AsideMirror
<1>2. CASE Settle
    BY <1>2, SettleMirror
<1>3. CASE EngineStep
    BY <1>3, EngineMirror
<1>4. CASE EditApp
    BY <1>4, EditMirror
<1>5. CASE WatcherEnds \/ SyncApp \/ SyncLimaVM \/ SyncConfigMap \/ MirrorEvent
    BY <1>0, <1>5, AsideMirror
    DEF WatcherEnds, SyncApp, SyncLimaVM, SyncConfigMap, MirrorEvent, caches, engine
<1>6. CASE VMWrite \/ VMWork \/ VMTrouble
    <2>1. UNCHANGED <<app, appCache, queued, engCall, lastEngine, mirrors>>
        BY <1>6 DEF VMWrite, VMWork, VMTrouble, VMOnly, caches
    <2>2. UNCHANGED watcher \/ watcher # "off"
        BY <1>6 DEF VMWrite, VMWork, VMTrouble, VMStops, GuestGone
    <2> QED
        BY <1>0, <2>1, <2>2, AsideMirror
<1> QED
    BY <1>1, <1>2, <1>3, <1>4, <1>5, <1>6 DEF Next, AppStep

\* cleanupMirrorResources, whatever faults, edits and bounds: when the engine
\* reconciler is done, a settled App that is stopped has no mirrors, and one that
\* runs has none of another engine. The reconciler must not begin on a cache that
\* misses its own status, nor give up on writing it.
THEOREM SweptWhenQuiet == ASSUME Careful PROVE Spec => []QuietMeansSwept
<1>1. Init => MirrorInv
    BY MirrorInit
<1>2. AppType /\ MirrorInv /\ [Next]_vars => MirrorInv'
    BY MirrorStep
<1>3. MirrorInv => QuietMeansSwept
    BY DEF MirrorInv, QuietMeansSwept, SettledMeansSwept, Due
<1>4. TypeOK => AppType
    BY TypeSplit
<1> QED
    BY <1>1, <1>2, <1>3, <1>4, TypeCorrect, PTL DEF Spec

-----------------------------------------------------------------------------
(* What the engine reconciler says of its watcher *)

\* A result that says what there is, for the condition that the App mirrors now.
Held(r) ==
    IF app.vm = "Started"
    THEN /\ r = "Connected" /\ watcher \in {"alive", "broken"}
         /\ lastEngine = Engine(app.template)
    ELSE r = "Stopped" /\ watcher = "off"

\* A reconciler that is done with the App as it is has said so, or is about to.
\* A failure to connect brings another call.
HeldInv ==
    "engine" \notin queued /\ appCache = app =>
        IF engCall = Idle THEN app.engGen = app.gen /\ Held(app.eng)
        ELSE engCall.result = "ConnectFailed" \/ Held(engCall.result)

\* Steps that wake the engine reconciler, that its cache has yet to see, or that
\* leave what it holds as it is.
LEMMA AsideHeld ==
    ASSUME HeldInv,
           \/ "engine" \in queued'
           \/ appCache' # app'
           \/ /\ "engine" \notin queued
              /\ UNCHANGED <<app, appCache, engCall, lastEngine>>
              /\ watcher' = watcher \/ (watcher = "alive" /\ watcher' = "broken")
    PROVE  HeldInv'
<1>1. CASE "engine" \in queued' \/ appCache' # app'
    BY <1>1 DEF HeldInv
<1>2. CASE /\ "engine" \notin queued
           /\ UNCHANGED <<app, appCache, engCall, lastEngine>>
           /\ watcher' = watcher \/ (watcher = "alive" /\ watcher' = "broken")
    <2>1. ASSUME NEW r, Held(r) PROVE Held(r)'
        BY <1>2, <2>1 DEF Held
    <2>2. UNCHANGED <<app.engGen, app.gen, app.eng, engCall.result>>
        BY <1>2
    <2>3. CASE appCache = app /\ engCall = Idle
        <3>1. app.engGen = app.gen /\ Held(app.eng)
            BY <1>2, <2>3 DEF HeldInv
        <3>2. Held(app.eng)'
            BY <1>2, <3>1 DEF Held
        <3> QED
            BY <1>2, <2>2, <2>3, <3>1, <3>2 DEF HeldInv, Idle
    <2>4. CASE appCache = app /\ engCall # Idle
        <3>1. engCall.result = "ConnectFailed" \/ Held(engCall.result)
            BY <1>2, <2>4 DEF HeldInv
        <3>2. engCall'.result = "ConnectFailed" \/ Held(engCall.result)'
            BY <1>2, <3>1 DEF Held
        <3> QED
            BY <1>2, <2>2, <2>4, <3>2 DEF HeldInv, Idle
    <2>5. CASE appCache # app
        BY <1>2, <2>5 DEF HeldInv
    <2> QED
        BY <2>3, <2>4, <2>5
<1> QED
    BY <1>1, <1>2

\* The engine reconciler itself.
LEMMA EngineHeld ==
    ASSUME HeldInv, MirrorInv, AppType, Careful, EngineStep
    PROVE  HeldInv'
<1>0. app \in App /\ appCache \in App /\ UNCHANGED appCache
    BY DEF AppType, EngineStep, StopEngine, SwitchFails, StartWatcher,
           StartFails, KeepWatcher, SetEngineCondition, StampConflict, caches
<1>1. ReconcileWatcher => "engine" \in queued /\ appCache = app
    BY DEF ReconcileWatcher, Careful
<1>2. ASSUME ReconcileWatcher, SweepFails
      PROVE  HeldInv'
    BY <1>1, <1>2 DEF SweepFails, HeldInv
<1>3. ASSUME ReconcileWatcher, NEW r, ToStamp(r), app' = app,
             r = "ConnectFailed" \/ Held(r)'
      PROVE  HeldInv'
    <2>1. engCall' # Idle /\ engCall'.result = r
        BY <1>3 DEF ToStamp, Idle
    <2> QED
        BY <1>3, <2>1 DEF HeldInv, Held
<1>4. CASE StopEngine
    <2>1. app'.vm # "Started" /\ watcher' = "off" /\ app' = app
        BY <1>1, <1>4 DEF StopEngine, WantWatcher
    <2>2. Held("Stopped")'
        BY <2>1 DEF Held
    <2> QED
        BY <1>2, <1>3, <1>4, <2>1, <2>2 DEF StopEngine
<1>5. CASE SwitchFails
    BY <1>2, <1>5 DEF SwitchFails
<1>6. CASE StartWatcher
    <2>1. /\ app' = app /\ app.vm = "Started" /\ watcher' = "alive"
          /\ lastEngine' = Engine(app.template)
        BY <1>1, <1>6 DEF StartWatcher, ToConnect, WantWatcher, Selected
    <2>2. Held("Connected")'
        BY <2>1 DEF Held, Engine
    <2> QED
        BY <1>3, <1>6, <2>1, <2>2 DEF StartWatcher
<1>7. CASE StartFails
    BY <1>3, <1>7 DEF StartFails
<1>8. CASE KeepWatcher
    <2>1. /\ app' = app /\ app.vm = "Started" /\ watcher' = watcher
          /\ watcher \in {"alive", "broken"}
          /\ lastEngine' = lastEngine /\ lastEngine \in {NoEngine, Engine(app.template)}
        BY <1>1, <1>8 DEF KeepWatcher, ToConnect, WantWatcher, Switched, Selected,
           AppType, Watcher
    <2>2. Held("Connected")'
        BY <2>1 DEF Held, Engine, MirrorInv
    <2> QED
        BY <1>3, <1>8, <2>1, <2>2 DEF KeepWatcher
<1>9. CASE SetEngineCondition
    <2> DEFINE r == engCall.result
               new == [appCache EXCEPT !.eng = r, !.engGen = appCache.gen]
    <2>1. /\ engCall # Idle /\ engCall' = Idle /\ Stamp(new)
          /\ UNCHANGED <<watcher, lastEngine>>
          /\ queued' = IF r = "ConnectFailed" THEN queued \cup {"engine"} ELSE queued
        BY <1>9 DEF SetEngineCondition, Idle
    <2>2. new.eng = r /\ new.engGen = appCache.gen
        BY <1>0 DEF App
    <2>3. SUFFICES ASSUME "engine" \notin queued', appCache' = app'
                   PROVE  app'.engGen = app'.gen /\ Held(app.eng)'
        BY <2>1 DEF HeldInv
    <2>4. appCache = app /\ app' = app /\ new = app
        <3> HIDE DEF new
        <3> QED
            BY <1>0, <2>1, <2>3 DEF Stamp
    <2>5. Held(r)
        BY <2>1, <2>3, <2>4 DEF HeldInv
    <2>6. app.eng = r /\ app.engGen = app.gen
        <3> HIDE DEF new
        <3> QED
            BY <2>2, <2>4
    <2> HIDE DEF r, new
    <2> QED
        BY <2>1, <2>4, <2>5, <2>6 DEF Held
<1>10. CASE StampConflict
    BY <1>10 DEF StampConflict, Conflict, Careful
<1> QED
    BY <1>4, <1>5, <1>6, <1>7, <1>8, <1>9, <1>10 DEF EngineStep

LEMMA HeldStep ==
    Careful /\ AppType /\ MirrorInv /\ HeldInv /\ [Next]_vars => HeldInv'
<1> SUFFICES ASSUME Careful, AppType, MirrorInv, HeldInv, [Next]_vars PROVE HeldInv'
    OBVIOUS
<1>1. CASE \/ PropagateStop \/ PropagateTemplate \/ PropagateStart
           \/ CompareVersions \/ SettleConflict \/ UNCHANGED vars
    <2>1. /\ UNCHANGED <<app, appCache, engCall, watcher, lastEngine>>
          /\ "engine" \in queued' <=> "engine" \in queued
        BY <1>1 DEF PropagateStop, PropagateTemplate, PropagateStart, CompareVersions,
           SettleConflict, PropagateRunning, AppDone, caches, engine, vars, appVars
    <2> QED
        BY <2>1, AsideHeld
<1>2. CASE Settle
    <2>1. /\ UNCHANGED <<appCache, queued, engCall, watcher, lastEngine>>
          /\ app' = app \/ appCache = app
        BY <1>2 DEF Settle, Stamp, caches, engine
    <2> QED
        BY <2>1, AsideHeld
<1>3. CASE EngineStep
    BY <1>3, EngineHeld
<1>4. CASE EditApp
    <2>1. app \in App /\ appCache \in App /\ appCache.gen <= app.gen
        BY DEF AppType, MirrorInv
    <2>2. app'.gen = app.gen + 1 /\ appCache' = appCache
        BY <1>4, <2>1 DEF EditApp, App, caches
    <2>3. appCache' # app'
        BY <2>1, <2>2 DEF App
    <2> QED
        BY <2>3, AsideHeld
<1>5. CASE WatcherEnds \/ SyncApp \/ SyncLimaVM \/ SyncConfigMap \/ MirrorEvent
    BY <1>5, AsideHeld
    DEF WatcherEnds, SyncApp, SyncLimaVM, SyncConfigMap, MirrorEvent, caches, engine
<1>6. CASE VMWrite \/ VMWork \/ VMTrouble
    <2>1. UNCHANGED <<app, appCache, queued, engCall, lastEngine>>
        BY <1>6 DEF VMWrite, VMWork, VMTrouble, VMOnly, caches
    <2>2. UNCHANGED watcher \/ (watcher = "alive" /\ watcher' = "broken")
        BY <1>6 DEF VMWrite, VMWork, VMTrouble, VMStops, GuestGone
    <2> QED
        BY <2>1, <2>2, AsideHeld
<1> QED
    BY <1>1, <1>2, <1>3, <1>4, <1>5, <1>6 DEF Next, AppStep

\* setEngineCondition, whatever faults, edits and bounds: an engine reconciler with
\* nothing left to do has reported, for the generation of now, what it watches. The
\* premise is that of SweptWhenQuiet.
THEOREM WatchedWhenQuiet == ASSUME Careful PROVE Spec => []QuietMeansWatched
<1>1. Init => MirrorInv /\ HeldInv
    <2>1. Init => "engine" \in queued
        BY DEF Init
    <2> QED
        BY <2>1, MirrorInit DEF HeldInv
<1>2. AppType /\ MirrorInv /\ HeldInv /\ [Next]_vars => MirrorInv' /\ HeldInv'
    BY MirrorStep, HeldStep
<1>3. HeldInv => QuietMeansWatched
    BY DEF HeldInv, QuietMeansWatched, Held
<1>4. TypeOK => AppType
    BY TypeSplit
<1> QED
    BY <1>1, <1>2, <1>3, <1>4, TypeCorrect, PTL DEF Spec

-----------------------------------------------------------------------------
(* What Settled says of the spec, the template and the guest *)

\* Nothing is edited while a reconcile goes on, and the App reconciler's caches
\* have what it wrote, unless there is one edit at most.
Following == ~Overlap /\ ("app" \notin Lagging \/ MaxEdits <= 1)

\* The spec has been passed on and the version of its template is recorded.
Passed == running = app.running /\ cm.data = app.template /\ observed = cm.rv

\* No guest is left, as far as the control plane watches guests.
Down == view = "watched" => guest = Off

\* What the copies may miss: with one edit, what a copy shows of the new spec is
\* there, for it was never there before.
OneEdit ==
    /\ app.gen = spent.edits + 1
    /\ \/ cmCache = cm
       \/ cmCache.data # app.template /\ cm.data = app.template
    /\ \/ limaCache.running = running
       \/ limaCache.running # app.running /\ running = app.running
    /\ app.gen = 1 => /\ cmCache.data = app.template /\ cm.data = app.template
                      /\ limaCache.running = app.running /\ running = app.running
    /\ ~app.running /\ ~limaCache.running /\ limaCache.cond = "Stopped" => Down

\* The inductive invariant: what the App reconciler concluded, and what it stamped
\* for the generation of now, is so and stays so until the next edit.
AppliedInv ==
    /\ cond = "Stopped" => Down
    /\ appCache.gen <= app.gen /\ app.settledGen <= app.gen
    /\ appCache.gen = app.gen =>
         appCache.running = app.running /\ appCache.template = app.template
    /\ limaCache.observed <= observed
    /\ appCall # Idle /\ appCall.applied =>
         Passed /\ (~app.running /\ appCall.vm = "Stopped" => Down)
    /\ SettledNow => Passed /\ (~app.running => Down)
    /\ MaxEdits <= 1 => OneEdit

LEMMA AppliedInit == Init => AppliedInv
<1> SUFFICES ASSUME Init PROVE AppliedInv
    OBVIOUS
<1>1. /\ app = NewApp(running, cm.data) /\ appCache = app /\ limaCache = Lima
      /\ cmCache = cm /\ appCall = Idle /\ spent.edits = 0
      /\ cond = "Other" /\ observed = 1 /\ guest = Off
    BY DEF Init, ContractInit
<1>2. /\ app.gen = 1 /\ app.settled = FALSE /\ app.settledGen = 0
      /\ app.running = running /\ app.template = cm.data
    BY <1>1 DEF NewApp
<1>3. limaCache.running = running /\ limaCache.observed = 1
    BY <1>1 DEF Lima
<1> QED
    BY <1>1, <1>2, <1>3 DEF AppliedInv, OneEdit, SettledNow, Down

\* What a write to the status leaves of the spec and of Settled.
LEMMA StatusApplied ==
    ASSUME AppliedInv,
           UNCHANGED <<vmVars, appCache, limaCache, cmCache, spent.edits>>,
           /\ app'.gen = app.gen /\ app'.running = app.running
           /\ app'.template = app.template /\ app'.settledGen <= app.gen,
           SettledNow' => SettledNow \/ (Passed /\ (~app.running => Down)),
           appCall' = appCall \/ appCall' = Idle
    PROVE  AppliedInv'
<1>1. Passed' = Passed
    BY DEF Passed, vmVars
<1>2. OneEdit' = OneEdit
    BY DEF OneEdit, vmVars, Down
<1>3. UNCHANGED <<view, cond, guest, observed, Down>>
    BY DEF vmVars, Down
<1> QED
    BY <1>1, <1>2, <1>3 DEF AppliedInv

\* computeSettledCondition stamps what templateUpToDate has concluded.
LEMMA SettleApplied ==
    ASSUME AppliedInv, AppType, Settle
    PROVE  AppliedInv'
<1> DEFINE seen == [appCache EXCEPT !.vm = appCall.vm]
           new == WithSettled(seen, appCall.applied)
<1>1. app \in App /\ appCache \in App /\ appCall # Idle
    BY DEF AppType, Settle, Idle
<1>2. /\ UNCHANGED <<vmVars, appCache, limaCache, cmCache, spent.edits>>
      /\ Stamp(new) /\ appCall' = Idle
    BY DEF Settle, caches
<1>3. /\ new.gen = appCache.gen /\ new.running = appCache.running
      /\ new.template = appCache.template /\ new.settledGen = appCache.gen
      /\ new.settled => /\ appCall.applied
                        /\ ~appCache.running => appCall.vm = "Stopped"
    <2>1. /\ seen.gen = appCache.gen /\ seen.running = appCache.running
          /\ seen.template = appCache.template /\ seen.vm = appCall.vm
        BY <1>1 DEF App
    <2>2. seen \in [{"gen", "running", "template", "vm", "eng", "engGen", "settled",
                     "settledGen"} -> {seen[f] : f \in {"gen", "running", "template",
                     "vm", "eng", "engGen", "settled", "settledGen"}}]
        BY <1>1 DEF App
    <2> HIDE DEF seen
    <2> QED
        BY <2>1, <2>2 DEF WithSettled, Settled
<1> HIDE DEF new
<1>4. CASE appCache = app
    <2>1. app' = new
        BY <1>2, <1>4 DEF Stamp
    <2>2. SettledNow' => Passed /\ (~app.running => Down)
        BY <1>1, <1>3, <1>4, <2>1 DEF SettledNow, AppliedInv
    <2>3. app.gen \in Nat
        BY <1>1 DEF App
    <2> QED
        BY <1>2, <1>3, <1>4, <2>1, <2>2, <2>3, StatusApplied
<1>5. CASE appCache # app
    <2>1. app' = app
        BY <1>2, <1>5 DEF Stamp
    <2> QED
        BY <1>2, <2>1, StatusApplied DEF SettledNow, AppliedInv
<1> QED
    BY <1>4, <1>5

\* The engine reconciler's status touches neither the spec nor Settled.
LEMMA EngineApplied ==
    ASSUME AppliedInv, AppType, EngineStep
    PROVE  AppliedInv'
<1>1. app \in App /\ appCache \in App
    BY DEF AppType
<1>2. UNCHANGED <<vmVars, appCache, limaCache, cmCache, appCall>>
    BY DEF EngineStep, StopEngine, SwitchFails, StartWatcher, StartFails,
           KeepWatcher, SetEngineCondition, StampConflict, caches
<1>3. spent'.edits = spent.edits
    BY DEF EngineStep, StopEngine, SwitchFails, StartWatcher, StartFails, SweepFails,
           KeepWatcher, SetEngineCondition, StampConflict, Fault, AppType
<1>4. /\ app'.gen = app.gen /\ app'.running = app.running
      /\ app'.template = app.template /\ app'.settledGen = app.settledGen
      /\ app'.settled = app.settled
    <2>1. CASE SetEngineCondition
        <3> DEFINE new == [appCache EXCEPT !.eng = engCall.result,
                                           !.engGen = appCache.gen]
        <3>1. /\ new.gen = appCache.gen /\ new.running = appCache.running
              /\ new.template = appCache.template
              /\ new.settledGen = appCache.settledGen /\ new.settled = appCache.settled
            BY <1>1 DEF App
        <3>2. Stamp(new)
            BY <2>1 DEF SetEngineCondition
        <3> HIDE DEF new
        <3> QED
            BY <3>1, <3>2 DEF Stamp
    <2>2. CASE UNCHANGED app
        BY <2>2
    <2> QED
        BY <2>1, <2>2 DEF EngineStep, StopEngine, SwitchFails, StartWatcher, StartFails,
                          KeepWatcher, StampConflict
<1>5. UNCHANGED <<vmVars, appCache, limaCache, cmCache, spent.edits>>
    BY <1>2, <1>3
<1> QED
    BY <1>2, <1>4, <1>5, StatusApplied DEF SettledNow, AppliedInv

\* An edit unsettles the App; the first one finds every copy up to date.
LEMMA EditApplied ==
    ASSUME Following, AppliedInv, AppType, ContractType, EditApp
    PROVE  AppliedInv'
<1>1. /\ app \in App /\ appCache \in App /\ appCall = Idle /\ appCall' = Idle
      /\ spent.edits < MaxEdits /\ spent'.edits = spent.edits + 1 /\ spent.edits \in Nat
      /\ UNCHANGED <<vmVars, appCache, limaCache, cmCache>>
    BY DEF AppType, EditApp, caches, Following
<1>2. PICK r \in BOOLEAN, t \in Templates :
        app' = [app EXCEPT !.gen = @ + 1, !.running = r, !.template = t]
    BY DEF EditApp
<1>3. /\ app'.gen = app.gen + 1 /\ app'.settledGen = app.settledGen
      /\ app.gen \in Nat /\ app.settledGen \in Nat /\ appCache.gen \in Nat
    BY <1>1, <1>2 DEF App
<1>4. MaxEdits <= 1 => OneEdit'
    <2> SUFFICES ASSUME MaxEdits <= 1 PROVE OneEdit'
        OBVIOUS
    <2>1. OneEdit /\ app.gen = 1
        BY <1>1, <1>3, AppAssumption DEF AppliedInv, OneEdit
    <2>2. UNCHANGED <<cm, running, guest, view, cmCache, limaCache>>
        BY <1>1 DEF vmVars
    <2>3. cmCache = cm /\ limaCache.running = running
        BY <2>1 DEF OneEdit
    <2>4. ~limaCache.running => ~app.running
        BY <2>1 DEF OneEdit
    <2> QED
        BY <1>1, <1>3, <2>1, <2>2, <2>3, <2>4 DEF OneEdit, Down
<1>5. ~SettledNow' /\ app'.settledGen <= app'.gen /\ appCache.gen < app'.gen
    BY <1>3 DEF SettledNow, AppliedInv
<1>6. UNCHANGED <<view, cond, guest, observed, Down>>
    BY <1>1 DEF vmVars, Down
<1>7. appCache'.gen <= app'.gen /\ appCache'.gen # app'.gen
    BY <1>1, <1>3, <1>5
<1> QED
    BY <1>1, <1>4, <1>5, <1>6, <1>7 DEF AppliedInv

\* A reconcile begins on the spec of now, and what it passes on is that.
LEMMA PropagateApplied ==
    ASSUME Following, AppliedInv, AppType, ContractType,
           PropagateStop \/ PropagateStart \/ PropagateTemplate
    PROVE  AppliedInv'
<1>1. /\ UNCHANGED <<app, appCache, limaCache, cmCache, appCall, spent,
                     cond, observed, guest, view>>
      /\ appCall = Idle
    BY DEF PropagateStop, PropagateStart, PropagateTemplate, lima, caches, Reconcile
<1>2. /\ appCache.running = app.running /\ appCache.template = app.template
      /\ running \in BOOLEAN /\ app.running \in BOOLEAN /\ limaCache.running \in BOOLEAN
    BY DEF PropagateStop, PropagateStart, PropagateTemplate, Reconcile, Following,
           AppliedInv, AppType, ContractType, App, LimaVM
<1>3. CASE PropagateStop \/ PropagateStart
    <2>1. /\ limaCache.running # app.running /\ cm' = cm
          /\ running' = app.running \/ running' = running
        BY <1>2, <1>3 DEF PropagateStop, PropagateStart, PropagateRunning, ToStop, ToStart
    <2>2. OneEdit => OneEdit'
        BY <1>1, <1>2, <2>1 DEF OneEdit
    <2>3. Passed => Passed'
        BY <1>1, <2>1 DEF Passed
    <2> QED
        BY <1>1, <2>2, <2>3 DEF AppliedInv, SettledNow, Down
<1>4. CASE PropagateTemplate
    <2>1. /\ cmCache.data # app.template /\ running' = running
          /\ \/ cm' = cm /\ cm.data = app.template
             \/ cm.data # app.template /\ cm'.data = app.template
        BY <1>2, <1>4 DEF PropagateTemplate, ToApply
    <2>2. OneEdit => OneEdit'
        BY <1>1, <2>1 DEF OneEdit, Down
    <2>3. Passed => Passed'
        BY <1>1, <2>1 DEF Passed
    <2> QED
        BY <1>1, <2>2, <2>3 DEF AppliedInv, SettledNow, Down
<1> QED
    BY <1>3, <1>4

\* templateUpToDate
LEMMA CompareApplied ==
    ASSUME Following, AppliedInv, ContractInv, AppType, CompareVersions
    PROVE  AppliedInv'
<1>1. UNCHANGED <<app, appCache, limaCache, cmCache, spent, vmVars>>
    BY DEF CompareVersions, caches
<1>2. /\ appCache.running = app.running /\ appCache.template = app.template
      /\ app.running \in BOOLEAN /\ limaCache.running \in BOOLEAN
      /\ observed \in Nat /\ cm.rv \in Nat /\ observed <= cm.rv
      /\ limaCache.observed \in Nat
    BY DEF CompareVersions, Reconcile, Following, AppliedInv, AppType, ContractInv,
           ContractType, App, LimaVM
<1>3. limaCache.running = app.running /\ cmCache.data = app.template
    BY <1>2 DEF CompareVersions, ToStop, ToStart, ToApply
<1>4. /\ appCall'.applied <=> cmCache.rv = limaCache.observed
      /\ appCall'.vm = limaCache.cond
    BY DEF CompareVersions
<1>5. /\ running = app.running /\ cmCache = cm
      /\ ~app.running /\ limaCache.cond = "Stopped" => Down
    <2>1. CASE Current
        BY <1>3, <2>1 DEF Current, Lima, AppliedInv
    <2>2. CASE ~Current
        <3>1. MaxEdits <= 1
            BY <2>2 DEF CompareVersions, Reconcile, Following
        <3> QED
            BY <1>3, <3>1 DEF AppliedInv, OneEdit
    <2> QED
        BY <2>1, <2>2
<1>6. appCall'.applied => Passed
    BY <1>2, <1>3, <1>4, <1>5 DEF Passed, AppliedInv
<1>7. UNCHANGED <<Passed, OneEdit, SettledNow>> /\ UNCHANGED <<view, cond, guest, observed, Down>>
    BY <1>1 DEF Passed, OneEdit, SettledNow, vmVars, Down
<1>8. appCall' # Idle /\ appCall'.applied =>
         Passed' /\ (~app'.running /\ appCall'.vm = "Stopped" => Down')
    BY <1>1, <1>4, <1>5, <1>6, <1>7
<1> QED
    BY <1>1, <1>7, <1>8 DEF AppliedInv

\* What the LimaVM does: it records no version beyond the last, and boots no guest
\* unless it is to run.
LEMMA VMApplied ==
    ASSUME AppliedInv, ContractInv, AppType,
           UNCHANGED <<app, appCache, limaCache, cmCache, appCall, running, cm,
                       spent.edits>>,
           observed' = observed \/ observed' \in (observed + 1)..cm.rv,
           Down => Down' \/ running,
           cond' = "Stopped" => Down'
    PROVE  AppliedInv'
<1>1. /\ observed \in Nat /\ cm.rv \in Nat /\ limaCache.observed \in Nat
      /\ running \in BOOLEAN /\ app.running \in BOOLEAN /\ limaCache.running \in BOOLEAN
    BY DEF ContractInv, ContractType, AppType, LimaVM, App
<1>2. Passed => Passed' /\ (~app.running /\ Down => Down')
    BY <1>1 DEF Passed
<1>3. OneEdit => OneEdit'
    BY <1>1 DEF OneEdit
<1>4. limaCache.observed <= observed => limaCache.observed <= observed'
    BY <1>1
<1> QED
    BY <1>2, <1>3, <1>4 DEF AppliedInv, SettledNow

LEMMA VMStepApplied ==
    ASSUME Following, AppliedInv, ContractInv, AppType, VMWrite \/ VMWork \/ VMTrouble
    PROVE  AppliedInv'
<1>1. UNCHANGED <<app, appCache, limaCache, cmCache, appCall>>
    BY DEF VMWrite, VMWork, VMTrouble, VMOnly, caches
<1>2. spent'.edits = spent.edits
    BY DEF VMWrite, VMWork, VMTrouble, Fault, AppType
<1>3. view' = "watched" => view = "watched" \/ guest' = Off
    BY DEF VMWrite, VMWork, VMTrouble, SameVM, VMReads, VMStarts, VMBoots, VMReports,
           VMStopped, VMWrites, VMObserves, VMStops, VMFails, VMLoses, VMForgets,
           GuestGone, PowerOff
<1>4. /\ UNCHANGED <<running, cm>>
      /\ observed' = observed \/ observed' \in (observed + 1)..cm.rv
    BY DEF VMWrite, VMWork, VMTrouble, VMReads, VMStarts, VMBoots, VMReports,
           VMStopped, VMWrites, VMObserves, VMStops, VMFails, VMLoses, VMForgets,
           GuestGone, Quietly,
           Announce, Boot, ReportStarted, PowerOff, ReportStopped, ReportOther,
           WriteDisk, Observe
<1>5. /\ guest' = guest \/ guest' = Off \/ running
      /\ cond' = "Stopped" =>
           guest' = Off \/ view' # "watched" \/ (cond = "Stopped" /\ guest' = guest)
    <2>1. CASE VMBoots
        BY <2>1 DEF VMBoots, Boot, Fresh, Following
    <2>2. CASE VMStops \/ GuestGone
        BY <2>2 DEF VMStops, GuestGone, PowerOff
    <2>3. CASE VMStarts \/ VMReports \/ VMStopped \/ VMFails
        BY <2>3 DEF VMStarts, VMReports, VMStopped, VMFails, Announce, ReportStarted,
                    ReportStopped, ReportOther
    <2>4. CASE VMReads \/ VMWrites \/ VMObserves
        BY <2>4 DEF VMReads, VMWrites, VMObserves, Quietly, WriteDisk, Observe
    <2>5. CASE VMLoses \/ VMForgets
        BY <2>5 DEF VMLoses, VMForgets, Quietly, ReportStopped
    <2> QED
        BY <2>1, <2>2, <2>3, <2>4, <2>5 DEF VMWrite, VMWork, VMTrouble
<1>6. /\ Down => Down' \/ running
      /\ cond' = "Stopped" => Down'
    BY <1>3, <1>5 DEF Down, AppliedInv
<1> QED
    BY <1>1, <1>2, <1>4, <1>6, VMApplied

\* The informers copy what is there.
LEMMA SyncApplied ==
    ASSUME AppliedInv, AppType, ContractType,
           SyncApp \/ SyncLimaVM \/ SyncConfigMap \/ MirrorEvent \/ WatcherEnds
    PROVE  AppliedInv'
<1>1. /\ UNCHANGED <<app, appCall, spent, vmVars>>
      /\ UNCHANGED <<Passed, SettledNow>> /\ UNCHANGED <<view, cond, guest, observed, Down>>
    BY DEF SyncApp, SyncLimaVM, SyncConfigMap, MirrorEvent, WatcherEnds, caches,
           Passed, SettledNow, Down, vmVars
<1>2. appCache' = appCache \/ appCache' = app
    BY DEF SyncApp, SyncLimaVM, SyncConfigMap, MirrorEvent, WatcherEnds, caches
<1>3. limaCache' = limaCache \/ limaCache' = Lima
    BY DEF SyncApp, SyncLimaVM, SyncConfigMap, MirrorEvent, WatcherEnds, caches
<1>4. cmCache' = cmCache \/ cmCache' = cm
    BY DEF SyncApp, SyncLimaVM, SyncConfigMap, MirrorEvent, WatcherEnds, caches
<1>5. /\ appCache'.gen <= app'.gen
      /\ appCache'.gen = app'.gen =>
           appCache'.running = app'.running /\ appCache'.template = app'.template
    BY <1>1, <1>2 DEF AppliedInv, AppType, App
<1>6. Lima.running = running /\ Lima.cond = cond /\ Lima.observed = observed
    BY DEF Lima
<1>7. limaCache'.observed <= observed'
    BY <1>1, <1>3, <1>6 DEF AppliedInv, ContractType
<1>8. MaxEdits <= 1 => OneEdit'
    <2> SUFFICES ASSUME OneEdit PROVE OneEdit'
        BY DEF AppliedInv
    <2>1. UNCHANGED <<cm, running>>
        BY <1>1 DEF vmVars
    <2>2. limaCache' = Lima =>
            (~app.running /\ ~limaCache'.running /\ limaCache'.cond = "Stopped"
               => Down)
        BY <1>6 DEF AppliedInv
    <2> QED
        BY <1>1, <1>3, <1>4, <1>6, <2>1, <2>2 DEF OneEdit
<1> QED
    BY <1>1, <1>5, <1>7, <1>8 DEF AppliedInv

LEMMA AppliedStep ==
    Following /\ ContractInv /\ AppType /\ AppliedInv /\ [Next]_vars => AppliedInv'
<1> SUFFICES ASSUME Following, ContractInv, AppType, AppliedInv, [Next]_vars
             PROVE  AppliedInv'
    OBVIOUS
<1>0. ContractType
    BY DEF ContractInv
<1>1. CASE UNCHANGED vars
    <2>1. UNCHANGED <<vmVars, appCache, limaCache, cmCache, spent.edits, app, appCall>>
        BY <1>1 DEF vars, appVars
    <2> QED
        BY <2>1, StatusApplied DEF SettledNow, AppliedInv
<1>2. CASE SettleConflict
    <2>1. UNCHANGED <<vmVars, appCache, limaCache, cmCache, spent.edits, app>>
          /\ appCall' = Idle
        BY <1>2 DEF SettleConflict, caches
    <2> QED
        BY <2>1, StatusApplied DEF SettledNow, AppliedInv
<1> QED
    BY <1>0, <1>1, <1>2, PropagateApplied, CompareApplied, SettleApplied, EngineApplied,
       EditApplied, VMStepApplied, SyncApplied DEF Next, AppStep

\* computeSettledCondition, for any templates, faults and number of edits: an App
\* that `rdd set` finds settled has had its spec passed on, and no guest that is
\* watched runs another template or is to be stopped. Of the App reconciler's
\* caches only the last edit of one may lag.
THEOREM SettledApplied == ASSUME Following PROVE Spec => []SettledMeansApplied
<1>1. Init => AppliedInv /\ ContractInv
    BY AppliedInit, InitInv DEF Init
<1>2. TypeOK /\ ContractInv /\ AppliedInv /\ [Next]_vars => (ContractInv /\ AppliedInv)'
    <2>1. TypeOK /\ [Next]_vars => [ContractNext]_vmVars
        BY StepKeeps, TypeSplit
    <2> QED
        BY <2>1, InvStep, AppliedStep, TypeSplit
<1>3. ContractInv /\ AppliedInv => SettledMeansApplied
    BY DEF ContractInv, ObservedIsGuest, AppliedInv, Passed, SettledMeansApplied, Down
<1> QED
    BY <1>1, <1>2, <1>3, TypeCorrect, PTL DEF Spec
=============================================================================
