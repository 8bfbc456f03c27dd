----------------------------- MODULE LimaVMProofs -----------------------------
(***************************************************************************)
(* Theorems about LimaVM, for every number of processes and templates and  *)
(* every bound on what the user and the environment do.                    *)
(***************************************************************************)
EXTENDS LimaVMContract, TLAPS

USE ConstantsAssumption DEF drivers

\* What a status patch sends is a LimaVM object, whatever the copy it started
\* from: WithCond and WithMessage return the server's object with one condition.
LEMMA PatchType ==
    ASSUME vm \in VMObject, NEW r \in Conds
    PROVE  /\ WithCond(r) \in VMObject
           /\ \A new \in WithMessage(r) : new \in VMObject
  BY DEF WithCond, WithMessage, VMObject

\* Changing a field of a LimaVM object to a value of its type.
LEMMA FieldType ==
    ASSUME NEW v \in VMObject
    PROVE  /\ \A b \in BOOLEAN : /\ [v EXCEPT !.running = b] \in VMObject
                                 /\ [v EXCEPT !.restart = b] \in VMObject
                                 /\ [v EXCEPT !.needed = b] \in VMObject
           /\ \A n \in Nat : /\ [v EXCEPT !.observed = n] \in VMObject
                             /\ [v EXCEPT !.cond = "Started", !.count = n] \in VMObject
           /\ v.running \in BOOLEAN /\ v.observed \in Nat /\ v.count \in Nat
  BY DEF VMObject, Conds

\* Changing the place of a call, and what it remembers.
LEMMA CallType ==
    ASSUME NEW c \in Call, NEW s \in Steps
    PROVE  /\ [c EXCEPT !.pc = s] \in Call
           /\ \A v \in VMObject : [c EXCEPT !.pc = s, !.vm = v] \in Call
           /\ \A p \in Pids : [c EXCEPT !.pc = s, !.child = p] \in Call
           /\ \A i \in Instance : [c EXCEPT !.pc = s, !.inst = i] \in Call
           /\ \A w \in {"stop", "restart"} : \A i \in Instance :
                 [c EXCEPT !.pc = s, !.why = w, !.inst = i] \in Call
           /\ c.inst \in Instance
           /\ c.vm \in VMObject /\ c.cm \in ConfigMap /\ c.child \in Pids \cup {NoPid}
  BY DEF Call

\* The processes store.Inspect returns.
LEMMA SeenType == TypeOK => Seen \in Instance
  BY DEF TypeOK, Seen, Instance, LivePid, DriverPid

LEMMA InitialType ==
    /\ NewVM \in VMObject /\ NewCM \in ConfigMap /\ Idle \in Call
    /\ Dead \in Hostagent
    /\ NoWatch \in [proc : Pids \cup {NoPid}, phase : Phases]
  BY DEF NewVM, VMObject, Conds, NewCM, ConfigMap, Idle, Call, Steps, Instance,
         Dead, Hostagent, Stages, NoWatch, Phases

LEMMA TypeInit == Init => TypeOK
<1> SUFFICES ASSUME Init PROVE TypeOK
  OBVIOUS
<1>1. masked \in BOOLEAN /\ queued \in BOOLEAN
  BY DEF Init
<1>2. ha \in [Pids -> Hostagent] /\ spent \in [ops : Nat, faults : Nat]
  BY InitialType DEF Init
<1> QED
  BY <1>1, <1>2, InitialType DEF Init, TypeOK

\* The API server's side of a call: what Write leaves in vm and pending.
LEMMA WriteType ==
    ASSUME TypeOK, NEW new \in VMObject, Write(new)
    PROVE  vm' \in VMObject /\ pending' \subseteq {"vm", "cm"}
  BY DEF TypeOK, Write

LEMMA PatchGotoType ==
    ASSUME TypeOK, NEW new \in VMObject, NEW s \in Steps, PatchGoto(new, s)
    PROVE  vm' \in VMObject /\ pending' \subseteq {"vm", "cm"} /\ call' \in Call
  BY WriteType, CallType DEF TypeOK, PatchGoto

LEMMA GotoType ==
    ASSUME TypeOK, NEW s \in Steps, Goto(s)
    PROVE  call' \in Call
  BY CallType DEF TypeOK, Goto

LEMMA ReturnType ==
    ASSUME TypeOK, Return \/ ReturnErr
    PROVE  call' \in Call /\ queued' \in BOOLEAN
  BY InitialType DEF TypeOK, Return, ReturnErr

LEMMA PatchReturnType ==
    ASSUME TypeOK, NEW new \in VMObject, PatchReturn(new)
    PROVE  vm' \in VMObject /\ pending' \subseteq {"vm", "cm"}
           /\ call' \in Call /\ queued' \in BOOLEAN
  BY WriteType, ReturnType DEF PatchReturn

\* The part of the state that a call of Reconcile reports to: everything the
\* lemmas above speak about.
CallOK == /\ vm \in VMObject
          /\ pending \subseteq {"vm", "cm"}
          /\ queued \in BOOLEAN
          /\ call \in Call
HostOK == /\ watch \in [proc : Pids \cup {NoPid}, phase : Phases]
          /\ disk \in Templates
          /\ pidfile \in Pids \cup {NoPid}
          /\ driver \in Pids \cup {NoPid} /\ masked \in BOOLEAN
          /\ ha \in [Pids -> Hostagent]
          /\ spent \in [ops : Nat, faults : Nat]
ViewOK == vmCache \in VMObject /\ cm \in ConfigMap /\ cmCache \in ConfigMap

\* The handlers of the template keep the types.
LEMMA TypeTemplateStep == TypeOK /\ TemplateStep => TypeOK'
<1> SUFFICES ASSUME TypeOK, TemplateStep PROVE TypeOK'
  OBVIOUS
<1>0. call.cm.rv \in Nat /\ call.cm.data \in Templates /\ vm \in VMObject
  BY CallType DEF TypeOK, ConfigMap, Call
<1>1. CASE SameTemplate
  <2>1. [vm EXCEPT !.observed = call.cm.rv] \in VMObject
    BY <1>0, FieldType
  <2>2. CallOK'
    BY <1>1, <2>1, PatchGotoType, GotoType, ReturnType
       DEF SameTemplate, NoWrite, TypeOK, CallOK, Steps
  <2> QED
    BY <1>1, <2>2 DEF SameTemplate, TypeOK, CallOK, caches, processes
<1>2. CASE NewTemplate
  <2>1. [vm EXCEPT !.needed = TRUE] \in VMObject
    BY <1>0, FieldType
  <2>2. CallOK'
    BY <1>2, <2>1, PatchGotoType, GotoType
       DEF NewTemplate, NoWrite, TypeOK, CallOK, Steps
  <2> QED
    BY <1>2, <2>2 DEF NewTemplate, TypeOK, CallOK, caches, processes
<1>3. CASE WriteTemplate
  <2>1. call' \in Call
    BY <1>3, GotoType DEF WriteTemplate, Steps
  <2> QED
    BY <1>0, <1>3, <2>1 DEF WriteTemplate, TypeOK, api, caches, processes
<1>4. CASE RecordTemplate
  <2>1. [vm EXCEPT !.observed = call.cm.rv] \in VMObject
    BY <1>0, FieldType
  <2>2. CallOK'
    BY <1>4, <2>1, PatchGotoType DEF RecordTemplate, TypeOK, CallOK, Steps
  <2> QED
    BY <1>4, <2>2 DEF RecordTemplate, TypeOK, CallOK, caches, processes
<1> QED
  BY <1>1, <1>2, <1>3, <1>4 DEF TemplateStep

\* The parts of the state the processes are made of.
LEMMA FaultType ==
    ASSUME TypeOK, Fault
    PROVE  spent' \in [ops : Nat, faults : Nat]
  BY DEF TypeOK, Fault

LEMMA InspectedType ==
    ASSUME TypeOK, Inspected
    PROVE  pidfile' \in Pids \cup {NoPid}
  BY DEF TypeOK, Inspected, LivePid

LEMMA StageType ==
    ASSUME TypeOK, NEW p \in Pids, NEW s \in Stages
    PROVE  [ha EXCEPT ![p].st = s] \in [Pids -> Hostagent]
  BY DEF TypeOK, Hostagent

LEMMA KillType ==
    ASSUME TypeOK, NEW i \in Instance, KillRecorded(i)
    PROVE  /\ pidfile' \in Pids \cup {NoPid}
           /\ driver' \in Pids \cup {NoPid} /\ masked' \in BOOLEAN
           /\ ha' \in [Pids -> Hostagent]
<1>1. Alive(i.agent) => i.agent \in Pids
  BY DEF Instance, Alive
<1> QED
  BY <1>1, StageType DEF KillRecorded, TypeOK, Stages

LEMMA StopForciblyType ==
    ASSUME TypeOK, NEW i \in Instance, StopForcibly(i)
    PROVE  /\ pidfile' \in Pids \cup {NoPid}
           /\ driver' \in Pids \cup {NoPid} /\ masked' \in BOOLEAN
           /\ ha' \in [Pids -> Hostagent]
           /\ spent' \in [ops : Nat, faults : Nat]
  BY KillType, FaultType DEF StopForcibly, TypeOK, processes

\* The handlers of the running state keep the types.
LEMMA TypeRunningStep == TypeOK /\ RunningStep => TypeOK'
<1> SUFFICES ASSUME TypeOK, RunningStep PROVE TypeOK'
  OBVIOUS
<1>a. call.vm.count \in Nat
  BY DEF TypeOK, Call, VMObject
<1>0. /\ vm \in VMObject
      /\ \A r \in Conds : WithCond(r) \in VMObject
      /\ call.vm.count + 1 \in Nat
      /\ NoWatch \in [proc : Pids \cup {NoPid}, phase : Phases]
  BY <1>a, PatchType, InitialType DEF TypeOK
<1>1. ASSUME NEW w \in {"stop", "restart"}, Shutdown(w) PROVE call' \in Call
  BY <1>1, CallType, SeenType DEF TypeOK, Shutdown, Steps
<1>2. CASE ResetCondition
  <2>1. CallOK'
    BY <1>0, <1>2, PatchReturnType DEF ResetCondition, SetCond, Conds, CallOK
  <2> QED
    BY <1>2, <2>1 DEF ResetCondition, TypeOK, CallOK, caches, processes
<1>3. CASE HandleRestartNeeded
  <2>1. [vm EXCEPT !.needed = FALSE] \in VMObject
    BY <1>0, FieldType
  <2>2. CallOK'
    <3>1. CASE Shutdown("restart") /\ NoWrite /\ UNCHANGED queued
      BY <1>1, <3>1 DEF TypeOK, CallOK, NoWrite
    <3>2. CASE Return /\ NoWrite
      BY <3>2, ReturnType DEF TypeOK, CallOK, NoWrite
    <3>3. CASE PatchReturn([vm EXCEPT !.needed = FALSE])
      BY <2>1, <3>3, PatchReturnType DEF CallOK
    <3> QED
      BY <1>3, <3>1, <3>2, <3>3 DEF HandleRestartNeeded
  <2> QED
    BY <1>3, <2>2 DEF HandleRestartNeeded, TypeOK, CallOK, caches, processes
<1>4. CASE WatchedStarting
  <2>1. CallOK'
    BY <1>0, <1>4, PatchReturnType DEF WatchedStarting, SetCond, Conds, CallOK
  <2> QED
    BY <1>4, <2>1 DEF WatchedStarting, TypeOK, CallOK, caches, processes
<1>5. CASE WatchedRunning
  <2>1. [vm EXCEPT !.cond = "Started", !.count = call.vm.count + 1] \in VMObject
    BY <1>0, FieldType
  <2>2. CallOK'
    BY <1>5, <2>1, PatchReturnType, ReturnType
       DEF WatchedRunning, NoWrite, TypeOK, CallOK
  <2> QED
    BY <1>5, <2>2 DEF WatchedRunning, TypeOK, CallOK, caches, processes
<1>6. CASE WatchedCrashed
  <2>1. call' \in Call
    BY <1>6, GotoType DEF WatchedCrashed, Steps
  <2> QED
    BY <1>0, <1>6, <2>1 DEF WatchedCrashed, TypeOK, api, caches, processes
<1>7. CASE WatchedUnwanted
  <2>1. call' \in Call /\ pidfile' \in Pids \cup {NoPid}
    BY <1>1, <1>7, InspectedType DEF WatchedUnwanted
  <2> QED
    BY <1>7, <2>1 DEF WatchedUnwanted, TypeOK, api, caches
<1>8. CASE WatchedStopped
  <2>1. CallOK'
    BY <1>0, <1>8, PatchReturnType DEF WatchedStopped, SetCond, Conds, CallOK
  <2> QED
    BY <1>0, <1>8, <2>1 DEF WatchedStopped, TypeOK, CallOK, caches, processes
<1>9. CASE Unwatched
  <2>1. CallOK'
    <3>1. CASE /\ call' = [call EXCEPT !.pc = "orphan", !.inst = Seen]
               /\ NoWrite /\ UNCHANGED queued
      BY <3>1, CallType, SeenType DEF TypeOK, CallOK, NoWrite, Steps
    <3>2. CASE Goto("start") /\ NoWrite /\ UNCHANGED queued
      BY <3>2, GotoType DEF TypeOK, CallOK, NoWrite, Steps
    <3>3. CASE SetCond("Stopped")
      BY <1>0, <3>3, PatchReturnType DEF SetCond, Conds, CallOK
    <3> QED
      BY <1>9, <3>1, <3>2, <3>3 DEF Unwatched
  <2>2. pidfile' \in Pids \cup {NoPid}
    BY <1>9, InspectedType DEF Unwatched
  <2> QED
    BY <1>9, <2>1, <2>2 DEF Unwatched, TypeOK, CallOK, caches
<1> QED
  BY <1>2, <1>3, <1>4, <1>5, <1>6, <1>7, <1>8, <1>9 DEF RunningStep

\* Starting a hostagent keeps the types.
LEMMA TypeStartStep == TypeOK /\ StartStep => TypeOK'
<1> SUFFICES ASSUME TypeOK, StartStep PROVE TypeOK'
  OBVIOUS
<1>0. /\ vm \in VMObject
      /\ \A r \in Conds : WithCond(r) \in VMObject
      /\ \A r \in Conds : \A new \in WithMessage(r) : new \in VMObject
  BY PatchType DEF TypeOK
<1>1. CASE CleanBeforeStart
  <2>1. call' \in Call
    BY <1>1, GotoType DEF CleanBeforeStart, Steps
  <2>2. HostOK'
    BY <1>1, SeenType, InspectedType, StopForciblyType
       DEF CleanBeforeStart, TypeOK, HostOK
  <2> QED
    BY <1>1, <2>1, <2>2 DEF CleanBeforeStart, TypeOK, HostOK, api, caches
<1>2. CASE StartInstance
  <2>1. CallOK'
    BY <1>0, <1>2, PatchGotoType DEF StartInstance, TypeOK, CallOK, Conds, Steps
  <2> QED
    BY <1>2, <2>1 DEF StartInstance, TypeOK, CallOK, caches, processes
<1>3. CASE SpawnHostagent
  <2>1. PICK p \in Pids :
          /\ ha' = [ha EXCEPT ![p] = [Dead EXCEPT !.st = "spawned"]]
          /\ call' = [call EXCEPT !.pc = "pid", !.child = p]
    BY <1>3 DEF SpawnHostagent
  <2>2. call' \in Call
    BY <2>1, CallType DEF TypeOK, Steps
  <2>3. ha' \in [Pids -> Hostagent]
    BY <2>1, InitialType DEF TypeOK, Hostagent, Stages
  <2> QED
    BY <1>3, <2>2, <2>3 DEF SpawnHostagent, TypeOK, api, caches
<1>4. CASE StartFails \/ PIDFileTimeout
  <2>1. CallOK'
    BY <1>0, <1>4, WriteType, ReturnType
       DEF StartFails, PIDFileTimeout, Conds, CallOK
  <2>2. spent' \in [ops : Nat, faults : Nat]
    BY <1>4, FaultType DEF StartFails, PIDFileTimeout, TypeOK
  <2> QED
    BY <1>4, <2>1, <2>2
       DEF StartFails, PIDFileTimeout, TypeOK, CallOK, caches, processes
<1>5. CASE StartWatcher
  <2>1. call' \in Call /\ queued' \in BOOLEAN
    BY <1>5, ReturnType DEF StartWatcher
  <2>2. call.child \in Pids \cup {NoPid}
    BY DEF TypeOK, Call
  <2> QED
    BY <1>5, <2>1, <2>2 DEF StartWatcher, TypeOK, Phases, api, caches, processes
<1> QED
  BY <1>1, <1>2, <1>3, <1>4, <1>5 DEF StartStep

\* Stopping a hostagent keeps the types.
LEMMA TypeStopStep == TypeOK /\ StopStep => TypeOK'
<1> SUFFICES ASSUME TypeOK, StopStep PROVE TypeOK'
  OBVIOUS
<1>0. /\ vm \in VMObject
      /\ \A r \in Conds : WithCond(r) \in VMObject
      /\ \A r \in Conds : \A new \in WithMessage(r) : new \in VMObject
      /\ NoWatch \in [proc : Pids \cup {NoPid}, phase : Phases]
      /\ Seen \in Instance /\ call.inst \in Instance
      /\ Idle \in Call
  BY PatchType, InitialType, SeenType DEF TypeOK, Call
<1>1. CASE ProcessExited
  <2>1. call' \in Call
    BY <1>1, GotoType DEF ProcessExited, Steps
  <2> QED
    BY <1>1, <2>1 DEF ProcessExited, TypeOK, api, caches, processes
<1>2. CASE GraceExpired
  <2>1. call' \in Call /\ spent' \in [ops : Nat, faults : Nat]
    BY <1>2, GotoType, FaultType DEF GraceExpired, Steps
  <2> QED
    BY <1>2, <2>1 DEF GraceExpired, TypeOK, api, caches, processes
<1>3. CASE ForceStop
  <2>1. call' \in Call
    BY <1>3, GotoType DEF ForceStop, Steps
  <2>2. HostOK'
    BY <1>0, <1>3, StopForciblyType DEF ForceStop, TypeOK, HostOK
  <2> QED
    BY <1>3, <2>1, <2>2 DEF ForceStop, TypeOK, HostOK, api, caches
<1>4. CASE FinishStop
  <2>1. CallOK'
    BY <1>0, <1>4, WriteType DEF FinishStop, StopWatcher, Conds, CallOK, TypeOK
  <2>2. /\ pidfile' \in Pids \cup {NoPid}
        /\ spent' \in [ops : Nat, faults : Nat]
        /\ watch' = NoWatch
    BY <1>4, InspectedType, FaultType DEF FinishStop, StopWatcher, TypeOK
  <2> QED
    BY <1>0, <1>4, <2>1, <2>2 DEF FinishStop, TypeOK, CallOK, caches
<1>5. CASE FinishRestart
  <2>1. \A new \in VMObject : [new EXCEPT !.needed = FALSE] \in VMObject
    BY FieldType
  <2>2. CallOK'
    BY <1>0, <1>5, <2>1, WriteType
       DEF FinishRestart, StopWatcher, Conds, CallOK, TypeOK
  <2> QED
    BY <1>0, <1>5, <2>2
       DEF FinishRestart, StopWatcher, TypeOK, CallOK, caches, processes
<1>6. CASE KillOrphan
  <2>1. call' \in Call /\ queued' \in BOOLEAN
    BY <1>6, ReturnType DEF KillOrphan
  <2>2. HostOK'
    BY <1>0, <1>6, StopForciblyType, KillType, FaultType, InspectedType
       DEF KillOrphan, TypeOK, HostOK, processes
  <2> QED
    BY <1>6, <2>1, <2>2 DEF KillOrphan, TypeOK, HostOK, api, caches
<1> QED
  BY <1>1, <1>2, <1>3, <1>4, <1>5, <1>6 DEF StopStep

\* The calls of Reconcile keep the types.
LEMMA TypeReconcilerStep == TypeOK /\ ReconcilerStep => TypeOK'
<1> SUFFICES ASSUME TypeOK, ReconcilerStep PROVE TypeOK'
  OBVIOUS
<1>1. CASE Reconcile
  <2>1. call' \in Call
    BY <1>1, InitialType DEF Reconcile, TypeOK, Call, Steps
  <2> QED
    BY <1>1, <2>1 DEF Reconcile, TypeOK, api, caches, processes
<1>2. CASE HandleRestartAnnotation
  <2>1. /\ [vm EXCEPT !.restart = FALSE] \in VMObject
        /\ [vm EXCEPT !.needed = TRUE] \in VMObject
    BY FieldType DEF TypeOK
  <2>2. vm' \in VMObject /\ pending' \subseteq {"vm", "cm"}
    BY <1>2, <2>1, WriteType DEF HandleRestartAnnotation
  <2> QED
    BY <1>2, <2>2 DEF HandleRestartAnnotation, TypeOK, caches, processes
<1>3. CASE ReconcileError
  <2>1. /\ call' \in Call /\ queued' \in BOOLEAN
        /\ spent' \in [ops : Nat, faults : Nat]
        /\ watch' \in [proc : Pids \cup {NoPid}, phase : Phases]
    BY <1>3, ReturnType, FaultType, InitialType DEF ReconcileError, TypeOK
  <2> QED
    BY <1>3, <2>1 DEF ReconcileError, TypeOK, api, caches, processes
<1> QED
  BY <1>1, <1>2, <1>3, TypeTemplateStep, TypeRunningStep, TypeStartStep,
     TypeStopStep DEF ReconcilerStep

\* The hostagents, and what may happen to them, keep the types.
LEMMA TypeHostagent ==
    ASSUME TypeOK, NEW p \in Pids,
           HostagentStep(p) \/ PowerOff(p) \/ HostagentCrash(p)
    PROVE  TypeOK'
<1> USE DEF Stages
<1>1. CASE CheckPIDFile(p)
  <2>1. pidfile' \in Pids \cup {NoPid} /\ ha' \in [Pids -> Hostagent]
    BY <1>1, InspectedType, StageType DEF CheckPIDFile
  <2> QED
    BY <1>1, <2>1 DEF CheckPIDFile, TypeOK, api, caches
<1>2. CASE WritePIDFile(p)
  <2>1. ha' \in [Pids -> Hostagent]
    BY <1>2, StageType DEF WritePIDFile
  <2> QED
    BY <1>2, <2>1 DEF WritePIDFile, TypeOK, api, caches
<1>3. CASE Boot(p)
  <2>1. ha' \in [Pids -> Hostagent]
    <3>1. CASE ha' = [ha EXCEPT ![p].st = "booting", ![p].tmpl = disk]
      <4>1. ha \in [Pids -> Hostagent] /\ disk \in Templates
        BY DEF TypeOK
      <4>2. [[ha[p] EXCEPT !.st = "booting"] EXCEPT !.tmpl = disk] \in Hostagent
        BY <4>1 DEF Hostagent
      <4> QED
        BY <3>1, <4>1, <4>2
    <3>2. CASE ha' = [ha EXCEPT ![p].st = "dead"]
      BY <3>2, StageType
    <3> QED
      BY <1>3, <3>1, <3>2 DEF Boot
  <2> QED
    BY <1>3, <2>1 DEF Boot, TypeOK, api, caches
<1>4. CASE EmitRunning(p)
  <2>1. ha' \in [Pids -> Hostagent]
    <3>1. ha \in [Pids -> Hostagent]
      BY DEF TypeOK
    <3>2. [[ha[p] EXCEPT !.st = "running"] EXCEPT !.ran = TRUE] \in Hostagent
      BY <3>1 DEF Hostagent
    <3> QED
      BY <1>4, <3>1, <3>2 DEF EmitRunning
  <2> QED
    BY <1>4, <2>1 DEF EmitRunning, TypeOK, api, caches
<1>5. CASE EmitExiting(p)
  <2>1. ha' \in [Pids -> Hostagent]
    BY <1>5, StageType DEF EmitExiting
  <2> QED
    BY <1>5, <2>1 DEF EmitExiting, TypeOK, api, caches
<1>6. CASE Exit(p)
  <2>1. ha' \in [Pids -> Hostagent]
    BY <1>6, StageType DEF Exit
  <2> QED
    BY <1>6, <2>1 DEF Exit, DriverStops, TypeOK, api, caches
<1>7. CASE PowerOff(p)
  <2>1. ha' \in [Pids -> Hostagent] /\ spent' \in [ops : Nat, faults : Nat]
    BY <1>7, StageType, FaultType DEF PowerOff
  <2> QED
    BY <1>7, <2>1 DEF PowerOff, TypeOK, api, caches
<1>8. CASE HostagentCrash(p)
  <2>1. ha' \in [Pids -> Hostagent] /\ spent' \in [ops : Nat, faults : Nat]
    BY <1>8, StageType, FaultType DEF HostagentCrash, TypeOK
  <2> QED
    BY <1>8, <2>1 DEF HostagentCrash, DriverStops, TypeOK, api, caches
<1> QED
  BY <1>1, <1>2, <1>3, <1>4, <1>5, <1>6, <1>7, <1>8 DEF HostagentStep

\* Watch events, the watcher, the crash of the control plane and the user keep
\* the types.
LEMMA TypeEnvironment ==
    ASSUME TypeOK, \/ SyncVM \/ SyncCM \/ WatcherStep \/ WatchFails
                   \/ ControlPlaneCrash \/ UserStep
    PROVE  TypeOK'
<1>1. CASE SyncVM \/ SyncCM
  BY <1>1 DEF SyncVM, SyncCM, TypeOK, processes
<1>2. CASE WatcherStep
  BY <1>2 DEF WatcherStep, WatchRunning, WatchStopped, TypeOK, Phases, api, caches,
             processes
<1>3. CASE ControlPlaneCrash
  BY <1>3, FaultType, InitialType DEF ControlPlaneCrash, TypeOK, processes
<1>4. CASE UserStep
  <2>1. spent' \in [ops : Nat, faults : Nat]
    BY <1>4 DEF UserStep, SetRunning, RequestRestart, EditTemplate, UserOp, TypeOK
  <2>2. CASE SetRunning \/ RequestRestart
    <3>1. /\ [vm EXCEPT !.running = ~@] \in VMObject
          /\ [vm EXCEPT !.restart = TRUE] \in VMObject
      BY DEF TypeOK, VMObject
    <3>2. vm' \in VMObject /\ pending' \subseteq {"vm", "cm"}
      BY <2>2, <3>1, WriteType DEF SetRunning, RequestRestart
    <3> QED
      BY <2>1, <2>2, <3>2 DEF SetRunning, RequestRestart, TypeOK, caches, processes
  <2>3. CASE EditTemplate
    <3>1. cm' \in ConfigMap
      BY <2>3 DEF EditTemplate, TypeOK, ConfigMap
    <3> QED
      BY <2>1, <2>3, <3>1 DEF EditTemplate, TypeOK, caches, processes
  <2> QED
    BY <1>4, <2>2, <2>3 DEF UserStep
<1>5. CASE WatchFails
  BY <1>5, FaultType DEF WatchFails, TypeOK, Phases, api, caches, processes
<1> QED
  BY <1>1, <1>2, <1>3, <1>4, <1>5

\* Every variable keeps its type, whatever the order of calls, events, process
\* exits and crashes: the writes of stale copies included.
THEOREM TypeCorrect == Spec => []TypeOK
<1>1. ASSUME TypeOK, [Next]_vars PROVE TypeOK'
  <2>1. CASE Next
    BY <1>1, <2>1, TypeReconcilerStep, TypeHostagent, TypeEnvironment DEF Next
  <2>2. CASE UNCHANGED vars
    BY <1>1, <2>2 DEF vars, TypeOK
  <2> QED
    BY <1>1, <2>1, <2>2
<1> QED
  BY <1>1, TypeInit, PTL DEF Spec

-----------------------------------------------------------------------------
(* One hostagent at a time. Timely names what the argument needs: hostagents *)
(* write ha.pid before startInstance gives up, and kills succeed.            *)

Timely == ~SlowStart /\ ~KillFails

\* A process is dead, has not written ha.pid yet, or has written it.
LEMMA Stage ==
    ASSUME TypeOK, NEW p \in Pids
    PROVE  Alive(p) <=> Early(p) \/ Owner(p)
<1>1. ha[p].st \in Stages /\ p # NoPid
  BY DEF TypeOK, Hostagent
<1> QED
  BY <1>1 DEF Alive, Early, Owner, Stages

\* Where a call goes on.
LEMMA NextPC ==
    ASSUME TypeOK
    PROVE  /\ \A s \in Steps : Goto(s) => call'.pc = s
           /\ \A s \in Steps : \A v : PatchGoto(v, s) => call'.pc = s
           /\ Return \/ ReturnErr => call'.pc = "idle"
           /\ \A v : PatchReturn(v) => call'.pc = "idle"
           /\ \A w : Shutdown(w) => call'.pc \in {"wait", "force"}
<1>1. call \in [pc : Steps, vm : VMObject, cm : ConfigMap,
                child : Pids \cup {NoPid}, why : {"stop", "restart"}, inst : Instance]
  BY DEF TypeOK, Call
<1>2. \A s \in Steps : Goto(s) => call'.pc = s
  BY <1>1 DEF Goto
<1>3. \A s \in Steps : \A v : PatchGoto(v, s) => call'.pc = s
  BY <1>1 DEF PatchGoto
<1>4. Return \/ ReturnErr => call'.pc = "idle"
  BY DEF Return, ReturnErr, Idle
<1>5. \A w : Shutdown(w) => call'.pc \in {"wait", "force"}
  <2> SUFFICES ASSUME NEW w, Shutdown(w) PROVE call'.pc \in {"wait", "force"}
    OBVIOUS
  <2>1. CASE Alive(watch.proc)
    BY <1>1, <2>1 DEF Shutdown
  <2>2. CASE ~Alive(watch.proc)
    BY <1>1, <2>2 DEF Shutdown
  <2> QED
    BY <2>1, <2>2
<1> QED
  BY <1>2, <1>3, <1>4, <1>5 DEF PatchReturn

\* Outside startInstance, the instance that Inspect returns has the hostagent
\* that is alive, if one is.
LEMMA SeenOwner ==
    ASSUME TypeOK, HostagentInv
    PROVE  \A p \in Pids : Owner(p) => LivePid = p /\ Seen.agent = p
  BY Stage DEF HostagentInv, LivePid, Seen

\* Outside startInstance, a step that leaves the processes alone, and at most
\* clears a stale ha.pid, keeps the invariant.
LEMMA HostKept ==
    ASSUME TypeOK, HostagentInv, call.pc # "pid", UNCHANGED ha,
           pidfile' = pidfile \/ Inspected,
           call'.pc \notin {"start", "spawn", "pid"},
           Stopping' => call'.inst = Seen \/ (Stopping /\ call'.inst = call.inst)
    PROVE  HostagentInv'
<1>1. ASSUME NEW p \in Pids, Owner(p) PROVE pidfile' = p
  BY <1>1, SeenOwner DEF HostagentInv, Inspected
<1>2. ASSUME NEW p \in Pids, Owner(p), Stopping' PROVE call'.inst.agent = p
  BY <1>2, SeenOwner DEF HostagentInv
<1> QED
  BY <1>1, <1>2 DEF HostagentInv, Early, Owner

\* Outside startInstance no hostagent survives the kill of an instance that has
\* the one that is alive.
LEMMA KillsAll ==
    ASSUME TypeOK, HostagentInv, call.pc # "pid", NEW i \in Instance,
           \A p \in Pids : Owner(p) => i.agent = p,
           KillRecorded(i)
    PROVE  pidfile' = NoPid /\ \A p \in Pids : ~Alive(p)'
<1>1. ASSUME NEW p \in Pids PROVE ~Alive(p)'
  <2>1. CASE Alive(p)
    <3>1. i.agent = p /\ p # NoPid
      BY <1>1, <2>1, Stage DEF HostagentInv, TypeOK
    <3> QED
      BY <1>1, <2>1, <3>1 DEF KillRecorded, Alive, TypeOK, Hostagent
  <2>2. CASE ~Alive(p)
    BY <1>1, <2>2 DEF KillRecorded, Alive, TypeOK, Hostagent
  <2> QED
    BY <2>1, <2>2
<1> QED
  BY <1>1 DEF KillRecorded

\* With no hostagent alive and no ha.pid, a call may be anywhere.
LEMMA NobodyAlive ==
    ASSUME pidfile' = NoPid, \A p \in Pids : ~Alive(p)', call'.pc # "pid"
    PROVE  HostagentInv'
<1>1. \A p \in Pids : p # NoPid
  OBVIOUS
<1>2. \A p \in Pids : ~Early(p)' /\ ~Owner(p)'
  BY <1>1 DEF Alive, Early, Owner
<1> QED
  BY <1>2 DEF HostagentInv, Stopping

\* Inspect reports Stopped only when no hostagent is alive.
LEMMA StoppedMeansNone ==
    ASSUME TypeOK, HostagentInv, call.pc # "pid", InstStatus = "Stopped"
    PROVE  LivePid = NoPid /\ \A p \in Pids : ~Alive(p)
<1>1. LivePid = NoPid
  BY DEF InstStatus
<1>2. ASSUME NEW p \in Pids, Alive(p) PROVE FALSE
  <2>1. pidfile = p
    BY <1>2, Stage DEF HostagentInv
  <2> QED
    BY <1>1, <1>2, <2>1 DEF LivePid, Alive
<1> QED
  BY <1>1, <1>2

LEMMA HostagentInit == Init => HostagentInv
  BY DEF Init, HostagentInv, Early, Owner, Dead, Idle, Stopping

\* The part of a call outside startInstance: the processes stay as they are
\* until startInstance is reached or a kill clears them.
LEMMA HostagentDecides ==
    ASSUME TypeOK, HostagentInv,
           Reconcile \/ HandleRestartAnnotation \/ TemplateStep \/ RunningStep
    PROVE  HostagentInv'
<1>0. call \in Call
  BY DEF TypeOK
<1>1. CASE Reconcile
  <2>1. call.pc = "idle" /\ call'.pc \in {"template", "running"}
    BY <1>1 DEF Reconcile, Requested, Idle
  <2> QED
    BY <1>1, <2>1, HostKept DEF Reconcile, processes, Stopping
<1>2. CASE HandleRestartAnnotation
  <2>1. call.pc = "idle" /\ call' = call
    BY <1>2 DEF HandleRestartAnnotation, Requested
  <2> QED
    BY <1>2, <2>1, HostKept DEF HandleRestartAnnotation, processes, Stopping
<1>3. CASE TemplateStep
  <2>1. call.pc \in {"template", "write", "record"}
    BY <1>3 DEF TemplateStep, SameTemplate, NewTemplate, WriteTemplate, RecordTemplate
  <2>2. call'.pc \in {"running", "idle", "write", "record"}
    BY <1>3, NextPC DEF TemplateStep, SameTemplate, NewTemplate, WriteTemplate,
                        RecordTemplate, Steps
  <2>3. UNCHANGED processes
    BY <1>3 DEF TemplateStep, SameTemplate, NewTemplate, WriteTemplate, RecordTemplate
  <2> QED
    BY <2>1, <2>2, <2>3, HostKept DEF processes, Stopping
<1>4. CASE RunningStep /\ ~Unwatched
  <2>1. call.pc = "running"
    BY <1>4 DEF RunningStep, ResetCondition, HandleRestartNeeded, WatchedStarting,
                WatchedRunning, WatchedCrashed, WatchedUnwanted, WatchedStopped, Watched
  <2>2. call'.pc \in {"idle", "inspect", "wait", "force"}
    <3>1. CASE ResetCondition \/ WatchedStarting \/ WatchedRunning \/ WatchedStopped
      BY <3>1, NextPC DEF ResetCondition, WatchedStarting, WatchedRunning,
                          WatchedStopped, SetCond
    <3>2. CASE HandleRestartNeeded
      BY <3>2, NextPC DEF HandleRestartNeeded
    <3>3. CASE WatchedCrashed \/ WatchedUnwanted
      BY <3>3, NextPC DEF WatchedCrashed, WatchedUnwanted, Steps
    <3> QED
      BY <1>4, <3>1, <3>2, <3>3 DEF RunningStep
  <2>3. UNCHANGED ha /\ (pidfile' = pidfile \/ Inspected)
    BY <1>4 DEF RunningStep, ResetCondition, HandleRestartNeeded, WatchedStarting,
                WatchedRunning, WatchedCrashed, WatchedUnwanted, WatchedStopped, processes
  <2>4. call'.pc \in {"wait", "force"} => call'.inst = Seen
    <3>1. ASSUME NEW w, Shutdown(w) PROVE call'.inst = Seen
      BY <1>0, <3>1 DEF Shutdown, Call
    <3> QED
      BY <1>4, <3>1, NextPC DEF RunningStep, ResetCondition, HandleRestartNeeded,
         WatchedStarting, WatchedRunning, WatchedCrashed, WatchedUnwanted,
         WatchedStopped, SetCond, Steps
  <2> QED
    BY <2>1, <2>2, <2>3, <2>4, HostKept DEF Stopping
<1>5. CASE Unwatched
  <2>1. call.pc = "running" /\ UNCHANGED ha /\ Inspected
    BY <1>5 DEF Unwatched
  <2>2. CASE InstStatus = "Stopped"
    <3>1. pidfile' = NoPid /\ \A p \in Pids : ~Alive(p)'
      BY <2>1, <2>2, StoppedMeansNone DEF Inspected, Alive
    <3>2. call'.pc # "pid"
      BY <1>5, <2>2, NextPC DEF Unwatched, SetCond, Steps
    <3> QED
      BY <3>1, <3>2, NobodyAlive
  <2>3. CASE InstStatus # "Stopped"
    <3>1. call'.pc = "orphan" /\ call'.inst = Seen
      BY <1>0, <1>5, <2>3 DEF Unwatched, Call
    <3> QED
      BY <2>1, <3>1, HostKept
  <2> QED
    BY <2>2, <2>3
<1> QED
  BY <1>1, <1>2, <1>3, <1>4, <1>5 DEF RunningStep

\* startInstance: no hostagent when it begins, its child alone when it ends.
LEMMA HostagentStarts ==
    ASSUME TypeOK, HostagentInv, Timely, StartStep
    PROVE  HostagentInv'
<1>0. \A p \in Pids : p # NoPid
  OBVIOUS
<1>1. CASE CleanBeforeStart
  <2>0. call.pc = "inspect" /\ call'.pc = "start"
    BY <1>1, NextPC DEF CleanBeforeStart, Steps
  <2>1. pidfile' = NoPid /\ \A p \in Pids : ~Alive(p)'
    <3>1. CASE InstStatus = "Stopped"
      BY <1>1, <2>0, <3>1, StoppedMeansNone DEF CleanBeforeStart, Inspected, Alive
    <3>2. CASE InstStatus # "Stopped"
      BY <1>1, <2>0, <3>2, SeenType, SeenOwner, KillsAll
         DEF CleanBeforeStart, StopForcibly, Timely
    <3> QED
      BY <3>1, <3>2
  <2> QED
    BY <2>0, <2>1, NobodyAlive
<1>2. CASE StartInstance
  <2>1. call.pc = "start" /\ call'.pc = "spawn" /\ UNCHANGED <<ha, pidfile>>
    BY <1>2, NextPC DEF StartInstance, Steps, processes
  <2>2. pidfile' = NoPid /\ \A p \in Pids : ~Alive(p)'
    BY <2>1 DEF HostagentInv, Alive
  <2> QED
    BY <2>1, <2>2, NobodyAlive
<1>3. CASE SpawnHostagent
  <2>1. PICK c \in Pids :
          /\ ha' = [ha EXCEPT ![c] = [Dead EXCEPT !.st = "spawned"]]
          /\ call' = [call EXCEPT !.pc = "pid", !.child = c]
    BY <1>3 DEF SpawnHostagent
  <2>2. pidfile' = NoPid /\ \A p \in Pids : ~Alive(p)
    BY <1>3 DEF SpawnHostagent, HostagentInv
  <2>3. call'.pc = "pid" /\ call'.child = c
    BY <2>1 DEF TypeOK, Call
  <2>4. ha'[c].st = "spawned" /\ \A p \in Pids \ {c} : ha'[p] = ha[p]
    BY <2>1 DEF TypeOK, Hostagent, Dead
  <2>5. \A p \in Pids \ {c} : ~Early(p)' /\ ~Owner(p)'
    BY <1>0, <2>2, <2>4 DEF Alive, Early, Owner
  <2>6. ~Owner(c)'
    BY <2>4 DEF Owner
  <2> QED
    BY <2>2, <2>3, <2>5, <2>6 DEF HostagentInv, Stopping
<1>4. CASE StartFails
  <2>1. call.pc = "spawn" /\ call'.pc = "idle" /\ UNCHANGED <<ha, pidfile>>
    BY <1>4, NextPC DEF StartFails, processes
  <2> QED
    BY <2>1, HostKept DEF Stopping
<1>5. CASE StartWatcher
  <2>1. call.pc = "pid" /\ call'.pc = "idle" /\ UNCHANGED <<ha, pidfile>>
    BY <1>5, NextPC DEF StartWatcher, processes
  <2>2. ~Early(call.child)
    BY <1>5, <2>1 DEF StartWatcher, HostagentInv
  <2>3. \A p \in Pids : ~Early(p)
    BY <2>2 DEF HostagentInv
  <2>4. \A p \in Pids : ~Early(p)' /\ (Owner(p)' => pidfile' = p)
    BY <2>1, <2>3 DEF HostagentInv, Early, Owner
  <2> QED
    BY <2>1, <2>4 DEF HostagentInv, Stopping
<1>6. CASE PIDFileTimeout
  <2>1. /\ call.pc = "pid" /\ call'.pc = "idle" /\ UNCHANGED <<ha, pidfile>>
        /\ pidfile = NoPid /\ ~Alive(call.child)
    BY <1>6, NextPC DEF PIDFileTimeout, processes, Timely
  <2>2. \A p \in Pids : ~Alive(p)
    BY <1>0, <2>1, Stage DEF HostagentInv
  <2>3. \A p \in Pids : ~Alive(p)'
    BY <2>1, <2>2 DEF Alive
  <2> QED
    BY <2>1, <2>3, NobodyAlive
<1> QED
  BY <1>1, <1>2, <1>3, <1>4, <1>5, <1>6 DEF StartStep

\* Stopping: the waits change nothing, the kills leave nobody.
LEMMA HostagentStops ==
    ASSUME TypeOK, HostagentInv, Timely, StopStep \/ ReconcileError
    PROVE  HostagentInv'
<1>0. call \in Call /\ call.inst \in Instance /\ Seen \in Instance
  BY CallType, SeenType DEF TypeOK, Steps
<1>1. CASE ProcessExited \/ GraceExpired
  <2>1. /\ call.pc = "wait" /\ call'.pc \in {"finish", "force"}
        /\ UNCHANGED <<ha, pidfile>>
    BY <1>1, NextPC DEF ProcessExited, GraceExpired, Steps, processes
  <2>2. call'.inst = call.inst /\ call'.why = call.why
    BY <1>0, <1>1 DEF ProcessExited, GraceExpired, Goto, Call
  <2> QED
    BY <2>1, <2>2, HostKept DEF Stopping
<1>2. CASE ForceStop
  <2>1. call.pc = "force" /\ call'.pc = "finish"
    BY <1>2, NextPC DEF ForceStop, Steps
  <2>2. PICK i \in Instance :
          KillRecorded(i) /\ \A p \in Pids : Owner(p) => i.agent = p
    BY <1>0, <1>2, SeenOwner
       DEF ForceStop, StopForcibly, Timely, HostagentInv, Stopping
  <2> QED
    BY <2>1, <2>2, KillsAll, NobodyAlive
<1>3. CASE FinishStop \/ FinishRestart
  <2>1. call.pc = "finish" /\ call'.pc = "idle"
    BY <1>3 DEF FinishStop, FinishRestart, Idle
  <2>2. UNCHANGED ha /\ (pidfile' = pidfile \/ Inspected)
    BY <1>3 DEF FinishStop, FinishRestart, processes
  <2> QED
    BY <2>1, <2>2, HostKept DEF Stopping
<1>4. CASE KillOrphan
  <2>1. call.pc = "orphan" /\ call'.pc = "idle"
    BY <1>4, NextPC DEF KillOrphan
  <2>2. CASE KillRecorded(call.inst)
    <3>1. \A p \in Pids : Owner(p) => call.inst.agent = p
      BY <2>1 DEF HostagentInv, Stopping
    <3> QED
      BY <1>0, <2>1, <2>2, <3>1, KillsAll, NobodyAlive
  <2>3. CASE UNCHANGED ha /\ (pidfile' = pidfile \/ Inspected)
    BY <2>1, <2>3, HostKept DEF Stopping
  <2> QED
    BY <1>4, <2>2, <2>3 DEF KillOrphan, StopForcibly, processes
<1>5. CASE ReconcileError
  <2>1. /\ call.pc \notin {"pid"} /\ call'.pc = "idle"
        /\ UNCHANGED <<ha, pidfile>>
    BY <1>5, NextPC DEF ReconcileError, processes
  <2> QED
    BY <2>1, HostKept DEF Stopping
<1> QED
  BY <1>1, <1>2, <1>3, <1>4, <1>5 DEF StopStep

\* A hostagent that moves on: only the child of a startInstance in progress
\* takes ha.pid, and only the owner of ha.pid gives it up.
LEMMA HostagentMoves ==
    ASSUME TypeOK, HostagentInv, NEW p \in Pids,
           HostagentStep(p) \/ PowerOff(p) \/ HostagentCrash(p)
    PROVE  HostagentInv'
<1>0. /\ \A q \in Pids : q # NoPid
      /\ ha \in [Pids -> Hostagent]
      /\ UNCHANGED call
  BY DEF TypeOK, HostagentStep, CheckPIDFile, WritePIDFile, Boot, EmitRunning,
         EmitExiting, Exit, PowerOff, HostagentCrash
<1>a. Alive(p)
  BY <1>0 DEF HostagentStep, CheckPIDFile, WritePIDFile, Boot, EmitRunning,
              EmitExiting, Exit, PowerOff, HostagentCrash, Alive
<1>b. \A q \in Pids \ {p} : ha'[q] = ha[q]
  BY <1>0 DEF HostagentStep, CheckPIDFile, WritePIDFile, Boot, EmitRunning,
              EmitExiting, Exit, PowerOff, HostagentCrash
<1>c. call.pc \notin {"start", "spawn"}
  BY <1>a DEF HostagentInv
<1>d. \A q \in Pids \ {p} : (Early(q)' <=> Early(q)) /\ (Owner(q)' <=> Owner(q))
  BY <1>b DEF Early, Owner
<1>1. CASE Early(p)
  <2>1. call.pc = "pid" /\ call.child = p /\ pidfile = NoPid
    BY <1>1 DEF HostagentInv
  <2>2. \A q \in Pids \ {p} : ~Early(q) /\ ~Owner(q)
    BY <1>0, <2>1 DEF HostagentInv
  <2>3. CASE WritePIDFile(p)
    <3>1. pidfile' = p /\ ha'[p].st = "owner"
      BY <1>0, <2>3 DEF WritePIDFile, Hostagent
    <3> QED
      BY <1>0, <1>c, <1>d, <2>1, <2>2, <3>1 DEF HostagentInv, Early, Stopping
  <2>4. CASE CheckPIDFile(p) \/ HostagentCrash(p)
    <3>1. pidfile' = NoPid
      BY <2>1, <2>4 DEF CheckPIDFile, HostagentCrash, Inspected, LivePid, Alive
    <3>2. ~Owner(p)'
      BY <1>0, <2>4 DEF CheckPIDFile, HostagentCrash, Owner, Hostagent
    <3> QED
      BY <1>0, <1>c, <1>d, <2>1, <2>2, <3>1, <3>2 DEF HostagentInv, Stopping
  <2> QED
    BY <1>1, <2>3, <2>4 DEF HostagentStep, Early, Boot, EmitRunning, EmitExiting,
                            Exit, PowerOff
<1>2. CASE Owner(p)
  <2>1. pidfile = p
    BY <1>2 DEF HostagentInv
  <2>2. \A q \in Pids \ {p} : ~Owner(q)
    BY <2>1 DEF HostagentInv
  <2>3. ~Early(p)'
    BY <1>0, <1>2 DEF HostagentStep, CheckPIDFile, WritePIDFile, Boot, EmitRunning,
         EmitExiting, Exit, PowerOff, HostagentCrash, Early, Owner, Hostagent
  <2>4. pidfile' \in {NoPid, p} /\ (Owner(p)' => pidfile' = p)
    <3>1. CASE Boot(p) \/ Exit(p)
      BY <1>0, <2>1, <3>1 DEF Boot, Exit, Owner, Hostagent
    <3>2. CASE EmitRunning(p) \/ EmitExiting(p) \/ PowerOff(p) \/ HostagentCrash(p)
      BY <2>1, <3>2 DEF EmitRunning, EmitExiting, PowerOff, HostagentCrash
    <3> QED
      BY <1>2, <3>1, <3>2 DEF HostagentStep, CheckPIDFile, WritePIDFile, Owner
  <2>5. call.pc = "pid" => call.child = p
    BY <1>0, <2>1 DEF HostagentInv
  <2> QED
    BY <1>0, <1>c, <1>d, <1>2, <2>2, <2>3, <2>4, <2>5 DEF HostagentInv, Stopping
<1> QED
  BY <1>a, <1>1, <1>2, Stage

\* The rest of the system touches neither the processes nor ha.pid; the control
\* plane does not come back before its last child wrote ha.pid.
LEMMA HostagentEnvironment ==
    ASSUME TypeOK, HostagentInv, Timely,
           \/ SyncVM \/ SyncCM \/ WatcherStep \/ WatchFails
           \/ ControlPlaneCrash \/ UserStep
    PROVE  HostagentInv'
<1>1. UNCHANGED <<ha, pidfile>>
  BY DEF SyncVM, SyncCM, WatcherStep, WatchRunning, WatchStopped, WatchFails,
         ControlPlaneCrash, UserStep, SetRunning, RequestRestart, EditTemplate,
         processes
<1>2. CASE ControlPlaneCrash
  <2>1. \A q \in Pids : ~Early(q)
    BY <1>2 DEF ControlPlaneCrash, Timely, Early
  <2>2. call'.pc = "idle"
    BY <1>2 DEF ControlPlaneCrash, Idle
  <2> QED
    BY <1>1, <2>1, <2>2 DEF HostagentInv, Early, Owner, Stopping
<1>3. CASE ~ControlPlaneCrash
  <2>1. UNCHANGED call
    BY <1>3 DEF SyncVM, SyncCM, WatcherStep, WatchRunning, WatchStopped, WatchFails,
                UserStep, SetRunning, RequestRestart, EditTemplate
  <2> QED
    BY <1>1, <2>1 DEF HostagentInv, Early, Owner, Alive, Stopping
<1> QED
  BY <1>2, <1>3

LEMMA HostagentStepInv ==
    ASSUME TypeOK, HostagentInv, Timely, [Next]_vars
    PROVE  HostagentInv'
<1>1. CASE ReconcilerStep
  BY <1>1, HostagentDecides, HostagentStarts, HostagentStops DEF ReconcilerStep
<1>2. CASE \E p \in Pids : HostagentStep(p) \/ PowerOff(p) \/ HostagentCrash(p)
  BY <1>2, HostagentMoves
<1>3. CASE \/ SyncVM \/ SyncCM \/ WatcherStep \/ WatchFails
           \/ ControlPlaneCrash \/ UserStep
  BY <1>3, HostagentEnvironment
<1>4. CASE UNCHANGED vars
  BY <1>4 DEF vars, HostagentInv, Early, Owner, Alive, Stopping
<1> QED
  BY <1>1, <1>2, <1>3, <1>4 DEF Next

\* No guest runs behind the reconciler's back, whatever crashes, restarts and
\* stale reads do: every booted hostagent is the one ha.pid names, hence the one
\* that Inspect sees and that a stop kills, and there is at most one.
THEOREM HostagentCorrect ==
    ASSUME Timely
    PROVE  Spec => []NoMaskedHostagent
<1>1. HostagentInv => NoMaskedHostagent
  BY DEF HostagentInv, NoMaskedHostagent, Booted, Owner
<1>2. TypeOK /\ HostagentInv /\ [Next]_vars => HostagentInv'
  BY HostagentStepInv
<1> QED
  BY <1>1, <1>2, HostagentInit, TypeCorrect, PTL DEF Spec

-----------------------------------------------------------------------------
(* LimaVM implements VMContract when, besides, a reconcile reads its own     *)
(* writes.                                                                   *)

Prompt == Timely /\ ~Lagging

\* The control plane watches the guest, or is about to.
Known == watch.phase \in {"Starting", "Running"} \/ call.pc = "pid"

\* An informer with no event on its way has what the API server has. A version
\* that is recorded is that of lima.yaml, and of the guest that is known.
ViewInv ==
    /\ "vm" \notin pending => vmCache = vm
    /\ "cm" \notin pending => cmCache = cm
    /\ vm.observed <= cm.rv
    /\ vm.observed = cm.rv =>
         disk = cm.data /\ (Known => \A p \in Booted : ha[p].tmpl = cm.data)

\* The copies a call works with: only users write the object beside it, and
\* they leave these fields alone.
CopyInv ==
    call.pc # "idle" =>
      /\ call.vm.cond = vm.cond /\ call.vm.needed = vm.needed
      /\ call.vm.observed = vm.observed /\ call.vm.count = vm.count
      /\ call.cm.rv <= cm.rv
      /\ call.cm.rv = cm.rv => call.cm = cm

\* What a call has established on its way to where it stands.
CallInv ==
    /\ call.pc \in {"template", "write", "record"} => vm.observed < call.cm.rv
    /\ call.pc \in {"write", "record"} =>
         call.vm.needed \/ watch.phase \in {"Unknown", "Stopped"}
    /\ call.pc = "record" => disk = call.cm.data /\ ~call.vm.needed
    /\ call.pc \in {"inspect", "start"} => call.vm.running
    /\ call.pc \in {"inspect", "start", "spawn", "pid", "orphan"} =>
         watch.phase = "Unknown"
    /\ call.pc = "wait" => watch.phase # "Unknown"
    /\ call.pc = "finish" => \A p \in Pids : ~Alive(p)
    /\ SpawnVisible

\* The watcher knows the only hostagent; a guest that is known and does not run
\* what is in lima.yaml has a restart coming.
WatchInv ==
    /\ \A p \in Pids : Alive(p) /\ watch.phase # "Unknown" => watch.proc = p
    /\ \A p \in Pids : ha[p].st \in {"spawned", "checked", "owner", "booting"} => ~ha[p].ran
    /\ watch.phase = "Starting" => watch.proc \in Pids /\ vm.cond = "Starting"
    /\ watch.phase = "Running" =>
         /\ watch.proc \in Pids /\ ha[watch.proc].ran
         /\ vm.cond \in {"Starting", "Started"}
    /\ watch.phase = "Stopped" => watch.proc \in Pids
    /\ Known => \A p \in Booted : ha[p].tmpl = disk \/ vm.needed

ContractInv == ViewInv /\ CopyInv /\ CallInv /\ WatchInv

\* The hostagents that change come to an end.
Calm == \A p \in Pids :
          /\ ha'[p].tmpl = ha[p].tmpl /\ ha'[p].ran = ha[p].ran
          /\ \/ ha'[p].st = ha[p].st
             \/ Alive(p) /\ ha'[p].st \in {"dead", "exiting"}

\* The fields of a LimaVM object after a status write.
LEMMA VMFields ==
    ASSUME NEW v \in VMObject
    PROVE  /\ \A r \in Conds :
                LET new == [v EXCEPT !.cond = r]
                IN  /\ new.cond = r /\ new.needed = v.needed /\ new.running = v.running
                    /\ new.observed = v.observed /\ new.count = v.count
                    /\ v.cond = r => new = v
           /\ \A b \in BOOLEAN :
                LET new == [v EXCEPT !.needed = b]
                IN  /\ new.cond = v.cond /\ new.needed = b /\ new.running = v.running
                    /\ new.observed = v.observed /\ new.count = v.count
           /\ \A n \in Nat :
                LET new == [v EXCEPT !.observed = n]
                IN  /\ new.cond = v.cond /\ new.needed = v.needed
                    /\ new.running = v.running
                    /\ new.observed = n /\ new.count = v.count
           /\ \A n \in Nat :
                LET new == [v EXCEPT !.cond = "Started", !.count = n]
                IN  /\ new.cond = "Started" /\ new.needed = v.needed
                    /\ new.running = v.running
                    /\ new.observed = v.observed /\ new.count = n
           /\ \A b \in BOOLEAN :
                LET new == [v EXCEPT !.restart = b]
                IN  /\ new.cond = v.cond /\ new.needed = v.needed
                    /\ new.running = v.running
                    /\ new.observed = v.observed /\ new.count = v.count
           /\ LET new == [v EXCEPT !.running = ~@]
              IN  /\ new.cond = v.cond /\ new.needed = v.needed
                  /\ new.running = ~v.running
                  /\ new.observed = v.observed /\ new.count = v.count
<1> USE DEF VMObject
<1>1. ASSUME NEW r \in Conds
      PROVE  LET new == [v EXCEPT !.cond = r]
             IN  /\ new.cond = r /\ new.needed = v.needed /\ new.running = v.running
                 /\ new.observed = v.observed /\ new.count = v.count
                 /\ v.cond = r => new = v
  OBVIOUS
<1> QED
  BY <1>1

\* A call whose copy has the server's condition writes that condition and
\* nothing else.
LEMMA OneCond ==
    ASSUME TypeOK, CopyInv, call.pc # "idle", NEW r \in Conds
    PROVE  /\ WithCond(r) = [vm EXCEPT !.cond = r]
           /\ WithMessage(r) = {[vm EXCEPT !.cond = r]}
<1>1. vm \in VMObject /\ call.vm.cond = vm.cond
  BY DEF TypeOK, CopyInv
<1>2. WithCond(r) = [vm EXCEPT !.cond = r]
  BY <1>1, VMFields DEF WithCond
<1> QED
  BY <1>2 DEF WithMessage

\* Steps that record no version, write no template and boot no guest.
LEMMA ViewKept ==
    ASSUME TypeOK, ViewInv, Calm, UNCHANGED <<cm, disk, vmCache, cmCache>>,
           NoWrite \/ \E new : Write(new), vm'.observed = vm.observed,
           Known' => Known
    PROVE  ViewInv'
<1>1. "vm" \notin pending' => vmCache' = vm'
  BY DEF ViewInv, Write, NoWrite
<1>2. "cm" \notin pending' => cmCache' = cm'
  BY DEF ViewInv, Write, NoWrite
<1>3. \A p \in Booted' : p \in Booted /\ ha'[p].tmpl = ha[p].tmpl
  BY DEF Calm, Booted
<1> QED
  BY <1>1, <1>2, <1>3 DEF ViewInv

\* A call that returns keeps no copies and nothing established.
LEMMA CallEnds ==
    ASSUME call'.pc = "idle"
    PROVE  CopyInv' /\ CallInv'
  BY DEF CopyInv, CallInv, SpawnVisible

\* Without a watcher, the guests are not known.
LEMMA Unwatching ==
    ASSUME TypeOK, WatchInv, Calm, watch'.phase = "Unknown", call'.pc # "pid"
    PROVE  WatchInv'
<1>1. \A p \in Pids :
        ha'[p].st \in {"spawned", "checked", "owner", "booting"} => ~ha'[p].ran
  BY DEF WatchInv, Calm
<1> QED
  BY <1>1 DEF WatchInv, Known

\* The watcher stays and the condition that it stands for, too.
LEMMA WatchKept ==
    ASSUME TypeOK, WatchInv, Calm, UNCHANGED <<watch, disk>>,
           watch.phase = "Starting" => vm'.cond = "Starting",
           watch.phase = "Running" => vm'.cond \in {"Starting", "Started"},
           Known' => Known,
           vm.needed => vm'.needed \/ Booted = {} \/ ~Known'
    PROVE  WatchInv'
<1>0. \A p \in Pids : Alive(p)' => Alive(p)
  BY DEF Calm, Alive
<1>1. \A p \in Pids :
        ha'[p].st \in {"spawned", "checked", "owner", "booting"} => ~ha'[p].ran
  BY DEF WatchInv, Calm
<1>2. watch.phase = "Running" => ha'[watch.proc].ran
  BY DEF WatchInv, Calm
<1>3. \A p \in Booted' : p \in Booted /\ ha'[p].tmpl = ha[p].tmpl
  BY DEF Calm, Booted
<1>4. Known' => \A p \in Booted' : ha'[p].tmpl = disk' \/ vm'.needed
  BY <1>3 DEF WatchInv
<1> QED
  BY <1>0, <1>1, <1>2, <1>4 DEF WatchInv

\* What is left of a call that goes on.
LEMMA GoesOn ==
    ASSUME TypeOK
    PROVE  /\ \A s \in Steps : Goto(s) => /\ call'.pc = s
                                          /\ call'.vm = call.vm /\ call'.cm = call.cm
           /\ \A s \in Steps : \A v : PatchGoto(v, s) => /\ call'.pc = s
                                          /\ call'.vm = v /\ call'.cm = call.cm
           /\ \A w : Shutdown(w) => /\ call'.pc \in {"wait", "force"}
                                    /\ call'.vm = call.vm /\ call'.cm = call.cm
<1>0. call \in [pc : Steps, vm : VMObject, cm : ConfigMap,
                child : Pids \cup {NoPid}, why : {"stop", "restart"}, inst : Instance]
  BY DEF TypeOK, Call
<1>1. \A s \in Steps : Goto(s) => call'.vm = call.vm /\ call'.cm = call.cm
  BY <1>0 DEF Goto
<1>2. \A s \in Steps : \A v : PatchGoto(v, s) => call'.vm = v /\ call'.cm = call.cm
  BY <1>0 DEF PatchGoto
<1>3. \A w : Shutdown(w) => call'.vm = call.vm /\ call'.cm = call.cm
  BY <1>0 DEF Shutdown
<1> QED
  BY <1>1, <1>2, <1>3, NextPC

\* A call that writes no status, and one that takes over the server's answer.
LEMMA CopyKept ==
    ASSUME CopyInv, call.pc # "idle", UNCHANGED cm, call'.cm = call.cm,
           \/ UNCHANGED vm /\ call'.vm = call.vm
           \/ call'.vm = vm'
    PROVE  CopyInv'
  BY DEF CopyInv

\* lima.yaml is what the ConfigMap of the call says, and no restart is owed: the
\* version may be recorded.
LEMMA Recorded ==
    ASSUME TypeOK, ContractInv, call.pc \in {"template", "record"},
           disk = call.cm.data, ~call.vm.needed,
           PatchGoto([vm EXCEPT !.observed = call.cm.rv], "running"),
           UNCHANGED <<cm, caches, watch, disk, processes>>
    PROVE  ContractInv'
<1> DEFINE new == [vm EXCEPT !.observed = call.cm.rv]
<1>1. /\ call.cm.rv \in Nat /\ call.pc # "idle"
      /\ UNCHANGED <<cm, vmCache, cmCache, watch, disk, ha>>
      /\ Write(new)
  BY DEF TypeOK, Call, ConfigMap, caches, processes, PatchGoto
<1>2. call'.pc = "running" /\ call'.vm = new /\ call'.cm = call.cm /\ vm' = new
  BY GoesOn DEF Steps, PatchGoto, Write
<1>3. /\ vm'.cond = vm.cond /\ vm'.needed = vm.needed
      /\ vm'.observed = call.cm.rv /\ vm'.count = vm.count
  BY <1>1, <1>2, VMFields DEF TypeOK
<1>4. Known' => Known
  BY <1>1, <1>2 DEF Known
<1>5. ~vm.needed /\ call.cm.rv <= cm.rv /\ (call.cm.rv = cm.rv => call.cm = cm)
  BY <1>1 DEF ContractInv, CopyInv
<1>6. ViewInv'
  <2>1. "vm" \notin pending' => vmCache' = vm'
    BY <1>1 DEF ContractInv, ViewInv, Write
  <2>2. "cm" \notin pending' => cmCache' = cm'
    BY <1>1 DEF ContractInv, ViewInv, Write
  <2>3. Known' => \A p \in Booted' : ha'[p].tmpl = disk
    BY <1>1, <1>4, <1>5 DEF ContractInv, WatchInv, Booted
  <2> QED
    BY <1>1, <1>3, <1>5, <2>1, <2>2, <2>3 DEF ViewInv
<1>7. CopyInv'
  BY <1>1, <1>2, CopyKept DEF ContractInv
<1>8. CallInv'
  BY <1>2 DEF CallInv, SpawnVisible
<1>9. WatchInv'
  BY <1>1, <1>3, <1>4, WatchKept DEF ContractInv, WatchInv, Calm
<1> QED
  BY <1>6, <1>7, <1>8, <1>9 DEF ContractInv

\* The handlers of the template: a version is written to lima.yaml under a restart
\* that is owed, or while no guest is known, and recorded when it is there.
LEMMA TemplateContract ==
    ASSUME TypeOK, ContractInv, TemplateStep
    PROVE  ContractInv'
<1>0. /\ call.pc \in {"template", "write", "record"} /\ call.pc # "idle"
      /\ UNCHANGED <<cm, vmCache, cmCache, watch, ha>> /\ Calm
      /\ vm \in VMObject /\ watch.phase \in Phases
      /\ call.cm.rv \in Nat /\ vm.observed \in Nat /\ cm.rv \in Nat
  BY DEF TemplateStep, SameTemplate, NewTemplate, WriteTemplate, RecordTemplate,
         api, caches, processes, Calm, TypeOK, Call, ConfigMap, VMObject
<1>1. CASE SameTemplate
  <2>1. CASE call.vm.needed /\ Goto("running") /\ NoWrite
    <3>1. call'.pc = "running" /\ call'.vm = call.vm /\ call'.cm = call.cm
      BY <2>1, GoesOn DEF Steps
    <3>2. UNCHANGED <<vm, disk>> /\ (Known' => Known)
      BY <1>0, <1>1, <2>1, <3>1 DEF SameTemplate, NoWrite, Known
    <3>3. ViewInv'
      BY <1>0, <2>1, <3>2, ViewKept DEF ContractInv
    <3>4. CopyInv' /\ CallInv'
      BY <1>0, <3>1, <3>2, CopyKept DEF ContractInv, CallInv, SpawnVisible
    <3>5. WatchInv'
      BY <1>0, <3>2, WatchKept DEF ContractInv, WatchInv
    <3> QED
      BY <3>3, <3>4, <3>5 DEF ContractInv
  <2>2. CASE /\ ~call.vm.needed /\ call.vm = vm
             /\ PatchGoto([vm EXCEPT !.observed = call.cm.rv], "running")
    BY <1>1, <2>2, Recorded DEF SameTemplate
  <2>3. CASE ReturnErr /\ NoWrite
    <3>1. /\ call'.pc = "idle" /\ UNCHANGED <<vm, disk>> /\ (Known' => Known)
      BY <1>0, <1>1, <2>3, NextPC DEF SameTemplate, NoWrite, Known
    <3> QED
      BY <1>0, <2>3, <3>1, ViewKept, CallEnds, WatchKept DEF ContractInv, WatchInv
  <2> QED
    BY <1>1, <2>1, <2>2, <2>3 DEF SameTemplate
<1>2. CASE NewTemplate
  <2>0. call.pc = "template" /\ UNCHANGED disk
    BY <1>2 DEF NewTemplate
  <2>1. /\ call'.pc = "write" /\ call'.cm = call.cm
        /\ call'.vm.needed \/ watch.phase \in {"Unknown", "Stopped"}
        /\ vm'.cond = vm.cond /\ vm'.observed = vm.observed
        /\ vm.needed => vm'.needed
        /\ NoWrite \/ \E new : Write(new)
        /\ \/ UNCHANGED vm /\ call'.vm = call.vm
           \/ call'.vm = vm'
    <3>1. CASE PatchGoto([vm EXCEPT !.needed = TRUE], "write")
      <4> DEFINE new == [vm EXCEPT !.needed = TRUE]
      <4>1. call'.pc = "write" /\ call'.vm = new /\ call'.cm = call.cm /\ Write(new)
        BY <3>1, GoesOn DEF Steps, PatchGoto
      <4>2. vm' = new
        BY <4>1 DEF Write
      <4>3. new.cond = vm.cond /\ new.needed = TRUE /\ new.observed = vm.observed
        BY <1>0, VMFields
      <4> QED
        BY <4>1, <4>2, <4>3
    <3>2. CASE ~(watch.phase \in {"Running", "Starting"} /\ ~call.vm.needed)
      <4>1. Goto("write") /\ NoWrite
        BY <1>2, <3>2 DEF NewTemplate
      <4> QED
        BY <1>0, <3>2, <4>1, GoesOn DEF Steps, NoWrite, Phases
    <3> QED
      BY <1>2, <3>1, <3>2 DEF NewTemplate
  <2>2. Known' => Known
    BY <1>0, <2>1 DEF Known
  <2>3. ViewInv'
    BY <1>0, <2>0, <2>1, <2>2, ViewKept DEF ContractInv
  <2>4. CopyInv'
    BY <1>0, <2>1, CopyKept DEF ContractInv
  <2>5. CallInv'
    BY <1>0, <2>0, <2>1 DEF ContractInv, CallInv, SpawnVisible
  <2>6. WatchInv'
    BY <1>0, <2>0, <2>1, <2>2, WatchKept DEF ContractInv, WatchInv
  <2> QED
    BY <2>3, <2>4, <2>5, <2>6 DEF ContractInv
<1>3. CASE WriteTemplate
  <2>1. /\ call.pc = "write" /\ disk' = call.cm.data /\ UNCHANGED <<vm, pending>>
        /\ call'.pc \in {"running", "record"}
        /\ call'.pc = "record" => ~call.vm.needed
        /\ call'.vm = call.vm /\ call'.cm = call.cm
    BY <1>3, GoesOn DEF WriteTemplate, Steps, api
  <2>2. vm.observed < cm.rv /\ (Known' => Known)
    BY <1>0, <2>1 DEF ContractInv, CallInv, CopyInv, Known
  <2>3. ViewInv'
    BY <1>0, <2>1, <2>2 DEF ContractInv, ViewInv
  <2>4. CopyInv'
    BY <1>0, <2>1, CopyKept DEF ContractInv
  <2>5. CallInv'
    BY <1>0, <2>1 DEF ContractInv, CallInv, SpawnVisible
  <2>6. Known' => \A p \in Booted' : vm'.needed
    <3>1. call.vm.needed \/ watch.phase \in {"Unknown", "Stopped"}
      BY <2>1 DEF ContractInv, CallInv
    <3>2. call.vm.needed = vm.needed
      BY <1>0 DEF ContractInv, CopyInv
    <3> QED
      BY <1>0, <2>1, <3>1, <3>2 DEF Known
  <2>7. WatchInv'
    BY <1>0, <2>1, <2>6 DEF ContractInv, WatchInv, Alive
  <2> QED
    BY <2>3, <2>4, <2>5, <2>7 DEF ContractInv
<1>4. CASE RecordTemplate
  BY <1>4, Recorded DEF RecordTemplate, ContractInv, CallInv
<1> QED
  BY <1>1, <1>2, <1>3, <1>4 DEF TemplateStep

\* A call that returns with a condition.
LEMMA Reported ==
    ASSUME TypeOK, ContractInv, call.pc # "idle", call'.pc = "idle", Calm,
           UNCHANGED <<cm, vmCache, cmCache, disk>>,
           NEW r \in Conds, Write([vm EXCEPT !.cond = r]),
           \/ watch'.phase = "Unknown"
           \/ /\ UNCHANGED watch
              /\ watch.phase = "Starting" => r = "Starting"
              /\ watch.phase = "Running" => r \in {"Starting", "Started"}
    PROVE  ContractInv'
<1>1. /\ vm'.cond = r /\ vm'.needed = vm.needed
      /\ vm'.observed = vm.observed
  BY VMFields DEF TypeOK, Write
<1>2. Known' => Known
  BY DEF Known
<1>3. ViewInv'
  BY <1>1, <1>2, ViewKept DEF ContractInv
<1>4. WatchInv'
  BY <1>1, <1>2, Unwatching, WatchKept DEF ContractInv
<1> QED
  BY <1>3, <1>4, CallEnds DEF ContractInv

\* A call that goes on, or returns, without a status write.
LEMMA Moved ==
    ASSUME TypeOK, ContractInv, call.pc # "idle", call'.pc # "pid", Calm,
           UNCHANGED <<cm, vmCache, cmCache, disk>>, NoWrite,
           watch'.phase = "Unknown" \/ UNCHANGED watch,
           call'.pc = "idle" \/ (call'.vm = call.vm /\ call'.cm = call.cm),
           CallInv'
    PROVE  ContractInv'
<1>1. Known' => Known
  BY DEF Known
<1>2. ViewInv'
  BY <1>1, ViewKept DEF ContractInv, NoWrite
<1>3. WatchInv'
  BY <1>1, Unwatching, WatchKept DEF ContractInv, WatchInv, NoWrite
<1>4. CopyInv'
  BY CopyKept, CallEnds DEF ContractInv, NoWrite
<1> QED
  BY <1>2, <1>3, <1>4 DEF ContractInv

\* handleRunningState: conditions follow the watched process.
LEMMA RunningContract ==
    ASSUME TypeOK, ContractInv, RunningStep
    PROVE  ContractInv'
<1>0. /\ call.pc = "running" /\ call.pc # "idle"
      /\ UNCHANGED <<cm, vmCache, cmCache, disk, ha>> /\ Calm
  BY DEF RunningStep, ResetCondition, HandleRestartNeeded, WatchedStarting,
         WatchedRunning, WatchedCrashed, WatchedUnwanted, WatchedStopped,
         Unwatched, Watched, api, caches, processes, Calm
<1>1. ASSUME NEW r \in Conds, SetCond(r)
      PROVE  Write([vm EXCEPT !.cond = r]) /\ call'.pc = "idle"
  BY <1>0, <1>1, OneCond, NextPC DEF ContractInv, SetCond, PatchReturn
<1>2. CASE ResetCondition
  BY <1>0, <1>1, <1>2, Reported DEF ResetCondition, Unverified, Conds
<1>3. CASE HandleRestartNeeded
  <2>1. UNCHANGED watch
    BY <1>3 DEF HandleRestartNeeded
  <2>2. CASE Shutdown("restart") /\ NoWrite /\ watch.phase = "Running"
    <3>1. CallInv'
      BY <2>1, <2>2, GoesOn DEF CallInv, SpawnVisible
    <3> QED
      BY <1>0, <2>1, <2>2, <3>1, GoesOn, Moved
  <2>3. CASE Return /\ NoWrite
    BY <1>0, <2>1, <2>3, NextPC, CallEnds, Moved
  <2>4. CASE /\ watch.phase \in {"Stopped", "Unknown"}
             /\ PatchReturn([vm EXCEPT !.needed = FALSE])
    <3>1. Write([vm EXCEPT !.needed = FALSE]) /\ call'.pc = "idle"
      BY <2>4, NextPC DEF PatchReturn
    <3>2. vm'.cond = vm.cond /\ vm'.observed = vm.observed
      BY <3>1, VMFields DEF TypeOK, Write
    <3>3. ~Known'
      BY <2>1, <2>4, <3>1 DEF Known
    <3>4. ViewInv'
      BY <1>0, <3>1, <3>2, <3>3, ViewKept DEF ContractInv
    <3>5. WatchInv'
      BY <1>0, <2>1, <2>4, <3>2, <3>3, WatchKept DEF ContractInv
    <3> QED
      BY <3>1, <3>4, <3>5, CallEnds DEF ContractInv
  <2> QED
    BY <1>3, <2>2, <2>3, <2>4 DEF HandleRestartNeeded
<1>4. CASE WatchedStarting
  BY <1>0, <1>1, <1>4, Reported DEF WatchedStarting, Conds
<1>5. CASE WatchedRunning
  <2>1. watch.phase = "Running" /\ UNCHANGED watch
    BY <1>5 DEF WatchedRunning
  <2>2. CASE Return /\ NoWrite
    BY <1>0, <2>1, <2>2, NextPC, CallEnds, Moved
  <2>3. CASE PatchReturn([vm EXCEPT !.cond = "Started", !.count = call.vm.count + 1])
    <3> DEFINE new == [vm EXCEPT !.cond = "Started", !.count = call.vm.count + 1]
    <3>1. Write(new) /\ call'.pc = "idle"
      BY <2>3, NextPC DEF PatchReturn
    <3>2. call.vm.count + 1 \in Nat
      BY DEF TypeOK, Call, VMObject
    <3>3. new.cond = "Started" /\ new.needed = vm.needed /\ new.observed = vm.observed
      BY <3>2, VMFields DEF TypeOK
    <3>4. vm' = new /\ (Known' => Known)
      BY <2>1, <3>1 DEF Write, Known
    <3>5. ViewInv'
      BY <1>0, <3>1, <3>3, <3>4, ViewKept DEF ContractInv
    <3>6. WatchInv'
      BY <1>0, <2>1, <3>3, <3>4, WatchKept DEF ContractInv
    <3> QED
      BY <3>1, <3>5, <3>6, CallEnds DEF ContractInv
  <2> QED
    BY <1>5, <2>2, <2>3 DEF WatchedRunning
<1>6. CASE WatchedCrashed
  <2>1. /\ call'.pc = "inspect" /\ call'.vm = call.vm /\ call'.cm = call.cm
        /\ watch'.phase = "Unknown" /\ call.vm.running /\ NoWrite
    BY <1>6, GoesOn DEF WatchedCrashed, Steps, NoWatch, NoWrite, api
  <2>2. CallInv'
    BY <2>1 DEF CallInv, SpawnVisible
  <2> QED
    BY <1>0, <2>1, <2>2, Moved
<1>7. CASE WatchedUnwanted
  <2>1. /\ call'.pc \in {"wait", "force"} /\ call'.vm = call.vm /\ call'.cm = call.cm
        /\ UNCHANGED watch /\ watch.phase # "Unknown" /\ NoWrite
    BY <1>7, GoesOn DEF WatchedUnwanted, NoWrite, api
  <2>2. CallInv'
    BY <2>1 DEF CallInv, SpawnVisible
  <2> QED
    BY <1>0, <2>1, <2>2, Moved
<1>8. CASE WatchedStopped
  BY <1>0, <1>1, <1>8, Reported DEF WatchedStopped, Conds, NoWatch
<1>9. CASE Unwatched
  <2>1. watch.phase = "Unknown" /\ UNCHANGED watch
    BY <1>9 DEF Unwatched
  <2>2. CASE call' = [call EXCEPT !.pc = "orphan", !.inst = Seen] /\ NoWrite
    <3>1. call'.pc = "orphan" /\ call'.vm = call.vm /\ call'.cm = call.cm
      BY <2>2 DEF TypeOK, Call
    <3>2. CallInv'
      BY <2>1, <3>1 DEF CallInv, SpawnVisible
    <3> QED
      BY <1>0, <2>1, <2>2, <3>1, <3>2, Moved
  <2>3. CASE call.vm.running /\ Goto("start") /\ NoWrite
    <3>1. call'.pc = "start" /\ call'.vm = call.vm /\ call'.cm = call.cm
      BY <2>3, GoesOn DEF Steps
    <3>2. CallInv'
      BY <2>1, <2>3, <3>1 DEF CallInv, SpawnVisible
    <3> QED
      BY <1>0, <2>1, <2>3, <3>1, <3>2, Moved
  <2>4. CASE SetCond("Stopped")
    BY <1>0, <1>1, <2>1, <2>4, Reported DEF Conds
  <2> QED
    BY <1>9, <2>2, <2>3, <2>4 DEF Unwatched
<1> QED
  BY <1>2, <1>3, <1>4, <1>5, <1>6, <1>7, <1>8, <1>9 DEF RunningStep

\* A kill ends hostagents and starts none.
LEMMA KillCalm ==
    ASSUME TypeOK, NEW i \in Instance, StopForcibly(i) \/ KillRecorded(i)
    PROVE  Calm
<1>1. CASE KillRecorded(i)
  BY <1>1 DEF KillRecorded, Calm, Alive, TypeOK, Hostagent
<1>2. CASE UNCHANGED ha
  BY <1>2 DEF Calm
<1> QED
  BY <1>1, <1>2 DEF StopForcibly, processes

\* startInstance: announced, spawned while nobody is alive, watched as the owner.
LEMMA StartContract ==
    ASSUME TypeOK, HostagentInv, ContractInv, StartStep
    PROVE  ContractInv'
<1>0. /\ call.pc \in {"inspect", "start", "spawn", "pid"} /\ call.pc # "idle"
      /\ watch.phase = "Unknown" /\ watch.phase # "Starting"
      /\ watch.phase # "Running"
      /\ UNCHANGED <<cm, vmCache, cmCache, disk>>
      /\ \A p \in Pids : p # NoPid
  BY DEF StartStep, CleanBeforeStart, StartInstance, SpawnHostagent, StartFails,
         StartWatcher, PIDFileTimeout, api, caches, ContractInv, CallInv
<1>1. CASE CleanBeforeStart
  <2>1. /\ call'.pc = "start" /\ call'.vm = call.vm /\ call'.cm = call.cm
        /\ call.vm.running /\ NoWrite /\ UNCHANGED watch
    BY <1>1, GoesOn DEF CleanBeforeStart, Steps, api, NoWrite, ContractInv, CallInv
  <2>2. Calm
    <3>1. CASE UNCHANGED ha
      BY <3>1 DEF Calm
    <3> QED
      BY <1>1, <3>1, SeenType, KillCalm DEF CleanBeforeStart
  <2>3. CallInv'
    BY <1>0, <2>1 DEF CallInv, SpawnVisible
  <2> QED
    BY <1>0, <2>1, <2>2, <2>3, Moved
<1>2. CASE StartInstance
  <2> DEFINE new == [vm EXCEPT !.cond = "Starting"]
  <2>1. WithCond("Starting") = new
    BY <1>0, OneCond DEF ContractInv, Conds
  <2>2. PatchGoto(new, "spawn") /\ UNCHANGED <<watch, ha>>
    BY <1>2, <2>1 DEF StartInstance, processes
  <2>3. /\ call'.pc = "spawn" /\ call'.vm = new /\ call'.cm = call.cm
        /\ Write(new) /\ vm' = new
    BY <2>2, GoesOn DEF Steps, PatchGoto, Write
  <2>4. new.cond = "Starting" /\ new.observed = vm.observed
    BY VMFields DEF TypeOK, Conds
  <2>5. Calm /\ (Known' => Known)
    BY <2>2, <2>3 DEF Calm, Known
  <2>6. ViewInv'
    BY <1>0, <2>3, <2>4, <2>5, ViewKept DEF ContractInv
  <2>7. CopyInv'
    BY <1>0, <2>3, CopyKept DEF ContractInv
  <2>8. CallInv'
    BY <1>0, <2>2, <2>3, <2>4 DEF CallInv, SpawnVisible
  <2>9. WatchInv'
    BY <1>0, <2>2, <2>3, <2>5, Unwatching DEF ContractInv
  <2> QED
    BY <2>6, <2>7, <2>8, <2>9 DEF ContractInv
<1>3. CASE SpawnHostagent
  <2>1. PICK c \in Pids :
          /\ ha' = [ha EXCEPT ![c] = [Dead EXCEPT !.st = "spawned"]]
          /\ call' = [call EXCEPT !.pc = "pid", !.child = c]
    BY <1>3 DEF SpawnHostagent
  <2>2. /\ call'.pc = "pid" /\ call'.vm = call.vm /\ call'.cm = call.cm
        /\ UNCHANGED <<vm, pending, watch>> /\ call.pc = "spawn"
    BY <1>3, <2>1 DEF SpawnHostagent, TypeOK, Call, api
  <2>3. \A p \in Pids : ~Alive(p)
    BY <2>2 DEF HostagentInv
  <2>4. \A p \in Pids : /\ ha'[p].st \in {"dead", "spawned"}
                        /\ ha'[p].st = "spawned" => ~ha'[p].ran
    BY <1>0, <2>1, <2>3 DEF TypeOK, Hostagent, Dead, Alive
  <2>5. Booted' = {}
    BY <2>4 DEF Booted
  <2>6. ViewInv'
    BY <1>0, <2>2, <2>5 DEF ContractInv, ViewInv
  <2>7. CopyInv'
    BY <1>0, <2>2, CopyKept DEF ContractInv
  <2>8. CallInv'
    BY <1>0, <2>2 DEF ContractInv, CallInv, SpawnVisible
  <2>9. WatchInv'
    BY <1>0, <2>2, <2>4, <2>5 DEF WatchInv
  <2> QED
    BY <2>6, <2>7, <2>8, <2>9 DEF ContractInv
<1>4. CASE StartFails \/ PIDFileTimeout
  <2>1. call'.pc = "idle" /\ UNCHANGED watch /\ Calm
    BY <1>4, NextPC DEF StartFails, PIDFileTimeout, processes, Calm
  <2>2. Write([vm EXCEPT !.cond = "StartFailed"])
    BY <1>0, <1>4, OneCond DEF StartFails, PIDFileTimeout, ContractInv, Conds
  <2> QED
    BY <1>0, <2>1, <2>2, Reported DEF Conds
<1>5. CASE StartWatcher
  <2>1. /\ call.pc = "pid" /\ call'.pc = "idle" /\ pidfile # NoPid
        /\ watch'.phase = "Starting" /\ watch'.proc = call.child
        /\ UNCHANGED <<vm, pending, ha>> /\ vm.cond = "Starting"
    BY <1>5, NextPC DEF StartWatcher, api, processes, ContractInv, CallInv, SpawnVisible
  <2>2. pidfile = call.child /\ call.child \in Pids
    BY <2>1 DEF HostagentInv, TypeOK
  <2>3. \A p \in Pids : Alive(p) => p = call.child
    BY <2>1, <2>2, Stage DEF HostagentInv
  <2>4. Calm /\ Known
    BY <2>1 DEF Calm, Known
  <2>5. ViewInv'
    BY <1>0, <2>1, <2>4, ViewKept DEF ContractInv, NoWrite
  <2>6. WatchInv'
    BY <1>0, <2>1, <2>2, <2>3, <2>4 DEF ContractInv, WatchInv, Alive, Booted
  <2> QED
    BY <2>1, <2>5, <2>6, CallEnds DEF ContractInv
<1> QED
  BY <1>1, <1>2, <1>3, <1>4, <1>5 DEF StartStep

\* A stop records its end when nobody is alive.
LEMMA StopContract ==
    ASSUME TypeOK, HostagentInv, ContractInv, Timely, StopStep \/ ReconcileError
    PROVE  ContractInv'
<1>0. /\ call.pc # "idle" /\ UNCHANGED <<cm, vmCache, cmCache, disk>>
      /\ call.inst \in Instance /\ Seen \in Instance
      /\ \A p \in Pids : p # NoPid
  BY SeenType DEF StopStep, ProcessExited, GraceExpired, ForceStop, FinishStop,
         FinishRestart, KillOrphan, ReconcileError, api, caches, TypeOK, Call
<1>1. CASE ProcessExited
  <2>1. /\ call.pc = "wait" /\ call'.pc = "finish" /\ UNCHANGED <<watch, ha>>
        /\ call'.vm = call.vm /\ call'.cm = call.cm /\ NoWrite
    BY <1>1, GoesOn DEF ProcessExited, Steps, api, processes, NoWrite
  <2>2. \A p \in Pids : ~Alive(p)
    BY <1>1, <2>1 DEF ProcessExited, ContractInv, CallInv, WatchInv
  <2>3. CallInv' /\ Calm
    BY <2>1, <2>2 DEF CallInv, SpawnVisible, Alive, Calm
  <2> QED
    BY <1>0, <2>1, <2>3, Moved
<1>2. CASE GraceExpired
  <2>1. /\ call'.pc = "force" /\ UNCHANGED <<watch, ha>>
        /\ call'.vm = call.vm /\ call'.cm = call.cm /\ NoWrite
    BY <1>2, GoesOn DEF GraceExpired, Steps, api, processes, NoWrite
  <2>2. CallInv' /\ Calm
    BY <2>1 DEF CallInv, SpawnVisible, Calm
  <2> QED
    BY <1>0, <2>1, <2>2, Moved
<1>3. CASE ForceStop
  <2>1. /\ call.pc = "force" /\ call'.pc = "finish" /\ UNCHANGED watch
        /\ call'.vm = call.vm /\ call'.cm = call.cm /\ NoWrite
    BY <1>3, GoesOn DEF ForceStop, Steps, api, NoWrite
  <2>2. PICK i \in Instance :
          KillRecorded(i) /\ \A p \in Pids : Owner(p) => i.agent = p
    BY <1>0, <1>3, <2>1, SeenOwner
       DEF ForceStop, StopForcibly, Timely, HostagentInv, Stopping
  <2>3. CallInv'
    BY <2>1, <2>2, KillsAll DEF CallInv, SpawnVisible
  <2> QED
    BY <1>0, <2>1, <2>2, <2>3, KillCalm, Moved
<1>4. CASE FinishStop
  <2>1. call'.pc = "idle" /\ watch'.phase = "Unknown" /\ Calm
    BY <1>4 DEF FinishStop, Idle, StopWatcher, NoWatch, Calm
  <2>2. PICK r \in Conds : Write([vm EXCEPT !.cond = r])
    <3>1. PICK r \in Conds : \E new \in WithMessage(r) : Write(new)
      BY <1>4 DEF FinishStop, Conds
    <3> QED
      BY <1>0, <3>1, OneCond DEF ContractInv
  <2> QED
    BY <1>0, <2>1, <2>2, Reported
<1>5. CASE FinishRestart
  <2>1. call'.pc = "idle" /\ watch'.phase = "Unknown" /\ Calm
    BY <1>5 DEF FinishRestart, Idle, StopWatcher, NoWatch, Calm, processes
  <2>2. PICK new \in VMObject :
          new.observed = vm.observed /\ Write([new EXCEPT !.needed = FALSE])
    <3>1. [vm EXCEPT !.cond = "Stopped"] \in VMObject
      BY PatchType DEF TypeOK, VMObject, Conds
    <3>2. [vm EXCEPT !.cond = "Stopped"].observed = vm.observed
      BY VMFields DEF TypeOK, Conds
    <3> QED
      BY <1>0, <1>5, <3>1, <3>2, OneCond DEF FinishRestart, ContractInv, Conds
  <2>3. vm'.observed = vm.observed /\ (Known' => Known)
    BY <2>1, <2>2, VMFields DEF Write, Known
  <2>4. ViewInv'
    BY <1>0, <2>1, <2>2, <2>3, ViewKept DEF ContractInv
  <2>5. WatchInv'
    BY <1>0, <2>1, Unwatching DEF ContractInv
  <2> QED
    BY <2>1, <2>4, <2>5, CallEnds DEF ContractInv
<1>6. CASE KillOrphan
  <2>1. call'.pc = "idle" /\ UNCHANGED watch /\ NoWrite
    BY <1>6, NextPC DEF KillOrphan, api, NoWrite
  <2>2. Calm
    <3>1. CASE UNCHANGED ha
      BY <3>1 DEF Calm
    <3> QED
      BY <1>0, <1>6, <3>1, KillCalm DEF KillOrphan, processes
  <2> QED
    BY <1>0, <2>1, <2>2, CallEnds, Moved
<1>7. CASE ReconcileError
  <2>1. /\ call'.pc = "idle" /\ NoWrite /\ Calm
        /\ watch'.phase = "Unknown" \/ UNCHANGED watch
    BY <1>7, NextPC DEF ReconcileError, api, processes, NoWrite, NoWatch, Calm
  <2> QED
    BY <1>0, <2>1, CallEnds, Moved
<1> QED
  BY <1>1, <1>2, <1>3, <1>4, <1>5, <1>6, <1>7 DEF StopStep

\* A call starts with copies that are current.
LEMMA ReconcileContract ==
    ASSUME TypeOK, ContractInv, ~Lagging, Reconcile \/ HandleRestartAnnotation
    PROVE  ContractInv'
<1>0. /\ call.pc = "idle" /\ pending = {} /\ UNCHANGED <<cm, vmCache, cmCache>>
      /\ UNCHANGED <<watch, disk, ha>> /\ Calm
  BY DEF Reconcile, HandleRestartAnnotation, Requested, api, caches, processes, Calm
<1>1. CASE Reconcile
  <2>1. /\ call' = [Idle EXCEPT
                      !.pc = IF cmCache.rv # vmCache.observed
                             THEN "template" ELSE "running",
                      !.vm = vmCache, !.cm = cmCache]
        /\ UNCHANGED <<vm, pending>>
    BY <1>1 DEF Reconcile, api
  <2>2. vmCache = vm /\ cmCache = cm
    BY <1>0 DEF ContractInv, ViewInv
  <2>3. /\ call'.pc = IF cm.rv # vm.observed THEN "template" ELSE "running"
        /\ call'.vm = vm /\ call'.cm = cm
    BY <2>1, <2>2 DEF Idle
  <2>4. vm.observed <= cm.rv /\ vm.observed \in Nat /\ cm.rv \in Nat
    BY DEF ContractInv, ViewInv, TypeOK, VMObject, ConfigMap
  <2>5. Known' => Known
    BY <1>0, <2>3 DEF Known
  <2>6. ViewInv'
    BY <1>0, <2>1, <2>5, ViewKept DEF ContractInv, NoWrite
  <2>7. CopyInv'
    BY <1>0, <2>1, <2>3, <2>4 DEF CopyInv
  <2>8. CallInv'
    BY <2>1, <2>3, <2>4, <1>0 DEF CallInv, SpawnVisible
  <2>9. WatchInv'
    BY <1>0, <2>1, <2>5, WatchKept DEF ContractInv, WatchInv
  <2> QED
    BY <2>6, <2>7, <2>8, <2>9 DEF ContractInv
<1>2. CASE HandleRestartAnnotation
  <2>1. /\ call'.pc = "idle"
        /\ \E new : Write(new)
        /\ vm'.cond = vm.cond /\ vm'.observed = vm.observed
        /\ vm.needed => vm'.needed
    <3>1. call' = call
      BY <1>2 DEF HandleRestartAnnotation
    <3>2. vm \in VMObject
      BY DEF TypeOK
    <3>3. CASE vmCache.needed
      BY <1>0, <1>2, <3>1, <3>2, <3>3, VMFields DEF HandleRestartAnnotation, Write
    <3>4. CASE ~vmCache.needed
      BY <1>0, <1>2, <3>1, <3>2, <3>4, VMFields DEF HandleRestartAnnotation, Write
    <3> QED
      BY <3>3, <3>4
  <2>2. Known' => Known
    BY <1>0, <2>1 DEF Known
  <2>3. ViewInv'
    BY <1>0, <2>1, <2>2, ViewKept DEF ContractInv
  <2>4. WatchInv'
    BY <1>0, <2>1, <2>2, WatchKept DEF ContractInv, WatchInv
  <2> QED
    BY <2>1, <2>3, <2>4, CallEnds DEF ContractInv
<1> QED
  BY <1>1, <1>2

\* A hostagent that moves on: only a boot makes a guest, from lima.yaml.
LEMMA HostagentContract ==
    ASSUME TypeOK, ContractInv, NEW p \in Pids,
           HostagentStep(p) \/ PowerOff(p) \/ HostagentCrash(p)
    PROVE  ContractInv'
<1>0. /\ UNCHANGED <<vm, cm, pending, vmCache, cmCache, call, watch, disk>>
      /\ ha \in [Pids -> Hostagent] /\ p # NoPid
  BY DEF HostagentStep, CheckPIDFile, WritePIDFile, Boot, EmitRunning,
         EmitExiting, Exit, PowerOff, HostagentCrash, api, caches, TypeOK
<1>1. Alive(p) /\ \A q \in Pids \ {p} : ha'[q] = ha[q]
  BY <1>0 DEF HostagentStep, CheckPIDFile, WritePIDFile, Boot, EmitRunning,
              EmitExiting, Exit, PowerOff, HostagentCrash, Alive
<1>2. \A q \in Pids : Alive(q)' => Alive(q)
  BY <1>1 DEF Alive
<1>3. call.pc # "finish" /\ (Known <=> Known') /\ CopyInv' /\ CallInv'
  BY <1>0, <1>1 DEF ContractInv, CallInv, CopyInv, SpawnVisible, Known
\* A boot reads lima.yaml.
<1>4. CASE Boot(p) /\ ha' = [ha EXCEPT ![p].st = "booting", ![p].tmpl = disk]
  <2>1. /\ ha[p].st = "owner" /\ ~ha[p].ran
        /\ ha'[p].st = "booting" /\ ha'[p].tmpl = disk /\ ha'[p].ran = ha[p].ran
    BY <1>0, <1>4 DEF Boot, Hostagent, ContractInv, WatchInv
  <2>2. \A q \in Booted' : q = p \/ (q \in Booted /\ ha'[q] = ha[q])
    BY <1>1 DEF Booted
  <2>3. ViewInv'
    BY <1>0, <1>3, <2>1, <2>2 DEF ContractInv, ViewInv
  <2>4. watch.phase = "Running" => watch.proc # p
    BY <2>1 DEF ContractInv, WatchInv
  <2>5. WatchInv'
    BY <1>0, <1>1, <1>2, <1>3, <2>1, <2>2, <2>4 DEF ContractInv, WatchInv
  <2> QED
    BY <1>3, <2>3, <2>5 DEF ContractInv
<1>5. CASE ~(Boot(p) /\ ha' = [ha EXCEPT ![p].st = "booting", ![p].tmpl = disk])
  <2>1. /\ ha'[p].tmpl = ha[p].tmpl
        /\ \/ ha'[p].st = "running" /\ ha[p].st = "booting" /\ ha'[p].ran
           \/ /\ ha'[p].ran = ha[p].ran
              /\ \/ ha'[p].st \in {"dead", "exiting"}
                 \/ /\ ha[p].st \in {"spawned", "checked"}
                    /\ ha'[p].st \in {"checked", "owner"}
    BY <1>0, <1>5 DEF HostagentStep, CheckPIDFile, WritePIDFile, Boot, EmitRunning,
         EmitExiting, Exit, PowerOff, HostagentCrash, Hostagent
  <2>2. \A q \in Booted' : q \in Booted /\ ha'[q].tmpl = ha[q].tmpl
    BY <1>1, <2>1 DEF Booted
  <2>3. ViewInv'
    BY <1>0, <1>3, <2>2 DEF ContractInv, ViewInv
  <2>4. \A q \in Pids : ha'[q].st \in {"spawned", "checked", "owner", "booting"} =>
                          ~ha'[q].ran
    BY <1>1, <2>1 DEF ContractInv, WatchInv
  <2>5. \A q \in Pids : ha[q].ran => ha'[q].ran
    BY <1>1, <2>1
  <2>6. WatchInv'
    BY <1>0, <1>2, <1>3, <2>2, <2>4, <2>5 DEF ContractInv, WatchInv
  <2> QED
    BY <1>3, <2>3, <2>6 DEF ContractInv
<1> QED
  BY <1>4, <1>5

\* Informers, the watcher, a crash of the control plane and the users.
LEMMA EnvironmentContract ==
    ASSUME TypeOK, ContractInv,
           \/ SyncVM \/ SyncCM \/ WatcherStep \/ WatchFails
           \/ ControlPlaneCrash \/ UserStep
    PROVE  ContractInv'
<1>0. UNCHANGED <<disk, ha>> /\ \A p \in Pids : p # NoPid
  BY DEF SyncVM, SyncCM, WatcherStep, WatchRunning, WatchStopped, WatchFails, ControlPlaneCrash,
         UserStep, SetRunning, RequestRestart, EditTemplate, processes
<1>1. CASE SyncVM \/ SyncCM
  <2>1. UNCHANGED <<vm, cm, call, watch>>
    BY <1>1 DEF SyncVM, SyncCM
  <2>2. ViewInv'
    BY <1>0, <1>1, <2>1 DEF SyncVM, SyncCM, ContractInv, ViewInv, Known, Booted
  <2> QED
    BY <1>0, <2>1, <2>2 DEF ContractInv, CopyInv, CallInv, SpawnVisible, WatchInv,
                            Known, Booted, Alive
<1>2. CASE WatcherStep \/ WatchFails
  <2>0. UNCHANGED <<vm, cm, pending, vmCache, cmCache, call>>
    BY <1>2 DEF WatcherStep, WatchRunning, WatchStopped, WatchFails, api, caches
  <2>1. /\ watch.phase \in {"Starting", "Running"} /\ watch.proc \in Pids
        /\ watch'.phase \in {"Running", "Stopped"} /\ watch'.proc = watch.proc
        /\ watch'.phase = "Running" => watch.phase = "Starting" /\ ha[watch.proc].ran
    BY <1>0, <1>2 DEF WatcherStep, WatchRunning, WatchStopped, WatchFails, ContractInv,
                      WatchInv, TypeOK
  <2>2. Known
    BY <2>1 DEF Known
  <2>3. ViewInv' /\ CopyInv'
    BY <1>0, <2>0, <2>2 DEF ContractInv, ViewInv, CopyInv, Booted
  <2>4. CallInv'
    BY <1>0, <2>0, <2>1 DEF ContractInv, CallInv, SpawnVisible, Alive
  <2>5. WatchInv'
    BY <1>0, <2>0, <2>1, <2>2 DEF ContractInv, WatchInv, Booted, Alive
  <2> QED
    BY <2>3, <2>4, <2>5 DEF ContractInv
<1>3. CASE ControlPlaneCrash
  <2>1. /\ call'.pc = "idle" /\ watch'.phase = "Unknown" /\ Calm
        /\ vmCache' = vm' /\ cmCache' = cm' /\ UNCHANGED <<vm, cm>>
    BY <1>3 DEF ControlPlaneCrash, Idle, NoWatch, processes, Calm
  <2>2. ViewInv'
    BY <1>0, <2>1 DEF ContractInv, ViewInv, Known
  <2> QED
    BY <2>1, <2>2, CallEnds, Unwatching DEF ContractInv
<1>4. CASE SetRunning \/ RequestRestart
  <2>1. /\ UNCHANGED <<cm, vmCache, cmCache, call, watch>> /\ Calm
        /\ \E new : Write(new)
        /\ vm'.cond = vm.cond /\ vm'.needed = vm.needed
        /\ vm'.observed = vm.observed /\ vm'.count = vm.count
    <3>1. CASE SetRunning
      BY <3>1, VMFields DEF SetRunning, Write, caches, processes, Calm, TypeOK
    <3>2. CASE RequestRestart
      BY <3>2, VMFields DEF RequestRestart, Write, caches, processes, Calm, TypeOK
    <3> QED
      BY <1>4, <3>1, <3>2
  <2>2. Known' <=> Known
    BY <2>1 DEF Known
  <2>3. ViewInv'
    BY <1>0, <2>1, <2>2, ViewKept DEF ContractInv
  <2>4. CopyInv' /\ CallInv'
    BY <1>0, <2>1 DEF ContractInv, CopyInv, CallInv, SpawnVisible, Alive
  <2>5. WatchInv'
    BY <1>0, <2>1, <2>2, WatchKept DEF ContractInv, WatchInv
  <2> QED
    BY <2>3, <2>4, <2>5 DEF ContractInv
<1>5. CASE EditTemplate
  <2>1. /\ UNCHANGED <<vm, vmCache, cmCache, call, watch>>
        /\ pending' = pending \cup {"cm"} /\ cm'.rv = cm.rv + 1
    BY <1>5 DEF EditTemplate, caches
  <2>2. cm.rv \in Nat /\ vm.observed \in Nat /\ call.cm.rv \in Nat
    BY DEF TypeOK, VMObject, ConfigMap, Call
  <2>3. ViewInv' /\ CopyInv'
    BY <2>1, <2>2 DEF ContractInv, ViewInv, CopyInv
  <2>4. CallInv' /\ WatchInv'
    BY <1>0, <2>1 DEF ContractInv, CallInv, SpawnVisible, Alive, WatchInv, Known, Booted
  <2> QED
    BY <2>3, <2>4 DEF ContractInv
<1> QED
  BY <1>1, <1>2, <1>3, <1>4, <1>5 DEF UserStep

\* The invariant holds at first, and every step keeps it.
LEMMA ContractInvInit == Init => ContractInv
<1> SUFFICES ASSUME Init PROVE ContractInv
  OBVIOUS
<1>1. call.pc = "idle" /\ watch.phase = "Unknown" /\ vm.observed = 1 /\ cm.rv = 1
      /\ cm.data = disk /\ \A p \in Pids : ha[p].st = "dead"
  BY DEF Init, Idle, NoWatch, NewVM, NewCM, Dead
<1> QED
  BY <1>1 DEF Init, ContractInv, ViewInv, CopyInv, CallInv, SpawnVisible, WatchInv, Known

\* One case per part of the system.
LEMMA ContractStepInv ==
    ASSUME TypeOK, HostagentInv, ContractInv, Prompt, [Next]_vars
    PROVE  ContractInv'
<1>1. CASE ReconcilerStep
  BY <1>1, ReconcileContract, TemplateContract, RunningContract, StartContract,
     StopContract DEF ReconcilerStep, Prompt
<1>2. CASE \E p \in Pids : HostagentStep(p) \/ PowerOff(p) \/ HostagentCrash(p)
  BY <1>2, HostagentContract
<1>3. CASE \/ SyncVM \/ SyncCM \/ WatcherStep \/ WatchFails
           \/ ControlPlaneCrash \/ UserStep
  BY <1>3, EnvironmentContract
<1>4. CASE UNCHANGED vars
  BY <1>4 DEF vars, ContractInv, ViewInv, CopyInv, CallInv, SpawnVisible, WatchInv,
              Known, Booted, Alive
<1> QED
  BY <1>1, <1>2, <1>3, <1>4 DEF Next

-----------------------------------------------------------------------------
(* The refinement mapping. *)

\* What CHOOSE picks from a set of one.
LEMMA OnlyOne == \A S, p : S = {p} => (CHOOSE q \in S : TRUE) = p
  OBVIOUS

\* The guest is that of the only hostagent that has booted.
LEMMA GuestIs ==
    ASSUME TypeOK, HostagentInv, NEW p \in Booted
    PROVE  Booted = {p} /\ Guest = ha[p].tmpl
<1>1. Booted = {p}
  BY DEF HostagentInv, Booted, Owner
<1> QED
  BY <1>1, OnlyOne DEF Guest

\* A step that boots nobody leaves the guest or ends it.
LEMMA GuestKept ==
    ASSUME TypeOK, HostagentInv,
           \A p \in Booted' : p \in Booted /\ ha'[p].tmpl = ha[p].tmpl
    PROVE  Guest' = Guest \/ Guest' = "Off"
<1>1. CASE Booted' = {}
  BY <1>1 DEF Guest
<1>2. ASSUME NEW p \in Booted' PROVE Guest' = Guest
  <2>1. p \in Booted /\ Booted = {p} /\ Guest = ha[p].tmpl
    BY <1>2, GuestIs
  <2>2. Booted' = {p}
    BY <1>2, <2>1
  <2>3. Guest' = ha'[p].tmpl
    BY <2>2, OnlyOne DEF Guest
  <2> QED
    BY <1>2, <2>1, <2>3
<1> QED
  BY <1>1, <1>2

\* A guest that is taken to be watched, but not known, is none.
LEMMA WatchedGuest ==
    ASSUME TypeOK, WatchInv, View = "watched", ~Known
    PROVE  Booted = {} /\ ha[watch.proc].st \in {"dead", "exiting"}
<1>1. watch.phase = "Stopped" /\ ha[watch.proc].st \in {"dead", "exiting"}
  BY DEF View, Known, TypeOK, Phases
<1> QED
  BY <1>1 DEF WatchInv, Booted, Alive

\* What the control plane may come to see of the guest.
ViewStep ==
    \/ View' \in {View, "found"}
    \/ View = "watched" /\ View' = "lost"
    \/ Guest' = "Off" /\ View' = "watched"

\* A guest stays as it is watched, unless the watcher goes or the guest ends.
LEMMA ViewStays ==
    ASSUME TypeOK, WatchInv,
           \/ watch'.phase = "Unknown" /\ call'.pc # "pid"
           \/ /\ UNCHANGED watch /\ (call'.pc = "pid" => call.pc = "pid")
              /\ \A p \in Pids :
                   /\ Alive(p)' => Alive(p)
                   /\ ha[p].st \in {"dead", "exiting"} => ha'[p].st \in {"dead", "exiting"}
    PROVE  ViewStep
<1>1. CASE watch'.phase = "Unknown" /\ call'.pc # "pid"
  BY <1>1 DEF View, ViewStep
<1>2. CASE /\ UNCHANGED watch /\ (call'.pc = "pid" => call.pc = "pid")
           /\ \A p \in Pids :
                /\ Alive(p)' => Alive(p)
                /\ ha[p].st \in {"dead", "exiting"} => ha'[p].st \in {"dead", "exiting"}
  <2>1. CASE watch.phase # "Stopped"
    BY <1>2, <2>1 DEF View, ViewStep
  <2>2. CASE watch.phase = "Stopped" /\ ha'[watch.proc].st \notin {"dead", "exiting"}
    <3>1. ha[watch.proc].st \notin {"dead", "exiting"}
      BY <1>2, <2>2 DEF WatchInv
    <3> QED
      BY <1>2, <2>2, <3>1 DEF View, ViewStep
  <2>3. CASE watch.phase = "Stopped" /\ ha'[watch.proc].st \in {"dead", "exiting"}
    <3>1. Booted' = {}
      BY <1>2, <2>3 DEF WatchInv, Booted, Alive
    <3>2. Guest' = "Off" /\ View' = "watched"
      BY <1>2, <2>3, <3>1 DEF Guest, View
    <3> QED
      BY <3>2 DEF ViewStep
  <2> QED
    BY <2>1, <2>2, <2>3
<1> QED
  BY <1>1, <1>2

\* So in steps that only end hostagents.
LEMMA ViewCalm ==
    ASSUME TypeOK, WatchInv, Calm, call'.pc # "pid",
           watch'.phase = "Unknown" \/ UNCHANGED watch
    PROVE  ViewStep
<1>1. \A p \in Pids :
        /\ Alive(p)' => Alive(p)
        /\ ha[p].st \in {"dead", "exiting"} => ha'[p].st \in {"dead", "exiting"}
  BY DEF Calm, Alive
<1> QED
  BY <1>1, ViewStays

\* What a reconcile remembers of spec.running, and of its guests.
LEMMA AsRemember ==
    ASSUME TypeOK, ViewStep,
           \/ call'.pc = "idle" \/ UNCHANGED call
           \/ call.pc # "idle" /\ call'.pc # "idle" /\ call'.vm = call.vm
           \/ call'.pc # "idle" /\ call'.vm.running = vm.running
    PROVE  C!Remember
<1>1. vm.running \in BOOLEAN /\ call.vm.running \in BOOLEAN
  BY DEF TypeOK, Call, VMObject
<1>2. (call.pc # "idle" /\ call.vm.running)'
        \in {call.pc # "idle" /\ call.vm.running, vm.running, FALSE}
  BY <1>1
<1> QED
  BY <1>2 DEF C!Remember, ViewStep

\* Steps that no client sees, or that end a guest.
LEMMA AsQuiet ==
    ASSUME TypeOK, HostagentInv, UNCHANGED <<cm, disk>>,
           \A p \in Booted' : p \in Booted /\ ha'[p].tmpl = ha[p].tmpl,
           vm'.running = vm.running, vm'.cond = vm.cond, vm'.observed = vm.observed
    PROVE  C!VMStep
<1>1. Guest' = Guest \/ Guest' = "Off"
  BY GuestKept
<1>2. Reason' = Reason
  BY DEF Reason
<1> QED
  BY <1>1, <1>2 DEF C!VMStep, C!Quietly, C!PowerOff

\* Reports of the condition.
LEMMA AsReport ==
    ASSUME TypeOK, UNCHANGED <<cm, disk, ha>>,
           vm'.running = vm.running, vm'.observed = vm.observed,
           \/ vm'.cond \notin {"Starting", "Started", "Stopped"}
           \/ vm'.cond = "Stopped" /\ (Booted = {} \/ View = "lost")
           \/ vm'.cond = vm.cond
           \/ vm'.cond = "Starting" /\ Booted = {} /\ call.pc # "idle" /\ call.vm.running
           \/ /\ vm'.cond = "Started" /\ vm.cond = "Starting"
              /\ call.pc # "idle" /\ call.vm.running
    PROVE  C!VMStep
<1>1. Guest' = Guest
  BY DEF Guest, Booted
<1>2. Booted = {} => Guest = "Off"
  BY DEF Guest
<1>3. CASE vm'.cond \notin {"Starting", "Started", "Stopped"}
  <2>1. Reason' = "Other"
    BY <1>3 DEF Reason
  <2> QED
    BY <1>1, <2>1 DEF C!VMStep, C!ReportOther
<1>4. CASE vm'.cond = "Stopped" /\ (Booted = {} \/ View = "lost")
  <2>1. Reason' = "Stopped"
    BY <1>4 DEF Reason
  <2> QED
    BY <1>1, <1>2, <1>4, <2>1 DEF C!VMStep, C!ReportStopped
<1>5. CASE vm'.cond = vm.cond
  <2>1. Reason' = Reason
    BY <1>5 DEF Reason
  <2> QED
    BY <1>1, <2>1 DEF C!VMStep, C!Quietly
<1>6. CASE vm'.cond = "Starting" /\ Booted = {} /\ call.pc # "idle" /\ call.vm.running
  <2>1. Reason' = "Starting"
    BY <1>6 DEF Reason
  <2> QED
    BY <1>1, <1>2, <1>6, <2>1 DEF C!VMStep, C!Announce
<1>7. CASE /\ vm'.cond = "Started" /\ vm.cond = "Starting"
           /\ call.pc # "idle" /\ call.vm.running
  <2>1. Reason' = "Started" /\ Reason = "Starting"
    BY <1>7 DEF Reason
  <2> QED
    BY <1>1, <1>7, <2>1 DEF C!VMStep, C!ReportStarted
<1> QED
  BY <1>3, <1>4, <1>5, <1>6, <1>7

\* The initial states map to initial states.
LEMMA ContractStarts == Init => C!ContractInit
<1> SUFFICES ASSUME Init PROVE C!ContractInit
  OBVIOUS
<1>1. /\ vm.running = FALSE /\ Reason = "Other" /\ vm.observed = 1
      /\ cm = [rv |-> 1, data |-> FirstTemplate] /\ disk = FirstTemplate
      /\ call.pc = "idle" /\ watch.phase = "Unknown"
  BY DEF Init, NewVM, NewCM, Idle, NoWatch, Reason
<1>2. Guest = "Off" /\ View = "found"
  BY <1>1 DEF Init, Guest, Booted, Dead, View
<1> QED
  BY <1>1, <1>2 DEF C!ContractInit

\* A version that may be recorded.
LEMMA AsObserve ==
    ASSUME TypeOK, HostagentInv, ContractInv, call.pc \in {"template", "record"},
           disk = call.cm.data, ~call.vm.needed,
           PatchGoto([vm EXCEPT !.observed = call.cm.rv], "running"),
           UNCHANGED <<cm, watch, disk, processes>>
    PROVE  C!Remember /\ C!VMStep
<1>1. /\ call.cm.rv \in Nat /\ vm.observed \in Nat /\ cm.rv \in Nat
      /\ vm \in VMObject /\ UNCHANGED ha /\ call.pc # "idle"
  BY DEF TypeOK, Call, ConfigMap, VMObject, processes
<1>2. /\ vm' = [vm EXCEPT !.observed = call.cm.rv]
      /\ call'.pc = "running" /\ call'.vm = vm'
  BY GoesOn DEF PatchGoto, Write, Steps
<1>3. /\ vm'.cond = vm.cond /\ vm'.running = vm.running
      /\ vm'.observed = call.cm.rv
  BY <1>1, <1>2, VMFields
<1>4. ViewStep
  BY <1>1, <1>2, ViewCalm DEF ContractInv, Calm
<1>5. /\ vm.observed < call.cm.rv /\ call.cm.rv <= cm.rv
      /\ call.cm.rv = cm.rv => disk = cm.data
      /\ ~vm.needed
  BY <1>1 DEF ContractInv, CallInv, CopyInv
<1>6. vm'.observed \in (vm.observed + 1)..cm.rv
  BY <1>1, <1>3, <1>5
<1>7. View' = "watched" => Guest \in {"Off", disk}
  <2>1. Known => \A p \in Booted : ha[p].tmpl = disk
    BY <1>5 DEF ContractInv, WatchInv, Booted
  <2>2. View = "watched" => Known \/ Booted = {}
    BY WatchedGuest DEF ContractInv
  <2>3. View' = "watched" => View = "watched"
    BY <1>1, <1>2 DEF View
  <2>4. Booted = {} => Guest = "Off"
    BY DEF Guest
  <2> QED
    BY <2>1, <2>2, <2>3, <2>4, GuestIs
<1>8. Guest' = Guest /\ Reason' = Reason
  BY <1>1, <1>3 DEF Guest, Booted, Reason
<1>9. C!Observe
  BY <1>3, <1>5, <1>6, <1>7, <1>8 DEF C!Observe
<1> QED
  BY <1>1, <1>2, <1>3, <1>4, <1>9, AsRemember DEF C!VMStep

\* Step by step: the template,
LEMMA TemplateImplements ==
    ASSUME TypeOK, HostagentInv, ContractInv, TemplateStep
    PROVE  C!Remember /\ C!VMStep
<1>0. /\ call.pc \in {"template", "write", "record"} /\ call.pc # "idle"
      /\ UNCHANGED <<cm, watch, ha>> /\ Calm /\ vm \in VMObject
      /\ call.vm \in VMObject
  BY DEF TemplateStep, SameTemplate, NewTemplate, WriteTemplate, RecordTemplate,
         api, processes, TypeOK, Call, Calm
<1>1. CASE SameTemplate
  <2>1. CASE Goto("running") /\ NoWrite
    <3>1. /\ call'.pc = "running" /\ call'.vm = call.vm /\ UNCHANGED <<vm, disk>>
      BY <1>0, <1>1, <2>1, GoesOn DEF Steps, NoWrite, SameTemplate
    <3>2. ViewStep
      BY <1>0, <3>1, ViewCalm DEF ContractInv
    <3> QED
      BY <1>0, <3>1, <3>2, AsRemember, AsQuiet DEF Booted
  <2>2. CASE /\ ~call.vm.needed
             /\ PatchGoto([vm EXCEPT !.observed = call.cm.rv], "running")
    BY <1>1, <2>2, AsObserve DEF SameTemplate
  <2>3. CASE ReturnErr /\ NoWrite
    <3>1. call'.pc = "idle" /\ UNCHANGED <<vm, disk>>
      BY <1>0, <1>1, <2>3, NextPC DEF SameTemplate, NoWrite
    <3>2. ViewStep
      BY <1>0, <3>1, ViewCalm DEF ContractInv
    <3> QED
      BY <1>0, <3>1, <3>2, AsRemember, AsQuiet DEF Booted
  <2> QED
    BY <1>1, <2>1, <2>2, <2>3 DEF SameTemplate
<1>2. CASE NewTemplate
  <2>1. call'.pc = "write" /\ UNCHANGED disk
    BY <1>0, <1>2, NextPC DEF NewTemplate, Steps
  <2>2. /\ vm'.running = vm.running /\ vm'.cond = vm.cond
        /\ vm'.observed = vm.observed
        /\ call'.vm = call.vm \/ call'.vm.running = vm.running
    <3>1. CASE PatchGoto([vm EXCEPT !.needed = TRUE], "write")
      <4>1. vm' = [vm EXCEPT !.needed = TRUE] /\ call'.vm = vm'
        BY <3>1, GoesOn DEF PatchGoto, Write, Steps
      <4> QED
        BY <1>0, <4>1, VMFields
    <3>2. CASE Goto("write") /\ NoWrite
      BY <3>2, GoesOn DEF NoWrite, Steps
    <3> QED
      BY <1>2, <3>1, <3>2 DEF NewTemplate
  <2>3. ViewStep
    BY <1>0, <2>1, ViewCalm DEF ContractInv
  <2> QED
    BY <1>0, <2>1, <2>2, <2>3, AsRemember, AsQuiet DEF Booted
<1>3. CASE WriteTemplate
  <2>1. /\ call.pc = "write" /\ disk' = call.cm.data /\ UNCHANGED vm
        /\ call'.pc \in {"running", "record"} /\ call'.vm = call.vm
    BY <1>3, GoesOn DEF WriteTemplate, Steps, api
  <2>2. vm.observed < cm.rv /\ ViewStep
    <3>1. ViewStep
      BY <1>0, <2>1, ViewCalm DEF ContractInv
    <3> QED
      BY <1>0, <2>1, <3>1 DEF ContractInv, CallInv, CopyInv, TypeOK, Call, ConfigMap,
                              VMObject
  <2>3. vm.observed # cm.rv /\ disk' \in Templates
    BY <2>1, <2>2 DEF TypeOK, Call, ConfigMap, VMObject
  <2>4. Guest' = Guest /\ Reason' = Reason
    BY <1>0, <2>1 DEF Guest, Booted, Reason
  <2>5. C!WriteDisk
    BY <1>0, <2>1, <2>3, <2>4 DEF C!WriteDisk
  <2> QED
    BY <1>0, <2>1, <2>2, <2>5, AsRemember DEF C!VMStep
<1>4. CASE RecordTemplate
  BY <1>4, AsObserve DEF RecordTemplate, ContractInv, CallInv
<1> QED
  BY <1>1, <1>2, <1>3, <1>4 DEF TemplateStep

\* A call that returns with a condition.
LEMMA ReportImplements ==
    ASSUME TypeOK, HostagentInv, ContractInv, call.pc # "idle", call'.pc = "idle",
           UNCHANGED <<cm, disk, ha>>, watch'.phase = "Unknown" \/ UNCHANGED watch,
           NEW r \in Conds, Write([vm EXCEPT !.cond = r]), r # "Started",
           r = "Starting" => vm.cond = "Starting",
           r = "Stopped" => Booted = {} \/ View = "lost"
    PROVE  C!Remember /\ C!VMStep
<1>1. /\ vm'.cond = r /\ vm'.running = vm.running /\ vm'.observed = vm.observed
  BY VMFields DEF TypeOK, Write
<1>2. ViewStep
  BY ViewCalm DEF ContractInv, Calm
<1>3. C!VMStep
  BY <1>1, AsReport
<1> QED
  BY <1>2, <1>3, AsRemember

\* A call that goes on, or returns, without a status write.
LEMMA MoveImplements ==
    ASSUME TypeOK, HostagentInv, ContractInv, call.pc # "idle", call'.pc # "pid",
           UNCHANGED <<cm, disk>>, Calm, NoWrite,
           watch'.phase = "Unknown" \/ UNCHANGED watch,
           call'.pc = "idle" \/ call'.vm = call.vm
    PROVE  C!Remember /\ C!VMStep
<1>1. ViewStep
  BY ViewCalm DEF ContractInv
<1>2. \A p \in Booted' : p \in Booted /\ ha'[p].tmpl = ha[p].tmpl
  BY DEF Calm, Booted
<1>3. C!VMStep
  BY <1>2, AsQuiet DEF NoWrite
<1> QED
  BY <1>1, <1>3, AsRemember

\* the running state,
LEMMA RunningImplements ==
    ASSUME TypeOK, HostagentInv, ContractInv, RunningStep
    PROVE  C!Remember /\ C!VMStep
<1>0. /\ call.pc = "running" /\ call.pc # "idle"
      /\ UNCHANGED <<cm, disk, ha>> /\ Calm
      /\ \A p \in Pids : p # NoPid
  BY DEF RunningStep, ResetCondition, HandleRestartNeeded, WatchedStarting,
         WatchedRunning, WatchedCrashed, WatchedUnwanted, WatchedStopped,
         Unwatched, Watched, api, processes, Calm
<1>1. ASSUME NEW r \in Conds, SetCond(r)
      PROVE  Write([vm EXCEPT !.cond = r]) /\ call'.pc = "idle"
  BY <1>0, <1>1, OneCond, NextPC DEF ContractInv, SetCond, PatchReturn
<1>2. CASE ResetCondition
  BY <1>0, <1>1, <1>2, ReportImplements DEF ResetCondition, Conds
<1>3. CASE HandleRestartNeeded
  <2>1. UNCHANGED watch
    BY <1>3 DEF HandleRestartNeeded
  <2>2. CASE (Shutdown("restart") \/ Return) /\ NoWrite
    BY <1>0, <2>1, <2>2, GoesOn, NextPC, MoveImplements
  <2>3. CASE PatchReturn([vm EXCEPT !.needed = FALSE])
    <3>1. vm' = [vm EXCEPT !.needed = FALSE] /\ call'.pc = "idle"
      BY <2>3, NextPC DEF PatchReturn, Write
    <3>2. vm'.cond = vm.cond /\ vm'.observed = vm.observed /\ vm'.running = vm.running
      BY <3>1, VMFields DEF TypeOK
    <3>3. ViewStep
      BY <1>0, <2>1, <3>1, ViewCalm DEF ContractInv
    <3> QED
      BY <1>0, <3>1, <3>2, <3>3, AsRemember, AsReport
  <2> QED
    BY <1>3, <2>2, <2>3 DEF HandleRestartNeeded
<1>4. CASE WatchedStarting
  <2>1. vm.cond = "Starting" /\ UNCHANGED watch
    BY <1>4 DEF WatchedStarting, ContractInv, WatchInv
  <2> QED
    BY <1>0, <1>1, <1>4, <2>1, ReportImplements DEF WatchedStarting, Conds
<1>5. CASE WatchedRunning
  <2>1. watch.phase = "Running" /\ UNCHANGED watch /\ call.vm.running
    BY <1>5 DEF WatchedRunning
  <2>2. CASE Return /\ NoWrite
    BY <1>0, <2>1, <2>2, NextPC, MoveImplements
  <2>3. CASE /\ call.vm.cond # "Started"
             /\ PatchReturn([vm EXCEPT !.cond = "Started", !.count = call.vm.count + 1])
    <3> DEFINE new == [vm EXCEPT !.cond = "Started", !.count = call.vm.count + 1]
    <3>1. vm' = new /\ call'.pc = "idle"
      BY <2>3, NextPC DEF PatchReturn, Write
    <3>2. call.vm.count + 1 \in Nat
      BY DEF TypeOK, Call, VMObject
    <3>3. /\ vm'.cond = "Started" /\ vm'.running = vm.running
          /\ vm'.observed = vm.observed
      BY <3>1, <3>2, VMFields DEF TypeOK
    <3>4. vm.cond = "Starting"
      BY <1>0, <2>1, <2>3 DEF ContractInv, CopyInv, WatchInv
    <3>5. ViewStep
      BY <1>0, <2>1, <3>1, ViewCalm DEF ContractInv
    <3>6. C!VMStep
      BY <1>0, <2>1, <3>3, <3>4, AsReport
    <3> QED
      BY <3>1, <3>5, <3>6, AsRemember
  <2> QED
    BY <1>5, <2>2, <2>3 DEF WatchedRunning
<1>6. CASE WatchedCrashed
  <2>1. call'.pc = "inspect" /\ call'.vm = call.vm /\ watch'.phase = "Unknown" /\ NoWrite
    BY <1>6, GoesOn DEF WatchedCrashed, Steps, NoWatch, NoWrite, api
  <2> QED
    BY <1>0, <2>1, MoveImplements
<1>7. CASE WatchedUnwanted
  <2>1. /\ call'.pc \in {"wait", "force"} /\ call'.vm = call.vm
        /\ UNCHANGED watch /\ NoWrite
    BY <1>7, GoesOn DEF WatchedUnwanted, NoWrite, api
  <2> QED
    BY <1>0, <2>1, MoveImplements
<1>8. CASE WatchedStopped
  <2>1. Booted = {} \/ View = "lost"
    BY <1>0, <1>8 DEF WatchedStopped, ContractInv, WatchInv, Booted, Alive, View
  <2> QED
    BY <1>0, <1>1, <1>8, <2>1, ReportImplements DEF WatchedStopped, NoWatch, Conds
<1>9. CASE Unwatched
  <2>1. UNCHANGED watch
    BY <1>9 DEF Unwatched
  <2>2. CASE call' = [call EXCEPT !.pc = "orphan", !.inst = Seen] /\ NoWrite
    <3>1. call'.pc = "orphan" /\ call'.vm = call.vm
      BY <2>2 DEF TypeOK, Call
    <3> QED
      BY <1>0, <2>1, <2>2, <3>1, MoveImplements
  <2>3. CASE Goto("start") /\ NoWrite
    <3>1. call'.pc = "start" /\ call'.vm = call.vm
      BY <2>3, GoesOn DEF Steps
    <3> QED
      BY <1>0, <2>1, <2>3, <3>1, MoveImplements
  <2>4. CASE InstStatus = "Stopped" /\ SetCond("Stopped")
    <3>1. Booted = {}
      BY <1>0, <2>4, StoppedMeansNone DEF Booted, Alive
    <3> QED
      BY <1>0, <1>1, <2>1, <2>4, <3>1, ReportImplements DEF Conds
  <2> QED
    BY <1>9, <2>2, <2>3, <2>4 DEF Unwatched
<1> QED
  BY <1>2, <1>3, <1>4, <1>5, <1>6, <1>7, <1>8, <1>9 DEF RunningStep

\* the start,
LEMMA StartImplements ==
    ASSUME TypeOK, HostagentInv, ContractInv, StartStep
    PROVE  C!Remember /\ C!VMStep
<1>0. /\ call.pc \in {"inspect", "start", "spawn", "pid"} /\ call.pc # "idle"
      /\ watch.phase = "Unknown"
      /\ UNCHANGED <<cm, disk>>
      /\ \A p \in Pids : p # NoPid
  BY DEF StartStep, CleanBeforeStart, StartInstance, SpawnHostagent, StartFails,
         StartWatcher, PIDFileTimeout, api, ContractInv, CallInv
<1>1. CASE CleanBeforeStart
  <2>1. /\ call'.pc = "start" /\ call'.vm = call.vm /\ NoWrite /\ UNCHANGED watch
    BY <1>1, GoesOn DEF CleanBeforeStart, Steps, api, NoWrite
  <2>2. Calm
    <3>1. CASE UNCHANGED ha
      BY <3>1 DEF Calm
    <3> QED
      BY <1>1, <3>1, SeenType, KillCalm DEF CleanBeforeStart
  <2> QED
    BY <1>0, <2>1, <2>2, MoveImplements
<1>2. CASE StartInstance
  <2> DEFINE new == [vm EXCEPT !.cond = "Starting"]
  <2>1. PatchGoto(new, "spawn") /\ UNCHANGED <<watch, ha>> /\ call.pc = "start"
    BY <1>0, <1>2, OneCond DEF StartInstance, ContractInv, Conds, processes
  <2>2. call'.pc = "spawn" /\ call'.vm = new /\ vm' = new
    BY <2>1, GoesOn DEF Steps, PatchGoto, Write
  <2>3. /\ new.cond = "Starting" /\ new.observed = vm.observed
        /\ new.running = vm.running
    BY VMFields DEF TypeOK, Conds
  <2>4. call.vm.running /\ Booted = {}
    BY <1>0, <2>1 DEF ContractInv, CallInv, HostagentInv, Booted, Alive
  <2>5. ViewStep
    BY <1>0, <2>1, <2>2, ViewCalm DEF ContractInv, Calm
  <2>6. C!VMStep
    BY <1>0, <2>1, <2>2, <2>3, <2>4, AsReport
  <2> QED
    BY <2>2, <2>3, <2>5, <2>6, AsRemember
<1>3. CASE SpawnHostagent
  <2>1. PICK c \in Pids :
          /\ ha' = [ha EXCEPT ![c] = [Dead EXCEPT !.st = "spawned"]]
          /\ call' = [call EXCEPT !.pc = "pid", !.child = c]
    BY <1>3 DEF SpawnHostagent
  <2>2. /\ call'.pc = "pid" /\ call'.vm = call.vm /\ UNCHANGED vm /\ call.pc = "spawn"
    BY <1>3, <2>1 DEF SpawnHostagent, TypeOK, Call, api
  <2>3. \A p \in Pids : ~Alive(p)
    BY <2>2 DEF HostagentInv
  <2>4. \A p \in Pids : ha'[p].st \in {"dead", "spawned"}
    BY <1>0, <2>1, <2>3 DEF TypeOK, Hostagent, Dead, Alive
  <2>5. Booted = {} /\ Booted' = {}
    BY <1>0, <2>3, <2>4 DEF Booted, Alive
  <2>6. C!VMStep
    BY <1>0, <2>2, <2>5, AsQuiet
  <2>7. UNCHANGED watch
    BY <1>3 DEF SpawnHostagent
  <2>8. ViewStep
    BY <1>0, <2>2, <2>5, <2>7 DEF ViewStep, View, Guest
  <2> QED
    BY <1>0, <2>2, <2>6, <2>8, AsRemember
<1>4. CASE StartFails \/ PIDFileTimeout
  <2>1. call'.pc = "idle" /\ UNCHANGED <<watch, ha>>
    BY <1>4, NextPC DEF StartFails, PIDFileTimeout, processes
  <2>2. Write([vm EXCEPT !.cond = "StartFailed"])
    BY <1>0, <1>4, OneCond DEF StartFails, PIDFileTimeout, ContractInv, Conds
  <2> QED
    BY <1>0, <2>1, <2>2, ReportImplements DEF Conds
<1>5. CASE StartWatcher
  <2>1. call.pc = "pid" /\ call'.pc = "idle" /\ UNCHANGED <<vm, ha>>
    BY <1>5, NextPC DEF StartWatcher, api, processes
  <2>2. C!VMStep
    BY <1>0, <2>1, AsQuiet DEF Booted
  <2>3. ViewStep
    BY <1>0, <1>5, <2>1 DEF StartWatcher, ViewStep, View
  <2> QED
    BY <2>1, <2>2, <2>3, AsRemember
<1> QED
  BY <1>1, <1>2, <1>3, <1>4, <1>5 DEF StartStep

\* the stop,
LEMMA StopImplements ==
    ASSUME TypeOK, HostagentInv, ContractInv, StopStep \/ ReconcileError
    PROVE  C!Remember /\ C!VMStep
<1>0. /\ call.pc # "idle" /\ UNCHANGED <<cm, disk>>
      /\ call.inst \in Instance /\ Seen \in Instance
      /\ \A p \in Pids : p # NoPid
  BY SeenType DEF StopStep, ProcessExited, GraceExpired, ForceStop, FinishStop,
         FinishRestart, KillOrphan, ReconcileError, api, TypeOK, Call
<1>1. CASE ProcessExited \/ GraceExpired
  <2>1. /\ call'.pc \in {"finish", "force"} /\ UNCHANGED <<watch, ha>>
        /\ call'.vm = call.vm /\ NoWrite
    BY <1>1, GoesOn DEF ProcessExited, GraceExpired, Steps, api, processes, NoWrite
  <2> QED
    BY <1>0, <2>1, MoveImplements DEF Calm
<1>2. CASE ForceStop
  <2>1. /\ call'.pc = "finish" /\ UNCHANGED watch /\ call'.vm = call.vm /\ NoWrite
    BY <1>2, GoesOn DEF ForceStop, Steps, api, NoWrite
  <2>2. PICK i \in Instance : StopForcibly(i)
    BY <1>0, <1>2 DEF ForceStop
  <2> QED
    BY <1>0, <2>1, <2>2, KillCalm, MoveImplements
<1>3. CASE FinishStop
  <2>1. call.pc = "finish" /\ call'.pc = "idle" /\ watch'.phase = "Unknown" /\ UNCHANGED ha
    BY <1>3 DEF FinishStop, Idle, StopWatcher, NoWatch
  <2>2. Booted = {}
    BY <1>0, <2>1 DEF ContractInv, CallInv, Booted, Alive
  <2>3. PICK r \in {"Stopped", "StopFailed"} : Write([vm EXCEPT !.cond = r])
    <3>1. PICK r \in {"Stopped", "StopFailed"} : \E new \in WithMessage(r) : Write(new)
      BY <1>3 DEF FinishStop
    <3> QED
      BY <1>0, <3>1, OneCond DEF ContractInv, Conds
  <2> QED
    BY <1>0, <2>1, <2>2, <2>3, ReportImplements DEF Conds
<1>4. CASE FinishRestart
  <2>1. call.pc = "finish" /\ call'.pc = "idle" /\ watch'.phase = "Unknown" /\ UNCHANGED ha
    BY <1>4 DEF FinishRestart, Idle, StopWatcher, NoWatch, processes
  <2>2. Booted = {}
    BY <1>0, <2>1 DEF ContractInv, CallInv, Booted, Alive
  <2>3. vm' = [[vm EXCEPT !.cond = "Stopped"] EXCEPT !.needed = FALSE]
    <3>1. WithMessage("Stopped") = {[vm EXCEPT !.cond = "Stopped"]}
      BY <1>0, OneCond DEF ContractInv, Conds
    <3>2. \E new \in WithMessage("Stopped") : vm' = [new EXCEPT !.needed = FALSE]
      BY <1>4 DEF FinishRestart, Write
    <3> QED
      BY <3>1, <3>2
  <2>4. [vm EXCEPT !.cond = "Stopped"] \in VMObject
    BY PatchType DEF TypeOK, VMObject, Conds
  <2>5. /\ vm'.cond = [vm EXCEPT !.cond = "Stopped"].cond
        /\ vm'.running = [vm EXCEPT !.cond = "Stopped"].running
        /\ vm'.observed = [vm EXCEPT !.cond = "Stopped"].observed
    BY <2>3, <2>4, VMFields
  <2>6. vm'.cond = "Stopped" /\ vm'.running = vm.running /\ vm'.observed = vm.observed
    BY <2>5, VMFields DEF TypeOK, Conds
  <2>7. C!VMStep
    BY <1>0, <2>1, <2>2, <2>6, AsReport
  <2>8. ViewStep
    BY <2>1, ViewCalm DEF ContractInv, Calm
  <2> QED
    BY <2>1, <2>7, <2>8, AsRemember
<1>5. CASE KillOrphan
  <2>1. call'.pc = "idle" /\ UNCHANGED watch /\ NoWrite
    BY <1>5, NextPC DEF KillOrphan, api, NoWrite
  <2>2. Calm
    <3>1. CASE UNCHANGED ha
      BY <3>1 DEF Calm
    <3> QED
      BY <1>0, <1>5, <3>1, KillCalm DEF KillOrphan, processes
  <2> QED
    BY <1>0, <2>1, <2>2, MoveImplements
<1>6. CASE ReconcileError
  <2>1. /\ call'.pc = "idle" /\ NoWrite /\ Calm
        /\ watch'.phase = "Unknown" \/ UNCHANGED watch
    BY <1>6, NextPC DEF ReconcileError, api, processes, NoWrite, NoWatch, Calm
  <2> QED
    BY <1>0, <2>1, MoveImplements
<1> QED
  BY <1>1, <1>2, <1>3, <1>4, <1>5, <1>6 DEF StopStep

\* the beginning of a call,
LEMMA ReconcileImplements ==
    ASSUME TypeOK, HostagentInv, ContractInv, ~Lagging,
           Reconcile \/ HandleRestartAnnotation
    PROVE  C!Remember /\ C!VMStep
<1>0. /\ call.pc = "idle" /\ pending = {} /\ UNCHANGED <<cm, watch, disk, ha>>
  BY DEF Reconcile, HandleRestartAnnotation, Requested, api, caches, processes
<1>1. CASE Reconcile
  <2>1. call' = [Idle EXCEPT
                      !.pc = IF cmCache.rv # vmCache.observed
                             THEN "template" ELSE "running",
                      !.vm = vmCache, !.cm = cmCache] /\ UNCHANGED vm
    BY <1>1 DEF Reconcile, api
  <2>2. call'.pc \in {"template", "running"} /\ call'.vm = vm
    BY <1>0, <2>1 DEF Idle, ContractInv, ViewInv
  <2>3. ViewStep
    BY <1>0, <2>2, ViewCalm DEF ContractInv, Calm
  <2>4. C!VMStep
    BY <1>0, <2>1, AsReport
  <2> QED
    BY <2>2, <2>3, <2>4, AsRemember
<1>2. CASE HandleRestartAnnotation
  <2>1. /\ UNCHANGED call /\ vm'.cond = vm.cond /\ vm'.running = vm.running
        /\ vm'.observed = vm.observed
    <3>1. vm \in VMObject
      BY DEF TypeOK
    <3>2. vm' \in {[vm EXCEPT !.restart = FALSE], [vm EXCEPT !.needed = TRUE]}
      BY <1>2 DEF HandleRestartAnnotation, Write
    <3>3. CASE vm' = [vm EXCEPT !.restart = FALSE]
      BY <1>2, <3>1, <3>3, VMFields DEF HandleRestartAnnotation
    <3>4. CASE vm' = [vm EXCEPT !.needed = TRUE]
      BY <1>2, <3>1, <3>4, VMFields DEF HandleRestartAnnotation
    <3> QED
      BY <3>2, <3>3, <3>4
  <2>2. C!VMStep
    BY <1>0, <2>1, AsReport
  <2>3. ViewStep
    BY <1>0, <2>1, ViewCalm DEF ContractInv, Calm
  <2> QED
    BY <1>0, <2>1, <2>2, <2>3, AsRemember
<1> QED
  BY <1>1, <1>2

\* the hostagents,
LEMMA HostagentImplements ==
    ASSUME TypeOK, HostagentInv, ContractInv, HostagentInv', TypeOK', NEW p \in Pids,
           HostagentStep(p) \/ PowerOff(p) \/ HostagentCrash(p)
    PROVE  C!Remember /\ C!VMStep
<1>0. /\ UNCHANGED <<vm, cm, call, watch, disk>> /\ ha \in [Pids -> Hostagent]
      /\ p # NoPid
  BY DEF HostagentStep, CheckPIDFile, WritePIDFile, Boot, EmitRunning,
         EmitExiting, Exit, PowerOff, HostagentCrash, api, caches, TypeOK
<1>1. \A q \in Pids \ {p} : ha'[q] = ha[q]
  BY <1>0 DEF HostagentStep, CheckPIDFile, WritePIDFile, Boot, EmitRunning,
              EmitExiting, Exit, PowerOff, HostagentCrash, Alive
<1>2. C!Remember
  <2>1. \A q \in Pids :
          /\ Alive(q)' => Alive(q)
          /\ ha[q].st \in {"dead", "exiting"} => ha'[q].st \in {"dead", "exiting"}
    <3>1. Alive(p)
      BY <1>0 DEF HostagentStep, CheckPIDFile, WritePIDFile, Boot, EmitRunning,
                  EmitExiting, Exit, PowerOff, HostagentCrash, Alive
    <3>2. ha[p].st = "exiting" => ha'[p].st \in {"dead", "exiting"}
      BY <1>0 DEF HostagentStep, CheckPIDFile, WritePIDFile, Boot, EmitRunning,
                  EmitExiting, Exit, PowerOff, HostagentCrash, Hostagent
    <3> QED
      BY <1>1, <3>1, <3>2 DEF Alive
  <2>2. ViewStep
    BY <1>0, <2>1, ViewStays DEF ContractInv
  <2> QED
    BY <1>0, <2>2, AsRemember
<1>3. CASE Boot(p) /\ ha' = [ha EXCEPT ![p].st = "booting", ![p].tmpl = disk]
  <2>1. ha[p].st = "owner" /\ ha'[p].st = "booting" /\ ha'[p].tmpl = disk
    BY <1>0, <1>3 DEF Boot, Hostagent
  <2>2. Booted = {}
    BY <2>1 DEF HostagentInv, Booted, Owner
  <2>3. Booted' = {p}
    BY <1>1, <2>1, <2>2 DEF Booted
  <2>4. Guest = "Off" /\ Guest' = disk
    BY <2>1, <2>2, <2>3, OnlyOne DEF Guest
  <2>5. View = "watched" => vm.cond = "Starting"
    <3>1. Alive(p) /\ ~ha[p].ran
      BY <1>0, <2>1 DEF Alive, ContractInv, WatchInv
    <3>2. watch.phase # "Running" /\ (watch.phase = "Stopped" => View = "lost")
      BY <2>1, <3>1 DEF ContractInv, WatchInv, View
    <3>3. View = "watched" => watch.phase = "Starting" \/ call.pc = "pid"
      BY <3>2 DEF View, TypeOK, Phases
    <3> QED
      BY <3>3 DEF ContractInv, WatchInv, CallInv, SpawnVisible
  <2>6. (View = "watched" => Reason = "Starting") /\ Reason' = Reason
    BY <1>0, <2>5 DEF Reason
  <2>7. C!Boot
    BY <1>0, <2>4, <2>6 DEF C!Boot
  <2> QED
    BY <1>2, <2>7 DEF C!VMStep
<1>4. CASE ~(Boot(p) /\ ha' = [ha EXCEPT ![p].st = "booting", ![p].tmpl = disk])
  <2>1. ha'[p].tmpl = ha[p].tmpl /\ (p \in Booted' => p \in Booted)
    BY <1>0, <1>4 DEF HostagentStep, CheckPIDFile, WritePIDFile, Boot, EmitRunning,
         EmitExiting, Exit, PowerOff, HostagentCrash, Hostagent, Booted
  <2>2. \A q \in Booted' : q \in Booted /\ ha'[q].tmpl = ha[q].tmpl
    BY <1>1, <2>1 DEF Booted
  <2> QED
    BY <1>0, <1>2, <2>2, AsQuiet
<1> QED
  BY <1>3, <1>4

\* and the rest.
LEMMA EnvironmentImplements ==
    ASSUME TypeOK, HostagentInv, ContractInv,
           \/ SyncVM \/ SyncCM \/ WatcherStep \/ WatchFails
           \/ ControlPlaneCrash \/ UserStep
    PROVE  C!ContractNext
<1>a. UNCHANGED <<disk, ha>>
  BY DEF SyncVM, SyncCM, WatcherStep, WatchRunning, WatchStopped, WatchFails, ControlPlaneCrash,
         UserStep, SetRunning, RequestRestart, EditTemplate, processes
<1>0. UNCHANGED <<disk, ha>> /\ Guest' = Guest
  BY <1>a DEF Guest, Booted
<1>1. C!Remember
  <2>1. UNCHANGED call \/ call'.pc = "idle"
    BY DEF SyncVM, SyncCM, WatcherStep, WatchRunning, WatchStopped, WatchFails,
           ControlPlaneCrash, UserStep, SetRunning, RequestRestart, EditTemplate, Idle
  <2>2. CASE WatcherStep \/ WatchFails
    <3>1. /\ watch.phase \in {"Starting", "Running"}
          /\ watch'.phase \in {"Running", "Stopped"}
      BY <2>2 DEF WatcherStep, WatchRunning, WatchStopped, WatchFails, TypeOK
    <3>2. View = "watched" /\ View' \in {"watched", "lost"}
      BY <3>1 DEF View
    <3> QED
      BY <2>1, <3>2, AsRemember DEF ViewStep
  <2>3. CASE ControlPlaneCrash
    <3>1. View' = "found"
      BY <2>3 DEF ControlPlaneCrash, Idle, NoWatch, View
    <3> QED
      BY <2>1, <3>1, AsRemember DEF ViewStep
  <2>4. CASE SyncVM \/ SyncCM \/ UserStep
    <3>1. UNCHANGED <<watch, call>>
      BY <2>4 DEF SyncVM, SyncCM, UserStep, SetRunning, RequestRestart, EditTemplate
    <3>2. View' = View
      BY <1>a, <3>1 DEF View
    <3> QED
      BY <2>1, <3>2, AsRemember DEF ViewStep
  <2> QED
    BY <2>2, <2>3, <2>4
<1>2. CASE SetRunning
  <2>1. /\ vm'.running = ~vm.running /\ vm'.cond = vm.cond
        /\ vm'.observed = vm.observed /\ UNCHANGED cm
    BY <1>2, VMFields DEF SetRunning, Write, TypeOK
  <2>2. C!SetRunning
    BY <1>0, <2>1 DEF C!SetRunning, Reason
  <2> QED
    BY <1>1, <2>2 DEF C!ContractNext
<1>3. CASE EditTemplate
  <2>1. C!EditTemplate
    BY <1>0, <1>3 DEF EditTemplate, C!EditTemplate, Reason
  <2> QED
    BY <1>1, <2>1 DEF C!ContractNext
<1>4. CASE \/ SyncVM \/ SyncCM \/ WatcherStep \/ WatchFails
           \/ ControlPlaneCrash \/ RequestRestart
  <2>1. /\ vm'.running = vm.running /\ vm'.cond = vm.cond
        /\ vm'.observed = vm.observed /\ UNCHANGED cm
    <3>1. CASE RequestRestart
      BY <3>1, VMFields DEF RequestRestart, Write, TypeOK
    <3> QED
      BY <1>4, <3>1 DEF SyncVM, SyncCM, WatcherStep, WatchRunning, WatchStopped,
                        WatchFails, ControlPlaneCrash, api
  <2>2. C!VMStep
    BY <1>0, <2>1, AsReport
  <2> QED
    BY <1>1, <2>2 DEF C!ContractNext
<1> QED
  BY <1>2, <1>3, <1>4 DEF UserStep

\* Every step maps to a step of the contract or a stutter.
LEMMA StepImplements ==
    ASSUME TypeOK, HostagentInv, ContractInv, TypeOK', HostagentInv', Prompt, [Next]_vars
    PROVE  [C!ContractNext]_(C!vmVars)
<1>1. CASE ReconcilerStep
  BY <1>1, ReconcileImplements, TemplateImplements, RunningImplements, StartImplements,
     StopImplements DEF ReconcilerStep, Prompt, C!ContractNext
<1>2. CASE \E p \in Pids : HostagentStep(p) \/ PowerOff(p) \/ HostagentCrash(p)
  BY <1>2, HostagentImplements DEF C!ContractNext
<1>3. CASE \/ SyncVM \/ SyncCM \/ WatcherStep \/ WatchFails
           \/ ControlPlaneCrash \/ UserStep
  BY <1>3, EnvironmentImplements
<1>4. CASE UNCHANGED vars
  BY <1>4 DEF vars, C!vmVars, Reason, Guest, Booted, View
<1> QED
  BY <1>1, <1>2, <1>3, <1>4 DEF Next

\* The invariant of the refinement, from the three parts.
LEMMA ContractInvariant ==
    ASSUME Prompt
    PROVE  Spec => [](TypeOK /\ HostagentInv /\ ContractInv)
<1>1. TypeOK /\ HostagentInv /\ [Next]_vars => HostagentInv'
  BY HostagentStepInv DEF Prompt
<1>2. TypeOK /\ HostagentInv /\ ContractInv /\ [Next]_vars => ContractInv'
  BY ContractStepInv
<1> QED
  BY <1>1, <1>2, HostagentInit, ContractInvInit, TypeCorrect, PTL DEF Spec

\* Every step of the reconciler, the hostagents and the users is a step that the
\* contract allows or one that its clients cannot see.
THEOREM ContractImplemented ==
    ASSUME Prompt
    PROVE  Spec => ImplementsContract
<1>1. /\ TypeOK /\ HostagentInv /\ ContractInv
      /\ (TypeOK /\ HostagentInv)' /\ [Next]_vars
      => [C!ContractNext]_(C!vmVars)
  BY StepImplements
<1> QED
  BY <1>1, ContractStarts, ContractInvariant, PTL
     DEF Spec, ImplementsContract, C!Contract

-----------------------------------------------------------------------------
(* What the invariant says besides. *)

\* What a step writes to the LimaVM object.
Written ==
    \/ /\ vm'.observed = vm.observed /\ vm'.count = vm.count
       /\ vm'.cond = vm.cond \/ vm'.cond # "Started"
    \/ /\ vm'.observed = vm.observed /\ vm'.count = vm.count + 1
       /\ vm.cond = "Starting" /\ vm'.cond = "Started"
    \/ /\ vm'.count = vm.count /\ vm'.cond = vm.cond
       /\ ~vm.needed

\* A condition other than Started, with or without a restart that is done.
LEMMA CondWritten ==
    ASSUME TypeOK, NEW r \in Conds \ {"Started"},
           \/ Write([vm EXCEPT !.cond = r])
           \/ Write([[vm EXCEPT !.cond = r] EXCEPT !.needed = FALSE])
    PROVE  Written
<1> DEFINE v == [vm EXCEPT !.cond = r]
<1>1. v.observed = vm.observed /\ v.count = vm.count /\ v.cond # "Started"
  BY VMFields DEF TypeOK
<1>2. v \in VMObject
  BY DEF TypeOK, VMObject
<1>3. CASE Write(v)
  BY <1>1, <1>3 DEF Write, Written
<1>4. CASE Write([v EXCEPT !.needed = FALSE])
  <2> HIDE DEF v
  <2>1. vm'.observed = v.observed /\ vm'.count = v.count /\ vm'.cond = v.cond
    BY <1>2, <1>4, VMFields DEF Write
  <2> QED
    BY <1>1, <2>1 DEF Written
<1> QED
  BY <1>3, <1>4

\* No write.
LEMMA SameWritten ==
    ASSUME UNCHANGED vm
    PROVE  Written
  BY DEF Written

\* The handlers of the template write the version only with no restart owed.
LEMMA TemplateWrites ==
    ASSUME TypeOK, ContractInv, TemplateStep
    PROVE  Written
<1>0. vm \in VMObject /\ call.cm.rv \in Nat
  BY DEF TypeOK, Call, ConfigMap
<1>1. CASE UNCHANGED vm
  BY <1>1, SameWritten
<1>2. CASE Write([vm EXCEPT !.needed = TRUE])
  BY <1>0, <1>2, VMFields DEF Write, Written
<1>3. CASE ~vm.needed /\ Write([vm EXCEPT !.observed = call.cm.rv])
  BY <1>0, <1>3, VMFields DEF Write, Written
<1>4. call.pc # "idle" /\ (call.pc = "record" => ~call.vm.needed)
  BY DEF TemplateStep, SameTemplate, NewTemplate, WriteTemplate, RecordTemplate,
         ContractInv, CallInv
<1>5. call.vm.needed = vm.needed
  BY <1>4 DEF ContractInv, CopyInv
<1> QED
  BY <1>1, <1>2, <1>3, <1>4, <1>5
     DEF TemplateStep, SameTemplate, NewTemplate, WriteTemplate, RecordTemplate,
         PatchGoto, NoWrite, api

\* WatchedRunning is the only one to write Started, and to count.
LEMMA RunningWrites ==
    ASSUME TypeOK, ContractInv, RunningStep
    PROVE  Written
<1>0. call.pc # "idle" /\ vm \in VMObject
  BY DEF RunningStep, ResetCondition, HandleRestartNeeded, WatchedStarting,
         WatchedRunning, WatchedCrashed, WatchedUnwanted, WatchedStopped,
         Unwatched, Watched, TypeOK
<1>1. ASSUME NEW r \in {"Reconciling", "Starting", "Stopped"}, SetCond(r)
      PROVE  Written
  <2>1. r \in Conds \ {"Started"}
    BY DEF Conds
  <2>2. Write([vm EXCEPT !.cond = r])
    BY <1>0, <1>1, <2>1, OneCond DEF ContractInv, SetCond, PatchReturn
  <2> QED
    BY <2>1, <2>2, CondWritten
<1>2. CASE HandleRestartNeeded
  <2>1. CASE PatchReturn([vm EXCEPT !.needed = FALSE])
    BY <1>0, <2>1, VMFields DEF PatchReturn, Write, Written
  <2> QED
    BY <1>2, <2>1, SameWritten DEF HandleRestartNeeded, NoWrite
<1>3. CASE WatchedRunning
  <2>1. CASE /\ call.vm.cond # "Started"
             /\ PatchReturn([vm EXCEPT !.cond = "Started", !.count = call.vm.count + 1])
    <3>1. vm.cond = "Starting" /\ call.vm.count = vm.count
      BY <1>0, <1>3, <2>1 DEF WatchedRunning, ContractInv, CopyInv, WatchInv
    <3>2. vm.count + 1 \in Nat
      BY <1>0 DEF VMObject
    <3> QED
      BY <1>0, <2>1, <3>1, <3>2, VMFields DEF PatchReturn, Write, Written
  <2> QED
    BY <1>3, <2>1, SameWritten DEF WatchedRunning, NoWrite
<1> QED
  BY <1>1, <1>2, <1>3, SameWritten
     DEF RunningStep, ResetCondition, WatchedStarting, WatchedCrashed,
         WatchedUnwanted, WatchedStopped, Unwatched, NoWrite, api

\* Starting and stopping write conditions other than Started.
LEMMA OtherWrites ==
    ASSUME TypeOK, ContractInv, StartStep \/ StopStep \/ ReconcileError
    PROVE  Written
<1>0. call.pc # "idle"
  BY DEF StartStep, CleanBeforeStart, StartInstance, SpawnHostagent, StartFails,
         StartWatcher, PIDFileTimeout, StopStep, ProcessExited, GraceExpired, ForceStop,
         FinishStop, FinishRestart, KillOrphan, ReconcileError
<1>1. ASSUME NEW r \in Conds, NEW new \in WithMessage(r)
      PROVE  new = [vm EXCEPT !.cond = r]
  BY <1>0, <1>1, OneCond DEF ContractInv
<1>2. CASE StartInstance
  <2>1. Write([vm EXCEPT !.cond = "Starting"])
    BY <1>0, <1>2, OneCond DEF StartInstance, PatchGoto, ContractInv, Conds
  <2> QED
    BY <2>1, CondWritten DEF Conds
<1>3. CASE StartFails \/ PIDFileTimeout
  <2>1. Write([vm EXCEPT !.cond = "StartFailed"])
    BY <1>1, <1>3 DEF StartFails, PIDFileTimeout, Conds
  <2> QED
    BY <2>1, CondWritten DEF Conds
<1>4. CASE FinishStop
  <2>1. \E r \in {"Stopped", "StopFailed"} : Write([vm EXCEPT !.cond = r])
    BY <1>1, <1>4 DEF FinishStop, Conds
  <2> QED
    BY <2>1, CondWritten DEF Conds
<1>5. CASE FinishRestart
  <2>1. Write([[vm EXCEPT !.cond = "Stopped"] EXCEPT !.needed = FALSE])
    BY <1>1, <1>5 DEF FinishRestart, Conds
  <2> QED
    BY <2>1, CondWritten DEF Conds
<1> QED
  BY <1>2, <1>3, <1>4, <1>5, SameWritten
     DEF StartStep, CleanBeforeStart, SpawnHostagent, StartWatcher, StopStep,
         ProcessExited, GraceExpired, ForceStop, KillOrphan, ReconcileError, api

\* No step writes anything else.
LEMMA StepWrites ==
    ASSUME TypeOK, ContractInv, [Next]_vars
    PROVE  Written
<1>0. vm \in VMObject
  BY DEF TypeOK
<1>1. CASE TemplateStep \/ RunningStep \/ StartStep \/ StopStep \/ ReconcileError
  BY <1>1, TemplateWrites, RunningWrites, OtherWrites
<1>2. CASE HandleRestartAnnotation
  <2>1. CASE vm' = [vm EXCEPT !.restart = FALSE]
    BY <1>0, <2>1, VMFields DEF Written
  <2>2. CASE vm' = [vm EXCEPT !.needed = TRUE]
    BY <1>0, <2>2, VMFields DEF Written
  <2> QED
    BY <1>2, <2>1, <2>2 DEF HandleRestartAnnotation, Write
<1>3. CASE SetRunning
  BY <1>0, <1>3, VMFields DEF SetRunning, Write, Written
<1>4. CASE RequestRestart
  BY <1>0, <1>4, VMFields DEF RequestRestart, Write, Written
<1>5. CASE \E p \in Pids : HostagentStep(p) \/ PowerOff(p) \/ HostagentCrash(p)
  BY <1>5, SameWritten DEF HostagentStep, CheckPIDFile, WritePIDFile, Boot,
     EmitRunning, EmitExiting, Exit, PowerOff, HostagentCrash, api
<1>6. CASE Reconcile \/ SyncVM \/ SyncCM \/ WatcherStep \/ WatchFails
           \/ ControlPlaneCrash \/ EditTemplate \/ UNCHANGED vars
  BY <1>6, SameWritten DEF Reconcile, SyncVM, SyncCM, WatcherStep, WatchRunning,
     WatchStopped, WatchFails, ControlPlaneCrash, EditTemplate, vars, api
<1> QED
  BY <1>1, <1>2, <1>3, <1>4, <1>5, <1>6 DEF Next, ReconcilerStep, UserStep

\* startInstance shows the start of a hostagent before there is a process: from
\* the invariant of the refinement.
THEOREM StartsShown ==
    ASSUME Prompt
    PROVE  Spec => []SpawnVisible
<1>1. ContractInv => SpawnVisible
  BY DEF ContractInv, CallInv
<1> QED
  BY <1>1, ContractInvariant, PTL

\* Every boot that is reported was announced, and is counted once.
THEOREM BootsRecorded ==
    ASSUME Prompt
    PROVE  Spec => BootRecorded
<1>1. TypeOK /\ ContractInv /\ [Next]_vars =>
        [IF vm'.cond = "Started" /\ vm.cond # "Started"
         THEN vm.cond = "Starting" /\ vm'.count = vm.count + 1
         ELSE vm'.count = vm.count]_vars
  BY StepWrites DEF Written
<1> QED
  BY <1>1, ContractInvariant, PTL DEF Spec, BootRecorded

\* The observed version waits for a restart that is owed.
THEOREM ObservedWaits ==
    ASSUME Prompt
    PROVE  Spec => ObservedAfterRestart
<1>1. TypeOK /\ ContractInv /\ [Next]_vars =>
        [vm'.observed # vm.observed => ~vm.needed]_vars
  BY StepWrites DEF Written
<1> QED
  BY <1>1, ContractInvariant, PTL DEF Spec, ObservedAfterRestart

-----------------------------------------------------------------------------
(* No wake-up is lost, however far the caches lag. What LagInv says is weaker *)
(* than ContractInv, and needs no ~Lagging.                                  *)

StartPath == {"inspect", "start", "spawn", "pid"}

\* What the copies may miss. They follow the ConfigMap in the order of its
\* versions, and none is behind the version that was recorded.
FollowInv ==
    /\ "vm" \notin pending => vmCache = vm
    /\ "cm" \notin pending => cmCache = cm
    /\ vm.observed <= cmCache.rv /\ cmCache.rv <= cm.rv
    /\ cmCache.rv = cm.rv => cmCache = cm
    /\ call.pc # "idle" =>
         /\ vm.observed <= call.cm.rv /\ call.cm.rv <= cmCache.rv
         /\ call.cm.rv = cm.rv => call.cm = cm

\* A copy that shows a restart as owed when it has been made is gone before
\* there is a hostagent again that the control plane watches.
NoGuest == watch.phase \in {"Unknown", "Stopped"}
OwedInv ==
    /\ vmCache.needed /\ ~vm.needed =>
         /\ NoGuest
         /\ call.pc \notin StartPath
         /\ call.pc # "idle" => call.vm.needed
    /\ call.pc # "idle" /\ call.vm.needed /\ ~vm.needed => NoGuest

\* The watcher knows the only hostagent; a guest that is known and does not run
\* what is in lima.yaml has a restart coming, and a recorded version is its own.
GuestInv ==
    /\ \A p \in Pids : Alive(p) /\ watch.phase # "Unknown" => watch.proc = p
    /\ \A p \in Pids : ha[p].st \in {"spawned", "checked", "owner", "booting"} => ~ha[p].ran
    /\ \A p \in Pids : ha[p].st = "running" => ha[p].ran
    /\ watch.phase # "Unknown" => watch.proc \in Pids
    /\ watch.phase = "Running" => ha[watch.proc].ran
    /\ Known => \A p \in Booted : ha[p].tmpl = disk \/ vm.needed
    /\ vm.observed = cm.rv =>
         disk = cm.data /\ (Known => \A p \in Booted : ha[p].tmpl = cm.data)

\* What a call has established on its way, and what its copies say there.
StageInv ==
    /\ call.pc = "write" => NoGuest \/ (vm.needed /\ call.vm.needed)
    /\ call.pc = "record" => disk = call.cm.data /\ NoGuest /\ ~call.vm.needed
    /\ call.pc = "running" => call.vm.needed \/ call.vm.observed = call.cm.rv
    /\ call.pc \in {"inspect", "start", "spawn", "pid", "orphan"} =>
         watch.phase = "Unknown"
    /\ call.pc = "wait" => watch.phase # "Unknown"
    /\ call.pc = "finish" => \A p \in Pids : ~Alive(p)
    /\ call.pc \in {"wait", "force", "finish"} =>
         IF call.why = "stop"
         THEN ~call.vm.running /\ ~call.vm.needed /\ call.vm.observed = call.cm.rv
         ELSE call.vm.needed

\* Where the reconciler may rest, and what it goes by while nothing has come.
Coming == queued \/ pending # {}
Kept == ~vm.restart /\ ~vm.needed /\ vm.observed = cm.rv
Resting ==
    \/ watch.phase = "Starting"
    \/ watch.phase = "Running" /\ vm.running /\ vm.cond = "Started" /\ Kept
    \/ /\ watch.phase = "Unknown" /\ ~vm.running /\ vm.cond = "Stopped" /\ Kept
       /\ \A p \in Pids : ha[p].st \in {"dead", "exiting"}
\* A watched hostagent was announced: a stop that is reported is a change.
Told == vm.cond \in {"Starting", "Started"}
ToldInv ==
    /\ watch.phase # "Unknown" => Told
    /\ call.pc \in {"inspect", "spawn", "pid"} => Told
    /\ call.pc = "start" => Told \/ call.vm.cond = "Reconciling"
RestInv ==
    \/ Coming
    \/ call.pc # "idle" /\ call.vm = vm /\ call.cm = cm /\ ~vm.restart
    \/ call.pc = "idle" /\ Resting

LagInv == FollowInv /\ OwedInv /\ GuestInv /\ StageInv

\* Steps that record no version; a call keeps its ConfigMap.
LEMMA FollowKept ==
    ASSUME FollowInv, UNCHANGED <<cm, vmCache, cmCache>>,
           NoWrite \/ \E new : Write(new), vm'.observed = vm.observed,
           call'.pc = "idle" \/ (call.pc # "idle" /\ call'.cm = call.cm)
    PROVE  FollowInv'
  BY DEF FollowInv, NoWrite, Write

\* The copies of the flag, where a call that patches it away is not starting.
LEMMA OwedKept ==
    ASSUME OwedInv, UNCHANGED vmCache,
           watch'.phase = watch.phase \/ watch'.phase = "Unknown",
           vm'.needed = vm.needed \/ vm'.needed,
           \/ call'.pc = "idle"
           \/ /\ call.pc # "idle"
              /\ \/ call'.vm = call.vm
                 \/ call'.vm = vm' /\ (~call.vm.needed \/ vm'.needed \/ call.pc \in StartPath)
              /\ call'.pc \in StartPath => call.pc \in StartPath \/ ~call.vm.needed
    PROVE  OwedInv'
<1>1. NoGuest => NoGuest'
  BY DEF NoGuest
<1>2. "idle" \notin StartPath
  BY DEF StartPath
<1> QED
  BY <1>1, <1>2 DEF OwedInv

\* Guests that stay as they are or end, under the same or no watcher.
LEMMA GuestStays ==
    ASSUME TypeOK, GuestInv, Calm, UNCHANGED <<cm, disk>>,
           vm'.observed = vm.observed,
           \/ UNCHANGED watch /\ (vm.needed => vm'.needed) /\ (Known' => Known)
           \/ UNCHANGED watch /\ NoGuest /\ call'.pc # "pid"
           \/ watch'.phase = "Unknown" /\ call'.pc # "pid"
    PROVE  GuestInv'
<1>1. \A p \in Pids : Alive(p)' => Alive(p)
  BY DEF Calm, Alive
<1>2. \A p \in Booted' : p \in Booted /\ ha'[p].tmpl = ha[p].tmpl
  BY DEF Calm, Booted
<1>3. /\ \A p \in Pids :
           ha'[p].st \in {"spawned", "checked", "owner", "booting"} => ~ha'[p].ran
      /\ \A p \in Pids : ha'[p].st = "running" => ha'[p].ran
  BY DEF GuestInv, Calm
<1>4. Known' => \A p \in Booted' : ha'[p].tmpl = disk' \/ vm'.needed
  <2>1. CASE (Known' => Known) /\ (vm.needed => vm'.needed)
    BY <1>2, <2>1 DEF GuestInv
  <2>2. CASE watch'.phase \in {"Unknown", "Stopped"} /\ call'.pc # "pid"
    BY <2>2 DEF Known
  <2> QED
    BY <2>1, <2>2 DEF NoGuest
<1>5. CASE UNCHANGED watch
  <2>1. Known' => Known
    BY <1>5 DEF NoGuest, Known
  <2>2. watch.phase = "Running" => ha'[watch.proc].ran
    BY DEF GuestInv, Calm
  <2> QED
    BY <1>1, <1>2, <1>3, <1>4, <1>5, <2>1, <2>2 DEF GuestInv
<1>6. CASE watch'.phase = "Unknown"
  BY <1>1, <1>2, <1>3, <1>4, <1>6 DEF GuestInv, Known
<1> QED
  BY <1>5, <1>6

\* A call that returns has nothing established.
LEMMA StageEnds == call'.pc = "idle" => StageInv'
  BY DEF StageInv

\* A call that returns.
LEMMA LagEnds ==
    ASSUME TypeOK, LagInv, call.pc # "idle", call'.pc = "idle", Calm,
           UNCHANGED <<cm, vmCache, cmCache, disk>>,
           NoWrite \/ \E new : Write(new), vm'.observed = vm.observed,
           \/ UNCHANGED watch /\ (vm'.needed = vm.needed \/ NoGuest)
           \/ watch'.phase = "Unknown"
    PROVE  LagInv'
<1>1. FollowInv'
  BY FollowKept DEF LagInv
<1>2. OwedInv'
  <2>1. CASE vm'.needed = vm.needed
    BY <2>1, OwedKept DEF LagInv
  <2>2. CASE NoGuest'
    BY <2>2 DEF OwedInv, StartPath
  <2> QED
    BY <2>1, <2>2 DEF NoGuest
<1>3. GuestInv'
  <2>1. UNCHANGED watch => (Known' => Known)
    BY DEF Known
  <2> QED
    BY <2>1, GuestStays DEF LagInv
<1> QED
  BY <1>1, <1>2, <1>3, StageEnds DEF LagInv

\* A call that goes on without a status write.
LEMMA LagMoves ==
    ASSUME TypeOK, LagInv, call.pc # "idle", call'.pc # "pid", Calm,
           UNCHANGED <<cm, vmCache, cmCache, disk>>, NoWrite,
           UNCHANGED watch \/ watch'.phase = "Unknown",
           call'.vm = call.vm, call'.cm = call.cm,
           call'.pc \in StartPath => call.pc \in StartPath \/ ~call.vm.needed,
           StageInv'
    PROVE  LagInv'
<1>0. UNCHANGED <<vm, pending>>
  BY DEF NoWrite
<1>1. FollowInv'
  BY <1>0, FollowKept DEF LagInv
<1>2. OwedInv'
  BY <1>0, OwedKept DEF LagInv
<1>3. GuestInv'
  <2>1. UNCHANGED watch => (Known' => Known)
    BY DEF Known
  <2> QED
    BY <1>0, <2>1, GuestStays DEF LagInv
<1> QED
  BY <1>1, <1>2, <1>3 DEF LagInv

\* What the patch of a condition leaves.
LEMMA CondFields ==
    ASSUME TypeOK, NEW r \in Conds, NEW new \in WithMessage(r)
    PROVE  /\ new \in VMObject
           /\ new.needed = vm.needed /\ new.observed = vm.observed
           /\ new.running = vm.running
           /\ new = vm => vm.cond = r \/ call.vm.cond = r
<1> DEFINE old == [vm EXCEPT !.cond = r]
<1>1. /\ vm \in VMObject /\ new \in VMObject
      /\ \/ new = vm /\ call.vm.cond = r
         \/ new = old
  BY PatchType DEF TypeOK, WithMessage, WithCond
<1>2. /\ old.cond = r /\ old.needed = vm.needed /\ old.observed = vm.observed
      /\ old.running = vm.running
  BY <1>1, VMFields
<1> HIDE DEF old
<1> QED
  BY <1>1, <1>2

\* A version is recorded for a lima.yaml that holds it, which every guest that is
\* known has booted from.
LEMMA RecordedLag ==
    ASSUME TypeOK, LagInv, call.pc \in {"template", "record"},
           disk = call.cm.data, ~call.vm.needed,
           Known => \A p \in Booted : ha[p].tmpl = disk,
           PatchGoto([vm EXCEPT !.observed = call.cm.rv], "running"),
           UNCHANGED <<cm, caches, watch, disk, processes>>
    PROVE  LagInv'
<1> DEFINE new == [vm EXCEPT !.observed = call.cm.rv]
<1>1. /\ call.cm.rv \in Nat /\ call.pc # "idle" /\ call.pc \notin StartPath
      /\ UNCHANGED <<cm, vmCache, cmCache, watch, disk, ha>>
      /\ Write(new)
  BY DEF TypeOK, Call, ConfigMap, caches, processes, PatchGoto, StartPath
<1>2. call'.pc = "running" /\ call'.vm = new /\ call'.cm = call.cm /\ vm' = new
  BY GoesOn DEF Steps, PatchGoto, Write
<1>3. vm'.needed = vm.needed /\ vm'.observed = call.cm.rv
  BY <1>1, <1>2, VMFields DEF TypeOK
<1>4. FollowInv'
  BY <1>1, <1>2, <1>3 DEF LagInv, FollowInv, Write
<1>5. OwedInv'
  BY <1>1, <1>2, <1>3, OwedKept DEF LagInv, StartPath
<1>6. Known' => Known
  BY <1>1, <1>2 DEF Known
<1>7. call.cm.rv = cm.rv => call.cm = cm
  BY <1>1 DEF LagInv, FollowInv
<1>8. GuestInv'
  BY <1>1, <1>3, <1>6, <1>7 DEF LagInv, GuestInv, Booted, Alive
<1>9. StageInv'
  BY <1>2, <1>3 DEF StageInv
<1> QED
  BY <1>4, <1>5, <1>8, <1>9 DEF LagInv

\* The handlers of the template. A stale copy that shows a restart as owed has no
\* guest to restart.
LEMMA TemplateLag ==
    ASSUME TypeOK, LagInv, TemplateStep
    PROVE  LagInv'
<1>0. /\ call.pc \in {"template", "write", "record"} /\ call.pc # "idle"
      /\ call.pc \notin StartPath
      /\ UNCHANGED <<cm, vmCache, cmCache, watch, ha>> /\ Calm
      /\ vm \in VMObject /\ watch.phase \in Phases
      /\ call.cm.rv \in Nat /\ vm.observed \in Nat /\ cm.rv \in Nat
  BY DEF TemplateStep, SameTemplate, NewTemplate, WriteTemplate, RecordTemplate,
         api, caches, processes, Calm, TypeOK, Call, ConfigMap, VMObject, StartPath
<1>1. CASE SameTemplate
  <2>0. UNCHANGED disk
    BY <1>1 DEF SameTemplate
  <2>1. CASE call.vm.needed /\ Goto("running") /\ NoWrite
    <3>1. call'.pc = "running" /\ call'.vm = call.vm /\ call'.cm = call.cm
      BY <2>1, GoesOn DEF Steps
    <3>2. StageInv'
      BY <2>1, <3>1 DEF StageInv
    <3> QED
      BY <1>0, <2>0, <2>1, <3>1, <3>2, LagMoves DEF StartPath
  <2>2. CASE /\ ~call.vm.needed /\ call.vm = vm
             /\ PatchGoto([vm EXCEPT !.observed = call.cm.rv], "running")
    <3>1. Known => \A p \in Booted : ha[p].tmpl = disk
      BY <2>2 DEF LagInv, GuestInv
    <3> QED
      BY <1>1, <2>2, <3>1, RecordedLag DEF SameTemplate
  <2>3. CASE ReturnErr /\ NoWrite
    <3>1. call'.pc = "idle" /\ UNCHANGED vm
      BY <2>3, NextPC DEF NoWrite
    <3> QED
      BY <1>0, <2>0, <2>3, <3>1, LagEnds
  <2> QED
    BY <1>1, <2>1, <2>2, <2>3 DEF SameTemplate
<1>2. CASE NewTemplate
  <2>0. call.pc = "template" /\ UNCHANGED disk
    BY <1>2 DEF NewTemplate
  <2>1. CASE /\ watch.phase \in {"Running", "Starting"} /\ ~call.vm.needed
             /\ PatchGoto([vm EXCEPT !.needed = TRUE], "write")
    <3>1. /\ call'.pc = "write" /\ call'.cm = call.cm /\ call'.vm = vm'
          /\ vm' = [vm EXCEPT !.needed = TRUE] /\ \E new : Write(new)
      BY <2>1, GoesOn DEF Steps, PatchGoto, Write
    <3>2. vm'.needed /\ vm'.observed = vm.observed
      BY <1>0, <3>1, VMFields
    <3>3. FollowInv'
      BY <1>0, <2>0, <3>1, <3>2, FollowKept DEF LagInv
    <3>4. OwedInv'
      BY <3>1, <3>2 DEF OwedInv
    <3>5. GuestInv'
      BY <1>0, <2>0, <3>1, <3>2, GuestStays DEF LagInv, Known
    <3>6. StageInv'
      BY <3>1, <3>2 DEF StageInv
    <3> QED
      BY <3>3, <3>4, <3>5, <3>6 DEF LagInv
  <2>2. CASE /\ ~(watch.phase \in {"Running", "Starting"} /\ ~call.vm.needed)
             /\ Goto("write") /\ NoWrite
    <3>1. call'.pc = "write" /\ call'.vm = call.vm /\ call'.cm = call.cm /\ UNCHANGED vm
      BY <2>2, GoesOn DEF Steps, NoWrite
    <3>2. NoGuest' \/ (vm.needed /\ call.vm.needed)
      BY <1>0, <2>2 DEF LagInv, OwedInv, NoGuest, Phases
    <3>3. StageInv'
      BY <3>1, <3>2 DEF StageInv
    <3> QED
      BY <1>0, <2>0, <2>2, <3>1, <3>3, LagMoves DEF StartPath
  <2> QED
    BY <1>2, <2>1, <2>2 DEF NewTemplate
<1>3. CASE WriteTemplate
  <2>1. /\ call.pc = "write" /\ disk' = call.cm.data /\ UNCHANGED <<vm, pending>>
        /\ call'.pc = IF call.vm.needed THEN "running" ELSE "record"
        /\ call'.vm = call.vm /\ call'.cm = call.cm
    BY <1>3, GoesOn DEF WriteTemplate, Steps, api
  <2>2. NoGuest \/ (vm.needed /\ call.vm.needed)
    BY <2>1 DEF LagInv, StageInv
  <2>3. FollowInv'
    BY <1>0, <2>1, FollowKept DEF LagInv, NoWrite
  <2>4. OwedInv'
    BY <1>0, <2>1, OwedKept DEF LagInv, StartPath
  <2>5. Known' => vm'.needed
    BY <1>0, <2>1, <2>2 DEF Known, NoGuest
  <2>6. vm.observed = cm.rv => disk' = cm.data
    <3>1. /\ vm.observed <= call.cm.rv /\ call.cm.rv <= cmCache.rv /\ cmCache.rv <= cm.rv
          /\ call.cm.rv = cm.rv => call.cm = cm
      BY <1>0 DEF LagInv, FollowInv
    <3>2. cmCache.rv \in Nat
      BY DEF TypeOK, ConfigMap
    <3>3. vm.observed = cm.rv => call.cm = cm
      BY <1>0, <3>1, <3>2
    <3> QED
      BY <2>1, <3>3
  <2>7. Known' => Known
    BY <1>0, <2>1 DEF Known
  <2>8. GuestInv'
    BY <1>0, <2>1, <2>5, <2>6, <2>7 DEF LagInv, GuestInv, Booted, Alive
  <2>9. StageInv'
    BY <1>0, <2>1, <2>2 DEF StageInv, NoGuest
  <2> QED
    BY <2>3, <2>4, <2>8, <2>9 DEF LagInv
<1>4. CASE RecordTemplate
  <2>1. /\ call.pc = "record" /\ disk = call.cm.data /\ NoGuest
        /\ ~call.vm.needed
    BY <1>4 DEF RecordTemplate, LagInv, StageInv
  <2>2. ~Known
    BY <2>1 DEF Known, NoGuest
  <2> QED
    BY <1>4, <2>1, <2>2, RecordedLag DEF RecordTemplate
<1> QED
  BY <1>1, <1>2, <1>3, <1>4 DEF TemplateStep

\* Why a stop goes on.
LEMMA WhyGoes ==
    ASSUME TypeOK
    PROVE  /\ \A s \in Steps : Goto(s) => call'.why = call.why
           /\ \A w \in {"stop", "restart"} : Shutdown(w) => call'.why = w
<1>1. call \in [pc : Steps, vm : VMObject, cm : ConfigMap,
                child : Pids \cup {NoPid}, why : {"stop", "restart"}, inst : Instance]
  BY DEF TypeOK, Call
<1> QED
  BY <1>1 DEF Goto, Shutdown

\* A call that returns with a condition.
LEMMA LagReports ==
    ASSUME TypeOK, LagInv, call.pc # "idle", call'.pc = "idle", Calm,
           UNCHANGED <<cm, vmCache, cmCache, disk>>,
           NEW r \in Conds, NEW new \in WithMessage(r), Write(new),
           UNCHANGED watch \/ watch'.phase = "Unknown"
    PROVE  LagInv'
<1>1. vm' = new
  BY DEF Write
<1>2. vm'.needed = vm.needed /\ vm'.observed = vm.observed
  BY <1>1, CondFields
<1> QED
  BY <1>2, LagEnds

\* handleRunningState.
LEMMA RunningLag ==
    ASSUME TypeOK, LagInv, RunningStep
    PROVE  LagInv'
<1>0. /\ call.pc = "running" /\ call.pc # "idle"
      /\ UNCHANGED <<cm, vmCache, cmCache, disk, ha>> /\ Calm
      /\ call.vm.needed \/ call.vm.observed = call.cm.rv
  BY DEF RunningStep, ResetCondition, HandleRestartNeeded, WatchedStarting,
         WatchedRunning, WatchedCrashed, WatchedUnwanted, WatchedStopped,
         Unwatched, Watched, api, caches, processes, Calm, LagInv, StageInv
<1>1. ASSUME NEW r \in Conds, SetCond(r), UNCHANGED watch \/ watch'.phase = "Unknown"
      PROVE  LagInv'
  <2>1. /\ WithCond(r) \in WithMessage(r) /\ Write(WithCond(r)) /\ call'.pc = "idle"
    BY <1>1, NextPC DEF SetCond, PatchReturn, WithMessage
  <2> QED
    BY <1>0, <1>1, <2>1, LagReports
<1>2. CASE ResetCondition
  BY <1>1, <1>2 DEF ResetCondition, Conds
<1>3. CASE HandleRestartNeeded
  <2>1. UNCHANGED watch /\ call.vm.needed
    BY <1>3 DEF HandleRestartNeeded
  <2>2. CASE Shutdown("restart") /\ NoWrite /\ watch.phase = "Running"
    <3>1. /\ call'.pc \in {"wait", "force"} /\ call'.why = "restart"
          /\ call'.vm = call.vm /\ call'.cm = call.cm
      BY <2>2, GoesOn, WhyGoes
    <3>2. StageInv'
      BY <2>1, <2>2, <3>1 DEF StageInv
    <3> QED
      BY <1>0, <2>1, <2>2, <3>1, <3>2, LagMoves DEF StartPath
  <2>3. CASE Return /\ NoWrite
    BY <1>0, <2>1, <2>3, NextPC, LagEnds DEF NoWrite
  <2>4. CASE /\ watch.phase \in {"Stopped", "Unknown"}
             /\ PatchReturn([vm EXCEPT !.needed = FALSE])
    <3>1. Write([vm EXCEPT !.needed = FALSE]) /\ call'.pc = "idle" /\ NoGuest
      BY <2>4, NextPC DEF PatchReturn, NoGuest
    <3>2. vm'.observed = vm.observed
      BY <3>1, VMFields DEF TypeOK, Write
    <3> QED
      BY <1>0, <2>1, <3>1, <3>2, LagEnds
  <2> QED
    BY <1>3, <2>2, <2>3, <2>4 DEF HandleRestartNeeded
<1>4. CASE WatchedStarting
  BY <1>1, <1>4 DEF WatchedStarting, Conds
<1>5. CASE WatchedRunning
  <2>1. watch.phase = "Running" /\ UNCHANGED watch
    BY <1>5 DEF WatchedRunning
  <2>2. CASE Return /\ NoWrite
    BY <1>0, <2>1, <2>2, NextPC, LagEnds DEF NoWrite
  <2>3. CASE PatchReturn([vm EXCEPT !.cond = "Started", !.count = call.vm.count + 1])
    <3> DEFINE new == [vm EXCEPT !.cond = "Started", !.count = call.vm.count + 1]
    <3>1. Write(new) /\ call'.pc = "idle"
      BY <2>3, NextPC DEF PatchReturn
    <3>2. call.vm.count + 1 \in Nat
      BY DEF TypeOK, Call, VMObject
    <3>3. new.needed = vm.needed /\ new.observed = vm.observed
      BY <3>2, VMFields DEF TypeOK
    <3>4. vm' = new
      BY <3>1 DEF Write
    <3> HIDE DEF new
    <3> QED
      BY <1>0, <2>1, <3>1, <3>3, <3>4, LagEnds
  <2> QED
    BY <1>5, <2>2, <2>3 DEF WatchedRunning
<1>6. CASE WatchedCrashed
  <2>1. /\ call'.pc = "inspect" /\ call'.vm = call.vm /\ call'.cm = call.cm
        /\ watch'.phase = "Unknown" /\ ~call.vm.needed /\ NoWrite
    BY <1>6, GoesOn DEF WatchedCrashed, Watched, Steps, NoWatch, NoWrite, api
  <2>2. StageInv'
    BY <2>1 DEF StageInv
  <2> QED
    BY <1>0, <2>1, <2>2, LagMoves
<1>7. CASE WatchedUnwanted
  <2>1. /\ call'.pc \in {"wait", "force"} /\ call'.vm = call.vm /\ call'.cm = call.cm
        /\ call'.why = "stop" /\ ~call.vm.running /\ ~call.vm.needed
        /\ UNCHANGED watch /\ watch.phase # "Unknown" /\ NoWrite
    BY <1>7, GoesOn, WhyGoes DEF WatchedUnwanted, Watched, NoWrite, api
  <2>2. StageInv'
    BY <1>0, <2>1 DEF StageInv
  <2> QED
    BY <1>0, <2>1, <2>2, LagMoves DEF StartPath
<1>8. CASE WatchedStopped
  BY <1>1, <1>8 DEF WatchedStopped, Conds, NoWatch
<1>9. CASE Unwatched
  <2>1. watch.phase = "Unknown" /\ UNCHANGED watch /\ ~call.vm.needed
    BY <1>9 DEF Unwatched
  <2>2. CASE call' = [call EXCEPT !.pc = "orphan", !.inst = Seen] /\ NoWrite
    <3>1. call'.pc = "orphan" /\ call'.vm = call.vm /\ call'.cm = call.cm
      BY <2>2 DEF TypeOK, Call
    <3>2. StageInv'
      BY <2>1, <3>1 DEF StageInv
    <3> QED
      BY <1>0, <2>1, <2>2, <3>1, <3>2, LagMoves DEF StartPath
  <2>3. CASE call.vm.running /\ Goto("start") /\ NoWrite
    <3>1. call'.pc = "start" /\ call'.vm = call.vm /\ call'.cm = call.cm
      BY <2>3, GoesOn DEF Steps
    <3>2. StageInv'
      BY <2>1, <3>1 DEF StageInv
    <3> QED
      BY <1>0, <2>1, <2>3, <3>1, <3>2, LagMoves
  <2>4. CASE SetCond("Stopped")
    BY <1>1, <2>1, <2>4 DEF Conds
  <2> QED
    BY <1>9, <2>2, <2>3, <2>4 DEF Unwatched
<1> QED
  BY <1>2, <1>3, <1>4, <1>5, <1>6, <1>7, <1>8, <1>9 DEF RunningStep

\* startInstance: a hostagent is made while nobody is alive.
LEMMA StartLag ==
    ASSUME TypeOK, HostagentInv, LagInv, StartStep
    PROVE  LagInv'
<1>0. /\ call.pc \in StartPath /\ call.pc # "idle"
      /\ watch.phase = "Unknown"
      /\ UNCHANGED <<cm, vmCache, cmCache, disk>>
      /\ \A p \in Pids : p # NoPid
  BY DEF StartStep, CleanBeforeStart, StartInstance, SpawnHostagent, StartFails,
         StartWatcher, PIDFileTimeout, api, caches, LagInv, StageInv, StartPath
<1>1. CASE CleanBeforeStart
  <2>1. /\ call'.pc = "start" /\ call'.vm = call.vm /\ call'.cm = call.cm
        /\ NoWrite /\ UNCHANGED watch
    BY <1>1, GoesOn DEF CleanBeforeStart, Steps, api, NoWrite
  <2>2. Calm
    <3>1. CASE UNCHANGED ha
      BY <3>1 DEF Calm
    <3> QED
      BY <1>1, <3>1, SeenType, KillCalm DEF CleanBeforeStart
  <2>3. StageInv'
    BY <1>0, <2>1 DEF StageInv
  <2> QED
    BY <1>0, <2>1, <2>2, <2>3, LagMoves
<1>2. CASE StartInstance
  <2> DEFINE new == WithCond("Starting")
  <2>1. /\ PatchGoto(new, "spawn") /\ UNCHANGED <<watch, ha>>
        /\ new \in WithMessage("Starting")
    BY <1>2 DEF StartInstance, processes, WithMessage
  <2>2. /\ call'.pc = "spawn" /\ call'.vm = new /\ call'.cm = call.cm
        /\ Write(new) /\ vm' = new
    BY <2>1, GoesOn DEF Steps, PatchGoto, Write
  <2>3. new.needed = vm.needed /\ new.observed = vm.observed
    BY <2>1, CondFields DEF Conds
  <2>4. Calm /\ (Known' => Known)
    BY <2>1, <2>2 DEF Calm, Known
  <2> HIDE DEF new
  <2>5. FollowInv'
    BY <1>0, <2>2, <2>3, FollowKept DEF LagInv
  <2>6. OwedInv'
    BY <1>0, <2>1, <2>2, <2>3, OwedKept DEF LagInv
  <2>7. GuestInv'
    BY <1>0, <2>1, <2>2, <2>3, <2>4, GuestStays DEF LagInv
  <2>8. StageInv'
    BY <1>0, <2>1, <2>2 DEF StageInv
  <2> QED
    BY <2>5, <2>6, <2>7, <2>8 DEF LagInv
<1>3. CASE SpawnHostagent
  <2>1. PICK c \in Pids :
          /\ ha' = [ha EXCEPT ![c] = [Dead EXCEPT !.st = "spawned"]]
          /\ call' = [call EXCEPT !.pc = "pid", !.child = c]
    BY <1>3 DEF SpawnHostagent
  <2>2. /\ call'.pc = "pid" /\ call'.vm = call.vm /\ call'.cm = call.cm
        /\ UNCHANGED <<vm, pending, watch>> /\ call.pc = "spawn"
    BY <1>3, <2>1 DEF SpawnHostagent, TypeOK, Call, api
  <2>3. \A p \in Pids : ~Alive(p)
    BY <2>2 DEF HostagentInv
  <2>4. \A p \in Pids : /\ ha'[p].st \in {"dead", "spawned"}
                        /\ ha'[p].st = "spawned" => ~ha'[p].ran
    BY <1>0, <2>1, <2>3 DEF TypeOK, Hostagent, Dead, Alive
  <2>5. Booted' = {}
    BY <2>4 DEF Booted
  <2>6. FollowInv'
    BY <1>0, <2>2, FollowKept DEF LagInv, NoWrite
  <2>7. OwedInv'
    BY <1>0, <2>2, OwedKept DEF LagInv
  <2>8. GuestInv'
    BY <1>0, <2>2, <2>4, <2>5 DEF LagInv, GuestInv
  <2>9. StageInv'
    BY <1>0, <2>2 DEF StageInv
  <2> QED
    BY <2>6, <2>7, <2>8, <2>9 DEF LagInv
<1>4. CASE StartFails \/ PIDFileTimeout
  <2>1. call'.pc = "idle" /\ UNCHANGED watch /\ Calm
    BY <1>4, NextPC DEF StartFails, PIDFileTimeout, processes, Calm
  <2>2. PICK new \in WithMessage("StartFailed") : Write(new)
    BY <1>4 DEF StartFails, PIDFileTimeout
  <2> QED
    BY <1>0, <2>1, <2>2, LagReports DEF Conds
<1>5. CASE StartWatcher
  <2>1. /\ call.pc = "pid" /\ call'.pc = "idle" /\ pidfile # NoPid
        /\ watch'.phase = "Starting" /\ watch'.proc = call.child
        /\ UNCHANGED <<vm, pending, ha>>
    BY <1>5, NextPC DEF StartWatcher, api, processes
  <2>2. pidfile = call.child /\ call.child \in Pids
    BY <2>1 DEF HostagentInv, TypeOK
  <2>3. \A p \in Pids : Alive(p) => p = call.child
    BY <2>1, <2>2, Stage DEF HostagentInv
  <2>4. Known
    BY <2>1 DEF Known
  <2>5. FollowInv'
    BY <1>0, <2>1, FollowKept DEF LagInv, NoWrite
  <2>6. OwedInv'
    BY <1>0, <2>1 DEF LagInv, OwedInv
  <2>7. GuestInv'
    BY <1>0, <2>1, <2>2, <2>3, <2>4 DEF LagInv, GuestInv, Alive, Booted
  <2> QED
    BY <2>1, <2>5, <2>6, <2>7, StageEnds DEF LagInv
<1> QED
  BY <1>1, <1>2, <1>3, <1>4, <1>5 DEF StartStep

\* A stop records its end when nobody is alive.
LEMMA StopLag ==
    ASSUME TypeOK, HostagentInv, LagInv, Timely, StopStep \/ ReconcileError
    PROVE  LagInv'
<1>0. /\ call.pc # "idle" /\ UNCHANGED <<cm, vmCache, cmCache, disk>>
      /\ call.inst \in Instance /\ Seen \in Instance
      /\ \A p \in Pids : p # NoPid
  BY SeenType DEF StopStep, ProcessExited, GraceExpired, ForceStop, FinishStop,
         FinishRestart, KillOrphan, ReconcileError, api, caches, TypeOK, Call
<1>1. CASE ProcessExited
  <2>1. /\ call.pc = "wait" /\ call'.pc = "finish" /\ UNCHANGED <<watch, ha>>
        /\ call'.vm = call.vm /\ call'.cm = call.cm /\ call'.why = call.why /\ NoWrite
    BY <1>1, GoesOn, WhyGoes DEF ProcessExited, Steps, api, processes, NoWrite
  <2>2. \A p \in Pids : ~Alive(p)
    BY <1>1, <2>1 DEF ProcessExited, LagInv, StageInv, GuestInv
  <2>3. StageInv' /\ Calm
    BY <2>1, <2>2 DEF LagInv, StageInv, Alive, Calm
  <2> QED
    BY <1>0, <2>1, <2>3, LagMoves DEF StartPath
<1>2. CASE GraceExpired
  <2>1. /\ call.pc = "wait" /\ call'.pc = "force" /\ UNCHANGED <<watch, ha>>
        /\ call'.vm = call.vm /\ call'.cm = call.cm /\ call'.why = call.why /\ NoWrite
    BY <1>2, GoesOn, WhyGoes DEF GraceExpired, Steps, api, processes, NoWrite
  <2>2. StageInv' /\ Calm
    BY <2>1 DEF LagInv, StageInv, Calm
  <2> QED
    BY <1>0, <2>1, <2>2, LagMoves DEF StartPath
<1>3. CASE ForceStop
  <2>1. /\ call.pc = "force" /\ call'.pc = "finish" /\ UNCHANGED watch
        /\ call'.vm = call.vm /\ call'.cm = call.cm /\ call'.why = call.why /\ NoWrite
    BY <1>3, GoesOn, WhyGoes DEF ForceStop, Steps, api, NoWrite
  <2>2. PICK i \in Instance :
          KillRecorded(i) /\ \A p \in Pids : Owner(p) => i.agent = p
    BY <1>0, <1>3, <2>1, SeenOwner
       DEF ForceStop, StopForcibly, Timely, HostagentInv, Stopping
  <2>3. \A p \in Pids : ~Alive(p)'
    BY <2>1, <2>2, KillsAll
  <2>4. StageInv'
    BY <2>1, <2>3 DEF LagInv, StageInv
  <2> QED
    BY <1>0, <2>1, <2>2, <2>4, KillCalm, LagMoves DEF StartPath
<1>4. CASE FinishStop
  <2>1. call'.pc = "idle" /\ watch'.phase = "Unknown" /\ Calm
    BY <1>4 DEF FinishStop, Idle, StopWatcher, NoWatch, Calm
  <2>2. PICK r \in Conds : \E new \in WithMessage(r) : Write(new)
    BY <1>4 DEF FinishStop, Conds
  <2> QED
    BY <1>0, <2>1, <2>2, LagReports
<1>5. CASE FinishRestart
  <2>1. call'.pc = "idle" /\ watch'.phase = "Unknown" /\ Calm
    BY <1>5 DEF FinishRestart, Idle, StopWatcher, NoWatch, Calm, processes
  <2>2. PICK new \in WithMessage("Stopped") : Write([new EXCEPT !.needed = FALSE])
    BY <1>5 DEF FinishRestart
  <2>3. vm'.observed = vm.observed
    BY <2>2, CondFields, VMFields DEF Write, Conds
  <2> QED
    BY <1>0, <2>1, <2>2, <2>3, LagEnds
<1>6. CASE KillOrphan
  <2>1. call'.pc = "idle" /\ UNCHANGED watch /\ NoWrite
    BY <1>6, NextPC DEF KillOrphan, api, NoWrite
  <2>2. Calm
    <3>1. CASE UNCHANGED ha
      BY <3>1 DEF Calm
    <3> QED
      BY <1>0, <1>6, <3>1, KillCalm DEF KillOrphan, processes
  <2> QED
    BY <1>0, <2>1, <2>2, LagEnds DEF NoWrite
<1>7. CASE ReconcileError
  <2>1. /\ call'.pc = "idle" /\ NoWrite /\ Calm
        /\ watch'.phase = "Unknown" \/ UNCHANGED watch
    BY <1>7, NextPC DEF ReconcileError, api, processes, NoWrite, NoWatch, Calm
  <2> QED
    BY <1>0, <2>1, LagEnds DEF NoWrite
<1> QED
  BY <1>1, <1>2, <1>3, <1>4, <1>5, <1>6, <1>7 DEF StopStep

\* A call begins with the copies as they are.
LEMMA ReconcileLag ==
    ASSUME TypeOK, LagInv, Reconcile \/ HandleRestartAnnotation
    PROVE  LagInv'
<1>0. /\ call.pc = "idle" /\ UNCHANGED <<cm, vmCache, cmCache>>
      /\ UNCHANGED <<watch, disk, ha>> /\ Calm
  BY DEF Reconcile, HandleRestartAnnotation, Requested, api, caches, processes, Calm
<1>1. CASE Reconcile
  <2>1. /\ call'.pc = IF cmCache.rv # vmCache.observed THEN "template" ELSE "running"
        /\ call'.vm = vmCache /\ call'.cm = cmCache
        /\ UNCHANGED <<vm, pending>>
    BY <1>1 DEF Reconcile, api, Idle
  <2>2. Known' => Known
    BY <1>0, <2>1 DEF Known
  <2>3. FollowInv'
    <3>1. cmCache.rv \in Nat
      BY DEF TypeOK, ConfigMap
    <3> QED
      BY <1>0, <2>1, <3>1 DEF LagInv, FollowInv
  <2>4. OwedInv'
    BY <1>0, <2>1 DEF LagInv, OwedInv, StartPath, NoGuest
  <2>5. GuestInv'
    BY <1>0, <2>1, <2>2, GuestStays DEF LagInv
  <2>6. StageInv'
    BY <2>1 DEF StageInv
  <2> QED
    BY <2>3, <2>4, <2>5, <2>6 DEF LagInv
<1>2. CASE HandleRestartAnnotation
  <2>1. /\ call'.pc = "idle"
        /\ \E new : Write(new)
        /\ vm'.observed = vm.observed
        /\ vm'.needed = vm.needed \/ vm'.needed
    <3>1. call' = call
      BY <1>2 DEF HandleRestartAnnotation
    <3>2. vm \in VMObject
      BY DEF TypeOK
    <3>3. CASE vmCache.needed
      BY <1>0, <1>2, <3>1, <3>2, <3>3, VMFields DEF HandleRestartAnnotation, Write
    <3>4. CASE ~vmCache.needed
      BY <1>0, <1>2, <3>1, <3>2, <3>4, VMFields DEF HandleRestartAnnotation, Write
    <3> QED
      BY <3>3, <3>4
  <2>2. Known' => Known
    BY <1>0, <2>1 DEF Known
  <2>3. FollowInv'
    BY <1>0, <2>1, FollowKept DEF LagInv
  <2>4. OwedInv'
    BY <1>0, <2>1, OwedKept DEF LagInv
  <2>5. GuestInv'
    BY <1>0, <2>1, <2>2, GuestStays DEF LagInv
  <2> QED
    BY <2>1, <2>3, <2>4, <2>5, StageEnds DEF LagInv
<1> QED
  BY <1>1, <1>2

\* A hostagent that moves on: only a boot makes a guest, from lima.yaml.
LEMMA HostagentLag ==
    ASSUME TypeOK, LagInv, NEW p \in Pids,
           HostagentStep(p) \/ PowerOff(p) \/ HostagentCrash(p)
    PROVE  LagInv'
<1>0. /\ UNCHANGED <<vm, cm, pending, vmCache, cmCache, call, watch, disk>>
      /\ ha \in [Pids -> Hostagent] /\ p # NoPid
  BY DEF HostagentStep, CheckPIDFile, WritePIDFile, Boot, EmitRunning,
         EmitExiting, Exit, PowerOff, HostagentCrash, api, caches, TypeOK
<1>1. Alive(p) /\ \A q \in Pids \ {p} : ha'[q] = ha[q]
  BY <1>0 DEF HostagentStep, CheckPIDFile, WritePIDFile, Boot, EmitRunning,
              EmitExiting, Exit, PowerOff, HostagentCrash, Alive
<1>2. \A q \in Pids : Alive(q)' => Alive(q)
  BY <1>1 DEF Alive
<1>3. (Known <=> Known') /\ FollowInv' /\ OwedInv' /\ StageInv'
  BY <1>0, <1>1, <1>2 DEF LagInv, FollowInv, OwedInv, StageInv, NoGuest, Known
<1>4. CASE Boot(p) /\ ha' = [ha EXCEPT ![p].st = "booting", ![p].tmpl = disk]
  <2>1. /\ ha[p].st = "owner" /\ ~ha[p].ran
        /\ ha'[p].st = "booting" /\ ha'[p].tmpl = disk /\ ha'[p].ran = ha[p].ran
    BY <1>0, <1>4 DEF Boot, Hostagent, LagInv, GuestInv
  <2>2. \A q \in Booted' : q = p \/ (q \in Booted /\ ha'[q] = ha[q])
    BY <1>1 DEF Booted
  <2>3. watch.phase = "Running" => watch.proc # p
    BY <2>1 DEF LagInv, GuestInv
  <2>4. GuestInv'
    BY <1>0, <1>1, <1>2, <1>3, <2>1, <2>2, <2>3 DEF LagInv, GuestInv
  <2> QED
    BY <1>3, <2>4 DEF LagInv
<1>5. CASE ~(Boot(p) /\ ha' = [ha EXCEPT ![p].st = "booting", ![p].tmpl = disk])
  <2>1. /\ ha'[p].tmpl = ha[p].tmpl
        /\ \/ ha'[p].st = "running" /\ ha[p].st = "booting" /\ ha'[p].ran
           \/ /\ ha'[p].ran = ha[p].ran
              /\ \/ ha'[p].st \in {"dead", "exiting"}
                 \/ /\ ha[p].st \in {"spawned", "checked"}
                    /\ ha'[p].st \in {"checked", "owner"}
    BY <1>0, <1>5 DEF HostagentStep, CheckPIDFile, WritePIDFile, Boot, EmitRunning,
         EmitExiting, Exit, PowerOff, HostagentCrash, Hostagent
  <2>2. \A q \in Booted' : q \in Booted /\ ha'[q].tmpl = ha[q].tmpl
    BY <1>1, <2>1 DEF Booted
  <2>3. \A q \in Pids :
          /\ ha'[q].st \in {"spawned", "checked", "owner", "booting"} => ~ha'[q].ran
          /\ ha'[q].st = "running" => ha'[q].ran
    BY <1>1, <2>1 DEF LagInv, GuestInv
  <2>4. \A q \in Pids : ha[q].ran => ha'[q].ran
    BY <1>1, <2>1
  <2>5. GuestInv'
    BY <1>0, <1>2, <1>3, <2>2, <2>3, <2>4 DEF LagInv, GuestInv
  <2> QED
    BY <1>3, <2>5 DEF LagInv
<1> QED
  BY <1>4, <1>5

\* Informers, the watcher, a crash of the control plane and the users.
LEMMA EnvironmentLag ==
    ASSUME TypeOK, LagInv,
           \/ SyncVM \/ SyncCM \/ WatcherStep \/ WatchFails
           \/ ControlPlaneCrash \/ UserStep
    PROVE  LagInv'
<1>0. /\ UNCHANGED <<disk, ha>> /\ Calm /\ \A p \in Pids : p # NoPid
      /\ cm.rv \in Nat /\ cmCache.rv \in Nat /\ call.cm.rv \in Nat /\ vm.observed \in Nat
  BY DEF SyncVM, SyncCM, WatcherStep, WatchRunning, WatchStopped, WatchFails,
         ControlPlaneCrash, UserStep, SetRunning, RequestRestart, EditTemplate, processes,
         Calm, TypeOK, ConfigMap, VMObject, Call
<1>1. CASE SyncVM \/ SyncCM
  <2>1. UNCHANGED <<vm, cm, call, watch>>
    BY <1>1 DEF SyncVM, SyncCM
  <2>2. FollowInv'
    BY <1>0, <1>1, <2>1 DEF SyncVM, SyncCM, LagInv, FollowInv
  <2>3. OwedInv'
    BY <1>1, <2>1 DEF SyncVM, SyncCM, LagInv, OwedInv, NoGuest
  <2> QED
    BY <1>0, <2>1, <2>2, <2>3 DEF LagInv, StageInv, GuestInv, NoGuest, Known, Booted, Alive
<1>2. CASE WatcherStep \/ WatchFails
  <2>0. UNCHANGED <<vm, cm, pending, vmCache, cmCache, call>>
    BY <1>2 DEF WatcherStep, WatchRunning, WatchStopped, WatchFails, api, caches
  <2>1. /\ watch.phase \in {"Starting", "Running"} /\ watch.proc \in Pids
        /\ watch'.phase \in {"Running", "Stopped"} /\ watch'.proc = watch.proc
        /\ watch'.phase = "Running" => watch.phase = "Starting" /\ ha[watch.proc].ran
    BY <1>0, <1>2 DEF WatcherStep, WatchRunning, WatchStopped, WatchFails, LagInv,
                      GuestInv, TypeOK
  <2>2. Known /\ ~NoGuest
    BY <2>1 DEF Known, NoGuest
  <2>3. FollowInv' /\ OwedInv'
    BY <2>0, <2>2 DEF LagInv, FollowInv, OwedInv
  <2>4. StageInv'
    BY <1>0, <2>0, <2>1, <2>2 DEF LagInv, StageInv, Alive
  <2>5. GuestInv'
    BY <1>0, <2>0, <2>1, <2>2 DEF LagInv, GuestInv, Booted, Alive
  <2> QED
    BY <2>3, <2>4, <2>5 DEF LagInv
<1>3. CASE ControlPlaneCrash
  <2>1. /\ call'.pc = "idle" /\ watch'.phase = "Unknown"
        /\ vmCache' = vm' /\ cmCache' = cm' /\ UNCHANGED <<vm, cm>>
    BY <1>3 DEF ControlPlaneCrash, Idle, NoWatch
  <2>2. FollowInv'
    BY <1>0, <2>1 DEF LagInv, FollowInv
  <2>3. OwedInv'
    BY <2>1 DEF OwedInv
  <2>4. GuestInv'
    BY <1>0, <2>1, GuestStays DEF LagInv
  <2> QED
    BY <2>1, <2>2, <2>3, <2>4, StageEnds DEF LagInv
<1>4. CASE SetRunning \/ RequestRestart
  <2>1. /\ UNCHANGED <<cm, vmCache, cmCache, call, watch>>
        /\ \E new : Write(new)
        /\ vm'.needed = vm.needed /\ vm'.observed = vm.observed
    <3>1. CASE SetRunning
      BY <3>1, VMFields DEF SetRunning, Write, caches, TypeOK
    <3>2. CASE RequestRestart
      BY <3>2, VMFields DEF RequestRestart, Write, caches, TypeOK
    <3> QED
      BY <1>4, <3>1, <3>2
  <2>2. (Known' <=> Known) /\ (NoGuest' <=> NoGuest)
    BY <2>1 DEF Known, NoGuest
  <2>3. FollowInv' /\ OwedInv'
    BY <2>1, <2>2 DEF LagInv, FollowInv, OwedInv, Write
  <2>4. GuestInv'
    BY <1>0, <2>1, <2>2, GuestStays DEF LagInv
  <2>5. StageInv'
    BY <1>0, <2>1, <2>2 DEF LagInv, StageInv, Alive
  <2> QED
    BY <2>3, <2>4, <2>5 DEF LagInv
<1>5. CASE EditTemplate
  <2>1. /\ UNCHANGED <<vm, vmCache, cmCache, call, watch>>
        /\ pending' = pending \cup {"cm"} /\ cm'.rv = cm.rv + 1
    BY <1>5 DEF EditTemplate, caches
  <2>2. FollowInv'
    BY <1>0, <2>1 DEF LagInv, FollowInv
  <2>3. GuestInv'
    <3>1. vm'.observed # cm'.rv
      BY <1>0, <2>1 DEF LagInv, FollowInv
    <3> QED
      BY <1>0, <2>1, <3>1 DEF LagInv, GuestInv, Known, Booted, Alive
  <2>4. OwedInv' /\ StageInv'
    BY <1>0, <2>1 DEF LagInv, OwedInv, StageInv, NoGuest, Alive
  <2> QED
    BY <2>2, <2>3, <2>4 DEF LagInv
<1> QED
  BY <1>1, <1>2, <1>3, <1>4, <1>5 DEF UserStep

\* The invariant holds at first.
LEMMA LagInit == Init => LagInv
<1> SUFFICES ASSUME Init PROVE LagInv
  OBVIOUS
<1>1. call.pc = "idle" /\ watch.phase = "Unknown" /\ vm.observed = 1 /\ cm.rv = 1
      /\ cm.data = disk /\ \A p \in Pids : ha[p].st = "dead"
  BY DEF Init, Idle, NoWatch, NewVM, NewCM, Dead
<1> QED
  BY <1>1 DEF Init, LagInv, FollowInv, OwedInv, GuestInv, StageInv, NoGuest, Known,
              Booted, Alive

\* One case per part of the system.
LEMMA LagStep ==
    ASSUME TypeOK, HostagentInv, LagInv, Timely, [Next]_vars
    PROVE  LagInv'
<1>1. CASE ReconcilerStep
  BY <1>1, ReconcileLag, TemplateLag, RunningLag, StartLag, StopLag DEF ReconcilerStep
<1>2. CASE \E p \in Pids : HostagentStep(p) \/ PowerOff(p) \/ HostagentCrash(p)
  BY <1>2, HostagentLag
<1>3. CASE \/ SyncVM \/ SyncCM \/ WatcherStep \/ WatchFails
           \/ ControlPlaneCrash \/ UserStep
  BY <1>3, EnvironmentLag
<1>4. CASE UNCHANGED vars
  BY <1>4 DEF vars, LagInv, FollowInv, OwedInv, GuestInv, StageInv, NoGuest,
              Known, Booted, Alive
<1> QED
  BY <1>1, <1>2, <1>3, <1>4 DEF Next

\* A step of a call that leaves nothing to come found nothing, and wrote nothing
\* new: the call's copies are what is there.
LEMMA NothingNew ==
    ASSUME RestInv, call.pc # "idle", ~Coming', queued => queued',
           NoWrite \/ \E new : Write(new)
    PROVE  call.vm = vm /\ call.cm = cm /\ ~vm.restart /\ vm' = vm
  BY DEF RestInv, Coming, NoWrite, Write

\* A call that goes on, with the server's answer if it has written.
LEMMA RestGoes ==
    ASSUME RestInv, call.pc # "idle", call'.pc # "idle", UNCHANGED <<cm, queued>>,
           call'.cm = call.cm,
           \/ NoWrite /\ call'.vm = call.vm
           \/ \E new : Write(new) /\ call'.vm = new
    PROVE  RestInv'
<1> SUFFICES ASSUME ~Coming' PROVE RestInv'
  BY DEF RestInv
<1>1. call.vm = vm /\ call.cm = cm /\ ~vm.restart /\ vm' = vm
  BY NothingNew
<1>2. call'.vm = vm'
  BY <1>1 DEF Write
<1> QED
  BY <1>1, <1>2 DEF RestInv

\* The handlers of the template go on, return an error, or leave a change.
LEMMA TemplateRest ==
    ASSUME TypeOK, LagInv, RestInv, TemplateStep
    PROVE  RestInv'
<1>0. call.pc \in {"template", "write", "record"} /\ call.pc # "idle" /\ UNCHANGED cm
  BY DEF TemplateStep, SameTemplate, NewTemplate, WriteTemplate, RecordTemplate, api
<1>1. ASSUME NEW st \in Steps \ {"idle"}, Goto(st), NoWrite, UNCHANGED queued
      PROVE  RestInv'
  BY <1>0, <1>1, GoesOn, RestGoes
<1>2. ASSUME NEW st \in Steps \ {"idle"}, NEW new, PatchGoto(new, st), UNCHANGED queued
      PROVE  RestInv'
  <2>1. Write(new) /\ call'.pc # "idle" /\ call'.vm = new /\ call'.cm = call.cm
    BY <1>2, GoesOn DEF PatchGoto
  <2> QED
    BY <1>0, <1>2, <2>1, RestGoes
<1>3. CASE SameTemplate
  BY <1>1, <1>2, <1>3 DEF SameTemplate, ReturnErr, RestInv, Coming, Steps
<1>4. CASE NewTemplate
  BY <1>1, <1>2, <1>4 DEF NewTemplate, Steps
<1>5. CASE WriteTemplate
  BY <1>1, <1>5 DEF WriteTemplate, Steps, api, NoWrite
<1>6. CASE RecordTemplate
  BY <1>2, <1>6 DEF RecordTemplate, Steps
<1> QED
  BY <1>3, <1>4, <1>5, <1>6 DEF TemplateStep

\* handleRunningState: a call that returns without a change has found everything
\* done, or the hostagent still starting.
LEMMA RunningRest ==
    ASSUME TypeOK, HostagentInv, LagInv, ToldInv, RestInv, RunningStep
    PROVE  RestInv'
<1>0. /\ call.pc = "running" /\ call.pc # "idle" /\ UNCHANGED <<cm, ha>>
      /\ call.vm.needed \/ call.vm.observed = call.cm.rv
      /\ \A p \in Pids : p # NoPid
  BY DEF RunningStep, ResetCondition, HandleRestartNeeded, WatchedStarting,
         WatchedRunning, WatchedCrashed, WatchedUnwanted, WatchedStopped,
         Unwatched, Watched, api, processes, LagInv, StageInv
<1> SUFFICES ASSUME ~Coming' PROVE RestInv'
  BY DEF RestInv
<1>1. ASSUME NEW r \in Conds, SetCond(r)
      PROVE  /\ call'.pc = "idle" /\ call.vm = vm /\ call.cm = cm /\ ~vm.restart
             /\ vm' = vm /\ vm.cond = r
  <2>1. /\ WithCond(r) \in WithMessage(r) /\ Write(WithCond(r)) /\ call'.pc = "idle"
        /\ UNCHANGED queued
    BY <1>1, NextPC DEF SetCond, PatchReturn, Return, WithMessage
  <2>2. call.vm = vm /\ call.cm = cm /\ ~vm.restart /\ vm' = vm
    BY <1>0, <2>1, NothingNew
  <2>3. WithCond(r) = vm
    BY <2>1, <2>2 DEF Write
  <2> QED
    BY <2>1, <2>2, <2>3, CondFields
<1>2. CASE ResetCondition
  BY <1>1, <1>2 DEF ResetCondition, Unverified, Conds
<1>3. CASE HandleRestartNeeded
  <2>1. CASE Shutdown("restart") /\ NoWrite /\ UNCHANGED queued
    BY <1>0, <2>1, GoesOn, RestGoes
  <2>2. CASE watch.phase = "Starting" /\ Return
    BY <1>3, <2>2, NextPC DEF HandleRestartNeeded, RestInv, Resting
  <2>3. CASE PatchReturn([vm EXCEPT !.needed = FALSE])
    <3> DEFINE new == [vm EXCEPT !.needed = FALSE]
    <3>1. Write(new) /\ UNCHANGED queued
      BY <2>3 DEF PatchReturn, Return
    <3>2. call.vm = vm /\ vm' = vm
      BY <1>0, <3>1, NothingNew
    <3>3. new = vm /\ ~new.needed
      BY <3>1, <3>2, VMFields DEF Write, TypeOK
    <3> QED
      BY <1>3, <3>2, <3>3 DEF HandleRestartNeeded
  <2> QED
    BY <1>3, <2>1, <2>2, <2>3 DEF HandleRestartNeeded
<1>4. CASE WatchedStarting
  BY <1>1, <1>4 DEF WatchedStarting, Conds, RestInv, Resting
<1>5. CASE WatchedRunning
  <2>1. /\ watch.phase = "Running" /\ UNCHANGED watch /\ call.vm.running
        /\ ~call.vm.needed
    BY <1>5 DEF WatchedRunning, Watched
  <2>2. CASE call.vm.cond = "Started" /\ Return /\ NoWrite
    <3>1. call.vm = vm /\ call.cm = cm /\ ~vm.restart /\ vm' = vm /\ call'.pc = "idle"
      BY <1>0, <2>2, NothingNew, NextPC DEF Return
    <3>2. Kept' /\ vm'.running /\ vm'.cond = "Started" /\ watch'.phase = "Running"
      BY <1>0, <2>1, <2>2, <3>1 DEF Kept
    <3> QED
      BY <3>1, <3>2 DEF RestInv, Resting
  <2>3. CASE /\ call.vm.cond # "Started"
             /\ PatchReturn([vm EXCEPT !.cond = "Started", !.count = call.vm.count + 1])
    <3> DEFINE new == [vm EXCEPT !.cond = "Started", !.count = call.vm.count + 1]
    <3>1. Write(new) /\ UNCHANGED queued
      BY <2>3 DEF PatchReturn, Return
    <3>2. call.vm = vm /\ vm' = vm
      BY <1>0, <3>1, NothingNew
    <3>3. call.vm.count + 1 \in Nat
      BY DEF TypeOK, Call, VMObject
    <3>4. new = vm /\ new.cond = "Started"
      BY <3>1, <3>2, <3>3, VMFields DEF Write, TypeOK
    <3> QED
      BY <2>3, <3>2, <3>4
  <2> QED
    BY <1>5, <2>2, <2>3 DEF WatchedRunning
<1>6. CASE WatchedCrashed
  <2>1. /\ call'.pc = "inspect" /\ call'.vm = call.vm /\ call'.cm = call.cm
        /\ NoWrite /\ UNCHANGED queued
    BY <1>6, GoesOn DEF WatchedCrashed, Steps, NoWrite, api
  <2> QED
    BY <1>0, <2>1, RestGoes
<1>7. CASE WatchedUnwanted
  <2>1. /\ call'.pc \in {"wait", "force"} /\ call'.vm = call.vm /\ call'.cm = call.cm
        /\ NoWrite /\ UNCHANGED queued
    BY <1>7, GoesOn DEF WatchedUnwanted, NoWrite, api
  <2> QED
    BY <1>0, <2>1, RestGoes
<1>8. CASE WatchedStopped
  <2>1. /\ watch.phase = "Stopped" /\ watch'.phase = "Unknown"
        /\ ~call.vm.running /\ ~call.vm.needed /\ SetCond("Stopped")
    BY <1>8 DEF WatchedStopped, Watched, NoWatch
  <2>2. vm.cond = "Stopped"
    BY <1>1, <2>1 DEF Conds
  <2> QED
    BY <2>1, <2>2 DEF ToldInv, Told
<1>9. CASE Unwatched
  <2>1. watch.phase = "Unknown" /\ UNCHANGED watch /\ ~call.vm.needed
    BY <1>9 DEF Unwatched
  <2>2. CASE call' = [call EXCEPT !.pc = "orphan", !.inst = Seen] /\ NoWrite /\ UNCHANGED queued
    <3>1. call'.pc = "orphan" /\ call'.vm = call.vm /\ call'.cm = call.cm
      BY <2>2 DEF TypeOK, Call
    <3> QED
      BY <1>0, <2>2, <3>1, RestGoes
  <2>3. CASE Goto("start") /\ NoWrite /\ UNCHANGED queued
    BY <1>0, <2>3, GoesOn, RestGoes DEF Steps
  <2>4. CASE InstStatus = "Stopped" /\ ~call.vm.running /\ SetCond("Stopped")
    <3>1. \A p \in Pids : ha'[p].st \in {"dead", "exiting"}
      BY <1>0, <2>4, StoppedMeansNone DEF Alive
    <3>2. Kept' /\ ~vm'.running /\ vm'.cond = "Stopped" /\ call'.pc = "idle"
      BY <1>0, <1>1, <2>1, <2>4 DEF Kept, Conds
    <3> QED
      BY <2>1, <3>1, <3>2 DEF RestInv, Resting
  <2> QED
    BY <1>9, <2>2, <2>3, <2>4 DEF Unwatched
<1> QED
  BY <1>2, <1>3, <1>4, <1>5, <1>6, <1>7, <1>8, <1>9 DEF RunningStep

\* startInstance ends with a watcher or an error.
LEMMA StartRest ==
    ASSUME TypeOK, RestInv, StartStep
    PROVE  RestInv'
<1>0. call.pc \in StartPath /\ call.pc # "idle" /\ UNCHANGED cm
  BY DEF StartStep, CleanBeforeStart, StartInstance, SpawnHostagent, StartFails,
         StartWatcher, PIDFileTimeout, api, StartPath
<1>1. CASE CleanBeforeStart
  BY <1>0, <1>1, GoesOn, RestGoes DEF CleanBeforeStart, Steps, api, NoWrite
<1>2. CASE StartInstance
  <2>1. PatchGoto(WithCond("Starting"), "spawn") /\ UNCHANGED queued
    BY <1>2 DEF StartInstance
  <2>2. /\ call'.pc = "spawn" /\ call'.vm = WithCond("Starting") /\ call'.cm = call.cm
        /\ Write(WithCond("Starting"))
    BY <2>1, GoesOn DEF Steps, PatchGoto
  <2> QED
    BY <1>0, <2>1, <2>2, RestGoes
<1>3. CASE SpawnHostagent
  <2>1. /\ call'.pc = "pid" /\ call'.vm = call.vm /\ call'.cm = call.cm
        /\ NoWrite /\ UNCHANGED queued
    BY <1>3 DEF SpawnHostagent, TypeOK, Call, api, NoWrite
  <2> QED
    BY <1>0, <2>1, RestGoes
<1>4. CASE StartFails \/ PIDFileTimeout
  BY <1>4 DEF StartFails, PIDFileTimeout, ReturnErr, RestInv, Coming
<1>5. CASE StartWatcher
  BY <1>5, NextPC DEF StartWatcher, RestInv, Resting
<1> QED
  BY <1>1, <1>2, <1>3, <1>4, <1>5 DEF StartStep

\* A stop ends with a change, an error, or everything stopped already.
LEMMA StopRest ==
    ASSUME TypeOK, LagInv, RestInv, StopStep \/ ReconcileError
    PROVE  RestInv'
<1>0. call.pc # "idle" /\ UNCHANGED cm /\ \A p \in Pids : p # NoPid
  BY DEF StopStep, ProcessExited, GraceExpired, ForceStop, FinishStop,
         FinishRestart, KillOrphan, ReconcileError, api
<1>1. CASE ProcessExited \/ GraceExpired \/ ForceStop
  <2>1. /\ call'.pc # "idle" /\ call'.vm = call.vm /\ call'.cm = call.cm
        /\ NoWrite /\ UNCHANGED queued
    BY <1>1, GoesOn DEF ProcessExited, GraceExpired, ForceStop, Steps, api, NoWrite
  <2> QED
    BY <1>0, <2>1, RestGoes
<1>2. CASE FinishStop
  <2> SUFFICES ASSUME ~Coming' PROVE RestInv'
    BY DEF RestInv
  <2>1. /\ UNCHANGED ha /\ call'.pc = "idle" /\ StopWatcher
        /\ \E new \in WithMessage("Stopped") : Write(new)
        /\ call.pc = "finish" /\ call.why = "stop"
    BY <1>2 DEF FinishStop, Coming, Idle
  <2>2. PICK new \in WithMessage("Stopped") : Write(new)
    BY <2>1
  <2>3. watch'.phase = "Unknown" /\ (queued => queued')
    BY <2>1 DEF StopWatcher, NoWatch
  <2>4. call.vm = vm /\ call.cm = cm /\ ~vm.restart /\ vm' = vm
    BY <1>0, <2>2, <2>3, NothingNew
  <2>5. vm.cond = "Stopped"
    BY <2>2, <2>4, CondFields DEF Write, Conds
  <2>6. /\ ~call.vm.running /\ ~call.vm.needed /\ call.vm.observed = call.cm.rv
        /\ \A p \in Pids : ~Alive(p)
    BY <2>1 DEF LagInv, StageInv
  <2>7. \A p \in Pids : ha'[p].st \in {"dead", "exiting"}
    BY <1>0, <2>1, <2>6 DEF Alive
  <2>8. Kept' /\ ~vm'.running /\ vm'.cond = "Stopped"
    BY <1>0, <2>4, <2>5, <2>6 DEF Kept
  <2> QED
    BY <2>1, <2>3, <2>7, <2>8 DEF RestInv, Resting
<1>3. CASE FinishRestart
  <2> SUFFICES ASSUME ~Coming' PROVE FALSE
    BY DEF RestInv
  <2>1. PICK new \in WithMessage("Stopped") : Write([new EXCEPT !.needed = FALSE])
    BY <1>3 DEF FinishRestart
  <2>2. queued => queued'
    BY <1>3 DEF FinishRestart, StopWatcher
  <2>3. call.vm = vm /\ vm' = vm
    BY <1>0, <2>1, <2>2, NothingNew
  <2>4. new \in VMObject
    BY CondFields DEF Conds
  <2>5. ~vm'.needed
    BY <2>1, <2>4, VMFields DEF Write
  <2>6. call.vm.needed
    BY <1>3 DEF FinishRestart, LagInv, StageInv
  <2> QED
    BY <2>3, <2>5, <2>6
<1>4. CASE KillOrphan \/ ReconcileError
  BY <1>4 DEF KillOrphan, ReconcileError, ReturnErr, RestInv, Coming
<1> QED
  BY <1>1, <1>2, <1>3, <1>4 DEF StopStep

\* A call begins with all there is, or something is still to come; the answer to
\* the annotation is always a change.
LEMMA ReconcileRest ==
    ASSUME TypeOK, LagInv, RestInv, Reconcile \/ HandleRestartAnnotation
    PROVE  RestInv'
<1> SUFFICES ASSUME ~Coming' PROVE RestInv'
  BY DEF RestInv
<1>1. CASE Reconcile
  <2>1. /\ call'.pc \in {"template", "running"} /\ call'.vm = vmCache
        /\ call'.cm = cmCache /\ ~vmCache.restart /\ UNCHANGED <<vm, cm, pending>>
    BY <1>1 DEF Reconcile, api, Idle
  <2>2. vmCache = vm /\ cmCache = cm
    BY <2>1 DEF Coming, LagInv, FollowInv
  <2> QED
    BY <2>1, <2>2 DEF RestInv
<1>2. CASE HandleRestartAnnotation
  <2> DEFINE drop == [vm EXCEPT !.restart = FALSE]
             keep == [vm EXCEPT !.needed = TRUE]
  <2>1. /\ vmCache.restart
        /\ IF vmCache.needed THEN Write(drop) ELSE Write(keep)
    BY <1>2 DEF HandleRestartAnnotation
  <2>2. pending = {} /\ (IF vmCache.needed THEN drop = vm ELSE keep = vm)
    BY <2>1 DEF Write, Coming
  <2>3. vmCache = vm
    BY <2>2 DEF LagInv, FollowInv
  <2>4. ~drop.restart /\ keep.needed
    BY DEF TypeOK, VMObject
  <2> HIDE DEF drop, keep
  <2> QED
    BY <2>1, <2>2, <2>3, <2>4
<1> QED
  BY <1>1, <1>2

\* A hostagent that has ended stays so.
LEMMA HostagentRest ==
    ASSUME TypeOK, RestInv, NEW p \in Pids,
           HostagentStep(p) \/ PowerOff(p) \/ HostagentCrash(p)
    PROVE  RestInv'
<1>1. /\ UNCHANGED <<vm, cm, pending, queued, call, watch>>
      /\ ha \in [Pids -> Hostagent]
  BY DEF HostagentStep, CheckPIDFile, WritePIDFile, Boot, EmitRunning,
         EmitExiting, Exit, PowerOff, HostagentCrash, api, TypeOK
<1>2. \A q \in Pids : ha[q].st \in {"dead", "exiting"} => ha'[q].st \in {"dead", "exiting"}
  BY <1>1 DEF HostagentStep, CheckPIDFile, WritePIDFile, Boot, EmitRunning,
         EmitExiting, Exit, PowerOff, HostagentCrash, Hostagent
<1> QED
  BY <1>1, <1>2 DEF RestInv, Coming, Resting, Kept

\* handleRunningState reports what the watcher knows, or that it ended.
LEMMA RunningTold ==
    ASSUME TypeOK, LagInv, ToldInv, RunningStep
    PROVE  ToldInv'
<1>0. call.pc = "running" /\ vm \in VMObject
  BY DEF RunningStep, ResetCondition, HandleRestartNeeded, WatchedStarting,
         WatchedRunning, WatchedCrashed, WatchedUnwanted, WatchedStopped,
         Unwatched, Watched, TypeOK
<1>1. ASSUME NEW r \in Conds, SetCond(r)
      PROVE  call'.pc = "idle" /\ vm'.cond \in {vm.cond, r}
  <2>1. WithCond(r) \in WithMessage(r) /\ vm' = WithCond(r) /\ call'.pc = "idle"
    BY <1>1, NextPC DEF SetCond, PatchReturn, Write, WithMessage
  <2>2. vm'.cond \in {vm.cond, r}
    BY <1>0, <2>1, VMFields DEF WithCond
  <2> QED
    BY <2>1, <2>2
<1>2. CASE ResetCondition \/ WatchedStopped
  <2>1. call'.pc = "idle" /\ watch'.phase = "Unknown"
    BY <1>1, <1>2 DEF ResetCondition, WatchedStopped, Unverified, NoWatch, Conds
  <2> QED
    BY <2>1 DEF ToldInv
<1>3. CASE HandleRestartNeeded
  <2>1. UNCHANGED watch /\ call'.pc \in {"wait", "force", "idle"}
    BY <1>3, NextPC, GoesOn DEF HandleRestartNeeded, PatchReturn
  <2>2. vm'.cond = vm.cond
    BY <1>0, <1>3 DEF HandleRestartNeeded, PatchReturn, Write, NoWrite, VMObject
  <2> QED
    BY <2>1, <2>2 DEF ToldInv, Told
<1>4. CASE WatchedStarting
  <2>1. call'.pc = "idle" /\ vm'.cond \in {vm.cond, "Starting"} /\ UNCHANGED watch
    BY <1>1, <1>4 DEF WatchedStarting, Conds
  <2> QED
    BY <2>1 DEF ToldInv, Told
<1>5. CASE WatchedRunning
  <2>1. UNCHANGED watch /\ call'.pc = "idle"
    BY <1>5, NextPC DEF WatchedRunning, PatchReturn
  <2>2. vm'.cond \in {vm.cond, "Started"}
    <3>1. vm' = vm \/ vm' = [vm EXCEPT !.cond = "Started", !.count = call.vm.count + 1]
      BY <1>5 DEF WatchedRunning, PatchReturn, Write, NoWrite
    <3> QED
      BY <1>0, <3>1 DEF VMObject
  <2> QED
    BY <2>1, <2>2 DEF ToldInv, Told
<1>6. CASE WatchedCrashed
  <2>1. /\ call'.pc = "inspect" /\ watch'.phase = "Unknown" /\ UNCHANGED vm
        /\ watch.phase = "Stopped"
    BY <1>6, GoesOn DEF WatchedCrashed, NoWatch, Steps, api
  <2> QED
    BY <2>1 DEF ToldInv, Told
<1>7. CASE WatchedUnwanted
  <2>1. /\ call'.pc \in {"wait", "force"} /\ UNCHANGED <<vm, watch>>
    BY <1>7, GoesOn DEF WatchedUnwanted, api
  <2> QED
    BY <2>1 DEF ToldInv, Told
<1>8. CASE Unwatched
  <2>1. watch.phase = "Unknown" /\ UNCHANGED watch /\ ~Unverified
    BY <1>8 DEF Unwatched
  <2>2. CASE call' = [call EXCEPT !.pc = "orphan", !.inst = Seen]
    <3>1. call'.pc = "orphan"
      BY <2>2 DEF TypeOK, Call
    <3> QED
      BY <2>1, <3>1 DEF ToldInv
  <2>3. CASE call.vm.running /\ Goto("start")
    <3>1. call'.pc = "start" /\ call'.vm = call.vm /\ call.vm.cond = "Reconciling"
      BY <2>1, <2>3, GoesOn DEF Unverified, Steps
    <3> QED
      BY <2>1, <3>1 DEF ToldInv
  <2>4. CASE SetCond("Stopped")
    BY <1>1, <2>1, <2>4 DEF ToldInv, Conds
  <2> QED
    BY <1>8, <2>2, <2>3, <2>4 DEF Unwatched
<1> QED
  BY <1>2, <1>3, <1>4, <1>5, <1>6, <1>7, <1>8 DEF RunningStep

\* startInstance tells of the start before there is a watcher.
LEMMA StartTold ==
    ASSUME TypeOK, LagInv, ToldInv, StartStep
    PROVE  ToldInv'
<1>0. watch.phase = "Unknown" /\ vm \in VMObject
  BY DEF StartStep, CleanBeforeStart, StartInstance, SpawnHostagent, StartFails,
         StartWatcher, PIDFileTimeout, LagInv, StageInv, TypeOK
<1>1. CASE CleanBeforeStart
  <2>1. /\ call.pc = "inspect" /\ call'.pc = "start" /\ UNCHANGED <<vm, watch>>
    BY <1>1, GoesOn DEF CleanBeforeStart, Steps, api
  <2> QED
    BY <1>0, <2>1 DEF ToldInv, Told
<1>2. CASE StartInstance
  <2>1. /\ call.pc = "start" /\ call'.pc = "spawn" /\ UNCHANGED watch
        /\ vm' = WithCond("Starting")
    BY <1>2, GoesOn DEF StartInstance, PatchGoto, Write, Steps
  <2>2. Told'
    BY <1>0, <2>1, VMFields DEF WithCond, ToldInv, Told, Conds
  <2> QED
    BY <1>0, <2>1, <2>2 DEF ToldInv
<1>3. CASE SpawnHostagent
  <2>1. /\ call.pc = "spawn" /\ call'.pc = "pid" /\ UNCHANGED <<vm, watch>>
    BY <1>3 DEF SpawnHostagent, TypeOK, Call, api
  <2> QED
    BY <1>0, <2>1 DEF ToldInv, Told
<1>4. CASE StartFails \/ PIDFileTimeout
  <2>1. call'.pc = "idle" /\ UNCHANGED watch
    BY <1>4, NextPC DEF StartFails, PIDFileTimeout
  <2> QED
    BY <1>0, <2>1 DEF ToldInv
<1>5. CASE StartWatcher
  <2>1. call.pc = "pid" /\ call'.pc = "idle" /\ UNCHANGED vm
    BY <1>5, NextPC DEF StartWatcher, api
  <2> QED
    BY <2>1 DEF ToldInv, Told
<1> QED
  BY <1>1, <1>2, <1>3, <1>4, <1>5 DEF StartStep

\* The condition of a watched hostagent: no step but a stop takes it back.
LEMMA ToldStep ==
    ASSUME TypeOK, LagInv, ToldInv, [Next]_vars
    PROVE  ToldInv'
<1>0. vm \in VMObject /\ call \in Call
  BY DEF TypeOK
<1>1. ASSUME vm'.cond = vm.cond, UNCHANGED <<call, watch>> PROVE ToldInv'
  BY <1>1 DEF ToldInv, Told
<1>2. ASSUME vm'.cond = vm.cond, watch' = watch \/ watch'.phase = "Unknown",
             call'.pc \notin {"inspect", "start", "spawn", "pid"}
      PROVE  ToldInv'
  BY <1>2 DEF ToldInv, Told
<1>3. ASSUME watch'.phase = "Unknown", call'.pc = "idle" PROVE ToldInv'
  BY <1>3 DEF ToldInv, Told
<1>4. CASE Reconcile \/ HandleRestartAnnotation
  <2>1. CASE Reconcile
    <3>1. /\ UNCHANGED <<vm, watch>>
          /\ call'.pc \in {"template", "running"}
      BY <2>1 DEF Reconcile, api, Idle
    <3> QED
      BY <1>2, <3>1
  <2>2. CASE HandleRestartAnnotation
    <3>1. vm' \in {[vm EXCEPT !.restart = FALSE], [vm EXCEPT !.needed = TRUE]}
      BY <2>2 DEF HandleRestartAnnotation, Write
    <3>2. vm'.cond = vm.cond
      BY <1>0, <3>1 DEF VMObject
    <3> QED
      BY <1>1, <2>2, <3>2 DEF HandleRestartAnnotation
  <2> QED
    BY <1>4, <2>1, <2>2
<1>5. CASE TemplateStep
  <2>1. /\ UNCHANGED watch /\ call'.pc \in {"idle", "running", "write", "record"}
    BY <1>5, NextPC DEF TemplateStep, SameTemplate, NewTemplate, WriteTemplate,
                        RecordTemplate, Steps
  <2>2. \/ UNCHANGED vm
        \/ vm' = [vm EXCEPT !.needed = TRUE]
        \/ vm' = [vm EXCEPT !.observed = call.cm.rv]
    BY <1>5 DEF TemplateStep, SameTemplate, NewTemplate, WriteTemplate,
                RecordTemplate, PatchGoto, Write, NoWrite, api
  <2>3. vm'.cond = vm.cond
    BY <1>0, <2>2 DEF VMObject
  <2> QED
    BY <1>2, <2>1, <2>3
<1>6. CASE RunningStep
  BY <1>6, RunningTold
<1>7. CASE StartStep
  BY <1>7, StartTold
<1>8. CASE StopStep \/ ReconcileError
  <2>1. CASE FinishStop \/ FinishRestart
    <3>1. watch'.phase = "Unknown" /\ call'.pc = "idle"
      BY <2>1 DEF FinishStop, FinishRestart, StopWatcher, NoWatch, Idle
    <3> QED
      BY <1>3, <3>1
  <2>2. CASE ProcessExited \/ GraceExpired \/ ForceStop \/ KillOrphan \/ ReconcileError
    <3>1. /\ UNCHANGED vm /\ call'.pc \in {"finish", "force", "idle"}
          /\ watch' = watch \/ watch'.phase = "Unknown"
      BY <2>2, NextPC DEF ProcessExited, GraceExpired, ForceStop, KillOrphan,
                          ReconcileError, NoWatch, Steps, api
    <3> QED
      BY <1>2, <3>1
  <2> QED
    BY <1>8, <2>1, <2>2 DEF StopStep
<1>9. CASE \/ \E p \in Pids : HostagentStep(p) \/ PowerOff(p) \/ HostagentCrash(p)
           \/ SyncVM \/ SyncCM \/ EditTemplate \/ UNCHANGED vars
  BY <1>1, <1>9 DEF HostagentStep, CheckPIDFile, WritePIDFile, Boot, EmitRunning,
     EmitExiting, Exit, PowerOff, HostagentCrash, SyncVM, SyncCM, EditTemplate, vars, api
<1>10. CASE SetRunning \/ RequestRestart
  <2>1. vm'.cond = vm.cond
    BY <1>0, <1>10 DEF SetRunning, RequestRestart, Write, VMObject
  <2> QED
    BY <1>1, <1>10, <2>1 DEF SetRunning, RequestRestart
<1>11. CASE WatcherStep \/ WatchFails
  BY <1>11 DEF WatcherStep, WatchRunning, WatchStopped, WatchFails, api, ToldInv, Told
<1>12. CASE ControlPlaneCrash
  BY <1>3, <1>12 DEF ControlPlaneCrash, NoWatch, Idle
<1> QED
  BY <1>4, <1>5, <1>6, <1>7, <1>8, <1>9, <1>10, <1>11, <1>12
     DEF Next, ReconcilerStep, UserStep

\* What the informers, the watcher, a crash and the users do wakes the reconciler.
LEMMA EnvironmentRest ==
    ASSUME TypeOK,
           \/ SyncVM \/ SyncCM \/ WatcherStep \/ WatchFails
           \/ ControlPlaneCrash \/ UserStep
    PROVE  Coming'
<1>1. CASE SyncVM \/ SyncCM \/ WatcherStep \/ WatchFails \/ ControlPlaneCrash
  BY <1>1 DEF SyncVM, SyncCM, WatcherStep, WatchRunning, WatchStopped, WatchFails,
              ControlPlaneCrash, Coming
<1>2. CASE SetRunning
  <2>1. vm.running \in BOOLEAN /\ [vm EXCEPT !.running = ~@].running = ~vm.running
    BY VMFields DEF TypeOK, VMObject
  <2>2. [vm EXCEPT !.running = ~@] # vm
    BY <2>1
  <2> QED
    BY <1>2, <2>2 DEF SetRunning, Write, Coming
<1>3. CASE RequestRestart
  <2>1. [vm EXCEPT !.restart = TRUE].restart
    BY DEF TypeOK, VMObject
  <2>2. ~vm.restart => [vm EXCEPT !.restart = TRUE] # vm
    BY <2>1
  <2> QED
    BY <1>3, <2>2 DEF RequestRestart, Write, Coming
<1>4. CASE EditTemplate
  BY <1>4 DEF EditTemplate, Coming
<1> QED
  BY <1>1, <1>2, <1>3, <1>4 DEF UserStep

\* One case per part of the system.
LEMMA RestStep ==
    ASSUME TypeOK, HostagentInv, LagInv, ToldInv, RestInv, [Next]_vars
    PROVE  RestInv'
<1>1. CASE ReconcilerStep
  BY <1>1, ReconcileRest, TemplateRest, RunningRest, StartRest, StopRest
     DEF ReconcilerStep
<1>2. CASE \E p \in Pids : HostagentStep(p) \/ PowerOff(p) \/ HostagentCrash(p)
  BY <1>2, HostagentRest
<1>3. CASE \/ SyncVM \/ SyncCM \/ WatcherStep \/ WatchFails
           \/ ControlPlaneCrash \/ UserStep
  BY <1>3, EnvironmentRest DEF RestInv
<1>4. CASE UNCHANGED vars
  BY <1>4 DEF vars, RestInv, Coming, Resting, Kept
<1> QED
  BY <1>1, <1>2, <1>3, <1>4 DEF Next

\* What rests has been done, once the hostagents have come to rest as well.
LEMMA RestIsDone ==
    ASSUME TypeOK, LagInv, RestInv
    PROVE  QuietMeansDone
<1> SUFFICES ASSUME Quiet PROVE Done
  BY DEF QuietMeansDone
<1>0. Resting /\ \A p \in Pids : p # NoPid /\ ha[p].st \in {"dead", "running"}
  BY DEF Quiet, RestInv, Coming
<1>1. ASSUME watch.phase \in {"Starting", "Running"}
      PROVE  /\ watch.phase = "Running" /\ watch.proc \in Booted /\ Known
  <2>1. watch.proc \in Pids /\ Alive(watch.proc)
    BY <1>1 DEF LagInv, GuestInv, Quiet
  <2>2. ha[watch.proc].st = "running"
    BY <1>0, <2>1 DEF Alive
  <2> QED
    BY <1>1, <2>1, <2>2 DEF LagInv, GuestInv, Quiet, Booted, Known
<1>2. CASE watch.phase \in {"Starting", "Running"}
  <2>1. vm.running /\ vm.cond = "Started" /\ Kept
    BY <1>0, <1>1, <1>2 DEF Resting
  <2>2. Applied
    BY <1>1, <1>2, <2>1 DEF LagInv, GuestInv, Kept, Applied
  <2> QED
    BY <2>1, <2>2 DEF Done, Kept
<1>3. CASE watch.phase \notin {"Starting", "Running"}
  <2>1. /\ ~vm.running /\ vm.cond = "Stopped" /\ Kept
        /\ \A p \in Pids : ha[p].st \in {"dead", "exiting"}
    BY <1>0, <1>3 DEF Resting
  <2>2. \A p \in Pids : ~Alive(p)
    BY <1>0, <2>1 DEF Alive
  <2> QED
    BY <2>1, <2>2 DEF Done, Kept
<1> QED
  BY <1>2, <1>3

\* The invariants hold in every behaviour.
LEMMA LagAlways ==
    ASSUME Timely
    PROVE  Spec => [](TypeOK /\ LagInv /\ RestInv)
<1>1. Init => RestInv /\ ToldInv
  BY DEF Init, RestInv, Coming, ToldInv, Idle, NoWatch
<1>2. TypeOK /\ HostagentInv /\ [Next]_vars => HostagentInv'
  BY HostagentStepInv
<1>3. TypeOK /\ HostagentInv /\ LagInv /\ [Next]_vars => LagInv'
  BY LagStep
<1>4. TypeOK /\ LagInv /\ ToldInv /\ [Next]_vars => ToldInv'
  BY ToldStep
<1>5. TypeOK /\ HostagentInv /\ LagInv /\ ToldInv /\ RestInv /\ [Next]_vars => RestInv'
  BY RestStep
<1> QED
  BY <1>1, <1>2, <1>3, <1>4, <1>5, HostagentInit, LagInit, TypeCorrect, PTL DEF Spec

\* No wake-up is lost, however far the caches lag, for any number of edits, events
\* and faults: a reconciler that has nothing to do has done everything.
THEOREM QuietDone ==
    ASSUME Timely
    PROVE  Spec => []QuietMeansDone
  BY LagAlways, RestIsDone, PTL

\* What a client reads as Started with the current version is a guest that booted
\* from it, however far the caches lag, unless the guest is not watched: then the
\* reconciler is at work or will be.
THEOREM ObservedRuns ==
    ASSUME Timely
    PROVE  Spec => []ObservedIsRunning
<1>1. ASSUME TypeOK, LagInv, RestInv, vm.cond = "Started", vm.observed = cm.rv
      PROVE  \/ \A p \in Booted : ha[p].tmpl = cm.data
             \/ /\ watch.phase \in {"Unknown", "Stopped"}
                /\ call.pc # "idle" \/ Coming
  <2>1. CASE Known
    BY <1>1, <2>1 DEF LagInv, GuestInv
  <2>2. CASE ~Known
    <3>1. watch.phase \in {"Unknown", "Stopped"}
      BY <1>1, <2>2 DEF Known, TypeOK, Phases
    <3>2. ~Resting
      BY <1>1, <3>1 DEF Resting
    <3> QED
      BY <1>1, <3>1, <3>2 DEF RestInv
  <2> QED
    BY <2>1, <2>2
<1>2. TypeOK /\ LagInv /\ RestInv => ObservedIsRunning
  BY <1>1 DEF ObservedIsRunning, Coming
<1> QED
  BY <1>2, LagAlways, PTL
=============================================================================
