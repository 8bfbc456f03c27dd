-------------------------------- MODULE LimaVM --------------------------------
(***************************************************************************)
(* The running state of one created LimaVM: the LimaVM reconciler, the     *)
(* watcher goroutine it starts for a hostagent, the hostagent processes,   *)
(* and the template ConfigMap the hostagent boots from.                    *)
(* Source: rdd/pkg/controllers/lima/limavm/controllers (limavm_controller, *)
(* limavm_lifecycle, hostagent_watcher) and rdd/pkg/hostagent/command.go.  *)
(*                                                                         *)
(* A call of Reconcile is a sequence of actions: one per status write, one *)
(* per disk write, one per process operation, so that the user, the        *)
(* informers, the watcher and the hostagents interleave with it, and the   *)
(* control plane may crash between any two of them. Reads of the informer  *)
(* cache are merged with the action that follows them: the caches lag by   *)
(* an arbitrary amount already. Creation and deletion of the instance are  *)
(* in LimaVMCreate; here Created is True throughout.                       *)
(***************************************************************************)
EXTENDS Naturals

CONSTANTS
    Pids,          \* the hostagent processes that can be alive at once
    NoPid,         \* no process
    Templates,     \* contents of lima.yaml
    FirstTemplate, \* the content the instance was created with
    MaxOps,        \* bound on what the user does
    MaxFaults,     \* bound on crashes and failed calls
    SlowStart,     \* may a hostagent need more than 5s to write its PID file?
    Lagging,       \* may a call read a cache that misses an earlier write?
    KillFails      \* may a forced kill of the hostagent or the driver fail?

ASSUME ConstantsAssumption ==
    /\ NoPid \notin Pids
    /\ FirstTemplate \in Templates
    /\ MaxOps \in Nat
    /\ MaxFaults \in Nat
    /\ SlowStart \in BOOLEAN
    /\ Lagging \in BOOLEAN
    /\ KillFails \in BOOLEAN

VARIABLES
    vm,        \* the LimaVM object in the API server
    cm,        \* its template ConfigMap in the API server
    pending,   \* which of the two have a watch event on its way
    vmCache,   \* the informer's copy of vm
    cmCache,   \* the informer's copy of cm
    queued,    \* is a reconcile request pending (reconcileChan, workqueue)?
    call,      \* the reconcile in progress: where it stands and its copies
    watch,     \* instanceStates[name]: watched process and observed phase
    disk,      \* the content of lima.yaml in the instance directory
    pidfile,   \* the process named by ha.pid, NoPid when the file is absent
    driver,    \* the hostagent whose VM driver process is alive
    masked,    \* was the PID file of that driver deleted under it?
    ha,        \* the hostagent processes
    spent      \* how much of MaxOps and MaxFaults is used

vars == <<vm, cm, pending, vmCache, cmCache, queued, call, watch, disk, pidfile,
          driver, masked, ha, spent>>
api       == <<vm, cm, pending>>
caches    == <<vmCache, cmCache>>
drivers   == <<driver, masked>>
processes == <<pidfile, drivers, ha>>

\* The Running condition, by its reason; "None" when it was never set.
Conds == {"None", "Reconciling", "Starting", "Started", "Stopped",
          "StartFailed", "StopFailed"}
Phases == {"Unknown", "Starting", "Running", "Stopped"}
Steps == {"idle", "template", "write", "record", "running", "inspect",
          "start", "spawn", "pid", "wait", "force", "finish", "orphan"}
Stages == {"dead", "spawned", "checked", "owner", "booting", "running",
           "exiting"}

VMObject  == [running : BOOLEAN, restart : BOOLEAN, needed : BOOLEAN,
              cond : Conds, observed : Nat, count : Nat]
ConfigMap == [rv : Nat, data : Templates]
Instance  == [agent : Pids \cup {NoPid}, driver : Pids \cup {NoPid}]
Call      == [pc : Steps, vm : VMObject, cm : ConfigMap,
              child : Pids \cup {NoPid}, why : {"stop", "restart"}, inst : Instance]
Hostagent == [st : Stages, tmpl : Templates, ran : BOOLEAN]

NewVM == [running |-> FALSE, restart |-> FALSE, needed |-> FALSE,
          cond |-> "None", observed |-> 1, count |-> 0]
NewCM == [rv |-> 1, data |-> FirstTemplate]
Idle  == [pc |-> "idle", vm |-> NewVM, cm |-> NewCM, child |-> NoPid,
          why |-> "stop", inst |-> [agent |-> NoPid, driver |-> NoPid]]
NoWatch == [proc |-> NoPid, phase |-> "Unknown"]
Dead == [st |-> "dead", tmpl |-> FirstTemplate, ran |-> FALSE]

\* The types: no step, whatever stale copy it writes back, makes another value.
TypeOK ==
    /\ vm \in VMObject
    /\ vmCache \in VMObject
    /\ cm \in ConfigMap
    /\ cmCache \in ConfigMap
    /\ pending \subseteq {"vm", "cm"}
    /\ queued \in BOOLEAN
    /\ call \in Call
    /\ watch \in [proc : Pids \cup {NoPid}, phase : Phases]
    /\ disk \in Templates
    /\ pidfile \in Pids \cup {NoPid}
    /\ driver \in Pids \cup {NoPid}
    /\ masked \in BOOLEAN
    /\ ha \in [Pids -> Hostagent]
    /\ spent \in [ops : Nat, faults : Nat]

Init ==
    /\ vm = NewVM /\ vmCache = NewVM
    /\ cm = NewCM /\ cmCache = NewCM
    /\ pending = {} /\ queued = TRUE
    /\ call = Idle
    /\ watch = NoWatch
    /\ disk = FirstTemplate
    /\ pidfile = NoPid /\ driver = NoPid /\ masked = FALSE
    /\ ha = [p \in Pids |-> Dead]
    /\ spent = [ops |-> 0, faults |-> 0]

-----------------------------------------------------------------------------
(* What the reconciler sees of the processes *)

Alive(p) == p # NoPid /\ ha[p].st # "dead"

\* Lima's ReadPIDFile: a file naming a dead process is no PID file.
LivePid == IF Alive(pidfile) THEN pidfile ELSE NoPid

\* The driver by its PID file.
DriverPid == IF masked THEN NoPid ELSE driver

\* Lima's store.Inspect derives the status from the two PID files.
InstStatus ==
    IF LivePid # NoPid /\ DriverPid # NoPid THEN "Running"
    ELSE IF LivePid = NoPid /\ DriverPid = NoPid THEN "Stopped"
    ELSE "Broken"

\* store.Inspect also deletes a stale PID file, and returns the processes.
Inspected == pidfile' = LivePid
Seen == [agent |-> LivePid, driver |-> DriverPid]

Fault == /\ spent.faults < MaxFaults
         /\ spent' = [spent EXCEPT !.faults = @ + 1]
UserOp == /\ spent.ops < MaxOps
          /\ spent' = [spent EXCEPT !.ops = @ + 1]

Goto(step) == call' = [call EXCEPT !.pc = step]
Return     == call' = Idle /\ UNCHANGED queued
ReturnErr  == call' = Idle /\ queued' = TRUE

\* A write that changes the object makes a watch event.
Write(new) ==
    /\ vm' = new
    /\ pending' = IF new = vm THEN pending ELSE pending \cup {"vm"}
NoWrite == UNCHANGED <<vm, pending>>

\* A merge patch sends the fields that differ from the caller's copy, which may
\* be stale, and leaves the server's answer in that copy.
WithCond(reason) == IF call.vm.cond = reason THEN vm
                    ELSE [vm EXCEPT !.cond = reason]
PatchGoto(new, step) ==
    /\ Write(new)
    /\ call' = [call EXCEPT !.pc = step, !.vm = new]
PatchReturn(new) == Write(new) /\ Return

SetCond(reason) == PatchReturn(WithCond(reason))

\* A condition whose message differs from call to call is sent even when the
\* copy has the same reason.
WithMessage(reason) == {WithCond(reason), [vm EXCEPT !.cond = reason]}

-----------------------------------------------------------------------------
(* Reconcile: the restart annotation and the template *)

Requested == call.pc = "idle" /\ queued /\ (Lagging \/ pending = {})

\* Reconcile of a created instance, up to its first decision.
Reconcile ==
    /\ Requested
    /\ ~vmCache.restart
    /\ queued' = FALSE
    /\ call' = [Idle EXCEPT
                  !.pc = IF cmCache.rv # vmCache.observed
                         THEN "template" ELSE "running",
                  !.vm = vmCache, !.cm = cmCache]
    /\ UNCHANGED <<api, caches, watch, disk, processes, spent>>

\* Mutant: the annotation is dropped and nothing remembers it.
HandleRestartAnnotationForgets ==
    /\ Requested
    /\ vmCache.restart
    /\ queued' = FALSE
    /\ Write([vm EXCEPT !.restart = FALSE])
    /\ UNCHANGED <<cm, caches, call, watch, disk, processes, spent>>

\* Two cycles: persist restartNeeded, then drop the annotation.
HandleRestartAnnotation ==
    /\ Requested
    /\ vmCache.restart
    /\ queued' = FALSE
    /\ Write(IF vmCache.needed THEN [vm EXCEPT !.restart = FALSE]
                               ELSE [vm EXCEPT !.needed = TRUE])
    /\ UNCHANGED <<cm, caches, call, watch, disk, processes, spent>>

\* handleTemplateUpdate with lima.yaml already equal to the ConfigMap.
SameTemplate ==
    /\ call.pc = "template"
    /\ disk = call.cm.data
    /\ \/ call.vm.needed /\ Goto("running") /\ NoWrite /\ UNCHANGED queued
       \/ \* an Update: the API server refuses it unless the copy is current
          /\ ~call.vm.needed /\ call.vm = vm
          /\ PatchGoto([vm EXCEPT !.observed = call.cm.rv], "running")
          /\ UNCHANGED queued
       \/ ~call.vm.needed /\ call.vm # vm /\ ReturnErr /\ NoWrite
    /\ UNCHANGED <<cm, caches, watch, disk, processes, spent>>

\* Mutant: no restart is asked for.
NewTemplateNoRestart ==
    /\ call.pc = "template"
    /\ disk # call.cm.data
    /\ Goto("write") /\ NoWrite
    /\ UNCHANGED <<cm, caches, queued, watch, disk, processes, spent>>

\* Mutant: a hostagent that is still booting is taken to read the new template.
NewTemplateRunningOnly ==
    /\ call.pc = "template"
    /\ disk # call.cm.data
    /\ IF watch.phase = "Running" /\ ~call.vm.needed
       THEN PatchGoto([vm EXCEPT !.needed = TRUE], "write")
       ELSE Goto("write") /\ NoWrite
    /\ UNCHANGED <<cm, caches, queued, watch, disk, processes, spent>>

\* handleTemplateUpdate with a new template: restartNeeded comes first.
NewTemplate ==
    /\ call.pc = "template"
    /\ disk # call.cm.data
    /\ IF watch.phase \in {"Running", "Starting"} /\ ~call.vm.needed
       THEN PatchGoto([vm EXCEPT !.needed = TRUE], "write")
       ELSE Goto("write") /\ NoWrite
    /\ UNCHANGED <<cm, caches, queued, watch, disk, processes, spent>>

\* Mutant: the version is recorded at once, restart or no restart.
WriteTemplateRecords ==
    /\ call.pc = "write"
    /\ disk' = call.cm.data
    /\ Goto("record")
    /\ UNCHANGED <<api, caches, queued, watch, processes, spent>>

WriteTemplate ==
    /\ call.pc = "write"
    /\ disk' = call.cm.data
    /\ Goto(IF call.vm.needed THEN "running" ELSE "record")
    /\ UNCHANGED <<api, caches, queued, watch, processes, spent>>

RecordTemplate ==
    /\ call.pc = "record"
    /\ PatchGoto([vm EXCEPT !.observed = call.cm.rv], "running")
    /\ UNCHANGED <<cm, caches, queued, watch, disk, processes, spent>>

-----------------------------------------------------------------------------
(* handleRunningState *)

Unverified == call.vm.running /\ watch.phase = "Unknown"
              /\ call.vm.cond # "Reconciling"

ResetCondition ==
    /\ call.pc = "running" /\ Unverified
    /\ SetCond("Reconciling")
    /\ UNCHANGED <<cm, caches, queued, watch, disk, processes, spent>>

\* shutdownHostagent, first part: signal the watched process, or go straight
\* to the PID files when it was reaped already. The instance seen now is the one
\* that is killed if it comes to that.
Shutdown(why) ==
    call' = [call EXCEPT !.pc = IF Alive(watch.proc) THEN "wait" ELSE "force",
                         !.why = why, !.inst = Seen]

HandleRestartNeeded ==
    /\ call.pc = "running" /\ ~Unverified /\ call.vm.needed
    /\ \/ /\ watch.phase = "Running"
          /\ Shutdown("restart")
          /\ NoWrite /\ UNCHANGED queued
       \/ watch.phase = "Starting" /\ Return /\ NoWrite
       \/ /\ watch.phase \in {"Stopped", "Unknown"}
          /\ PatchReturn([vm EXCEPT !.needed = FALSE])
    /\ UNCHANGED <<cm, caches, watch, disk, processes, spent>>

Watched == call.pc = "running" /\ ~call.vm.needed /\ watch.phase # "Unknown"

WatchedStarting ==
    /\ Watched /\ watch.phase = "Starting" /\ call.vm.running
    /\ SetCond("Starting")
    /\ UNCHANGED <<cm, caches, watch, disk, processes, spent>>

\* Mutant: the count is written on every reconcile of a running instance.
WatchedRunningRecounts ==
    /\ Watched /\ watch.phase = "Running" /\ call.vm.running
    /\ PatchReturn([vm EXCEPT !.cond = "Started", !.count = call.vm.count + 1])
    /\ UNCHANGED <<cm, caches, watch, disk, processes, spent>>

WatchedRunning ==
    /\ Watched /\ watch.phase = "Running" /\ call.vm.running
    /\ IF call.vm.cond # "Started"
       THEN PatchReturn([vm EXCEPT !.cond = "Started",
                                   !.count = call.vm.count + 1])
       ELSE Return /\ NoWrite
    /\ UNCHANGED <<cm, caches, watch, disk, processes, spent>>

\* The hostagent ended while it should run: drop the watcher, then start over.
WatchedCrashed ==
    /\ Watched /\ watch.phase = "Stopped" /\ call.vm.running
    /\ watch' = NoWatch
    /\ Goto("inspect")
    /\ UNCHANGED <<api, caches, queued, disk, processes, spent>>

WatchedUnwanted ==
    /\ Watched /\ watch.phase \in {"Running", "Starting"} /\ ~call.vm.running
    /\ Inspected
    /\ Shutdown("stop")
    /\ UNCHANGED <<api, caches, queued, watch, disk, drivers, ha, spent>>

WatchedStopped ==
    /\ Watched /\ watch.phase = "Stopped" /\ ~call.vm.running
    /\ watch' = NoWatch
    /\ SetCond("Stopped")
    /\ UNCHANGED <<cm, caches, disk, processes, spent>>

\* handleUnwatchedState: after a restart of the control plane.
Unwatched ==
    /\ call.pc = "running" /\ ~Unverified /\ ~call.vm.needed
    /\ watch.phase = "Unknown"
    /\ Inspected
    /\ \/ /\ InstStatus # "Stopped" /\ NoWrite /\ UNCHANGED queued
          /\ call' = [call EXCEPT !.pc = "orphan", !.inst = Seen]
       \/ /\ InstStatus = "Stopped" /\ call.vm.running
          /\ Goto("start") /\ NoWrite /\ UNCHANGED queued
       \/ InstStatus = "Stopped" /\ ~call.vm.running /\ SetCond("Stopped")
    /\ UNCHANGED <<cm, caches, watch, disk, drivers, ha, spent>>

-----------------------------------------------------------------------------
(* Starting and stopping the hostagent *)

\* stopInstanceForcibly(inst): kill the hostagent of inst, if it still lives,
\* with its process group, and the VM driver of inst, then delete whatever PID
\* files are there: a driver that inst does not name may live on without one.
KillRecorded(inst) ==
    /\ ha' = IF Alive(inst.agent) THEN [ha EXCEPT ![inst.agent].st = "dead"] ELSE ha
    /\ driver' = IF driver = inst.driver \/ (driver = inst.agent /\ Alive(driver))
                 THEN NoPid ELSE driver
    /\ masked' = (driver' # NoPid)
    /\ pidfile' = NoPid
\* A kill that fails leaves the PID files in place.
StopForcibly(inst) ==
    \/ KillRecorded(inst) /\ UNCHANGED spent
    \/ /\ KillFails /\ inst # [agent |-> NoPid, driver |-> NoPid]
       /\ Fault /\ UNCHANGED processes

\* Mutant: the PID files go, the processes stay.
CleanBeforeStartFilesOnly ==
    /\ call.pc = "inspect"
    /\ pidfile' = NoPid /\ masked' = (driver # NoPid)
    /\ UNCHANGED <<driver, ha, spent>>
    /\ Goto("start")
    /\ UNCHANGED <<api, caches, queued, watch, disk>>

CleanBeforeStart ==
    /\ call.pc = "inspect"
    /\ IF InstStatus = "Stopped"
       THEN Inspected /\ UNCHANGED <<drivers, ha, spent>>
       ELSE StopForcibly(Seen)
    /\ Goto("start")
    /\ UNCHANGED <<api, caches, queued, watch, disk>>

\* Mutant: the slow operations first.
StartInstanceSilent ==
    /\ call.pc = "start"
    /\ Goto("spawn")
    /\ UNCHANGED <<api, caches, queued, watch, disk, processes, spent>>

\* startInstance: the condition first, before the slow operations.
StartInstance ==
    /\ call.pc = "start"
    /\ PatchGoto(WithCond("Starting"), "spawn")
    /\ UNCHANGED <<cm, caches, queued, watch, disk, processes, spent>>

\* A process nothing refers to any more: its identifier may be used again.
Free(p) == ~Alive(p) /\ p \notin {watch.proc, pidfile, driver}

SpawnHostagent ==
    /\ call.pc = "spawn"
    /\ \E p \in Pids :
         /\ Free(p)
         /\ ha' = [ha EXCEPT ![p] = [Dead EXCEPT !.st = "spawned"]]
         /\ call' = [call EXCEPT !.pc = "pid", !.child = p]
    /\ UNCHANGED <<api, caches, queued, watch, disk, pidfile, drivers, spent>>

StartFails ==
    /\ call.pc = "spawn"
    /\ Fault
    /\ \E new \in WithMessage("StartFailed") : Write(new)
    /\ ReturnErr
    /\ UNCHANGED <<cm, caches, watch, disk, processes>>

\* waitForPIDFile looks for the file, whoever wrote it; then startWatcher.
StartWatcher ==
    /\ call.pc = "pid"
    /\ pidfile # NoPid
    /\ watch' = [proc |-> call.child, phase |-> "Starting"]
    /\ Return
    /\ UNCHANGED <<api, caches, disk, processes, spent>>

\* waitForPIDFile gives up: the process is left as it is, without a watcher.
PIDFileTimeout ==
    /\ call.pc = "pid"
    /\ pidfile = NoPid
    /\ \/ ~Alive(call.child) /\ UNCHANGED spent
       \/ Alive(call.child) /\ SlowStart /\ Fault
    /\ \E new \in WithMessage("StartFailed") : Write(new)
    /\ ReturnErr
    /\ UNCHANGED <<cm, caches, watch, disk, processes>>

\* shutdownHostagent, second part: the process exits, or 30s pass.
ProcessExited ==
    /\ call.pc = "wait"
    /\ ~Alive(watch.proc)
    /\ Goto("finish")
    /\ UNCHANGED <<api, caches, queued, watch, disk, processes, spent>>

GraceExpired ==
    /\ call.pc = "wait"
    /\ Alive(watch.proc)
    /\ Fault
    /\ Goto("force")
    /\ UNCHANGED <<api, caches, queued, watch, disk, processes>>

ForceStop ==
    /\ call.pc = "force"
    /\ StopForcibly(IF call.why = "stop" THEN call.inst ELSE Seen)
    /\ Goto("finish")
    /\ UNCHANGED <<api, caches, queued, watch, disk>>

\* stopWatcher: a watch that is cut short sets its phase and wakes the
\* reconciler before it ends.
StopWatcher ==
    /\ watch' = NoWatch
    /\ queued' = (queued \/ watch.phase \in {"Starting", "Running"})

\* The end of stopInstance: drop the watcher, verify, record.
FinishStop ==
    /\ call.pc = "finish" /\ call.why = "stop"
    /\ call' = Idle
    /\ \/ /\ InstStatus # "Running"
          /\ StopWatcher /\ Inspected /\ UNCHANGED spent
          /\ \E new \in WithMessage("Stopped") : Write(new)
       \/ /\ watch' = NoWatch /\ queued' = TRUE
          /\ \/ InstStatus = "Running" /\ Inspected /\ UNCHANGED spent
             \/ Fault /\ UNCHANGED pidfile
          /\ \E new \in WithMessage("StopFailed") : Write(new)
    /\ UNCHANGED <<cm, caches, disk, drivers, ha>>

\* handleRestartNeeded clears the flag and records the stop in one patch.
FinishRestart ==
    /\ call.pc = "finish" /\ call.why = "restart"
    /\ call' = Idle
    /\ StopWatcher
    /\ \E new \in WithMessage("Stopped") : Write([new EXCEPT !.needed = FALSE])
    /\ UNCHANGED <<cm, caches, disk, processes, spent>>

\* killOrphanedHostagent: the hostagent seen is asked to stop and given 30s;
\* what is left then, or has no hostagent, is killed. Requeue after 1s.
KillOrphan ==
    /\ call.pc = "orphan"
    /\ \/ /\ call.inst.agent # NoPid /\ InstStatus = "Stopped"
          /\ Inspected /\ UNCHANGED <<drivers, ha, spent>>
       \/ ~Alive(call.inst.agent) /\ StopForcibly(call.inst)
       \/ /\ Alive(call.inst.agent) /\ Fault
          /\ \/ KillRecorded(call.inst)
             \/ KillFails /\ UNCHANGED processes
    /\ ReturnErr
    /\ UNCHANGED <<api, caches, watch, disk>>

\* The watcher is stopped before the write that reports the stop.
StopsWatcher ==
    \/ call.pc = "finish"
    \/ Watched /\ watch.phase = "Stopped" /\ ~call.vm.running

\* Mutant: the error is logged and not returned.
ReconcileErrorSwallowed ==
    /\ call.pc \in {"template", "write", "record", "running", "inspect",
                    "start", "finish"}
    /\ Fault
    /\ watch' = IF StopsWatcher THEN NoWatch ELSE watch
    /\ Return
    /\ UNCHANGED <<api, caches, disk, processes>>

\* A call of the API server, of store.Inspect or of the file system fails and
\* Reconcile returns the error; a watcher stopped before the call is gone.
ReconcileError ==
    /\ call.pc \in {"template", "write", "record", "running", "inspect",
                    "start", "finish"}
    /\ Fault
    /\ watch' = IF StopsWatcher THEN NoWatch ELSE watch
    /\ ReturnErr
    /\ UNCHANGED <<api, caches, disk, processes>>

-----------------------------------------------------------------------------
(* The informers, the watcher goroutine, the hostagents, the user *)

SyncVM ==
    /\ "vm" \in pending
    /\ pending' = pending \ {"vm"}
    /\ vmCache' = vm
    /\ queued' = TRUE
    /\ UNCHANGED <<vm, cm, cmCache, call, watch, disk, processes, spent>>

SyncCM ==
    /\ "cm" \in pending
    /\ pending' = pending \ {"cm"}
    /\ cmCache' = cm
    /\ queued' = TRUE
    /\ UNCHANGED <<vm, cm, vmCache, call, watch, disk, processes, spent>>

\* onEvent reads the Running event of the watched hostagent.
WatchRunning ==
    /\ watch.phase = "Starting" /\ ha[watch.proc].ran
    /\ watch' = [watch EXCEPT !.phase = "Running"]
    /\ queued' = TRUE
    /\ UNCHANGED <<api, caches, call, disk, processes, spent>>

\* Mutant: the watch ends without enqueueReconcile.
WatchStoppedSilent ==
    /\ watch.phase \in {"Starting", "Running"}
    /\ \/ ~Alive(watch.proc)
       \/ /\ ha[watch.proc].st = "exiting"
          /\ ha[watch.proc].ran => watch.phase = "Running"
    /\ watch' = [watch EXCEPT !.phase = "Stopped"]
    /\ UNCHANGED <<api, caches, queued, call, disk, processes, spent>>

\* onEvent reads the Exiting event, which follows the Running event, or
\* cmd.Wait returns, which ends the watch whatever was read.
WatchStopped ==
    /\ watch.phase \in {"Starting", "Running"}
    /\ \/ ~Alive(watch.proc)
       \/ /\ ha[watch.proc].st = "exiting"
          /\ ha[watch.proc].ran => watch.phase = "Running"
    /\ watch' = [watch EXCEPT !.phase = "Stopped"]
    /\ queued' = TRUE
    /\ UNCHANGED <<api, caches, call, disk, processes, spent>>

\* The watch fails, though the hostagent lives: events.Watch cannot read or parse
\* its logs. The phase ends as Stopped all the same.
WatchFails ==
    /\ watch.phase \in {"Starting", "Running"} /\ Alive(watch.proc)
    /\ Fault
    /\ watch' = [watch EXCEPT !.phase = "Stopped"]
    /\ queued' = TRUE
    /\ UNCHANGED <<api, caches, call, disk, processes>>

\* hostagentAction reads the PID file, and gives up if it names a process.
CheckPIDFile(p) ==
    /\ ha[p].st = "spawned"
    /\ ha' = [ha EXCEPT ![p].st = IF LivePid = NoPid THEN "checked" ELSE "dead"]
    /\ Inspected
    /\ UNCHANGED <<api, caches, queued, call, watch, disk, drivers, spent>>

WritePIDFile(p) ==
    /\ ha[p].st = "checked"
    /\ ha' = [ha EXCEPT ![p].st = "owner"]
    /\ pidfile' = p
    /\ UNCHANGED <<api, caches, queued, call, watch, disk, drivers, spent>>

\* hostagent.New loads lima.yaml and Run starts the VM driver. The disk of an
\* instance is locked by its driver: a second one fails.
Boot(p) ==
    /\ ha[p].st = "owner"
    /\ \/ /\ driver = NoPid
          /\ driver' = p
          /\ ha' = [ha EXCEPT ![p].st = "booting", ![p].tmpl = disk]
          /\ UNCHANGED <<pidfile, masked>>
       \/ /\ driver # NoPid
          /\ pidfile' = NoPid
          /\ ha' = [ha EXCEPT ![p].st = "dead"]
          /\ UNCHANGED drivers
    /\ UNCHANGED <<api, caches, queued, call, watch, disk, spent>>

EmitRunning(p) ==
    /\ ha[p].st = "booting"
    /\ ha' = [ha EXCEPT ![p].st = "running", ![p].ran = TRUE]
    /\ UNCHANGED <<api, caches, queued, call, watch, disk, pidfile, drivers, spent>>

\* Has the reconciler sent p an interrupt?
Signalled(p) == \/ call.pc = "wait" /\ watch.proc = p
                \/ call.pc = "orphan" /\ call.inst.agent = p

EmitExiting(p) ==
    /\ ha[p].st \in {"owner", "booting", "running"} /\ Signalled(p)
    /\ ha' = [ha EXCEPT ![p].st = "exiting"]
    /\ UNCHANGED <<api, caches, queued, call, watch, disk, pidfile, drivers, spent>>

\* The guest shuts down by itself.
PowerOff(p) ==
    /\ ha[p].st = "running" /\ Fault
    /\ ha' = [ha EXCEPT ![p].st = "exiting"]
    /\ UNCHANGED <<api, caches, queued, call, watch, disk, pidfile, drivers>>

\* The driver deletes its PID file, or leaves one that names no process.
DriverStops(p) == /\ driver' = IF driver = p THEN NoPid ELSE driver
                  /\ masked' = (masked /\ driver # p)

\* The driver has stopped and the deferred os.RemoveAll deletes the PID file,
\* whichever process it names.
Exit(p) ==
    /\ ha[p].st = "exiting"
    /\ ha' = [ha EXCEPT ![p].st = "dead"]
    /\ pidfile' = NoPid
    /\ DriverStops(p)
    /\ UNCHANGED <<api, caches, queued, call, watch, disk, spent>>

\* A hostagent dies at once: its PID file stays, its VM driver may live on.
HostagentCrash(p) ==
    /\ Alive(p)
    /\ Fault \/ (Signalled(p) /\ ha[p].st \in {"spawned", "checked"}
                  /\ UNCHANGED spent)
    /\ ha' = [ha EXCEPT ![p].st = "dead"]
    /\ UNCHANGED drivers \/ DriverStops(p)
    /\ UNCHANGED <<api, caches, queued, call, watch, disk, pidfile>>

\* The control plane dies and starts again. Hostagents survive: each leads a
\* process group of its own. The informers list everything afresh. The restart
\* outlasts the start of a hostagent, unless that is slow.
ControlPlaneCrash ==
    /\ Fault
    /\ SlowStart \/ \A p \in Pids : ha[p].st \notin {"spawned", "checked"}
    /\ call' = Idle
    /\ watch' = NoWatch
    /\ vmCache' = vm /\ cmCache' = cm
    /\ pending' = {} /\ queued' = TRUE
    /\ UNCHANGED <<vm, cm, disk, processes>>

SetRunning ==
    /\ UserOp
    /\ Write([vm EXCEPT !.running = ~@])
    /\ UNCHANGED <<cm, caches, queued, call, watch, disk, processes>>

RequestRestart ==
    /\ UserOp
    /\ ~vm.restart
    /\ Write([vm EXCEPT !.restart = TRUE])
    /\ UNCHANGED <<cm, caches, queued, call, watch, disk, processes>>

\* The content may stay the same, or go back to an earlier one.
EditTemplate ==
    /\ UserOp
    /\ \E t \in Templates : cm' = [rv |-> cm.rv + 1, data |-> t]
    /\ pending' = pending \cup {"cm"}
    /\ UNCHANGED <<vm, caches, queued, call, watch, disk, processes>>

-----------------------------------------------------------------------------

TemplateStep == SameTemplate \/ NewTemplate \/ WriteTemplate \/ RecordTemplate
RunningStep ==
    \/ ResetCondition \/ HandleRestartNeeded
    \/ WatchedStarting \/ WatchedRunning \/ WatchedCrashed
    \/ WatchedUnwanted \/ WatchedStopped \/ Unwatched
StartStep == \/ CleanBeforeStart \/ StartInstance \/ SpawnHostagent
             \/ StartFails \/ StartWatcher \/ PIDFileTimeout
StopStep  == \/ ProcessExited \/ GraceExpired \/ ForceStop
             \/ FinishStop \/ FinishRestart \/ KillOrphan
ReconcilerStep == \/ Reconcile \/ HandleRestartAnnotation \/ TemplateStep
                  \/ RunningStep \/ StartStep \/ StopStep \/ ReconcileError
WatcherStep == WatchRunning \/ WatchStopped
HostagentStep(p) == \/ CheckPIDFile(p) \/ WritePIDFile(p) \/ Boot(p)
                    \/ EmitRunning(p) \/ EmitExiting(p) \/ Exit(p)
UserStep == SetRunning \/ RequestRestart \/ EditTemplate

Next ==
    \/ ReconcilerStep \/ SyncVM \/ SyncCM \/ WatcherStep
    \/ \E p \in Pids : HostagentStep(p) \/ PowerOff(p) \/ HostagentCrash(p)
    \/ WatchFails \/ ControlPlaneCrash \/ UserStep

Spec == Init /\ [][Next]_vars

Fairness ==
    /\ WF_vars(ReconcilerStep) /\ WF_vars(SyncVM) /\ WF_vars(SyncCM)
    /\ WF_vars(WatcherStep)
    /\ \A p \in Pids : WF_vars(HostagentStep(p))
FairSpec == Spec /\ Fairness

-----------------------------------------------------------------------------
(* Properties *)

Booted == {p \in Pids : ha[p].st \in {"booting", "running"}}

\* A guest is run by the hostagent that ha.pid names, the only one that Inspect,
\* killOrphanedHostagent and stopInstanceForcibly can find. Exit deletes ha.pid
\* and KillRecorded kills by it without looking whose it is: with a second
\* hostagent about, either would hide a running guest from all of them.
NoMaskedHostagent == \A p \in Booted : pidfile = p

\* Why that is so: a hostagent that has not written ha.pid yet is the child of
\* the startInstance in progress, every other one is named by ha.pid, and
\* startInstance begins when none is left. It needs hostagents that are quick to
\* write the file and kills that work: a hostagent that startInstance gave up
\* waiting for, or one that a stop did not find, may write ha.pid at any time.
Early(p) == ha[p].st \in {"spawned", "checked"}
Owner(p) == ha[p].st \in {"owner", "booting", "running", "exiting"}
\* The call is about to kill by an instance it looked at some time ago.
Stopping == \/ call.pc \in {"wait", "force"} /\ call.why = "stop"
            \/ call.pc = "orphan"
HostagentInv ==
    /\ \A p \in Pids : Early(p) => call.pc = "pid" /\ call.child = p
    /\ \A p \in Pids : Owner(p) => pidfile = p
    /\ call.pc \in {"start", "spawn"} =>
         pidfile = NoPid /\ \A p \in Pids : ~Alive(p)
    /\ call.pc = "pid" => /\ pidfile \in {NoPid, call.child}
                          /\ pidfile # NoPid => ~Early(call.child)
    /\ Stopping => \A p \in Pids : Owner(p) => call.inst.agent = p

\* handleTemplateUpdate, and handleRunningState after a crash of the control plane:
\* an observer that sees Started and the current template version sees a guest that
\* booted from that template. The only exception is a guest that the control plane
\* has lost (it restarted, or the watch failed) and that the reconciler is about to
\* look at: a call is in progress, or one is due.
ObservedIsRunning ==
    (vm.cond = "Started" /\ vm.observed = cm.rv) =>
        \/ \A p \in Booted : ha[p].tmpl = cm.data
        \/ /\ watch.phase \in {"Unknown", "Stopped"}
           /\ call.pc # "idle" \/ queued \/ pending # {}

\* What the reconciler works towards.
Applied == Booted # {} /\ \A p \in Booted : ha[p].tmpl = cm.data
Done ==
    /\ ~vm.restart /\ ~vm.needed /\ vm.observed = cm.rv
    /\ IF vm.running THEN vm.cond = "Started" /\ Applied
                     ELSE vm.cond = "Stopped" /\ \A p \in Pids : ~Alive(p)

\* Nothing is left that could wake the reconciler.
Quiet ==
    /\ call.pc = "idle" /\ ~queued /\ pending = {}
    /\ \A p \in Pids : ha[p].st \in {"dead", "running"}
    /\ watch.phase = "Starting" => Alive(watch.proc) /\ ~ha[watch.proc].ran
    /\ watch.phase = "Running" => Alive(watch.proc)

\* No wake-up is lost: a reconciler that has nothing to do has done everything,
\* whatever the order of edits, events, writes and crashes.
QuietMeansDone == Quiet => Done

\* startInstance shows the start to observers before it makes a process: they
\* see Running leave True for every boot.
SpawnVisible == call.pc \in {"spawn", "pid"} => vm.cond = "Starting"

\* Every boot that is reported is announced first and counted once: status moves
\* to Started from Starting only, and restartCount with it, and never otherwise.
BootRecorded ==
    [][IF vm'.cond = "Started" /\ vm.cond # "Started"
       THEN vm.cond = "Starting" /\ vm'.count = vm.count + 1
       ELSE vm'.count = vm.count]_vars

\* While a restart is owed, observedTemplateResourceVersion stays where it is:
\* handleTemplateUpdate leaves it for the cycle after the stop.
ObservedAfterRestart == [][vm'.observed # vm.observed => ~vm.needed]_vars

\* Once the user rests, status and processes come to agree with the spec and
\* the template, and stay there. A driver that outlives its hostagent and whose PID
\* file was deleted by somebody else keeps the disk locked, and no Inspect shows it:
\* each hostagent that is started then fails to boot, for as long as it lives.
Converges == <>[](Done \/ masked)

\* A restart that is asked for ends the process that was running then.
RestartHonoured ==
    \A p \in Pids : (vm.restart /\ ha[p].st = "running") ~> ~Alive(p)

\* A guest with an outdated template is stopped, or its template comes back.
TemplateHonoured ==
    \A p \in Pids, t \in Templates :
        (cm.data = t /\ ha[p].st = "running" /\ ha[p].tmpl # t)
            ~> (~Alive(p) \/ cm.data # t)
=============================================================================
