------------------------------ MODULE LimaVMCreate ------------------------------
(***************************************************************************)
(* How a LimaVM comes and goes: the admission webhook that makes its       *)
(* template ConfigMap, the creation of the Lima instance under the         *)
(* .preparing sentinel, and the deletion behind the cleanup finalizer. One *)
(* name is used by several LimaVMs, one after the other.                   *)
(* Source: rdd/pkg/controllers/lima/limavm/controller.go (the webhook),    *)
(* controllers/limavm_controller.go (Reconcile), controllers/              *)
(* limavm_lifecycle.go (handleDeletion) and pkg/controllers/base/          *)
(* finalizer.go. What Reconcile does once Created is True is in LimaVM.    *)
(***************************************************************************)
EXTENDS Naturals

CONSTANTS
    Templates,  \* valid contents of the template ConfigMap
    MaxVMs,     \* how many LimaVMs take the name in turn
    MaxOps,     \* bound on edits and deletions by the user
    MaxFaults,  \* bound on crashes and failed calls
    Lagging,    \* may a call read a cache that misses an earlier write?
    Unmarked    \* may an instance be left between Create and createSentinel?

ASSUME ConstantsAssumption ==
    /\ Templates # {}
    /\ {MaxVMs, MaxOps, MaxFaults} \subseteq Nat
    /\ {Lagging, Unmarked} \subseteq BOOLEAN

Absent == [uid |-> 0]

VARIABLES
    vm,       \* the LimaVM in the API server, or Absent
    cm,       \* the ConfigMap <name>-template, or Absent
    pending,  \* which of the two have a watch event on its way
    vmCache,  \* the informer's copy of vm
    cmCache,  \* the informer's copy of cm
    queued,   \* is a reconcile request pending?
    call,     \* the reconcile in progress: where it stands and its copies
    disk,     \* the instance directory
    agent,    \* its hostagent: none, watched by this process, or on its own
    spent     \* uids given out, user operations, faults

vars == <<vm, cm, pending, vmCache, cmCache, queued, call, disk, agent,
          spent>>
caches == <<vmCache, cmCache>>

Created == {"None", "Pending", "Failed", "True"}
VMObject == {Absent} \cup
    [uid : 1..MaxVMs, deleting : BOOLEAN, running : BOOLEAN, created : Created,
     named : BOOLEAN, observed : Nat]
\* owner = 0: no owner reference yet.
ConfigMap == {Absent} \cup
    [uid : 1..MaxVMs, owner : 0..MaxVMs, rv : Nat, data : Templates]
\* A directory without lima.yaml is no instance to store.Inspect.
NoDir == [state |-> "none"]
Junk  == [state |-> "junk"]
Disk == {NoDir, Junk} \cup
    [state : {"instance"}, yaml : Templates, uid : 1..MaxVMs,
     prepared : BOOLEAN, sentinel : BOOLEAN]
Steps == {"idle", "begin", "owner", "mark", "prepare", "publish", "unmark",
          "delete", "owned", "finalizer"}
Idle == [pc |-> "idle", vm |-> Absent, cm |-> Absent]

\* The types of what the webhook, the reconciler and the user write.
TypeOK ==
    /\ vm \in VMObject /\ vmCache \in VMObject
    /\ cm \in ConfigMap /\ cmCache \in ConfigMap
    /\ pending \subseteq {"vm", "cm"} /\ queued \in BOOLEAN
    /\ call \in [pc : Steps, vm : VMObject, cm : ConfigMap]
    /\ disk \in Disk
    /\ agent \in {"none", "watched", "alone"}
    /\ spent \in [vms : 0..MaxVMs, ops : Nat, faults : Nat, rv : Nat]

Init ==
    /\ vm = Absent /\ vmCache = Absent
    /\ cm = Absent /\ cmCache = Absent
    /\ pending = {} /\ queued = FALSE
    /\ call = Idle
    /\ disk = NoDir
    /\ agent = "none"
    /\ spent = [vms |-> 0, ops |-> 0, faults |-> 0, rv |-> 0]

-----------------------------------------------------------------------------
Exists == disk.state = "instance"
Sentinel == Exists /\ disk.sentinel
Live(obj) == obj # Absent /\ ~obj.deleting

Fault == /\ spent.faults < MaxFaults
         /\ spent' = [spent EXCEPT !.faults = @ + 1]
Fault2 == /\ spent.faults + 1 < MaxFaults
          /\ spent' = [spent EXCEPT !.faults = @ + 2]
UserOp == /\ spent.ops < MaxOps
          /\ spent' = [spent EXCEPT !.ops = @ + 1]

Goto(step) == call' = [call EXCEPT !.pc = step] /\ UNCHANGED queued
Return     == call' = Idle /\ UNCHANGED queued
\* An error, and RequeueAfter.
Requeue    == call' = Idle /\ queued' = TRUE

WriteVM(new) ==
    /\ vm' = new
    /\ pending' = IF new = vm THEN pending ELSE pending \cup {"vm"}
WriteCM(new) ==
    /\ cm' = new
    /\ pending' = IF new = cm THEN pending ELSE pending \cup {"cm"}

\* An Update is refused unless the caller's copy is current.
UpdateVM(copy, new) == WriteVM(IF copy = vm THEN new ELSE vm)

\* CreateFailed is recorded by an Update whose own error is logged only.
CreateFailed(copy) == UpdateVM(copy, [copy EXCEPT !.created = "Failed"])

-----------------------------------------------------------------------------
(* Reconcile *)

Requested == call.pc = "idle" /\ queued /\ (Lagging \/ pending = {})

\* Up to the first decision, on the informer's copy.
Reconcile ==
    /\ Requested
    /\ queued' = FALSE
    /\ call' = IF vmCache = Absent THEN Idle
               ELSE [Idle EXCEPT !.pc = IF vmCache.deleting THEN "delete"
                                                            ELSE "begin",
                                 !.vm = vmCache]
    /\ UNCHANGED <<vm, cm, pending, caches, disk, spent, agent>>

SetPending ==
    /\ call.pc = "begin" /\ call.vm.created = "None"
    /\ UpdateVM(call.vm, [call.vm EXCEPT !.created = "Pending"])
    /\ IF call.vm = vm THEN Return ELSE Requeue
    /\ UNCHANGED <<cm, caches, disk, spent, agent>>

Begun == call.pc = "begin" /\ call.vm.created # "None"

\* Mutant: what the sentinel marks is taken for complete.
HandleSentinelKeeps ==
    /\ Begun /\ Sentinel
    /\ disk' = [disk EXCEPT !.sentinel = FALSE] /\ UNCHANGED spent
    /\ Requeue
    /\ UNCHANGED <<vm, cm, pending, caches, agent>>

\* A sentinel of a created instance goes; any other takes the directory along.
HandleSentinel ==
    /\ Begun /\ Sentinel
    /\ \/ /\ disk' = IF call.vm.created = "True"
                     THEN [disk EXCEPT !.sentinel = FALSE] ELSE NoDir
          /\ UNCHANGED spent
       \/ /\ Fault
          /\ disk' \in IF call.vm.created = "True" THEN {disk} ELSE {disk, Junk}
    /\ Requeue
    /\ UNCHANGED <<vm, cm, pending, caches, agent>>

\* Mutant: the instance goes, its hostagent stays.
DeleteLeftoverUnstopped ==
    /\ Begun /\ ~Sentinel
    /\ IF ~call.vm.named /\ Exists THEN disk' = NoDir ELSE UNCHANGED disk
    /\ Goto("owner")
    /\ UNCHANGED <<vm, cm, pending, caches, spent, agent>>

\* forceStopForDeletion and Lima's forced Delete.
DeleteDisk == disk' = NoDir /\ agent' = "none"

\* Until status.templateConfigMap is set, an instance here is someone else's.
\* A failed Inspect is taken for "there is none", a failed Delete ends the call.
DeleteLeftover ==
    /\ Begun /\ ~Sentinel
    /\ \/ ~call.vm.named /\ Exists /\ DeleteDisk /\ Goto("owner") /\ UNCHANGED spent
       \/ /\ ~call.vm.named /\ Exists /\ Fault
          /\ Goto("owner") \/ Requeue
          /\ UNCHANGED <<disk, agent>>
       \/ /\ call.vm.named \/ ~Exists
          /\ Goto("owner")
          /\ UNCHANGED <<disk, agent, spent>>
    /\ UNCHANGED <<vm, cm, pending, caches>>

\* The ConfigMap is read from the cache here.
Owned == call.pc = "owner" /\ cmCache # Absent /\ cmCache.owner = call.vm.uid

\* No ConfigMap yet, one of another LimaVM, or the owner reference is missing.
SetOwner ==
    /\ call.pc = "owner" /\ ~Owned
    /\ IF cmCache # Absent /\ cmCache.owner = 0 /\ cmCache = cm
       THEN /\ spent' = [spent EXCEPT !.rv = @ + 1]
            /\ WriteCM([cm EXCEPT !.owner = call.vm.uid, !.rv = spent'.rv])
            /\ Return
       ELSE Requeue /\ UNCHANGED <<cm, pending, spent>>
    /\ UNCHANGED <<vm, caches, disk, agent>>

RecordName ==
    /\ Owned /\ ~call.vm.named
    /\ UpdateVM(call.vm, [call.vm EXCEPT !.named = TRUE])
    /\ IF call.vm = vm THEN Return ELSE Requeue
    /\ UNCHANGED <<cm, caches, disk, spent, agent>>

\* handleRestartAnnotation, handleTemplateUpdate and handleRunningState, which
\* LimaVM models: here they may start or stop the hostagent.
AlreadyCreated ==
    /\ Owned /\ call.vm.named /\ call.vm.created = "True"
    /\ agent' \in {agent} \cup {a \in {"none", "watched"} :
                      IF call.vm.running THEN a = "watched" /\ Exists
                                         ELSE a = "none"}
    /\ Return
    /\ UNCHANGED <<vm, cm, pending, caches, disk, spent>>

Wanted == Owned /\ call.vm.named /\ call.vm.created # "True"

\* An instance that is there already is taken as it is.
AdoptExisting ==
    /\ Wanted /\ Exists
    /\ UpdateVM(call.vm, [call.vm EXCEPT !.created = "True",
                                         !.observed = cmCache.rv])
    /\ IF call.vm = vm THEN Return ELSE Requeue
    /\ UNCHANGED <<cm, caches, disk, spent, agent>>

\* limainstance.Create refuses a directory that is there: it is removed. That is
\* a directory without metadata, or an instance that Inspect failed on.
RemoveStale ==
    /\ Wanted /\ disk # NoDir
    /\ \/ disk = Junk /\ disk' = NoDir /\ UNCHANGED spent
       \/ disk = Junk /\ Fault /\ UNCHANGED disk
       \/ Exists /\ Fault /\ disk' = NoDir
    /\ Requeue
    /\ UNCHANGED <<vm, cm, pending, caches, agent>>

CreateInstance ==
    /\ Wanted /\ disk = NoDir
    /\ \/ /\ disk' = [state |-> "instance", yaml |-> cmCache.data,
                      uid |-> call.vm.uid, prepared |-> FALSE,
                      sentinel |-> FALSE]
          /\ call' = [call EXCEPT !.pc = "mark", !.cm = cmCache]
          /\ UNCHANGED <<vm, pending, queued, spent>>
       \/ Fault /\ disk' \in {NoDir, Junk} /\ CreateFailed(call.vm) /\ Requeue
    /\ UNCHANGED <<cm, caches, agent>>

\* Mutant: no sentinel is made.
CreateSentinelSkipped ==
    /\ call.pc = "mark"
    /\ Goto("prepare")
    /\ UNCHANGED <<vm, cm, pending, caches, disk, spent, agent>>

CreateSentinel ==
    /\ call.pc = "mark"
    /\ \/ disk' = [disk EXCEPT !.sentinel = TRUE] /\ Goto("prepare") /\ UNCHANGED spent
       \/ Fault /\ disk' = NoDir /\ Requeue
       \/ Unmarked /\ Fault2 /\ UNCHANGED disk /\ Requeue
    /\ UNCHANGED <<vm, cm, pending, caches, agent>>

\* Mutant: the failure is recorded, but not returned.
PrepareSwallows ==
    /\ call.pc = "prepare"
    /\ \/ /\ disk' = [disk EXCEPT !.prepared = TRUE]
          /\ Goto("publish")
          /\ UNCHANGED <<vm, pending, spent>>
       \/ Fault /\ disk' = NoDir /\ CreateFailed(call.vm) /\ Return
    /\ UNCHANGED <<cm, caches, agent>>

\* extractEmbeddedImage and Prepare, or the clean-up, which may fail as well.
Prepare ==
    /\ call.pc = "prepare"
    /\ \/ /\ disk' = [disk EXCEPT !.prepared = TRUE]
          /\ Goto("publish")
          /\ UNCHANGED <<vm, pending, spent>>
       \/ /\ \/ Fault /\ disk' = NoDir
             \/ Fault2 /\ UNCHANGED disk
          /\ CreateFailed(call.vm) /\ Requeue
    /\ UNCHANGED <<cm, caches, agent>>

\* Mutant: the version is read again, after the template was used.
PublishLatestVersion ==
    /\ call.pc = "publish"
    /\ WriteVM([vm EXCEPT !.created = "True", !.observed = cmCache.rv])
    /\ Goto("unmark")
    /\ UNCHANGED <<cm, caches, disk, spent, agent>>

\* Mutant: the template itself is recorded, not its version.
PublishTemplate ==
    /\ call.pc = "publish"
    /\ WriteVM([vm EXCEPT !.created = "True", !.observed = call.cm.data])
    /\ Goto("unmark")
    /\ UNCHANGED <<cm, caches, disk, spent, agent>>

\* A Patch, which no concurrent write of the object can refuse.
Publish ==
    /\ call.pc = "publish"
    /\ \/ /\ WriteVM([vm EXCEPT !.created = "True", !.observed = call.cm.rv])
          /\ Goto("unmark") /\ UNCHANGED spent
       \/ Fault /\ Requeue /\ UNCHANGED <<vm, pending>>
    /\ UNCHANGED <<cm, caches, disk, agent>>

RemoveSentinel ==
    /\ call.pc = "unmark"
    /\ \/ disk' = [disk EXCEPT !.sentinel = FALSE] /\ Return /\ UNCHANGED spent
       \/ Fault /\ Requeue /\ UNCHANGED disk
    /\ UNCHANGED <<vm, cm, pending, caches, agent>>

\* The API server or the file system refuses the call's next step.
ReconcileError ==
    /\ call.pc \in {"begin", "owner", "finalizer"}
    /\ Fault
    /\ Requeue
    /\ UNCHANGED <<vm, cm, pending, caches, disk, agent>>

-----------------------------------------------------------------------------
(* handleDeletion *)

StopWatcher == agent' = IF agent = "watched" THEN "alone" ELSE agent

\* Mutant: a failed Delete is logged and the call returns no error.
DeleteInstanceSwallows ==
    /\ call.pc = "delete"
    /\ \/ Exists /\ DeleteDisk /\ Goto("owned") /\ UNCHANGED spent
       \/ Exists /\ Fault /\ StopWatcher /\ UNCHANGED disk /\ Return
       \/ ~Exists /\ StopWatcher /\ Goto("owned") /\ UNCHANGED <<disk, spent>>
    /\ UNCHANGED <<vm, cm, pending, caches>>

\* A failed Inspect is taken for "there is none", a failed Delete ends the call;
\* the watcher is stopped in any case.
DeleteInstance ==
    /\ call.pc = "delete"
    /\ \/ Exists /\ DeleteDisk /\ Goto("owned") /\ UNCHANGED spent
       \/ /\ Exists /\ Fault
          /\ StopWatcher /\ UNCHANGED disk
          /\ Goto("owned") \/ Requeue
       \/ ~Exists /\ StopWatcher /\ Goto("owned") /\ UNCHANGED <<disk, spent>>
    /\ UNCHANGED <<vm, cm, pending, caches>>

\* DeleteOwnedResources lists past the cache. It deletes what names this LimaVM
\* as owner, and skips a type that it cannot list.
DeleteOwned ==
    /\ call.pc = "owned"
    /\ LET mine == cm # Absent /\ cm.owner = call.vm.uid IN
       \/ WriteCM(IF mine THEN Absent ELSE cm) /\ Goto("finalizer") /\ UNCHANGED spent
       \/ mine /\ Fault /\ Goto("finalizer") /\ UNCHANGED <<cm, pending>>
       \/ mine /\ Fault /\ Requeue /\ UNCHANGED <<cm, pending>>
    /\ UNCHANGED <<vm, caches, disk, agent>>

\* The object goes with its last finalizer.
RemoveFinalizer ==
    /\ call.pc = "finalizer"
    /\ UpdateVM(call.vm, Absent)
    /\ IF call.vm = vm THEN Return ELSE Requeue
    /\ UNCHANGED <<cm, caches, disk, spent, agent>>

-----------------------------------------------------------------------------
(* The informers, the user with the webhook, the control plane *)

SyncVM ==
    /\ "vm" \in pending
    /\ pending' = pending \ {"vm"}
    /\ vmCache' = vm
    /\ queued' = TRUE
    /\ UNCHANGED <<vm, cm, cmCache, call, disk, spent, agent>>

\* Owns(ConfigMap): only one with an owner reference wakes the reconciler.
SyncCM ==
    /\ "cm" \in pending
    /\ pending' = pending \ {"cm"}
    /\ cmCache' = cm
    /\ queued' = (queued \/ \E c \in {cm, cmCache} : c # Absent /\ c.owner # 0)
    /\ UNCHANGED <<vm, cm, vmCache, call, disk, spent, agent>>

\* Default: reject a name in use, make the ConfigMap, add the cleanup finalizer.
\* The object is made by the API server afterwards, if nothing else refuses it.
CreateVM ==
    /\ spent.vms < MaxVMs
    /\ vm = Absent /\ vmCache = Absent /\ cm = Absent
    /\ \E t \in Templates :
         cm' = [uid |-> spent.vms + 1, owner |-> 0, rv |-> spent.rv + 1, data |-> t]
    /\ \/ /\ vm' = [uid |-> spent.vms + 1, deleting |-> FALSE, running |-> FALSE,
                    created |-> "None", named |-> FALSE, observed |-> 0]
          /\ pending' = {"vm", "cm"}
          /\ spent' = [spent EXCEPT !.vms = @ + 1, !.rv = @ + 1]
       \/ /\ spent.faults < MaxFaults
          /\ pending' = pending \cup {"cm"}
          /\ spent' = [spent EXCEPT !.vms = @ + 1, !.rv = @ + 1, !.faults = @ + 1]
          /\ UNCHANGED vm
    /\ UNCHANGED <<caches, queued, call, disk, agent>>

\* Mutant: no cleanup finalizer, the object goes at once.
DeleteVMAtOnce ==
    /\ Live(vm)
    /\ UserOp
    /\ WriteVM(Absent)
    /\ UNCHANGED <<cm, caches, queued, call, disk, agent>>

DeleteVM ==
    /\ Live(vm)
    /\ UserOp
    /\ WriteVM([vm EXCEPT !.deleting = TRUE])
    /\ UNCHANGED <<cm, caches, queued, call, disk, agent>>

\* Someone else writes the object: the App controller sets spec.running.
EditVM ==
    /\ vm # Absent
    /\ UserOp
    /\ WriteVM([vm EXCEPT !.running = ~@])
    /\ UNCHANGED <<cm, caches, queued, call, disk, agent>>

EditTemplate ==
    /\ cm # Absent
    /\ spent.ops < MaxOps
    /\ spent' = [spent EXCEPT !.ops = @ + 1, !.rv = @ + 1]
    /\ \E t \in Templates : WriteCM([cm EXCEPT !.data = t, !.rv = spent'.rv])
    /\ UNCHANGED <<vm, caches, queued, call, disk, agent>>

\* The informers list everything afresh. limainstance.Create may be cut short.
ControlPlaneCrash ==
    /\ Unmarked \/ call.pc # "mark"
    /\ Fault
    /\ call' = Idle
    /\ vmCache' = vm /\ cmCache' = cm /\ pending' = {}
    /\ queued' = (vm # Absent)
    /\ StopWatcher
    /\ disk' \in {disk} \cup IF Wanted /\ disk = NoDir THEN {Junk} ELSE {}
    /\ UNCHANGED <<vm, cm>>

-----------------------------------------------------------------------------
CreateStep == \/ SetPending \/ HandleSentinel \/ DeleteLeftover \/ SetOwner
              \/ RecordName \/ AlreadyCreated \/ AdoptExisting \/ RemoveStale
              \/ CreateInstance \/ CreateSentinel \/ Prepare \/ Publish
              \/ RemoveSentinel
DeleteStep == DeleteInstance \/ DeleteOwned \/ RemoveFinalizer
ReconcilerStep == Reconcile \/ CreateStep \/ DeleteStep \/ ReconcileError
UserStep == CreateVM \/ DeleteVM \/ EditVM \/ EditTemplate

Next == ReconcilerStep \/ SyncVM \/ SyncCM \/ UserStep \/ ControlPlaneCrash

Spec == Init /\ [][Next]_vars
FairSpec ==
    /\ Spec
    /\ WF_vars(ReconcilerStep) /\ WF_vars(SyncVM) /\ WF_vars(SyncCM)

-----------------------------------------------------------------------------
(* Properties *)

\* Reconcile and handleDeletion: Created=True promises an instance that this
\* LimaVM made, that Prepare finished and that is still there, never one that an
\* interrupted call or an earlier LimaVM of the same name left behind.
CreatedHasInstance ==
    (Live(vm) /\ vm.created = "True")
        => Exists /\ disk.prepared /\ disk.uid = vm.uid

\* forceStopForDeletion: no hostagent is left running without its instance
\* directory, where no later LimaVM of the name could find and stop it.
GuestHasInstance == agent # "none" => Exists

\* The version recorded at creation is that of the template that was used, however
\* often the ConfigMap was edited while the image was extracted.
ObservedOnDisk ==
    (Live(vm) /\ vm.created = "True" /\ cm # Absent /\ vm.observed = cm.rv)
        => disk.yaml = cm.data

\* The Patch at the end of a creation carries neither a resourceVersion nor a
\* uid: only the cleanup finalizer keeps it off a successor of the same name.
PatchHitsOwn ==
    call.pc \in {"mark", "prepare", "publish"} => vm.uid = call.vm.uid

\* When nothing is left that could wake the reconciler, a LimaVM is either gone or
\* created, and nobody will find a sentinel and take its instance for incomplete.
Quiet == call.pc = "idle" /\ ~queued /\ pending = {}
QuietMeansSettled ==
    Quiet => vm = Absent \/ (Live(vm) /\ vm.created = "True" /\ ~Sentinel)

\* A deleted LimaVM goes away: no conflict, crash or failure keeps it for good.
DeletionCompletes == (vm # Absent /\ vm.deleting) ~> vm = Absent

\* A LimaVM is created unless it is deleted first.
CreationCompletes ==
    Live(vm) ~> (vm = Absent \/ vm.deleting \/ vm.created = "True")

\* The template ConfigMap goes with its LimaVM, and leaves the name free.
ConfigMapGoes == (Quiet /\ vm = Absent) => cm = Absent
=============================================================================
