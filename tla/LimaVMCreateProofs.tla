-------------------------- MODULE LimaVMCreateProofs --------------------------
(***************************************************************************)
(* Theorems about LimaVMCreate, for every number of LimaVMs, templates,    *)
(* operations and faults.                                                  *)
(***************************************************************************)
EXTENDS LimaVMCreate, TLAPS

USE ConstantsAssumption

Creating == {"begin", "owner", "mark", "prepare", "publish", "unmark"}
Making   == {"mark", "prepare", "publish"}
Deleting == {"delete", "owned", "finalizer"}

\* Whose LimaVM a call works for. A uid is given out once; a LimaVM that is
\* being deleted stays so; only the call that has seen it deleted removes it.
UidInv ==
    /\ vm.uid <= spent.vms /\ vmCache.uid <= spent.vms /\ call.vm.uid <= spent.vms
    /\ Live(vmCache) => vm.uid = vmCache.uid
    /\ Live(vm) /\ vmCache.uid = vm.uid => ~vmCache.deleting
    /\ call.pc # "idle" => call.vm # Absent
    /\ call.pc \in Creating => ~call.vm.deleting /\ vm.uid = call.vm.uid
    /\ call.pc \in Deleting =>
         /\ call.vm.deleting
         /\ Live(vm) => vm.uid # call.vm.uid
         /\ Live(vmCache) => vmCache.uid # call.vm.uid
    /\ call.pc \in Making => call.cm # Absent
    /\ call.pc \in Making \cup {"unmark"} => Exists

\* Why no wake-up is lost.
Settled == Live(vm) /\ vm.created = "True" /\ ~Sentinel
Wakes   == \/ queued \/ "vm" \in pending
           \/ /\ "cm" \in pending
              /\ \E c \in {cm, cmCache} : c # Absent /\ c.owner # 0
WakeInv ==
    /\ "vm" \notin pending => vmCache = vm
    /\ \A obj \in {vmCache, call.vm} :
         obj # Absent /\ obj.uid = vm.uid /\ obj.created = "True" => vm.created = "True"
    /\ call.pc = "idle" => vm = Absent \/ Settled \/ Wakes
    /\ call.pc \in Creating /\ vm.deleting => queued \/ "vm" \in pending
    /\ call.pc = "owner" => ~Sentinel
    /\ call.pc = "unmark" => vm.created = "True"
    /\ call.pc \in Making => call.vm.created # "True"

-----------------------------------------------------------------------------
Careful == ~Lagging /\ ~Unmarked
TwoFaults == spent.faults <= 2

\* A call that reads its own writes works with the LimaVM as it is.
FreshInv ==
    /\ "vm" \notin pending => vmCache = vm
    /\ "cm" \notin pending => cmCache = cm
    /\ call.pc # "idle" => vm.uid = call.vm.uid
    /\ call.pc \in Creating \ {"unmark"} =>
         vm.created = call.vm.created /\ vm.named = call.vm.named
    /\ call.pc \in Making => call.vm.created # "True" /\ call.vm.named
    /\ vm # Absent /\ vm.created = "True" => vm.named

\* A version of the ConfigMap is one content.
RvInv ==
    /\ \A c \in {cm, cmCache, call.cm} : c # Absent => c.rv <= spent.rv
    /\ \A c \in {cmCache, call.cm} :
         c # Absent /\ cm # Absent /\ c.rv = cm.rv => c.data = cm.data

\* An instance of an earlier LimaVM is there after a failure only, and takes
\* two more to be taken over.
OwnedBy(u) == \E c \in {cm, cmCache} : c # Absent /\ c.owner = u
Leftover == Exists /\ vm # Absent /\ disk.uid # vm.uid
LeftInv ==
    /\ \A c \in {cm, cmCache} : c # Absent => c.owner <= spent.vms
    /\ Exists => disk.uid <= spent.vms
    /\ Exists /\ (vm = Absent \/ call.pc \in {"owned", "finalizer"}) => spent.faults >= 1
    /\ Leftover => spent.faults >= 1 /\ ~vm.named
    /\ Leftover /\ OwnedBy(vm.uid) => spent.faults >= 2 /\ call.pc # "owner"
    /\ Leftover /\ call.pc = "owner" => spent.faults >= 2

\* The instance of this LimaVM, and its hostagent.
OwnInv ==
    /\ Exists /\ vm # Absent /\ disk.uid = vm.uid /\ vm.created # "True" =>
         disk.sentinel \/ call.pc = "mark"
    /\ call.pc \in Making =>
         /\ disk.uid = call.vm.uid /\ disk.yaml = call.cm.data /\ agent = "none"
         /\ call.pc # "mark" => disk.sentinel
         /\ call.pc = "publish" => disk.prepared
    /\ agent # "none" => Exists /\ ~disk.sentinel
    /\ vm # Absent /\ vm.created = "True" => vm.observed <= spent.rv
    /\ CreatedHasInstance /\ ObservedOnDisk

CareInv == TwoFaults => LeftInv /\ OwnInv

-----------------------------------------------------------------------------
(* Records, and the calls that create *)

\* The records among the LimaVMs.
LEMMA VMRecords ==
    ASSUME NEW w \in [uid : 1..MaxVMs, deleting : BOOLEAN, running : BOOLEAN,
                      created : Created, named : BOOLEAN, observed : Nat]
    PROVE  w \in VMObject /\ w # Absent
<1>1. w.uid \in 1..MaxVMs /\ Absent.uid = 0
  BY DEF Absent
<1> QED
  BY <1>1 DEF VMObject

\* The fields of a LimaVM.
LEMMA VMFields ==
    ASSUME NEW v \in VMObject, v # Absent
    PROVE  /\ v \in [uid : 1..MaxVMs, deleting : BOOLEAN, running : BOOLEAN,
                    created : Created, named : BOOLEAN, observed : Nat]
           /\ v.uid \in 1..MaxVMs /\ v.uid \in 0..MaxVMs /\ v.uid \in Nat
           /\ v.deleting \in BOOLEAN /\ v.named \in BOOLEAN
           /\ v.created \in Created /\ v.observed \in Nat /\ v.running \in BOOLEAN
  BY DEF VMObject

\* Created is written.
LEMMA VMCreated ==
    ASSUME NEW v \in VMObject, v # Absent, NEW c \in Created
    PROVE  /\ [v EXCEPT !.created = c] \in VMObject
           /\ [v EXCEPT !.created = c] # Absent
           /\ [v EXCEPT !.created = c].uid = v.uid
           /\ [v EXCEPT !.created = c].deleting = v.deleting
           /\ [v EXCEPT !.created = c].created = c
           /\ [v EXCEPT !.created = c].named = v.named
           /\ [v EXCEPT !.created = c].observed = v.observed
<1>1. [v EXCEPT !.created = c] \in [uid : 1..MaxVMs, deleting : BOOLEAN, running : BOOLEAN,
             created : Created, named : BOOLEAN, observed : Nat]
  BY VMFields DEF Created
<1> QED
  BY <1>1, VMRecords, VMFields

\* Created and the observed version are written.
Published(v, n) == [v EXCEPT !.created = "True", !.observed = n]

\* What that leaves.
LEMMA VMPublished ==
    ASSUME NEW v \in VMObject, v # Absent, NEW n \in Nat
    PROVE  /\ Published(v, n) \in VMObject /\ Published(v, n) # Absent
           /\ Published(v, n).uid = v.uid
           /\ Published(v, n).deleting = v.deleting
           /\ Published(v, n).created = "True"
           /\ Published(v, n).named = v.named
           /\ Published(v, n).observed = n
<1>1. Published(v, n) \in [uid : 1..MaxVMs, deleting : BOOLEAN, running : BOOLEAN,
                          created : Created, named : BOOLEAN, observed : Nat]
  BY VMFields DEF Created, Published
<1> QED
  BY <1>1, VMRecords, VMFields DEF Published

\* The ConfigMap is named in the status.
LEMMA VMNamed ==
    ASSUME NEW v \in VMObject, v # Absent
    PROVE  /\ [v EXCEPT !.named = TRUE] \in VMObject
           /\ [v EXCEPT !.named = TRUE] # Absent
           /\ [v EXCEPT !.named = TRUE].uid = v.uid
           /\ [v EXCEPT !.named = TRUE].deleting = v.deleting
           /\ [v EXCEPT !.named = TRUE].created = v.created
           /\ [v EXCEPT !.named = TRUE].named = TRUE
           /\ [v EXCEPT !.named = TRUE].observed = v.observed
<1>1. [v EXCEPT !.named = TRUE] \in [uid : 1..MaxVMs, deleting : BOOLEAN, running : BOOLEAN,
             created : Created, named : BOOLEAN, observed : Nat]
  BY VMFields DEF Created
<1> QED
  BY <1>1, VMRecords, VMFields

\* A deletion timestamp is set.
LEMMA VMDeleted ==
    ASSUME NEW v \in VMObject, v # Absent
    PROVE  /\ [v EXCEPT !.deleting = TRUE] \in VMObject
           /\ [v EXCEPT !.deleting = TRUE] # Absent
           /\ [v EXCEPT !.deleting = TRUE].uid = v.uid
           /\ [v EXCEPT !.deleting = TRUE].deleting = TRUE
           /\ [v EXCEPT !.deleting = TRUE].created = v.created
           /\ [v EXCEPT !.deleting = TRUE].named = v.named
           /\ [v EXCEPT !.deleting = TRUE].observed = v.observed
<1>1. [v EXCEPT !.deleting = TRUE] \in [uid : 1..MaxVMs, deleting : BOOLEAN, running : BOOLEAN,
             created : Created, named : BOOLEAN, observed : Nat]
  BY VMFields DEF Created
<1> QED
  BY <1>1, VMRecords, VMFields

\* spec.running is changed.
LEMMA VMEdited ==
    ASSUME NEW v \in VMObject, v # Absent
    PROVE  /\ [v EXCEPT !.running = ~@] \in VMObject
           /\ [v EXCEPT !.running = ~@] # Absent
           /\ [v EXCEPT !.running = ~@].running = ~v.running
           /\ [v EXCEPT !.running = ~@].uid = v.uid
           /\ [v EXCEPT !.running = ~@].deleting = v.deleting
           /\ [v EXCEPT !.running = ~@].created = v.created
           /\ [v EXCEPT !.running = ~@].named = v.named
           /\ [v EXCEPT !.running = ~@].observed = v.observed
<1>1. [v EXCEPT !.running = ~@] \in [uid : 1..MaxVMs, deleting : BOOLEAN, running : BOOLEAN,
             created : Created, named : BOOLEAN, observed : Nat]
  BY VMFields DEF Created
<1> QED
  BY <1>1, VMRecords, VMFields

\* The records among the ConfigMaps.
LEMMA CMRecords ==
    ASSUME NEW w \in [uid : 1..MaxVMs, owner : 0..MaxVMs, rv : Nat, data : Templates]
    PROVE  w \in ConfigMap /\ w # Absent
<1>1. w.uid \in 1..MaxVMs /\ Absent.uid = 0
  BY DEF Absent
<1> QED
  BY <1>1 DEF ConfigMap

\* The fields of a ConfigMap.
LEMMA CMFields ==
    ASSUME NEW c \in ConfigMap, c # Absent
    PROVE  /\ c \in [uid : 1..MaxVMs, owner : 0..MaxVMs, rv : Nat, data : Templates]
           /\ c.uid \in 1..MaxVMs /\ c.owner \in 0..MaxVMs /\ c.rv \in Nat
           /\ c.data \in Templates
  BY DEF ConfigMap

\* The owner reference is set.
LEMMA CMOwned ==
    ASSUME NEW c \in ConfigMap, c # Absent, NEW o \in 0..MaxVMs, NEW n \in Nat
    PROVE  /\ [c EXCEPT !.owner = o, !.rv = n] \in ConfigMap
           /\ [c EXCEPT !.owner = o, !.rv = n] # Absent
           /\ [c EXCEPT !.owner = o, !.rv = n].owner = o
           /\ [c EXCEPT !.owner = o, !.rv = n].rv = n
           /\ [c EXCEPT !.owner = o, !.rv = n].data = c.data
  BY CMFields, CMRecords

\* The template is edited.
LEMMA CMEdited ==
    ASSUME NEW c \in ConfigMap, c # Absent, NEW t \in Templates, NEW n \in Nat
    PROVE  /\ [c EXCEPT !.data = t, !.rv = n] \in ConfigMap
           /\ [c EXCEPT !.data = t, !.rv = n] # Absent
           /\ [c EXCEPT !.data = t, !.rv = n].owner = c.owner
           /\ [c EXCEPT !.data = t, !.rv = n].rv = n
           /\ [c EXCEPT !.data = t, !.rv = n].data = t
  BY CMFields, CMRecords

\* The instance directory.
LEMMA DiskFields ==
    ASSUME NEW d \in Disk, d.state = "instance"
    PROVE  /\ d \in [state : {"instance"}, yaml : Templates, uid : 1..MaxVMs,
                    prepared : BOOLEAN, sentinel : BOOLEAN]
           /\ d.yaml \in Templates /\ d.uid \in 1..MaxVMs
           /\ d.prepared \in BOOLEAN /\ d.sentinel \in BOOLEAN
  BY DEF Disk, NoDir, Junk

\* The sentinel is made or removed.
LEMMA DiskMarked ==
    ASSUME NEW d \in Disk, d.state = "instance", NEW b \in BOOLEAN
    PROVE  /\ [d EXCEPT !.sentinel = b] \in Disk
           /\ [d EXCEPT !.sentinel = b].state = "instance"
           /\ [d EXCEPT !.sentinel = b].sentinel = b
           /\ [d EXCEPT !.sentinel = b].uid = d.uid
           /\ [d EXCEPT !.sentinel = b].yaml = d.yaml
           /\ [d EXCEPT !.sentinel = b].prepared = d.prepared
  BY DiskFields DEF Disk

\* The image is prepared.
LEMMA DiskPrepared ==
    ASSUME NEW d \in Disk, d.state = "instance"
    PROVE  /\ [d EXCEPT !.prepared = TRUE] \in Disk
           /\ [d EXCEPT !.prepared = TRUE].state = "instance"
           /\ [d EXCEPT !.prepared = TRUE].sentinel = d.sentinel
           /\ [d EXCEPT !.prepared = TRUE].uid = d.uid
           /\ [d EXCEPT !.prepared = TRUE].yaml = d.yaml
           /\ [d EXCEPT !.prepared = TRUE].prepared = TRUE
  BY DiskFields DEF Disk

\* A directory that is no instance.
LEMMA DiskStates ==
    /\ NoDir \in Disk /\ Junk \in Disk
    /\ NoDir.state = "none" /\ Junk.state = "junk"
  BY DEF NoDir, Junk, Disk

\* The value of spent.
LEMMA SpentFields ==
    ASSUME TypeOK
    PROVE  /\ spent.vms \in 0..MaxVMs /\ spent.rv \in Nat /\ spent.faults \in Nat
           /\ Fault => /\ spent' \in [vms : 0..MaxVMs, ops : Nat, faults : Nat, rv : Nat]
                       /\ spent'.vms = spent.vms /\ spent'.rv = spent.rv
                       /\ spent'.faults = spent.faults + 1
           /\ Fault2 => /\ spent' \in [vms : 0..MaxVMs, ops : Nat, faults : Nat, rv : Nat]
                        /\ spent'.vms = spent.vms /\ spent'.rv = spent.rv
                        /\ spent'.faults = spent.faults + 2
           /\ UserOp => /\ spent' \in [vms : 0..MaxVMs, ops : Nat, faults : Nat, rv : Nat]
                        /\ spent'.vms = spent.vms /\ spent'.rv = spent.rv
                        /\ spent'.faults = spent.faults
<1>1. spent \in [vms : 0..MaxVMs, ops : Nat, faults : Nat, rv : Nat]
  BY DEF TypeOK
<1> QED
  BY <1>1 DEF Fault, Fault2, UserOp

\* A call that ends, and one that goes on.
LEMMA CallFields ==
    ASSUME TypeOK
    PROVE  /\ call.pc \in Steps /\ call.vm \in VMObject /\ call.cm \in ConfigMap
           /\ Idle \in [pc : Steps, vm : VMObject, cm : ConfigMap]
           /\ Idle.pc = "idle" /\ Idle.vm = Absent
           /\ \A s \in Steps : Goto(s) =>
                /\ call' \in [pc : Steps, vm : VMObject, cm : ConfigMap]
                /\ call'.pc = s /\ call'.vm = call.vm /\ call'.cm = call.cm
           /\ \A c \in ConfigMap :
                LET new == [call EXCEPT !.pc = "mark", !.cm = c]
                IN  /\ new \in [pc : Steps, vm : VMObject, cm : ConfigMap]
                    /\ new.pc = "mark" /\ new.vm = call.vm /\ new.cm = c
<1>1. call \in [pc : Steps, vm : VMObject, cm : ConfigMap]
  BY DEF TypeOK
<1>2. Idle \in [pc : Steps, vm : VMObject, cm : ConfigMap]
  BY DEF Idle, Steps, VMObject, ConfigMap
<1> QED
  BY <1>1, <1>2 DEF Goto, Idle, Steps

\* No object.
LEMMA AbsentFields == Absent \in VMObject /\ Absent \in ConfigMap /\ Absent.uid = 0
  BY DEF Absent, VMObject, ConfigMap

\* A step that makes no new LimaVM and no new copy.
LEMMA UidKept ==
    ASSUME TypeOK, UidInv, vm'.uid = vm.uid, Live(vm)' => Live(vm),
           UNCHANGED vmCache, spent'.vms = spent.vms,
           \/ call' = Idle
           \/ UNCHANGED call /\ (Exists => Exists')
           \/ /\ call.pc \in Creating /\ call'.pc \in Creating /\ call'.vm = call.vm
              /\ call'.pc \in Making => call'.cm # Absent
              /\ call'.pc \in Making \cup {"unmark"} => Exists'
           \/ /\ call.pc \in Deleting /\ call'.pc \in Deleting /\ call'.vm = call.vm
    PROVE  UidInv'
<1>a. spent.vms \in Nat
  BY SpentFields
<1>0. spent.vms \in Nat /\ Idle.pc = "idle" /\ Idle.vm = Absent /\ Absent.uid = 0
  BY <1>a DEF Idle, Absent
<1>1. CASE call' = Idle
  BY <1>0, <1>1 DEF UidInv, Live, Creating, Making, Deleting
<1>2. CASE UNCHANGED call /\ (Exists => Exists')
  BY <1>2 DEF UidInv, Live
<1>3. CASE /\ call.pc \in Creating /\ call'.pc \in Creating /\ call'.vm = call.vm
           /\ call'.pc \in Making => call'.cm # Absent
           /\ call'.pc \in Making \cup {"unmark"} => Exists'
  BY <1>3 DEF UidInv, Live, Creating, Deleting, Making
<1>4. CASE /\ call.pc \in Deleting /\ call'.pc \in Deleting /\ call'.vm = call.vm
  BY <1>4 DEF UidInv, Live, Creating, Deleting, Making
<1> QED
  BY <1>1, <1>2, <1>3, <1>4

\* What an Update of a call's copy leaves: the LimaVM as it was, or the copy
\* with one change.
LEMMA Updated ==
    ASSUME TypeOK, call.vm # Absent, NEW new \in VMObject, new # Absent,
           new.uid = call.vm.uid, new.deleting = call.vm.deleting,
           UpdateVM(call.vm, new)
    PROVE  /\ vm' \in VMObject /\ pending' \subseteq {"vm", "cm"}
           /\ vm'.uid = vm.uid /\ (Live(vm)' <=> Live(vm))
  BY DEF UpdateVM, WriteVM, TypeOK, Live

\* What a Patch leaves.
LEMMA Written ==
    ASSUME TypeOK, vm # Absent, NEW new \in VMObject, new # Absent,
           new.uid = vm.uid, new.deleting = vm.deleting, WriteVM(new)
    PROVE  /\ vm' \in VMObject /\ pending' \subseteq {"vm", "cm"}
           /\ vm'.uid = vm.uid /\ (Live(vm)' <=> Live(vm))
  BY DEF WriteVM, TypeOK, Live

\* The values of the Created condition.
LEMMA CreatedValues == "None" \in Created /\ "Pending" \in Created
                       /\ "Failed" \in Created /\ "True" \in Created
  BY DEF Created

\* A call that creates keeps the types, and works for a LimaVM that is there.
LEMMA CreateTypes ==
    ASSUME TypeOK, UidInv, CreateStep
    PROVE  TypeOK' /\ UidInv'
<1>0. /\ call.pc \in Creating /\ call.vm # Absent
      /\ call.vm \in VMObject /\ call.cm \in ConfigMap /\ call.pc \in Steps
      /\ UNCHANGED <<vmCache, cmCache>>
      /\ vm \in VMObject /\ cm \in ConfigMap /\ disk \in Disk
      /\ pending \subseteq {"vm", "cm"} /\ queued \in BOOLEAN
      /\ vmCache \in VMObject /\ cmCache \in ConfigMap
      /\ agent \in {"none", "watched", "alone"}
      /\ spent \in [vms : 0..MaxVMs, ops : Nat, faults : Nat, rv : Nat]
  <2>1. call.pc \in Creating /\ UNCHANGED <<vmCache, cmCache>>
    BY DEF CreateStep, SetPending, HandleSentinel, DeleteLeftover, SetOwner, RecordName,
         AlreadyCreated, AdoptExisting, RemoveStale, CreateInstance, CreateSentinel,
         Prepare, Publish, RemoveSentinel, Begun, Owned, Wanted, caches, Creating
  <2>2. call.vm # Absent
    BY <2>1 DEF UidInv, Creating
  <2> QED
    BY <2>1, <2>2, CallFields DEF TypeOK
<1>r. ASSUME Return \/ Requeue
      PROVE  call' = Idle /\ call' \in [pc : Steps, vm : VMObject, cm : ConfigMap]
             /\ queued' \in BOOLEAN
  BY <1>0, <1>r, CallFields DEF Return, Requeue
<1>1. CASE SetPending \/ RecordName \/ AdoptExisting
  <2>1. PICK new \in VMObject : /\ new # Absent /\ new.uid = call.vm.uid
                                /\ new.deleting = call.vm.deleting
                                /\ UpdateVM(call.vm, new)
    <3>1. CASE SetPending
      <4> DEFINE new == [call.vm EXCEPT !.created = "Pending"]
      <4>1. new \in VMObject /\ new # Absent /\ new.uid = call.vm.uid
            /\ new.deleting = call.vm.deleting
        BY <1>0, VMCreated, CreatedValues
      <4>2. UpdateVM(call.vm, new)
        BY <3>1 DEF SetPending
      <4> QED
        BY <4>1, <4>2
    <3>2. CASE RecordName
      <4> DEFINE new == [call.vm EXCEPT !.named = TRUE]
      <4>1. new \in VMObject /\ new # Absent /\ new.uid = call.vm.uid
            /\ new.deleting = call.vm.deleting
        BY <1>0, VMNamed
      <4>2. UpdateVM(call.vm, new)
        BY <3>2 DEF RecordName
      <4> QED
        BY <4>1, <4>2
    <3>3. CASE AdoptExisting
      <4>1. cmCache.rv \in Nat
        BY <1>0, <3>3, CMFields DEF AdoptExisting, Wanted, Owned
      <4>a. PICK n \in Nat : n = cmCache.rv
        BY <4>1
      <4> DEFINE new == Published(call.vm, n)
      <4>2. new \in VMObject /\ new # Absent /\ new.uid = call.vm.uid
            /\ new.deleting = call.vm.deleting
        <5>1. call.vm \in VMObject /\ call.vm # Absent
          BY <1>0
        <5> QED
          BY <5>1, VMPublished
      <4>3. UpdateVM(call.vm, new)
        BY <3>3, <4>a DEF AdoptExisting, Published
      <4> QED
        BY <4>2, <4>3
    <3> QED
      BY <1>1, <3>1, <3>2, <3>3
  <2>2. (Return \/ Requeue) /\ UNCHANGED <<cm, disk, spent, agent>>
    BY <1>1 DEF SetPending, RecordName, AdoptExisting
  <2>3. /\ vm' \in VMObject /\ pending' \subseteq {"vm", "cm"}
        /\ vm'.uid = vm.uid /\ (Live(vm)' <=> Live(vm))
    BY <1>0, <2>1, Updated
  <2>4. TypeOK'
    BY <1>0, <1>r, <2>2, <2>3 DEF TypeOK
  <2>5. UidInv'
    BY <1>0, <1>r, <2>2, <2>3, UidKept
  <2> QED
    BY <2>4, <2>5
<1>2. CASE HandleSentinel \/ RemoveStale
  <2>1. /\ UNCHANGED <<vm, cm, pending, agent>> /\ Requeue
        /\ UNCHANGED spent \/ Fault
    BY <1>2 DEF HandleSentinel, RemoveStale
  <2>2. disk' \in Disk
    <3>1. disk' \in {disk, [disk EXCEPT !.sentinel = FALSE], NoDir, Junk}
      BY <1>2 DEF HandleSentinel, RemoveStale
    <3>2. disk' = [disk EXCEPT !.sentinel = FALSE] => Exists \/ disk' \in {disk, NoDir, Junk}
      BY <1>2 DEF HandleSentinel, RemoveStale, Begun, Sentinel
    <3>3. Exists => [disk EXCEPT !.sentinel = FALSE] \in Disk
      BY <1>0, DiskMarked DEF Exists
    <3> QED
      BY <1>0, <3>1, <3>2, <3>3, DiskStates
  <2>3. /\ spent' \in [vms : 0..MaxVMs, ops : Nat, faults : Nat, rv : Nat]
        /\ spent'.vms = spent.vms
    BY <1>0, <2>1, SpentFields
  <2> QED
    BY <1>0, <1>r, <2>1, <2>2, <2>3, UidKept DEF TypeOK
<1>3. CASE DeleteLeftover
  <2>1. /\ UNCHANGED <<vm, cm, pending>> /\ (UNCHANGED spent \/ Fault)
        /\ disk' \in {disk, NoDir} /\ agent' \in {agent, "none"}
        /\ Goto("owner") \/ Requeue
    BY <1>3 DEF DeleteLeftover, DeleteDisk
  <2>2. /\ spent' \in [vms : 0..MaxVMs, ops : Nat, faults : Nat, rv : Nat]
        /\ spent'.vms = spent.vms
    BY <1>0, <2>1, SpentFields
  <2>3. disk' \in Disk /\ agent' \in {"none", "watched", "alone"}
    BY <1>0, <2>1, DiskStates
  <2>4. CASE Goto("owner")
    <3>1. /\ call' \in [pc : Steps, vm : VMObject, cm : ConfigMap]
          /\ call'.pc = "owner" /\ call'.vm = call.vm /\ UNCHANGED queued
      BY <2>4, CallFields DEF Steps, Goto
    <3>2. TypeOK'
      BY <1>0, <2>1, <2>2, <2>3, <3>1 DEF TypeOK
    <3>3. UidInv'
      BY <1>0, <2>1, <2>2, <3>1, UidKept DEF Creating, Making
    <3> QED
      BY <3>2, <3>3
  <2>5. CASE Requeue
    BY <1>0, <1>r, <2>1, <2>2, <2>3, <2>5, UidKept DEF TypeOK
  <2> QED
    BY <2>1, <2>4, <2>5
<1>4. CASE SetOwner
  <2>1. UNCHANGED <<vm, disk, agent>> /\ (Return \/ Requeue)
    BY <1>4 DEF SetOwner
  <2>2. /\ cm' \in ConfigMap /\ pending' \subseteq {"vm", "cm"}
        /\ spent' \in [vms : 0..MaxVMs, ops : Nat, faults : Nat, rv : Nat]
        /\ spent'.vms = spent.vms
    <3>1. CASE cmCache # Absent /\ cmCache.owner = 0 /\ cmCache = cm
      <4>1. spent' = [spent EXCEPT !.rv = @ + 1]
            /\ WriteCM([cm EXCEPT !.owner = call.vm.uid, !.rv = spent'.rv])
        BY <1>4, <3>1 DEF SetOwner
      <4>2. /\ spent' \in [vms : 0..MaxVMs, ops : Nat, faults : Nat, rv : Nat]
            /\ spent'.vms = spent.vms
        BY <1>0, <4>1
      <4>3. call.vm.uid \in 0..MaxVMs /\ spent'.rv \in Nat
        <5>1. call.vm.uid \in 0..MaxVMs
          BY <1>0, VMFields
        <5> QED
          BY <4>2, <5>1
      <4>4. [cm EXCEPT !.owner = call.vm.uid, !.rv = spent'.rv] \in ConfigMap
        BY <1>0, <3>1, <4>3, CMOwned
      <4> QED
        BY <1>0, <4>1, <4>2, <4>4 DEF WriteCM
    <3>2. CASE ~(cmCache # Absent /\ cmCache.owner = 0 /\ cmCache = cm)
      BY <1>0, <1>4, <3>2 DEF SetOwner
    <3> QED
      BY <3>1, <3>2
  <2> QED
    BY <1>0, <1>r, <2>1, <2>2, UidKept DEF TypeOK
<1>5. CASE AlreadyCreated
  <2>1. /\ UNCHANGED <<vm, cm, pending, disk, spent>> /\ Return
        /\ agent' \in {"none", "watched", "alone"}
    BY <1>0, <1>5 DEF AlreadyCreated
  <2> QED
    BY <1>0, <1>r, <2>1, UidKept DEF TypeOK
<1>6. CASE CreateInstance
  <2>1. cmCache # Absent /\ cmCache.data \in Templates /\ UNCHANGED <<cm, agent>>
        /\ call.vm.uid \in 1..MaxVMs
    BY <1>0, <1>6, CMFields, VMFields DEF CreateInstance, Wanted, Owned
  <2>2. CASE /\ disk' = [state |-> "instance", yaml |-> cmCache.data,
                         uid |-> call.vm.uid, prepared |-> FALSE, sentinel |-> FALSE]
             /\ call' = [call EXCEPT !.pc = "mark", !.cm = cmCache]
             /\ UNCHANGED <<vm, pending, queued, spent>>
    <3>1. /\ call' \in [pc : Steps, vm : VMObject, cm : ConfigMap]
          /\ call'.pc = "mark" /\ call'.vm = call.vm /\ call'.cm = cmCache
      BY <1>0, <2>2, CallFields
    <3>2. disk' \in Disk /\ Exists'
      BY <2>1, <2>2 DEF Disk, Exists
    <3>3. TypeOK'
      BY <1>0, <2>1, <2>2, <3>1, <3>2 DEF TypeOK
    <3>4. UidInv'
      BY <1>0, <2>1, <2>2, <3>1, <3>2, UidKept DEF Creating, Making
    <3> QED
      BY <3>3, <3>4
  <2>3. CASE Fault /\ disk' \in {NoDir, Junk} /\ CreateFailed(call.vm) /\ Requeue
    <3> DEFINE new == [call.vm EXCEPT !.created = "Failed"]
    <3>1. /\ new \in VMObject /\ new # Absent /\ new.uid = call.vm.uid
          /\ new.deleting = call.vm.deleting
      BY <1>0, VMCreated, CreatedValues
    <3>2. UpdateVM(call.vm, new)
      BY <2>3 DEF CreateFailed
    <3>3. /\ vm' \in VMObject /\ pending' \subseteq {"vm", "cm"}
          /\ vm'.uid = vm.uid /\ (Live(vm)' <=> Live(vm))
      BY <1>0, <3>1, <3>2, Updated
    <3>4. /\ spent' \in [vms : 0..MaxVMs, ops : Nat, faults : Nat, rv : Nat]
          /\ spent'.vms = spent.vms /\ disk' \in Disk
      BY <2>3, SpentFields, DiskStates
    <3>5. TypeOK'
      BY <1>0, <1>r, <2>1, <2>3, <3>3, <3>4 DEF TypeOK
    <3>6. UidInv'
      BY <1>0, <1>r, <2>3, <3>3, <3>4, UidKept
    <3> QED
      BY <3>5, <3>6
  <2> QED
    BY <1>6, <2>2, <2>3 DEF CreateInstance
<1>7. CASE CreateSentinel
  <2>1. /\ UNCHANGED <<vm, cm, pending, agent>> /\ call.pc = "mark" /\ Exists
        /\ call.cm # Absent
    BY <1>7 DEF CreateSentinel, UidInv, Making
  <2>2. CASE disk' = [disk EXCEPT !.sentinel = TRUE] /\ Goto("prepare") /\ UNCHANGED spent
    <3>1. /\ call' \in [pc : Steps, vm : VMObject, cm : ConfigMap]
          /\ call'.pc = "prepare" /\ call'.vm = call.vm /\ call'.cm = call.cm
          /\ UNCHANGED queued
      BY <2>2, CallFields DEF Steps, Goto
    <3>2. disk' \in Disk /\ Exists'
      BY <1>0, <2>1, <2>2, DiskMarked, DiskPrepared DEF Exists
    <3>3. TypeOK'
      BY <1>0, <2>1, <2>2, <3>1, <3>2 DEF TypeOK
    <3>4. UidInv'
      BY <1>0, <2>1, <2>2, <3>1, <3>2, UidKept DEF Creating, Making
    <3> QED
      BY <3>3, <3>4
  <2>3. CASE disk' \in {disk, NoDir} /\ (Fault \/ Fault2) /\ Requeue
    <3>1. /\ spent' \in [vms : 0..MaxVMs, ops : Nat, faults : Nat, rv : Nat]
          /\ spent'.vms = spent.vms /\ disk' \in Disk
      BY <1>0, <2>3, SpentFields, DiskStates
    <3> QED
      BY <1>0, <1>r, <2>1, <2>3, <3>1, UidKept DEF TypeOK
  <2> QED
    BY <1>7, <2>2, <2>3 DEF CreateSentinel
<1>8. CASE Prepare
  <2>1. /\ UNCHANGED <<cm, agent>> /\ call.pc = "prepare" /\ Exists
        /\ call.cm # Absent
    BY <1>8 DEF Prepare, UidInv, Making
  <2>2. CASE /\ disk' = [disk EXCEPT !.prepared = TRUE] /\ Goto("publish")
             /\ UNCHANGED <<vm, pending, spent>>
    <3>1. /\ call' \in [pc : Steps, vm : VMObject, cm : ConfigMap]
          /\ call'.pc = "publish" /\ call'.vm = call.vm /\ call'.cm = call.cm
          /\ UNCHANGED queued
      BY <2>2, CallFields DEF Steps, Goto
    <3>2. disk' \in Disk /\ Exists'
      BY <1>0, <2>1, <2>2, DiskMarked, DiskPrepared DEF Exists
    <3>3. TypeOK'
      BY <1>0, <2>1, <2>2, <3>1, <3>2 DEF TypeOK
    <3>4. UidInv'
      BY <1>0, <2>1, <2>2, <3>1, <3>2, UidKept DEF Creating, Making
    <3> QED
      BY <3>3, <3>4
  <2>3. CASE disk' \in {disk, NoDir} /\ (Fault \/ Fault2) /\ CreateFailed(call.vm) /\ Requeue
    <3> DEFINE new == [call.vm EXCEPT !.created = "Failed"]
    <3>1. /\ new \in VMObject /\ new # Absent /\ new.uid = call.vm.uid
          /\ new.deleting = call.vm.deleting
      BY <1>0, VMCreated, CreatedValues
    <3>2. UpdateVM(call.vm, new)
      BY <2>3 DEF CreateFailed
    <3>3. /\ vm' \in VMObject /\ pending' \subseteq {"vm", "cm"}
          /\ vm'.uid = vm.uid /\ (Live(vm)' <=> Live(vm))
      BY <1>0, <3>1, <3>2, Updated
    <3>4. /\ spent' \in [vms : 0..MaxVMs, ops : Nat, faults : Nat, rv : Nat]
          /\ spent'.vms = spent.vms /\ disk' \in Disk
      BY <1>0, <2>3, SpentFields, DiskStates
    <3>5. TypeOK'
      BY <1>0, <1>r, <2>1, <2>3, <3>3, <3>4 DEF TypeOK
    <3>6. UidInv'
      BY <1>0, <1>r, <2>3, <3>3, <3>4, UidKept
    <3> QED
      BY <3>5, <3>6
  <2> QED
    BY <1>8, <2>2, <2>3 DEF Prepare
<1>9. CASE Publish
  <2>1. /\ UNCHANGED <<cm, disk, agent>> /\ call.pc = "publish" /\ Exists
        /\ call.cm # Absent /\ vm # Absent
    <3>1. call.vm.uid \in 1..MaxVMs
      BY <1>0, VMFields
    <3>2. vm.uid = call.vm.uid
      BY <1>0 DEF UidInv
    <3>3. vm # Absent
      BY <3>1, <3>2, AbsentFields
    <3> QED
      BY <1>9, <3>3 DEF Publish, UidInv, Making
  <2>2. CASE /\ WriteVM([vm EXCEPT !.created = "True", !.observed = call.cm.rv])
             /\ Goto("unmark") /\ UNCHANGED spent
    <3>1. /\ call' \in [pc : Steps, vm : VMObject, cm : ConfigMap]
          /\ call'.pc = "unmark" /\ call'.vm = call.vm /\ UNCHANGED queued
      BY <2>2, CallFields DEF Steps, Goto
    <3>2. call.cm.rv \in Nat
      BY <1>0, <2>1, CMFields
    <3>3. /\ vm' \in VMObject /\ pending' \subseteq {"vm", "cm"}
          /\ vm'.uid = vm.uid /\ (Live(vm)' <=> Live(vm))
      <4>1. PICK n \in Nat : n = call.cm.rv
        BY <3>2
      <4> DEFINE new == Published(vm, n)
      <4>2. new \in VMObject /\ new # Absent /\ new.uid = vm.uid
            /\ new.deleting = vm.deleting
        <5>1. vm \in VMObject /\ vm # Absent
          BY <1>0, <2>1
        <5> QED
          BY <5>1, VMPublished
      <4>3. WriteVM(new)
        BY <2>2, <4>1 DEF Published
      <4> HIDE DEF new
      <4> QED
        BY <1>0, <2>1, <4>2, <4>3, Written
    <3>4. TypeOK'
      BY <1>0, <2>1, <2>2, <3>1, <3>3 DEF TypeOK
    <3>5. UidInv'
      BY <1>0, <2>1, <2>2, <3>1, <3>3, UidKept DEF Creating, Making, Exists
    <3> QED
      BY <3>4, <3>5
  <2>3. CASE Fault /\ Requeue /\ UNCHANGED <<vm, pending>>
    <3>1. /\ spent' \in [vms : 0..MaxVMs, ops : Nat, faults : Nat, rv : Nat]
          /\ spent'.vms = spent.vms
      BY <2>3, SpentFields
    <3> QED
      BY <1>0, <1>r, <2>1, <2>3, <3>1, UidKept DEF TypeOK
  <2> QED
    BY <1>9, <2>2, <2>3 DEF Publish
<1>10. CASE RemoveSentinel
  <2>1. /\ UNCHANGED <<vm, cm, pending, agent>> /\ call.pc = "unmark" /\ Exists
        /\ Return \/ Requeue
    BY <1>10 DEF RemoveSentinel, UidInv
  <2>2. disk' \in Disk
    <3>1. [disk EXCEPT !.sentinel = FALSE] \in Disk
      BY <1>0, <2>1, DiskMarked DEF Exists
    <3> QED
      BY <1>0, <1>10, <3>1 DEF RemoveSentinel
  <2>3. /\ spent' \in [vms : 0..MaxVMs, ops : Nat, faults : Nat, rv : Nat]
        /\ spent'.vms = spent.vms
    BY <1>0, <1>10, SpentFields DEF RemoveSentinel
  <2> QED
    BY <1>0, <1>r, <2>1, <2>2, <2>3, UidKept DEF TypeOK
<1> QED
  BY <1>1, <1>2, <1>3, <1>4, <1>5, <1>6, <1>7, <1>8, <1>9, <1>10 DEF CreateStep

-----------------------------------------------------------------------------
(* Types, and whose LimaVM a call works for *)

\* The same of the steps of handleDeletion, of the start of a call and of errors.
LEMMA DeleteTypes ==
    ASSUME TypeOK, UidInv, Reconcile \/ DeleteStep \/ ReconcileError
    PROVE  TypeOK' /\ UidInv'
<1>0. /\ call.vm \in VMObject /\ call.cm \in ConfigMap
      /\ vm \in VMObject /\ cm \in ConfigMap /\ disk \in Disk
      /\ pending \subseteq {"vm", "cm"} /\ queued \in BOOLEAN
      /\ vmCache \in VMObject /\ cmCache \in ConfigMap
      /\ agent \in {"none", "watched", "alone"}
      /\ spent \in [vms : 0..MaxVMs, ops : Nat, faults : Nat, rv : Nat]
  BY CallFields DEF TypeOK
<1>r. ASSUME Return \/ Requeue
      PROVE  call' = Idle /\ call' \in [pc : Steps, vm : VMObject, cm : ConfigMap]
             /\ queued' \in BOOLEAN
  BY <1>0, <1>r, CallFields DEF Return, Requeue
<1>g. ASSUME NEW s \in {"owned", "finalizer"}, Goto(s)
      PROVE  /\ call' \in [pc : Steps, vm : VMObject, cm : ConfigMap]
             /\ call'.pc = s /\ call'.vm = call.vm /\ queued' \in BOOLEAN
  BY <1>0, <1>g, CallFields DEF Steps, Goto
<1>s. UNCHANGED spent \/ Fault =>
        /\ spent' \in [vms : 0..MaxVMs, ops : Nat, faults : Nat, rv : Nat]
        /\ spent'.vms = spent.vms
  BY <1>0, SpentFields
<1>1. CASE Reconcile
  <2>1. UNCHANGED <<vm, cm, pending, caches, disk, spent, agent>> /\ queued' = FALSE
    BY <1>1 DEF Reconcile
  <2>2. CASE vmCache = Absent
    <3>1. call' = Idle
      BY <1>1, <2>2 DEF Reconcile
    <3> QED
      BY <1>0, <2>1, <3>1, CallFields, UidKept DEF TypeOK, caches
  <2>3. CASE vmCache # Absent
    <3>1. /\ call' \in [pc : Steps, vm : VMObject, cm : ConfigMap]
          /\ call'.vm = vmCache
          /\ call'.pc = IF vmCache.deleting THEN "delete" ELSE "begin"
      <4>1. call' = [Idle EXCEPT !.pc = IF vmCache.deleting THEN "delete" ELSE "begin",
                                 !.vm = vmCache]
        BY <1>1, <2>3 DEF Reconcile
      <4> QED
        BY <1>0, <4>1, AbsentFields DEF Idle, Steps
    <3>2. TypeOK'
      BY <1>0, <2>1, <3>1 DEF TypeOK, caches
    <3>3. CASE vmCache.deleting
      <4>1. call'.pc = "delete"
        BY <3>1, <3>3
      <4> QED
        BY <2>1, <2>3, <3>1, <3>2, <3>3, <4>1
        DEF UidInv, Live, Creating, Making, Deleting, caches
    <3>4. CASE ~vmCache.deleting
      <4>1. call'.pc = "begin"
        BY <3>1, <3>4
      <4> QED
        BY <2>1, <2>3, <3>1, <3>2, <3>4, <4>1
        DEF UidInv, Live, Creating, Making, Deleting, caches
    <3> QED
      BY <3>3, <3>4
  <2> QED
    BY <2>2, <2>3
<1>2. CASE DeleteInstance
  <2>1. /\ call.pc = "delete" /\ UNCHANGED <<vm, cm, pending, caches>>
        /\ UNCHANGED spent \/ Fault
        /\ disk' \in {disk, NoDir} /\ agent' \in {agent, "none", "alone"}
        /\ Goto("owned") \/ Requeue
    BY <1>2 DEF DeleteInstance, DeleteDisk, StopWatcher
  <2>2. call' \in [pc : Steps, vm : VMObject, cm : ConfigMap] /\ queued' \in BOOLEAN
    BY <1>r, <1>g, <2>1
  <2>3. TypeOK'
    BY <1>0, <1>s, <2>1, <2>2, DiskStates DEF TypeOK, caches
  <2>4. UidInv'
    BY <1>r, <1>g, <1>s, <2>1, UidKept DEF Deleting, caches
  <2> QED
    BY <2>3, <2>4
<1>3. CASE DeleteOwned
  <2>1. /\ call.pc = "owned" /\ UNCHANGED <<vm, caches, disk, agent>>
        /\ UNCHANGED spent \/ Fault
        /\ cm' \in {cm, Absent} /\ pending' \in {pending, pending \cup {"cm"}}
        /\ Goto("finalizer") \/ Requeue
    BY <1>3 DEF DeleteOwned, WriteCM
  <2>2. call' \in [pc : Steps, vm : VMObject, cm : ConfigMap] /\ queued' \in BOOLEAN
    BY <1>r, <1>g, <2>1
  <2>3. TypeOK'
    BY <1>0, <1>s, <2>1, <2>2, AbsentFields DEF TypeOK, caches
  <2>4. UidInv'
    BY <1>r, <1>g, <1>s, <2>1, UidKept DEF Deleting, caches
  <2> QED
    BY <2>3, <2>4
<1>4. CASE RemoveFinalizer
  <2>1. /\ call.pc = "finalizer" /\ UNCHANGED <<cm, caches, disk, spent, agent>>
        /\ Return \/ Requeue
        /\ vm' = IF call.vm = vm THEN Absent ELSE vm
        /\ pending' \in {pending, pending \cup {"vm"}}
    BY <1>4 DEF RemoveFinalizer, UpdateVM, WriteVM
  <2>2. call' \in [pc : Steps, vm : VMObject, cm : ConfigMap] /\ queued' \in BOOLEAN
        /\ call' = Idle
    BY <1>r, <2>1
  <2>3. TypeOK'
    BY <1>0, <2>1, <2>2, AbsentFields DEF TypeOK, caches
  <2>4. spent.vms \in Nat /\ Idle.pc = "idle" /\ Idle.vm = Absent /\ Absent.uid = 0
    BY SpentFields DEF Idle, Absent
  <2>5. CASE call.vm # vm
    BY <2>1, <2>2, <2>3, <2>5, UidKept DEF caches
  <2>6. CASE call.vm = vm
    <3>1. ~Live(vmCache)
      BY <2>1, <2>6 DEF UidInv, Deleting
    <3> QED
      BY <2>1, <2>2, <2>3, <2>4, <2>6, <3>1
      DEF UidInv, Live, caches, Creating, Making, Deleting
  <2> QED
    BY <2>3, <2>5, <2>6
<1>5. CASE ReconcileError
  <2>1. /\ Fault /\ Requeue /\ UNCHANGED <<vm, cm, pending, caches, disk, agent>>
    BY <1>5 DEF ReconcileError
  <2>2. call' \in [pc : Steps, vm : VMObject, cm : ConfigMap] /\ queued' \in BOOLEAN
        /\ call' = Idle
    BY <1>r, <2>1
  <2>3. TypeOK'
    BY <1>0, <1>s, <2>1, <2>2 DEF TypeOK, caches
  <2>4. UidInv'
    BY <1>s, <2>1, <2>2, UidKept DEF caches
  <2> QED
    BY <2>3, <2>4
<1> QED
  BY <1>1, <1>2, <1>3, <1>4, <1>5 DEF DeleteStep

\* An edit of the template, and a creation by the user.
LEMMA SpentTwice ==
    ASSUME NEW s \in [vms : 0..MaxVMs, ops : Nat, faults : Nat, rv : Nat], NEW t
    PROVE  /\ t = [s EXCEPT !.ops = @ + 1, !.rv = @ + 1] =>
                /\ t \in [vms : 0..MaxVMs, ops : Nat, faults : Nat, rv : Nat]
                /\ t.vms = s.vms /\ t.rv = s.rv + 1 /\ t.faults = s.faults
           /\ s.vms < MaxVMs /\ t = [s EXCEPT !.vms = @ + 1, !.rv = @ + 1] =>
                /\ t \in [vms : 0..MaxVMs, ops : Nat, faults : Nat, rv : Nat]
                /\ t.vms = s.vms + 1 /\ t.rv = s.rv + 1 /\ t.faults = s.faults
           /\ /\ s.vms < MaxVMs
              /\ t = [s EXCEPT !.vms = @ + 1, !.rv = @ + 1, !.faults = @ + 1]
              => /\ t \in [vms : 0..MaxVMs, ops : Nat, faults : Nat, rv : Nat]
                 /\ t.vms = s.vms + 1 /\ t.rv = s.rv + 1
                 /\ t.faults = s.faults + 1
<1>0. /\ s.vms \in 0..MaxVMs /\ s.ops \in Nat /\ s.faults \in Nat /\ s.rv \in Nat
      /\ s.vms < MaxVMs => s.vms + 1 \in 0..MaxVMs
      /\ s.ops + 1 \in Nat /\ s.rv + 1 \in Nat /\ s.faults + 1 \in Nat
  OBVIOUS
<1>1. ASSUME t = [s EXCEPT !.ops = @ + 1, !.rv = @ + 1]
      PROVE  t = [vms |-> s.vms, ops |-> s.ops + 1, faults |-> s.faults, rv |-> s.rv + 1]
  BY <1>1
<1>2. ASSUME t = [s EXCEPT !.vms = @ + 1, !.rv = @ + 1]
      PROVE  t = [vms |-> s.vms + 1, ops |-> s.ops, faults |-> s.faults, rv |-> s.rv + 1]
  BY <1>2
<1>3. ASSUME t = [s EXCEPT !.vms = @ + 1, !.rv = @ + 1, !.faults = @ + 1]
      PROVE  t = [vms |-> s.vms + 1, ops |-> s.ops, faults |-> s.faults + 1,
                  rv |-> s.rv + 1]
  BY <1>3
<1> QED
  BY <1>0, <1>1, <1>2, <1>3

\* The same of the informers, the user with the webhook, and a crash.
LEMMA OtherTypes ==
    ASSUME TypeOK, UidInv, SyncVM \/ SyncCM \/ UserStep \/ ControlPlaneCrash
    PROVE  TypeOK' /\ UidInv'
<1>0. /\ call.vm \in VMObject /\ call.cm \in ConfigMap
      /\ vm \in VMObject /\ cm \in ConfigMap /\ disk \in Disk
      /\ pending \subseteq {"vm", "cm"} /\ queued \in BOOLEAN
      /\ vmCache \in VMObject /\ cmCache \in ConfigMap
      /\ agent \in {"none", "watched", "alone"}
      /\ spent \in [vms : 0..MaxVMs, ops : Nat, faults : Nat, rv : Nat]
      /\ call \in [pc : Steps, vm : VMObject, cm : ConfigMap]
      /\ Idle \in [pc : Steps, vm : VMObject, cm : ConfigMap]
      /\ spent.vms \in Nat /\ Idle.pc = "idle" /\ Idle.vm = Absent /\ Absent.uid = 0
  <2>1. /\ vm \in VMObject /\ cm \in ConfigMap /\ disk \in Disk
        /\ pending \subseteq {"vm", "cm"} /\ queued \in BOOLEAN
        /\ vmCache \in VMObject /\ cmCache \in ConfigMap
        /\ agent \in {"none", "watched", "alone"}
        /\ spent \in [vms : 0..MaxVMs, ops : Nat, faults : Nat, rv : Nat]
        /\ call \in [pc : Steps, vm : VMObject, cm : ConfigMap]
    BY DEF TypeOK
  <2>2. /\ call.vm \in VMObject /\ call.cm \in ConfigMap
        /\ Idle \in [pc : Steps, vm : VMObject, cm : ConfigMap]
        /\ Idle.pc = "idle" /\ Idle.vm = Absent /\ Absent.uid = 0
    BY CallFields, AbsentFields
  <2>3. spent.vms \in Nat
    BY <2>1
  <2> QED
    BY <2>1, <2>2, <2>3
<1>1. CASE SyncVM
  <2>1. TypeOK'
    BY <1>0, <1>1 DEF TypeOK, SyncVM
  <2>2. UidInv'
    BY <1>0, <1>1 DEF UidInv, SyncVM, Live, Exists
  <2> QED
    BY <2>1, <2>2
<1>2. CASE SyncCM
  <2>1. TypeOK'
    BY <1>0, <1>2 DEF TypeOK, SyncCM
  <2>2. UidInv'
    BY <1>0, <1>2 DEF UidInv, SyncCM, Live, Exists
  <2> QED
    BY <2>1, <2>2
<1>3. CASE CreateVM
  <2>1. /\ vm = Absent /\ vmCache = Absent /\ cm = Absent /\ spent.vms < MaxVMs
        /\ UNCHANGED <<caches, queued, call, disk, agent>>
        /\ pending' \subseteq {"vm", "cm"}
    BY <1>0, <1>3 DEF CreateVM
  <2>2. /\ spent' \in [vms : 0..MaxVMs, ops : Nat, faults : Nat, rv : Nat]
        /\ spent'.vms = spent.vms + 1
    <3>1. CASE spent' = [spent EXCEPT !.vms = @ + 1, !.rv = @ + 1]
      BY <1>0, <2>1, <3>1, SpentTwice
    <3>2. CASE spent' = [spent EXCEPT !.vms = @ + 1, !.rv = @ + 1, !.faults = @ + 1]
      BY <1>0, <2>1, <3>2, SpentTwice
    <3> QED
      BY <1>3, <3>1, <3>2 DEF CreateVM
  <2>3. cm' \in ConfigMap
    <3>1. PICK t \in Templates :
            cm' = [uid |-> spent.vms + 1, owner |-> 0, rv |-> spent.rv + 1, data |-> t]
      BY <1>3 DEF CreateVM
    <3>2. spent.vms + 1 \in 1..MaxVMs /\ spent.rv + 1 \in Nat /\ 0 \in 0..MaxVMs
      BY <1>0, <2>1
    <3> QED
      BY <3>1, <3>2 DEF ConfigMap
  <2>4. CASE UNCHANGED vm
    <3>1. TypeOK'
      BY <1>0, <2>1, <2>2, <2>3, <2>4 DEF TypeOK, caches
    <3>2. call.vm.uid \in Nat
      BY <1>0, VMFields, AbsentFields
    <3>3. UidInv'
      BY <1>0, <2>1, <2>2, <2>4, <3>2 DEF UidInv, Live, Exists, caches
    <3> QED
      BY <3>1, <3>3
  <2>5. CASE vm' = [uid |-> spent.vms + 1, deleting |-> FALSE, running |-> FALSE,
                    created |-> "None", named |-> FALSE, observed |-> 0]
    <3>1. vm' \in VMObject /\ vm'.uid = spent.vms + 1
      <4>1. spent.vms + 1 \in 1..MaxVMs /\ 0 \in Nat /\ "None" \in Created
        BY <1>0, <2>1 DEF Created
      <4> QED
        BY <2>5, <4>1 DEF VMObject
    <3>2. TypeOK'
      BY <1>0, <2>1, <2>2, <2>3, <3>1 DEF TypeOK, caches
    <3>3. call.vm = Absent \/ call.vm.uid \in 1..spent.vms
      <4>1. call.vm # Absent => call.vm.uid \in 1..MaxVMs
        BY <1>0, VMFields
      <4> QED
        BY <1>0, <4>1 DEF UidInv
    <3>4. call.pc \notin Creating
      BY <1>0, <2>1, <3>3 DEF UidInv, Creating
    <3>5. UidInv'
      BY <1>0, <2>1, <2>2, <3>1, <3>3, <3>4
      DEF UidInv, Live, Exists, caches, Creating, Making
    <3> QED
      BY <3>2, <3>5
  <2> QED
    BY <1>3, <2>4, <2>5 DEF CreateVM
<1>4. CASE DeleteVM \/ EditVM
  <2>1. PICK new \in VMObject :
          /\ new # Absent /\ new.uid = vm.uid
          /\ (new.deleting = vm.deleting \/ new.deleting)
          /\ WriteVM(new)
    <3>1. CASE DeleteVM
      <4> DEFINE new == [vm EXCEPT !.deleting = TRUE]
      <4>1. new \in VMObject /\ new # Absent /\ new.uid = vm.uid /\ new.deleting
        BY <1>0, <3>1, VMDeleted DEF DeleteVM, Live
      <4>2. WriteVM(new)
        BY <3>1 DEF DeleteVM
      <4> QED
        BY <4>1, <4>2
    <3>2. CASE EditVM
      <4> DEFINE new == [vm EXCEPT !.running = ~@]
      <4>1. new \in VMObject /\ new # Absent /\ new.uid = vm.uid
            /\ new.deleting = vm.deleting
        BY <1>0, <3>2, VMEdited DEF EditVM
      <4>2. WriteVM(new)
        BY <3>2 DEF EditVM
      <4> QED
        BY <4>1, <4>2
    <3> QED
      BY <1>4, <3>1, <3>2
  <2>2. /\ UNCHANGED <<cm, caches, queued, call, disk, agent>> /\ UserOp /\ vm # Absent
    BY <1>4 DEF DeleteVM, EditVM, Live
  <2>3. /\ vm' \in VMObject /\ vm'.uid = vm.uid /\ (Live(vm)' => Live(vm))
        /\ pending' \subseteq {"vm", "cm"}
    BY <1>0, <2>1, <2>2 DEF WriteVM, Live
  <2>4. /\ spent' \in [vms : 0..MaxVMs, ops : Nat, faults : Nat, rv : Nat]
        /\ spent'.vms = spent.vms
    BY <2>2, SpentFields
  <2>5. TypeOK'
    BY <1>0, <2>2, <2>3, <2>4 DEF TypeOK, caches
  <2>6. UidInv'
    BY <2>2, <2>3, <2>4, UidKept DEF caches, Exists
  <2> QED
    BY <2>5, <2>6
<1>5. CASE EditTemplate
  <2>1. /\ UNCHANGED <<vm, caches, queued, call, disk, agent>>
        /\ spent' = [spent EXCEPT !.ops = @ + 1, !.rv = @ + 1]
        /\ cm # Absent
    BY <1>5 DEF EditTemplate
  <2>2. /\ spent' \in [vms : 0..MaxVMs, ops : Nat, faults : Nat, rv : Nat]
        /\ spent'.vms = spent.vms /\ spent'.rv \in Nat
    <3>1. spent.rv \in Nat
      BY <1>0
    <3>2. /\ spent' \in [vms : 0..MaxVMs, ops : Nat, faults : Nat, rv : Nat]
          /\ spent'.vms = spent.vms /\ spent'.rv = spent.rv + 1
      BY <1>0, <2>1, SpentTwice
    <3> QED
      BY <3>1, <3>2
  <2>3. PICK t \in Templates : WriteCM([cm EXCEPT !.data = t, !.rv = spent'.rv])
    BY <1>5 DEF EditTemplate
  <2>4. [cm EXCEPT !.data = t, !.rv = spent'.rv] \in ConfigMap
    BY <1>0, <2>1, <2>2, CMEdited
  <2>5. TypeOK'
    BY <1>0, <2>1, <2>2, <2>3, <2>4 DEF TypeOK, WriteCM, caches
  <2>6. UidInv'
    BY <2>1, <2>2, UidKept DEF caches, Exists
  <2> QED
    BY <2>5, <2>6
<1>6. CASE ControlPlaneCrash
  <2>1. /\ Fault /\ call' = Idle /\ vmCache' = vm /\ cmCache' = cm /\ pending' = {}
        /\ queued' \in BOOLEAN /\ agent' \in {agent, "alone"} /\ disk' \in {disk, Junk}
        /\ UNCHANGED <<vm, cm>>
    BY <1>6 DEF ControlPlaneCrash, StopWatcher
  <2>2. /\ spent' \in [vms : 0..MaxVMs, ops : Nat, faults : Nat, rv : Nat]
        /\ spent'.vms = spent.vms
    BY <2>1, SpentFields
  <2>3. TypeOK'
    BY <1>0, <2>1, <2>2, DiskStates DEF TypeOK
  <2>4. UidInv'
    BY <1>0, <2>1, <2>2 DEF UidInv, Live, Creating, Making, Deleting
  <2> QED
    BY <2>3, <2>4
<1> QED
  BY <1>1, <1>2, <1>3, <1>4, <1>5, <1>6 DEF UserStep

\* TypeOK and UidInv, for every number of LimaVMs, operations and faults, whether
\* or not the cache lags: every copy of a LimaVM belongs to a call and an informer
\* that know which one it is.
LEMMA Uids == Spec => [](TypeOK /\ UidInv)
<1>1. Init => TypeOK /\ UidInv
  <2> SUFFICES ASSUME Init PROVE TypeOK /\ UidInv
    OBVIOUS
  <2>1. TypeOK
    <3>1. Idle \in [pc : Steps, vm : VMObject, cm : ConfigMap]
      BY DEF Idle, Steps, VMObject, ConfigMap
    <3>2. [vms |-> 0, ops |-> 0, faults |-> 0, rv |-> 0]
            \in [vms : 0..MaxVMs, ops : Nat, faults : Nat, rv : Nat]
      BY DEF ConstantsAssumption
    <3> QED
      BY <3>1, <3>2, AbsentFields, DiskStates DEF Init, TypeOK
  <2>2. UidInv
    BY DEF Init, UidInv, Live, Idle, Absent, Creating, Making, Deleting
  <2> QED
    BY <2>1, <2>2
<1>2. TypeOK /\ UidInv /\ [Next]_vars => TypeOK' /\ UidInv'
  <2> SUFFICES ASSUME TypeOK, UidInv, [Next]_vars
               PROVE  TypeOK' /\ UidInv'
    OBVIOUS
  <2>1. CASE Next
    BY <2>1, CreateTypes, DeleteTypes, OtherTypes DEF Next, ReconcilerStep
  <2>2. CASE UNCHANGED vars
    BY <2>2 DEF vars, TypeOK, UidInv, Live, Exists
  <2> QED
    BY <2>1, <2>2
<1> QED
  BY <1>1, <1>2, PTL DEF Spec

\* For every number of LimaVMs, operations and faults, and although an informer
\* may miss what was written: the types hold, and the Patch that ends a creation
\* goes to the LimaVM that the creation was for, never to a successor of its name.
THEOREM PatchesOwn == Spec => [](TypeOK /\ PatchHitsOwn)
<1>1. UidInv => PatchHitsOwn
  BY DEF UidInv, PatchHitsOwn, Creating
<1> QED
  BY <1>1, Uids, PTL

-----------------------------------------------------------------------------
(* Wake-ups *)

\* A step that writes the LimaVM, if at all, as its informer will tell, and
\* that ends the call with a request or goes on with it.
LEMMA WakeKept ==
    ASSUME TypeOK, UidInv, WakeInv, UNCHANGED vmCache,
           \/ vm' = vm
           \/ /\ "vm" \in pending' /\ vm'.uid = vm.uid
              /\ vm.created = "True" => vm'.created = "True",
           pending \subseteq pending', queued => queued',
           \/ call' = Idle /\ (queued' \/ "vm" \in pending' \/ vm' = Absent)
           \/ /\ call.pc \in Creating /\ call'.pc \in Creating /\ call'.vm = call.vm
              /\ call'.pc = "owner" => ~Sentinel'
              /\ call'.pc = "unmark" => vm'.created = "True"
              /\ call'.pc \in Making => call.vm.created # "True"
           \/ call'.pc \in Deleting /\ call'.vm = call.vm
    PROVE  WakeInv'
<1>0. Idle.pc = "idle" /\ Idle.vm = Absent
  BY DEF Idle
<1>1. /\ "vm" \notin pending' => vmCache' = vm'
      /\ vmCache # Absent /\ vmCache.uid = vm'.uid /\ vmCache.created = "True"
           => vm'.created = "True"
      /\ call.vm # Absent /\ call.vm.uid = vm'.uid /\ call.vm.created = "True"
           => vm'.created = "True"
  BY DEF WakeInv
<1>2. CASE call' = Idle /\ (queued' \/ "vm" \in pending' \/ vm' = Absent)
  BY <1>0, <1>1, <1>2 DEF WakeInv, Wakes, Creating, Making
<1>3. CASE /\ call.pc \in Creating /\ call'.pc \in Creating /\ call'.vm = call.vm
           /\ call'.pc = "owner" => ~Sentinel'
           /\ call'.pc = "unmark" => vm'.created = "True"
           /\ call'.pc \in Making => call.vm.created # "True"
  <2>1. call'.pc # "idle"
    BY <1>3 DEF Creating
  <2>2. vm'.deleting => queued' \/ "vm" \in pending'
    BY <1>3 DEF WakeInv
  <2>3. \A obj \in {vmCache', call'.vm} :
          obj # Absent /\ obj.uid = vm'.uid /\ obj.created = "True" => vm'.created = "True"
    BY <1>1, <1>3
  <2> QED
    BY <1>1, <1>3, <2>1, <2>2, <2>3 DEF WakeInv
<1>4. CASE call'.pc \in Deleting /\ call'.vm = call.vm
  <2>1. \A obj \in {vmCache', call'.vm} :
          obj # Absent /\ obj.uid = vm'.uid /\ obj.created = "True" => vm'.created = "True"
    BY <1>1, <1>4
  <2> QED
    BY <1>1, <1>4, <2>1 DEF WakeInv, Deleting, Creating, Making
<1> QED
  BY <1>2, <1>3, <1>4

\* What an Update leaves is its new value, or the LimaVM as it was.
LEMMA UpdateWakes ==
    ASSUME TypeOK, NEW new, UpdateVM(call.vm, new), new # call.vm
    PROVE  /\ pending \subseteq pending'
           /\ vm' = vm \/ (vm' = new /\ call.vm = vm /\ "vm" \in pending')
           /\ call.vm = vm => vm' = new /\ "vm" \in pending'
  BY DEF UpdateVM, WriteVM

\* What no step of a call that creates does.
LEMMA CreateWakes ==
    ASSUME TypeOK, UidInv, WakeInv, CreateStep
    PROVE  WakeInv'
<1>0. /\ call.pc \in Creating /\ call.vm # Absent /\ call.vm \in VMObject
      /\ UNCHANGED vmCache /\ Idle.pc = "idle" /\ Idle.vm = Absent
  <2>1. call.pc \in Creating /\ UNCHANGED <<vmCache, cmCache>>
    BY DEF CreateStep, SetPending, HandleSentinel, DeleteLeftover, SetOwner, RecordName,
         AlreadyCreated, AdoptExisting, RemoveStale, CreateInstance, CreateSentinel,
         Prepare, Publish, RemoveSentinel, Begun, Owned, Wanted, caches, Creating
  <2>2. call.vm # Absent
    BY <2>1 DEF UidInv, Creating
  <2> QED
    BY <2>1, <2>2, CallFields DEF Idle
<1>1. CASE SetPending \/ RecordName \/ AdoptExisting
  <2>1. PICK new : /\ new # call.vm /\ new.uid = call.vm.uid
                   /\ call.vm.created = "True" => new.created = "True"
                   /\ UpdateVM(call.vm, new)
    <3>1. CASE SetPending
      <4> DEFINE new == [call.vm EXCEPT !.created = "Pending"]
      <4>1. new.uid = call.vm.uid /\ new.created = "Pending"
        BY <1>0, VMCreated, CreatedValues
      <4>2. UpdateVM(call.vm, new) /\ call.vm.created = "None"
        BY <3>1 DEF SetPending
      <4> HIDE DEF new
      <4> QED
        BY <4>1, <4>2
    <3>2. CASE RecordName
      <4> DEFINE new == [call.vm EXCEPT !.named = TRUE]
      <4>1. new.uid = call.vm.uid /\ new.created = call.vm.created /\ new.named = TRUE
        BY <1>0, VMNamed
      <4>2. UpdateVM(call.vm, new) /\ ~call.vm.named
        BY <3>2 DEF RecordName
      <4> HIDE DEF new
      <4> QED
        BY <4>1, <4>2
    <3>3. CASE AdoptExisting
      <4>1. cmCache.rv \in Nat
        BY <3>3, CMFields DEF AdoptExisting, Wanted, Owned, TypeOK
      <4>2. PICK n \in Nat : n = cmCache.rv
        BY <4>1
      <4> DEFINE new == Published(call.vm, n)
      <4>3. new.uid = call.vm.uid /\ new.created = "True"
        <5>1. call.vm \in VMObject /\ call.vm # Absent
          BY <1>0
        <5> QED
          BY <5>1, VMPublished
      <4>4. UpdateVM(call.vm, new) /\ call.vm.created # "True"
        BY <3>3, <4>2 DEF AdoptExisting, Wanted, Published
      <4> HIDE DEF new
      <4> QED
        BY <4>3, <4>4
    <3> QED
      BY <1>1, <3>1, <3>2, <3>3
  <2>2. call' = Idle /\ (queued => queued') /\ (call.vm # vm => queued')
    BY <1>1 DEF SetPending, RecordName, AdoptExisting, Return, Requeue
  <2>3. /\ pending \subseteq pending'
        /\ vm' = vm \/ (vm' = new /\ call.vm = vm /\ "vm" \in pending')
        /\ call.vm = vm => vm' = new /\ "vm" \in pending'
    BY <2>1, UpdateWakes
  <2>4. vm' = vm \/ ("vm" \in pending' /\ vm'.uid = vm.uid
                     /\ (vm.created = "True" => vm'.created = "True"))
    BY <2>1, <2>3
  <2> QED
    BY <1>0, <2>2, <2>3, <2>4, WakeKept
<1>2. CASE HandleSentinel \/ RemoveStale \/ DeleteLeftover \/ CreateSentinel
  <2>1. UNCHANGED <<vm, pending>> /\ (queued => queued')
    BY <1>2 DEF HandleSentinel, RemoveStale, DeleteLeftover, CreateSentinel, Goto, Requeue
  <2>2. CASE Requeue
    BY <1>0, <2>1, <2>2, WakeKept DEF Requeue
  <2>3. CASE DeleteLeftover /\ Goto("owner")
    <3>1. call'.pc = "owner" /\ call'.vm = call.vm
      BY <2>3, CallFields DEF Steps
    <3>2. ~Sentinel'
      BY <2>3 DEF DeleteLeftover, DeleteDisk, Sentinel, Exists, NoDir
    <3> QED
      BY <1>0, <2>1, <3>1, <3>2, WakeKept DEF Creating, Making
  <2>4. CASE CreateSentinel /\ Goto("prepare")
    <3>1. call'.pc = "prepare" /\ call'.vm = call.vm /\ call.pc = "mark"
      BY <2>4, CallFields DEF Steps, CreateSentinel
    <3>2. call.vm.created # "True"
      BY <3>1 DEF WakeInv, Making
    <3> QED
      BY <1>0, <2>1, <3>1, <3>2, WakeKept DEF Creating, Making
  <2> QED
    BY <1>2, <2>2, <2>3, <2>4 DEF HandleSentinel, RemoveStale, DeleteLeftover, CreateSentinel
<1>3. CASE SetOwner
  <2>1. UNCHANGED <<vm, disk>>
    BY <1>3 DEF SetOwner
  <2>2. CASE Requeue
    <3>1. pending \subseteq pending'
      BY <1>3 DEF SetOwner, WriteCM
    <3> QED
      BY <1>0, <2>1, <2>2, <3>1, WakeKept DEF Requeue
  <2>3. CASE cmCache # Absent /\ cmCache.owner = 0 /\ cmCache = cm
    <3> DEFINE n == spent'.rv
    <3>1. /\ WriteCM([cm EXCEPT !.owner = call.vm.uid, !.rv = n]) /\ Return
          /\ spent' = [spent EXCEPT !.rv = @ + 1]
      BY <1>3, <2>3 DEF SetOwner
    <3>2. n \in Nat /\ call.vm.uid \in 1..MaxVMs
      <4>1. spent \in [vms : 0..MaxVMs, ops : Nat, faults : Nat, rv : Nat]
        BY DEF TypeOK
      <4>2. spent'.rv \in Nat
        BY <3>1, <4>1
      <4>3. call.vm.uid \in 1..MaxVMs
        BY <1>0, VMFields
      <4> QED
        BY <4>2, <4>3
    <3>3. cm' = [cm EXCEPT !.owner = call.vm.uid, !.rv = n]
      BY <3>1 DEF WriteCM
    <3>4. cm' # Absent /\ cm'.owner = call.vm.uid
      <4>1. cm \in ConfigMap /\ cm # Absent
        BY <2>3 DEF TypeOK
      <4>2. cm \in [uid : 1..MaxVMs, owner : 0..MaxVMs, rv : Nat, data : Templates]
        BY <4>1, CMFields
      <4>3. cm'.owner = call.vm.uid /\ cm'.uid = cm.uid
        BY <3>3, <4>2
      <4>4. cm.uid # 0
        BY <4>2
      <4> QED
        BY <4>3, <4>4, AbsentFields
    <3>5. "cm" \in pending' /\ pending \subseteq pending'
      <4>1. cm' # cm
        BY <2>3, <3>2, <3>4
      <4> QED
        BY <3>1, <3>3, <4>1 DEF WriteCM
    <3>6. Wakes'
      BY <3>2, <3>4, <3>5 DEF Wakes
    <3>7. vmCache' = vmCache /\ call' = Idle /\ queued' = queued
      BY <1>0, <3>1 DEF Return
    <3>8. "vm" \notin pending' => vmCache' = vm'
      BY <2>1, <3>5, <3>7 DEF WakeInv
    <3> QED
      BY <1>0, <2>1, <3>6, <3>7, <3>8 DEF WakeInv, Creating, Making
  <2> QED
    BY <1>3, <2>2, <2>3 DEF SetOwner
<1>4. CASE AlreadyCreated \/ RemoveSentinel
  <2>1. UNCHANGED <<vm, pending>> /\ (Return \/ Requeue)
    BY <1>4 DEF AlreadyCreated, RemoveSentinel
  <2>2. CASE Requeue
    BY <1>0, <2>1, <2>2, WakeKept DEF Requeue
  <2>3. CASE Return
    <3>1. vm.created = "True"
      <4>1. CASE AlreadyCreated
        BY <1>0, <4>1 DEF AlreadyCreated, Owned, WakeInv, UidInv
      <4>2. CASE RemoveSentinel
        BY <4>2 DEF RemoveSentinel, WakeInv
      <4> QED
        BY <1>4, <4>1, <4>2
    <3>2. ~Sentinel' \/ queued'
      <4>1. CASE AlreadyCreated
        BY <4>1 DEF AlreadyCreated, Owned, WakeInv, Sentinel, Exists
      <4>2. CASE RemoveSentinel /\ disk' = [disk EXCEPT !.sentinel = FALSE]
        <5>1. Exists /\ disk \in Disk
          BY <4>2 DEF RemoveSentinel, UidInv, TypeOK
        <5> QED
          BY <4>2, <5>1, DiskMarked DEF Sentinel, Exists
      <4>3. CASE RemoveSentinel /\ Requeue
        BY <4>3 DEF Requeue
      <4> QED
        BY <1>4, <4>1, <4>2, <4>3 DEF RemoveSentinel
    <3>3. vm.deleting => queued \/ "vm" \in pending
      BY <1>0 DEF WakeInv
    <3>4. vm' = Absent \/ Settled' \/ Wakes'
      BY <2>1, <2>3, <3>1, <3>2, <3>3 DEF Settled, Wakes, Live, Return
    <3> QED
      BY <1>0, <2>1, <2>3, <3>4 DEF WakeInv, Creating, Making, Return
  <2> QED
    BY <2>1, <2>2, <2>3
<1>5. CASE CreateInstance \/ Prepare
  <2>1. call.vm.created # "True" /\ (queued => queued')
    BY <1>5 DEF CreateInstance, Prepare, Wanted, WakeInv, Making, Goto, Requeue
  <2>2. CASE CreateFailed(call.vm) /\ Requeue
    <3> DEFINE new == [call.vm EXCEPT !.created = "Failed"]
    <3>1. new.uid = call.vm.uid
      BY <1>0, VMCreated, CreatedValues
    <3>2. UpdateVM(call.vm, new)
      BY <2>2 DEF CreateFailed
    <3> HIDE DEF new
    <3>3. vm' = vm \/ ("vm" \in pending' /\ vm' = new /\ call.vm = vm)
      BY <3>2 DEF UpdateVM, WriteVM
    <3>4. pending \subseteq pending'
      BY <3>2 DEF UpdateVM, WriteVM
    <3>5. vm' = vm \/ ("vm" \in pending' /\ vm'.uid = vm.uid
                       /\ (vm.created = "True" => vm'.created = "True"))
      BY <2>1, <3>1, <3>3
    <3> QED
      BY <1>0, <2>1, <2>2, <3>4, <3>5, WakeKept DEF Requeue
  <2>3. CASE CreateInstance /\ call' = [call EXCEPT !.pc = "mark", !.cm = cmCache]
             /\ UNCHANGED <<vm, pending, queued, spent>>
    <3>1. call'.pc = "mark" /\ call'.vm = call.vm
      BY <2>3, CallFields DEF TypeOK
    <3> QED
      BY <1>0, <2>1, <2>3, <3>1, WakeKept DEF Creating, Making
  <2>4. CASE Prepare /\ Goto("publish") /\ UNCHANGED <<vm, pending, spent>>
    <3>1. call'.pc = "publish" /\ call'.vm = call.vm
      BY <2>4, CallFields DEF Steps
    <3> QED
      BY <1>0, <2>1, <2>4, <3>1, WakeKept DEF Creating, Making
  <2> QED
    BY <1>5, <2>2, <2>3, <2>4 DEF CreateInstance, Prepare
<1>6. CASE Publish
  <2>1. CASE Requeue /\ UNCHANGED <<vm, pending>>
    BY <1>0, <2>1, WakeKept DEF Requeue
  <2>2. CASE WriteVM([vm EXCEPT !.created = "True", !.observed = call.cm.rv])
             /\ Goto("unmark")
    <3>1. call.cm.rv \in Nat /\ vm \in VMObject /\ vm # Absent
      <4>1. call.cm # Absent /\ call.cm \in ConfigMap /\ vm.uid = call.vm.uid
            /\ vm \in VMObject
        BY <1>0, <1>6, CallFields DEF Publish, UidInv, Making, Creating, TypeOK
      <4>2. call.vm.uid \in 1..MaxVMs
        BY <1>0, VMFields
      <4>3. vm # Absent
        BY <4>1, <4>2, AbsentFields
      <4>4. call.cm.rv \in Nat
        BY <4>1, CMFields
      <4> QED
        BY <4>1, <4>3, <4>4
    <3>2. PICK n \in Nat : n = call.cm.rv
      BY <3>1
    <3> DEFINE new == Published(vm, n)
    <3>3. new.uid = vm.uid /\ new.created = "True"
      <4>1. vm \in VMObject /\ vm # Absent
        BY <3>1
      <4> QED
        BY <4>1, VMPublished
    <3>4. WriteVM(new)
      BY <2>2, <3>2 DEF Published
    <3> HIDE DEF new
    <3>5. vm' = vm \/ ("vm" \in pending' /\ vm'.uid = vm.uid
                       /\ (vm.created = "True" => vm'.created = "True"))
      BY <3>3, <3>4 DEF WriteVM
    <3>6. call'.pc = "unmark" /\ call'.vm = call.vm /\ queued' = queued
      BY <2>2, CallFields DEF Goto, Steps
    <3>7. vm'.created = "True" /\ pending \subseteq pending'
      BY <3>3, <3>4 DEF WriteVM
    <3> QED
      BY <1>0, <3>5, <3>6, <3>7, WakeKept DEF Creating, Making
  <2> QED
    BY <1>6, <2>1, <2>2 DEF Publish
<1> QED
  BY <1>1, <1>2, <1>3, <1>4, <1>5, <1>6 DEF CreateStep

\* What no start of a call, no step of handleDeletion and no error does.
LEMMA DeleteWakes ==
    ASSUME TypeOK, UidInv, WakeInv, Reconcile \/ DeleteStep \/ ReconcileError
    PROVE  WakeInv'
<1>0. Idle.pc = "idle" /\ Idle.vm = Absent /\ Absent.uid = 0
  BY AbsentFields DEF Idle
<1>1. CASE Reconcile
  <2>1. /\ UNCHANGED <<vm, cm, pending, caches, disk, spent, agent>> /\ queued' = FALSE
        /\ call.pc = "idle"
    BY <1>1 DEF Reconcile, Requested
  <2>2. CASE vmCache = Absent
    <3>1. call' = Idle
      BY <1>1, <2>2 DEF Reconcile
    <3>2. vm' = Absent \/ "vm" \in pending'
      BY <2>1, <2>2 DEF WakeInv
    <3> QED
      BY <1>0, <2>1, <3>1, <3>2 DEF WakeInv, Wakes, Creating, Making, caches
  <2>3. CASE vmCache # Absent
    <3>1. call'.vm = vmCache
          /\ call'.pc = IF vmCache.deleting THEN "delete" ELSE "begin"
      <4>1. call' = [Idle EXCEPT !.pc = IF vmCache.deleting THEN "delete" ELSE "begin",
                                 !.vm = vmCache]
        BY <1>1, <2>3 DEF Reconcile
      <4> QED
        BY <4>1 DEF Idle
    <3>2. vmCache.deleting \in BOOLEAN /\ vm.uid = vmCache.uid => vm # Absent
      BY <1>0, <2>3, VMFields DEF TypeOK
    <3>3. call'.pc \in {"delete", "begin"} /\ (call'.pc = "begin" => ~vmCache.deleting)
      BY <3>1
    <3>4. call'.pc = "begin" /\ vm.deleting => "vm" \in pending
      BY <3>3 DEF WakeInv
    <3>5. \A obj \in {vmCache', call'.vm} :
            obj # Absent /\ obj.uid = vm'.uid /\ obj.created = "True"
              => vm'.created = "True"
      BY <2>1, <3>1 DEF WakeInv, caches
    <3>6. "vm" \notin pending' => vmCache' = vm'
      BY <2>1 DEF WakeInv, caches
    <3> QED
      BY <2>1, <3>3, <3>4, <3>5, <3>6 DEF WakeInv, Creating, Making
  <2> QED
    BY <2>2, <2>3
<1>2. CASE DeleteInstance \/ DeleteOwned
  <2>1. /\ UNCHANGED <<vm, vmCache>> /\ pending \subseteq pending'
        /\ Goto("owned") \/ Goto("finalizer") \/ Requeue
    BY <1>2 DEF DeleteInstance, DeleteOwned, caches, WriteCM
  <2>2. CASE Requeue
    BY <1>0, <2>1, <2>2, WakeKept DEF Requeue
  <2>3. CASE Goto("owned") \/ Goto("finalizer")
    <3>1. call'.pc \in Deleting /\ call'.vm = call.vm /\ queued' = queued
      BY <2>3, CallFields DEF Steps, Deleting, Goto
    <3> QED
      BY <2>1, <3>1, WakeKept
  <2> QED
    BY <2>1, <2>2, <2>3
<1>3. CASE RemoveFinalizer
  <2>1. /\ UNCHANGED vmCache /\ call.pc = "finalizer"
        /\ UpdateVM(call.vm, Absent) /\ call' = Idle
        /\ IF call.vm = vm THEN Return ELSE Requeue
    BY <1>3 DEF RemoveFinalizer, caches, Return, Requeue
  <2>2. CASE call.vm # vm
    <3>1. vm' = vm /\ pending' = pending /\ queued'
      BY <2>1, <2>2 DEF UpdateVM, WriteVM, Requeue
    <3> QED
      BY <2>1, <3>1, WakeKept
  <2>3. CASE call.vm = vm
    <3>1. vm # Absent
      BY <2>1, <2>3 DEF UidInv
    <3>2. vm' = Absent /\ "vm" \in pending'
      BY <2>1, <2>3, <3>1 DEF UpdateVM, WriteVM
    <3>3. vmCache # Absent => vmCache.uid # vm'.uid
      BY <1>0, <3>2, VMFields DEF TypeOK
    <3> QED
      BY <1>0, <2>1, <3>2, <3>3 DEF WakeInv, Creating, Making
  <2> QED
    BY <2>2, <2>3
<1>4. CASE ReconcileError
  BY <1>4, WakeKept DEF ReconcileError, Requeue, caches
<1> QED
  BY <1>1, <1>2, <1>3, <1>4 DEF DeleteStep

\* What neither the informers, nor the user, nor a crash does.
LEMMA OtherWakes ==
    ASSUME TypeOK, UidInv, WakeInv, SyncVM \/ SyncCM \/ UserStep \/ ControlPlaneCrash
    PROVE  WakeInv'
<1>0. /\ Idle.pc = "idle" /\ Idle.vm = Absent /\ Absent.uid = 0
      /\ vm \in VMObject /\ vmCache \in VMObject /\ call.vm \in VMObject
      /\ cm \in ConfigMap
  <2>1. call.vm \in VMObject
    BY CallFields
  <2> QED
    BY <2>1, AbsentFields DEF Idle, TypeOK
<1>1. CASE SyncVM
  BY <1>1 DEF SyncVM, WakeInv, Wakes, Sentinel, Exists
<1>2. CASE SyncCM
  <2>1. /\ UNCHANGED <<vm, vmCache, call, disk>> /\ (queued => queued')
        /\ "vm" \in pending => "vm" \in pending'
        /\ "vm" \notin pending' => "vm" \notin pending
        /\ (\E c \in {cm, cmCache} : c # Absent /\ c.owner # 0) => queued'
    BY <1>2 DEF SyncCM
  <2>2. Wakes => Wakes'
    BY <2>1 DEF Wakes
  <2> QED
    BY <2>1, <2>2 DEF WakeInv, Settled, Live, Sentinel, Exists
<1>3. CASE CreateVM
  <2>1. /\ vm = Absent /\ vmCache = Absent /\ UNCHANGED <<vmCache, queued, call, disk>>
    BY <1>3 DEF CreateVM, caches
  <2>2. CASE vm' = vm /\ pending' = pending \cup {"cm"}
    BY <2>1, <2>2 DEF WakeInv, Sentinel, Exists
  <2>3. CASE /\ vm' = [uid |-> spent.vms + 1, deleting |-> FALSE, running |-> FALSE,
                       created |-> "None", named |-> FALSE, observed |-> 0]
             /\ pending' = {"vm", "cm"}
    <3>1. vm'.uid = spent.vms + 1 /\ spent.vms \in Nat
      BY <2>3, SpentFields
    <3>2. call.vm # Absent => call.vm.uid # vm'.uid
      <4>1. call.vm.uid <= spent.vms
        BY DEF UidInv
      <4>2. call.vm # Absent => call.vm.uid \in Nat
        BY <1>0, VMFields
      <4> QED
        BY <3>1, <4>1, <4>2
    <3>3. call.pc \notin Creating
      <4>1. call.vm # Absent => call.vm.uid \in 1..MaxVMs
        BY <1>0, VMFields
      <4> QED
        BY <1>0, <2>1, <4>1 DEF UidInv, Creating
    <3> QED
      BY <2>1, <2>3, <3>2, <3>3 DEF WakeInv, Wakes, Creating, Making
  <2> QED
    BY <1>3, <2>2, <2>3 DEF CreateVM
<1>4. CASE DeleteVM \/ EditVM
  <2>1. PICK new : /\ new # vm /\ new.uid = vm.uid /\ new.created = vm.created
                   /\ WriteVM(new)
    <3>1. CASE DeleteVM
      <4> DEFINE new == [vm EXCEPT !.deleting = TRUE]
      <4>1. new.deleting /\ new.uid = vm.uid /\ new.created = vm.created
        BY <1>0, <3>1, VMDeleted DEF DeleteVM, Live
      <4>2. WriteVM(new) /\ ~vm.deleting
        BY <3>1 DEF DeleteVM, Live
      <4> HIDE DEF new
      <4> QED
        BY <4>1, <4>2
    <3>2. CASE EditVM
      <4> DEFINE new == [vm EXCEPT !.running = ~@]
      <4>1. /\ new.running = ~vm.running /\ new.uid = vm.uid
            /\ new.created = vm.created
        BY <1>0, <3>2, VMEdited DEF EditVM
      <4>2. WriteVM(new) /\ vm.running \in BOOLEAN
        BY <1>0, <3>2, VMFields DEF EditVM
      <4> HIDE DEF new
      <4>3. new # vm
        BY <4>1, <4>2
      <4> QED
        BY <4>1, <4>2, <4>3
    <3> QED
      BY <1>4, <3>1, <3>2
  <2>2. /\ UNCHANGED <<vmCache, queued, call, disk>>
        /\ "vm" \in pending' /\ vm'.uid = vm.uid /\ vm'.created = vm.created
    BY <1>4, <2>1 DEF DeleteVM, EditVM, WriteVM, caches
  <2> QED
    BY <2>2 DEF WakeInv, Wakes, Sentinel, Exists
<1>5. CASE EditTemplate
  <2>1. /\ UNCHANGED <<vm, vmCache, cmCache, queued, call, disk>> /\ cm # Absent
        /\ spent' = [spent EXCEPT !.ops = @ + 1, !.rv = @ + 1]
    BY <1>5 DEF EditTemplate, caches
  <2>2. PICK t \in Templates : WriteCM([cm EXCEPT !.data = t, !.rv = spent'.rv])
    BY <1>5 DEF EditTemplate
  <2>3. spent'.rv \in Nat
    <3>1. spent \in [vms : 0..MaxVMs, ops : Nat, faults : Nat, rv : Nat]
      BY DEF TypeOK
    <3>2. spent.rv \in Nat
      BY <3>1
    <3> QED
      BY <2>1, <3>1, <3>2, SpentTwice
  <2>4. cm' # Absent /\ cm'.owner = cm.owner /\ pending \subseteq pending'
    <3>1. PICK n \in Nat : n = spent'.rv
      BY <2>3
    <3>2. cm' = [cm EXCEPT !.data = t, !.rv = n]
      BY <2>2, <3>1 DEF WriteCM
    <3>3. cm \in [uid : 1..MaxVMs, owner : 0..MaxVMs, rv : Nat, data : Templates]
      BY <1>0, <2>1, CMFields
    <3>4. cm'.owner = cm.owner /\ cm'.uid = cm.uid /\ cm.uid # 0
      BY <3>2, <3>3
    <3> QED
      BY <1>0, <2>2, <3>4 DEF WriteCM
  <2>5. Wakes => Wakes'
    BY <2>1, <2>4 DEF Wakes
  <2>6. "vm" \notin pending' => "vm" \notin pending
    BY <2>4
  <2>7. "vm" \in pending => "vm" \in pending'
    BY <2>4
  <2> QED
    BY <2>1, <2>5, <2>6, <2>7 DEF WakeInv, Settled, Live, Sentinel, Exists
<1>6. CASE ControlPlaneCrash
  <2>1. /\ call' = Idle /\ vmCache' = vm /\ vm' = vm
        /\ queued' = (vm # Absent)
    BY <1>6 DEF ControlPlaneCrash
  <2> QED
    BY <1>0, <2>1 DEF WakeInv, Wakes, Creating, Making
<1> QED
  BY <1>1, <1>2, <1>3, <1>4, <1>5, <1>6 DEF UserStep

\* No wake-up is lost.
LEMMA Wake == Spec => []WakeInv
<1>1. Init => WakeInv
  BY DEF Init, WakeInv, Idle, Absent, Creating, Making
<1>2. TypeOK /\ UidInv /\ WakeInv /\ [Next]_vars => WakeInv'
  <2> SUFFICES ASSUME TypeOK, UidInv, WakeInv, [Next]_vars
               PROVE  WakeInv'
    OBVIOUS
  <2>1. CASE Next
    BY <2>1, CreateWakes, DeleteWakes, OtherWakes DEF Next, ReconcilerStep
  <2>2. CASE UNCHANGED vars
    BY <2>2 DEF vars, WakeInv, Wakes, Settled, Live, Sentinel, Exists
  <2> QED
    BY <2>1, <2>2
<1> QED
  BY <1>1, <1>2, Uids, PTL DEF Spec

\* For every number of LimaVMs, operations and faults, and although an informer
\* may miss what was written: when nothing is left that could wake the reconciler, a
\* LimaVM is either gone or created, and no sentinel is left to condemn its instance.
THEOREM QuietSettled == Spec => []QuietMeansSettled
<1>1. WakeInv => QuietMeansSettled
  BY DEF WakeInv, QuietMeansSettled, Quiet, Settled, Wakes
<1> QED
  BY <1>1, Wake, PTL

-----------------------------------------------------------------------------
(* What a call has read *)

\* A step that writes neither object, and that ends the call or goes on with it.
LEMMA FreshKept ==
    ASSUME TypeOK, FreshInv, RvInv, UNCHANGED <<vm, cm, pending, caches>>,
           spent'.rv = spent.rv,
           \/ call' = Idle
           \/ /\ call'.pc # "idle" /\ call.pc # "idle" /\ call'.vm = call.vm
              /\ call'.pc \in Creating \ {"unmark"} => call.pc \in Creating \ {"unmark"}
              /\ call'.pc \in Making => call.vm.created # "True" /\ call.vm.named
              /\ call'.cm \in {call.cm, cmCache}
    PROVE  FreshInv' /\ RvInv'
<1>0. Idle.pc = "idle" /\ Idle.cm = Absent
  BY DEF Idle
<1>1. FreshInv'
  BY <1>0 DEF FreshInv, caches, Creating, Making
<1>2. call'.cm \in {Absent, call.cm, cmCache}
  BY <1>0
<1>3. RvInv'
  BY <1>2 DEF RvInv, caches
<1> QED
  BY <1>1, <1>3

\* A call ends with an Update of the LimaVM, which does not set Created.
LEMMA FreshUpdated ==
    ASSUME TypeOK, FreshInv, RvInv, UNCHANGED <<cm, caches>>, spent'.rv = spent.rv,
           call' = Idle, NEW new, UpdateVM(call.vm, new),
           new # Absent /\ new.created = "True" => new.named
    PROVE  FreshInv' /\ RvInv'
<1>0. Idle.pc = "idle" /\ Idle.cm = Absent
  BY DEF Idle
<1>1. /\ vm' = vm \/ (vm' = new /\ "vm" \in pending')
      /\ pending \subseteq pending' /\ pending' \subseteq pending \cup {"vm"}
  BY DEF UpdateVM, WriteVM
<1>2. FreshInv'
  BY <1>0, <1>1 DEF FreshInv, caches, Creating, Making
<1>3. RvInv'
  BY <1>0 DEF RvInv, caches
<1> QED
  BY <1>2, <1>3

\* What a call that creates reads stays true while it works.
LEMMA CreateFresh ==
    ASSUME TypeOK, UidInv, FreshInv, RvInv, CreateStep
    PROVE  FreshInv' /\ RvInv'
<1>0. /\ call.pc \in Creating /\ call.vm # Absent /\ call.vm \in VMObject
      /\ UNCHANGED caches /\ Idle.pc = "idle" /\ Idle.vm = Absent /\ Idle.cm = Absent
      /\ vm.uid = call.vm.uid /\ vm \in VMObject /\ vm # Absent
  <2>1. call.pc \in Creating /\ UNCHANGED caches
    BY DEF CreateStep, SetPending, HandleSentinel, DeleteLeftover, SetOwner, RecordName,
         AlreadyCreated, AdoptExisting, RemoveStale, CreateInstance, CreateSentinel,
         Prepare, Publish, RemoveSentinel, Begun, Owned, Wanted, Creating
  <2>2. call.vm # Absent /\ vm.uid = call.vm.uid
    BY <2>1 DEF UidInv, Creating
  <2>3. call.vm \in VMObject /\ vm \in VMObject
    BY CallFields DEF TypeOK
  <2>4. call.vm.uid \in 1..MaxVMs
    BY <2>2, <2>3, VMFields
  <2>5. vm # Absent
    BY <2>2, <2>4, AbsentFields
  <2> QED
    BY <2>1, <2>2, <2>3, <2>5 DEF Idle
<1>1. CASE SetPending \/ RecordName \/ AdoptExisting
  <2>1. PICK new : /\ new # Absent /\ new.created = "True" => new.named
                   /\ UpdateVM(call.vm, new)
    <3>1. CASE SetPending
      <4> DEFINE new == [call.vm EXCEPT !.created = "Pending"]
      <4>1. new.created = "Pending"
        BY <1>0, VMCreated, CreatedValues
      <4>2. UpdateVM(call.vm, new)
        BY <3>1 DEF SetPending
      <4> HIDE DEF new
      <4> QED
        BY <4>1, <4>2
    <3>2. CASE RecordName
      <4> DEFINE new == [call.vm EXCEPT !.named = TRUE]
      <4>1. new.named
        BY <1>0, VMNamed
      <4>2. UpdateVM(call.vm, new)
        BY <3>2 DEF RecordName
      <4> HIDE DEF new
      <4> QED
        BY <4>1, <4>2
    <3>3. CASE AdoptExisting
      <4>1. cmCache.rv \in Nat
        BY <3>3, CMFields DEF AdoptExisting, Wanted, Owned, TypeOK
      <4>2. PICK n \in Nat : n = cmCache.rv
        BY <4>1
      <4> DEFINE new == Published(call.vm, n)
      <4>3. new.named = call.vm.named
        <5>1. call.vm \in VMObject /\ call.vm # Absent
          BY <1>0
        <5> QED
          BY <5>1, VMPublished
      <4>4. UpdateVM(call.vm, new) /\ call.vm.named
        BY <3>3, <4>2 DEF AdoptExisting, Wanted, Published
      <4> HIDE DEF new
      <4> QED
        BY <4>3, <4>4
    <3> QED
      BY <1>1, <3>1, <3>2, <3>3
  <2>2. call' = Idle /\ UNCHANGED <<cm, caches, spent>>
    BY <1>1 DEF SetPending, RecordName, AdoptExisting, Return, Requeue
  <2> QED
    BY <2>1, <2>2, FreshUpdated
<1>2. CASE \/ HandleSentinel \/ RemoveStale \/ AlreadyCreated \/ RemoveSentinel
           \/ DeleteLeftover \/ CreateSentinel
  <2>1. UNCHANGED <<vm, cm, pending, caches>> /\ (UNCHANGED spent \/ Fault \/ Fault2)
    BY <1>2 DEF HandleSentinel, RemoveStale, AlreadyCreated, RemoveSentinel, DeleteLeftover,
       CreateSentinel
  <2>2. spent'.rv = spent.rv
    BY <2>1, SpentFields
  <2>3. CASE Return \/ Requeue
    BY <2>1, <2>2, <2>3, FreshKept DEF Return, Requeue
  <2>4. CASE DeleteLeftover /\ Goto("owner")
    <3>1. /\ call'.pc = "owner" /\ call'.vm = call.vm /\ call'.cm = call.cm
          /\ call.pc = "begin"
      BY <2>4, CallFields DEF Steps, DeleteLeftover, Begun
    <3> QED
      BY <2>1, <2>2, <3>1, FreshKept DEF Creating, Making
  <2>5. CASE CreateSentinel /\ Goto("prepare")
    <3>1. /\ call'.pc = "prepare" /\ call'.vm = call.vm /\ call'.cm = call.cm
          /\ call.pc = "mark"
      BY <2>5, CallFields DEF Steps, CreateSentinel
    <3>2. call.vm.created # "True" /\ call.vm.named
      BY <3>1 DEF FreshInv, Making
    <3> QED
      BY <2>1, <2>2, <3>1, <3>2, FreshKept DEF Creating, Making
  <2> QED
    BY <1>2, <2>3, <2>4, <2>5 DEF HandleSentinel, RemoveStale, AlreadyCreated,
       RemoveSentinel, DeleteLeftover, CreateSentinel
<1>3. CASE SetOwner
  <2>1. UNCHANGED <<vm, caches>>
    BY <1>3 DEF SetOwner
  <2>2. CASE Requeue /\ UNCHANGED <<cm, pending, spent>>
    BY <2>1, <2>2, FreshKept DEF Requeue
  <2>3. CASE cmCache # Absent /\ cmCache.owner = 0 /\ cmCache = cm
    <3> DEFINE n == spent'.rv
    <3>1. /\ WriteCM([cm EXCEPT !.owner = call.vm.uid, !.rv = n]) /\ Return
          /\ spent' = [spent EXCEPT !.rv = @ + 1]
      BY <1>3, <2>3 DEF SetOwner
    <3>2. spent.rv \in Nat /\ n = spent.rv + 1
      <4>1. spent \in [vms : 0..MaxVMs, ops : Nat, faults : Nat, rv : Nat]
        BY DEF TypeOK
      <4> QED
        BY <3>1, <4>1
    <3> HIDE DEF n
    <3>3. cm \in [uid : 1..MaxVMs, owner : 0..MaxVMs, rv : Nat, data : Templates]
      <4>1. cm \in ConfigMap /\ cm # Absent
        BY <2>3 DEF TypeOK
      <4> QED
        BY <4>1, CMFields
    <3>4. cm'.rv = n
      BY <3>1, <3>3 DEF WriteCM
    <3>5. "cm" \in pending' /\ pending' = pending \cup {"cm"}
      <4>1. cm.rv <= spent.rv /\ cm.rv \in Nat
        BY <2>3, <3>3 DEF RvInv
      <4>2. cm' # cm
        BY <3>2, <3>4, <4>1
      <4> QED
        BY <3>1, <4>2 DEF WriteCM
    <3>6. FreshInv'
      BY <1>0, <2>1, <3>1, <3>5 DEF FreshInv, caches, Creating, Making, Return
    <3>7. \A c \in {cmCache, call.cm} : c # Absent => c.rv \in Nat /\ c.rv <= spent.rv
      <4>1. cmCache \in ConfigMap /\ call.cm \in ConfigMap
        BY CallFields DEF TypeOK
      <4> QED
        BY <4>1, CMFields DEF RvInv
    <3>8. spent'.rv = spent.rv + 1 /\ cm'.rv = spent.rv + 1 /\ cmCache' = cmCache
          /\ call'.cm = Absent
      BY <1>0, <2>1, <3>1, <3>2, <3>4 DEF n, caches, Return
    <3>9. RvInv'
      BY <3>2, <3>7, <3>8 DEF RvInv
    <3> QED
      BY <3>6, <3>9
  <2> QED
    BY <1>3, <2>2, <2>3 DEF SetOwner
<1>4. CASE CreateInstance \/ Prepare
  <2>1. UNCHANGED <<cm, caches>> /\ (UNCHANGED spent \/ Fault \/ Fault2)
    BY <1>4 DEF CreateInstance, Prepare
  <2>2. spent'.rv = spent.rv
    BY <2>1, SpentFields
  <2>3. CASE CreateFailed(call.vm) /\ Requeue
    <3> DEFINE new == [call.vm EXCEPT !.created = "Failed"]
    <3>1. new.created = "Failed"
      BY <1>0, VMCreated, CreatedValues
    <3>2. UpdateVM(call.vm, new)
      BY <2>3 DEF CreateFailed
    <3> HIDE DEF new
    <3>3. call' = Idle
      BY <2>3 DEF Requeue
    <3> QED
      BY <2>1, <2>2, <3>1, <3>2, <3>3, FreshUpdated
  <2>4. CASE CreateInstance /\ call' = [call EXCEPT !.pc = "mark", !.cm = cmCache]
             /\ UNCHANGED <<vm, pending>>
    <3>1. /\ call'.pc = "mark" /\ call'.vm = call.vm /\ call'.cm = cmCache
          /\ call.pc = "owner" /\ call.vm.created # "True" /\ call.vm.named
      BY <2>4, CallFields DEF TypeOK, CreateInstance, Wanted, Owned
    <3> QED
      BY <2>1, <2>2, <2>4, <3>1, FreshKept DEF Creating, Making
  <2>5. CASE Prepare /\ Goto("publish") /\ UNCHANGED <<vm, pending>>
    <3>1. /\ call'.pc = "publish" /\ call'.vm = call.vm /\ call'.cm = call.cm
          /\ call.pc = "prepare"
      BY <2>5, CallFields DEF Steps, Prepare
    <3>2. call.vm.created # "True" /\ call.vm.named
      BY <3>1 DEF FreshInv, Making
    <3> QED
      BY <2>1, <2>2, <2>5, <3>1, <3>2, FreshKept DEF Creating, Making
  <2> QED
    BY <1>4, <2>3, <2>4, <2>5 DEF CreateInstance, Prepare
<1>5. CASE Publish
  <2>1. UNCHANGED <<cm, caches>> /\ call.pc = "publish"
        /\ (UNCHANGED spent \/ Fault)
    BY <1>5 DEF Publish
  <2>2. spent'.rv = spent.rv
    BY <2>1, SpentFields
  <2>3. CASE Requeue /\ UNCHANGED <<vm, pending>>
    BY <2>1, <2>2, <2>3, FreshKept DEF Requeue
  <2>4. CASE WriteVM([vm EXCEPT !.created = "True", !.observed = call.cm.rv])
             /\ Goto("unmark")
    <3>1. call.cm.rv \in Nat
      BY <2>1, CallFields, CMFields DEF UidInv, Making
    <3>2. PICK n \in Nat : n = call.cm.rv
      BY <3>1
    <3> DEFINE new == Published(vm, n)
    <3>3. new.uid = vm.uid /\ new.named = vm.named
      <4>1. vm \in VMObject /\ vm # Absent
        BY <1>0
      <4> QED
        BY <4>1, VMPublished
    <3>4. WriteVM(new)
      BY <2>4, <3>2 DEF Published
    <3>5. vm.named
      BY <2>1 DEF FreshInv, Making, Creating
    <3> HIDE DEF new
    <3>6. call'.pc = "unmark" /\ call'.vm = call.vm /\ call'.cm = call.cm
      BY <2>4, CallFields DEF Steps
    <3>7. /\ vm'.uid = vm.uid /\ vm'.named
          /\ "vm" \notin pending' => vm' = vm /\ "vm" \notin pending
          /\ "cm" \notin pending' => "cm" \notin pending
      BY <3>3, <3>4, <3>5 DEF WriteVM
    <3>8. FreshInv'
      BY <1>0, <2>1, <3>6, <3>7 DEF FreshInv, caches, Creating, Making
    <3>9. RvInv'
      BY <2>1, <2>2, <3>6 DEF RvInv, caches
    <3> QED
      BY <3>8, <3>9
  <2> QED
    BY <1>5, <2>3, <2>4 DEF Publish
<1> QED
  BY <1>1, <1>2, <1>3, <1>4, <1>5 DEF CreateStep

\* The same of the start of a call, of handleDeletion and of errors, when a call
\* reads its own writes.
LEMMA DeleteFresh ==
    ASSUME ~Lagging, TypeOK, UidInv, FreshInv, RvInv,
           Reconcile \/ DeleteStep \/ ReconcileError
    PROVE  FreshInv' /\ RvInv'
<1>0. Idle.pc = "idle" /\ Idle.vm = Absent /\ Idle.cm = Absent /\ Absent.uid = 0
  BY AbsentFields DEF Idle
<1>1. CASE Reconcile
  <2>1. /\ UNCHANGED <<vm, cm, pending, caches, spent>> /\ pending = {}
    BY <1>1 DEF Reconcile, Requested
  <2>2. vmCache = vm
    BY <2>1 DEF FreshInv
  <2>3. CASE vmCache = Absent
    <3>1. call' = Idle
      BY <1>1, <2>3 DEF Reconcile
    <3> QED
      BY <2>1, <3>1, FreshKept
  <2>4. CASE vmCache # Absent
    <3>1. /\ call'.vm = vmCache /\ call'.cm = Absent
          /\ call'.pc \in {"delete", "begin"}
      <4>1. call' = [Idle EXCEPT !.pc = IF vmCache.deleting THEN "delete" ELSE "begin",
                                 !.vm = vmCache]
        BY <1>1, <2>4 DEF Reconcile
      <4> QED
        BY <4>1 DEF Idle
    <3>2. FreshInv'
      BY <2>1, <2>2, <3>1 DEF FreshInv, caches, Creating, Making
    <3>3. RvInv'
      BY <2>1, <3>1 DEF RvInv, caches
    <3> QED
      BY <3>2, <3>3
  <2> QED
    BY <2>3, <2>4
<1>2. CASE DeleteInstance \/ ReconcileError
  <2>1. /\ UNCHANGED <<vm, cm, pending, caches>> /\ (UNCHANGED spent \/ Fault)
        /\ (Goto("owned") /\ call.pc = "delete") \/ Requeue
    BY <1>2 DEF DeleteInstance, ReconcileError
  <2>2. spent'.rv = spent.rv
    BY <2>1, SpentFields
  <2>3. CASE Requeue
    BY <2>1, <2>2, <2>3, FreshKept DEF Requeue
  <2>4. CASE Goto("owned") /\ call.pc = "delete"
    <3>1. call'.pc = "owned" /\ call'.vm = call.vm /\ call'.cm = call.cm
      BY <2>4, CallFields DEF Steps
    <3> QED
      BY <2>1, <2>2, <2>4, <3>1, FreshKept DEF Creating, Making
  <2> QED
    BY <2>1, <2>3, <2>4
<1>3. CASE DeleteOwned
  <2>1. /\ UNCHANGED <<vm, caches>> /\ (UNCHANGED spent \/ Fault) /\ call.pc = "owned"
        /\ Goto("finalizer") \/ Requeue
        /\ \/ UNCHANGED <<cm, pending>>
           \/ cm' = Absent /\ pending' = IF Absent = cm THEN pending ELSE pending \cup {"cm"}
    BY <1>3 DEF DeleteOwned, WriteCM
  <2>2. spent'.rv = spent.rv
    BY <2>1, SpentFields
  <2>3. /\ call'.pc = "idle" \/ (call'.pc = "finalizer" /\ call'.vm = call.vm)
        /\ call'.cm \in {Absent, call.cm}
    BY <1>0, <2>1, CallFields DEF Steps, Requeue
  <2>4. /\ "cm" \notin pending' => cm' = cm /\ "cm" \notin pending
        /\ "vm" \notin pending' => "vm" \notin pending
        /\ cm' \in {cm, Absent}
    BY <2>1
  <2>5. FreshInv'
    BY <2>1, <2>3, <2>4 DEF FreshInv, caches, Creating, Making
  <2>6. RvInv'
    BY <2>1, <2>2, <2>3, <2>4 DEF RvInv, caches
  <2> QED
    BY <2>5, <2>6
<1>4. CASE RemoveFinalizer
  <2>1. UNCHANGED <<cm, caches, spent>> /\ UpdateVM(call.vm, Absent) /\ call' = Idle
    BY <1>4 DEF RemoveFinalizer, Return, Requeue
  <2> QED
    BY <2>1, FreshUpdated
<1> QED
  BY <1>1, <1>2, <1>3, <1>4 DEF DeleteStep

\* The same of the informers, the user with the webhook, and a crash.
LEMMA OtherFresh ==
    ASSUME TypeOK, UidInv, FreshInv, RvInv, SyncVM \/ SyncCM \/ UserStep \/ ControlPlaneCrash
    PROVE  FreshInv' /\ RvInv'
<1>0. /\ Idle.pc = "idle" /\ Idle.vm = Absent /\ Idle.cm = Absent /\ Absent.uid = 0
      /\ vm \in VMObject /\ call.vm \in VMObject /\ cm \in ConfigMap
      /\ spent \in [vms : 0..MaxVMs, ops : Nat, faults : Nat, rv : Nat]
      /\ spent.rv \in Nat
  <2>1. call.vm \in VMObject
    BY CallFields
  <2>2. spent.rv \in Nat
    BY SpentFields
  <2> QED
    BY <2>1, <2>2, AbsentFields DEF Idle, TypeOK
<1>c. \A c \in {cm, cmCache, call.cm} : c # Absent => c.rv \in Nat /\ c.rv <= spent.rv
  <2>1. cmCache \in ConfigMap /\ call.cm \in ConfigMap
    BY CallFields DEF TypeOK
  <2> QED
    BY <1>0, <2>1, CMFields DEF RvInv
<1>1. CASE SyncVM
  BY <1>1 DEF SyncVM, FreshInv, RvInv
<1>2. CASE SyncCM
  BY <1>2 DEF SyncCM, FreshInv, RvInv
<1>3. CASE CreateVM
  <2>1. /\ vm = Absent /\ vmCache = Absent /\ cm = Absent
        /\ UNCHANGED <<caches, call>> /\ "cm" \in pending'
        /\ "vm" \notin pending' => vm' = vm
        /\ vm' = vm \/ (vm'.created = "None" /\ "vm" \in pending')
        /\ spent.vms < MaxVMs
    BY <1>3 DEF CreateVM
  <2>2. cm'.rv = spent.rv + 1
    BY <1>3 DEF CreateVM
  <2>3. spent'.rv = spent.rv + 1
    <3>1. CASE spent' = [spent EXCEPT !.vms = @ + 1, !.rv = @ + 1]
      BY <1>0, <2>1, <3>1, SpentTwice
    <3>2. CASE spent' = [spent EXCEPT !.vms = @ + 1, !.rv = @ + 1, !.faults = @ + 1]
      BY <1>0, <2>1, <3>2, SpentTwice
    <3> QED
      BY <1>3, <3>1, <3>2 DEF CreateVM
  <2>4. call.pc = "idle"
    <3>1. call.vm # Absent => call.vm.uid \in 1..MaxVMs
      BY <1>0, VMFields
    <3> QED
      BY <1>0, <2>1, <3>1 DEF FreshInv, UidInv
  <2>5. FreshInv'
    BY <2>1, <2>4 DEF FreshInv, caches, Creating, Making
  <2>6. RvInv'
    BY <1>0, <1>c, <2>1, <2>2, <2>3 DEF RvInv, caches
  <2> QED
    BY <2>5, <2>6
<1>4. CASE DeleteVM \/ EditVM
  <2>1. PICK new : /\ new.uid = vm.uid /\ new.created = vm.created
                   /\ new.named = vm.named /\ WriteVM(new)
    <3>1. CASE DeleteVM
      <4> DEFINE new == [vm EXCEPT !.deleting = TRUE]
      <4>1. new.uid = vm.uid /\ new.created = vm.created /\ new.named = vm.named
        BY <1>0, <3>1, VMDeleted DEF DeleteVM, Live
      <4>2. WriteVM(new)
        BY <3>1 DEF DeleteVM
      <4> HIDE DEF new
      <4> QED
        BY <4>1, <4>2
    <3>2. CASE EditVM
      <4> DEFINE new == [vm EXCEPT !.running = ~@]
      <4>1. new.uid = vm.uid /\ new.created = vm.created /\ new.named = vm.named
        BY <1>0, <3>2, VMEdited DEF EditVM
      <4>2. WriteVM(new)
        BY <3>2 DEF EditVM
      <4> HIDE DEF new
      <4> QED
        BY <4>1, <4>2
    <3> QED
      BY <1>4, <3>1, <3>2
  <2>2. UNCHANGED <<cm, caches, call>> /\ UserOp /\ vm # Absent
    BY <1>4 DEF DeleteVM, EditVM, Live
  <2>3. spent'.rv = spent.rv
    BY <2>2, SpentFields
  <2>4. /\ "vm" \notin pending' => vm' = vm /\ "vm" \notin pending
        /\ "cm" \notin pending' => "cm" \notin pending
        /\ vm'.uid = vm.uid /\ vm'.created = vm.created /\ vm'.named = vm.named
    BY <2>1 DEF WriteVM
  <2>5. FreshInv'
    BY <2>2, <2>4 DEF FreshInv, caches, Creating, Making
  <2>6. RvInv'
    BY <2>2, <2>3 DEF RvInv, caches
  <2> QED
    BY <2>5, <2>6
<1>5. CASE EditTemplate
  <2>1. /\ UNCHANGED <<vm, caches, call>> /\ cm # Absent
        /\ spent' = [spent EXCEPT !.ops = @ + 1, !.rv = @ + 1]
    BY <1>5 DEF EditTemplate
  <2>2. PICK t \in Templates : WriteCM([cm EXCEPT !.data = t, !.rv = spent'.rv])
    BY <1>5 DEF EditTemplate
  <2>3. spent'.rv = spent.rv + 1 /\ spent'.rv \in Nat
    <3>1. spent'.rv = spent.rv + 1
      BY <1>0, <2>1, SpentTwice
    <3> QED
      BY <1>0, <3>1
  <2>4. PICK n \in Nat : n = spent'.rv
    BY <2>3
  <2>5. cm' = [cm EXCEPT !.data = t, !.rv = n]
    BY <2>2, <2>4 DEF WriteCM
  <2>6. cm'.rv = n
    <3>1. cm \in [uid : 1..MaxVMs, owner : 0..MaxVMs, rv : Nat, data : Templates]
      BY <1>0, <2>1, CMFields
    <3> QED
      BY <2>5, <3>1
  <2>7. cm' # cm
    BY <1>0, <1>c, <2>1, <2>3, <2>4, <2>6
  <2>8. "cm" \in pending' /\ pending' = pending \cup {"cm"}
    BY <2>2, <2>7 DEF WriteCM
  <2>9. FreshInv'
    BY <2>1, <2>8 DEF FreshInv, caches, Creating, Making
  <2>10. RvInv'
    BY <1>0, <1>c, <2>1, <2>3, <2>4, <2>6 DEF RvInv, caches
  <2> QED
    BY <2>9, <2>10
<1>6. CASE ControlPlaneCrash
  <2>1. /\ call' = Idle /\ vmCache' = vm /\ vm' = vm /\ cmCache' = cm /\ cm' = cm /\ Fault
    BY <1>6 DEF ControlPlaneCrash
  <2>2. spent'.rv = spent.rv
    BY <2>1, SpentFields
  <2> QED
    BY <1>0, <2>1, <2>2 DEF FreshInv, RvInv, Creating, Making
<1> QED
  BY <1>1, <1>2, <1>3, <1>4, <1>5, <1>6 DEF UserStep

\* What a call reads, and what a version of the ConfigMap stands for.
LEMMA Fresh == ASSUME ~Lagging PROVE Spec => [](FreshInv /\ RvInv)
<1>1. Init => FreshInv /\ RvInv
  BY DEF Init, FreshInv, RvInv, Idle, Absent, Creating, Making
<1>2. TypeOK /\ UidInv /\ FreshInv /\ RvInv /\ [Next]_vars => FreshInv' /\ RvInv'
  <2> SUFFICES ASSUME TypeOK, UidInv, FreshInv, RvInv, [Next]_vars
               PROVE  FreshInv' /\ RvInv'
    OBVIOUS
  <2>1. CASE Next
    BY <2>1, CreateFresh, DeleteFresh, OtherFresh DEF Next, ReconcilerStep
  <2>2. CASE UNCHANGED vars
    BY <2>2 DEF vars, caches, FreshInv, RvInv
  <2> QED
    BY <2>1, <2>2
<1> QED
  BY <1>1, <1>2, Uids, PTL DEF Spec

-----------------------------------------------------------------------------
(* The instance that Created promises *)

\* What the counters of a step with at most two faults so far are.
LEMMA FaultSteps ==
    ASSUME TypeOK, UNCHANGED spent \/ Fault
    PROVE  /\ spent'.vms = spent.vms /\ spent'.rv = spent.rv
           /\ spent.faults \in Nat /\ spent.rv \in Nat /\ spent.vms \in Nat
           /\ spent'.faults \in Nat /\ spent'.faults >= spent.faults
           /\ Fault => spent'.faults = spent.faults + 1
<1>1. spent.faults \in Nat /\ spent.rv \in Nat /\ spent.vms \in Nat
  BY SpentFields
<1>2. CASE UNCHANGED spent
  BY <1>1, <1>2, SpentFields
<1>3. CASE Fault
  BY <1>1, <1>3, SpentFields
<1> QED
  BY <1>2, <1>3

\* Steps that leave the instance as it is, and of the objects what matters here.
LEMMA CareKept ==
    ASSUME TypeOK, LeftInv, OwnInv,
           disk' = disk \/ (~Exists /\ ~Exists'),
           agent' # "none" => agent # "none",
           \/ vm' = vm
           \/ /\ vm # Absent /\ vm' # Absent /\ vm'.uid = vm.uid
              /\ vm'.named = vm.named /\ vm'.created = vm.created
              /\ vm'.observed = vm.observed /\ (Live(vm)' => Live(vm)),
           \/ cm' \in {cm, Absent}
           \/ /\ cm # Absent /\ cm' # Absent /\ cm'.owner = cm.owner
              /\ cm'.rv = spent.rv + 1,
           cmCache' \in {cmCache, cm'},
           spent'.vms = spent.vms, spent'.faults >= spent.faults,
           spent'.rv >= spent.rv, spent'.rv \in Nat, spent'.faults \in Nat,
           \/ call' = call /\ disk' = disk /\ agent' = agent
           \/ /\ call.pc # "mark"
              /\ call'.pc \notin Making \cup {"mark", "owner", "owned", "finalizer"}
    PROVE  LeftInv' /\ OwnInv'
<1>0. /\ spent.vms \in Nat /\ spent.faults \in Nat /\ spent.rv \in Nat
      /\ Exists' => Exists /\ disk' = disk
      /\ (vm = Absent) <=> (vm = Absent)'
      /\ vm'.uid = vm.uid
  <2>1. spent.vms \in Nat /\ spent.faults \in Nat /\ spent.rv \in Nat
    BY SpentFields
  <2> QED
    BY <2>1 DEF Exists
<1>2. Leftover' => Leftover
  BY <1>0 DEF Leftover
<1>3. LeftInv'
  <2>1. \A c \in {cm', cmCache'} : c # Absent => c.owner <= spent'.vms
    BY DEF LeftInv
  <2>2. Exists' => disk'.uid <= spent'.vms
    BY <1>0 DEF LeftInv
  <2>3. Exists' /\ (vm' = Absent \/ call'.pc \in {"owned", "finalizer"})
          => spent'.faults >= 1
    BY <1>0 DEF LeftInv
  <2>4. Leftover' => spent'.faults >= 1 /\ ~vm'.named
    BY <1>0, <1>2 DEF LeftInv
  <2>5. Leftover' /\ OwnedBy(vm.uid)' => spent'.faults >= 2 /\ call'.pc # "owner"
    <3>1. OwnedBy(vm.uid)' => OwnedBy(vm.uid)
      BY <1>0 DEF OwnedBy
    <3> QED
      BY <1>0, <1>2, <3>1 DEF LeftInv
  <2>6. Leftover' /\ call'.pc = "owner" => spent'.faults >= 2
    BY <1>0, <1>2 DEF LeftInv
  <2> QED
    BY <2>1, <2>2, <2>3, <2>4, <2>5, <2>6 DEF LeftInv
<1>4. OwnInv'
  <2>1. Exists' /\ vm' # Absent /\ disk'.uid = vm'.uid /\ vm'.created # "True"
          => disk'.sentinel \/ call'.pc = "mark"
    BY <1>0 DEF OwnInv
  <2>2. call'.pc \in Making =>
         /\ disk'.uid = call'.vm.uid /\ disk'.yaml = call'.cm.data /\ agent' = "none"
         /\ call'.pc # "mark" => disk'.sentinel
         /\ call'.pc = "publish" => disk'.prepared
    BY DEF OwnInv
  <2>3. agent' # "none" => Exists' /\ ~disk'.sentinel
    BY DEF OwnInv, Exists
  <2>4. vm' # Absent /\ vm'.created = "True" => vm'.observed <= spent'.rv
    <3>1. vm # Absent /\ vm.created = "True" => vm.observed <= spent.rv
      BY DEF OwnInv
    <3>2. vm # Absent => vm.observed \in Nat
      BY VMFields DEF TypeOK
    <3> QED
      BY <1>0, <3>1, <3>2
  <2>5. CreatedHasInstance'
    BY <1>0 DEF OwnInv, CreatedHasInstance, Live, Exists
  <2>6. ObservedOnDisk'
    <3> SUFFICES ASSUME Live(vm)', vm'.created = "True", cm' # Absent,
                        vm'.observed = cm'.rv
                 PROVE  disk'.yaml = cm'.data
      BY DEF ObservedOnDisk
    <3>1. Live(vm) /\ vm.created = "True" /\ vm.observed = vm'.observed /\ vm # Absent
      BY <1>0 DEF Live
    <3>2. vm.observed <= spent.rv /\ vm.observed \in Nat
      BY <3>1, VMFields DEF OwnInv, TypeOK
    <3>3. cm' = cm
      BY <1>0, <3>1, <3>2
    <3>4. Exists
      BY <3>1 DEF OwnInv, CreatedHasInstance
    <3>5. disk' = disk
      BY <3>1, <3>4, <2>5 DEF CreatedHasInstance
    <3> QED
      BY <3>1, <3>3, <3>5 DEF OwnInv, ObservedOnDisk
  <2> QED
    BY <2>1, <2>2, <2>3, <2>4, <2>5, <2>6 DEF OwnInv
<1> QED
  BY <1>3, <1>4

\* Steps that leave no instance, and no hostagent.
LEMMA CareGone ==
    ASSUME TypeOK, LeftInv, OwnInv, ~Exists', agent' = "none",
           UNCHANGED <<cm, cmCache>>, spent'.vms = spent.vms,
           vm' = Absent \/ ~Live(vm)' \/ vm'.created # "True",
           vm' = vm \/ vm'.created # "True", spent'.rv = spent.rv,
           call'.pc \notin Making
    PROVE  LeftInv' /\ OwnInv'
<1>1. LeftInv'
  <2>1. \A c \in {cm', cmCache'} : c # Absent => c.owner <= spent'.vms
    BY DEF LeftInv
  <2>2. ~Leftover'
    BY DEF Leftover
  <2> QED
    BY <2>1, <2>2 DEF LeftInv
<1>2. OwnInv'
  <2>1. vm' # Absent /\ vm'.created = "True" => vm'.observed <= spent'.rv
    BY DEF OwnInv
  <2>2. CreatedHasInstance' /\ ObservedOnDisk'
    BY DEF CreatedHasInstance, ObservedOnDisk, Live
  <2> QED
    BY <2>1, <2>2 DEF OwnInv
<1> QED
  BY <1>1, <1>2

\* With at most two faults, the steps that build an instance build the one that
\* Created will promise.
LEMMA BuildCare ==
    ASSUME ~Unmarked, TypeOK, UidInv, WakeInv, FreshInv, RvInv, LeftInv, OwnInv,
           TypeOK', Wanted => ~Exists,
           CreateInstance \/ CreateSentinel \/ Prepare \/ Publish \/ RemoveSentinel
    PROVE  LeftInv' /\ OwnInv'
<1>0. /\ call.pc \in Creating /\ call.vm # Absent /\ call.vm \in VMObject
      /\ UNCHANGED <<cm, cmCache>> /\ Idle.pc = "idle"
      /\ vm.uid = call.vm.uid /\ vm \in VMObject /\ vm # Absent
      /\ cm \in ConfigMap /\ cmCache \in ConfigMap /\ disk \in Disk
      /\ call.pc \in {"owner", "mark", "prepare", "publish", "unmark"}
  <2>1. call.pc \in {"owner", "mark", "prepare", "publish", "unmark"}
        /\ UNCHANGED <<cm, cmCache>>
    BY DEF CreateInstance, CreateSentinel, Prepare, Publish, RemoveSentinel, Owned, Wanted,
       Creating, caches
  <2>2. call.vm # Absent /\ vm.uid = call.vm.uid
    BY <2>1 DEF UidInv, Creating
  <2>3. call.vm \in VMObject /\ vm \in VMObject
    BY CallFields DEF TypeOK
  <2>4. call.vm.uid \in 1..MaxVMs
    BY <2>2, <2>3, VMFields
  <2>5. vm # Absent
    BY <2>2, <2>4, AbsentFields
  <2> QED
    BY <2>1, <2>2, <2>3, <2>5 DEF Idle, TypeOK, Creating
<1>s. /\ spent.vms \in Nat /\ spent.rv \in Nat /\ spent.faults \in Nat
      /\ spent'.rv \in Nat /\ spent'.faults \in Nat
  <2>1. spent' \in [vms : 0..MaxVMs, ops : Nat, faults : Nat, rv : Nat]
    BY DEF TypeOK
  <2> QED
    BY <2>1, SpentFields
<1>f. UNCHANGED spent \/ Fault \/ Fault2 =>
        /\ spent'.vms = spent.vms /\ spent'.rv = spent.rv
        /\ spent'.faults >= spent.faults
  <2>1. UNCHANGED spent \/ Fault =>
          /\ spent'.vms = spent.vms /\ spent'.rv = spent.rv
          /\ spent'.faults >= spent.faults
    BY FaultSteps
  <2>2. Fault2 => /\ spent'.vms = spent.vms /\ spent'.rv = spent.rv
                  /\ spent'.faults = spent.faults + 2
    BY SpentFields
  <2> QED
    BY <1>s, <2>1, <2>2
<1>b. \* A creation that fails, and one that is recorded as failed.
      ASSUME call' = Idle, ~Exists', agent = "none", UNCHANGED agent,
             UNCHANGED spent \/ Fault, call.vm.created # "True", call.pc # "unmark",
             UNCHANGED vm \/ CreateFailed(call.vm)
      PROVE  LeftInv' /\ OwnInv'
  <2>1. vm.created # "True"
    BY <1>0, <1>b DEF FreshInv, Creating
  <2>2. vm' = vm \/ vm'.created # "True"
    <3> DEFINE new == [call.vm EXCEPT !.created = "Failed"]
    <3>1. new.created = "Failed"
      BY <1>0, VMCreated, CreatedValues
    <3>2. CreateFailed(call.vm) => UpdateVM(call.vm, new)
      BY DEF CreateFailed
    <3> HIDE DEF new
    <3> QED
      BY <1>b, <3>1, <3>2 DEF UpdateVM, WriteVM
  <2>3. call'.pc \notin Making
    BY <1>0, <1>b DEF Making
  <2> QED
    BY <1>0, <1>b, <1>f, <2>1, <2>2, <2>3, CareGone
<1>c. \* The instance goes on being built.
      ASSUME UNCHANGED <<vm, agent, spent>>, call'.pc \in Making, call'.vm = call.vm,
             call.pc \in {"owner", "mark", "prepare"}, agent = "none",
             call.vm.created # "True", Exists', disk'.uid = call.vm.uid,
             disk'.yaml = call'.cm.data, disk'.sentinel \/ call'.pc = "mark",
             call'.pc = "publish" => disk'.prepared
      PROVE  LeftInv' /\ OwnInv'
  <2>1. vm.created # "True"
    BY <1>c DEF FreshInv, Creating
  <2>2. call.vm.uid <= spent.vms
    BY DEF UidInv
  <2>3. ~Leftover'
    BY <1>0, <1>c DEF Leftover
  <2>4. LeftInv'
    BY <1>0, <1>c, <2>2, <2>3 DEF LeftInv, Making
  <2>5. OwnInv'
    BY <1>0, <1>c, <2>1 DEF OwnInv, CreatedHasInstance, ObservedOnDisk
  <2> QED
    BY <2>4, <2>5
<1>1. CASE CreateInstance
  <2>1. ~Exists /\ agent = "none" /\ UNCHANGED agent /\ call.vm.created # "True"
        /\ call.pc = "owner" /\ disk = NoDir
    BY <1>1, DiskStates DEF CreateInstance, OwnInv, Exists, Wanted, Owned
  <2>2. CASE Fault /\ disk' \in {NoDir, Junk} /\ CreateFailed(call.vm) /\ Requeue
    <3>1. ~Exists'
      BY <2>2, DiskStates DEF Exists
    <3> QED
      BY <1>b, <2>1, <2>2, <3>1 DEF Requeue
  <2>3. CASE /\ disk' = [state |-> "instance", yaml |-> cmCache.data,
                         uid |-> call.vm.uid, prepared |-> FALSE, sentinel |-> FALSE]
             /\ call' = [call EXCEPT !.pc = "mark", !.cm = cmCache]
             /\ UNCHANGED <<vm, pending, queued, spent>>
    <3>1. call'.pc = "mark" /\ call'.vm = call.vm /\ call'.cm = cmCache
      BY <1>0, <2>3, CallFields
    <3>2. Exists' /\ disk'.uid = call.vm.uid /\ disk'.yaml = call'.cm.data
      BY <2>3, <3>1 DEF Exists
    <3> QED
      BY <1>c, <2>1, <2>3, <3>1, <3>2 DEF Making
  <2> QED
    BY <1>1, <2>2, <2>3 DEF CreateInstance
<1>2. CASE CreateSentinel
  <2>1. /\ Exists /\ agent = "none" /\ UNCHANGED <<vm, agent>> /\ call.vm.created # "True"
        /\ call.pc = "mark" /\ disk.uid = call.vm.uid /\ disk.yaml = call.cm.data
    BY <1>2 DEF CreateSentinel, OwnInv, Making, UidInv, FreshInv
  <2>2. CASE Fault /\ disk' = NoDir /\ Requeue
    <3>1. ~Exists'
      BY <2>2, DiskStates DEF Exists
    <3> QED
      BY <1>b, <2>1, <2>2, <3>1 DEF Requeue
  <2>3. CASE disk' = [disk EXCEPT !.sentinel = TRUE] /\ Goto("prepare") /\ UNCHANGED spent
    <3>1. call'.pc = "prepare" /\ call'.vm = call.vm /\ call'.cm = call.cm
      BY <2>3, CallFields DEF Steps
    <3>2. Exists' /\ disk'.uid = disk.uid /\ disk'.yaml = disk.yaml /\ disk'.sentinel
      BY <1>0, <2>1, <2>3, DiskMarked DEF Exists
    <3> QED
      BY <1>c, <2>1, <2>3, <3>1, <3>2 DEF Making
  <2> QED
    BY <1>2, <2>2, <2>3 DEF CreateSentinel
<1>3. CASE Prepare
  <2>1. /\ Exists /\ agent = "none" /\ UNCHANGED agent /\ call.vm.created # "True"
        /\ call.pc = "prepare" /\ disk.uid = call.vm.uid /\ disk.yaml = call.cm.data
        /\ disk.sentinel
    BY <1>3 DEF Prepare, OwnInv, Making, UidInv, FreshInv
  <2>2. CASE Fault /\ disk' = NoDir /\ CreateFailed(call.vm) /\ Requeue
    <3>1. ~Exists'
      BY <2>2, DiskStates DEF Exists
    <3> QED
      BY <1>b, <2>1, <2>2, <3>1 DEF Requeue
  <2>3. CASE Fault2 /\ UNCHANGED disk /\ CreateFailed(call.vm) /\ Requeue
    <3> DEFINE new == [call.vm EXCEPT !.created = "Failed"]
    <3>1. new.created = "Failed" /\ new.uid = call.vm.uid /\ new # Absent
      BY <1>0, VMCreated, CreatedValues
    <3>2. UpdateVM(call.vm, new)
      BY <2>3 DEF CreateFailed
    <3> HIDE DEF new
    <3>3. vm.created # "True"
      BY <2>1 DEF FreshInv, Creating
    <3>4. vm' # Absent /\ vm'.uid = vm.uid /\ vm'.created # "True"
      BY <1>0, <3>1, <3>2, <3>3 DEF UpdateVM, WriteVM
    <3>5. ~Leftover'
      BY <1>0, <2>1, <2>3, <3>4 DEF Leftover
    <3>6. call'.pc = "idle"
      BY <1>0, <2>3 DEF Requeue
    <3>7. LeftInv'
      BY <1>0, <1>f, <2>3, <3>4, <3>5, <3>6 DEF LeftInv, Exists
    <3>8. OwnInv'
      BY <1>0, <2>1, <2>3, <3>4, <3>6
      DEF OwnInv, Exists, CreatedHasInstance, ObservedOnDisk, Making
    <3> QED
      BY <3>7, <3>8
  <2>4. CASE /\ disk' = [disk EXCEPT !.prepared = TRUE] /\ Goto("publish")
             /\ UNCHANGED <<vm, pending, spent>>
    <3>1. call'.pc = "publish" /\ call'.vm = call.vm /\ call'.cm = call.cm
      BY <2>4, CallFields DEF Steps
    <3>2. /\ Exists' /\ disk'.uid = disk.uid /\ disk'.yaml = disk.yaml /\ disk'.sentinel
          /\ disk'.prepared
      BY <1>0, <2>1, <2>4, DiskPrepared DEF Exists
    <3> QED
      BY <1>c, <2>1, <2>4, <3>1, <3>2 DEF Making
  <2> QED
    BY <1>3, <2>2, <2>3, <2>4 DEF Prepare
<1>4. CASE Publish
  <2>1. /\ Exists /\ agent = "none" /\ UNCHANGED <<disk, agent>>
        /\ call.pc = "publish" /\ disk.uid = call.vm.uid /\ disk.yaml = call.cm.data
        /\ disk.prepared
    BY <1>4 DEF Publish, OwnInv, Making, UidInv, FreshInv
  <2>2. CASE Fault /\ Requeue /\ UNCHANGED <<vm, pending>>
    <3>1. call' = Idle
      BY <2>2 DEF Requeue
    <3> QED
      BY <1>0, <1>s, <1>f, <2>1, <2>2, <3>1, CareKept DEF Making
  <2>3. CASE /\ WriteVM([vm EXCEPT !.created = "True", !.observed = call.cm.rv])
             /\ Goto("unmark") /\ UNCHANGED spent
    <3>1. call.cm # Absent /\ call.cm.rv \in Nat /\ call.cm.rv <= spent.rv
      BY <2>1, CallFields, CMFields DEF UidInv, Making, RvInv
    <3>2. PICK n \in Nat : n = call.cm.rv
      BY <3>1
    <3> DEFINE new == Published(vm, n)
    <3>3. new.uid = vm.uid /\ new.observed = n /\ new # Absent
      <4>1. vm \in VMObject /\ vm # Absent
        BY <1>0
      <4> QED
        BY <4>1, VMPublished
    <3>4. WriteVM(new)
      BY <2>3, <3>2 DEF Published
    <3> HIDE DEF new
    <3>5. vm' = new
      BY <3>4 DEF WriteVM
    <3>6. call'.pc = "unmark"
      BY <2>3, CallFields DEF Steps
    <3>7. ~Leftover'
      BY <1>0, <2>1, <3>3, <3>5 DEF Leftover
    <3>8. LeftInv'
      BY <1>0, <2>1, <2>3, <3>3, <3>5, <3>6, <3>7 DEF LeftInv, Exists
    <3>9. CreatedHasInstance'
      BY <1>0, <2>1, <3>3, <3>5 DEF CreatedHasInstance, Exists
    <3>10. ObservedOnDisk'
      BY <1>0, <2>1, <3>1, <3>2, <3>3, <3>5 DEF ObservedOnDisk, RvInv
    <3>11. OwnInv'
      <4>1. disk.sentinel
        BY <2>1 DEF OwnInv, Making
      <4> QED
        BY <2>1, <2>3, <3>1, <3>2, <3>3, <3>5, <3>6, <3>9, <3>10, <4>1
        DEF OwnInv, Making, Exists
    <3> QED
      BY <3>8, <3>11
  <2> QED
    BY <1>4, <2>2, <2>3 DEF Publish
<1>5. CASE RemoveSentinel
  <2>1. /\ Exists /\ UNCHANGED <<vm, agent>> /\ call.pc = "unmark"
        /\ vm.created = "True"
    BY <1>5 DEF RemoveSentinel, UidInv, WakeInv
  <2>2. CASE Fault /\ Requeue /\ UNCHANGED disk
    <3>1. call' = Idle
      BY <2>2 DEF Requeue
    <3> QED
      BY <1>0, <1>s, <1>f, <2>1, <2>2, <3>1, CareKept DEF Making
  <2>3. CASE disk' = [disk EXCEPT !.sentinel = FALSE] /\ Return /\ UNCHANGED spent
    <3>1. /\ Exists' /\ disk'.uid = disk.uid /\ disk'.yaml = disk.yaml
          /\ disk'.prepared = disk.prepared /\ ~disk'.sentinel
      BY <1>0, <2>1, <2>3, DiskMarked DEF Exists
    <3>2. Leftover' <=> Leftover
      BY <2>1, <3>1 DEF Leftover
    <3>3. OwnedBy(vm.uid)' <=> OwnedBy(vm.uid)
      BY <1>0, <2>1 DEF OwnedBy
    <3>4. call'.pc = "idle"
      BY <1>0, <2>3 DEF Return
    <3>5. LeftInv'
      BY <1>0, <2>1, <2>3, <3>1, <3>2, <3>3, <3>4 DEF LeftInv
    <3>6. OwnInv'
      BY <1>0, <2>1, <2>3, <3>1, <3>4
      DEF OwnInv, CreatedHasInstance, ObservedOnDisk, Making, Live
    <3> QED
      BY <3>5, <3>6
  <2> QED
    BY <1>5, <2>2, <2>3 DEF RemoveSentinel
<1> QED
  BY <1>1, <1>2, <1>3, <1>4, <1>5

\* With at most two faults, a creation builds the instance that it promises.
LEMMA CreateCare ==
    ASSUME ~Unmarked, TypeOK, UidInv, WakeInv, FreshInv, RvInv, LeftInv, OwnInv,
           TwoFaults', TypeOK', CreateStep
    PROVE  LeftInv' /\ OwnInv'
<1>0. /\ call.pc \in Creating /\ call.vm # Absent /\ call.vm \in VMObject
      /\ cmCache' = cmCache /\ Idle.pc = "idle"
      /\ vm.uid = call.vm.uid /\ vm \in VMObject /\ vm # Absent
      /\ cm \in ConfigMap /\ cmCache \in ConfigMap
  <2>1. call.pc \in Creating /\ cmCache' = cmCache
    BY DEF CreateStep, SetPending, HandleSentinel, DeleteLeftover, SetOwner, RecordName,
         AlreadyCreated, AdoptExisting, RemoveStale, CreateInstance, CreateSentinel,
         Prepare, Publish, RemoveSentinel, Begun, Owned, Wanted, Creating, caches
  <2>2. call.vm # Absent /\ vm.uid = call.vm.uid
    BY <2>1 DEF UidInv, Creating
  <2>3. call.vm \in VMObject /\ vm \in VMObject
    BY CallFields DEF TypeOK
  <2>4. call.vm.uid \in 1..MaxVMs
    BY <2>2, <2>3, VMFields
  <2>5. vm # Absent
    BY <2>2, <2>4, AbsentFields
  <2> QED
    BY <2>1, <2>2, <2>3, <2>5 DEF Idle, TypeOK
<1>s. /\ spent.vms \in Nat /\ spent.rv \in Nat /\ spent.faults \in Nat
      /\ spent'.faults <= 2 /\ spent'.rv \in Nat /\ spent'.faults \in Nat
  <2>1. spent' \in [vms : 0..MaxVMs, ops : Nat, faults : Nat, rv : Nat]
    BY DEF TypeOK
  <2> QED
    BY <2>1, SpentFields DEF TwoFaults
<1>f. UNCHANGED spent \/ Fault =>
        /\ spent'.vms = spent.vms /\ spent'.rv = spent.rv
        /\ spent'.faults >= spent.faults /\ (Fault => spent'.faults = spent.faults + 1)
  BY FaultSteps
\* At "owner" with the owner reference set, the instance is this LimaVM's own.
<1>o. Owned => ~Leftover /\ ~Sentinel
  <2> SUFFICES ASSUME Owned PROVE ~Leftover /\ ~Sentinel
    OBVIOUS
  <2>1. cmCache # Absent /\ cmCache.owner = vm.uid /\ call.pc = "owner"
    BY <1>0 DEF Owned
  <2>2. OwnedBy(vm.uid)
    BY <2>1 DEF OwnedBy
  <2>3. ~Leftover
    BY <2>1, <2>2 DEF LeftInv
  <2>4. ~Sentinel
    BY <2>1 DEF WakeInv
  <2> QED
    BY <2>3, <2>4
<1>w. Wanted => ~Exists
  <2> SUFFICES ASSUME Wanted, Exists PROVE FALSE
    OBVIOUS
  <2>1. disk.uid = vm.uid /\ ~disk.sentinel /\ call.pc = "owner"
    BY <1>0, <1>o DEF Wanted, Leftover, Sentinel, Owned
  <2>2. vm.created # "True"
    BY <2>1 DEF Wanted, FreshInv, Creating
  <2> QED
    BY <1>0, <2>1, <2>2 DEF OwnInv
<1>a. ~Exists => agent = "none"
  BY DEF OwnInv
<1>1. CASE Requeue /\ UNCHANGED <<vm, cm, disk, agent>> /\ call.pc # "mark"
           /\ (UNCHANGED spent \/ Fault)
  <2>1. call' = Idle
    BY <1>1 DEF Requeue
  <2> QED
    BY <1>0, <1>s, <1>f, <1>1, <2>1, CareKept DEF Making
<1>2. CASE SetPending \/ RecordName
  <2>1. PICK new : /\ new # Absent /\ new.uid = call.vm.uid
                   /\ \/ call.vm.created # "True" /\ new.created # "True"
                         /\ new.named = call.vm.named
                      \/ new.created = call.vm.created /\ new.observed = call.vm.observed
                         /\ new.deleting = call.vm.deleting /\ ~Leftover
                   /\ UpdateVM(call.vm, new)
    <3>1. CASE SetPending
      <4> DEFINE new == [call.vm EXCEPT !.created = "Pending"]
      <4>1. new.created = "Pending" /\ new # Absent /\ new.uid = call.vm.uid
            /\ new.named = call.vm.named
        BY <1>0, VMCreated, CreatedValues
      <4>2. UpdateVM(call.vm, new) /\ call.vm.created = "None"
        BY <3>1 DEF SetPending
      <4> HIDE DEF new
      <4> QED
        BY <4>1, <4>2
    <3>2. CASE RecordName
      <4> DEFINE new == [call.vm EXCEPT !.named = TRUE]
      <4>1. /\ new # Absent /\ new.uid = call.vm.uid /\ new.created = call.vm.created
            /\ new.observed = call.vm.observed /\ new.deleting = call.vm.deleting
        BY <1>0, VMNamed
      <4>2. UpdateVM(call.vm, new) /\ Owned
        BY <3>2 DEF RecordName
      <4> HIDE DEF new
      <4> QED
        BY <1>o, <4>1, <4>2
    <3> QED
      BY <1>2, <3>1, <3>2
  <2>2. call' = Idle /\ UNCHANGED <<cm, disk, agent, spent>> /\ call.pc \in {"begin", "owner"}
    BY <1>2 DEF SetPending, RecordName, Return, Requeue, Owned
  <2>3. vm' = vm \/ (vm' = new /\ call.vm = vm)
    BY <2>1 DEF UpdateVM, WriteVM
  <2>4. CASE vm' = vm
    BY <1>0, <1>s, <2>2, <2>4, CareKept DEF Making
  <2>5. CASE vm' = new /\ call.vm = vm
    <3>1. vm'.uid = vm.uid /\ vm' # Absent
      BY <2>1, <2>5
    <3>2. Leftover' <=> Leftover
      BY <1>0, <2>2, <3>1 DEF Leftover, Exists
    <3>3. OwnedBy(vm.uid)' <=> OwnedBy(vm.uid)
      BY <1>0, <2>2, <3>1 DEF OwnedBy
    <3>4. LeftInv'
      BY <1>0, <2>1, <2>2, <2>5, <3>1, <3>2, <3>3 DEF LeftInv, Exists
    <3>5. OwnInv'
      <4>1. CASE call.vm.created # "True" /\ new.created # "True"
        BY <1>0, <2>2, <2>5, <3>1, <4>1
        DEF OwnInv, Exists, CreatedHasInstance, ObservedOnDisk, Making
      <4>2. CASE new.created = call.vm.created /\ new.observed = call.vm.observed
                 /\ new.deleting = call.vm.deleting
        BY <1>0, <2>2, <2>5, <3>1, <4>2
        DEF OwnInv, Exists, CreatedHasInstance, ObservedOnDisk, Making, Live
      <4> QED
        BY <2>1, <4>1, <4>2
    <3> QED
      BY <3>4, <3>5
  <2> QED
    BY <2>3, <2>4, <2>5
<1>3. CASE HandleSentinel
  <2>1. /\ Requeue /\ UNCHANGED <<vm, cm, agent>> /\ call.pc = "begin" /\ Sentinel
        /\ UNCHANGED spent \/ Fault
    BY <1>3 DEF HandleSentinel, Begun
  <2>2. call' = Idle /\ agent = "none"
    BY <2>1 DEF Requeue, OwnInv, Sentinel
  <2>3. vm.created = call.vm.created
    BY <2>1 DEF FreshInv, Creating
  <2>4. CASE call.vm.created = "True" /\ disk' = [disk EXCEPT !.sentinel = FALSE]
             /\ UNCHANGED spent
    <3>1. /\ disk'.state = disk.state /\ disk'.uid = disk.uid /\ disk'.yaml = disk.yaml
          /\ disk'.prepared = disk.prepared
      BY <2>1, <2>4, DiskMarked DEF Sentinel, Exists, TypeOK
    <3>2. Leftover' <=> Leftover
      BY <2>1, <3>1 DEF Leftover, Exists
    <3>3. OwnedBy(vm.uid)' <=> OwnedBy(vm.uid)
      BY <1>0, <2>1 DEF OwnedBy
    <3>4. LeftInv'
      BY <1>0, <2>1, <2>2, <2>4, <3>1, <3>2, <3>3 DEF LeftInv, Exists
    <3>5. OwnInv'
      BY <1>0, <2>1, <2>2, <2>3, <2>4, <3>1
      DEF OwnInv, Exists, CreatedHasInstance, ObservedOnDisk, Making, Live
    <3> QED
      BY <3>4, <3>5
  <2>5. CASE disk' = disk /\ Fault
    BY <1>1, <2>1, <2>5
  <2>6. CASE call.vm.created # "True" /\ ~Exists'
    BY <1>0, <1>f, <2>1, <2>2, <2>3, <2>6, CareGone DEF Making
  <2> QED
    BY <1>3, <2>4, <2>5, <2>6, DiskStates DEF HandleSentinel, Exists
<1>4. CASE DeleteLeftover
  <2>1. /\ UNCHANGED <<vm, cm>> /\ call.pc = "begin" /\ ~Sentinel
        /\ vm.named = call.vm.named /\ vm.created = call.vm.created
    BY <1>4 DEF DeleteLeftover, Begun, FreshInv, Creating
  <2>2. ASSUME Goto("owner")
        PROVE  call'.pc = "owner" /\ call'.vm = call.vm
    BY <2>2, CallFields DEF Steps
  <2>3. CASE ~call.vm.named /\ Exists /\ DeleteDisk /\ Goto("owner") /\ UNCHANGED spent
    <3>1. vm.created # "True"
      BY <1>0, <2>1, <2>3 DEF FreshInv
    <3>2. ~Exists' /\ agent' = "none"
      BY <2>3, DiskStates DEF DeleteDisk, Exists
    <3> QED
      BY <1>0, <2>1, <2>2, <2>3, <3>1, <3>2, CareGone DEF Making
  <2>4. CASE Exists /\ Fault /\ Requeue /\ UNCHANGED <<disk, agent>>
    BY <1>1, <2>1, <2>4
  <2>5. CASE \/ Exists /\ Fault /\ Goto("owner") /\ UNCHANGED <<disk, agent>>
             \/ (call.vm.named \/ ~Exists) /\ Goto("owner") /\ UNCHANGED <<disk, agent, spent>>
    <3>1. call'.pc = "owner" /\ UNCHANGED <<disk, agent>> /\ (UNCHANGED spent \/ Fault)
      BY <2>2, <2>5
    <3>2. Leftover' <=> Leftover
      BY <2>1, <3>1 DEF Leftover, Exists
    <3>3. OwnedBy(vm.uid)' <=> OwnedBy(vm.uid)
      BY <1>0, <2>1 DEF OwnedBy
    <3>4. Leftover => spent.faults >= 1 /\ Fault /\ spent'.faults = spent.faults + 1
      BY <1>f, <2>1, <2>5 DEF LeftInv, Leftover
    <3>5. Leftover /\ OwnedBy(vm.uid) => FALSE
      <4>1. Leftover /\ OwnedBy(vm.uid) => spent.faults >= 2
        BY DEF LeftInv
      <4> QED
        BY <1>s, <3>4, <4>1
    <3>6. Leftover => spent'.faults >= 2
      BY <1>s, <3>4
    <3>7. \A c \in {cm', cmCache'} : c # Absent => c.owner <= spent'.vms
      BY <1>0, <1>f, <2>1, <3>1 DEF LeftInv
    <3>8. Exists' => disk'.uid <= spent'.vms
      BY <1>f, <3>1 DEF LeftInv, Exists
    <3>9. vm' # Absent /\ call'.pc \notin {"owned", "finalizer"}
      BY <1>0, <2>1, <3>1
    <3>10. Leftover' => spent'.faults >= 1 /\ ~vm'.named
      BY <1>s, <2>1, <3>2, <3>6 DEF LeftInv
    <3>11. LeftInv'
      BY <3>2, <3>3, <3>5, <3>6, <3>7, <3>8, <3>9, <3>10 DEF LeftInv
    <3>12. OwnInv'
      BY <1>0, <1>f, <2>1, <3>1
      DEF OwnInv, Exists, CreatedHasInstance, ObservedOnDisk, Making, Live
    <3> QED
      BY <3>11, <3>12
  <2> QED
    BY <1>4, <2>3, <2>4, <2>5 DEF DeleteLeftover
<1>5. CASE SetOwner
  <2>1. UNCHANGED <<vm, disk, agent>> /\ call.pc = "owner"
    BY <1>5 DEF SetOwner
  <2>2. CASE Requeue /\ UNCHANGED <<cm, pending, spent>>
    BY <1>1, <2>1, <2>2
  <2>3. CASE cmCache # Absent /\ cmCache.owner = 0 /\ cmCache = cm
    <3> DEFINE n == spent'.rv
    <3>1. /\ WriteCM([cm EXCEPT !.owner = call.vm.uid, !.rv = n]) /\ Return
          /\ spent' = [spent EXCEPT !.rv = @ + 1]
      BY <1>5, <2>3 DEF SetOwner
    <3>2. n = spent.rv + 1 /\ spent'.vms = spent.vms /\ spent'.faults = spent.faults
      <4>1. spent \in [vms : 0..MaxVMs, ops : Nat, faults : Nat, rv : Nat]
        BY DEF TypeOK
      <4> QED
        BY <3>1, <4>1
    <3> HIDE DEF n
    <3>3. cm \in [uid : 1..MaxVMs, owner : 0..MaxVMs, rv : Nat, data : Templates]
      BY <1>0, <2>3, CMFields
    <3>4. cm'.rv = spent.rv + 1 /\ cm'.owner = call.vm.uid
      BY <3>1, <3>2, <3>3 DEF WriteCM
    <3>5. call'.pc = "idle"
      BY <1>0, <3>1 DEF Return
    <3>6. Leftover' <=> Leftover
      BY <2>1 DEF Leftover, Exists
    <3>7. Leftover => spent'.faults >= 2
      BY <2>1, <3>2 DEF LeftInv
    <3>8. call.vm.uid <= spent.vms
      BY DEF UidInv
    <3>9. \A c \in {cm', cmCache'} : c # Absent => c.owner <= spent'.vms
      BY <1>0, <3>2, <3>4, <3>8 DEF LeftInv
    <3>10. LeftInv'
      BY <1>0, <2>1, <3>2, <3>5, <3>6, <3>7, <3>9 DEF LeftInv, Exists
    <3>11. ObservedOnDisk'
      <4>1. vm.created = "True" => vm.observed <= spent.rv /\ vm.observed \in Nat
        BY <1>0, VMFields DEF OwnInv
      <4>2. vm.created = "True" => vm.observed # spent.rv + 1
        BY <1>s, <4>1
      <4> QED
        BY <2>1, <3>4, <4>2 DEF ObservedOnDisk
    <3>12. vm' # Absent /\ vm'.created = "True" => vm'.observed <= spent'.rv
      <4>1. vm.created = "True" => vm.observed <= spent.rv /\ vm.observed \in Nat
        BY <1>0, VMFields DEF OwnInv
      <4> QED
        BY <1>s, <2>1, <3>2, <4>1 DEF n
    <3>13. OwnInv'
      BY <1>0, <2>1, <3>5, <3>11, <3>12 DEF OwnInv, Exists, CreatedHasInstance, Making, Live
    <3> QED
      BY <3>10, <3>13
  <2> QED
    BY <1>5, <2>2, <2>3 DEF SetOwner
<1>6. CASE AlreadyCreated
  <2>1. /\ UNCHANGED <<vm, cm, disk, spent>> /\ call' = Idle /\ call.pc = "owner"
        /\ agent' = agent \/ Exists \/ agent' = "none"
        /\ ~Sentinel
    BY <1>6, <1>o DEF AlreadyCreated, Return, Owned
  <2>2. LeftInv' /\ (agent' = agent => OwnInv')
    <3>1. Leftover' <=> Leftover
      BY <2>1 DEF Leftover, Exists
    <3>2. OwnedBy(vm.uid)' <=> OwnedBy(vm.uid)
      BY <1>0, <2>1 DEF OwnedBy
    <3>3. LeftInv'
      BY <1>0, <2>1, <3>1, <3>2 DEF LeftInv, Exists
    <3> QED
      BY <1>0, <2>1, <3>3
      DEF OwnInv, Exists, CreatedHasInstance, ObservedOnDisk, Making, Live
  <2>3. ~Exists => agent' = "none"
    BY <1>a, <1>6 DEF AlreadyCreated
  <2>4. OwnInv'
    BY <1>0, <2>1, <2>3
    DEF OwnInv, Exists, Sentinel, CreatedHasInstance, ObservedOnDisk, Making, Live
  <2> QED
    BY <2>2, <2>4
<1>7. CASE AdoptExisting
  BY <1>w, <1>7 DEF AdoptExisting
<1>8. CASE RemoveStale
  <2>1. /\ Requeue /\ UNCHANGED <<vm, cm, agent>> /\ ~Exists /\ call.pc = "owner"
        /\ UNCHANGED spent \/ Fault
        /\ ~Exists'
    BY <1>w, <1>8, DiskStates DEF RemoveStale, Wanted, Owned, Exists
  <2>2. call' = Idle /\ agent' = "none"
    BY <1>a, <2>1 DEF Requeue
  <2>3. vm.created # "True"
    BY <1>8, <2>1 DEF RemoveStale, Wanted, FreshInv, Creating
  <2> QED
    BY <1>0, <1>f, <2>1, <2>2, <2>3, CareGone DEF Making
<1>9. CASE CreateInstance \/ CreateSentinel \/ Prepare \/ Publish \/ RemoveSentinel
  BY <1>w, <1>9, BuildCare
<1> QED
  BY <1>2, <1>3, <1>4, <1>5, <1>6, <1>7, <1>8, <1>9 DEF CreateStep

\* With at most two faults, a deletion leaves an instance behind only after one.
LEMMA DeleteCare ==
    ASSUME TypeOK, UidInv, FreshInv, LeftInv, OwnInv, TwoFaults', TypeOK',
           Reconcile \/ DeleteStep \/ ReconcileError
    PROVE  LeftInv' /\ OwnInv'
<1>s. /\ spent.vms \in Nat /\ spent.rv \in Nat /\ spent.faults \in Nat
      /\ spent'.rv \in Nat /\ spent'.faults \in Nat /\ Idle.pc = "idle"
  <2>1. spent' \in [vms : 0..MaxVMs, ops : Nat, faults : Nat, rv : Nat]
    BY DEF TypeOK
  <2> QED
    BY <2>1, SpentFields DEF Idle
<1>f. UNCHANGED spent \/ Fault =>
        /\ spent'.vms = spent.vms /\ spent'.rv = spent.rv
        /\ spent'.faults >= spent.faults /\ (Fault => spent'.faults = spent.faults + 1)
  BY FaultSteps
<1>1. CASE Reconcile
  <2>1. /\ UNCHANGED <<vm, cm, caches, disk, spent, agent>> /\ call.pc = "idle"
    BY <1>1 DEF Reconcile, Requested
  <2>2. call'.pc \in {"idle", "delete", "begin"}
    <3>1. CASE call' = Idle
      BY <1>s, <3>1
    <3>2. CASE call' = [Idle EXCEPT !.pc = IF vmCache.deleting THEN "delete" ELSE "begin",
                                    !.vm = vmCache]
      BY <3>2 DEF Idle
    <3> QED
      BY <1>1, <3>1, <3>2 DEF Reconcile
  <2> QED
    BY <1>s, <2>1, <2>2, CareKept DEF Making, caches
<1>2. CASE DeleteInstance
  <2>1. UNCHANGED <<vm, cm, caches>> /\ call.pc = "delete"
    BY <1>2 DEF DeleteInstance
  <2>2. vm.uid = call.vm.uid /\ ~Live(vm)
    BY <2>1 DEF FreshInv, UidInv, Deleting
  <2>3. ASSUME Goto("owned") PROVE call'.pc = "owned" /\ call'.vm = call.vm
    BY <2>3, CallFields DEF Steps
  <2>4. CASE Exists /\ DeleteDisk /\ Goto("owned") /\ UNCHANGED spent
    <3>1. ~Exists' /\ agent' = "none"
      BY <2>4, DiskStates DEF DeleteDisk, Exists
    <3>2. ~Live(vm)'
      BY <2>1, <2>2 DEF Live
    <3> QED
      BY <2>1, <2>3, <2>4, <3>1, <3>2, CareGone DEF Making, caches
  <2>5. CASE Exists /\ Fault /\ StopWatcher /\ UNCHANGED disk /\ Requeue
    <3>1. call' = Idle /\ (agent' # "none" => agent # "none")
      BY <2>5 DEF Requeue, StopWatcher
    <3> QED
      BY <1>s, <1>f, <2>1, <2>5, <3>1, CareKept DEF Making, caches
  <2>6. CASE Exists /\ Fault /\ StopWatcher /\ UNCHANGED disk /\ Goto("owned")
    <3>1. call'.pc = "owned" /\ (agent' # "none" => agent # "none")
      BY <2>3, <2>6 DEF StopWatcher
    <3>2. Leftover' <=> Leftover
      BY <2>1, <2>6 DEF Leftover, Exists
    <3>3. OwnedBy(vm.uid)' <=> OwnedBy(vm.uid)
      BY <2>1 DEF OwnedBy, caches
    <3>4. spent'.faults >= 1
      BY <1>s, <1>f, <2>6
    <3>5. spent.faults >= 2 => spent'.faults >= 2
      BY <1>s, <1>f, <2>6
    <3>6. LeftInv'
      BY <1>f, <2>1, <2>6, <3>1, <3>2, <3>3, <3>4, <3>5 DEF LeftInv, Exists, caches
    <3>7. OwnInv'
      BY <1>f, <2>1, <2>6, <3>1
      DEF OwnInv, Exists, CreatedHasInstance, ObservedOnDisk, Making, Live, caches
    <3> QED
      BY <3>6, <3>7
  <2>7. CASE ~Exists /\ StopWatcher /\ Goto("owned") /\ UNCHANGED <<disk, spent>>
    <3>1. ~Exists' /\ agent' = "none"
      BY <2>7 DEF StopWatcher, OwnInv, Exists
    <3>2. ~Live(vm)'
      BY <2>1, <2>2 DEF Live
    <3> QED
      BY <2>1, <2>3, <2>7, <3>1, <3>2, CareGone DEF Making, caches
  <2> QED
    BY <1>2, <2>4, <2>5, <2>6, <2>7 DEF DeleteInstance
<1>3. CASE DeleteOwned
  <2>1. /\ UNCHANGED <<vm, caches, disk, agent>> /\ (UNCHANGED spent \/ Fault)
        /\ call.pc = "owned" /\ (Goto("finalizer") \/ Requeue)
        /\ cm' \in {cm, Absent}
    BY <1>3 DEF DeleteOwned, WriteCM
  <2>2. CASE Requeue
    <3>1. call' = Idle
      BY <2>2 DEF Requeue
    <3> QED
      BY <1>s, <1>f, <2>1, <3>1, CareKept DEF Making, caches
  <2>3. CASE Goto("finalizer")
    <3>1. call'.pc = "finalizer" /\ call'.vm = call.vm
      BY <2>3, CallFields DEF Steps
    <3>2. Leftover' <=> Leftover
      BY <2>1 DEF Leftover, Exists
    <3>3. OwnedBy(vm.uid)' => OwnedBy(vm.uid)
      BY <2>1 DEF OwnedBy, caches
    <3>4. /\ spent.faults >= 2 => spent'.faults >= 2
          /\ spent.faults >= 1 => spent'.faults >= 1
      BY <1>s, <1>f, <2>1
    <3>5. LeftInv'
      BY <1>f, <2>1, <3>1, <3>2, <3>3, <3>4 DEF LeftInv, Exists, caches
    <3>6. OwnInv'
      BY <1>f, <2>1, <3>1
      DEF OwnInv, Exists, CreatedHasInstance, ObservedOnDisk, Making, Live, caches
    <3> QED
      BY <3>5, <3>6
  <2> QED
    BY <2>1, <2>2, <2>3
<1>4. CASE RemoveFinalizer
  <2>1. /\ UNCHANGED <<cm, caches, disk, spent, agent>> /\ call' = Idle
        /\ call.pc = "finalizer" /\ vm' \in {vm, Absent}
    BY <1>4 DEF RemoveFinalizer, Return, Requeue, UpdateVM, WriteVM
  <2>2. CASE vm' = vm
    BY <1>s, <2>1, <2>2, CareKept DEF Making, caches
  <2>3. CASE vm' = Absent
    <3>1. LeftInv'
      BY <1>s, <2>1, <2>3 DEF LeftInv, Leftover, Exists, caches
    <3>2. OwnInv'
      BY <1>s, <2>1, <2>3
      DEF OwnInv, Exists, CreatedHasInstance, ObservedOnDisk, Making, Live, caches
    <3> QED
      BY <3>1, <3>2
  <2> QED
    BY <2>1, <2>2, <2>3
<1>5. CASE ReconcileError
  <2>1. /\ UNCHANGED <<vm, cm, caches, disk, agent>> /\ call' = Idle /\ Fault
        /\ call.pc # "mark"
    BY <1>5 DEF ReconcileError, Requeue
  <2> QED
    BY <1>s, <1>f, <2>1, CareKept DEF Making, caches
<1> QED
  BY <1>1, <1>2, <1>3, <1>4, <1>5 DEF DeleteStep

\* With at most two faults: the informers, the user with the webhook, and a crash.
LEMMA OtherCare ==
    ASSUME ~Unmarked, TypeOK, UidInv, FreshInv, RvInv, LeftInv, OwnInv, TwoFaults', TypeOK',
           SyncVM \/ SyncCM \/ UserStep \/ ControlPlaneCrash
    PROVE  LeftInv' /\ OwnInv'
<1>s. /\ spent.vms \in Nat /\ spent.rv \in Nat /\ spent.faults \in Nat
      /\ spent'.rv \in Nat /\ spent'.faults \in Nat /\ Idle.pc = "idle"
      /\ spent \in [vms : 0..MaxVMs, ops : Nat, faults : Nat, rv : Nat]
  <2>1. spent' \in [vms : 0..MaxVMs, ops : Nat, faults : Nat, rv : Nat]
    BY DEF TypeOK
  <2> QED
    BY <2>1, SpentFields DEF Idle, TypeOK
<1>0. /\ vm \in VMObject /\ call.vm \in VMObject /\ cm \in ConfigMap /\ Absent.uid = 0
  <2>1. call.vm \in VMObject
    BY CallFields
  <2> QED
    BY <2>1, AbsentFields DEF TypeOK
<1>1. CASE SyncVM
  BY <1>s, <1>1, CareKept DEF SyncVM
<1>2. CASE SyncCM
  BY <1>s, <1>2, CareKept DEF SyncCM
<1>3. CASE CreateVM
  <2>1. /\ vm = Absent /\ vmCache = Absent /\ cm = Absent /\ spent.vms < MaxVMs
        /\ UNCHANGED <<caches, call, disk, agent>>
    BY <1>3 DEF CreateVM
  <2>2. cm'.owner = 0
    BY <1>3 DEF CreateVM
  <2>3. /\ spent'.vms = spent.vms + 1 /\ spent'.rv = spent.rv + 1
        /\ spent'.faults >= spent.faults
    <3>1. CASE spent' = [spent EXCEPT !.vms = @ + 1, !.rv = @ + 1]
      <4>1. /\ spent'.vms = spent.vms + 1 /\ spent'.rv = spent.rv + 1
            /\ spent'.faults = spent.faults
        BY <1>s, <2>1, <3>1, SpentTwice
      <4> QED
        BY <1>s, <4>1
    <3>2. CASE spent' = [spent EXCEPT !.vms = @ + 1, !.rv = @ + 1, !.faults = @ + 1]
      <4>1. /\ spent'.vms = spent.vms + 1 /\ spent'.rv = spent.rv + 1
            /\ spent'.faults = spent.faults + 1
        BY <1>s, <2>1, <3>2, SpentTwice
      <4> QED
        BY <1>s, <4>1
    <3> QED
      BY <1>3, <3>1, <3>2 DEF CreateVM
  <2>4. call.pc = "idle"
    <3>1. call.vm # Absent => call.vm.uid \in 1..MaxVMs
      BY <1>0, VMFields
    <3> QED
      BY <1>0, <2>1, <3>1 DEF FreshInv, UidInv
  <2>5. /\ \A c \in {cm', cmCache'} : c # Absent =>
             c.owner <= spent'.vms /\ c.owner <= spent.vms /\ c.owner \in Nat
        /\ Exists' => disk'.uid <= spent'.vms /\ disk'.uid <= spent.vms /\ disk'.uid \in Nat
    <3>1. cmCache # Absent => cmCache.owner \in Nat /\ cmCache.owner <= spent.vms
      BY CMFields DEF TypeOK, LeftInv
    <3>2. Exists => disk.uid \in Nat /\ disk.uid <= spent.vms
      BY DiskFields DEF TypeOK, LeftInv, Exists
    <3> QED
      BY <1>s, <2>1, <2>2, <2>3, <3>1, <3>2 DEF caches, Exists
  <2>6. Exists' => spent'.faults >= 1
    BY <1>s, <2>1, <2>3 DEF LeftInv, Exists
  <2>7. CASE vm' = vm
    <3>1. ~Leftover'
      BY <2>1, <2>7 DEF Leftover
    <3>2. LeftInv'
      BY <2>1, <2>4, <2>5, <2>6, <3>1 DEF LeftInv
    <3>3. OwnInv'
      BY <2>1, <2>4, <2>7
      DEF OwnInv, CreatedHasInstance, ObservedOnDisk, Live, Making, Exists
    <3> QED
      BY <3>2, <3>3
  <2>8. CASE vm' = [uid |-> spent.vms + 1, deleting |-> FALSE, running |-> FALSE,
                    created |-> "None", named |-> FALSE, observed |-> 0]
    <3>1. vm'.uid = spent.vms + 1 /\ vm'.created = "None" /\ ~vm'.named
      BY <2>8
    <3>2. ~OwnedBy(vm.uid)'
      BY <1>s, <2>5, <3>1 DEF OwnedBy
    <3>3. Exists' => disk'.uid # vm'.uid
      BY <1>s, <2>5, <3>1
    <3>4. LeftInv'
      BY <2>1, <2>4, <2>5, <2>6, <3>1, <3>2 DEF LeftInv, Leftover
    <3>5. OwnInv'
      BY <2>1, <2>4, <3>1, <3>3
      DEF OwnInv, CreatedHasInstance, ObservedOnDisk, Live, Making, Exists
    <3> QED
      BY <3>4, <3>5
  <2> QED
    BY <1>3, <2>7, <2>8 DEF CreateVM
<1>4. CASE DeleteVM \/ EditVM
  <2>1. PICK new : /\ new # Absent /\ new.uid = vm.uid /\ new.created = vm.created
                   /\ new.named = vm.named /\ new.observed = vm.observed
                   /\ (Live(new) => Live(vm)) /\ WriteVM(new)
    <3>1. CASE DeleteVM
      <4> DEFINE new == [vm EXCEPT !.deleting = TRUE]
      <4>1. /\ new # Absent /\ new.uid = vm.uid /\ new.created = vm.created
            /\ new.named = vm.named /\ new.observed = vm.observed /\ new.deleting = TRUE
        BY <1>0, <3>1, VMDeleted DEF DeleteVM, Live
      <4>2. WriteVM(new)
        BY <3>1 DEF DeleteVM
      <4> HIDE DEF new
      <4> QED
        BY <4>1, <4>2 DEF Live
    <3>2. CASE EditVM
      <4> DEFINE new == [vm EXCEPT !.running = ~@]
      <4>1. /\ new # Absent /\ new.uid = vm.uid /\ new.created = vm.created
            /\ new.named = vm.named /\ new.observed = vm.observed
            /\ new.deleting = vm.deleting
        BY <1>0, <3>2, VMEdited DEF EditVM
      <4>2. WriteVM(new) /\ vm # Absent
        BY <3>2 DEF EditVM
      <4> HIDE DEF new
      <4> QED
        BY <4>1, <4>2 DEF Live
    <3> QED
      BY <1>4, <3>1, <3>2
  <2>2. UNCHANGED <<cm, caches, call, disk, agent>> /\ UserOp /\ vm # Absent
    BY <1>4 DEF DeleteVM, EditVM, Live
  <2>3. spent'.rv = spent.rv /\ spent'.vms = spent.vms /\ spent'.faults = spent.faults
    BY <2>2, SpentFields
  <2>4. vm' = new
    BY <2>1 DEF WriteVM
  <2>5. Live(vm)' => Live(vm)
    BY <2>1, <2>4 DEF Live
  <2> QED
    BY <1>s, <2>1, <2>2, <2>3, <2>4, <2>5, CareKept DEF caches
<1>5. CASE EditTemplate
  <2>1. /\ UNCHANGED <<vm, caches, call, disk, agent>> /\ cm # Absent
        /\ spent' = [spent EXCEPT !.ops = @ + 1, !.rv = @ + 1]
    BY <1>5 DEF EditTemplate
  <2>2. PICK t \in Templates : WriteCM([cm EXCEPT !.data = t, !.rv = spent'.rv])
    BY <1>5 DEF EditTemplate
  <2>3. spent'.rv = spent.rv + 1 /\ spent'.vms = spent.vms /\ spent'.faults = spent.faults
    BY <1>s, <2>1, SpentTwice
  <2>4. PICK n \in Nat : n = spent'.rv
    BY <1>s
  <2>5. cm' = [cm EXCEPT !.data = t, !.rv = n]
    BY <2>2, <2>4 DEF WriteCM
  <2>6. cm'.rv = n /\ cm'.owner = cm.owner /\ cm' # Absent
    <3>1. cm \in [uid : 1..MaxVMs, owner : 0..MaxVMs, rv : Nat, data : Templates]
      BY <1>0, <2>1, CMFields
    <3>2. cm'.rv = n /\ cm'.owner = cm.owner /\ cm'.uid = cm.uid /\ cm.uid # 0
      BY <2>5, <3>1
    <3> QED
      BY <1>0, <3>2
  <2> QED
    BY <1>s, <2>1, <2>3, <2>4, <2>6, CareKept DEF caches
<1>6. CASE ControlPlaneCrash
  <2>1. /\ call' = Idle /\ UNCHANGED <<vm, cm>> /\ cmCache' = cm /\ Fault
        /\ call.pc # "mark" /\ (agent' # "none" => agent # "none")
    BY <1>6 DEF ControlPlaneCrash, StopWatcher
  <2>2. disk' = disk \/ (~Exists /\ ~Exists')
    BY <1>6, DiskStates DEF ControlPlaneCrash, Exists
  <2>3. /\ spent'.vms = spent.vms /\ spent'.rv = spent.rv
        /\ spent'.faults >= spent.faults
    BY <2>1, FaultSteps
  <2> QED
    BY <1>s, <2>1, <2>2, <2>3, CareKept DEF Making
<1> QED
  BY <1>1, <1>2, <1>3, <1>4, <1>5, <1>6 DEF UserStep

\* No step takes a fault back.
LEMMA FaultsStay ==
    ASSUME TypeOK, TypeOK', [Next]_vars, TwoFaults'
    PROVE  TwoFaults
<1>1. spent.faults \in Nat /\ spent'.faults \in Nat
  <2>1. spent' \in [vms : 0..MaxVMs, ops : Nat, faults : Nat, rv : Nat]
    BY DEF TypeOK
  <2> QED
    BY <2>1, SpentFields
<1>2. spent'.faults >= spent.faults
  <2>1. CASE UNCHANGED spent \/ Fault \/ Fault2 \/ UserOp
    <3>1. spent'.faults \in {spent.faults, spent.faults + 1, spent.faults + 2}
      BY <2>1, SpentFields
    <3> QED
      BY <1>1, <3>1
  <2>2. CASE \/ spent' = [spent EXCEPT !.rv = @ + 1]
             \/ spent' = [spent EXCEPT !.ops = @ + 1, !.rv = @ + 1]
             \/ spent' = [spent EXCEPT !.vms = @ + 1, !.rv = @ + 1]
    <3>1. spent \in [vms : 0..MaxVMs, ops : Nat, faults : Nat, rv : Nat]
      BY DEF TypeOK
    <3>2. spent'.faults = spent.faults
      BY <2>2, <3>1
    <3> QED
      BY <1>1, <3>2
  <2>3. CASE spent' = [spent EXCEPT !.vms = @ + 1, !.rv = @ + 1, !.faults = @ + 1]
    <3>1. spent \in [vms : 0..MaxVMs, ops : Nat, faults : Nat, rv : Nat]
      BY DEF TypeOK
    <3>2. spent'.faults = spent.faults + 1
      BY <2>3, <3>1
    <3> QED
      BY <1>1, <3>2
  <2>4. ASSUME CreateStep
        PROVE  \/ UNCHANGED spent \/ Fault \/ Fault2
               \/ spent' = [spent EXCEPT !.rv = @ + 1]
    BY <2>4 DEF CreateStep, SetPending, HandleSentinel, DeleteLeftover, SetOwner,
         RecordName, AlreadyCreated, AdoptExisting, RemoveStale, CreateInstance,
         CreateSentinel, Prepare, Publish, RemoveSentinel
  <2>5. ASSUME Reconcile \/ DeleteStep \/ ReconcileError \/ SyncVM \/ SyncCM
               \/ ControlPlaneCrash \/ UNCHANGED vars
        PROVE  UNCHANGED spent \/ Fault
    BY <2>5 DEF Reconcile, DeleteStep, DeleteInstance, DeleteOwned, RemoveFinalizer,
         ReconcileError, SyncVM, SyncCM, ControlPlaneCrash, vars
  <2>6. ASSUME UserStep
        PROVE  \/ UserOp
               \/ spent' = [spent EXCEPT !.ops = @ + 1, !.rv = @ + 1]
               \/ spent' = [spent EXCEPT !.vms = @ + 1, !.rv = @ + 1]
               \/ spent' = [spent EXCEPT !.vms = @ + 1, !.rv = @ + 1, !.faults = @ + 1]
    BY <2>6 DEF UserStep, CreateVM, DeleteVM, EditVM, EditTemplate
  <2> QED
    BY <2>1, <2>2, <2>3, <2>4, <2>5, <2>6 DEF Next, ReconcilerStep
<1> QED
  BY <1>1, <1>2 DEF TwoFaults

\* For every number of LimaVMs and operations, when a call reads its own writes and
\* no instance is left unmarked: as long as no more than two things have failed,
\* Created=True promises a complete instance that this LimaVM made, no hostagent
\* is left without its instance directory, and the version recorded at creation is
\* that of the template that was used.
THEOREM CreationSound ==
    ASSUME Careful
    PROVE  Spec => [](TwoFaults => CreatedHasInstance /\ GuestHasInstance /\ ObservedOnDisk)
<1>1. Init => CareInv
  <2> SUFFICES ASSUME Init PROVE LeftInv /\ OwnInv
    BY DEF CareInv
  <2>1. ~Exists /\ call.pc = "idle"
    BY DiskStates DEF Init, Exists, Idle
  <2> QED
    BY <2>1 DEF Init, LeftInv, OwnInv, Leftover, CreatedHasInstance, ObservedOnDisk, Live,
       Making
<1>2. /\ TypeOK /\ UidInv /\ WakeInv /\ FreshInv /\ RvInv /\ CareInv /\ TypeOK'
      /\ [Next]_vars
      => CareInv'
  <2> SUFFICES ASSUME TypeOK, UidInv, WakeInv, FreshInv, RvInv, CareInv, TypeOK',
                      [Next]_vars, TwoFaults'
               PROVE  LeftInv' /\ OwnInv'
    BY DEF CareInv
  <2>1. LeftInv /\ OwnInv
    BY FaultsStay DEF CareInv
  <2>2. CASE Next
    BY <2>1, <2>2, CreateCare, DeleteCare, OtherCare DEF Next, ReconcilerStep, Careful
  <2>3. CASE UNCHANGED vars
    BY <2>1, <2>3 DEF vars, LeftInv, OwnInv, Leftover, OwnedBy, Exists, Live,
       CreatedHasInstance, ObservedOnDisk
  <2> QED
    BY <2>2, <2>3
<1>3. CareInv => (TwoFaults => CreatedHasInstance /\ GuestHasInstance /\ ObservedOnDisk)
  BY DEF CareInv, OwnInv, GuestHasInstance
<1>4. Spec => [](FreshInv /\ RvInv)
  BY Fresh DEF Careful
<1> QED
  BY <1>1, <1>2, <1>3, <1>4, Uids, Wake, PTL DEF Spec

\* LimaVMCreate keeps its types in every behaviour, for any number of LimaVMs, uids
\* and operations, and whatever the switches are.
THEOREM TypeCorrect == Spec => []TypeOK
  BY PatchesOwn, PTL

\* No hostagent loses the instance directory that it runs from, while at most two
\* things have failed.
THEOREM GuestsKeepDirectory ==
    ASSUME Careful
    PROVE  Spec => [](TwoFaults => GuestHasInstance)
  BY CreationSound, PTL

\* The template version that creation records is the one of the instance on disk,
\* while at most two things have failed.
THEOREM VersionsTrue ==
    ASSUME Careful
    PROVE  Spec => [](TwoFaults => ObservedOnDisk)
  BY CreationSound, PTL
=============================================================================
