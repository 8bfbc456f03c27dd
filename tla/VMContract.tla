------------------------------ MODULE VMContract ------------------------------
(***************************************************************************)
(* What the LimaVM controller promises to its clients, the App controller  *)
(* first of all: when the Running condition may change, what a guest boots *)
(* from and what status.observedTemplateResourceVersion says about it.     *)
(* LimaVM implements this (LimaVMContract), AppSettled builds on it.       *)
(* Source: rdd/docs/design/api_lima.md names these promises, the code of   *)
(* rdd/pkg/controllers/lima/limavm/controllers keeps them.                 *)
(***************************************************************************)
EXTENDS Naturals

CONSTANTS
    Templates,  \* valid contents of the template ConfigMap
    Off         \* no guest

ASSUME OffAssumption == Off \notin Templates

VARIABLES
    running,   \* spec.running
    cond,      \* the reason of the Running condition
    observed,  \* status.observedTemplateResourceVersion
    cm,        \* the template ConfigMap
    disk,      \* lima.yaml
    guest,     \* the template the guest has booted from, or Off
    going,     \* does a reconcile in progress work with spec.running = true?
    view       \* does the control plane watch the guest's hostagent?

vmVars == <<running, cond, observed, cm, disk, guest, going, view>>

Conditions == {"Starting", "Started", "Stopped", "Other"}
\* A guest that the control plane has not started is found, one whose watch
\* failed is lost: it is stopped before the next one is started.
Views == {"watched", "found", "lost"}

ContractType ==
    /\ running \in BOOLEAN /\ going \in BOOLEAN /\ view \in Views
    /\ cond \in Conditions
    /\ cm \in [rv : Nat, data : Templates]
    /\ observed \in Nat
    /\ disk \in Templates
    /\ guest \in Templates \cup {Off}

ContractInit ==
    /\ running \in BOOLEAN /\ going = FALSE /\ view \in {"watched", "found"}
    /\ cond = "Other"
    /\ \E t \in Templates : cm = [rv |-> 1, data |-> t] /\ disk = t
    /\ observed = 1
    /\ guest = Off

-----------------------------------------------------------------------------
\* A reconcile works with spec.running as it read it. A new control plane finds
\* its guests rather than having started them, and so does one that has dropped
\* the watcher of a guest it lost. A start makes a new watcher.
Remember == /\ going' \in {going, running, FALSE}
            /\ \/ view' \in {view, "found"}
               \/ view = "watched" /\ view' = "lost"
               \/ guest' = Off /\ view' = "watched"

Quietly == UNCHANGED <<running, cond, observed, cm, disk, guest>>

\* A start is announced before there is a guest.
Announce ==
    /\ going /\ guest = Off
    /\ cond' = "Starting"
    /\ UNCHANGED <<running, observed, cm, disk, guest>>

\* A guest boots from lima.yaml, after the announcement.
Boot ==
    /\ guest = Off
    /\ view = "watched" => cond = "Starting"
    /\ guest' = disk
    /\ UNCHANGED <<running, cond, observed, cm, disk>>

ReportStarted ==
    /\ going /\ cond = "Starting"
    /\ cond' = "Started"
    /\ UNCHANGED <<running, observed, cm, disk, guest>>

\* A guest is stopped, powers off or crashes.
PowerOff ==
    /\ guest' = Off
    /\ UNCHANGED <<running, cond, observed, cm, disk>>

\* Stopped means that no guest is left, but for one that was lost: the end of
\* its watch is taken for its end.
ReportStopped ==
    /\ guest = Off \/ view = "lost"
    /\ cond' = "Stopped"
    /\ UNCHANGED <<running, observed, cm, disk, guest>>

\* Reconciling and the failures.
ReportOther ==
    /\ cond' = "Other"
    /\ UNCHANGED <<running, observed, cm, disk, guest>>

WriteDisk ==
    /\ observed # cm.rv
    /\ disk' \in Templates
    /\ UNCHANGED <<running, cond, observed, cm, guest>>

\* A version is recorded when lima.yaml has it and no guest that is watched runs
\* another one.
Observe ==
    /\ observed' \in (observed + 1)..cm.rv
    /\ observed' = cm.rv =>
         disk = cm.data /\ (view' = "watched" => guest \in {Off, cm.data})
    /\ UNCHANGED <<running, cond, cm, disk, guest>>

VMStep == \/ Quietly \/ Announce \/ Boot \/ ReportStarted \/ PowerOff
          \/ ReportStopped \/ ReportOther \/ WriteDisk \/ Observe

\* The clients.
SetRunning == running' = ~running /\ UNCHANGED <<cond, observed, cm, disk, guest>>
EditTemplate ==
    /\ \E t \in Templates : cm' = [rv |-> cm.rv + 1, data |-> t]
    /\ UNCHANGED <<running, cond, observed, disk, guest>>

ContractNext == Remember /\ (VMStep \/ SetRunning \/ EditTemplate)
Contract == ContractInit /\ [][ContractNext]_vmVars

-----------------------------------------------------------------------------
\* What follows: the version that a client sees is that of the guest, as long as
\* the guest is watched.
ObservedIsGuest ==
    (observed = cm.rv /\ view = "watched") => guest \in {Off, cm.data}
=============================================================================
