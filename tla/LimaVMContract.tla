---------------------------- MODULE LimaVMContract ----------------------------
(***************************************************************************)
(* LimaVM implements VMContract when hostagents are quick to write ha.pid, *)
(* kills work and a reconcile reads its own writes.                        *)
(***************************************************************************)
EXTENDS LimaVM

\* The reasons of the Running condition that clients tell apart.
Reason == IF vm.cond \in {"Starting", "Started", "Stopped"} THEN vm.cond
                                                             ELSE "Other"
\* The template of the guest: NoMaskedHostagent leaves one at most.
Guest == IF Booted = {} THEN "Off" ELSE ha[CHOOSE p \in Booted : TRUE].tmpl

\* A watch that has ended without its hostagent, and one that is not there.
View == IF watch.phase = "Unknown" /\ call.pc # "pid" THEN "found"
        ELSE IF watch.phase = "Stopped"
                /\ ha[watch.proc].st \notin {"dead", "exiting"} THEN "lost"
        ELSE "watched"

C == INSTANCE VMContract WITH
       Off <- "Off", running <- vm.running, cond <- Reason,
       observed <- vm.observed, guest <- Guest,
       going <- call.pc # "idle" /\ call.vm.running,
       view <- View

\* Every step of the reconciler, the hostagents and the users is a step that the
\* contract allows or one that its clients cannot see.
ImplementsContract == C!Contract
=============================================================================
