--------------------------- MODULE VMContractProofs ---------------------------
(***************************************************************************)
(* ObservedIsGuest follows from the contract, whatever the templates.      *)
(***************************************************************************)
EXTENDS VMContract, TLAPS

\* The inductive invariant: the version that is recorded is never ahead of the
\* ConfigMap's, and when it is the ConfigMap's, lima.yaml has its template and a
\* guest that is watched runs it.
ContractInv ==
    /\ ContractType
    /\ observed <= cm.rv
    /\ observed = cm.rv => disk = cm.data
    /\ ObservedIsGuest

-----------------------------------------------------------------------------
\* Nothing runs at first, and the first version is recorded.
LEMMA InitInv == ContractInit => ContractInv
<1> SUFFICES ASSUME ContractInit PROVE ContractInv
    OBVIOUS
<1>1. PICK t \in Templates : cm = [rv |-> 1, data |-> t] /\ disk = t
    BY DEF ContractInit
<1>2. cm.rv = 1 /\ cm.data = t /\ cm \in [rv : Nat, data : Templates]
    BY <1>1
<1>3. running \in BOOLEAN /\ going \in BOOLEAN /\ view \in Views
    BY Zenon DEF ContractInit, Views
<1>4. /\ cond \in Conditions /\ observed = 1 /\ observed \in Nat
      /\ guest \in Templates \cup {Off} /\ guest = Off
    BY DEF ContractInit, Conditions
<1> QED
    BY <1>1, <1>2, <1>3, <1>4 DEF ContractInv, ContractType, ObservedIsGuest

\* Every step of LimaVM or of a client keeps the types.
LEMMA TypeStep == ContractType /\ ContractNext => ContractType'
<1> SUFFICES ASSUME ContractType, ContractNext PROVE ContractType'
    OBVIOUS
<1> USE DEF ContractType, Conditions, Views, Remember
<1>1. Remember
    BY DEF ContractNext
<1>2. CASE Quietly
    BY <1>1, <1>2 DEF Quietly
<1>3. CASE Announce
    BY <1>1, <1>3 DEF Announce
<1>4. CASE Boot
    BY <1>1, <1>4 DEF Boot
<1>5. CASE ReportStarted
    BY <1>1, <1>5 DEF ReportStarted
<1>6. CASE PowerOff
    BY <1>1, <1>6 DEF PowerOff
<1>7. CASE ReportStopped
    BY <1>1, <1>7 DEF ReportStopped
<1>8. CASE ReportOther
    BY <1>1, <1>8 DEF ReportOther
<1>9. CASE WriteDisk
    BY <1>1, <1>9 DEF WriteDisk
<1>10. CASE Observe
    <2>1. cm.rv \in Nat
        OBVIOUS
    <2>2. observed' \in Nat
        BY <2>1, <1>10 DEF Observe
    <2> QED
        BY <1>1, <1>10, <2>2 DEF Observe
<1>11. CASE SetRunning
    BY <1>1, <1>11 DEF SetRunning
<1>12. CASE EditTemplate
    <2>1. PICK t \in Templates : cm' = [rv |-> cm.rv + 1, data |-> t]
        BY <1>12 DEF EditTemplate
    <2>2. cm' \in [rv : Nat, data : Templates]
        BY <2>1
    <2> QED
        BY <1>1, <1>12, <2>2 DEF EditTemplate
<1> QED
    BY <1>2, <1>3, <1>4, <1>5, <1>6, <1>7, <1>8, <1>9, <1>10, <1>11, <1>12
    DEF ContractNext, VMStep

\* Every step keeps what relates the recorded version, lima.yaml and the guest.
LEMMA InvStep == ContractInv /\ [ContractNext]_vmVars => ContractInv'
<1> SUFFICES ASSUME ContractInv, [ContractNext]_vmVars PROVE ContractInv'
    OBVIOUS
<1> USE DEF ContractInv, ObservedIsGuest
<1>1. CASE UNCHANGED vmVars
    BY <1>1 DEF vmVars, ContractType
<1>2. CASE ContractNext
    <2>1. ContractType /\ ContractType'
        BY <1>2, TypeStep
    <2>2. view' = "watched" => view = "watched" \/ guest' = Off
        BY <1>2 DEF ContractNext, Remember, ContractType, Views
    <2>3. CASE Boot
        BY <2>1, <2>2, <2>3 DEF Boot
    <2>4. CASE PowerOff
        BY <2>1, <2>2, <2>4 DEF PowerOff
    <2>5. CASE WriteDisk
        BY <2>1, <2>5 DEF WriteDisk
    <2>6. CASE Observe
        BY <2>1, <2>6 DEF Observe, ContractType
    <2>7. CASE EditTemplate
        BY <2>1, <2>7 DEF EditTemplate, ContractType
    <2>8. CASE UNCHANGED <<observed, cm, disk, guest>>
        BY <2>1, <2>2, <2>8
    <2> QED
        BY <1>2, <2>3, <2>4, <2>5, <2>6, <2>7, <2>8
        DEF ContractNext, VMStep, Quietly, Announce, ReportStarted,
            ReportStopped, ReportOther, SetRunning
<1> QED
    BY <1>1, <1>2

\* In every behaviour that keeps the contract, the version that a client sees
\* recorded is that of the guest, as long as the control plane watches the guest.
THEOREM ContractKeepsObserved == Contract => []ObservedIsGuest
<1>1. ContractInv => ObservedIsGuest
    BY DEF ContractInv
<1> QED
    BY <1>1, InitInv, InvStep, PTL DEF Contract
=============================================================================
