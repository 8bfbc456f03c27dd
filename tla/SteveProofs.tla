---------------------------- MODULE SteveProofs ----------------------------
(***************************************************************************)
(* Steve, for any number of processes, messages, attempts and faults: no   *)
(* process is lost, and the published port is the current process's own    *)
(* unless a fetch is answered after the exit event.                        *)
(***************************************************************************)
EXTENDS Steve, TLAPS

USE LateAssumption, NoneAssumption, BoundAssumption
    DEF LateAssumption, NoneAssumption, BoundAssumption

LEMMA Shorter ==
    ASSUME NEW s \in Seq(BOOLEAN), s # <<>>
    PROVE  Tail(s) \in Seq(BOOLEAN)
    OBVIOUS

\* Types, and that a pending start has a process.
THEOREM Typed == Spec => []TypeOK
<1>1. Init => TypeOK
    BY DEF Init, TypeOK, Lives, Living
<1>2. TypeOK /\ [Next]_vars => TypeOK'
  <2> SUFFICES ASSUME TypeOK, [Next]_vars
               PROVE  TypeOK'
    OBVIOUS
  <2> USE DEF TypeOK, Lives, Living, isRunning, child, pending, jsVars, Idle, Kill
  <2>1. CASE AppChanges
    BY <2>1 DEF AppChanges
  <2>2. ASSUME Message, Head(messages), Start
        PROVE  TypeOK'
    <3>1. messages' \in Seq(BOOLEAN)
        BY <2>2, Shorter DEF Message
    <3>2. CASE UNCHANGED <<child, process, port, pending, faults>>
        BY <2>2, <3>1, <3>2 DEF Message
    <3>3. CASE pc = "none" /\ \E p \in Procs : Spawn(p)
        BY <2>2, <3>1, <3>3 DEF Message, Spawn
    <3>4. CASE pc = "none" /\ SpawnFails
        <4>1. told' \subseteq Procs /\ process' \in Procs \cup {None} /\ port' \in Procs \cup {None}
            BY <3>4 DEF SpawnFails
        <4>2. faults' \in 0..MaxFaults
            BY <3>4 DEF SpawnFails
        <4> QED BY <2>2, <3>1, <3>4, <4>1, <4>2 DEF Message, SpawnFails
    <3> QED BY <2>2, <3>2, <3>3, <3>4 DEF Start
  <2>3. ASSUME Message, Stop
        PROVE  TypeOK'
    <3>1. messages' \in Seq(BOOLEAN)
        BY <2>3, Shorter DEF Message
    <3> QED BY <2>3, <3>1 DEF Message, Stop
  <2>4. CASE BeforeQuit
    BY <2>4 DEF BeforeQuit, Stop
  <2>5. CASE Quit
    BY <2>5 DEF Quit
  <2>6. ASSUME Event, StdoutEnds
        PROVE  TypeOK'
    BY <2>6 DEF Event, StdoutEnds
  <2>7. ASSUME Event, PortTimeout
        PROVE  TypeOK'
    BY <2>7 DEF Event, PortTimeout
  <2>8. ASSUME Event, Answered
        PROVE  TypeOK'
    BY <2>8 DEF Event, Answered
  <2>9. ASSUME Event, Wakes
        PROVE  TypeOK'
    BY <2>9 DEF Event, Wakes
  <2>10. ASSUME Event, NEW p \in Procs, Exited(p)
         PROVE  TypeOK'
    BY <2>10 DEF Event, Exited
  <2>11. CASE Answers
    BY <2>11 DEF Answers
  <2>12. ASSUME NEW p \in Procs, Listens(p) \/ Serves(p) \/ Ends(p)
         PROVE  TypeOK'
    BY <2>12 DEF Listens, Serves, Ends, Live
  <2>13. ASSUME NEW p \in Procs, Fault(p)
         PROVE  TypeOK'
    BY <2>13 DEF Fault, Live
  <2>14. CASE UNCHANGED vars
    BY <2>14 DEF vars
  <2> QED
    BY <2>1, <2>2, <2>3, <2>4, <2>5, <2>6, <2>7, <2>8, <2>9, <2>10, <2>11,
       <2>12, <2>13, <2>14 DEF Next, Message, Event, Child
<1> QED BY <1>1, <1>2, PTL DEF Spec

----------------------------------------------------------------------------
\* A process that is alive and not told to end is Steve.process, through every
\* restart, failed spawn and exit event (steve.ts).
THEOREM NoneLost == Spec => []OneSteve
<1>1. Init => OneSteve
    BY DEF Init, OneSteve, Live, Living
<1>2. TypeOK /\ OneSteve /\ [Next]_vars => OneSteve'
  <2> SUFFICES ASSUME TypeOK, OneSteve, [Next]_vars
               PROVE  OneSteve'
    OBVIOUS
  <2> USE DEF OneSteve, TypeOK, Live, Living, Lives, isRunning, Kill
  <2>1. CASE UNCHANGED <<life, told, process>>
    BY <2>1
  <2>2. ASSUME NEW p \in Procs, Spawn(p)
        PROVE  OneSteve'
    BY <2>2 DEF Spawn
  <2>3. CASE SpawnFails
    BY <2>3 DEF SpawnFails
  <2>4. CASE Stop
    BY <2>4 DEF Stop
  <2>5. CASE StdoutEnds \/ PortTimeout
    BY <2>5 DEF StdoutEnds, PortTimeout
  <2>6. ASSUME NEW p \in Procs, Exited(p)
        PROVE  OneSteve'
    BY <2>6 DEF Exited
  <2>7. ASSUME NEW p \in Procs, Listens(p) \/ Serves(p) \/ Ends(p)
        PROVE  OneSteve'
    BY <2>7 DEF Listens, Serves, Ends, jsVars
  <2>8. ASSUME NEW p \in Procs, Fault(p)
        PROVE  OneSteve'
    BY <2>8 DEF Fault, jsVars
  <2> QED
    BY <2>1, <2>2, <2>3, <2>4, <2>5, <2>6, <2>7, <2>8
    DEF Next, AppChanges, Message, Start, BeforeQuit, Quit, Event, Answered, Wakes,
        Child, Answers, vars, child, jsVars
<1> QED BY <1>1, <1>2, Typed, PTL DEF Spec

----------------------------------------------------------------------------
\* A success of the fetch is handled before the exit event of the process.
AnswerInTime == answer = "ok" => life[process] # "exited"
PortInv == PortIsOwn /\ AnswerInTime

\* The port the windows are shown is the current process's own, and its exit
\* withdraws it, when no fetch is answered after the exit event.
THEOREM PortOwned ==
    ASSUME "answer" \notin Late
    PROVE  Spec => []PortIsOwn
<1>1. Init => PortInv
    BY DEF Init, PortInv, PortIsOwn, AnswerInTime
<1>2. TypeOK /\ PortInv /\ [Next]_vars => PortInv'
  <2> SUFFICES ASSUME TypeOK, PortInv, [Next]_vars
               PROVE  PortInv'
    OBVIOUS
  <2> USE DEF PortInv, PortIsOwn, AnswerInTime, TypeOK, Lives, Living, isRunning, Idle
  <2>1. CASE UNCHANGED <<life, process, port, answer>>
    BY <2>1
  <2>2. ASSUME NEW p \in Procs, pc = "none", Spawn(p)
        PROVE  PortInv'
    BY <2>2 DEF Spawn
  <2>3. CASE pc = "none" /\ SpawnFails
    BY <2>3 DEF SpawnFails
  <2>4. CASE Stop
    BY <2>4 DEF Stop
  <2>5. CASE StdoutEnds \/ PortTimeout
    BY <2>5 DEF StdoutEnds, PortTimeout
  <2>6. CASE Answered
    BY <2>6 DEF Answered, child
  <2>7. CASE Wakes
    BY <2>7 DEF Wakes, child
  <2>8. ASSUME NEW p \in Procs, Exited(p)
        PROVE  PortInv'
    BY <2>8 DEF Exited, pending
  <2>9. ASSUME NEW p \in Procs, Listens(p) \/ Serves(p) \/ Ends(p)
        PROVE  PortInv'
    BY <2>9 DEF Listens, Serves, Ends, Live, jsVars
  <2>10. ASSUME NEW p \in Procs, Fault(p)
         PROVE  PortInv'
    BY <2>10 DEF Fault, Live, jsVars
  <2>11. CASE Answers
    BY <2>11 DEF Answers, child, jsVars
  <2> QED
    BY <2>1, <2>2, <2>3, <2>4, <2>5, <2>6, <2>7, <2>8, <2>9, <2>10, <2>11
    DEF Next, AppChanges, Message, Start, BeforeQuit, Quit, Event, Child, vars,
        child, pending, jsVars
<1>3. PortInv => PortIsOwn
    BY DEF PortInv
<1> QED BY <1>1, <1>2, <1>3, Typed, PTL DEF Spec
=============================================================================
