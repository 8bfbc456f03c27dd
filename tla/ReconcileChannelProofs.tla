----------------------- MODULE ReconcileChannelProofs -----------------------
(***************************************************************************)
(* For any LimaVMs, capacity, operations and faults: a wake-up is lost     *)
(* only when the channel is full of others' events; hence none is lost     *)
(* where there is only one LimaVM.                                         *)
(***************************************************************************)
EXTENDS ReconcileChannel, TLAPS

USE ChannelAssumption DEF ChannelAssumption

\* A request that the worker has taken is as the spec says, or is due again.
CallInv ==
    call # NoCall =>
        /\ call.run = run[call.vm] \/ call.vm \in queue
        /\ call.pc = "spawn" => call.run /\ cond[call.vm] = "Starting"
        /\ call.pc = "stopping" => ~call.run

WakeInv == TypeOK /\ CallInv /\ LostOnlyBeside

----------------------------------------------------------------------------
(* The channel *)

LEMMA EnqueueKeeps ==
    ASSUME TypeOK, NEW v \in VMs, Enqueue(v), UNCHANGED <<queue, call>>
    PROVE  /\ chan' \in Seq(VMs) /\ Len(chan') <= Capacity
           /\ lost \subseteq lost' /\ lost' \subseteq VMs
           /\ \A u \in VMs : InChan(u) => InChan(u)'
           /\ Pending(v)' \/ v \in lost'
<1>1. CASE Len(chan) < Capacity /\ chan' = Append(chan, v) /\ UNCHANGED lost
    <2>1. /\ Len(chan') = Len(chan) + 1 /\ chan'[Len(chan) + 1] = v
          /\ \A i \in 1..Len(chan) : chan'[i] = chan[i]
        BY <1>1 DEF TypeOK
    <2>2. InChan(v)'
        BY <2>1 DEF InChan, TypeOK
    <2> QED
        BY <1>1, <2>1, <2>2 DEF TypeOK, InChan, Pending
<1>2. CASE UNCHANGED chan /\ lost' = IF Pending(v) THEN lost ELSE lost \cup {v}
    BY <1>2 DEF TypeOK, InChan, Pending
<1> QED
    BY <1>1, <1>2 DEF Enqueue

LEMMA DeliverKeeps ==
    ASSUME TypeOK, Deliver
    PROVE  /\ chan' \in Seq(VMs) /\ Len(chan') <= Capacity
           /\ queue' \subseteq VMs
           /\ \A u \in VMs : InChan(u) => u \in queue' \/ InChan(u)'
<1>1. /\ Len(chan) \in Nat \ {0} /\ Head(chan) = chan[1] /\ Head(chan) \in VMs
      /\ Len(chan') = Len(chan) - 1
      /\ \A i \in 1..Len(chan') : chan'[i] = chan[i + 1]
      /\ chan' \in Seq(VMs)
    BY DEF TypeOK, Deliver
<1>2. ASSUME NEW u \in VMs, InChan(u), u \notin queue'
      PROVE  InChan(u)'
    <2>1. PICK i \in 1..Len(chan) : chan[i] = u
        BY <1>2 DEF InChan
    <2>2. i # 1
        BY <1>1, <1>2, <2>1 DEF Deliver
    <2>3. i - 1 \in 1..Len(chan') /\ chan'[i - 1] = u
        BY <1>1, <2>1, <2>2
    <2> QED
        BY <2>3 DEF InChan
<1> QED
    BY <1>1, <1>2 DEF TypeOK, Deliver

----------------------------------------------------------------------------
(* The steps *)

LEMMA WatcherStep ==
    ASSUME WakeInv, NEW v \in VMs, SeesRunning(v) \/ SeesExit(v)
    PROVE  WakeInv'
<1>1. Enqueue(v) /\ UNCHANGED <<run, cond, ha, queue, call, ops, faults>>
    BY DEF SeesRunning, SeesExit
<1>2. /\ chan' \in Seq(VMs) /\ Len(chan') <= Capacity
      /\ lost \subseteq lost' /\ lost' \subseteq VMs
      /\ \A u \in VMs : InChan(u) => InChan(u)'
      /\ Pending(v)' \/ v \in lost'
    BY <1>1, EnqueueKeeps DEF WakeInv
<1>3. /\ phase' \in [VMs -> Phases] /\ log' \subseteq VMs
      /\ \A u \in VMs \ {v} : phase'[u] = phase[u]
    BY DEF SeesRunning, SeesExit, WakeInv, TypeOK, Phases
<1>4. TypeOK'
    BY <1>1, <1>2, <1>3 DEF WakeInv, TypeOK
<1>5. CallInv'
    BY <1>1 DEF WakeInv, CallInv
<1>6. LostOnlyBeside'
    BY <1>1, <1>2, <1>3 DEF WakeInv, LostOnlyBeside, Done, Pending, InCall
<1> QED
    BY <1>4, <1>5, <1>6 DEF WakeInv

LEMMA DeliverStep ==
    ASSUME WakeInv, Deliver
    PROVE  WakeInv'
<1>1. /\ UNCHANGED <<run, cond, phase, ha, log, call, lost, ops, faults>>
      /\ queue \subseteq queue'
    BY DEF Deliver
<1>2. /\ chan' \in Seq(VMs) /\ Len(chan') <= Capacity /\ queue' \subseteq VMs
      /\ \A u \in VMs : InChan(u) => u \in queue' \/ InChan(u)'
    BY DeliverKeeps DEF WakeInv
<1>3. TypeOK'
    BY <1>1, <1>2 DEF WakeInv, TypeOK
<1>4. CallInv'
    BY <1>1 DEF WakeInv, CallInv
<1>5. LostOnlyBeside'
    BY <1>1, <1>2 DEF WakeInv, LostOnlyBeside, Done, Pending, InCall
<1> QED
    BY <1>3, <1>4, <1>5 DEF WakeInv

LEMMA OutsideStep ==
    ASSUME WakeInv, NEW v \in VMs,
           SetRunning(v) \/ Reconcile(v) \/ Boots(v) \/ Ends(v) \/ Dies(v)
    PROVE  WakeInv'
<1> USE DEF WakeInv, TypeOK, CallInv, LostOnlyBeside, Done, Pending, InCall, InChan,
            Hostagents, NoCall
<1>1. CASE SetRunning(v)
    BY <1>1 DEF SetRunning
<1>2. CASE Reconcile(v)
    BY <1>2 DEF Reconcile
<1>3. CASE Boots(v) \/ Ends(v) \/ Dies(v)
    <2>1. UNCHANGED <<run, cond, phase, chan, queue, call, lost, ops>>
        BY <1>3 DEF Boots, Ends, Dies, Hostagent
    <2>2. ha' \in [VMs -> Hostagents] /\ log' \subseteq VMs /\ faults' \in 0..MaxFaults
        BY <1>3 DEF Boots, Ends, Dies, Hostagent
    <2> QED
        BY <2>1, <2>2
<1> QED
    BY <1>1, <1>2, <1>3

LEMMA DecideStep ==
    ASSUME WakeInv, NEW v \in VMs,
           \/ ResetCondition(v) \/ Watched(v) \/ StartInstance(v) \/ KillOrphan(v)
           \/ Stopped(v) \/ StopInstance(v) \/ InspectFails(v)
    PROVE  WakeInv'
<1> USE DEF WakeInv, TypeOK, CallInv, LostOnlyBeside, Done, Pending, InCall, InChan,
            Hostagents, NoCall, Conds, Phases, Decide, SetCond, SetPhase, Return
<1>1. CASE ResetCondition(v)
    BY <1>1 DEF ResetCondition
<1>2. CASE Watched(v)
    <2>1. CASE phase[v] = "Starting" /\ SetCond(v, "Starting")
        BY <1>2, <2>1 DEF Watched
    <2>2. CASE phase[v] = "Running" /\ SetCond(v, "Started")
        BY <1>2, <2>2 DEF Watched
    <2> QED
        BY <1>2, <2>1, <2>2 DEF Watched
<1>3. CASE StartInstance(v)
    <2>1. /\ call.vm = v /\ call.run
          /\ call \in [pc : {"decide", "spawn", "stopping"}, vm : VMs, run : BOOLEAN]
          /\ call' = [call EXCEPT !.pc = "spawn"]
        BY <1>3 DEF StartInstance
    <2>2. /\ call' \in [pc : {"decide", "spawn", "stopping"}, vm : VMs, run : BOOLEAN]
          /\ call'.pc = "spawn" /\ call'.vm = v /\ call'.run
        BY <2>1
    <2>3. /\ \A u \in VMs \ {v} : cond'[u] = cond[u] /\ phase'[u] = phase[u]
          /\ cond'[v] = "Starting" /\ queue \subseteq queue' /\ queue' \subseteq VMs
          /\ lost \ {v} \subseteq lost' /\ lost' \subseteq VMs
          /\ UNCHANGED <<run, log, chan, ops, faults>>
        BY <1>3 DEF StartInstance
    <2>4. TypeOK'
        BY <1>3, <2>2, <2>3 DEF StartInstance
    <2>5. CallInv'
        <3>1. call # NoCall
            BY <1>3 DEF StartInstance
        <3>2. run[v] \/ v \in queue
            BY <2>1, <3>1
        <3> QED
            BY <2>2, <2>3, <3>2
    <2>6. LostOnlyBeside'
        BY <2>1, <2>2, <2>3
    <2> QED
        BY <2>4, <2>5, <2>6
<1>4. CASE KillOrphan(v)
    BY <1>4 DEF KillOrphan
<1>5. CASE Stopped(v)
    BY <1>5 DEF Stopped
<1>6. CASE StopInstance(v)
    BY <1>6 DEF StopInstance
<1>7. CASE InspectFails(v)
    BY <1>7 DEF InspectFails
<1> QED
    BY <1>1, <1>2, <1>3, <1>4, <1>5, <1>6, <1>7

LEMMA DecidedStep ==
    ASSUME WakeInv, NEW v \in VMs, SpawnFails(v) \/ Spawn(v) \/ StopDone(v) \/ StopFails(v)
    PROVE  WakeInv'
<1> USE DEF WakeInv, TypeOK, CallInv, LostOnlyBeside, Done, Pending, InCall, InChan,
            Hostagents, NoCall, Conds, Phases, Decided, SetCond, SetPhase, Return
<1>1. CASE SpawnFails(v)
    BY <1>1 DEF SpawnFails
<1>2. CASE Spawn(v)
    BY <1>2 DEF Spawn
<1>3. CASE StopDone(v)
    BY <1>3 DEF StopDone
<1>4. CASE StopFails(v)
    BY <1>4 DEF StopFails
<1> QED
    BY <1>1, <1>2, <1>3, <1>4

LEMMA RestartStep ==
    ASSUME WakeInv, Restart
    PROVE  WakeInv'
    BY DEF Restart, WakeInv, TypeOK, CallInv, LostOnlyBeside, Pending, Phases, NoCall

LEMMA WakeStep == WakeInv /\ [Next]_vars => WakeInv'
<1> SUFFICES ASSUME WakeInv, [Next]_vars PROVE WakeInv'
    OBVIOUS
<1>1. CASE UNCHANGED vars
    BY <1>1 DEF vars, WakeInv, TypeOK, CallInv, LostOnlyBeside, Done, Pending,
                InCall, InChan
<1> QED
    BY <1>1, WatcherStep, DeliverStep, OutsideStep, DecideStep, DecidedStep, RestartStep
    DEF Next, Call

LEMMA InitWake == Init => WakeInv
    BY DEF Init, WakeInv, TypeOK, CallInv, LostOnlyBeside, Pending,
           Conds, Phases, Hostagents, NoCall

\* Whatever the reconciler, the watchers and the hostagents do, a LimaVM that
\* needs a reconcile has one due, unless its event met a channel full of others'.
THEOREM OnlyBeside == Spec => [](TypeOK /\ LostOnlyBeside)
<1>1. WakeInv => TypeOK /\ LostOnlyBeside
    BY DEF WakeInv
<1> QED
    BY <1>1, InitWake, WakeStep, PTL DEF Spec

----------------------------------------------------------------------------
(* One LimaVM *)

\* With one LimaVM the comment is right: when the channel is full, it is with an
\* event of that LimaVM, and a reconcile is already pending.
THEOREM OneIsEnough ==
    ASSUME NEW vm, VMs = {vm}
    PROVE  Spec => []AlreadyPending
<1> DEFINE NoneLost == lost = {}
<1>1. Init => NoneLost
    BY DEF Init
<1>2. WakeInv /\ NoneLost /\ [Next]_vars => NoneLost'
    <2> SUFFICES ASSUME WakeInv, lost = {}, [Next]_vars PROVE lost' = {}
        OBVIOUS
    <2>1. ASSUME NEW v \in VMs, Enqueue(v)
          PROVE  lost' = {}
        <3>1. CASE Len(chan) >= Capacity /\ ~Pending(v)
            <4>1. 1 \in 1..Len(chan)
                BY <3>1 DEF WakeInv, TypeOK
            <4>2. chan[1] \in VMs
                BY <4>1 DEF WakeInv, TypeOK
            <4> QED
                BY <3>1, <4>1, <4>2 DEF Pending, InChan
        <3> QED
            BY <2>1, <3>1 DEF Enqueue
    <2> QED
        BY <2>1 DEF Next, Call, SetRunning, Reconcile, ResetCondition, Watched,
            StartInstance, KillOrphan, Stopped, StopInstance, InspectFails, Decide,
            SpawnFails, Spawn, StopDone, StopFails, Decided, SeesRunning, SeesExit, Boots, Ends,
            Dies, Hostagent, Deliver, Restart, vars
<1>3. WakeInv /\ NoneLost => AlreadyPending
    BY DEF WakeInv, LostOnlyBeside, AlreadyPending
<1> HIDE DEF NoneLost
<1> QED
    BY <1>1, <1>2, <1>3, InitWake, WakeStep, PTL DEF Spec
=============================================================================
