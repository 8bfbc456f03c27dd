-------------------------- MODULE ReconcileChannel --------------------------
(***************************************************************************)
(* Several LimaVMs, one reconciler and one channel.  The watcher goroutine *)
(* of each LimaVM (hostagent_watcher.go) records a phase and sends an      *)
(* event into reconcileChan, which holds one event for all of them and     *)
(* drops what does not fit; controller-runtime moves the event into the    *)
(* workqueue, and one worker reconciles one LimaVM at a time.              *)
(*                                                                         *)
(* A call is handleRunningState of a created LimaVM whose template does    *)
(* not change; restarts, stale caches and PID files are those of LimaVM.   *)
(***************************************************************************)
EXTENDS Naturals, Sequences

CONSTANTS VMs,        \* the LimaVMs
          NoVM,       \* none of them
          Capacity,   \* of reconcileChan: 1 in the code
          MaxOps,     \* bound: changes of spec.running
          MaxFaults   \* bound: processes that die, failed calls and crashes

ASSUME ChannelAssumption ==
    /\ NoVM \notin VMs
    /\ Capacity \in Nat \ {0}
    /\ MaxOps \in Nat /\ MaxFaults \in Nat

VARIABLES
    run,     \* spec.running
    cond,    \* the reason of the Running condition
    phase,   \* instanceStates[name].phase, "Unknown" without a watcher
    ha,      \* the hostagent
    log,     \* the hostagents whose Running event is written and not read
    chan,    \* reconcileChan
    queue,   \* the workqueue
    call,    \* the reconcile in progress
    lost,    \* history: events dropped with no reconcile of their LimaVM due
    ops, faults

vars == <<run, cond, phase, ha, log, chan, queue, call, lost, ops, faults>>

Conds == {"None", "Reconciling", "Starting", "Started", "Stopped",
          "StartFailed", "StopFailed"}
Phases == {"Unknown", "Starting", "Running", "Stopped"}
Hostagents == {"none", "booting", "booted", "exiting"}
NoCall == [pc |-> "idle", vm |-> NoVM, run |-> FALSE]

Init ==
    /\ run = [v \in VMs |-> FALSE]
    /\ cond = [v \in VMs |-> "None"]
    /\ phase = [v \in VMs |-> "Unknown"]
    /\ ha = [v \in VMs |-> "none"]
    /\ log = {}
    /\ chan = <<>>
    /\ queue = VMs
    /\ call = NoCall
    /\ lost = {}
    /\ ops = 0 /\ faults = 0

InChan(v) == \E i \in 1..Len(chan) : chan[i] = v

\* A reconcile that will read the phase of v is due.
Pending(v) == v \in queue \/ InChan(v) \/ (call.pc = "decide" /\ call.vm = v)

----------------------------------------------------------------------------
(***************************************************************************)
(* The watchers, the hostagents and the channel.                           *)
(***************************************************************************)

\* enqueueReconcile(): a send that never blocks.
Enqueue(v) ==
    \/ Len(chan) < Capacity /\ chan' = Append(chan, v) /\ UNCHANGED lost
    \/ /\ Len(chan) >= Capacity /\ UNCHANGED chan
       /\ lost' = IF Pending(v) THEN lost ELSE lost \cup {v}

\* Mutant: a hostagent that is up wakes nobody.
SeesRunningQuietly(v) ==
    /\ v \in log /\ phase[v] = "Starting"
    /\ log' = log \ {v}
    /\ phase' = [phase EXCEPT ![v] = "Running"]
    /\ UNCHANGED <<run, cond, ha, chan, queue, call, lost, ops, faults>>
\* onEvent(): the Running event; phase and send under one lock.
SeesRunning(v) ==
    /\ v \in log /\ phase[v] = "Starting"
    /\ log' = log \ {v}
    /\ phase' = [phase EXCEPT ![v] = "Running"]
    /\ Enqueue(v)
    /\ UNCHANGED <<run, cond, ha, queue, call, ops, faults>>

\* The Exiting event, or the end of the process.
SeesExit(v) ==
    /\ phase[v] \in {"Starting", "Running"} /\ ha[v] \in {"none", "exiting"}
    /\ phase' = [phase EXCEPT ![v] = "Stopped"]
    /\ Enqueue(v)
    /\ UNCHANGED <<run, cond, ha, log, queue, call, ops, faults>>

\* source.Channel: an event becomes a request (external).
Deliver ==
    /\ chan # <<>>
    /\ chan' = Tail(chan)
    /\ queue' = queue \cup {Head(chan)}
    /\ UNCHANGED <<run, cond, phase, ha, log, call, lost, ops, faults>>

Hostagent == UNCHANGED <<run, cond, phase, chan, queue, call, lost, ops>>

Boots(v) ==
    /\ ha[v] = "booting" /\ ha' = [ha EXCEPT ![v] = "booted"]
    /\ log' = log \cup {v}
    /\ Hostagent /\ UNCHANGED faults
Ends(v) ==
    /\ ha[v] = "exiting" /\ ha' = [ha EXCEPT ![v] = "none"]
    /\ Hostagent /\ UNCHANGED <<log, faults>>
\* It is killed, or begins to end by itself.
Dies(v) ==
    /\ ha[v] \in {"booting", "booted"}
    /\ faults < MaxFaults /\ faults' = faults + 1
    /\ \E st \in {"none", "exiting"} : ha' = [ha EXCEPT ![v] = st]
    /\ Hostagent /\ UNCHANGED log

----------------------------------------------------------------------------
(***************************************************************************)
(* The reconciler.                                                         *)
(***************************************************************************)

SetRunning(v) ==
    /\ ops < MaxOps /\ ops' = ops + 1
    /\ run' = [run EXCEPT ![v] = ~@]
    /\ queue' = queue \cup {v}
    /\ UNCHANGED <<cond, phase, ha, log, chan, call, lost, faults>>

\* Reconcile reads the LimaVM.
Reconcile(v) ==
    /\ call = NoCall /\ v \in queue
    /\ queue' = queue \ {v}
    /\ call' = [pc |-> "decide", vm |-> v, run |-> run[v]]
    /\ UNCHANGED <<run, cond, phase, ha, log, chan, lost, ops, faults>>

\* A status patch; a write that changes the object wakes its own reconciler.
SetCond(v, reason) ==
    /\ cond' = [cond EXCEPT ![v] = reason]
    /\ queue' = IF cond[v] = reason THEN queue ELSE queue \cup {v}

Return == call' = NoCall
SetPhase(v, p) == phase' = [phase EXCEPT ![v] = p]

\* getInstancePhase() has been called.
Decide(v) ==
    /\ call.pc = "decide" /\ call.vm = v
    /\ lost' = lost \ {v}
    /\ UNCHANGED <<run, log, chan, ops>>

ResetCondition(v) ==
    /\ Decide(v)
    /\ call.run /\ phase[v] = "Unknown" /\ cond[v] # "Reconciling"
    /\ SetCond(v, "Reconciling") /\ Return
    /\ UNCHANGED <<phase, ha, faults>>

\* handleWatchedState(), nothing to start or stop.
Watched(v) ==
    /\ Decide(v)
    /\ call.run
    /\ \/ phase[v] = "Starting" /\ SetCond(v, "Starting")
       \/ phase[v] = "Running" /\ SetCond(v, "Started")
    /\ Return
    /\ UNCHANGED <<phase, ha, faults>>

\* startInstance() as far as the Starting condition, after stopWatcher() and
\* the end of what is left of a dead hostagent.
StartInstance(v) ==
    /\ Decide(v)
    /\ call.run
    /\ \/ phase[v] = "Unknown" /\ cond[v] = "Reconciling" /\ ha[v] = "none"
       \/ phase[v] = "Stopped"
    /\ SetPhase(v, "Unknown")
    /\ ha' = [ha EXCEPT ![v] = "none"]
    /\ SetCond(v, "Starting")
    /\ call' = [call EXCEPT !.pc = "spawn"]
    /\ UNCHANGED faults

\* handleUnwatchedState() with an orphan, up to RequeueAfter.
KillOrphan(v) ==
    /\ Decide(v)
    /\ phase[v] = "Unknown" /\ ha[v] # "none"
    /\ call.run => cond[v] = "Reconciling"
    /\ ha' = [ha EXCEPT ![v] = "none"]
    /\ queue' = queue \cup {v} /\ Return
    /\ UNCHANGED <<cond, phase, faults>>

Stopped(v) ==
    /\ Decide(v)
    /\ ~call.run
    /\ phase[v] = "Stopped" \/ (phase[v] = "Unknown" /\ ha[v] = "none")
    /\ SetPhase(v, "Unknown")
    /\ SetCond(v, "Stopped") /\ Return
    /\ UNCHANGED <<ha, faults>>

\* stopInstance(): signal the hostagent and wait.
StopInstance(v) ==
    /\ Decide(v)
    /\ ~call.run /\ phase[v] \in {"Starting", "Running"}
    /\ ha' = [ha EXCEPT ![v] = IF @ = "none" THEN @ ELSE "exiting"]
    /\ call' = [call EXCEPT !.pc = "stopping"]
    /\ UNCHANGED <<cond, phase, queue, faults>>

\* Inspect fails: the request is tried again.  After a crash of the hostagent
\* the watcher is gone by then.
InspectFails(v) ==
    /\ Decide(v)
    /\ faults < MaxFaults /\ faults' = faults + 1
    /\ \/ phase[v] = "Stopped" /\ call.run /\ SetPhase(v, "Unknown")
       \/ ~call.run /\ phase[v] # "Stopped" /\ UNCHANGED phase
       \/ call.run /\ phase[v] = "Unknown" /\ cond[v] = "Reconciling" /\ UNCHANGED phase
    /\ queue' = queue \cup {v} /\ Return
    /\ UNCHANGED <<cond, ha>>

Decided == UNCHANGED <<run, chan, lost, ops>>

\* Mutant: a failed start is not tried again.
SpawnFailsQuietly(v) ==
    /\ call.pc = "spawn" /\ call.vm = v
    /\ faults < MaxFaults /\ faults' = faults + 1
    /\ cond' = [cond EXCEPT ![v] = "StartFailed"] /\ UNCHANGED queue
    /\ Return
    /\ Decided /\ UNCHANGED <<phase, ha, log>>
\* The process or its PID file does not appear.
SpawnFails(v) ==
    /\ call.pc = "spawn" /\ call.vm = v
    /\ faults < MaxFaults /\ faults' = faults + 1
    /\ cond' = [cond EXCEPT ![v] = "StartFailed"]
    /\ queue' = queue \cup {v}
    /\ Return
    /\ Decided /\ UNCHANGED <<phase, ha, log>>

\* The hostagent is started, and startWatcher().
Spawn(v) ==
    /\ call.pc = "spawn" /\ call.vm = v
    /\ ha' = [ha EXCEPT ![v] = "booting"]
    /\ log' = log \ {v}
    /\ SetPhase(v, "Starting") /\ Return
    /\ Decided /\ UNCHANGED <<cond, queue, faults>>

\* The process is gone, and stopWatcher() waits for the watcher, which ends
\* with phase Stopped.
StopDone(v) ==
    /\ call.pc = "stopping" /\ call.vm = v
    /\ ha[v] = "none" /\ phase[v] = "Stopped"
    /\ SetPhase(v, "Unknown")
    /\ SetCond(v, "Stopped") /\ Return
    /\ Decided /\ UNCHANGED <<ha, log, faults>>

\* The instance cannot be verified to have stopped.
StopFails(v) ==
    /\ call.pc = "stopping" /\ call.vm = v
    /\ ha[v] = "none" /\ phase[v] = "Stopped"
    /\ faults < MaxFaults /\ faults' = faults + 1
    /\ SetPhase(v, "Unknown")
    /\ cond' = [cond EXCEPT ![v] = "StopFailed"]
    /\ queue' = queue \cup {v} /\ Return
    /\ Decided /\ UNCHANGED <<ha, log>>

\* The control plane is killed and started again: every LimaVM is listed.
Restart ==
    /\ faults < MaxFaults /\ faults' = faults + 1
    /\ phase' = [v \in VMs |-> "Unknown"]
    /\ log' = {} /\ chan' = <<>> /\ queue' = VMs
    /\ call' = NoCall /\ lost' = {}
    /\ UNCHANGED <<run, cond, ha, ops>>

Call(v) ==
    \/ ResetCondition(v) \/ Watched(v) \/ StartInstance(v) \/ KillOrphan(v)
    \/ Stopped(v) \/ StopInstance(v) \/ Spawn(v) \/ StopDone(v)

Next ==
    \/ \E v \in VMs :
        \/ SetRunning(v) \/ Reconcile(v) \/ Call(v)
        \/ InspectFails(v) \/ SpawnFails(v) \/ StopFails(v)
        \/ SeesRunning(v) \/ SeesExit(v) \/ Boots(v) \/ Ends(v) \/ Dies(v)
    \/ Deliver \/ Restart

Spec == Init /\ [][Next]_vars

\* The worker takes requests and ends its calls, the source empties the
\* channel, watchers read, hostagents boot and end.
FairSpec ==
    /\ Spec
    /\ WF_vars(\E v \in VMs : Reconcile(v) \/ Call(v))
    /\ WF_vars(Deliver)
    /\ \A v \in VMs : /\ WF_vars(SeesRunning(v) \/ SeesExit(v))
                      /\ WF_vars(Boots(v) \/ Ends(v))

----------------------------------------------------------------------------
\* Type invariant.
TypeOK ==
    /\ run \in [VMs -> BOOLEAN] /\ cond \in [VMs -> Conds]
    /\ phase \in [VMs -> Phases] /\ ha \in [VMs -> Hostagents]
    /\ log \subseteq VMs /\ queue \subseteq VMs /\ lost \subseteq VMs
    /\ chan \in Seq(VMs) /\ Len(chan) <= Capacity
    /\ \/ call = NoCall
       \/ call \in [pc : {"decide", "spawn", "stopping"}, vm : VMs, run : BOOLEAN]
    /\ ops \in 0..MaxOps /\ faults \in 0..MaxFaults

\* handleRunningState() would change nothing.
Done(v) ==
    IF run[v] THEN \/ phase[v] = "Starting" /\ cond[v] = "Starting"
                   \/ phase[v] = "Running" /\ cond[v] = "Started"
              ELSE phase[v] = "Unknown" /\ cond[v] = "Stopped"

InCall(v) == call # NoCall /\ call.vm = v

\* "Channel full; a reconcile is already pending" (hostagent_watcher.go:230):
\* whatever the watchers have sent and the channel has dropped, a LimaVM whose
\* condition is out of step with its hostagent has a reconcile due.
AlreadyPending == \A v \in VMs : Done(v) \/ Pending(v) \/ InCall(v)

\* The same, except after an event of v was dropped for an event of another
\* LimaVM: no wake-up is lost on any other path, through whatever mix of calls,
\* failures, stops, exits and restarts.
LostOnlyBeside == \A v \in VMs : Done(v) \/ Pending(v) \/ InCall(v) \/ v \in lost

\* Without polling, every condition ends up where spec and hostagent are, unless
\* the last event of that LimaVM was dropped.
Follows ==
    <>[](\A v \in VMs : \/ v \in lost
                        \/ cond[v] = IF run[v] THEN "Started" ELSE "Stopped")
=============================================================================
