# TLA+ models of Rancher Desktop: the control plane and its GUI

Rancher Desktop runs a Kubernetes-style API server (`rdd`) on the host. Every
feature is a controller that reads objects from an informer cache and moves the
world towards them: a Lima virtual machine, the hostagent process that runs it,
the container engine in the guest, mirrors of the engine's containers. None of
the interesting failures is in one function. They are in what happens *between*
two of its writes: a cache that misses the last write, a process that dies, a
control plane that is restarted, a user who changes their mind.

The GUI is a client of that server: its stores follow resources through watches
that fail and are replaced, its preferences are patches that overtake each
other, and its main process runs one more server, Steve, for the dashboard.
JavaScript runs one task at a time, so what goes wrong there goes wrong between
an `await` and its answer.

These modules model both cores: one LimaVM from creation to deletion and the App
above it whose `Settled` condition `rdd set` waits for; and, in the GUI, the
watch of a resource, the preferences store and Steve. All paths below are
relative to the root of the repository.

| module | what it is |
|---|---|
| `LimaVM` | the running state of one created LimaVM: reconciler, watcher, hostagents, template |
| `LimaVMProofs` | theorems about it |
| `ReconcileChannel` | several LimaVMs whose watchers share one channel to one reconciler |
| `ReconcileChannelProofs` | theorems about it |
| `LimaVMCreate` | creation and deletion of LimaVMs that take one name in turn |
| `LimaVMCreateProofs` | theorems about it |
| `VMContract` | what the LimaVM controller promises to its clients, in nine steps |
| `VMContractProofs` | what follows from the contract |
| `LimaVMContract` | the refinement mapping from `LimaVM` to `VMContract` |
| `AppSettled` | the App reconciler and the engine reconciler on top of `VMContract` |
| `AppSettledProofs` | theorems about it, its refinement of `VMContract` among them |
| `ResourceWatch` | how a GUI store follows one resource kind: watches, timers, latch, server |
| `ResourceWatchProofs` | theorems about it |
| `Preferences` | the preferences store: edits, validations, commits and the App they return as |
| `PreferencesProofs` | theorems about it |
| `Steve` | the main process starting and stopping the dashboard's API server |
| `SteveProofs` | theorems about it |
| `MCLimaVM`, `MCReconcileChannel`, `MCLimaVMCreate`, `MCAppSettled`, `MCResourceWatch`, `MCPreferences`, `MCSteve` | symmetry sets, an initial predicate and small constants for TLC |

`PROJECT.json` lists the runs, the definitions with the source lines they stand
for, and the hazards with the properties aimed at them.

## 1. Inventory

### LimaVM controller (`rdd/pkg/controllers/lima/limavm`)

*State.* The `LimaVM` object (`spec.running`, the restart annotation,
`status.restartNeeded`, `restartCount`, `observedTemplateResourceVersion`, the
conditions `Created` and `Running`), its template ConfigMap, the instance
directory (`lima.yaml`, `.preparing`, `ha.pid`), and in memory one
`instanceState` per name: the watched process and its phase.

*Operations.* The webhook's `Default` (copies the template); `Reconcile` with
`handleDeletion`, the sentinel, `handleRestartAnnotation`,
`handleTemplateUpdate`, `handleRunningState` (watched and unwatched),
`handleRestartNeeded`, `startInstance`, `waitForPIDFile`, `stopInstance`,
`killOrphanedHostagent`; the watcher goroutine; `shutdownAllHostagents`.

*Hard.* One mutation per reconcile, so every intention is spread over several
calls; patches made from cached copies; hostagents that outlive the control
plane; a PID file as the only trace of a process; 5 s and 30 s timeouts.

*Correct when* no guest runs that the reconciler cannot find; no wake-up is
lost; a restart is neither forgotten nor repeated; a recorded template version
is that of the guest; `Created=True` means a prepared instance of this LimaVM;
deletion always ends.

### Hostagent (`rdd/pkg/hostagent`, `rdd/pkg/util/process`)

*State.* The process and the VM driver it starts, `ha.pid`. *Operations.* check
and write of `ha.pid`, boot from `lima.yaml`, the Running and Exiting events,
removal of `ha.pid`. *Hard.* check and write are two steps; a crash leaves the
file and maybe the driver; Exit removes the file whoever it names.

### App reconciler (`rdd/pkg/controllers/app/app`)

*State.* The App: spec, generation, conditions. *Operations.* create namespace,
input ConfigMap and LimaVM; pass on `spec.running` and the template; mirror the
LimaVM's conditions; `computeSettledCondition`. *Hard.* ConfigMaps wake nobody;
the decision is taken on one read and stamped on another; another controller
writes the same status. *Correct when* `Settled=True` for the current
generation means that the spec is what runs.

### Engine reconciler (`rdd/pkg/controllers/app/engine`)

*State.* The watcher and the engine its mirrors came from (memory), mirror
objects, `ContainerEngineReady`. *Operations.* start, switch, notice the death
of and stop a watcher, sweep the mirrors, finalizers, docker context, image
pulls, container actions. *Hard.* It follows the mirrored Running condition, two
caches away from the guest; a sweep may stop halfway; whether one is needed is
read from a condition in the cache. *Correct when* no mirrors of a stopped or
replaced engine remain, and the condition advances with the generation.

### GUI: resource watches (`pkg/rancher-desktop/store/rddConnection.ts`, `pkg/rdd-client`)

*State.* Per resource kind a `Watcher`: the current `ListWatch`, the latch
`#loaded`, four timers, the number of components that watch; in each `ListWatch`
the resource version and the objects. *Operations.* watch, unwatch, rewatch,
wait; list, watch, ADDED to DELETED, 410, the end of a stream, errors, the
timers. *Hard.* A `ListWatch` that was replaced lives until its request answers,
and its callbacks still run; errors, `close()` and `start()` all disarm timers
that others armed. *Correct when* one `ListWatch` at a time feeds the store,
while somebody watches it never silently stops doing so, and what it holds is
what the server had.

### GUI: preferences (`pkg/rancher-desktop/store/preferences.ts`)

*State.* The changes not yet committed, the error status, two serializers that
abort the request before, the latch `pendingCommit`. *Operations.* modify,
writeNow, commit, clear; the plugin that drops changes the App shows.
*Hard.* Every call awaits: the latch, a request, the observed generation for at
most a second; an aborted call leaves the latch to its successor, and an aborted
request may reach the server all the same. *Correct when* no edit is lost, no
call waits for good, and Apply is offered only for what the webhook accepts.

### GUI: Steve (`pkg/rancher-desktop/backend/steve.ts`, `background.ts`)

*State.* The child process, the published port, the pending start.
*Operations.* start (spawn, wait for the port, probe it), stop, the exit event,
quit. *Hard.* stop() comes between any two steps of a start; the exit event of
an old process comes after its successor was made. *Correct when* no process is
lost, the port is that of the current process, a start ends, nothing is left
once Kubernetes is off or the program quits, and Steve runs when it is wanted.

### GUI: the rest

The App store (`ensureAppExists`, `ensureAppStarted`), the start of the control
plane (`main/rdd-ctl.ts`), lifetime, windows, tray and protocol handlers, update
checks, pages. `utils/backgroundProcess.ts` has no callers. The generated client
(`pkg/rdd-client/gen`, most of the TypeScript by size) only serialises requests.

### Others

Kubernetes reconciler (kube context, probe goroutine), path management, compose
and other container controllers, notary, configmapreplicaset and namespace
controllers, service commands and controller manager, CLI, file utilities (log
rotation, atomic files, managed lines), the image pipeline (parallel xz,
staging), guest networking (port proxy, port tracker), and kuberlr. None
is modelled yet; section 7 says which will be. Generated API code, mocks, build
and end-to-end tests will not.

### How they interact

```
 rdd set --> App --spec.running, template--> LimaVM, ConfigMap --> lima.yaml
   ^          ^  <------- Running ----------   |                      |
   |          |                                | start, stop          | boots from
   +-Settled--+ <-- ContainerEngineReady       v                      v
                        engine reconciler   watcher <--events--   hostagent, guest
                              |                                       ^
                              +---- engine watcher -------------------+
```

The GUI writes the App like `rdd set` (`Preferences`), follows App, containers
and images through watches (`ResourceWatch`), and passes the App's conditions on
to the main process (`app-status-changed`), which runs Steve while Kubernetes is
ready (`Steve`):

```
 preferences store --patch--> App           main process --start, stop--> Steve
        ^                      |                  ^                         |
        +----- rdd/app <--ResourceWatch           |                    port |
                  |                               |                         v
                  +------- app-status-changed ----+                     dashboard
```

Objects are shared through the API server: a write is seen by others when their
informer delivers it, and every status write carries what its author read.
Hostagents and watchers wake reconcilers through channels of capacity one.

## 2. The models

### LimaVM

Variables and code: `vm`, `cm` are the objects in the API server, `vmCache`,
`cmCache` the informers' copies and `pending` the events on their way; `queued`
is a request in the workqueue or in `reconcileChan`; `call` is the reconcile in
progress with the copies it holds; `watch` is `instanceStates[name]`; `disk`,
`pidfile`, `driver`, `ha` are `lima.yaml`, `ha.pid`, the VM driver and the
hostagents; `masked` says that the driver's PID file was deleted under it, so that
Inspect does not show it (`DriverPid`).

`Reconcile` is cut where something can come in between: one action per status
write, per disk write, per process operation and per wait. Reads of the cache
are merged with the action that follows. `PatchGoto` and `PatchReturn` write
only the difference between two copies the call holds, as a merge patch does.
`WriteTemplate`, `FinishRestart` and `SameTemplate` say which writes are refused
on a conflict and which are not. Hostagents follow `command.go`: `CheckPIDFile`,
`WritePIDFile`, `Boot`, `EmitRunning`, `EmitExiting`, `Exit`; they may crash at
any point, and so may the control plane (`ControlPlaneCrash`: all memory and the
call are lost, processes survive). A watcher ends with its hostagent
(`WatchStopped`), or because `events.Watch` returns an error although the
hostagent lives (`WatchFails`, a fault): the phase is Stopped "regardless of
reason" (hostagent_watcher.go:137). What the code does before a write stays done
when the write fails: `ReconcileError` has stopped the watcher if `StopsWatcher`.
`KillRecorded` is `stopInstanceForcibly`: it kills what the `Instance` names,
the hostagent only if it still lives (limavm_lifecycle.go:657), and deletes all PID
files, a driver's that it does not name among them.

Three switches name what the environment may do: `SlowStart` (a hostagent
takes more than the 5 s of `waitForPIDFile`), `KillFails` (a forced kill fails)
and `Lagging` (a call begins on a cache that misses an earlier write).

### ReconcileChannel

The running state again, for several LimaVMs and with less detail of each:
`run` is `spec.running`, `cond` the Running condition, `phase` what
`instanceStates` says, `ha` the hostagent, `log` the Running events not yet read,
`chan` is `reconcileChan`, `queue` the workqueue and `call` the one reconcile in
progress. `Enqueue` is the send that never blocks; `Deliver` is
controller-runtime's source, which turns an event into a request. A call reads the
LimaVM (`Reconcile`), then the phase (`Decide`), and is one of the branches of
`handleRunningState`; a start (`StartInstance`, `Spawn`) and a stop
(`StopInstance`, `StopDone`) have two steps, since hostagents and watchers of the
other LimaVMs go on meanwhile. `lost` is a history variable: the LimaVMs whose
last event was dropped when no reconcile of theirs was due. Restarts, templates,
lagging caches and PID files are in `LimaVM`; the resync of informers, hours
apart by default, is left out.

### LimaVMCreate

Names are used again: `uid` tells the successive LimaVMs apart, and an instance
directory remembers for which of them it was made. Actions: the webhook and the
user (`CreateVM`, `DeleteVM`, edits), `HandleSentinel`, `DeleteLeftover`,
`CreateInstance`, `CreateSentinel`, `Prepare`, `Publish`, `RemoveSentinel`, the
chain of `handleDeletion`, crashes at each of them. `Unmarked` allows a crash
between `limainstance.Create` and `createSentinel`.

### VMContract, LimaVMContract

`VMContract` states what clients rely on (`rdd/docs/design/api_lima.md`) as
an abstract machine: a start is announced before there is a guest, Started
follows Starting, Stopped means that no guest is left or that its watch had
failed, a version is recorded when `lima.yaml` has it and no guest that is watched
runs another. `view` is what the control plane knows of the guest: it is `watched`,
was `found` (after a restart of the control plane, or when a failed watcher has
been dropped), or is `lost` (its watch has failed). `LimaVMContract` maps `LimaVM`
to it. `AppSettled` EXTENDS it, so the
App is checked against every LimaVM controller that keeps the contract, and the
state space of `LimaVM` is not multiplied by that of the App.

### AppSettled

`app`, `appCache`, `limaCache`, `cmCache` are objects and informer copies;
`appCall` and `engCall` hold what a call has decided but not stamped;
`watcher`, `lastEngine`, `mirrors` are the engine reconciler's. An App call is
one of `PropagateStop`, `PropagateTemplate`, `PropagateStart` or
`CompareVersions`, which is followed by `Settle`; an engine call is a step of
`reconcileWatcher` followed by `SetEngineCondition`. `Stamp` is
`RetryOnConflict` around a status update: the copy is read again and the write is
refused unless it is current, but what is stamped was decided before. The
`VM...` actions restrict the contract to steps that bring the LimaVM closer to
what it has read, plus crashes and failures (`VMTrouble`). `VMLoses` is a watch
that fails with its guest alive; `VMForgets` drops that watcher, reporting Stopped
if the LimaVM is to stop, and the guest is then found and stopped (`VMStops`).
The deferred calls of a dying engine watcher are one step, `WatcherEnds`.

Switches: `Lagging` names the reconcilers that may begin on a cache that misses
a write, `GivesUp` lets `RetryOnConflict` run out of attempts, `Overlap` lets a
spec edit arrive while an App call works on the older one and lets a LimaVM
start go on after `spec.running` has been withdrawn.

Abstractions: a template stands for all of the spec that reaches `lima.yaml`
and decides which engine runs; mirrors are a set of engines, not of objects; a
LimaVM update that was undone counts as no change when resource versions are
compared.

### ResourceWatch

`lw` holds the `ListWatch`es that exist at once, by slot, and `cur` is
`Watcher.#watcher`. A `ListWatch` is where its `doneHandler` stands (`listing`,
`connecting`, `open`, `gone` for a stream that will report 410, `aborting`), its
version and objects, the selectors of its last list and watch, and `stopped`.
`notify`, `initT`, `restartT` and `reconnectT` are the four timers, `loaded` and
`waiting` the latch, `items` what the components show. The server is `hist`, its
snapshot at every version, and `floor`, the oldest version it still knows.

Actions: `Watch`, `Unwatch`, `SetNamespace`, `Wait` are calls of components;
`ListOK`, `ListFails`, `WatchOpens`, `WatchFails`, `Gone`, `Event`,
`StreamCloses`, `Aborted` are answers with all they trigger (`Fails` is the error
callback with its 429 branch, `OnChange` the change callback, `Again` the next
round of `doneHandler`); `Notify`, `InitialListTimeout`, `RestartTimeout`,
`Reconnect` are timers. A stale `ListWatch` goes on by the same actions, and its
callbacks are told apart as the code does it, by comparing it with the current
one. Bookmarks, the parsing of streams and the fetching of the connection's
configuration, which is cached after the first time, are left out.

### Preferences

`hist` is the spec of the App at every generation, `seen` the generation the
window shows. `changes`, `error` are the store's state; `mod` is the body of the
validation in flight, `commit` the commit request with its answer, `settling` the
generations that `commitChanges` waits for, `pending` the latch, `queued` whether
some `modify()` waits for it. `ghosts` are patches that were aborted on their way
and may be applied later. `past` is a history variable for the premises of two
properties, and no action reads it: it records overlapping commits, and what the
verdict of the last validation does not survive (a `writeNow()`, somebody
else's edit, a change that the plugin drops for a generation older than the
server's, `Behind`). The next validation clears the latter.

Actions: `Modify`, `WriteNow`, `Commit`, `Clear` up to the request they send;
`Serve`, `Lost`, `Ghost`, `Other` on the server; `Answered`, `Observed`,
`TimedOut`, `Validated`, `ValidationFails`, `Observe` when promises settle. A
validation is judged by the server's spec of the moment. Which of two keys a
patch touches is kept; nesting of paths is not.

### Steve

`process`, `port`, and the pending start as `pc` (`port`, `probe`, `sleep`),
`attempt` and `answer`; `messages` are the `app-status-changed` messages on their
way. `life`, `out`, `told` and `slow` belong to the child processes, which are
external: they write a port, serve a while later, end when told to, crash. A
`dead` process becomes `exited` with its exit event. Node emits `spawn` or `error`
before any other task, so the 10 s spawn timeout is no step of its own. `Late`
names tasks that may be late: `"answer"`, the answer of a port after the exit
event of its process, and `"message"`, a message after before-quit. The port of
the main process is modelled; the copy in the windows is not.

## 3. The runs

Bounds: `MaxOps`/`MaxEdits` count user operations, `MaxFaults` crashes and
failed calls or requests; two templates and two processes throughout the
control plane's models.

| run | bounds | shows |
|---|---|---|
| `LimaVMHostagents` | 3 operations, 3 faults (crashes, failed watches), timely environment | `NoMaskedHostagent`, `SpawnVisible`, `BootRecorded`, `ObservedAfterRestart`, `ImplementsContract` |
| `LimaVMLiveness` | 2 operations, 2 faults, kills fail, caches lag | `QuietMeansDone` (no wake-up is lost), `ObservedIsRunning`, `Converges`, `RestartHonoured`, `TemplateHonoured` |
| `ReconcileChannel` | 2 LimaVMs, channel of 1, 3 operations, 2 faults | `LostOnlyBeside`, `Follows` |
| `LimaVMCreateSafety` | 2 LimaVMs, 4 operations, 2 faults | `CreatedHasInstance`, `GuestHasInstance`, `ObservedOnDisk` |
| `LimaVMCreateLiveness` | 2 LimaVMs, 3 operations, 2 faults, caches lag, unmarked instances | `DeletionCompletes`, `CreationCompletes`, `PatchHitsOwn`, `QuietMeansSettled`, types |
| `LimaVMCreateOrphan` | 1 LimaVM, 1 operation | *violated*: `ConfigMapGoes` |
| `AppSettled` | 1 edit, 1 fault, the App reconciler's cache lags | `SettledMeansApplied`, `QuietMeansSwept`, `QuietMeansWatched` (no wake-up of the engine reconciler is lost) |
| `AppSettledLiveness` | 1 edit, both caches lag, retries run out | `Settles` |
| `ResourceWatch` | 2 objects in 2 namespaces, 2 versions, 3 slots, 3 operations, 1 fault | `OneRuns`, `NeverStuck`, `CacheIsHistory`, `ChangesAreShown`, `Converges`, `WaitersReleased` |
| `Preferences` | 2 preferences of 3 values, of which one must be off, 4 calls, 1 fault, one of them on at first | `PendingHasOwner`, `NothingStale`, `ModifyWaits`, `CanApplyMeansValid`, `EditsSurvive`, `ModifyReturns` |
| `Steve` | 3 processes, 3 messages, 2 attempts, 1 fault | `OneSteve`, `PortIsOwn`, `StartReturns`, `EndsUnwanted` |
| `SteveWanted` | 3 processes, 3 messages, no fault | *violated*: `StartsWanted` |

Why the bounds are enough to be interesting: two processes are a hostagent and
its predecessor or orphan, which is what a mix-up of `ha.pid` needs; two
templates let content go away and come back; three operations allow for a
restart, an edit and a change of mind in any order, two for any two of them, with a
fault before and after; two LimaVMs are the fewest
that can fill each other's channel; two LimaVMs of one name are
a leftover and its heir; one edit of the App contains stopping, starting,
switching the engine and both at once. Three slots are a `ListWatch`, the one it
replaced and one more that still dies; two versions let an object be deleted or
made while the stream is down, and the first be compacted away; three operations
watch, switch the namespace and stop watching. Two preferences of which one
must be off are the smallest webhook for which two valid edits are invalid
together; three values let a preference go from a to b to c as well as back to a;
four calls are an edit, a commit, an edit during it and another commit
or `rdd set`. The counterexample with six calls that the premise of
`CanApplyMeansValid` sets aside (section 6) is beyond the run; that the premise is
enough for any number of calls and values is the theorem `ApplyMeansValid`. Three messages and three processes are a Steve, its stop and its
successor while the first still ends; with two attempts of the 60 the probe
fails, is repeated and gives up. The type invariants of the other modules are proved,
so only `LimaVMCreate`'s is checked. Every passing property has a seeded
error in the model of the code (the operators marked as mutants) that violates
it within the same bounds. Deadlock is not checked: with users and faults used
up, a settled system rightly stops.

### The violations

* **LimaVMCreateOrphan.** A LimaVM deleted before its first reconcile has not
  become the owner of its ConfigMap yet; the ConfigMap stays, guarded by its
  finalizer, and the name cannot be used again.
* **SteveWanted.** `background.ts` starts and stops Steve "as needed". stop()
  signals the process of a start that is pending, but leaves the pending start. If
  Kubernetes becomes ready again before the exit event, start() joins that start
  (steve.ts:60) and is rejected with it: no process failed, Kubernetes is ready,
  and no Steve runs until the App's conditions change again. A variant: the
  answer of `isPortReady` that is in flight during stop() publishes the port of
  the process that was told to end, start() finds Steve "already running", and
  its exit event withdraws the port.

## 4. Fairness

`FairSpec` assumes weak fairness of the reconcilers (controller-runtime runs a
queued request and requeues a failed one with backoff, one call at a time), of
each informer, of the watcher goroutines and of the hostagents (a process that
was signalled exits, one that boots ends booting). A hostagent
that outlasts the grace period is a fault (`GraceExpired`) and is then killed. `AppSettled` assumes in addition that the LimaVM goes on
(`VMWork`, `VMWrite`), which is what `Converges` shows of `LimaVM`.
`ReconcileChannel` assumes weak fairness of the one worker, of the source that
empties the channel, and of each LimaVM's watcher and hostagent. Nothing is
assumed of users and faults.

The GUI's models assume weak fairness of the event loop: a promise that is
settled, a timer that is due and a request on its way are taken up in the end
(`Task` in `ResourceWatch` and `Preferences`). Streams carry their events, and
the server ends those that nobody reads; it need not end others.
`Preferences` does not assume that the window ever observes the App, as the
timer of one second is there for that case. `Steve` assumes it of messages,
events, the second quit, fetches, and of each child process: one that is told
to end does, one that is not slow writes its port and serves.

Faults are bounded, which is the usual "once the
failures end".

## 5. What is proved

By TLAPS, for every value of the constants that the named assumptions allow: any
number of processes and templates, any bounds, any values of the switches unless
said otherwise.

* `LimaVMProofs!TypeCorrect`: `Spec => []TypeOK`. One lemma per group of
  actions. The work is in the writes of stale copies: a patch combines fields of
  three copies, and `PatchType` shows that it is again an object.
* `LimaVMProofs!HostagentCorrect`: if `Timely` (`~SlowStart /\ ~KillFails`) then
  `Spec => []NoMaskedHostagent`. That every booted hostagent is the one that
  `ha.pid` names is not inductive: a hostagent that has not yet written the file
  would break it. `HostagentInv` adds that such a one is the child of the
  `startInstance` in progress, that every later one is named by the file, that
  `startInstance` begins with nobody alive, and that a call about to kill by an
  old `Instance` has the right owner in it. Both premises of `Timely` are needed:
  TLC finds counterexamples without either.
* `LimaVMProofs!ContractImplemented`: if `Prompt` (`Timely`, and a reconcile
  reads its own writes) then `Spec => ImplementsContract`: under the refinement
  mapping of `LimaVMContract` the initial states are the contract's, and every
  step of reconciler, hostagents, watcher, users and faults is one of its steps
  or a stutter. What a step maps to depends on what the call has read before, so
  `ContractInv` adds to the types and `HostagentInv`: `ViewInv` (a recorded version
  is that of `lima.yaml`, and of every booted guest that is watched), `CopyInv`
  (a call's copies have the server's status fields, and its ConfigMap is no newer),
  `CallInv` (what the call has established on its way to where it stands) and
  `WatchInv` (the watcher knows the only hostagent, and a known guest that does not
  run `lima.yaml` has a restart coming). `ViewStep` says how the view of a guest may
change: a watch that fails makes it lost, and only the end of the guest or the end
of its watcher changes that. Without `~Lagging` the contract fails (section 6).
* `LimaVMProofs!StartsShown`, `BootsRecorded`, `ObservedWaits`: under `Prompt`,
  `SpawnVisible`, `BootRecorded` and `ObservedAfterRestart`, from the same
  invariant. The lemma `StepWrites` says what each step may write into the status.
* `LimaVMProofs!QuietDone` and `ObservedRuns`: if `Timely` then
  `Spec => []QuietMeansDone` and `Spec => []ObservedIsRunning`, however far the
  caches lag. That no wake-up is lost is about everything at once, so its
  invariant has two layers. `LagInv` is what holds of stale copies: a copy
  follows the ConfigMap in the order of its versions (`FollowInv`), a copy that
  still shows as owed a restart that has been made is gone before there is a
  hostagent again (`OwedInv`), and what watcher and guests (`GuestInv`) and the
  stages of a call (`StageInv`) agree on in spite of them. `RestInv` says of every
  state that something is still to come (an event, a line of the log, a call), or
  that the copies of the call in progress are what is there, or that the
  reconciler rests where it may: the hostagent is still starting, or runs and is
  reported, or there is none and that is reported. `ToldInv` adds that whoever has a
  watcher is reported as Starting or Started: the end of a watch, its failure too, is
  then followed by a write and so by another call. `ObservedRuns` follows from these,
  in every phase of the watcher; only a guest without a watch, with a call in
  progress or due, is excepted. `Timely` is needed: section 6.
* `LimaVMCreateProofs!TypeCorrect` and `PatchesOwn`: `Spec => []TypeOK` and
  `Spec => []PatchHitsOwn`, with all the switches. `UidInv` says whose LimaVM a call
  works for: uids are given out once, deletion is never taken back, and only a call
  that has seen its LimaVM deleted removes the finalizers, so that while a
  creation is under way no successor can take the name.
* `LimaVMCreateProofs!QuietSettled`: `Spec => []QuietMeansSettled`, with all the
  switches. `WakeInv` says why no wake-up is lost: an informer without an event on
  its way has what the server has, an idle reconciler has finished or something
  will wake it, and a LimaVM that was deleted under a creation is queued again.
* `LimaVMCreateProofs!CreationSound`, `GuestsKeepDirectory`, `VersionsTrue`: if
  `Careful` (`~Lagging /\ ~Unmarked`) then in every state that at most two faults
  have led to (`TwoFaults`), `CreatedHasInstance`, `GuestHasInstance` and
  `ObservedOnDisk` hold. `FreshInv` says that a call works with the LimaVM as it
  is, `RvInv` that a version of the ConfigMap is one content, and `CareInv`
  counts: an instance of an earlier LimaVM is left after one fault, and its owner
  reference is taken over after two. TLC finds counterexamples without each of the
  three premises, for three faults the one in section 6.
* `ReconcileChannelProofs!OnlyBeside`: `Spec => [](TypeOK /\ LostOnlyBeside)`,
  for any LimaVMs and any capacity of the channel. `WakeInv` adds `CallInv`: what
  the call in progress has read of the spec is still so or its LimaVM is queued
  again, a spawn follows the Starting condition, and a stop is wanted.
* `ReconcileChannelProofs!OneIsEnough`: with a single LimaVM
  `Spec => []AlreadyPending`: the comment holds of what it was written for. A full
  channel then holds this LimaVM's event, so `lost` stays empty.
* `VMContractProofs!ContractKeepsObserved`: `Contract => []ObservedIsGuest`: a
  recorded version is that of the guest, as long as the guest is watched. The
  strengthening, `ContractInv`, says that no recorded version is ahead of the
  ConfigMap and that `lima.yaml` holds the template when its version is recorded.
* `AppSettledProofs!TypeCorrect`, and `AppKeepsContract`: `Spec => Contract`.
  Every step of `AppSettled` is one the contract allows, so clients do to the
  LimaVM only what it expects of them. Types are needed, so both are proved
  together.
* `AppSettledProofs!SweptWhenQuiet`: if `Careful` (the engine reconciler reads its
  own writes, and does not give up) then `Spec => []QuietMeansSwept`. `MirrorInv`
  says that a watcher that runs has left the mirrors of its engine only, that
  Stopped is concluded and written only where there are none, and that a reconciler
  that is done with the App as it is has left what is due.
* `AppSettledProofs!WatchedWhenQuiet`: if `Careful` then `Spec =>
  []QuietMeansWatched`. `HeldInv` says that a reconciler that is done with the App
  as it is has reported what it holds, or is about to; a watcher that dies and a
  failure to connect bring another call.
* `AppSettledProofs!SettledApplied`: if `Following` (`~Overlap`, and the App
  reconciler's informers follow at once or there is one edit at most) then
  `Spec => []SettledMeansApplied`. `AppliedInv` says that what the App
  reconciler concluded, and what it stamped for the generation of now, is so until
  the next edit. That no guest of another template is watched once the version is
  recorded is the contract's part (`VMContractProofs`). `OneEdit` is the case with lag: what a copy shows of the
  new spec is there, for it never was before. Two edits undo each other, and then
  the property fails (section 6).

* `ResourceWatchProofs!AlwaysFollows`: `Spec => [](TypeOK /\ OneRuns /\
  NeverStuck)`. Inductive with one addition (`WatchInv`): a notification or the
  timer of the initial list is armed only while there is a current `ListWatch`.
  `OneAtWork` is `OneRuns` alone.
* `ResourceWatchProofs!AlwaysHistory`: `Spec => []CacheIsHistory`. `HistoryInv`
  adds that a version of the server changes one object, and that the `ListWatch`
  that is followed has listed and watches with the namespace of now; the lemma
  `NextEventIsAll` says that the next event of a stream is then all that changed.
* `ResourceWatchProofs!AlwaysShown`: `Spec => []ChangesAreShown`. `ShownInv` is
  stronger than it: it holds also while a list is requested again, since
  every answer that changes the cache, and every request after the first, arms a timer.
* `PreferencesProofs!LatchHasOwner` and `ValidationsWait`: `Spec =>
  []PendingHasOwner` and `Spec => []ModifyWaits`. The strengthening, `LatchInv`,
  says that there is no request before there is an App, and (`LatchHeld`) that
  without overlapping commits there is one call at a time and it holds the latch.
* `PreferencesProofs!ChangesDiffer`: `Spec => []NothingStale`, inductive with the
  types.
* `PreferencesProofs!ChangesSurvive`: `Spec => EditsSurvive`, step by step from the
  types: the plugin and the end of a commit drop nothing else.
* `PreferencesProofs!ApplyMeansValid`: `Spec => []CanApplyMeansValid`, for any
  values and any webhook. `VerdictInv` says that as long as `past` is empty the
  changes are those of the commit in flight unless a modify() waits for it, and what
  it has applied is what the server has (`CommitKnows`), and the error status is that
  of the changes or will be with an answer on its way (`StatusKnows`). The premise is the property's own: section 6 has the case that it
  sets aside.
* `SteveProofs!Typed` and `NoneLost`: `Spec => []TypeOK` and `Spec => []OneSteve`.
  Types include that a pending start has a process.
* `SteveProofs!PortOwned`: if `"answer" \notin Late` then `Spec => []PortIsOwn`.
  `PortInv` adds that a success of the fetch is handled before the exit event.
  TLC finds a counterexample without the premise.

Only model-checked: liveness, with `ModifyReturns`, which is outside the prover's
reach, as is ENABLED. Every invariant and every action property of the passing
runs is stated by a theorem. One run goes beyond the premise of the theorems:
`LimaVMLiveness` has `QuietMeansDone` and `ObservedIsRunning` also with kills that
fail, for two operations and two faults.

## 6. Limits found while modelling

What the passing runs exclude, with the line where it bites:

* With `SlowStart`, a hostagent that `waitForPIDFile` gave up on
  (limavm_lifecycle.go:468) is nobody's child, and two hostagents may pass the
  check of `ha.pid` (command.go:78). `NoMaskedHostagent` and `Converges` fail.
* With `KillFails`, three faults and three operations, `NoMaskedHostagent` fails:
  a hostagent that survived the kill removes its successor's `ha.pid`. So does
  `QuietMeansDone`, with two operations: a new hostagent whose kill fails before
  it has written `ha.pid` boots when the reconciler has reported Stopped.
* With `Lagging`, the Starting patch (limavm_lifecycle.go:361) may be empty, so
  `SpawnVisible` and with it the contract fail.
* With `Lagging` in `LimaVMCreate`, a failing removal of the sentinel makes the
  next call, which misses Created=True, delete the instance
  (limavm_controller.go:193).
* With three faults `CreatedHasInstance` fails: Inspect fails in the deletion and
  in both calls of the successor, which then adopts the leftover.
* `SettledMeansSwept` without the premise that the engine reconciler is quiet
  fails for a moment even without lag: a Stopped stamped at the new generation
  before Running=True is mirrored lets the App settle while the watcher connects.
  With `GivesUp`, `QuietMeansSwept` fails as well.
* After a crash of the control plane the phase is Unknown, `handleTemplateUpdate`
  (limavm_controller.go:500) takes the branch for stopped instances, and an edited
  template's version is recorded while the status still says Started of the old
  guest, until the reconciler gets to it; a failed watch does the same.
  `ObservedIsRunning` says that a call is then in progress or due. Without that
  exception it fails.
* When `events.Watch` fails (hostagent_watcher.go:130), the phase is Stopped while
  hostagent and guest live. A stop that is due then reports Stopped at once
  (limavm_lifecycle.go:235), with the guest still there; the event of that very
  write brings the call that finds the hostagent and kills it. So Stopped, and with
  it `Settled`, may be reported for a moment with a guest running. `VMContract`
  allows it of a guest that was lost in this way and of no other, and
  `SettledMeansApplied` speaks of guests that are watched.
* A kill by an `Instance` that was read before the driver was started does not name
  the driver, but the PID files are deleted all the same
  (limavm_lifecycle.go:657, 754). If its hostagent is dead already, the driver lives
  on without a PID file, the disk stays locked, and every boot fails for as long as it
  lives. `Converges` sets this aside (`masked`).
* With `Unmarked`, a crash between `limainstance.Create` and `createSentinel`
  (limavm_controller.go:332) leaves an instance that the next reconcile reports
  as created, though `Prepare` never ran: `CreatedHasInstance` fails.
* With `Overlap`, `SettledMeansApplied` fails: `templateUpToDate` is decided on
  the first read of the App, the condition is stamped with the generation of the
  second (app_controller.go:532). The next reconcile corrects it (`Settles`), but
  `rdd set` may have returned.
* With the App reconciler in `Lagging` and two edits, `SettledMeansApplied` fails
  without an overlap: the template is edited and edited back, and the copies of the
  ConfigMap and of the LimaVM are both still of the first template when the App
  reconciler compares them for the third generation (app_controller.go:489), while
  the ConfigMap holds the second. The event that is on its way corrects it.
* With the engine reconciler in `Lagging`, `QuietMeansSwept` fails: it misses its
  own Connected, finds the Stopped of an earlier call for the same generation,
  takes the mirrors for swept (watch_reconciler.go:114), and stamps Stopped over
  it. Nothing sweeps them later.

* With two LimaVMs `AlreadyPending` fails without any fault. `enqueueReconcile`
  drops an event that finds the channel full, since "a reconcile is already pending"
  (hostagent_watcher.go:230), but the channel is one for all LimaVMs: two
  hostagents report Running before the source takes the first event, and the second
  LimaVM keeps its Starting condition with no reconcile due. Nothing polls
  (limavm_lifecycle.go:347); another change of that LimaVM, a restart or a resync
  puts it right. The source empties the channel at once, so the window is short.
  `LostOnlyBeside` shows that no wake-up is lost in another way, and `Follows` that
  the conditions of LimaVMs without such a loss end up right.

Of the GUI, what the models show and no property forbids:

* The error of a failed list has `code`, not the `statusCode` that
  rddConnection.ts:619 looks at: a list refused with 429 is reported like any other
  error and repeated after a second.
* A watch that is refused with 429 after `unwatchResources()` arms
  `restartTimeout` without looking at the number of watchers, and the store
  follows the server with nobody watching.
* The latch of `waitForResources()` may be resolved by the initial-list timer
  while the list is still under way.
* A commit that starts while an earlier one waits for the App shares
  `pendingCommit` with it; the earlier one resolves it, so validations may run
  beside the later (`ModifyWaits` excludes this by its premise). In the same way
  `CanApplyMeansValid` excludes a `writeNow()`, whose success clears the error
  that other changes have caused, and edits by others, which no validation follows.
* A `writeNow()` that fails or is interrupted takes its key back even if it was
  edited again meanwhile; `clear()` does not abort the validation in flight, whose
  answer sets the error status; an aborted request may still be applied.
* With three values a change can be dropped for a generation that is behind: commits of a and then b return after the second
  without having been observed; the user sets a again beside another change, and both
  are validated together with the App's b; then the window observes the generation
  of a, and the plugin drops that key (preferences.ts:442) as one that the App has.
  The other change alone, on b, was never validated, and the next observation does not
  validate it either. `CanApplyMeansValid` sets this aside by its premise (`"behind"` in
  `past`).
* With `"answer"` in `Late`, the port of a Steve that is gone stays published
  until the next start; with `"message"`, a start handled between before-quit and
  the exit leaves a Steve behind. A Steve that crashed is not restarted until the
  App changes.

## 7. Not modelled, and the plan

Of the modelled components: `shutdownAllHostagents`, PIDs that are used
again; of the App, the Kubernetes and PATH
gates, the Kubernetes port, creation and deletion, a restart of the control
plane; of the engine, single mirrors and their finalizers, events, the docker
context, image pulls, container actions; of the watches, the requests that pages
make beside them; of Steve, the windows' copy of the port and the dashboard
window, which keeps the port it was opened on. The wording of conditions, logging,
and Windows-specific paths other than the order of their steps are left out for
good.

In order:

1. `LimaVM`, `LimaVMProofs` (done)
2. `LimaVMCreate` (done)
3. `VMContract`, `LimaVMContract`, `AppSettled` and their proofs (done)
4. `ResourceWatch`, `Preferences`, `Steve` and their proofs (done)
5. `ReconcileChannel` and its proofs (done)
6. `Shutdown`: 30 s per hostagent, one after the other, against the manager's
   grace period, `exec.CommandContext` and a new control plane
   (limavm_lifecycle.go:642, manager.go:153). Run: two hostagents, one crash.
7. `Mirrors`: events, full sync and finalizers of single mirrors, the docker
   context and its goroutine, image pulls; an abstract specification "the mirrors
   are the engine's objects" for it to implement.
8. `KubeContext`: the probe goroutine against removal of the context, and the
   Kubernetes gate of Settled.
9. `Service`: start, stop and delete against PID file and lock; discovery and
   readiness; configmapreplicaset, notary and namespace deletion.
10. `PortTracker`, `LogRotation` with a reader that follows, the parallel xz
    reader's window, `ManagedLines` as a pure algorithm, kuberlr's cache.
11. `AppLifecycle`: `ensureAppExists` and `ensureAppStarted` of several windows
    against the App reconciler, the retried start of the control plane, the
    lifetime of the main process; the updater's states.
12. Theorems: all safety properties of the runs are proved (section 5).

The generated client under `pkg/rdd-client/gen` is not modelled for good: each of
its functions builds one request and parses one answer, and keeps no state.
