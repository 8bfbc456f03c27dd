--------------------------- MODULE ResourceWatch ---------------------------
(***************************************************************************)
(* How a GUI store follows one resource kind of the API server             *)
(* (rancher-desktop/store/rddConnection.ts over rdd-client/cache.ts and    *)
(* rdd-client/watch.ts).                                                   *)
(*                                                                         *)
(* A Watcher owns one ListWatch at a time and a handful of timers; every   *)
(* start() builds a fresh ListWatch and leaves the old one to die on its   *)
(* own, which it may only do when its request answers.  JavaScript runs    *)
(* one task at a time, so an action is one task: a call of a store action, *)
(* an answer of the network with everything it triggers, a timer.          *)
(*                                                                         *)
(* Resource version v of the server is the index of hist; 0 is the empty   *)
(* version "".  A snapshot maps each object to the version that last wrote *)
(* it, 0 when it does not exist.                                           *)
(***************************************************************************)
EXTENDS Naturals, Sequences, FiniteSets

CONSTANTS Objs,         \* the objects of the kind
          Namespaces,   \* the container namespaces a field selector may name
          NsOf,         \* status.namespace of each object
          Existing,     \* the objects there are when the GUI starts
          Slots,        \* bound: ListWatches that exist at once
          MaxVersion,   \* bound: versions of the server
          MaxRefs,      \* bound: components that watch at once
          MaxOps,       \* bound: calls by components and namespace changes
          MaxFaults     \* bound: failed or closed requests and compactions

ASSUME NsAssumption == Namespaces # {} /\ NsOf \in [Objs -> Namespaces]
ASSUME ExistingAssumption == Existing \subseteq Objs
ASSUME SlotsAssumption == Slots \in Nat \ {0}
ASSUME BoundAssumption ==
    /\ MaxVersion \in Nat \ {0}
    /\ MaxRefs \in Nat \ {0}
    /\ MaxOps \in Nat
    /\ MaxFaults \in Nat

VARIABLES
    hist,       \* the server: its snapshot at every version
    floor,      \* the server: the oldest version it still can watch from
    ns,         \* getters.currentNamespace, which the field selector reads
    lw,         \* the ListWatches, by slot
    cur,        \* Watcher.#watcher: a slot, 0 for undefined
    refCount,   \* _watchers[r].refCount
    loaded,     \* Watcher.#loaded, a Latch
    waiting,    \* does some waitForResources() wait on the latch
    notify,     \* Watcher.#notifyDelay is armed
    initT,      \* Watcher.#initialListTimeout is armed
    restartT,   \* Watcher.#restartTimeout is armed
    reconnectT, \* reconnectTimeout of setupResourceWatch is armed
    items,      \* state[r.name], what the components show
    error,      \* state['rdd-connection'].error is set
    ops, faults

server == <<hist, floor>>
timers == <<notify, initT, restartT, reconnectT>>
latch == <<loaded, waiting>>
vars == <<hist, floor, ns, lw, cur, refCount, loaded, waiting, notify, initT,
          restartT, reconnectT, items, error, ops, faults>>

----------------------------------------------------------------------------
Slot == 1..Slots
Version == 0..MaxVersion
Snapshot == [Objs -> Version]
Nothing == [o \in Objs |-> 0]

\* What a list or a watch with the selector status.namespace=n can see.
View(snap, n) == [o \in Objs |-> IF NsOf[o] = n THEN snap[o] ELSE 0]

Now == Len(hist)

(***************************************************************************)
(* A ListWatch: where its doneHandler() stands, resourceVersion, objects,  *)
(* the selectors of its last list and watch, and stopped.  "open" and      *)
(* "gone" have a request to abort; the server answers a "gone" one with an *)
(* ERROR event of code 410.                                                *)
(***************************************************************************)
Pcs == {"dead", "listing", "connecting", "open", "gone", "aborting"}
ListWatch == [pc : Pcs, rv : Version, cache : Snapshot, lsel : Namespaces,
              wsel : Namespaces, stopped : BOOLEAN]

Dead(n) == [pc |-> "dead", rv |-> 0, cache |-> Nothing, lsel |-> n,
            wsel |-> n, stopped |-> TRUE]

\* new ListWatch and start(): doneHandler(null) up to `await promise`.
Started(n) == [Dead(n) EXCEPT !.pc = "listing", !.stopped = FALSE]

\* stop(): abort only reaches a request that has already been assigned.
Stopped(w) ==
    [w EXCEPT !.stopped = TRUE,
              !.pc = IF @ \in {"open", "gone"} THEN "aborting" ELSE @]

\* Only the current ListWatch keeps its objects once its promise has ended.
AnyNs == CHOOSE n \in Namespaces : TRUE
Tidy(s, c, w) == IF s # c /\ w.pc = "dead" THEN Dead(AnyNs) ELSE w
Put(s, w) == lw' = [lw EXCEPT ![s] = Tidy(s, cur, w)]

\* Objects that vanished while nobody watched are kept.
DeleteItemsKeeps(cache, list) == cache
\* deleteItems() drops the objects a list does not name, addOrUpdateItems()
\* takes over those it names.
DeleteItems(cache, list) == [o \in Objs |-> IF list[o] = 0 THEN 0 ELSE cache[o]]
AddOrUpdateItems(cache, list) == [o \in Objs |-> IF list[o] # 0 THEN list[o] ELSE cache[o]]

FreeSlots == {s \in Slot : s # cur /\ lw[s].pc = "dead"}
Fresh == CHOOSE s \in FreeSlots : TRUE

Init ==
    /\ hist = <<[o \in Objs |-> IF o \in Existing THEN 1 ELSE 0]>>
    /\ floor = 1
    /\ ns \in Namespaces
    /\ lw = [s \in Slot |-> Dead(AnyNs)]
    /\ cur = 0
    /\ refCount = 0
    /\ loaded = "pending"
    /\ waiting = FALSE
    /\ notify = FALSE /\ initT = FALSE /\ restartT = FALSE /\ reconnectT = FALSE
    /\ items = Nothing
    /\ error = FALSE
    /\ ops = 0 /\ faults = 0

----------------------------------------------------------------------------
(***************************************************************************)
(* Watcher.                                                                *)
(***************************************************************************)

\* A start() whose "connect" event arms no timer.
StartUntimed(n) ==
    /\ FreeSlots # {}
    /\ lw' = [s \in Slot |-> IF s = Fresh THEN Started(n)
                             ELSE IF s = cur THEN Stopped(lw[s]) ELSE lw[s]]
    /\ cur' = Fresh
    /\ UNCHANGED initT
\* A start() that forgets the old ListWatch.
StartBeside(n) ==
    /\ FreeSlots # {}
    /\ lw' = [lw EXCEPT ![Fresh] = Started(n)]
    /\ cur' = Fresh
    /\ initT' = TRUE
\* start(): stop the old ListWatch, run a new one as far as its list request;
\* its "connect" event arms the timer of the initial list.
Start(n) ==
    /\ FreeSlots # {}
    /\ lw' = [s \in Slot |->
                IF s = Fresh THEN Started(n)
                ELSE IF s = cur THEN Tidy(s, 0, Stopped(lw[s]))
                ELSE lw[s]]
    /\ cur' = Fresh
    /\ initT' = TRUE

\* close(): every timer of the Watcher but not the reconnect timer of its owner.
CloseTimers == restartT' = FALSE /\ notify' = FALSE
ResetLoaded == loaded' = "pending" /\ UNCHANGED waiting

Close ==
    /\ CloseTimers
    /\ initT' = FALSE
    /\ ResetLoaded
    /\ lw' = IF cur = 0 THEN lw ELSE [lw EXCEPT ![cur] = Stopped(@)]
    /\ UNCHANGED cur

CloseAndStart(n) == CloseTimers /\ ResetLoaded /\ Start(n)

Settle(how) ==
    /\ loaded' = IF loaded = "pending" THEN how ELSE loaded
    /\ waiting' = FALSE
\* reset() and then resolve() or reject()
Resettle(how) == loaded' = how /\ waiting' = FALSE

\* A doneFn that reconnects only after streams that ended without an error.
ReportOnly ==
    /\ restartT' = FALSE /\ initT' = FALSE /\ UNCHANGED notify
    /\ Resettle("rejected")
    /\ error' = TRUE
    /\ UNCHANGED reconnectT
\* The "error" callback of the current ListWatch, the branch that reports err
\* and lets doneFn arm the reconnect timer.
Report ==
    /\ restartT' = FALSE /\ initT' = FALSE /\ UNCHANGED notify
    /\ Resettle("rejected")
    /\ error' = TRUE
    /\ reconnectT' = TRUE

\* The same callback for err.statusCode = 429: try again soon, quietly.
Throttled ==
    /\ restartT' = TRUE /\ initT' = FALSE
    /\ ResetLoaded
    /\ UNCHANGED <<notify, error, reconnectT>>

\* Errors of a ListWatch that is no longer the current one are ignored.
Ignored == UNCHANGED <<timers, latch, error>>

\* err.statusCode of a failed request: only the errors of watch.ts have one,
\* the ApiException of a failed list has a `code`.
StatusCode(source, code) == IF source = "watch" THEN code ELSE 0

Fails(s, source, code) ==
    /\ Put(s, [lw[s] EXCEPT !.pc = "dead"])
    /\ IF s # cur THEN Ignored
       ELSE IF StatusCode(source, code) = 429 THEN Throttled
       ELSE Report

\* The "change" callback: batch a notification, or stop a stale ListWatch.
OnChange(s, changed) ==
    IF changed /\ s = cur
    THEN initT' = FALSE /\ notify' = TRUE
    ELSE UNCHANGED <<initT, notify>>

----------------------------------------------------------------------------
(***************************************************************************)
(* Store actions called by the components.                                 *)
(***************************************************************************)
Op == ops < MaxOps /\ ops' = ops + 1 /\ UNCHANGED <<server, faults>>

Watch ==
    /\ Op
    /\ refCount < MaxRefs
    /\ refCount' = refCount + 1
    /\ IF refCount = 0 THEN Start(ns) ELSE UNCHANGED <<lw, cur, initT>>
    /\ UNCHANGED <<ns, latch, notify, restartT, reconnectT, items, error>>

Unwatch ==
    /\ Op
    /\ refCount > 0
    /\ refCount' = refCount - 1
    /\ IF refCount = 1 THEN Close
       ELSE UNCHANGED <<lw, cur, latch, notify, initT, restartT>>
    /\ UNCHANGED <<ns, reconnectT, items, error>>

\* The namespace getter changes; a store.watch() calls rewatchResources().
SetNamespace ==
    /\ Op
    /\ \E n \in Namespaces \ {ns} :
        /\ ns' = n
        /\ IF refCount > 0 THEN CloseAndStart(n)
           ELSE UNCHANGED <<lw, cur, latch, notify, initT, restartT>>
    /\ UNCHANGED <<refCount, reconnectT, items, error>>

\* waitForResources() on a latch that is not settled yet.
Wait ==
    /\ refCount > 0
    /\ loaded = "pending" /\ ~waiting
    /\ waiting' = TRUE
    /\ UNCHANGED <<server, ns, lw, cur, refCount, loaded, timers, items, error, ops, faults>>

----------------------------------------------------------------------------
(***************************************************************************)
(* Answers of the network to the ListWatch in slot s.                      *)
(***************************************************************************)
Net == UNCHANGED <<server, ns, cur, refCount, items, ops>>
Fault == faults < MaxFaults /\ faults' = faults + 1

\* The list returns: deleteItems() and addOrUpdateItems() leave what it holds,
\* and the watch is requested with the selector of now.
ListOK(s) ==
    /\ lw[s].pc = "listing"
    /\ LET list == View(hist[Now], lw[s].lsel)
           objects == AddOrUpdateItems(DeleteItems(lw[s].cache, list), list)
       IN  /\ Put(s, [lw[s] EXCEPT !.pc = "connecting", !.rv = Now,
                                   !.cache = objects, !.wsel = ns])
           /\ OnChange(s, objects # lw[s].cache)
    /\ error' = FALSE
    /\ Net /\ UNCHANGED <<latch, restartT, reconnectT, faults>>

ListFails(s, code) ==
    /\ lw[s].pc = "listing"
    /\ Fault
    /\ Fails(s, "list", code)
    /\ Net

\* The watch request is answered; a version that was compacted away gets
\* either a stream that reports 410 or the status 410.
WatchOpens(s) ==
    /\ lw[s].pc = "connecting"
    /\ Put(s, [lw[s] EXCEPT !.pc = IF @ = "connecting" /\ lw[s].rv < floor THEN "gone" ELSE "open"])
    /\ Net /\ UNCHANGED <<timers, latch, error, faults>>

\* doneHandler() without an error, or with a 410: not after stop(); emit
\* "connect"; list again when there is no version to watch from.
Again(s, rv) ==
    IF lw[s].stopped
    THEN /\ Put(s, [lw[s] EXCEPT !.pc = "dead", !.rv = rv])
         /\ UNCHANGED initT
    ELSE /\ Put(s, IF rv = 0
                   THEN [lw[s] EXCEPT !.pc = "listing", !.rv = 0, !.lsel = ns]
                   ELSE [lw[s] EXCEPT !.pc = "connecting", !.wsel = ns])
         /\ initT' = TRUE

\* A 410 that does not forget the version.
GoneKeeps(s) ==
    /\ \/ lw[s].pc = "gone"
       \/ lw[s].pc = "connecting" /\ lw[s].rv < floor
    /\ Again(s, lw[s].rv)
    /\ Net /\ UNCHANGED <<latch, notify, restartT, reconnectT, error, faults>>
Gone(s) ==
    /\ \/ lw[s].pc = "gone"
       \/ lw[s].pc = "connecting" /\ lw[s].rv < floor
    /\ Again(s, 0)
    /\ Net /\ UNCHANGED <<latch, notify, restartT, reconnectT, error, faults>>

\* The server ends every response after its own timeout.  Counted among the
\* faults unless the ListWatch was stopped, which it then ends for good.
StreamCloses(s) ==
    /\ lw[s].pc = "open"
    /\ IF lw[s].stopped THEN UNCHANGED faults ELSE Fault
    /\ Again(s, lw[s].rv)
    /\ Net /\ UNCHANGED <<latch, notify, restartT, reconnectT, error>>

WatchFails(s, code) ==
    /\ lw[s].pc \in {"connecting", "open"}
    /\ lw[s].pc = "open" => code # 429
    /\ Fault
    /\ Fails(s, "watch", code)
    /\ Net

\* The next version that changes what the stream selects, and its object.
NextEvent(s, v, o) ==
    /\ v > lw[s].rv /\ v <= Now
    /\ NsOf[o] = lw[s].wsel
    /\ hist[v][o] # hist[v - 1][o]
    /\ \A u \in lw[s].rv .. v - 1 :
         View(hist[u], lw[s].wsel) = View(hist[lw[s].rv], lw[s].wsel)

\* watchHandler(): ADDED, MODIFIED or DELETED.  A stale ListWatch that learns
\* of a change is stopped by its "change" callback.
Event(s) ==
    /\ lw[s].pc = "open"
    /\ \E v \in 1..Now, o \in Objs :
        /\ NextEvent(s, v, o)
        /\ LET changed == lw[s].cache[o] # hist[v][o]
               w == [lw[s] EXCEPT !.rv = v, !.cache[o] = hist[v][o]]
           IN  /\ Put(s, IF changed /\ s # cur THEN Stopped(w) ELSE w)
               /\ OnChange(s, changed)
    /\ Net /\ UNCHANGED <<latch, restartT, reconnectT, error, faults>>

\* The reader of an aborted stream rejects with errorManuallyStopped.
Aborted(s) ==
    /\ lw[s].pc = "aborting"
    /\ Put(s, [lw[s] EXCEPT !.pc = "dead"])
    /\ IF s # cur THEN Ignored
       ELSE /\ restartT' = FALSE /\ initT' = FALSE /\ UNCHANGED notify
            /\ Resettle("resolved")
            /\ error' = FALSE
            /\ reconnectT' = (reconnectT \/ refCount > 0)
    /\ Net /\ UNCHANGED faults

----------------------------------------------------------------------------
(***************************************************************************)
(* Timers.                                                                 *)
(***************************************************************************)
Timer == UNCHANGED <<server, ns, refCount, error, ops, faults>>

\* A notification that does not tell waitForResources().
NotifyOnly ==
    /\ notify /\ notify' = FALSE
    /\ items' = lw[cur].cache
    /\ Timer /\ UNCHANGED <<lw, cur, latch, initT, restartT, reconnectT>>
\* setTimeout(..., 0) of onChange(): show what the current ListWatch holds.
Notify ==
    /\ notify /\ notify' = FALSE
    /\ items' = lw[cur].cache
    /\ Settle("resolved")
    /\ Timer /\ UNCHANGED <<lw, cur, initT, restartT, reconnectT>>

\* One second after "connect": onChange(), for a list that has no items.
InitialListTimeout ==
    /\ initT /\ initT' = FALSE
    /\ notify' = TRUE
    /\ Timer /\ UNCHANGED <<lw, cur, latch, restartT, reconnectT, items>>

RestartTimeout ==
    /\ restartT /\ restartT' = FALSE
    /\ Start(ns)
    /\ Timer /\ UNCHANGED <<latch, notify, reconnectT, items>>

\* doReconnect(): the configuration is cached, so fetchConfig returns at once.
Reconnect ==
    /\ reconnectT /\ reconnectT' = FALSE
    /\ IF refCount > 0 THEN CloseAndStart(ns) ELSE Close
    /\ Timer /\ UNCHANGED items

----------------------------------------------------------------------------
(***************************************************************************)
(* The server.                                                             *)
(***************************************************************************)
Store == UNCHANGED <<ns, lw, cur, refCount, timers, latch, items, error, ops>>

Write(o) ==
    /\ Now < MaxVersion
    /\ \E v \in {0, Now + 1} :
        /\ v # hist[Now][o]
        /\ hist' = Append(hist, [hist[Now] EXCEPT ![o] = v])
    /\ Store /\ UNCHANGED <<floor, faults>>

Compact ==
    /\ Fault
    /\ floor < Now /\ floor' = Now
    /\ Store /\ UNCHANGED hist

Codes == {429, 500}

Answer(s) ==
    \/ ListOK(s) \/ WatchOpens(s) \/ Gone(s) \/ Aborted(s)
    \/ \E c \in Codes : ListFails(s, c) \/ WatchFails(s, c)

\* Everything that happens on its own: requests are answered in some way, open
\* streams carry their events, the server ends the streams nobody reads any
\* more, timers fire.
Task ==
    \/ \E s \in Slot : Answer(s) \/ Event(s) \/ (lw[s].stopped /\ StreamCloses(s))
    \/ Notify \/ InitialListTimeout \/ RestartTimeout \/ Reconnect

Next ==
    \/ Watch \/ Unwatch \/ SetNamespace \/ Wait
    \/ Task
    \/ \E s \in Slot : StreamCloses(s)
    \/ \E o \in Objs : Write(o)
    \/ Compact

Spec == Init /\ [][Next]_vars

\* The event loop does not idle while a task is due.  Operations, faults and
\* versions are bounded, so every task that stays due is taken.
FairSpec == Spec /\ WF_vars(Task)

----------------------------------------------------------------------------
(***************************************************************************)
(* Properties.                                                             *)
(***************************************************************************)

\* Type invariant.
TypeOK ==
    /\ hist \in Seq(Snapshot) /\ Now \in 1..MaxVersion
    /\ floor \in 1..Now
    /\ ns \in Namespaces
    /\ lw \in [Slot -> ListWatch]
    /\ cur \in 0..Slots
    /\ refCount \in 0..MaxRefs
    /\ loaded \in {"pending", "resolved", "rejected"}
    /\ waiting \in BOOLEAN
    /\ notify \in BOOLEAN /\ initT \in BOOLEAN /\ restartT \in BOOLEAN
    /\ reconnectT \in BOOLEAN /\ error \in BOOLEAN
    /\ items \in Snapshot
    /\ ops \in 0..MaxOps /\ faults \in 0..MaxFaults

\* The current ListWatch has a request in flight, or a stream.
Running ==
    /\ cur # 0
    /\ ~lw[cur].stopped
    /\ lw[cur].pc \in {"listing", "connecting", "open", "gone"}

\* Only the current ListWatch is not stopped: two never feed the same items,
\* however quickly components, namespaces and timers restart the Watcher.
OneRuns == \A s \in Slot : ~lw[s].stopped => s = cur

\* While some component watches the kind, a ListWatch that was not stopped is
\* at work or a timer is armed that will start one: whatever mix of failures,
\* re-watches and late answers of stale ListWatches came before, the store
\* never silently stops following the server.
NeverStuck == refCount > 0 => Running \/ restartT \/ reconnectT

\* The ListWatch the components follow holds exactly what the server had in the
\* selected namespace at its resource version, after any number of events,
\* re-lists over old objects, reconnections and namespace changes, so that a
\* deletion missed while disconnected does not stay on screen.
CacheIsHistory ==
    refCount > 0 /\ Running /\ lw[cur].rv # 0
      => lw[cur].cache = View(hist[lw[cur].rv], ns)

\* What the components show differs from what the ListWatch has received only
\* while a timer is armed that will show it, although close() disarms those
\* timers; likewise for a waiter of waitForResources().
ChangesAreShown ==
    refCount > 0 =>
        /\ Running /\ lw[cur].pc # "listing" /\ items # lw[cur].cache => notify \/ initT
        /\ loaded = "pending" => notify \/ initT \/ restartT \/ reconnectT

\* Failures end (Fault is bounded), and then the components see what is on the
\* server, in the namespace selected last, with no error.
Converges ==
    <>[](refCount > 0 => items = View(hist[Now], ns) /\ loaded = "resolved" /\ ~error)

\* waitForResources() returns, or throws, unless everyone stops watching.
WaitersReleased == waiting ~> (~waiting \/ refCount = 0)
=============================================================================
