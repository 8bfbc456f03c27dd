------------------------ MODULE ResourceWatchProofs ------------------------
(***************************************************************************)
(* The store never silently stops following the server, and what it holds  *)
(* is what the server had, for any objects, namespaces and bounds and in   *)
(* whatever order requests are answered and timers fire.                   *)
(***************************************************************************)
EXTENDS ResourceWatch, TLAPS

USE NsAssumption, ExistingAssumption, SlotsAssumption, BoundAssumption
    DEF NsAssumption, ExistingAssumption, SlotsAssumption, BoundAssumption

----------------------------------------------------------------------------
(* What the operators on a ListWatch return *)

LEMMA NothingType == Nothing \in Snapshot
    BY DEF Nothing, Snapshot, Version

LEMMA ViewType ==
    ASSUME NEW snap \in Snapshot, NEW n
    PROVE  View(snap, n) \in Snapshot
    BY DEF View, Snapshot, Version

LEMMA StartedType ==
    ASSUME NEW n \in Namespaces
    PROVE  Dead(n) \in ListWatch /\ Started(n) \in ListWatch
<1>1. 0 \in Version
    BY DEF Version
<1> QED
    BY <1>1, NothingType DEF Dead, Started, ListWatch, Pcs

LEMMA StoppedType ==
    ASSUME NEW w \in ListWatch
    PROVE  Stopped(w) \in ListWatch
    BY DEF Stopped, ListWatch, Pcs

LEMMA TidyType ==
    ASSUME NEW s, NEW c, NEW w \in ListWatch
    PROVE  Tidy(s, c, w) \in ListWatch
<1>1. AnyNs \in Namespaces
    BY DEF AnyNs
<1> QED
    BY <1>1, StartedType DEF Tidy

LEMMA ListedObjects ==
    ASSUME NEW cache \in Snapshot, NEW list \in Snapshot
    PROVE  AddOrUpdateItems(DeleteItems(cache, list), list) = list
<1>1. list = [o \in Objs |-> list[o]]
    BY DEF Snapshot
<1> QED
    BY <1>1 DEF AddOrUpdateItems, DeleteItems, Snapshot

LEMMA FreshFree == FreeSlots # {} => Fresh \in Slot /\ Fresh # cur
    BY DEF Fresh, FreeSlots

----------------------------------------------------------------------------
(* Types *)

\* Of TypeOK, what answers and timers change.
LwType == lw \in [Slot -> ListWatch] /\ cur \in 0..Slots

LEMMA PutType ==
    ASSUME LwType, NEW s \in Slot, NEW w \in ListWatch, Put(s, w)
    PROVE  lw' \in [Slot -> ListWatch]
    BY TidyType DEF LwType, Put

LEMMA StartType ==
    ASSUME LwType, NEW n \in Namespaces, Start(n)
    PROVE  LwType' /\ initT' \in BOOLEAN
<1>1. Started(n) \in ListWatch
    BY StartedType
<1>2. \A s \in Slot : Tidy(s, 0, Stopped(lw[s])) \in ListWatch
    BY StoppedType, TidyType DEF LwType
<1>3. Fresh \in 0..Slots
    BY FreshFree DEF Start, Slot
<1> QED
    BY <1>1, <1>2, <1>3 DEF LwType, Start

LEMMA CloseType ==
    ASSUME LwType, Close
    PROVE  /\ LwType'
           /\ notify' = FALSE /\ initT' = FALSE /\ restartT' = FALSE
           /\ loaded' = "pending" /\ waiting' = waiting
<1>1. cur # 0 => Stopped(lw[cur]) \in ListWatch
    BY StoppedType DEF LwType, Slot
<1> QED
    BY <1>1 DEF LwType, Close, CloseTimers, ResetLoaded, Slot

LEMMA CloseAndStartType ==
    ASSUME LwType, NEW n \in Namespaces, CloseAndStart(n)
    PROVE  /\ LwType'
           /\ notify' = FALSE /\ initT' \in BOOLEAN /\ restartT' = FALSE
           /\ loaded' = "pending" /\ waiting' = waiting
    BY StartType DEF CloseAndStart, CloseTimers, ResetLoaded

\* TypeOK without the server and what only the components' calls change.
ClientType ==
    /\ notify \in BOOLEAN /\ initT \in BOOLEAN /\ restartT \in BOOLEAN
    /\ reconnectT \in BOOLEAN /\ error \in BOOLEAN
    /\ loaded \in {"pending", "resolved", "rejected"}
    /\ waiting \in BOOLEAN

LEMMA FailsType ==
    ASSUME LwType, ClientType, NEW s \in Slot, NEW source, NEW code,
           Fails(s, source, code)
    PROVE  lw' \in [Slot -> ListWatch] /\ ClientType'
<1>1. [lw[s] EXCEPT !.pc = "dead"] \in ListWatch
    BY DEF LwType, ListWatch, Pcs
<1>2. lw' \in [Slot -> ListWatch]
    BY <1>1, PutType DEF Fails
<1>3. CASE s # cur
    BY <1>2, <1>3 DEF Fails, Ignored, ClientType, timers, latch
<1>4. CASE s = cur
    <2>1. Throttled \/ Report
        BY <1>4 DEF Fails
    <2> QED
        BY <1>2, <2>1 DEF Throttled, Report, ResetLoaded, Resettle, ClientType
<1> QED
    BY <1>3, <1>4

LEMMA AgainType ==
    ASSUME LwType, ns \in Namespaces, initT \in BOOLEAN,
           NEW s \in Slot, NEW rv \in Version, Again(s, rv), rv = 0 \/ rv = lw[s].rv
    PROVE  lw' \in [Slot -> ListWatch] /\ initT' \in BOOLEAN
<1>1. lw[s] \in ListWatch /\ 0 \in Version
    BY DEF LwType, Version
<1>2. [lw[s] EXCEPT !.pc = "dead", !.rv = rv] \in ListWatch
    BY <1>1 DEF ListWatch, Pcs
<1>3. [lw[s] EXCEPT !.pc = "listing", !.rv = 0, !.lsel = ns] \in ListWatch
    BY <1>1 DEF ListWatch, Pcs
<1>4. [lw[s] EXCEPT !.pc = "connecting", !.wsel = ns] \in ListWatch
    BY <1>1 DEF ListWatch, Pcs
<1> QED
    BY <1>2, <1>3, <1>4, PutType DEF Again

LEMMA AnswerType ==
    ASSUME TypeOK, NEW s \in Slot, Answer(s) \/ Event(s) \/ StreamCloses(s)
    PROVE  lw' \in [Slot -> ListWatch] /\ ClientType' /\ faults' \in 0..MaxFaults
<1> USE DEF TypeOK, LwType, ClientType
<1>0. lw[s] \in ListWatch /\ hist[Now] \in Snapshot /\ Now \in Version
    BY DEF Now, Version
<1>1. CASE ListOK(s)
    <2> DEFINE list == View(hist[Now], lw[s].lsel)
               objects == AddOrUpdateItems(DeleteItems(lw[s].cache, list), list)
               w == [lw[s] EXCEPT !.pc = "connecting", !.rv = Now,
                                  !.cache = objects, !.wsel = ns]
    <2>1. list \in Snapshot
        BY <1>0, ViewType
    <2>2. objects \in Snapshot
        BY <1>0, <2>1, ListedObjects DEF ListWatch
    <2>3. w \in ListWatch
        <3> HIDE DEF objects
        <3> QED
            BY <1>0, <2>2 DEF ListWatch, Pcs
    <2>4. Put(s, w) /\ OnChange(s, objects # lw[s].cache)
        BY <1>1 DEF ListOK
    <2>5. lw' \in [Slot -> ListWatch]
        <3> HIDE DEF w
        <3> QED
            BY <2>3, <2>4, PutType
    <2> QED
        BY <1>1, <2>4, <2>5 DEF ListOK, OnChange, Net, latch
<1>2. CASE \E c \in Codes : ListFails(s, c) \/ WatchFails(s, c)
    BY <1>2, FailsType DEF ListFails, WatchFails, Fault, Net
<1>3. CASE WatchOpens(s)
    <2>1. \A pc \in {"gone", "open"} : [lw[s] EXCEPT !.pc = pc] \in ListWatch
        BY <1>0 DEF ListWatch, Pcs
    <2> QED
        BY <1>3, <2>1, PutType DEF WatchOpens, timers, latch
<1>4. CASE Gone(s)
    BY <1>4, AgainType DEF Gone, Net, latch, Version
<1>5. CASE Aborted(s)
    <2>1. [lw[s] EXCEPT !.pc = "dead"] \in ListWatch
        BY <1>0 DEF ListWatch, Pcs
    <2>2. lw' \in [Slot -> ListWatch]
        BY <1>5, <2>1, PutType DEF Aborted
    <2> QED
        BY <1>5, <2>2 DEF Aborted, Ignored, Resettle, timers, latch
<1>6. CASE StreamCloses(s)
    <2>1. lw[s].rv \in Version
        BY <1>0 DEF ListWatch
    <2> QED
        BY <1>6, <2>1, AgainType DEF StreamCloses, Fault, Net, latch
<1>7. CASE Event(s)
    <2>1. PICK v \in 1..Now, o \in Objs :
            LET changed == lw[s].cache[o] # hist[v][o]
                w == [lw[s] EXCEPT !.rv = v, !.cache[o] = hist[v][o]]
            IN  /\ Put(s, IF changed /\ s # cur THEN Stopped(w) ELSE w)
                /\ OnChange(s, changed)
        BY <1>7 DEF Event
    <2> DEFINE w == [lw[s] EXCEPT !.rv = v, !.cache[o] = hist[v][o]]
    <2>2. v \in Version /\ hist[v] \in Snapshot
        BY DEF Now, Version
    <2>3. w \in ListWatch
        BY <1>0, <2>2 DEF ListWatch, Snapshot
    <2>4. lw' \in [Slot -> ListWatch]
        <3> HIDE DEF w
        <3> QED
            BY <2>1, <2>3, StoppedType, PutType DEF w
    <2> QED
        BY <1>7, <2>1, <2>4 DEF Event, OnChange, Net, latch
<1> QED
    BY <1>1, <1>2, <1>3, <1>4, <1>5, <1>6, <1>7 DEF Answer

LEMMA CallType ==
    ASSUME TypeOK, Watch \/ Unwatch \/ SetNamespace \/ Wait
    PROVE  TypeOK'
<1> USE DEF TypeOK, LwType
<1>1. CASE Watch
    <2>1. CASE refCount = 0
        <3>1. LwType' /\ initT' \in BOOLEAN
            BY <1>1, <2>1, StartType DEF Watch
        <3> QED
            BY <1>1, <3>1 DEF Watch, Op, server, latch, Now
    <2>2. CASE refCount # 0
        BY <1>1, <2>2 DEF Watch, Op, server, latch, Now
    <2> QED
        BY <2>1, <2>2
<1>2. CASE Unwatch
    <2>1. CASE refCount = 1
        <3>1. /\ LwType'
              /\ notify' \in BOOLEAN /\ initT' \in BOOLEAN /\ restartT' \in BOOLEAN
              /\ loaded' = "pending" /\ waiting' = waiting
            BY <1>2, <2>1, CloseType DEF Unwatch
        <3> QED
            BY <1>2, <2>1, <3>1 DEF Unwatch, Op, server, Now
    <2>2. CASE refCount # 1
        BY <1>2, <2>2 DEF Unwatch, Op, server, latch, Now
    <2> QED
        BY <2>1, <2>2
<1>3. CASE SetNamespace
    <2>1. PICK n \in Namespaces :
            /\ ns' = n
            /\ IF refCount > 0 THEN CloseAndStart(n)
               ELSE UNCHANGED <<lw, cur, latch, notify, initT, restartT>>
        BY <1>3 DEF SetNamespace
    <2>2. CASE refCount > 0
        <3>1. /\ LwType'
              /\ notify' \in BOOLEAN /\ initT' \in BOOLEAN /\ restartT' \in BOOLEAN
              /\ loaded' = "pending" /\ waiting' = waiting
            BY <2>1, <2>2, CloseAndStartType
        <3> QED
            BY <1>3, <2>1, <3>1 DEF SetNamespace, Op, server, Now
    <2>3. CASE ~(refCount > 0)
        BY <1>3, <2>1, <2>3 DEF SetNamespace, Op, server, latch, Now
    <2> QED
        BY <2>2, <2>3
<1>4. CASE Wait
    BY <1>4 DEF Wait, server, timers, Now
<1> QED
    BY <1>1, <1>2, <1>3, <1>4

LEMMA TimerType ==
    ASSUME TypeOK, Notify \/ InitialListTimeout \/ RestartTimeout \/ Reconnect,
           notify \/ initT => cur # 0
    PROVE  TypeOK'
<1> USE DEF TypeOK, LwType
<1>1. CASE Notify
    <2>1. lw[cur].cache \in Snapshot
        BY <1>1 DEF Notify, Slot, ListWatch
    <2> QED
        BY <1>1, <2>1 DEF Notify, Settle, Timer, server, Now
<1>2. CASE InitialListTimeout
    BY <1>2 DEF InitialListTimeout, Timer, server, latch, Now
<1>3. CASE RestartTimeout
    BY <1>3, StartType DEF RestartTimeout, Timer, server, latch, Now
<1>4. CASE Reconnect
    <2>1. CASE refCount > 0
        BY <1>4, <2>1, CloseAndStartType DEF Reconnect, Timer, server, Now
    <2>2. CASE ~(refCount > 0)
        BY <1>4, <2>2, CloseType DEF Reconnect, Timer, server, Now
    <2> QED
        BY <2>1, <2>2
<1> QED
    BY <1>1, <1>2, <1>3, <1>4

LEMMA ServerType ==
    ASSUME TypeOK, (\E o \in Objs : Write(o)) \/ Compact
    PROVE  TypeOK'
<1> USE DEF TypeOK
<1>1. CASE \E o \in Objs : Write(o)
    <2>1. PICK o \in Objs, v \in {0, Now + 1} :
            /\ Now < MaxVersion
            /\ hist' = Append(hist, [hist[Now] EXCEPT ![o] = v])
            /\ Store /\ UNCHANGED <<floor, faults>>
        BY <1>1 DEF Write
    <2>2. hist[Now] \in Snapshot /\ v \in Version
        BY <2>1 DEF Now, Version
    <2>3. [hist[Now] EXCEPT ![o] = v] \in Snapshot
        BY <2>2 DEF Snapshot
    <2>4. hist' \in Seq(Snapshot) /\ Len(hist') = Len(hist) + 1
        BY <2>1, <2>3
    <2> QED
        BY <2>1, <2>4 DEF Now, Store, timers, latch
<1>2. CASE Compact
    BY <1>2 DEF Compact, Fault, Store, timers, latch, Now
<1> QED
    BY <1>1, <1>2

----------------------------------------------------------------------------
(* Which ListWatch is at work *)

\* Timers that read the current ListWatch are armed only when there is one.
TimersHaveWatcher == notify \/ initT => cur # 0

WatchInv == TypeOK /\ OneRuns /\ TimersHaveWatcher /\ NeverStuck

LEMMA PutFrame ==
    ASSUME LwType, NEW s \in Slot, NEW w, Put(s, w)
    PROVE  /\ \A t \in Slot \ {s} : lw'[t] = lw[t]
           /\ s = cur => lw'[s] = w
           /\ lw'[s] = w \/ lw'[s] = Dead(AnyNs)
    BY DEF LwType, Put, Tidy

\* An answer to a ListWatch that leaves it stopped when it was.
LEMMA PutOneRuns ==
    ASSUME LwType, OneRuns, NEW s \in Slot, NEW w, Put(s, w), cur' = cur,
           lw[s].stopped => w.stopped
    PROVE  OneRuns'
<1>1. Dead(AnyNs).stopped
    BY DEF Dead
<1> QED
    BY <1>1, PutFrame DEF OneRuns

LEMMA StartRuns ==
    ASSUME LwType, OneRuns, NEW n, Start(n)
    PROVE  OneRuns' /\ Running' /\ cur' # 0
<1>1. Fresh \in Slot /\ Fresh # cur
    BY FreshFree DEF Start
<1>2. \A s \in Slot : Tidy(s, 0, Stopped(lw[s])).stopped
    <2> SUFFICES ASSUME NEW s \in Slot PROVE Tidy(s, 0, Stopped(lw[s])).stopped
        OBVIOUS
    <2>1. lw[s] \in ListWatch
        BY DEF LwType
    <2> QED
        BY <2>1 DEF Tidy, Stopped, Dead, ListWatch
<1>3. Started(n).pc = "listing" /\ ~Started(n).stopped
    BY DEF Started, Dead
<1>4. /\ cur' = Fresh /\ lw'[Fresh] = Started(n)
      /\ \A s \in Slot \ {Fresh} :
           lw'[s] = IF s = cur THEN Tidy(s, 0, Stopped(lw[s])) ELSE lw[s]
    BY <1>1 DEF Start
<1>5. OneRuns'
    BY <1>2, <1>4 DEF OneRuns
<1> QED
    BY <1>1, <1>3, <1>4, <1>5 DEF Running, Slot

LEMMA CloseRuns ==
    ASSUME LwType, OneRuns, Close
    PROVE  OneRuns'
<1>1. cur # 0 => Stopped(lw[cur]).stopped
    BY DEF LwType, Slot, Stopped, ListWatch
<1> QED
    BY <1>1 DEF LwType, OneRuns, Close, Slot

\* What an answer does to the ListWatch that is not the current one is none of
\* NeverStuck's concern.
LEMMA OtherRuns ==
    ASSUME LwType, NEW s \in Slot, NEW w, Put(s, w), s # cur, cur' = cur
    PROVE  Running' <=> Running
<1>1. cur # 0 => lw'[cur] = lw[cur]
    BY PutFrame DEF LwType, Slot
<1> QED
    BY <1>1 DEF Running

LEMMA AgainRuns ==
    ASSUME LwType, OneRuns, NEW s \in Slot, NEW rv, Again(s, rv), cur' = cur,
           TimersHaveWatcher, UNCHANGED notify
    PROVE  /\ OneRuns' /\ TimersHaveWatcher'
           /\ Running => Running'
<1>0. lw[s] \in ListWatch
    BY DEF LwType
<1>1. CASE lw[s].stopped
    <2>1. Put(s, [lw[s] EXCEPT !.pc = "dead", !.rv = rv]) /\ UNCHANGED initT
        BY <1>1 DEF Again
    <2>2. Running => s # cur
        BY <1>1 DEF Running
    <2>3. [lw[s] EXCEPT !.pc = "dead", !.rv = rv].stopped
        BY <1>0, <1>1 DEF ListWatch
    <2> QED
        BY <2>1, <2>2, <2>3, PutOneRuns, OtherRuns DEF TimersHaveWatcher
<1>2. CASE ~lw[s].stopped
    <2>1. s = cur
        BY <1>2 DEF OneRuns
    <2>2. PICK w : /\ Put(s, w)
                   /\ w.pc \in {"listing", "connecting"} /\ ~w.stopped
        <3> DEFINE w1 == [lw[s] EXCEPT !.pc = "listing", !.rv = 0, !.lsel = ns]
                   w2 == [lw[s] EXCEPT !.pc = "connecting", !.wsel = ns]
        <3>1. w1.pc = "listing" /\ ~w1.stopped /\ w2.pc = "connecting" /\ ~w2.stopped
            BY <1>0, <1>2 DEF ListWatch
        <3>2. Put(s, w1) \/ Put(s, w2)
            BY <1>2 DEF Again
        <3> HIDE DEF w1, w2
        <3> QED
            BY <3>1, <3>2
    <2>3. lw'[s] = w
        BY <2>1, <2>2, PutFrame
    <2> QED
        BY <1>2, <2>1, <2>2, <2>3, PutOneRuns DEF Running, TimersHaveWatcher, Slot
<1> QED
    BY <1>1, <1>2

LEMMA FailsRuns ==
    ASSUME WatchInv, NEW s \in Slot, NEW source, NEW code,
           Fails(s, source, code), UNCHANGED <<cur, refCount>>
    PROVE  OneRuns' /\ TimersHaveWatcher' /\ NeverStuck'
<1> DEFINE w == [lw[s] EXCEPT !.pc = "dead"]
<1>1. LwType /\ lw[s] \in ListWatch
    BY DEF WatchInv, TypeOK, LwType
<1>2. Put(s, w) /\ w.stopped = lw[s].stopped
    BY <1>1 DEF Fails, ListWatch
<1> HIDE DEF w
<1>3. OneRuns'
    BY <1>1, <1>2, PutOneRuns DEF WatchInv
<1>4. CASE s # cur
    BY <1>1, <1>2, <1>3, <1>4, OtherRuns
    DEF Fails, Ignored, timers, WatchInv, TimersHaveWatcher, NeverStuck
<1>5. CASE s = cur
    <2>1. Throttled \/ Report
        BY <1>5 DEF Fails
    <2>2. cur' # 0
        BY <1>5 DEF Slot
    <2> QED
        BY <1>3, <2>1, <2>2 DEF Throttled, Report, TimersHaveWatcher, NeverStuck
<1> QED
    BY <1>4, <1>5

LEMMA AnswerRuns ==
    ASSUME WatchInv, NEW s \in Slot, Answer(s) \/ Event(s) \/ StreamCloses(s)
    PROVE  OneRuns' /\ TimersHaveWatcher' /\ NeverStuck'
<1>1. LwType /\ lw[s] \in ListWatch /\ UNCHANGED <<cur, refCount>>
    BY DEF WatchInv, TypeOK, LwType, Answer, ListOK, ListFails, WatchOpens, Gone,
           StreamCloses, WatchFails, Event, Aborted, Net
<1>2. s = cur => cur # 0
    BY DEF Slot
<1>3. CASE ListOK(s)
    <2>1. PICK w : /\ Put(s, w)
                   /\ w.pc = "connecting" /\ w.stopped = lw[s].stopped
        <3>1. PICK objects : Put(s, [lw[s] EXCEPT !.pc = "connecting", !.rv = Now,
                                                  !.cache = objects, !.wsel = ns])
            BY <1>3 DEF ListOK
        <3>2. \A found :
                LET w == [lw[s] EXCEPT !.pc = "connecting", !.rv = Now,
                                       !.cache = found, !.wsel = ns]
                IN  w.pc = "connecting" /\ w.stopped = lw[s].stopped
            BY <1>1 DEF ListWatch
        <3> QED
            BY <3>1, <3>2, Zenon
    <2>2. OneRuns'
        BY <1>1, <2>1, PutOneRuns DEF WatchInv
    <2>3. Running => Running'
        BY <1>1, <2>1, PutFrame, OtherRuns DEF Running
    <2>4. PICK changed : OnChange(s, changed) /\ UNCHANGED <<restartT, reconnectT>>
        BY <1>3 DEF ListOK
    <2> QED
        BY <1>1, <1>2, <2>2, <2>3, <2>4
        DEF OnChange, WatchInv, TimersHaveWatcher, NeverStuck
<1>4. CASE \E c \in Codes : ListFails(s, c) \/ WatchFails(s, c)
    BY <1>1, <1>4, FailsRuns DEF ListFails, WatchFails
<1>5. CASE WatchOpens(s)
    <2>1. PICK w : /\ Put(s, w)
                   /\ w.pc \in {"open", "gone"} /\ w.stopped = lw[s].stopped
        BY <1>1, <1>5 DEF WatchOpens, ListWatch
    <2>2. OneRuns'
        BY <1>1, <2>1, PutOneRuns DEF WatchInv
    <2>3. Running => Running'
        BY <1>1, <2>1, PutFrame, OtherRuns DEF Running
    <2> QED
        BY <1>1, <1>5, <2>2, <2>3
        DEF WatchOpens, timers, WatchInv, TimersHaveWatcher, NeverStuck
<1>6. CASE Gone(s) \/ StreamCloses(s)
    <2>1. PICK rv : Again(s, rv) /\ UNCHANGED <<notify, restartT, reconnectT>>
        BY <1>6 DEF Gone, StreamCloses
    <2> QED
        BY <1>1, <2>1, AgainRuns DEF WatchInv, NeverStuck
<1>7. CASE Aborted(s)
    <2> DEFINE w == [lw[s] EXCEPT !.pc = "dead"]
    <2>1. Put(s, w) /\ w.stopped = lw[s].stopped
        BY <1>1, <1>7 DEF Aborted, ListWatch
    <2> HIDE DEF w
    <2>2. OneRuns'
        BY <1>1, <2>1, PutOneRuns DEF WatchInv
    <2>3. CASE s # cur
        BY <1>1, <1>7, <2>1, <2>2, <2>3, OtherRuns
        DEF Aborted, Ignored, timers, WatchInv, TimersHaveWatcher, NeverStuck
    <2>4. CASE s = cur
        BY <1>1, <1>2, <1>7, <2>2, <2>4 DEF Aborted, TimersHaveWatcher, NeverStuck
    <2> QED
        BY <2>3, <2>4
<1>8. CASE Event(s)
    <2>1. PICK v, o :
            LET changed == lw[s].cache[o] # hist[v][o]
                w == [lw[s] EXCEPT !.rv = v, !.cache[o] = hist[v][o]]
            IN  /\ Put(s, IF changed /\ s # cur THEN Stopped(w) ELSE w)
                /\ OnChange(s, changed)
        BY <1>8 DEF Event
    <2> DEFINE w == [lw[s] EXCEPT !.rv = v, !.cache[o] = hist[v][o]]
    <2>2. w.pc = lw[s].pc /\ w.stopped = lw[s].stopped /\ Stopped(w).stopped
        BY <1>1 DEF ListWatch, Stopped
    <2>3. PICK u : /\ Put(s, u) /\ (lw[s].stopped => u.stopped)
                   /\ s = cur => u.pc = lw[s].pc /\ u.stopped = lw[s].stopped
        <3> HIDE DEF w
        <3> QED
            BY <2>1, <2>2 DEF w
    <2>4. OneRuns'
        BY <1>1, <2>3, PutOneRuns DEF WatchInv
    <2>5. Running => Running'
        BY <1>1, <2>3, PutFrame, OtherRuns DEF Running
    <2>6. PICK changed : OnChange(s, changed) /\ UNCHANGED <<restartT, reconnectT>>
        BY <1>8 DEF Event
    <2> QED
        BY <1>1, <1>2, <2>4, <2>5, <2>6
        DEF OnChange, WatchInv, TimersHaveWatcher, NeverStuck
<1> QED
    BY <1>3, <1>4, <1>5, <1>6, <1>7, <1>8 DEF Answer

\* A call or a timer leaves the ListWatches alone, stops them or starts one.
LEMMA CallRuns ==
    ASSUME WatchInv, Watch \/ Unwatch \/ SetNamespace \/ Wait
    PROVE  OneRuns' /\ TimersHaveWatcher' /\ NeverStuck'
<1> USE DEF WatchInv, TimersHaveWatcher, NeverStuck
<1>0. LwType /\ refCount \in Nat
    BY DEF TypeOK, LwType
<1>1. CASE Start(ns)
    <2>1. OneRuns' /\ Running' /\ cur' # 0
        BY <1>0, <1>1, StartRuns
    <2> QED
        BY <2>1
<1>2. CASE Close /\ refCount' = 0
    <2>1. OneRuns' /\ ~notify' /\ ~initT'
        BY <1>0, <1>2, CloseRuns DEF Close, CloseTimers
    <2> QED
        BY <1>2, <2>1
<1>3. CASE \E n \in Namespaces : CloseAndStart(n)
    BY <1>0, <1>3, StartRuns DEF CloseAndStart, CloseTimers
<1>4. CASE UNCHANGED <<lw, cur, notify, initT, restartT, reconnectT>>
           /\ (refCount' > 0 => refCount > 0)
    BY <1>4 DEF OneRuns, Running
<1> QED
    BY <1>0, <1>1, <1>2, <1>3, <1>4 DEF Watch, Unwatch, SetNamespace, Wait, timers

LEMMA TimerRuns ==
    ASSUME WatchInv, Notify \/ InitialListTimeout \/ RestartTimeout \/ Reconnect
    PROVE  OneRuns' /\ TimersHaveWatcher' /\ NeverStuck'
<1> USE DEF WatchInv, TimersHaveWatcher, NeverStuck
<1>0. LwType
    BY DEF TypeOK, LwType
<1>1. CASE Notify \/ InitialListTimeout
    BY <1>1 DEF Notify, InitialListTimeout, Timer, OneRuns, Running
<1>2. CASE RestartTimeout
    BY <1>0, <1>2, StartRuns DEF RestartTimeout
<1>3. CASE Reconnect /\ refCount > 0
    BY <1>0, <1>3, StartRuns DEF Reconnect, CloseAndStart
<1>4. CASE Reconnect /\ ~(refCount > 0)
    BY <1>0, <1>4, CloseRuns DEF Reconnect, Close, CloseTimers, Timer
<1> QED
    BY <1>1, <1>2, <1>3, <1>4

LEMMA InitWatch == Init => WatchInv
<1> SUFFICES ASSUME Init PROVE WatchInv
    OBVIOUS
<1> USE DEF Init
<1>1. AnyNs \in Namespaces
    BY DEF AnyNs
<1>2. hist \in Seq(Snapshot) /\ Len(hist) = 1
    <2>1. [o \in Objs |-> IF o \in Existing THEN 1 ELSE 0] \in Snapshot
        BY DEF Snapshot, Version
    <2> QED
        BY <2>1
<1>3. lw \in [Slot -> ListWatch]
    BY <1>1, StartedType
<1>4. TypeOK
    <2>1. /\ notify \in BOOLEAN /\ initT \in BOOLEAN /\ restartT \in BOOLEAN
          /\ reconnectT \in BOOLEAN /\ error \in BOOLEAN /\ waiting \in BOOLEAN
        OBVIOUS
    <2>2. floor \in 1..Now /\ Now \in 1..MaxVersion
        BY <1>2 DEF Now
    <2>3. /\ cur \in 0..Slots /\ refCount \in 0..MaxRefs
          /\ ops \in 0..MaxOps /\ faults \in 0..MaxFaults
        OBVIOUS
    <2> QED
        BY <1>2, <1>3, <2>1, <2>2, <2>3, NothingType DEF TypeOK
<1>5. OneRuns /\ TimersHaveWatcher /\ NeverStuck
    BY DEF OneRuns, Dead, TimersHaveWatcher, NeverStuck
<1> QED
    BY <1>4, <1>5 DEF WatchInv

LEMMA WatchStep == WatchInv /\ [Next]_vars => WatchInv'
<1> SUFFICES ASSUME WatchInv, [Next]_vars PROVE WatchInv'
    OBVIOUS
<1>1. CASE Watch \/ Unwatch \/ SetNamespace \/ Wait
    BY <1>1, CallType, CallRuns DEF WatchInv
<1>2. CASE Notify \/ InitialListTimeout \/ RestartTimeout \/ Reconnect
    BY <1>2, TimerType, TimerRuns DEF WatchInv, TimersHaveWatcher
<1>3. ASSUME NEW s \in Slot, Answer(s) \/ Event(s) \/ StreamCloses(s)
      PROVE  WatchInv'
    <2>1. lw' \in [Slot -> ListWatch] /\ ClientType' /\ faults' \in 0..MaxFaults
        BY <1>3, AnswerType DEF WatchInv
    <2>2. UNCHANGED <<hist, floor, ns, cur, refCount, items, ops>>
        BY <1>3 DEF Answer, ListOK, ListFails, WatchOpens, Gone, StreamCloses,
                    WatchFails, Event, Aborted, Net, server
    <2>3. TypeOK'
        BY <2>1, <2>2 DEF WatchInv, TypeOK, ClientType, Now
    <2> QED
        BY <1>3, <2>3, AnswerRuns DEF WatchInv
<1>4. CASE (\E o \in Objs : Write(o)) \/ Compact
    <2>1. UNCHANGED <<lw, cur, refCount, timers>>
        BY <1>4 DEF Write, Compact, Store
    <2> QED
        BY <1>4, <2>1, ServerType
        DEF WatchInv, timers, OneRuns, TimersHaveWatcher, NeverStuck, Running
<1>5. CASE UNCHANGED vars
    BY <1>5 DEF vars, WatchInv, TypeOK, Now, OneRuns, TimersHaveWatcher,
                NeverStuck, Running
<1> QED
    BY <1>1, <1>2, <1>3, <1>4, <1>5 DEF Next, Task

\* The store never silently stops following the server: while a component
\* watches, the current ListWatch is at work or a timer is armed that starts
\* one; and only the current one is at work.
THEOREM AlwaysFollows == Spec => [](TypeOK /\ OneRuns /\ NeverStuck)
<1>1. Spec => []WatchInv
    BY InitWatch, WatchStep, PTL DEF Spec
<1>2. WatchInv => TypeOK /\ OneRuns /\ NeverStuck
    BY DEF WatchInv
<1> QED
    BY <1>1, <1>2, PTL

\* Two ListWatches never feed the same items, however quickly components,
\* namespaces and timers restart the Watcher.
THEOREM OneAtWork == Spec => []OneRuns
<1>1. TypeOK /\ OneRuns /\ NeverStuck => OneRuns
    OBVIOUS
<1> QED
    BY <1>1, AlwaysFollows, PTL

----------------------------------------------------------------------------
(* What the current ListWatch holds *)

\* One version changes one object.
OneObjectPerVersion ==
    \A v \in 2..Now : \E o \in Objs :
        \A p \in Objs \ {o} : hist[v][p] = hist[v - 1][p]

\* The ListWatch w follows the namespace n.
Follows(w, n) ==
    /\ w.lsel = n /\ w.wsel = n
    /\ w.pc # "listing" => w.rv # 0
    /\ w.rv <= Now
    /\ w.rv # 0 => w.cache = View(hist[w.rv], n)

CurrentFollows == refCount > 0 /\ Running => Follows(lw[cur], ns)

HistoryInv == WatchInv /\ OneObjectPerVersion /\ CurrentFollows

LEMMA StartFollows ==
    ASSUME LwType, Now \in Nat, NEW n, Start(n), UNCHANGED hist
    PROVE  Follows(lw[cur], n)'
<1>1. lw'[cur'] = Started(n)
    BY FreshFree DEF Start
<1>2. /\ Started(n).lsel = n /\ Started(n).wsel = n
      /\ Started(n).pc = "listing" /\ Started(n).rv = 0
    BY DEF Started, Dead
<1> QED
    BY <1>1, <1>2 DEF Follows, Now

\* The event a stream delivers is all that changed since its version.
LEMMA NextEventIsAll ==
    ASSUME TypeOK, OneObjectPerVersion, NEW s \in Slot, lw[s].rv # 0,
           lw[s].cache = View(hist[lw[s].rv], lw[s].wsel),
           NEW v \in 1..Now, NEW o \in Objs, NextEvent(s, v, o)
    PROVE  [lw[s].cache EXCEPT ![o] = hist[v][o]] = View(hist[v], lw[s].wsel)
<1> DEFINE n == lw[s].wsel
<1>1. lw[s].rv \in Nat /\ v > lw[s].rv /\ v - 1 \in lw[s].rv .. v - 1 /\ v \in 2..Now
    <2>1. lw[s].rv \in Nat
        BY DEF TypeOK, ListWatch, Version
    <2> QED
        BY <2>1 DEF NextEvent, TypeOK
<1>2. View(hist[v - 1], n) = lw[s].cache
    BY <1>1 DEF NextEvent
<1>3. \A p \in Objs \ {o} : hist[v][p] = hist[v - 1][p]
    BY <1>1 DEF NextEvent, OneObjectPerVersion
<1>4. NsOf[o] = n
    BY DEF NextEvent
<1>5. \A p \in Objs : View(hist[v], n)[p] = IF p = o THEN hist[v][o]
                                              ELSE View(hist[v - 1], n)[p]
    BY <1>3, <1>4 DEF View
<1>6. lw[s].cache = [p \in Objs |-> lw[s].cache[p]]
    BY DEF TypeOK, ListWatch, Snapshot
<1>7. View(hist[v], n) = [p \in Objs |-> View(hist[v], n)[p]]
    BY DEF View
<1> HIDE DEF n
<1> QED
    BY <1>2, <1>5, <1>6, <1>7 DEF n

LEMMA AnswerFollows ==
    ASSUME HistoryInv, NEW s \in Slot, Answer(s) \/ Event(s) \/ StreamCloses(s)
    PROVE  CurrentFollows'
<1>1. /\ LwType /\ TypeOK /\ lw[s] \in ListWatch
      /\ UNCHANGED <<cur, refCount, hist, ns, Now>>
    BY DEF HistoryInv, WatchInv, TypeOK, LwType, Answer, ListOK, ListFails,
           WatchOpens, Gone, StreamCloses, WatchFails, Event, Aborted, Net, server, Now
<1>2. \E w : Put(s, w)
    BY DEF Answer, ListOK, ListFails, WatchOpens, Gone, StreamCloses, WatchFails,
           Event, Aborted, Fails, Again
<1>3. CASE s # cur
    <2>1. Running' <=> Running
        BY <1>1, <1>2, <1>3, OtherRuns
    <2>2. cur # 0 => lw'[cur] = lw[cur]
        BY <1>1, <1>2, <1>3, PutFrame DEF LwType, Slot
    <2> QED
        BY <1>1, <2>1, <2>2 DEF HistoryInv, CurrentFollows, Follows, Running
<1>4. CASE s = cur
    <2> SUFFICES ASSUME refCount > 0, Running' PROVE Follows(lw[s], ns)'
        BY <1>1, <1>4 DEF CurrentFollows
    <2>1. \A w : Put(s, w) => lw'[s] = w
        BY <1>1, <1>4, PutFrame
    <2>2. /\ ~lw'[s].stopped
          /\ lw'[s].pc \in {"listing", "connecting", "open", "gone"}
        BY <1>1, <1>4 DEF Running
    <2>3. Now \in Nat /\ Now # 0
        BY <1>1 DEF TypeOK
    <2>4. CASE ListOK(s)
        <3> DEFINE list == View(hist[Now], lw[s].lsel)
                   objects == AddOrUpdateItems(DeleteItems(lw[s].cache, list), list)
                   w == [lw[s] EXCEPT !.pc = "connecting", !.rv = Now,
                                      !.cache = objects, !.wsel = ns]
        <3>1. lw'[s] = w
            BY <2>1, <2>4 DEF ListOK
        <3>2. hist[Now] \in Snapshot
            BY <1>1 DEF TypeOK, Now
        <3>3. objects = list
            BY <1>1, <3>2, ViewType, ListedObjects DEF ListWatch
        <3>4. /\ w.pc = "connecting" /\ w.rv = Now /\ w.cache = list
              /\ w.lsel = lw[s].lsel /\ w.wsel = ns /\ w.stopped = lw[s].stopped
            <4> HIDE DEF objects
            <4> QED
                BY <1>1, <3>3 DEF ListWatch
        <3>5. Running
            BY <1>4, <2>2, <2>4, <3>1, <3>4 DEF Running, ListOK, Slot
        <3>6. lw[s].lsel = ns
            BY <1>4, <3>5 DEF HistoryInv, CurrentFollows, Follows
        <3> QED
            BY <1>1, <2>3, <3>1, <3>4, <3>6 DEF Follows
    <2>5. CASE Event(s)
        <3>1. PICK v \in 1..Now, o \in Objs :
                /\ NextEvent(s, v, o)
                /\ Put(s, [lw[s] EXCEPT !.rv = v, !.cache[o] = hist[v][o]])
            BY <1>4, <2>5 DEF Event
        <3> DEFINE w == [lw[s] EXCEPT !.rv = v, !.cache[o] = hist[v][o]]
        <3>2. lw'[s] = w
            BY <2>1, <3>1
        <3>3. /\ w.pc = "open" /\ w.rv = v /\ w.stopped = lw[s].stopped
              /\ w.cache = [lw[s].cache EXCEPT ![o] = hist[v][o]]
              /\ w.lsel = lw[s].lsel /\ w.wsel = lw[s].wsel
            BY <1>1, <2>5 DEF ListWatch, Event
        <3>4. Running
            <4>1. lw[s].pc = "open"
                BY <2>5 DEF Event
            <4>2. ~lw[s].stopped
                <5> HIDE DEF w
                <5> QED
                    BY <2>2, <3>2, <3>3
            <4> QED
                BY <1>4, <4>1, <4>2 DEF Running, Slot
        <3>5. Follows(lw[s], ns) /\ lw[s].rv # 0
            BY <1>4, <2>5, <3>4 DEF HistoryInv, CurrentFollows, Follows, Event
        <3>6. w.cache = View(hist[v], ns)
            BY <1>1, <3>1, <3>3, <3>5, NextEventIsAll DEF HistoryInv, Follows
        <3> QED
            <4> HIDE DEF w
            <4> QED
                BY <1>1, <3>2, <3>3, <3>5, <3>6 DEF Follows
    <2>6. CASE WatchOpens(s)
        <3>1. PICK pc \in {"gone", "open"} : lw'[s] = [lw[s] EXCEPT !.pc = pc]
            BY <2>1, <2>6 DEF WatchOpens
        <3>2. /\ lw'[s].rv = lw[s].rv /\ lw'[s].cache = lw[s].cache
              /\ lw'[s].lsel = lw[s].lsel /\ lw'[s].wsel = lw[s].wsel
              /\ lw'[s].stopped = lw[s].stopped
            BY <1>1, <3>1 DEF ListWatch
        <3>3. Running
            BY <1>4, <2>2, <2>6, <3>2 DEF Running, WatchOpens, Slot
        <3>4. Follows(lw[s], ns) /\ lw[s].rv # 0
            BY <1>4, <2>6, <3>3 DEF HistoryInv, CurrentFollows, Follows, WatchOpens
        <3> QED
            BY <1>1, <3>2, <3>4 DEF Follows
    <2>7. CASE Gone(s) \/ StreamCloses(s)
        <3>1. PICK rv : Again(s, rv) /\ (rv = 0 \/ rv = lw[s].rv)
            BY <2>7 DEF Gone, StreamCloses
        <3> DEFINE w1 == [lw[s] EXCEPT !.pc = "listing", !.rv = 0, !.lsel = ns]
                   w2 == [lw[s] EXCEPT !.pc = "connecting", !.wsel = ns]
                   dead == [lw[s] EXCEPT !.pc = "dead", !.rv = rv]
        <3>2. dead.pc = "dead" /\ w1.stopped = lw[s].stopped /\ w2.stopped = lw[s].stopped
            BY <1>1 DEF ListWatch
        <3>3. lw'[s] = (IF rv = 0 THEN w1 ELSE w2) /\ ~lw[s].stopped
            <4> HIDE DEF w1, w2, dead
            <4>1. lw'[s] # dead
                BY <2>2, <3>2
            <4> QED
                BY <2>1, <3>1, <4>1 DEF Again, w1, w2, dead
        <3>4. Running
            BY <1>4, <2>7, <3>3 DEF Running, Gone, StreamCloses, Slot
        <3>5. Follows(lw[s], ns)
            BY <1>4, <3>4 DEF HistoryInv, CurrentFollows
        <3>6. /\ w1.rv = 0 /\ w1.lsel = ns /\ w1.wsel = lw[s].wsel /\ w1.pc = "listing"
              /\ w2.rv = lw[s].rv /\ w2.lsel = lw[s].lsel /\ w2.wsel = ns
              /\ w2.cache = lw[s].cache
            BY <1>1 DEF ListWatch
        <3>7. CASE rv = 0
            <4> HIDE DEF w1, w2
            <4> QED
                BY <1>1, <2>3, <3>3, <3>5, <3>6, <3>7 DEF Follows
        <3>8. CASE rv # 0
            <4> HIDE DEF w1, w2
            <4> QED
                BY <1>1, <3>1, <3>3, <3>5, <3>6, <3>8 DEF Follows
        <3> QED
            BY <3>7, <3>8
    <2>8. CASE Aborted(s) \/ \E c \in Codes : ListFails(s, c) \/ WatchFails(s, c)
        <3>1. Put(s, [lw[s] EXCEPT !.pc = "dead"])
            BY <2>8 DEF Aborted, ListFails, WatchFails, Fails
        <3>2. lw'[s].pc = "dead"
            BY <1>1, <2>1, <3>1 DEF ListWatch
        <3> QED
            BY <2>2, <3>2
    <2> QED
        BY <2>4, <2>5, <2>6, <2>7, <2>8 DEF Answer
<1> QED
    BY <1>3, <1>4

LEMMA OwnFollows ==
    ASSUME HistoryInv,
           \/ Watch \/ Unwatch \/ SetNamespace \/ Wait
           \/ Notify \/ InitialListTimeout \/ RestartTimeout \/ Reconnect
    PROVE  CurrentFollows' /\ UNCHANGED hist
<1>1. UNCHANGED hist
    BY DEF Watch, Unwatch, SetNamespace, Wait, Notify, InitialListTimeout,
           RestartTimeout, Reconnect, Op, Timer, server
<1>2. LwType /\ Now \in Nat /\ refCount \in Nat
    BY DEF HistoryInv, WatchInv, TypeOK, LwType
<1>3. CASE \E n : Start(n) /\ ns' = n
    <2>1. PICK n : Start(n) /\ ns' = n
        BY <1>3
    <2>2. Follows(lw[cur], n)'
        BY <1>1, <1>2, <2>1, StartFollows
    <2>3. Follows(lw[cur], ns)'
        BY <2>1, <2>2 DEF Follows
    <2> QED
        BY <1>1, <2>3 DEF CurrentFollows
<1>4. CASE ~(refCount' > 0)
    BY <1>1, <1>4 DEF CurrentFollows
<1>5. CASE UNCHANGED <<lw, cur, ns>> /\ (refCount' > 0 => refCount > 0)
    BY <1>1, <1>5 DEF HistoryInv, CurrentFollows, Running, Follows, Now
<1> QED
    BY <1>2, <1>3, <1>4, <1>5
    DEF Watch, Unwatch, SetNamespace, Wait, Notify, InitialListTimeout,
        RestartTimeout, Reconnect, CloseAndStart, Timer

LEMMA WriteFollows ==
    ASSUME HistoryInv, NEW o \in Objs, Write(o)
    PROVE  OneObjectPerVersion' /\ CurrentFollows'
<1>1. PICK v : hist' = Append(hist, [hist[Now] EXCEPT ![o] = v])
    BY DEF Write
<1>2. UNCHANGED <<lw, cur, refCount, ns>>
    BY DEF Write, Store
<1>3. hist \in Seq(Snapshot) /\ Now \in Nat \ {0} /\ Now = Len(hist)
    BY DEF HistoryInv, WatchInv, TypeOK, Now
<1>4. /\ Now' = Now + 1
      /\ \A u \in 1..Now : hist'[u] = hist[u]
      /\ hist'[Now + 1] = [hist[Now] EXCEPT ![o] = v]
    BY <1>1, <1>3 DEF Now
<1>5. OneObjectPerVersion'
    <2> SUFFICES ASSUME NEW u \in 2..Now + 1
                 PROVE  \E q \in Objs : \A p \in Objs \ {q} : hist'[u][p] = hist'[u - 1][p]
        BY <1>4 DEF OneObjectPerVersion
    <2>1. CASE u \in 2..Now
        <3>1. hist'[u] = hist[u] /\ hist'[u - 1] = hist[u - 1]
            BY <1>3, <1>4, <2>1
        <3> QED
            BY <2>1, <3>1 DEF HistoryInv, OneObjectPerVersion
    <2>2. CASE u = Now + 1
        <3>1. hist'[u] = [hist[Now] EXCEPT ![o] = v] /\ hist'[u - 1] = hist[Now]
            BY <1>3, <1>4, <2>2
        <3>2. hist[Now] \in Snapshot
            BY <1>3
        <3> QED
            BY <3>1, <3>2 DEF Snapshot
    <2> QED
        BY <1>3, <2>1, <2>2
<1>6. CurrentFollows'
    <2> SUFFICES ASSUME refCount > 0, Running PROVE Follows(lw[cur], ns)'
        BY <1>2 DEF CurrentFollows, Running
    <2>1. Follows(lw[cur], ns)
        BY DEF HistoryInv, CurrentFollows
    <2>2. lw[cur].rv \in Nat
        BY DEF HistoryInv, WatchInv, TypeOK, Running, Slot, ListWatch, Version
    <2> QED
        BY <1>2, <1>3, <1>4, <2>1, <2>2 DEF Follows
<1> QED
    BY <1>5, <1>6

LEMMA HistoryStep == HistoryInv /\ [Next]_vars => HistoryInv'
<1> SUFFICES ASSUME HistoryInv, [Next]_vars PROVE HistoryInv'
    OBVIOUS
<1>1. WatchInv'
    BY WatchStep DEF HistoryInv
<1>2. CASE \/ Watch \/ Unwatch \/ SetNamespace \/ Wait
           \/ Notify \/ InitialListTimeout \/ RestartTimeout \/ Reconnect
    BY <1>1, <1>2, OwnFollows DEF HistoryInv, OneObjectPerVersion, Now
<1>3. ASSUME NEW s \in Slot, Answer(s) \/ Event(s) \/ StreamCloses(s)
      PROVE  HistoryInv'
    <2>1. UNCHANGED hist
        BY <1>3 DEF Answer, ListOK, ListFails, WatchOpens, Gone, StreamCloses,
                    WatchFails, Event, Aborted, Net, server
    <2> QED
        BY <1>1, <1>3, <2>1, AnswerFollows DEF HistoryInv, OneObjectPerVersion, Now
<1>4. CASE \E o \in Objs : Write(o)
    BY <1>1, <1>4, WriteFollows DEF HistoryInv
<1>5. CASE Compact \/ UNCHANGED vars
    BY <1>1, <1>5 DEF Compact, Store, vars, HistoryInv, OneObjectPerVersion,
                      CurrentFollows, Running, Follows, Now
<1> QED
    BY <1>2, <1>3, <1>4, <1>5 DEF Next, Task

\* What the components are shown is what the server had: the ListWatch they
\* follow holds the snapshot of its resource version in the selected namespace.
THEOREM AlwaysHistory == Spec => []CacheIsHistory
<1>1. Init => HistoryInv
    BY InitWatch DEF Init, HistoryInv, OneObjectPerVersion, CurrentFollows, Now
<1>2. HistoryInv => CacheIsHistory
    BY DEF HistoryInv, CurrentFollows, Follows, CacheIsHistory
<1> QED
    BY <1>1, <1>2, HistoryStep, PTL DEF Spec

----------------------------------------------------------------------------
(* What the components are shown *)

\* ChangesAreShown, also while a list is requested again.
ShownInv ==
    refCount > 0 =>
        /\ Running /\ items # lw[cur].cache => notify \/ initT
        /\ loaded = "pending" => notify \/ initT \/ restartT \/ reconnectT

\* What an answer to a ListWatch that is not the current one leaves.
LEMMA OtherShown ==
    ASSUME WatchInv, ShownInv, NEW s \in Slot, NEW w, Put(s, w), s # cur,
           UNCHANGED <<cur, refCount, items, loaded, notify, restartT, reconnectT>>,
           initT => initT'
    PROVE  ShownInv'
<1>1. LwType
    BY DEF WatchInv, TypeOK, LwType
<1>2. Running' <=> Running
    BY <1>1, OtherRuns
<1>3. cur # 0 => lw'[cur] = lw[cur]
    BY <1>1, PutFrame DEF LwType, Slot
<1> QED
    BY <1>2, <1>3 DEF ShownInv, Running

\* What an answer to the current one leaves: the same objects, or a timer.
LEMMA CurrentShown ==
    ASSUME WatchInv, ShownInv, NEW w, Put(cur, w), cur \in Slot,
           UNCHANGED <<cur, refCount, items>>,
           \/ /\ Running' => Running /\ w.cache = lw[cur].cache
              /\ UNCHANGED <<notify, initT, restartT, reconnectT, loaded>>
           \/ notify' \/ initT'
           \/ w.pc = "dead" /\ (loaded' = "pending" => restartT')
    PROVE  ShownInv'
<1>1. lw'[cur] = w
    <2>1. LwType
        BY DEF WatchInv, TypeOK, LwType
    <2> QED
        BY <2>1, PutFrame
<1>2. CASE /\ Running' => Running /\ w.cache = lw[cur].cache
           /\ UNCHANGED <<notify, initT, restartT, reconnectT, loaded>>
    BY <1>1, <1>2 DEF ShownInv
<1>3. CASE notify' \/ initT'
    BY <1>3 DEF ShownInv
<1>4. CASE w.pc = "dead" /\ (loaded' = "pending" => restartT')
    BY <1>1, <1>4 DEF ShownInv, Running
<1> QED
    BY <1>2, <1>3, <1>4

\* A list or watch requested again arms the initial-list timer.
LEMMA AgainShown ==
    ASSUME WatchInv, ShownInv, NEW s \in Slot, NEW rv, Again(s, rv),
           UNCHANGED <<cur, refCount, items, loaded, notify, restartT, reconnectT>>
    PROVE  ShownInv'
<1>1. CASE ~lw[s].stopped
    <2>1. initT'
        BY <1>1 DEF Again
    <2> QED
        BY <2>1 DEF ShownInv
<1>2. CASE lw[s].stopped
    <2> DEFINE w == [lw[s] EXCEPT !.pc = "dead", !.rv = rv]
    <2>1. Put(s, w) /\ UNCHANGED initT
        BY <1>2 DEF Again
    <2>2. CASE s # cur
        BY <2>1, <2>2, OtherShown
    <2>3. CASE s = cur
        <3>1. lw[s] \in ListWatch /\ LwType
            BY DEF WatchInv, TypeOK, LwType
        <3>2. w.pc = "dead" /\ w.stopped
            BY <1>2, <3>1 DEF ListWatch
        <3> HIDE DEF w
        <3>3. lw'[cur] = w
            BY <2>1, <2>3, <3>1, PutFrame
        <3> QED
            BY <2>1, <2>3, <3>2, <3>3 DEF ShownInv, Running
    <2> QED
        BY <2>2, <2>3
<1> QED
    BY <1>1, <1>2

\* A request that failed leaves the ListWatch dead, and the restart timer armed or
\* the waiters answered.
LEMMA FailsShown ==
    ASSUME WatchInv, ShownInv, NEW s \in Slot, NEW source, NEW code,
           Fails(s, source, code), UNCHANGED <<cur, refCount, items>>
    PROVE  ShownInv'
<1> DEFINE w == [lw[s] EXCEPT !.pc = "dead"]
<1>1. Put(s, w)
    BY DEF Fails
<1>2. w.pc = "dead"
    <2>1. lw[s] \in ListWatch
        BY DEF WatchInv, TypeOK
    <2> QED
        BY <2>1 DEF ListWatch
<1> HIDE DEF w
<1>3. CASE s # cur
    BY <1>1, <1>3, OtherShown DEF Fails, Ignored, timers, latch
<1>4. CASE s = cur
    <2>1. loaded' = "pending" => restartT'
        BY <1>4 DEF Fails, Throttled, Report, Resettle
    <2> QED
        BY <1>1, <1>2, <1>4, <2>1, CurrentShown
<1> QED
    BY <1>3, <1>4

\* What the server answers to a ListWatch, current or not.
LEMMA AnswerShown ==
    ASSUME WatchInv, ShownInv, NEW s \in Slot, Answer(s) \/ Event(s) \/ StreamCloses(s)
    PROVE  ShownInv'
<1>0. /\ lw[s] \in ListWatch /\ UNCHANGED <<cur, refCount, items>>
    BY DEF WatchInv, TypeOK, LwType, Answer, ListOK, ListFails, WatchOpens, Gone,
           StreamCloses, WatchFails, Event, Aborted, Net
<1>1. ASSUME NEW found, NEW changed, NEW w, Put(s, w), OnChange(s, changed),
             UNCHANGED <<loaded, restartT, reconnectT>>,
             s = cur => /\ w.cache = found /\ (changed <=> (found # lw[s].cache))
                        /\ lw[s].pc \in {"listing", "open"}
                        /\ w.stopped = lw[s].stopped
      PROVE  ShownInv'
    <2>1. CASE s # cur
        BY <1>0, <1>1, <2>1, OtherShown DEF OnChange
    <2>2. CASE s = cur /\ changed
        <3>1. notify'
            BY <1>1, <2>2 DEF OnChange
        <3> QED
            BY <3>1 DEF ShownInv
    <2>3. CASE s = cur /\ ~changed
        <3>1. UNCHANGED <<initT, notify>> /\ w.cache = lw[cur].cache
            BY <1>1, <2>3 DEF OnChange
        <3>2. lw'[cur] = w /\ cur # 0
            <4>1. LwType
                BY DEF WatchInv, TypeOK, LwType
            <4> QED
                BY <1>1, <2>3, <4>1, PutFrame DEF Slot
        <3>3. Running' => Running
            BY <1>0, <1>1, <2>3, <3>2 DEF Running
        <3> QED
            BY <1>0, <1>1, <2>3, <3>1, <3>3, CurrentShown
    <2> QED
        BY <2>1, <2>2, <2>3
<1>2. CASE ListOK(s)
    <2> DEFINE list == View(hist[Now], lw[s].lsel)
               found == AddOrUpdateItems(DeleteItems(lw[s].cache, list), list)
               w == [lw[s] EXCEPT !.pc = "connecting", !.rv = Now,
                                  !.cache = found, !.wsel = ns]
    <2>1. /\ Put(s, w) /\ OnChange(s, found # lw[s].cache) /\ lw[s].pc = "listing"
          /\ UNCHANGED <<loaded, restartT, reconnectT>>
        BY <1>2 DEF ListOK, latch
    <2> HIDE DEF found
    <2>2. w.cache = found /\ w.stopped = lw[s].stopped /\ w.pc = "connecting"
        BY <1>0 DEF ListWatch
    <2> HIDE DEF w
    <2> QED
        BY <1>1, <2>1, <2>2
<1>3. CASE \E c \in Codes : ListFails(s, c) \/ WatchFails(s, c)
    BY <1>0, <1>3, FailsShown DEF ListFails, WatchFails
<1>4. CASE WatchOpens(s)
    <2>1. PICK w : /\ Put(s, w) /\ w.pc \in {"open", "gone"}
                   /\ w.stopped = lw[s].stopped /\ w.cache = lw[s].cache
        BY <1>0, <1>4 DEF WatchOpens, ListWatch
    <2>2. UNCHANGED <<notify, initT, restartT, reconnectT, loaded>>
          /\ lw[s].pc = "connecting"
        BY <1>4 DEF WatchOpens, timers, latch
    <2>3. CASE s # cur
        BY <1>0, <2>1, <2>2, <2>3, OtherShown
    <2>4. CASE s = cur
        <3>1. lw'[cur] = w /\ cur # 0
            <4>1. LwType
                BY DEF WatchInv, TypeOK, LwType
            <4> QED
                BY <2>1, <2>4, <4>1, PutFrame DEF Slot
        <3>2. Running' => Running
            BY <1>0, <2>1, <2>2, <2>4, <3>1 DEF Running
        <3> QED
            BY <1>0, <2>1, <2>2, <2>4, <3>2, CurrentShown
    <2> QED
        BY <2>3, <2>4
<1>5. CASE Gone(s) \/ StreamCloses(s)
    <2>1. PICK rv : Again(s, rv) /\ UNCHANGED <<notify, restartT, reconnectT, loaded>>
        BY <1>5 DEF Gone, StreamCloses, latch
    <2> QED
        BY <1>0, <2>1, AgainShown
<1>6. CASE Aborted(s)
    <2> DEFINE w == [lw[s] EXCEPT !.pc = "dead"]
    <2>1. Put(s, w)
        BY <1>6 DEF Aborted
    <2>2. w.pc = "dead"
        BY <1>0 DEF ListWatch
    <2> HIDE DEF w
    <2>3. CASE s # cur
        BY <1>0, <1>6, <2>1, <2>3, OtherShown DEF Aborted, Ignored, timers, latch
    <2>4. CASE s = cur
        <3>1. loaded' # "pending"
            BY <1>6, <2>4 DEF Aborted, Resettle
        <3> QED
            BY <1>0, <2>1, <2>2, <2>4, <3>1, CurrentShown
    <2> QED
        BY <2>3, <2>4
<1>7. CASE Event(s)
    <2>1. PICK v \in 1..Now, o \in Objs :
            LET changed == lw[s].cache[o] # hist[v][o]
                w == [lw[s] EXCEPT !.rv = v, !.cache[o] = hist[v][o]]
            IN  /\ Put(s, IF changed /\ s # cur THEN Stopped(w) ELSE w)
                /\ OnChange(s, changed)
        BY <1>7 DEF Event
    <2> DEFINE found == [lw[s].cache EXCEPT ![o] = hist[v][o]]
               w == [lw[s] EXCEPT !.rv = v, !.cache[o] = hist[v][o]]
    <2>2. PICK u : /\ Put(s, u) /\ (s = cur => u = w)
                   /\ OnChange(s, lw[s].cache[o] # hist[v][o])
        <3> HIDE DEF w
        <3> QED
            BY <2>1 DEF w
    <2>3. w.cache = found /\ w.pc = lw[s].pc /\ w.stopped = lw[s].stopped
        BY <1>0 DEF ListWatch
    <2>4. (lw[s].cache[o] # hist[v][o]) <=> (found # lw[s].cache)
        <3>1. lw[s].cache \in [Objs -> Version]
            BY <1>0 DEF ListWatch, Snapshot
        <3> QED
            BY <3>1
    <2>5. lw[s].pc = "open" /\ UNCHANGED <<loaded, restartT, reconnectT>>
        BY <1>7 DEF Event, latch
    <2> HIDE DEF found, w
    <2> QED
        BY <1>1, <2>2, <2>3, <2>4, <2>5
<1> QED
    BY <1>2, <1>3, <1>4, <1>5, <1>6, <1>7 DEF Answer

\* The calls of the components, the timers and the server.
LEMMA OwnShown ==
    ASSUME WatchInv, ShownInv,
           \/ Watch \/ Unwatch \/ SetNamespace \/ Wait
           \/ Notify \/ InitialListTimeout \/ RestartTimeout \/ Reconnect
           \/ (\E o \in Objs : Write(o)) \/ Compact
    PROVE  ShownInv'
<1>0. refCount \in Nat
    BY DEF WatchInv, TypeOK
<1>1. CASE initT'
    BY <1>1 DEF ShownInv
<1>2. CASE refCount' = 0
    BY <1>2 DEF ShownInv
<1>3. CASE UNCHANGED <<lw, cur, timers, items, loaded>> /\ (refCount' > 0 => refCount > 0)
    BY <1>3 DEF ShownInv, Running, timers
<1>4. CASE Watch \/ Unwatch \/ SetNamespace \/ Wait
    BY <1>0, <1>1, <1>2, <1>3, <1>4
    DEF Watch, Unwatch, SetNamespace, Wait, Start, CloseAndStart, timers, latch
<1>5. CASE Notify
    BY <1>5 DEF Notify, Settle, Timer, ShownInv, Running
<1>6. CASE InitialListTimeout
    BY <1>6 DEF InitialListTimeout, ShownInv
<1>7. CASE RestartTimeout \/ Reconnect
    BY <1>0, <1>1, <1>2, <1>7 DEF RestartTimeout, Reconnect, Start, CloseAndStart, Timer
<1>8. CASE (\E o \in Objs : Write(o)) \/ Compact
    BY <1>3, <1>8 DEF Write, Compact, Store, latch
<1> QED
    BY <1>4, <1>5, <1>6, <1>7, <1>8

\* For any objects, namespaces and bounds, the components are shown all that the
\* ListWatch has received unless a timer is armed that will show it, and whoever
\* waits for the resources has such a timer to wait for.
THEOREM AlwaysShown == Spec => []ChangesAreShown
<1>1. Init => ShownInv
    BY DEF Init, ShownInv
<1>2. WatchInv /\ ShownInv /\ [Next]_vars => ShownInv'
    <2> SUFFICES ASSUME WatchInv, ShownInv, [Next]_vars PROVE ShownInv'
        OBVIOUS
    <2>1. CASE UNCHANGED vars
        BY <2>1 DEF vars, ShownInv, Running
    <2>2. CASE Next
        BY <2>2, AnswerShown, OwnShown DEF Next, Task
    <2> QED
        BY <2>1, <2>2
<1>3. ShownInv => ChangesAreShown
    BY DEF ShownInv, ChangesAreShown
<1>4. Spec => []WatchInv
    BY InitWatch, WatchStep, PTL DEF Spec
<1> QED
    BY <1>1, <1>2, <1>3, <1>4, PTL DEF Spec
=============================================================================
