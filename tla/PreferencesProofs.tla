------------------------- MODULE PreferencesProofs -------------------------
(***************************************************************************)
(* The latch of the preferences store, for any preferences, values, specs  *)
(* the webhook refuses and number of calls: it is never left unresolved    *)
(* without a call that will resolve it, and it keeps validations and       *)
(* commits apart as long as commits do not overlap. What becomes of edits, *)
(* and what the error status says of them when nothing is in flight.       *)
(***************************************************************************)
EXTENDS Preferences, TLAPS

USE NoneAssumption, InvalidAssumption, BoundAssumption
    DEF NoneAssumption, InvalidAssumption, BoundAssumption

----------------------------------------------------------------------------
(* What the operators on changes return *)

LEMMA EmptyType == Empty \in Changes
    BY DEF Empty, Changes

LEMMA OnlyType ==
    ASSUME NEW k \in Keys, NEW v \in Values
    PROVE  Only(k, v) \in Changes
    BY DEF Only, Empty, Changes

LEMMA MergeType ==
    ASSUME NEW spec \in Specs, NEW ch \in Changes
    PROVE  Merge(spec, ch) \in Specs
    BY DEF Merge, Specs, Changes

LEMMA WithoutType ==
    ASSUME NEW ch \in Changes, NEW k
    PROVE  Without(ch, k) \in Changes
    BY DEF Without, Changes

LEMMA RecordedType ==
    ASSUME changes \in Changes, NEW k \in Keys, NEW v \in Values
    PROVE  Recorded(k, v) \in Changes
    BY DEF Recorded, Changes

LEMMA DroppedType ==
    ASSUME NEW ch \in Changes, NEW spec
    PROVE  Dropped(ch, spec) \in Changes
    BY DEF Dropped, Changes

----------------------------------------------------------------------------
(* Types *)

\* Of TypeOK, what an answer changes in the window.
WindowType ==
    /\ changes \in Changes /\ mod \in Changes
    /\ error \in BOOLEAN /\ pending \in BOOLEAN /\ queued \in BOOLEAN

LEMMA ValidateType ==
    ASSUME mod \in Changes, NEW ch \in Changes, NEW e \in BOOLEAN, Validate(ch, e)
    PROVE  mod' \in Changes /\ error' \in BOOLEAN
    BY DEF Validate

LEMMA ResolveType ==
    ASSUME WindowType, NEW ch \in Changes, NEW e \in BOOLEAN, Resolve(ch, e)
    PROVE  WindowType'
<1>1. CASE queued
    BY <1>1, ValidateType DEF Resolve, WindowType
<1>2. CASE ~queued
    BY <1>2 DEF Resolve, WindowType
<1> QED
    BY <1>1, <1>2

\* What a validation does to the marks on the verdict, and what each step does.
LEMMA ValidatePast ==
    ASSUME NEW ch, NEW e, Validate(ch, e)
    PROVE  past' = past \/ (seen # 0 /\ past' = past \cap {"overlap"})
    BY DEF Validate

LEMMA ResolvePast ==
    ASSUME NEW ch, NEW e, Resolve(ch, e)
    PROVE  past' = past \/ (seen # 0 /\ past' = past \cap {"overlap"})
    BY ValidatePast DEF Resolve

LEMMA PastStep ==
    ASSUME TypeOK, [Next]_vars
    PROVE  past' \subseteq {"writeNow", "overlap", "other", "behind"}
<1> USE DEF TypeOK
<1>1. CASE \E k \in Keys, v \in Values : Modify(k, v)
    BY <1>1, ValidatePast DEF Modify
<1>2. CASE (\E k \in Keys, v \in Values : WriteNow(k, v)) \/ Commit
    BY <1>2, ResolvePast DEF WriteNow, Commit, NoApp, Marks
<1>3. CASE Answered \/ \E g : Settled(g)
    BY <1>3, ResolvePast DEF Answered, Settled
<1>4. CASE \/ Clear \/ Serve \/ Lost \/ Validated \/ ValidationFails \/ Observe
           \/ UNCHANGED vars
           \/ \E k \in Keys, v \in Values : Other(k, v)
           \/ \E body \in ghosts : Ghost(body)
    BY <1>4 DEF Clear, Serve, Lost, Validated, ValidationFails, Observe, Other, Ghost,
                vars
<1> QED
    BY <1>1, <1>2, <1>3, <1>4 DEF Next, Task, Observed, TimedOut

LEMMA ApplyType ==
    ASSUME hist \in Seq(Specs), hist # <<>>, NEW body \in Changes, Apply(body)
    PROVE  /\ hist' \in Seq(Specs) /\ hist' # <<>>
           /\ Len(hist') >= Len(hist)
           /\ \A g \in 1..Len(hist) : hist'[g] = hist[g]
<1>1. Spec0 \in Specs
    BY DEF Spec0
<1>2. Merge(Spec0, body) \in Specs
    BY <1>1, MergeType
<1> QED
    BY <1>2 DEF Apply

LEMMA AbortType ==
    ASSUME TypeOK, Abort
    PROVE  ghosts' \subseteq Changes /\ faults' \in 0..MaxFaults
    BY DEF TypeOK, Abort, Commits, NoCommit

LEMMA RequestType ==
    ASSUME TypeOK, NEW body \in Changes, NEW drop \in Keys \cup {None},
           NEW ch \in Changes,
           Request(body, drop, ch) \/ NoApp(drop, ch)
    PROVE  /\ WindowType' /\ ghosts' \subseteq Changes
           /\ commit' \in {NoCommit} \cup Commits
           /\ faults' \in 0..MaxFaults /\ UNCHANGED <<hist, seen, settling>>
<1>1. WindowType
    BY DEF TypeOK, WindowType
<1>2. CASE Request(body, drop, ch)
    <2>1. Interrupted(ch) \in Changes
        BY WithoutType DEF Interrupted
    <2>2. seen \in Generations
        BY <1>2 DEF TypeOK, Request, Generations
    <2>3. commit' \in Commits
        BY <1>2, <2>2 DEF Request, Commits
    <2> QED
        BY <1>1, <1>2, <2>1, <2>3, AbortType, EmptyType DEF Request, WindowType
<1>3. CASE NoApp(drop, ch)
    <2>1. WindowType'
        BY <1>1, <1>3, WithoutType, ResolveType DEF NoApp
    <2> QED
        BY <1>3, <2>1 DEF NoApp, server, TypeOK
<1> QED
    BY <1>2, <1>3

LEMMA TypeStep == TypeOK /\ [Next]_vars => TypeOK'
<1> SUFFICES ASSUME TypeOK, [Next]_vars PROVE TypeOK'
    OBVIOUS
<1>0. WindowType /\ TRUE \in BOOLEAN
    BY DEF TypeOK, WindowType
<1>p. past' \subseteq {"writeNow", "overlap", "other", "behind"}
    BY PastStep
<1>1. ASSUME NEW k \in Keys, NEW v \in Values, Modify(k, v) PROVE TypeOK'
    <2>1. changes' \in Changes
        BY <1>p, <1>1, RecordedType DEF Modify, TypeOK
    <2>2. CASE pending
        BY <1>p, <1>1, <2>1, <2>2 DEF Modify, Op, server, TypeOK
    <2>3. CASE ~pending
        <3>1. mod' \in Changes /\ error' \in BOOLEAN
            <4>1. Validate(Recorded(k, v), error)
                BY <1>p, <1>1, <2>3 DEF Modify
            <4> QED
                BY <4>1, RecordedType, ValidateType DEF TypeOK
        <3> QED
            BY <1>p, <1>1, <2>1, <2>3, <3>1 DEF Modify, Op, server, TypeOK
    <2> QED
        BY <2>2, <2>3
<1>2. ASSUME NEW k \in Keys, NEW v \in Values, WriteNow(k, v) PROVE TypeOK'
    <2>1. /\ WindowType' /\ ghosts' \subseteq Changes
          /\ commit' \in {NoCommit} \cup Commits
          /\ faults' \in 0..MaxFaults /\ UNCHANGED <<hist, seen, settling>>
        BY <1>p, <1>0, <1>2, OnlyType, RecordedType, RequestType DEF WriteNow, WindowType
    <2> QED
        BY <1>p, <1>2, <2>1 DEF WriteNow, Op, TypeOK, WindowType
<1>3. ASSUME Commit PROVE TypeOK'
    <2>1. CASE Request(changes, None, changes) \/ NoApp(None, changes)
        <3>1. /\ WindowType' /\ ghosts' \subseteq Changes
              /\ commit' \in {NoCommit} \cup Commits
              /\ faults' \in 0..MaxFaults /\ UNCHANGED <<hist, seen, settling>>
            BY <1>p, <1>0, <2>1, RequestType DEF WindowType
        <3> QED
            BY <1>p, <1>3, <3>1 DEF Commit, Op, TypeOK, WindowType
    <2>2. CASE Skip
        <3>1. WindowType' /\ ghosts' \subseteq Changes /\ faults' \in 0..MaxFaults
            BY <1>p, <1>0, <2>2, AbortType, EmptyType DEF Skip, WindowType
        <3> QED
            BY <1>p, <1>3, <2>2, <3>1 DEF Commit, Skip, Op, TypeOK, WindowType
    <2> QED
        BY <1>p, <1>3, <2>1, <2>2 DEF Commit
<1>4. CASE Clear
    <2>1. WindowType'
        BY <1>p, <1>0, <1>4, EmptyType DEF Clear, WindowType
    <2> QED
        BY <1>p, <1>4, <2>1 DEF Clear, Op, server, TypeOK, WindowType
<1>5. ASSUME NEW body \in Changes, Apply(body), UNCHANGED seen
      PROVE  hist' \in Seq(Specs) /\ hist' # <<>> /\ seen' \in 0..Len(hist')
    BY <1>p, <1>5, ApplyType DEF TypeOK
<1>6. ASSUME NEW k \in Keys, NEW v \in Values, Other(k, v) PROVE TypeOK'
    BY <1>p, <1>5, <1>6, OnlyType DEF Other, Op, TypeOK
<1>7. ASSUME NEW body \in ghosts, Ghost(body) PROVE TypeOK'
    BY <1>p, <1>5, <1>7 DEF Ghost, Window, TypeOK
<1>8. CASE Serve
    <2>1. commit \in Commits /\ commit.body \in Changes
        BY <1>p, <1>8 DEF Serve, TypeOK, Commits
    <2>2. Apply(commit.body) /\ UNCHANGED seen
        BY <1>p, <1>8 DEF Serve, Window
    <2>3. hist' \in Seq(Specs) /\ hist' # <<>> /\ seen' \in 0..Len(hist')
        BY <1>p, <1>5, <2>1, <2>2
    <2>4. Len(hist') \in Generations
        BY <2>3 DEF Generations
    <2>5. commit' \in Commits
        BY <1>p, <1>8, <2>1, <2>4 DEF Serve, Commits
    <2> QED
        BY <1>p, <1>8, <2>3, <2>5 DEF Serve, Window, TypeOK
<1>9. CASE Lost
    <2>1. commit' \in Commits
        BY <1>p, <1>9 DEF Lost, TypeOK, Commits
    <2> QED
        BY <1>p, <1>9, <2>1 DEF Lost, Fault, Window, TypeOK
<1>10. CASE Answered
    <2>1. commit \in Commits
        BY <1>p, <1>10 DEF Answered, TypeOK
    <2>2. CASE commit.st = "ok"
        BY <1>p, <1>10, <2>1, <2>2 DEF Answered, server, TypeOK, Commits
    <2>3. CASE commit.st # "ok"
        <3>1. WindowType'
            BY <1>p, <1>0, <1>10, <2>3, WithoutType, ResolveType DEF Answered, WindowType
        <3> QED
            BY <1>p, <1>10, <2>3, <3>1 DEF Answered, server, TypeOK, WindowType
    <2> QED
        BY <2>2, <2>3
<1>11. ASSUME NEW g, Settled(g) PROVE TypeOK'
    <2>1. WindowType'
        BY <1>p, <1>0, <1>11, ResolveType DEF Settled, WindowType
    <2> QED
        BY <1>p, <1>11, <2>1 DEF Settled, server, TypeOK, WindowType
<1>12. CASE Validated
    BY <1>p, <1>12, EmptyType DEF Validated, server, TypeOK
<1>13. CASE ValidationFails
    BY <1>p, <1>13, EmptyType DEF ValidationFails, Fault, server, TypeOK
<1>14. CASE Observe
    BY <1>p, <1>14, DroppedType DEF Observe, TypeOK
<1>15. CASE UNCHANGED vars
    BY <1>p, <1>15 DEF vars, TypeOK
<1> QED
    BY <1>1, <1>2, <1>3, <1>4, <1>6, <1>7, <1>8, <1>9, <1>10, <1>11, <1>12,
       <1>13, <1>14, <1>15 DEF Next, Task, Observed, TimedOut

----------------------------------------------------------------------------
(* The latch *)

\* There is no request before there is an App.
NoAppNoRequest == seen = 0 => commit = NoCommit /\ settling = {} /\ ~pending

\* Without overlapping commits there is one call at a time, it holds the latch
\* and no validation runs beside it.
LatchHeld ==
    "overlap" \notin past =>
        /\ commit = NoCommit \/ settling = {}
        /\ \A g, h \in settling : g = h
        /\ commit # NoCommit \/ settling # {} => pending /\ mod = Empty

LatchInv == TypeOK /\ PendingHasOwner /\ NoAppNoRequest /\ LatchHeld

LEMMA ResolveLatch ==
    ASSUME NEW ch, NEW e, Resolve(ch, e)
    PROVE  pending' = FALSE /\ queued' = FALSE
    BY DEF Resolve

LEMMA RequestLatch ==
    ASSUME LatchInv, NEW body, NEW drop, NEW ch,
           Request(body, drop, ch) \/ NoApp(drop, ch) \/ Skip,
           settling # {} => "overlap" \in past', "overlap" \in past => "overlap" \in past'
    PROVE  PendingHasOwner' /\ NoAppNoRequest' /\ LatchHeld'
<1> USE DEF LatchInv, PendingHasOwner, NoAppNoRequest, LatchHeld
<1>1. CASE Request(body, drop, ch)
    <2>1. commit' # NoCommit /\ seen' # 0
        BY <1>1 DEF Request, NoCommit
    <2>2. pending' /\ mod' = Empty /\ UNCHANGED settling
        BY <1>1 DEF Request
    <2> QED
        BY <2>1, <2>2
<1>2. CASE NoApp(drop, ch)
    BY <1>2, ResolveLatch DEF NoApp, server
<1>3. CASE Skip
    BY <1>3 DEF Skip
<1> QED
    BY <1>1, <1>2, <1>3

\* While the latch is held, edits do not start validations.
LEMMA ModifyLatch ==
    ASSUME LatchInv, NEW k, NEW v, Modify(k, v)
    PROVE  PendingHasOwner' /\ NoAppNoRequest' /\ LatchHeld'
<1> USE DEF LatchInv, PendingHasOwner, NoAppNoRequest, LatchHeld
<1>1. UNCHANGED <<seen, commit, settling, pending>>
      /\ ("overlap" \in past' <=> "overlap" \in past)
    BY ValidatePast DEF Modify, server
<1>2. CASE pending
    BY <1>1, <1>2 DEF Modify
<1>3. CASE ~pending
    BY <1>1, <1>3 DEF Modify
<1> QED
    BY <1>2, <1>3

LEMMA AnswerLatch ==
    ASSUME LatchInv, Answered
    PROVE  PendingHasOwner' /\ NoAppNoRequest' /\ LatchHeld'
<1> USE DEF LatchInv, PendingHasOwner, NoAppNoRequest, LatchHeld
<1>1. /\ seen # 0 /\ seen' = seen /\ commit # NoCommit /\ commit' = NoCommit
      /\ "overlap" \in past' <=> "overlap" \in past
    BY ResolvePast DEF Answered, server
<1>2. CASE commit.st = "ok"
    BY <1>1, <1>2 DEF Answered
<1>3. CASE commit.st # "ok"
    BY <1>1, <1>3, ResolveLatch DEF Answered
<1> QED
    BY <1>2, <1>3

LEMMA LatchStep == LatchInv /\ [Next]_vars => LatchInv'
<1> SUFFICES ASSUME LatchInv, [Next]_vars PROVE LatchInv'
    OBVIOUS
<1>0. TypeOK'
    BY TypeStep DEF LatchInv
<1>1. CASE \E k \in Keys, v \in Values : Modify(k, v)
    BY <1>0, <1>1, ModifyLatch DEF LatchInv
<1>2. CASE (\E k \in Keys, v \in Values : WriteNow(k, v)) \/ Commit
    <2>1. /\ \E body, drop, ch : Request(body, drop, ch) \/ NoApp(drop, ch) \/ Skip
          /\ settling # {} => "overlap" \in past'
          /\ "overlap" \in past => "overlap" \in past'
        BY <1>2, ResolvePast
        DEF WriteNow, Commit, Marks, NoApp, LatchInv, NoAppNoRequest
    <2> QED
        BY <1>0, <2>1, RequestLatch DEF LatchInv
<1>3. CASE Answered
    BY <1>0, <1>3, AnswerLatch DEF LatchInv
<1>4. CASE \E g \in settling : Settled(g)
    <2>1. PICK g \in settling : Settled(g)
        BY <1>4
    <2>2. /\ pending' = FALSE /\ queued' = FALSE /\ settling' = settling \ {g}
          /\ UNCHANGED <<seen, commit>>
          /\ "overlap" \in past' <=> "overlap" \in past
        BY <2>1, ResolveLatch, ResolvePast DEF Settled, server
    <2> QED
        BY <1>0, <2>1, <2>2
        DEF LatchInv, PendingHasOwner, NoAppNoRequest, LatchHeld
<1>5. CASE Serve \/ Lost
    <2>1. /\ commit # NoCommit /\ commit' # NoCommit /\ past' = past
          /\ UNCHANGED <<seen, mod, settling, pending, queued>>
        <3>1. /\ commit \in Commits
              /\ \E st, gen : commit' = [commit EXCEPT !.st = st]
                           \/ commit' = [commit EXCEPT !.st = st, !.gen = gen]
            BY <1>5 DEF LatchInv, TypeOK, Serve, Lost
        <3>2. "body" \in DOMAIN commit'
            BY <3>1 DEF Commits
        <3>3. "body" \notin DOMAIN NoCommit
            BY DEF NoCommit
        <3> QED
            BY <1>5, <3>2, <3>3 DEF Serve, Lost, Window
    <2> QED
        BY <1>0, <2>1 DEF LatchInv, PendingHasOwner, NoAppNoRequest, LatchHeld
<1>6. CASE \/ Clear \/ Validated \/ ValidationFails \/ Observe \/ UNCHANGED vars
           \/ \E k \in Keys, v \in Values : Other(k, v)
           \/ \E body \in ghosts : Ghost(body)
    <2>1. /\ UNCHANGED <<commit, settling, pending, queued>>
          /\ mod' = mod \/ mod' = Empty
          /\ seen # 0 => seen' # 0
          /\ "overlap" \in past' <=> "overlap" \in past
        BY <1>6 DEF Clear, Validated, ValidationFails, Observe, Other, Ghost,
                    Window, server, vars, LatchInv, TypeOK
    <2> QED
        BY <1>0, <2>1 DEF LatchInv, PendingHasOwner, NoAppNoRequest, LatchHeld
<1> QED
    BY <1>1, <1>2, <1>3, <1>4, <1>5, <1>6 DEF Next, Task, Observed, TimedOut

LEMMA InitLatch == Init => LatchInv
<1> SUFFICES ASSUME Init PROVE LatchInv
    OBVIOUS
<1>1. hist \in Seq(Specs) /\ hist # <<>>
    BY DEF Init
<1>2. error \in BOOLEAN /\ pending \in BOOLEAN /\ queued \in BOOLEAN
    BY DEF Init
<1>3. TypeOK
    BY <1>1, <1>2, EmptyType DEF Init, TypeOK
<1> QED
    BY <1>3 DEF Init, LatchInv, PendingHasOwner, NoAppNoRequest, LatchHeld

\* Whatever mix of commits, interruptions, failures and time-outs came before,
\* an unresolved pendingCommit has a call that will resolve it.
THEOREM LatchHasOwner == Spec => [](TypeOK /\ PendingHasOwner)
<1>1. LatchInv => TypeOK /\ PendingHasOwner
    BY DEF LatchInv
<1> QED
    BY <1>1, InitLatch, LatchStep, PTL DEF Spec

\* The latch keeps validations and commits apart while commits do not overlap.
THEOREM ValidationsWait == Spec => []ModifyWaits
<1>1. LatchInv => ModifyWaits
    BY DEF LatchInv, LatchHeld, ModifyWaits
<1> QED
    BY <1>1, InitLatch, LatchStep, PTL DEF Spec

----------------------------------------------------------------------------
(* Changes and the App *)

\* The changes ch differ from what the App shows.
Differs(ch) == \A k \in Keys : seen # 0 /\ ch[k] # None => ch[k] # hist[seen][k]

LEMMA WithoutDiffers ==
    ASSUME NEW ch, Differs(ch), NEW k
    PROVE  Differs(Without(ch, k))
    BY DEF Differs, Without

LEMMA RecordedDiffers ==
    ASSUME changes \in Changes, Differs(changes), NEW k \in Keys, NEW v \in Values
    PROVE  Differs(Recorded(k, v))
    BY DEF Differs, Recorded, Changes

LEMMA EmptyDiffers == Differs(Empty)
    BY DEF Differs, Empty

\* Every call and answer leaves the App's generations alone and changes that
\* differ from the one shown; only Observe shows another.
LEMMA DiffersStep ==
    ASSUME TypeOK, Differs(changes), [Next]_vars, ~Observe
    PROVE  Differs(changes') /\ UNCHANGED seen /\ (seen # 0 => hist'[seen] = hist[seen])
<1>1. \A k \in Keys, v \in Values : Differs(Recorded(k, v))
    BY RecordedDiffers DEF TypeOK
<1>2. \A ch, k : Differs(ch) => Differs(Without(ch, k))
    BY WithoutDiffers
<1>3. ASSUME NEW body \in Changes, Apply(body)
      PROVE  seen # 0 => hist'[seen] = hist[seen]
    <2>1. \A g \in 1..Len(hist) : hist'[g] = hist[g]
        BY <1>3, ApplyType DEF TypeOK
    <2> QED
        BY <2>1 DEF TypeOK
<1>4. ASSUME NEW k \in Keys, NEW v \in Values, Modify(k, v)
      PROVE  Differs(changes') /\ UNCHANGED <<seen, hist>>
    BY <1>1, <1>4 DEF Modify, server
<1>5. ASSUME NEW body, NEW drop, NEW ch, Differs(ch),
             Request(body, drop, ch) \/ NoApp(drop, ch)
      PROVE  Differs(changes') /\ UNCHANGED <<seen, hist>>
    BY <1>2, <1>5 DEF Request, NoApp, Interrupted, Resolve, server
<1>6. ASSUME NEW k \in Keys, NEW v \in Values, WriteNow(k, v)
      PROVE  Differs(changes') /\ UNCHANGED <<seen, hist>>
    <2>1. Differs(Recorded(k, v))
        BY <1>1
    <2> QED
        BY <1>5, <1>6, <2>1 DEF WriteNow
<1>7. CASE Commit
    <2>1. CASE Skip
        BY <2>1 DEF Skip
    <2>2. CASE Request(changes, None, changes) \/ NoApp(None, changes)
        BY <1>5, <2>2
    <2> QED
        BY <1>7, <2>1, <2>2 DEF Commit
<1>8. CASE Clear
    BY <1>8, EmptyDiffers DEF Clear, server
<1>9. CASE Serve
    <2>1. commit.body \in Changes /\ Apply(commit.body)
        BY <1>9 DEF Serve, TypeOK, Commits
    <2> QED
        BY <1>3, <1>9, <2>1 DEF Serve, Window
<1>10. CASE \E k \in Keys, v \in Values : Other(k, v)
    BY <1>3, <1>10, OnlyType DEF Other
<1>11. CASE \E body \in ghosts : Ghost(body)
    BY <1>3, <1>11 DEF Ghost, Window, TypeOK
<1>12. CASE Answered
    BY <1>2, <1>12 DEF Answered, Resolve, server
<1>13. CASE \E g : Settled(g)
    BY <1>13 DEF Settled, Resolve, server
<1>14. CASE Lost \/ Validated \/ ValidationFails \/ UNCHANGED vars
    BY <1>14 DEF Lost, Window, Validated, ValidationFails, server, vars
<1> QED
    BY <1>4, <1>6, <1>7, <1>8, <1>9, <1>10, <1>11, <1>12, <1>13, <1>14
    DEF Next, Task, Observed, TimedOut

LEMMA StaleStep == TypeOK /\ NothingStale /\ [Next]_vars => NothingStale'
<1> SUFFICES ASSUME TypeOK, NothingStale, [Next]_vars PROVE NothingStale'
    OBVIOUS
<1>1. CASE Observe
    <2>1. PICK g : /\ seen' = g /\ hist' = hist
                   /\ changes' = Dropped(changes, hist[g])
        BY <1>1 DEF Observe
    <2> QED
        BY <2>1 DEF NothingStale, Dropped
<1>2. CASE ~Observe
    <2>1. Differs(changes)
        BY DEF NothingStale, Differs
    <2>2. Differs(changes') /\ UNCHANGED seen /\ (seen # 0 => hist'[seen] = hist[seen])
        BY <1>2, <2>1, DiffersStep
    <2> QED
        BY <2>2 DEF NothingStale, Differs
<1> QED
    BY <1>1, <1>2

\* A change never repeats what the window shows, however edits, commits and
\* observations of the App interleave.
THEOREM ChangesDiffer == Spec => []NothingStale
<1>1. Init => TypeOK /\ NothingStale
    BY InitLatch DEF LatchInv, Init, NothingStale
<1>2. TypeOK /\ NothingStale /\ [Next]_vars => (TypeOK /\ NothingStale)'
    BY TypeStep, StaleStep
<1> QED
    BY <1>1, <1>2, PTL DEF Spec

\* Changes go away by a call, by the App's showing them or with the writeNow() that
\* made them, whatever the values and however commits and observations interleave.
THEOREM ChangesSurvive == Spec => EditsSurvive
<1> DEFINE Survives(k) ==
      changes[k] # None /\ changes'[k] = None
        => \/ ops' # ops
           \/ seen' # 0 /\ hist[seen'][k] = changes[k]
           \/ commit # NoCommit /\ commit.drop = k
<1>1. TypeOK /\ [Next]_vars => \A k \in Keys : Survives(k)
    <2> SUFFICES ASSUME TypeOK, [Next]_vars, NEW k \in Keys PROVE Survives(k)
        OBVIOUS
    <2>1. CASE Op
        BY <2>1 DEF Op, TypeOK
    <2>2. CASE changes' = changes
        BY <2>2
    <2>3. CASE Answered
        <3>1. changes' = changes \/ changes' = Without(changes, commit.drop)
            BY <2>3 DEF Answered, Resolve
        <3> QED
            BY <2>3, <3>1 DEF Answered, Without
    <2>4. CASE Observe
        BY <2>4 DEF Observe, Dropped, TypeOK
    <2> QED
        BY <2>1, <2>2, <2>3, <2>4
        DEF Next, Task, Modify, WriteNow, Commit, Clear, Other, Serve, Lost, Ghost, Window,
            Settled, Observed, TimedOut, Resolve, Validated, ValidationFails, vars
<1>2. Spec => []TypeOK
    BY InitLatch, LatchStep, PTL DEF Spec, LatchInv
<1>3. TypeOK /\ [Next]_vars => [\A k \in Keys : Survives(k)]_vars
    BY <1>1
<1>4. Spec => [][\A k \in Keys : Survives(k)]_vars
    BY <1>2, <1>3, PTL DEF Spec
<1> QED
    BY <1>4 DEF EditsSurvive

----------------------------------------------------------------------------
(* What Apply would send *)

Valid(ch) == Merge(Spec0, ch) \notin Invalid

\* The changes are of the commit in flight, unless some modify() waits.
CommitKnows ==
    commit # NoCommit =>
        /\ commit.drop = None
        /\ commit.st = "ok" => \A k \in Keys : commit.body[k] \in {None, Spec0[k]}
        /\ ~queued => \A k \in Keys : changes[k] \in {None, commit.body[k]}

\* The error status is that of the changes, or will be with an answer in flight.
StatusKnows ==
    /\ mod # Empty /\ Valid(mod) => Valid(changes)
    /\ settling # {} /\ ~queued => \A k \in Keys : changes[k] \in {None, Spec0[k]}
    /\ Quiet /\ CanApply => Valid(changes)

\* The inductive invariant: unless something came between, the requests in flight
\* and the error status agree with what the server would say of the changes.
VerdictInv ==
    /\ Spec0 \notin Invalid
    /\ seen = 0 => mod = Empty
    /\ past = {} => CommitKnows /\ StatusKnows

LEMMA SpecType == TypeOK => Spec0 \in Specs
    BY DEF TypeOK, Spec0

\* Changes that the App has by now change nothing.
LEMMA MergeSame ==
    ASSUME NEW spec \in Specs, NEW ch \in Changes, NEW less \in Changes,
           \A k \in Keys : less[k] = ch[k] \/ (less[k] = None /\ spec[k] = ch[k])
    PROVE  Merge(spec, less) = Merge(spec, ch)
    BY DEF Merge, Changes, Specs

LEMMA MergeShown ==
    ASSUME NEW spec \in Specs, NEW ch, \A k \in Keys : ch[k] \in {None, spec[k]}
    PROVE  Merge(spec, ch) = spec
    BY DEF Merge, Specs

LEMMA WithoutNone ==
    ASSUME NEW ch \in Changes
    PROVE  Without(ch, None) = ch
    BY DEF Without, Changes

LEMMA MergeEmpty ==
    ASSUME NEW spec \in Specs
    PROVE  Merge(spec, Empty) = spec
    BY MergeShown DEF Empty

\* The server never takes a spec that the webhook refuses.
LEMMA ApplySpec ==
    ASSUME TypeOK, NEW body \in Changes, Apply(body), Spec0 \notin Invalid
    PROVE  /\ Spec0' \notin Invalid
           /\ Merge(Spec0, body) \notin Invalid => Spec0' = Merge(Spec0, body)
<1> DEFINE new == Merge(Spec0, body)
<1>1. new \in Specs
    BY SpecType, MergeType
<1>2. hist' = IF new \in Invalid \/ new = Spec0 THEN hist ELSE Append(hist, new)
    BY DEF Apply
<1> HIDE DEF new
<1>3. CASE new \in Invalid \/ new = Spec0
    <2>1. Spec0' = Spec0
        BY <1>2, <1>3 DEF Spec0
    <2> QED
        BY <1>3, <2>1 DEF new
<1>4. CASE ~(new \in Invalid \/ new = Spec0)
    <2>1. Len(hist') = Len(hist) + 1 /\ hist'[Len(hist) + 1] = new
        BY <1>1, <1>2, <1>4 DEF TypeOK
    <2>2. Spec0' = new
        BY <2>1 DEF Spec0
    <2> QED
        BY <1>4, <2>2 DEF new
<1> QED
    BY <1>3, <1>4

\* What the latch says as long as commits do not overlap.
Alone ==
    /\ commit = NoCommit \/ settling = {}
    /\ \A g, h \in settling : g = h
    /\ commit # NoCommit \/ settling # {} => pending /\ mod = Empty
    /\ pending \/ queued => commit # NoCommit \/ settling # {}
    /\ seen = 0 => commit = NoCommit /\ settling = {} /\ ~pending

LEMMA LatchAlone == LatchInv /\ "overlap" \notin past => Alone
    BY DEF LatchInv, PendingHasOwner, NoAppNoRequest, LatchHeld, Alone

\* What every step below begins with. A validation makes past empty.
Before == TypeOK /\ Alone /\ VerdictInv /\ past' = {}

\* A step that leaves the server and what the window sees of it.
LEMMA WindowVerdict ==
    ASSUME VerdictInv, hist' = hist, seen' = 0 => mod' = Empty,
           CommitKnows', StatusKnows'
    PROVE  VerdictInv'
<1>1. Spec0' = Spec0
    BY DEF Spec0
<1> QED
    BY <1>1 DEF VerdictInv

\* A new verdict is asked for with no commit about.
LEMMA ValidateVerdict ==
    ASSUME Before, NEW ch, NEW e, seen # 0, Validate(ch, e), changes' = ch,
           UNCHANGED <<hist, seen>>, commit' = NoCommit, settling' = {}
    PROVE  VerdictInv'
<1>1. mod' = changes'
    BY DEF Validate
<1>2. StatusKnows'
    BY <1>1 DEF StatusKnows, Quiet, CanApply
<1>3. CommitKnows'
    BY DEF CommitKnows
<1> QED
    BY <1>2, <1>3, WindowVerdict DEF Before

\* A call that fails or ends: some modify() waits and asks for a verdict, or the
\* error status e says enough.
LEMMA ResolveVerdict ==
    ASSUME Before, NEW ch, NEW e, Resolve(ch, e), UNCHANGED <<hist, seen>>,
           commit' = NoCommit, settling' = {}, mod = Empty,
           past = {} /\ ~queued => e \/ Valid(ch)
    PROVE  VerdictInv'
<1>1. CASE queued /\ seen # 0
    BY <1>1, ValidateVerdict DEF Resolve
<1>2. CASE ~queued \/ seen = 0
    <2>1. mod' = Empty /\ past = {} /\ changes' = ch
          /\ (error' \/ (~queued /\ error' = e))
        BY <1>2 DEF Resolve, Validate, Before
    <2>2. Spec0' = Spec0
        BY DEF Spec0
    <2>3. ~error' => Valid(changes)'
        BY <2>1, <2>2 DEF Valid
    <2>4. CommitKnows' /\ StatusKnows'
        BY <2>1, <2>3 DEF CommitKnows, StatusKnows, CanApply
    <2> QED
        BY <2>1, <2>4, WindowVerdict DEF Before
<1> QED
    BY <1>1, <1>2

\* An edit is validated at once, or when the latch is resolved.
LEMMA ModifyVerdict ==
    ASSUME Before, NEW k \in Keys, NEW v \in Values, Modify(k, v)
    PROVE  VerdictInv'
<1>1. UNCHANGED <<hist, seen, commit, settling, pending>>
    BY DEF Modify, server
<1>2. CASE pending
    <2>1. /\ queued' /\ UNCHANGED <<mod, error>> /\ past = {}
          /\ mod = Empty /\ (commit # NoCommit \/ settling # {})
        BY <1>2 DEF Modify, Before, Alone
    <2>2. Spec0' = Spec0
        BY <1>1 DEF Spec0
    <2>3. CommitKnows' /\ StatusKnows'
        BY <1>1, <2>1, <2>2
        DEF Before, VerdictInv, CommitKnows, StatusKnows, Quiet
    <2> QED
        BY <1>1, <2>1, <2>3, WindowVerdict DEF Before
<1>3. CASE ~pending
    <2>1. commit' = NoCommit /\ settling' = {} /\ Validate(changes', error)
        BY <1>1, <1>3 DEF Modify, Before, Alone
    <2>2. CASE seen # 0
        BY <1>1, <2>1, <2>2, ValidateVerdict
    <2>3. CASE seen = 0
        <3>1. error' /\ mod' = Empty
            BY <2>1, <2>3 DEF Validate, Before, VerdictInv
        <3>2. CommitKnows' /\ StatusKnows'
            BY <2>1, <3>1 DEF CommitKnows, StatusKnows, CanApply
        <3> QED
            BY <1>1, <3>1, <3>2, WindowVerdict DEF Before
    <2> QED
        BY <2>2, <2>3
<1> QED
    BY <1>2, <1>3

\* Without an App a call fails.
LEMMA NoAppVerdict ==
    ASSUME Before, NEW drop, NEW ch, NoApp(drop, ch)
    PROVE  VerdictInv'
<1>1. /\ seen = 0 /\ UNCHANGED <<hist, seen, commit, settling>>
      /\ Resolve(Without(ch, drop), TRUE)
    BY DEF NoApp, server
<1>2. commit' = NoCommit /\ settling' = {} /\ mod = Empty
    BY <1>1 DEF Before, Alone, VerdictInv
<1> QED
    BY <1>1, <1>2, ResolveVerdict

LEMMA CommitVerdict ==
    ASSUME Before, Commit
    PROVE  VerdictInv'
<1>1. CASE NoApp(None, changes)
    BY <1>1, NoAppVerdict
<1>2. CASE (Request(changes, None, changes) \/ Skip) /\ past' = Marks
    <2>1. past = {} /\ settling = {} /\ UNCHANGED <<hist, seen, settling>>
          /\ mod' = Empty
        BY <1>2 DEF Marks, Before, Request, Skip
    <2>2. Spec0' = Spec0
        BY <2>1 DEF Spec0
    <2>3. CASE Skip
        <3>1. commit' = NoCommit /\ changes' = Empty
            BY <2>3 DEF Skip
        <3>2. CommitKnows' /\ StatusKnows'
            BY <2>1, <3>1 DEF CommitKnows, StatusKnows, CanApply
        <3> QED
            BY <2>1, <3>2, WindowVerdict DEF Before
    <2>4. CASE Request(changes, None, changes)
        <3>1. commit' = [st |-> "sent", body |-> changes, gen |-> seen, drop |-> None]
            BY <2>4 DEF Request
        <3>2. changes' = changes
            <4>1. changes \in Changes /\ (commit = NoCommit \/ commit.drop = None)
                BY <2>1 DEF Before, TypeOK, VerdictInv, CommitKnows
            <4> QED
                BY <2>4, <4>1, WithoutNone DEF Request, Interrupted
        <3>3. commit' # NoCommit
            BY <2>4 DEF Request, NoCommit
        <3>4. CommitKnows' /\ StatusKnows'
            BY <2>1, <3>1, <3>2, <3>3 DEF CommitKnows, StatusKnows, Quiet
        <3> QED
            BY <2>1, <3>4, WindowVerdict DEF Before
    <2> QED
        BY <1>2, <2>3, <2>4
<1> QED
    BY <1>1, <1>2 DEF Commit

LEMMA ClearVerdict ==
    ASSUME Before, Clear
    PROVE  VerdictInv'
<1>1. /\ changes' = Empty /\ past = {}
      /\ UNCHANGED <<hist, seen, mod, commit, settling, queued>>
    BY DEF Clear, server, Before
<1>2. Spec0' = Spec0
    BY <1>1 DEF Spec0
<1>3. Valid(changes)'
    BY <1>1, <1>2, SpecType, MergeEmpty DEF Valid, Before, VerdictInv
<1>4. \A k \in Keys : changes'[k] = None
    BY <1>1 DEF Empty
<1>5. CommitKnows' /\ StatusKnows'
    BY <1>1, <1>2, <1>3, <1>4 DEF Before, VerdictInv, CommitKnows, StatusKnows
<1> QED
    BY <1>1, <1>5, WindowVerdict DEF Before, VerdictInv

\* A commit that the server takes is what it has then.
LEMMA ServeVerdict ==
    ASSUME Before, Serve
    PROVE  VerdictInv'
<1>1. /\ commit \in Commits /\ commit.body \in Changes /\ Apply(commit.body)
      /\ UNCHANGED <<seen, changes, mod, settling, queued>> /\ past = {}
      /\ mod = Empty /\ settling = {} /\ seen # 0
    BY DEF Serve, Before, TypeOK, Commits, Window, Alone
<1>2. /\ Spec0' \notin Invalid
      /\ Merge(Spec0, commit.body) \notin Invalid => Spec0' = Merge(Spec0, commit.body)
    BY <1>1, ApplySpec DEF Before, VerdictInv
<1>3. /\ commit' \in Commits /\ commit' # NoCommit
      /\ commit'.body = commit.body /\ commit'.drop = commit.drop
      /\ commit'.st = "ok" => Merge(Spec0, commit.body) \notin Invalid
    <2>1. \/ commit' = [commit EXCEPT !.st = "bad"]
             /\ Merge(Spec0, commit.body) \in Invalid
          \/ commit' = [commit EXCEPT !.st = "ok", !.gen = Len(hist')]
             /\ Merge(Spec0, commit.body) \notin Invalid
        BY DEF Serve
    <2>2. Len(hist') \in Generations
        BY <1>1, ApplyType DEF Before, TypeOK, Generations
    <2> QED
        BY <1>1, <2>1, <2>2 DEF Commits, NoCommit
<1>4. commit'.st = "ok" =>
        \A k \in Keys : commit.body[k] \in {None, Spec0'[k]}
    BY <1>2, <1>3 DEF Merge
<1>5. /\ commit.drop = None
      /\ ~queued => \A k \in Keys : changes[k] \in {None, commit.body[k]}
    <2>1. commit # NoCommit
        BY <1>1 DEF Commits, NoCommit
    <2> QED
        BY <1>1, <2>1 DEF CommitKnows, Before, VerdictInv
<1>6. CommitKnows'
    <2>1. commit'.drop = None
        BY <1>3, <1>5
    <2>2. commit'.st = "ok" => \A k \in Keys : commit'.body[k] \in {None, Spec0'[k]}
        BY <1>3, <1>4
    <2>3. ~queued' => \A k \in Keys : changes'[k] \in {None, commit'.body[k]}
        BY <1>1, <1>3, <1>5
    <2> QED
        BY <2>1, <2>2, <2>3 DEF CommitKnows
<1>7. StatusKnows'
    BY <1>1, <1>3 DEF StatusKnows, Quiet
<1> QED
    BY <1>1, <1>2, <1>6, <1>7 DEF VerdictInv

LEMMA LostVerdict ==
    ASSUME Before, Lost
    PROVE  VerdictInv'
<1>1. /\ commit \in Commits /\ commit' = [commit EXCEPT !.st = "bad"] /\ past = {}
      /\ UNCHANGED <<hist, seen, changes, mod, settling, queued>>
      /\ mod = Empty /\ settling = {}
    BY DEF Lost, Before, TypeOK, Commits, Window, Alone
<1>2. /\ commit' # NoCommit /\ commit'.st = "bad"
      /\ commit'.body = commit.body /\ commit'.drop = commit.drop
    BY <1>1 DEF Commits, NoCommit
<1>3. CommitKnows' /\ StatusKnows'
    BY <1>1, <1>2 DEF CommitKnows, StatusKnows, Quiet, Before, VerdictInv, Lost
<1> QED
    BY <1>1, <1>3, WindowVerdict DEF Before

\* A success is waited for; a failure lets the edits made meanwhile be validated.
LEMMA AnsweredVerdict ==
    ASSUME Before, Answered
    PROVE  VerdictInv'
<1>1. /\ UNCHANGED <<hist, seen>> /\ commit # NoCommit /\ commit' = NoCommit
      /\ mod = Empty /\ settling = {} /\ seen # 0
    BY DEF Answered, server, Before, Alone
<1>2. CASE commit.st = "ok"
    <2>1. UNCHANGED <<changes, mod, queued>> /\ settling' = {commit.gen} /\ past = {}
        BY <1>1, <1>2 DEF Answered, Before
    <2>2. Spec0' = Spec0
        BY <1>1 DEF Spec0
    <2>3. ~queued => \A k \in Keys : changes[k] \in {None, Spec0[k]}
        BY <1>1, <1>2, <2>1 DEF Before, VerdictInv, CommitKnows
    <2>4. CommitKnows' /\ StatusKnows'
        BY <1>1, <2>1, <2>2, <2>3 DEF CommitKnows, StatusKnows, Quiet
    <2> QED
        BY <1>1, <2>4, WindowVerdict DEF Before
<1>3. CASE commit.st # "ok"
    <2>1. Resolve(Without(changes, commit.drop), TRUE) /\ settling' = {}
        BY <1>1, <1>3 DEF Answered
    <2> QED
        BY <1>1, <2>1, ResolveVerdict
<1> QED
    BY <1>2, <1>3

\* What a commit has brought to the server changes nothing any more.
LEMMA SettledVerdict ==
    ASSUME Before, NEW g, Settled(g)
    PROVE  VerdictInv'
<1>1. /\ UNCHANGED <<hist, seen>> /\ commit' = NoCommit /\ settling' = {}
      /\ mod = Empty /\ settling # {} /\ Resolve(changes, error)
    BY DEF Settled, server, Before, Alone
<1>2. ASSUME past = {} /\ ~queued PROVE Valid(changes)
    <2>1. \A k \in Keys : changes[k] \in {None, Spec0[k]}
        BY <1>1, <1>2 DEF Before, VerdictInv, StatusKnows
    <2>2. Merge(Spec0, changes) = Spec0
        BY <2>1, SpecType, MergeShown DEF Before
    <2> QED
        BY <2>2 DEF Valid, Before, VerdictInv
<1> QED
    BY <1>1, <1>2, ResolveVerdict

LEMMA ValidatedVerdict ==
    ASSUME Before, Validated \/ ValidationFails
    PROVE  VerdictInv'
<1>1. /\ mod # Empty /\ mod' = Empty /\ past = {}
      /\ UNCHANGED <<hist, seen, changes, commit, settling>>
      /\ error' \/ Valid(mod)
    BY DEF Validated, ValidationFails, server, Before, Valid
<1>2. commit' = NoCommit /\ settling' = {}
    BY <1>1 DEF Before, Alone
<1>3. Spec0' = Spec0
    BY <1>1 DEF Spec0
<1>4. ~error' => Valid(changes)'
    BY <1>1, <1>3 DEF Before, VerdictInv, StatusKnows, Valid
<1>5. CommitKnows' /\ StatusKnows'
    BY <1>1, <1>2, <1>4 DEF CommitKnows, StatusKnows, CanApply
<1> QED
    BY <1>1, <1>5, WindowVerdict DEF Before

\* What the plugin drops is what the server has, unless it is behind.
LEMMA ObserveVerdict ==
    ASSUME Before, Observe
    PROVE  VerdictInv'
<1>1. PICK g \in (seen + 1)..Len(hist) :
        /\ seen' = g /\ changes' = Dropped(changes, hist[g])
        /\ past' = IF Behind(hist[g]) THEN past \cup {"behind"} ELSE past
    BY DEF Observe
<1>2. UNCHANGED <<hist, error, mod, commit, settling, queued>>
    BY DEF Observe
<1>3. past = {} /\ ~Behind(hist[g]) /\ seen' # 0
    BY <1>1 DEF Before, TypeOK
<1>4. Spec0' = Spec0
    BY <1>2 DEF Spec0
<1>5. /\ changes \in Changes /\ changes' \in Changes /\ Spec0 \in Specs
      /\ hist[g] \in Specs
    BY <1>1, DroppedType, SpecType DEF Before, TypeOK
<1>6. \A k \in Keys :
        changes'[k] = changes[k] \/ (changes'[k] = None /\ Spec0[k] = changes[k])
    BY <1>1, <1>3, <1>5 DEF Dropped, Behind, Changes
<1>7. Merge(Spec0, changes') = Merge(Spec0, changes)
    BY <1>5, <1>6, MergeSame
<1>8. Valid(changes)' <=> Valid(changes)
    BY <1>4, <1>7 DEF Valid
<1>9. changes = Empty => changes' = Empty
    <2>1. changes = Empty => \A k \in Keys : changes'[k] = None
        BY <1>6 DEF Empty
    <2> QED
        BY <1>5, <2>1 DEF Empty, Changes
<1>10. CommitKnows'
    BY <1>2, <1>3, <1>4, <1>6 DEF Before, VerdictInv, CommitKnows
<1>11. StatusKnows'
    <2>1. mod' # Empty /\ Valid(mod)' => Valid(changes)'
        BY <1>2, <1>3, <1>4, <1>8 DEF Before, VerdictInv, StatusKnows, Valid
    <2>2. settling' # {} /\ ~queued' =>
            \A k \in Keys : changes'[k] \in {None, Spec0'[k]}
        BY <1>2, <1>3, <1>4, <1>6 DEF Before, VerdictInv, StatusKnows
    <2>3. Quiet' /\ CanApply' => Valid(changes)'
        BY <1>2, <1>3, <1>8, <1>9 DEF Before, VerdictInv, StatusKnows, Quiet, CanApply
    <2> QED
        BY <2>1, <2>2, <2>3 DEF StatusKnows
<1> QED
    BY <1>2, <1>3, <1>10, <1>11, WindowVerdict DEF Before

\* The step of the invariant. Where something came between, only what the server
\* takes and the absence of an App matter.
LEMMA VerdictStep == LatchInv /\ VerdictInv /\ [Next]_vars => VerdictInv'
<1> SUFFICES ASSUME LatchInv, VerdictInv, [Next]_vars PROVE VerdictInv'
    OBVIOUS
<1>t. TypeOK
    BY DEF LatchInv
<1>1. CASE UNCHANGED vars
    <2>1. Spec0' = Spec0
        BY <1>1 DEF vars, Spec0
    <2> QED
        BY <1>1, <2>1
        DEF vars, VerdictInv, CommitKnows, StatusKnows, Quiet, CanApply, Valid
<1>2. ASSUME Next, past' # {} PROVE VerdictInv'
    <2>1. Spec0' \notin Invalid
        <3>1. CASE hist' = hist
            BY <3>1 DEF Spec0, VerdictInv
        <3>2. CASE Serve
            <4>1. commit.body \in Changes /\ Apply(commit.body)
                BY <1>t, <3>2 DEF Serve, TypeOK, Commits
            <4> QED
                BY <1>t, <4>1, ApplySpec DEF VerdictInv
        <3>3. ASSUME NEW k \in Keys, NEW v \in Values, Other(k, v)
              PROVE  Spec0' \notin Invalid
            <4>1. Only(k, v) \in Changes /\ Apply(Only(k, v))
                BY <3>3 DEF Other, Only, Empty, Changes
            <4> QED
                BY <1>t, <4>1, ApplySpec DEF VerdictInv
        <3>4. ASSUME NEW body \in ghosts, Ghost(body) PROVE Spec0' \notin Invalid
            <4>1. body \in Changes /\ Apply(body)
                BY <1>t, <3>4 DEF Ghost, TypeOK
            <4> QED
                BY <1>t, <4>1, ApplySpec DEF VerdictInv
        <3>5. ASSUME Answered \/ Validated \/ ValidationFails \/ Lost \/ Observe \/ Commit
                     \/ Clear \/ (\E g \in settling : Observed(g) \/ TimedOut(g))
              PROVE  hist' = hist
            BY <3>5
            DEF Commit, Request, NoApp, Skip, Clear, Answered, Observed, TimedOut, Settled,
                Validated, ValidationFails, Lost, Observe, server
        <3>6. ASSUME NEW k \in Keys, NEW v \in Values, Modify(k, v) \/ WriteNow(k, v)
              PROVE  hist' = hist
            BY <3>6 DEF Modify, WriteNow, Request, NoApp, server
        <3> QED
            BY <1>2, <3>1, <3>2, <3>3, <3>4, <3>5, <3>6 DEF Next, Task
    <2>2. seen' = 0 => mod' = Empty
        <3> SUFFICES ASSUME seen' = 0 PROVE mod' = Empty
            OBVIOUS
        <3>1. seen = seen' /\ ~Observe
            <4>1. ~Observe
                BY <1>t DEF Observe, TypeOK
            <4>2. ASSUME NEW k \in Keys, NEW v \in Values,
                         Modify(k, v) \/ WriteNow(k, v) \/ Other(k, v)
                  PROVE  seen' = seen
                BY <4>2 DEF Modify, WriteNow, Request, NoApp, Other, server
            <4>3. ASSUME Commit \/ Clear \/ Answered \/ Validated \/ ValidationFails
                         \/ (\E g \in settling : Observed(g) \/ TimedOut(g))
                  PROVE  seen' = seen
                BY <4>3
                DEF Commit, Request, NoApp, Skip, Clear, Answered, Observed, TimedOut,
                    Settled, Validated, ValidationFails, server
            <4>4. ASSUME Serve \/ Lost \/ (\E body \in ghosts : Ghost(body))
                  PROVE  seen' = seen
                BY <4>4 DEF Serve, Lost, Ghost, Window
            <4> QED
                BY <1>2, <4>1, <4>2, <4>3, <4>4 DEF Next, Task
        <3>2. mod = Empty /\ seen = 0
            BY <3>1 DEF VerdictInv
        <3>3. ASSUME NEW k \in Keys, NEW v \in Values,
                     Modify(k, v) \/ WriteNow(k, v) \/ Other(k, v)
              PROVE  mod' = Empty
            BY <3>2, <3>3 DEF Modify, WriteNow, Request, NoApp, Other, Resolve, Validate
        <3>4. ASSUME Commit \/ Clear \/ Answered \/ Validated \/ ValidationFails
                     \/ (\E g \in settling : Observed(g) \/ TimedOut(g))
              PROVE  mod' = Empty
            BY <3>2, <3>4
            DEF Commit, Request, NoApp, Skip, Clear, Answered, Observed, TimedOut,
                Settled, Validated, ValidationFails, Resolve, Validate
        <3>5. ASSUME Serve \/ Lost \/ (\E body \in ghosts : Ghost(body))
              PROVE  mod' = Empty
            BY <3>2, <3>5 DEF Serve, Lost, Ghost, Window
        <3> QED
            BY <1>2, <3>1, <3>3, <3>4, <3>5 DEF Next, Task
    <2> QED
        BY <1>2, <2>1, <2>2 DEF VerdictInv
<1>3. ASSUME Next, past' = {} PROVE VerdictInv'
    <2>1. "overlap" \notin past
        BY <1>3
        DEF Next, Task, Modify, WriteNow, Commit, Request, NoApp, Skip, Clear, Answered,
            Observed, TimedOut, Settled, Validated, ValidationFails, Lost, Observe,
            Serve, Ghost, Other, Window, Resolve, Validate, Marks
    <2>2. Before
        BY <1>t, <1>3, <2>1, LatchAlone DEF Before
    <2>3. ASSUME NEW k \in Keys, NEW v \in Values, WriteNow(k, v) PROVE VerdictInv'
        BY <1>3, <2>2, <2>3, NoAppVerdict DEF WriteNow
    <2>4. ASSUME NEW g \in settling, Observed(g) \/ TimedOut(g) PROVE VerdictInv'
        BY <2>2, <2>4, SettledVerdict DEF Observed, TimedOut
    <2>5. ASSUME NEW k \in Keys, NEW v \in Values, Modify(k, v) PROVE VerdictInv'
        BY <2>2, <2>5, ModifyVerdict
    <2> QED
        BY <1>3, <2>2, <2>3, <2>4, <2>5, CommitVerdict, ClearVerdict, ServeVerdict,
           LostVerdict, AnsweredVerdict, ValidatedVerdict, ObserveVerdict
        DEF Next, Task, Other, Ghost
<1> QED
    BY <1>1, <1>2, <1>3

LEMMA InitVerdict == Init => VerdictInv
<1> SUFFICES ASSUME Init PROVE VerdictInv
    OBVIOUS
<1>1. PICK s \in Specs \ Invalid : hist = <<s>>
    BY DEF Init
<1>2. Spec0 = s
    BY <1>1 DEF Spec0
<1>3. commit = NoCommit /\ settling = {} /\ mod = Empty /\ changes = Empty
    BY DEF Init
<1>4. CommitKnows /\ StatusKnows
    BY <1>3 DEF CommitKnows, StatusKnows, CanApply
<1> QED
    BY <1>1, <1>2, <1>3, <1>4 DEF VerdictInv

\* Whatever the values and the specs that the webhook refuses: when nothing is in
\* flight and Apply is enabled, the webhook accepts what it would send, unless
\* commits have overlapped or, since the last validation, a writeNow() has been
\* sent, somebody else has changed the App or the plugin has dropped a change for
\* a generation that is not the latest.
THEOREM ApplyMeansValid == Spec => []CanApplyMeansValid
<1>1. LatchInv /\ VerdictInv => CanApplyMeansValid
    BY DEF VerdictInv, StatusKnows, CanApplyMeansValid, Valid
<1> QED
    BY InitLatch, LatchStep, InitVerdict, VerdictStep, <1>1, PTL DEF Spec
=============================================================================
