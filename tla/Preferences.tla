---------------------------- MODULE Preferences ----------------------------
(***************************************************************************)
(* The preferences store of a GUI window                                   *)
(* (rancher-desktop/store/preferences.ts): edits are kept as changes on    *)
(* top of the App the window has observed, every edit is validated by a    *)
(* dry run of the patch, and a commit sends the patch.  Validations and    *)
(* commits abort older requests of their kind, a commit aborts             *)
(* validations, and a modify() waits for the commit in progress.           *)
(*                                                                         *)
(* JavaScript runs one task at a time: an action is a call of a store      *)
(* action up to the request it sends, or an answer with all the promises   *)
(* it settles.  Generation g of the App is the index of hist; a patch that *)
(* changes nothing makes no generation.                                    *)
(***************************************************************************)
EXTENDS Naturals, Sequences

CONSTANTS Keys,       \* the preferences
          Values,
          None,       \* no value: a key that a set of changes leaves alone
          Invalid,    \* the specs the webhook refuses
          MaxOps,     \* bound: calls by components and edits by others
          MaxFaults   \* bound: requests that fail or outlive their abort

Specs == [Keys -> Values]

ASSUME NoneAssumption == None \notin Values \cup Keys
ASSUME InvalidAssumption == Invalid \subseteq Specs
ASSUME BoundAssumption == MaxOps \in Nat /\ MaxFaults \in Nat

VARIABLES
    hist,      \* the server: the spec of the App at every generation
    ghosts,    \* the server: patches that were aborted and may still be applied
    seen,      \* rdd/app: the generation the window shows, 0 while there is none
    changes,   \* state.changes
    error,     \* is state.errorStatus set
    mod,       \* the changes of the validation in flight
    commit,    \* the commit request in flight
    settling,  \* generations that successful commits wait for
    pending,   \* is the latch pendingCommit unresolved
    queued,    \* does some modify() wait for pendingCommit
    past,      \* history: what the verdict on the changes does not survive
    ops, faults

server == <<hist, ghosts, seen>>
vars == <<hist, ghosts, seen, changes, error, mod, commit, settling, pending,
          queued, past, ops, faults>>

----------------------------------------------------------------------------
Changes == [Keys -> Values \cup {None}]
Empty == [k \in Keys |-> None]
Only(k, v) == [Empty EXCEPT ![k] = v]

\* generatePatch() applied to a spec.
Merge(spec, ch) == [k \in Keys |-> IF ch[k] = None THEN spec[k] ELSE ch[k]]

Spec0 == hist[Len(hist)]
Generations == Nat \ {0}

\* A request: "sent" until the server answers "ok" or "bad".  drop is the key
\* writeNow() takes back when it fails, None for commit().
NoCommit == [st |-> "none"]
Commits == [st : {"sent", "ok", "bad"}, body : Changes, gen : Generations,
            drop : Keys \cup {None}]

Init ==
    /\ \E s \in Specs \ Invalid : hist = <<s>>
    /\ ghosts = {}
    /\ seen = 0
    /\ changes = Empty
    /\ error = FALSE
    /\ mod = Empty
    /\ commit = NoCommit
    /\ settling = {}
    /\ pending = FALSE
    /\ queued = FALSE
    /\ past = {}
    /\ ops = 0 /\ faults = 0

----------------------------------------------------------------------------
(***************************************************************************)
(* What the actions of the store are made of.                              *)
(***************************************************************************)

\* A recordChange() that does not look at the App.
RecordedPlain(k, v) == [changes EXCEPT ![k] = v]
\* recordChange(): a value the App has already is no change.
Recorded(k, v) ==
    [changes EXCEPT ![k] = IF seen # 0 /\ hist[seen][k] = v THEN None ELSE v]

Without(ch, k) == [j \in Keys |-> IF j = k THEN None ELSE ch[j]]

\* patchApp(..., 'All') with the changes ch, after the error status was e: ask
\* for a validation, which aborts the one in flight. Its verdict is a new one.
Validate(ch, e) ==
    IF seen = 0
    THEN error' = TRUE /\ UNCHANGED <<mod, past>>
    ELSE /\ mod' = ch
         /\ error' = IF ch = Empty THEN FALSE ELSE e
         /\ past' = past \cap {"overlap"}

\* A resolve() that lets modify() return without a validation.
ResolveUnvalidated(ch, e) ==
    /\ pending' = FALSE /\ queued' = FALSE
    /\ changes' = ch
    /\ error' = e /\ UNCHANGED <<mod, past>>
\* pendingCommit.resolve(): every modify() that waits validates what the
\* changes are now, and each request aborts the one before.
Resolve(ch, e) ==
    /\ pending' = FALSE
    /\ queued' = FALSE
    /\ changes' = ch
    /\ IF queued THEN Validate(ch, e) ELSE error' = e /\ UNCHANGED <<mod, past>>

\* commitSerializer aborts the request in flight: its call is interrupted and
\* leaves the latch alone; a writeNow() takes its key back.
Interrupted(ch) ==
    IF commit = NoCommit THEN ch ELSE Without(ch, commit.drop)

\* The server may have the aborted request all the same.
Abort ==
    \/ UNCHANGED <<ghosts, faults>>
    \/ /\ commit # NoCommit /\ commit.st = "sent"
       /\ faults < MaxFaults /\ faults' = faults + 1
       /\ ghosts' = ghosts \cup {commit.body}

----------------------------------------------------------------------------
(***************************************************************************)
(* Calls of the components.                                                *)
(***************************************************************************)
Op == ops < MaxOps /\ ops' = ops + 1

\* A modify() that does not wait.
ModifyAtOnce(k, v) ==
    /\ Op
    /\ changes' = Recorded(k, v)
    /\ Validate(changes', error)
    /\ UNCHANGED <<server, commit, settling, pending, queued, faults>>
Modify(k, v) ==
    /\ Op
    /\ changes' = Recorded(k, v)
    /\ IF pending
       THEN queued' = TRUE /\ UNCHANGED <<mod, error, past>>
       ELSE Validate(changes', error) /\ UNCHANGED queued
    /\ UNCHANGED <<server, commit, settling, pending, faults>>

\* commitChanges() with the changes body, up to its request.
Request(body, drop, ch) ==
    /\ seen # 0 /\ body # Empty
    /\ Abort
    /\ commit' = [st |-> "sent", body |-> body, gen |-> seen, drop |-> drop]
    /\ changes' = Interrupted(ch)
    /\ mod' = Empty
    /\ pending' = TRUE
    /\ UNCHANGED <<hist, seen, error, settling, queued>>

\* The same when there is no App: it fails at once.
NoApp(drop, ch) ==
    /\ seen = 0
    /\ Resolve(Without(ch, drop), TRUE)
    /\ UNCHANGED <<server, commit, settling, faults>>

\* The same when there is nothing to commit: a request in flight is aborted.
Skip ==
    /\ seen # 0 /\ changes = Empty
    /\ Abort
    /\ commit' = NoCommit
    /\ mod' = Empty /\ error' = FALSE
    /\ pending' = FALSE /\ queued' = FALSE
    /\ UNCHANGED <<hist, seen, changes, settling>>

\* An earlier call that waits for the App will resolve the latch of a new one.
Marks == IF settling # {} THEN past \cup {"overlap"} ELSE past

WriteNow(k, v) ==
    /\ Op
    /\ \/ /\ Request(Only(k, v), k, Recorded(k, v))
          /\ past' = Marks \cup {"writeNow"}
       \/ NoApp(k, Recorded(k, v))

Commit ==
    /\ Op
    /\ \/ (Request(changes, None, changes) \/ Skip) /\ past' = Marks
       \/ NoApp(None, changes)

Clear ==
    /\ Op
    /\ changes' = Empty /\ error' = FALSE
    /\ UNCHANGED <<server, mod, commit, settling, pending, queued, past, faults>>

----------------------------------------------------------------------------
(***************************************************************************)
(* The server, and what the window learns.                                 *)
(***************************************************************************)
Window == UNCHANGED <<seen, changes, error, mod, settling, pending, queued, ops>>
Fault == faults < MaxFaults /\ faults' = faults + 1

\* The server handles a patch: validate, then make a generation of it.
Apply(body) ==
    LET new == Merge(Spec0, body)
    IN  hist' = IF new \in Invalid \/ new = Spec0 THEN hist ELSE Append(hist, new)

Serve ==
    /\ commit # NoCommit /\ commit.st = "sent"
    /\ Apply(commit.body)
    /\ commit' = IF Merge(Spec0, commit.body) \in Invalid
                 THEN [commit EXCEPT !.st = "bad"]
                 ELSE [commit EXCEPT !.st = "ok", !.gen = Len(hist')]
    /\ Window /\ UNCHANGED <<ghosts, past, faults>>

\* The request does not get there, or its answer does not get back.
Lost ==
    /\ commit # NoCommit /\ commit.st # "bad"
    /\ Fault
    /\ commit' = [commit EXCEPT !.st = "bad"]
    /\ Window /\ UNCHANGED <<hist, ghosts, past>>

Ghost(body) ==
    /\ body \in ghosts
    /\ ghosts' = ghosts \ {body}
    /\ Apply(body)
    /\ past' = past \cup {"other"}
    /\ Window /\ UNCHANGED <<commit, faults>>

\* `rdd set`, or another window.
Other(k, v) ==
    /\ Op
    /\ Apply(Only(k, v))
    /\ past' = past \cup {"other"}
    /\ UNCHANGED <<ghosts, seen, changes, error, mod, commit, settling, pending, queued, faults>>

\* A success that clears the changes without waiting for the App.
AnsweredClears ==
    /\ commit # NoCommit /\ commit.st # "sent"
    /\ commit' = NoCommit
    /\ IF commit.st = "ok"
       THEN /\ error' = FALSE /\ changes' = Empty
            /\ settling' = settling \cup {commit.gen}
            /\ UNCHANGED <<mod, pending, queued, past>>
       ELSE Resolve(Without(changes, commit.drop), TRUE) /\ UNCHANGED settling
    /\ UNCHANGED <<server, ops, faults>>
\* A failure that leaves the latch to the next commit, as an interruption does.
AnsweredSkips ==
    /\ commit # NoCommit /\ commit.st # "sent"
    /\ commit' = NoCommit
    /\ error' = (commit.st = "bad")
    /\ settling' = IF commit.st = "ok" THEN settling \cup {commit.gen} ELSE settling
    /\ changes' = IF commit.st = "ok" THEN changes ELSE Without(changes, commit.drop)
    /\ UNCHANGED <<server, mod, pending, queued, past, ops, faults>>
\* The answer of a commit: wait for its generation to be observed, or take the
\* key of a failed writeNow() back.
Answered ==
    /\ commit # NoCommit /\ commit.st # "sent"
    /\ commit' = NoCommit
    /\ IF commit.st = "ok"
       THEN /\ error' = FALSE
            /\ settling' = settling \cup {commit.gen}
            /\ UNCHANGED <<changes, mod, pending, queued, past>>
       ELSE /\ Resolve(Without(changes, commit.drop), TRUE)
            /\ UNCHANGED settling
    /\ UNCHANGED <<server, ops, faults>>

\* commitChanges() returns true once the generation is there, or after 1 s.
Settled(g) ==
    /\ g \in settling
    /\ settling' = settling \ {g}
    /\ Resolve(changes, error)
    /\ UNCHANGED <<server, commit, ops, faults>>
Observed(g) == seen >= g /\ Settled(g)
\* No timeout: wait for the App, however long it takes.
TimedOutNever(g) == FALSE /\ Settled(g)
TimedOut(g) == Settled(g)

Validated ==
    /\ mod # Empty
    /\ mod' = Empty
    /\ error' = (Merge(Spec0, mod) \in Invalid)
    /\ UNCHANGED <<server, changes, commit, settling, pending, queued, past, ops, faults>>

ValidationFails ==
    /\ mod # Empty
    /\ Fault
    /\ mod' = Empty
    /\ error' = TRUE
    /\ UNCHANGED <<server, changes, commit, settling, pending, queued, past, ops>>

\* The plugin: changes that the App has by now are dropped.
Dropped(ch, spec) == [k \in Keys |-> IF ch[k] = spec[k] THEN None ELSE ch[k]]

\* The generation has a change that the server has overwritten by now.
Behind(spec) ==
    \E k \in Keys : changes[k] # None /\ changes[k] = spec[k] /\ spec[k] # Spec0[k]

Observe ==
    /\ \E g \in (seen + 1)..Len(hist) :
        /\ seen' = g
        /\ changes' = Dropped(changes, hist[g])
        /\ past' = IF Behind(hist[g]) THEN past \cup {"behind"} ELSE past
    /\ UNCHANGED <<hist, ghosts, error, mod, commit, settling, pending, queued, ops, faults>>

\* What happens on its own.
Task ==
    \/ Serve \/ Answered \/ Validated
    \/ \E g \in settling : Observed(g) \/ TimedOut(g)

Next ==
    \/ \E k \in Keys, v \in Values : Modify(k, v) \/ WriteNow(k, v) \/ Other(k, v)
    \/ Commit \/ Clear
    \/ Task
    \/ Lost \/ ValidationFails \/ Observe
    \/ \E body \in ghosts : Ghost(body)

Spec == Init /\ [][Next]_vars

\* Requests are answered and the timer of 1 s fires.  That the window observes
\* the App is not assumed.
FairSpec == Spec /\ WF_vars(Task)

----------------------------------------------------------------------------
(***************************************************************************)
(* Properties.                                                             *)
(***************************************************************************)

\* Type invariant.
TypeOK ==
    /\ hist \in Seq(Specs) /\ hist # <<>>
    /\ ghosts \subseteq Changes
    /\ seen \in 0..Len(hist)
    /\ changes \in Changes /\ mod \in Changes
    /\ error \in BOOLEAN /\ pending \in BOOLEAN /\ queued \in BOOLEAN
    /\ commit \in {NoCommit} \cup Commits
    /\ settling \subseteq Generations
    /\ past \subseteq {"writeNow", "overlap", "other", "behind"}
    /\ ops \in 0..MaxOps /\ faults \in 0..MaxFaults

\* A call that is going to resolve pendingCommit exists whenever it is
\* unresolved, though the calls that were interrupted leave it to a later one:
\* else every modify() of the window would wait for good.
PendingHasOwner == pending \/ queued => commit # NoCommit \/ settling # {}

\* No change repeats what the App shows, so that Apply is offered only when
\* there is something to apply, whichever of recordChange(), an interrupted
\* writeNow() and the plugin came last.
NothingStale ==
    \A k \in Keys : seen # 0 /\ changes[k] # None => changes[k] # hist[seen][k]

\* A validation runs beside a commit only if that commit was started while an
\* earlier one was still waiting for the App: pendingCommit keeps them apart.
ModifyWaits == "overlap" \notin past => mod = Empty \/ commit = NoCommit

\* Nothing is in flight.
Quiet == mod = Empty /\ commit = NoCommit /\ settling = {}
CanApply == changes # Empty /\ ~error

\* When nothing is in flight any more and Apply is enabled, the webhook accepts
\* what it would send: edits made during a commit are validated after it. Not so
\* after overlapping commits, nor if since the last validation a writeNow() has
\* cleared the error, somebody else has changed the App, or the plugin has
\* dropped a change for a generation that is not the latest.
CanApplyMeansValid ==
    past = {} /\ Quiet /\ CanApply => Merge(Spec0, changes) \notin Invalid

\* A change of the user goes away by another call, because the App shows it, or
\* because the writeNow() of its key did not get through; in particular not when
\* the commit of an older value succeeds.
EditsSurvive ==
    [][\A k \in Keys :
        changes[k] # None /\ changes'[k] = None
          => \/ ops' # ops
             \/ seen' # 0 /\ hist[seen'][k] = changes[k]
             \/ commit # NoCommit /\ commit.drop = k]_vars

\* Every modify() that waits for a commit goes on to its validation, even if the
\* window never observes the App and however often commits replace each other.
ModifyReturns == queued ~> ~queued
=============================================================================
