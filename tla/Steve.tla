------------------------------- MODULE Steve -------------------------------
(***************************************************************************)
(* The dashboard's API server as the main process of the GUI runs it       *)
(* (rancher-desktop/backend/steve.ts), on and off as the App's             *)
(* KubernetesReady condition goes (background.ts, store/rdd.ts).           *)
(*                                                                         *)
(* One action is one task of the main process: a message of a window with  *)
(* the call it makes, a timer, an event of the child process, an answer of *)
(* its port; or a step of the child process itself.  Node emits "spawn" or *)
(* "error" before any other task runs, so start() reaches its wait for the *)
(* port in the task that called it.                                        *)
(*                                                                         *)
(* A process listens on a port of its own, which its name stands for.      *)
(***************************************************************************)
EXTENDS Naturals, Sequences

CONSTANTS Procs,        \* bound: the Steve processes there may ever be
          None,         \* no process, and the port 0
          Late,         \* which tasks may be late, of the two below
          MaxAttempts,  \* bound: maxAttempts of waitForReady(), 60 in the code
          MaxMessages,  \* bound: changes of the App
          MaxFaults     \* bound: crashes, slow processes and failed spawns

\* "answer": the answer of a port after the exit event of its process;
\* "message": a message of a window after the before-quit event.
ASSUME LateAssumption == Late \subseteq {"answer", "message"}
ASSUME NoneAssumption == None \notin Procs
ASSUME BoundAssumption ==
    MaxAttempts \in Nat \ {0} /\ MaxMessages \in Nat /\ MaxFaults \in Nat

VARIABLES
    app,        \* the main process: "running", "quitting" or "quit"
    ready,      \* the App's KubernetesReady condition in the window
    messages,   \* backend/app-status-changed, sent and not handled
    life,       \* of each process
    out,        \* what each process wrote to its stdout before closing it
    told,       \* the processes that were sent SIGINT or SIGTERM
    slow,       \* the processes that keep the timers waiting
    process,    \* Steve.process
    port,       \* Steve.#port
    pc,         \* where the pendingStart stands, "none" without one
    attempt,    \* of waitForReady()
    answer,     \* to the fetch of isPortReady()
    sent, faults

child == <<life, out, told, slow>>
pending == <<pc, attempt, answer>>
vars == <<app, ready, messages, life, out, told, slow, process, port, pc,
          attempt, answer, sent, faults>>

----------------------------------------------------------------------------
(***************************************************************************)
(* A process is "dead" from its end until the exit event is handled, which *)
(* sets its exitCode or signalCode: "exited".                              *)
(***************************************************************************)
Living == {"starting", "listening", "serving"}
Lives == Living \cup {"unused", "dead", "exited"}
Live(p) == life[p] \in Living
isRunning == process # None /\ life[process] # "exited"

Init ==
    /\ app = "running"
    /\ ready \in BOOLEAN
    /\ messages = <<ready>>
    /\ life = [p \in Procs |-> "unused"]
    /\ out = [p \in Procs |-> "open"]
    /\ told = {} /\ slow = {}
    /\ process = None /\ port = None
    /\ pc = "none" /\ attempt = 1 /\ answer = "none"
    /\ sent = 0 /\ faults = 0

----------------------------------------------------------------------------
(***************************************************************************)
(* Steve.                                                                  *)
(***************************************************************************)
Idle == pc' = "none" /\ attempt' = 1 /\ answer' = "none"
Kill(p) == told' = told \cup {p}

\* A stop() that only hides the port.
StopHides ==
    /\ port' = None
    /\ UNCHANGED <<told, life, out, slow, process, pc, attempt, answer, faults>>
\* stop()
Stop ==
    /\ port' = None
    /\ told' = IF isRunning THEN told \cup {process} ELSE told
    /\ UNCHANGED <<life, out, slow, process, pc, attempt, answer, faults>>

\* A restart that leaves the process without a port behind.
SpawnBeside(p) ==
    /\ life[p] = "unused"
    /\ life' = [life EXCEPT ![p] = "starting"]
    /\ process' = p
    /\ pc' = "port"
    /\ UNCHANGED <<out, told, slow, port, attempt, answer, faults>>
\* startInternal() as far as `await portLatch`: a process that runs without a
\* port is stopped first.
Spawn(p) ==
    /\ life[p] = "unused"
    /\ life' = [life EXCEPT ![p] = "starting"]
    /\ told' = IF isRunning THEN told \cup {process} ELSE told
    /\ port' = IF isRunning THEN None ELSE port
    /\ process' = p
    /\ pc' = "port"
    /\ UNCHANGED <<out, slow, attempt, answer, faults>>

\* The child process emits "error": it has no pid.
SpawnFails ==
    /\ faults < MaxFaults /\ faults' = faults + 1
    /\ told' = IF isRunning THEN told \cup {process} ELSE told
    /\ port' = IF isRunning THEN None ELSE port
    /\ process' = None
    /\ UNCHANGED <<life, out, slow, pc, attempt, answer>>

\* start(): join the pending start, find Steve running, or run startInternal().
Start ==
    \/ /\ pc # "none" \/ (isRunning /\ port # None)
       /\ UNCHANGED <<child, process, port, pending, faults>>
    \/ /\ pc = "none" /\ ~(isRunning /\ port # None)
       /\ (\E p \in Procs : Spawn(p)) \/ SpawnFails

\* stdout ends: a number resolves the latch, after which waitForReady() probes
\* the port for the first time; anything else rejects it.
StdoutEnds ==
    /\ pc = "port"
    /\ \/ /\ out[process] = "port"
          /\ pc' = "probe"
          /\ UNCHANGED <<told, attempt, answer>>
       \/ /\ out[process] = "bad"
          /\ Idle /\ Kill(process)
    /\ UNCHANGED <<life, out, slow, process, port, faults>>

\* No timer for the port.
PortTimeoutNever == FALSE /\ UNCHANGED <<child, process, port, pending, faults>>
\* portTimeout, 30 s: the latch is rejected and its catch() kills the process.
PortTimeout ==
    /\ pc = "port" /\ process \in slow /\ out[process] = "open"
    /\ Idle /\ Kill(process)
    /\ UNCHANGED <<life, out, slow, process, port, faults>>

\* isPortReady() returns: publish the port, or sleep until the next attempt.
Answered ==
    /\ pc = "probe" /\ answer # "none"
    /\ IF answer = "ok" THEN port' = process /\ Idle
                        ELSE pc' = "sleep" /\ answer' = "none" /\ UNCHANGED <<port, attempt>>
    /\ UNCHANGED <<child, process, faults>>

\* The sleep ends: give up after the last attempt or once the process exited.
Wakes ==
    /\ pc = "sleep"
    /\ IF attempt < MaxAttempts /\ isRunning
       THEN pc' = "probe" /\ attempt' = attempt + 1 /\ UNCHANGED answer
       ELSE Idle
    /\ UNCHANGED <<child, process, port, faults>>

\* An exit event that forgets the published port.
ExitedKeeps(p) ==
    /\ life[p] = "dead"
    /\ life' = [life EXCEPT ![p] = "exited"]
    /\ IF p = process /\ pc = "port" THEN Idle ELSE UNCHANGED pending
    /\ UNCHANGED <<out, told, slow, process, port, faults>>
\* The exit event; that of a stale process is ignored.  A rejected latch is
\* only noticed by a start() that still waits for it.
Exited(p) ==
    /\ life[p] = "dead"
    /\ answer = "ok" /\ p = process => "answer" \in Late
    /\ life' = [life EXCEPT ![p] = "exited"]
    /\ port' = IF p = process THEN None ELSE port
    /\ IF p = process /\ pc = "port" THEN Idle ELSE UNCHANGED pending
    /\ UNCHANGED <<out, told, slow, process, faults>>

----------------------------------------------------------------------------
(***************************************************************************)
(* background.ts and the window.                                           *)
(***************************************************************************)

\* The watch of rdd/app tells the main process of every change of the App.
AppChanges ==
    /\ app # "quit" /\ sent < MaxMessages
    /\ sent' = sent + 1
    /\ ready' \in BOOLEAN
    /\ messages' = Append(messages, ready')
    /\ UNCHANGED <<app, child, process, port, pending, faults>>

\* backend/app-status-changed
Message ==
    /\ messages # <<>>
    /\ app = "running" \/ "message" \in Late
    /\ messages' = Tail(messages)
    /\ IF Head(messages) THEN Start ELSE Stop
    /\ UNCHANGED <<app, ready, sent>>

\* before-quit, whose listener calls stop(); the second quit ends the program.
BeforeQuit ==
    /\ app = "running" /\ app' = "quitting"
    /\ Stop
    /\ UNCHANGED <<ready, messages, sent>>
Quit ==
    /\ app = "quitting" /\ app' = "quit"
    /\ UNCHANGED <<ready, messages, child, process, port, pending, sent, faults>>

Event ==
    /\ app # "quit"
    /\ StdoutEnds \/ PortTimeout \/ Answered \/ Wakes \/ \E p \in Procs : Exited(p)
    /\ UNCHANGED <<app, ready, messages, sent>>

----------------------------------------------------------------------------
(***************************************************************************)
(* The processes (external): Steve writes its port to stdout and closes    *)
(* it, serves /v1/namespaces a while later, and ends when told to.  One    *)
(* that is not slow serves before the last attempt.                        *)
(***************************************************************************)
jsVars == <<app, ready, messages, process, port, pc, attempt, sent>>

Listens(p) ==
    /\ life[p] = "starting" /\ life' = [life EXCEPT ![p] = "listening"]
    /\ out' = [out EXCEPT ![p] = "port"]
    /\ UNCHANGED <<jsVars, told, slow, answer, faults>>
Serves(p) ==
    /\ life[p] = "listening" /\ life' = [life EXCEPT ![p] = "serving"]
    /\ UNCHANGED <<jsVars, out, told, slow, answer, faults>>
Ends(p) ==
    /\ Live(p) /\ p \in told
    /\ life' = [life EXCEPT ![p] = "dead"]
    /\ out' = [out EXCEPT ![p] = IF @ = "open" THEN "bad" ELSE @]
    /\ UNCHANGED <<jsVars, told, slow, answer, faults>>

\* Crashes, or becomes slow.
Fault(p) ==
    /\ Live(p) /\ faults < MaxFaults /\ faults' = faults + 1
    /\ \/ /\ life' = [life EXCEPT ![p] = "dead"]
          /\ out' = [out EXCEPT ![p] = IF @ = "open" THEN "bad" ELSE @]
          /\ UNCHANGED slow
       \/ /\ p \notin slow /\ slow' = slow \cup {p}
          /\ UNCHANGED <<life, out>>
    /\ UNCHANGED <<jsVars, told, answer>>

\* The fetch of isPortReady() ends: with a success, or any other way.
Answers ==
    /\ pc = "probe" /\ answer = "none"
    /\ \/ life[process] = "serving" /\ answer' = "ok"
       \/ /\ \/ ~Live(process) \/ process \in slow
             \/ life[process] # "serving" /\ attempt < MaxAttempts
          /\ answer' = "no"
    /\ UNCHANGED <<jsVars, child, faults>>

Run(p) == (p \notin slow /\ (Listens(p) \/ Serves(p))) \/ Ends(p)
Child == Answers \/ \E p \in Procs : Listens(p) \/ Serves(p) \/ Ends(p) \/ Fault(p)

Next == AppChanges \/ Message \/ BeforeQuit \/ Quit \/ Event \/ Child
Spec == Init /\ [][Next]_vars

\* Node runs the tasks that are due and fires its timers, a fetch ends, a
\* process that is told to end does, and one that is not slow gets on.
Fairness ==
    /\ WF_vars(Message) /\ WF_vars(Event) /\ WF_vars(Quit) /\ WF_vars(Answers)
    /\ \A p \in Procs : WF_vars(Run(p))
FairSpec == Spec /\ Fairness

----------------------------------------------------------------------------
\* Type invariant, with what the states of a pending start imply.
TypeOK ==
    /\ app \in {"running", "quitting", "quit"}
    /\ ready \in BOOLEAN
    /\ messages \in Seq(BOOLEAN)
    /\ life \in [Procs -> Lives]
    /\ out \in [Procs -> {"open", "port", "bad"}]
    /\ told \subseteq Procs /\ slow \subseteq Procs
    /\ process \in Procs \cup {None} /\ port \in Procs \cup {None}
    /\ pc \in {"none", "port", "probe", "sleep"}
    /\ attempt \in 1..MaxAttempts
    /\ answer \in {"none", "ok", "no"}
    /\ sent \in 0..MaxMessages /\ faults \in 0..MaxFaults
    /\ pc # "none" => process # None /\ life[process] # "unused"
    /\ answer # "none" => pc = "probe"

\* However starts, stops, crashes and exit events interleave, no process is
\* lost: the only one alive that was not told to end is the one that stop()
\* would tell (Steve.process; "multiple instances of Steve", steve.ts).
OneSteve == \A p \in Procs : Live(p) /\ p \notin told => p = process

\* The port that the windows are shown and the dashboard is opened on is that
\* of the current process, whose exit nobody has seen, when the answer of a port
\* is never late.
PortIsOwn == port # None => port = process /\ life[process] # "exited"

\* start() always returns: every later start() joins the pending one, so a start
\* that hangs would be the last.
StartReturns == pc # "none" ~> (pc = "none" \/ app = "quit")

\* Once Kubernetes stays off, or the program ends, no Steve is left, started or
\* half started, and no port stays published.
EndsUnwanted ==
    /\ <>[](~ready) \/ <>(app = "quit") => <>[](\A p \in Procs : ~Live(p))
    /\ <>[](~ready) => <>(app = "quit" \/ [](port = None))

\* "Start and stop Steve as needed" (background.ts): without any fault, once
\* Kubernetes stays ready Steve runs and its port is published for good.
StartsWanted ==
    <>[]ready /\ [](app = "running") =>
        <>[](port # None /\ port = process /\ Live(process))
=============================================================================
