----------------------------- MODULE LaunchFlow -----------------------------
(***************************************************************************)
(* The dsh lifecycle inside the launcher process: launch_flow and its      *)
(* worker thread, the DSH_CHILD slot, the in-place restart, crash recovery *)
(* with its countdown threads, the buttons of the startup page, and the    *)
(* main thread from its event loop to process exit                         *)
(* (src/ui/{launch,crash,bindings,exit,supervisor}.rs, src/flow/launch.rs).*)
(*                                                                         *)
(* A thread that may run launch_flow is a member of Worker: the caller of  *)
(* launch_flow and the worker it spawns are one model thread, because the  *)
(* caller does nothing after the spawn.  An idle Worker stands for no      *)
(* thread.  The dsh processes are numbered in the order they are spawned.  *)
(* Timeouts may fire at any moment their wait lasts.  What the operating   *)
(* system does to a dsh when its launcher is gone depends on System        *)
(* (src/process/{capture,win_job}.rs).                                     *)
(***************************************************************************)
EXTENDS Integers, FiniteSets

CONSTANTS
  Worker,          \* threads that can call launch_flow
  System,          \* the operating system: "windows", "linux" or "macos"
  SingleInstance,  \* values dsh.single_instance may have when config is loaded
  MaxDsh,          \* bound: dsh processes spawned over the launcher's life
  MaxAsk           \* bound: user clicks and control-plane restarts, and one more
                   \* click if it is on the force-kill button

ASSUME BoundsAssumption == MaxDsh \in Nat /\ MaxAsk \in Nat
ASSUME WorkerAssumption == "main" \notin Worker /\ "free" \notin Worker
ASSUME SystemAssumption == System \in {"windows", "linux", "macos"}
ASSUME ConfigAssumption == SingleInstance \subseteq BOOLEAN

Dsh   == 1 .. MaxDsh
NoDsh == 0
Maybe == Dsh \cup {NoDsh}

VARIABLES
  \* The atomics of ui/state.rs.
  gate,        \* FLOW_RUNNING
  shutdown,    \* SHUTDOWN_REQUESTED
  exit,        \* SHOULD_EXIT
  launched,    \* LAUNCHED
  restart,     \* RESTART_REQUESTED
  cancelled,   \* CRASH_CANCELLED
  restartNow,  \* CRASH_RESTART_NOW
  nav,         \* CRASH_NAVIGATE_PENDING
  gen,         \* CRASH_GEN
  \* DSH_CHILD: the child, and who holds the mutex around it.
  slot, lock,
  \* What the startup page shows (progress.rs): the stale pid, the dsh url, the
  \* generation of the crash banner; and which page the window is on.
  stale, url, banner, page,
  \* The dsh processes (the environment).
  born,        \* how many were spawned
  proc,        \* what each is doing
  printed,     \* those that printed their url
  told,        \* those a stop signal was sent to
  \* Threads.
  pc, held,    \* each Worker's step and the dsh in its local variables
  single,      \* the dsh.single_instance its launch_flow loaded
  main, mainHeld,
  countdown,   \* the countdown thread of each crash generation
  asks,        \* requests made so far
  \* History: dsh left running when a graceful stop timed out, dsh spawned by a
  \* launch that had dsh.single_instance on, and dsh put into the slot after
  \* kill_dsh had emptied it for the last time.
  abandoned, guarded, late

flagVars   == <<gate, shutdown, exit, launched, restart>>
crashVars  == <<cancelled, restartNow, nav, gen, countdown>>
slotVars   == <<slot, lock>>
pageVars   == <<stale, url, banner, page>>
dshVars    == <<born, proc, printed, told>>
workerVars == <<pc, held, single>>
mainVars   == <<main, mainHeld>>
history    == <<abandoned, guarded, late>>
vars == <<flagVars, crashVars, slotVars, pageVars, dshVars, workerVars,
          mainVars, asks, history>>

IsAlive(p) == p \in Dsh /\ proc[p] = "alive"

\* Steps at which a thread has won FLOW_RUNNING and not yet given it back.
Gated == {"entered", "reap", "reaping", "check", "pipeline", "spawned", "url",
          "ready", "supervise", "abort", "aborting", "done"}
Ungated == {"idle", "asked", "killing", "killed", "call"}

TypeOK ==
  /\ {gate, shutdown, exit, launched, restart, cancelled, restartNow, nav}
       \subseteq BOOLEAN
  /\ gen \in 0 .. MaxDsh
  /\ slot \in Maybe
  /\ lock \in Worker \cup {"main", "free"}
  /\ stale \in Maybe /\ url \in Maybe /\ banner \in 0 .. MaxDsh
  /\ page \in {"launcher", "dsh"}
  /\ born \in 0 .. MaxDsh
  /\ proc \in [Dsh -> {"unborn", "alive", "clean", "crashed"}]
  /\ printed \subseteq Dsh /\ told \subseteq Dsh
  /\ pc \in [Worker -> Gated \cup Ungated]
  /\ held \in [Worker -> Maybe]
  /\ single \in [Worker -> BOOLEAN]
  /\ main \in {"loop", "teardown", "stopping", "stopped", "gone"}
  /\ mainHeld \in Maybe
  /\ countdown \in [Dsh -> {"none", "tick", "late", "abort", "abortStore",
                            "go", "goStore", "launch", "done"}]
  /\ asks \in 0 .. MaxAsk + 1
  /\ abandoned \subseteq Dsh /\ guarded \subseteq Dsh /\ late \subseteq Maybe

Init ==
  /\ gate = FALSE /\ shutdown = FALSE /\ exit = FALSE
  /\ launched = FALSE /\ restart = FALSE
  /\ cancelled = FALSE /\ restartNow = FALSE /\ nav = FALSE /\ gen = 0
  /\ slot = NoDsh /\ lock = "free"
  /\ stale = NoDsh /\ url = NoDsh /\ banner = 0 /\ page = "launcher"
  /\ born = 0 /\ proc = [p \in Dsh |-> "unborn"]
  /\ printed = {} /\ told = {}
  \* run_cli calls launch_flow once setup has shown the window.
  /\ \E w \in Worker : pc = [v \in Worker |-> IF v = w THEN "call" ELSE "idle"]
  /\ held = [w \in Worker |-> NoDsh]
  /\ single = [w \in Worker |-> FALSE]
  /\ main = "loop" /\ mainHeld = NoDsh
  /\ countdown = [g \in Dsh |-> "none"]
  /\ asks = 0
  /\ abandoned = {} /\ guarded = {} /\ late = {}

Running == main # "gone"

Goto(w, step) == pc' = [pc EXCEPT ![w] = step]
Hold(w, p)    == held' = [held EXCEPT ![w] = p]
Unlock(w)     == lock' = IF lock = w THEN "free" ELSE lock

\* Thread w at step `from`, in a process that has not exited.
At(w, from) == Running /\ pc[w] = from

(***************************************************************************)
(* launch_flow: the gate, then the prologue on the caller's thread.        *)
(***************************************************************************)

\* Fault: launch_flow starts without looking at the gate.
AlwaysFree == TRUE
GateFree == ~gate

Enter(w) ==
  /\ At(w, "call")
  /\ IF GateFree THEN Goto(w, "entered") /\ UNCHANGED lock
                 ELSE Goto(w, "idle") /\ Unlock(w)
  /\ gate' = TRUE
  /\ UNCHANGED <<shutdown, exit, launched, restart, crashVars, slot, pageVars,
                 dshVars, held, single, mainVars, asks, history>>

\* progress::reset and clear_error.
ResetPage == stale' = NoDsh /\ url' = NoDsh /\ banner' = 0

Prologue(w) ==
  /\ At(w, "entered")
  /\ IF shutdown
       THEN /\ gate' = FALSE /\ Goto(w, "idle")
            /\ UNCHANGED <<stale, url, banner, single>>
       ELSE /\ \E s \in SingleInstance : single' = [single EXCEPT ![w] = s]
            /\ ResetPage /\ Goto(w, "reap")
            /\ UNCHANGED gate
  /\ Unlock(w)
  /\ UNCHANGED <<shutdown, exit, launched, restart, crashVars, slot, page,
                 dshVars, held, mainVars, asks, history>>

(***************************************************************************)
(* The worker.  `if let Some(child) = DSH_CHILD.lock().take() { .. }` keeps*)
(* the guard until the end of the block, so the mutex is held through the  *)
(* whole graceful stop.                                                    *)
(***************************************************************************)

\* Take the child out of the slot, if any, and begin graceful_kill on it.
TakeChild(w, stopping, empty) ==
  /\ lock = "free"
  /\ IF slot = NoDsh
       THEN Goto(w, empty) /\ UNCHANGED <<held, slotVars, told>>
       ELSE /\ Goto(w, stopping) /\ Hold(w, slot)
            /\ told' = told \cup {slot}
            /\ slot' = NoDsh /\ lock' = w

Reap(w) ==
  /\ At(w, "reap")
  /\ TakeChild(w, "reaping", "check")
  /\ UNCHANGED <<flagVars, crashVars, pageVars, born, proc, printed, single,
                 mainVars, asks, history>>

Reaped(w) ==
  /\ At(w, "reaping") /\ ~IsAlive(held[w])
  /\ Goto(w, "check") /\ Hold(w, NoDsh) /\ lock' = "free"
  /\ UNCHANGED <<flagVars, crashVars, slot, pageVars, dshVars, single,
                 mainVars, asks, history>>

\* Fault: the early return keeps the gate.
ReapKeepsGate(w) ==
  /\ At(w, "reaping") /\ IsAlive(held[w])
  /\ stale' = held[w] /\ lock' = "free"
  /\ abandoned' = abandoned \cup {held[w]}
  /\ Goto(w, "idle") /\ Hold(w, NoDsh)
  /\ UNCHANGED <<gate, shutdown, exit, launched, restart, crashVars, slot, url,
                 banner, page, dshVars, single, mainVars, asks, guarded, late>>

\* Fault: a stale child that did not stop is ignored.
ReapGoesOn(w) ==
  /\ At(w, "reaping") /\ IsAlive(held[w])
  /\ Goto(w, "check") /\ Hold(w, NoDsh) /\ lock' = "free"
  /\ UNCHANGED <<flagVars, crashVars, slot, pageVars, dshVars, single,
                 mainVars, asks, history>>

\* graceful_kill(10_000) returned false: show the stale pid, start nothing.
ReapGivesUp(w) ==
  /\ At(w, "reaping") /\ IsAlive(held[w])
  /\ stale' = held[w] /\ gate' = FALSE /\ lock' = "free"
  /\ abandoned' = abandoned \cup {held[w]}
  /\ Goto(w, "idle") /\ Hold(w, NoDsh)
  /\ UNCHANGED <<shutdown, exit, launched, restart, crashVars, slot, url,
                 banner, page, dshVars, single, mainVars, asks, guarded, late>>

\* platform::dsh_instance_running, restricted to the dsh this launcher spawned.
DshInstanceRunning == \E p \in Dsh : IsAlive(p)

Check(w) ==
  /\ At(w, "check")
  /\ IF shutdown \/ (single[w] /\ DshInstanceRunning)
       THEN gate' = FALSE /\ Goto(w, "idle") /\ UNCHANGED <<stale, url, banner>>
       ELSE ResetPage /\ Goto(w, "pipeline") /\ UNCHANGED gate
  /\ UNCHANGED <<shutdown, exit, launched, restart, crashVars, slotVars, page,
                 dshVars, held, single, mainVars, asks, history>>

(***************************************************************************)
(* flow::run under select! with the 100 ms poll of SHUTDOWN_REQUESTED: the *)
(* poll wins only at an await, never between the spawn and the store that  *)
(* registers the child.                                                    *)
(***************************************************************************)

StepFails(w) ==
  /\ At(w, "pipeline")
  /\ Goto(w, "done")
  /\ UNCHANGED <<flagVars, crashVars, slotVars, pageVars, dshVars, held,
                 single, mainVars, asks, history>>

Spawn(w) ==
  /\ At(w, "pipeline") /\ born < MaxDsh
  /\ born' = born + 1
  /\ proc' = [proc EXCEPT ![born + 1] = "alive"]
  /\ guarded' = IF single[w] THEN guarded \cup {born + 1} ELSE guarded
  /\ Goto(w, "spawned") /\ Hold(w, born + 1)
  /\ UNCHANGED <<flagVars, crashVars, slotVars, pageVars, printed, told,
                 single, mainVars, asks, abandoned, late>>

\* Fault: flow::run forgets to put the child into DSH_CHILD.
ForgetChild(w) ==
  /\ At(w, "spawned") /\ lock = "free"
  /\ Goto(w, "url")
  /\ UNCHANGED <<flagVars, crashVars, slotVars, pageVars, dshVars, held, single,
                 mainVars, asks, history>>

Register(w) ==
  /\ At(w, "spawned") /\ lock = "free"
  /\ slot' = held[w] /\ Goto(w, "url")
  /\ late' = IF main \in {"loop", "teardown"} THEN late ELSE late \cup {held[w]}
  /\ UNCHANGED <<flagVars, crashVars, lock, pageVars, dshVars, held, single,
                 mainVars, asks, abandoned, guarded>>

\* stream_until_url found the url on an output line; dsh may have died since
\* it printed the line.
UrlSeen(w) ==
  /\ At(w, "url") /\ held[w] \in printed
  /\ url' = held[w] /\ Goto(w, "ready")
  /\ UNCHANGED <<flagVars, crashVars, slotVars, stale, banner, page, dshVars,
                 held, single, mainVars, asks, history>>

\* dsh was seen dead with no url read yet, or URL_TIMEOUT passed.  The child
\* stays in the slot.
UrlMissing(w) ==
  /\ At(w, "url")
  /\ Goto(w, "done")
  /\ UNCHANGED <<flagVars, crashVars, slotVars, pageVars, dshVars, held,
                 single, mainVars, asks, history>>

\* The poll saw SHUTDOWN_REQUESTED: flow::run is dropped where it stands.
Interrupt(w) ==
  /\ Running /\ pc[w] \in {"pipeline", "url"} /\ shutdown
  /\ Goto(w, "abort") /\ Hold(w, NoDsh)
  /\ UNCHANGED <<flagVars, crashVars, slotVars, pageVars, dshVars, single,
                 mainVars, asks, history>>

Abort(w) ==
  /\ At(w, "abort")
  /\ TakeChild(w, "aborting", "done")
  /\ UNCHANGED <<flagVars, crashVars, pageVars, born, proc, printed, single,
                 mainVars, asks, history>>

\* Fault: the mutex is not given back after the stop.
AbortedKeepsLock(w) ==
  /\ At(w, "aborting")
  /\ abandoned' = IF IsAlive(held[w]) THEN abandoned \cup {held[w]} ELSE abandoned
  /\ Goto(w, "done") /\ Hold(w, NoDsh)
  /\ UNCHANGED <<flagVars, crashVars, slotVars, pageVars, dshVars, single,
                 mainVars, asks, guarded, late>>

Aborted(w) ==
  /\ At(w, "aborting")
  /\ abandoned' = IF IsAlive(held[w]) THEN abandoned \cup {held[w]} ELSE abandoned
  /\ Goto(w, "done") /\ Hold(w, NoDsh) /\ lock' = "free"
  /\ UNCHANGED <<flagVars, crashVars, slot, pageVars, dshVars, single,
                 mainVars, asks, guarded, late>>

\* flow::run returned Ok: navigate the window and supervise, unless the window
\* was closed meanwhile.
HandOff(w) ==
  /\ At(w, "ready")
  /\ IF shutdown
       THEN Goto(w, "done") /\ UNCHANGED <<launched, page>>
       ELSE Goto(w, "supervise") /\ launched' = TRUE /\ page' = "dsh"
  /\ UNCHANGED <<gate, shutdown, exit, restart, crashVars, slotVars, stale,
                 url, banner, dshVars, held, single, mainVars, asks, history>>

(***************************************************************************)
(* supervise() returned: DshExit::Clean or DshExit::Crash.                 *)
(***************************************************************************)

CleanExit(w) ==
  /\ At(w, "supervise") /\ proc[held[w]] = "clean"
  /\ restart' = FALSE /\ Hold(w, NoDsh)
  /\ IF restart THEN Goto(w, "call") /\ gate' = FALSE /\ UNCHANGED exit
                ELSE Goto(w, "done") /\ exit' = TRUE /\ UNCHANGED gate
  /\ UNCHANGED <<shutdown, launched, crashVars, slotVars, pageVars, dshVars,
                 single, mainVars, asks, history>>

\* Fault: begin counts the crash generation twice.
BeginSkipsGen ==
  /\ gen' = gen + 2
  /\ cancelled' = FALSE /\ restartNow' = FALSE /\ nav' = TRUE
  /\ url' = NoDsh /\ banner' = gen + 1
  /\ countdown' = [countdown EXCEPT ![gen + 1] = "tick"]

\* Fault: begin leaves the url of the dead dsh.
BeginKeepsUrl ==
  /\ gen' = gen + 1
  /\ cancelled' = FALSE /\ restartNow' = FALSE /\ nav' = TRUE
  /\ url' = url /\ banner' = gen + 1
  /\ countdown' = [countdown EXCEPT ![gen + 1] = "tick"]

\* Fault: begin does not ask for the launcher page.
BeginStaysOnPage ==
  /\ gen' = gen + 1
  /\ cancelled' = FALSE /\ restartNow' = FALSE /\ nav' = nav
  /\ url' = NoDsh /\ banner' = gen + 1
  /\ countdown' = [countdown EXCEPT ![gen + 1] = "tick"]

\* crash::begin.
BeginRecovery ==
  /\ gen' = gen + 1
  /\ cancelled' = FALSE /\ restartNow' = FALSE /\ nav' = TRUE
  /\ url' = NoDsh /\ banner' = gen + 1
  /\ countdown' = [countdown EXCEPT ![gen + 1] = "tick"]

CrashExit(w) ==
  /\ At(w, "supervise") /\ proc[held[w]] = "crashed"
  /\ restart' = FALSE /\ Goto(w, "done") /\ Hold(w, NoDsh)
  /\ IF shutdown THEN exit' = TRUE /\ UNCHANGED <<crashVars, url, banner>>
                 ELSE BeginRecovery /\ UNCHANGED exit
  /\ UNCHANGED <<gate, shutdown, launched, slotVars, stale, page, dshVars,
                 single, mainVars, asks, history>>

\* PR_SET_PDEATHSIG: Linux sends SIGTERM to a dsh when the thread that spawned
\* it ends.
ThreadEnds(p) ==
  told' = IF System = "linux" /\ IsAlive(p) THEN told \cup {p} ELSE told

\* A dsh that did not print its url in time stays in the slot.
Done(w) ==
  /\ At(w, "done")
  /\ gate' = FALSE /\ Goto(w, "idle") /\ Hold(w, NoDsh)
  /\ ThreadEnds(held[w])
  /\ UNCHANGED <<shutdown, exit, launched, restart, crashVars, slotVars,
                 pageVars, born, proc, printed, single, mainVars, asks, history>>

WorkerStep(w) ==
  \/ Enter(w) \/ Prologue(w) \/ Reap(w) \/ Reaped(w) \/ ReapGivesUp(w)
  \/ Check(w) \/ StepFails(w) \/ Spawn(w) \/ Register(w) \/ UrlSeen(w)
  \/ UrlMissing(w) \/ Interrupt(w) \/ Abort(w) \/ Aborted(w) \/ HandOff(w)
  \/ CleanExit(w) \/ CrashExit(w) \/ Done(w)

(***************************************************************************)
(* Requests: the startup page's buttons and the control plane.             *)
(***************************************************************************)

Ask == Running /\ asks < MaxAsk /\ asks' = asks + 1

\* Only the thread named changes, and only its step.
OnlyPc == UNCHANGED <<flagVars, crashVars, slotVars, url, banner, page, dshVars,
                      single, mainVars, history>>

RetryAllowed == ~IsAlive(stale)

\* retry: refused while the stale dsh lives; else forget it and launch.
Retry(w) ==
  /\ Ask /\ pc[w] = "idle" /\ RetryAllowed
  /\ stale' = NoDsh /\ Goto(w, "call")
  /\ UNCHANGED held /\ OnlyPc

\* force_kill_stale reads the pid and spawns a thread that kills that pid.
ForceKillStale(w) ==
  /\ Running /\ asks <= MaxAsk /\ asks' = asks + 1
  /\ pc[w] = "idle" /\ stale # NoDsh
  /\ Goto(w, "killing") /\ Hold(w, stale)
  /\ UNCHANGED stale /\ OnlyPc

KillTree(w) ==
  /\ At(w, "killing")
  /\ \/ proc' = IF IsAlive(held[w]) THEN [proc EXCEPT ![held[w]] = "crashed"]
                                    ELSE proc
     \/ UNCHANGED proc
  /\ Goto(w, "killed")
  /\ UNCHANGED <<flagVars, crashVars, slotVars, pageVars, born, printed, told,
                 held, single, mainVars, asks, history>>

ForceKillSettles(w) ==
  /\ At(w, "killed")
  /\ IF IsAlive(held[w]) THEN Goto(w, "idle") /\ UNCHANGED stale
                         ELSE Goto(w, "call") /\ stale' = NoDsh
  /\ Hold(w, NoDsh)
  /\ UNCHANGED asks /\ OnlyPc

\* restart_now and cancel_restart only raise their flag.  The page shows their
\* buttons during a recovery, but polls: a click may come after its end.
ClickRestartNow ==
  /\ Ask /\ gen > 0 /\ restartNow' = TRUE
  /\ UNCHANGED <<flagVars, cancelled, nav, gen, countdown, slotVars, pageVars,
                 dshVars, workerVars, mainVars, history>>

ClickCancel ==
  /\ Ask /\ gen > 0 /\ cancelled' = TRUE
  /\ UNCHANGED <<flagVars, restartNow, nav, gen, countdown, slotVars, pageVars,
                 dshVars, workerVars, mainVars, history>>

\* request_restart raises the navigation flag before it waits for DSH_CHILD.
AskRestart(w) ==
  /\ Ask /\ pc[w] = "idle"
  /\ nav' = TRUE /\ Goto(w, "asked")
  /\ UNCHANGED <<flagVars, cancelled, restartNow, gen, countdown, slotVars,
                 pageVars, dshVars, held, single, mainVars, history>>

\* `match DSH_CHILD.lock().clone()` holds the mutex through both arms: a
\* launch_flow called here runs its prologue under it.
ServeRestart(w) ==
  /\ At(w, "asked") /\ lock = "free"
  /\ IF slot = NoDsh
       THEN Goto(w, "call") /\ lock' = w /\ UNCHANGED <<restart, told>>
       ELSE /\ Goto(w, "idle") /\ restart' = TRUE /\ told' = told \cup {slot}
            /\ UNCHANGED lock
  /\ UNCHANGED <<gate, shutdown, exit, launched, crashVars, slot, pageVars,
                 born, proc, printed, held, single, mainVars, asks, history>>

\* request_shutdown: the exit button, tray quit, Ctrl+C, the control plane, and
\* a closed window.
RequestShutdown ==
  /\ Running /\ ~(shutdown /\ exit)
  /\ shutdown' = TRUE /\ exit' = TRUE
  /\ UNCHANGED <<gate, launched, restart, crashVars, slotVars, pageVars,
                 dshVars, workerVars, mainVars, asks, history>>

(***************************************************************************)
(* The countdown thread of generation g.                                   *)
(***************************************************************************)

CountdownAt(g, from, to) ==
  /\ Running /\ countdown[g] = from
  /\ countdown' = [countdown EXCEPT ![g] = to]

OnlyCountdown ==
  UNCHANGED <<flagVars, nav, gen, slotVars, stale, url, page, dshVars, held,
              single, mainVars, asks, history>>

\* One pass of the 200 ms loop, its checks in the code's order, on whether the
\* deadline has passed ("late").  A pass that decides nothing writes the seconds
\* left, which are not modelled.
Verdict(g) ==
  IF gen # g THEN "done"
  ELSE IF gate \/ shutdown \/ exit \/ cancelled THEN "abort"
  ELSE IF restartNow \/ countdown[g] = "late" THEN "go"
  ELSE countdown[g]

Deadline(g) ==
  /\ CountdownAt(g, "tick", "late")
  /\ UNCHANGED <<cancelled, restartNow, banner, pc>> /\ OnlyCountdown

Tick(g) ==
  /\ \E from \in {"tick", "late"} : CountdownAt(g, from, Verdict(g))
  /\ UNCHANGED <<cancelled, restartNow, banner, pc>> /\ OnlyCountdown

\* finish(generation): the check of CRASH_GEN, then the stores.
FinishCheck(g) ==
  /\ \/ CountdownAt(g, "abort", IF gen = g THEN "abortStore" ELSE "done")
     \/ CountdownAt(g, "go", IF gen = g THEN "goStore" ELSE "launch")
  /\ UNCHANGED <<cancelled, restartNow, banner, pc>> /\ OnlyCountdown

\* Fault: finish leaves the banner.
FinishKeepsBanner(g) ==
  /\ \/ CountdownAt(g, "abortStore", "done")
     \/ CountdownAt(g, "goStore", "launch")
  /\ cancelled' = FALSE /\ restartNow' = FALSE /\ banner' = banner
  /\ UNCHANGED pc /\ OnlyCountdown

FinishStore(g) ==
  /\ \/ CountdownAt(g, "abortStore", "done")
     \/ CountdownAt(g, "goStore", "launch")
  /\ cancelled' = FALSE /\ restartNow' = FALSE /\ banner' = 0
  /\ UNCHANGED pc /\ OnlyCountdown

AutoRestart(g) ==
  /\ CountdownAt(g, "launch", "done")
  /\ \E w \in Worker : pc[w] = "idle" /\ Goto(w, "call")
  /\ UNCHANGED <<cancelled, restartNow, banner>> /\ OnlyCountdown

CountdownStep(g) ==
  Deadline(g) \/ Tick(g) \/ FinishCheck(g) \/ FinishStore(g) \/ AutoRestart(g)

(***************************************************************************)
(* The main thread: run_loop, then exit::shutdown, then process exit.      *)
(***************************************************************************)

OnlyMain == UNCHANGED <<flagVars, cancelled, restartNow, gen, countdown, stale,
                        url, banner, born, printed, workerVars, asks, guarded, late>>

LoopNavigates ==
  /\ main = "loop" /\ ~exit /\ ~shutdown /\ nav
  /\ nav' = FALSE /\ page' = "launcher"
  /\ UNCHANGED <<mainVars, slotVars, proc, told, abandoned>>
  /\ OnlyMain

\* Fault: the event loop leaves only when no flow runs.
LoopWaitsForGate ==
  /\ main = "loop" /\ exit /\ ~gate
  /\ main' = "teardown"
  /\ UNCHANGED <<nav, page, mainHeld, slotVars, proc, told, abandoned>>
  /\ OnlyMain

LoopBreaks ==
  /\ main = "loop" /\ (exit \/ shutdown)
  /\ main' = "teardown"
  /\ UNCHANGED <<nav, page, mainHeld, slotVars, proc, told, abandoned>>
  /\ OnlyMain

\* kill_dsh, reached once the window and the tray are torn down.
KillDsh ==
  /\ main = "teardown" /\ lock = "free"
  /\ IF slot = NoDsh
       THEN main' = "stopped" /\ UNCHANGED <<slotVars, mainHeld, told>>
       ELSE /\ main' = "stopping" /\ mainHeld' = slot
            /\ slot' = NoDsh /\ lock' = "main" /\ told' = told \cup {slot}
  /\ UNCHANGED <<nav, page, proc, abandoned>> /\ OnlyMain

\* graceful_kill(30_000) returned: dsh is gone, or it is left running.
KilledDsh ==
  /\ main = "stopping"
  /\ abandoned' = IF IsAlive(mainHeld) THEN abandoned \cup {mainHeld} ELSE abandoned
  /\ main' = "stopped" /\ mainHeld' = NoDsh /\ lock' = "free"
  /\ UNCHANGED <<nav, page, slot, proc, told>> /\ OnlyMain

\* What the operating system does to the dsh left behind: the kill-on-close job
\* of Windows ends them, Linux sends them SIGTERM, and macOS does nothing.
LauncherDied ==
  /\ proc' = IF System = "windows"
               THEN [p \in Dsh |-> IF IsAlive(p) THEN "crashed" ELSE proc[p]]
               ELSE proc
  /\ told' = IF System = "linux" THEN told \cup {p \in Dsh : IsAlive(p)} ELSE told

\* The browser is closed, webui cleaned up, and main returns from run_cli.
ProcessExit ==
  /\ main = "stopped" /\ main' = "gone"
  /\ LauncherDied
  /\ UNCHANGED <<nav, page, mainHeld, slotVars, abandoned>> /\ OnlyMain

MainStep == LoopNavigates \/ LoopBreaks \/ KillDsh \/ KilledDsh \/ ProcessExit

(***************************************************************************)
(* A dsh process prints its url, and exits with code 0 or otherwise, when  *)
(* it likes.                                                               *)
(***************************************************************************)

OnlyDsh == UNCHANGED <<flagVars, crashVars, slotVars, pageVars, born, told,
                       workerVars, mainVars, asks, history>>

PrintUrl(p) ==
  /\ IsAlive(p) /\ p \notin printed
  /\ printed' = printed \cup {p} /\ UNCHANGED proc /\ OnlyDsh

Exit(p) ==
  /\ IsAlive(p)
  /\ \E end \in {"clean", "crashed"} : proc' = [proc EXCEPT ![p] = end]
  /\ UNCHANGED printed /\ OnlyDsh

Terminated == ~Running /\ UNCHANGED vars

Next ==
  \/ \E w \in Worker :
       \/ WorkerStep(w)
       \/ Retry(w) \/ ForceKillStale(w) \/ KillTree(w) \/ ForceKillSettles(w)
       \/ AskRestart(w) \/ ServeRestart(w)
  \/ ClickRestartNow \/ ClickCancel \/ RequestShutdown
  \/ \E g \in Dsh : CountdownStep(g)
  \/ MainStep
  \/ \E p \in Dsh : PrintUrl(p) \/ Exit(p)
  \/ Terminated

Spec == Init /\ [][Next]_vars

(***************************************************************************)
(* Fairness: every thread of the process that can run does run, and a wait *)
(* with a timeout ends.  Two waits have none.  The steps before the spawn  *)
(* may install packages (src/flow/prepare.rs:486), where neither the       *)
(* download ("Deliberately UNBOUNDED", src/install/download.rs:167) nor    *)
(* the package manager is given a deadline: a worker may stay in the       *)
(* pipeline for ever, and only the poll of SHUTDOWN_REQUESTED beside it is *)
(* certain to run.  And a dsh may never exit: CleanExit and CrashExit wait *)
(* for one to.  Nothing is assumed of the user, of the control plane, or   *)
(* of dsh.                                                                 *)
(***************************************************************************)

WorkerThread(w) ==
  \/ pc[w] # "pipeline" /\ WorkerStep(w)
  \/ Interrupt(w)
  \/ KillTree(w) \/ ForceKillSettles(w) \/ ServeRestart(w)

Fairness ==
  /\ \A w \in Worker : WF_vars(WorkerThread(w))
  /\ \A g \in Dsh : WF_vars(CountdownStep(g))
  /\ WF_vars(MainStep)

FairSpec == Spec /\ Fairness

\* dsh "force-exits at most 5 seconds after the signal" (src/ui/launch.rs:64):
\* with this, a dsh that was told to stop does exit.
ObedientSpec == FairSpec /\ \A p \in Dsh : WF_vars(p \in told /\ Exit(p))

(***************************************************************************)
(* Safety.                                                                 *)
(***************************************************************************)

\* FLOW_RUNNING is a lock: at most one thread is past the swap in launch_flow,
\* and the flag is up exactly while one is.
GateExclusive ==
  /\ \A v, w \in Worker : pc[v] \in Gated /\ pc[w] \in Gated => v = w
  /\ gate <=> \E w \in Worker : pc[w] \in Gated

\* Asked to stop, by a thread that waits for it or gave up waiting.
Stopping(p) ==
  /\ p \in told
  /\ \/ mainHeld = p
     \/ \E w \in Worker : held[w] = p /\ pc[w] \in {"reaping", "aborting"}
     \/ p \in abandoned

\* Where a reap or a shutdown finds dsh p: in the slot, or in the hands of the
\* worker that is about to put it there.
Findable(p) ==
  slot = p \/ \E w \in Worker : held[w] = p /\ pc[w] = "spawned"

\* A dsh the launcher spawned is never lost.  Until the main thread runs kill_dsh
\* a live dsh is where a stop finds it, or was asked to stop.  After that only a
\* dsh that was not in the slot when kill_dsh looked is still to be stopped, by
\* the worker that spawned it; the process does not wait for that worker, and
\* when it is gone a dsh that lives was asked to stop, unless the system does
\* nothing about it (see NoOrphan).
DshTracked ==
  \A p \in Dsh : IsAlive(p) =>
    \/ Stopping(p)
    \/ /\ Running /\ Findable(p)
       /\ main \in {"loop", "teardown"} \/ slot # p \/ p \in late
    \/ ~Running /\ (p \in told \/ System = "macos")

\* "Never start a new dsh next to" a live one (launch.rs:69): it happens only
\* after a graceful stop of the older one timed out, and never in a launch that
\* has dsh.single_instance on.
DshExclusion ==
  \A p, q \in Dsh :
    p < q /\ IsAlive(p) /\ IsAlive(q) => p \in abandoned /\ q \notin guarded

\* The url on the startup page and in the tray menu is that of a dsh a worker
\* is handing over or supervises (and will clear), or a launch is about to reset
\* the page, or the launcher is leaving.
UrlHonest ==
  url # NoDsh =>
    \/ shutdown \/ exit
    \/ \E w \in Worker :
         \/ held[w] = url /\ pc[w] \in {"ready", "supervise"}
         \/ pc[w] \in {"call", "entered"}

(***************************************************************************)
(* The inductive invariant behind these properties.                        *)
(***************************************************************************)

\* A generation of crash recovery per dsh at most: while a dsh is on its way to
\* or under supervision, fewer recoveries than spawns have happened.
GenBound ==
  /\ gen <= born
  /\ banner <= gen
  /\ \A w \in Worker :
       pc[w] \in {"spawned", "url", "ready", "supervise"} => gen < born

\* Who has the DSH_CHILD mutex, by the step its holder is at.
LockOwned ==
  /\ \A w \in Worker :
       /\ lock = w => pc[w] \in {"call", "entered", "reaping", "aborting"}
       /\ pc[w] \in {"reaping", "aborting"} => lock = w
  /\ lock = "main" <=> main = "stopping"
  /\ mainHeld # NoDsh => main = "stopping"

\* From the reap to the registration nothing is in the slot, nor is the main
\* thread stopping what was there.
SlotEmptied ==
  \A w \in Worker :
    pc[w] \in {"reaping", "check", "pipeline", "spawned"} =>
      slot = NoDsh /\ mainHeld = NoDsh

BornInOrder ==
  \A p \in Dsh :
    /\ proc[p] = "unborn" <=> p > born
    /\ p \in guarded => p <= born

\* The check of dsh.single_instance still holds when dsh is spawned.
GuardHolds ==
  \A w \in Worker : pc[w] = "pipeline" /\ single[w] => ~DshInstanceRunning

\* What a flow that has reset the page knows of the url.
UrlOwned ==
  \A w \in Worker :
    /\ pc[w] \in {"reap", "reaping", "check", "pipeline", "spawned", "url"} =>
         url = NoDsh
    /\ pc[w] \in {"ready", "supervise"} => held[w] = url
    /\ pc[w] \in {"abort", "aborting"} => shutdown
    /\ pc[w] = "done" => url = NoDsh \/ shutdown \/ exit

IInv ==
  /\ TypeOK /\ GateExclusive /\ GenBound /\ LockOwned /\ SlotEmptied
  /\ BornInOrder /\ DshTracked /\ GuardHolds /\ DshExclusion
  /\ UrlOwned /\ UrlHonest

(***************************************************************************)
(* Liveness.                                                               *)
(***************************************************************************)

Supervising == \E w \in Worker : pc[w] = "supervise"

\* A worker is before the spawn, where an install may hang.
Installing == \E w \in Worker : pc[w] = "pipeline"

\* The gate is never leaked: every flow that takes it gives it back or ends up
\* supervising a dsh, whatever dsh and the user do, unless the steps before the
\* spawn hang for good with no exit wanted.
GateReleased ==
  gate ~> (~gate \/ Supervising \/ ~Running \/ [](Installing /\ ~shutdown))

\* Once an exit is wanted the process exits, even if dsh ignores every signal.
ShutdownCompletes == (shutdown \/ exit) ~> ~Running

\* The crash banner never freezes on the page.
BannerResolves == banner # 0 ~> (banner = 0 \/ ~Running)

\* After a crash the window leaves the page of the dead dsh, so that the
\* countdown is seen.
CrashPageLeft ==
  (banner # 0 /\ page = "dsh")
    ~> (page = "launcher" \/ DshInstanceRunning \/ ~Running)

(***************************************************************************)
(* What the sources say and the code does not do.                          *)
(***************************************************************************)

\* "Never start a new dsh next to" a stale one that survived the graceful stop
\* (src/ui/launch.rs:69-70).
NeverTwoDsh == \A p, q \in Dsh : IsAlive(p) /\ IsAlive(q) => p = q

\* Nothing the launcher spawned outlives it unasked: a dsh spawned while an exit
\* is under way "can be reaped gracefully below instead of being orphaned"
\* (src/ui/launch.rs:117-121).
NoOrphan == ~Running => \A p \in Dsh : IsAlive(p) => p \in told

\* A restart always ends in a relaunch: either the supervisor of the child asked
\* to exit relaunches, or "when there is no supervised child to stop (dsh already
\* dead) [..] launch_flow() starts directly" (src/ui/launch.rs:238-239).
RestartServed == restart ~> (~restart \/ ~Running \/ []Installing)
=============================================================================
