# TLA+ verification of DSHL

DSHL is a desktop launcher: it prepares a runtime, starts the `dsh` web process,
shows it in a WebView or browser window, supervises it, and recovers when it
crashes. This directory holds TLA+ modules of its core logic, the TLC runs that
check them on small instances, and TLAPS proofs for every size.
Paths below are relative to the repository root; `ui/`, `flow/`, ... are under
`src/`.

    tlc -config LaunchFlow.cfg MCLaunchFlow        # model-check
    tlc -config AsyncChild.cfg AsyncChild
    tlc -config WindowTray.cfg WindowTray
    tlc -config Pipeline.cfg MCPipeline
    tlc -config Services.cfg Services
    tlapm LaunchFlowProofs.tla                     # prove
    tlapm AsyncChildProofs.tla
    tlapm SelfUpdateProofs.tla
    tlapm WindowTrayProofs.tla
    tlapm PipelineProofs.tla
    tlapm KernelBootProofs.tla
    tlapm PtyProofs.tla
    tlapm ServicesProofs.tla

The remaining configurations end in a counterexample: `LaunchFlowTwoDsh`,
`LaunchFlowRestart` and `LaunchFlowOrphan` (of `MCLaunchFlow`), `AsyncChildEnd`,
`PipelineRepair` (of `MCPipeline`), `SelfUpdateApplied` and `KernelRelaunch` (of
`KernelBoot`). Each shows the code doing what a comment or a document of the
repository says it does not; `PROJECT.json` quotes the line.

Every property a run checks is known to fail for a faulty version of the code: a
definition whose comment begins with `Fault:` is such a version of the definition
below it, and no specification uses it.

## 1. Inventory

| component | state it keeps | operations | what makes it hard | what makes it correct |
|---|---|---|---|---|
| dsh lifecycle: `ui/launch.rs`, `ui/crash.rs`, `ui/bindings.rs`, `ui/exit.rs`, `flow/launch.rs` | `FLOW_RUNNING`, `SHUTDOWN_REQUESTED`, `SHOULD_EXIT`, `RESTART_REQUESTED`, `CRASH_*`, the `DSH_CHILD` slot, stale pid, url, banner | launch, reap, spawn, register, supervise, restart in place, recover, shut down | five kinds of threads on shared atomics; a mutex held through a ten-second wait; timeouts; a child handed from one owner to another | one flow at a time, every dsh found by a stop or asked to exit, never two dsh, every exit and every banner ends |
| event loop and windows: `ui/supervisor.rs`, `ui/window/*`, `ui/browser.rs`, `ui/state.rs` | window id and handle, tray flags, browser handle and latches | close, close to tray, restore, destroy later, poll the browser | callbacks on other threads, deferred destruction, stale handles | no live window destroyed, a restore ends, one close is acted on once |
| child process: `process/child.rs` | line queue, stream and exit flags, notify permit | readers, reaper, `next_line`, `graceful_kill` | wake-ups, end of stream against exit, a grandchild holding the pipes | every line once and in order, the end is always reached |
| self-update: `self_update.rs` | available release, staged marker, staged files, the executable | check, download, stage, apply, swap | crash between renames, concurrent downloads, retries | the build that ran is never lost, only verified bytes run, a staged release is applied (it is not) |
| control plane: `control.rs`, `plugins/dshl-pipe` | connections, pending requests, buffer | hello, request, response, reconnect | reconnects and timeouts on both sides | every request is settled, a frame is carried out once |
| kernel boot: `crates/dshl-cli/src/run.rs`, `platform/single_instance.rs` | handle slot, instance lock, activation file | boot, stop, boot again, activate | two callers, lock kept across boots | one kernel, relaunch possible, no activation lost |
| plugin guard: `plugins/dshl-control/src/plugin-guard.js` | crash counters, healthy set | start, healthy, graceful exit, disable | long sequences of starts | only suspicious plugins are disabled |
| PTY: `pty/*` | session registry, broadcast and control channels | spawn, write, resize, kill, attach | lag, exit racing with attach | a session is removed exactly when it ends |
| cache and installers: `flow/prepare.rs`, `install/*`, `version.rs` | files, the answer of the last check | probe, decide, install, repair | external programs, kills, a dist-tag that moves | the dsh that runs is the configured one and whole, never an older one |

Interaction: the event loop is the main thread. `launch_flow` may be called by the
boot code, the retry button, the force-kill thread, the countdown thread, the
control plane, and by its own worker when it relaunches; its worker runs the
pipeline, puts the child into `DSH_CHILD`, navigates the window and supervises.
The main thread sees only flags (`SHOULD_EXIT`, `SHUTDOWN_REQUESTED`,
`CRASH_NAVIGATE_PENDING`) and, when it leaves its loop, takes the child out of the
slot, stops it and exits the process.

The hazards of each component, each at its line, are listed in `PROJECT.json`.

## 2. Plan

1. **LaunchFlow** (done): the lifecycle above; `LaunchFlowProofs`.
2. **AsyncChild** (done) with **LineStream**, the abstract stream it refines:
   the readers, the reaper, `next_line`; `AsyncChildProofs`.
3. **SelfUpdate** (done): check, download, stage, apply and swap with a kill at
   every step; `SelfUpdateProofs`.
4. **WindowTray** (done): setup, close, tray, restore, deferred destruction and
   browser polling, over the event loop's order of checks; `WindowTrayProofs`.
5. **Semver**, **DshCache**, **Toolchain**, composed by **Pipeline** (done): the
   launch up to the spawn, and the checks for updates beside it; `PipelineProofs`.
6. **KernelBoot**, **ControlPipe**, **Pty**, put together with **SelfUpdate** by
   **Services** (done);
   `KernelBootProofs`, `PtyProofs`, `ServicesProofs`.
7. Modules left: **PluginGuard**; the activation file of single instance and the
   pending profile of `switch-profile`; **DshSupervisor**, the abstract promise of
   the lifecycle (one dsh at a time moving between absent, starting, serving,
   stopping), which LaunchFlow refines as long as no graceful stop times out.

## 3. LaunchFlow

One `Worker` is a thread that may run `launch_flow`. The caller of `launch_flow`
and the worker thread it spawns are one model thread, because the caller does
nothing after the spawn; an idle `Worker` is no thread at all. A `Worker` also
plays the threads behind the buttons and the control plane, which in turn may
call `launch_flow`. `pc` is the place in the code:

| `pc` | the thread is at |
|---|---|
| `call`, `entered` | the swap of `FLOW_RUNNING`, and after it |
| `reap`, `reaping` | the stale child: before the mutex, inside `graceful_kill(10_000)` |
| `check` | the shutdown and `single_instance` checks |
| `pipeline`, `spawned`, `url`, `ready` | `flow::run`: steps, after the spawn, `stream_until_url`, returned Ok |
| `supervise`, `abort`, `aborting`, `done` | `supervise`, the shutdown branch, the final store to the gate |
| `asked`, `killing`, `killed` | `request_restart` before the mutex, the force-kill thread |

Main is `loop`, `teardown` (windows and tray), `stopping` (`kill_dsh`), `stopped`,
`gone`. A countdown thread of generation g is `countdown[g]`. A dsh process is
environment: it prints its url or not, and exits with either result when it likes,
whether told to stop or not.

Choices worth knowing:

* A Rust temporary in the scrutinee of `if let` or `match` lives through the
  block: the `DSH_CHILD` mutex (`lock`) is held while the stale child is being
  stopped, and while `request_restart` runs the prologue of `launch_flow`.
* `graceful_kill` may return false at any moment dsh is alive, and true at any
  moment it is dead: its timeout is not measured. The same holds for `URL_TIMEOUT`
  and the five-second deadline of the countdown.
* The `select!` against the shutdown poll can win only at an await: never between
  the spawn and the store into `DSH_CHILD`, though the main thread may run there.
* The two stores of `request_shutdown` are one step; one pass of the countdown
  loop is one step; the check and the stores of `finish` are two steps.
* `LAUNCHED` is kept although only the event loop's window checks read it.
* A dsh found by `single_instance` is one this launcher spawned; others belong to
  the machine. Pids are never reused.
* `main = "gone"` is the end of the process: its threads stop where they are. What
  becomes of a dsh depends on `System`: on Windows the kill-on-close job ends it
  (`process/win_job.rs`), on Linux the death signal of its parent asks it to stop
  (`PR_SET_PDEATHSIG`, which is also sent when the thread that spawned it ends,
  `ThreadEnds`), on macOS nothing happens (`process/capture.rs:75-87`).

Bounds: `MaxDsh` dsh processes in all (and so as many crash generations),
`MaxAsk` clicks and control-plane restarts and one more click on force-kill, which the
page offers only after a stop timed out; `RequestShutdown` is unbounded. With
two dsh there is an older and a newer one, a superseded countdown, and a relaunch
after each way of ending; with two threads every pair of callers races for the
gate. More of either repeats the same pairs, and the proofs have no bound. The
passing run is on Linux, where a dsh is asked to stop by the launcher or by the
system and may ignore either; the proofs are for every `System`.

Fairness (`FairSpec`): every worker, every countdown and the main thread keep
running, which the operating system provides, and a wait with a timeout ends. Two
waits have none, and nothing is assumed of them: a dsh that is supervised may never
exit, and the steps before the spawn may hang. These install packages without a
deadline (`flow/prepare.rs:486`; the download is "Deliberately UNBOUNDED",
`install/download.rs:167`), so a worker may stay in the pipeline for good; only the
poll of `SHUTDOWN_REQUESTED` beside it is certain to run (`Interrupt`).
`GateReleased` says so: `FLOW_RUNNING` is given back unless an install hangs for ever
and no exit is wanted. An exit completes even then. Nothing is assumed of the user,
the control plane or dsh. `ObedientSpec` adds that a dsh told to stop does exit, as
the comment at `ui/launch.rs:62-66` says it does within five seconds.

| run | result |
|---|---|
| `launch_flow` | types; the gate is exclusive; a running dsh is where a stop finds it or was asked to stop (`DshTracked`); two dsh run only because of a graceful stop that timed out and never through a guarded launch (`DshExclusion`); the url is that of a supervised dsh (`UrlHonest`); the inductive invariant; the gate is given back (`GateReleased`), an exit completes even while the mutex is held and dsh ignores signals (`ShutdownCompletes`), the banner resolves, the page of a crashed dsh is left |
| `launch_two_dsh` | a disagreement with `ui/launch.rs:69-70`: after a graceful stop timed out the slot is empty, so `request_restart` calls `launch_flow`, which forgets the stale pid and spawns next to it; the retry button checks, this path does not |
| `launch_restart` | a disagreement with `ui/launch.rs:238-239`: after a failed launch the child stays in the slot unsupervised; a restart then only signals it and is never answered |
| `launch_orphan` | a disagreement with `ui/launch.rs:117-121` on macOS: the main thread runs `kill_dsh` on an empty slot and ends the process while a worker has just spawned a dsh; nobody stops it, and no part of the system does (`NoOrphan`) |

`DshTracked` tells three times apart. Until the main thread runs `kill_dsh`, a live
dsh is in the slot, in the hands of the worker about to put it there, or was told to
stop. Afterwards a dsh may still be to be stopped by its worker only if it was not in
the slot when `kill_dsh` looked (`late`). Once the process is gone it was told to
stop, or the system does nothing about it.

### Proved

`LaunchFlowProofs` proves `Spec => []IInv` and from it `TypeOK`, `GateExclusive`,
`DshTracked`, `DshExclusion` and `UrlHonest`, for every set of threads, every
`SingleInstance`, every `System` and all bounds; and, for every system but macOS,
`NoOrphan` (`SystemReapsOrphans`), which the run `launch_orphan` violates there.
Assumed are `BoundsAssumption` (the bounds are naturals), `WorkerAssumption` (a
thread is not called "main" or "free"), `SystemAssumption` (one of the three) and
`ConfigAssumption` (a config value is a boolean).

None of the properties is inductive alone. `DshExclusion` needs that at the spawn
every dsh still alive was given up: by `DshTracked` it would otherwise be in the
slot or in somebody's hands, but from the reap to the registration the slot is
empty and the main thread holds nothing (`SlotEmptied`), and no other worker holds
one because it would have the gate (`GateExclusive`). `SlotEmptied` in turn needs
`LockOwned`: the worker has the mutex while it reaps, so the main thread cannot be
in the middle of its own stop. `GuardHolds` carries the `single_instance` check to
the spawn, `BornInOrder` says that numbers above `born` are unborn, `UrlOwned` what
a flow knows of the url at each step, and `GenBound` that a recovery uses up one
spawn, which keeps `CRASH_GEN` in its type.

Liveness stays with TLC: fairness and ENABLED are out of this prover's reach.

## 4. AsyncChild and LineStream

`LineStream` is what the consumer of a child's output is promised, in four
variables: of each stream the number of lines read (`sent`) and delivered (`got`),
whether the process has exited and whether the consumer was told of the end. Lines
are delivered one by one in order; the end comes only after the exit, once, and to
a consumer that keeps asking it does come. How the two streams interleave is not
promised, nor, as the second run shows, that no line is left when the end is told.

`AsyncChild` is `process/child.rs` step by step. A line is its stream and its
number, so loss, duplication and reordering show. Every access to shared state is a
step of its own: `feed_line` is push then notify, the end of a stream
`fetch_sub`, store, notify; the reaper code, time, flag, notify, sleep, notify; a
poll of `next_line` pop, check, arm. The runtime is multi-threaded
(`runtime.rs:15-24`), so all of them interleave.

| variable | code |
|---|---|
| `lines`, `code`, `exitedAt`, `processDone`, `streamsRemaining`, `streamsDone` | the fields of `Inner` |
| `permit`, `waiter` | the permit in `Notify`, and the `Notified` future a `NextLine` owns |
| `reader`, `read` | where `read_lines` is, and how many lines it has queued |
| `running`, `own`, `heir`, `written` | the process, who has each pipe open, what was written: environment |
| `graceOver` | `STREAM_GRACE` has elapsed since `process_exited_at` |

Choices worth knowing:

* `tokio::sync::Notify` is external and modelled by its contract: `notify_one` hands
  the waiter over or stores one permit; a waiter dropped after it was notified
  passes the notification on.
* `TimerPolls` and `TimerCancels` are the `timeout` around `next_line` and the
  `select!` around the whole flow: they poll it for no reason of its own, or drop it
  while it is parked. A dropped `next_line` is asked again.
* The thread readers of `spawn_hidden` (Windows) run the same steps as the tasks of
  `spawn_inner`; both are the `Reader` and the `Reaper` here.
* A read error (a line that is not UTF-8) ends the reader with lines left in the
  pipe.
* `STREAM_GRACE` is not measured: it elapses at any moment after the exit was
  stamped, and the reaper's sleep, which starts later, ends no earlier.

Bounds: `MaxLine` lines for each of two streams. Two of each give a stream order to
break and a queue that holds lines of both; the proofs have no bound on either.

Fairness (`FairSpec`): the readers, the reaper and the clock, which the runtime
provides, and the consumer, which asks until it is told of the end, as `drain` and
`supervise` do. Nothing is assumed of the process, of a
grandchild, or of the timer: wakeups may not depend on a timer that happens to poll.

| run | result |
|---|---|
| `async_child` | types; no wakeup is lost (`NoLostWakeup`); the exit code is there before the end (`CodeBeforeEnd`); the inductive invariant; `LineStream` with its liveness is implemented (`ImplementsLineStream`), so a grandchild that never closes a pipe cannot keep the consumer waiting |
| `async_child_end` | a disagreement with `process/child.rs:94-95`: between a poll's empty pop and its check for the end a reader may queue the last line and close the last stream, and `None` is returned with the line still queued |

### Proved

`AsyncChildProofs` proves `Spec => []IInv`, from it `TypeOK`, `NoLostWakeup` and
`CodeBeforeEnd`, and `Spec => Promise!Spec`, the safety part of the refinement, for
any set of streams and any `MaxLine` (assumed a natural, `MaxLineAssumption`).

`IInv` adds to the types: `ReadsWritten`, a reader is not ahead of its pipe, which
keeps line numbers in their type; `QueueOrdered`, the queue holds exactly the lines
read and not given, each stream's in ascending order; `ReaperOrder`, what the
reaper has published at each of its steps; and `WakeupOwed`, that from the moment a
poll has seen the queue empty (and the end not come) every line queued since has a
notification stored, delivered or about to be sent. `NoLostWakeup` is the case of
`WakeupOwed` where the consumer sleeps.

The refinement needs `HeadIsNext`: the head of the queue is line `got + 1` of its
stream. It is greater than `got` and, were it greater than `got + 1`, line
`got + 1` would be queued behind it, against the order. That the end does come is
model-checked only.

## 5. SelfUpdate

The disk outlives the process; everything else starts anew at each `Start`.

| variable | code |
|---|---|
| `exe`, `incoming`, `backup` | the executable and its `.new-*` and `.old-*` siblings |
| `zip`, `file`, `marker` | the archive of each release, the binary under `staged/`, `staged.json` |
| `legacy` | the disk began with a marker without a digest |
| `phase`, `running`, `outcome` | where `apply_staged` and `swap_binary` are (`up`: done), the build in memory, the release this start has swapped in |
| `checks`, `latest`, `staged`, `applied` | the mode in `Inner.ctx` is not off, and the fields of `Inner` |
| `pc`, `job` | of each task, where `check_once` or `download_once` is, and its release |

A binary is the build it belongs to and whether its bytes are the published ones
(`whole`); `Broken` is a file cut short or taken from an unverified archive, and
does not start. A digest tells what it is the digest of, so that of an archive is
never that of a binary.

Choices worth knowing:

* `Stop` is enabled at every step: a kill between any two file operations. A copy
  and an extraction are two steps, and `std::fs::write` truncates before it writes.
* Every removal, copy and rename may fail; the removals and the rollback, whose
  results the code ignores, then go on.
* Two tasks (the timer, the button, the control plane) share the archive, the
  directory and the marker: nothing in the code keeps one out while the other
  stages.
* No build of this source writes a marker without a digest, but an earlier one did
  (`docs/2026-09-22-dshl-audit.md:616`) and `Marker.sha256` is still optional. As
  the second run shows, that is also the only marker that reaches the swap.
* One `.old` and one `.new` file are followed: a start writes one of each.
* The user may reinstall by hand. The published status, its text, `apply_error`,
  the feed's format and the checks on URLs and paths are left out.

What the properties do not say: `ExeRecoverable` finds the build that ran under its
own name or its `.old` name. Between the two renames, and after a failed rollback,
it is not under its own, and no code brings it back. With a legacy marker a binary
that is cut short may be swapped in, as the guard on size alone lets it.

`OnlyVerified` rests, as the code stands, on the check of the digest that refuses
every update (`self_update_applied`): what two stages do to each other's files cannot be
told from an honest update, and would be the day the marker carried the digest of
the binary. The property is there for that day; today only the comparison itself
can break it.

Bounds: two tasks and releases 1 and 2, so there is a task to race with and one
update to apply; the proofs have no bound. `HashMayFail` is off in the second run
only, so that the refusal is not blamed on the hash tool. No fairness is assumed.

| run | result |
|---|---|
| `services` (section 8) | types; the build that ran is on disk, whole, wherever the launcher is killed (`ExeRecoverable`); without a legacy marker nothing but a published binary becomes the executable (`OnlyVerified`) |
| `self_update_applied` | a disagreement with `README.md:319` and `self_update.rs:410`: the marker carries the digest of the archive (`self_update.rs:629`), `apply_staged` hashes the extracted binary (`self_update.rs:312-313`), so every staged update is refused as changed and dropped |

### Proved

`SelfUpdateProofs` proves `UpdateSpec => []UpdateInv` and from it the types,
`ExeRecoverable` and, as an action property, `DigestedNeverRuns`, for any set of
tasks. Assumed are `ReleaseAssumption` (at least one release) and `HashAssumption` (a
boolean).

`ExeRecoverable` needs `ExePlace`, which follows the build through a start: it is in
place until the rename aside, the new file is there whenever the second rename may
run, and only a start that has put a binary in place removes the `.old` file.
`DigestedNeverRuns` (theorem `DigestedIsRefused`) says what the disagreement of the
second run amounts to for every disk and every interruption: while the marker has a
digest no start of a launcher changes the executable. It needs `NoSwap`: every marker
a task writes has the digest of an archive, and no binary has that digest
(`DigestFacts`).

## 6. WindowTray

One window at a time is the launcher's; the module follows each from its creation
to `webui::destroy`, on the Windows build, where a window has a handle to poll.

| variable | code |
|---|---|
| `id`, `hwnd`, `pending`, `keepalive` | `WINDOW_ID`, `WEBVIEW_HWND`, `PENDING_DESTROY`, `KEEPALIVE`: which window each of them names |
| `trayed`, `restoring`, `setupDone`, `closePending`, `launched`, `shutdown`, `isBrowser`, `nav` | the atomics of `ui/state.rs` |
| `bhwnd`, `teardown`, `confirm`, `navigated`, `grace` | the statics of `ui/browser.rs` |
| `win`, `external` | the windows themselves: not made, `new`, `up`, `gone` (closed), `freed` |
| `main`, `victim` | the check the event loop is at, and the window it frees |
| `build`, `made`, `first`, `attempt` | of each thread that builds a window, where it is in `setup` or `perform_rebuild` |
| `handler`, `closing` | the close handler on webui's thread |
| `hunt`, `seen`, `capture`, `found`, `connector` | background threads: handle captures, the pid hunt, late navigations |

The actions `Create` to `FinishRestoreFail` are `show_window` and
`perform_rebuild`; `TakePending` to `Teardown` one pass of `run_loop`, check by
check; `UserCloses` to `HandlerReturns` the close handler; the rest are background
threads and requests.

Choices worth knowing:

* Two threads build windows: the event loop's (setup, tray, activation) and a caller
  of `window_show`. Both may be in a restore only as far as the latch `restoring`
  lets them.
* `webui::is_shown` is a guess: any answer for a window that is up or has just
  closed. Whether a handle is alive is exact.
* A window has one number for its webui id, its handle and its pid. Reuse of a pid
  or a handle by another process is left out.
* `TRAYED` is read by the caller of `restore_from_tray` (`ui/window/controls.rs:20`,
  `ui/supervisor.rs:99`) and the latch `RESTORING` is swapped in a later step
  (`DecideRestore`), so a restore may begin outside the tray after another one has
  left it.
* A restored WebView is only focused (`ui/window/restore.rs:73`): its handle is not
  read again until dsh is handed over, although the comment at 88-90 has it
  re-captured.
* A late free compares the window id and clears it in two steps (`FreePending`,
  `ClearId`) and may wipe the id of a newer window; `BROWSER_HWND` outlives a close
  to the tray, and a stale one decides for the window that is up. Both are in the
  model; the code states no rule for either that a property could check.
* History variables mark what the code does not guard against, and each property
  that excuses one of them names it. `mislaid`: a `window_hide` while a window is
  being made, or a restore that began outside the tray. `lost`: a WebView died
  without its close handler while no handle tracked it, or while a restore or a close
  was under way. `died`: it did at all. `rerun`: `window_show` after the window was
  lost, which runs setup a second time beside the loop.
* setup documents "NO cross-backend fallback" (`ui/window/setup.rs:33-36`);
  `show_webview` falls back to a browser all the same (211-218), and the model does
  what the code does (`FallBack`).

Bounds: `MaxAsk` requests, hides, crashes and retries in all, two with a browser
and one with a WebView, so three and two windows. Two restores then race, a restore
follows a failed one, and a stale handle meets a newer window. All four settings of
`ui.mode` and `ui.close_to_tray` are initial states of the one run.

Fairness: the loop, a caller inside `show_window`, the close handler and the grace
timer go on; nothing is assumed of the user.

| run | result |
|---|---|
| `window_tray` | types; the latch is up exactly while one restore runs (`RestoreExclusive`); no close handler tears down a WebView that `show_wv` waits for (`ShowUndisturbed`); a launcher at rest outside the tray has a window, or a handle to notice its loss with, but for `lost` and `mislaid` (`NotStranded`); no keep-alive is left on a closed window (`KeepAliveStopped`); three bad readings of one window are three in a row (`Debounced`); a dead handle leads to the tray or to the exit (`LossNoticed`) |

### Proved

`WindowTrayProofs` proves every property of the run but `LossNoticed`, which is
liveness, for any `MaxAsk` (so any number of windows) and any of the settings. From
`BoundsAssumption` and `ConfigAssumption`, `Inductive` shows `Spec => []IInv`. The
parts of `IInv`, and what each is for:

* `Typed`, `Budget`: types, and that whoever is to make a window finds the next
  number: windows made and windows still owed are at most the requests and one.
* `MadeShown`, `NamesUsed`, `NoBrowser`, `Places`, `HandlerPlaces`, `LoopEnds`: which
  combinations of the places of the threads there are, and that a window not yet
  made has no name anywhere.
* `SetupGate`: from the making of a window to its publication `SETUP_DONE` is clear.
  A close that is decided meanwhile is therefore deferred or refused, which makes
  `ShowUndisturbed` inductive; and what the loop is to free is never the window in the
  making (`MadeSafe`).
* `RestoreAnchored`, `OpenAnchored`: hence a restore that saw its window up still has
  one, that nobody is closing or freeing (`Anchored`), when it clears `TRAYED`, and
  out of the tray there is one, or a handle is known or about to be (`Watching`),
  until a handler is on its way to the tray or to a shutdown. `NotStranded` follows: a
  tracked WebView may die at any quiet moment, and its handle stays to be polled.
* `TrayedThere` and `RestoreExclusive`: `TRAYED` stays set until the restore that has
  the latch clears it, so a second restore is refused by the latch and `window_show`
  does not take the tray for a loss.
* `KeepAliveNew`, `KeepAliveApart`, `KeepAliveUp`, `KeepAliveTray`: whose keep-alive it
  is, and that a close of that window in the tray is either refused or goes through
  `StopKeepAlive`; `KeepAliveStopped` is the case where all threads are at rest.
* `Counted`: `confirm` is the length of the run of bad readings and is zero whenever
  another window may become the one that is read, so no step violates `Debounced`
  (the theorem `Debounce`).

Each part has a lemma of its own, whose steps are the actions.

## 7. Pipeline: Toolchain, DshCache and Semver

The launch up to the spawn: the runtime (`flow/runtime_env.rs`, `install/*`), then
dsh (`flow/prepare.rs`), with `update_check.rs` beside it. `Toolchain` extends
`DshCache`, whose configuration it shares, and `Pipeline` composes the two.

| variable | code |
|---|---|
| `registry`, `global`, `cache` | npm's dist-tag, the user's own dsh, the launcher's copy (manifest version, entry file): they outlive the process |
| `at`, `config`, `target`, `program`, `probed`, `had`, `goal`, `running` | where `prepare::run` is and its locals |
| `ctx`, `status`, `recent`, `check` | the statics of `update_check.rs`, and each `check_once` that is under way |
| `tool`, `failed`, `onPath` | where `runtime_env::run` is, `INSTALL_FAILED`, the `Runtime` it returns |
| `nub`, `bun`, `pnpm`, `nodes` | the files of the tools, as installs and kills leave them |

Choices worth knowing:

* A version is a triple and a list of identifiers, compared by `Semver`'s `Less`,
  which is `FullVersion::cmp`; `SemverOrder` compares it with the order semver.org
  gives, over the ladder of the test in `version.rs`.
* A package manager takes the tree apart before it succeeds; it may fail, and the
  launcher may be killed, in between. It may also report success and leave no entry
  (`hollow`), which ends the launch as `entry_missing` does
  (`flow/prepare.rs:704-714`). Copies of files are two steps.
* A version may be pinned to a dist-tag (`DistTag`), which is no version: any global
  dsh serves it, an intact copy is kept, and an install resolves it to whatever is
  published.
* `ahead` is a PATH on which the launcher's own `.bin` comes before the user's dsh.
* `moves` bounds what the world does (publish, move the tag back, change or break
  the global dsh, clear the cache, kill the launcher); `touched` excuses a launch
  during which the user changed an installation under it.
* A query that fails, a probe that times out (of a global dsh that works, too, in
  the launch as in the check) and a tool that is not found are choices of the actions
  that ask.

The code also does the following, which the model has and no property forbids:
the global mode installs into the cache when the global dsh does not run; a check
that was under way during an install stores an answer about the copy before it, so
the row that `invalidate` has withdrawn comes back until the next check, against its
purpose (`update_check.rs:235-239`), and of two overlapping checks the last one wins;
`resolve_current` reports the user's dsh in the hybrid mode even when the launch has
taken the cache; the flag of a failed nub install is never lowered in the process,
although its comment says a later success does; the version marker of nub is not
removed before its files are copied anew; a partial copy of bun counts as bun;
`find_node_bin` and `provision_node` take a node without asking its version, so an
old one may be used although `install/node.rs:22` promises one that is "present and
recent enough".

Bounds: two published versions, one a candidate of the other; one move of the world;
six configurations, one per kind of decision (private with nub, private and not
automatic with bun and an old nvm node, hybrid with npm, hybrid pinned with pnpm,
hybrid pinned to a tag, global). One move is enough to break, to kill or to move the
tag at every step of a launch that is followed by others, and only launches are
unbounded. A private launch starts without a global dsh, which it never reads. No
fairness is assumed.

| run | result |
|---|---|
| `pipeline` | types; the dsh that runs is the one the configuration asks for (`Honoured`); an interrupted install is repaired before the spawn (`EntryThere`); unless the version is pinned, no install replaces a copy that can run by an older one, however the dist-tag moves (`IntactKept`); nub on the PATH is the binary (`NubIsNative`); versions are ordered as semver orders them (`SemverOrder`) |
| `pipeline_repair` | a disagreement with `flow/prepare.rs:529-531` and `669-671`: a broken copy, newer than what the dist-tag has moved back to, is repaired towards the registry's latest, an older version (`RepairNotOlder`) |

### Proved

`PipelineProofs` proves `TypeOK` and every other property of the run; `SemverOrder`,
which is about one ladder of versions, for every ladder whose neighbours are in
order. The versions, configurations
and checks are any sets, the moves of the world any number; `VersionsAssumption`
says that a version is a triple of numbers and a list of identifiers.

* `VersionsOrdered`: `Less` is a strict total order. Two lists of identifiers that
  differ have a least place where they do (`LeastOf`), and it decides for one of the
  directions; of three lists, the earlier of the two places that decide does. `SemverRules`
  says which total order it is: releases above their candidates, numbers by value and
  below texts, a list below each that goes on after it. `LadderOrdered` takes a ladder
  from its neighbours to all its places; that the neighbours of the ladder in
  `version.rs` are in order is what TLC evaluates.
* `LessAsym`: `Less` is asymmetric. Where two lists of identifiers first differ, one
  of them decides, and it decides for both directions.
* `NubInv` is inductive with the types: whoever reads the marker of nub
  reads of a native binary, because the marker is written last and an install begins
  only without it; so the copies that would put a shim in place of the binary run
  while there is no marker, and a kill leaves none.
* `CacheInv` is inductive with the types. `Choice` is what configuration and query
  allow the launch to have chosen, `Fresh` that what it read of the user's dsh still
  holds, `Wanted` what an install is to put in the place of the copy that was there,
  `Served` that the copy will do where the launch goes on to the spawn, `Hollow` that an
  install that left no entry is the last of its launch. `Fresh`, `Served` and `Hollow`
  excuse a launch during which the user changed an installation. `Honoured`
  follows at the spawn from `Choice`, `Fresh` and `Served`, `EntryThere` from `Served`,
  and `IntactKept` from `Wanted`, where `LessAsym` turns "the copy is older than the
  target" into "the target is not older than the copy".

## 8. Services: KernelBoot, ControlPipe, Pty and SelfUpdate

Four services of the process that share no variable. `Services` extends all four
(`SelfUpdate` is the subject of section 5) and lets a behaviour exercise one of them
(`focus`): since none reads what another writes, a property of one holds in every
interleaving exactly when it holds while the others stand still, and the state space
is their sum. The queues and the counts end, so deadlock is not checked.

**KernelBoot** is the launcher inside a host process: `launch()` of the addon,
`run_with_options`, the kernel thread, `window_show`, and the lock file.

| variable | code |
|---|---|
| `handle`, `handleLock` | the cached handle of `run_with_options` and its mutex |
| `runHandle`, `caller` | `RUN_HANDLE`, and where the thread that has it locked is |
| `cliLock`, `show` | `CLI_LOCK`, and where `window_show` is |
| `fileLock` | who holds `instance.lock` |
| `kernel`, `started` | each kernel thread and the flag `is_running` reads |
| `uiOwner` | the kernel that last reset the shared state of the user interface |

With single-instance off the code promises less, and the model shows it: a second
`launch()` before the first kernel reports itself running boots a second one, whose
reset clears the state of the first; an ending kernel clears the handle of a newer
one; and a `launch()` that is refused drops `RUN_HANDLE`, so `is_running` is false
beside a kernel that runs (`kernel.rs:40`). `OneKernel` is stated for single-instance
on. `Kernels` bounds the boots: three, so that an ending, a live and a new kernel
meet.

**ControlPipe** is the client of `plugins/dshl-pipe` and its server in `control.rs`,
over sockets that fail, break and are replaced.

| variable | code |
|---|---|
| `req` | of each request, whether it waits in `#ensure`, is in `#pending`, or was settled |
| `socket`, `current`, `settled` | each socket, `#socket`, and the promise of `#ensure` |
| `buffer` | what `#buffer` holds before the next chunk |
| `toServer`, `toClient` | the two directions of each connection |
| `server`, `launcher` | `handle_connection` for each socket, and the process around it |

An event handler of the client is one step with the continuations of its promises. A
destroyed socket emits `close` later, when another may be current: `CloseEvent`
closes that one and rejects its requests, as the code does. A request made while
the connection is being established is written before the hello, and the server
closes the connection (`RequestWrites`, `Handshake`); half an answer left in the
buffer spoils the first answer of the next connection (`Receive`). `Settles` holds
through all this but for one case, which it names: a request whose socket is
destroyed before it connects waits in `#ensure` for ever. Three requests (one of
which makes the launcher exit) and three sockets: one that dies, one that its late
event kills, one after both.

**Pty** is a terminal session: `spawn`, its reader, control and wait threads, the
registry, the calls of the addon and the WebSocket connections. Who holds the
session's `Arc` decides when the control channel closes (`Held`). `Released` is
about a session that nobody can reach any more. The code can also leave one that is
reachable for ever: an entry made after the wait thread has removed it, and a
connection that stays open, which nothing but its client ends. A kill from such a
connection signals a pid that was reaped, and an interactive shell that ignores
SIGTERM outlives a kill that has removed its entry; `KillHonoured` says that the
signal is sent, not that the shell dies. One session, since sessions share nothing
but the map; two connections; `MaxQueue` messages.

Fairness: timers fire and a destroyed socket emits `close` (Node's contract); the
threads of a session run, and its reader sees the end of the terminal when the shell
has exited, as the kernel does for a session leader (a ConPTY may not). Nothing is
assumed of the server, the shell, the host or the connections.

| run | result |
|---|---|
| `services` | types; of the update what section 5 says; two set-ups never meet (`SetupsApart`); with single-instance on no second kernel comes up (`OneKernel`); every request is settled (`Settles`); an unreachable session ends its control thread and frees its terminal (`Released`); a successful `kill` is carried out (`KillHonoured`) |
| `kernel_relaunch` | a disagreement with `crates/dshl-cli/src/run.rs:181-184`: the slot still holds the lock of the previous kernel when the next boot asks for it, and a second open file of the same process is refused, so with single-instance on no relaunch succeeds |

### Proved

`KernelBootProofs` proves `BootSpec => []BootInv` and from it `BootTypeOK`,
`SetupsApart` and `OneKernel`, for any finite set of kernels
(`KernelsAssumption`: it does not contain the empty handle).

`SetupsApart` needs `LockHeld`: a kernel in its set-up, and a `window_show` at work,
have the boot lock, so two of them would be one. `OneKernel` needs `LockFirst`:
under single-instance a caller that has come to the spawn has the lock file and no
kernel was ever started, since the file, once ours, is never given back. There is
one kernel in the life of the process, then, for the reason the second run exposes.

`PtyProofs` proves `PtySpec => []PtyInv`, for any sessions, connections and
`MaxQueue` (`PtyAssumption`: `NoSession` is no session, a channel has room for a
message), and from it the types and the safety parts of the two liveness properties:

* `KillsOwed`: a `kill` that reported success has been carried out, or the pid is not
  known, or its message is in the channel of a control thread that receives. Only
  a control thread that receives has messages (`ChannelOpen`), it ends only when the
  channel is empty and nobody holds the session, and a caller between its message and
  the removal of the entry is covered too (`CallOwed`).
* `AbandonedForGood`: a session nobody holds any more is never held again (`Found`: who
  holds it found it in the registry, and only `spawn` puts it there), so its channel is
  only drained.

That the control thread then does come to the message, and to the end, is
`KillHonoured` and `Released`: liveness, which TLC checks.

`ServicesProofs` proves the same of the pipe, for any finite or infinite set of
requests and any number of sockets (`PipeAssumption`), and composes the four parts.
`PipeInv` has the types and

* `OneConnection`: a socket that connects or is open is the current one, whichever
  late `close` events of older sockets run; `#ensure` makes a new one only when there
  is none.
* `Waiting`: a request in `#ensure` waits for a socket that is used and whose promise
  is open, and it is alone there. `WaitsHaveEnd` follows: the timer of `#ensure` still
  rejects it, or it is one of the requests that `Stranded` names, which `Settles`
  excepts.
* `OnWireOnce` with `HelloLate`, `UnusedEmpty`, `ServerLate`: a frame is on the wire
  once, on the socket of its request, and never with its answer. No request
  is written again, so each is carried out once at most (`ServesOnce`, an action
  property), and a server past its handshake finds no second hello (`NeverStuck`).

`ServicesInv` is the conjunction of the four invariants. A step of `Services` is a
step of one part and a stutter of the three others (`OneMoves`), which is all the
composition needs: no lemma of a part is proved again. `TypeOK`, `SetupsApart` and
`OneKernel` of the run follow, and `KillOwed` beside them. `Settles`, `Released` and
`KillHonoured` need fairness and stay with TLC.

The properties that only the proof modules define (`KillOwed`, `StaysAbandoned`,
`OneConnection`, `WaitHasEnd`, `OnWireOnce`, `NeverStuck`, `ServedOnce`) were found
to hold on the constants of the run, and on two sessions, before they were proved.

## 9. Not modelled

* The plugin guard: its counters live in a file that each start reads and writes
  once; a module of its own is planned.
* The activation file and the pending profile (section 2). The profile is taken
  before the spawn: a launch that fails after that has lost it.
* What a control method does beyond succeeding, failing or making the launcher
  exit; the bytes of a terminal; the head of an HTTP upgrade.
* Configuration, mirrors, texts, the tray backends, the platform layer, Windows
  process plumbing, geometry, assets, embedding shims and the plugin's user
  interface: I/O, platform calls, display data or parsing without a protocol of
  their own. `PROJECT.json` has the reason at each.
