------------------------------ MODULE KernelBoot ------------------------------
(***************************************************************************)
(* Booting and stopping launcher kernels inside one host process.          *)
(*                                                                         *)
(* The plugin loads the launcher as a library of a Node process.  Its      *)
(* launch() starts the kernel on a thread of its own and hands back a      *)
(* handle; the kernel sets the user interface up, runs the supervisor loop *)
(* and ends, by a clean exit or by a panic; launch() may then be called    *)
(* again.  Three locks order all this: the mutex of the cached handle      *)
(* (HANDLE), the boot lock that keeps two set-ups of the user interface    *)
(* apart (CLI_LOCK), and the lock file that keeps two launchers of one     *)
(* user apart.  Callers are threads of the host: one may be in launch()    *)
(* (which RUN_HANDLE serialises) while another asks for the window.        *)
(*                                                                         *)
(* Sources: crates/dshl-cli/src/run.rs, handle.rs and control.rs,          *)
(* crates/dshl-native/src/kernel.rs, src/platform/single_instance.rs and   *)
(* src/ui/state.rs.                                                        *)
(***************************************************************************)
EXTENDS Naturals, FiniteSets

CONSTANTS
    Kernels,        \* the kernel threads a behaviour may start
    NoKernel        \* an empty handle

ASSUME KernelsAssumption == IsFiniteSet(Kernels) /\ NoKernel \notin Kernels

VARIABLES
    single,         \* [ui] single-instance and the option of launch() are on
    fileLock,       \* who holds instance.lock: nobody, this process, another
    kernel,         \* what each kernel thread is doing
    started,        \* the flag is_running() reads, per kernel
    handle,         \* the cached handle of run_with_options
    handleLock,     \* its mutex: free, or held by the caller of launch()
    runHandle,      \* RUN_HANDLE of the native addon
    caller,         \* where the thread inside launch() is
    cliLock,        \* the boot lock: free, a kernel's, or window_show's
    show,           \* where the thread inside window_show() is
    uiOwner         \* the kernel whose reset last cleared the shared UI state

bootVars == <<single, fileLock, kernel, started, handle, handleLock, runHandle,
              caller, cliLock, show, uiOwner>>

Stages == {"none", "spawned", "setup", "loop", "stopped", "unwinding", "dead"}

\* A kernel thread that was started and has not left its loop.
Alive(k) == kernel[k] \in {"spawned", "setup", "loop"}

\* The type invariant; a lock is held only by a thread that will release it.
BootTypeOK ==
    /\ single \in BOOLEAN
    /\ fileLock \in {"free", "ours", "other"}
    /\ kernel \in [Kernels -> Stages]
    /\ started \in [Kernels -> BOOLEAN]
    /\ handle \in Kernels \cup {NoKernel}
    /\ handleLock \in {"free", "caller"}
    /\ runHandle \in Kernels \cup {NoKernel}
    /\ caller \in {"idle", "handle", "acquire", "spawn"}
    /\ cliLock \in [by : {"nobody", "kernel", "show"}, who : Kernels \cup {NoKernel}]
    /\ show \in {"idle", "waiting", "inside"}
    /\ uiOwner \in Kernels \cup {NoKernel}
    /\ handleLock = "caller" => caller \in {"acquire", "spawn"}
    /\ cliLock.by = "show" => show = "inside"
    /\ cliLock.by = "kernel" => kernel[cliLock.who] \in {"setup", "unwinding"}

Unlocked == [by |-> "nobody", who |-> NoKernel]
LockedBy(k) == [by |-> "kernel", who |-> k]
Shown == [by |-> "show", who |-> NoKernel]

BootInit ==
    /\ single \in BOOLEAN
    /\ fileLock \in {"free", "other"}
    /\ kernel = [k \in Kernels |-> "none"]
    /\ started = [k \in Kernels |-> FALSE]
    /\ handle = NoKernel
    /\ handleLock = "free"
    /\ runHandle = NoKernel
    /\ caller = "idle"
    /\ cliLock = Unlocked
    /\ show = "idle"
    /\ uiOwner = NoKernel

IsRunning(h) == h # NoKernel /\ started[h]

-----------------------------------------------------------------------------
(* launch() and run_with_options                                           *)

\* The addon answers "already running" from its own handle; otherwise it
\* forgets that handle and calls run_with_options.
Launch ==
    /\ caller = "idle"
    /\ ~IsRunning(runHandle)
    /\ runHandle' = NoKernel
    /\ caller' = "handle"
    /\ UNCHANGED <<single, fileLock, kernel, started, handle, handleLock,
                   cliLock, show, uiOwner>>

\* The cached handle is returned when it still runs; otherwise the caller
\* keeps its mutex for the rest of the call.
CheckHandle ==
    /\ caller = "handle"
    /\ handleLock = "free"
    /\ \/ /\ IsRunning(handle)
          /\ runHandle' = handle
          /\ caller' = "idle"
          /\ UNCHANGED handleLock
       \/ /\ ~IsRunning(handle)
          /\ handleLock' = "caller"
          /\ caller' = "acquire"
          /\ UNCHANGED runHandle
    /\ UNCHANGED <<single, fileLock, kernel, started, handle, cliLock, show, uiOwner>>

\* Fault: the previous kernel's lock is given up before the next is asked for.
CanAcquireReleasing == fileLock # "other"

\* The lock file admits one open file at a time, of whichever process: a file
\* this process still keeps in its slot refuses the next one as well.
CanAcquire == fileLock = "free"

\* The file lock is taken and kept in the slot for the rest of the process; a
\* refusal ends the call, after the running launcher was asked to come forward.
Acquire ==
    /\ caller = "acquire"
    /\ \/ /\ ~single
          /\ caller' = "spawn"
          /\ UNCHANGED <<fileLock, handleLock>>
       \/ /\ single /\ CanAcquire
          /\ fileLock' = "ours"
          /\ caller' = "spawn"
          /\ UNCHANGED handleLock
       \/ /\ single /\ ~CanAcquire
          /\ handleLock' = "free"
          /\ caller' = "idle"
          /\ UNCHANGED fileLock
    /\ UNCHANGED <<single, kernel, started, handle, runHandle, cliLock, show, uiOwner>>

\* The kernel thread starts and both handles name it.
SpawnKernel ==
    /\ caller = "spawn"
    /\ \E k \in Kernels :
         /\ kernel[k] = "none"
         /\ kernel' = [kernel EXCEPT ![k] = "spawned"]
         /\ handle' = k
         /\ runHandle' = k
    /\ handleLock' = "free"
    /\ caller' = "idle"
    /\ UNCHANGED <<single, fileLock, started, cliLock, show, uiOwner>>

\* The thread cannot be created: the call fails, the file lock stays.
SpawnKernelFails ==
    /\ caller = "spawn"
    /\ handleLock' = "free"
    /\ caller' = "idle"
    /\ UNCHANGED <<single, fileLock, kernel, started, handle, runHandle, cliLock,
                   show, uiOwner>>

-----------------------------------------------------------------------------
(* The kernel thread                                                       *)

\* Fault: the boot does not wait for the boot lock.
BootUnlocked(k) ==
    /\ kernel[k] = "spawned"
    /\ cliLock' = LockedBy(k)
    /\ uiOwner' = k
    /\ started' = [started EXCEPT ![k] = TRUE]
    /\ kernel' = [kernel EXCEPT ![k] = "setup"]
    /\ UNCHANGED <<single, fileLock, handle, handleLock, runHandle, caller, show>>

\* The thread takes the boot lock, clears the shared state of the user
\* interface, reports itself running and sets the user interface up.
Boot(k) ==
    /\ kernel[k] = "spawned"
    /\ cliLock = Unlocked
    /\ cliLock' = LockedBy(k)
    /\ uiOwner' = k
    /\ started' = [started EXCEPT ![k] = TRUE]
    /\ kernel' = [kernel EXCEPT ![k] = "setup"]
    /\ UNCHANGED <<single, fileLock, handle, handleLock, runHandle, caller, show>>

\* The set-up is over: the boot lock is released before the long-running loop.
SetupDone(k) ==
    /\ kernel[k] = "setup"
    /\ cliLock' = Unlocked
    /\ kernel' = [kernel EXCEPT ![k] = "loop"]
    /\ UNCHANGED <<single, fileLock, started, handle, handleLock, runHandle,
                   caller, show, uiOwner>>

\* The supervisor loop returns; the flag falls before the handle is cleared.
LoopEnds(k) ==
    /\ kernel[k] = "loop"
    /\ started' = [started EXCEPT ![k] = FALSE]
    /\ kernel' = [kernel EXCEPT ![k] = "stopped"]
    /\ UNCHANGED <<single, fileLock, handle, handleLock, runHandle, caller,
                   cliLock, show, uiOwner>>

\* A panic in the set-up or in the loop: the drop guard first lowers the flag.
Panic(k) ==
    /\ kernel[k] \in {"setup", "loop"}
    /\ started' = [started EXCEPT ![k] = FALSE]
    /\ kernel' = [kernel EXCEPT ![k] = "unwinding"]
    /\ UNCHANGED <<single, fileLock, handle, handleLock, runHandle, caller,
                   cliLock, show, uiOwner>>

\* Fault: a panic leaves the boot lock held.
ClearHandleOnly(k) ==
    /\ kernel[k] \in {"stopped", "unwinding"}
    /\ handleLock = "free"
    /\ handle' = NoKernel
    /\ kernel' = [kernel EXCEPT ![k] = "dead"]
    /\ UNCHANGED <<single, fileLock, started, handleLock, runHandle, caller, cliLock,
                   show, uiOwner>>

\* The thread clears whatever handle is cached by now, its own or a newer
\* one, and ends; a panic in the set-up releases the boot lock after that.
ClearHandle(k) ==
    /\ kernel[k] \in {"stopped", "unwinding"}
    /\ handleLock = "free"
    /\ handle' = NoKernel
    /\ cliLock' = IF cliLock = LockedBy(k) THEN Unlocked ELSE cliLock
    /\ kernel' = [kernel EXCEPT ![k] = "dead"]
    /\ UNCHANGED <<single, fileLock, started, handleLock, runHandle, caller, show,
                   uiOwner>>

-----------------------------------------------------------------------------
(* window_show() of the addon                                              *)

ShowAsked ==
    /\ show = "idle"
    /\ show' = "waiting"
    /\ UNCHANGED <<single, fileLock, kernel, started, handle, handleLock,
                   runHandle, caller, cliLock, uiOwner>>

\* It polls the boot lock and holds it while it may set the window up.
ShowEnters ==
    /\ show = "waiting"
    /\ cliLock = Unlocked
    /\ cliLock' = Shown
    /\ show' = "inside"
    /\ UNCHANGED <<single, fileLock, kernel, started, handle, handleLock,
                   runHandle, caller, uiOwner>>

\* Ten seconds of a held lock: the request is skipped and reported so.
ShowSkips ==
    /\ show = "waiting"
    /\ cliLock # Unlocked
    /\ show' = "idle"
    /\ UNCHANGED <<single, fileLock, kernel, started, handle, handleLock,
                   runHandle, caller, cliLock, uiOwner>>

ShowReturns ==
    /\ show = "inside"
    /\ cliLock' = Unlocked
    /\ show' = "idle"
    /\ UNCHANGED <<single, fileLock, kernel, started, handle, handleLock,
                   runHandle, caller, uiOwner>>

\* Another launcher of the user starts (and holds the lock file) or ends.
OtherLauncher ==
    /\ \/ fileLock = "free" /\ fileLock' = "other"
       \/ fileLock = "other" /\ fileLock' = "free"
    /\ UNCHANGED <<single, kernel, started, handle, handleLock, runHandle, caller,
                   cliLock, show, uiOwner>>

-----------------------------------------------------------------------------

KernelStep(k) ==
    \/ Boot(k) \/ SetupDone(k) \/ LoopEnds(k) \/ Panic(k) \/ ClearHandle(k)

CallerStep == CheckHandle \/ Acquire \/ SpawnKernel \/ SpawnKernelFails

BootNext ==
    \/ Launch \/ CallerStep
    \/ \E k \in Kernels : KernelStep(k)
    \/ ShowAsked \/ ShowEnters \/ ShowSkips \/ ShowReturns
    \/ OtherLauncher

BootSpec == BootInit /\ [][BootNext]_bootVars

-----------------------------------------------------------------------------
(* Properties                                                              *)

\* Whatever calls, panics and restarts came before, the boot lock keeps
\* every set-up of the user interface apart: two kernels are never inside it
\* together, and window_show() never enters while one is (run.rs, CLI_LOCK,
\* and the bounded wait of control.rs).
SetupsApart ==
    /\ \A j, k \in Kernels : kernel[j] = "setup" /\ kernel[k] = "setup" => j = k
    /\ \A k \in Kernels : kernel[k] = "setup" => show # "inside" /\ uiOwner = k

\* With single-instance on, no second kernel comes up beside a live one, in
\* this process or in another: not even by a second launch() in the gap
\* before the first kernel reports itself running, where the cached handle
\* does not stop it, nor after an ending kernel cleared a newer one's handle.
OneKernel ==
    single => /\ \A j, k \in Kernels : Alive(j) /\ Alive(k) => j = k
              /\ \A k \in Kernels : Alive(k) => fileLock = "ours"

\* The relaunch that the comment on INSTANCE_LOCK promises: a launch() of
\* this process is not refused by the lock of a kernel that has ended, when
\* no kernel is left and no other launcher runs (run.rs, the slot).
Relaunches ==
    [][ (Acquire /\ caller' = "idle" /\ \E k \in Kernels : kernel[k] = "dead") =>
            fileLock = "other" \/ \E k \in Kernels : Alive(k) ]_bootVars
=============================================================================
