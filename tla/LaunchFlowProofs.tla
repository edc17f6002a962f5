-------------------------- MODULE LaunchFlowProofs --------------------------
(***************************************************************************)
(* Proofs about LaunchFlow, for any threads, any system, any values of     *)
(* dsh.single_instance and any bounds: IInv is an invariant, and with it   *)
(* TypeOK, GateExclusive, DshTracked, DshExclusion and UrlHonest.          *)
(*                                                                         *)
(* Every step lemma splits Next by the thread that moves: a worker (1), a  *)
(* thread behind a button or the control plane (2, 3), a countdown (4),    *)
(* the main thread (5), a dsh process (6).                                 *)
(***************************************************************************)
EXTENDS LaunchFlow, TLAPS

\* The sets, and the names actions give to a program counter and to a frame.
USE DEF Dsh, NoDsh, Maybe, IsAlive, At, Running, Goto, Hold, Unlock,
        flagVars, crashVars, slotVars, pageVars, dshVars, workerVars, mainVars,
        history

(***************************************************************************)
(* Initial states.                                                         *)
(***************************************************************************)

\* The statics of the launcher are typed when the process starts.
LEMMA TypeInit == Init => TypeOK
<1> SUFFICES ASSUME Init PROVE TypeOK
  OBVIOUS
<1> USE BoundsAssumption DEF Init
<1>1. {gate, shutdown, exit, launched, restart, cancelled, restartNow, nav}
        \subseteq BOOLEAN
  OBVIOUS
<1>2. proc \in [Dsh -> {"unborn", "alive", "clean", "crashed"}]
  OBVIOUS
<1>3. pc \in [Worker -> Gated \cup Ungated]
  BY DEF Gated, Ungated
<1>4. held \in [Worker -> Maybe] /\ single \in [Worker -> BOOLEAN]
  OBVIOUS
<1>5. /\ gen \in 0 .. MaxDsh /\ banner \in 0 .. MaxDsh
      /\ born \in 0 .. MaxDsh /\ asks \in 0 .. MaxAsk
  OBVIOUS
<1>6. countdown \in [Dsh -> {"none", "tick", "late", "abort", "abortStore",
                             "go", "goStore", "launch", "done"}]
  OBVIOUS
<1> QED
  BY <1>1, <1>2, <1>3, <1>4, <1>5, <1>6 DEF TypeOK

\* At the start no thread has the gate, no mutex is held and no dsh was born.
LEMMA InitIInv == Init => IInv
<1> SUFFICES ASSUME Init PROVE IInv
  OBVIOUS
<1> USE BoundsAssumption, WorkerAssumption DEF Init
<1>1. TypeOK
  BY TypeInit
<1>2. \A w \in Worker : pc[w] \in {"call", "idle"}
  OBVIOUS
<1>3. \A p \in Dsh : proc[p] = "unborn"
  OBVIOUS
<1>4. GateExclusive
  BY <1>2 DEF GateExclusive, Gated
<1>5. GenBound
  BY <1>2 DEF GenBound
<1>6. LockOwned /\ SlotEmptied
  BY <1>2 DEF LockOwned, SlotEmptied
<1>7. BornInOrder
  BY <1>3 DEF BornInOrder
<1>8. DshTracked /\ DshExclusion
  BY <1>3 DEF DshTracked, DshExclusion
<1>9. GuardHolds /\ UrlOwned /\ UrlHonest
  BY <1>2 DEF GuardHolds, UrlOwned, UrlHonest
<1> QED
  BY <1>1, <1>4, <1>5, <1>6, <1>7, <1>8, <1>9 DEF IInv

(***************************************************************************)
(* Steps.                                                                  *)
(***************************************************************************)

\* GenBound keeps CRASH_GEN within its bound when a recovery begins.
LEMMA TypeStep ==
  ASSUME TypeOK, GenBound, [Next]_vars
  PROVE  TypeOK'
<1> USE BoundsAssumption DEF
      TypeOK, Gated, Ungated
<1>1. ASSUME NEW w \in Worker, WorkerStep(w) PROVE TypeOK'
  <2>1. CASE Enter(w)
    BY <2>1 DEF Enter, GateFree
  <2>2. CASE Prologue(w)
    <3>1. /\ gate' \in BOOLEAN /\ single' \in [Worker -> BOOLEAN]
          /\ pc' \in [Worker -> Gated \cup Ungated]
      BY <2>2, ConfigAssumption DEF Prologue
    <3>2. stale' \in Maybe /\ url' \in Maybe /\ banner' \in 0 .. MaxDsh
      BY <2>2 DEF Prologue, ResetPage
    <3> QED
      BY <2>2, <3>1, <3>2 DEF Prologue
  <2>3. CASE Reap(w)
    BY <2>3 DEF Reap, TakeChild
  <2>4. CASE Reaped(w)
    BY <2>4 DEF Reaped
  <2>5. CASE ReapGivesUp(w)
    BY <2>5 DEF ReapGivesUp
  <2>6. CASE Check(w)
    <3>1. gate' \in BOOLEAN /\ pc' \in [Worker -> Gated \cup Ungated]
      BY <2>6 DEF Check
    <3>2. stale' \in Maybe /\ url' \in Maybe /\ banner' \in 0 .. MaxDsh
      BY <2>6 DEF Check, ResetPage
    <3> QED
      BY <2>6, <3>1, <3>2 DEF Check
  <2>7. CASE StepFails(w)
    BY <2>7 DEF StepFails
  <2>8. CASE Spawn(w)
    BY <2>8 DEF Spawn
  <2>9. CASE Register(w)
    BY <2>9 DEF Register
  <2>10. CASE UrlSeen(w)
    BY <2>10 DEF UrlSeen
  <2>11. CASE UrlMissing(w)
    BY <2>11 DEF UrlMissing
  <2>12. CASE Interrupt(w)
    BY <2>12 DEF Interrupt
  <2>13. CASE Abort(w)
    BY <2>13 DEF Abort, TakeChild
  <2>14. CASE Aborted(w)
    BY <2>14 DEF Aborted
  <2>15. CASE HandOff(w)
    BY <2>15 DEF HandOff
  <2>16. CASE CleanExit(w)
    BY <2>16 DEF CleanExit
  <2>17. CASE CrashExit(w)
    <3>1. gen + 1 \in Dsh
      BY <2>17 DEF CrashExit, GenBound
    <3>2. /\ gen' \in 0 .. MaxDsh /\ banner' \in 0 .. MaxDsh
          /\ url' \in Maybe
      BY <2>17, <3>1 DEF CrashExit, BeginRecovery
    <3>3. {restart, cancelled, restartNow, nav, exit}' \subseteq BOOLEAN
      BY <2>17 DEF CrashExit, BeginRecovery
    <3>4. countdown' \in [Dsh -> {"none", "tick", "late", "abort", "abortStore",
                                   "go", "goStore", "launch", "done"}]
      BY <2>17, <3>1 DEF CrashExit, BeginRecovery
    <3>5. /\ pc' \in [Worker -> Gated \cup Ungated]
          /\ held' \in [Worker -> Maybe]
      BY <2>17 DEF CrashExit
    <3> QED
      BY <2>17, <3>2, <3>3, <3>4, <3>5 DEF CrashExit
  <2>18. CASE Done(w)
    BY <2>18 DEF Done, ThreadEnds
  <2> QED
    BY <1>1, <2>1, <2>2, <2>3, <2>4, <2>5, <2>6, <2>7, <2>8, <2>9, <2>10, <2>11, <2>12, <2>13, <2>14, <2>15, <2>16, <2>17, <2>18 DEF WorkerStep
<1>2. ASSUME NEW w \in Worker, Retry(w) \/ ForceKillStale(w) \/ KillTree(w)
                           \/ ForceKillSettles(w) \/ AskRestart(w) \/ ServeRestart(w)
     PROVE TypeOK'
  <2>1. CASE Retry(w)
    BY <2>1 DEF Retry, Ask, OnlyPc, RetryAllowed
  <2>2. CASE ForceKillStale(w)
    BY <2>2 DEF ForceKillStale, OnlyPc
  <2>3. CASE KillTree(w)
    BY <2>3 DEF KillTree
  <2>4. CASE ForceKillSettles(w)
    BY <2>4 DEF ForceKillSettles, OnlyPc
  <2>5. CASE AskRestart(w)
    BY <2>5 DEF AskRestart, Ask
  <2>6. CASE ServeRestart(w)
    BY <2>6 DEF ServeRestart
  <2> QED
    BY <1>2, <2>1, <2>2, <2>3, <2>4, <2>5, <2>6
<1>3. ASSUME ClickRestartNow \/ ClickCancel \/ RequestShutdown PROVE TypeOK'
  <2>1. CASE ClickRestartNow
    BY <2>1 DEF ClickRestartNow, Ask
  <2>2. CASE ClickCancel
    BY <2>2 DEF ClickCancel, Ask
  <2>3. CASE RequestShutdown
    BY <2>3 DEF RequestShutdown
  <2> QED
    BY <1>3, <2>1, <2>2, <2>3
<1>4. ASSUME NEW g \in Dsh, CountdownStep(g) PROVE TypeOK'
  <2>1. CASE Deadline(g)
    BY <2>1 DEF Deadline, CountdownAt, OnlyCountdown
  <2>2. CASE Tick(g)
    BY <2>2 DEF Tick, Verdict, CountdownAt, OnlyCountdown
  <2>3. CASE FinishCheck(g)
    BY <2>3 DEF FinishCheck, CountdownAt, OnlyCountdown
  <2>4. CASE FinishStore(g)
    <3>1. cancelled' = FALSE /\ restartNow' = FALSE /\ banner' = 0
      BY <2>4 DEF FinishStore
    <3>2. countdown' \in [Dsh -> {"none", "tick", "late", "abort", "abortStore",
                                   "go", "goStore", "launch", "done"}]
      BY <2>4 DEF FinishStore, CountdownAt
    <3>3. banner' \in 0 .. MaxDsh
      BY <3>1
    <3>4. {gate, shutdown, exit, launched, restart, cancelled, restartNow, nav}'
            \subseteq BOOLEAN
      BY <2>4, <3>1 DEF FinishStore, OnlyCountdown
    <3> QED
      BY <2>4, <3>1, <3>2, <3>3, <3>4 DEF FinishStore, OnlyCountdown
  <2>5. CASE AutoRestart(g)
    BY <2>5 DEF AutoRestart, CountdownAt, OnlyCountdown
  <2> QED
    BY <1>4, <2>1, <2>2, <2>3, <2>4, <2>5 DEF CountdownStep
<1>5. ASSUME MainStep PROVE TypeOK'
  <2>1. CASE LoopNavigates
    BY <2>1 DEF LoopNavigates, OnlyMain
  <2>2. CASE LoopBreaks
    BY <2>2 DEF LoopBreaks, OnlyMain
  <2>3. CASE KillDsh
    BY <2>3 DEF KillDsh, OnlyMain
  <2>4. CASE KilledDsh
    BY <2>4 DEF KilledDsh, OnlyMain
  <2>5. CASE ProcessExit
    BY <2>5 DEF ProcessExit, LauncherDied, OnlyMain
  <2> QED
    BY <1>5, <2>1, <2>2, <2>3, <2>4, <2>5 DEF MainStep
<1>6. ASSUME NEW p \in Dsh, PrintUrl(p) \/ Exit(p) PROVE TypeOK'
  <2>1. CASE PrintUrl(p)
    BY <2>1 DEF PrintUrl, OnlyDsh
  <2>2. CASE Exit(p)
    BY <2>2 DEF Exit, OnlyDsh
  <2> QED
    BY <1>6, <2>1, <2>2
<1>7. CASE UNCHANGED vars
  BY <1>7 DEF vars
<1> QED
  BY <1>1, <1>2, <1>3, <1>4, <1>5, <1>6, <1>7 DEF Next, Terminated

\* Only Enter raises the gate, when it is free; whoever lowers it had it.
LEMMA GateStep ==
  ASSUME TypeOK, GateExclusive, [Next]_vars
  PROVE  GateExclusive'
<1> USE DEF
      TypeOK, GateExclusive, Gated, Ungated
<1>1. ASSUME NEW w \in Worker, WorkerStep(w) PROVE GateExclusive'
  BY <1>1 DEF
     WorkerStep, Enter, GateFree, Prologue, ResetPage, Reap, TakeChild,
     Reaped, ReapGivesUp, Check, StepFails, Spawn, Register, UrlSeen,
     UrlMissing, Interrupt, Abort, Aborted, HandOff, CleanExit, CrashExit,
     BeginRecovery, Done, ThreadEnds
<1>2. ASSUME NEW w \in Worker, Retry(w) \/ ForceKillStale(w) \/ KillTree(w)
                           \/ ForceKillSettles(w) \/ AskRestart(w) \/ ServeRestart(w)
     PROVE GateExclusive'
  BY <1>2 DEF
     Retry, Ask, OnlyPc, RetryAllowed, ForceKillStale, KillTree,
     ForceKillSettles, AskRestart, ServeRestart
<1>3. ASSUME ClickRestartNow \/ ClickCancel \/ RequestShutdown PROVE GateExclusive'
  BY <1>3 DEF
     ClickRestartNow, Ask, ClickCancel, RequestShutdown
<1>4. ASSUME NEW g \in Dsh, CountdownStep(g) PROVE GateExclusive'
  BY <1>4 DEF
     CountdownStep, Deadline, CountdownAt, OnlyCountdown, Tick, Verdict,
     FinishCheck, FinishStore, AutoRestart
<1>5. ASSUME MainStep PROVE GateExclusive'
  BY <1>5 DEF
     MainStep, LoopNavigates, OnlyMain, LoopBreaks, KillDsh, KilledDsh,
     ProcessExit, LauncherDied
<1>6. ASSUME NEW p \in Dsh, PrintUrl(p) \/ Exit(p) PROVE GateExclusive'
  BY <1>6 DEF
     PrintUrl, OnlyDsh, Exit
<1>7. CASE UNCHANGED vars
  BY <1>7 DEF vars
<1> QED
  BY <1>1, <1>2, <1>3, <1>4, <1>5, <1>6, <1>7 DEF Next, Terminated

\* A recovery begins for the one dsh that is supervised, and uses it up.
LEMMA GenStep ==
  ASSUME TypeOK, GateExclusive, GenBound, [Next]_vars
  PROVE  GenBound'
<1> USE DEF
      TypeOK, GateExclusive, GenBound, Gated, Ungated
<1>1. ASSUME NEW w \in Worker, WorkerStep(w) PROVE GenBound'
  BY <1>1 DEF
     WorkerStep, Enter, GateFree, Prologue, ResetPage, Reap, TakeChild,
     Reaped, ReapGivesUp, Check, StepFails, Spawn, Register, UrlSeen,
     UrlMissing, Interrupt, Abort, Aborted, HandOff, CleanExit, CrashExit,
     BeginRecovery, Done, ThreadEnds
<1>2. ASSUME NEW w \in Worker, Retry(w) \/ ForceKillStale(w) \/ KillTree(w)
                           \/ ForceKillSettles(w) \/ AskRestart(w) \/ ServeRestart(w)
     PROVE GenBound'
  BY <1>2 DEF
     Retry, Ask, OnlyPc, RetryAllowed, ForceKillStale, KillTree,
     ForceKillSettles, AskRestart, ServeRestart
<1>3. ASSUME ClickRestartNow \/ ClickCancel \/ RequestShutdown PROVE GenBound'
  BY <1>3 DEF
     ClickRestartNow, Ask, ClickCancel, RequestShutdown
<1>4. ASSUME NEW g \in Dsh, CountdownStep(g) PROVE GenBound'
  BY <1>4 DEF
     CountdownStep, Deadline, CountdownAt, OnlyCountdown, Tick, Verdict,
     FinishCheck, FinishStore, AutoRestart
<1>5. ASSUME MainStep PROVE GenBound'
  BY <1>5 DEF
     MainStep, LoopNavigates, OnlyMain, LoopBreaks, KillDsh, KilledDsh,
     ProcessExit, LauncherDied
<1>6. ASSUME NEW p \in Dsh, PrintUrl(p) \/ Exit(p) PROVE GenBound'
  BY <1>6 DEF
     PrintUrl, OnlyDsh, Exit
<1>7. CASE UNCHANGED vars
  BY <1>7 DEF vars
<1> QED
  BY <1>1, <1>2, <1>3, <1>4, <1>5, <1>6, <1>7 DEF Next, Terminated

\* A thread takes the DSH_CHILD mutex when it is free and names its holder.
LEMMA LockStep ==
  ASSUME TypeOK, LockOwned, [Next]_vars
  PROVE  LockOwned'
<1> USE WorkerAssumption DEF
      TypeOK, LockOwned, Gated, Ungated
<1>1. ASSUME NEW w \in Worker, WorkerStep(w) PROVE LockOwned'
  <2>1. CASE Enter(w)
    BY <2>1 DEF Enter, GateFree
  <2>2. CASE Prologue(w)
    BY <2>2 DEF Prologue, ResetPage
  <2>3. CASE Reap(w)
    BY <2>3 DEF Reap, TakeChild
  <2>4. CASE Reaped(w)
    BY <2>4 DEF Reaped
  <2>5. CASE ReapGivesUp(w)
    BY <2>5 DEF ReapGivesUp
  <2>6. CASE Check(w)
    BY <2>6 DEF Check, ResetPage
  <2>7. CASE StepFails(w)
    BY <2>7 DEF StepFails
  <2>8. CASE Spawn(w)
    BY <2>8 DEF Spawn
  <2>9. CASE Register(w)
    BY <2>9 DEF Register
  <2>10. CASE UrlSeen(w)
    BY <2>10 DEF UrlSeen
  <2>11. CASE UrlMissing(w)
    BY <2>11 DEF UrlMissing
  <2>12. CASE Interrupt(w)
    BY <2>12 DEF Interrupt
  <2>13. CASE Abort(w)
    BY <2>13 DEF Abort, TakeChild
  <2>14. CASE Aborted(w)
    BY <2>14 DEF Aborted
  <2>15. CASE HandOff(w)
    BY <2>15 DEF HandOff
  <2>16. CASE CleanExit(w)
    BY <2>16 DEF CleanExit
  <2>17. CASE CrashExit(w)
    BY <2>17 DEF CrashExit, BeginRecovery
  <2>18. CASE Done(w)
    BY <2>18 DEF Done, ThreadEnds
  <2> QED
    BY <1>1, <2>1, <2>2, <2>3, <2>4, <2>5, <2>6, <2>7, <2>8, <2>9, <2>10, <2>11, <2>12, <2>13, <2>14, <2>15, <2>16, <2>17, <2>18 DEF WorkerStep
<1>2. ASSUME NEW w \in Worker, Retry(w) \/ ForceKillStale(w) \/ KillTree(w)
                           \/ ForceKillSettles(w) \/ AskRestart(w) \/ ServeRestart(w)
     PROVE LockOwned'
  BY <1>2 DEF
     Retry, Ask, OnlyPc, RetryAllowed, ForceKillStale, KillTree,
     ForceKillSettles, AskRestart, ServeRestart
<1>3. ASSUME ClickRestartNow \/ ClickCancel \/ RequestShutdown PROVE LockOwned'
  BY <1>3 DEF
     ClickRestartNow, Ask, ClickCancel, RequestShutdown
<1>4. ASSUME NEW g \in Dsh, CountdownStep(g) PROVE LockOwned'
  BY <1>4 DEF
     CountdownStep, Deadline, CountdownAt, OnlyCountdown, Tick, Verdict,
     FinishCheck, FinishStore, AutoRestart
<1>5. ASSUME MainStep PROVE LockOwned'
  <2>1. CASE LoopNavigates
    BY <2>1 DEF LoopNavigates, OnlyMain
  <2>2. CASE LoopBreaks
    BY <2>2 DEF LoopBreaks, OnlyMain
  <2>3. CASE KillDsh
    BY <2>3 DEF KillDsh, OnlyMain
  <2>4. CASE KilledDsh
    BY <2>4 DEF KilledDsh, OnlyMain
  <2>5. CASE ProcessExit
    BY <2>5 DEF ProcessExit, LauncherDied, OnlyMain
  <2> QED
    BY <1>5, <2>1, <2>2, <2>3, <2>4, <2>5 DEF MainStep
<1>6. ASSUME NEW p \in Dsh, PrintUrl(p) \/ Exit(p) PROVE LockOwned'
  BY <1>6 DEF
     PrintUrl, OnlyDsh, Exit
<1>7. CASE UNCHANGED vars
  BY <1>7 DEF vars
<1> QED
  BY <1>1, <1>2, <1>3, <1>4, <1>5, <1>6, <1>7 DEF Next, Terminated

\* The slot is filled by the flow that has the gate, and by no other thread.
LEMMA SlotStep ==
  ASSUME TypeOK, GateExclusive, LockOwned, SlotEmptied, [Next]_vars
  PROVE  SlotEmptied'
<1> USE DEF
      TypeOK, GateExclusive, LockOwned, SlotEmptied, Gated, Ungated
<1>1. ASSUME NEW w \in Worker, WorkerStep(w) PROVE SlotEmptied'
  BY <1>1 DEF
     WorkerStep, Enter, GateFree, Prologue, ResetPage, Reap, TakeChild,
     Reaped, ReapGivesUp, Check, StepFails, Spawn, Register, UrlSeen,
     UrlMissing, Interrupt, Abort, Aborted, HandOff, CleanExit, CrashExit,
     BeginRecovery, Done, ThreadEnds
<1>2. ASSUME NEW w \in Worker, Retry(w) \/ ForceKillStale(w) \/ KillTree(w)
                           \/ ForceKillSettles(w) \/ AskRestart(w) \/ ServeRestart(w)
     PROVE SlotEmptied'
  BY <1>2 DEF
     Retry, Ask, OnlyPc, RetryAllowed, ForceKillStale, KillTree,
     ForceKillSettles, AskRestart, ServeRestart
<1>3. ASSUME ClickRestartNow \/ ClickCancel \/ RequestShutdown PROVE SlotEmptied'
  BY <1>3 DEF
     ClickRestartNow, Ask, ClickCancel, RequestShutdown
<1>4. ASSUME NEW g \in Dsh, CountdownStep(g) PROVE SlotEmptied'
  BY <1>4 DEF
     CountdownStep, Deadline, CountdownAt, OnlyCountdown, Tick, Verdict,
     FinishCheck, FinishStore, AutoRestart
<1>5. ASSUME MainStep PROVE SlotEmptied'
  BY <1>5 DEF
     MainStep, LoopNavigates, OnlyMain, LoopBreaks, KillDsh, KilledDsh,
     ProcessExit, LauncherDied
<1>6. ASSUME NEW p \in Dsh, PrintUrl(p) \/ Exit(p) PROVE SlotEmptied'
  BY <1>6 DEF
     PrintUrl, OnlyDsh, Exit
<1>7. CASE UNCHANGED vars
  BY <1>7 DEF vars
<1> QED
  BY <1>1, <1>2, <1>3, <1>4, <1>5, <1>6, <1>7 DEF Next, Terminated

\* Spawn gives the next number, and nothing comes back to life.
LEMMA BornStep ==
  ASSUME TypeOK, BornInOrder, [Next]_vars
  PROVE  BornInOrder'
<1> USE BoundsAssumption DEF
      TypeOK, BornInOrder
<1>1. ASSUME NEW w \in Worker, WorkerStep(w) PROVE BornInOrder'
  <2>1. CASE Enter(w)
    BY <2>1 DEF Enter, GateFree
  <2>2. CASE Prologue(w)
    BY <2>2 DEF Prologue, ResetPage
  <2>3. CASE Reap(w)
    BY <2>3 DEF Reap, TakeChild
  <2>4. CASE Reaped(w)
    BY <2>4 DEF Reaped
  <2>5. CASE ReapGivesUp(w)
    BY <2>5 DEF ReapGivesUp
  <2>6. CASE Check(w)
    BY <2>6 DEF Check, ResetPage
  <2>7. CASE StepFails(w)
    BY <2>7 DEF StepFails
  <2>8. CASE Spawn(w)
    BY <2>8 DEF Spawn
  <2>9. CASE Register(w)
    BY <2>9 DEF Register
  <2>10. CASE UrlSeen(w)
    BY <2>10 DEF UrlSeen
  <2>11. CASE UrlMissing(w)
    BY <2>11 DEF UrlMissing
  <2>12. CASE Interrupt(w)
    BY <2>12 DEF Interrupt
  <2>13. CASE Abort(w)
    BY <2>13 DEF Abort, TakeChild
  <2>14. CASE Aborted(w)
    BY <2>14 DEF Aborted
  <2>15. CASE HandOff(w)
    BY <2>15 DEF HandOff
  <2>16. CASE CleanExit(w)
    BY <2>16 DEF CleanExit
  <2>17. CASE CrashExit(w)
    BY <2>17 DEF CrashExit, BeginRecovery
  <2>18. CASE Done(w)
    BY <2>18 DEF Done, ThreadEnds
  <2> QED
    BY <1>1, <2>1, <2>2, <2>3, <2>4, <2>5, <2>6, <2>7, <2>8, <2>9, <2>10, <2>11, <2>12, <2>13, <2>14, <2>15, <2>16, <2>17, <2>18 DEF WorkerStep
<1>2. ASSUME NEW w \in Worker, Retry(w) \/ ForceKillStale(w) \/ KillTree(w)
                           \/ ForceKillSettles(w) \/ AskRestart(w) \/ ServeRestart(w)
     PROVE BornInOrder'
  BY <1>2 DEF
     Retry, Ask, OnlyPc, RetryAllowed, ForceKillStale, KillTree,
     ForceKillSettles, AskRestart, ServeRestart
<1>3. ASSUME ClickRestartNow \/ ClickCancel \/ RequestShutdown PROVE BornInOrder'
  BY <1>3 DEF
     ClickRestartNow, Ask, ClickCancel, RequestShutdown
<1>4. ASSUME NEW g \in Dsh, CountdownStep(g) PROVE BornInOrder'
  BY <1>4 DEF
     CountdownStep, Deadline, CountdownAt, OnlyCountdown, Tick, Verdict,
     FinishCheck, FinishStore, AutoRestart
<1>5. ASSUME MainStep PROVE BornInOrder'
  BY <1>5 DEF
     MainStep, LoopNavigates, OnlyMain, LoopBreaks, KillDsh, KilledDsh,
     ProcessExit, LauncherDied
<1>6. ASSUME NEW p \in Dsh, PrintUrl(p) \/ Exit(p) PROVE BornInOrder'
  BY <1>6 DEF
     PrintUrl, OnlyDsh, Exit
<1>7. CASE UNCHANGED vars
  BY <1>7 DEF vars
<1> QED
  BY <1>1, <1>2, <1>3, <1>4, <1>5, <1>6, <1>7 DEF Next, Terminated

\* A child leaves the slot into the hands of a thread that has signalled it, and
\* a thread lets go of it dead, registered or given up.
LEMMA TrackedStep ==
  ASSUME TypeOK, GateExclusive, LockOwned, SlotEmptied, DshTracked, [Next]_vars
  PROVE  DshTracked'
<1> USE WorkerAssumption DEF
      TypeOK, GateExclusive, LockOwned, SlotEmptied, DshTracked, Stopping, Findable,
      Gated, Ungated
<1>1. ASSUME NEW w \in Worker, WorkerStep(w) PROVE DshTracked'
  <2>1. CASE Enter(w)
    BY <2>1 DEF Enter, GateFree
  <2>2. CASE Prologue(w)
    BY <2>2 DEF Prologue, ResetPage
  <2>3. CASE Reap(w)
    BY <2>3 DEF Reap, TakeChild
  <2>4. CASE Reaped(w)
    BY <2>4 DEF Reaped
  <2>5. CASE ReapGivesUp(w)
    BY <2>5 DEF ReapGivesUp
  <2>6. CASE Check(w)
    BY <2>6 DEF Check, ResetPage
  <2>7. CASE StepFails(w)
    BY <2>7 DEF StepFails
  <2>8. CASE Spawn(w)
    BY <2>8 DEF Spawn
  <2>9. CASE Register(w)
    BY <2>9 DEF Register
  <2>10. CASE UrlSeen(w)
    BY <2>10 DEF UrlSeen
  <2>11. CASE UrlMissing(w)
    BY <2>11 DEF UrlMissing
  <2>12. CASE Interrupt(w)
    BY <2>12 DEF Interrupt
  <2>13. CASE Abort(w)
    BY <2>13 DEF Abort, TakeChild
  <2>14. CASE Aborted(w)
    BY <2>14 DEF Aborted
  <2>15. CASE HandOff(w)
    BY <2>15 DEF HandOff
  <2>16. CASE CleanExit(w)
    BY <2>16 DEF CleanExit
  <2>17. CASE CrashExit(w)
    BY <2>17 DEF CrashExit, BeginRecovery
  <2>18. CASE Done(w)
    BY <2>18 DEF Done, ThreadEnds
  <2> QED
    BY <1>1, <2>1, <2>2, <2>3, <2>4, <2>5, <2>6, <2>7, <2>8, <2>9, <2>10, <2>11, <2>12, <2>13, <2>14, <2>15, <2>16, <2>17, <2>18 DEF WorkerStep
<1>2. ASSUME NEW w \in Worker, Retry(w) \/ ForceKillStale(w) \/ KillTree(w)
                           \/ ForceKillSettles(w) \/ AskRestart(w) \/ ServeRestart(w)
     PROVE DshTracked'
  <2>1. CASE Retry(w)
    BY <2>1 DEF Retry, Ask, OnlyPc, RetryAllowed
  <2>2. CASE ForceKillStale(w)
    BY <2>2 DEF ForceKillStale, OnlyPc
  <2>3. CASE KillTree(w)
    BY <2>3 DEF KillTree
  <2>4. CASE ForceKillSettles(w)
    BY <2>4 DEF ForceKillSettles, OnlyPc
  <2>5. CASE AskRestart(w)
    BY <2>5 DEF AskRestart, Ask
  <2>6. CASE ServeRestart(w)
    BY <2>6 DEF ServeRestart
  <2> QED
    BY <1>2, <2>1, <2>2, <2>3, <2>4, <2>5, <2>6
<1>3. ASSUME ClickRestartNow \/ ClickCancel \/ RequestShutdown PROVE DshTracked'
  BY <1>3 DEF
     ClickRestartNow, Ask, ClickCancel, RequestShutdown
<1>4. ASSUME NEW g \in Dsh, CountdownStep(g) PROVE DshTracked'
  <2>1. CASE Deadline(g)
    BY <2>1 DEF Deadline, CountdownAt, OnlyCountdown
  <2>2. CASE Tick(g)
    BY <2>2 DEF Tick, CountdownAt, OnlyCountdown
  <2>3. CASE FinishCheck(g)
    BY <2>3 DEF FinishCheck, CountdownAt, OnlyCountdown
  <2>4. CASE FinishStore(g)
    BY <2>4 DEF FinishStore, CountdownAt, OnlyCountdown
  <2>5. CASE AutoRestart(g)
    BY <2>5 DEF AutoRestart, CountdownAt, OnlyCountdown
  <2> QED
    BY <1>4, <2>1, <2>2, <2>3, <2>4, <2>5 DEF CountdownStep
<1>5. ASSUME MainStep PROVE DshTracked'
  <2>1. CASE LoopNavigates
    BY <2>1 DEF LoopNavigates, OnlyMain
  <2>2. CASE LoopBreaks
    BY <2>2 DEF LoopBreaks, OnlyMain
  <2>3. CASE KillDsh
    BY <2>3 DEF KillDsh, OnlyMain
  <2>4. CASE KilledDsh
    BY <2>4 DEF KilledDsh, OnlyMain
  <2>5. CASE ProcessExit
    <3> SUFFICES ASSUME NEW p \in Dsh, IsAlive(p)'
                 PROVE  p \in told' \/ System = "macos"
      BY <2>5 DEF ProcessExit
    <3>1. IsAlive(p) /\ System # "windows"
      BY <2>5 DEF ProcessExit, LauncherDied
    <3> QED
      BY <2>5, <3>1, SystemAssumption DEF ProcessExit, LauncherDied
  <2> QED
    BY <1>5, <2>1, <2>2, <2>3, <2>4, <2>5 DEF MainStep
<1>6. ASSUME NEW p \in Dsh, PrintUrl(p) \/ Exit(p) PROVE DshTracked'
  <2>1. CASE PrintUrl(p)
    BY <2>1 DEF PrintUrl, OnlyDsh
  <2>2. CASE Exit(p)
    <3>1. \A q \in Dsh : IsAlive(q)' => IsAlive(q)
      BY <2>2 DEF Exit
    <3> QED
      BY <2>2, <3>1 DEF Exit, OnlyDsh
  <2> QED
    BY <1>6, <2>1, <2>2
<1>7. CASE UNCHANGED vars
  BY <1>7 DEF vars
<1> QED
  BY <1>1, <1>2, <1>3, <1>4, <1>5, <1>6, <1>7 DEF Next, Terminated

\* Only a spawn adds a running dsh, and only the flow with the gate spawns.
LEMMA GuardStep ==
  ASSUME TypeOK, GateExclusive, BornInOrder, GuardHolds, [Next]_vars
  PROVE  GuardHolds'
<1> USE DEF
      TypeOK, GateExclusive, GuardHolds, DshInstanceRunning, Gated, Ungated
<1>1. ASSUME NEW w \in Worker, WorkerStep(w) PROVE GuardHolds'
  <2>1. CASE Enter(w)
    BY <2>1 DEF Enter, GateFree
  <2>2. CASE Prologue(w)
    BY <2>2 DEF Prologue, ResetPage
  <2>3. CASE Reap(w)
    BY <2>3 DEF Reap, TakeChild
  <2>4. CASE Reaped(w)
    BY <2>4 DEF Reaped
  <2>5. CASE ReapGivesUp(w)
    BY <2>5 DEF ReapGivesUp
  <2>6. CASE Check(w)
    BY <2>6 DEF Check, ResetPage
  <2>7. CASE StepFails(w)
    BY <2>7 DEF StepFails
  <2>8. CASE Spawn(w)
    BY <2>8 DEF Spawn
  <2>9. CASE Register(w)
    BY <2>9 DEF Register
  <2>10. CASE UrlSeen(w)
    BY <2>10 DEF UrlSeen
  <2>11. CASE UrlMissing(w)
    BY <2>11 DEF UrlMissing
  <2>12. CASE Interrupt(w)
    BY <2>12 DEF Interrupt
  <2>13. CASE Abort(w)
    BY <2>13 DEF Abort, TakeChild
  <2>14. CASE Aborted(w)
    BY <2>14 DEF Aborted
  <2>15. CASE HandOff(w)
    BY <2>15 DEF HandOff
  <2>16. CASE CleanExit(w)
    BY <2>16 DEF CleanExit
  <2>17. CASE CrashExit(w)
    BY <2>17 DEF CrashExit, BeginRecovery
  <2>18. CASE Done(w)
    BY <2>18 DEF Done, ThreadEnds
  <2> QED
    BY <1>1, <2>1, <2>2, <2>3, <2>4, <2>5, <2>6, <2>7, <2>8, <2>9, <2>10, <2>11, <2>12, <2>13, <2>14, <2>15, <2>16, <2>17, <2>18 DEF WorkerStep
<1>2. ASSUME NEW w \in Worker, Retry(w) \/ ForceKillStale(w) \/ KillTree(w)
                           \/ ForceKillSettles(w) \/ AskRestart(w) \/ ServeRestart(w)
     PROVE GuardHolds'
  <2>1. CASE Retry(w)
    BY <2>1 DEF Retry, Ask, OnlyPc, RetryAllowed
  <2>2. CASE ForceKillStale(w)
    BY <2>2 DEF ForceKillStale, OnlyPc
  <2>3. CASE KillTree(w)
    BY <2>3 DEF KillTree
  <2>4. CASE ForceKillSettles(w)
    BY <2>4 DEF ForceKillSettles, OnlyPc
  <2>5. CASE AskRestart(w)
    BY <2>5 DEF AskRestart, Ask
  <2>6. CASE ServeRestart(w)
    BY <2>6 DEF ServeRestart
  <2> QED
    BY <1>2, <2>1, <2>2, <2>3, <2>4, <2>5, <2>6
<1>3. ASSUME ClickRestartNow \/ ClickCancel \/ RequestShutdown PROVE GuardHolds'
  BY <1>3 DEF
     ClickRestartNow, Ask, ClickCancel, RequestShutdown
<1>4. ASSUME NEW g \in Dsh, CountdownStep(g) PROVE GuardHolds'
  <2>1. CASE Deadline(g)
    BY <2>1 DEF Deadline, CountdownAt, OnlyCountdown
  <2>2. CASE Tick(g)
    BY <2>2 DEF Tick, Verdict, CountdownAt, OnlyCountdown
  <2>3. CASE FinishCheck(g)
    BY <2>3 DEF FinishCheck, CountdownAt, OnlyCountdown
  <2>4. CASE FinishStore(g)
    BY <2>4 DEF FinishStore, CountdownAt, OnlyCountdown
  <2>5. CASE AutoRestart(g)
    BY <2>5 DEF AutoRestart, CountdownAt, OnlyCountdown
  <2> QED
    BY <1>4, <2>1, <2>2, <2>3, <2>4, <2>5 DEF CountdownStep
<1>5. ASSUME MainStep PROVE GuardHolds'
  BY <1>5 DEF
     MainStep, LoopNavigates, OnlyMain, LoopBreaks, KillDsh, KilledDsh,
     ProcessExit, LauncherDied
<1>6. ASSUME NEW p \in Dsh, PrintUrl(p) \/ Exit(p) PROVE GuardHolds'
  BY <1>6 DEF
     PrintUrl, OnlyDsh, Exit
<1>7. CASE UNCHANGED vars
  BY <1>7 DEF vars
<1> QED
  BY <1>1, <1>2, <1>3, <1>4, <1>5, <1>6, <1>7 DEF Next, Terminated

\* When dsh is spawned the slot is empty and no thread holds a dsh, so that one
\* still alive was given up.
LEMMA ExclusionStep ==
  ASSUME IInv, [Next]_vars
  PROVE  DshExclusion'
<1> USE DEF
      IInv, TypeOK, DshExclusion
<1>1. ASSUME NEW w \in Worker, WorkerStep(w) PROVE DshExclusion'
  <2>1. CASE Enter(w)
    BY <2>1 DEF Enter, GateFree
  <2>2. CASE Prologue(w)
    BY <2>2 DEF Prologue, ResetPage
  <2>3. CASE Reap(w)
    BY <2>3 DEF Reap, TakeChild
  <2>4. CASE Reaped(w)
    BY <2>4 DEF Reaped
  <2>5. CASE ReapGivesUp(w)
    BY <2>5 DEF ReapGivesUp
  <2>6. CASE Check(w)
    BY <2>6 DEF Check, ResetPage
  <2>7. CASE StepFails(w)
    BY <2>7 DEF StepFails
  <2>8. CASE Spawn(w)
    <3>1. slot = NoDsh /\ mainHeld = NoDsh
      BY <2>8 DEF Spawn, SlotEmptied
    <3>2. \A v \in Worker : pc[v] \notin {"spawned", "reaping", "aborting"}
      BY <2>8 DEF Spawn, GateExclusive, Gated
    <3>3. \A p \in Dsh : IsAlive(p) => p \in abandoned
      BY <2>8, <3>1, <3>2 DEF Spawn, DshTracked, Stopping, Findable
    <3>4. single[w] => \A p \in Dsh : ~IsAlive(p)
      BY <2>8 DEF Spawn, GuardHolds, DshInstanceRunning
    <3>5. \A p \in Dsh : IsAlive(p) => p <= born
      BY DEF BornInOrder
    <3>6. SUFFICES ASSUME NEW p \in Dsh, NEW q \in Dsh,
                          p < q, IsAlive(p)', IsAlive(q)'
                   PROVE  p \in abandoned' /\ q \notin guarded'
      BY DEF DshExclusion
    <3>7. q <= born + 1 /\ p <= born
      BY <2>8, <3>5, <3>6 DEF Spawn
    <3>8. IsAlive(p) /\ p \in abandoned /\ ~single[w]
      BY <2>8, <3>3, <3>4, <3>6, <3>7 DEF Spawn
    <3>9. CASE q = born + 1
      BY <2>8, <3>8, <3>9 DEF Spawn, BornInOrder
    <3>10. CASE q # born + 1
      BY <2>8, <3>6, <3>8, <3>10 DEF Spawn
    <3> QED
      BY <3>9, <3>10
  <2>9. CASE Register(w)
    BY <2>9 DEF Register
  <2>10. CASE UrlSeen(w)
    BY <2>10 DEF UrlSeen
  <2>11. CASE UrlMissing(w)
    BY <2>11 DEF UrlMissing
  <2>12. CASE Interrupt(w)
    BY <2>12 DEF Interrupt
  <2>13. CASE Abort(w)
    BY <2>13 DEF Abort, TakeChild
  <2>14. CASE Aborted(w)
    BY <2>14 DEF Aborted
  <2>15. CASE HandOff(w)
    BY <2>15 DEF HandOff
  <2>16. CASE CleanExit(w)
    BY <2>16 DEF CleanExit
  <2>17. CASE CrashExit(w)
    BY <2>17 DEF CrashExit, BeginRecovery
  <2>18. CASE Done(w)
    BY <2>18 DEF Done, ThreadEnds
  <2> QED
    BY <1>1, <2>1, <2>2, <2>3, <2>4, <2>5, <2>6, <2>7, <2>8, <2>9, <2>10, <2>11, <2>12, <2>13, <2>14, <2>15, <2>16, <2>17, <2>18 DEF WorkerStep
<1>2. ASSUME NEW w \in Worker, Retry(w) \/ ForceKillStale(w) \/ KillTree(w)
                           \/ ForceKillSettles(w) \/ AskRestart(w) \/ ServeRestart(w)
     PROVE DshExclusion'
  BY <1>2 DEF
     Retry, Ask, OnlyPc, RetryAllowed, ForceKillStale, KillTree,
     ForceKillSettles, AskRestart, ServeRestart
<1>3. ASSUME ClickRestartNow \/ ClickCancel \/ RequestShutdown PROVE DshExclusion'
  BY <1>3 DEF
     ClickRestartNow, Ask, ClickCancel, RequestShutdown
<1>4. ASSUME NEW g \in Dsh, CountdownStep(g) PROVE DshExclusion'
  BY <1>4 DEF
     CountdownStep, Deadline, CountdownAt, OnlyCountdown, Tick, Verdict,
     FinishCheck, FinishStore, AutoRestart
<1>5. ASSUME MainStep PROVE DshExclusion'
  BY <1>5 DEF
     MainStep, LoopNavigates, OnlyMain, LoopBreaks, KillDsh, KilledDsh,
     ProcessExit, LauncherDied
<1>6. ASSUME NEW p \in Dsh, PrintUrl(p) \/ Exit(p) PROVE DshExclusion'
  BY <1>6 DEF
     PrintUrl, OnlyDsh, Exit
<1>7. CASE UNCHANGED vars
  BY <1>7 DEF vars
<1> QED
  BY <1>1, <1>2, <1>3, <1>4, <1>5, <1>6, <1>7 DEF Next, Terminated

\* The page is reset before a launch, and one flow at a time writes the url.
LEMMA UrlOwnedStep ==
  ASSUME TypeOK, GateExclusive, UrlOwned, [Next]_vars
  PROVE  UrlOwned'
<1> USE DEF
      TypeOK, GateExclusive, UrlOwned, Gated, Ungated
<1>1. ASSUME NEW w \in Worker, WorkerStep(w) PROVE UrlOwned'
  BY <1>1 DEF
     WorkerStep, Enter, GateFree, Prologue, ResetPage, Reap, TakeChild,
     Reaped, ReapGivesUp, Check, StepFails, Spawn, Register, UrlSeen,
     UrlMissing, Interrupt, Abort, Aborted, HandOff, CleanExit, CrashExit,
     BeginRecovery, Done, ThreadEnds
<1>2. ASSUME NEW w \in Worker, Retry(w) \/ ForceKillStale(w) \/ KillTree(w)
                           \/ ForceKillSettles(w) \/ AskRestart(w) \/ ServeRestart(w)
     PROVE UrlOwned'
  BY <1>2 DEF
     Retry, Ask, OnlyPc, RetryAllowed, ForceKillStale, KillTree,
     ForceKillSettles, AskRestart, ServeRestart
<1>3. ASSUME ClickRestartNow \/ ClickCancel \/ RequestShutdown PROVE UrlOwned'
  BY <1>3 DEF
     ClickRestartNow, Ask, ClickCancel, RequestShutdown
<1>4. ASSUME NEW g \in Dsh, CountdownStep(g) PROVE UrlOwned'
  BY <1>4 DEF
     CountdownStep, Deadline, CountdownAt, OnlyCountdown, Tick, Verdict,
     FinishCheck, FinishStore, AutoRestart
<1>5. ASSUME MainStep PROVE UrlOwned'
  BY <1>5 DEF
     MainStep, LoopNavigates, OnlyMain, LoopBreaks, KillDsh, KilledDsh,
     ProcessExit, LauncherDied
<1>6. ASSUME NEW p \in Dsh, PrintUrl(p) \/ Exit(p) PROVE UrlOwned'
  BY <1>6 DEF
     PrintUrl, OnlyDsh, Exit
<1>7. CASE UNCHANGED vars
  BY <1>7 DEF vars
<1> QED
  BY <1>1, <1>2, <1>3, <1>4, <1>5, <1>6, <1>7 DEF Next, Terminated

\* A flow that stops supervising clears the url, relaunches, or exits.
LEMMA UrlStep ==
  ASSUME TypeOK, GateExclusive, UrlOwned, UrlHonest, [Next]_vars
  PROVE  UrlHonest'
<1> USE DEF
      TypeOK, GateExclusive, UrlOwned, UrlHonest, Gated, Ungated
<1>1. ASSUME NEW w \in Worker, WorkerStep(w) PROVE UrlHonest'
  BY <1>1 DEF
     WorkerStep, Enter, GateFree, Prologue, ResetPage, Reap, TakeChild,
     Reaped, ReapGivesUp, Check, StepFails, Spawn, Register, UrlSeen,
     UrlMissing, Interrupt, Abort, Aborted, HandOff, CleanExit, CrashExit,
     BeginRecovery, Done, ThreadEnds
<1>2. ASSUME NEW w \in Worker, Retry(w) \/ ForceKillStale(w) \/ KillTree(w)
                           \/ ForceKillSettles(w) \/ AskRestart(w) \/ ServeRestart(w)
     PROVE UrlHonest'
  BY <1>2 DEF
     Retry, Ask, OnlyPc, RetryAllowed, ForceKillStale, KillTree,
     ForceKillSettles, AskRestart, ServeRestart
<1>3. ASSUME ClickRestartNow \/ ClickCancel \/ RequestShutdown PROVE UrlHonest'
  BY <1>3 DEF
     ClickRestartNow, Ask, ClickCancel, RequestShutdown
<1>4. ASSUME NEW g \in Dsh, CountdownStep(g) PROVE UrlHonest'
  BY <1>4 DEF
     CountdownStep, Deadline, CountdownAt, OnlyCountdown, Tick, Verdict,
     FinishCheck, FinishStore, AutoRestart
<1>5. ASSUME MainStep PROVE UrlHonest'
  BY <1>5 DEF
     MainStep, LoopNavigates, OnlyMain, LoopBreaks, KillDsh, KilledDsh,
     ProcessExit, LauncherDied
<1>6. ASSUME NEW p \in Dsh, PrintUrl(p) \/ Exit(p) PROVE UrlHonest'
  BY <1>6 DEF
     PrintUrl, OnlyDsh, Exit
<1>7. CASE UNCHANGED vars
  BY <1>7 DEF vars
<1> QED
  BY <1>1, <1>2, <1>3, <1>4, <1>5, <1>6, <1>7 DEF Next, Terminated

(***************************************************************************)
(* The theorems.                                                           *)
(***************************************************************************)

\* IInv holds in every reachable state of the launcher.
THEOREM Invariance == Spec => []IInv
<1>1. Init => IInv
  BY InitIInv
<1>2. IInv /\ [Next]_vars => IInv'
  BY TypeStep, GateStep, GenStep, LockStep, SlotStep, BornStep, TrackedStep,
     GuardStep, ExclusionStep, UrlOwnedStep, UrlStep DEF IInv
<1> QED
  BY <1>1, <1>2, PTL DEF Spec

\* Every variable of the launcher keeps to its type and its bound.
THEOREM TypeCorrect == Spec => []TypeOK
  BY Invariance, PTL DEF IInv

\* FLOW_RUNNING is a mutual exclusion lock around launch_flow and its worker.
THEOREM GateIsExclusive == Spec => []GateExclusive
  BY Invariance, PTL DEF IInv

\* Until kill_dsh every dsh that runs is where a stop finds it or was asked to
\* stop; after it only a dsh registered too late is not.
THEOREM DshIsTracked == Spec => []DshTracked
  BY Invariance, PTL DEF IInv

\* Where the system ends or signals what a launcher leaves behind (all but
\* macOS), no dsh outlives the launcher without having been asked to stop.
THEOREM SystemReapsOrphans ==
  ASSUME System # "macos"
  PROVE  Spec => []NoOrphan
<1>1. IInv => NoOrphan
  BY DEF IInv, DshTracked, Stopping, NoOrphan
<1> QED
  BY <1>1, Invariance, PTL

\* Two dsh run side by side only after a graceful stop of the older timed out,
\* and never because of a launch with dsh.single_instance on.
THEOREM DshIsExclusive == Spec => []DshExclusion
  BY Invariance, PTL DEF IInv

\* The url shown is never that of a dsh nobody supervises.
THEOREM UrlIsHonest == Spec => []UrlHonest
  BY Invariance, PTL DEF IInv
=============================================================================
