--------------------------- MODULE KernelBootProofs ---------------------------
(***************************************************************************)
(* KernelBoot: types, the separation of the set-ups and the single kernel, *)
(* for every set of kernels.                                               *)
(***************************************************************************)
EXTENDS KernelBoot, TLAPS

\* While a kernel is in its set-up, or window_show is at work, it has the boot lock.
LockHeld ==
    /\ \A k \in Kernels : kernel[k] = "setup" => cliLock = LockedBy(k) /\ uiOwner = k
    /\ show = "inside" => cliLock = Shown

\* Under single-instance the file lock comes before the thread, and is never
\* given back: there is one kernel in the life of the process, and none as long
\* as the lock is not ours or the caller is still on its way to the spawn.
LockFirst ==
    single => /\ caller = "spawn" => fileLock = "ours" /\ \A k \in Kernels : kernel[k] = "none"
              /\ fileLock # "ours" => \A k \in Kernels : kernel[k] = "none"
              /\ \A j, k \in Kernels : kernel[j] # "none" /\ kernel[k] # "none" => j = k

BootInv == BootTypeOK /\ LockHeld /\ LockFirst

USE DEF Unlocked, LockedBy, Shown, Stages

\* BootInv holds in every initial state.
LEMMA InitInv == BootInit => BootInv
  BY KernelsAssumption DEF BootInit, BootInv, BootTypeOK, LockHeld, LockFirst

\* No step of the host or of a kernel breaks BootInv.
LEMMA NextInv == BootInv /\ [BootNext]_bootVars => BootInv'
<1> SUFFICES ASSUME BootInv, [BootNext]_bootVars
             PROVE  BootInv'
  OBVIOUS
<1> USE KernelsAssumption DEF BootInv
<1>1. CASE Launch
  BY <1>1 DEF Launch, IsRunning, BootTypeOK, LockHeld, LockFirst
<1>2. CASE CheckHandle
  BY <1>2 DEF CheckHandle, IsRunning, BootTypeOK, LockHeld, LockFirst
<1>3. CASE Acquire
  BY <1>3 DEF Acquire, CanAcquire, BootTypeOK, LockHeld, LockFirst
<1>4. CASE SpawnKernel
  BY <1>4 DEF SpawnKernel, BootTypeOK, LockHeld, LockFirst
<1>5. CASE SpawnKernelFails
  BY <1>5 DEF SpawnKernelFails, BootTypeOK, LockHeld, LockFirst
<1>6. ASSUME NEW k \in Kernels, Boot(k) PROVE BootInv'
  BY <1>6 DEF Boot, BootTypeOK, LockHeld, LockFirst
<1>7. ASSUME NEW k \in Kernels, SetupDone(k) PROVE BootInv'
  BY <1>7 DEF SetupDone, BootTypeOK, LockHeld, LockFirst
<1>8. ASSUME NEW k \in Kernels, LoopEnds(k) PROVE BootInv'
  BY <1>8 DEF LoopEnds, BootTypeOK, LockHeld, LockFirst
<1>9. ASSUME NEW k \in Kernels, Panic(k) PROVE BootInv'
  BY <1>9 DEF Panic, BootTypeOK, LockHeld, LockFirst
<1>10. ASSUME NEW k \in Kernels, ClearHandle(k) PROVE BootInv'
  BY <1>10 DEF ClearHandle, BootTypeOK, LockHeld, LockFirst
<1>11. CASE ShowAsked
  BY <1>11 DEF ShowAsked, BootTypeOK, LockHeld, LockFirst
<1>12. CASE ShowEnters
  BY <1>12 DEF ShowEnters, BootTypeOK, LockHeld, LockFirst
<1>13. CASE ShowSkips
  BY <1>13 DEF ShowSkips, BootTypeOK, LockHeld, LockFirst
<1>14. CASE ShowReturns
  BY <1>14 DEF ShowReturns, BootTypeOK, LockHeld, LockFirst
<1>15. CASE OtherLauncher
  BY <1>15 DEF OtherLauncher, BootTypeOK, LockHeld, LockFirst
<1>16. CASE UNCHANGED bootVars
  BY <1>16 DEF bootVars, BootTypeOK, LockHeld, LockFirst
<1> QED
  BY <1>1, <1>2, <1>3, <1>4, <1>5, <1>6, <1>7, <1>8, <1>9, <1>10, <1>11, <1>12,
     <1>13, <1>14, <1>15, <1>16 DEF BootNext, CallerStep, KernelStep

\* BootInv is an invariant, whatever the set of kernels.
THEOREM Inductive == BootSpec => []BootInv
  BY InitInv, NextInv, PTL DEF BootSpec

\* The variables keep their types, and a lock is held by a thread that is there
\* to release it.
THEOREM Typed == BootSpec => []BootTypeOK
<1>1. BootInv => BootTypeOK
  BY DEF BootInv
<1> QED
  BY <1>1, Inductive, PTL

\* The set-ups of kernels, and window_show, never meet.
THEOREM SetupsNeverMeet == BootSpec => []SetupsApart
<1>1. BootInv => SetupsApart
  BY DEF BootInv, LockHeld, SetupsApart
<1> QED
  BY <1>1, Inductive, PTL

\* With single-instance on, one kernel comes up, and only under the lock file.
THEOREM OneKernelOnly == BootSpec => []OneKernel
<1>1. BootInv => OneKernel
  BY DEF BootInv, LockFirst, OneKernel, Alive
<1> QED
  BY <1>1, Inductive, PTL
=============================================================================
