------------------------------- MODULE Services -------------------------------
(***************************************************************************)
(* Four services of the launcher's process that share no state: kernels    *)
(* booted and stopped by the host (KernelBoot), the control pipe           *)
(* (ControlPipe), the terminal sessions (Pty) and the self-update          *)
(* (SelfUpdate).                                                           *)
(*                                                                         *)
(* Since no step of one reads or writes a variable of another, a property  *)
(* of one holds in every interleaving of the four exactly when it holds    *)
(* while the others stand still.  A behaviour therefore exercises one      *)
(* service, chosen in its first state, and the state space is the sum of   *)
(* the four and not their product.                                         *)
(***************************************************************************)
EXTENDS KernelBoot, ControlPipe, Pty, SelfUpdate

VARIABLE focus      \* the service this behaviour exercises

servicesVars == <<focus, bootVars, pipeVars, ptyVars, updateVars>>

\* The services that stand still are in their first state.
TypeOK ==
    \/ focus = "kernel" /\ BootTypeOK
    \/ focus = "pipe" /\ PipeTypeOK
    \/ focus = "pty" /\ PtyTypeOK
    \/ focus = "update" /\ UpdateTypeOK

Init ==
    /\ focus \in {"kernel", "pipe", "pty", "update"}
    /\ BootInit
    /\ PipeInit
    /\ PtyInit
    /\ UpdateInit
    /\ focus # "kernel" => ~single /\ fileLock = "free"
    /\ focus # "update" => ~legacy

Next ==
    \/ focus = "kernel" /\ BootNext /\ UNCHANGED <<focus, pipeVars, ptyVars, updateVars>>
    \/ focus = "pipe" /\ PipeNext /\ UNCHANGED <<focus, bootVars, ptyVars, updateVars>>
    \/ focus = "pty" /\ PtyNext /\ UNCHANGED <<focus, bootVars, pipeVars, updateVars>>
    \/ focus = "update" /\ UpdateNext /\ UNCHANGED <<focus, bootVars, pipeVars, ptyVars>>

Spec == Init /\ [][Next]_servicesVars /\ PipeFairness /\ PtyFairness
=============================================================================
