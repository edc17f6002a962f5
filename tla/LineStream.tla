----------------------------- MODULE LineStream -----------------------------
(***************************************************************************)
(* What AsyncChild promises of a child's output (src/process/child.rs):    *)
(* the lines of each stream are delivered once and in the order they were  *)
(* read, and the consumer is told of the end once the process has exited,  *)
(* even if somebody else keeps the pipes open.  Nothing is promised of how *)
(* the streams interleave.  The lines of a stream are numbered from 1.     *)
(***************************************************************************)
EXTENDS Naturals

CONSTANT Stream  \* the output streams of the child

VARIABLES
  sent,    \* the number of lines read so far from each stream
  got,     \* the number of lines delivered so far from each stream
  exited,  \* the process has exited
  ended    \* the consumer was told of the end

vars == <<sent, got, exited, ended>>

Init ==
  /\ sent = [s \in Stream |-> 0] /\ got = [s \in Stream |-> 0]
  /\ exited = FALSE /\ ended = FALSE

\* A line is read; a process that inherited the pipe may still write any.
Send(s) == sent' = [sent EXCEPT ![s] = @ + 1] /\ UNCHANGED <<got, exited, ended>>

Deliver(s) ==
  /\ ~ended /\ got[s] < sent[s]
  /\ got' = [got EXCEPT ![s] = @ + 1]
  /\ UNCHANGED <<sent, exited, ended>>

Exit == ~exited /\ exited' = TRUE /\ UNCHANGED <<sent, got, ended>>

End == exited /\ ~ended /\ ended' = TRUE /\ UNCHANGED <<sent, got, exited>>

Next == (\E s \in Stream : Send(s) \/ Deliver(s)) \/ Exit \/ End

Spec == Init /\ [][Next]_vars

\* A consumer that keeps asking is told of the end.
FairSpec == Spec /\ WF_vars(End)
=============================================================================
