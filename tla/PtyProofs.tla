------------------------------ MODULE PtyProofs ------------------------------
(***************************************************************************)
(* Proofs about Pty, for any sessions, clients and length of a channel:    *)
(* types; a kill that reported success is still owed as long as it was not *)
(* carried out; and a session that nobody holds stays so, with a channel   *)
(* that is only drained, until its control thread ends.  The last two are  *)
(* the safety parts of KillHonoured and Released.                          *)
(***************************************************************************)
EXTENDS Pty, SequenceTheorems, TLAPS

(***************************************************************************)
(* The properties.                                                         *)
(***************************************************************************)

\* The control thread has sent the signal, or cannot, or has a kill message
\* ahead of it, behind whatever resizes.
KillTaken(s) ==
    \/ signalled[s] \/ ~pidKnown[s]
    \/ /\ control[s] = "receiving"
       /\ \E i \in 1 .. Len(channel[s]) : channel[s][i] = "kill"

\* A kill() that reported success has been carried out or will be when the
\* control thread comes to it: its message is never lost with the channel.
KillOwed == \A s \in Sessions : killed[s] => KillTaken(s)

\* spawn() is over for the session, and nobody holds it.
Abandoned(s) == stage[s] \in {"done", "failed"} /\ ~Held(s)

\* Such a session stays so: nobody finds it again, nothing more is sent to it,
\* and a control thread that has ended is not started again.
LeftForGood(s) ==
    Abandoned(s) => /\ Abandoned(s)'
                    /\ \/ channel'[s] = channel[s]
                       \/ Len(channel'[s]) < Len(channel[s])
                    /\ control[s] = "ended" => control'[s] = "ended"

StaysAbandoned == [][\A s \in Sessions : LeftForGood(s)]_ptyVars

(***************************************************************************)
(* The inductive invariant.                                                *)
(***************************************************************************)

\* The type invariant in parts, with the type of the channels, which PtyTypeOK
\* leaves to their elements.
Channels == channel \in [Sessions -> Seq(Messages)]
Bounded  == \A s \in Sessions : Len(channel[s]) <= MaxQueue

TypeThreads ==
    /\ stage \in [Sessions -> {"none", "reader", "control", "wait", "insert",
                               "done", "failed"}]
    /\ shell \in [Sessions -> {"none", "running", "exited", "reaped"}]
    /\ reader \in [Sessions -> {"none", "reading", "ended"}]
    /\ control \in [Sessions -> {"none", "receiving", "ended"}]
    /\ waiter \in [Sessions -> {"none", "waiting", "lingering", "ended"}]

TypeFlags ==
    /\ wsServer \in BOOLEAN
    /\ pidKnown \in [Sessions -> BOOLEAN]
    /\ killed \in [Sessions -> BOOLEAN]
    /\ signalled \in [Sessions -> BOOLEAN]

TypeCallers ==
    /\ registry \subseteq Sessions
    /\ client \in [Clients -> [does : {"idle", "upgrading", "serving"},
                               on : Sessions \cup {NoSession}]]
    /\ killCall \in [does : {"idle", "send", "remove"}, on : Sessions \cup {NoSession}]

\* A thread of a session is started by the stage of spawn() before it.
Started ==
    \A s \in Sessions :
        /\ stage[s] \in {"none", "reader"} => reader[s] = "none"
        /\ stage[s] \in {"none", "reader", "control"} => control[s] = "none"
        /\ stage[s] \in {"none", "reader", "control", "wait"} => waiter[s] = "none"

\* Who can reach a session found it in the registry, and a session is there
\* only after spawn() has put it there.
Found ==
    /\ \A s \in Sessions : Attached(s) \/ killed[s] => stage[s] = "done"
    /\ killCall.does # "idle" => killCall.on \in Sessions
    /\ killCall.does = "idle" => killCall = Idle
    /\ \A c \in Clients : /\ client[c].does # "idle" => client[c].on \in Sessions
                          /\ client[c].does = "idle" => client[c] = Idle

\* Only a control thread that receives has messages ahead of it.
ChannelOpen == \A s \in Sessions : channel[s] # <<>> => control[s] = "receiving"

\* The same of a call that has sent its message and not returned.
CallOwed ==
    \A s \in Sessions : killCall = [does |-> "remove", on |-> s] => KillTaken(s)

PtyInv == /\ Channels /\ Bounded /\ TypeThreads /\ TypeFlags /\ TypeCallers
          /\ Started /\ Found /\ ChannelOpen
          /\ CallOwed /\ KillOwed


\* The parts are the type invariant.
LEMMA PtyTypeParts ==
  ASSUME Channels, Bounded, TypeThreads, TypeFlags, TypeCallers
  PROVE  PtyTypeOK
  BY DEF PtyTypeOK, Channels, Bounded, TypeThreads, TypeFlags, TypeCallers

(***************************************************************************)
(* The channel.                                                            *)
(***************************************************************************)

\* A message that is sent comes behind those that wait; nobody else's channel
\* changes, and a control thread that has ended is sent nothing.
LEMMA SendAppends ==
  ASSUME Channels, NEW s \in Sessions, NEW m \in Messages, channel' = Send(s, m)
  PROVE  /\ Channels'
         /\ \A u \in Sessions :
              /\ u # s \/ control[u] # "receiving" => channel'[u] = channel[u]
              /\ \A i \in 1 .. Len(channel[u]) : channel'[u][i] = channel[u][i]
              /\ Len(channel[u]) \in Nat /\ Len(channel'[u]) \in Nat
              /\ Len(channel[u]) <= Len(channel'[u])
         /\ control[s] = "receiving" =>
              /\ channel'[s] # <<>> /\ Len(channel'[s]) = Len(channel[s]) + 1
              /\ channel'[s][Len(channel[s]) + 1] = m
<1>1. /\ Append(channel[s], m) \in Seq(Messages)
      /\ Append(channel[s], m) # <<>>
      /\ Len(Append(channel[s], m)) = Len(channel[s]) + 1
      /\ \A i \in 1 .. Len(channel[s]) : Append(channel[s], m)[i] = channel[s][i]
      /\ Append(channel[s], m)[Len(channel[s]) + 1] = m
  BY AppendProperties DEF Channels
<1>2. \A u \in Sessions : channel[u] \in Seq(Messages) /\ Len(channel[u]) \in Nat
  BY LenProperties DEF Channels
<1>3. CASE control[s] = "receiving"
  <2>1. channel' = [channel EXCEPT ![s] = Append(channel[s], m)]
    BY <1>3 DEF Send
  <2>2. channel'[s] = Append(channel[s], m)
    BY <2>1 DEF Channels
  <2>3. \A u \in Sessions : u # s => channel'[u] = channel[u]
    BY <2>1 DEF Channels
  <2>4. Channels'
    BY <2>1, <1>1 DEF Channels
  <2> QED
    BY <1>1, <1>2, <1>3, <2>2, <2>3, <2>4
<1>4. CASE control[s] # "receiving"
  BY <1>2, <1>4 DEF Send, Channels
<1> QED
  BY <1>3, <1>4

\* What the control thread takes out: one resize, or with a kill everything.
LEMMA ObeyDrains ==
  ASSUME Channels, NEW s \in Sessions, Obey(s)
  PROVE  /\ Channels'
         /\ \A u \in Sessions : u # s => channel'[u] = channel[u]
         /\ Len(channel[s]) \in Nat \ {0} /\ Len(channel'[s]) \in Nat
         /\ Len(channel'[s]) < Len(channel[s])
         /\ Head(channel[s]) = channel[s][1]
         /\ Head(channel[s]) = "kill" => channel'[s] = <<>>
         /\ Head(channel[s]) # "kill" =>
              \A i \in 1 .. Len(channel[s]) : i # 1 =>
                i - 1 \in 1 .. Len(channel'[s]) /\ channel'[s][i - 1] = channel[s][i]
<1> DEFINE line == channel[s]
<1>1. line \in Seq(Messages) /\ line # <<>>
  BY DEF Channels, Obey
<1>2. /\ Tail(line) \in Seq(Messages) /\ Len(Tail(line)) = Len(line) - 1
      /\ \A i \in 1 .. Len(Tail(line)) : Tail(line)[i] = line[i + 1]
  BY <1>1, HeadTailProperties
<1>3. Len(line) \in Nat \ {0} /\ Head(line) = line[1]
  BY <1>1, EmptySeq
<1>4. channel' = [channel EXCEPT ![s] = IF Head(line) = "kill" THEN <<>>
                                        ELSE Tail(line)]
  BY DEF Obey
<1>5. channel'[s] = IF Head(line) = "kill" THEN <<>> ELSE Tail(line)
  BY <1>4 DEF Channels
<1>6. <<>> \in Seq(Messages) /\ Len(<<>>) = 0
  BY EmptySeq
<1>7. Channels' /\ \A u \in Sessions : u # s => channel'[u] = channel[u]
  BY <1>2, <1>4, <1>6 DEF Channels
<1>8. \A i \in 1 .. Len(line) : i # 1 => /\ i - 1 \in 1 .. Len(Tail(line))
                                         /\ Tail(line)[i - 1] = line[i]
  <2> TAKE i \in 1 .. Len(line)
  <2> HAVE i # 1
  <2>1. i - 1 \in 1 .. Len(Tail(line)) /\ (i - 1) + 1 = i
    BY <1>2, <1>3
  <2> QED
    BY <2>1, <1>2
<1> QED
  BY <1>2, <1>3, <1>5, <1>6, <1>7, <1>8

(***************************************************************************)
(* Steps.  By who moves: spawn (1 to 4), the shell and the threads (5 to   *)
(* 8), the host (9 to 12), the connections (13 to 16).                     *)
(***************************************************************************)

\* The channels keep their type and their bound.
LEMMA ChannelsStep ==
  ASSUME PtyInv, [PtyNext]_ptyVars
  PROVE  Channels' /\ Bounded'
<1> USE PtyAssumption DEF PtyInv
<1>1. ASSUME NEW s \in Sessions, SpawnShell(s) PROVE Channels' /\ Bounded'
  BY <1>1 DEF SpawnShell, Channels, Bounded
<1>2. ASSUME NEW s \in Sessions, StartReader(s) \/ StartControl(s)
      PROVE Channels' /\ Bounded'
  BY <1>2 DEF StartReader, StartControl, Channels, Bounded
<1>3. ASSUME NEW s \in Sessions, StartWaiter(s) \/ SpawnFails(s)
      PROVE Channels' /\ Bounded'
  BY <1>3 DEF StartWaiter, SpawnFails, Channels, Bounded
<1>4. ASSUME NEW s \in Sessions, Register(s) PROVE Channels' /\ Bounded'
  BY <1>4 DEF Register, Channels, Bounded
<1>5. ASSUME NEW s \in Sessions, ShellExits(s) \/ ReaderEnds(s)
      PROVE Channels' /\ Bounded'
  BY <1>5 DEF ShellExits, ReaderEnds, Channels, Bounded
<1>6. ASSUME NEW s \in Sessions, Reap(s) \/ Unregister(s)
      PROVE Channels' /\ Bounded'
  BY <1>6 DEF Reap, Unregister, Channels, Bounded
<1>7. ASSUME NEW s \in Sessions, Hangup(s) PROVE Channels' /\ Bounded'
  BY <1>7 DEF Hangup, Channels, Bounded
<1>8. ASSUME NEW s \in Sessions, Obey(s) PROVE Channels' /\ Bounded'
  BY <1>8, ObeyDrains DEF Bounded
<1>9. ASSUME NEW s \in Sessions, Resize(s) PROVE Channels' /\ Bounded'
  <2>1. "resize" \in Messages /\ channel' = Send(s, "resize")
    BY <1>9 DEF Resize, Messages
  <2> QED
    BY <1>9, <2>1, SendAppends DEF Resize, Room, Bounded
<1>10. CASE KillSends
  <2>1. /\ "kill" \in Messages /\ killCall.on \in Sessions
        /\ channel' = Send(killCall.on, "kill")
    BY <1>10 DEF KillSends, Messages, Found
  <2> QED
    BY <1>10, <2>1, SendAppends DEF KillSends, Room, Bounded
<1>11. ASSUME NEW s \in Sessions, KillFinds(s) PROVE Channels' /\ Bounded'
  BY <1>11 DEF KillFinds, Channels, Bounded
<1>12. CASE KillRemoves
  BY <1>12 DEF KillRemoves, Channels, Bounded
<1>13. ASSUME NEW c \in Clients, NEW m \in Messages, ClientControls(c, m)
      PROVE Channels' /\ Bounded'
  <2>1. client[c].on \in Sessions /\ channel' = Send(client[c].on, m)
    BY <1>13 DEF ClientControls, Found
  <2> QED
    BY <1>13, <2>1, SendAppends DEF ClientControls, Room, Bounded
<1>14. ASSUME NEW c \in Clients, NEW s \in Sessions, ClientFinds(c, s)
       PROVE Channels' /\ Bounded'
  BY <1>14 DEF ClientFinds, Channels, Bounded
<1>15. ASSUME NEW c \in Clients, ClientServes(c) PROVE Channels' /\ Bounded'
  BY <1>15 DEF ClientServes, Channels, Bounded
<1>16. ASSUME NEW c \in Clients, ClientLeaves(c) PROVE Channels' /\ Bounded'
  BY <1>16 DEF ClientLeaves, Channels, Bounded
<1>17. CASE UNCHANGED ptyVars
  BY <1>17 DEF ptyVars, Channels, Bounded
<1> QED
  BY <1>1, <1>2, <1>3, <1>4, <1>5, <1>6, <1>7, <1>8, <1>9, <1>10, <1>11, <1>12,
     <1>13, <1>14, <1>15, <1>16, <1>17 DEF PtyNext, Spawning, ThreadStep

\* The places of the threads and of spawn.
LEMMA TypeThreadsStep ==
  ASSUME PtyInv, [PtyNext]_ptyVars
  PROVE  TypeThreads'
<1> USE DEF PtyInv, TypeThreads
<1>1. ASSUME NEW s \in Sessions, SpawnShell(s) PROVE TypeThreads'
  BY <1>1 DEF SpawnShell
<1>2. ASSUME NEW s \in Sessions, StartReader(s) \/ StartControl(s)
      PROVE TypeThreads'
  BY <1>2 DEF StartReader, StartControl
<1>3. ASSUME NEW s \in Sessions, StartWaiter(s) \/ SpawnFails(s)
      PROVE TypeThreads'
  BY <1>3 DEF StartWaiter, SpawnFails
<1>4. ASSUME NEW s \in Sessions, Register(s) PROVE TypeThreads'
  BY <1>4 DEF Register
<1>5. ASSUME NEW s \in Sessions, ShellExits(s) \/ ReaderEnds(s) PROVE TypeThreads'
  BY <1>5 DEF ShellExits, ReaderEnds
<1>6. ASSUME NEW s \in Sessions, Reap(s) \/ Unregister(s) PROVE TypeThreads'
  BY <1>6 DEF Reap, Unregister
<1>7. ASSUME NEW s \in Sessions, Hangup(s) PROVE TypeThreads'
  BY <1>7 DEF Hangup
<1>8. ASSUME NEW s \in Sessions, Obey(s) PROVE TypeThreads'
  BY <1>8 DEF Obey
<1>9. ASSUME NEW s \in Sessions, Resize(s) PROVE TypeThreads'
  BY <1>9 DEF Resize
<1>10. CASE KillSends
  BY <1>10 DEF KillSends
<1>11. ASSUME NEW s \in Sessions, KillFinds(s) PROVE TypeThreads'
  BY <1>11 DEF KillFinds
<1>12. CASE KillRemoves
  BY <1>12 DEF KillRemoves
<1>13. ASSUME NEW c \in Clients, NEW m \in Messages, ClientControls(c, m)
      PROVE TypeThreads'
  BY <1>13 DEF ClientControls
<1>14. ASSUME NEW c \in Clients, NEW s \in Sessions, ClientFinds(c, s)
       PROVE TypeThreads'
  BY <1>14 DEF ClientFinds
<1>15. ASSUME NEW c \in Clients, ClientServes(c) PROVE TypeThreads'
  BY <1>15 DEF ClientServes
<1>16. ASSUME NEW c \in Clients, ClientLeaves(c) PROVE TypeThreads'
  BY <1>16 DEF ClientLeaves
<1>17. CASE UNCHANGED ptyVars
  BY <1>17 DEF ptyVars
<1> QED
  BY <1>1, <1>2, <1>3, <1>4, <1>5, <1>6, <1>7, <1>8, <1>9, <1>10, <1>11, <1>12,
     <1>13, <1>14, <1>15, <1>16, <1>17 DEF PtyNext, Spawning, ThreadStep

\* The flags.
LEMMA TypeFlagsStep ==
  ASSUME PtyInv, [PtyNext]_ptyVars
  PROVE  TypeFlags'
<1> USE DEF PtyInv, TypeFlags
<1>1. ASSUME NEW s \in Sessions, SpawnShell(s) PROVE TypeFlags'
  BY <1>1 DEF SpawnShell
<1>2. ASSUME NEW s \in Sessions, StartReader(s) \/ StartControl(s)
      PROVE TypeFlags'
  BY <1>2 DEF StartReader, StartControl
<1>3. ASSUME NEW s \in Sessions, StartWaiter(s) \/ SpawnFails(s) PROVE TypeFlags'
  BY <1>3 DEF StartWaiter, SpawnFails
<1>4. ASSUME NEW s \in Sessions, Register(s) PROVE TypeFlags'
  BY <1>4 DEF Register
<1>5. ASSUME NEW s \in Sessions, ShellExits(s) \/ ReaderEnds(s) PROVE TypeFlags'
  BY <1>5 DEF ShellExits, ReaderEnds
<1>6. ASSUME NEW s \in Sessions, Reap(s) \/ Unregister(s) PROVE TypeFlags'
  BY <1>6 DEF Reap, Unregister
<1>7. ASSUME NEW s \in Sessions, Hangup(s) PROVE TypeFlags'
  BY <1>7 DEF Hangup
<1>8. ASSUME NEW s \in Sessions, Obey(s) PROVE TypeFlags'
  BY <1>8 DEF Obey
<1>9. ASSUME NEW s \in Sessions, Resize(s) PROVE TypeFlags'
  BY <1>9 DEF Resize
<1>10. CASE KillSends
  BY <1>10 DEF KillSends
<1>11. ASSUME NEW s \in Sessions, KillFinds(s) PROVE TypeFlags'
  BY <1>11 DEF KillFinds
<1>12. CASE KillRemoves
  BY <1>12 DEF KillRemoves
<1>13. ASSUME NEW c \in Clients, NEW m \in Messages, ClientControls(c, m)
      PROVE TypeFlags'
  BY <1>13 DEF ClientControls
<1>14. ASSUME NEW c \in Clients, NEW s \in Sessions, ClientFinds(c, s)
       PROVE TypeFlags'
  BY <1>14 DEF ClientFinds
<1>15. ASSUME NEW c \in Clients, ClientServes(c) PROVE TypeFlags'
  BY <1>15 DEF ClientServes
<1>16. ASSUME NEW c \in Clients, ClientLeaves(c) PROVE TypeFlags'
  BY <1>16 DEF ClientLeaves
<1>17. CASE UNCHANGED ptyVars
  BY <1>17 DEF ptyVars
<1> QED
  BY <1>1, <1>2, <1>3, <1>4, <1>5, <1>6, <1>7, <1>8, <1>9, <1>10, <1>11, <1>12,
     <1>13, <1>14, <1>15, <1>16, <1>17 DEF PtyNext, Spawning, ThreadStep

\* Who reaches a session.
LEMMA TypeCallersStep ==
  ASSUME PtyInv, [PtyNext]_ptyVars
  PROVE  TypeCallers'
<1> USE PtyAssumption DEF PtyInv, TypeCallers, Idle, Found
<1>1. ASSUME NEW s \in Sessions, SpawnShell(s) PROVE TypeCallers'
  BY <1>1 DEF SpawnShell
<1>2. ASSUME NEW s \in Sessions, StartReader(s) \/ StartControl(s)
      PROVE TypeCallers'
  BY <1>2 DEF StartReader, StartControl
<1>3. ASSUME NEW s \in Sessions, StartWaiter(s) \/ SpawnFails(s)
      PROVE TypeCallers'
  BY <1>3 DEF StartWaiter, SpawnFails
<1>4. ASSUME NEW s \in Sessions, Register(s) PROVE TypeCallers'
  BY <1>4 DEF Register
<1>5. ASSUME NEW s \in Sessions, ShellExits(s) \/ ReaderEnds(s) PROVE TypeCallers'
  BY <1>5 DEF ShellExits, ReaderEnds
<1>6. ASSUME NEW s \in Sessions, Reap(s) \/ Unregister(s) PROVE TypeCallers'
  BY <1>6 DEF Reap, Unregister
<1>7. ASSUME NEW s \in Sessions, Hangup(s) PROVE TypeCallers'
  BY <1>7 DEF Hangup
<1>8. ASSUME NEW s \in Sessions, Obey(s) PROVE TypeCallers'
  BY <1>8 DEF Obey
<1>9. ASSUME NEW s \in Sessions, Resize(s) PROVE TypeCallers'
  BY <1>9 DEF Resize
<1>10. CASE KillSends
  BY <1>10 DEF KillSends
<1>11. ASSUME NEW s \in Sessions, KillFinds(s) PROVE TypeCallers'
  BY <1>11 DEF KillFinds
<1>12. CASE KillRemoves
  BY <1>12 DEF KillRemoves
<1>13. ASSUME NEW c \in Clients, NEW m \in Messages, ClientControls(c, m)
      PROVE TypeCallers'
  BY <1>13 DEF ClientControls
<1>14. ASSUME NEW c \in Clients, NEW s \in Sessions, ClientFinds(c, s)
       PROVE TypeCallers'
  BY <1>14 DEF ClientFinds
<1>15. ASSUME NEW c \in Clients, ClientServes(c) PROVE TypeCallers'
  BY <1>15 DEF ClientServes
<1>16. ASSUME NEW c \in Clients, ClientLeaves(c) PROVE TypeCallers'
  BY <1>16 DEF ClientLeaves
<1>17. CASE UNCHANGED ptyVars
  BY <1>17 DEF ptyVars
<1> QED
  BY <1>1, <1>2, <1>3, <1>4, <1>5, <1>6, <1>7, <1>8, <1>9, <1>10, <1>11, <1>12,
     <1>13, <1>14, <1>15, <1>16, <1>17 DEF PtyNext, Spawning, ThreadStep

\* Threads are started in the order of spawn, and never again.
LEMMA StartedStep ==
  ASSUME PtyInv, [PtyNext]_ptyVars
  PROVE  Started'
<1> USE DEF PtyInv, Started, TypeThreads
<1>1. ASSUME NEW s \in Sessions, SpawnShell(s) PROVE Started'
  BY <1>1 DEF SpawnShell
<1>2. ASSUME NEW s \in Sessions, StartReader(s) \/ StartControl(s) PROVE Started'
  BY <1>2 DEF StartReader, StartControl
<1>3. ASSUME NEW s \in Sessions, StartWaiter(s) \/ SpawnFails(s) PROVE Started'
  BY <1>3 DEF StartWaiter, SpawnFails
<1>4. ASSUME NEW s \in Sessions, Register(s) PROVE Started'
  BY <1>4 DEF Register
<1>5. ASSUME NEW s \in Sessions, ShellExits(s) \/ ReaderEnds(s) PROVE Started'
  BY <1>5 DEF ShellExits, ReaderEnds
<1>6. ASSUME NEW s \in Sessions, Reap(s) \/ Unregister(s) PROVE Started'
  BY <1>6 DEF Reap, Unregister
<1>7. ASSUME NEW s \in Sessions, Hangup(s) PROVE Started'
  BY <1>7 DEF Hangup
<1>8. ASSUME NEW s \in Sessions, Obey(s) PROVE Started'
  BY <1>8 DEF Obey
<1>9. ASSUME NEW s \in Sessions, Resize(s) PROVE Started'
  BY <1>9 DEF Resize
<1>10. CASE KillSends
  BY <1>10 DEF KillSends
<1>11. ASSUME NEW s \in Sessions, KillFinds(s) PROVE Started'
  BY <1>11 DEF KillFinds
<1>12. CASE KillRemoves
  BY <1>12 DEF KillRemoves
<1>13. ASSUME NEW c \in Clients, NEW m \in Messages, ClientControls(c, m)
      PROVE Started'
  BY <1>13 DEF ClientControls
<1>14. ASSUME NEW c \in Clients, NEW s \in Sessions, ClientFinds(c, s)
       PROVE Started'
  BY <1>14 DEF ClientFinds
<1>15. ASSUME NEW c \in Clients, ClientServes(c) PROVE Started'
  BY <1>15 DEF ClientServes
<1>16. ASSUME NEW c \in Clients, ClientLeaves(c) PROVE Started'
  BY <1>16 DEF ClientLeaves
<1>17. CASE UNCHANGED ptyVars
  BY <1>17 DEF ptyVars
<1> QED
  BY <1>1, <1>2, <1>3, <1>4, <1>5, <1>6, <1>7, <1>8, <1>9, <1>10, <1>11, <1>12,
     <1>13, <1>14, <1>15, <1>16, <1>17 DEF PtyNext, Spawning, ThreadStep

\* Whoever reaches a session found it in the registry.
LEMMA FoundStep ==
  ASSUME PtyInv, [PtyNext]_ptyVars
  PROVE  Found'
<1> USE PtyAssumption
   DEF PtyInv, Found, Attached, Idle, TypeThreads, TypeFlags, TypeCallers
<1>1. ASSUME NEW s \in Sessions, SpawnShell(s) PROVE Found'
  BY <1>1 DEF SpawnShell
<1>2. ASSUME NEW s \in Sessions, StartReader(s) \/ StartControl(s) PROVE Found'
  BY <1>2 DEF StartReader, StartControl
<1>3. ASSUME NEW s \in Sessions, StartWaiter(s) \/ SpawnFails(s) PROVE Found'
  BY <1>3 DEF StartWaiter, SpawnFails
<1>4. ASSUME NEW s \in Sessions, Register(s) PROVE Found'
  BY <1>4 DEF Register
<1>5. ASSUME NEW s \in Sessions, ShellExits(s) \/ ReaderEnds(s) PROVE Found'
  BY <1>5 DEF ShellExits, ReaderEnds
<1>6. ASSUME NEW s \in Sessions, Reap(s) \/ Unregister(s) PROVE Found'
  BY <1>6 DEF Reap, Unregister
<1>7. ASSUME NEW s \in Sessions, Hangup(s) PROVE Found'
  BY <1>7 DEF Hangup
<1>8. ASSUME NEW s \in Sessions, Obey(s) PROVE Found'
  BY <1>8 DEF Obey
<1>9. ASSUME NEW s \in Sessions, Resize(s) PROVE Found'
  BY <1>9 DEF Resize
<1>10. CASE KillSends
  BY <1>10 DEF KillSends
<1>11. ASSUME NEW s \in Sessions, KillFinds(s) PROVE Found'
  BY <1>11 DEF KillFinds
<1>12. CASE KillRemoves
  BY <1>12 DEF KillRemoves
<1>13. ASSUME NEW c \in Clients, NEW m \in Messages, ClientControls(c, m)
      PROVE Found'
  BY <1>13 DEF ClientControls
<1>14. ASSUME NEW c \in Clients, NEW s \in Sessions, ClientFinds(c, s)
       PROVE Found'
  BY <1>14 DEF ClientFinds
<1>15. ASSUME NEW c \in Clients, ClientServes(c) PROVE Found'
  BY <1>15 DEF ClientServes
<1>16. ASSUME NEW c \in Clients, ClientLeaves(c) PROVE Found'
  BY <1>16 DEF ClientLeaves
<1>17. CASE UNCHANGED ptyVars
  BY <1>17 DEF ptyVars
<1> QED
  BY <1>1, <1>2, <1>3, <1>4, <1>5, <1>6, <1>7, <1>8, <1>9, <1>10, <1>11, <1>12,
     <1>13, <1>14, <1>15, <1>16, <1>17 DEF PtyNext, Spawning, ThreadStep

\* Only a control thread that receives has messages ahead of it.
LEMMA ChannelOpenStep ==
  ASSUME PtyInv, [PtyNext]_ptyVars
  PROVE  ChannelOpen'
<1> USE DEF ChannelOpen
<1>1. ASSUME NEW s \in Sessions, SpawnShell(s) PROVE ChannelOpen'
  BY <1>1 DEF SpawnShell, PtyInv, TypeThreads, Started
<1>2. ASSUME NEW s \in Sessions, StartReader(s) \/ StartControl(s)
      PROVE ChannelOpen'
  BY <1>2 DEF StartReader, StartControl, PtyInv, TypeThreads, Started
<1>3. ASSUME NEW s \in Sessions, StartWaiter(s) \/ SpawnFails(s)
      PROVE ChannelOpen'
  BY <1>3 DEF StartWaiter, SpawnFails, PtyInv, TypeThreads, Started
<1>4. ASSUME NEW s \in Sessions, Register(s) PROVE ChannelOpen'
  BY <1>4 DEF Register, PtyInv, TypeThreads, Started
<1>5. ASSUME NEW s \in Sessions, ShellExits(s) \/ ReaderEnds(s) PROVE ChannelOpen'
  BY <1>5 DEF ShellExits, ReaderEnds, PtyInv, TypeThreads, Started
<1>6. ASSUME NEW s \in Sessions, Reap(s) \/ Unregister(s) PROVE ChannelOpen'
  BY <1>6 DEF Reap, Unregister, PtyInv, TypeThreads, Started
<1>7. ASSUME NEW s \in Sessions, Hangup(s) PROVE ChannelOpen'
  BY <1>7 DEF Hangup, PtyInv, TypeThreads, Started
<1>8. ASSUME NEW s \in Sessions, Obey(s) PROVE ChannelOpen'
  <2>1. \A u \in Sessions : u # s => channel'[u] = channel[u]
    BY <1>8, ObeyDrains DEF PtyInv
  <2>2. Head(channel[s]) = "kill" => channel'[s] = <<>>
    BY <1>8, ObeyDrains DEF PtyInv
  <2>3. control' = [control EXCEPT ![s] = IF Head(channel[s]) = "kill" THEN "ended"
                                          ELSE @]
    BY <1>8 DEF Obey
  <2> QED
    BY <1>8, <2>1, <2>2, <2>3 DEF Obey, PtyInv, TypeThreads
<1>9. ASSUME NEW s \in Sessions, Resize(s) PROVE ChannelOpen'
  <2>1. /\ "resize" \in Messages /\ s \in Sessions
        /\ channel' = Send(s, "resize")
    BY <1>9 DEF Resize, Messages, Found, PtyInv
  <2>2. \A u \in Sessions : u # s \/ control[u] # "receiving"
                              => channel'[u] = channel[u]
    BY <2>1, SendAppends DEF PtyInv
  <2> QED
    BY <1>9, <2>1, <2>2 DEF PtyInv, Resize
<1>10. CASE KillSends
  <2>1. /\ "kill" \in Messages /\ killCall.on \in Sessions
        /\ channel' = Send(killCall.on, "kill")
    BY <1>10 DEF KillSends, Messages, Found, PtyInv
  <2>2. \A u \in Sessions : u # killCall.on \/ control[u] # "receiving"
                              => channel'[u] = channel[u]
    BY <2>1, SendAppends DEF PtyInv
  <2> QED
    BY <1>10, <2>1, <2>2 DEF PtyInv, KillSends
<1>11. ASSUME NEW s \in Sessions, KillFinds(s) PROVE ChannelOpen'
  BY <1>11 DEF KillFinds, PtyInv, TypeThreads, Started
<1>12. CASE KillRemoves
  BY <1>12 DEF KillRemoves, PtyInv, TypeThreads, Started
<1>13. ASSUME NEW c \in Clients, NEW m \in Messages, ClientControls(c, m)
      PROVE ChannelOpen'
  <2>1. /\ m \in Messages /\ client[c].on \in Sessions
        /\ channel' = Send(client[c].on, m)
    BY <1>13 DEF ClientControls, Messages, Found, PtyInv
  <2>2. \A u \in Sessions : u # client[c].on \/ control[u] # "receiving"
                              => channel'[u] = channel[u]
    BY <2>1, SendAppends DEF PtyInv
  <2> QED
    BY <1>13, <2>1, <2>2 DEF PtyInv, ClientControls
<1>14. ASSUME NEW c \in Clients, NEW s \in Sessions, ClientFinds(c, s)
       PROVE ChannelOpen'
  BY <1>14 DEF ClientFinds, PtyInv, TypeThreads, Started
<1>15. ASSUME NEW c \in Clients, ClientServes(c) PROVE ChannelOpen'
  BY <1>15 DEF ClientServes, PtyInv, TypeThreads, Started
<1>16. ASSUME NEW c \in Clients, ClientLeaves(c) PROVE ChannelOpen'
  BY <1>16 DEF ClientLeaves, PtyInv, TypeThreads, Started
<1>17. CASE UNCHANGED ptyVars
  BY <1>17 DEF ptyVars, PtyInv, TypeThreads, Started
<1> QED
  BY <1>1, <1>2, <1>3, <1>4, <1>5, <1>6, <1>7, <1>8, <1>9, <1>10, <1>11, <1>12,
     <1>13, <1>14, <1>15, <1>16, <1>17 DEF PtyNext, Spawning, ThreadStep

\* What is owed to a kill is not lost: its message is not dropped.
LEMMA KillTakenKept ==
  ASSUME PtyInv, NEW v \in Sessions, stage[v] = "done", KillTaken(v),
         [PtyNext]_ptyVars
  PROVE  KillTaken(v)'
<1> USE DEF PtyInv, KillTaken
<1>1. ASSUME NEW s \in Sessions, SpawnShell(s) PROVE KillTaken(v)'
  BY <1>1 DEF SpawnShell, TypeThreads, TypeFlags
<1>2. ASSUME NEW s \in Sessions, StartReader(s) \/ StartControl(s)
      PROVE KillTaken(v)'
  BY <1>2 DEF StartReader, StartControl, TypeThreads, TypeFlags
<1>3. ASSUME NEW s \in Sessions, StartWaiter(s) \/ SpawnFails(s)
      PROVE KillTaken(v)'
  BY <1>3 DEF StartWaiter, SpawnFails, TypeThreads, TypeFlags
<1>4. ASSUME NEW s \in Sessions, Register(s) PROVE KillTaken(v)'
  BY <1>4 DEF Register, TypeThreads, TypeFlags
<1>5. ASSUME NEW s \in Sessions, ShellExits(s) \/ ReaderEnds(s)
      PROVE KillTaken(v)'
  BY <1>5 DEF ShellExits, ReaderEnds, TypeThreads, TypeFlags
<1>6. ASSUME NEW s \in Sessions, Reap(s) \/ Unregister(s) PROVE KillTaken(v)'
  BY <1>6 DEF Reap, Unregister, TypeThreads, TypeFlags
<1>7. ASSUME NEW s \in Sessions, Hangup(s) PROVE KillTaken(v)'
  BY <1>7 DEF Hangup, TypeThreads, Channels
<1>8. ASSUME NEW s \in Sessions, Obey(s) PROVE KillTaken(v)'
  <2>1. /\ \A u \in Sessions : u # s => channel'[u] = channel[u]
        /\ Head(channel[s]) = channel[s][1]
        /\ Head(channel[s]) # "kill" =>
             \A i \in 1 .. Len(channel[s]) : i # 1 =>
               /\ i - 1 \in 1 .. Len(channel'[s])
               /\ channel'[s][i - 1] = channel[s][i]
    BY <1>8, ObeyDrains
  <2>2. CASE v # s
    BY <1>8, <2>1, <2>2 DEF Obey
  <2>3. CASE v = s /\ Head(channel[s]) = "kill"
    BY <1>8, <2>3 DEF Obey, TypeFlags
  <2>4. CASE v = s /\ Head(channel[s]) # "kill"
    <3>1. /\ control' = [control EXCEPT ![s] = control[s]]
          /\ signalled' = [signalled EXCEPT ![s] = signalled[s]]
          /\ UNCHANGED pidKnown
      BY <1>8, <2>4 DEF Obey, TypeFlags
    <3>2. /\ control'[s] = control[s] /\ signalled'[s] = signalled[s]
          /\ pidKnown' = pidKnown
      BY <3>1 DEF TypeFlags, TypeThreads
    <3>3. ASSUME NEW i \in 1 .. Len(channel[s]), channel[s][i] = "kill"
          PROVE  \E j \in 1 .. Len(channel'[s]) : channel'[s][j] = "kill"
      BY <2>1, <2>4, <3>3
    <3> QED
      BY <2>4, <3>2, <3>3
  <2> QED
    BY <2>2, <2>3, <2>4
<1>9. ASSUME NEW s \in Sessions, Resize(s) PROVE KillTaken(v)'
  <2>1. /\ "resize" \in Messages /\ s \in Sessions
        /\ channel' = Send(s, "resize")
    BY <1>9 DEF Resize, Messages, Found, PtyInv
  <2>2. \A u \in Sessions :
          /\ u # s \/ control[u] # "receiving" => channel'[u] = channel[u]
          /\ \A i \in 1 .. Len(channel[u]) : channel'[u][i] = channel[u][i]
          /\ Len(channel[u]) \in Nat /\ Len(channel'[u]) \in Nat
          /\ Len(channel[u]) <= Len(channel'[u])
    BY <2>1, SendAppends DEF PtyInv
  <2>3. \A i \in 1 .. Len(channel[v]) : i \in 1 .. Len(channel'[v])
    BY <2>2
  <2> QED
    BY <1>9, <2>2, <2>3 DEF Resize
<1>10. CASE KillSends
  <2>1. /\ "kill" \in Messages /\ killCall.on \in Sessions
        /\ channel' = Send(killCall.on, "kill")
    BY <1>10 DEF KillSends, Messages, Found, PtyInv
  <2>2. \A u \in Sessions :
          /\ u # killCall.on \/ control[u] # "receiving" => channel'[u] = channel[u]
          /\ \A i \in 1 .. Len(channel[u]) : channel'[u][i] = channel[u][i]
          /\ Len(channel[u]) \in Nat /\ Len(channel'[u]) \in Nat
          /\ Len(channel[u]) <= Len(channel'[u])
    BY <2>1, SendAppends DEF PtyInv
  <2>3. \A i \in 1 .. Len(channel[v]) : i \in 1 .. Len(channel'[v])
    BY <2>2
  <2> QED
    BY <1>10, <2>2, <2>3 DEF KillSends
<1>11. ASSUME NEW s \in Sessions, KillFinds(s) PROVE KillTaken(v)'
  BY <1>11 DEF KillFinds, TypeThreads, TypeFlags
<1>12. CASE KillRemoves
  BY <1>12 DEF KillRemoves, TypeThreads, TypeFlags
<1>13. ASSUME NEW c \in Clients, NEW m \in Messages, ClientControls(c, m)
      PROVE KillTaken(v)'
  <2>1. /\ m \in Messages /\ client[c].on \in Sessions
        /\ channel' = Send(client[c].on, m)
    BY <1>13 DEF ClientControls, Messages, Found, PtyInv
  <2>2. \A u \in Sessions :
          /\ u # client[c].on \/ control[u] # "receiving" => channel'[u] = channel[u]
          /\ \A i \in 1 .. Len(channel[u]) : channel'[u][i] = channel[u][i]
          /\ Len(channel[u]) \in Nat /\ Len(channel'[u]) \in Nat
          /\ Len(channel[u]) <= Len(channel'[u])
    BY <2>1, SendAppends DEF PtyInv
  <2>3. \A i \in 1 .. Len(channel[v]) : i \in 1 .. Len(channel'[v])
    BY <2>2
  <2> QED
    BY <1>13, <2>2, <2>3 DEF ClientControls
<1>14. ASSUME NEW c \in Clients, NEW s \in Sessions, ClientFinds(c, s)
       PROVE KillTaken(v)'
  BY <1>14 DEF ClientFinds, TypeThreads, TypeFlags
<1>15. ASSUME NEW c \in Clients, ClientServes(c) PROVE KillTaken(v)'
  BY <1>15 DEF ClientServes, TypeThreads, TypeFlags
<1>16. ASSUME NEW c \in Clients, ClientLeaves(c) PROVE KillTaken(v)'
  BY <1>16 DEF ClientLeaves, TypeThreads, TypeFlags
<1>17. CASE UNCHANGED ptyVars
  BY <1>17 DEF ptyVars, TypeThreads, TypeFlags
<1> QED
  BY <1>1, <1>2, <1>3, <1>4, <1>5, <1>6, <1>7, <1>8, <1>9, <1>10, <1>11, <1>12,
     <1>13, <1>14, <1>15, <1>16, <1>17 DEF PtyNext, Spawning, ThreadStep

\* A kill that was sent, and a kill that succeeded, are owed.
LEMMA OwedStep ==
  ASSUME PtyInv, [PtyNext]_ptyVars
  PROVE  CallOwed' /\ KillOwed'
<1> SUFFICES ASSUME NEW v \in Sessions,
                    killCall' = [does |-> "remove", on |-> v] \/ killed'[v]
             PROVE  KillTaken(v)'
  BY DEF CallOwed, KillOwed
<1>1. CASE KillTaken(v) /\ stage[v] = "done"
  BY <1>1, KillTakenKept
<1>2. CASE ~(KillTaken(v) /\ stage[v] = "done")
  <2>1. ~killed[v] /\ killCall # [does |-> "remove", on |-> v]
    BY <1>2 DEF PtyInv, KillOwed, CallOwed, Found, Attached
  <2>2. KillSends /\ killCall.on = v /\ control[v] = "receiving"
    BY <2>1 DEF PtyNext, Spawning, ThreadStep, SpawnShell, StartReader, StartControl,
       StartWaiter, Register, SpawnFails, ShellExits, ReaderEnds, Reap, Unregister, Hangup,
       Obey, Resize, KillFinds, KillSends, KillRemoves, ClientFinds, ClientServes,
       ClientLeaves, ClientControls, ptyVars, PtyInv, TypeFlags, TypeCallers, Idle
  <2>3. channel' = Send(v, "kill") /\ "kill" \in Messages /\ UNCHANGED control
    BY <2>2 DEF KillSends, Messages
  <2>4. /\ Len(channel[v]) \in Nat /\ Len(channel'[v]) = Len(channel[v]) + 1
        /\ channel'[v][Len(channel[v]) + 1] = "kill"
    BY <2>2, <2>3, SendAppends DEF PtyInv
  <2> QED
    BY <2>2, <2>3, <2>4 DEF KillTaken
<1> QED
  BY <1>1, <1>2

\* A session that nobody holds is found by nobody, and sent nothing.
LEMMA LeftForGoodStep ==
  ASSUME PtyInv, NEW v \in Sessions, [PtyNext]_ptyVars
  PROVE  LeftForGood(v)
<1> USE PtyAssumption DEF LeftForGood, Abandoned, Held, Attached
<1>1. ASSUME NEW s \in Sessions, SpawnShell(s) PROVE LeftForGood(v)
  BY <1>1 DEF SpawnShell, PtyInv, TypeThreads, TypeCallers, Found, Started, Idle
<1>2. ASSUME NEW s \in Sessions, StartReader(s) \/ StartControl(s)
      PROVE LeftForGood(v)
  BY <1>2 DEF StartReader, StartControl, PtyInv, TypeThreads, TypeCallers,
     Found, Started, Idle
<1>3. ASSUME NEW s \in Sessions, StartWaiter(s) \/ SpawnFails(s)
      PROVE LeftForGood(v)
  BY <1>3 DEF StartWaiter, SpawnFails, PtyInv, TypeThreads, TypeCallers, Found,
     Started, Idle
<1>4. ASSUME NEW s \in Sessions, Register(s) PROVE LeftForGood(v)
  BY <1>4 DEF Register, PtyInv, TypeThreads, TypeCallers, Found, Started, Idle
<1>5. ASSUME NEW s \in Sessions, ShellExits(s) \/ ReaderEnds(s) PROVE LeftForGood(v)
  BY <1>5 DEF ShellExits, ReaderEnds, PtyInv, TypeThreads, TypeCallers, Found,
     Started, Idle
<1>6. ASSUME NEW s \in Sessions, Reap(s) \/ Unregister(s) PROVE LeftForGood(v)
  BY <1>6 DEF Reap, Unregister, PtyInv, TypeThreads, TypeCallers, Found,
     Started, Idle
<1>7. ASSUME NEW s \in Sessions, Hangup(s) PROVE LeftForGood(v)
  BY <1>7 DEF Hangup, PtyInv, TypeThreads, TypeCallers, Found, Started, Idle
<1>8. ASSUME NEW s \in Sessions, Obey(s) PROVE LeftForGood(v)
  <2>1. /\ \A u \in Sessions : u # s => channel'[u] = channel[u]
        /\ Len(channel'[s]) < Len(channel[s])
    BY <1>8, ObeyDrains DEF PtyInv
  <2> QED
    BY <1>8, <2>1 DEF Obey, PtyInv, TypeThreads
<1>9. ASSUME NEW s \in Sessions, Resize(s) PROVE LeftForGood(v)
  <2>1. /\ "resize" \in Messages /\ s \in Sessions
        /\ channel' = Send(s, "resize")
    BY <1>9 DEF Resize, Messages, Found, PtyInv
  <2>2. Abandoned(v) => s # v
    BY <1>9 DEF Resize, Attached
  <2>3. Abandoned(v) => channel'[v] = channel[v]
    BY <2>1, <2>2, SendAppends DEF PtyInv
  <2> QED
    BY <1>9, <2>3 DEF Resize
<1>10. CASE KillSends
  <2>1. /\ "kill" \in Messages /\ killCall.on \in Sessions
        /\ channel' = Send(killCall.on, "kill")
    BY <1>10 DEF KillSends, Messages, Found, PtyInv
  <2>2. Abandoned(v) => killCall.on # v
    BY <1>10 DEF KillSends, Attached
  <2>3. Abandoned(v) => channel'[v] = channel[v]
    BY <2>1, <2>2, SendAppends DEF PtyInv
  <2> QED
    BY <1>10, <2>3 DEF KillSends, Idle
<1>11. ASSUME NEW s \in Sessions, KillFinds(s) PROVE LeftForGood(v)
  BY <1>11 DEF KillFinds, PtyInv, TypeThreads, TypeCallers, Found, Started, Idle
<1>12. CASE KillRemoves
  BY <1>12 DEF KillRemoves, PtyInv, TypeThreads, TypeCallers, Found, Started,
     Idle
<1>13. ASSUME NEW c \in Clients, NEW m \in Messages, ClientControls(c, m)
      PROVE LeftForGood(v)
  <2>1. /\ m \in Messages /\ client[c].on \in Sessions
        /\ channel' = Send(client[c].on, m)
    BY <1>13 DEF ClientControls, Messages, Found, PtyInv
  <2>2. Abandoned(v) => client[c].on # v
    BY <1>13 DEF ClientControls, Attached
  <2>3. Abandoned(v) => channel'[v] = channel[v]
    BY <2>1, <2>2, SendAppends DEF PtyInv
  <2> QED
    BY <1>13, <2>3 DEF ClientControls
<1>14. ASSUME NEW c \in Clients, NEW s \in Sessions, ClientFinds(c, s)
       PROVE LeftForGood(v)
  BY <1>14 DEF ClientFinds, PtyInv, TypeThreads, TypeCallers, Found, Started,
     Idle
<1>15. ASSUME NEW c \in Clients, ClientServes(c) PROVE LeftForGood(v)
  BY <1>15 DEF ClientServes, PtyInv, TypeThreads, TypeCallers, Found, Started,
     Idle
<1>16. ASSUME NEW c \in Clients, ClientLeaves(c) PROVE LeftForGood(v)
  BY <1>16 DEF ClientLeaves, PtyInv, TypeThreads, TypeCallers, Found, Started,
     Idle
<1>17. CASE UNCHANGED ptyVars
  BY <1>17 DEF ptyVars, PtyInv, TypeThreads, TypeCallers, Found, Started, Idle
<1> QED
  BY <1>1, <1>2, <1>3, <1>4, <1>5, <1>6, <1>7, <1>8, <1>9, <1>10, <1>11, <1>12,
     <1>13, <1>14, <1>15, <1>16, <1>17 DEF PtyNext, Spawning, ThreadStep

\* PtyInv holds in the initial state,
LEMMA PtyInitInv == PtyInit => PtyInv
<1> SUFFICES ASSUME PtyInit PROVE PtyInv
  OBVIOUS
<1> USE PtyAssumption DEF PtyInit, Idle
<1>1. Channels /\ Bounded /\ ChannelOpen
  <2>1. <<>> \in Seq(Messages) /\ Len(<<>>) = 0
    BY EmptySeq
  <2> QED
    BY <2>1 DEF Channels, Bounded, ChannelOpen
<1>2. TypeThreads /\ TypeFlags /\ TypeCallers
  BY DEF TypeThreads, TypeFlags, TypeCallers
<1>3. Started /\ Found
  BY DEF Started, Found, Attached
<1>4. CallOwed /\ KillOwed
  BY DEF CallOwed, KillOwed
<1> QED
  BY <1>1, <1>2, <1>3, <1>4 DEF PtyInv

\* and no step breaks it.
LEMMA PtyNextInv == PtyInv /\ [PtyNext]_ptyVars => PtyInv'
  BY ChannelsStep, TypeThreadsStep, TypeFlagsStep, TypeCallersStep, StartedStep,
     FoundStep, ChannelOpenStep, OwedStep DEF PtyInv

\* PtyInv is an invariant, for any sessions, clients and length of a channel.
THEOREM PtyInductive == PtySpec => []PtyInv
  BY PtyInitInv, PtyNextInv, PTL DEF PtySpec

\* The variables keep their types, and no channel grows beyond its bound.
THEOREM PtyTyped == PtySpec => []PtyTypeOK
<1>1. PtyInv => PtyTypeOK
  BY PtyTypeParts DEF PtyInv
<1> QED
  BY <1>1, PtyInductive, PTL

\* What kill() reported as done has been done or is ahead of a control thread
\* that still receives, whatever resizes, kills and connections come between.
THEOREM KillsOwed == PtySpec => []KillOwed
<1>1. PtyInv => KillOwed
  BY DEF PtyInv
<1> QED
  BY <1>1, PtyInductive, PTL

\* A session that nobody holds any more is left alone: its control thread only
\* drains the channel, and once it has ended it stays ended.
THEOREM AbandonedForGood == PtySpec => StaysAbandoned
<1>1. PtyInv /\ [PtyNext]_ptyVars => [\A s \in Sessions : LeftForGood(s)]_ptyVars
  BY LeftForGoodStep
<1> QED
  BY <1>1, PtyInductive, PTL DEF PtySpec, StaysAbandoned

=============================================================================
