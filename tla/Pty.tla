--------------------------------- MODULE Pty ---------------------------------
(***************************************************************************)
(* Terminal sessions: a shell on a pseudo-terminal, its registry entry,    *)
(* and the WebSocket connections of the browser terminals attached to it.  *)
(*                                                                         *)
(* A session is shared by reference count: spawn() while it builds the     *)
(* session, the reader and the wait thread, the registry, every attached   *)
(* connection and a running call of the public API hold it.  The control   *)
(* thread owns the master side of the terminal but only the receiving end  *)
(* of the session's channel: it ends on a kill message, or when the last   *)
(* holder is gone and the channel closes.                                  *)
(*                                                                         *)
(* What the shell prints and reads is left out; the order in which the     *)
(* threads, the calls and the connections come and go is not.              *)
(*                                                                         *)
(* Sources: src/pty/session.rs, src/pty/server.rs and                      *)
(* crates/dshl-native/src/pty.rs.  The terminal is external: it hangs up   *)
(* when its shell exits, as the kernel does for a session leader.          *)
(***************************************************************************)
EXTENDS Naturals, Sequences, FiniteSets

CONSTANTS
    Sessions,       \* the sessions that may be spawned
    Clients,        \* the browser terminals
    NoSession,      \* a client that is not attached
    MaxQueue        \* Bound: control messages waiting in one channel

ASSUME PtyAssumption ==
    /\ NoSession \notin Sessions
    /\ MaxQueue \in Nat \ {0}

VARIABLES
    wsServer,       \* the WebSocket server has been booted
    stage,          \* what spawn() does next for a session
    shell,          \* the child process
    pidKnown,       \* its pid was read when it was spawned
    reader,         \* the reader thread
    control,        \* the control thread
    waiter,         \* the wait thread
    registry,       \* the sessions of SESSIONS
    channel,        \* control messages not yet received
    client,         \* what each WebSocket connection does, and on which session
    killCall,       \* the call of kill() that is running
    killed,         \* kill() has returned true
    signalled       \* the control thread has sent SIGTERM

ptyVars == <<wsServer, stage, shell, pidKnown, reader, control, waiter, registry,
             channel, client, killCall, killed, signalled>>

Messages == {"resize", "kill"}

PtyTypeOK ==
    /\ wsServer \in BOOLEAN
    /\ stage \in [Sessions -> {"none", "reader", "control", "wait", "insert",
                               "done", "failed"}]
    /\ shell \in [Sessions -> {"none", "running", "exited", "reaped"}]
    /\ pidKnown \in [Sessions -> BOOLEAN]
    /\ reader \in [Sessions -> {"none", "reading", "ended"}]
    /\ control \in [Sessions -> {"none", "receiving", "ended"}]
    /\ waiter \in [Sessions -> {"none", "waiting", "lingering", "ended"}]
    /\ registry \subseteq Sessions
    /\ \A s \in Sessions : channel[s] \in Seq(Messages) /\ Len(channel[s]) <= MaxQueue
    /\ client \in [Clients -> [does : {"idle", "upgrading", "serving"},
                               on : Sessions \cup {NoSession}]]
    /\ killCall \in [does : {"idle", "send", "remove"}, on : Sessions \cup {NoSession}]
    /\ killed \in [Sessions -> BOOLEAN]
    /\ signalled \in [Sessions -> BOOLEAN]

Idle == [does |-> "idle", on |-> NoSession]

PtyInit ==
    /\ wsServer = FALSE
    /\ stage = [s \in Sessions |-> "none"]
    /\ shell = [s \in Sessions |-> "none"]
    /\ pidKnown = [s \in Sessions |-> FALSE]
    /\ reader = [s \in Sessions |-> "none"]
    /\ control = [s \in Sessions |-> "none"]
    /\ waiter = [s \in Sessions |-> "none"]
    /\ registry = {}
    /\ channel = [s \in Sessions |-> <<>>]
    /\ client = [c \in Clients |-> Idle]
    /\ killCall = Idle
    /\ killed = [s \in Sessions |-> FALSE]
    /\ signalled = [s \in Sessions |-> FALSE]

\* Somebody outside the threads of s can reach it.
Attached(s) ==
    s \in registry \/ killCall.on = s \/ \E c \in Clients : client[c].on = s

\* Fault: the control thread keeps the session it serves.
HeldByControl(s) ==
    \/ stage[s] \in {"reader", "control", "wait", "insert"}
    \/ reader[s] = "reading" \/ waiter[s] \in {"waiting", "lingering"}
    \/ control[s] = "receiving"
    \/ Attached(s)

\* Somebody holds a reference to the session, and with it the sending end of
\* its control channel.
Held(s) ==
    \/ stage[s] \in {"reader", "control", "wait", "insert"}
    \/ reader[s] = "reading" \/ waiter[s] \in {"waiting", "lingering"}
    \/ Attached(s)

-----------------------------------------------------------------------------
(* spawn()                                                                 *)

\* The server is booted by the first call, and a failed boot is retried by
\* the next; then the terminal is opened and the shell started.
SpawnShell(s) ==
    /\ stage[s] = "none"
    /\ wsServer' = TRUE
    /\ stage' = [stage EXCEPT ![s] = "reader"]
    /\ shell' = [shell EXCEPT ![s] = "running"]
    /\ \E known \in BOOLEAN : pidKnown' = [pidKnown EXCEPT ![s] = known]
    /\ UNCHANGED <<reader, control, waiter, registry, channel, client, killCall,
                   killed, signalled>>

StartReader(s) ==
    /\ stage[s] = "reader"
    /\ reader' = [reader EXCEPT ![s] = "reading"]
    /\ stage' = [stage EXCEPT ![s] = "control"]
    /\ UNCHANGED <<wsServer, shell, pidKnown, control, waiter, registry, channel,
                   client, killCall, killed, signalled>>

StartControl(s) ==
    /\ stage[s] = "control"
    /\ control' = [control EXCEPT ![s] = "receiving"]
    /\ stage' = [stage EXCEPT ![s] = "wait"]
    /\ UNCHANGED <<wsServer, shell, pidKnown, reader, waiter, registry, channel,
                   client, killCall, killed, signalled>>

StartWaiter(s) ==
    /\ stage[s] = "wait"
    /\ waiter' = [waiter EXCEPT ![s] = "waiting"]
    /\ stage' = [stage EXCEPT ![s] = "insert"]
    /\ UNCHANGED <<wsServer, shell, pidKnown, reader, control, registry, channel,
                   client, killCall, killed, signalled>>

\* The entry is made last, with all three threads running.
Register(s) ==
    /\ stage[s] = "insert"
    /\ registry' = registry \cup {s}
    /\ stage' = [stage EXCEPT ![s] = "done"]
    /\ UNCHANGED <<wsServer, shell, pidKnown, reader, control, waiter, channel,
                   client, killCall, killed, signalled>>

\* A thread cannot be started: spawn() fails and leaves the rest as it is.
SpawnFails(s) ==
    /\ stage[s] \in {"reader", "control", "wait"}
    /\ stage' = [stage EXCEPT ![s] = "failed"]
    /\ UNCHANGED <<wsServer, shell, pidKnown, reader, control, waiter, registry,
                   channel, client, killCall, killed, signalled>>

-----------------------------------------------------------------------------
(* The shell and the three threads of a session                            *)

\* The shell ends: by itself, or by a signal it does not ignore.
ShellExits(s) ==
    /\ shell[s] = "running"
    /\ shell' = [shell EXCEPT ![s] = "exited"]
    /\ UNCHANGED <<wsServer, stage, pidKnown, reader, control, waiter, registry,
                   channel, client, killCall, killed, signalled>>

\* The reader sees the end of the terminal and lets go of the session.
ReaderEnds(s) ==
    /\ reader[s] = "reading" /\ shell[s] # "running"
    /\ reader' = [reader EXCEPT ![s] = "ended"]
    /\ UNCHANGED <<wsServer, stage, shell, pidKnown, control, waiter, registry,
                   channel, client, killCall, killed, signalled>>

\* The wait thread reaps the shell and lingers for half a second.
Reap(s) ==
    /\ waiter[s] = "waiting" /\ shell[s] = "exited"
    /\ shell' = [shell EXCEPT ![s] = "reaped"]
    /\ waiter' = [waiter EXCEPT ![s] = "lingering"]
    /\ UNCHANGED <<wsServer, stage, pidKnown, reader, control, registry, channel,
                   client, killCall, killed, signalled>>

\* It removes the entry, if there is one, and lets go of the session.
Unregister(s) ==
    /\ waiter[s] = "lingering"
    /\ waiter' = [waiter EXCEPT ![s] = "ended"]
    /\ registry' = registry \ {s}
    /\ UNCHANGED <<wsServer, stage, shell, pidKnown, reader, control, channel,
                   client, killCall, killed, signalled>>

\* Fault: the control thread ends after any message.
ObeyOnce(s) ==
    /\ control[s] = "receiving" /\ channel[s] # <<>>
    /\ channel' = [channel EXCEPT ![s] = <<>>]
    /\ control' = [control EXCEPT ![s] = "ended"]
    /\ signalled' = [signalled EXCEPT ![s] =
                        @ \/ (Head(channel[s]) = "kill" /\ pidKnown[s])]
    /\ UNCHANGED <<wsServer, stage, shell, pidKnown, reader, waiter, registry,
                   client, killCall, killed>>

\* The control thread receives a message; a kill sends SIGTERM to a known pid
\* (whoever has it by now) and ends the thread.
Obey(s) ==
    /\ control[s] = "receiving" /\ channel[s] # <<>>
    /\ channel' = [channel EXCEPT ![s] = IF Head(@) = "kill" THEN <<>> ELSE Tail(@)]
    /\ control' = [control EXCEPT ![s] = IF Head(channel[s]) = "kill" THEN "ended" ELSE @]
    /\ signalled' = [signalled EXCEPT ![s] =
                        @ \/ (Head(channel[s]) = "kill" /\ pidKnown[s])]
    /\ UNCHANGED <<wsServer, stage, shell, pidKnown, reader, waiter, registry,
                   client, killCall, killed>>

\* The channel is empty and every sender is gone: the control thread ends,
\* and the master side of the terminal is closed.
Hangup(s) ==
    /\ control[s] = "receiving" /\ channel[s] = <<>>
    /\ ~Held(s)
    /\ control' = [control EXCEPT ![s] = "ended"]
    /\ UNCHANGED <<wsServer, stage, shell, pidKnown, reader, waiter, registry,
                   channel, client, killCall, killed, signalled>>

-----------------------------------------------------------------------------
(* The public API, called by the host                                      *)

\* A message is sent as long as the control thread receives.
Send(s, m) ==
    IF control[s] = "receiving" THEN [channel EXCEPT ![s] = Append(@, m)] ELSE channel

Room(s) == Len(channel[s]) < MaxQueue

Resize(s) ==
    /\ s \in registry /\ control[s] = "receiving" /\ Room(s)
    /\ channel' = Send(s, "resize")
    /\ UNCHANGED <<wsServer, stage, shell, pidKnown, reader, control, waiter,
                   registry, client, killCall, killed, signalled>>

\* kill(): the session is looked up,
KillFinds(s) ==
    /\ killCall = Idle /\ s \in registry
    /\ killCall' = [does |-> "send", on |-> s]
    /\ UNCHANGED <<wsServer, stage, shell, pidKnown, reader, control, waiter,
                   registry, channel, client, killed, signalled>>

\* the message is sent, which fails when the control thread has ended,
KillSends ==
    /\ killCall.does = "send" /\ Room(killCall.on)
    /\ channel' = Send(killCall.on, "kill")
    /\ killCall' = IF control[killCall.on] = "receiving"
                   THEN [killCall EXCEPT !.does = "remove"] ELSE Idle
    /\ UNCHANGED <<wsServer, stage, shell, pidKnown, reader, control, waiter,
                   registry, client, killed, signalled>>

\* and after it was sent the entry is removed and the call succeeds.
KillRemoves ==
    /\ killCall.does = "remove"
    /\ registry' = registry \ {killCall.on}
    /\ killed' = [killed EXCEPT ![killCall.on] = TRUE]
    /\ killCall' = Idle
    /\ UNCHANGED <<wsServer, stage, shell, pidKnown, reader, control, waiter,
                   channel, client, signalled>>

-----------------------------------------------------------------------------
(* The WebSocket connections                                               *)

\* A request with the token finds its session; an unknown one is refused.
ClientFinds(c, s) ==
    /\ wsServer /\ client[c] = Idle /\ s \in registry
    /\ client' = [client EXCEPT ![c] = [does |-> "upgrading", on |-> s]]
    /\ UNCHANGED <<wsServer, stage, shell, pidKnown, reader, control, waiter,
                   registry, channel, killCall, killed, signalled>>

\* The upgrade is answered, init is sent, and output is subscribed to.
ClientServes(c) ==
    /\ client[c].does = "upgrading"
    /\ client' = [client EXCEPT ![c].does = "serving"]
    /\ UNCHANGED <<wsServer, stage, shell, pidKnown, reader, control, waiter,
                   registry, channel, killCall, killed, signalled>>

\* A binary frame with a control message; text is the shell's input.
ClientControls(c, m) ==
    /\ client[c].does = "serving"
    /\ control[client[c].on] = "receiving" /\ Room(client[c].on)
    /\ channel' = Send(client[c].on, m)
    /\ UNCHANGED <<wsServer, stage, shell, pidKnown, reader, control, waiter,
                   registry, client, killCall, killed, signalled>>

\* The client closes, or the connection breaks, before or after the upgrade.
\* Nothing else ends it: the session it holds keeps its output open.
ClientLeaves(c) ==
    /\ client[c] # Idle
    /\ client' = [client EXCEPT ![c] = Idle]
    /\ UNCHANGED <<wsServer, stage, shell, pidKnown, reader, control, waiter,
                   registry, channel, killCall, killed, signalled>>

-----------------------------------------------------------------------------

Spawning(s) ==
    \/ SpawnShell(s) \/ StartReader(s) \/ StartControl(s) \/ StartWaiter(s)
    \/ Register(s) \/ SpawnFails(s)

ThreadStep(s) == ReaderEnds(s) \/ Reap(s) \/ Unregister(s) \/ Obey(s) \/ Hangup(s)

PtyNext ==
    \/ \E s \in Sessions : \/ Spawning(s) \/ ShellExits(s) \/ ThreadStep(s)
                           \/ Resize(s) \/ KillFinds(s)
    \/ KillSends \/ KillRemoves
    \/ \E c \in Clients : \/ \E s \in Sessions : ClientFinds(c, s)
                          \/ ClientServes(c) \/ ClientLeaves(c)
                          \/ \E m \in Messages : ClientControls(c, m)

\* The threads of a session run; nothing is assumed of its shell, of the host
\* or of the connections.
PtyFairness ==
    \A s \in Sessions :
        /\ WF_ptyVars(ReaderEnds(s)) /\ WF_ptyVars(Reap(s)) /\ WF_ptyVars(Unregister(s))
        /\ WF_ptyVars(Obey(s)) /\ WF_ptyVars(Hangup(s))

PtySpec == PtyInit /\ [][PtyNext]_ptyVars /\ PtyFairness

-----------------------------------------------------------------------------
(* Properties                                                              *)

\* Once the shell has exited and neither the registry, a connection nor a
\* call can reach the session any more, its control thread ends and with it
\* the terminal it owns (the comment at session.rs:226).
Released ==
    \A s \in Sessions :
        <>[](shell[s] \in {"exited", "reaped"} /\ ~Attached(s)
             /\ stage[s] \in {"done", "failed"})
            => <>[](control[s] # "receiving")

\* A kill() that reported success is carried out: the control thread does
\* send the signal, however many resizes, other kills and connections come
\* between, unless the pid was unknown from the start.
KillHonoured ==
    \A s \in Sessions : killed[s] ~> (signalled[s] \/ ~pidKnown[s])
=============================================================================
