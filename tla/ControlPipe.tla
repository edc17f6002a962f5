----------------------------- MODULE ControlPipe -----------------------------
(***************************************************************************)
(* The control pipe between a dsh plugin and the launcher: the client of   *)
(* plugins/dshl-pipe, one JavaScript object with one socket at a time, and *)
(* the server of src/control.rs, which authenticates every connection by   *)
(* its first frame and then answers its requests one after another.        *)
(*                                                                         *)
(* Each event handler of the client is one step, together with the         *)
(* continuations its promises run before the next event.  A socket that    *)
(* was destroyed emits its 'close' event later; it may find that the       *)
(* client has opened another one since.  A frame is one element of the     *)
(* stream: a request is named by its id, the handshake is Hello.  A method *)
(* is carried out, is refused, or makes the launcher exit and end every    *)
(* connection; what else it does there is left out.                        *)
(*                                                                         *)
(* Sources: plugins/dshl-pipe/src/client.js and src/control.rs.  TCP and   *)
(* the events of node:net are external.                                    *)
(***************************************************************************)
EXTENDS Naturals, Sequences, FiniteSets, SequencesExt

CONSTANTS
    Requests,       \* the requests that may be made, each once
    Leaving,        \* those that make the launcher exit: shutdown, switch-profile
    Hello,          \* the handshake frame
    MaxSockets      \* Bound: the connections a behaviour may open

ASSUME PipeAssumption ==
    /\ Hello \notin Requests
    /\ Leaving \subseteq Requests
    /\ MaxSockets \in Nat

VARIABLES
    req,            \* per request: its state and the socket it was issued on
    socket,         \* per socket: its state seen by the client
    settled,        \* per socket: the promise of #ensure has settled
    current,        \* #socket, 0 when there is none
    buffer,         \* what #buffer holds: nothing, half a frame, garbage
    toServer,       \* per socket: frames written and not yet read
    toClient,       \* per socket: answers written and not yet received
    server,         \* per socket: the server's side of the connection
    launcher        \* the process of the server

pipeVars == <<req, socket, settled, current, buffer, toServer, toClient, server,
              launcher>>

Sockets == 1 .. MaxSockets

\* An answer on the wire; "rest" when its first half has arrived already.
Answers == [id : Requests \cup {Hello}, ok : BOOLEAN, part : {"whole", "rest"}]

PipeTypeOK ==
    /\ req \in [Requests -> [state : {"idle", "ensuring", "pending", "ok", "failed", "lost"},
                             on : 0 .. MaxSockets]]
    /\ socket \in [Sockets -> {"unused", "connecting", "open", "destroyed", "closed"}]
    /\ settled \in [Sockets -> BOOLEAN]
    /\ current \in 0 .. MaxSockets
    /\ buffer \in {"empty", "half", "garbled"}
    /\ \A s \in Sockets : /\ toServer[s] \in Seq(Requests \cup {Hello})
                          /\ toClient[s] \in Seq(Answers)
    /\ server \in [Sockets -> {"none", "handshake", "serving", "closed"}]
    /\ launcher \in {"up", "leaving", "gone"}

PipeInit ==
    /\ req = [r \in Requests |-> [state |-> "idle", on |-> 0]]
    /\ socket = [s \in Sockets |-> "unused"]
    /\ settled = [s \in Sockets |-> FALSE]
    /\ current = 0
    /\ buffer = "empty"
    /\ toServer = [s \in Sockets |-> <<>>]
    /\ toClient = [s \in Sockets |-> <<>>]
    /\ server = [s \in Sockets |-> "none"]
    /\ launcher = "up"

-----------------------------------------------------------------------------
(* Helpers of the client                                                   *)

\* Every request in the given state gets the other one.
Move(from, to, reqs) ==
    [r \in Requests |-> IF reqs[r].state = from THEN [reqs[r] EXCEPT !.state = to]
                                                ELSE reqs[r]]

\* Fault: the map of pending requests is cleared without rejecting them.
DropPending(reqs) == Move("pending", "lost", reqs)

\* #failPending: every pending request is rejected, on whichever socket.
FailPending(reqs) == Move("pending", "failed", reqs)

\* The requests whose #ensure waits for socket s are rejected with it.
Reject(s, reqs) ==
    [r \in Requests |-> IF reqs[r] = [state |-> "ensuring", on |-> s]
                        THEN [reqs[r] EXCEPT !.state = "failed"] ELSE reqs[r]]

\* #close: the current socket is destroyed, whichever it is.
Destroyed(socks) ==
    IF current # 0 /\ socks[current] \in {"connecting", "open"}
    THEN [socks EXCEPT ![current] = "destroyed"] ELSE socks

\* A write: the frames reach the stream of a socket that still has one.
Written(s, frames) ==
    IF socket[s] \in {"connecting", "open"}
    THEN [toServer EXCEPT ![s] = @ \o frames] ELSE toServer

-----------------------------------------------------------------------------
(* The client                                                              *)

\* request() with no socket: #ensure opens one and the request waits for it.
RequestConnects(r) ==
    /\ req[r].state = "idle" /\ current = 0
    /\ \E s \in Sockets :
         /\ socket[s] = "unused"
         /\ \A t \in Sockets : t < s => socket[t] # "unused"
         /\ socket' = [socket EXCEPT ![s] = "connecting"]
         /\ current' = s
         /\ req' = [req EXCEPT ![r] = [state |-> "ensuring", on |-> s]]
    /\ UNCHANGED <<settled, buffer, toServer, toClient, server, launcher>>

\* request() with a socket, connected or not: the frame is written at once,
\* before the handshake when the connection is still being made.
RequestWrites(r) ==
    /\ req[r].state = "idle" /\ current # 0
    /\ req' = [req EXCEPT ![r] = [state |-> "pending", on |-> current]]
    /\ toServer' = Written(current, <<r>>)
    /\ UNCHANGED <<socket, settled, current, buffer, toClient, server, launcher>>

\* The connection is made: the handshake follows what was written early, and
\* the request that opened the socket follows the handshake.
Connected(s) ==
    /\ socket[s] = "connecting" /\ launcher # "gone"
    /\ socket' = [socket EXCEPT ![s] = "open"]
    /\ settled' = [settled EXCEPT ![s] = TRUE]
    /\ server' = [server EXCEPT ![s] = "handshake"]
    /\ LET waiting == SetToSeq({r \in Requests : req[r] = [state |-> "ensuring", on |-> s]})
       IN  toServer' = Written(s, <<Hello>> \o waiting)
    /\ req' = [r \in Requests |-> IF req[r] = [state |-> "ensuring", on |-> s]
                                  THEN [req[r] EXCEPT !.state = "pending"] ELSE req[r]]
    /\ UNCHANGED <<current, buffer, toClient, launcher>>

\* The connection is refused, or its five seconds are over (even for a socket
\* that was destroyed before): #ensure closes the current socket and rejects.
ConnectFails(s) ==
    /\ socket[s] \in {"connecting", "destroyed"}
    /\ ~settled[s]
    /\ settled' = [settled EXCEPT ![s] = TRUE]
    /\ socket' = [Destroyed(socket) EXCEPT ![s] = "destroyed"]
    /\ current' = 0
    /\ req' = Reject(s, req)
    /\ UNCHANGED <<buffer, toServer, toClient, server, launcher>>

\* An established connection breaks, or the server has ended it: the socket
\* destroys itself; the client keeps it until the 'close' event.
ConnectionLost(s) ==
    /\ socket[s] = "open"
    /\ socket' = [socket EXCEPT ![s] = "destroyed"]
    /\ UNCHANGED <<req, settled, current, buffer, toServer, toClient, server,
                   launcher>>

\* The 'close' event of a destroyed socket: the client closes whichever
\* socket is current and rejects whatever is pending.
CloseEvent(s) ==
    /\ socket[s] = "destroyed"
    /\ socket' = [Destroyed(socket) EXCEPT ![s] = "closed"]
    /\ current' = 0
    /\ req' = FailPending(req)
    /\ toClient' = [toClient EXCEPT ![s] = <<>>]
    /\ UNCHANGED <<settled, buffer, toServer, server, launcher>>

\* A chunk that ends inside an answer: its first half waits in the buffer.
ReceiveHalf(s) ==
    /\ socket[s] = "open" /\ toClient[s] # <<>>
    /\ Head(toClient[s]).part = "whole"
    /\ toClient' = [toClient EXCEPT ![s][1].part = "rest"]
    /\ buffer' = IF buffer = "empty" THEN "half" ELSE "garbled"
    /\ UNCHANGED <<req, socket, settled, current, toServer, server, launcher>>

\* A chunk that ends an answer.  The line is an answer only if the buffer
\* held exactly what belongs before it; anything else fails to parse and is
\* skipped.  The answer settles its request if that is still pending; one
\* that carries an error rejects it.
Receive(s) ==
    /\ socket[s] = "open" /\ toClient[s] # <<>>
    /\ LET answer == Head(toClient[s])
           parses == buffer = IF answer.part = "whole" THEN "empty" ELSE "half"
           r == answer.id
       IN  req' = IF parses /\ r \in Requests /\ req[r].state = "pending"
                  THEN [req EXCEPT ![r].state = IF answer.ok THEN "ok" ELSE "failed"]
                  ELSE req
    /\ buffer' = "empty"
    /\ toClient' = [toClient EXCEPT ![s] = Tail(@)]
    /\ UNCHANGED <<socket, settled, current, toServer, server, launcher>>

\* Fifteen seconds without an answer: the request is forgotten and rejected.
RequestTimesOut(r) ==
    /\ req[r].state = "pending"
    /\ req' = [req EXCEPT ![r].state = "failed"]
    /\ UNCHANGED <<socket, settled, current, buffer, toServer, toClient, server,
                   launcher>>

\* dispose(): pending requests are rejected and the socket destroyed.
Dispose ==
    /\ current # 0
    /\ req' = FailPending(req)
    /\ socket' = Destroyed(socket)
    /\ current' = 0
    /\ UNCHANGED <<settled, buffer, toServer, toClient, server, launcher>>

-----------------------------------------------------------------------------
(* The server                                                              *)

\* An answer travels as long as the client has the socket open.
Answered(s, id, ok) ==
    IF socket[s] = "open"
    THEN [toClient EXCEPT ![s] = Append(@, [id |-> id, ok |-> ok, part |-> "whole"])]
    ELSE toClient

\* The first frame must be the handshake; anything else is answered with an
\* error that names no request, and the connection is closed.
Handshake(s) ==
    /\ server[s] = "handshake" /\ toServer[s] # <<>>
    /\ \/ /\ Head(toServer[s]) = Hello
          /\ server' = [server EXCEPT ![s] = "serving"]
          /\ UNCHANGED toClient
       \/ /\ Head(toServer[s]) # Hello
          /\ server' = [server EXCEPT ![s] = "closed"]
          /\ toClient' = Answered(s, Hello, FALSE)
    /\ toServer' = [toServer EXCEPT ![s] = Tail(@)]
    /\ UNCHANGED <<req, socket, settled, current, buffer, launcher>>

\* dispatch: a method is carried out, or refused (an unknown one, one without
\* its argument, a terminal that does not open).  Those of Leaving make the
\* launcher exit, in a while; the answer may still arrive or be lost with it.
Dispatch(r, ok) ==
    launcher' = IF ok /\ r \in Leaving /\ launcher = "up"
                THEN "leaving" ELSE launcher

\* The next request of an authenticated connection is carried out and answered.
Serve(s) ==
    /\ server[s] = "serving" /\ toServer[s] # <<>>
    /\ LET r == Head(toServer[s]) IN
         /\ r \in Requests
         /\ \E ok \in BOOLEAN : Dispatch(r, ok) /\ toClient' = Answered(s, r, ok)
    /\ toServer' = [toServer EXCEPT ![s] = Tail(@)]
    /\ UNCHANGED <<req, socket, settled, current, buffer, server>>

\* The server's side ends: no handshake within five seconds, the end of the
\* stream, or a write that fails.
ServerEnds(s) ==
    /\ server[s] \in {"handshake", "serving"}
    /\ server' = [server EXCEPT ![s] = "closed"]
    /\ toServer' = [toServer EXCEPT ![s] = <<>>]
    /\ UNCHANGED <<req, socket, settled, current, buffer, toClient, launcher>>

\* The process exits: every connection it had ends, answered or not.
LauncherExits ==
    /\ launcher = "leaving"
    /\ launcher' = "gone"
    /\ server' = [s \in Sockets |-> IF server[s] = "none" THEN "none" ELSE "closed"]
    /\ toServer' = [s \in Sockets |-> <<>>]
    /\ UNCHANGED <<req, socket, settled, current, buffer, toClient>>

-----------------------------------------------------------------------------

PipeNext ==
    \/ \E r \in Requests : RequestConnects(r) \/ RequestWrites(r) \/ RequestTimesOut(r)
    \/ \E s \in Sockets : \/ Connected(s) \/ ConnectFails(s) \/ ConnectionLost(s)
                          \/ CloseEvent(s) \/ ReceiveHalf(s) \/ Receive(s)
                          \/ Handshake(s) \/ Serve(s) \/ ServerEnds(s)
    \/ Dispose \/ LauncherExits

\* Timers fire, and a destroyed socket emits its 'close' event.
PipeFairness ==
    /\ \A r \in Requests : WF_pipeVars(RequestTimesOut(r))
    /\ \A s \in Sockets : WF_pipeVars(ConnectFails(s)) /\ WF_pipeVars(CloseEvent(s))

PipeSpec == PipeInit /\ [][PipeNext]_pipeVars /\ PipeFairness

-----------------------------------------------------------------------------
(* Properties                                                              *)

\* A request that waits for a socket which was destroyed before it connected
\* and was closed: its #ensure has nobody left to settle it.
Stranded(r) ==
    req[r].state = "ensuring" /\ socket[req[r].on] = "closed"

\* Every request is resolved or rejected in the end, through connections
\* that fail, break, are replaced or closed by an older socket's late event.
\* The one exception the code leaves is a request stranded in #ensure.
Settles ==
    \A r \in Requests :
        (req[r].state # "idle") ~> (req[r].state \in {"ok", "failed"} \/ Stranded(r))
=============================================================================
