---------------------------- MODULE ServicesProofs ----------------------------
(***************************************************************************)
(* Proofs about ControlPipe, for any requests and number of sockets, and   *)
(* about Services, for any interleaving of its four parts.                 *)
(*                                                                         *)
(* The client of the pipe has one live connection at most (OneConnection); *)
(* a request that waits for a connection is not forgotten, except for the  *)
(* case that Stranded names (WaitHasEnd, the safety part of Settles); the  *)
(* frame of a request is written once and so carried out once at most      *)
(* (OnWireOnce, ServedOnce), and an authenticated connection always finds  *)
(* a request at the head of its stream (NeverStuck).                       *)
(*                                                                         *)
(* The four parts share no variable, so an invariant of a part is one of  *)
(* Services as soon as it survives the steps that leave the part alone.    *)
(***************************************************************************)
EXTENDS Services, KernelBootProofs, PtyProofs, SelfUpdateProofs, FiniteSetTheorems

(***************************************************************************)
(* The properties of the pipe.                                             *)
(***************************************************************************)

\* What a stream of frames, or of answers, has in it.
Holds(q, x)    == \E i \in 1 .. Len(q) : q[i] = x
Distinct(q)    == \A i, j \in 1 .. Len(q) : q[i] = q[j] => i = j
AnswerTo(q, r) == \E i \in 1 .. Len(q) : q[i].id = r
OneEach(q)     == \A i, j \in 1 .. Len(q) :
                     q[i].id \in Requests /\ q[i].id = q[j].id => i = j

\* The request has left the client for a socket, whatever became of it.
Sent(r) == req[r].state \notin {"idle", "ensuring"}

\* The client keeps no connection but the current one, whichever of its
\* handlers for older sockets run.
OneConnection ==
    \A s \in Sockets : socket[s] \in {"connecting", "open"} => current = s

\* A request that waits for its socket has the promise of that socket open, so
\* the timer of #ensure still rejects it; or it is stranded.
WaitHasEnd ==
    \A r \in Requests : req[r].state = "ensuring" =>
        /\ req[r].on \in Sockets
        /\ \/ /\ socket[req[r].on] \in {"connecting", "destroyed"}
              /\ ~settled[req[r].on]
           \/ Stranded(r)

\* The frame of a request is on the wire once at most, on the socket of the
\* request; so is its answer, and then the frame is not there any more.
OnWireOnce ==
    \A s \in Sockets :
        /\ Distinct(toServer[s]) /\ OneEach(toClient[s])
        /\ \A r \in Requests :
             /\ Holds(toServer[s], r) \/ AnswerTo(toClient[s], r)
                  => req[r].on = s /\ Sent(r)
             /\ ~(Holds(toServer[s], r) /\ AnswerTo(toClient[s], r))

\* An authenticated connection has no second handshake ahead of it, and only
\* the process that is there serves.
NeverStuck ==
    \A s \in Sockets :
        /\ server[s] = "serving" => ~Holds(toServer[s], Hello)
        /\ server[s] \in {"handshake", "serving"} => launcher # "gone"

\* What has been sent is not sent again, on whatever connection; so a request
\* is carried out once at most.
NotResent ==
    \A r \in Requests, s \in Sockets :
        Sent(r) /\ ~Holds(toServer[s], r) => Sent(r)' /\ ~Holds(toServer'[s], r)

ServedOnce == [][
    /\ NotResent
    /\ \A s \in Sockets : Serve(s) =>
         \A t \in Sockets : ~Holds(toServer'[t], Head(toServer[s]))
    ]_pipeVars

(***************************************************************************)
(* The inductive invariant of the pipe.                                    *)
(***************************************************************************)

TypeReq ==
    /\ req \in [Requests -> [state : {"idle", "ensuring", "pending", "ok", "failed",
                                      "lost"},
                             on : 0 .. MaxSockets]]
    /\ \A r \in Requests : req[r].state # "idle" => req[r].on \in Sockets

TypeSockets ==
    /\ socket \in [Sockets -> {"unused", "connecting", "open", "destroyed", "closed"}]
    /\ settled \in [Sockets -> BOOLEAN]
    /\ current \in 0 .. MaxSockets
    /\ buffer \in {"empty", "half", "garbled"}

TypeServer ==
    /\ server \in [Sockets -> {"none", "handshake", "serving", "closed"}]
    /\ launcher \in {"up", "leaving", "gone"}

TypeStreams ==
    /\ toServer \in [Sockets -> Seq(Requests \cup {Hello})]
    /\ toClient \in [Sockets -> Seq(Answers)]

\* A socket has its promise settled when it connects, and not before; only one
\* request waits for it.
Waiting ==
    /\ \A s \in Sockets :
        /\ socket[s] \in {"unused", "connecting"} => ~settled[s]
        /\ socket[s] = "open" => settled[s]
    /\ \A r \in Requests : req[r].state = "ensuring" =>
        ~settled[req[r].on] /\ socket[req[r].on] # "unused"
    /\ \A r, q \in Requests :
        /\ req[r].state = "ensuring" /\ req[q].state = "ensuring"
        /\ req[r].on = req[q].on
        => r = q

\* The handshake is written when the connection is made, nothing at all before
\* the socket is used, and the server has connections that were made.
HelloLate ==
    \A s \in Sockets :
        socket[s] \in {"unused", "connecting"} => ~Holds(toServer[s], Hello)

UnusedEmpty == \A s \in Sockets : socket[s] = "unused" => toServer[s] = <<>>

ServerLate ==
    \A s \in Sockets : server[s] \in {"handshake", "serving"}
                         => socket[s] \notin {"unused", "connecting"}

PipeInv == /\ TypeReq /\ TypeSockets /\ TypeServer /\ TypeStreams
           /\ Waiting /\ HelloLate /\ UnusedEmpty /\ ServerLate
           /\ OneConnection /\ OnWireOnce /\ NeverStuck


(***************************************************************************)
(* Streams.                                                                *)
(***************************************************************************)

\* What is left of a stream without its head.
LEMMA TailHolds ==
  ASSUME NEW S, NEW q \in Seq(S), q # <<>>, Distinct(q)
  PROVE  /\ Tail(q) \in Seq(S) /\ Distinct(Tail(q)) /\ Head(q) \in S /\ Holds(q, Head(q))
         /\ \A x : Holds(Tail(q), x) <=> Holds(q, x) /\ x # Head(q)
<1>1. Len(q) \in Nat \ {0} /\ Head(q) = q[1]
  BY EmptySeq
<1>2. /\ Tail(q) \in Seq(S) /\ Len(Tail(q)) = Len(q) - 1 /\ Head(q) \in S
      /\ \A i \in 1 .. Len(Tail(q)) : Tail(q)[i] = q[i + 1]
  BY HeadTailProperties
<1>3. Distinct(Tail(q))
  <2> SUFFICES ASSUME NEW i \in 1 .. Len(Tail(q)), NEW j \in 1 .. Len(Tail(q)),
                      Tail(q)[i] = Tail(q)[j]
               PROVE  i = j
    BY DEF Distinct
  <2>1. i + 1 \in 1 .. Len(q) /\ j + 1 \in 1 .. Len(q) /\ q[i + 1] = q[j + 1]
    BY <1>1, <1>2
  <2> QED
    BY <2>1, <1>2 DEF Distinct
<1>4. ASSUME NEW x, Holds(Tail(q), x) PROVE Holds(q, x) /\ x # Head(q)
  <2>1. PICK i \in 1 .. Len(Tail(q)) : Tail(q)[i] = x
    BY <1>4 DEF Holds
  <2>2. i + 1 \in 1 .. Len(q) /\ q[i + 1] = x /\ i + 1 # 1 /\ 1 \in 1 .. Len(q)
    BY <2>1, <1>1, <1>2
  <2> QED
    BY <2>2, <1>1 DEF Holds, Distinct
<1>5. ASSUME NEW x, Holds(q, x), x # Head(q) PROVE Holds(Tail(q), x)
  <2>1. PICK i \in 1 .. Len(q) : q[i] = x
    BY <1>5 DEF Holds
  <2>2. i - 1 \in 1 .. Len(Tail(q)) /\ (i - 1) + 1 = i
    BY <2>1, <1>1, <1>2, <1>5
  <2> QED
    BY <2>1, <2>2, <1>2 DEF Holds
<1>6. Holds(q, Head(q))
  BY <1>1 DEF Holds
<1> QED
  BY <1>2, <1>3, <1>4, <1>5, <1>6

\* What two streams hold one behind the other.
LEMMA ConcatHolds ==
  ASSUME NEW S, NEW p \in Seq(S), NEW q \in Seq(S), Distinct(p), Distinct(q),
         \A x : ~(Holds(p, x) /\ Holds(q, x))
  PROVE  /\ p \o q \in Seq(S) /\ Distinct(p \o q)
         /\ \A x : Holds(p \o q, x) <=> Holds(p, x) \/ Holds(q, x)
<1> DEFINE n == Len(p)
           both == p \o q
<1>1. /\ both \in Seq(S) /\ Len(both) = n + Len(q)
      /\ \A i \in 1 .. n + Len(q) : both[i] = IF i <= n THEN p[i] ELSE q[i - n]
  BY ConcatProperties
<1>2. n \in Nat /\ Len(q) \in Nat
  BY LenProperties
<1> HIDE DEF n, both
<1>3. ASSUME NEW i \in 1 .. Len(both)
      PROVE  \/ i \in 1 .. n /\ both[i] = p[i] /\ Holds(p, both[i])
             \/ i > n /\ i - n \in 1 .. Len(q) /\ both[i] = q[i - n] /\ Holds(q, both[i])
  <2>1. CASE i <= n
    BY <2>1, <1>1, <1>2 DEF Holds, n
  <2>2. CASE i > n
    <3>1. i - n \in 1 .. Len(q) /\ both[i] = q[i - n]
      BY <2>2, <1>1, <1>2
    <3> QED
      BY <2>2, <3>1 DEF Holds
  <2> QED
    BY <2>1, <2>2, <1>2
<1>4. Distinct(both)
  <2> SUFFICES ASSUME NEW i \in 1 .. Len(both), NEW j \in 1 .. Len(both),
                      both[i] = both[j]
               PROVE  i = j
    BY DEF Distinct
  <2>1. CASE i \in 1 .. n /\ j \in 1 .. n /\ both[i] = p[i] /\ both[j] = p[j]
    BY <2>1 DEF Distinct, n
  <2>2. CASE /\ i > n /\ i - n \in 1 .. Len(q) /\ both[i] = q[i - n]
             /\ j > n /\ j - n \in 1 .. Len(q) /\ both[j] = q[j - n]
    <3>1. i - n = j - n
      BY <2>2 DEF Distinct
    <3> QED
      BY <3>1, <1>1, <1>2
  <2> QED
    BY <1>3, <2>1, <2>2
<1>5. ASSUME NEW x, Holds(p, x) PROVE Holds(both, x)
  <2>1. PICK i \in 1 .. n : p[i] = x
    BY <1>5 DEF Holds, n
  <2>2. i \in 1 .. n + Len(q) /\ i <= n
    BY <2>1, <1>2
  <2>3. i \in 1 .. Len(both) /\ both[i] = x
    BY <2>1, <2>2, <1>1
  <2> QED
    BY <2>3 DEF Holds
<1>6. ASSUME NEW x, Holds(q, x) PROVE Holds(both, x)
  <2>1. PICK i \in 1 .. Len(q) : q[i] = x
    BY <1>6 DEF Holds
  <2>2. i + n \in 1 .. Len(both) /\ ~(i + n <= n) /\ (i + n) - n = i
    BY <2>1, <1>1, <1>2
  <2> QED
    BY <2>1, <2>2, <1>1 DEF Holds
<1>7. ASSUME NEW x, Holds(both, x) PROVE Holds(p, x) \/ Holds(q, x)
  BY <1>3, <1>7 DEF Holds
<1>8. \A x : Holds(both, x) <=> Holds(p, x) \/ Holds(q, x)
  BY <1>5, <1>6, <1>7
<1> QED
  BY <1>1, <1>4, <1>8 DEF both

\* A stream of nothing, and of one frame.
LEMMA FewHold ==
  ASSUME NEW S
  PROVE  /\ <<>> \in Seq(S) /\ Distinct(<<>>) /\ \A x : ~Holds(<<>>, x)
         /\ \A y \in S : /\ <<y>> \in Seq(S) /\ Distinct(<<y>>)
                         /\ \A x : Holds(<<y>>, x) <=> x = y
  BY DEF Distinct, Holds

\* The sequence of a set with one element at most.
LEMMA SeqOfFew ==
  ASSUME NEW S, NEW T \in SUBSET S, \A x, y \in T : x = y
  PROVE  /\ SetToSeq(T) \in Seq(S) /\ Distinct(SetToSeq(T))
         /\ \A x : Holds(SetToSeq(T), x) <=> x \in T
<1>1. CASE T = {}
  <2>1. Cardinality(T) = 0
    BY <1>1, FS_EmptySet
  <2>2. <<>> \in [1 .. 0 -> T] /\ IsInjective(<<>>)
    BY <1>1 DEF IsInjective
  <2>3. SetToSeq(T) \in [1 .. 0 -> T]
    BY <2>1, <2>2 DEF SetToSeq
  <2>4. SetToSeq(T) = <<>>
    BY <2>3
  <2>5. <<>> \in Seq(S) /\ Distinct(<<>>) /\ \A x : ~Holds(<<>>, x)
    BY FewHold
  <2> QED
    BY <1>1, <2>4, <2>5
<1>2. CASE T # {}
  <2>1. PICK y \in T : T = {y}
    BY <1>2
  <2>2. Cardinality(T) = 1
    BY <2>1, FS_Singleton
  <2>3. <<y>> \in [1 .. 1 -> T] /\ IsInjective(<<y>>)
    BY <2>1 DEF IsInjective
  <2>4. SetToSeq(T) \in [1 .. 1 -> T]
    BY <2>2, <2>3 DEF SetToSeq
  <2>5. SetToSeq(T) = <<y>>
    BY <2>1, <2>4
  <2>6. <<y>> \in Seq(S) /\ Distinct(<<y>>) /\ \A x : Holds(<<y>>, x) <=> x = y
    BY FewHold
  <2> QED
    BY <2>1, <2>5, <2>6
<1> QED
  BY <1>1, <1>2


\* An answer that is appended, received, or received in half.
LEMMA AppendAnswer ==
  ASSUME NEW q \in Seq(Answers), NEW a \in Answers, OneEach(q),
         a.id \in Requests => ~AnswerTo(q, a.id)
  PROVE  /\ Append(q, a) \in Seq(Answers) /\ OneEach(Append(q, a))
         /\ \A r \in Requests : AnswerTo(Append(q, a), r) => AnswerTo(q, r) \/ r = a.id
<1> DEFINE p == Append(q, a)
<1>1. /\ p \in Seq(Answers) /\ Len(p) = Len(q) + 1 /\ p[Len(q) + 1] = a
      /\ \A i \in 1 .. Len(q) : p[i] = q[i]
  BY AppendProperties
<1>2. Len(q) \in Nat
  BY LenProperties
<1> HIDE DEF p
<1>3. ASSUME NEW i \in 1 .. Len(p)
      PROVE  \/ i \in 1 .. Len(q) /\ p[i] = q[i]
             \/ i = Len(q) + 1 /\ p[i] = a
  BY <1>1, <1>2
<1>4. OneEach(p)
  BY <1>3 DEF OneEach, AnswerTo
<1>5. \A r \in Requests : AnswerTo(p, r) => AnswerTo(q, r) \/ r = a.id
  BY <1>3 DEF AnswerTo
<1> QED
  BY <1>1, <1>4, <1>5 DEF p

\* What is left of the answers without the first, which the client has read.
LEMMA TailAnswer ==
  ASSUME NEW q \in Seq(Answers), q # <<>>, OneEach(q)
  PROVE  /\ Tail(q) \in Seq(Answers) /\ OneEach(Tail(q)) /\ Head(q) \in Answers
         /\ \A r \in Requests : AnswerTo(Tail(q), r) => AnswerTo(q, r)
<1>1. /\ Tail(q) \in Seq(Answers) /\ Len(Tail(q)) = Len(q) - 1 /\ Head(q) \in Answers
      /\ \A i \in 1 .. Len(Tail(q)) : Tail(q)[i] = q[i + 1]
  BY HeadTailProperties
<1>2. Len(q) \in Nat \ {0}
  BY EmptySeq
<1>3. \A i \in 1 .. Len(Tail(q)) : i \in Nat /\ i + 1 \in 1 .. Len(q) /\ Tail(q)[i] = q[i + 1]
  BY <1>1, <1>2
<1>4. OneEach(Tail(q))
  <2> SUFFICES ASSUME NEW i \in 1 .. Len(Tail(q)), NEW j \in 1 .. Len(Tail(q)),
                      Tail(q)[i].id \in Requests, Tail(q)[i].id = Tail(q)[j].id
               PROVE  i = j
    BY DEF OneEach
  <2>1. i + 1 = j + 1
    BY <1>3 DEF OneEach
  <2> QED
    BY <2>1, <1>3
<1>5. \A r \in Requests : AnswerTo(Tail(q), r) => AnswerTo(q, r)
  BY <1>3 DEF AnswerTo
<1> QED
  BY <1>1, <1>4, <1>5

\* Answers of which the first was read by half.
LEMMA HalfAnswer ==
  ASSUME NEW q \in Seq(Answers), q # <<>>, OneEach(q),
         NEW p, p = [q EXCEPT ![1].part = "rest"]
  PROVE  /\ p \in Seq(Answers) /\ OneEach(p)
         /\ \A r \in Requests : AnswerTo(p, r) => AnswerTo(q, r)
<1> DEFINE h == [q[1] EXCEPT !.part = "rest"]
<1>1. 1 \in 1 .. Len(q)
  BY EmptySeq
<1>2. q[1] \in Answers
  BY <1>1, ElementOfSeq
<1>3. h \in Answers /\ h.id = q[1].id
  BY <1>2 DEF Answers
<1>4. p = [q EXCEPT ![1] = h]
  OBVIOUS
<1> HIDE DEF h
<1>5. /\ p \in Seq(Answers) /\ Len(p) = Len(q)
      /\ \A j \in 1 .. Len(q) : p[j] = IF j = 1 THEN h ELSE q[j]
  BY <1>1, <1>3, <1>4, ExceptSeq
<1>6. \A j \in 1 .. Len(q) : p[j].id = q[j].id
  BY <1>3, <1>5
<1> QED
  BY <1>5, <1>6 DEF OneEach, AnswerTo

(***************************************************************************)
(* What the actions do to the streams.                                     *)
(***************************************************************************)

\* The streams on all sockets, in one formula: what each holds.
StreamsKeep == \A u \in Sockets : Distinct(toServer[u])

\* Frames written behind those that are on the wire already.
LEMMA WrittenHolds ==
  ASSUME TypeStreams, StreamsKeep, NEW s \in Sockets,
         NEW frames \in Seq(Requests \cup {Hello}), Distinct(frames),
         \A x : ~(Holds(toServer[s], x) /\ Holds(frames, x)),
         toServer' = Written(s, frames)
  PROVE  /\ toServer' \in [Sockets -> Seq(Requests \cup {Hello})] /\ StreamsKeep'
         /\ \A u \in Sockets : \A x :
              Holds(toServer'[u], x) <=>
                \/ Holds(toServer[u], x)
                \/ u = s /\ socket[s] \in {"connecting", "open"} /\ Holds(frames, x)
<1> DEFINE q == toServer[s] \o frames
<1>1. toServer[s] \in Seq(Requests \cup {Hello}) /\ Distinct(toServer[s])
  BY DEF TypeStreams, StreamsKeep
<1>2. /\ q \in Seq(Requests \cup {Hello}) /\ Distinct(q)
      /\ \A x : Holds(q, x) <=> Holds(toServer[s], x) \/ Holds(frames, x)
  BY <1>1, ConcatHolds
<1>3. CASE socket[s] \in {"connecting", "open"}
  <2>1. toServer' = [toServer EXCEPT ![s] = q]
    BY <1>3 DEF Written
  <2> HIDE DEF q
  <2>2. toServer'[s] = q /\ \A u \in Sockets : u # s => toServer'[u] = toServer[u]
    BY <2>1 DEF TypeStreams
  <2>3. toServer' \in [Sockets -> Seq(Requests \cup {Hello})]
    BY <1>2, <2>1 DEF TypeStreams
  <2> QED
    BY <1>2, <1>3, <2>2, <2>3 DEF StreamsKeep
<1>4. CASE socket[s] \notin {"connecting", "open"}
  BY <1>4 DEF Written, TypeStreams, StreamsKeep
<1> QED
  BY <1>3, <1>4

\* A frame taken from the head of a stream.
LEMMA TakenHolds ==
  ASSUME TypeStreams, StreamsKeep, NEW s \in Sockets, toServer[s] # <<>>,
         toServer' = [toServer EXCEPT ![s] = Tail(@)]
  PROVE  /\ toServer' \in [Sockets -> Seq(Requests \cup {Hello})] /\ StreamsKeep'
         /\ Head(toServer[s]) \in Requests \cup {Hello}
         /\ Holds(toServer[s], Head(toServer[s]))
         /\ \A u \in Sockets : \A x :
              Holds(toServer'[u], x) <=>
                Holds(toServer[u], x) /\ ~(u = s /\ x = Head(toServer[s]))
<1> DEFINE q == Tail(toServer[s])
<1>1. toServer[s] \in Seq(Requests \cup {Hello}) /\ Distinct(toServer[s])
  BY DEF TypeStreams, StreamsKeep
<1>2. /\ q \in Seq(Requests \cup {Hello}) /\ Distinct(q)
      /\ Head(toServer[s]) \in Requests \cup {Hello}
      /\ Holds(toServer[s], Head(toServer[s]))
      /\ \A x : Holds(q, x) <=> Holds(toServer[s], x) /\ x # Head(toServer[s])
  BY <1>1, TailHolds
<1>3. toServer' = [toServer EXCEPT ![s] = q]
  OBVIOUS
<1> HIDE DEF q
<1>4. toServer'[s] = q /\ \A u \in Sockets : u # s => toServer'[u] = toServer[u]
  BY <1>3 DEF TypeStreams
<1>5. toServer' \in [Sockets -> Seq(Requests \cup {Hello})]
  BY <1>2, <1>3 DEF TypeStreams
<1> QED
  BY <1>2, <1>4, <1>5 DEF StreamsKeep

\* The stream of answers of socket s becomes q, which answers at most r more.
LEMMA AnswersHold ==
  ASSUME TypeStreams, \A u \in Sockets : OneEach(toClient[u]), NEW s \in Sockets,
         NEW q \in Seq(Answers), OneEach(q), toClient' = [toClient EXCEPT ![s] = q]
  PROVE  /\ toClient' \in [Sockets -> Seq(Answers)]
         /\ \A u \in Sockets : OneEach(toClient'[u])
         /\ toClient'[s] = q
         /\ \A u \in Sockets : u # s => toClient'[u] = toClient[u]
<1>1. toClient'[s] = q /\ \A u \in Sockets : u # s => toClient'[u] = toClient[u]
  BY DEF TypeStreams
<1>2. toClient' \in [Sockets -> Seq(Answers)]
  BY DEF TypeStreams
<1> QED
  BY <1>1, <1>2

\* An answer sent behind those on the wire, for a request that has none there.
LEMMA AnsweredHolds ==
  ASSUME TypeStreams, \A u \in Sockets : OneEach(toClient[u]), NEW s \in Sockets,
         NEW id \in Requests \cup {Hello}, NEW ok \in BOOLEAN,
         id \in Requests => ~AnswerTo(toClient[s], id), toClient' = Answered(s, id, ok)
  PROVE  /\ toClient' \in [Sockets -> Seq(Answers)]
         /\ \A u \in Sockets : OneEach(toClient'[u])
         /\ \A u \in Sockets, r \in Requests :
              AnswerTo(toClient'[u], r) => AnswerTo(toClient[u], r) \/ (u = s /\ r = id)
<1> DEFINE a == [id |-> id, ok |-> ok, part |-> "whole"]
           q == Append(toClient[s], a)
<1>1. a \in Answers /\ a.id = id
  BY DEF Answers
<1>2. toClient[s] \in Seq(Answers)
  BY DEF TypeStreams
<1> HIDE DEF a
<1>3. /\ q \in Seq(Answers) /\ OneEach(q)
      /\ \A r \in Requests : AnswerTo(q, r) => AnswerTo(toClient[s], r) \/ r = id
  BY <1>1, <1>2, AppendAnswer
<1>4. CASE socket[s] = "open"
  <2>1. toClient' = [toClient EXCEPT ![s] = q]
    BY <1>4 DEF Answered, a
  <2> HIDE DEF q
  <2>2. /\ toClient' \in [Sockets -> Seq(Answers)]
        /\ \A u \in Sockets : OneEach(toClient'[u])
        /\ toClient'[s] = q
        /\ \A u \in Sockets : u # s => toClient'[u] = toClient[u]
    BY <1>3, <2>1, AnswersHold
  <2> QED
    BY <1>3, <2>2
<1>5. CASE socket[s] # "open"
  BY <1>5 DEF Answered, TypeStreams
<1> QED
  BY <1>4, <1>5

(***************************************************************************)
(* Steps.                                                                  *)
(***************************************************************************)

\* The new frames of a step: of requests that go out with it, and of a handshake.
Goes(u, x) ==
    \/ x \in Requests /\ ~Sent(x) /\ Sent(x)' /\ req'[x].on = u
    \/ /\ x = Hello /\ socket[u] = "connecting"
       /\ socket'[u] = "open" /\ server'[u] = "handshake"

FramesStep ==
    /\ toServer' \in [Sockets -> Seq(Requests \cup {Hello})] /\ StreamsKeep'
    /\ \A u \in Sockets : \A x :
         Holds(toServer'[u], x) => Holds(toServer[u], x) \/ Goes(u, x)

\* The new answers: of requests whose frame the server has taken.
AnswersStep ==
    /\ toClient' \in [Sockets -> Seq(Answers)]
    /\ \A u \in Sockets : OneEach(toClient'[u])
    /\ \A u \in Sockets, r \in Requests :
         AnswerTo(toClient'[u], r) =>
           \/ AnswerTo(toClient[u], r)
           \/ Holds(toServer[u], r) /\ ~Holds(toServer'[u], r)

\* Zero is not a socket.
LEMMA ZeroNoSocket == 0 \notin Sockets /\ Sockets \subseteq 0 .. MaxSockets
  BY PipeAssumption DEF Sockets

\* What the invariant says of the streams.
LEMMA StreamFacts ==
  ASSUME PipeInv
  PROVE  StreamsKeep /\ \A u \in Sockets : OneEach(toClient[u])
  BY DEF PipeInv, OnWireOnce, StreamsKeep

\* A request that was sent stays sent, on its socket.
LEMMA SentStep ==
  ASSUME PipeInv, [PipeNext]_pipeVars
  PROVE  \A q \in Requests : Sent(q) => Sent(q)' /\ req'[q].on = req[q].on
<1> USE DEF PipeInv, TypeReq, Sent
<1>1. ASSUME NEW r \in Requests, RequestConnects(r)
      PROVE \A q \in Requests : Sent(q) => Sent(q)' /\ req'[q].on = req[q].on
  BY <1>1 DEF RequestConnects
<1>2. ASSUME NEW r \in Requests, RequestWrites(r)
      PROVE \A q \in Requests : Sent(q) => Sent(q)' /\ req'[q].on = req[q].on
  BY <1>2 DEF RequestWrites
<1>3. ASSUME NEW r \in Requests, RequestTimesOut(r)
      PROVE \A q \in Requests : Sent(q) => Sent(q)' /\ req'[q].on = req[q].on
  BY <1>3 DEF RequestTimesOut
<1>4. ASSUME NEW s \in Sockets, Connected(s)
      PROVE \A q \in Requests : Sent(q) => Sent(q)' /\ req'[q].on = req[q].on
  BY <1>4 DEF Connected
<1>5. ASSUME NEW s \in Sockets, ConnectFails(s)
      PROVE \A q \in Requests : Sent(q) => Sent(q)' /\ req'[q].on = req[q].on
  BY <1>5 DEF ConnectFails, Reject
<1>6. ASSUME NEW s \in Sockets, CloseEvent(s)
      PROVE \A q \in Requests : Sent(q) => Sent(q)' /\ req'[q].on = req[q].on
  BY <1>6 DEF CloseEvent, FailPending, Move
<1>7. ASSUME NEW s \in Sockets, Receive(s)
      PROVE \A q \in Requests : Sent(q) => Sent(q)' /\ req'[q].on = req[q].on
  BY <1>7 DEF Receive
<1>8. CASE Dispose
  BY <1>8 DEF Dispose, FailPending, Move
<1>9. CASE UNCHANGED <<req>>
  BY <1>9
<1> QED
  BY <1>1, <1>2, <1>3, <1>4, <1>5, <1>6, <1>7, <1>8, <1>9 DEF PipeNext,
     pipeVars, ConnectionLost, ReceiveHalf, Handshake, Serve, ServerEnds,
     LauncherExits

\* Frames go out with their requests, and the handshake with the connection.
LEMMA FramesKept ==
  ASSUME PipeInv, [PipeNext]_pipeVars
  PROVE  FramesStep
<1> USE DEF PipeInv, FramesStep
<1>1. ASSUME NEW r \in Requests, RequestWrites(r) PROVE FramesStep
  <2>1. /\ current \in Sockets /\ <<r>> \in Seq(Requests \cup {Hello})
        /\ Distinct(<<r>>) /\ \A x : Holds(<<r>>, x) <=> x = r
    BY <1>1, FewHold DEF RequestWrites, TypeSockets, Sockets
  <2>2. ~Holds(toServer[current], r)
    BY <1>1, <2>1 DEF RequestWrites, OnWireOnce, Sent
  <2>3. toServer' = Written(current, <<r>>)
    BY <1>1 DEF RequestWrites
  <2>4. /\ toServer' \in [Sockets -> Seq(Requests \cup {Hello})] /\ StreamsKeep'
        /\ \A u \in Sockets : \A x :
             Holds(toServer'[u], x) => Holds(toServer[u], x) \/ (u = current /\ x = r)
    BY <2>1, <2>2, <2>3, WrittenHolds, StreamFacts
  <2>5. Goes(current, r)
    BY <1>1 DEF RequestWrites, Goes, Sent, TypeReq
  <2> QED
    BY <2>4, <2>5
<1>2. ASSUME NEW s \in Sockets, Connected(s) PROVE FramesStep
  <2> DEFINE W == {q \in Requests : req[q] = [state |-> "ensuring", on |-> s]}
             first == <<Hello>>
             rest == SetToSeq(W)
             frames == first \o rest
             F == Requests \cup {Hello}
  <2>1. \A x, y \in W : x = y
    BY DEF Waiting
  <2>2. rest \in Seq(F) /\ Distinct(rest) /\ \A x : Holds(rest, x) <=> x \in W
    BY <2>1, SeqOfFew
  <2>3. first \in Seq(F) /\ Distinct(first) /\ \A x : Holds(first, x) <=> x = Hello
    BY FewHold
  <2>4. Hello \notin W
    BY PipeAssumption
  <2> HIDE DEF first, rest
  <2>5. /\ frames \in Seq(F) /\ Distinct(frames)
        /\ \A x : Holds(frames, x) <=> x = Hello \/ x \in W
    BY <2>2, <2>3, <2>4, ConcatHolds
  <2>6. toServer' = Written(s, frames) /\ socket[s] = "connecting"
    BY <1>2 DEF Connected, first, rest
  <2>7. \A x : ~(Holds(toServer[s], x) /\ (x = Hello \/ x \in W))
    BY <2>6 DEF HelloLate, OnWireOnce, Sent
  <2>8. \A x \in W : Goes(s, x)
    BY <1>2 DEF Connected, Goes, Sent, TypeReq
  <2>9. Goes(s, Hello)
    BY <1>2 DEF Connected, Goes, TypeSockets, TypeServer
  <2> HIDE DEF W, frames
  <2>10. /\ toServer' \in [Sockets -> Seq(F)] /\ StreamsKeep'
         /\ \A u \in Sockets : \A x :
              Holds(toServer'[u], x) =>
                Holds(toServer[u], x) \/ (u = s /\ (x = Hello \/ x \in W))
    BY <2>5, <2>6, <2>7, WrittenHolds, StreamFacts
  <2> QED
    BY <2>8, <2>9, <2>10
<1>3. ASSUME NEW s \in Sockets, Handshake(s) PROVE FramesStep
  BY <1>3, TakenHolds, StreamFacts DEF Handshake
<1>4. ASSUME NEW s \in Sockets, Serve(s) PROVE FramesStep
  BY <1>4, TakenHolds, StreamFacts DEF Serve
<1>5. ASSUME NEW s \in Sockets, ServerEnds(s) PROVE FramesStep
  <2>1. <<>> \in Seq(Requests \cup {Hello}) /\ Distinct(<<>>) /\ \A x : ~Holds(<<>>, x)
    BY FewHold
  <2> QED
    BY <1>5, <2>1, StreamFacts DEF ServerEnds, TypeStreams, StreamsKeep
<1>6. CASE LauncherExits
  <2>1. <<>> \in Seq(Requests \cup {Hello}) /\ Distinct(<<>>) /\ \A x : ~Holds(<<>>, x)
    BY FewHold
  <2> QED
    BY <1>6, <2>1, StreamFacts DEF LauncherExits, TypeStreams, StreamsKeep
<1>7. CASE UNCHANGED <<toServer>>
  BY <1>7, StreamFacts DEF TypeStreams, StreamsKeep
<1> QED
  BY <1>1, <1>2, <1>3, <1>4, <1>5, <1>6, <1>7 DEF PipeNext, pipeVars,
     RequestConnects, RequestTimesOut, ConnectFails, ConnectionLost,
     CloseEvent, ReceiveHalf, Receive, Dispose

\* Answers are those to the frames that the server took.
LEMMA AnswersKept ==
  ASSUME PipeInv, [PipeNext]_pipeVars
  PROVE  AnswersStep
<1> USE DEF PipeInv, AnswersStep
<1>1. ASSUME NEW s \in Sockets, CloseEvent(s) PROVE AnswersStep
  <2>1. <<>> \in Seq(Answers) /\ OneEach(<<>>) /\ \A q : ~AnswerTo(<<>>, q)
    BY DEF OneEach, AnswerTo
  <2>2. toClient' = [toClient EXCEPT ![s] = <<>>]
    BY <1>1 DEF CloseEvent
  <2>3. /\ toClient' \in [Sockets -> Seq(Answers)]
        /\ \A u \in Sockets : OneEach(toClient'[u])
        /\ toClient'[s] = <<>>
        /\ \A u \in Sockets : u # s => toClient'[u] = toClient[u]
    BY <2>1, <2>2, AnswersHold, StreamFacts
  <2> QED
    BY <2>1, <2>3
<1>2. ASSUME NEW s \in Sockets, ReceiveHalf(s) PROVE AnswersStep
  <2> DEFINE q == [toClient[s] EXCEPT ![1].part = "rest"]
  <2>1. toClient[s] \in Seq(Answers) /\ toClient[s] # <<>>
    BY <1>2 DEF ReceiveHalf, TypeStreams
  <2>2. toClient' = [toClient EXCEPT ![s] = q]
    BY <1>2 DEF ReceiveHalf
  <2>3. /\ q \in Seq(Answers) /\ OneEach(q)
        /\ \A r \in Requests : AnswerTo(q, r) => AnswerTo(toClient[s], r)
    BY <2>1, HalfAnswer, StreamFacts
  <2> HIDE DEF q
  <2>4. /\ toClient' \in [Sockets -> Seq(Answers)]
        /\ \A u \in Sockets : OneEach(toClient'[u])
        /\ toClient'[s] = q
        /\ \A u \in Sockets : u # s => toClient'[u] = toClient[u]
    BY <2>2, <2>3, AnswersHold, StreamFacts
  <2> QED
    BY <2>3, <2>4
<1>3. ASSUME NEW s \in Sockets, Receive(s) PROVE AnswersStep
  <2> DEFINE q == Tail(toClient[s])
  <2>1. toClient[s] \in Seq(Answers) /\ toClient[s] # <<>>
    BY <1>3 DEF Receive, TypeStreams
  <2>2. toClient' = [toClient EXCEPT ![s] = q]
    BY <1>3 DEF Receive
  <2>3. /\ q \in Seq(Answers) /\ OneEach(q)
        /\ \A r \in Requests : AnswerTo(q, r) => AnswerTo(toClient[s], r)
    BY <2>1, TailAnswer, StreamFacts
  <2> HIDE DEF q
  <2>4. /\ toClient' \in [Sockets -> Seq(Answers)]
        /\ \A u \in Sockets : OneEach(toClient'[u])
        /\ toClient'[s] = q
        /\ \A u \in Sockets : u # s => toClient'[u] = toClient[u]
    BY <2>2, <2>3, AnswersHold, StreamFacts
  <2> QED
    BY <2>3, <2>4
<1>4. ASSUME NEW s \in Sockets, Handshake(s) PROVE AnswersStep
  <2>1. CASE UNCHANGED toClient
    BY <2>1, StreamFacts DEF TypeStreams
  <2>2. CASE toClient' = Answered(s, Hello, FALSE)
    <3>1. /\ toClient' \in [Sockets -> Seq(Answers)]
          /\ \A u \in Sockets : OneEach(toClient'[u])
          /\ \A u \in Sockets, r \in Requests :
               AnswerTo(toClient'[u], r) => AnswerTo(toClient[u], r) \/ (u = s /\ r = Hello)
      BY <2>2, AnsweredHolds, StreamFacts, PipeAssumption
    <3> QED
      BY <3>1, PipeAssumption
  <2> QED
    BY <1>4, <2>1, <2>2 DEF Handshake
<1>5. ASSUME NEW s \in Sockets, Serve(s) PROVE AnswersStep
  <2> DEFINE h == Head(toServer[s])
  <2>1. h \in Requests /\ \E ok \in BOOLEAN : toClient' = Answered(s, h, ok)
    BY <1>5 DEF Serve
  <2>2. Holds(toServer[s], h) /\ ~Holds(toServer'[s], h)
    BY <1>5, TakenHolds, StreamFacts DEF Serve
  <2>3. ~AnswerTo(toClient[s], h)
    BY <2>1, <2>2 DEF OnWireOnce
  <2> HIDE DEF h
  <2>4. /\ toClient' \in [Sockets -> Seq(Answers)]
        /\ \A u \in Sockets : OneEach(toClient'[u])
        /\ \A u \in Sockets, r \in Requests :
             AnswerTo(toClient'[u], r) => AnswerTo(toClient[u], r) \/ (u = s /\ r = h)
    BY <2>1, <2>3, AnsweredHolds, StreamFacts
  <2> QED
    BY <2>2, <2>4
<1>6. CASE UNCHANGED <<toClient>>
  BY <1>6 DEF TypeStreams, OnWireOnce
<1> QED
  BY <1>1, <1>2, <1>3, <1>4, <1>5, <1>6 DEF PipeNext, pipeVars,
     RequestConnects, RequestWrites, RequestTimesOut, Connected, ConnectFails,
     ConnectionLost, ServerEnds, Dispose, LauncherExits

\* Requests keep their type; one that was made has a socket.
LEMMA TypeReqStep ==
  ASSUME PipeInv, [PipeNext]_pipeVars
  PROVE  TypeReq'
<1> USE ZeroNoSocket DEF PipeInv, TypeReq
<1>1. ASSUME NEW r \in Requests, RequestConnects(r) PROVE TypeReq'
  BY <1>1 DEF RequestConnects
<1>2. ASSUME NEW r \in Requests, RequestWrites(r) PROVE TypeReq'
  BY <1>2 DEF RequestWrites, TypeSockets, Sockets
<1>3. ASSUME NEW r \in Requests, RequestTimesOut(r) PROVE TypeReq'
  BY <1>3 DEF RequestTimesOut
<1>4. ASSUME NEW s \in Sockets, Connected(s) PROVE TypeReq'
  BY <1>4 DEF Connected
<1>5. ASSUME NEW s \in Sockets, ConnectFails(s) PROVE TypeReq'
  BY <1>5 DEF ConnectFails, Reject
<1>6. ASSUME NEW s \in Sockets, CloseEvent(s) PROVE TypeReq'
  BY <1>6 DEF CloseEvent, FailPending, Move
<1>7. ASSUME NEW s \in Sockets, Receive(s) PROVE TypeReq'
  BY <1>7 DEF Receive
<1>8. CASE Dispose
  BY <1>8 DEF Dispose, FailPending, Move
<1>9. CASE UNCHANGED <<req>>
  BY <1>9
<1> QED
  BY <1>1, <1>2, <1>3, <1>4, <1>5, <1>6, <1>7, <1>8, <1>9 DEF PipeNext,
     pipeVars, ConnectionLost, ReceiveHalf, Handshake, Serve, ServerEnds,
     LauncherExits

\* What destroying the current socket does to the sockets.
LEMMA DestroyedTyped ==
  ASSUME TypeSockets
  PROVE  Destroyed(socket) \in [Sockets -> {"unused", "connecting", "open", "destroyed",
                                           "closed"}]
  BY DEF TypeSockets, Destroyed

\* So do the sockets.
LEMMA TypeSocketsStep ==
  ASSUME PipeInv, [PipeNext]_pipeVars
  PROVE  TypeSockets'
<1> USE ZeroNoSocket, PipeAssumption DEF PipeInv, TypeSockets
<1>1. ASSUME NEW r \in Requests, RequestConnects(r) PROVE TypeSockets'
  BY <1>1 DEF RequestConnects
<1>2. ASSUME NEW s \in Sockets, Connected(s) PROVE TypeSockets'
  BY <1>2 DEF Connected
<1>3. ASSUME NEW s \in Sockets, ConnectFails(s) PROVE TypeSockets'
  BY <1>3, DestroyedTyped DEF ConnectFails
<1>4. ASSUME NEW s \in Sockets, ConnectionLost(s) PROVE TypeSockets'
  BY <1>4 DEF ConnectionLost
<1>5. ASSUME NEW s \in Sockets, CloseEvent(s) PROVE TypeSockets'
  BY <1>5, DestroyedTyped DEF CloseEvent
<1>6. ASSUME NEW s \in Sockets, ReceiveHalf(s) PROVE TypeSockets'
  BY <1>6 DEF ReceiveHalf
<1>7. ASSUME NEW s \in Sockets, Receive(s) PROVE TypeSockets'
  BY <1>7 DEF Receive
<1>8. CASE Dispose
  BY <1>8, DestroyedTyped DEF Dispose
<1>9. CASE UNCHANGED <<socket, settled, current, buffer>>
  BY <1>9
<1> QED
  BY <1>1, <1>2, <1>3, <1>4, <1>5, <1>6, <1>7, <1>8, <1>9 DEF PipeNext,
     pipeVars, RequestWrites, RequestTimesOut, Handshake, Serve, ServerEnds,
     LauncherExits

\* And the server.
LEMMA TypeServerStep ==
  ASSUME PipeInv, [PipeNext]_pipeVars
  PROVE  TypeServer'
<1> USE DEF PipeInv, TypeServer
<1>1. ASSUME NEW s \in Sockets, Connected(s) PROVE TypeServer'
  BY <1>1 DEF Connected
<1>2. ASSUME NEW s \in Sockets, Handshake(s) PROVE TypeServer'
  BY <1>2 DEF Handshake
<1>3. ASSUME NEW s \in Sockets, Serve(s) PROVE TypeServer'
  BY <1>3 DEF Serve, Dispatch
<1>4. ASSUME NEW s \in Sockets, ServerEnds(s) PROVE TypeServer'
  BY <1>4 DEF ServerEnds
<1>5. CASE LauncherExits
  BY <1>5 DEF LauncherExits
<1>6. CASE UNCHANGED <<server, launcher>>
  BY <1>6
<1> QED
  BY <1>1, <1>2, <1>3, <1>4, <1>5, <1>6 DEF PipeNext, pipeVars,
     RequestConnects, RequestWrites, RequestTimesOut, ConnectFails,
     ConnectionLost, CloseEvent, ReceiveHalf, Receive, Dispose

\* A request waits for a socket whose promise is open.
LEMMA WaitingStep ==
  ASSUME PipeInv, [PipeNext]_pipeVars
  PROVE  Waiting'
<1> USE DEF PipeInv, Waiting, TypeReq, TypeSockets
<1>1. ASSUME NEW r \in Requests, RequestConnects(r) PROVE Waiting'
  BY <1>1 DEF RequestConnects
<1>2. ASSUME NEW r \in Requests, RequestWrites(r) PROVE Waiting'
  BY <1>2 DEF RequestWrites
<1>3. ASSUME NEW r \in Requests, RequestTimesOut(r) PROVE Waiting'
  BY <1>3 DEF RequestTimesOut
<1>4. ASSUME NEW s \in Sockets, Connected(s) PROVE Waiting'
  BY <1>4 DEF Connected
<1>5. ASSUME NEW s \in Sockets, ConnectFails(s) PROVE Waiting'
  BY <1>5 DEF ConnectFails, Destroyed, Reject
<1>6. ASSUME NEW s \in Sockets, ConnectionLost(s) PROVE Waiting'
  BY <1>6 DEF ConnectionLost
<1>7. ASSUME NEW s \in Sockets, CloseEvent(s) PROVE Waiting'
  BY <1>7 DEF CloseEvent, Destroyed, FailPending, Move
<1>8. ASSUME NEW s \in Sockets, Receive(s) PROVE Waiting'
  BY <1>8 DEF Receive
<1>9. CASE Dispose
  BY <1>9 DEF Dispose, Destroyed, FailPending, Move
<1>10. CASE UNCHANGED <<socket, settled, req>>
  BY <1>10
<1> QED
  BY <1>1, <1>2, <1>3, <1>4, <1>5, <1>6, <1>7, <1>8, <1>9, <1>10 DEF PipeNext,
     pipeVars, ReceiveHalf, Handshake, Serve, ServerEnds, LauncherExits

\* A socket is live only while it is the current one.
LEMMA OneConnectionStep ==
  ASSUME PipeInv, [PipeNext]_pipeVars
  PROVE  OneConnection'
<1> USE ZeroNoSocket DEF PipeInv, OneConnection, TypeSockets
<1>1. ASSUME NEW r \in Requests, RequestConnects(r) PROVE OneConnection'
  BY <1>1 DEF RequestConnects
<1>2. ASSUME NEW s \in Sockets, Connected(s) PROVE OneConnection'
  BY <1>2 DEF Connected
<1>3. ASSUME NEW s \in Sockets, ConnectFails(s) PROVE OneConnection'
  BY <1>3 DEF ConnectFails, Destroyed
<1>4. ASSUME NEW s \in Sockets, ConnectionLost(s) PROVE OneConnection'
  BY <1>4 DEF ConnectionLost
<1>5. ASSUME NEW s \in Sockets, CloseEvent(s) PROVE OneConnection'
  BY <1>5 DEF CloseEvent, Destroyed
<1>6. CASE Dispose
  BY <1>6 DEF Dispose, Destroyed
<1>7. CASE UNCHANGED <<socket, current>>
  BY <1>7
<1> QED
  BY <1>1, <1>2, <1>3, <1>4, <1>5, <1>6, <1>7 DEF PipeNext, pipeVars,
     RequestWrites, RequestTimesOut, ReceiveHalf, Receive, Handshake, Serve,
     ServerEnds, LauncherExits

\* The frame and the answer of a request stay one, and on its socket.
LEMMA OnWireOnceStep ==
  ASSUME PipeInv, [PipeNext]_pipeVars
  PROVE  OnWireOnce'
<1>1. FramesStep /\ AnswersStep
  BY FramesKept, AnswersKept
<1>2. \A q \in Requests : Sent(q) => Sent(q)' /\ req'[q].on = req[q].on
  BY SentStep
<1>3. Hello \notin Requests
  BY PipeAssumption
<1>4. ASSUME NEW s \in Sockets, NEW r \in Requests, Holds(toServer'[s], r)
      PROVE  req'[r].on = s /\ Sent(r)' /\ ~AnswerTo(toClient'[s], r)
  <2>1. CASE Holds(toServer[s], r)
    BY <1>1, <1>2, <1>4, <2>1 DEF AnswersStep, PipeInv, OnWireOnce
  <2>2. CASE ~Holds(toServer[s], r)
    <3>1. ~Sent(r) /\ Sent(r)' /\ req'[r].on = s
      BY <1>1, <1>3, <1>4, <2>2 DEF FramesStep, Goes
    <3>2. ~AnswerTo(toClient[s], r)
      BY <3>1 DEF PipeInv, OnWireOnce
    <3> QED
      BY <1>1, <2>2, <3>1, <3>2 DEF AnswersStep
  <2> QED
    BY <2>1, <2>2
<1>5. ASSUME NEW s \in Sockets, NEW r \in Requests, AnswerTo(toClient'[s], r)
      PROVE  req'[r].on = s /\ Sent(r)'
  BY <1>1, <1>2, <1>5 DEF AnswersStep, PipeInv, OnWireOnce
<1> QED
  BY <1>1, <1>4, <1>5 DEF FramesStep, AnswersStep, StreamsKeep, OnWireOnce

\* Frames that are no request's: the handshake goes out when its socket connects.
LEMMA HelloGoes ==
  ASSUME PipeInv, [PipeNext]_pipeVars, NEW u \in Sockets,
         Holds(toServer'[u], Hello), ~Holds(toServer[u], Hello)
  PROVE  socket[u] = "connecting" /\ socket'[u] = "open" /\ server'[u] = "handshake"
  BY FramesKept, PipeAssumption DEF FramesStep, Goes

\* The handshake is written when the connection is made.
LEMMA HelloLateStep ==
  ASSUME PipeInv, [PipeNext]_pipeVars
  PROVE  HelloLate'
<1> USE HelloGoes DEF PipeInv, HelloLate, TypeSockets
<1>1. ASSUME NEW r \in Requests, RequestConnects(r) PROVE HelloLate'
  BY <1>1 DEF RequestConnects
<1>2. ASSUME NEW r \in Requests, RequestWrites(r) PROVE HelloLate'
  BY <1>2 DEF RequestWrites
<1>3. ASSUME NEW s \in Sockets, Connected(s) PROVE HelloLate'
  BY <1>3 DEF Connected
<1>4. ASSUME NEW s \in Sockets, ConnectFails(s) PROVE HelloLate'
  BY <1>4 DEF ConnectFails, Destroyed
<1>5. ASSUME NEW s \in Sockets, ConnectionLost(s) PROVE HelloLate'
  BY <1>5 DEF ConnectionLost
<1>6. ASSUME NEW s \in Sockets, CloseEvent(s) PROVE HelloLate'
  BY <1>6 DEF CloseEvent, Destroyed
<1>7. ASSUME NEW s \in Sockets, Handshake(s) PROVE HelloLate'
  BY <1>7 DEF Handshake
<1>8. ASSUME NEW s \in Sockets, Serve(s) PROVE HelloLate'
  BY <1>8 DEF Serve
<1>9. ASSUME NEW s \in Sockets, ServerEnds(s) PROVE HelloLate'
  BY <1>9 DEF ServerEnds
<1>10. CASE Dispose
  BY <1>10 DEF Dispose, Destroyed
<1>11. CASE LauncherExits
  BY <1>11 DEF LauncherExits
<1>12. CASE UNCHANGED <<socket, toServer>>
  BY <1>12
<1> QED
  BY <1>1, <1>2, <1>3, <1>4, <1>5, <1>6, <1>7, <1>8, <1>9, <1>10, <1>11,
     <1>12 DEF PipeNext, pipeVars, RequestTimesOut, ReceiveHalf, Receive

\* Nothing is written on a socket before it is used.
LEMMA UnusedEmptyStep ==
  ASSUME PipeInv, [PipeNext]_pipeVars
  PROVE  UnusedEmpty'
<1> USE DEF PipeInv, UnusedEmpty, TypeSockets, TypeStreams
<1>1. ASSUME NEW r \in Requests, RequestConnects(r) PROVE UnusedEmpty'
  BY <1>1 DEF RequestConnects
<1>2. ASSUME NEW r \in Requests, RequestWrites(r) PROVE UnusedEmpty'
  BY <1>2 DEF RequestWrites, Written
<1>3. ASSUME NEW s \in Sockets, Connected(s) PROVE UnusedEmpty'
  BY <1>3 DEF Connected, Written
<1>4. ASSUME NEW s \in Sockets, ConnectFails(s) PROVE UnusedEmpty'
  BY <1>4 DEF ConnectFails, Destroyed
<1>5. ASSUME NEW s \in Sockets, ConnectionLost(s) PROVE UnusedEmpty'
  BY <1>5 DEF ConnectionLost
<1>6. ASSUME NEW s \in Sockets, CloseEvent(s) PROVE UnusedEmpty'
  BY <1>6 DEF CloseEvent, Destroyed
<1>7. ASSUME NEW s \in Sockets, Handshake(s) PROVE UnusedEmpty'
  BY <1>7 DEF Handshake, TypeStreams
<1>8. ASSUME NEW s \in Sockets, Serve(s) PROVE UnusedEmpty'
  BY <1>8 DEF Serve
<1>9. ASSUME NEW s \in Sockets, ServerEnds(s) PROVE UnusedEmpty'
  BY <1>9 DEF ServerEnds
<1>10. CASE Dispose
  BY <1>10 DEF Dispose, Destroyed
<1>11. CASE LauncherExits
  BY <1>11 DEF LauncherExits
<1>12. CASE UNCHANGED <<socket, toServer>>
  BY <1>12
<1> QED
  BY <1>1, <1>2, <1>3, <1>4, <1>5, <1>6, <1>7, <1>8, <1>9, <1>10, <1>11,
     <1>12 DEF PipeNext, pipeVars, RequestTimesOut, ReceiveHalf, Receive

\* The server has connections that were made.
LEMMA ServerLateStep ==
  ASSUME PipeInv, [PipeNext]_pipeVars
  PROVE  ServerLate'
<1> USE DEF PipeInv, ServerLate, TypeSockets, TypeServer
<1>1. ASSUME NEW r \in Requests, RequestConnects(r) PROVE ServerLate'
  BY <1>1 DEF RequestConnects
<1>2. ASSUME NEW s \in Sockets, Connected(s) PROVE ServerLate'
  BY <1>2 DEF Connected
<1>3. ASSUME NEW s \in Sockets, ConnectFails(s) PROVE ServerLate'
  BY <1>3 DEF ConnectFails, Destroyed
<1>4. ASSUME NEW s \in Sockets, ConnectionLost(s) PROVE ServerLate'
  BY <1>4 DEF ConnectionLost
<1>5. ASSUME NEW s \in Sockets, CloseEvent(s) PROVE ServerLate'
  BY <1>5 DEF CloseEvent, Destroyed
<1>6. ASSUME NEW s \in Sockets, Handshake(s) PROVE ServerLate'
  BY <1>6 DEF Handshake
<1>7. ASSUME NEW s \in Sockets, ServerEnds(s) PROVE ServerLate'
  BY <1>7 DEF ServerEnds
<1>8. CASE Dispose
  BY <1>8 DEF Dispose, Destroyed
<1>9. CASE LauncherExits
  BY <1>9 DEF LauncherExits
<1>10. CASE UNCHANGED <<socket, server>>
  BY <1>10
<1> QED
  BY <1>1, <1>2, <1>3, <1>4, <1>5, <1>6, <1>7, <1>8, <1>9, <1>10 DEF PipeNext,
     pipeVars, RequestWrites, RequestTimesOut, ReceiveHalf, Receive, Serve

\* A connection that serves has taken its handshake.
LEMMA NeverStuckStep ==
  ASSUME PipeInv, [PipeNext]_pipeVars
  PROVE  NeverStuck'
<1> USE HelloGoes, PipeAssumption DEF PipeInv, NeverStuck, TypeServer
<1>1. ASSUME NEW r \in Requests, RequestWrites(r) PROVE NeverStuck'
  BY <1>1 DEF RequestWrites
<1>2. ASSUME NEW s \in Sockets, Connected(s) PROVE NeverStuck'
  BY <1>2 DEF Connected
<1>3. ASSUME NEW s \in Sockets, Handshake(s) PROVE NeverStuck'
  BY <1>3, TakenHolds, StreamFacts DEF Handshake
<1>4. ASSUME NEW s \in Sockets, Serve(s) PROVE NeverStuck'
  BY <1>4 DEF Serve, Dispatch
<1>5. ASSUME NEW s \in Sockets, ServerEnds(s) PROVE NeverStuck'
  BY <1>5 DEF ServerEnds
<1>6. CASE LauncherExits
  BY <1>6 DEF LauncherExits
<1>7. CASE UNCHANGED <<toServer, server, launcher>>
  BY <1>7
<1> QED
  BY <1>1, <1>2, <1>3, <1>4, <1>5, <1>6, <1>7 DEF PipeNext, pipeVars,
     RequestConnects, RequestTimesOut, ConnectFails, ConnectionLost,
     CloseEvent, ReceiveHalf, Receive, Dispose

\* PipeInv holds in the initial state,
LEMMA PipeInitInv == PipeInit => PipeInv
<1> SUFFICES ASSUME PipeInit PROVE PipeInv
  OBVIOUS
<1> USE DEF PipeInit
<1>1. TypeReq /\ TypeSockets /\ TypeServer
  BY PipeAssumption DEF TypeReq, TypeSockets, TypeServer
<1>2. /\ <<>> \in Seq(Requests \cup {Hello}) /\ Distinct(<<>>) /\ \A x : ~Holds(<<>>, x)
      /\ <<>> \in Seq(Answers) /\ Len(<<>>) = 0
  BY FewHold, EmptySeq
<1>3. OneEach(<<>>) /\ \A r : ~AnswerTo(<<>>, r)
  BY <1>2 DEF OneEach, AnswerTo
<1>4. /\ TypeStreams /\ HelloLate /\ UnusedEmpty /\ ServerLate
      /\ OnWireOnce /\ NeverStuck
  BY <1>2, <1>3 DEF TypeStreams, HelloLate, UnusedEmpty, ServerLate, OnWireOnce,
     NeverStuck
<1>5. Waiting /\ OneConnection
  BY DEF Waiting, OneConnection
<1> QED
  BY <1>1, <1>4, <1>5 DEF PipeInv

\* and no step breaks it.
LEMMA PipeNextInv == PipeInv /\ [PipeNext]_pipeVars => PipeInv'
<1> SUFFICES ASSUME PipeInv, [PipeNext]_pipeVars PROVE PipeInv'
  OBVIOUS
<1>1. TypeStreams'
  BY FramesKept, AnswersKept DEF FramesStep, AnswersStep, TypeStreams
<1> QED
  BY <1>1, TypeReqStep, TypeSocketsStep, TypeServerStep, WaitingStep, HelloLateStep,
     UnusedEmptyStep, ServerLateStep, OneConnectionStep, OnWireOnceStep, NeverStuckStep DEF PipeInv

\* The parts are the type invariant of the pipe.
LEMMA PipeTypeParts == PipeInv => PipeTypeOK
  BY DEF PipeInv, TypeReq, TypeSockets, TypeServer, TypeStreams, PipeTypeOK

\* A request that waits has the promise of its socket open, or is stranded.
LEMMA WaitEnds == PipeInv => WaitHasEnd
  BY DEF PipeInv, TypeReq, TypeSockets, Waiting, WaitHasEnd, Stranded

\* No step sends again what was sent, and what is served is nowhere else.
LEMMA ServedStep ==
  ASSUME PipeInv, [PipeNext]_pipeVars
  PROVE  /\ NotResent
         /\ \A s \in Sockets : Serve(s) =>
              \A t \in Sockets : ~Holds(toServer'[t], Head(toServer[s]))
<1>1. NotResent
  <2> SUFFICES ASSUME NEW r \in Requests, NEW s \in Sockets, Sent(r),
                      ~Holds(toServer[s], r)
               PROVE  Sent(r)' /\ ~Holds(toServer'[s], r)
    BY DEF NotResent
  <2> QED
    BY FramesKept, SentStep, PipeAssumption DEF FramesStep, Goes
<1>2. ASSUME NEW s \in Sockets, Serve(s), NEW t \in Sockets
      PROVE  ~Holds(toServer'[t], Head(toServer[s]))
  <2>1. /\ Head(toServer[s]) \in Requests /\ Holds(toServer[s], Head(toServer[s]))
        /\ ~Holds(toServer'[s], Head(toServer[s]))
        /\ \A x : Holds(toServer'[t], x) => Holds(toServer[t], x)
    BY <1>2, TakenHolds, StreamFacts DEF Serve, PipeInv
  <2> QED
    BY <2>1 DEF PipeInv, OnWireOnce
<1> QED
  BY <1>1, <1>2

(***************************************************************************)
(* Services: the invariants of the four parts together.                    *)
(***************************************************************************)

ServicesInv == /\ focus \in {"kernel", "pipe", "pty", "update"}
               /\ BootInv /\ PipeInv /\ PtyInv /\ UpdateInv

\* A step of Services is a step of one part and a stutter of the others.
LEMMA OneMoves ==
  [Next]_servicesVars =>
    /\ [BootNext]_bootVars /\ [PipeNext]_pipeVars /\ [PtyNext]_ptyVars
    /\ [UpdateNext]_updateVars /\ UNCHANGED focus
  BY DEF Next, servicesVars

\* ServicesInv is an invariant, for all kernels, requests, sockets, sessions and
\* releases.
THEOREM ServicesInductive == Spec => []ServicesInv
<1>1. Init => ServicesInv
  BY InitInv, PipeInitInv, PtyInitInv, InitUpdateInv DEF Init, ServicesInv
<1>2. ServicesInv /\ [Next]_servicesVars => ServicesInv'
  BY OneMoves, NextInv, PipeNextInv, PtyNextInv, StepUpdateInv DEF ServicesInv
<1> QED
  BY <1>1, <1>2, PTL DEF Spec

\* Every variable of the service at work keeps its type.
THEOREM ServicesTyped == Spec => []TypeOK
<1>1. ServicesInv => TypeOK
  BY PipeTypeParts, PtyTypeParts DEF ServicesInv, BootInv, PtyInv, UpdateInv, TypeOK
<1> QED
  BY <1>1, ServicesInductive, PTL

\* The set-ups of kernels are apart and, with single-instance on, one kernel is
\* alive, whatever the other services do.
THEOREM ServicesBoot == Spec => [](SetupsApart /\ OneKernel)
<1>1. ServicesInv => SetupsApart /\ OneKernel
  <2>1. ServicesInv => SetupsApart
    BY DEF ServicesInv, BootInv, LockHeld, LockedBy, Shown, SetupsApart
  <2>2. ServicesInv => OneKernel
    BY DEF ServicesInv, BootInv, LockFirst, OneKernel, Alive
  <2> QED
    BY <2>1, <2>2
<1> QED
  BY <1>1, ServicesInductive, PTL

\* The client of the pipe has one live connection at most, whichever handlers
\* of older sockets run.
THEOREM OneConnectionOnly == Spec => []OneConnection
<1>1. ServicesInv => OneConnection
  BY DEF ServicesInv, PipeInv
<1> QED
  BY <1>1, ServicesInductive, PTL

\* A request that waits for its connection can still be rejected by the timer
\* of that connection, or is one of those that Stranded names.
THEOREM WaitsHaveEnd == Spec => []WaitHasEnd
<1>1. ServicesInv => WaitHasEnd
  BY WaitEnds DEF ServicesInv
<1> QED
  BY <1>1, ServicesInductive, PTL

\* The frame of a request is on the wire once at most, on its own socket, and
\* gone from there when there is an answer.
THEOREM WireOnce == Spec => []OnWireOnce
<1>1. ServicesInv => OnWireOnce
  BY DEF ServicesInv, PipeInv
<1> QED
  BY <1>1, ServicesInductive, PTL

\* A connection that has been authenticated serves the request at its head.
THEOREM ServersNeverStuck == Spec => []NeverStuck
<1>1. ServicesInv => NeverStuck
  BY DEF ServicesInv, PipeInv
<1> QED
  BY <1>1, ServicesInductive, PTL

\* A request is never sent again, and so carried out once at most, through
\* connections that fail, break and are replaced.
THEOREM ServesOnce == Spec => ServedOnce
<1>1. ServicesInv /\ [Next]_servicesVars =>
        [/\ NotResent
         /\ \A s \in Sockets : Serve(s) =>
              \A t \in Sockets : ~Holds(toServer'[t], Head(toServer[s]))]_pipeVars
  BY OneMoves, ServedStep DEF ServicesInv
<1> QED
  BY <1>1, ServicesInductive, PTL DEF Spec, ServedOnce

\* A kill() of a terminal that reported success is done or still ahead of the
\* control thread.
THEOREM ServicesKillOwed == Spec => []KillOwed
<1>1. ServicesInv => KillOwed
  BY DEF ServicesInv, PtyInv
<1> QED
  BY <1>1, ServicesInductive, PTL

=============================================================================
