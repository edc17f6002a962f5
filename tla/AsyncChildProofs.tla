-------------------------- MODULE AsyncChildProofs --------------------------
(***************************************************************************)
(* Proofs about AsyncChild, for any streams and any number of lines: IInv  *)
(* is an invariant, with it TypeOK, NoLostWakeup and CodeBeforeEnd, and    *)
(* every behavior of AsyncChild is one of LineStream.                      *)
(*                                                                         *)
(* Every step lemma splits Next by who moves: the process and the pipes    *)
(* (1), a reader (2), the reaper (3), the consumer and its timer (4).      *)
(***************************************************************************)
EXTENDS AsyncChild, SequenceTheorems, TLAPS

\* The names actions give to program counters and frames.
USE DEF ReaderAt, ReaperAt, ConsumerAt, OnlyPipes, OnlyReader, OnlyReaper,
        OnlyConsumer, envVars, readerVars, streamVars, reaperVars, notifyVars,
        consumerVars

(***************************************************************************)
(* The queue.                                                              *)
(***************************************************************************)

\* The head of the queue is the line after the last one given of its stream:
\* a smaller number would be queued behind it.
LEMMA HeadIsNext ==
  ASSUME TypeOK, QueueOrdered, lines # <<>>
  PROVE  /\ Head(lines) \in Line /\ Head(lines) = lines[1] /\ Len(lines) \in Nat \ {0}
         /\ Head(lines).n = got[Head(lines).stream] + 1
         /\ Head(lines).n <= read[Head(lines).stream]
<1> DEFINE h == Head(lines)
<1>1. lines \in Seq(Line)
  BY DEF TypeOK
<1>2. h \in Line /\ h = lines[1] /\ Len(lines) \in Nat \ {0}
  BY <1>1, EmptySeq
<1> HIDE DEF h
<1>3. h.stream \in Stream /\ h.n \in 1 .. MaxLine /\ 1 \in 1 .. Len(lines)
  BY <1>2 DEF Line
<1>4. /\ got[h.stream] \in 0 .. MaxLine /\ read[h.stream] \in 0 .. MaxLine
  BY <1>3 DEF TypeOK
<1>5. got[h.stream] < h.n /\ h.n <= read[h.stream]
  BY <1>2, <1>3 DEF QueueOrdered
<1>6. h.n = got[h.stream] + 1
  <2> DEFINE k == got[h.stream] + 1
  <2>1. SUFFICES ASSUME k < h.n PROVE FALSE
    BY <1>3, <1>4, <1>5, MaxLineAssumption
  <2>2. k \in 1 .. MaxLine /\ got[h.stream] < k /\ k <= read[h.stream]
    BY <2>1, <1>3, <1>4, <1>5, MaxLineAssumption
  <2>3. PICK i \in 1 .. Len(lines) : lines[i].stream = h.stream /\ lines[i].n = k
    BY <2>2, <1>3 DEF QueueOrdered
  <2>4. i # 1
    BY <2>1, <2>3, <1>2, <1>3, <1>4, MaxLineAssumption
  <2>5. 1 < i /\ i \in Nat
    BY <2>4, <1>2
  <2>6. h.n < k
    BY <2>3, <2>5, <1>2, <1>3 DEF QueueOrdered
  <2> QED
    BY <2>1, <2>6, <1>3, <1>4, MaxLineAssumption
<1> QED
  BY <1>2, <1>5, <1>6 DEF h

\* What feed_line does to the queue.
LEMMA AppendLine ==
  ASSUME TypeOK, ReadsWritten, NEW s \in Stream, FeedLine(s)
  PROVE  LET line == [stream |-> s, n |-> read[s] + 1] IN
         /\ line \in Line /\ lines' \in Seq(Line)
         /\ Len(lines') = Len(lines) + 1 /\ lines'[Len(lines) + 1] = line
         /\ \A i \in 1 .. Len(lines) : lines'[i] = lines[i]
<1> DEFINE line == [stream |-> s, n |-> read[s] + 1]
<1>1. line \in Line
  <2>1. read[s] \in 0 .. MaxLine /\ written[s] \in 0 .. MaxLine /\ read[s] < written[s]
    BY DEF TypeOK, ReadsWritten, FeedLine
  <2>2. read[s] + 1 \in 1 .. MaxLine
    BY <2>1, MaxLineAssumption
  <2> QED
    BY <2>2 DEF Line
<1>2. lines \in Seq(Line) /\ lines' = Append(lines, line)
  BY DEF TypeOK, FeedLine
<1> HIDE DEF line
<1>3. /\ lines' \in Seq(Line) /\ Len(lines') = Len(lines) + 1
      /\ lines'[Len(lines) + 1] = line
      /\ \A i \in 1 .. Len(lines) : lines'[i] = lines[i]
  BY <1>1, <1>2, AppendProperties
<1> QED
  BY <1>1, <1>3 DEF line

\* What a pop does to the queue.
LEMMA TailLine ==
  ASSUME TypeOK, lines # <<>>
  PROVE  /\ Tail(lines) \in Seq(Line) /\ Len(Tail(lines)) = Len(lines) - 1
         /\ \A i \in 1 .. Len(Tail(lines)) : Tail(lines)[i] = lines[i + 1]
<1>1. lines \in Seq(Line)
  BY DEF TypeOK
<1> QED
  BY <1>1, HeadTailProperties

(***************************************************************************)
(* Initial states.                                                         *)
(***************************************************************************)

\* Before the child has written anything the queue is empty and all are awake.
LEMMA InitIInv == Init => IInv
<1> SUFFICES ASSUME Init PROVE IInv
  OBVIOUS
<1> USE MaxLineAssumption DEF Init
<1>1. TypeOK
  <2>1. {running, code, exitedAt, graceOver, processDone, streamsDone, permit}
          \subseteq BOOLEAN
    OBVIOUS
  <2>2. /\ written \in [Stream -> 0 .. MaxLine] /\ read \in [Stream -> 0 .. MaxLine]
        /\ got \in [Stream -> 0 .. MaxLine]
    OBVIOUS
  <2>3. reader \in [Stream -> {"read", "push", "notify", "eof", "last", "wake",
                              "stopped"}]
    OBVIOUS
  <2>4. lines \in Seq(Line)
    BY EmptySeq
  <2> QED
    BY <2>1, <2>2, <2>3, <2>4 DEF TypeOK
<1>2. ReadsWritten
  <2> SUFFICES ASSUME NEW s \in Stream
               PROVE  read[s] <= written[s] /\ (reader[s] = "push" => read[s] < written[s])
    BY DEF ReadsWritten
  <2>1. read[s] = 0 /\ written[s] = 0 /\ reader[s] = "read"
    OBVIOUS
  <2> QED
    BY <2>1
<1>3. QueueOrdered
  <2>1. Len(lines) = 0 /\ 1 .. Len(lines) = {}
    OBVIOUS
  <2> QED
    BY <2>1 DEF QueueOrdered
<1>4. ReaperOrder /\ WakeupOwed
  BY DEF ReaperOrder, WakeupOwed, Done
<1> QED
  BY <1>1, <1>2, <1>3, <1>4 DEF IInv

(***************************************************************************)
(* Steps.                                                                  *)
(***************************************************************************)

\* A line is numbered, and the queue typed, because no reader is ahead of its pipe.
LEMMA TypeStep ==
  ASSUME TypeOK, ReadsWritten, [Next]_vars
  PROVE  TypeOK'
<1> USE MaxLineAssumption DEF TypeOK
<1>1. ASSUME NEW s \in Stream, Write(s) \/ Inherit(s) \/ Close(s) PROVE TypeOK'
  <2>1. CASE Write(s)
    BY <2>1 DEF Write
  <2>2. CASE Inherit(s)
    BY <2>2 DEF Inherit
  <2>3. CASE Close(s)
    BY <2>3 DEF Close
  <2> QED
    BY <1>1, <2>1, <2>2, <2>3
<1>2. ASSUME NEW s \in Stream, Reader(s) PROVE TypeOK'
  <2>1. CASE ReadLine(s)
    BY <2>1 DEF ReadLine
  <2>2. CASE ReadEof(s)
    BY <2>2 DEF ReadEof
  <2>3. CASE ReadFails(s)
    BY <2>3 DEF ReadFails
  <2>4. CASE FeedLine(s)
    <3>1. lines' \in Seq(Line)
      BY <2>4, AppendLine
    <3>2. read' \in [Stream -> 0 .. MaxLine]
      BY <2>4 DEF FeedLine, ReadsWritten
    <3> QED
      BY <2>4, <3>1, <3>2 DEF FeedLine
  <2>5. CASE FeedNotify(s)
    BY <2>5 DEF FeedNotify, NotifyOne
  <2>6. CASE StreamDone(s)
    BY <2>6 DEF StreamDone
  <2>7. CASE StreamsDone(s)
    BY <2>7 DEF StreamsDone
  <2>8. CASE StreamsNotify(s)
    BY <2>8 DEF StreamsNotify, NotifyOne
  <2> QED
    BY <1>2, <2>1, <2>2, <2>3, <2>4, <2>5, <2>6, <2>7, <2>8 DEF Reader
<1>3. ASSUME Reaper PROVE TypeOK'
  <2>1. CASE SetCode
    BY <2>1 DEF SetCode
  <2>2. CASE SetExitedAt
    BY <2>2 DEF SetExitedAt
  <2>3. CASE SetDone
    BY <2>3 DEF SetDone
  <2>4. CASE ReaperNotify
    BY <2>4 DEF ReaperNotify, NotifyOne
  <2>5. CASE GraceSlept
    BY <2>5 DEF GraceSlept
  <2> QED
    BY <1>3, <2>1, <2>2, <2>3, <2>4, <2>5 DEF Reaper
<1>4. ASSUME Consumer \/ TimerPolls \/ TimerCancels PROVE TypeOK'
  <2>1. CASE NextLine
    BY <2>1 DEF NextLine
  <2>2. CASE Pop
    <3>1. CASE lines = <<>>
      BY <2>2, <3>1 DEF Pop
    <3>2. CASE lines # <<>>
      <4>1. Head(lines) \in Line /\ lines' \in Seq(Line)
        BY <2>2, <3>2, HeadTailProperties DEF Pop
      <4>2. got' \in [Stream -> 0 .. MaxLine]
        <5> DEFINE h == Head(lines)
        <5>1. got' = [got EXCEPT ![h.stream] = h.n]
          BY <2>2, <3>2 DEF Pop, Give
        <5>2. h.stream \in Stream /\ h.n \in 0 .. MaxLine
          BY <4>1 DEF Line
        <5> HIDE DEF h
        <5> QED
          BY <5>1, <5>2
      <4> QED
        BY <2>2, <3>2, <4>1, <4>2 DEF Pop, DropWaiter
    <3> QED
      BY <3>1, <3>2
  <2>3. CASE CheckDone
    BY <2>3 DEF CheckDone, DropWaiter
  <2>4. CASE Arm
    BY <2>4 DEF Arm
  <2>5. CASE Wake
    BY <2>5 DEF Wake
  <2>6. CASE TimerPolls
    BY <2>6 DEF TimerPolls
  <2>7. CASE TimerCancels
    BY <2>7 DEF TimerCancels, DropWaiter
  <2> QED
    BY <1>4, <2>1, <2>2, <2>3, <2>4, <2>5, <2>6, <2>7 DEF Consumer
<1>5. CASE ProcessExit
  BY <1>5 DEF ProcessExit
<1>6. CASE GraceElapses
  BY <1>6 DEF GraceElapses
<1>7. CASE UNCHANGED vars
  BY <1>7 DEF vars
<1> QED
  BY <1>1, <1>2, <1>3, <1>4, <1>5, <1>6, <1>7 DEF Next, Terminated

\* A reader takes only lines that are in its pipe, and the pipe never shrinks.
LEMMA ReadsStep ==
  ASSUME TypeOK, ReadsWritten, [Next]_vars
  PROVE  ReadsWritten'
<1> USE MaxLineAssumption DEF TypeOK, ReadsWritten
<1>1. ASSUME NEW s \in Stream, Write(s) \/ Inherit(s) \/ Close(s) PROVE ReadsWritten'
  <2>1. CASE Write(s)
    BY <2>1 DEF Write
  <2>2. CASE Inherit(s)
    BY <2>2 DEF Inherit
  <2>3. CASE Close(s)
    BY <2>3 DEF Close
  <2> QED
    BY <1>1, <2>1, <2>2, <2>3
<1>2. ASSUME NEW s \in Stream, Reader(s) PROVE ReadsWritten'
  <2>1. CASE ReadLine(s)
    BY <2>1 DEF ReadLine
  <2>2. CASE ReadEof(s)
    BY <2>2 DEF ReadEof
  <2>3. CASE ReadFails(s)
    BY <2>3 DEF ReadFails
  <2>4. CASE FeedLine(s)
    BY <2>4 DEF FeedLine
  <2>5. CASE FeedNotify(s)
    BY <2>5 DEF FeedNotify, NotifyOne
  <2>6. CASE StreamDone(s)
    BY <2>6 DEF StreamDone
  <2>7. CASE StreamsDone(s)
    BY <2>7 DEF StreamsDone
  <2>8. CASE StreamsNotify(s)
    BY <2>8 DEF StreamsNotify, NotifyOne
  <2> QED
    BY <1>2, <2>1, <2>2, <2>3, <2>4, <2>5, <2>6, <2>7, <2>8 DEF Reader
<1>3. ASSUME Reaper PROVE ReadsWritten'
  BY <1>3 DEF Reaper, SetCode, SetExitedAt, SetDone, ReaperNotify, GraceSlept
<1>4. ASSUME Consumer \/ TimerPolls \/ TimerCancels PROVE ReadsWritten'
  BY <1>4 DEF Consumer, NextLine, Pop, CheckDone, Arm, Wake, TimerPolls, TimerCancels
<1>5. CASE ProcessExit
  BY <1>5 DEF ProcessExit
<1>6. CASE GraceElapses
  BY <1>6 DEF GraceElapses
<1>7. CASE UNCHANGED vars
  BY <1>7 DEF vars
<1> QED
  BY <1>1, <1>2, <1>3, <1>4, <1>5, <1>6, <1>7 DEF Next, Terminated

\* The reaper stores the exit before it goes on to the grace and the close.
LEMMA ReaperStep ==
  ASSUME TypeOK, ReaperOrder, [Next]_vars
  PROVE  ReaperOrder'
<1> USE DEF TypeOK, ReaperOrder
<1>1. ASSUME NEW s \in Stream, Write(s) \/ Inherit(s) \/ Close(s) PROVE ReaperOrder'
  BY <1>1 DEF Write, Inherit, Close
<1>2. ASSUME NEW s \in Stream, Reader(s) PROVE ReaperOrder'
  BY <1>2 DEF Reader, ReadLine, ReadEof, ReadFails, FeedLine, FeedNotify,
    StreamDone, StreamsDone, StreamsNotify
<1>3. ASSUME Reaper PROVE ReaperOrder'
  <2>1. CASE SetCode
    BY <2>1 DEF SetCode
  <2>2. CASE SetExitedAt
    BY <2>2 DEF SetExitedAt
  <2>3. CASE SetDone
    BY <2>3 DEF SetDone
  <2>4. CASE ReaperNotify
    BY <2>4 DEF ReaperNotify, NotifyOne
  <2>5. CASE GraceSlept
    BY <2>5 DEF GraceSlept
  <2> QED
    BY <1>3, <2>1, <2>2, <2>3, <2>4, <2>5 DEF Reaper
<1>4. ASSUME Consumer \/ TimerPolls \/ TimerCancels PROVE ReaperOrder'
  <2>1. CASE NextLine
    BY <2>1 DEF NextLine
  <2>2. CASE Pop
    BY <2>2 DEF Pop, DropWaiter
  <2>3. CASE CheckDone
    BY <2>3 DEF CheckDone, DropWaiter, Done
  <2>4. CASE Arm
    BY <2>4 DEF Arm
  <2>5. CASE Wake
    BY <2>5 DEF Wake
  <2>6. CASE TimerPolls
    BY <2>6 DEF TimerPolls
  <2>7. CASE TimerCancels
    BY <2>7 DEF TimerCancels, DropWaiter
  <2> QED
    BY <1>4, <2>1, <2>2, <2>3, <2>4, <2>5, <2>6, <2>7 DEF Consumer
<1>5. CASE ProcessExit
  BY <1>5 DEF ProcessExit
<1>6. CASE GraceElapses
  BY <1>6 DEF GraceElapses
<1>7. CASE UNCHANGED vars
  BY <1>7 DEF vars
<1> QED
  BY <1>1, <1>2, <1>3, <1>4, <1>5, <1>6, <1>7 DEF Next, Terminated

\* The line added is the newest of its stream.
LEMMA FeedKeepsOrder ==
  ASSUME TypeOK, ReadsWritten, QueueOrdered, NEW s \in Stream, FeedLine(s)
  PROVE  QueueOrdered'
<1> DEFINE line == [stream |-> s, n |-> read[s] + 1]
           L == Len(lines)
<1>1. /\ line \in Line /\ Len(lines') = L + 1 /\ lines'[L + 1] = line /\ L \in Nat
      /\ \A i \in 1 .. L : lines'[i] = lines[i] /\ lines[i] \in Line
  BY AppendLine DEF TypeOK
<1>2. /\ got' = got /\ read' = [read EXCEPT ![s] = @ + 1]
      /\ read \in [Stream -> 0 .. MaxLine] /\ got \in [Stream -> 0 .. MaxLine]
  BY DEF FeedLine, TypeOK
<1>3. line.stream = s /\ line.n = read[s] + 1
  OBVIOUS
<1> HIDE DEF line, L
<1>4. \A t \in Stream : got'[t] <= read'[t] /\ read[t] <= read'[t]
  BY <1>2, MaxLineAssumption DEF QueueOrdered
<1>5. \A i \in 1 .. L : got[lines[i].stream] < lines[i].n
                         /\ lines[i].n <= read[lines[i].stream]
  BY DEF QueueOrdered, L
<1>6. \A i \in 1 .. L + 1 : i \in 1 .. L \/ i = L + 1
  BY <1>1
<1>7. \A i \in 1 .. L + 1 : got'[lines'[i].stream] < lines'[i].n
                             /\ lines'[i].n <= read'[lines'[i].stream]
  <2> SUFFICES ASSUME NEW i \in 1 .. L + 1
               PROVE  got'[lines'[i].stream] < lines'[i].n
                      /\ lines'[i].n <= read'[lines'[i].stream]
    OBVIOUS
  <2>1. CASE i \in 1 .. L
    <3>1. lines'[i] = lines[i] /\ lines[i].stream \in Stream /\ lines[i].n \in Nat
      BY <2>1, <1>1 DEF Line
    <3>2. got[lines[i].stream] < lines[i].n /\ lines[i].n <= read[lines[i].stream]
      BY <2>1, <1>5
    <3>3. /\ read[lines[i].stream] <= read'[lines[i].stream]
          /\ read[lines[i].stream] \in Nat /\ read'[lines[i].stream] \in Nat
      BY <3>1, <1>2, <1>4, MaxLineAssumption
    <3> QED
      BY <3>1, <3>2, <3>3, <1>2
  <2>2. CASE i = L + 1
    <3>1. got[s] <= read[s]
      BY DEF QueueOrdered
    <3> QED
      BY <2>2, <3>1, <1>1, <1>2, <1>3, MaxLineAssumption
  <2> QED
    BY <2>1, <2>2, <1>6
<1>8. \A i, j \in 1 .. L + 1 :
         i < j /\ lines'[i].stream = lines'[j].stream => lines'[i].n < lines'[j].n
  <2> SUFFICES ASSUME NEW i \in 1 .. L + 1, NEW j \in 1 .. L + 1, i < j,
                      lines'[i].stream = lines'[j].stream
               PROVE  lines'[i].n < lines'[j].n
    OBVIOUS
  <2>1. i \in 1 .. L /\ lines'[i] = lines[i] /\ lines[i] \in Line
    BY <1>1, <1>6
  <2>2. CASE j \in 1 .. L
    BY <2>1, <2>2, <1>1 DEF QueueOrdered, L
  <2>3. CASE j = L + 1
    <3>1. lines[i].stream = s /\ lines[i].n <= read[s]
      BY <2>1, <2>3, <1>1, <1>3, <1>5
    <3> QED
      BY <2>1, <2>3, <3>1, <1>1, <1>2, <1>3, MaxLineAssumption DEF Line
  <2> QED
    BY <2>2, <2>3, <1>6
<1>9. \A t \in Stream : \A k \in 1 .. MaxLine : got'[t] < k /\ k <= read'[t] =>
        \E i \in 1 .. L + 1 : lines'[i].stream = t /\ lines'[i].n = k
  <2> SUFFICES ASSUME NEW t \in Stream, NEW k \in 1 .. MaxLine,
                      got'[t] < k, k <= read'[t]
               PROVE  \E i \in 1 .. L + 1 : lines'[i].stream = t /\ lines'[i].n = k
    OBVIOUS
  <2>1. CASE k <= read[t]
    <3>1. PICK i \in 1 .. L : lines[i].stream = t /\ lines[i].n = k
      BY <2>1, <1>2 DEF QueueOrdered, L
    <3> QED
      BY <3>1, <1>1
  <2>2. CASE ~(k <= read[t])
    <3>1. t = s /\ k = read[s] + 1
      BY <2>2, <1>2, MaxLineAssumption
    <3>2. L + 1 \in 1 .. L + 1
      BY <1>1
    <3> QED
      BY <3>1, <3>2, <1>1, <1>3
  <2> QED
    BY <2>1, <2>2
<1> QED
  BY <1>1, <1>4, <1>7, <1>8, <1>9 DEF QueueOrdered

\* The line taken is the oldest of its stream that was not given.
LEMMA PopKeepsOrder ==
  ASSUME TypeOK, QueueOrdered, Pop
  PROVE  QueueOrdered'
<1>1. CASE lines = <<>>
  BY <1>1 DEF Pop, QueueOrdered
<1>2. CASE lines # <<>>
  <2> DEFINE h == Head(lines)
             L == Len(lines)
  <2>1. /\ h \in Line /\ h = lines[1] /\ L \in Nat \ {0}
        /\ h.n = got[h.stream] + 1 /\ h.n <= read[h.stream]
    BY <1>2, HeadIsNext
  <2>2. /\ read' = read /\ got' = [got EXCEPT ![h.stream] = h.n]
        /\ lines' = Tail(lines)
    BY <1>2 DEF Pop, Give
  <2>3. /\ Len(lines') = L - 1
        /\ \A i \in 1 .. L - 1 : lines'[i] = lines[i + 1]
    BY <1>2, <2>2, TailLine
  <2>4. /\ read \in [Stream -> 0 .. MaxLine] /\ got \in [Stream -> 0 .. MaxLine]
        /\ \A i \in 1 .. L : lines[i] \in Line
    BY DEF TypeOK
  <2>5. h.stream \in Stream /\ h.n \in 1 .. MaxLine
    BY <2>1 DEF Line
  <2> HIDE DEF h, L
  <2>6. \A i \in 1 .. L - 1 : i + 1 \in 1 .. L /\ 1 < i + 1
    BY <2>1
  <2>7. \A t \in Stream : got'[t] <= read'[t] /\ got[t] <= got'[t]
    BY <2>1, <2>2, <2>4, <2>5, MaxLineAssumption DEF QueueOrdered
  <2>8. \A i \in 1 .. L - 1 : got'[lines'[i].stream] < lines'[i].n
                               /\ lines'[i].n <= read'[lines'[i].stream]
    <3> SUFFICES ASSUME NEW i \in 1 .. L - 1
                 PROVE  got'[lines'[i].stream] < lines'[i].n
                        /\ lines'[i].n <= read'[lines'[i].stream]
      OBVIOUS
    <3>1. /\ got[lines[i + 1].stream] < lines[i + 1].n
          /\ lines[i + 1].n <= read[lines[i + 1].stream]
      BY <2>6 DEF QueueOrdered, L
    <3>2. lines[i + 1].stream = h.stream => h.n < lines[i + 1].n
      BY <2>1, <2>6 DEF QueueOrdered, L
    <3>3. lines[i + 1].stream \in Stream
      BY <2>4, <2>6 DEF Line
    <3> QED
      BY <3>1, <3>2, <3>3, <2>2, <2>3, <2>4
  <2>9. \A i, j \in 1 .. L - 1 :
           i < j /\ lines'[i].stream = lines'[j].stream => lines'[i].n < lines'[j].n
    <3> SUFFICES ASSUME NEW i \in 1 .. L - 1, NEW j \in 1 .. L - 1, i < j,
                        lines'[i].stream = lines'[j].stream
                 PROVE  lines'[i].n < lines'[j].n
      OBVIOUS
    <3>1. i + 1 < j + 1
      BY <2>1
    <3> QED
      BY <3>1, <2>3, <2>6 DEF QueueOrdered, L
  <2>10. \A t \in Stream : \A k \in 1 .. MaxLine : got'[t] < k /\ k <= read'[t] =>
           \E i \in 1 .. L - 1 : lines'[i].stream = t /\ lines'[i].n = k
    <3> SUFFICES ASSUME NEW t \in Stream, NEW k \in 1 .. MaxLine,
                        got'[t] < k, k <= read'[t]
                 PROVE  \E i \in 1 .. L - 1 : lines'[i].stream = t /\ lines'[i].n = k
      OBVIOUS
    <3>1. got[t] < k /\ k <= read[t]
      <4>1. got[t] \in Nat /\ got'[t] \in Nat /\ got[t] <= got'[t] /\ read'[t] = read[t]
        BY <2>2, <2>4, <2>5, <2>7, MaxLineAssumption
      <4> QED
        BY <4>1
    <3>2. PICK i \in 1 .. L : lines[i].stream = t /\ lines[i].n = k
      BY <3>1 DEF QueueOrdered, L
    <3>3. i # 1
      <4>1. SUFFICES ASSUME i = 1 PROVE FALSE
        OBVIOUS
      <4>2. t = h.stream /\ k = h.n
        BY <4>1, <3>2, <2>1
      <4> QED
        BY <4>2, <2>2, <2>4, <2>5
    <3>4. i - 1 \in 1 .. L - 1 /\ (i - 1) + 1 = i
      BY <3>3, <2>1
    <3>5. lines'[i - 1] = lines[i]
      BY <3>4, <2>3
    <3> QED
      BY <3>2, <3>4, <3>5
  <2> QED
    BY <2>3, <2>7, <2>8, <2>9, <2>10 DEF QueueOrdered
<1> QED
  BY <1>1, <1>2

\* Only feed_line and a pop move the queue: the one adds the next line read, the
\* other takes the next line to give.
LEMMA QueueStep ==
  ASSUME TypeOK, ReadsWritten, QueueOrdered, [Next]_vars
  PROVE  QueueOrdered'
<1> USE MaxLineAssumption
<1>1. ASSUME NEW s \in Stream, Write(s) \/ Inherit(s) \/ Close(s) PROVE QueueOrdered'
  BY <1>1 DEF Write, Inherit, Close, QueueOrdered
<1>2. ASSUME NEW s \in Stream, Reader(s) PROVE QueueOrdered'
  <2>1. CASE ReadLine(s)
    BY <2>1 DEF ReadLine, QueueOrdered
  <2>2. CASE ReadEof(s)
    BY <2>2 DEF ReadEof, QueueOrdered
  <2>3. CASE ReadFails(s)
    BY <2>3 DEF ReadFails, QueueOrdered
  <2>4. CASE FeedLine(s)
    BY <2>4, FeedKeepsOrder
  <2>5. CASE FeedNotify(s)
    BY <2>5 DEF FeedNotify, NotifyOne, QueueOrdered
  <2>6. CASE StreamDone(s)
    BY <2>6 DEF StreamDone, QueueOrdered
  <2>7. CASE StreamsDone(s)
    BY <2>7 DEF StreamsDone, QueueOrdered
  <2>8. CASE StreamsNotify(s)
    BY <2>8 DEF StreamsNotify, NotifyOne, QueueOrdered
  <2> QED
    BY <1>2, <2>1, <2>2, <2>3, <2>4, <2>5, <2>6, <2>7, <2>8 DEF Reader
<1>3. ASSUME Reaper PROVE QueueOrdered'
  BY <1>3 DEF Reaper, SetCode, SetExitedAt, SetDone, ReaperNotify, GraceSlept, QueueOrdered
<1>4. ASSUME Consumer \/ TimerPolls \/ TimerCancels PROVE QueueOrdered'
  <2>1. CASE NextLine
    BY <2>1 DEF NextLine, QueueOrdered
  <2>2. CASE Pop
    BY <2>2, PopKeepsOrder
  <2>3. CASE CheckDone
    BY <2>3 DEF CheckDone, DropWaiter, QueueOrdered
  <2>4. CASE Arm
    BY <2>4 DEF Arm, QueueOrdered
  <2>5. CASE Wake
    BY <2>5 DEF Wake, QueueOrdered
  <2>6. CASE TimerPolls
    BY <2>6 DEF TimerPolls, QueueOrdered
  <2>7. CASE TimerCancels
    BY <2>7 DEF TimerCancels, DropWaiter, QueueOrdered
  <2> QED
    BY <1>4, <2>1, <2>2, <2>3, <2>4, <2>5, <2>6, <2>7 DEF Consumer
<1>5. CASE ProcessExit
  BY <1>5 DEF ProcessExit, QueueOrdered
<1>6. CASE GraceElapses
  BY <1>6 DEF GraceElapses, QueueOrdered
<1>7. CASE UNCHANGED vars
  BY <1>7 DEF vars, QueueOrdered
<1> QED
  BY <1>1, <1>2, <1>3, <1>4, <1>5, <1>6, <1>7 DEF Next, Terminated

\* A notification that is due is sent to the waiter or stored; only a consumer that
\* looks at the queue again takes it.
LEMMA WakeupStep ==
  ASSUME TypeOK, ReaperOrder, WakeupOwed, [Next]_vars
  PROVE  WakeupOwed'
<1>1. ASSUME NEW s \in Stream, Write(s) \/ Inherit(s) \/ Close(s) PROVE WakeupOwed'
  BY <1>1 DEF Write, Inherit, Close, TypeOK, WakeupOwed, NotifyComing, Done
<1>2. ASSUME NEW s \in Stream, Reader(s) PROVE WakeupOwed'
  <2>1. CASE ReadLine(s)
    BY <2>1 DEF ReadLine, TypeOK, ReaperOrder, WakeupOwed, NotifyComing, Done
  <2>2. CASE ReadEof(s)
    BY <2>2 DEF ReadEof, TypeOK, ReaperOrder, WakeupOwed, NotifyComing, Done
  <2>3. CASE ReadFails(s)
    BY <2>3 DEF ReadFails, TypeOK, ReaperOrder, WakeupOwed, NotifyComing, Done
  <2>4. CASE FeedLine(s)
    BY <2>4 DEF FeedLine, TypeOK, ReaperOrder, WakeupOwed, NotifyComing, Done
  <2>5. CASE FeedNotify(s)
    BY <2>5 DEF FeedNotify, NotifyOne, TypeOK, ReaperOrder, WakeupOwed, NotifyComing, Done
  <2>6. CASE StreamDone(s)
    BY <2>6 DEF StreamDone, TypeOK, ReaperOrder, WakeupOwed, NotifyComing, Done
  <2>7. CASE StreamsDone(s)
    BY <2>7 DEF StreamsDone, TypeOK, ReaperOrder, WakeupOwed, NotifyComing, Done
  <2>8. CASE StreamsNotify(s)
    BY <2>8 DEF StreamsNotify, NotifyOne, TypeOK, ReaperOrder, WakeupOwed, NotifyComing, Done
  <2> QED
    BY <1>2, <2>1, <2>2, <2>3, <2>4, <2>5, <2>6, <2>7, <2>8 DEF Reader
<1>3. ASSUME Reaper PROVE WakeupOwed'
  <2>1. CASE SetCode
    BY <2>1 DEF SetCode, TypeOK, ReaperOrder, WakeupOwed, NotifyComing, Done
  <2>2. CASE SetExitedAt
    BY <2>2 DEF SetExitedAt, TypeOK, ReaperOrder, WakeupOwed, NotifyComing, Done
  <2>3. CASE SetDone
    BY <2>3 DEF SetDone, TypeOK, ReaperOrder, WakeupOwed, NotifyComing, Done
  <2>4. CASE ReaperNotify
    BY <2>4 DEF ReaperNotify, NotifyOne, TypeOK, ReaperOrder, WakeupOwed, NotifyComing, Done
  <2>5. CASE GraceSlept
    BY <2>5 DEF GraceSlept, TypeOK, ReaperOrder, WakeupOwed, NotifyComing, Done
  <2> QED
    BY <1>3, <2>1, <2>2, <2>3, <2>4, <2>5 DEF Reaper
<1>4. ASSUME Consumer \/ TimerPolls \/ TimerCancels PROVE WakeupOwed'
  <2>1. CASE NextLine
    BY <2>1 DEF NextLine, TypeOK, ReaperOrder, WakeupOwed, NotifyComing, Done
  <2>2. CASE Pop
    BY <2>2 DEF Pop, DropWaiter, TypeOK, ReaperOrder, WakeupOwed, NotifyComing, Done
  <2>3. CASE CheckDone
    BY <2>3 DEF CheckDone, DropWaiter, TypeOK, ReaperOrder, WakeupOwed, NotifyComing, Done
  <2>4. CASE Arm
    BY <2>4 DEF Arm, TypeOK, ReaperOrder, WakeupOwed, NotifyComing, Done
  <2>5. CASE Wake
    BY <2>5 DEF Wake, TypeOK, ReaperOrder, WakeupOwed, NotifyComing, Done
  <2>6. CASE TimerPolls
    BY <2>6 DEF TimerPolls, TypeOK, ReaperOrder, WakeupOwed, NotifyComing, Done
  <2>7. CASE TimerCancels
    BY <2>7 DEF TimerCancels, DropWaiter, TypeOK, ReaperOrder, WakeupOwed, NotifyComing, Done
  <2> QED
    BY <1>4, <2>1, <2>2, <2>3, <2>4, <2>5, <2>6, <2>7 DEF Consumer
<1>5. CASE ProcessExit
  BY <1>5 DEF ProcessExit, TypeOK, WakeupOwed, NotifyComing, Done
<1>6. CASE GraceElapses
  BY <1>6 DEF GraceElapses, TypeOK, ReaperOrder, WakeupOwed, NotifyComing, Done
<1>7. CASE UNCHANGED vars
  BY <1>7 DEF vars, WakeupOwed, NotifyComing, Done
<1> QED
  BY <1>1, <1>2, <1>3, <1>4, <1>5, <1>6, <1>7 DEF Next, Terminated

\* No step of the child, the readers, the reaper or the consumer breaks IInv.
LEMMA StepIInv == IInv /\ [Next]_vars => IInv'
  BY TypeStep, ReadsStep, QueueStep, ReaperStep, WakeupStep DEF IInv

(***************************************************************************)
(* Theorems.                                                               *)
(***************************************************************************)

\* The inductive invariant holds in every reachable state, for any streams and
\* any number of lines.
THEOREM Invariance == Spec => []IInv
  BY InitIInv, StepIInv, PTL DEF Spec

\* Every variable keeps to its type; the numbers of the lines stay in bounds.
THEOREM TypeCorrect == Spec => []TypeOK
<1>1. IInv => TypeOK
  BY DEF IInv
<1> QED
  BY <1>1, Invariance, PTL

\* No wakeup of next_line is lost, however its readers, the reaper and a timer
\* that drops it interleave.
THEOREM WakeupsReachTheConsumer == Spec => []NoLostWakeup
<1>1. IInv => NoLostWakeup
  BY DEF IInv, TypeOK, WakeupOwed, NoLostWakeup
<1> QED
  BY <1>1, Invariance, PTL

\* Whoever sees the process done, or the end of its output, can read the code.
THEOREM CodeIsThere == Spec => []CodeBeforeEnd
<1>1. IInv => CodeBeforeEnd
  BY DEF IInv, ReaperOrder, CodeBeforeEnd
<1> QED
  BY <1>1, Invariance, PTL

(***************************************************************************)
(* AsyncChild implements LineStream.                                       *)
(***************************************************************************)

\* An empty queue is an empty abstract stream.
LEMMA PromiseInit == Init => Promise!Init
  BY DEF Init, Promise!Init

\* A read is a Send, a pop a Deliver, the exit and the end are themselves;
\* everything else is a stuttering step.
LEMMA PromiseStep ==
  ASSUME IInv, [Next]_vars
  PROVE  [Promise!Next]_(Promise!vars)
<1> USE DEF IInv, Promise!vars
<1>1. ASSUME NEW s \in Stream, Write(s) \/ Inherit(s) \/ Close(s)
      PROVE  UNCHANGED Promise!vars
  BY <1>1 DEF Write, Inherit, Close
<1>2. ASSUME NEW s \in Stream, Reader(s)
      PROVE  Promise!Send(s) \/ UNCHANGED Promise!vars
  <2>1. CASE FeedLine(s)
    BY <2>1 DEF FeedLine, Promise!Send
  <2>2. CASE ~FeedLine(s)
    BY <1>2, <2>2 DEF Reader, ReadLine, ReadEof, ReadFails, FeedNotify,
       StreamDone, StreamsDone, StreamsNotify
  <2> QED
    BY <2>1, <2>2
<1>3. ASSUME Reaper PROVE UNCHANGED Promise!vars
  BY <1>3 DEF Reaper, SetCode, SetExitedAt, SetDone, ReaperNotify, GraceSlept
<1>4. ASSUME Pop
      PROVE  (\E s \in Stream : Promise!Deliver(s)) \/ UNCHANGED Promise!vars
  <2>1. CASE lines = <<>>
    BY <1>4, <2>1 DEF Pop
  <2>2. CASE lines # <<>>
    <3> DEFINE h == Head(lines)
    <3>1. /\ h \in Line /\ h.n = got[h.stream] + 1 /\ h.n <= read[h.stream]
      BY <2>2, HeadIsNext
    <3>2. h.stream \in Stream /\ h.n \in 1 .. MaxLine
      BY <3>1 DEF Line
    <3>3. got' = [got EXCEPT ![h.stream] = @ + 1]
      BY <1>4, <2>2, <3>1, <3>2 DEF Pop, Give, TypeOK
    <3>4. got[h.stream] < read[h.stream]
      BY <3>1, <3>2, MaxLineAssumption DEF TypeOK
    <3>5. Promise!Deliver(h.stream)
      BY <1>4, <2>2, <3>3, <3>4 DEF Pop, Promise!Deliver
    <3> QED
      BY <3>2, <3>5
  <2> QED
    BY <2>1, <2>2
<1>5. ASSUME CheckDone PROVE Promise!End \/ UNCHANGED Promise!vars
  BY <1>5 DEF CheckDone, Done, ReaperOrder, Promise!End
<1>6. ASSUME NextLine \/ Arm \/ Wake \/ TimerPolls \/ TimerCancels
      PROVE  UNCHANGED Promise!vars
  BY <1>6 DEF NextLine, Arm, Wake, TimerPolls, TimerCancels
<1>7. ASSUME ProcessExit PROVE Promise!Exit
  BY <1>7 DEF ProcessExit, Promise!Exit
<1>8. ASSUME GraceElapses PROVE UNCHANGED Promise!vars
  BY <1>8 DEF GraceElapses
<1>9. ASSUME UNCHANGED vars PROVE UNCHANGED Promise!vars
  BY <1>9 DEF vars
<1> QED
  BY <1>1, <1>2, <1>3, <1>4, <1>5, <1>6, <1>7, <1>8, <1>9
     DEF Next, Consumer, Terminated, Promise!Next

\* The lines of each stream are delivered once and in order and the end comes
\* after the exit, for any streams and any number of lines.
THEOREM Refinement == Spec => Promise!Spec
  BY PromiseInit, PromiseStep, Invariance, PTL DEF Spec, Promise!Spec
=============================================================================
