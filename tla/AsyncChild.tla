----------------------------- MODULE AsyncChild -----------------------------
(***************************************************************************)
(* AsyncChild (src/process/child.rs): two readers and a reaper feed a      *)
(* queue and a flag each, and wake one consumer that polls next_line       *)
(* through a tokio Notify.  A process started by the child may inherit the *)
(* write end of a pipe and keep it open, or write to it, after the child   *)
(* has exited.  The consumer may drop next_line at any await (its callers  *)
(* bound it with a timeout) and ask again.                                 *)
(***************************************************************************)
EXTENDS Naturals, Sequences

CONSTANTS
  Stream,   \* the output streams of the child
  MaxLine   \* bound: lines written to each stream

ASSUME MaxLineAssumption == MaxLine \in Nat

VARIABLES
  \* The process and its pipes.
  running,    \* the process has not exited
  own, heir,  \* streams whose write end the process, a grandchild, has open
  written,    \* lines written to each pipe
  \* The readers: the step each is at, and how many lines it has queued.
  reader, read,
  \* Inner.
  lines,         \* the queue
  code,          \* the exit code is known
  exitedAt,      \* process_exited_at is set
  graceOver,     \* STREAM_GRACE has elapsed since then
  processDone, streamsRemaining, streamsDone,
  permit,        \* the permit stored in notify
  \* The reaper and the consumer: their steps, the consumer's waiter, and the
  \* number of the last line it was given from each stream.
  reaper, consumer, waiter, got

envVars      == <<running, own, heir, written>>
readerVars   == <<reader, read>>
streamVars   == <<streamsRemaining, streamsDone>>
reaperVars   == <<code, exitedAt, graceOver, processDone, reaper>>
notifyVars   == <<permit, waiter>>
consumerVars == <<consumer, got>>
vars == <<envVars, readerVars, lines, streamVars, reaperVars, notifyVars,
          consumerVars>>

Line == [stream : Stream, n : 1 .. MaxLine]

TypeOK ==
  /\ {running, code, exitedAt, graceOver, processDone, streamsDone, permit}
       \subseteq BOOLEAN
  /\ own \subseteq Stream /\ heir \subseteq Stream
  /\ written \in [Stream -> 0 .. MaxLine]
  /\ reader \in [Stream -> {"read", "push", "notify", "eof", "last", "wake",
                            "stopped"}]
  /\ read \in [Stream -> 0 .. MaxLine]
  /\ lines \in Seq(Line)
  /\ streamsRemaining \subseteq Stream
  /\ reaper \in {"wait", "stamp", "flag", "notify", "grace", "wake", "stopped"}
  /\ consumer \in {"idle", "pop", "check", "arm", "parked", "ended"}
  /\ waiter \in {"none", "armed", "fired"}
  /\ got \in [Stream -> 0 .. MaxLine]

Init ==
  /\ running = TRUE /\ own = Stream /\ heir = {}
  /\ written = [s \in Stream |-> 0]
  /\ reader = [s \in Stream |-> "read"] /\ read = [s \in Stream |-> 0]
  /\ lines = <<>>
  /\ code = FALSE /\ exitedAt = FALSE /\ graceOver = FALSE /\ processDone = FALSE
  /\ streamsRemaining = Stream /\ streamsDone = FALSE
  /\ permit = FALSE /\ waiter = "none"
  /\ reaper = "wait" /\ consumer = "idle" /\ got = [s \in Stream |-> 0]

(***************************************************************************)
(* The process, a grandchild that may inherit its pipes, and time.         *)
(***************************************************************************)

OnlyPipes == UNCHANGED <<readerVars, lines, streamVars, reaperVars, notifyVars,
                         consumerVars>>

Write(s) ==
  /\ s \in own \cup heir /\ written[s] < MaxLine
  /\ written' = [written EXCEPT ![s] = @ + 1]
  /\ UNCHANGED <<running, own, heir>> /\ OnlyPipes

\* Spawn a grandchild that inherits s.
Inherit(s) ==
  /\ running /\ s \in own
  /\ heir' = heir \cup {s}
  /\ UNCHANGED <<running, own, written>> /\ OnlyPipes

Close(s) ==
  /\ \/ s \in own /\ own' = own \ {s} /\ UNCHANGED heir
     \/ s \in heir /\ heir' = heir \ {s} /\ UNCHANGED own
  /\ UNCHANGED <<running, written>> /\ OnlyPipes

ProcessExit ==
  /\ running /\ running' = FALSE /\ own' = {}
  /\ UNCHANGED <<heir, written>> /\ OnlyPipes

GraceElapses ==
  /\ exitedAt /\ ~graceOver /\ graceOver' = TRUE
  /\ UNCHANGED <<envVars, readerVars, lines, streamVars, code, exitedAt,
                 processDone, reaper, notifyVars, consumerVars>>

(***************************************************************************)
(* Notify::notify_one: hand the waiter over, or store the one permit.      *)
(***************************************************************************)

NotifyOne ==
  IF waiter = "armed" THEN waiter' = "fired" /\ UNCHANGED permit
                      ELSE permit' = TRUE /\ UNCHANGED waiter

(***************************************************************************)
(* read_lines and its blocking twin, feed_line, stream_done.               *)
(***************************************************************************)

ReaderAt(s, from, to) ==
  reader[s] = from /\ reader' = [reader EXCEPT ![s] = to]

OnlyReader == UNCHANGED <<envVars, reaperVars, consumerVars>>

\* Fault: a line is taken from a pipe that has none.
ReadPastEnd(s) ==
  /\ ReaderAt(s, "read", "push")
  /\ UNCHANGED <<read, lines, streamVars, notifyVars>> /\ OnlyReader

ReadLine(s) ==
  /\ ReaderAt(s, "read", "push") /\ read[s] < written[s]
  /\ UNCHANGED <<read, lines, streamVars, notifyVars>> /\ OnlyReader

\* Ok(0): all was read and every write end is closed.
ReadEof(s) ==
  /\ ReaderAt(s, "read", "eof") /\ read[s] = written[s] /\ s \notin own \cup heir
  /\ UNCHANGED <<read, lines, streamVars, notifyVars>> /\ OnlyReader

\* Err(_), as for a line that is not UTF-8: the rest of the pipe is abandoned.
ReadFails(s) ==
  /\ ReaderAt(s, "read", "eof") /\ read[s] < written[s]
  /\ UNCHANGED <<read, lines, streamVars, notifyVars>> /\ OnlyReader

FeedLine(s) ==
  /\ ReaderAt(s, "push", "notify")
  /\ lines' = Append(lines, [stream |-> s, n |-> read[s] + 1])
  /\ read' = [read EXCEPT ![s] = @ + 1]
  /\ UNCHANGED <<streamVars, notifyVars>> /\ OnlyReader

FeedNotify(s) ==
  /\ ReaderAt(s, "notify", "read") /\ NotifyOne
  /\ UNCHANGED <<read, lines, streamVars>> /\ OnlyReader

\* fetch_sub: the reader that was the last goes on to raise streams_done.
StreamDone(s) ==
  /\ ReaderAt(s, "eof", IF streamsRemaining = {s} THEN "last" ELSE "stopped")
  /\ streamsRemaining' = streamsRemaining \ {s}
  /\ UNCHANGED <<read, lines, streamsDone, notifyVars>> /\ OnlyReader

StreamsDone(s) ==
  /\ ReaderAt(s, "last", "wake") /\ streamsDone' = TRUE
  /\ UNCHANGED <<read, lines, streamsRemaining, notifyVars>> /\ OnlyReader

StreamsNotify(s) ==
  /\ ReaderAt(s, "wake", "stopped") /\ NotifyOne
  /\ UNCHANGED <<read, lines, streamVars>> /\ OnlyReader

Reader(s) ==
  \/ ReadLine(s) \/ ReadEof(s) \/ ReadFails(s) \/ FeedLine(s) \/ FeedNotify(s)
  \/ StreamDone(s) \/ StreamsDone(s) \/ StreamsNotify(s)

(***************************************************************************)
(* The reaper: exit code, time of exit, flag, wake; and wake once more     *)
(* when the grace period is over.                                          *)
(***************************************************************************)

ReaperAt(from, to) == reaper = from /\ reaper' = to

OnlyReaper == UNCHANGED <<envVars, readerVars, lines, streamVars, consumerVars>>

\* Fault: the exit flag is raised before the code is stored.
FlagFirst ==
  /\ ReaperAt("wait", "stamp") /\ ~running /\ processDone' = TRUE
  /\ UNCHANGED <<code, exitedAt, graceOver, notifyVars>> /\ OnlyReaper

SetCode ==
  /\ ReaperAt("wait", "stamp") /\ ~running /\ code' = TRUE
  /\ UNCHANGED <<exitedAt, graceOver, processDone, notifyVars>> /\ OnlyReaper

SetExitedAt ==
  /\ ReaperAt("stamp", "flag") /\ exitedAt' = TRUE
  /\ UNCHANGED <<code, graceOver, processDone, notifyVars>> /\ OnlyReaper

SetDone ==
  /\ ReaperAt("flag", "notify") /\ processDone' = TRUE
  /\ UNCHANGED <<code, exitedAt, graceOver, notifyVars>> /\ OnlyReaper

ReaperNotify ==
  /\ \/ ReaperAt("notify", "grace")
     \/ ReaperAt("wake", "stopped")
  /\ NotifyOne
  /\ UNCHANGED <<code, exitedAt, graceOver, processDone>> /\ OnlyReaper

\* The sleep began after the time of exit was taken.
GraceSlept ==
  /\ ReaperAt("grace", "wake") /\ graceOver
  /\ UNCHANGED <<code, exitedAt, graceOver, processDone, notifyVars>>
  /\ OnlyReaper

Reaper == SetCode \/ SetExitedAt \/ SetDone \/ ReaperNotify \/ GraceSlept

(***************************************************************************)
(* next_line: poll pops a line, or finds the end, or arms a waiter.        *)
(***************************************************************************)

Done == processDone /\ (streamsDone \/ (exitedAt /\ graceOver))

ConsumerAt(from, to) == consumer = from /\ consumer' = to

OnlyConsumer == UNCHANGED <<envVars, readerVars, streamVars, reaperVars>>

\* Dropping a waiter that was notified and not polled passes the notification on.
DropWaiter ==
  /\ waiter' = "none"
  /\ permit' = (permit \/ waiter = "fired")

NextLine ==
  /\ ConsumerAt("idle", "pop")
  /\ UNCHANGED <<lines, notifyVars, got>> /\ OnlyConsumer

Give(line) == got' = [got EXCEPT ![line.stream] = line.n]

\* Fault: the newest line is taken.
PopBack ==
  /\ ConsumerAt("pop", IF lines = <<>> THEN "check" ELSE "idle")
  /\ IF lines = <<>>
       THEN UNCHANGED <<lines, notifyVars, got>>
       ELSE /\ Give(lines[Len(lines)])
            /\ lines' = SubSeq(lines, 1, Len(lines) - 1)
            /\ DropWaiter
  /\ OnlyConsumer

Pop ==
  /\ ConsumerAt("pop", IF lines = <<>> THEN "check" ELSE "idle")
  /\ IF lines = <<>>
       THEN UNCHANGED <<lines, notifyVars, got>>
       ELSE Give(Head(lines)) /\ lines' = Tail(lines) /\ DropWaiter
  /\ OnlyConsumer

CheckDone ==
  /\ ConsumerAt("check", IF Done THEN "ended" ELSE "arm")
  /\ IF Done THEN DropWaiter ELSE UNCHANGED notifyVars
  /\ UNCHANGED <<lines, got>> /\ OnlyConsumer

\* Fault: a poll whose waiter was ready returns Pending all the same.
ArmParksSpent ==
  /\ ConsumerAt("arm", "parked")
  /\ IF waiter = "fired" \/ (waiter = "none" /\ permit)
       THEN waiter' = "none" /\ permit' = (permit /\ waiter = "fired")
       ELSE waiter' = "armed" /\ UNCHANGED permit
  /\ UNCHANGED <<lines, got>> /\ OnlyConsumer

\* Poll the waiter, making one first if there is none: a notification is
\* consumed and the queue looked at again, else the consumer parks.
Arm ==
  /\ \/ /\ waiter = "fired" /\ ConsumerAt("arm", "pop")
        /\ waiter' = "none" /\ UNCHANGED permit
     \/ /\ waiter = "none" /\ permit /\ ConsumerAt("arm", "pop")
        /\ permit' = FALSE /\ UNCHANGED waiter
     \/ /\ waiter = "armed" \/ (waiter = "none" /\ ~permit)
        /\ ConsumerAt("arm", "parked")
        /\ waiter' = "armed" /\ UNCHANGED permit
  /\ UNCHANGED <<lines, got>> /\ OnlyConsumer

\* The waker of a fired waiter has the task polled again.
Wake ==
  /\ ConsumerAt("parked", "pop") /\ waiter = "fired"
  /\ UNCHANGED <<lines, notifyVars, got>> /\ OnlyConsumer

\* The timeout around next_line (or the select! of launch_flow) polls it once
\* more, or drops it.
TimerPolls ==
  /\ ConsumerAt("parked", "pop")
  /\ UNCHANGED <<lines, notifyVars, got>> /\ OnlyConsumer

TimerCancels ==
  /\ ConsumerAt("parked", "idle") /\ DropWaiter
  /\ UNCHANGED <<lines, got>> /\ OnlyConsumer

Consumer == NextLine \/ Pop \/ CheckDone \/ Arm \/ Wake

Terminated == consumer = "ended" /\ UNCHANGED vars

Next ==
  \/ \E s \in Stream : Write(s) \/ Inherit(s) \/ Close(s) \/ Reader(s)
  \/ ProcessExit \/ GraceElapses \/ Reaper
  \/ Consumer \/ TimerPolls \/ TimerCancels
  \/ Terminated

Spec == Init /\ [][Next]_vars

(***************************************************************************)
(* Fairness: the runtime runs its tasks and time passes; the consumer asks *)
(* until the end.  Nothing is assumed of the process, of a grandchild, of  *)
(* when a pipe closes, nor that a timer ever polls for us.                 *)
(***************************************************************************)

FairSpec ==
  /\ Spec
  /\ \A s \in Stream : WF_vars(Reader(s))
  /\ WF_vars(Reaper) /\ WF_vars(GraceElapses) /\ WF_vars(Consumer)

(***************************************************************************)
(* Properties.                                                             *)
(***************************************************************************)

\* A thread is about to notify.
NotifyComing ==
  \/ \E s \in Stream : reader[s] \in {"notify", "wake"}
  \/ reaper \in {"notify", "wake"}

\* No wakeup is lost: a consumer that sleeps, its waiter not notified, has
\* nothing to do, or a thread is about to notify it.  What it could do is take a
\* line or see the end; when only the grace period brings the end, the reaper
\* still has its second notification to send.
NoLostWakeup ==
  consumer = "parked" /\ waiter # "fired" =>
    /\ lines # <<>> => NotifyComing
    /\ Done => NotifyComing \/ reaper = "grace"

\* Whoever sees the process done, or the end of its output, can read the exit
\* code ("the exit code is available here", src/flow/launch.rs:267).
CodeBeforeEnd == processDone \/ consumer = "ended" => code

\* The stream of lines that next_line promises.
Promise == INSTANCE LineStream WITH
  sent <- read, exited <- ~running, ended <- consumer = "ended"

\* Lines come once and in order per stream, the end comes after the exit, and
\* it does come.
ImplementsLineStream == Promise!FairSpec

\* next_line "returns `None` exactly once the process has exited and every
\* output line has been delivered" (src/process/child.rs:94-95).  Stated while
\* the grace period is not over, so that both pipes were read to their end.
EndMeansDrained == consumer = "ended" /\ ~graceOver => lines = <<>>

(***************************************************************************)
(* The inductive invariant behind them.                                    *)
(***************************************************************************)

\* A reader is never ahead of the pipe.
ReadsWritten ==
  \A s \in Stream :
    read[s] <= written[s] /\ (reader[s] = "push" => read[s] < written[s])

\* The queue holds, of each stream and in order, what was read and not given.
QueueOrdered ==
  /\ \A s \in Stream : got[s] <= read[s]
  /\ \A i \in 1 .. Len(lines) :
       got[lines[i].stream] < lines[i].n /\ lines[i].n <= read[lines[i].stream]
  /\ \A i, j \in 1 .. Len(lines) :
       i < j /\ lines[i].stream = lines[j].stream => lines[i].n < lines[j].n
  /\ \A s \in Stream : \A k \in 1 .. MaxLine :
       got[s] < k /\ k <= read[s] =>
         \E i \in 1 .. Len(lines) : lines[i].stream = s /\ lines[i].n = k

\* What the reaper has published by the step it is at.
ReaperOrder ==
  /\ reaper # "wait" => code /\ ~running
  /\ processDone <=> reaper \in {"notify", "grace", "wake", "stopped"}
  /\ reaper \in {"wake", "stopped"} => graceOver
  /\ consumer = "ended" => processDone

\* Once it has found nothing to do, the consumer is owed a notification for
\* everything that has come since.
WakeupOwed ==
  /\ waiter = "armed" => ~permit
  /\ consumer = "parked" => waiter # "none"
  /\ consumer \in {"check", "arm", "parked"} /\ lines # <<>> =>
       NotifyComing \/ permit \/ waiter = "fired"
  /\ consumer \in {"arm", "parked"} /\ Done =>
       NotifyComing \/ reaper = "grace" \/ permit \/ waiter = "fired"

IInv == TypeOK /\ ReadsWritten /\ QueueOrdered /\ ReaperOrder /\ WakeupOwed
=============================================================================
