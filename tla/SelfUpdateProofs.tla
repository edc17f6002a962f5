-------------------------- MODULE SelfUpdateProofs --------------------------
(***************************************************************************)
(* Proofs about SelfUpdate, for any tasks and any number of releases:      *)
(* UpdateInv is an invariant; with it the executable can be recovered, and *)
(* an update whose marker has a digest is never run.                       *)
(*                                                                         *)
(* A task never touches the executable nor the phase, and apply_staged     *)
(* runs while there is no task: the step lemmas about the executable treat *)
(* all tasks at once (TaskFrame).                                          *)
(***************************************************************************)
EXTENDS SelfUpdate, TLAPS

\* The names of types, frames and of the places in the code.
USE ReleaseAssumption DEF Release, Version, NoRelease, PhaseIs, TaskAt, OnlyPhase,
    OnlyExe, OnlyTask, exeVars, stageVars, innerVars, taskVars, startVars

(***************************************************************************)
(* Binaries and digests.                                                   *)
(***************************************************************************)

\* No file, a whole binary and a broken one are three different things.
LEMMA BinaryFacts ==
  /\ Absent \in Binary /\ ~Absent.whole
  /\ \A v \in Release : /\ Whole(v) \in Binary /\ Broken(v) \in Binary
                        /\ Whole(v) # Absent /\ Broken(v) # Absent
                        /\ Whole(v).whole
  /\ \A b \in Binary : b # Absent => b.version \in Release
  /\ \A b \in Binary : b.whole => b # Absent /\ b = Whole(b.version)
  /\ \A b \in Binary : b.version \in Version /\ b.whole \in BOOLEAN
<1> USE DEF Binary, Absent, Whole, Broken
<1>1. Absent \in Binary /\ ~Absent.whole
  OBVIOUS
<1>2. \A v \in Release : /\ Whole(v) \in Binary /\ Broken(v) \in Binary
                         /\ Whole(v) # Absent /\ Broken(v) # Absent
                         /\ Whole(v).whole
  OBVIOUS
<1>3. \A b \in Binary : b # Absent => b.version \in Release
  OBVIOUS
<1>4. \A b \in Binary : b.whole => b # Absent /\ b = Whole(b.version)
  OBVIOUS
<1>5. \A b \in Binary : b.version \in Version /\ b.whole \in BOOLEAN
  <2> SUFFICES ASSUME NEW b \in Binary
               PROVE  b.version \in Version /\ b.whole \in BOOLEAN
    OBVIOUS
  <2>1. CASE b = Absent
    BY <2>1
  <2>2. CASE b \in [version : Release, whole : BOOLEAN]
    BY <2>2
  <2> QED
    BY <2>1, <2>2
<1> QED
  BY <1>1, <1>2, <1>3, <1>4, <1>5

\* The digest of an archive is neither that of a binary nor the absent one, so a
\* staged binary never has the digest that stage has written into its marker.
LEMMA DigestFacts ==
  \A v \in Release : /\ ArchiveDigest(v) # NoDigest
                     /\ \A b \in Binary : DigestOf(b) # ArchiveDigest(v)
  BY DEF ArchiveDigest, NoDigest, DigestOf

\* A marker of the type and without a digest is the only one that is accepted.
LEMMA AcceptedHasNoDigest ==
  ASSUME UpdateTypeOK, DigestMatches, file \in Binary
  PROVE  marker.sha256 = NoDigest
  BY DigestFacts DEF UpdateTypeOK, DigestMatches

(***************************************************************************)
(* Initial states.                                                         *)
(***************************************************************************)

\* A build that is in place, with nothing staged, is recoverable.
LEMMA InitUpdateInv == UpdateInit => UpdateInv
<1> SUFFICES ASSUME UpdateInit PROVE UpdateInv
  OBVIOUS
<1>1. 1 \in Release
  OBVIOUS
<1>2. exe = Whole(1) /\ exe # Absent /\ exe.whole /\ exe \in Binary
  BY <1>1, BinaryFacts DEF UpdateInit
<1>3. UpdateTypeOK
  <2>1. {exe, incoming, backup, file} \subseteq Binary
    BY <1>2, BinaryFacts DEF UpdateInit
  <2>2. zip \in [Release -> {"none", "partial", "good", "bad"}]
    BY DEF UpdateInit
  <2>3. marker \in [version : Version,
                    sha256 : {NoDigest} \cup {ArchiveDigest(v) : v \in Release}]
    BY DEF UpdateInit, NoMarker
  <2>4. {legacy, checks} \subseteq BOOLEAN
    BY DEF UpdateInit
  <2>5. running \in Release /\ {outcome, latest, staged, applied} \subseteq Version
    BY DEF UpdateInit
  <2>6. /\ pc = [t \in Task |-> "idle"] /\ job \in [Task -> Version]
        /\ \A t \in Task : pc[t] \in Unassigned
    BY DEF UpdateInit, Unassigned
  <2> QED
    BY <2>1, <2>2, <2>3, <2>4, <2>5, <2>6 DEF UpdateTypeOK, UpdateInit
<1>4. ExeRecoverable /\ OnlyVerified /\ ExePlace /\ NoSwap
  BY <1>2 DEF UpdateInit, ExeRecoverable, OnlyVerified, ExePlace, NoSwap
<1> QED
  BY <1>3, <1>4 DEF UpdateInv

(***************************************************************************)
(* Steps.                                                                  *)
(***************************************************************************)

\* What a task leaves alone.
LEMMA TaskFrame ==
  ASSUME NEW t \in Task, TaskStep(t)
  PROVE  /\ UNCHANGED <<exe, incoming, backup, legacy, phase, running, outcome,
                        checks, applied>>
         /\ phase = "up"
         /\ marker' \in {marker, NoMarker,
                         [version |-> job[t], sha256 |-> ArchiveDigest(job[t])]}
         /\ marker' \notin {marker, NoMarker} => pc[t] = "write"
  BY DEF TaskStep, CheckFeed, Download, Fetched, Known, NoDigestPublished,
     Downloading, Downloaded, Verified, NotVerified, Clear, ExtractBegins,
     ExtractEnds, Locate, Mark, WriteMarker, Sweep, Settle

\* A task that works on a release has one to work on.
LEMMA JobIsRelease ==
  ASSUME UpdateTypeOK, NEW t \in Task, pc[t] \notin Unassigned
  PROVE  job[t] \in Release
  BY DEF UpdateTypeOK

\* The types of what a task writes.
LEMMA TypeTask ==
  ASSUME UpdateTypeOK, NEW t \in Task, TaskStep(t)
  PROVE  UpdateTypeOK'
<1> DEFINE Steps == {"idle", "check", "fetch", "known", "download", "verify",
                     "clear", "extract", "extracting", "locate", "mark",
                     "write", "sweep", "settle"}
<1>1. /\ pc \in [Task -> Steps] /\ job \in [Task -> Version]
      /\ zip \in [Release -> {"none", "partial", "good", "bad"}]
      /\ latest \in Version /\ staged \in Version /\ running \in Release
      /\ file \in Binary
  BY DEF UpdateTypeOK
<1>2. pc[t] \notin Unassigned => job[t] \in Release
  BY JobIsRelease
<1>3. /\ pc' \in [Task -> Steps] /\ job' \in [Task -> Version]
      /\ \A u \in Task : pc'[u] \notin Unassigned => job'[u] # NoRelease
  <2>1. CASE CheckFeed(t)
    BY <2>1, <1>1, <1>2 DEF CheckFeed, UpdateTypeOK, Unassigned
  <2>2. CASE Download(t)
    BY <2>2, <1>1, <1>2 DEF Download, WorkOn, UpdateTypeOK, Unassigned
  <2>3. CASE Fetched(t)
    BY <2>3, <1>1, <1>2 DEF Fetched, UpdateTypeOK, Unassigned
  <2>4. CASE Known(t)
    BY <2>4, <1>1, <1>2 DEF Known, WorkOn, UpdateTypeOK, Unassigned
  <2>5. CASE NoDigestPublished(t)
    BY <2>5, <1>1, <1>2 DEF NoDigestPublished, UpdateTypeOK, Unassigned
  <2>6. CASE Downloading(t)
    BY <2>6, <1>1, <1>2 DEF Downloading, UpdateTypeOK, Unassigned
  <2>7. CASE Downloaded(t)
    BY <2>7, <1>1, <1>2 DEF Downloaded, UpdateTypeOK, Unassigned
  <2>8. CASE Verified(t)
    BY <2>8, <1>1, <1>2 DEF Verified, UpdateTypeOK, Unassigned
  <2>9. CASE NotVerified(t)
    BY <2>9, <1>1, <1>2 DEF NotVerified, UpdateTypeOK, Unassigned
  <2>10. CASE Clear(t)
    BY <2>10, <1>1, <1>2 DEF Clear, UpdateTypeOK, Unassigned
  <2>11. CASE ExtractBegins(t)
    BY <2>11, <1>1, <1>2 DEF ExtractBegins, UpdateTypeOK, Unassigned
  <2>12. CASE ExtractEnds(t)
    BY <2>12, <1>1, <1>2 DEF ExtractEnds, UpdateTypeOK, Unassigned
  <2>13. CASE Locate(t)
    BY <2>13, <1>1, <1>2 DEF Locate, UpdateTypeOK, Unassigned
  <2>14. CASE Mark(t)
    BY <2>14, <1>1, <1>2 DEF Mark, UpdateTypeOK, Unassigned
  <2>15. CASE WriteMarker(t)
    BY <2>15, <1>1, <1>2 DEF WriteMarker, UpdateTypeOK, Unassigned
  <2>16. CASE Sweep(t)
    BY <2>16, <1>1, <1>2 DEF Sweep, UpdateTypeOK, Unassigned
  <2>17. CASE Settle(t)
    BY <2>17, <1>1, <1>2 DEF Settle, UpdateTypeOK, Unassigned
  <2> QED
    BY <2>1, <2>2, <2>3, <2>4, <2>5, <2>6, <2>7, <2>8, <2>9, <2>10, <2>11, <2>12,
       <2>13, <2>14, <2>15, <2>16, <2>17 DEF TaskStep
<1>4. zip' \in [Release -> {"none", "partial", "good", "bad"}]
  BY <1>1 DEF TaskStep, CheckFeed, Download, Fetched, Known, NoDigestPublished,
     Downloading, Downloaded, Verified, NotVerified, Clear, ExtractBegins,
     ExtractEnds, Locate, Mark, WriteMarker, Sweep, Settle, Set
<1>5. file' \in Binary
  <2>1. CASE ExtractBegins(t)
    BY <2>1, <1>1, <1>2, BinaryFacts DEF ExtractBegins, Unassigned
  <2>2. CASE ExtractEnds(t)
    BY <2>2, <1>1, <1>2, BinaryFacts DEF ExtractEnds, Unassigned
  <2>3. CASE ~ExtractBegins(t) /\ ~ExtractEnds(t)
    BY <2>3, <1>1, BinaryFacts DEF TaskStep, CheckFeed, Download, Fetched, Known,
       NoDigestPublished, Downloading, Downloaded, Verified, NotVerified, Clear,
       RemoveStaged, Locate, Mark, WriteMarker, Sweep, Settle
  <2> QED
    BY <2>1, <2>2, <2>3
<1>6. latest' \in Version /\ staged' \in Version
  BY <1>1 DEF TaskStep, CheckFeed, Download, Fetched, Known, NoDigestPublished,
     Downloading, Downloaded, Verified, NotVerified, Clear, ExtractBegins,
     ExtractEnds, Locate, Mark, WriteMarker, Sweep, Settle
<1>7. marker' \in [version : Version,
                   sha256 : {NoDigest} \cup {ArchiveDigest(v) : v \in Release}]
  <2>1. marker \in [version : Version,
                    sha256 : {NoDigest} \cup {ArchiveDigest(v) : v \in Release}]
    BY DEF UpdateTypeOK
  <2>2. pc[t] = "write" => job[t] \in Release
    BY <1>2 DEF Unassigned
  <2>3. CASE marker' \in {marker, NoMarker}
    BY <2>1, <2>3 DEF NoMarker
  <2>4. CASE marker' \notin {marker, NoMarker}
    BY <2>2, <2>4, TaskFrame
  <2> QED
    BY <2>3, <2>4
<1> QED
  BY <1>3, <1>4, <1>5, <1>6, <1>7, TaskFrame DEF UpdateTypeOK

\* The types of what the start of the launcher writes.
LEMMA TypeApply ==
  ASSUME UpdateTypeOK, Apply
  PROVE  UpdateTypeOK'
<1>1. NoMarker \in [version : Version,
                    sha256 : {NoDigest} \cup {ArchiveDigest(v) : v \in Release}]
  BY DEF NoMarker
<1>2. file # Absent => Broken(file.version) \in Binary
  BY BinaryFacts DEF UpdateTypeOK
<1>3. file = Absent => Broken(file.version) = Absent
  BY DEF Broken, Absent
<1>4. Broken(file.version) \in Binary
  BY <1>2, <1>3, BinaryFacts
<1>5. UpdateTypeOK'
  <2>1. CASE NothingStaged
    BY <2>1 DEF NothingStaged, UpdateTypeOK
  <2>2. CASE LeftAlone
    BY <2>2 DEF LeftAlone, UpdateTypeOK
  <2>3. CASE Superseded
    BY <2>3 DEF Superseded, UpdateTypeOK
  <2>4. CASE StagedMissing
    BY <2>4 DEF StagedMissing, UpdateTypeOK
  <2>5. CASE DigestDiffers
    BY <2>5 DEF DigestDiffers, UpdateTypeOK
  <2>6. CASE DigestAgrees
    BY <2>6 DEF DigestAgrees, UpdateTypeOK
  <2>7. CASE SwapRefuses
    BY <2>7 DEF SwapRefuses, UpdateTypeOK
  <2>8. CASE CopyBegins
    BY <2>8, <1>4 DEF CopyBegins, UpdateTypeOK
  <2>9. CASE CopyEnds
    BY <2>9, BinaryFacts DEF CopyEnds, UpdateTypeOK
  <2>10. CASE RenameAside
    BY <2>10, BinaryFacts DEF RenameAside, UpdateTypeOK
  <2>11. CASE RenameInPlace
    BY <2>11, BinaryFacts DEF RenameInPlace, UpdateTypeOK
  <2>12. CASE Rollback
    BY <2>12, BinaryFacts DEF Rollback, UpdateTypeOK
  <2>13. CASE Drop
    BY <2>13, BinaryFacts DEF Drop, RemoveStaged, UpdateTypeOK
  <2>14. CASE Unmark
    BY <2>14, <1>1 DEF Unmark, UpdateTypeOK
  <2>15. CASE Cleanup
    BY <2>15, BinaryFacts DEF Cleanup, UpdateTypeOK
  <2> QED
    BY <2>1, <2>2, <2>3, <2>4, <2>5, <2>6, <2>7, <2>8, <2>9, <2>10, <2>11, <2>12,
       <2>13, <2>14, <2>15 DEF Apply
<1> QED
  BY <1>5

\* A task works on releases that were published; every step keeps the types.
LEMMA TypeStep ==
  ASSUME UpdateTypeOK, [UpdateNext]_updateVars
  PROVE  UpdateTypeOK'
<1>1. CASE Start
  BY <1>1, BinaryFacts DEF Start, UpdateTypeOK
<1>2. CASE Stop
  <2>1. /\ pc' = [t \in Task |-> "idle"] /\ job' = [t \in Task |-> NoRelease]
        /\ \A t \in Task : pc'[t] \in Unassigned
    BY <1>2 DEF Stop, ForgetInner, Unassigned
  <2>2. /\ pc' \in [Task -> {"idle", "check", "fetch", "known", "download",
                              "verify", "clear", "extract", "extracting",
                              "locate", "mark", "write", "sweep", "settle"}]
        /\ job' \in [Task -> Version]
    BY <2>1
  <2>3. {legacy, checks}' \subseteq BOOLEAN
    BY <1>2 DEF Stop, ForgetInner, UpdateTypeOK
  <2>4. {outcome, latest, staged, applied}' \subseteq Version
    BY <1>2 DEF Stop, ForgetInner
  <2>5. UNCHANGED <<exe, incoming, backup, zip, file, marker, running>>
    BY <1>2 DEF Stop
  <2> QED
    BY <1>2, <2>1, <2>2, <2>3, <2>4, <2>5 DEF Stop, UpdateTypeOK
<1>3. CASE Reinstall
  BY <1>3, BinaryFacts DEF Reinstall, UpdateTypeOK
<1>4. CASE Apply
  BY <1>4, TypeApply
<1>5. CASE Configure
  BY <1>5 DEF Configure, UpdateTypeOK
<1>6. ASSUME NEW t \in Task, TaskStep(t) PROVE UpdateTypeOK'
  BY <1>6, TypeTask
<1>7. CASE UNCHANGED updateVars
  BY <1>7 DEF updateVars, UpdateTypeOK
<1> QED
  BY <1>1, <1>2, <1>3, <1>4, <1>5, <1>6, <1>7 DEF UpdateNext

\* The build that runs is renamed aside before anything else is put in its
\* place, and only a start that has put a binary in its place cleans up.
LEMMA ExeStep ==
  ASSUME UpdateTypeOK, ExeRecoverable, ExePlace, [UpdateNext]_updateVars
  PROVE  ExeRecoverable' /\ ExePlace'
<1> USE DEF ExeRecoverable, ExePlace
<1>1. CASE Start
  BY <1>1, BinaryFacts DEF Start, UpdateTypeOK
<1>2. CASE Stop
  BY <1>2 DEF Stop
<1>3. CASE Reinstall
  BY <1>3, BinaryFacts DEF Reinstall
<1>4. CASE Apply
  <2>a. Whole(running) # Absent
    BY BinaryFacts DEF UpdateTypeOK
  <2>1. CASE NothingStaged
    BY <2>1, <2>a DEF NothingStaged
  <2>2. CASE LeftAlone
    BY <2>2, <2>a DEF LeftAlone
  <2>3. CASE Superseded
    BY <2>3, <2>a DEF Superseded
  <2>4. CASE StagedMissing
    BY <2>4, <2>a DEF StagedMissing, Newer
  <2>5. CASE DigestDiffers
    BY <2>5, <2>a DEF DigestDiffers, Newer
  <2>6. CASE DigestAgrees
    BY <2>6, <2>a DEF DigestAgrees, Newer
  <2>7. CASE SwapRefuses
    BY <2>7, <2>a DEF SwapRefuses
  <2>8. CASE CopyBegins
    BY <2>8, <2>a, BinaryFacts DEF CopyBegins, UpdateTypeOK
  <2>9. CASE CopyEnds
    BY <2>9, <2>a DEF CopyEnds
  <2>10. CASE RenameAside
    BY <2>10, <2>a DEF RenameAside
  <2>11. CASE RenameInPlace
    BY <2>11, <2>a DEF RenameInPlace
  <2>12. CASE Rollback
    BY <2>12, <2>a DEF Rollback
  <2>13. CASE Drop
    BY <2>13, <2>a DEF Drop, RemoveStaged
  <2>14. CASE Unmark
    BY <2>14, <2>a DEF Unmark
  <2>15. CASE Cleanup
    BY <2>15, <2>a DEF Cleanup
  <2> QED
    BY <1>4, <2>1, <2>2, <2>3, <2>4, <2>5, <2>6, <2>7, <2>8, <2>9, <2>10, <2>11, <2>12,
       <2>13, <2>14, <2>15 DEF Apply
<1>5. CASE Configure
  BY <1>5 DEF Configure
<1>6. ASSUME NEW t \in Task, TaskStep(t) PROVE ExeRecoverable' /\ ExePlace'
  BY <1>6, TaskFrame
<1>7. CASE UNCHANGED updateVars
  BY <1>7 DEF updateVars
<1> QED
  BY <1>1, <1>2, <1>3, <1>4, <1>5, <1>6, <1>7 DEF UpdateNext

\* A marker written by a task has a digest, and no binary has that digest.
LEMMA VerifiedStep ==
  ASSUME UpdateTypeOK, NoSwap, OnlyVerified, [UpdateNext]_updateVars
  PROVE  NoSwap' /\ OnlyVerified'
<1> USE DEF NoSwap, OnlyVerified
<1>1. CASE Start
  BY <1>1 DEF Start
<1>2. CASE Stop
  BY <1>2 DEF Stop
<1>3. CASE Reinstall
  BY <1>3, BinaryFacts DEF Reinstall
<1>4. CASE Apply
  <2>1. CASE DigestAgrees
    <3>1. marker.sha256 = NoDigest
      BY <2>1, AcceptedHasNoDigest DEF DigestAgrees, UpdateTypeOK
    <3> QED
      BY <2>1, <3>1 DEF DigestAgrees, Newer
  <2>2. CASE ~DigestAgrees
    BY <1>4, <2>2 DEF Apply, NothingStaged, LeftAlone, Superseded, StagedMissing,
       DigestDiffers, SwapRefuses, CopyBegins, CopyEnds, RenameAside,
       RenameInPlace, Rollback, Drop, Unmark, Cleanup
  <2> QED
    BY <2>1, <2>2
<1>5. CASE Configure
  BY <1>5 DEF Configure
<1>6. ASSUME NEW t \in Task, TaskStep(t) PROVE NoSwap' /\ OnlyVerified'
  <2>1. pc[t] = "write" => job[t] \in Release
    BY JobIsRelease DEF Unassigned
  <2>2. marker' # NoMarker /\ marker' # marker => marker'.sha256 # NoDigest
    BY <1>6, <2>1, TaskFrame, DigestFacts
  <2> QED
    BY <1>6, <2>2, TaskFrame
<1>7. CASE UNCHANGED updateVars
  BY <1>7 DEF updateVars
<1> QED
  BY <1>1, <1>2, <1>3, <1>4, <1>5, <1>6, <1>7 DEF UpdateNext

\* No step of a task, a start or a kill breaks UpdateInv.
LEMMA StepUpdateInv == UpdateInv /\ [UpdateNext]_updateVars => UpdateInv'
  BY TypeStep, ExeStep, VerifiedStep DEF UpdateInv

(***************************************************************************)
(* Theorems.                                                               *)
(***************************************************************************)

\* The inductive invariant holds in every reachable state, for any tasks and any
\* number of releases.
THEOREM Invariance == UpdateSpec => []UpdateInv
  BY InitUpdateInv, StepUpdateInv, PTL DEF UpdateSpec

\* Every variable keeps to its type, and no task works on a release it does not
\* know.
THEOREM TypeCorrect == UpdateSpec => []UpdateTypeOK
<1>1. UpdateInv => UpdateTypeOK
  BY DEF UpdateInv
<1> QED
  BY <1>1, Invariance, PTL

\* Killed at any step of a swap, or after any failed rename, the launcher leaves
\* the build that ran in place or under its .old name.
THEOREM ExeIsRecoverable == UpdateSpec => []ExeRecoverable
<1>1. UpdateInv => ExeRecoverable
  BY DEF UpdateInv
<1> QED
  BY <1>1, Invariance, PTL

\* Only the steps of a swap and of its rollback change the executable while a launcher
\* runs, and they are carried out for a marker without a digest.
LEMMA SwapStep ==
  ASSUME UpdateInv, [UpdateNext]_updateVars, phase # "down", exe' # exe
  PROVE  marker.sha256 = NoDigest
<1>1. phase \in {"copied", "aside", "rollback"}
  <2>1. CASE Apply
    BY <2>1 DEF Apply, NothingStaged, LeftAlone, Superseded, StagedMissing,
       DigestDiffers, DigestAgrees, SwapRefuses, CopyBegins, CopyEnds, RenameAside,
       RenameInPlace, Rollback, Drop, Unmark, Cleanup
  <2>2. CASE \E t \in Task : TaskStep(t)
    BY <2>2, TaskFrame
  <2>3. CASE Start \/ Stop \/ Reinstall \/ Configure \/ UNCHANGED updateVars
    BY <2>3 DEF Start, Stop, Reinstall, Configure, updateVars
  <2> QED
    BY <2>1, <2>2, <2>3 DEF UpdateNext
<1> QED
  BY <1>1 DEF UpdateInv, NoSwap

\* No update whose marker has a digest is ever run, for any tasks and any number of
\* releases: no start changes the executable while there is such a marker.
THEOREM DigestedIsRefused == UpdateSpec => DigestedNeverRuns
<1>1. UpdateInv /\ [UpdateNext]_updateVars =>
        [phase # "down" /\ marker.sha256 # NoDigest => exe' = exe]_updateVars
  BY SwapStep
<1> QED
  BY <1>1, Invariance, PTL DEF UpdateSpec, DigestedNeverRuns
=============================================================================
