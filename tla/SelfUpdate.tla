----------------------------- MODULE SelfUpdate -----------------------------
(***************************************************************************)
(* The launcher's self-update (src/self_update.rs): tasks of a running     *)
(* launcher check, download, verify and stage a release, sharing one       *)
(* archive per release, one staged directory and one marker; the next      *)
(* start applies what is staged by swapping the executable.  The launcher  *)
(* may be killed at any step, and what it left on disk is found by the     *)
(* next start.                                                             *)
(***************************************************************************)
EXTENDS Naturals

CONSTANTS
  Task,         \* tasks that may run check_once or download_once at a time
  MaxRelease,   \* bound: releases are numbered from 1, the first installed
  HashMayFail   \* BOOLEAN: the hash tool may time out

ASSUME ReleaseAssumption == MaxRelease \in Nat \ {0}
ASSUME HashAssumption == HashMayFail \in BOOLEAN

Release == 1 .. MaxRelease
Version == 0 .. MaxRelease
NoRelease == 0

\* An executable: the build it belongs to, and whether its bytes are exactly
\* the published ones (not cut short, not taken from another archive).
Absent == [version |-> NoRelease, whole |-> FALSE]
Binary == {Absent} \cup [version : Release, whole : BOOLEAN]
Whole(v) == [version |-> v, whole |-> TRUE]
Broken(v) == [version |-> v, whole |-> FALSE]

\* What sha256_of returns for a file, and the digest a release publishes, which
\* is that of its archive.
DigestOf(file) == <<"binary", file.version, file.whole>>
ArchiveDigest(v) == <<"archive", v, TRUE>>
NoDigest == <<"none", NoRelease, FALSE>>
NoMarker == [version |-> NoRelease, sha256 |-> NoDigest]

VARIABLES
  \* The disk: the executable, its .new and .old siblings, the archive of each
  \* release, the binary under staged/, staged.json, and whether the disk began
  \* with a marker without a digest.
  exe, incoming, backup, zip, file, marker, legacy,
  \* The launcher: what it is doing, the build it runs, and the release that
  \* the start being carried out has swapped in.
  phase, running, outcome,
  \* Inner.
  checks,    \* the mode in ctx is not off
  latest, staged, applied,
  \* The step each task is at, and the release it works on.
  pc, job

exeVars    == <<exe, incoming, backup>>
stageVars  == <<zip, file, marker>>
innerVars  == <<checks, latest, staged, applied>>
taskVars   == <<pc, job>>
startVars  == <<phase, running, outcome>>
updateVars == <<exeVars, stageVars, legacy, startVars, innerVars, taskVars>>

\* A task at one of these steps has no release to work on yet.
Unassigned == {"idle", "check", "fetch", "known"}

UpdateTypeOK ==
  /\ {exe, incoming, backup, file} \subseteq Binary
  /\ zip \in [Release -> {"none", "partial", "good", "bad"}]
  /\ marker \in [version : Version,
                 sha256 : {NoDigest} \cup {ArchiveDigest(v) : v \in Release}]
  /\ {legacy, checks} \subseteq BOOLEAN
  /\ phase \in {"down", "apply", "swap", "copying", "copied", "aside",
                "rollback", "drop", "unmark", "cleanup", "up"}
  /\ running \in Release
  /\ {outcome, latest, staged, applied} \subseteq Version
  /\ pc \in [Task -> {"idle", "check", "fetch", "known", "download", "verify",
                      "clear", "extract", "extracting", "locate", "mark",
                      "write", "sweep", "settle"}]
  /\ job \in [Task -> Version]
  /\ \A t \in Task : pc[t] \notin Unassigned => job[t] # NoRelease

\* Nothing is staged, or an earlier build left a marker without a digest: it
\* staged without one (docs/2026-09-22-dshl-audit.md, M3), and this build still
\* reads what it wrote.
UpdateInit ==
  /\ exe = Whole(1) /\ incoming = Absent /\ backup = Absent
  /\ zip = [v \in Release |-> "none"]
  /\ \/ legacy = FALSE /\ marker = NoMarker /\ file = Absent
     \/ \E v \in Release :
          /\ legacy = TRUE /\ file = Whole(v)
          /\ marker = [version |-> v, sha256 |-> NoDigest]
  /\ phase = "down" /\ running = 1 /\ outcome = NoRelease
  /\ checks = FALSE /\ latest = NoRelease
  /\ staged = NoRelease /\ applied = NoRelease
  /\ pc = [t \in Task |-> "idle"] /\ job = [t \in Task |-> NoRelease]

(***************************************************************************)
(* The process: it starts if its executable can, and may end at any step.  *)
(***************************************************************************)

ForgetInner ==
  /\ checks' = FALSE /\ latest' = NoRelease
  /\ staged' = NoRelease /\ applied' = NoRelease
  /\ pc' = [t \in Task |-> "idle"] /\ job' = [t \in Task |-> NoRelease]

Start ==
  /\ phase = "down" /\ exe.whole
  /\ phase' = "apply" /\ running' = exe.version
  /\ UNCHANGED <<exeVars, stageVars, legacy, outcome, innerVars, taskVars>>

Stop ==
  /\ phase # "down" /\ phase' = "down" /\ outcome' = NoRelease /\ ForgetInner
  /\ UNCHANGED <<exeVars, stageVars, legacy, running>>

\* The user installs a release by hand (the manual route).
Reinstall ==
  /\ phase = "down"
  /\ \E v \in Release : exe' = Whole(v)
  /\ UNCHANGED <<incoming, backup, stageVars, legacy, startVars, innerVars,
                 taskVars>>

(***************************************************************************)
(* apply_staged, before any task exists.  fail_apply only records a text,  *)
(* so each of its callers simply goes on to "up".                          *)
(***************************************************************************)

PhaseIs(from, to) == phase = from /\ phase' = to

OnlyPhase == UNCHANGED <<exeVars, stageVars, legacy, running, outcome,
                         innerVars, taskVars>>

\* No marker (a half-written one does not parse): tidy up.
NothingStaged ==
  /\ PhaseIs("apply", "cleanup") /\ marker = NoMarker /\ OnlyPhase

\* Switched off by the configuration, a .app bundle, a build tree, or no path.
LeftAlone ==
  /\ PhaseIs("apply", "up") /\ marker # NoMarker /\ OnlyPhase

Superseded ==
  /\ PhaseIs("apply", "drop") /\ marker # NoMarker
  /\ marker.version <= running
  /\ OnlyPhase

Newer == marker # NoMarker /\ marker.version > running

StagedMissing ==
  /\ PhaseIs("apply", "up") /\ Newer /\ file = Absent /\ OnlyPhase

\* No expected digest, or the same.
DigestMatches ==
  marker.sha256 = NoDigest \/ DigestOf(file) = marker.sha256

DigestDiffers ==
  /\ PhaseIs("apply", "drop") /\ Newer /\ file # Absent
  /\ ~DigestMatches \/ (HashMayFail /\ marker.sha256 # NoDigest)
  /\ OnlyPhase

\* Fault: the staged file is not verified again.
DigestUnchecked ==
  PhaseIs("apply", "swap") /\ Newer /\ file # Absent /\ OnlyPhase

DigestAgrees ==
  /\ PhaseIs("apply", "swap") /\ Newer /\ file # Absent
  /\ DigestMatches
  /\ OnlyPhase

(***************************************************************************)
(* swap_binary.                                                            *)
(***************************************************************************)

OnlyExe == UNCHANGED <<stageVars, legacy, running, innerVars, taskVars>>

\* The sanity check refuses an empty file.
SwapRefuses ==
  PhaseIs("swap", "up") /\ ~file.whole /\ OnlyPhase

CopyBegins ==
  /\ PhaseIs("swap", "copying")
  /\ incoming' = Broken(file.version)
  /\ UNCHANGED <<exe, backup, outcome>> /\ OnlyExe

CopyEnds ==
  /\ \/ PhaseIs("copying", "copied") /\ incoming' = file
     \/ PhaseIs("copying", "up") /\ UNCHANGED incoming
  /\ UNCHANGED <<exe, backup, outcome>> /\ OnlyExe

\* Fault: the executable is deleted, not renamed aside.
DeleteExe ==
  /\ PhaseIs("copied", "aside")
  /\ exe' = Absent /\ UNCHANGED <<incoming, backup, outcome>> /\ OnlyExe

RenameAside ==
  /\ \/ /\ PhaseIs("copied", "aside")
        /\ backup' = exe /\ exe' = Absent /\ UNCHANGED incoming
     \/ /\ PhaseIs("copied", "up")
        /\ incoming' = Absent /\ UNCHANGED <<exe, backup>>
  /\ UNCHANGED outcome /\ OnlyExe

RenameInPlace ==
  /\ \/ /\ PhaseIs("aside", "drop") /\ outcome' = marker.version
        /\ exe' = incoming /\ incoming' = Absent
     \/ PhaseIs("aside", "rollback") /\ UNCHANGED <<exe, incoming, outcome>>
  /\ UNCHANGED backup /\ OnlyExe

\* Both calls of the rollback ignore their result.
Rollback ==
  /\ PhaseIs("rollback", "up")
  /\ \/ exe' = backup /\ backup' = Absent
     \/ UNCHANGED <<exe, backup>>
  /\ incoming' \in {incoming, Absent}
  /\ UNCHANGED outcome /\ OnlyExe

(***************************************************************************)
(* clear_staged and cleanup_old_binaries: every removal may fail.          *)
(***************************************************************************)

\* The directory cannot be removed in full, or its binary is gone.
RemoveStaged == file' \in {file, Absent}

Drop ==
  /\ PhaseIs("drop", "unmark") /\ RemoveStaged
  /\ UNCHANGED <<exeVars, zip, marker, legacy, running, outcome, innerVars,
                 taskVars>>

Unmark ==
  /\ PhaseIs("unmark", IF outcome = NoRelease THEN "up" ELSE "cleanup")
  /\ marker' \in {marker, NoMarker}
  /\ UNCHANGED <<exeVars, zip, file, legacy, running, outcome, innerVars,
                 taskVars>>

\* Also the last step of a start that swapped the executable.
Cleanup ==
  /\ PhaseIs("cleanup", "up") /\ outcome' = NoRelease
  /\ backup' \in {backup, Absent} /\ incoming' \in {incoming, Absent}
  /\ applied' = IF outcome = NoRelease THEN applied ELSE outcome
  /\ UNCHANGED <<exe, stageVars, legacy, running, checks, latest, staged,
                 taskVars>>

Apply ==
  \/ NothingStaged \/ LeftAlone \/ Superseded \/ StagedMissing
  \/ DigestDiffers \/ DigestAgrees
  \/ SwapRefuses \/ CopyBegins \/ CopyEnds \/ RenameAside \/ RenameInPlace
  \/ Rollback \/ Drop \/ Unmark \/ Cleanup

(***************************************************************************)
(* The tasks: the timer, the button, the control plane.                    *)
(***************************************************************************)

\* configure, on every launch of dsh.
Configure ==
  /\ phase = "up" /\ checks' \in BOOLEAN
  /\ UNCHANGED <<exeVars, stageVars, legacy, startVars, latest, staged,
                 applied, taskVars>>

TaskAt(t, from, to) == phase = "up" /\ pc[t] = from /\ pc' = [pc EXCEPT ![t] = to]

OnlyTask == UNCHANGED <<exeVars, legacy, startVars, checks, applied>>

CheckFeed(t) ==
  /\ TaskAt(t, "idle", "check") /\ checks
  /\ UNCHANGED <<stageVars, latest, staged, job>> /\ OnlyTask

\* Fault: the task goes on although no release is known.
WorkOnAny(t, v) ==
  pc' = [pc EXCEPT ![t] = "download"] /\ job' = [job EXCEPT ![t] = v]

\* Where a task that knows of release v goes on with stage.
WorkOn(t, v) ==
  IF v = NoRelease THEN pc' = [pc EXCEPT ![t] = "idle"] /\ UNCHANGED job
  ELSE pc' = [pc EXCEPT ![t] = "download"] /\ job' = [job EXCEPT ![t] = v]

\* download_once; the button asks for it only when there is something new
\* (available, not staged, not applied), the timer and the control plane always.
Download(t) ==
  /\ phase = "up" /\ pc[t] = "idle"
  /\ \/ latest # NoRelease /\ WorkOn(t, latest)
     \/ /\ latest = NoRelease /\ UNCHANGED job
        /\ pc' = [pc EXCEPT ![t] = IF checks THEN "fetch" ELSE "idle"]
  /\ UNCHANGED <<stageVars, latest, staged>> /\ OnlyTask

\* check_once: the feed cannot be reached, or has a release, newer or not.
Fetched(t) ==
  /\ \/ TaskAt(t, "check", "idle")
     \/ TaskAt(t, "fetch", "known")
  /\ \/ latest' = NoRelease
     \/ \E v \in Release : v > running /\ latest' = v
  /\ UNCHANGED <<stageVars, staged, job>> /\ OnlyTask

Known(t) ==
  /\ phase = "up" /\ pc[t] = "known" /\ WorkOn(t, latest)
  /\ UNCHANGED <<stageVars, latest, staged>> /\ OnlyTask

Set(t, state) == zip' = [zip EXCEPT ![job[t]] = state]

\* The feed publishes no digest for the release: refused before the download.
NoDigestPublished(t) ==
  /\ TaskAt(t, "download", "idle")
  /\ UNCHANGED <<stageVars, latest, staged, job>> /\ OnlyTask

\* http_download: curl has written some of the archive, or fails and drops it
\* and tries again, or gives up.
Downloading(t) ==
  /\ \/ TaskAt(t, "download", "download") /\ Set(t, "partial")
     \/ TaskAt(t, "download", "idle") /\ Set(t, "none")
  /\ UNCHANGED <<file, marker, latest, staged, job>> /\ OnlyTask

Downloaded(t) ==
  /\ TaskAt(t, "download", "verify")
  /\ Set(t, "good") \/ Set(t, "bad")
  /\ UNCHANGED <<file, marker, latest, staged, job>> /\ OnlyTask

Verified(t) ==
  /\ TaskAt(t, "verify", "clear") /\ zip[job[t]] = "good"
  /\ UNCHANGED <<stageVars, latest, staged, job>> /\ OnlyTask

\* The archive differs and is dropped; or there is none, or no digest of it.
NotVerified(t) ==
  /\ TaskAt(t, "verify", "idle")
  /\ \/ zip[job[t]] \in {"partial", "bad"} /\ Set(t, "none")
     \/ (zip[job[t]] = "none" \/ HashMayFail) /\ UNCHANGED zip
  /\ UNCHANGED <<file, marker, latest, staged, job>> /\ OnlyTask

Clear(t) ==
  /\ TaskAt(t, "clear", "extract") /\ RemoveStaged
  /\ UNCHANGED <<zip, marker, latest, staged, job>> /\ OnlyTask

\* Whatever the archive holds by now.
ExtractBegins(t) ==
  /\ \/ /\ TaskAt(t, "extract", "extracting") /\ zip[job[t]] # "none"
        /\ file' = Broken(job[t])
     \/ TaskAt(t, "extract", "idle") /\ UNCHANGED file
  /\ UNCHANGED <<zip, marker, latest, staged, job>> /\ OnlyTask

ExtractEnds(t) ==
  /\ \/ /\ TaskAt(t, "extracting", "locate")
        /\ file' = IF zip[job[t]] = "good" THEN Whole(job[t]) ELSE Broken(job[t])
     \/ TaskAt(t, "extracting", "idle") /\ UNCHANGED file
  /\ UNCHANGED <<zip, marker, latest, staged, job>> /\ OnlyTask

Locate(t) ==
  /\ \/ TaskAt(t, "locate", "mark") /\ file # Absent
     \/ TaskAt(t, "locate", "idle") /\ file = Absent
  /\ UNCHANGED <<stageVars, latest, staged, job>> /\ OnlyTask

\* std::fs::write truncates the marker before it writes it.
Mark(t) ==
  /\ TaskAt(t, "mark", "write") /\ marker' = NoMarker
  /\ UNCHANGED <<zip, file, latest, staged, job>> /\ OnlyTask

WriteMarker(t) ==
  /\ \/ /\ TaskAt(t, "write", "sweep")
        /\ marker' = [version |-> job[t], sha256 |-> ArchiveDigest(job[t])]
     \/ TaskAt(t, "write", "idle") /\ UNCHANGED marker
  /\ UNCHANGED <<zip, file, latest, staged, job>> /\ OnlyTask

Sweep(t) ==
  /\ TaskAt(t, "sweep", "settle") /\ Set(t, "none")
  /\ UNCHANGED <<file, marker, latest, staged, job>> /\ OnlyTask

Settle(t) ==
  /\ TaskAt(t, "settle", "idle") /\ staged' = job[t]
  /\ UNCHANGED <<stageVars, latest, job>> /\ OnlyTask

TaskStep(t) ==
  \/ CheckFeed(t) \/ Download(t) \/ Fetched(t) \/ Known(t)
  \/ NoDigestPublished(t) \/ Downloading(t) \/ Downloaded(t)
  \/ Verified(t) \/ NotVerified(t) \/ Clear(t)
  \/ ExtractBegins(t) \/ ExtractEnds(t) \/ Locate(t)
  \/ Mark(t) \/ WriteMarker(t) \/ Sweep(t) \/ Settle(t)

UpdateNext ==
  \/ Start \/ Stop \/ Reinstall \/ Apply \/ Configure
  \/ \E t \in Task : TaskStep(t)

UpdateSpec == UpdateInit /\ [][UpdateNext]_updateVars

(***************************************************************************)
(* Properties.                                                             *)
(***************************************************************************)

\* "A failed update must never leave the install without its executable"
\* (src/self_update.rs:392-393): wherever the launcher is killed and whichever
\* rename fails, the build that ran is still there, whole, under one name.
ExeRecoverable == exe = Absent => backup = Whole(running)

\* A binary that is cut short, or taken from an archive nobody verified (two
\* downloads share the archive and the directory), never becomes the executable,
\* unless the marker that asked for it came without a digest.
OnlyVerified == ~legacy => exe.whole

\* What the digest in the marker comes to: it is the archive's, no binary has it, and
\* the start of a launcher refuses every update that has one.  No start puts anything
\* in the place of the executable but an update an earlier build staged without.
DigestedNeverRuns ==
  [][phase # "down" /\ marker.sha256 # NoDigest => exe' = exe]_updateVars

\* A staged update takes effect at the next start (README.md:319): what
\* apply_staged refuses as changed is not the very binary that was staged.
StagedIsApplied ==
  [][phase = "apply" /\ phase' = "drop" /\ marker.version > running
       => file # Whole(marker.version)]_updateVars

(***************************************************************************)
(* The inductive invariant behind the invariants and DigestedNeverRuns.    *)
(***************************************************************************)

\* Where the build that runs is, at each step of a start.
ExePlace ==
  /\ phase \in {"apply", "swap", "copying", "copied"} => exe = Whole(running)
  /\ phase \in {"swap", "copying"} => file # Absent
  /\ phase \in {"copied", "aside"} => incoming # Absent
  /\ phase \in {"aside", "rollback"} => exe = Absent
  /\ phase \in {"drop", "unmark", "cleanup"} => exe # Absent

\* Only a marker that has no digest gets something swapped in, and only the disk may
\* begin with one.
NoSwap ==
  /\ ~legacy /\ marker # NoMarker => marker.sha256 # NoDigest
  /\ phase \in {"swap", "copying", "copied", "aside", "rollback"} =>
       marker # NoMarker /\ marker.sha256 = NoDigest

UpdateInv == UpdateTypeOK /\ ExeRecoverable /\ OnlyVerified /\ ExePlace /\ NoSwap
=============================================================================
