------------------------------ MODULE DshCache ------------------------------
(***************************************************************************)
(* Which dsh a launch runs (flow/prepare.rs): the one the user installed   *)
(* or the launcher's own copy in its cache, installed, updated or repaired *)
(* first; and the background check for updates (update_check.rs), whose    *)
(* answers the launch uses and whose row it withdraws.                     *)
(*                                                                         *)
(* The package manager, the registry and the user are the environment.     *)
(***************************************************************************)
EXTENDS Semver

CONSTANTS
  Versions,   \* versions of dsh that are published
  DistTag,    \* a value of dsh.version that is pinned and is no version
  Managers,   \* package managers, the values of dsh.pm
  Configs,    \* values of the [dsh] table, each with the nodes the user has; a
              \* behaviour has one of them
  Checks,     \* checks that may run at a time: the timer's and requested ones
  MaxMoves    \* bound: changes of registry, global dsh and cache, and kills

NoVersion == FullVersion(<<0, 0, 0>>, <<>>)
Ages      == {"old", "recent"}   \* of a node: below NODE_MIN or not
Maybe     == Versions \cup {NoVersion}
Modes     == {"private", "hybrid", "global"}

ASSUME ManagersAssumption == Managers \subseteq {"npm", "bun", "pnpm", "nub"}
ASSUME VersionsAssumption ==
  NoVersion \notin Versions /\ Versions # {} /\ Versions \subseteq FullVersions
ASSUME DistTagAssumption == DistTag \notin Maybe
ASSUME ConfigsAssumption ==
  Configs \subseteq [mode : Modes, version : Maybe \cup {DistTag}, auto : BOOLEAN,
              pm : Managers, nodes : SUBSET Ages]
ASSUME BoundAssumption == MaxMoves \in Nat

VARIABLES
  registry,   \* the version under the dist-tag latest
  global,     \* the user's own dsh, and whether it runs
  cache,      \* the copy in the cache: its manifest, and whether its entry is there
  \* A launch: its place in prepare::run, its configuration, what it wants, the
  \* program it chose with the version it read, the cache it found, what it installs.
  at, config, target, program, probed, had, goal,
  running,    \* the dsh that runs: where it comes from and its version
  \* update_check: whether CTX is set, STATUS and whether it is within RECENT_TTL,
  \* the checks.
  ctx, status, recent, check,
  moves,
  \* History: during this launch the user changed an installation, and a package
  \* manager that reported success left no entry.
  touched, hollow

diskVars   == <<registry, global, cache>>
launchVars == <<at, config, target, program, probed, had, goal, running>>
checkVars  == <<ctx, status, recent, check>>
ghostVars  == <<moves, touched, hollow>>
cacheVars  == <<diskVars, launchVars, checkVars, ghostVars>>

NoDsh     == [version |-> NoVersion, ok |-> FALSE]
NoCopy    == [version |-> NoVersion, entry |-> FALSE]
NoStatus  == [latest |-> NoVersion, available |-> FALSE]
IdleCheck == [at |-> "idle", latest |-> NoVersion, current |-> NoVersion]
NotRunning == [from |-> "none", version |-> NoVersion]

CacheTypeOK ==
  /\ registry \in Versions
  /\ global \in [version : Maybe, ok : BOOLEAN]
  /\ {cache, had} \subseteq [version : Maybe, entry : BOOLEAN]
  /\ at \in {"idle", "query", "choose", "verify", "decide", "install", "installing",
             "forget", "spawn", "running", "failed"}
  /\ config \in Configs
  /\ target \in Maybe \cup {DistTag}
  /\ {probed, goal} \subseteq Maybe
  /\ at \in {"install", "installing"} => goal \in Versions
  /\ program \in {"none", "global", "cache"}
  /\ running \in [from : {"none", "global", "cache"}, version : Maybe]
  /\ status \in [latest : Maybe, available : BOOLEAN]
  /\ {ctx, recent, touched, hollow} \subseteq BOOLEAN
  /\ check \in [Checks -> [at : {"idle", "current", "store"}, latest : Maybe,
                           current : Maybe]]
  /\ moves \in 0 .. MaxMoves

CacheInit ==
  /\ registry \in Versions /\ config \in Configs
  /\ global \in {NoDsh} \cup IF config.mode = "private" THEN {}
                             ELSE [version : Versions, ok : {TRUE}]
  /\ cache \in {NoCopy} \cup [version : Versions, entry : {TRUE}]
  /\ at = "idle"
  /\ target = NoVersion /\ program = "none" /\ probed = NoVersion
  /\ had = NoCopy /\ goal = NoVersion /\ running = NotRunning
  /\ ctx = FALSE /\ status = NoStatus /\ recent = FALSE
  /\ check = [t \in Checks |-> IdleCheck]
  /\ moves = 0 /\ touched = FALSE /\ hollow = FALSE

(***************************************************************************)
(* Which program counts as the user's own dsh.                             *)
(***************************************************************************)

\* The programs named dsh on PATH: the user may have put the .bin directory of
\* the launcher's cache in front of it.
Candidates(ahead) ==
  (IF ahead /\ cache.entry THEN <<"cache">> ELSE <<>>)
    \o (IF global.version # NoVersion THEN <<"global">> ELSE <<>>)

\* Fault: the launcher's own copy is taken for the user's.
PickFirst(candidates) == IF candidates = <<>> THEN "none" ELSE candidates[1]

\* pick_global_candidate: copies inside the cache are walked past.
PickGlobal(candidates) ==
  IF \E i \in DOMAIN candidates : candidates[i] # "cache" THEN "global" ELSE "none"

\* probe::dsh_at: a program that does not run has no version.
Probe(p) == CASE p = "global" /\ global.ok -> global.version
              [] p = "cache" -> cache.version
              [] OTHER -> NoVersion

(***************************************************************************)
(* A launch: prepare::run.                                                 *)
(***************************************************************************)

At(step) == at = step
Go(step) == at' = step

WantsLatest == config.version = NoVersion
Readable    == config.version # DistTag

\* flow::run with the runtime ready: update_check::configure, then prepare.
Begin ==
  /\ At("idle") /\ Go("query")
  /\ ctx' = TRUE
  /\ touched' = FALSE /\ hollow' = FALSE
  /\ UNCHANGED <<diskVars, config, target, program, probed, had, goal, running, status,
                 recent, check, moves>>

\* What the launch aims at; NoVersion stands for whatever is there.
Targets ==
  IF ~WantsLatest THEN {config.version}
  ELSE IF ~config.auto THEN {NoVersion}
  ELSE {registry, IF recent THEN status.latest ELSE NoVersion}

Query ==
  /\ At("query") /\ Go("choose")
  /\ target' \in Targets
  /\ UNCHANGED <<diskVars, config, program, probed, had, goal, running, checkVars,
                 ghostVars>>

\* hybrid_use_global, of the version that was read; a pin that is no version is
\* served by any (dsh_version_ok).
GlobalServes(version) ==
  IF ~WantsLatest THEN version # NoVersion /\ (version = config.version \/ ~Readable)
  ELSE \/ ~config.auto \/ target = NoVersion
       \/ version # NoVersion /\ ~Less(version, target)

\* The probe may run out of time.
Choose ==
  /\ At("choose")
  /\ \E ahead \in BOOLEAN :
       LET p == PickGlobal(Candidates(ahead)) IN
       \E read \in {Probe(p), NoVersion} :
       LET take == p # "none" /\ (config.mode = "global" \/ GlobalServes(read)) IN
       /\ probed' = read
       /\ program' = IF config.mode # "private" /\ take THEN p ELSE "none"
       /\ Go(IF config.mode = "global" /\ p = "none" THEN "failed" ELSE "verify")
  /\ UNCHANGED <<diskVars, config, target, had, goal, running, checkVars, ghostVars>>

\* global_program_usable.
Runs(p) == (p = "global" /\ global.ok) \/ (p = "cache" /\ cache.entry)

\* A program that does not run, or not in time, is dropped for the cache, in every
\* mode.
Verify ==
  /\ At("verify")
  /\ \E usable \in BOOLEAN :
       /\ usable => Runs(program)
       /\ program' = IF usable THEN program ELSE "none"
       /\ Go(IF usable THEN "spawn" ELSE "decide")
  /\ UNCHANGED <<diskVars, config, target, probed, had, goal, running, checkVars,
                 ghostVars>>

\* Fault: a tree whose entry is missing counts as installed.
NeedsUpdateOnly(c) ==
  \/ c.version = NoVersion
  \/ /\ target # NoVersion /\ c.version # target
     /\ IF WantsLatest THEN Less(c.version, target) ELSE Readable

\* Fault: the registry's latest replaces a newer copy.
NeedsExactly(c) ==
  ~c.entry \/ c.version = NoVersion \/ (target # NoVersion /\ c.version # target)

\* cache_needs_install: only a pinned version may be a downgrade.
NeedsInstall(c) ==
  \/ ~c.entry
  \/ c.version = NoVersion
  \/ /\ target # NoVersion /\ c.version # target
     /\ IF WantsLatest THEN Less(c.version, target) ELSE Readable

\* Fault: without a target the copy is repaired in its own version, if it has none too.
RepairInPlace(c) == {IF target # NoVersion THEN target ELSE c.version}

\* repair_spec: without a target, a broken copy is repaired in its own version;
\* otherwise the package manager resolves latest, or a tag, itself.
InstallSpec(c) ==
  IF target = DistTag THEN Versions
  ELSE {IF target # NoVersion THEN target
        ELSE IF c.version # NoVersion /\ ~c.entry THEN c.version ELSE registry}

Decide ==
  /\ At("decide")
  /\ IF NeedsInstall(cache)
     THEN Go("install") /\ had' = cache /\ goal' \in InstallSpec(cache)
     ELSE Go("spawn") /\ UNCHANGED <<had, goal>>
  /\ UNCHANGED <<diskVars, config, target, program, probed, running, checkVars,
                 ghostVars>>

\* The package manager takes the tree apart, or fails before it does.
InstallStarts ==
  /\ At("install")
  /\ \/ /\ Go("installing")
        /\ \E v \in {cache.version, goal, NoVersion} :
             cache' = [version |-> v, entry |-> FALSE]
     \/ Go("failed") /\ UNCHANGED cache
  /\ UNCHANGED <<registry, global, config, target, program, probed, had, goal, running,
                 checkVars, ghostVars>>

\* It succeeds, which need not mean that the entry is there, or leaves the tree in
\* pieces.
InstallEnds ==
  /\ At("installing")
  /\ \/ /\ Go("forget")
        /\ \E there \in BOOLEAN :
             cache' = [version |-> goal, entry |-> there] /\ hollow' = ~there
     \/ Go("failed") /\ UNCHANGED <<cache, hollow>>
  /\ UNCHANGED <<registry, global, config, target, program, probed, had, goal, running,
                 checkVars, moves, touched>>

\* update_check::invalidate.
Invalidate == status' = NoStatus /\ recent' = FALSE

Forget ==
  /\ At("forget") /\ Go("spawn")
  /\ Invalidate
  /\ had' = NoCopy /\ goal' = NoVersion
  /\ UNCHANGED <<diskVars, config, target, program, probed, running, ctx, check,
                 ghostVars>>

\* The end of prepare::run, and the spawn of flow::launch.
SpawnDsh ==
  /\ At("spawn")
  /\ \/ /\ program # "none" /\ Go("running")
        /\ running' = [from |-> program,
                       version |-> IF program = "global" THEN global.version
                                                         ELSE cache.version]
     \/ /\ program = "none" /\ cache.entry /\ Go("running")
        /\ running' = [from |-> "cache", version |-> cache.version]
     \/ /\ program = "none" /\ ~cache.entry /\ Go("failed")
        /\ UNCHANGED running
  /\ UNCHANGED <<diskVars, config, target, program, probed, had, goal, checkVars,
                 ghostVars>>

\* dsh ends, or the page shows the error; the user starts it again.
DshEnds ==
  /\ at \in {"running", "failed"} /\ Go("idle")
  /\ running' = NotRunning
  /\ target' = NoVersion /\ program' = "none" /\ probed' = NoVersion
  /\ had' = NoCopy /\ goal' = NoVersion
  /\ UNCHANGED <<diskVars, config, checkVars, ghostVars>>

Launch == \/ Query \/ Choose \/ Verify \/ Decide \/ InstallStarts \/ InstallEnds
          \/ Forget \/ SpawnDsh \/ DshEnds

(***************************************************************************)
(* update_check::check_once.                                               *)
(***************************************************************************)
CheckAt(t, step) == check[t].at = step

\* A query that fails leaves the last answer standing.
CheckQueries(t) ==
  /\ CheckAt(t, "idle") /\ ctx
  /\ check' = [check EXCEPT ![t].at = "current", ![t].latest = registry]
  /\ UNCHANGED <<diskVars, launchVars, ctx, status, recent, ghostVars>>

\* resolve_current; the probe of the global dsh may run out of time.
Current(ahead) ==
  LET seen == {Probe(PickGlobal(Candidates(ahead))), NoVersion} IN
  CASE config.mode = "private" -> {cache.version}
    [] config.mode = "hybrid" -> {IF v # NoVersion THEN v ELSE cache.version : v \in seen}
    [] OTHER -> seen

CheckReads(t) ==
  /\ CheckAt(t, "current")
  /\ \E ahead \in BOOLEAN : \E v \in Current(ahead) :
       check' = [check EXCEPT ![t].at = "store", ![t].current = v]
  /\ UNCHANGED <<diskVars, launchVars, ctx, status, recent, ghostVars>>

\* classify, and store.
CheckStores(t) ==
  LET c == check[t] IN
  /\ CheckAt(t, "store")
  /\ status' = [latest |-> c.latest,
                available |-> c.current # NoVersion /\ Less(c.current, c.latest)]
  /\ recent' = TRUE
  /\ check' = [check EXCEPT ![t] = IdleCheck]
  /\ UNCHANGED <<diskVars, launchVars, ctx, ghostVars>>

\* RECENT_TTL.
Expire ==
  /\ recent /\ recent' = FALSE
  /\ UNCHANGED <<diskVars, launchVars, ctx, status, check, ghostVars>>

(***************************************************************************)
(* The registry, the user, and a launcher that is killed.                  *)
(***************************************************************************)
Move == moves < MaxMoves /\ moves' = moves + 1

\* A release is published, or the dist-tag is moved back.
DistTagMoves ==
  /\ Move /\ registry' \in Versions \ {registry}
  /\ UNCHANGED <<global, cache, launchVars, checkVars, touched, hollow>>

UserChangesGlobal ==
  /\ Move
  /\ global' \in {g \in [version : Maybe, ok : BOOLEAN] :
                    g # global /\ (g.version = NoVersion => ~g.ok)}
  /\ touched' = (touched \/ at # "idle")
  /\ UNCHANGED <<registry, cache, launchVars, checkVars, hollow>>

UserClearsCache ==
  /\ Move /\ cache # NoCopy /\ cache' = NoCopy
  /\ touched' = (touched \/ at # "idle")
  /\ UNCHANGED <<registry, global, launchVars, checkVars, hollow>>

\* What the process knew is gone, a tree in pieces stays.
Killed ==
  /\ Move /\ (at # "idle" \/ ctx)
  /\ at' = "idle" /\ running' = NotRunning
  /\ target' = NoVersion /\ program' = "none" /\ probed' = NoVersion
  /\ had' = NoCopy /\ goal' = NoVersion
  /\ ctx' = FALSE /\ status' = NoStatus /\ recent' = FALSE
  /\ check' = [t \in Checks |-> IdleCheck]
  /\ UNCHANGED <<diskVars, config, touched, hollow>>

Around == DistTagMoves \/ UserChangesGlobal \/ UserClearsCache \/ Expire
Checking == \E t \in Checks : CheckQueries(t) \/ CheckReads(t) \/ CheckStores(t)

(***************************************************************************)
(* Properties.                                                             *)
(***************************************************************************)

Installed == At("installing") /\ at' = "forget"

\* Unless the version is pinned, an install never replaces a copy that can run by
\* an older one, however the dist-tag moves between the check and the launch.
IntactKept ==
  [][Installed /\ WantsLatest /\ had.entry /\ had.version # NoVersion
       => ~Less(cache'.version, had.version)]_cacheVars

\* "A repair (broken tree, missing entry) must never DOWNGRADE"
\* (src/flow/prepare.rs:529).
RepairNotOlder ==
  [][Installed /\ WantsLatest /\ ~had.entry /\ had.version # NoVersion
       => ~Less(cache'.version, had.version)]_cacheVars

\* The dsh that runs is the one the configuration asks for: the private mode runs
\* the cache's, no mode takes the launcher's copy for the user's, a pinned version
\* is the version that runs (but in the global mode, which takes any, and when it
\* is none), and an update that was found is not missed.
Honoured ==
  at = "running" /\ ~touched =>
    /\ running.from = "cache" => program = "none"
    /\ config.mode = "private" => running.from = "cache"
    /\ running.from = "global" => probed \in {running.version, NoVersion}
    /\ (~WantsLatest /\ Readable /\ config.mode # "global")
         => running.version = config.version
    /\ (target \in Versions /\ (config.mode # "global" \/ running.from = "cache"))
         => ~Less(running.version, target)

\* A launch does not come to the end of prepare without the file node is to run,
\* unless a package manager has just left none and reported success: an install
\* that was interrupted is repaired by the next launch, not reported.
EntryThere == at = "spawn" /\ program = "none" /\ ~touched /\ ~hollow => cache.entry

=============================================================================
