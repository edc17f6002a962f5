------------------------------ MODULE Pipeline ------------------------------
(***************************************************************************)
(* The pipeline of a launch up to the spawn (flow/mod.rs): the toolchain,  *)
(* then dsh, in one process that may be killed and started again, with the *)
(* checks for updates beside it.                                           *)
(***************************************************************************)
EXTENDS Toolchain

CONSTANT Ladder   \* versions in the order semver gives them

vars == <<cacheVars, toolVars>>

TypeOK == CacheTypeOK /\ ToolTypeOK

Init == CacheInit /\ ToolInit

\* A step of runtime_env::run fails: run_step! ends the launch, and the user
\* starts it again.
RunTools ==
  /\ At("idle")
  /\ Tools \/ (tool = "failed" /\ ToolsOff)
  /\ UNCHANGED cacheVars

\* The runtime is ready: flow::run goes on to prepare.
RunPrepare == At("idle") /\ tool = "ready" /\ Begin /\ UNCHANGED toolVars

\* install_dsh spawns the package manager from the runtime's directories; one that
\* is in none of them cannot be spawned.
Reachable == pm = "nub" => onPath.nub # "none"

RunLaunch ==
  /\ Launch
  /\ at' = "installing" => Reachable
  /\ IF at' = "idle" THEN ToolsOff ELSE UNCHANGED toolVars

RunAround == (Around \/ Checking) /\ UNCHANGED toolVars

RunKilled == Killed /\ ToolsKilled

Next == RunTools \/ RunPrepare \/ RunLaunch \/ RunAround \/ RunKilled

Spec == Init /\ [][Next]_vars

\* The versions a launch compares are in the order of semver, whose own example
\* the test ordering_follows_semver of version.rs repeats.  It is about Less
\* alone, and looked at where every behaviour begins.
SemverOrder ==
  tool = "off" /\ moves = 0 /\ ~ctx =>
    \A i, j \in DOMAIN Ladder : Less(Ladder[i], Ladder[j]) <=> i < j

=============================================================================
