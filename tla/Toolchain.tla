----------------------------- MODULE Toolchain -----------------------------
(***************************************************************************)
(* The tools a launch puts on the PATH of dsh before anything else         *)
(* (flow/runtime_env.rs and install/): node, always; nub, bun or pnpm, if  *)
(* it is the package manager of the configuration.  What is missing is     *)
(* installed into the cache, where a launcher that is killed leaves it     *)
(* half done.                                                              *)
(*                                                                         *)
(* The user's own tools are the environment: every probe may find them,    *)
(* too old or not at all.                                                  *)
(***************************************************************************)
EXTENDS DshCache

CONSTANTS
  Mirror,     \* BOOLEAN: mirrors are on and mirrors.npm is set
  Arch        \* BOOLEAN: Arch Linux, where the launcher installs neither node nor bun

ASSUME HostAssumption == Mirror \in BOOLEAN /\ Arch \in BOOLEAN

VARIABLES
  tool,       \* the place in runtime_env::run
  nub,        \* <cache>/dshl/nub: the file bin/nub, and whether nub.version is there
  bun,        \* <cache>/bun/bin/bun
  pnpm,       \* pnpm is in the cache
  nodes,      \* ages of the nodes under the user's fnm and nvm, and of fnm's in the cache
  failed,     \* the INSTALL_FAILED flags of this process
  onPath      \* what Runtime puts on the PATH, and where from

toolVars == <<tool, nub, bun, pnpm, nodes, failed, onPath>>

NoTools == [node |-> "none", nub |-> "none", bun |-> "none", pnpm |-> "none"]
Cached  == {"bun", "nub"}      \* package managers with a negative cache

ToolTypeOK ==
  /\ tool \in {"off", "nub", "nubFetch", "nubShims", "nubCopy", "nubMark", "node",
               "nodeInstall", "bun", "bunInstall", "bunCopy", "bunScript", "pnpm", "pnpmInstall",
               "ready", "failed"}
  /\ nub \in [bin : {"none", "shim", "partial", "native"}, marker : BOOLEAN]
  /\ bun \in {"none", "partial", "whole"}
  /\ pnpm \in BOOLEAN
  /\ nodes \in [user : SUBSET Ages, cache : BOOLEAN]
  /\ failed \subseteq Cached
  /\ onPath \in [node : Ages \cup {"none"}, nub : {"none", "ambient", "cache"},
                 bun : {"none", "ambient", "cache"}, pnpm : {"none", "ambient", "cache"}]

ToolInit ==
  /\ tool = "off"
  /\ nub = [bin |-> "none", marker |-> FALSE] /\ bun = "none" /\ pnpm = FALSE
  /\ nodes = [user |-> config.nodes, cache |-> FALSE]
  /\ failed = {} /\ onPath = NoTools

ToolAt(step) == tool = step
GoTool(step) == tool' = step
pm == config.pm
cacheOfTools == <<nub, bun, pnpm, nodes>>

(***************************************************************************)
(* node.                                                                   *)
(***************************************************************************)

\* NODE_MIN.
Satisfies(age) == age = "recent"

\* runtime_env::run probes; a node that will do is the user's.
ProbeTools ==
  /\ ToolAt("off")
  /\ \E age \in Ages \cup {"none"} :
       onPath' = [NoTools EXCEPT !.node = IF Satisfies(age) THEN age ELSE "none"]
  /\ GoTool("nub")
  /\ UNCHANGED <<cacheOfTools, failed>>

\* find_node_bin: the roots of the user's fnm and nvm come before the launcher's,
\* and nobody asks what version is there.
FindNode(n) ==
  IF n.user # {} THEN n.user ELSE IF n.cache THEN {"recent"} ELSE {}

\* nub::provision_node may be asked, of the nub in the cache or of the user's.
NubProvides == pm = "nub" /\ Mirror

\* nub is to install NODE_INSTALL_VERSION, then is asked which node it resolves,
\* whether it has installed one or not: it may be an older one on the user's PATH.
ProvisionNode ==
  \E age \in Ages : onPath' = [onPath EXCEPT !.node = age] /\ GoTool("bun")

\* Then ensure_node, up to install_node: it probes again and looks into the cache
\* only when there is no node at all.
EnsureNode ==
  /\ ToolAt("node")
  /\ \/ onPath.node # "none" /\ GoTool("bun") /\ UNCHANGED onPath
     \/ onPath.node = "none" /\ NubProvides /\ ProvisionNode
     \/ /\ onPath.node = "none"
        /\ \/ \E age \in Ages :
                IF Satisfies(age)
                THEN onPath' = [onPath EXCEPT !.node = age] /\ GoTool("bun")
                ELSE UNCHANGED onPath /\ GoTool("nodeInstall")
           \/ \E age \in FindNode(nodes) :
                onPath' = [onPath EXCEPT !.node = age] /\ GoTool("bun")
           \/ FindNode(nodes) = {} /\ UNCHANGED onPath /\ GoTool("nodeInstall")
  /\ UNCHANGED <<cacheOfTools, failed>>

\* fnm, however it was come by, installs into the launcher's cache, nvm into the
\* user's directories.
NodeByFnm == [nodes EXCEPT !.cache = TRUE]
NodeByNvm == [nodes EXCEPT !.user = nodes.user \cup {"recent"}]

\* install_node: one way after the other until one leaves a node to be found.
InstallNode ==
  /\ ToolAt("nodeInstall")
  /\ \/ /\ ~Arch
        /\ nodes' \in {NodeByFnm, NodeByNvm}
        /\ \E age \in FindNode(nodes') : onPath' = [onPath EXCEPT !.node = age]
        /\ GoTool("bun")
     \/ GoTool("failed") /\ UNCHANGED <<nodes, onPath>>
  /\ UNCHANGED <<nub, bun, pnpm, failed>>

(***************************************************************************)
(* nub: never fatal, the launch goes on without it.                        *)
(***************************************************************************)

\* Fault: the marker is not asked for.
NubThere == nub.bin # "none"

\* The offline path: a file bin/nub and the version marker, written last.
NubCached == nub.bin # "none" /\ nub.marker

\* The install of package manager t fails, which INSTALL_FAILED remembers.
FailInstall(t) == failed' = failed \cup {t}

EnsureNub ==
  /\ ToolAt("nub")
  /\ \/ /\ pm # "nub" \/ "nub" \in failed
        /\ GoTool("node") /\ UNCHANGED onPath
     \/ /\ pm = "nub" /\ "nub" \notin failed /\ NubCached
        /\ onPath' = [onPath EXCEPT !.nub = "cache"] /\ GoTool("node")
     \/ /\ pm = "nub" /\ "nub" \notin failed /\ ~NubCached
        /\ \/ onPath' = [onPath EXCEPT !.nub = "ambient"] /\ GoTool("node")
           \/ UNCHANGED onPath /\ GoTool("nubFetch")
  /\ UNCHANGED <<cacheOfTools, failed>>

\* Both packages are fetched into the stage, each in up to three tries.
FetchNub ==
  /\ ToolAt("nubFetch")
  /\ \/ GoTool("nubShims") /\ UNCHANGED failed
     \/ FailInstall("nub") /\ GoTool("node")
  /\ UNCHANGED <<cacheOfTools, onPath>>

\* assemble_bin copies the shims of the first package before the binary of the
\* second, which has the name of one of them.
CopyShims ==
  /\ ToolAt("nubShims")
  /\ nub' \in {[nub EXCEPT !.bin = b] : b \in {"shim", "partial"}}
  /\ \/ GoTool("nubCopy") /\ UNCHANGED failed
     \/ FailInstall("nub") /\ GoTool("node")
  /\ UNCHANGED <<bun, pnpm, nodes, onPath>>

CopyNub ==
  /\ ToolAt("nubCopy")
  /\ \/ /\ nub' = [nub EXCEPT !.bin = "native"] /\ GoTool("nubMark")
        /\ UNCHANGED failed
     \/ FailInstall("nub") /\ GoTool("node") /\ UNCHANGED nub
  /\ UNCHANGED <<bun, pnpm, nodes, onPath>>

MarkNub ==
  /\ ToolAt("nubMark") /\ GoTool("node")
  /\ \/ /\ nub' = [nub EXCEPT !.marker = TRUE]
        /\ onPath' = [onPath EXCEPT !.nub = "cache"]
        /\ UNCHANGED failed
     \/ FailInstall("nub") /\ UNCHANGED <<nub, onPath>>
  /\ UNCHANGED <<bun, pnpm, nodes>>

(***************************************************************************)
(* bun: ensure_bun.  A copy that was interrupted counts as installed.      *)
(***************************************************************************)
EnsureBun ==
  /\ ToolAt("bun")
  /\ \/ pm # "bun" /\ GoTool("pnpm") /\ UNCHANGED onPath
     \/ /\ pm = "bun"
        /\ onPath' = [onPath EXCEPT !.bun = "ambient"] /\ GoTool("pnpm")
     \/ /\ pm = "bun" /\ bun # "none"
        /\ onPath' = [onPath EXCEPT !.bun = "cache"] /\ GoTool("pnpm")
     \/ /\ pm = "bun" /\ bun = "none"
        /\ GoTool(IF Arch \/ "bun" \in failed THEN "failed" ELSE "bunInstall")
        /\ UNCHANGED onPath
  /\ UNCHANGED <<cacheOfTools, failed>>

\* install_bun_from_registry.
FetchBun ==
  /\ ToolAt("bunInstall")
  /\ \/ bun' = "partial" /\ GoTool("bunCopy")
     \/ UNCHANGED bun /\ GoTool("bunScript")
  /\ UNCHANGED <<nub, pnpm, nodes, failed, onPath>>

BunInstalled == onPath' = [onPath EXCEPT !.bun = "cache"] /\ GoTool("pnpm")

CopyBun ==
  /\ ToolAt("bunCopy")
  /\ \/ bun' = "whole" /\ BunInstalled
     \/ UNCHANGED <<bun, onPath>> /\ GoTool("bunScript")
  /\ UNCHANGED <<nub, pnpm, nodes, failed>>

\* The official script, whose outcome is a file that is there, and npm.
ScriptBun ==
  /\ ToolAt("bunScript")
  /\ \/ bun' = "whole" /\ BunInstalled /\ UNCHANGED failed
     \/ bun # "none" /\ UNCHANGED <<bun, failed>> /\ BunInstalled
     \/ /\ bun = "none" /\ FailInstall("bun") /\ GoTool("failed")
        /\ UNCHANGED <<bun, onPath>>
  /\ UNCHANGED <<nub, pnpm, nodes>>

(***************************************************************************)
(* pnpm: ensure_pnpm.                                                      *)
(***************************************************************************)
EnsurePnpm ==
  /\ ToolAt("pnpm")
  /\ \/ pm # "pnpm" /\ GoTool("ready") /\ UNCHANGED onPath
     \/ /\ pm = "pnpm"
        /\ onPath' = [onPath EXCEPT !.pnpm = "ambient"] /\ GoTool("ready")
     \/ /\ pm = "pnpm" /\ pnpm
        /\ onPath' = [onPath EXCEPT !.pnpm = "cache"] /\ GoTool("ready")
     \/ pm = "pnpm" /\ ~pnpm /\ GoTool("pnpmInstall") /\ UNCHANGED onPath
  /\ UNCHANGED <<cacheOfTools, failed>>

\* An npm that succeeds and puts pnpm elsewhere is no error.
InstallPnpm ==
  /\ ToolAt("pnpmInstall")
  /\ \/ /\ pnpm' = TRUE
        /\ onPath' = [onPath EXCEPT !.pnpm = "cache"] /\ GoTool("ready")
     \/ /\ onPath' = [onPath EXCEPT !.pnpm = "ambient"] /\ GoTool("ready")
        /\ UNCHANGED pnpm
     \/ GoTool("failed") /\ UNCHANGED <<pnpm, onPath>>
  /\ UNCHANGED <<nub, bun, nodes, failed>>

Tools == \/ ProbeTools \/ EnsureNub \/ FetchNub \/ CopyShims \/ CopyNub \/ MarkNub
         \/ EnsureNode \/ InstallNode
         \/ EnsureBun \/ FetchBun \/ CopyBun \/ ScriptBun
         \/ EnsurePnpm \/ InstallPnpm

\* The launch ends; the process goes on.
ToolsOff ==
  /\ tool' = "off" /\ onPath' = NoTools
  /\ UNCHANGED <<cacheOfTools, failed>>

\* The process is killed; the files stay as they are.
ToolsKilled ==
  /\ tool' = "off" /\ onPath' = NoTools
  /\ failed' = {}
  /\ UNCHANGED <<cacheOfTools>>

(***************************************************************************)
(* Properties.                                                             *)
(***************************************************************************)

\* The nub of the cache that a launch puts on the PATH is the binary, never a
\* shim or a copy that was cut short, whenever an earlier launch was killed.
NubIsNative == onPath.nub = "cache" => nub.bin = "native"

=============================================================================
