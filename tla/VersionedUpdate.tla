--------------------------- MODULE VersionedUpdate --------------------------
(***************************************************************************)
(* The versioned install of PAC CT: versions/<v>/ side by side, each with  *)
(* a venv of its own, and the link `current' that the launcher follows     *)
(* (src/src/pacct/update.py and the commands of src/app.py).               *)
(*                                                                         *)
(* A command is one process.  It boots (app.py makes the venv of the       *)
(* directory it was started from and installs what is missing there), does *)
(* its work and ends; it may die at any step, and then the directories and *)
(* the link stay as they are.                                              *)
(***************************************************************************)
EXTENDS Versions, FiniteSets

CONSTANTS
    Available,    \* the versions somebody may have a bundle of
    NoLink,       \* `current' does not exist
    Outside       \* a bundle unpacked elsewhere, not under versions/

ASSUME VersionedAssumption ==
    /\ IsFiniteSet(Available)
    /\ Available \subseteq [kind : VersionKinds, n : Nat, floor : Nat]

VARIABLES
    files,     \* what versions/<v>/ holds
    env,       \* how far the venv of versions/<v>/ is
    current,   \* where the link points
    task,      \* what the running command is doing
    order,     \* which command it is
    root,      \* the directory its app.py was started from
    goal,      \* the version it installs or goes back to
    verdict,   \* what the last command said when it ended
    before     \* history: `current' when the last command began

disk == <<files, env, current>>
process == <<task, order, root, goal, verdict, before>>
versionedVars == <<disk, process>>

\* A copy under way has no app.py at first, then has one, then is whole.
FileStates == {"absent", "torn", "torn_app", "whole"}
EnvStates == {"none", "bare", "ready"}
Orders == {"update", "install", "install_into", "rollback"}
Tasks == {"idle", "boot", "deps", "act", "fetch", "copy", "build", "pip",
          "unlink", "link"}
Failures == {"no_deps", "offline", "nothing_new", "refused", "no_venv",
             "nothing_older"}
Verdicts == {"none", "done", "killed"} \cup Failures

VersionedInit ==
    /\ files = [v \in Available |-> "absent"]
    /\ env = [v \in Available |-> "none"]
    /\ current = NoLink
    /\ task = "idle" /\ order = "install" /\ root = Outside
    /\ goal \in Available /\ verdict = "none" /\ before = NoLink

Goto(t) == task' = t /\ UNCHANGED <<order, root, goal, verdict, before>>

\* Mutant: A command whose work failed never ends.
StopBadly(v) ==
    task' = "failed" /\ verdict' = v /\ UNCHANGED <<order, root, goal, before>>

Stop(v) == task' = "idle" /\ verdict' = v /\ UNCHANGED <<order, root, goal, before>>

SetEnv(v, e) == env' = [env EXCEPT ![v] = e] /\ UNCHANGED <<files, current>>
SetFiles(v, f) == files' = [files EXCEPT ![v] = f]

-----------------------------------------------------------------------------
(* Starting a command: app.py's main.                                      *)

\* The engineer unzips a bundle straight into versions/<v>/.
Unzip(v) ==
    /\ task = "idle" /\ files[v] = "absent"
    /\ SetFiles(v, "whole")
    /\ verdict' = "none"
    /\ UNCHANGED <<env, current, task, order, root, goal, before>>

Run(cmd, r, v) ==
    /\ task = "idle"
    /\ IF cmd = "install_into" THEN r = Outside
                               ELSE r # Outside /\ files[r] = "whole"
    /\ cmd = "install" => v = r
    /\ cmd = "rollback" => v = goal
    /\ task' = "boot" /\ order' = cmd /\ root' = r /\ goal' = v
    /\ verdict' = "none" /\ before' = current
    /\ UNCHANGED disk

\* create_venv; where it fails the packages go to the system's interpreter.
Boot ==
    /\ task = "boot"
    /\ IF root = Outside \/ env[root] # "none" THEN UNCHANGED disk
       ELSE UNCHANGED disk \/ SetEnv(root, "bare")
    /\ Goto(IF order = "rollback" THEN "act" ELSE "deps")

\* install_requirements: nothing missing, or pip brings it.
DepsReady ==
    /\ task = "deps"
    /\ IF root # Outside /\ env[root] = "bare" THEN SetEnv(root, "ready")
                                               ELSE UNCHANGED disk
    /\ Goto("act")

DepsFail ==
    /\ task = "deps" /\ (root # Outside => env[root] # "ready")
    /\ Stop("no_deps")
    /\ UNCHANGED disk

-----------------------------------------------------------------------------
(* --atualizar: run_update and perform_update                              *)

NoAnswer ==
    /\ task = "act" /\ order = "update"
    /\ Stop("offline")
    /\ UNCHANGED disk

NotOffered ==
    /\ task = "act" /\ order = "update" /\ ~UpdateAvailable(goal, root)
    /\ Stop("nothing_new")
    /\ UNCHANGED disk

Offered ==
    /\ task = "act" /\ order = "update" /\ UpdateAvailable(goal, root)
    /\ Goto("fetch")
    /\ UNCHANGED disk

\* No asset, no digest, a download that breaks, a digest that differs, or a
\* directory of that version already there.
FetchRefused ==
    /\ task = "fetch"
    /\ Stop("refused")
    /\ UNCHANGED disk

\* Mutant: The new version is unpacked over the directory that is there.
UnpackOver ==
    /\ task = "fetch"
    /\ SetFiles(goal, "whole")
    /\ env' = [env EXCEPT ![goal] = "none"]
    /\ UNCHANGED current
    /\ Goto("build")

\* unpack extracts beside the target and moves it in one step.
UnpackBeside ==
    /\ task = "fetch" /\ files[goal] = "absent"
    /\ SetFiles(goal, "whole")
    /\ UNCHANGED <<env, current>>
    /\ Goto("build")

\* build_venv: first the venv, then its packages from vendor/.
MakeVenv ==
    /\ task = "build"
    /\ SetEnv(goal, IF env[goal] = "none" THEN "bare" ELSE env[goal])
    /\ Goto("pip")

\* Mutant: The failure of pip is logged and the swap goes on.
FillAnyhow ==
    /\ task = "pip"
    /\ UNCHANGED disk
    /\ Goto("unlink")

FillVenv ==
    /\ task = "pip"
    /\ SetEnv(goal, "ready")
    /\ Goto("unlink")

VenvFails ==
    /\ task \in {"build", "pip"}
    /\ Stop("no_venv")
    /\ UNCHANGED disk

-----------------------------------------------------------------------------
(* point_current: the swap, and the rollback.                              *)

Unlink ==
    /\ task = "unlink"
    /\ current' = NoLink
    /\ UNCHANGED <<files, env>>
    /\ Goto("link")

Link ==
    /\ task = "link"
    /\ current' = goal
    /\ UNCHANGED <<files, env>>
    /\ Stop("done")

-----------------------------------------------------------------------------
(* --instalar and --instalar-em                                            *)

\* The bootstrap has made the venv of this directory already.
InstallHere ==
    /\ task = "act" /\ order = "install"
    /\ Goto("unlink")
    /\ UNCHANGED disk

AlreadyThere ==
    /\ task = "act" /\ order = "install_into" /\ files[goal] # "absent"
    /\ Stop("refused")
    /\ UNCHANGED disk

\* copytree works on the final directory, file by file.
CopyBegins ==
    /\ task = "act" /\ order = "install_into" /\ files[goal] = "absent"
    /\ SetFiles(goal, "torn")
    /\ UNCHANGED <<env, current>>
    /\ Goto("copy")

CopyGoesOn ==
    /\ task = "copy" /\ files[goal] = "torn"
    /\ SetFiles(goal, "torn_app")
    /\ UNCHANGED <<env, current>>
    /\ Goto("copy")

\* The bundle's own .venv, if its bootstrap could make one, is copied too;
\* otherwise install_here builds one.
CopyEnds ==
    /\ task = "copy" /\ files[goal] = "torn_app"
    /\ SetFiles(goal, "whole")
    /\ UNCHANGED current
    /\ \/ env' = [env EXCEPT ![goal] = "ready"] /\ Goto("unlink")
       \/ UNCHANGED env /\ Goto("build")

-----------------------------------------------------------------------------
(* --reverter                                                              *)

\* installed_versions asks for an app.py, and nothing else.
Installed == {v \in Available : files[v] \in {"torn_app", "whole"}}

\* current_version: with no link, or no VERSION behind it, it is unknown.
VersionsRead ==
    IF current = NoLink THEN {UnknownVersion}
    ELSE IF files[current] = "whole" THEN {current}
    ELSE {current, UnknownVersion}

\* Mutant: With no version to compare to, nothing is older.
BelowKnown(running) ==
    {v \in Installed : /\ v # running
                       /\ Placed(v) /\ Placed(running)
                       /\ Older(v, running)}

\* What cannot be placed is skipped; with nothing to compare to, all go.
Below(running) ==
    {v \in Installed : /\ v # running
                       /\ Placed(v)
                       /\ Placed(running) => Older(v, running)}

Rollback ==
    /\ task = "act" /\ order = "rollback"
    /\ \E running \in VersionsRead :
          /\ Below(running) # {}
          /\ goal' = Newest(Below(running))
    /\ task' = "unlink"
    /\ UNCHANGED <<disk, order, root, verdict, before>>

NothingOlder ==
    /\ task = "act" /\ order = "rollback"
    /\ \E running \in VersionsRead : Below(running) = {}
    /\ Stop("nothing_older")
    /\ UNCHANGED disk

\* The process dies.
Die ==
    /\ task # "idle"
    /\ Stop("killed")
    /\ UNCHANGED disk

Update == NoAnswer \/ NotOffered \/ Offered \/ FetchRefused \/ UnpackBeside
BuildVenv == MakeVenv \/ FillVenv \/ VenvFails
InstallInto == AlreadyThere \/ CopyBegins \/ CopyGoesOn \/ CopyEnds

VersionedNext ==
    \/ \E v \in Available : Unzip(v)
    \/ \E cmd \in Orders, r \in Available \cup {Outside}, v \in Available :
          Run(cmd, r, v)
    \/ Boot \/ DepsReady \/ DepsFail
    \/ Update \/ BuildVenv
    \/ Unlink \/ Link
    \/ InstallHere \/ InstallInto
    \/ Rollback \/ NothingOlder
    \/ Die

VersionedSpec == VersionedInit /\ [][VersionedNext]_versionedVars

-----------------------------------------------------------------------------
VersionedTypeOK ==
    /\ files \in [Available -> FileStates]
    /\ env \in [Available -> EnvStates]
    /\ current \in Available \cup {NoLink}
    /\ task \in Tasks
    /\ order \in Orders
    /\ root \in Available \cup {Outside}
    /\ goal \in Available
    /\ verdict \in Verdicts
    /\ before \in Available \cup {NoLink}

\* Every failure leaves `current' exactly where it was, and so does a kill
\* at any moment before the window of the swap.
FailureKeepsCurrent ==
    (verdict \in Failures \/ task \notin {"idle", "link"}) => current = before

\* What a command that says it is done has linked.  Both installs and an update
\* link a version that is there whole; an update and a copy also wait for its
\* packages, while an install in place takes what the bootstrap made of them;
\* an update links a newer release that this Python can run.  A rollback asks
\* for an app.py and no more: half a copy passes, and so does a version whose
\* venv was never made.
LinkedIsUsable ==
    verdict = "done" =>
        /\ current \in Installed
        /\ order # "rollback" => files[current] = "whole"
        /\ order \in {"update", "install_into"} => env[current] = "ready"
        /\ order = "update" => IsNewer(current, root) /\ Supported(current)

\* No command touches a version that is installed, whichever it is: it may be
\* the one that is running now, or the one a rollback goes back to.
InstalledIsKept ==
    [][\A v \in Available : files[v] = "whole" /\ env[v] = "ready" =>
          files'[v] = "whole" /\ env'[v] = "ready"]_versionedVars

\* A rollback never moves forward, and never to what cannot be placed.
RollbackGoesBack ==
    verdict = "done" /\ order = "rollback" =>
        /\ Placed(current)
        /\ before # NoLink /\ files[before] = "whole" /\ Placed(before)
              => Older(current, before)

\* A command killed inside the swap has lost the link; --reverter brings one
\* back whenever there is a version it can place.
LostLinkComesBack ==
    verdict = "nothing_older" /\ before = NoLink =>
        ~\E v \in Available : files[v] = "whole" /\ Placed(v)

\* The link moves only in the swap, and what it is moved to is as whole as the
\* command that moved it made sure of.
CurrentIsUsable == FailureKeepsCurrent /\ LinkedIsUsable

\* A rollback goes back, and finds its way when the link was lost.
RollbackIsRight == RollbackGoesBack /\ LostLinkComesBack
=============================================================================
