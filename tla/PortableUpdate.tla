--------------------------- MODULE PortableUpdate ---------------------------
(***************************************************************************)
(* The portable install of PAC CT: one folder that is updated in place     *)
(* (src/src/pacct/update.py, perform_portable_update and                   *)
(* rollback_portable, reached from app.py --atualizar and --reverter).     *)
(*                                                                         *)
(* A path of the folder is a model value; what lies there is the version   *)
(* it came from.  A command is one process, so one runs at a time, and it  *)
(* may die at any step: what it had in memory is lost, what it had moved   *)
(* stays moved.  A move is one rename within the folder.  A removal is     *)
(* many, so that of a tree any part may stay.                              *)
(***************************************************************************)
EXTENDS Versions, Sequences, Functions

CONSTANTS
    CodePaths,     \* PORTABLE_CODE_DIRS and _FILES, in the order of the swap
    CodeDirs,      \* those of them that are directories
    NestedPaths,   \* those that lie in a directory: config/config.ini.example
    KeepPaths,     \* PORTABLE_KEEP: the engineer's half of the folder
    NeededPaths,   \* app.py and src/: without them the folder cannot run
    VersionPath,   \* one of CodePaths: the file VERSION
    Published,     \* the releases and snapshots that bundles were built from
    Bundle,        \* [Published -> what the bundle carries]
    Faults,        \* what may go wrong: fetch, wipe, swap, pip, restore, crash
    MaxCommands,   \* bound: updates and rollbacks that begin in a behaviour
    Absent,
    Torn,          \* a directory of which a removal left a part, or another
                   \* one's remains with a whole one moved into them
    Mixed          \* a venv left between two lists of requirements

PathSet == Range(CodePaths)
Slots == DOMAIN CodePaths
Paths == PathSet \cup KeepPaths

\* The two halves of the folder do not overlap, no path is swapped twice, and
\* every bundle carries its VERSION.
ASSUME FolderAssumption ==
    /\ CodePaths \in Seq(PathSet) /\ IsInjective(CodePaths)
    /\ PathSet \cap KeepPaths = {}
    /\ VersionPath \in PathSet \ CodeDirs
    /\ CodeDirs \subseteq PathSet /\ NestedPaths \subseteq PathSet
    /\ Absent \notin Published /\ Torn \notin Published /\ Torn # Absent
    /\ Bundle \in [Published -> SUBSET Paths]
    /\ MaxCommands \in Nat
    /\ \A v \in Published : VersionPath \in Bundle[v]

VARIABLES
    live,       \* what lies at each path of the folder
    backup,     \* .pacct-backup
    parents,    \* it holds the directory of a nested path, be it empty
    staged,     \* .pacct-update
    packages,   \* the version whose requirements the venv holds, or Mixed
    deed,       \* what the running command is doing
    place,      \* the position of the swap, or of the restore
    aside,      \* _swap_in's own list of what it has moved aside
    moved,      \* the list that _restore is handed
    wanted,     \* the release being installed
    outcome,    \* what the last command said when it ended
    origin,     \* history: the folder when the last update began
    unrestored, \* history: paths whose restore raised since then
    begun,      \* history: commands, up to the bound
    stale       \* history: paths at which the backup kept, from then on, what
                \* an incomplete removal had left of an older one

folder == <<live, backup, parents, staged, packages>>
history == <<origin, unrestored, stale, begun>>
\* Both lists are in the order of the swap: they are kept as sets of positions.
command == <<deed, place, aside, moved, wanted, outcome>>
folderVars == <<folder, command, history>>

Deeds == {"idle", "fetch", "swap", "pip", "undo", "revert"}
Outcomes == {"none", "refused", "updated", "restored_swap", "restored_pip",
             "no_backup", "reverted", "killed"}
Contents == Published \cup {Absent, Torn}
Nothing == [p \in Paths |-> Absent]

Has(tree, p) == tree[p] # Absent
Held(tree) == {p \in PathSet : Has(tree, p)}

\* install_kind: anything without app.py and src/ is taken for a checkout.
IsPortable == \A p \in NeededPaths : Has(live, p)

\* read_version_file.
FolderVersion ==
    IF Has(live, VersionPath) THEN live[VersionPath] ELSE UnknownVersion

FolderInit ==
    /\ \E v \in Published :
          /\ live = [p \in Paths |->
                        IF p \in Bundle[v] \cup KeepPaths THEN v ELSE Absent]
          /\ packages \in {v, Absent}
    /\ origin = live
    /\ backup = Nothing /\ staged = Nothing /\ parents = FALSE
    /\ deed = "idle" /\ place = 1 /\ aside = {} /\ moved = {}
    /\ wanted = live[VersionPath] /\ outcome = "none"
    /\ unrestored = {} /\ stale = {} /\ begun = 0

Begin(d, v, list) ==
    /\ begun < MaxCommands /\ begun' = begun + 1
    /\ deed' = d /\ wanted' = v
    /\ place' = 1 /\ aside' = {} /\ moved' = list
    /\ outcome' = "none"

\* What the process had in its variables goes with it.
End(result) ==
    /\ deed' = "idle" /\ outcome' = result
    /\ place' = 1 /\ aside' = {} /\ moved' = {}
    /\ UNCHANGED wanted

\* rmtree(.pacct-backup, ignore_errors=True): what cannot be removed stays, and
\* nobody is told; a process killed inside it leaves as much.
WipeBackup ==
    \E left \in {{}} \cup (IF "wipe" \in Faults THEN SUBSET Held(backup) ELSE {}) :
    \E torn \in SUBSET (left \cap CodeDirs) :
        /\ backup' = [p \in Paths |-> IF p \in torn THEN Torn
                                     ELSE IF p \in left THEN backup[p] ELSE Absent]
        /\ parents' \in {left \cap NestedPaths # {},
                         parents /\ "wipe" \in Faults}

\* What a removal that does not end leaves of the live copy of a path.
Remains(p) == {live[p], Absent} \cup
              (IF p \in CodeDirs /\ Has(live, p) THEN {Torn} ELSE {})

-----------------------------------------------------------------------------
(* --atualizar                                                             *)

\* Whatever a previous attempt left behind goes first, its backup included.
\* What the removal of .pacct-update leaves is a reason for unpack to refuse.
StartUpdate(v) ==
    /\ deed = "idle" /\ IsPortable
    /\ UpdateAvailable(v, FolderVersion)
    /\ staged' = Nothing /\ WipeBackup
    /\ origin' = live /\ unrestored' = {} /\ stale' = Held(backup')
    /\ Begin("fetch", v, {})
    /\ UNCHANGED <<live, packages>>

\* Download, verify the sha256, unpack: nothing live is touched before it.
Unpacked ==
    /\ deed = "fetch"
    /\ staged' = [p \in Paths |-> IF p \in Bundle[wanted] THEN wanted ELSE Absent]
    /\ deed' = "swap"
    /\ UNCHANGED <<live, backup, parents, packages, place, aside, moved, wanted,
                   outcome, history>>

FetchFails ==
    /\ deed = "fetch" /\ "fetch" \in Faults
    /\ staged' = Nothing /\ WipeBackup /\ stale' = Held(backup')
    /\ End("refused")
    /\ UNCHANGED <<live, packages, origin, unrestored, begun>>

\* kept.parent.mkdir comes before the moves of a path the bundle has.
MakesParent(p) == Has(staged, p) /\ p \in NestedPaths

\* Mutant: A live copy is overwritten, not kept.
MoveOver ==
    /\ deed = "swap" /\ place <= Len(CodePaths)
    /\ LET p == CodePaths[place] IN
       /\ Has(staged, p) /\ Has(live, p)
       /\ live' = [live EXCEPT ![p] = Absent]
       /\ aside' = aside
    /\ UNCHANGED <<backup, parents, staged, packages, deed, place, moved, wanted,
                   outcome, history>>

\* The loop of _swap_in, one path at a time: the live copy goes aside, over a
\* file that an older backup left there, or into a directory ...
MoveAside ==
    /\ deed = "swap" /\ place <= Len(CodePaths)
    /\ LET p == CodePaths[place] IN
       /\ Has(staged, p) /\ Has(live, p)
       /\ backup' = [backup EXCEPT ![p] = IF p \in CodeDirs /\ Has(backup, p)
                                          THEN Torn ELSE live[p]]
       /\ stale' = IF p \in CodeDirs THEN stale ELSE stale \ {p}
       /\ live' = [live EXCEPT ![p] = Absent]
       /\ parents' = (parents \/ MakesParent(p))
       /\ aside' = aside \cup {place}
    /\ UNCHANGED <<staged, packages, deed, place, moved, wanted, outcome,
                   origin, unrestored, begun>>

\* ... and the staged one takes its place; a path the bundle lacks is skipped.
MoveIn ==
    /\ deed = "swap" /\ place <= Len(CodePaths)
    /\ LET p == CodePaths[place] IN
       /\ ~(Has(staged, p) /\ Has(live, p))
       /\ live' = [live EXCEPT ![p] = IF Has(staged, p) THEN staged[p] ELSE @]
       /\ parents' = (parents \/ MakesParent(p))
       /\ staged' = [staged EXCEPT ![p] = Absent]
    /\ place' = place + 1
    /\ UNCHANGED <<backup, packages, deed, aside, moved, wanted, outcome,
                   history>>

\* Only a loop that ended hands its list over.
SwapReturns ==
    /\ deed = "swap" /\ place > Len(CodePaths)
    /\ moved' = aside
    /\ deed' = "pip"
    /\ UNCHANGED <<folder, place, aside, wanted, outcome, history>>

\* A move raises: the caller's list is still the empty one.
SwapFails ==
    /\ deed = "swap" /\ place <= Len(CodePaths) /\ "swap" \in Faults
    /\ parents' \in {parents, parents \/ MakesParent(CodePaths[place])}
    /\ deed' = "undo"
    /\ UNCHANGED <<live, backup, staged, packages, place, aside, moved, wanted,
                   outcome, history>>

\* The venv survives the swap; its packages are brought up to the new list.
PipSucceeds ==
    /\ deed = "pip"
    /\ packages' = IF packages = Absent THEN Absent ELSE wanted
    /\ staged' = Nothing
    /\ End("updated")
    /\ UNCHANGED <<live, backup, parents, history>>

PipFails ==
    /\ deed = "pip" /\ packages # Absent /\ "pip" \in Faults
    /\ packages' \in {packages, Mixed}
    /\ deed' = "undo"
    /\ UNCHANGED <<live, backup, parents, staged, place, aside, moved, wanted,
                   outcome, history>>

-----------------------------------------------------------------------------
(* --reverter, and the restore both commands end with                      *)

\* any(backup.iterdir()): the directory of a nested path is enough.
StartRollback ==
    /\ deed = "idle" /\ IsPortable
    /\ backup # Nothing \/ parents
    /\ Begin("revert", wanted, {i \in Slots : Has(backup, CodePaths[i])})
    /\ UNCHANGED <<folder, origin, unrestored, stale>>

NoBackup ==
    /\ deed = "idle" /\ IsPortable
    /\ backup = Nothing /\ ~parents
    /\ End("no_backup")
    /\ UNCHANGED <<folder, history>>

\* reversed(moved): the last of the list comes back first.
IsLast(i) == \A j \in moved : j <= i

RestoreLast ==
    /\ deed \in {"undo", "revert"}
    /\ \E i \in moved : LET p == CodePaths[i] IN
       /\ IsLast(i)
       /\ live' = [live EXCEPT ![p] = backup[p]]
       /\ backup' = [backup EXCEPT ![p] = Absent]
       /\ moved' = moved \ {i}
    /\ UNCHANGED <<parents, staged, packages, deed, place, aside, wanted, outcome,
                   history>>

\* An OSError is logged and the next path is tried; the live copy may be gone,
\* or a part of it.
RestoreRaises ==
    /\ deed \in {"undo", "revert"} /\ "restore" \in Faults
    /\ \E i \in moved : LET p == CodePaths[i] IN
       /\ IsLast(i)
       /\ \E c \in Remains(p) : live' = [live EXCEPT ![p] = c]
       /\ unrestored' = unrestored \cup {p}
       /\ moved' = moved \ {i}
    /\ UNCHANGED <<backup, parents, staged, packages, deed, place, aside, wanted,
                   outcome, origin, stale, begun>>

\* The message of both failures says that the folder is as it was.
UndoEnds ==
    /\ deed = "undo" /\ moved = {}
    /\ staged' = Nothing
    /\ End(IF place > Len(CodePaths) THEN "restored_pip" ELSE "restored_swap")
    /\ UNCHANGED <<live, backup, parents, packages, history>>

\* Mutant: The backup is dropped before it is put back.
RevertTooSoon ==
    /\ deed = "revert"
    /\ WipeBackup
    /\ End("reverted")
    /\ UNCHANGED <<live, staged, packages, history>>

RevertEnds ==
    /\ deed = "revert" /\ moved = {}
    /\ WipeBackup
    /\ End("reverted")
    /\ UNCHANGED <<live, staged, packages, history>>

\* The process dies; the disk stays as it is.  A restore deletes the live
\* copy before it moves the kept one, and may die in between.
Killed ==
    /\ deed # "idle" /\ "crash" \in Faults
    /\ \/ UNCHANGED live
       \/ /\ deed \in {"undo", "revert"}
          /\ \E i \in moved : \E c \in Remains(CodePaths[i]) :
                IsLast(i) /\ live' = [live EXCEPT ![CodePaths[i]] = c]
    /\ \/ UNCHANGED parents
       \/ /\ deed = "swap" /\ place \in Slots
          /\ parents' = (parents \/ MakesParent(CodePaths[place]))
    /\ End("killed")
    /\ UNCHANGED <<backup, staged, packages, history>>

Restore == RestoreLast \/ RestoreRaises
Swap == MoveAside \/ MoveIn \/ SwapReturns \/ SwapFails

FolderNext ==
    \/ \E v \in Published : StartUpdate(v)
    \/ Unpacked \/ FetchFails
    \/ Swap
    \/ PipSucceeds \/ PipFails
    \/ StartRollback \/ NoBackup
    \/ Restore \/ UndoEnds \/ RevertEnds
    \/ Killed

FolderSpec == FolderInit /\ [][FolderNext]_folderVars

-----------------------------------------------------------------------------
FolderTypeOK ==
    /\ live \in [Paths -> Contents]
    /\ backup \in [Paths -> Contents] /\ parents \in BOOLEAN
    /\ staged \in [Paths -> Contents]
    /\ packages \in Contents \cup {Mixed}
    /\ deed \in Deeds
    /\ place \in 1 .. Len(CodePaths) + 1
    /\ aside \subseteq Slots /\ moved \subseteq Slots
    /\ wanted \in Published
    /\ outcome \in Outcomes
    /\ origin \in [Paths -> Contents]
    /\ unrestored \in SUBSET PathSet /\ stale \in SUBSET PathSet
    /\ begun \in 0 .. MaxCommands

\* The engineer's half of the folder is never moved, whatever the bundle
\* carries, fails or dies halfway: a bundle may well bring a data/ of its own.
DataUntouched ==
    \A p \in KeepPaths : live[p] = origin[p] /\ backup[p] = Absent

\* Paths that the reports answer for: no restore of theirs raised, and the last
\* update did not find the rest of an older copy where it keeps theirs.  Of the
\* others nothing is claimed: a rollback puts such a rest over the live copy
\* and says "reverted".
Answered == PathSet \ (unrestored \cup stale)

\* An update that fails in pip says the folder was restored: every path that
\* was there is there again, of those it answers for.
PipFailureRestores ==
    outcome = "restored_pip" =>
        \A p \in Answered : Has(origin, p) => live[p] = origin[p]

\* The same sentence, for whatever made the update fail.
FailureRestores ==
    outcome \in {"restored_pip", "restored_swap"} =>
        \A p \in Answered : Has(origin, p) => live[p] = origin[p]

\* A rollback gives back the folder the last update began from, path for path
\* of those it answers for, also when that update, or an earlier rollback, was
\* killed or failed midway.
RollbackGivesBack ==
    outcome = "reverted" =>
        \A p \in Answered : Has(origin, p) => live[p] = origin[p]

\* An update that reports success replaced every code path its bundle
\* carries, and what it replaced is in the backup for a rollback, unless the
\* rest of an older copy was in its place.
UpdatedIsWhole ==
    outcome = "updated" =>
        \A p \in Bundle[wanted] \cap PathSet :
            live[p] = wanted /\ (p \notin stale => backup[p] = origin[p])

\* While an update moves code about, each path of the old version that it
\* answers for is in the folder or in the backup, so that something can still
\* put it back.
NothingLost ==
    deed # "idle" =>
        \A p \in Answered :
            Has(origin, p) => origin[p] \in {live[p], backup[p]}

\* What an update moved is somewhere, and the engineer's half never moves.
FolderIsSafe == DataUntouched /\ NothingLost

\* What an update, its restore or a rollback reports is what the folder holds.
ReportIsTrue == PipFailureRestores /\ RollbackGivesBack /\ UpdatedIsWhole
=============================================================================
