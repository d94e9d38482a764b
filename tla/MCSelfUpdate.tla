---------------------------- MODULE MCSelfUpdate ----------------------------
(***************************************************************************)
(* Self-update for TLC: a machine has a portable folder or a versioned     *)
(* install, never both, and the home's question touches neither.  A        *)
(* behaviour is therefore one of three stories, chosen at the start, and   *)
(* their state spaces add up instead of multiplying.                       *)
(***************************************************************************)
EXTENDS PortableUpdate, VersionedUpdate, UpdateCheck, TLC

CONSTANTS src, app, version, example, config, data

VARIABLE story

allVars == <<folderVars, versionedVars, checkVars, story>>

R1 == [kind |-> "release", n |-> 1, floor |-> 0]
R2 == [kind |-> "release", n |-> 2, floor |-> 0]
S2 == [kind |-> "snapshot", n |-> 2, floor |-> 0]
\* A release that asks for a newer Python than this machine has.
R3 == [kind |-> "release", n |-> 3, floor |-> 3]
New3 == [kind |-> "release", n |-> 3, floor |-> 0]
\* What a build outside git stamps: 2.0.0.dev0+gunknown.
Odd == [kind |-> "other", n |-> 2, floor |-> 0]

Bundles == {R1, R2, New3}
Releases == {R1, R2, R3}
Folders == {R1, S2, R2, Odd}
OwnVersions == {R1, R2}
SwapOrder == <<src, app, version, example>>
\* The first version had no example of a config.ini, and later bundles bring a data/ along.
Carries == [v \in Bundles |-> {src, app, version} \cup
                              (IF v = R1 THEN {} ELSE {example, data})]

Init ==
    /\ story \in {"portable", "versioned", "home"}
    /\ FolderInit /\ (story # "portable" => wanted = R1 /\ packages = Absent)
    /\ VersionedInit /\ (story # "versioned" => goal = R1)
    /\ CheckInit

Portable ==
    /\ story = "portable" /\ FolderNext
    /\ UNCHANGED <<story, versionedVars, checkVars>>

Versioned ==
    /\ story = "versioned" /\ VersionedNext
    /\ UNCHANGED <<story, folderVars, checkVars>>

Home ==
    /\ story = "home" /\ CheckNext
    /\ UNCHANGED <<story, folderVars, versionedVars>>

Next == Portable \/ Versioned \/ Home

Spec == Init /\ [][Next]_allVars

\* Every variable keeps to its values.
UpdateTypeOK == FolderTypeOK /\ VersionedTypeOK /\ CheckTypeOK
=============================================================================
