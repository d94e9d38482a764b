------------------------------ MODULE Versions ------------------------------
(***************************************************************************)
(* How PAC CT orders versions (src/src/pacct/version.py) and decides which *)
(* published one to offer (src/src/pacct/update.py, rule 4).               *)
(*                                                                         *)
(* A version is a record: `kind' says whether its text is X.Y.Z, a         *)
(* snapshot X.Y.Z.dev0+g<sha>, or neither; `n' is the place of X.Y.Z among *)
(* the releases (the tuples of the code compare as these numbers do).      *)
(* `floor' is the interpreter the manifest asks for, 0 when it makes no    *)
(* claim this program can read.                                            *)
(***************************************************************************)
EXTENDS Naturals

CONSTANT RunningPython    \* sys.version_info of this machine

VersionKinds == {"release", "snapshot", "other"}

\* What read_version answers where there is no VERSION file.
UnknownVersion == [kind |-> "other", n |-> 0, floor |-> 0]

IsRelease(v) == v.kind = "release"

\* ordering_key is not None.
Placed(v) == v.kind \in {"release", "snapshot"}

\* The fourth element of the key puts a snapshot below its own release.
OrderingKey(v) == 2 * v.n + (IF IsRelease(v) THEN 1 ELSE 0)

Older(v, w) == OrderingKey(v) < OrderingKey(w)

IsNewer(candidate, running) ==
    /\ IsRelease(candidate)
    /\ Placed(running)
    /\ Older(running, candidate)

\* unsupported_python: a manifest with no readable floor makes no claim.
Supported(v) == v.floor <= RunningPython

UpdateAvailable(candidate, running) ==
    IsNewer(candidate, running) /\ Supported(candidate)

\* sorted(installed)[-1] among those a rollback may choose.
Newest(vs) == CHOOSE v \in vs : \A w \in vs : ~Older(v, w)
=============================================================================
