------------------------------- MODULE DnpMap -------------------------------
(***************************************************************************)
(* The editor of DNP maps (web/dnp_map/model.py, handler.py, export.py).   *)
(* A sheet is one SET_D session of one relay of one RDB; what the visitor  *)
(* changes is kept as differences against the file, which is never         *)
(* written: an export applies a copy of them.  Requests of several tabs    *)
(* take the session's lock, each for its whole change.                     *)
(***************************************************************************)
EXTENDS Integers, FiniteSets, Functions

CONSTANTS
    Sheets,     \* <<rdb, relay, session>> of the project
    RdbOf,      \* the RDB of a sheet
    ModelOf,    \* the relay model of a sheet, None when it declares none
    Points,     \* the base keys of a map: BI_00, AI_3, ...
    Scaled,     \* points of a model that have a scale (and deadband) line
    Quantities, \* what a point may carry; a scale is named by its quantity
    InFile,     \* the quantity of each point in the file of each sheet
    MaxTyped,   \* bound: fields typed by hand
    NoModel

ASSUME MapAssumption ==
    /\ InFile \in [Sheets -> [Points -> Quantities]]
    /\ DOMAIN RdbOf = Sheets /\ DOMAIN ModelOf = Sheets
    /\ Scaled \in [Range(ModelOf) -> SUBSET Points] /\ MaxTyped \in Nat

VARIABLES
    edits,      \* sheet -> pending changes, key -> value
    typed,      \* fields typed so far
    loose,      \* sheets some field of which was typed, or copied alone (history)
    snapshot    \* what the export in progress took, for its RDB

dnpVars == <<edits, typed, loose, snapshot>>

Keys(s) == (Points \X {"value"}) \cup (Scaled[ModelOf[s]] \X {"scale"})
Original(s, k) == InFile[s][k[1]]
NoEdits == [k \in {} |-> 0]

DnpInit ==
    /\ edits = [s \in Sheets |-> NoEdits] /\ typed = 0 /\ loose = {}
    /\ snapshot = [s \in {} |-> NoEdits]

\* current_value(): the pending change, else the file.
Current(s, k) == IF k \in DOMAIN edits[s] THEN edits[s][k] ELSE Original(s, k)

\* record_edits(): what the file lacks is skipped, what equals it is no change.
Recorded(s, changes) ==
    LET known == DOMAIN changes \cap Keys(s)
        new(k) == IF k \in known THEN changes[k] ELSE edits[s][k]
    IN  [k \in {k \in known \cup DOMAIN edits[s] : new(k) # Original(s, k)} |-> new(k)]

\* POST /edit: one field, of the session's own points.
EditField(s, k, q) ==
    /\ k \in Keys(s) /\ typed < MaxTyped
    /\ edits' = [edits EXCEPT ![s] = Recorded(s, [x \in {k} |-> q])]
    /\ typed' = typed + 1 /\ loose' = loose \cup {s}
    /\ UNCHANGED snapshot

\* The keys that change places: the values and, where both have one, scales.
Attributes(s, a, b) ==
    {"value"} \cup IF {a, b} \subseteq Scaled[ModelOf[s]] THEN {"scale"} ELSE {}

\* Mutant: a drag moves the value alone.
SwapValues(s, a, b) ==
    /\ a # b
    /\ edits' = [edits EXCEPT ![s] = Recorded(s,
           [k \in {a, b} \X {"value"} |->
               Current(s, <<IF k[1] = a THEN b ELSE a, k[2]>>)])]
    /\ UNCHANGED <<typed, loose, snapshot>>

\* POST /swap: read and written under one lock.
Swap(s, a, b) ==
    /\ a # b
    /\ edits' = [edits EXCEPT ![s] = Recorded(s,
           [k \in {a, b} \X Attributes(s, a, b) |->
               Current(s, <<IF k[1] = a THEN b ELSE a, k[2]>>)])]
    /\ UNCHANGED <<typed, loose, snapshot>>

\* _map_values(): the chosen points as they read now, with their scales.
MapValues(s, chosen) ==
    [k \in {k \in Keys(s) : k[1] \in chosen} |-> Current(s, k)]

\* copy_map_to(): every target against its own file, the source skipped.
CopyTo(s, targets, chosen) ==
    LET wanted == MapValues(s, chosen)
    IN  /\ edits' = [t \in Sheets |->
               IF t \in targets \ {s} THEN Recorded(t, wanted) ELSE edits[t]]
        /\ loose' = IF chosen = Points /\ s \notin loose THEN loose \ targets
                    ELSE loose \cup (targets \ {s})
        /\ UNCHANGED <<typed, snapshot>>

\* POST /copy-session: the whole map to the other sessions of its RDB.
CopySession(s) ==
    CopyTo(s, {t \in Sheets \ {s} : RdbOf[t] = RdbOf[s] /\ ModelOf[t] = ModelOf[s]},
           Points)

\* POST /copy-to-relays: to sheets of ONE rdb and of the source's own model.
CopyToRelays(s, targets, chosen) ==
    /\ ModelOf[s] # NoModel /\ targets # {} /\ chosen # {}
    /\ \A t, u \in targets : RdbOf[t] = RdbOf[u]
    /\ \A t \in targets : ModelOf[t] = ModelOf[s]
    /\ CopyTo(s, targets, chosen)

\* dirty_summary(): what the panel counts for an RDB.
Dirty(r) == {s \in Sheets : RdbOf[s] = r /\ DOMAIN edits[s] # {}}

\* POST /export takes a copy under the lock; with nothing pending, no file.
TakeSnapshot(r) ==
    /\ DOMAIN snapshot = {} /\ Dirty(r) # {}
    /\ snapshot' = [s \in Dirty(r) |-> edits[s]]
    /\ UNCHANGED <<edits, typed, loose>>

\* apply_edits(): the session's file with the changes of the copy.
Applied(s) ==
    [k \in Keys(s) |-> IF k \in DOMAIN snapshot[s] THEN snapshot[s][k]
                                                   ELSE Original(s, k)]

\* The streams are built from the copy; what is pending stays pending.
BuildStreams ==
    /\ DOMAIN snapshot # {}
    /\ snapshot' = [s \in {} |-> NoEdits]
    /\ UNCHANGED <<edits, typed, loose>>

DnpNext ==
    \/ \E s \in Sheets :
        \/ \E k \in Keys(s), q \in Quantities : EditField(s, k, q)
        \/ \E a, b \in Points : Swap(s, a, b)
        \/ CopySession(s)
        \/ \E targets \in SUBSET Sheets, chosen \in SUBSET Points :
              CopyToRelays(s, targets, chosen)
    \/ \E r \in Range(RdbOf) : TakeSnapshot(r)
    \/ BuildStreams

DnpSpec == DnpInit /\ [][DnpNext]_dnpVars

-----------------------------------------------------------------------------
(* Properties. *)

\* Every variable keeps to its values.
DnpTypeOK ==
    /\ \A s \in Sheets : /\ DOMAIN edits[s] \subseteq Keys(s)
                         /\ Range(edits[s]) \subseteq Quantities
    /\ typed \in 0 .. MaxTyped /\ loose \subseteq Sheets
    /\ DOMAIN snapshot \subseteq Sheets

(***************************************************************************)
(* However a map is dragged about and copied from relay to relay, as long  *)
(* as nothing was typed into it no quantity is lost or doubled, and a      *)
(* scale stays with the quantity it was made for.  A change that leads     *)
(* back to the file is no pending change, and every stream an export       *)
(* builds differs from the file it replaces.                               *)
(***************************************************************************)
PointsAreKept ==
    /\ \A s \in DOMAIN snapshot : \E k \in Keys(s) : Applied(s)[k] # Original(s, k)
    /\ \A s \in Sheets :
        /\ \A k \in DOMAIN edits[s] : edits[s][k] # Original(s, k)
        /\ s \notin loose =>
            /\ \A a, b \in Points :
                Current(s, <<a, "value">>) = Current(s, <<b, "value">>) => a = b
            /\ Scaled[ModelOf[s]] = Points => \A a \in Points :
                Current(s, <<a, "scale">>) = Current(s, <<a, "value">>)
=============================================================================
