----------------------------- MODULE VbComments -----------------------------
(***************************************************************************)
(* The comments of one relay's virtual bits: web/vb_updater and            *)
(* web/gle_exporter (model.py, export.py).  An SCD describes a VB in the   *)
(* ExtRefs of its IED, a GLE in the port comments of the VB's symbols;     *)
(* both are corrected from each other and by way of workbooks that are     *)
(* edited by hand.  A variable is the file the visitor last chose.         *)
(***************************************************************************)
EXTENDS Integers, Sequences, FiniteSets, FiniteSetsExt

CONSTANTS
    Vbs,        \* virtual bits
    VbOfRef,    \* sequence: the VB of each ExtRef, in the order of the SCD
    Subscribed, \* the ExtRefs with an iedName; the others are placeholders
    Health,     \* VBs that carry a subscription's health (pubRxStatus)
    VbOfSymbol, \* sequence: the VB of each symbol, in the order of the GLE
    Wordings,   \* a VB may be described in several ways
    MaxCells    \* bound: cells edited by hand

ASSUME CommentsAssumption ==
    /\ VbOfRef \in Seq(Vbs) /\ VbOfSymbol \in Seq(Vbs) /\ "nobody" \notin Vbs
    /\ Subscribed \subseteq DOMAIN VbOfRef /\ Health \subseteq Vbs /\ MaxCells \in Nat

VARIABLES
    desc,       \* ExtRef -> its desc
    comment,    \* symbol -> the comment of its port
    vbSheet,    \* /export-descriptions: VB -> Description cell
    portSheet,  \* /export of the GLE Exporter: symbol -> Comment cell
    cells,      \* cells edited so far
    described   \* ExtRefs that had a description at the start (history)

commentVars == <<desc, comment, vbSheet, portSheet, cells, described>>

Text(v, w) == [of |-> v, says |-> w]
Texts == [of : Vbs, says : Wordings]
Empty == [of |-> "nobody", says |-> "nothing"]
\* <comment />, which the VB Updater's pattern for a port comment does not match.
SelfClosed == [of |-> "nobody", says |-> "self-closed"]
Quality == [of |-> "nobody", says |-> "Message Quality"]
Spare == [of |-> "nobody", says |-> "reserva"]
\* A cell with None in it, and no row at all.
Untouched == [of |-> "nobody", says |-> "None"]
NoSheet == [x \in {} |-> Empty]

Refs == DOMAIN VbOfRef
Symbols == DOMAIN VbOfSymbol
RefsOf(v) == {i \in Refs : VbOfRef[i] = v}
SymbolsOf(v) == {y \in Symbols : VbOfSymbol[y] = v}
Says(y) == IF comment[y] = SelfClosed THEN Empty ELSE comment[y]

CommentsInit ==
    /\ desc \in {d \in [Refs -> {Text(v, w) : v \in Vbs, w \in Wordings} \cup {Empty}] :
                   \A i \in Refs : d[i].of \in {VbOfRef[i], "nobody"}}
    /\ comment \in [Symbols -> {Empty, SelfClosed}]
    /\ vbSheet = NoSheet /\ portSheet = NoSheet /\ cells = 0
    /\ described = {i \in Refs : desc[i] # Empty}

\* _vb_map_from_doc(): the LAST description that is not empty.
Told(d, v) ==
    LET written == {i \in RefsOf(v) : d[i] # Empty}
    IN  IF written = {} THEN Empty ELSE d[Max(written)]

\* new_comments_from_scd(): the label of a VB without a description.
NewComment(d, v) ==
    IF Told(d, v) # Empty THEN Told(d, v) ELSE IF v \in Health THEN Quality ELSE Spare

\* extract_vb_instances_from_gle(): the first comment that is not empty.
Commented(c, v) ==
    LET written == {y \in SymbolsOf(v) : c[y] \notin {Empty, SelfClosed}}
    IN  IF written = {} THEN Empty ELSE c[Min(written)]

\* vb_rows_from_doc(): one row per VB, of the first ExtRef with a signal.
Row(v) ==
    LET signal == RefsOf(v) \cap Subscribed
    IN  desc[Min(IF signal = {} THEN RefsOf(v) ELSE signal)]

\* update_scd_extrefs_for_ied(): every ExtRef of a VB, none for an empty text.
Described(d, new) ==
    [i \in Refs |-> IF VbOfRef[i] \in DOMAIN new /\ new[VbOfRef[i]] # Empty
                    THEN new[VbOfRef[i]] ELSE d[i]]

\* substitute_vb_comments_in_gle_bytes(): the first port the pattern matches.
Substituted(c, d) ==
    [y \in Symbols |-> IF RefsOf(VbOfSymbol[y]) = {} \/ c[y] = SelfClosed
                       THEN c[y] ELSE NewComment(d, VbOfSymbol[y])]

\* The first comment of each VB, for the SCD.
FromGle(c) == [v \in Vbs |-> Commented(c, v)]

\* /apply scd-to-gle: refused for an IED without VBs.
ScdToGle ==
    /\ Refs # {} /\ comment' = Substituted(comment, desc)
    /\ UNCHANGED <<desc, vbSheet, portSheet, cells, described>>

\* /apply gle-to-scd: refused when no comment is to be had, or no ExtRef takes one.
GleToScd ==
    /\ \E v \in Vbs : Commented(comment, v) # Empty /\ RefsOf(v) # {}
    /\ desc' = Described(desc, FromGle(comment))
    /\ UNCHANGED <<comment, vbSheet, portSheet, cells, described>>

\* build_vb_descriptions_xlsx().
ExportDescriptions ==
    /\ vbSheet' = [v \in {v \in Vbs : RefsOf(v) # {}} |-> Row(v)]
    /\ UNCHANGED <<desc, comment, portSheet, cells, described>>

TypeDescription(v, t) ==
    /\ v \in DOMAIN vbSheet /\ cells < MaxCells
    /\ vbSheet' = [vbSheet EXCEPT ![v] = t] /\ cells' = cells + 1
    /\ UNCHANGED <<desc, comment, portSheet, described>>

\* parse_vb_descriptions_xlsx(), update_scd_with_descriptions_multi(): a sheet
\* without any description is no IED of it.
ImportDescriptions ==
    /\ \E v \in DOMAIN vbSheet : vbSheet[v] # Empty
    /\ desc' = Described(desc, vbSheet)
    /\ UNCHANGED <<comment, vbSheet, portSheet, cells, described>>

\* build_xlsx_for_selections(): a row per port; "" is written as it is, and
\* read back as an empty cell.
ExportComments ==
    /\ portSheet' = [y \in Symbols |-> IF Says(y) = Empty THEN Untouched ELSE Says(y)]
    /\ UNCHANGED <<desc, comment, vbSheet, cells, described>>

\* A text, or an explicit "" that clears the port.
TypeComment(y, t) ==
    /\ y \in DOMAIN portSheet /\ cells < MaxCells
    /\ portSheet' = [portSheet EXCEPT ![y] = t] /\ cells' = cells + 1
    /\ UNCHANGED <<desc, comment, vbSheet, described>>

\* diff_updates_against_gle(): what differs from the file and is not None.
Changed == {y \in DOMAIN portSheet : portSheet[y] \notin {Untouched, Says(y)}}

\* update_port_comments_in_gle_bytes(): either form of a comment is replaced; a
\* cleared one is written <comment />.
WritePorts ==
    comment' = [y \in Symbols |->
        IF y \notin Changed THEN comment[y]
        ELSE IF portSheet[y] = Empty THEN SelfClosed ELSE portSheet[y]]

ImportComments ==
    /\ DOMAIN portSheet # {} /\ WritePorts
    /\ UNCHANGED <<desc, vbSheet, portSheet, cells, described>>

CommentsNext ==
    \/ ScdToGle \/ GleToScd
    \/ ExportDescriptions \/ ImportDescriptions
    \/ ExportComments \/ ImportComments
    \/ \E v \in Vbs, w \in Wordings :
        \/ TypeDescription(v, Text(v, w))
        \/ \E y \in SymbolsOf(v) : TypeComment(y, Text(v, w))
    \/ \E v \in Vbs : TypeDescription(v, Empty)
    \/ \E y \in Symbols : TypeComment(y, Empty)

CommentsSpec == CommentsInit /\ [][CommentsNext]_commentVars

----------------------------------------------------------------------------
(* Properties. *)

Labels == {Empty, Quality, Spare}

\* Every variable keeps to its values.
CommentsTypeOK ==
    /\ desc \in [Refs -> Texts \cup Labels]
    /\ comment \in [Symbols -> Texts \cup Labels \cup {SelfClosed}]
    /\ cells \in 0 .. MaxCells

(***************************************************************************)
(* However often descriptions go from one file to the other, by way of a   *)
(* workbook or not: a description is replaced and never taken away, no     *)
(* text lands on another VB, and what a VB's symbols took over from the    *)
(* SCD is what they would tell it back (vb_updater/export.py, model.py).   *)
(***************************************************************************)
DescriptionsAreKept ==
    /\ \A i \in described : desc[i] # Empty
    /\ \A i \in Refs : desc[i].of \in {VbOfRef[i], "nobody"}
    /\ \A y \in Symbols : comment[y].of \in {VbOfSymbol[y], "nobody"}
    /\ LET there == Substituted(comment, desc)
           back == Described(desc, FromGle(there))
       IN  \A v \in {VbOfRef[i] : i \in {i \in Refs : desc[i] # Empty}} :
              Told(back, v) \in {desc[i] : i \in RefsOf(v)} \ {Empty}
=============================================================================
