---------------------------- MODULE TargetRegion ----------------------------
(***************************************************************************)
(* AsciiTargetReader (core/target_region.py) on a relay that only answers  *)
(* TAR: a row's answer is a line with its eight names and then one with    *)
(* their values, and a pause longer than the quiet period between the two, *)
(* or before them, ends the reading first; the rest arrives under the next *)
(* command.  A row stands for one of its bits, and the bit has its name.   *)
(***************************************************************************)
EXTENDS Integers, Sequences, FiniteSetsExt

CONSTANTS
    Rows,       \* the rows of the Relay Word, 0 .. n
    Ghost,      \* a bit the drawing asks for and the relay does not have
    Unknown,    \* no name, no place, no value
    MaxAsks,    \* bound: commands sent
    MaxPauses   \* bound: answers cut by a pause

ASSUME RegionAssumption ==
    /\ Max(Rows) \in Nat /\ Rows = 0 .. Max(Rows)
    /\ Ghost \notin Rows /\ Unknown \notin Rows \cup {Ghost}
    /\ MaxAsks \in Nat /\ MaxPauses \in Nat

VARIABLES
    task,           \* what the reader is at
    line,           \* pieces of answers not read yet, in order
    heard,          \* what _parse_tar_row makes of the pieces read so far
    row_to_names,   \* layout: which names a row is known to have
    bit_to_pos,     \* layout: in which row a bit is
    not_findable,   \* layout: bits that were looked for in vain
    saved,          \* the layout in the FID's cache file
    digitals,       \* LiveState.digitals: of which row each bit's value is
    asks, pauses    \* how many so far

regionVars == <<task, line, heard, row_to_names, bit_to_pos, not_findable,
                saved, digitals, asks, pauses>>
layoutVars == <<row_to_names, bit_to_pos, not_findable>>

Bits == Rows \cup {Ghost}
Place == Rows \cup {Unknown}
Layout == [names : [Rows -> Place], pos : [Bits -> Place], lost : SUBSET Bits]
NoLayout == [names |-> [r \in Rows |-> Unknown],
             pos   |-> [b \in Bits |-> Unknown], lost |-> {}]
Silent == [names |-> Unknown, values |-> Unknown]
\* Tasks: what is asked, the row it is about, the bit it is for, the attempt.
Doing(what, row, bit, try) ==
    [what |-> what, row |-> row, bit |-> bit, try |-> try]
Idle == Doing("idle", Unknown, Unknown, 0)
Whats == {"idle", "sweep", "bit", "find", "read", "answer"}

RegionInit ==
    /\ task = Idle /\ line = <<>> /\ heard = Silent
    /\ row_to_names = NoLayout.names /\ bit_to_pos = NoLayout.pos
    /\ not_findable = {} /\ saved = NoLayout
    /\ digitals = [b \in Bits |-> Unknown]
    /\ asks = 0 /\ pauses = 0

\* _send_ascii(): what has arrived of earlier answers is thrown away, and the
\* relay begins to answer: with the row, or without one for a bit it lacks.
Ask(t, row) ==
    /\ asks < MaxAsks /\ asks' = asks + 1
    /\ task' = t /\ heard' = Silent
    /\ \E n \in 0 .. Len(line) :
        line' = SubSeq(line, n + 1, Len(line)) \o
            IF row = Unknown THEN <<>>
            ELSE <<[row |-> row, piece |-> "names"], [row |-> row, piece |-> "values"]>>

\* The FIRST line of names and the LAST line of values make the answer.
Hear ==
    /\ task.what # "idle" /\ line # <<>>
    /\ heard' = IF Head(line).piece = "values"
                THEN [heard EXCEPT !.values = Head(line).row]
                ELSE [heard EXCEPT !.names = IF @ = Unknown THEN Head(line).row
                                                            ELSE @]
    /\ line' = Tail(line)
    /\ UNCHANGED <<task, layoutVars, saved, digitals, asks, pauses>>

\* The quiet period has passed: mark_clean(), whatever is still to come.
Quiet == IF line = <<>> THEN UNCHANGED pauses
                        ELSE pauses < MaxPauses /\ pauses' = pauses + 1

\* A row's names are recorded, and the places of bits that had none.
Record(row, names) ==
    /\ row_to_names' = [row_to_names EXCEPT ![row] = names]
    /\ bit_to_pos' = [bit_to_pos EXCEPT ![names] = IF @ = Unknown THEN row ELSE @]

\* connect(): the cache of this FID, of this version, or an empty layout; the
\* poll and the discovery before it have ended, and the stream is a new one.
Connect ==
    /\ task = Idle
    /\ \E l \in {saved, NoLayout} :
        /\ row_to_names' = l.names /\ not_findable' = l.lost
        \* _reindex(): the rows say where a bit is when the index does not.
        /\ bit_to_pos' = [b \in Bits |->
              IF l.pos[b] # Unknown THEN l.pos[b]
              ELSE IF \E r \in Rows : l.names[r] = b
                   THEN CHOOSE r \in Rows : l.names[r] = b ELSE Unknown]
    /\ line' = <<>> /\ digitals' = [b \in Bits |-> Unknown]
    /\ UNCHANGED <<task, heard, saved, asks, pauses>>

Save ==
    /\ task = Idle
    /\ saved' = [names |-> row_to_names, pos |-> bit_to_pos, lost |-> not_findable]
    /\ UNCHANGED <<task, line, heard, layoutVars, digitals, asks, pauses>>

\* discover_all_rows(), one row of the sweep.
SweepRow(r) ==
    /\ task = Idle /\ row_to_names[r] = Unknown
    /\ Ask(Doing("sweep", r, Unknown, 1), r)
    /\ UNCHANGED <<layoutVars, saved, digitals, pauses>>

Swept ==
    /\ task.what = "sweep" /\ Quiet
    /\ IF heard.names = Unknown THEN UNCHANGED <<row_to_names, bit_to_pos>>
                                ELSE Record(task.row, heard.names)
    /\ task' = Idle
    /\ UNCHANGED <<line, heard, not_findable, saved, digitals, asks>>

\* discover_bits(): TAR <bit>, for one that is neither known nor given up.
LookUpBit(b) ==
    /\ task = Idle /\ bit_to_pos[b] = Unknown /\ b \notin not_findable
    /\ Ask(Doing("bit", 0, b, 1), IF b = Ghost THEN Unknown ELSE b)
    /\ UNCHANGED <<layoutVars, saved, digitals, pauses>>

\* Its row's names: if the bit is among them, which row has them?
BitAnswered ==
    /\ task.what = "bit" /\ Quiet
    /\ \/ /\ heard.names = task.bit
          /\ task' = Doing("find", Min(Rows), task.bit, 0)
          /\ UNCHANGED not_findable
       \/ /\ heard.names # task.bit
          /\ not_findable' = not_findable \cup {task.bit}
          /\ task' = Idle
    /\ UNCHANGED <<line, heard, row_to_names, bit_to_pos, saved, digitals, asks>>

\* _find_row_index_for(): the next row, known, asked for, or none left.
NextRow == IF task.row = Max(Rows) THEN [task EXCEPT !.try = 2]
                                   ELSE [task EXCEPT !.row = @ + 1]

Compare ==
    /\ task.what = "find" /\ task.try = 0
    /\ \/ /\ row_to_names[task.row] = Unknown
          /\ Ask([task EXCEPT !.try = 1], task.row)
          /\ UNCHANGED <<bit_to_pos, row_to_names, not_findable>>
       \/ /\ row_to_names[task.row] = task.bit
          /\ Record(task.row, task.bit) /\ task' = Idle
          /\ UNCHANGED <<line, heard, asks, not_findable>>
       \/ /\ row_to_names[task.row] \notin {Unknown, task.bit}
          /\ task' = NextRow
          /\ UNCHANGED <<line, heard, asks, layoutVars>>
    /\ UNCHANGED <<saved, digitals, pauses>>

RowAnswered ==
    /\ task.what = "find" /\ task.try = 1 /\ Quiet
    /\ \/ /\ heard.names # Unknown
          /\ row_to_names' = [row_to_names EXCEPT ![task.row] = heard.names]
          /\ task' = [task EXCEPT !.try = 0]
       \/ /\ heard.names = Unknown
          /\ task' = [NextRow EXCEPT !.try = IF task.row = Max(Rows) THEN 2 ELSE 0]
          /\ UNCHANGED row_to_names
    /\ UNCHANGED <<line, heard, bit_to_pos, not_findable, saved, digitals, asks>>

NoSuchRow ==
    /\ task.what = "find" /\ task.try = 2
    /\ not_findable' = not_findable \cup {task.bit} /\ task' = Idle
    /\ UNCHANGED <<line, heard, row_to_names, bit_to_pos, saved, digitals,
                   asks, pauses>>

\* poll_loop_tar(): the meter's frame comes first and what precedes it in the
\* stream is skipped, unless that frame is late too.
Turn ==
    /\ task = Idle /\ line # <<>>
    /\ line' = <<>>
    /\ UNCHANGED <<task, heard, layoutVars, saved, digitals, asks, pauses>>

\* read_via_tar_rows(): one command per row that has a wanted bit.
ReadRow(r) ==
    /\ task = Idle /\ \E b \in Bits : bit_to_pos[b] = r
    /\ Ask(Doing("read", r, Unknown, 1), r)
    /\ UNCHANGED <<layoutVars, saved, digitals, pauses>>

\* Truncated: once more, with more slack.
Retry ==
    /\ task.what = "read" /\ task.try = 1 /\ Unknown \in {heard.names, heard.values}
    /\ Quiet
    /\ task' = [task EXCEPT !.what = "answer"]
    /\ UNCHANGED <<line, heard, layoutVars, saved, digitals, asks>>

Again ==
    /\ task.what = "answer" /\ Ask(Doing("read", task.row, Unknown, 2), task.row)
    /\ UNCHANGED <<layoutVars, saved, digitals, pauses>>

\* Mutant: a bit takes the value at its place in the layout, as VIEW has it.
RowReadByPlace ==
    /\ task.what = "read" /\ Quiet
    /\ task.try = 2 \/ Unknown \notin {heard.names, heard.values}
    /\ digitals' = [b \in Bits |->
          IF bit_to_pos[b] # task.row THEN digitals[b] ELSE heard.values]
    /\ task' = Idle
    /\ UNCHANGED <<line, heard, layoutVars, saved, asks>>

\* Whole, or given up: a bit takes the value under its own name, or none.
RowRead ==
    /\ task.what = "read" /\ Quiet
    /\ task.try = 2 \/ Unknown \notin {heard.names, heard.values}
    /\ digitals' = [b \in Bits |->
          IF bit_to_pos[b] # task.row THEN digitals[b]
          ELSE IF heard.names = b THEN heard.values ELSE Unknown]
    /\ task' = Idle
    /\ UNCHANGED <<line, heard, layoutVars, saved, asks>>

RegionNext ==
    \/ Connect \/ Save \/ Hear \/ Turn
    \/ \E r \in Rows : SweepRow(r) \/ ReadRow(r)
    \/ \E b \in Bits : LookUpBit(b)
    \/ Swept \/ BitAnswered \/ Compare \/ RowAnswered \/ NoSuchRow
    \/ Retry \/ Again \/ RowRead

RegionSpec == RegionInit /\ [][RegionNext]_regionVars

-----------------------------------------------------------------------------
(* Properties. *)

\* Every variable keeps to its values.
RegionTypeOK ==
    /\ task \in [what : Whats, row : Place, bit : Bits \cup {Unknown}, try : 0 .. 2]
    /\ line \in Seq([row : Rows, piece : {"names", "values"}])
    /\ heard \in [names : Place, values : Place]
    /\ row_to_names \in [Rows -> Place] /\ bit_to_pos \in [Bits -> Place]
    /\ not_findable \subseteq Bits /\ saved \in Layout
    /\ digitals \in [Bits -> Place]
    /\ asks \in 0 .. MaxAsks /\ pauses \in 0 .. MaxPauses

(***************************************************************************)
(* A bit never shows another row's value, whatever a discovery with late   *)
(* answers wrote in the layout and the cache: the value is looked up under *)
(* the bit's name in the answer itself.  One pause cannot put one row's     *)
(* values under another's names; two can, which is why the bound is one.   *)
(***************************************************************************)
TarNeverMislabels ==
    \A b \in Bits : digitals[b] \in {b, Unknown}
=============================================================================
