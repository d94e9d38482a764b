--------------------------- MODULE OrderedReadings ---------------------------
(***************************************************************************)
(* What the polling of a relay promises the screen: readings are shown in  *)
(* the order in which they were asked for, and one is at most as many      *)
(* turns old as turns have ended with an answer still to come.             *)
(***************************************************************************)
EXTENDS Integers

VARIABLES
    begun,      \* turns begun
    missed,     \* turns that left an answer behind
    ripe,       \* the turn whose answer is about to be shown, 0 for none
    reading     \* the turn whose answer is shown

readingVars == <<begun, missed, ripe, reading>>

ReadingsInit == begun = 0 /\ missed = 0 /\ ripe = 0 /\ reading = 0

\* A turn begins; the one before it may have left an answer.
Begin ==
    /\ begun' = begun + 1 /\ missed' \in {missed, missed + 1}
    /\ UNCHANGED <<ripe, reading>>

\* The turn goes without an answer that is still to come.
Miss == missed' = missed + 1 /\ UNCHANGED <<begun, ripe, reading>>

\* An answer is found: younger than what is shown, not older than allowed.
Ripen ==
    /\ ripe = 0
    /\ ripe' \in {r \in reading + 1 .. begun : begun - r <= missed}
    /\ UNCHANGED <<begun, missed, reading>>

\* The turn ends: what it found is shown, or is of no use.
Show ==
    /\ reading' \in IF ripe = 0 THEN {reading} ELSE {reading, ripe}
    /\ ripe' = 0
    /\ UNCHANGED <<begun, missed>>

ReadingsNext == Begin \/ Miss \/ Ripen \/ Show

ReadingsSpec == ReadingsInit /\ [][ReadingsNext]_readingVars
=============================================================================
