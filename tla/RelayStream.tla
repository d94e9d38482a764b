---------------------------- MODULE RelayStream ----------------------------
(***************************************************************************)
(* The stream of one relay as its polling reads it (web/glv/poll.py,       *)
(* core/relay_conn.py, and cli/runner.py for the terminal).  Commands are  *)
(* answered in order, and an answer may come after the turn that asked for *)
(* it: whether the next turn throws it away depends on the channel's flag  *)
(* `clean', which only knows how the last turn ended.                      *)
(***************************************************************************)
EXTENDS Integers, Sequences

CONSTANTS
    MaxTurns,   \* bound: turns of the loop
    MaxLate     \* bound: turns whose answer comes after they are over

ASSUME StreamAssumption == MaxTurns \in Nat /\ MaxLate \in Nat

VARIABLES
    mode,       \* which loop reads: poll_loop, ..., the terminal's two
    owed,       \* what the relay has yet to answer, oldest first
    wire,       \* answers that have arrived and nobody has read
    clean,      \* FastMessageChannel._clean, client._buffer_clean in the CLI
    at,         \* where the turn is
    turn,       \* how many turns have begun
    found,      \* from which turn are the answers found so far, 0 for none
    shown,      \* the LiveState, or what the terminal printed last
    late        \* turns that left an answer behind them (history)

streamVars == <<mode, owed, wire, clean, at, turn, found, shown, late>>

Kinds == {"meter", "target"}
Terminal == mode \in {"pipelined", "robust"}
Commands == IF mode \in {"target", "pipelined"} THEN <<"meter", "target">>
                                                ELSE <<"meter">>
Nothing == [k \in Kinds |-> 0]
Complete == \A i \in DOMAIN Commands : found[Commands[i]] # 0

StreamInit ==
    /\ mode \in {"target", "fastmeter", "tar", "pipelined", "robust"}
    /\ owed = <<>> /\ wire = <<>> /\ clean = FALSE
    /\ at = "rest" /\ turn = 0 /\ late = 0
    /\ found = Nothing
    /\ shown = [analogs |-> 0, digitals |-> 0, error |-> "", stamp |-> 0]

\* One more turn whose answer comes later, as far as the bound goes.
Leaves(behind) ==
    IF behind THEN late < MaxLate /\ late' = late + 1 ELSE UNCHANGED late

\* The relay answers, at its own pace.
Reply ==
    /\ owed # <<>>
    /\ wire' = Append(wire, Head(owed)) /\ owed' = Tail(owed)
    /\ UNCHANGED <<mode, clean, at, turn, found, shown, late>>

\* Mutant: the turn trusts that nothing was left.
DrainNothing ==
    /\ at = "rest" /\ turn < MaxTurns
    /\ Leaves(~clean /\ owed # <<>>)
    /\ turn' = turn + 1 /\ at' = "send"
    /\ UNCHANGED <<mode, owed, wire, clean, found, shown>>

\* channel.drain(): nothing to do when clean; else whatever HAS arrived goes.
Drain ==
    /\ at = "rest" /\ turn < MaxTurns
    /\ wire' = IF clean THEN wire ELSE <<>>
    /\ Leaves(~clean /\ owed # <<>>)
    /\ turn' = turn + 1 /\ at' = "send"
    /\ UNCHANGED <<mode, owed, clean, found, shown>>

\* Mutant: the buffer of the last turn is kept.
SendOn ==
    /\ at = "send"
    /\ clean' = FALSE /\ at' = "read"
    /\ owed' = owed \o [i \in DOMAIN Commands |->
                           [kind |-> Commands[i], turn |-> turn]]
    /\ UNCHANGED <<mode, wire, turn, found, shown, late>>

\* mark_dirty(), and the commands back to back.
Send ==
    /\ at = "send"
    /\ clean' = FALSE /\ found' = Nothing /\ at' = "read"
    /\ owed' = owed \o [i \in DOMAIN Commands |->
                           [kind |-> Commands[i], turn |-> turn]]
    /\ UNCHANGED <<mode, wire, turn, shown, late>>

\* Where the first answer of each kind is in the n oldest, 0 for nowhere.
IsFirst(first, n) ==
    \A k \in Kinds :
        /\ first[k] # 0 => wire[first[k]].kind = k
        /\ \A i \in 1 .. n :
              first[k] = 0 \/ i < first[k] => wire[i].kind # k

\* A chunk is added to the buffer: the FIRST answer of each kind counts.
ReadChunk ==
    /\ at = "read" /\ ~Complete
    /\ \E n \in 1 .. Len(wire) : \E first \in [Kinds -> 0 .. n] :
        /\ IsFirst(first, n)
        /\ found' = [k \in Kinds |->
               IF found[k] = 0 /\ first[k] # 0 THEN wire[first[k]].turn
                                               ELSE found[k]]
        /\ wire' = SubSeq(wire, n + 1, Len(wire))
    /\ UNCHANGED <<mode, owed, clean, at, turn, shown, late>>

\* Everything asked for is there.  The terminal's robust poll waits 30 ms and
\* eats what came behind.
Whole ==
    /\ at = "read" /\ Complete
    /\ clean' = TRUE /\ at' = "publish"
    /\ wire' = IF mode = "robust" THEN <<>> ELSE wire
    /\ UNCHANGED <<mode, owed, turn, found, shown, late>>

\* Silence behind the meter's frame, or the deadline without one.  The loops
\* of the GLV mark the channel clean all the same.
Silence ==
    /\ at = "read" /\ ~Complete /\ wire = <<>>
    /\ ~Terminal \/ found["meter"] # 0
    /\ clean' = TRUE /\ at' = "publish"
    /\ Leaves(owed # <<>>)
    /\ UNCHANGED <<mode, owed, wire, turn, found, shown>>

\* The terminal raises TimeoutError and leaves the channel dirty; so does any
\* exception of the socket in the loops of the GLV.
Raise ==
    /\ at = "read"
    /\ Terminal => wire = <<>> /\ found["meter"] = 0
    /\ at' = "rest"
    /\ shown' = [shown EXCEPT !.error = "poll"]
    /\ UNCHANGED <<mode, owed, wire, clean, turn, found, late>>

\* What the screen gets of a turn whose frame was parsed, or could not be.
Reading(parsed) ==
    LET metered == parsed /\ found["meter"] # 0
        bits == IF mode = "fastmeter" THEN metered ELSE found["target"] # 0
    IN  [analogs  |-> IF metered THEN found["meter"] ELSE shown.analogs,
         digitals |-> IF ~bits THEN shown.digitals
                      ELSE IF mode = "fastmeter" THEN found["meter"]
                      ELSE found["target"],
         error    |-> IF found["meter"] # 0 THEN IF parsed THEN "" ELSE "parse"
                      ELSE IF mode = "target" THEN "" ELSE "timeout",
         stamp    |-> turn]

\* The reading goes to the screen; the terminal shows nothing it cannot parse.
PublishTurn ==
    /\ at = "publish"
    /\ \E parsed \in BOOLEAN : (Terminal => parsed) /\ shown' = Reading(parsed)
    /\ at' = "rest"
    /\ UNCHANGED <<mode, owed, wire, clean, turn, found, late>>

StreamNext ==
    Reply \/ Drain \/ Send \/ ReadChunk \/ Whole \/ Silence \/ Raise \/ PublishTurn

StreamSpec == StreamInit /\ [][StreamNext]_streamVars

----------------------------------------------------------------------------
(* Properties. *)

Answer == [kind : Kinds, turn : 1 .. MaxTurns]

\* Every variable keeps to its values.
StreamTypeOK ==
    /\ owed \in Seq(Answer) /\ wire \in Seq(Answer)
    /\ clean \in BOOLEAN /\ turn \in 0 .. MaxTurns /\ late \in 0 .. MaxLate
    /\ at \in {"rest", "send", "read", "publish"}
    /\ found \in [Kinds -> 0 .. MaxTurns]
    /\ shown.stamp \in 0 .. MaxTurns

(***************************************************************************)
(* What a turn publishes was asked for by that turn, or by one as many     *)
(* turns before it as answers have come late: a late answer is taken for   *)
(* the next turn's own, costs one turn each, and nothing else does, not    *)
(* even a turn of the terminal that failed (its leftovers are drained).    *)
(***************************************************************************)
LagIsBounded ==
    at = "publish" =>
        \A k \in Kinds : found[k] # 0 => turn - found[k] <= late

(***************************************************************************)
(* A reading that is stamped as of now, with no error beside it, is one:   *)
(* something was read in that turn.                                        *)
(***************************************************************************)
StampedIsRead ==
    at = "rest" /\ shown.stamp = turn /\ turn # 0 /\ shown.error = "" =>
        \E k \in Kinds : found[k] # 0

(***************************************************************************)
(* What the screen is told is honest: no older than LagIsBounded allows,   *)
(* and stamped only when something was read.  A 4xx is the exception: its  *)
(* loop stamps a turn in which the relay said nothing, without an error.   *)
(***************************************************************************)
StreamIsHonest == LagIsBounded /\ (mode # "target" => StampedIsRead)

(***************************************************************************)
(* The stream implements the promise of OrderedReadings for the analogs.   *)
(***************************************************************************)
Ordered == INSTANCE OrderedReadings WITH
    begun <- turn, missed <- late, reading <- shown.analogs,
    ripe <- IF at \in {"read", "publish"} THEN found["meter"] ELSE 0

ReadingsAreOrdered == Ordered!ReadingsSpec
=============================================================================
