---------------------------- MODULE RelaySession ----------------------------
(***************************************************************************)
(* A telnet session with a relay, from its banner to its end: the SEL      *)
(* client (selprotopy/client/base.py) as the GLV's transport prepares it   *)
(* (setup_relay, _setup_ascii_reader) and as the terminal drives it        *)
(* (cli/runner.py).  The relay shows a prompt with its access level after  *)
(* whatever it is sent; prompts nobody has read stay in the stream, so     *)
(* what the client reads may be older than what the relay is.              *)
(***************************************************************************)
EXTENDS Integers, Sequences, FiniteSets

CONSTANTS
    Stale,      \* bound: prompts that the verification or a poll leave
    MaxFails,   \* bound: malformed blocks in one session
    Looks       \* how often the terminal reads

ASSUME SessionAssumption ==
    Stale \in Nat /\ MaxFails \in Nat /\ Looks \in Nat

VARIABLES
    who,        \* "glv" or "terminal"
    cfg,        \* what config.ini or the project ask for
    step,       \* what the client does next
    level,      \* the relay's access level
    said,       \* prompts not read yet, and whether `Invalid' is before them
    fails,      \* malformed blocks: of this step, in this session
    supported,  \* blocks the relay's definition lists
    defs,       \* blocks that were read
    rows,       \* how much of the Relay Word is mapped
    cached,     \* how much of it the FID's cache file has
    reading,    \* which reading the terminal is at
    sent,       \* level at which a Fast Operate was written, Unsent for none
    outcome     \* how the session ended

sessionVars == <<who, cfg, step, level, said, fails, supported, defs, rows,
                 cached, reading, sent, outcome>>

Unsent == -1
Blocks == {"meter", "demand", "peak", "operate"}
Mapped == {"none", "some", "all"}
\* What config.ini says, or the model file for the GLV.
Config == [mode : {"target", "tar", "fastmeter"}, wild : BOOLEAN,
           min : 0 .. 2, operate : BOOLEAN, ac2 : BOOLEAN]
Steps == {"verify", "leave", "login", "raise", "definition", "meter", "demand", "peak",
          "operate", "level", "dna", "map", "poll", "act", "end", "over"}
\* run_autoconfig() and setup_relay(): what comes after a block.
After == [verify |-> "leave", leave |-> "login", login |-> "raise",
          raise |-> "definition", definition |-> "meter", meter |-> "demand", demand |-> "peak",
          peak |-> "operate", operate |-> "level", level |-> "dna",
          dna |-> "map", map |-> "poll", act |-> "end"]
Goes(s) == step = s /\ step' = After[s]

SessionInit ==
    /\ who \in {"glv", "terminal"}
    /\ cfg \in {c \in Config :
                 IF who = "glv" THEN c.min = 1 /\ ~c.operate /\ ~c.ac2 /\ ~c.wild
                                ELSE c.mode # "tar"}
    /\ step = "verify" /\ outcome = "open"
    \* A terminal server may still be logged in from the session before.
    /\ level \in 0 .. 2 /\ said = <<>>
    /\ fails = [now |-> 0, all |-> 0] /\ supported = {} /\ defs = {}
    /\ rows = "none" /\ cached \in Mapped
    /\ reading = 0 /\ sent = Unsent

\* access_level(): two prompts asked for, two read; the reading breaks off
\* before the second one's level, so the first of them is what is seen.
Prompt(l) == [level |-> l, refused |-> FALSE]
Left(n) == [i \in 1 .. n |-> Prompt(level)]
Probed == SubSeq(said \o Left(2), 3, Len(said) + 2)
Seen == IF said = <<>> THEN level ELSE Head(said).level

\* An exception: the transport gives up and closes; the terminal goes to its
\* `finally'.
Raises ==
    /\ step \notin {"end", "over"}
    /\ IF who = "terminal" /\ step # "verify"
       THEN step' = "end" ELSE step' = "over"
    /\ outcome' = "failed"
    /\ UNCHANGED <<who, cfg, level, said, fails, supported, defs, rows, cached,
                   reading, sent>>

\* drain_login_banner() and _verify_connection(): three line ends per attempt.
Verify ==
    /\ Goes("verify")
    /\ \E n \in 0 .. Stale : said' = Left(n)
    /\ UNCHANGED <<who, cfg, level, fails, supported, defs, rows, cached, reading,
                   sent, outcome>>

\* quit(): nothing at level 0, where some terminal servers hang up; else QUIT
\* and three clean prompts, after which the buffer is emptied.
QuitAs(l) ==
    IF l = 0 THEN UNCHANGED level /\ said' = Probed
             ELSE level' = 0 /\ said' = <<>>

LeaveAnswering ==
    /\ Goes("leave") /\ QuitAs(Seen)
    /\ UNCHANGED <<who, cfg, fails, supported, defs, rows, cached, reading, sent,
                   outcome>>

\* A password, right or wrong, and then the first prompt of the stream, which
\* is taken for the answer: the relay's level, what is left, what was answered.
Elevate(l, stream, to, right) ==
    LET all == Append(SubSeq(stream \o [i \in 1 .. 2 |-> Prompt(l)], 3,
                             Len(stream) + 2),
                      [level |-> IF right THEN to ELSE l, refused |-> ~right])
    IN  [level |-> IF right THEN to ELSE l, said |-> Tail(all),
         taken |-> ~Head(all).refused]

\* access_level_1(): from level 0 it needs the right password.
Acc(right) == Elevate(level, said, 1, right \/ level >= 1)

\* access_level_2(): by way of level 1, with the factory's password, when the
\* prompt it sees is of level 0.
Ac2(right) ==
    LET first == IF Seen = 0 THEN Acc(right)
                 ELSE [level |-> level, said |-> said, taken |-> TRUE]
    IN  IF first.taken THEN Elevate(first.level, first.said, 2,
                                    first.level = 2 \/ (first.level = 1 /\ cfg.ac2))
                       ELSE first

Becomes(after) == level' = after.level /\ said' = after.said

\* The GLV does not look at what a login returns, the terminal prints it.
LogIn ==
    /\ Goes("login")
    /\ IF cfg.min = 0 THEN UNCHANGED <<level, said>>
                      ELSE \E right \in BOOLEAN : Becomes(Acc(right))
    /\ UNCHANGED <<who, cfg, fails, supported, defs, rows, cached, reading, sent,
                   outcome>>

\* Where config.ini asks for level 2.
RaiseLevel ==
    /\ Goes("raise")
    /\ IF cfg.min = 2 THEN \E right \in BOOLEAN : Becomes(Ac2(right))
                      ELSE UNCHANGED <<level, said>>
    /\ UNCHANGED <<who, cfg, fails, supported, defs, rows, cached, reading, sent,
                   outcome>>

\* autoconfig_relay_definition(): reads on until its command is in the answer.
Definition ==
    /\ Goes("definition")
    /\ said' = <<>> /\ fails' = [fails EXCEPT !.now = 0]
    /\ supported' \in {{}, {"meter"}, {"meter", "demand"}, Blocks \ {"operate"}, Blocks}
    /\ UNCHANGED <<who, cfg, level, defs, rows, cached, reading, sent, outcome>>

\* A block of the list, in its turn, unless nobody wants it.
Wanted(b) ==
    /\ b \in supported \/ (b = "meter" /\ who = "glv")
    /\ who = "glv" => b = "meter"
    /\ b = "operate" => cfg.operate

Block(b) ==
    /\ Goes(b)
    /\ defs' = IF Wanted(b) THEN defs \cup {b} ELSE defs
    /\ said' = IF Wanted(b) THEN <<>> ELSE said
    /\ fails' = [fails EXCEPT !.now = 0]
    /\ UNCHANGED <<who, cfg, level, supported, rows, cached, reading, sent, outcome>>

\* @retry: a malformed block is asked for again; `cnt' is never counted up.
Malformed ==
    /\ step = "definition" \/ (step \in Blocks /\ Wanted(step))
    /\ fails.all < MaxFails
    /\ fails' = [now |-> fails.now + 1, all |-> fails.all + 1]
    /\ said' = <<>>
    /\ UNCHANGED <<who, cfg, step, level, supported, defs, rows, cached, reading,
                   sent, outcome>>

\* Still at level 0: the factory's password, whatever the user gave.
Level ==
    /\ Goes("level")
    /\ IF Seen = 0 THEN \E right \in BOOLEAN : Becomes(Elevate(level, Probed, 1,
                                                          right \/ level >= 1))
                   ELSE said' = Probed /\ UNCHANGED level
    /\ UNCHANGED <<who, cfg, fails, supported, defs, rows, cached, reading, sent,
                   outcome>>

\* DNA and ID: refused below level 1.  The terminal stops at a relay without
\* Fast Meter.
Names ==
    /\ step = "dna" /\ level >= 1
    /\ step' = IF who = "glv" \/ "meter" \in supported THEN "map" ELSE "end"
    /\ said' = <<>>
    /\ UNCHANGED <<who, cfg, level, fails, supported, defs, rows, cached, reading,
                   sent, outcome>>

\* Is the cache of this FID enough?  A 4xx wants all the rows, a 3xx any, and
\* the terminal any for `*' and the bits it names otherwise.
Enough ==
    \/ who = "glv" /\ cfg.mode = "target" /\ cached = "all"
    \/ who = "glv" /\ cfg.mode = "tar" /\ cached # "none"
    \/ who = "terminal" /\ cfg.wild /\ cached # "none"

\* MAP 1 TARGET BL or, where that brings nothing, row by row.
Discovered == IF cached = "none" THEN Mapped ELSE {"some", "all"}

\* The Relay Word; what was found goes to the cache.
Map ==
    /\ Goes("map")
    /\ IF cfg.mode = "fastmeter" THEN UNCHANGED <<rows, cached>>
       ELSE /\ rows' \in IF Enough THEN {cached} ELSE Discovered
            /\ cached' = rows'
    /\ UNCHANGED <<who, cfg, level, said, fails, supported, defs, reading, sent,
                   outcome>>

\* A reading of the terminal, read or failed; prompts may stay behind.
Poll ==
    /\ step = "poll" /\ who = "terminal"
    /\ IF reading < Looks THEN reading' = reading + 1 /\ UNCHANGED step
       ELSE step' = "act" /\ UNCHANGED reading
    /\ \E n \in 0 .. Stale :
        said' = IF reading < Looks THEN Left(n) ELSE said
    /\ UNCHANGED <<who, cfg, level, fails, supported, defs, rows, cached, sent, outcome>>

\* A Fast Operate is put together from its configuration block.
CanSend == "operate" \in defs

\* maybe_send_fast_operate(): 2AC first; its failure is looked for in the
\* first prompt of the stream.  Without the block there is nothing to send.
Act ==
    /\ Goes("act")
    /\ IF ~cfg.operate THEN UNCHANGED <<level, said, sent, outcome>>
       ELSE \E right \in BOOLEAN :
                /\ Becomes(Ac2(right))
                /\ sent' = IF Ac2(right).taken /\ CanSend THEN level' ELSE Unsent
                /\ outcome' = IF Ac2(right).taken /\ ~CanSend
                              THEN "failed" ELSE outcome
    /\ UNCHANGED <<who, cfg, fails, supported, defs, rows, cached, reading>>

\* Mutant: the connection is closed as it is.
EndAtOnce ==
    /\ step = "end" /\ step' = "over"
    /\ outcome' = IF outcome = "open" THEN "ended" ELSE outcome
    /\ UNCHANGED <<who, cfg, level, said, fails, supported, defs, rows, cached,
                   reading, sent>>

\* `finally': quit(), and the connection is closed.
End ==
    /\ step = "end" /\ step' = "over"
    /\ QuitAs(Seen)
    /\ outcome' = IF outcome = "open" THEN "ended" ELSE outcome
    /\ UNCHANGED <<who, cfg, fails, supported, defs, rows, cached, reading, sent>>

SessionNext ==
    \/ Verify \/ LeaveAnswering \/ LogIn \/ RaiseLevel
    \/ Definition \/ Malformed \/ Level \/ Names
    \/ \E b \in Blocks : Block(b)
    \/ Map \/ Poll \/ Act \/ End \/ Raises

SessionSpec == SessionInit /\ [][SessionNext]_sessionVars

-----------------------------------------------------------------------------
(* Properties. *)

\* Every variable keeps to its values.
SessionTypeOK ==
    /\ step \in Steps /\ level \in 0 .. 2 /\ cfg \in Config
    /\ said \in Seq([level : 0 .. 2, refused : BOOLEAN])
    /\ fails.now \in 0 .. MaxFails /\ fails.all \in fails.now .. MaxFails
    /\ supported \subseteq Blocks /\ defs \subseteq Blocks
    /\ rows \in Mapped /\ cached \in Mapped /\ reading \in 0 .. Looks
    /\ sent \in Unsent .. 2 /\ outcome \in {"open", "failed", "ended"}

(***************************************************************************)
(* A terminal that comes to its end has logged out of the relay, although  *)
(* quit() trusts a prompt that may be an old one: by then whatever a login *)
(* left in the stream has been read.                                       *)
(***************************************************************************)
LoggedOut == who = "terminal" /\ outcome = "ended" => level = 0

(***************************************************************************)
(* A block that stays malformed is asked for as often as `attempts' says,  *)
(* three times at most, and is then skipped.                               *)
(***************************************************************************)
AttemptsAreLimited == fails.now <= 3
=============================================================================
