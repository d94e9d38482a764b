---------------------------- MODULE RelayPolling ----------------------------
(***************************************************************************)
(* One RelayLink (web/glv/link.py) from the inside: the thread that reads   *)
(* the relay, and the calls of other threads that stop it, restart it or    *)
(* close the link around it.                                                *)
(*                                                                         *)
(* A telnet session is one stream: two threads that talk on it at once       *)
(* scramble each other's answers.  RelayLink._lock guards the reader's life  *)
(* cycle; stopping a reader joins it, with a deadline, INSIDE that lock, so   *)
(* a call can be in the middle of a join while others wait.                  *)
(***************************************************************************)
CONSTANTS
  Discoverers,   \* calls of prepare_bits(), by diagrams that join the link
  Tuners,        \* calls of set_poll_interval(); each asks for its own period
  Closers,       \* calls of close(), by releases that find no owner left
  JoinMayExpire, \* can a turn of the reader outlast POLL_JOIN_TIMEOUT?
  First,         \* the reader that connect() starts
  None

Callers == Discoverers \cup Tuners \cup Closers
\* A resumed discovery and a change of period start one reader each, which is
\* named after them.
Readers == {First} \cup Discoverers \cup Tuners

ASSUME PollingAssumption ==
  /\ Discoverers \cap Tuners = {}
  /\ Discoverers \cap Closers = {} /\ Tuners \cap Closers = {}
  /\ JoinMayExpire \in BOOLEAN
  /\ First \notin Callers /\ None \notin Callers \cup {First}

VARIABLES
  setup,     \* where connect() is
  connected, closed,
  lock,      \* the call that holds RelayLink._lock across a join
  disc,      \* the call that holds RelayLink._discovery_lock
  poll,      \* _poll_thread (and _poll_stop, always swapped with it)
  dying,     \* _poll_dying
  target,    \* the thread being joined by the holder of the lock
  interval,  \* _poll_interval
  reader,    \* where each reader is
  told,      \* the readers whose stop event is set
  pace,      \* the period each reader was started with
  pc,        \* where each call is
  resume,    \* pause_polling's was_polling
  screen     \* what LiveState shows: values, or everything indeterminate

linkVars   == <<setup, connected, closed, lock, disc>>
readerVars == <<poll, dying, target, interval, reader, told, pace>>
callVars   == <<pc, resume>>
vars == <<linkVars, readerVars, callVars, screen>>

Alive(r) == reader[r] \notin {"unborn", "dead"}

\* _reap_dying(): the zombie, if it still lives.
Zombie == IF dying # None /\ Alive(dying) THEN dying ELSE None

\* Who is talking to the relay.
Talkers == {r \in Readers : reader[r] = "reading"}
           \cup {c \in Discoverers : pc[c] = "talking"}

TypeOK ==
  /\ setup \in {"dialing", "start", "ready", "failed"}
  /\ connected \in BOOLEAN /\ closed \in BOOLEAN
  /\ lock \in Callers \cup {None} /\ disc \in Discoverers \cup {None}
  /\ poll \in Readers \cup {None} /\ dying \in Readers \cup {None}
  /\ target \in Readers \cup {None}
  /\ interval \in Tuners \cup {None} /\ pace \in [Readers -> Tuners \cup {None}]
  /\ reader \in [Readers -> {"unborn", "turn", "reading", "ended", "leaving",
                             "clearing", "dead"}]
  /\ told \subseteq Readers
  /\ pc \in [Callers -> {"idle", "ask", "join", "talking", "resume",
                         "called", "stop", "hangup", "shut", "clear", "done"}]
  /\ resume \in [Callers -> BOOLEAN]
  /\ screen \in {"blank", "values"}

Init ==
  /\ setup = "dialing" /\ connected = FALSE /\ closed = FALSE
  /\ lock = None /\ disc = None
  /\ poll = None /\ dying = None /\ target = None
  /\ interval = None /\ pace = [r \in Readers |-> None]
  /\ reader = [r \in Readers |-> "unborn"]
  /\ told = {}
  /\ pc = [c \in Callers |-> "idle"]
  /\ resume = [c \in Callers |-> FALSE]
  /\ screen = "blank"

(***************************************************************************)
(* Starting and stopping a reader, with the lock in hand.                  *)
(***************************************************************************)

NoNewReader == UNCHANGED <<poll, reader, pace>>

\* Mutant: brings a reader up on a closed link.
StartEvenClosed(r) ==
  /\ dying' = Zombie
  /\ IF Zombie # None THEN NoNewReader
     ELSE /\ poll' = r
          /\ reader' = [reader EXCEPT ![r] = "turn"]
          /\ pace' = [pace EXCEPT ![r] = interval]

\* _start_polling(): refused on a closed link and beside a zombie.
StartPolling(r) ==
  IF closed THEN NoNewReader /\ UNCHANGED dying
  ELSE /\ dying' = Zombie
       /\ IF Zombie # None THEN NoNewReader
          ELSE /\ poll' = r
               /\ reader' = [reader EXCEPT ![r] = "turn"]
               /\ pace' = [pace EXCEPT ![r] = interval]

\* Mutant: sets a stop event that is not there.
StopAnything(c) ==
  /\ told' = told \cup {poll}
  /\ target' = poll
  /\ poll' = None
  /\ lock' = c
  /\ pc' = [pc EXCEPT ![c] = "join"]

\* _stop_polling() up to its join, which c enters when there is a thread.
BeginStop(c) ==
  /\ told' = told \cup ({poll} \ {None})
  /\ target' = poll
  /\ poll' = None
  /\ lock' = c
  /\ pc' = [pc EXCEPT ![c] = "join"]

Survives == IF target = None THEN FALSE ELSE Alive(target)

\* Mutant: does not look whether the thread it joined is still there.
JoinForgets == UNCHANGED dying

\* The join returns: the thread is dead, or the deadline passed.
Joined == \/ ~Survives /\ UNCHANGED dying
          \/ Survives /\ JoinMayExpire /\ dying' = target

(***************************************************************************)
(* connect(), once the transport is there.                                 *)
(***************************************************************************)

SetUp ==
  /\ setup = "dialing" /\ lock = None
  /\ \/ setup' = "start" /\ connected' = TRUE
     \/ setup' = "failed" /\ connected' = FALSE
  /\ UNCHANGED <<closed, lock, disc, readerVars, callVars, screen>>

FirstReader ==
  /\ setup = "start" /\ lock = None
  /\ StartPolling(First)
  /\ setup' = "ready"
  /\ UNCHANGED <<connected, closed, lock, disc, target, interval, told,
                 callVars, screen>>

(***************************************************************************)
(* prepare_bits() and pause_polling().                                     *)
(***************************************************************************)

\* A call that comes back: the discovery lock, if c had it, is free again.
Finish(c) ==
  /\ pc' = [pc EXCEPT ![c] = "done"]
  /\ disc' = IF disc = c THEN None ELSE disc

Discover(c) ==
  /\ pc[c] = "idle" /\ setup = "ready" /\ disc = None /\ lock = None
  /\ IF closed THEN Finish(c)
     ELSE disc' = c /\ pc' = [pc EXCEPT ![c] = "ask"]
  /\ UNCHANGED <<setup, connected, closed, lock, readerVars, resume, screen>>

\* The map already has every bit, or the transport refuses the names.
NothingToAsk(c) ==
  /\ pc[c] = "ask"
  /\ Finish(c)
  /\ UNCHANGED <<setup, connected, closed, lock, readerVars, resume, screen>>

\* Entering pause_polling(): PollingWedged beside a zombie; otherwise the
\* reader is stopped, when there is one.
Pause(c) ==
  /\ pc[c] = "ask" /\ lock = None
  /\ dying' = Zombie
  /\ \/ /\ Zombie # None
        /\ Finish(c)
        /\ UNCHANGED <<lock, poll, target, told, resume>>
     \/ /\ Zombie = None /\ poll # None
        /\ resume' = [resume EXCEPT ![c] = TRUE]
        /\ BeginStop(c)
        /\ UNCHANGED disc
     \/ /\ Zombie = None /\ poll = None
        /\ pc' = [pc EXCEPT ![c] = "talking"]
        /\ UNCHANGED <<lock, disc, poll, target, told, resume>>
  /\ UNCHANGED <<setup, connected, closed, interval, reader, pace, screen>>

\* Mutant: the lock stays held during the conversation with the relay.
PausedLocked(c) ==
  /\ pc[c] = "join" /\ c \in Discoverers /\ Joined
  /\ target' = None
  /\ pc' = [pc EXCEPT ![c] = "talking"]
  /\ UNCHANGED <<linkVars, poll, interval, reader, told, pace, resume, screen>>

\* The join is over, whichever way, and the conversation begins.
Paused(c) ==
  /\ pc[c] = "join" /\ c \in Discoverers /\ Joined
  /\ lock' = None /\ target' = None
  /\ pc' = [pc EXCEPT ![c] = "talking"]
  /\ UNCHANGED <<setup, connected, closed, disc, poll, interval, reader,
                 told, pace, resume, screen>>

\* The conversation ended, well or with an exception.
EndTalk(c) ==
  /\ pc[c] = "talking"
  /\ IF resume[c] THEN pc' = [pc EXCEPT ![c] = "resume"] /\ UNCHANGED disc
     ELSE Finish(c)
  /\ UNCHANGED <<setup, connected, closed, lock, readerVars, resume, screen>>

\* The `finally` of pause_polling().
Resume(c) ==
  /\ pc[c] = "resume" /\ lock = None
  /\ StartPolling(c)
  /\ Finish(c)
  /\ UNCHANGED <<setup, connected, closed, lock, target, interval, told,
                 resume, screen>>

(***************************************************************************)
(* set_poll_interval(): stop and restart without letting go of the lock.   *)
(***************************************************************************)

\* Mutant: the new period waits for the next start.
TuneLater(c) ==
  /\ pc[c] = "idle" /\ c \in Tuners /\ setup = "ready" /\ lock = None
  /\ interval' = c
  /\ dying' = Zombie
  /\ pc' = [pc EXCEPT ![c] = "done"]
  /\ UNCHANGED <<setup, connected, closed, lock, disc, poll, target, told,
                 reader, pace, resume, screen>>

Tune(c) ==
  /\ pc[c] = "idle" /\ c \in Tuners /\ setup = "ready" /\ lock = None
  /\ interval' = c
  /\ dying' = Zombie
  /\ IF Zombie = None /\ poll # None THEN BeginStop(c)
     ELSE /\ pc' = [pc EXCEPT ![c] = "done"]
          /\ UNCHANGED <<lock, poll, target, told>>
  /\ UNCHANGED <<setup, connected, closed, disc, reader, pace, resume, screen>>

\* The restart sees the zombie the join has just left, if any.
Retuned(c) ==
  /\ pc[c] = "join" /\ c \in Tuners
  /\ \/ ~Survives /\ StartPolling(c)
     \/ Survives /\ JoinMayExpire /\ dying' = target /\ NoNewReader
  /\ lock' = None /\ target' = None
  /\ pc' = [pc EXCEPT ![c] = "done"]
  /\ UNCHANGED <<setup, connected, closed, disc, interval, told, resume, screen>>

(***************************************************************************)
(* close().                                                                *)
(***************************************************************************)

CallClose(c) ==
  /\ pc[c] = "idle"
  /\ pc' = [pc EXCEPT ![c] = "called"]
  /\ UNCHANGED <<linkVars, readerVars, resume, screen>>

\* _closed, and the abort() that makes a conversation in flight raise.
MarkClosed(c) ==
  /\ pc[c] = "called" /\ lock = None
  /\ closed' = TRUE
  /\ pc' = [pc EXCEPT ![c] = "stop"]
  /\ UNCHANGED <<setup, connected, lock, disc, readerVars, resume, screen>>

CloseStops(c) ==
  /\ pc[c] = "stop" /\ lock = None
  /\ BeginStop(c)
  /\ UNCHANGED <<setup, connected, closed, disc, dying, interval, reader,
                 pace, resume, screen>>

CloseJoined(c) ==
  /\ pc[c] = "join" /\ c \in Closers /\ Joined
  /\ lock' = None /\ target' = None
  /\ pc' = [pc EXCEPT ![c] = "hangup"]
  /\ UNCHANGED <<setup, connected, closed, disc, poll, interval, reader,
                 told, pace, resume, screen>>

\* _close_transport() under the lock.
HangUp(c) ==
  /\ pc[c] = "hangup" /\ lock = None
  /\ connected' = FALSE
  /\ pc' = [pc EXCEPT ![c] = "shut"]
  /\ UNCHANGED <<setup, closed, lock, disc, readerVars, resume, screen>>

\* transport.close(), which waits for the transport's own lock: prepare_bits()
\* keeps it for a whole discovery.  Then _reap_dying().
Shut(c) ==
  /\ pc[c] = "shut" /\ disc = None /\ lock = None
  /\ dying' = Zombie
  /\ pc' = [pc EXCEPT ![c] = "clear"]
  /\ UNCHANGED <<linkVars, poll, target, interval, reader, told, pace,
                 resume, screen>>

ClearScreen(c) ==
  /\ pc[c] = "clear"
  /\ screen' = "blank"
  /\ pc' = [pc EXCEPT ![c] = "done"]
  /\ UNCHANGED <<linkVars, readerVars, resume>>

(***************************************************************************)
(* The reader: transport.poll() inside _poll_runner().                     *)
(***************************************************************************)

Step(r, to) == reader' = [reader EXCEPT ![r] = to]
SameCalls == UNCHANGED <<setup, closed, lock, disc, dying, target, interval,
                         told, pace, callVars>>

\* The top of the loop, and the wait between two turns.
Turn(r) ==
  /\ reader[r] = "turn"
  /\ Step(r, IF r \in told THEN "dead" ELSE "reading")
  /\ SameCalls /\ UNCHANGED <<connected, poll, screen>>

\* A turn ends: with values, with an error the loop survives, or with one (a
\* dropped association, a leaked exception) that ends the loop.
EndRead(r) ==
  /\ reader[r] = "reading"
  /\ \/ Step(r, "turn") /\ screen' = "values"
     \/ Step(r, "turn") /\ UNCHANGED screen
     \/ Step(r, "ended") /\ UNCHANGED screen
  /\ SameCalls /\ UNCHANGED <<connected, poll>>

\* Was the stop asked for?
Ended(r) ==
  /\ reader[r] = "ended"
  /\ Step(r, IF r \in told THEN "dead" ELSE "leaving")
  /\ SameCalls /\ UNCHANGED <<connected, poll, screen>>

\* Mutant: the thread ends without telling anybody.
GiveUpSilently(r) ==
  /\ reader[r] = "leaving"
  /\ Step(r, "dead")
  /\ SameCalls /\ UNCHANGED <<connected, poll, screen>>

\* _poll_gave_up(): with the lock, unless someone else already disposed of
\* this reader; without it when whoever joins holds it too long.
GiveUp(r) ==
  /\ reader[r] = "leaving"
  /\ \/ /\ lock = None /\ ~closed /\ poll = r
        /\ connected' = FALSE
        /\ poll' = None
        /\ Step(r, "clearing")
     \/ /\ lock # None \/ closed \/ poll # r
        /\ Step(r, "dead")
        /\ UNCHANGED <<connected, poll>>
  /\ SameCalls /\ UNCHANGED screen

\* state.clear(), and the reason.
Report(r) ==
  /\ reader[r] = "clearing"
  /\ screen' = "blank"
  /\ Step(r, "dead")
  /\ SameCalls /\ UNCHANGED <<connected, poll>>

-----------------------------------------------------------------------------

Discovering(c) == \/ NothingToAsk(c) \/ Pause(c) \/ Paused(c) \/ Resume(c)
Tuning(c)  == Tune(c) \/ Retuned(c)
Closing(c) == \/ MarkClosed(c) \/ CloseStops(c) \/ CloseJoined(c)
              \/ HangUp(c) \/ Shut(c) \/ ClearScreen(c)
AbortWakes(c) == closed /\ EndTalk(c)
Reading(r) == Turn(r) \/ Ended(r) \/ GiveUp(r) \/ Report(r)

Next ==
  \/ SetUp \/ FirstReader
  \/ \E c \in Discoverers : Discover(c) \/ Discovering(c) \/ EndTalk(c)
  \/ \E c \in Tuners : Tuning(c)
  \/ \E c \in Closers : CallClose(c) \/ Closing(c)
  \/ \E r \in Readers : Reading(r) \/ EndRead(r)

Spec == Init /\ [][Next]_vars

\* Threads run, and nobody has to ask for a discovery, a period or a close.  The
\* relay may leave a read hanging for good, and a discovery until close()
\* aborts the transport.
Fairness ==
  /\ WF_vars(FirstReader)
  /\ \A c \in Discoverers : WF_vars(Discovering(c)) /\ WF_vars(AbortWakes(c))
  /\ \A c \in Tuners : WF_vars(Retuned(c))
  /\ \A c \in Closers : WF_vars(Closing(c))
  /\ \A r \in Readers : WF_vars(Reading(r))

FairSpec == Spec /\ Fairness

-----------------------------------------------------------------------------
(***************************************************************************)
(* Properties.                                                             *)
(***************************************************************************)

\* Never a second reader beside a living one, zombies included: "One reader
\* per connection" (_start_polling).
OneReader == \A r, q \in Readers : Alive(r) /\ Alive(q) => r = q

\* One conversation at a time on the relay's stream, whether it is a reader's
\* or a discovery's (pause_polling: "while it lives nobody talks to the relay").
OneTalker == \A a, b \in Talkers : a = b

\* A reader that somebody stopped is coming back.
Coming == \/ setup = "start"
          \/ \E c \in Callers \ Closers :
               pc[c] = "join" \/ (pc[c] \in {"talking", "resume"} /\ resume[c])

\* The screen does not keep values nobody reads: somebody reads, is about to
\* clear them, or is about to bring a reader up (LiveState.clear: "the screen
\* can never keep showing a value that is not being read now").
NothingFrozen ==
  screen = "values" /\ ~closed => Coming \/ \E r \in Readers : Alive(r)

\* A link that says it is connected has a reader, or will have (_poll_runner:
\* "the problem is stopping in SILENCE").
ConnectedIsRead ==
  connected /\ ~closed => Coming \/ \E r \in Readers : Alive(r) /\ r \notin told

\* And a reader in place is one the link admits to: a reader that gave up never
\* disconnects the link under the reader that took its place ("Whoever arrives
\* later -- a `close()`, or a restart that has already swapped the stop event --
\* touches nothing").
ReaderIsShown == poll # None => connected

\* Once a close() has stopped the reading, no reader is left that nobody told
\* to stop, not even one a discovery in flight brings back.
ClosedIsQuiet ==
  (\E c \in Closers : pc[c] \in {"hangup", "shut", "clear", "done"}) =>
    /\ poll = None
    /\ \A r \in Readers : Alive(r) => r \in told \/ reader[r] = "clearing"

\* The reader in place reads with the last period asked for.
PaceIsApplied == poll # None => pace[poll] = interval

\* A close() comes back, whatever the reader and a discovery in flight are doing ("This is how `Desconectar` stopped looking stuck").
CloseReturns == \A c \in Closers : pc[c] # "idle" ~> pc[c] = "done"

\* A reading that ended on its own is not left in place as if it still read.
GiveUpIsSeen ==
  \A r \in Readers : reader[r] = "ended" ~> poll # r \/ closed

\* The reader in place is the one the link admits to and the period asked for.
InPlaceIsCurrent == ReaderIsShown /\ PaceIsApplied

\* What the screen shows and what the link says of itself are both being read.
ShownIsRead == NothingFrozen /\ ConnectedIsRead
=============================================================================
