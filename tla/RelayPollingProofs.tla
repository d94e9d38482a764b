------------------------- MODULE RelayPollingProofs -------------------------
(***************************************************************************)
(* What RelayPolling keeps for any number of calls, with readers that may    *)
(* outlast the join that waits for them.                                   *)
(*                                                                         *)
(* The argument: a reader is started only by connect() or by whoever stopped *)
(* the one before (OneRestarter), every living reader is in place, being     *)
(* joined, known as a zombie or on its way out (Accounted), and a start looks *)
(* at exactly the first three.                                             *)
(***************************************************************************)
EXTENDS RelayPolling, TLAPS

Mid == {"join", "talking", "resume"}
Starters == Discoverers \cup Tuners

\* Nobody has started a reader before its call has come to that.
Fresh ==
  /\ setup # "ready" => reader[First] = "unborn" /\ \A c \in Starters : pc[c] = "idle"
  /\ \A c \in Starters : pc[c] # "done" => reader[c] = "unborn"
  /\ \A c \in Callers : pc[c] \in {"idle", "ask"} => ~resume[c]
  /\ \A c \in Callers \ Discoverers : ~resume[c]
  /\ \A c \in Discoverers : pc[c] = "resume" => resume[c]

\* The lock is held by who joins, one discovery is under way at a time, and
\* while anybody joins or discovers there is no reader in place.
OneRestarter ==
  /\ \A c \in Callers : pc[c] = "join" <=> lock = c
  /\ lock = None => target = None
  /\ \A c \in Discoverers : pc[c] \in Mid \cup {"ask"} => disc = c
  /\ \A c \in Callers : pc[c] = "join" => poll = None
  /\ \A c \in Discoverers : pc[c] \in Mid =>
       poll = None /\ \A t \in Tuners : pc[t] # "join"

\* A call that will start a reader.
Restarting(c) == \/ c \in Discoverers /\ pc[c] \in Mid /\ resume[c]
                 \/ c \in Tuners /\ pc[c] = "join"

Accounted ==
  /\ \A r \in Readers : Alive(r) =>
       r = poll \/ r = target \/ r = dying \/ reader[r] = "clearing"
  /\ \A r \in Readers : Alive(r) /\ r # poll => r \in told \/ reader[r] = "clearing"
  /\ \A r \in Readers : reader[r] = "clearing" =>
       setup = "ready" /\ poll = None /\ \A c \in Starters : ~Restarting(c)
  /\ dying # None /\ Alive(dying) => poll = None

\* A link that has been closed gets no reader any more.
ClosedForGood ==
  /\ \A c \in Closers : pc[c] \notin {"idle", "called"} => closed
  /\ ClosedIsQuiet

\* Whoever will start a reader on an open link finds it connected.
Shown ==
  /\ poll # None => connected /\ setup = "ready"
  /\ ~closed /\ (setup = "start" \/ \E c \in Starters : Restarting(c)) => connected

IInv == /\ Fresh /\ OneRestarter /\ OneReader /\ Accounted /\ ClosedForGood
        /\ PaceIsApplied /\ Shown
-----------------------------------------------------------------------------
\* connect() up to its reader.

LEMMA TypeSetUp ==
  ASSUME TypeOK, SetUp
  PROVE  TypeOK'
BY DEF TypeOK, SetUp, readerVars, callVars

LEMMA InvSetUp ==
  ASSUME TypeOK, TypeOK', IInv, SetUp
  PROVE  IInv'
<1> USE DEF IInv, TypeOK, SetUp, readerVars, callVars
<1>1. Fresh' /\ OneRestarter' /\ OneReader' /\ Accounted' /\ ClosedForGood' /\ PaceIsApplied'
  BY DEF Fresh, OneRestarter, OneReader, Alive, Accounted, Restarting, ClosedForGood,
     ClosedIsQuiet, PaceIsApplied
<1>2. Shown'
  BY PollingAssumption DEF Shown, Starters, Restarting, Mid, Callers, Readers, Fresh,
     OneRestarter
<1>3. QED
  BY <1>1, <1>2

LEMMA TypeFirstReader ==
  ASSUME TypeOK, FirstReader
  PROVE  TypeOK'
BY DEF TypeOK, FirstReader, StartPolling, NoNewReader, Zombie, Alive, callVars,
   Callers, Readers

LEMMA InvFirstReader ==
  ASSUME TypeOK, TypeOK', IInv, FirstReader
  PROVE  IInv'
<1> USE DEF IInv, TypeOK, FirstReader, StartPolling, NoNewReader, Zombie, Alive,
   callVars
<1>1. Fresh'
  BY PollingAssumption DEF Fresh, Starters, Callers, Readers, Mid
<1>2. OneRestarter'
  BY PollingAssumption DEF OneRestarter, Callers, Mid, Readers, Starters, Fresh
<1>3. OneReader'
  BY PollingAssumption DEF OneReader, Readers, Callers, Starters, Mid, Fresh,
     OneRestarter
<1>4. Accounted'
  BY PollingAssumption DEF Accounted, Readers, Starters, Restarting, Mid, Callers,
     Fresh, OneRestarter
<1>5. ClosedForGood' /\ PaceIsApplied' /\ Shown'
  BY DEF ClosedForGood, ClosedIsQuiet, PaceIsApplied, Shown, Restarting
<1>6. QED
  BY <1>1, <1>2, <1>3, <1>4, <1>5

CallPlaces == {"idle", "ask", "join", "talking", "resume", "called", "stop",
               "hangup", "shut", "clear", "done"}

\* A call that goes on is at a place of a call.
LEMMA CallGoesOn ==
  ASSUME TypeOK, NEW c \in Callers, NEW p \in CallPlaces, pc' = [pc EXCEPT ![c] = p]
  PROVE  pc' \in [Callers -> CallPlaces]
BY DEF TypeOK, CallPlaces

-----------------------------------------------------------------------------
\* prepare_bits() and pause_polling().

LEMMA TypeDiscover ==
  ASSUME TypeOK, NEW c \in Discoverers, Discover(c)
  PROVE  TypeOK'
BY DEF TypeOK, Discover, Finish, readerVars

LEMMA InvDiscover ==
  ASSUME TypeOK, TypeOK', IInv, NEW c \in Discoverers, Discover(c)
  PROVE  IInv'
<1> USE DEF IInv, TypeOK, Discover, Finish, readerVars
<1>1. Fresh' /\ Accounted' /\ Shown'
  BY DEF Fresh, Starters, Callers, Accounted, Readers, Alive, Restarting, Mid, Shown
<1>2. OneRestarter' /\ ClosedForGood'
  BY PollingAssumption DEF OneRestarter, Callers, Mid, ClosedForGood, ClosedIsQuiet,
     Readers, Alive, Starters
<1>3. OneReader' /\ PaceIsApplied'
  BY DEF OneReader, Alive, PaceIsApplied
<1>4. QED
  BY <1>1, <1>2, <1>3

LEMMA TypeNothingToAsk ==
  ASSUME TypeOK, NEW c \in Discoverers, NothingToAsk(c)
  PROVE  TypeOK'
BY DEF TypeOK, NothingToAsk, Finish, readerVars

LEMMA InvNothingToAsk ==
  ASSUME TypeOK, TypeOK', IInv, NEW c \in Discoverers, NothingToAsk(c)
  PROVE  IInv'
<1> USE DEF IInv, TypeOK, NothingToAsk, Finish, readerVars
<1>1. Fresh' /\ OneReader' /\ PaceIsApplied'
  BY DEF Fresh, OneReader, Alive, PaceIsApplied
<1>2. OneRestarter' /\ Accounted' /\ Shown'
  BY DEF OneRestarter, Callers, Mid, Accounted, Readers, Alive, Starters, Restarting,
     Shown
<1>3. ClosedForGood'
  BY PollingAssumption DEF ClosedForGood, ClosedIsQuiet, Readers, Alive, Callers,
     Starters, Mid
<1>4. QED
  BY <1>1, <1>2, <1>3

LEMMA TypePause ==
  ASSUME TypeOK, NEW c \in Discoverers, Pause(c)
  PROVE  TypeOK'
<1>1. dying' \in Readers \cup {None} /\ c \in Callers
  BY DEF TypeOK, Pause, Zombie, Callers
<1>2. pc' \in [Callers -> CallPlaces]
  <2>1. \E p \in CallPlaces : pc' = [pc EXCEPT ![c] = p]
    BY DEF Pause, Finish, BeginStop, CallPlaces
  <2> QED
    BY <1>1, <2>1, CallGoesOn
<1>3. CASE Zombie # None
  BY <1>1, <1>2, <1>3 DEF TypeOK, Pause, Finish, CallPlaces
<1>4. CASE Zombie = None /\ poll # None
  <2>1. /\ lock' = c /\ poll' = None /\ target' = poll /\ told' = told \cup ({poll} \ {None})
        /\ resume' = [resume EXCEPT ![c] = TRUE]
        /\ UNCHANGED <<setup, connected, closed, disc, interval, reader, pace, screen>>
    BY <1>4 DEF Pause, BeginStop
  <2> QED
    BY <1>1, <1>2, <1>4, <2>1 DEF TypeOK, CallPlaces
<1>5. CASE Zombie = None /\ poll = None
  BY <1>1, <1>2, <1>5 DEF TypeOK, Pause, CallPlaces
<1> QED
  BY <1>3, <1>4, <1>5

LEMMA InvPause ==
  ASSUME TypeOK, TypeOK', IInv, NEW c \in Discoverers, Pause(c)
  PROVE  IInv'
<1> USE DEF IInv, TypeOK, Pause, Zombie, Alive, Finish, BeginStop
<1>1. Fresh'
  BY PollingAssumption DEF Fresh, Starters, Callers, Mid, Readers
<1>2. OneRestarter'
  BY PollingAssumption DEF Fresh, Starters, Callers, OneRestarter, Mid, Readers
<1>3. OneReader' /\ PaceIsApplied'
  BY DEF OneReader, PaceIsApplied
<1>4. Accounted'
  BY PollingAssumption DEF Accounted, Readers, Starters, Restarting, Mid, Callers,
     Fresh, OneRestarter
<1>5. ClosedForGood'
  BY PollingAssumption DEF ClosedForGood, ClosedIsQuiet, Readers, Callers, Starters,
     Mid
<1>6. Shown'
  BY PollingAssumption DEF Shown, Starters, Restarting, Mid, Callers, Readers, Fresh,
     OneRestarter
<1>7. QED
  BY <1>1, <1>2, <1>3, <1>4, <1>5, <1>6

LEMMA TypePaused ==
  ASSUME TypeOK, NEW c \in Discoverers, Paused(c)
  PROVE  TypeOK'
BY DEF TypeOK, Paused, Joined, Survives, Alive

LEMMA InvPaused ==
  ASSUME TypeOK, TypeOK', IInv, NEW c \in Discoverers, Paused(c)
  PROVE  IInv'
<1> USE DEF IInv, TypeOK, Paused, Joined, Survives, Alive
<1>1. Fresh' /\ OneReader' /\ ClosedForGood' /\ PaceIsApplied'
  BY DEF Fresh, OneReader, ClosedForGood, ClosedIsQuiet, PaceIsApplied
<1>2. OneRestarter'
  BY PollingAssumption DEF OneRestarter, Callers, Mid, Readers, Starters
<1>3. Accounted'
  BY PollingAssumption DEF Accounted, Readers, Starters, Restarting, Mid, Callers,
     Fresh, OneRestarter, OneReader, Shown, ClosedForGood, ClosedIsQuiet
<1>4. Shown'
  BY DEF Shown, Starters, Restarting, Mid, Callers, Readers
<1>5. QED
  BY <1>1, <1>2, <1>3, <1>4

LEMMA TypeEndTalk ==
  ASSUME TypeOK, NEW c \in Discoverers, EndTalk(c)
  PROVE  TypeOK'
BY DEF TypeOK, EndTalk, Finish, readerVars

LEMMA InvEndTalk ==
  ASSUME TypeOK, TypeOK', IInv, NEW c \in Discoverers, EndTalk(c)
  PROVE  IInv'
<1> USE DEF IInv, TypeOK, EndTalk, Finish, readerVars
<1>1. Fresh' /\ OneRestarter' /\ Accounted' /\ Shown'
  BY DEF Fresh, Starters, Callers, OneRestarter, Mid, Accounted, Readers, Alive,
     Restarting, Shown
<1>2. OneReader' /\ PaceIsApplied'
  BY DEF OneReader, Alive, PaceIsApplied
<1>3. ClosedForGood'
  BY PollingAssumption DEF ClosedForGood, ClosedIsQuiet, Readers, Alive, Callers,
     Starters, Mid
<1>4. QED
  BY <1>1, <1>2, <1>3

LEMMA TypeResume ==
  ASSUME TypeOK, NEW c \in Discoverers, Resume(c)
  PROVE  TypeOK'
BY DEF TypeOK, Resume, StartPolling, NoNewReader, Zombie, Alive, Finish, Callers,
   Readers

LEMMA InvResume ==
  ASSUME TypeOK, TypeOK', IInv, NEW c \in Discoverers, Resume(c)
  PROVE  IInv'
<1> USE DEF IInv, TypeOK, Resume, StartPolling, NoNewReader, Zombie, Alive, Finish
<1>1. Fresh'
  BY DEF Fresh, Starters, Callers, Readers, Mid
<1>2. OneRestarter' /\ ClosedForGood'
  BY PollingAssumption DEF OneRestarter, Callers, Mid, ClosedForGood, ClosedIsQuiet,
     Readers, Starters
<1>3. OneReader'
  BY PollingAssumption DEF OneReader, Readers, Callers, Starters, Mid, Fresh,
     OneRestarter, Accounted, Restarting
<1>4. Accounted'
  BY PollingAssumption DEF Accounted, Readers, Starters, Restarting, Mid, Callers,
     Fresh, OneRestarter
<1>5. PaceIsApplied'
  BY DEF PaceIsApplied
<1>6. Shown'
  BY PollingAssumption DEF Shown, Starters, Restarting, Mid, Callers, Readers, Fresh,
     OneRestarter, Accounted
<1>7. QED
  BY <1>1, <1>2, <1>3, <1>4, <1>5, <1>6

-----------------------------------------------------------------------------
\* set_poll_interval().

LEMMA TypeTune ==
  ASSUME TypeOK, NEW c \in Tuners, Tune(c)
  PROVE  TypeOK'
BY DEF TypeOK, Tune, Zombie, Alive, BeginStop, Callers, Readers

LEMMA InvTune ==
  ASSUME TypeOK, TypeOK', IInv, NEW c \in Tuners, Tune(c)
  PROVE  IInv'
<1> USE DEF IInv, TypeOK, Tune, Zombie, Alive, BeginStop
<1>1. Fresh' /\ Shown'
  BY DEF Fresh, Starters, Callers, Shown, Restarting, Mid, Readers
<1>2. OneRestarter' /\ ClosedForGood'
  BY PollingAssumption DEF OneRestarter, Callers, Mid, ClosedForGood, ClosedIsQuiet,
     Readers, Starters
<1>3. OneReader'
  BY DEF OneReader
<1>4. Accounted'
  BY PollingAssumption DEF Accounted, Readers, Starters, Restarting, Mid, Callers,
     OneRestarter
<1>5. PaceIsApplied'
  BY PollingAssumption DEF PaceIsApplied, Callers, Readers, Starters, Mid, Fresh,
     OneRestarter, Accounted, Restarting
<1>6. QED
  BY <1>1, <1>2, <1>3, <1>4, <1>5

LEMMA TypeRetuned ==
  ASSUME TypeOK, NEW c \in Tuners, Retuned(c)
  PROVE  TypeOK'
BY DEF TypeOK, Retuned, Survives, Alive, StartPolling, NoNewReader, Zombie, Callers,
   Readers

LEMMA InvRetuned ==
  ASSUME TypeOK, TypeOK', IInv, NEW c \in Tuners, Retuned(c)
  PROVE  IInv'
<1> USE DEF IInv, TypeOK, Retuned, Survives, Alive, StartPolling, NoNewReader, Zombie
<1>1. Fresh' /\ Shown'
  BY DEF Fresh, Starters, Callers, Shown, Restarting, Mid, Readers
<1>2. OneRestarter'
  BY PollingAssumption DEF OneRestarter, Callers, Mid, Readers, Starters
<1>3. OneReader'
  BY PollingAssumption DEF OneReader, Readers, Callers, Starters, Mid, Fresh,
     OneRestarter, Accounted, Restarting
<1>4. Accounted'
  BY PollingAssumption DEF Accounted, Readers, Starters, Restarting, Mid, Callers,
     Fresh, OneRestarter, OneReader, Shown, ClosedForGood, ClosedIsQuiet
<1>5. ClosedForGood'
  BY PollingAssumption DEF ClosedForGood, ClosedIsQuiet, Readers, Callers, Starters,
     Mid
<1>6. PaceIsApplied'
  BY DEF PaceIsApplied
<1>7. QED
  BY <1>1, <1>2, <1>3, <1>4, <1>5, <1>6

-----------------------------------------------------------------------------
\* close().

LEMMA TypeCallClose ==
  ASSUME TypeOK, NEW c \in Closers, CallClose(c)
  PROVE  TypeOK'
<1>1. pc' \in [Callers -> CallPlaces]
  BY CallGoesOn DEF CallClose, Callers, CallPlaces
<1> QED
  BY <1>1 DEF TypeOK, CallClose, linkVars, readerVars, CallPlaces

LEMMA InvCallClose ==
  ASSUME TypeOK, TypeOK', IInv, NEW c \in Closers, CallClose(c)
  PROVE  IInv'
<1> USE DEF IInv, TypeOK, CallClose, linkVars, readerVars
<1>1. Fresh'
  BY PollingAssumption DEF Fresh, Starters, Callers, Readers, Mid
<1>2. OneRestarter' /\ Accounted' /\ Shown'
  BY DEF OneRestarter, Callers, Mid, Accounted, Readers, Alive, Starters, Restarting,
     Shown
<1>3. OneReader' /\ ClosedForGood' /\ PaceIsApplied'
  BY DEF OneReader, Alive, ClosedForGood, ClosedIsQuiet, PaceIsApplied
<1>4. QED
  BY <1>1, <1>2, <1>3

LEMMA TypeMarkClosed ==
  ASSUME TypeOK, NEW c \in Closers, MarkClosed(c)
  PROVE  TypeOK'
BY DEF TypeOK, MarkClosed, readerVars

LEMMA InvMarkClosed ==
  ASSUME TypeOK, TypeOK', IInv, NEW c \in Closers, MarkClosed(c)
  PROVE  IInv'
<1> USE DEF IInv, TypeOK, MarkClosed, readerVars
<1>1. Fresh' /\ OneReader' /\ ClosedForGood' /\ PaceIsApplied' /\ Shown'
  BY DEF Fresh, OneReader, Alive, ClosedForGood, ClosedIsQuiet, PaceIsApplied, Shown,
     Restarting
<1>2. OneRestarter' /\ Accounted'
  BY DEF OneRestarter, Callers, Mid, Accounted, Readers, Alive, Starters, Restarting
<1>3. QED
  BY <1>1, <1>2

LEMMA TypeCloseStops ==
  ASSUME TypeOK, NEW c \in Closers, CloseStops(c)
  PROVE  TypeOK'
BY DEF TypeOK, CloseStops, BeginStop, Callers, Readers

LEMMA InvCloseStops ==
  ASSUME TypeOK, TypeOK', IInv, NEW c \in Closers, CloseStops(c)
  PROVE  IInv'
<1> USE DEF IInv, TypeOK, CloseStops, BeginStop
<1>1. Fresh' /\ OneReader' /\ ClosedForGood' /\ PaceIsApplied'
  BY DEF Fresh, OneReader, Alive, ClosedForGood, ClosedIsQuiet, PaceIsApplied
<1>2. OneRestarter' /\ Shown'
  BY PollingAssumption DEF OneRestarter, Callers, Mid, Shown, Starters, Restarting,
     Readers
<1>3. Accounted'
  BY PollingAssumption DEF Accounted, Readers, Alive, Starters, Restarting, Mid,
     Callers, OneRestarter
<1>4. QED
  BY <1>1, <1>2, <1>3

LEMMA TypeCloseJoined ==
  ASSUME TypeOK, NEW c \in Closers, CloseJoined(c)
  PROVE  TypeOK'
BY DEF TypeOK, CloseJoined, Joined, Survives, Alive

LEMMA InvCloseJoined ==
  ASSUME TypeOK, TypeOK', IInv, NEW c \in Closers, CloseJoined(c)
  PROVE  IInv'
<1> USE DEF IInv, TypeOK, CloseJoined, Joined, Survives, Alive
<1>1. Fresh' /\ OneReader' /\ PaceIsApplied'
  BY DEF Fresh, OneReader, PaceIsApplied
<1>2. OneRestarter'
  BY PollingAssumption DEF OneRestarter, Callers, Mid, Readers, Starters
<1>3. Accounted'
  BY PollingAssumption DEF Accounted, Readers, Starters, Restarting, Mid, Callers,
     Fresh, OneRestarter, OneReader, Shown, ClosedForGood, ClosedIsQuiet
<1>4. ClosedForGood'
  BY PollingAssumption DEF ClosedForGood, ClosedIsQuiet, Readers, Callers, Starters,
     Mid, Fresh, OneRestarter, Accounted, Restarting
<1>5. Shown'
  BY DEF Shown, Starters, Restarting, Mid, Callers, Readers
<1>6. QED
  BY <1>1, <1>2, <1>3, <1>4, <1>5

LEMMA TypeHangUp ==
  ASSUME TypeOK, NEW c \in Closers, HangUp(c)
  PROVE  TypeOK'
BY DEF TypeOK, HangUp, readerVars

LEMMA InvHangUp ==
  ASSUME TypeOK, TypeOK', IInv, NEW c \in Closers, HangUp(c)
  PROVE  IInv'
<1> USE DEF IInv, TypeOK, HangUp, readerVars
<1>1. Fresh' /\ OneReader' /\ ClosedForGood' /\ PaceIsApplied'
  BY DEF Fresh, OneReader, Alive, ClosedForGood, ClosedIsQuiet, PaceIsApplied
<1>2. OneRestarter' /\ Accounted'
  BY DEF OneRestarter, Callers, Mid, Accounted, Readers, Alive, Starters, Restarting
<1>3. Shown'
  BY PollingAssumption DEF Shown, Starters, Restarting, Mid, Callers, Readers, Fresh,
     OneRestarter, Accounted, Alive, OneReader, ClosedForGood, ClosedIsQuiet
<1>4. QED
  BY <1>1, <1>2, <1>3

LEMMA TypeShut ==
  ASSUME TypeOK, NEW c \in Closers, Shut(c)
  PROVE  TypeOK'
BY DEF TypeOK, Shut, Zombie, Alive, linkVars

LEMMA InvShut ==
  ASSUME TypeOK, TypeOK', IInv, NEW c \in Closers, Shut(c)
  PROVE  IInv'
<1> USE DEF IInv, TypeOK, Shut, Zombie, Alive, linkVars
<1>1. Fresh' /\ OneReader' /\ ClosedForGood' /\ PaceIsApplied'
  BY DEF Fresh, OneReader, ClosedForGood, ClosedIsQuiet, PaceIsApplied
<1>2. OneRestarter' /\ Accounted' /\ Shown'
  BY DEF OneRestarter, Callers, Mid, Accounted, Readers, Starters, Restarting, Shown
<1>3. QED
  BY <1>1, <1>2

LEMMA TypeClearScreen ==
  ASSUME TypeOK, NEW c \in Closers, ClearScreen(c)
  PROVE  TypeOK'
BY DEF TypeOK, ClearScreen, linkVars, readerVars

LEMMA InvClearScreen ==
  ASSUME TypeOK, TypeOK', IInv, NEW c \in Closers, ClearScreen(c)
  PROVE  IInv'
<1> USE DEF IInv, TypeOK, ClearScreen, linkVars, readerVars
<1>1. Fresh' /\ OneReader' /\ ClosedForGood' /\ PaceIsApplied'
  BY DEF Fresh, OneReader, Alive, ClosedForGood, ClosedIsQuiet, PaceIsApplied
<1>2. OneRestarter' /\ Accounted' /\ Shown'
  BY DEF OneRestarter, Callers, Mid, Accounted, Readers, Alive, Starters, Restarting,
     Shown
<1>3. QED
  BY <1>1, <1>2

-----------------------------------------------------------------------------
\* The reader.

LEMMA TypeTurn ==
  ASSUME TypeOK, NEW r \in Readers, Turn(r)
  PROVE  TypeOK'
BY DEF TypeOK, Turn, Step, SameCalls, callVars

LEMMA InvTurn ==
  ASSUME TypeOK, TypeOK', IInv, NEW r \in Readers, Turn(r)
  PROVE  IInv'
<1> USE DEF IInv, TypeOK, Turn, Step, SameCalls, callVars
<1>1. Fresh' /\ OneRestarter' /\ OneReader' /\ Accounted' /\ ClosedForGood' /\ PaceIsApplied' /\ Shown'
  BY DEF Fresh, OneRestarter, OneReader, Alive, Accounted, Restarting, ClosedForGood,
     ClosedIsQuiet, PaceIsApplied, Shown
<1>2. QED
  BY <1>1

LEMMA TypeEndRead ==
  ASSUME TypeOK, NEW r \in Readers, EndRead(r)
  PROVE  TypeOK'
BY DEF TypeOK, EndRead, Step, SameCalls, callVars

LEMMA InvEndRead ==
  ASSUME TypeOK, TypeOK', IInv, NEW r \in Readers, EndRead(r)
  PROVE  IInv'
<1> USE DEF IInv, TypeOK, EndRead, Step, SameCalls, callVars
<1>1. Fresh'
  BY DEF Fresh, Starters, Callers, Readers, Mid
<1>2. OneRestarter' /\ OneReader' /\ Accounted' /\ ClosedForGood' /\ PaceIsApplied' /\ Shown'
  BY DEF OneRestarter, OneReader, Alive, Accounted, Restarting, ClosedForGood,
     ClosedIsQuiet, PaceIsApplied, Shown
<1>3. QED
  BY <1>1, <1>2

LEMMA TypeEnded ==
  ASSUME TypeOK, NEW r \in Readers, Ended(r)
  PROVE  TypeOK'
BY DEF TypeOK, Ended, Step, SameCalls, callVars

LEMMA InvEnded ==
  ASSUME TypeOK, TypeOK', IInv, NEW r \in Readers, Ended(r)
  PROVE  IInv'
<1> USE DEF IInv, TypeOK, Ended, Step, SameCalls, callVars
<1>1. Fresh' /\ OneRestarter' /\ OneReader' /\ Accounted' /\ ClosedForGood' /\ PaceIsApplied' /\ Shown'
  BY DEF Fresh, OneRestarter, OneReader, Alive, Accounted, Restarting, ClosedForGood,
     ClosedIsQuiet, PaceIsApplied, Shown
<1>2. QED
  BY <1>1

LEMMA TypeGiveUp ==
  ASSUME TypeOK, NEW r \in Readers, GiveUp(r)
  PROVE  TypeOK'
BY DEF TypeOK, GiveUp, Step, SameCalls, callVars

LEMMA InvGiveUp ==
  ASSUME TypeOK, TypeOK', IInv, NEW r \in Readers, GiveUp(r)
  PROVE  IInv'
<1> USE DEF IInv, TypeOK, GiveUp, Step, SameCalls, callVars
<1>1. Fresh'
  BY DEF Fresh, Starters, Callers, Readers, Mid
<1>2. OneRestarter' /\ OneReader' /\ ClosedForGood' /\ PaceIsApplied'
  BY DEF OneRestarter, OneReader, Alive, ClosedForGood, ClosedIsQuiet, PaceIsApplied
<1>3. Accounted'
  BY PollingAssumption DEF Accounted, Readers, Alive, Starters, Restarting, Mid,
     Callers, Fresh, OneRestarter
<1>4. Shown'
  BY PollingAssumption DEF Shown, Starters, Restarting, Mid, Callers, Readers, Fresh,
     OneRestarter
<1>5. QED
  BY <1>1, <1>2, <1>3, <1>4

LEMMA TypeReport ==
  ASSUME TypeOK, NEW r \in Readers, Report(r)
  PROVE  TypeOK'
BY DEF TypeOK, Report, Step, SameCalls, callVars

LEMMA InvReport ==
  ASSUME TypeOK, TypeOK', IInv, NEW r \in Readers, Report(r)
  PROVE  IInv'
<1> USE DEF IInv, TypeOK, Report, Step, SameCalls, callVars
<1>1. Fresh' /\ OneRestarter' /\ OneReader' /\ Accounted' /\ ClosedForGood' /\ PaceIsApplied' /\ Shown'
  BY DEF Fresh, OneRestarter, OneReader, Alive, Accounted, Restarting, ClosedForGood,
     ClosedIsQuiet, PaceIsApplied, Shown
<1>2. QED
  BY <1>1

-----------------------------------------------------------------------------
\* From the actions to the specification.

LEMMA TypeInit == Init => TypeOK
BY PollingAssumption DEF Init, TypeOK, Callers, Readers

LEMMA InvInit == Init => IInv
BY PollingAssumption DEF Init, IInv, Fresh, OneRestarter, OneReader, Alive, Accounted,
   Restarting, ClosedForGood, ClosedIsQuiet, PaceIsApplied, Shown, Starters, Callers,
   Readers, Mid

LEMMA Disjuncts ==
  ASSUME Next
  PROVE  \/ SetUp \/ FirstReader
         \/ \E c \in Discoverers :
              \/ Discover(c) \/ NothingToAsk(c) \/ Pause(c) \/ Paused(c)
              \/ Resume(c) \/ EndTalk(c)
         \/ \E c \in Tuners : Tune(c) \/ Retuned(c)
         \/ \E c \in Closers :
              \/ CallClose(c) \/ MarkClosed(c) \/ CloseStops(c) \/ CloseJoined(c)
              \/ HangUp(c) \/ Shut(c) \/ ClearScreen(c)
         \/ \E r \in Readers :
              Turn(r) \/ Ended(r) \/ GiveUp(r) \/ Report(r) \/ EndRead(r)
BY Zenon DEF Next, Discovering, Tuning, Closing, Reading

LEMMA TypeStep == TypeOK /\ [Next]_vars => TypeOK'
<1> SUFFICES ASSUME TypeOK, [Next]_vars PROVE TypeOK'
  OBVIOUS
<1>1. CASE UNCHANGED vars
  BY <1>1 DEF TypeOK, vars, linkVars, readerVars, callVars
<1>2. CASE SetUp \/ FirstReader
  BY <1>2, TypeSetUp, TypeFirstReader
<1>3. ASSUME NEW c \in Discoverers,
             \/ Discover(c) \/ NothingToAsk(c) \/ Pause(c) \/ Paused(c)
             \/ Resume(c) \/ EndTalk(c)
      PROVE  TypeOK'
  BY <1>3, TypeDiscover, TypeNothingToAsk, TypePause, TypePaused, TypeResume,
     TypeEndTalk
<1>4. ASSUME NEW c \in Tuners, Tune(c) \/ Retuned(c)
      PROVE  TypeOK'
  BY <1>4, TypeTune, TypeRetuned
<1>5. ASSUME NEW c \in Closers,
             \/ CallClose(c) \/ MarkClosed(c) \/ CloseStops(c) \/ CloseJoined(c)
             \/ HangUp(c) \/ Shut(c) \/ ClearScreen(c)
      PROVE  TypeOK'
  BY <1>5, TypeCallClose, TypeMarkClosed, TypeCloseStops, TypeCloseJoined,
     TypeHangUp, TypeShut, TypeClearScreen
<1>6. ASSUME NEW r \in Readers,
             Turn(r) \/ Ended(r) \/ GiveUp(r) \/ Report(r) \/ EndRead(r)
      PROVE  TypeOK'
  BY <1>6, TypeTurn, TypeEnded, TypeGiveUp, TypeReport, TypeEndRead
<1>7. QED
  BY <1>1, <1>2, <1>3, <1>4, <1>5, <1>6, Disjuncts

LEMMA InvStep == TypeOK /\ TypeOK' /\ IInv /\ [Next]_vars => IInv'
<1> SUFFICES ASSUME TypeOK, TypeOK', IInv, [Next]_vars PROVE IInv'
  OBVIOUS
<1>1. CASE UNCHANGED vars
  BY <1>1 DEF vars, linkVars, readerVars, callVars, IInv, Fresh, OneRestarter,
     OneReader, Alive, Accounted, Restarting, ClosedForGood, ClosedIsQuiet,
     PaceIsApplied, Shown
<1>2. CASE SetUp \/ FirstReader
  BY <1>2, InvSetUp, InvFirstReader
<1>3. ASSUME NEW c \in Discoverers,
             \/ Discover(c) \/ NothingToAsk(c) \/ Pause(c) \/ Paused(c)
             \/ Resume(c) \/ EndTalk(c)
      PROVE  IInv'
  BY <1>3, InvDiscover, InvNothingToAsk, InvPause, InvPaused, InvResume, InvEndTalk
<1>4. ASSUME NEW c \in Tuners, Tune(c) \/ Retuned(c)
      PROVE  IInv'
  BY <1>4, InvTune, InvRetuned
<1>5. ASSUME NEW c \in Closers,
             \/ CallClose(c) \/ MarkClosed(c) \/ CloseStops(c) \/ CloseJoined(c)
             \/ HangUp(c) \/ Shut(c) \/ ClearScreen(c)
      PROVE  IInv'
  BY <1>5, InvCallClose, InvMarkClosed, InvCloseStops, InvCloseJoined, InvHangUp,
     InvShut, InvClearScreen
<1>6. ASSUME NEW r \in Readers,
             Turn(r) \/ Ended(r) \/ GiveUp(r) \/ Report(r) \/ EndRead(r)
      PROVE  IInv'
  BY <1>6, InvTurn, InvEnded, InvGiveUp, InvReport, InvEndRead
<1>7. QED
  BY <1>1, <1>2, <1>3, <1>4, <1>5, <1>6, Disjuncts

\* Every variable of a link keeps its type: above all, a stop event is only ever
\* set on a reader that exists.
THEOREM TypeCorrect == Spec => []TypeOK
BY TypeInit, TypeStep, PTL DEF Spec

\* The inductive invariant holds from the first state on.
THEOREM Inductive == Spec => []IInv
BY InvInit, InvStep, TypeCorrect, PTL DEF Spec

\* Whatever joins expire, two readers are never alive on one connection.
THEOREM OneReaderHolds == Spec => []OneReader
<1>1. IInv => OneReader
  BY DEF IInv
<1>2. QED
  BY <1>1, Inductive, PTL

\* A discovery or a change of period in flight brings no reader back once a
\* close() has stopped the reading.
THEOREM ClosedIsQuietHolds == Spec => []ClosedIsQuiet
<1>1. IInv => ClosedIsQuiet
  BY DEF IInv, ClosedForGood
<1>2. QED
  BY <1>1, Inductive, PTL

\* The reader in place reads with the last period anybody asked for, and one
\* that gives up late does not disconnect the link under its successor.
THEOREM InPlaceIsCurrentHolds == Spec => []InPlaceIsCurrent
<1>1. IInv => InPlaceIsCurrent
  BY DEF IInv, Shown, ReaderIsShown, InPlaceIsCurrent
<1>2. QED
  BY <1>1, Inductive, PTL

-----------------------------------------------------------------------------
(* On a relay whose turns never outlast the join, for any number of calls: *)
(* a stopped reader is then gone, so a discovery talks alone, and whoever  *)
(* stopped it brings one back.                                             *)

Prompt == ~JoinMayExpire

\* A join leaves nobody behind, so a discovery talks to a relay nobody reads.
LeftAlone ==
  /\ dying = None
  /\ \A c \in Discoverers : pc[c] \in {"talking", "resume"} => target = None

\* Only a discovery that stopped a reader joins, and a reader is told to stop
\* once it has started and is no longer in place.
StoppedInTurn ==
  /\ \A c \in Discoverers : pc[c] = "join" => resume[c]
  /\ \A r \in Readers : reader[r] = "unborn" => r \notin told
  /\ poll # None => poll \notin told /\ reader[poll] # "unborn"

\* An open link that says it is connected, or shows values, has a reader in
\* place, is getting one, or is about to clear the screen.
Attended ==
  /\ ~closed /\ poll # None => Alive(poll) /\ reader[poll] # "clearing"
  /\ connected /\ ~closed => poll # None \/ Coming
  /\ screen = "values" /\ ~closed =>
       \/ poll # None
       \/ Coming
       \/ \E r \in Readers : reader[r] = "clearing"

Patient == LeftAlone /\ StoppedInTurn /\ Attended
-----------------------------------------------------------------------------
LEMMA PatientSetUp ==
  ASSUME TypeOK, TypeOK', IInv, Patient, Prompt, SetUp
  PROVE  Patient'
<1> USE PollingAssumption DEF TypeOK, Patient, Prompt, Alive, Readers, Callers,
SetUp, readerVars, callVars
<1>1. LeftAlone'
  BY DEF LeftAlone
<1>2. StoppedInTurn'
  BY DEF StoppedInTurn
<1>3. Attended'
  BY DEF Attended, Coming
<1>4. QED
  BY <1>1, <1>2, <1>3

LEMMA PatientFirstReader ==
  ASSUME TypeOK, TypeOK', IInv, Patient, Prompt, FirstReader
  PROVE  Patient'
<1> USE PollingAssumption DEF TypeOK, Patient, Prompt, Alive, Readers, Callers,
FirstReader, StartPolling, NoNewReader, Zombie, callVars
<1>1. LeftAlone'
  BY DEF LeftAlone
<1>2. StoppedInTurn'
  BY DEF StoppedInTurn, IInv, Fresh
<1>3. Attended'
  BY DEF Attended, LeftAlone
<1>4. QED
  BY <1>1, <1>2, <1>3

LEMMA PatientDiscover ==
  ASSUME TypeOK, TypeOK', IInv, Patient, Prompt, NEW c \in Discoverers, Discover(c)
  PROVE  Patient'
<1> USE PollingAssumption DEF TypeOK, Patient, Prompt, Alive, Readers, Callers,
Discover, Finish, readerVars
<1>1. LeftAlone'
  BY DEF LeftAlone
<1>2. StoppedInTurn'
  BY DEF StoppedInTurn
<1>3. Attended'
  BY DEF Attended, Coming
<1>4. QED
  BY <1>1, <1>2, <1>3

LEMMA PatientNothingToAsk ==
  ASSUME TypeOK, TypeOK', IInv, Patient, Prompt, NEW c \in Discoverers,
  NothingToAsk(c)
  PROVE  Patient'
<1> USE PollingAssumption DEF TypeOK, Patient, Prompt, Alive, Readers, Callers,
NothingToAsk, Finish, readerVars
<1>1. LeftAlone'
  BY DEF LeftAlone
<1>2. StoppedInTurn'
  BY DEF StoppedInTurn
<1>3. Attended'
  BY DEF Attended, Coming
<1>4. QED
  BY <1>1, <1>2, <1>3

LEMMA PatientPause ==
  ASSUME TypeOK, TypeOK', IInv, Patient, Prompt, NEW c \in Discoverers, Pause(c)
  PROVE  Patient'
<1> USE PollingAssumption DEF TypeOK, Patient, Prompt, Alive, Readers, Callers,
Pause, Zombie, Finish, BeginStop
<1>1. LeftAlone'
  BY DEF LeftAlone, IInv, OneRestarter, Mid
<1>2. StoppedInTurn'
  BY DEF StoppedInTurn
<1>3. Attended'
  BY DEF Attended, Coming
<1>4. QED
  BY <1>1, <1>2, <1>3

LEMMA PatientPaused ==
  ASSUME TypeOK, TypeOK', IInv, Patient, Prompt, NEW c \in Discoverers, Paused(c)
  PROVE  Patient'
<1> USE PollingAssumption DEF TypeOK, Patient, Prompt, Alive, Readers, Callers,
Paused, Joined, Survives
<1>1. LeftAlone'
  BY DEF LeftAlone
<1>2. StoppedInTurn'
  BY DEF StoppedInTurn
<1>3. Attended'
  BY DEF Attended, Coming, StoppedInTurn
<1>4. QED
  BY <1>1, <1>2, <1>3

LEMMA PatientEndTalk ==
  ASSUME TypeOK, TypeOK', IInv, Patient, Prompt, NEW c \in Discoverers, EndTalk(c)
  PROVE  Patient'
<1> USE PollingAssumption DEF TypeOK, Patient, Prompt, Alive, Readers, Callers,
EndTalk, Finish, readerVars
<1>1. LeftAlone'
  BY DEF LeftAlone
<1>2. StoppedInTurn'
  BY DEF StoppedInTurn
<1>3. Attended'
  BY DEF Attended, Coming
<1>4. QED
  BY <1>1, <1>2, <1>3

LEMMA PatientResume ==
  ASSUME TypeOK, TypeOK', IInv, Patient, Prompt, NEW c \in Discoverers, Resume(c)
  PROVE  Patient'
<1> USE PollingAssumption DEF TypeOK, Patient, Prompt, Alive, Readers, Callers,
Resume, StartPolling, NoNewReader, Zombie, Finish
<1>1. LeftAlone'
  BY DEF LeftAlone
<1>2. StoppedInTurn'
  BY DEF StoppedInTurn, IInv, Fresh, Starters
<1>3. Attended'
  BY DEF Attended, LeftAlone
<1>4. QED
  BY <1>1, <1>2, <1>3

LEMMA PatientTune ==
  ASSUME TypeOK, TypeOK', IInv, Patient, Prompt, NEW c \in Tuners, Tune(c)
  PROVE  Patient'
<1> USE PollingAssumption DEF TypeOK, Patient, Prompt, Alive, Readers, Callers,
Tune, Zombie, BeginStop
<1>1. LeftAlone'
  BY DEF LeftAlone, IInv, OneRestarter, Mid
<1>2. StoppedInTurn'
  BY DEF StoppedInTurn
<1>3. Attended'
  BY DEF Attended, Coming
<1>4. QED
  BY <1>1, <1>2, <1>3

LEMMA PatientRetuned ==
  ASSUME TypeOK, TypeOK', IInv, Patient, Prompt, NEW c \in Tuners, Retuned(c)
  PROVE  Patient'
<1> USE PollingAssumption DEF TypeOK, Patient, Prompt, Alive, Readers, Callers,
Retuned, Survives, StartPolling, NoNewReader, Zombie
<1>1. LeftAlone'
  BY DEF LeftAlone
<1>2. StoppedInTurn'
  BY DEF StoppedInTurn, IInv, Fresh, Starters
<1>3. Attended'
  BY DEF Attended, LeftAlone
<1>4. QED
  BY <1>1, <1>2, <1>3

LEMMA PatientCallClose ==
  ASSUME TypeOK, TypeOK', IInv, Patient, Prompt, NEW c \in Closers, CallClose(c)
  PROVE  Patient'
<1> USE PollingAssumption DEF TypeOK, Patient, Prompt, Alive, Readers, Callers,
CallClose, linkVars, readerVars
<1>1. LeftAlone'
  BY DEF LeftAlone
<1>2. StoppedInTurn'
  BY DEF StoppedInTurn
<1>3. Attended'
  BY DEF Attended, Coming
<1>4. QED
  BY <1>1, <1>2, <1>3

LEMMA PatientMarkClosed ==
  ASSUME TypeOK, TypeOK', IInv, Patient, Prompt, NEW c \in Closers, MarkClosed(c)
  PROVE  Patient'
<1> USE PollingAssumption DEF TypeOK, Patient, Prompt, Alive, Readers, Callers,
MarkClosed, readerVars
<1>1. LeftAlone'
  BY DEF LeftAlone
<1>2. StoppedInTurn'
  BY DEF StoppedInTurn
<1>3. Attended'
  BY DEF Attended
<1>4. QED
  BY <1>1, <1>2, <1>3

LEMMA PatientCloseStops ==
  ASSUME TypeOK, TypeOK', IInv, Patient, Prompt, NEW c \in Closers, CloseStops(c)
  PROVE  Patient'
<1> USE PollingAssumption DEF TypeOK, Patient, Prompt, Alive, Readers, Callers,
CloseStops, BeginStop
<1>1. LeftAlone'
  BY DEF LeftAlone, IInv, OneRestarter, Mid
<1>2. StoppedInTurn'
  BY DEF StoppedInTurn
<1>3. Attended'
  BY DEF Attended, IInv, ClosedForGood
<1>4. QED
  BY <1>1, <1>2, <1>3

LEMMA PatientCloseJoined ==
  ASSUME TypeOK, TypeOK', IInv, Patient, Prompt, NEW c \in Closers, CloseJoined(c)
  PROVE  Patient'
<1> USE PollingAssumption DEF TypeOK, Patient, Prompt, Alive, Readers, Callers,
CloseJoined, Joined, Survives
<1>1. LeftAlone'
  BY DEF LeftAlone
<1>2. StoppedInTurn'
  BY DEF StoppedInTurn
<1>3. Attended'
  BY DEF Attended, Coming
<1>4. QED
  BY <1>1, <1>2, <1>3

LEMMA PatientHangUp ==
  ASSUME TypeOK, TypeOK', IInv, Patient, Prompt, NEW c \in Closers, HangUp(c)
  PROVE  Patient'
<1> USE PollingAssumption DEF TypeOK, Patient, Prompt, Alive, Readers, Callers,
HangUp, readerVars
<1>1. LeftAlone'
  BY DEF LeftAlone
<1>2. StoppedInTurn'
  BY DEF StoppedInTurn
<1>3. Attended'
  BY DEF Attended, Coming
<1>4. QED
  BY <1>1, <1>2, <1>3

LEMMA PatientShut ==
  ASSUME TypeOK, TypeOK', IInv, Patient, Prompt, NEW c \in Closers, Shut(c)
  PROVE  Patient'
<1> USE PollingAssumption DEF TypeOK, Patient, Prompt, Alive, Readers, Callers,
Shut, Zombie, linkVars
<1>1. LeftAlone'
  BY DEF LeftAlone
<1>2. StoppedInTurn'
  BY DEF StoppedInTurn
<1>3. Attended'
  BY DEF Attended, Coming
<1>4. QED
  BY <1>1, <1>2, <1>3

LEMMA PatientClearScreen ==
  ASSUME TypeOK, TypeOK', IInv, Patient, Prompt, NEW c \in Closers, ClearScreen(c)
  PROVE  Patient'
<1> USE PollingAssumption DEF TypeOK, Patient, Prompt, Alive, Readers, Callers,
ClearScreen, linkVars, readerVars
<1>1. LeftAlone'
  BY DEF LeftAlone
<1>2. StoppedInTurn'
  BY DEF StoppedInTurn
<1>3. Attended'
  BY DEF Attended, Coming
<1>4. QED
  BY <1>1, <1>2, <1>3

LEMMA PatientTurn ==
  ASSUME TypeOK, TypeOK', IInv, Patient, Prompt, NEW r \in Readers, Turn(r)
  PROVE  Patient'
<1> USE PollingAssumption DEF TypeOK, Patient, Prompt, Alive, Readers, Callers,
Turn, Step, SameCalls, callVars
<1>1. LeftAlone'
  BY DEF LeftAlone
<1>2. StoppedInTurn'
  BY DEF StoppedInTurn
<1>3. Attended'
  BY DEF Attended, Coming, StoppedInTurn
<1>4. QED
  BY <1>1, <1>2, <1>3

LEMMA PatientEndRead ==
  ASSUME TypeOK, TypeOK', IInv, Patient, Prompt, NEW r \in Readers, EndRead(r)
  PROVE  Patient'
<1> USE PollingAssumption DEF TypeOK, Patient, Prompt, Alive, Readers, Callers,
EndRead, Step, SameCalls, callVars
<1>1. LeftAlone'
  BY DEF LeftAlone
<1>2. StoppedInTurn'
  BY DEF StoppedInTurn
<1>3. Attended'
  BY DEF Attended, Coming, LeftAlone, IInv, OneRestarter, Accounted, ClosedForGood
<1>4. QED
  BY <1>1, <1>2, <1>3

LEMMA PatientEnded ==
  ASSUME TypeOK, TypeOK', IInv, Patient, Prompt, NEW r \in Readers, Ended(r)
  PROVE  Patient'
<1> USE PollingAssumption DEF TypeOK, Patient, Prompt, Alive, Readers, Callers,
Ended, Step, SameCalls, callVars
<1>1. LeftAlone'
  BY DEF LeftAlone
<1>2. StoppedInTurn'
  BY DEF StoppedInTurn
<1>3. Attended'
  BY DEF Attended, Coming, StoppedInTurn
<1>4. QED
  BY <1>1, <1>2, <1>3

LEMMA PatientGiveUp ==
  ASSUME TypeOK, TypeOK', IInv, Patient, Prompt, NEW r \in Readers, GiveUp(r)
  PROVE  Patient'
<1> USE PollingAssumption DEF TypeOK, Patient, Prompt, Alive, Readers, Callers,
GiveUp, Step, SameCalls, callVars
<1>1. LeftAlone'
  BY DEF LeftAlone
<1>2. StoppedInTurn'
  BY DEF StoppedInTurn
<1>3. Attended'
  BY DEF Attended, Coming, IInv, OneRestarter
<1>4. QED
  BY <1>1, <1>2, <1>3

LEMMA PatientReport ==
  ASSUME TypeOK, TypeOK', IInv, Patient, Prompt, NEW r \in Readers, Report(r)
  PROVE  Patient'
<1> USE PollingAssumption DEF TypeOK, Patient, Prompt, Alive, Readers, Callers,
Report, Step, SameCalls, callVars
<1>1. LeftAlone'
  BY DEF LeftAlone
<1>2. StoppedInTurn'
  BY DEF StoppedInTurn
<1>3. Attended'
  BY DEF Attended, Coming
<1>4. QED
  BY <1>1, <1>2, <1>3

-----------------------------------------------------------------------------
\* From the actions to the specification.

LEMMA PatientInit == Init => Patient
BY PollingAssumption DEF Init, Patient, LeftAlone, StoppedInTurn, Attended,
     Readers, Callers, Coming

LEMMA PatientStep ==
  Prompt /\ TypeOK /\ TypeOK' /\ IInv /\ Patient /\ [Next]_vars => Patient'
<1> SUFFICES ASSUME Prompt, TypeOK, TypeOK', IInv, Patient, [Next]_vars
             PROVE  Patient'
  OBVIOUS
<1>1. CASE UNCHANGED vars
  BY <1>1 DEF vars, linkVars, readerVars, callVars, Patient, LeftAlone,
       StoppedInTurn, Attended, Alive, Coming
<1>2. CASE SetUp \/ FirstReader
  BY <1>2, PatientSetUp, PatientFirstReader
<1>3. ASSUME NEW c \in Discoverers,
             \/ Discover(c) \/ NothingToAsk(c) \/ Pause(c) \/ Paused(c)
             \/ Resume(c) \/ EndTalk(c)
      PROVE  Patient'
  BY <1>3, PatientDiscover, PatientNothingToAsk, PatientPause, PatientPaused,
     PatientResume, PatientEndTalk
<1>4. ASSUME NEW c \in Tuners, Tune(c) \/ Retuned(c)
      PROVE  Patient'
  BY <1>4, PatientTune, PatientRetuned
<1>5. ASSUME NEW c \in Closers,
             \/ CallClose(c) \/ MarkClosed(c) \/ CloseStops(c) \/ CloseJoined(c)
             \/ HangUp(c) \/ Shut(c) \/ ClearScreen(c)
      PROVE  Patient'
  BY <1>5, PatientCallClose, PatientMarkClosed, PatientCloseStops,
       PatientCloseJoined,
     PatientHangUp, PatientShut, PatientClearScreen
<1>6. ASSUME NEW r \in Readers,
             Turn(r) \/ Ended(r) \/ GiveUp(r) \/ Report(r) \/ EndRead(r)
      PROVE  Patient'
  BY <1>6, PatientTurn, PatientEnded, PatientGiveUp, PatientReport, PatientEndRead
<1>7. QED
  BY <1>1, <1>2, <1>3, <1>4, <1>5, <1>6, Disjuncts

\* A reader alone is in place, joined or clearing the screen; the first two are
\* excluded while a discovery talks, and a second discovery by its lock.
LEMMA TalksAlone == TypeOK /\ IInv /\ Patient => OneTalker
<1> SUFFICES ASSUME TypeOK, IInv, Patient, NEW a \in Talkers, NEW b \in Talkers
             PROVE  a = b
  BY DEF OneTalker
<1> USE PollingAssumption DEF Talkers, Readers, Callers
<1>1. CASE a \in Discoverers /\ pc[a] = "talking"
  <2>1. \A r \in Readers : reader[r] # "reading"
    BY <1>1 DEF Patient, LeftAlone, IInv, OneRestarter, Mid, Accounted, Alive
  <2>2. QED
    BY <1>1, <2>1 DEF IInv, OneRestarter, Mid
<1>2. CASE a \in Readers /\ reader[a] = "reading"
  <2>1. \A c \in Discoverers : pc[c] # "talking"
    BY <1>2 DEF Patient, LeftAlone, IInv, OneRestarter, Mid, Accounted, Alive
  <2>2. QED
    BY <1>2, <2>1 DEF IInv, OneReader, Alive
<1>3. QED
  BY <1>1, <1>2

LEMMA AttendedIsRead == TypeOK /\ IInv /\ Patient => ShownIsRead
BY DEF TypeOK, IInv, Patient, StoppedInTurn, Attended, ShownIsRead, NothingFrozen,
     ConnectedIsRead, Alive

\* The inductive invariant of a relay whose turns end in time.
THEOREM PatientInductive == ASSUME Prompt PROVE Spec => []Patient
BY PatientInit, PatientStep, TypeCorrect, Inductive, PTL DEF Spec

\* A reader and a discovery, or two of either, never talk on one stream at
\* once, for any number of calls, when no join expires.
THEOREM OneTalkerHolds == ASSUME Prompt PROVE Spec => []OneTalker
BY TalksAlone, TypeCorrect, Inductive, PatientInductive, PTL

\* An open link that says it is connected is read or about to be, and so is a
\* screen that shows values, for any number of calls, when no join expires.
THEOREM ShownIsReadHolds == ASSUME Prompt PROVE Spec => []ShownIsRead
BY AttendedIsRead, TypeCorrect, Inductive, PatientInductive, PTL
=============================================================================
