----------------------------- MODULE LiveProofs -----------------------------
(***************************************************************************)
(* What is proved about the way from the relay to the screen, for any      *)
(* number of screens, diagrams, bits, rows and prompts: what a stream told *)
(* its screen, what MMS reads, how a session ends, which name a value is   *)
(* shown under, and the types of it all.  The stream of a relay has its    *)
(* own module, RelayStreamProofs.                                          *)
(***************************************************************************)
EXTENDS MCLive, RelayStreamProofs

-----------------------------------------------------------------------------
(* Streams and screens (LiveFeed).                                         *)

LEMMA ClearIsState == Clear \in State
BY DEF Clear, State, Errors

LEMMA FeedInitTyped == FeedInit => FeedTypeOK
BY ClearIsState DEF FeedInit, FeedTypeOK

\* Storing an error, or a state in the link, keeps the rest.
LEMMA StateStep ==
    \A s \in State, e \in Errors :
        LET t == [s EXCEPT !.error = e] IN t \in State /\ t.value = s.value
BY DEF State

LEMMA LinkStep ==
    \A l \in [connected : BOOLEAN, state : State], s \in State :
        LET m == [l EXCEPT !.state = s] IN
            m \in [connected : BOOLEAN, state : State] /\ m.state = s
OBVIOUS

\* Waking streams keeps where they are.
LEMMA BumpTyped ==
    ASSUME FeedTypeOK, NEW those, stream' = Bump(those)
    PROVE  /\ stream' \in [Screens -> [at : {"look", "build", "park"},
                                       on : {"link", "idle"}, moved : BOOLEAN]]
           /\ \A d \in Screens : /\ stream'[d].at = stream[d].at
                                 /\ stream'[d].on = stream[d].on
                                 /\ stream'[d].moved = (d \in those \/ stream[d].moved)
BY DEF FeedTypeOK, Bump

\* A stream that goes on stays on its state.
LEMMA MoveTyped ==
    ASSUME FeedTypeOK, NEW d \in Screens, NEW where \in {"look", "park"}, Move(d, where)
    PROVE  /\ stream' \in [Screens -> [at : {"look", "build", "park"},
                                       on : {"link", "idle"}, moved : BOOLEAN]]
           /\ \A e \in Screens : /\ stream'[e].at = IF e = d THEN where ELSE stream[e].at
                                 /\ stream'[e].on = stream[e].on
                                 /\ stream'[e].moved = stream[e].moved
BY DEF FeedTypeOK, Move

\* A stream parked on a state that did not move holds what it sent, attached
\* to that state or not.
ParkedHasState ==
    \A d \in Screens :
        stream[d].at = "park" /\ ~stream[d].moved /\ stream[d].on = screen[d].from
        => screen[d].state.value =
              IF stream[d].on = "link" THEN link.state.value ELSE idle[d].value

FeedSteps ==
    \/ \E v \in Readings : Read(v)
    \/ ReadRaises \/ GiveUp \/ Explain \/ Renew
    \/ \E d \in Screens :
        \/ AttachTo(d) \/ Detach(d) \/ Leave(d) \/ ConnectFails(d)
        \/ Look(d) \/ BuildFrame(d) \/ Released(d) \/ Heartbeat(d)

LEMMA FeedStepKeeps ==
    ASSUME FeedTypeOK, ParkedHasState, [FeedNext]_feedVars
    PROVE  FeedTypeOK' /\ ParkedHasState'
<1>0. FeedSteps \/ UNCHANGED feedVars
  BY DEF FeedNext, FeedSteps, Stream
<1>1. ASSUME NEW v \in Readings, Read(v) PROVE FeedTypeOK' /\ ParkedHasState'
  <2>1. [value |-> v, error |-> ""] \in State
    BY DEF State, Errors
  <2>2. link' \in [connected : BOOLEAN, state : State]
    BY <1>1, <2>1, LinkStep DEF Read, FeedTypeOK
  <2>3. UNCHANGED <<idle, attached, leaving, screen>> /\ stream' = Bump(OnLink)
    BY <1>1 DEF Read
  <2> QED
    BY <2>2, <2>3, BumpTyped DEF FeedTypeOK, ParkedHasState, OnLink
<1>2. CASE ReadRaises
  <2>1. /\ link' \in [connected : BOOLEAN, state : State]
        /\ link'.state.value = link.state.value
    <3>1. link.state \in State /\ "poll" \in Errors
      BY DEF FeedTypeOK, Errors
    <3>2. link' = [link EXCEPT !.state = [link.state EXCEPT !.error = "poll"]]
      BY <1>2 DEF ReadRaises
    <3> QED
      BY <3>1, <3>2, StateStep, LinkStep DEF FeedTypeOK
  <2>2. UNCHANGED <<idle, attached, leaving, stream, screen>>
    BY <1>2 DEF ReadRaises
  <2> QED
    BY <2>1, <2>2 DEF FeedTypeOK, ParkedHasState
<1>3. CASE GiveUp
  BY <1>3, BumpTyped, ClearIsState DEF GiveUp, FeedTypeOK, ParkedHasState, OnLink
<1>4. CASE Explain
  <2>1. /\ link' \in [connected : BOOLEAN, state : State]
        /\ link'.state.value = link.state.value
    <3>1. link.state \in State /\ "stopped" \in Errors
      BY DEF FeedTypeOK, Errors
    <3>2. link' = [link EXCEPT !.state = [link.state EXCEPT !.error = "stopped"]]
      BY <1>4 DEF Explain
    <3> QED
      BY <3>1, <3>2, StateStep, LinkStep DEF FeedTypeOK
  <2>2. UNCHANGED <<idle, attached, leaving, stream, screen>>
    BY <1>4 DEF Explain
  <2> QED
    BY <2>1, <2>2 DEF FeedTypeOK, ParkedHasState
<1>5. CASE Renew
  BY <1>5, ClearIsState DEF Renew, FeedTypeOK, ParkedHasState
<1>6. ASSUME NEW d \in Screens, AttachTo(d) PROVE FeedTypeOK' /\ ParkedHasState'
  BY <1>6 DEF AttachTo, FeedTypeOK, ParkedHasState
<1>7. ASSUME NEW d \in Screens, Detach(d) PROVE FeedTypeOK' /\ ParkedHasState'
  BY <1>7, BumpTyped, ClearIsState DEF Detach, FeedTypeOK, ParkedHasState, OnLink
<1>8. ASSUME NEW d \in Screens, Leave(d) PROVE FeedTypeOK' /\ ParkedHasState'
  <2>1. CASE leaving' = {} /\ \A e \in Screens : ~attached[e]
    <3>1. /\ link' = [connected |-> FALSE, state |-> Clear]
          /\ stream' = Bump(OnLink)
          /\ leaving' = leaving \ {d} /\ UNCHANGED <<idle, attached, screen>>
      BY <1>8, <2>1 DEF Leave
    <3>2. link' \in [connected : BOOLEAN, state : State]
      BY <3>1, ClearIsState
    <3>3. FeedTypeOK'
      BY <3>1, <3>2, BumpTyped DEF FeedTypeOK
    <3>4. \A e \in Screens : stream[e].on = "link" => stream'[e].moved
      BY <3>1, BumpTyped DEF OnLink
    <3>5. ASSUME NEW e \in Screens, stream'[e].at = "park", ~stream'[e].moved,
                 stream'[e].on = screen'[e].from
          PROVE  screen'[e].state.value =
                   IF stream'[e].on = "link" THEN link'.state.value ELSE idle'[e].value
      <4>1. stream[e].on = "idle" /\ stream'[e].on = stream[e].on
        BY <3>1, <3>4, <3>5, BumpTyped DEF FeedTypeOK
      <4>2. stream[e].at = "park" /\ ~stream[e].moved /\ stream[e].on = screen[e].from
        BY <3>1, <3>5, BumpTyped
      <4> QED
        BY <3>1, <4>1, <4>2 DEF ParkedHasState
    <3> QED
      BY <3>3, <3>5 DEF ParkedHasState
  <2>2. CASE UNCHANGED <<link, stream>>
    BY <1>8, <2>2 DEF Leave, FeedTypeOK, ParkedHasState
  <2> QED
    BY <1>8, <2>1, <2>2 DEF Leave
<1>9. ASSUME NEW d \in Screens, ConnectFails(d) PROVE FeedTypeOK' /\ ParkedHasState'
  <2>1. /\ idle' \in [Screens -> State]
        /\ \A e \in Screens : idle'[e].value = idle[e].value
    <3>1. idle[d] \in State /\ "stopped" \in Errors
      BY DEF FeedTypeOK, Errors
    <3>2. /\ [idle[d] EXCEPT !.error = "stopped"] \in State
          /\ [idle[d] EXCEPT !.error = "stopped"].value = idle[d].value
      BY <3>1, StateStep
    <3>3. idle' = [idle EXCEPT ![d] = [idle[d] EXCEPT !.error = "stopped"]]
      BY <1>9 DEF ConnectFails
    <3> QED
      BY <3>2, <3>3 DEF FeedTypeOK
  <2>2. UNCHANGED <<link, attached, leaving, stream, screen>>
    BY <1>9 DEF ConnectFails
  <2> QED
    BY <2>1, <2>2 DEF FeedTypeOK, ParkedHasState
<1>10. ASSUME NEW d \in Screens, Look(d) PROVE FeedTypeOK' /\ ParkedHasState'
  BY <1>10 DEF Look, Which, FeedTypeOK, ParkedHasState
<1>11. ASSUME NEW d \in Screens, BuildFrame(d) PROVE FeedTypeOK' /\ ParkedHasState'
  <2>1. /\ Shown(d) = IF attached[d] THEN link.state ELSE idle[d]
        /\ Which(d) = IF attached[d] THEN "link" ELSE "idle"
    BY DEF Shown, Which
  <2>2. /\ screen' = [screen EXCEPT ![d] = [state |-> Shown(d), from |-> Which(d)]]
        /\ UNCHANGED <<link, idle, attached, leaving>>
    BY <1>11 DEF BuildFrame
  <2>3. Move(d, "park")
    BY <1>11 DEF BuildFrame
  <2> QED
    <3>1. screen' \in [Screens -> [state : State, from : {"link", "idle"}]]
      BY <2>1, <2>2 DEF FeedTypeOK
    <3>2. FeedTypeOK'
      BY <2>2, <2>3, <3>1, MoveTyped DEF FeedTypeOK
    <3>3. ASSUME NEW e \in Screens PROVE
             stream'[e].at = "park" /\ ~stream'[e].moved /\ stream'[e].on = screen'[e].from
             => screen'[e].state.value =
                   IF stream'[e].on = "link" THEN link'.state.value ELSE idle'[e].value
      <4>1. CASE e = d
        BY <2>1, <2>2, <2>3, <4>1, MoveTyped DEF FeedTypeOK
      <4>2. CASE e # d
        BY <2>2, <2>3, <4>2, MoveTyped DEF FeedTypeOK, ParkedHasState
      <4> QED
        BY <4>1, <4>2
    <3> QED
      BY <3>2, <3>3 DEF ParkedHasState
<1>12. ASSUME NEW d \in Screens, Released(d) \/ Heartbeat(d)
       PROVE  FeedTypeOK' /\ ParkedHasState'
  <2>1. Move(d, "look") /\ UNCHANGED <<link, idle, attached, leaving, screen>>
    BY <1>12 DEF Released, Heartbeat
  <2> QED
    BY <2>1, MoveTyped DEF FeedTypeOK, ParkedHasState
<1>13. CASE UNCHANGED feedVars
  BY <1>13 DEF feedVars, FeedTypeOK, ParkedHasState
<1> QED
  BY <1>0, <1>1, <1>2, <1>3, <1>4, <1>5, <1>6, <1>7, <1>8, <1>9, <1>10, <1>11,
     <1>12, <1>13 DEF FeedSteps

LEMMA FeedInvariant == FeedSpec => [](FeedTypeOK /\ ParkedHasState)
<1>1. FeedInit => FeedTypeOK /\ ParkedHasState
  BY FeedInitTyped DEF FeedInit, ParkedHasState
<1> QED
  BY <1>1, FeedStepKeeps, PTL DEF FeedSpec

(***************************************************************************)
(* A stream never goes to sleep on a reading it did not send, for any      *)
(* number of screens that share the connection: the version is read before *)
(* the payload is built (src/src/pacct/web/glv/events.py, event_frames).   *)
(***************************************************************************)
THEOREM ParkedHasSentItHolds == FeedSpec => []ParkedHasSentIt
<1>1. FeedTypeOK /\ ParkedHasState => ParkedHasSentIt
  BY DEF FeedTypeOK, ParkedHasState, ParkedHasSentIt, Which, Shown
<1> QED
  BY <1>1, FeedInvariant, PTL

-----------------------------------------------------------------------------
(* The bits that are asked for (WantedBits).                               *)

LEMMA WantedInitTyped == WantedInit => WantedTypeOK
<1> SUFFICES ASSUME WantedInit PROVE WantedTypeOK
  OBVIOUS
<1>1. {} \in SUBSET UNION Pages
  OBVIOUS
<1> QED
  BY <1>1 DEF WantedInit, WantedTypeOK

LEMMA WantedStepTyped ==
    ASSUME WantedTypeOK, [WantedNext]_wantedVars
    PROVE  WantedTypeOK'
<1>1. ASSUME NEW d \in Viewers,
             Join(d) \/ LetGo(d) \/ TakeBack(d) \/ Asking(d) \/ \E p \in Pages : TurnPage(d, p)
      PROVE  WantedTypeOK'
  <2>1. ASSUME NEW b \in SUBSET UNION Pages PROVE UnionWith(d, b) \in SUBSET UNION Pages
    BY DEF UnionWith, WantedTypeOK
  <2>2. page[d] \in SUBSET UNION Pages
    BY DEF WantedTypeOK
  <2>3. CASE Join(d)
    BY <2>3 DEF Join, WantedTypeOK
  <2>4. CASE LetGo(d)
    BY <2>4 DEF LetGo, WantedTypeOK
  <2>5. CASE TakeBack(d)
    <3>1. giving' \subseteq SUBSET UNION Pages
      BY <2>1, <2>5 DEF TakeBack
    <3>2. asked' \in [Viewers -> SUBSET UNION Pages]
      BY <2>5 DEF TakeBack, WantedTypeOK
    <3> QED
      BY <2>5, <3>1, <3>2 DEF TakeBack, WantedTypeOK
  <2>6. CASE Values(d)
    BY <2>6 DEF Values, WantedTypeOK
  <2>7. CASE Note(d)
    <3>1. UnionWith(d, page[d]) \in SUBSET UNION Pages
      BY <2>1, <2>2
    <3>2. /\ asked' \in [Viewers -> SUBSET UNION Pages]
          /\ union' \in [Viewers -> SUBSET UNION Pages]
      BY <2>2, <2>7, <3>1 DEF Note, WantedTypeOK
    <3> QED
      BY <2>7, <3>2 DEF Note, WantedTypeOK
  <2>8. CASE Publish(d)
    BY <2>8 DEF Publish, WantedTypeOK
  <2>9. ASSUME NEW p \in Pages, TurnPage(d, p) PROVE WantedTypeOK'
    BY <2>9 DEF TurnPage, WantedTypeOK
  <2> QED
    BY <1>1, <2>3, <2>4, <2>5, <2>6, <2>7, <2>8, <2>9 DEF Asking
<1>2. CASE GiveBack
  BY <1>2 DEF GiveBack, WantedTypeOK
<1>3. CASE UNCHANGED wantedVars
  BY <1>3 DEF wantedVars, WantedTypeOK
<1> QED
  BY <1>1, <1>2, <1>3 DEF WantedNext

LEMMA WantedInvariant == WantedSpec => []WantedTypeOK
<1> QED
  BY WantedInitTyped, WantedStepTyped, PTL DEF WantedSpec

-----------------------------------------------------------------------------
(* The rows of a relay that only answers TAR (TargetRegion).               *)

\* The reader waits for an answer, about a row or, for TAR <bit>, a bit.
Hearing ==
    \/ task.what \in {"sweep", "bit", "read"}
    \/ task.what = "find" /\ task.try = 1
Subject == IF task.what = "bit" THEN task.bit ELSE task.row
Piece(p) == [row |-> Subject, piece |-> p]
Pieces == [row : Rows, piece : {"names", "values"}]

\* A task is about a row, or a bit, that there is.
TaskIsSound ==
    /\ task.what \in {"sweep", "find", "read", "answer"} => task.row \in Rows
    /\ task.what \in {"bit", "find"} => task.bit \in Bits

\* What the relay says last is the values of what it was asked last.
OwnIsLast ==
    Hearing /\ Subject # Ghost =>
        IF line = <<>> THEN heard.values = Subject
                       ELSE line[Len(line)] = Piece("values")

\* Nothing of an earlier answer is in the stream.
Orderly ==
    IF Hearing /\ Subject # Ghost
    THEN \/ line = <<Piece("names"), Piece("values")>> /\ heard = Silent
         \/ line = <<Piece("values")>> /\ heard = [names |-> Subject, values |-> Unknown]
         \/ line = <<>> /\ heard = [names |-> Subject, values |-> Subject]
    ELSE line = <<>> /\ (Hearing => heard = Silent)

\* What is known of the Relay Word is so, in memory and in the cache.
LayoutIsRight ==
    /\ \A r \in Rows : row_to_names[r] \in {r, Unknown} /\ saved.names[r] \in {r, Unknown}
    /\ \A b \in Bits : bit_to_pos[b] \in {b, Unknown} /\ saved.pos[b] \in {b, Unknown}

RegionTyped == RegionTypeOK /\ TaskIsSound

RowsFacts ==
    /\ Max(Rows) \in Nat /\ Rows = 0 .. Max(Rows)
    /\ Ghost \notin Rows /\ Unknown \notin Rows /\ Unknown # Ghost
    /\ 0 \in Rows /\ Min(Rows) \in Rows /\ MaxAsks \in Nat /\ MaxPauses \in Nat

LEMMA RowsAre == RowsFacts
<1>1. Max(Rows) \in Nat /\ Rows = 0 .. Max(Rows)
  BY RegionAssumption
<1>2. 0 \in Rows
  BY <1>1
<1>3. \A r \in Rows : 0 <= r
  BY <1>1
<1>4. Min(Rows) \in Rows
  BY <1>2, <1>3 DEF Min
<1> QED
  BY <1>1, <1>2, <1>4, RegionAssumption DEF RowsFacts

\* What a question puts in the stream, behind what was in it.
LEMMA AskLine ==
    ASSUME RegionTypeOK, NEW t, NEW row \in Place, Ask(t, row)
    PROVE  /\ task' = t /\ heard' = Silent /\ asks' \in 0 .. MaxAsks
           /\ line' \in Seq(Pieces)
           /\ row # Unknown => /\ line' # <<>>
                               /\ line'[Len(line')] = [row |-> row, piece |-> "values"]
           /\ line = <<>> =>
                line' = IF row = Unknown THEN <<>>
                        ELSE <<[row |-> row, piece |-> "names"],
                               [row |-> row, piece |-> "values"]>>
<1>1. task' = t /\ heard' = Silent /\ asks' \in 0 .. MaxAsks
  BY RowsAre DEF Ask, RegionTypeOK, RowsFacts
<1> DEFINE own == IF row = Unknown THEN <<>>
                  ELSE <<[row |-> row, piece |-> "names"],
                         [row |-> row, piece |-> "values"]>>
<1>2. line \in Seq(Pieces)
  BY DEF RegionTypeOK, Pieces
<1>3. PICK n \in 0 .. Len(line) : line' = SubSeq(line, n + 1, Len(line)) \o own
  BY DEF Ask
<1> DEFINE old == SubSeq(line, n + 1, Len(line))
<1>4. old \in Seq(Pieces) /\ (line = <<>> => old = <<>>)
  <2>1. Len(line) \in Nat /\ n + 1 \in Int
    BY <1>2, LenProperties
  <2>2. \A i \in n + 1 .. Len(line) : line[i] \in Pieces
    BY <1>2, <2>1, ElementOfSeq
  <2>3. line = <<>> => Len(line) < n + 1
    BY <2>1
  <2> QED
    BY <2>1, <2>2, <2>3, SubSeqProperties, SubSeqEmpty
<1>5. own \in Seq(Pieces) /\ (row # Unknown => Len(own) = 2
        /\ own[2] = [row |-> row, piece |-> "values"])
  <2>1. CASE row = Unknown
    BY <2>1
  <2>2. CASE row # Unknown
    <3>1. row \in Rows
      BY <2>2 DEF Place
    <3>2. own = <<[row |-> row, piece |-> "names"], [row |-> row, piece |-> "values"]>>
      BY <2>2
    <3> QED
      BY <2>2, <3>1, <3>2 DEF Pieces
  <2> QED
    BY <2>1, <2>2
<1> HIDE DEF old, own
<1>6. line' \in Seq(Pieces) /\ Len(line') = Len(old) + Len(own)
  BY <1>3, <1>4, <1>5, ConcatProperties DEF old
<1>7. row # Unknown => line' # <<>> /\ line'[Len(line')] = [row |-> row, piece |-> "values"]
  <2>1. Len(old) \in Nat /\ Len(own) \in Nat
    BY <1>4, <1>5, LenProperties
  <2>2. ASSUME row # Unknown
        PROVE  line' # <<>> /\ line'[Len(line')] = [row |-> row, piece |-> "values"]
    <3>1. Len(own) = 2 /\ own[2] = [row |-> row, piece |-> "values"]
      BY <1>5, <2>2
    <3>2. Len(line') = Len(old) + 2
      BY <1>6, <3>1
    <3>3. Len(old) + 2 \in 1 .. Len(old) + Len(own) /\ ~(Len(old) + 2 <= Len(old))
      BY <2>1, <3>1
    <3>4. (old \o own)[Len(old) + 2] = own[Len(old) + 2 - Len(old)]
      BY <1>4, <1>5, <3>3, ConcatProperties
    <3>5. Len(old) + 2 - Len(old) = 2
      BY <2>1
    <3>6. line' = old \o own
      BY <1>3 DEF old
    <3> QED
      BY <2>1, <3>1, <3>2, <3>4, <3>5, <3>6
  <2> QED
    BY <2>2
<1>8. line = <<>> => line' = own
  BY <1>3, <1>4, <1>5, ConcatEmptySeq DEF old
<1> QED
  BY <1>1, <1>6, <1>7, <1>8 DEF own

\* What reading one piece does to the stream.
LEMMA HearLine ==
    ASSUME RegionTypeOK, line # <<>>
    PROVE  /\ Head(line) \in Pieces /\ Tail(line) \in Seq(Pieces)
           /\ Tail(line) = <<>> => Head(line) = line[Len(line)]
           /\ Tail(line) # <<>> => Tail(line)[Len(Tail(line))] = line[Len(line)]
<1>1. line \in Seq(Pieces)
  BY DEF RegionTypeOK, Pieces
<1>2. Len(line) \in Nat /\ Head(line) = line[1]
  BY <1>1, LenProperties
<1>3. /\ Head(line) \in Pieces /\ Tail(line) \in Seq(Pieces)
      /\ Len(Tail(line)) = Len(line) - 1
      /\ \A i \in 1 .. Len(Tail(line)) : Tail(line)[i] = line[i + 1]
  BY <1>1, HeadTailProperties
<1>4. Tail(line) = <<>> => Len(line) = 1
  BY <1>2, <1>3
<1>5. Tail(line) # <<>> => Len(Tail(line)) \in 1 .. Len(Tail(line))
  BY <1>3, LenProperties, EmptySeq
<1> QED
  BY <1>2, <1>3, <1>4, <1>5

RegionSteps ==
    \/ Connect \/ Save \/ Hear \/ Turn
    \/ (\E r \in Rows : SweepRow(r)) \/ (\E r \in Rows : ReadRow(r))
    \/ \E b \in Bits : LookUpBit(b)
    \/ Swept \/ BitAnswered \/ Compare \/ RowAnswered \/ NoSuchRow
    \/ Retry \/ Again \/ RowRead

LEMMA RegionInitTyped == RegionInit => RegionTyped
<1> SUFFICES ASSUME RegionInit PROVE RegionTyped
  OBVIOUS
<1>1. /\ task = [what |-> "idle", row |-> Unknown, bit |-> Unknown, try |-> 0]
      /\ line = <<>> /\ heard = [names |-> Unknown, values |-> Unknown]
  BY DEF RegionInit, Idle, Doing, Silent
<1>2. row_to_names \in [Rows -> Place] /\ bit_to_pos \in [Bits -> Place]
  BY DEF RegionInit, NoLayout, Place
<1>3. saved \in Layout
  BY DEF RegionInit, NoLayout, Layout, Place
<1>4. digitals \in [Bits -> Place] /\ not_findable = {} /\ asks = 0 /\ pauses = 0
  BY DEF RegionInit, Place
<1>5. line \in Seq([row : Rows, piece : {"names", "values"}])
  BY <1>1, EmptySeq
<1> QED
  BY <1>1, <1>2, <1>3, <1>4, <1>5, RowsAre
     DEF RegionTyped, RegionTypeOK, TaskIsSound, Whats, Place, RowsFacts

Tasks == [what : Whats, row : Place, bit : Bits \cup {Unknown}, try : 0 .. 2]

\* A task of a command.
LEMMA AskTyped ==
    ASSUME RegionTyped, NEW t \in Tasks, NEW row \in Place, Ask(t, row),
           t.what \in {"sweep", "find", "read", "answer"} => t.row \in Rows,
           t.what \in {"bit", "find"} => t.bit \in Bits,
           UNCHANGED <<row_to_names, bit_to_pos, not_findable, saved, digitals, pauses>>
    PROVE  RegionTyped'
<1>1. task' = t /\ heard' = Silent /\ asks' \in 0 .. MaxAsks /\ line' \in Seq(Pieces)
  BY AskLine DEF RegionTyped
<1>2. heard' \in [names : Place, values : Place]
  BY <1>1 DEF Silent, Place
<1> QED
  BY <1>1, <1>2 DEF RegionTyped, RegionTypeOK, TaskIsSound, Tasks, Pieces

LEMMA RegionStepTyped ==
    ASSUME RegionTyped, [RegionNext]_regionVars
    PROVE  RegionTyped'
<1> USE RowsAre DEF RowsFacts
<1>0. RegionSteps \/ UNCHANGED regionVars
  BY DEF RegionNext, RegionSteps
<1>1. CASE Connect
  <2>1. PICK l \in {saved, NoLayout} :
           /\ row_to_names' = l.names /\ not_findable' = l.lost
           /\ bit_to_pos' = [b \in Bits |->
                 IF l.pos[b] # Unknown THEN l.pos[b]
                 ELSE IF \E r \in Rows : l.names[r] = b
                      THEN CHOOSE r \in Rows : l.names[r] = b ELSE Unknown]
    BY <1>1 DEF Connect
  <2>2. l \in Layout
    BY DEF RegionTyped, RegionTypeOK, NoLayout, Layout, Place
  <2>3. /\ row_to_names' \in [Rows -> Place] /\ not_findable' \subseteq Bits
        /\ bit_to_pos' \in [Bits -> Place]
    BY <2>1, <2>2 DEF Layout, Place
  <2>4. /\ line' = <<>> /\ digitals' \in [Bits -> Place]
        /\ UNCHANGED <<task, heard, saved, asks, pauses>>
    BY <1>1 DEF Connect, Place
  <2>5. line' \in Seq(Pieces)
    BY <2>4, EmptySeq
  <2> QED
    BY <2>3, <2>4, <2>5 DEF RegionTyped, RegionTypeOK, TaskIsSound, Pieces
<1>2. CASE Save
  BY <1>2 DEF Save, layoutVars, RegionTyped, RegionTypeOK, TaskIsSound, Layout
<1>3. CASE Hear
  <2>1. Head(line) \in Pieces /\ Tail(line) \in Seq(Pieces)
    BY <1>3, HearLine DEF Hear, RegionTyped
  <2>2. heard' \in [names : Place, values : Place]
    BY <1>3, <2>1 DEF Hear, RegionTyped, RegionTypeOK, Pieces, Place
  <2> QED
    BY <1>3, <2>1, <2>2 DEF Hear, layoutVars, RegionTyped, RegionTypeOK,
       TaskIsSound, Pieces
<1>4. CASE Turn
  <2>1. line' \in Seq(Pieces)
    BY <1>4, EmptySeq DEF Turn
  <2> QED
    BY <1>4, <2>1 DEF Turn, layoutVars, RegionTyped, RegionTypeOK, TaskIsSound, Pieces
<1>5. ASSUME NEW r \in Rows, SweepRow(r) PROVE RegionTyped'
  <2>1. Doing("sweep", r, Unknown, 1) \in Tasks /\ r \in Place
    BY DEF Doing, Tasks, Whats, Place
  <2> QED
    BY <1>5, <2>1, AskTyped DEF SweepRow, Doing, layoutVars
<1>6. ASSUME NEW r \in Rows, ReadRow(r) PROVE RegionTyped'
  <2>1. Doing("read", r, Unknown, 1) \in Tasks /\ r \in Place
    BY DEF Doing, Tasks, Whats, Place
  <2> QED
    BY <1>6, <2>1, AskTyped DEF ReadRow, Doing, layoutVars
<1>7. ASSUME NEW b \in Bits, LookUpBit(b) PROVE RegionTyped'
  <2>1. Doing("bit", 0, b, 1) \in Tasks /\ (IF b = Ghost THEN Unknown ELSE b) \in Place
    BY DEF Doing, Tasks, Whats, Place, Bits
  <2> QED
    BY <1>7, <2>1, AskTyped DEF LookUpBit, Doing, layoutVars
<1>8. CASE Swept
  <2>1. task.row \in Rows /\ heard.names \in Place
    BY <1>8 DEF Swept, RegionTyped, RegionTypeOK, TaskIsSound
  <2>2. row_to_names' \in [Rows -> Place] /\ bit_to_pos' \in [Bits -> Place]
    BY <1>8, <2>1 DEF Swept, Record, RegionTyped, RegionTypeOK, Place, Bits
  <2>3. pauses' \in 0 .. MaxPauses
    BY <1>8 DEF Swept, Quiet, RegionTyped, RegionTypeOK
  <2> QED
    BY <1>8, <2>2, <2>3
       DEF Swept, Idle, Doing, RegionTyped, RegionTypeOK, TaskIsSound, Whats, Place
<1>9. CASE BitAnswered
  <2>1. pauses' \in 0 .. MaxPauses
    BY <1>9 DEF BitAnswered, Quiet, RegionTyped, RegionTypeOK
  <2>2. task.bit \in Bits
    BY <1>9 DEF BitAnswered, RegionTyped, TaskIsSound
  <2>3. not_findable' \subseteq Bits /\ task' \in Tasks /\ TaskIsSound'
    BY <1>9, <2>2 DEF BitAnswered, Idle, Doing, RegionTyped, RegionTypeOK,
       TaskIsSound,
       Whats, Place, Tasks
  <2> QED
    BY <1>9, <2>1, <2>3 DEF BitAnswered, RegionTyped, RegionTypeOK, Tasks
<1>10. CASE Compare
  <2>1. task.row \in Rows /\ task.bit \in Bits /\ task \in Tasks /\ task.what = "find"
    BY <1>10 DEF Compare, RegionTyped, RegionTypeOK, TaskIsSound, Tasks
  <2>2. CASE /\ Ask([task EXCEPT !.try = 1], task.row)
             /\ UNCHANGED <<bit_to_pos, row_to_names, not_findable>>
    <3>1. [task EXCEPT !.try = 1] \in Tasks /\ task.row \in Place
      BY <2>1 DEF Tasks, Place
    <3> QED
      BY <1>10, <2>1, <2>2, <3>1, AskTyped DEF Compare, Tasks
  <2>3. CASE /\ row_to_names[task.row] = task.bit
             /\ Record(task.row, task.bit) /\ task' = Idle
             /\ UNCHANGED <<line, heard, asks, not_findable>>
    <3>1. row_to_names' \in [Rows -> Place] /\ bit_to_pos' \in [Bits -> Place]
      BY <2>1, <2>3 DEF Record, RegionTyped, RegionTypeOK, Place
    <3> QED
      BY <1>10, <2>3, <3>1
         DEF Compare, Idle, Doing, RegionTyped, RegionTypeOK, TaskIsSound, Whats, Place
  <2>4. CASE /\ task' = NextRow /\ UNCHANGED <<line, heard, asks, layoutVars>>
    <3>1. task' \in Tasks /\ TaskIsSound'
      BY <2>1, <2>4 DEF NextRow, Tasks, TaskIsSound, Place
    <3> QED
      BY <1>10, <2>4, <3>1 DEF Compare, layoutVars, RegionTyped, RegionTypeOK, Tasks
  <2> QED
    BY <1>10, <2>2, <2>3, <2>4 DEF Compare
<1>11. CASE RowAnswered
  <2>1. task.row \in Rows /\ task.bit \in Bits /\ task \in Tasks /\ task.what = "find"
    BY <1>11 DEF RowAnswered, RegionTyped, RegionTypeOK, TaskIsSound, Tasks
  <2>2. pauses' \in 0 .. MaxPauses
    BY <1>11 DEF RowAnswered, Quiet, RegionTyped, RegionTypeOK
  <2>3. row_to_names' \in [Rows -> Place]
    BY <1>11, <2>1 DEF RowAnswered, RegionTyped, RegionTypeOK
  <2>4. task' \in Tasks /\ TaskIsSound'
    BY <1>11, <2>1 DEF RowAnswered, NextRow, Tasks, TaskIsSound, Place
  <2> QED
    BY <1>11, <2>2, <2>3, <2>4 DEF RowAnswered, RegionTyped, RegionTypeOK, Tasks
<1>12. CASE NoSuchRow
  BY <1>12 DEF NoSuchRow, Idle, Doing, RegionTyped, RegionTypeOK, TaskIsSound,
     Whats, Place
<1>13. CASE Retry
  <2>1. pauses' \in 0 .. MaxPauses
    BY <1>13 DEF Retry, Quiet, RegionTyped, RegionTypeOK
  <2>2. task' \in Tasks /\ TaskIsSound'
    BY <1>13 DEF Retry, RegionTyped, RegionTypeOK, TaskIsSound, Tasks, Whats
  <2> QED
    BY <1>13, <2>1, <2>2 DEF Retry, layoutVars, RegionTyped, RegionTypeOK, Tasks
<1>14. CASE Again
  <2>1. task.row \in Rows
    BY <1>14 DEF Again, RegionTyped, TaskIsSound
  <2>2. Doing("read", task.row, Unknown, 2) \in Tasks /\ task.row \in Place
    BY <2>1 DEF Doing, Tasks, Whats, Place
  <2> QED
    BY <1>14, <2>1, <2>2, AskTyped DEF Again, Doing, layoutVars
<1>15. CASE RowRead
  <2>1. pauses' \in 0 .. MaxPauses
    BY <1>15 DEF RowRead, Quiet, RegionTyped, RegionTypeOK
  <2>2. digitals' \in [Bits -> Place]
    BY <1>15 DEF RowRead, RegionTyped, RegionTypeOK, Place
  <2> QED
    BY <1>15, <2>1, <2>2
       DEF RowRead, layoutVars, Idle, Doing, RegionTyped, RegionTypeOK, TaskIsSound, Whats, Place
<1>16. CASE UNCHANGED regionVars
  BY <1>16 DEF regionVars, RegionTyped, RegionTypeOK, TaskIsSound
<1> QED
  BY <1>0, <1>1, <1>2, <1>3, <1>4, <1>5, <1>6, <1>7, <1>8, <1>9, <1>10, <1>11, <1>12,
     <1>13, <1>14, <1>15, <1>16 DEF RegionSteps

\* At most one answer has been cut: either nothing of an earlier answer is in
\* the stream, or what is known of the Relay Word is still right.
OneCut ==
    /\ OwnIsLast
    /\ Orderly \/ LayoutIsRight
    /\ pauses = 0 => Orderly /\ LayoutIsRight

RegionInv == RegionTyped /\ OneCut /\ TarNeverMislabels

\* A question is asked: what the reader then hears is about its subject.
LEMMA AskKeeps ==
    ASSUME RegionTyped, OneCut, NEW t, NEW row \in Place, Ask(t, row), Hearing',
           Subject' = IF row = Unknown THEN Ghost ELSE row, ~Hearing,
           UNCHANGED <<row_to_names, bit_to_pos, saved, pauses>>
    PROVE  OneCut'
<1> USE RowsAre DEF RowsFacts
<1>1. /\ heard' = Silent
      /\ row # Unknown => /\ line' # <<>>
                          /\ line'[Len(line')] = [row |-> row, piece |-> "values"]
      /\ line = <<>> => line' = IF row = Unknown THEN <<>>
                                ELSE <<[row |-> row, piece |-> "names"],
                                       [row |-> row, piece |-> "values"]>>
  BY AskLine DEF RegionTyped
<1>2. OwnIsLast'
  BY <1>1 DEF OwnIsLast, Piece
<1>3. Orderly => Orderly'
  BY <1>1 DEF Orderly, Piece, Place
<1>4. LayoutIsRight => LayoutIsRight'
  BY DEF LayoutIsRight
<1> QED
  BY <1>2, <1>3, <1>4 DEF OneCut

\* The quiet period has passed and the reader goes on without a question.
LEMMA QuietKeeps ==
    ASSUME MaxPauses <= 1, RegionTyped, OneCut, Quiet, ~Hearing', UNCHANGED line,
           Orderly /\ LayoutIsRight => LayoutIsRight'
    PROVE  OneCut'
<1>1. OwnIsLast'
  BY DEF OwnIsLast
<1>2. CASE line = <<>>
  BY <1>1, <1>2 DEF OneCut, Orderly, Quiet
<1>3. CASE line # <<>>
  BY <1>1, <1>3, RowsAre DEF OneCut, Quiet, RegionTyped, RegionTypeOK, RowsFacts
<1> QED
  BY <1>2, <1>3

\* A step that reads nothing, asks nothing and hears nothing.
LEMMA StillKeeps ==
    ASSUME OneCut, ~Hearing, ~Hearing', line' \in {line, <<>>}, UNCHANGED pauses,
           LayoutIsRight => LayoutIsRight'
    PROVE  OneCut'
BY DEF OneCut, OwnIsLast, Orderly

LEMMA RegionStepKeeps ==
    ASSUME MaxPauses <= 1, RegionInv, [RegionNext]_regionVars
    PROVE  RegionInv'
<1> USE RowsAre DEF RowsFacts
<1>0. RegionSteps \/ UNCHANGED regionVars
  BY DEF RegionNext, RegionSteps
<1>t. RegionTyped /\ RegionTyped' /\ OneCut /\ TarNeverMislabels
  BY RegionStepTyped DEF RegionInv
<1> SUFFICES OneCut' /\ TarNeverMislabels'
  BY <1>t DEF RegionInv
<1>1. CASE Connect
  <2>1. PICK l \in {saved, NoLayout} :
           /\ row_to_names' = l.names
           /\ bit_to_pos' = [b \in Bits |->
                 IF l.pos[b] # Unknown THEN l.pos[b]
                 ELSE IF \E r \in Rows : l.names[r] = b
                      THEN CHOOSE r \in Rows : l.names[r] = b ELSE Unknown]
    BY <1>1 DEF Connect
  <2>2. task = Idle /\ line' = <<>> /\ digitals' = [b \in Bits |-> Unknown]
        /\ UNCHANGED <<task, saved, pauses>>
    BY <1>1 DEF Connect
  <2>3. LayoutIsRight => LayoutIsRight'
    <3> SUFFICES ASSUME LayoutIsRight PROVE LayoutIsRight'
      OBVIOUS
    <3>1. /\ \A r \in Rows : l.names[r] \in {r, Unknown}
          /\ \A b \in Bits : l.pos[b] \in {b, Unknown}
      BY DEF LayoutIsRight, NoLayout
    <3>2. \A r \in Rows : row_to_names'[r] \in {r, Unknown} /\ saved'.names[r] \in {r, Unknown}
      BY <2>1, <2>2, <3>1 DEF LayoutIsRight
    <3>3. ASSUME NEW b \in Bits PROVE bit_to_pos'[b] \in {b, Unknown}
      <4>1. b # Unknown
        BY DEF Bits
      <4>2. \A r \in Rows : l.names[r] = b => r = b
        BY <3>1, <4>1
      <4>3. CASE \E r \in Rows : l.names[r] = b
        <5>1. (CHOOSE r \in Rows : l.names[r] = b) = b
          BY <4>2, <4>3
        <5> QED
          BY <2>1, <3>1, <4>3, <5>1
      <4>4. CASE ~\E r \in Rows : l.names[r] = b
        BY <2>1, <3>1, <4>4
      <4> QED
        BY <4>3, <4>4
    <3> QED
      BY <2>2, <3>2, <3>3 DEF LayoutIsRight
  <2> QED
    BY <1>t, <2>2, <2>3, StillKeeps DEF Hearing, Idle, Doing, TarNeverMislabels
<1>2. CASE Save
  <2>1. LayoutIsRight => LayoutIsRight'
    BY <1>2 DEF Save, layoutVars, LayoutIsRight
  <2> QED
    BY <1>2, <1>t, <2>1, StillKeeps
       DEF Save, layoutVars, Hearing, Idle, Doing, TarNeverMislabels
<1>3. CASE Hear
  <2>1. /\ line # <<>> /\ line' = Tail(line) /\ UNCHANGED <<task, layoutVars, saved, digitals, pauses>>
        /\ heard' = IF Head(line).piece = "values"
                    THEN [heard EXCEPT !.values = Head(line).row]
                    ELSE [heard EXCEPT !.names = IF @ = Unknown THEN Head(line).row ELSE @]
    BY <1>3 DEF Hear
  <2>2. /\ Head(line) \in Pieces
        /\ Tail(line) = <<>> => Head(line) = line[Len(line)]
        /\ Tail(line) # <<>> => Tail(line)[Len(Tail(line))] = line[Len(line)]
    BY <1>t, <2>1, HearLine DEF RegionTyped
  <2>3. (Hearing' <=> Hearing) /\ Subject' = Subject
    BY <2>1 DEF Hearing, Subject
  <2>4. heard \in [names : Place, values : Place]
    BY <1>t DEF RegionTyped, RegionTypeOK
  <2>5. OwnIsLast'
    BY <1>t, <2>1, <2>2, <2>3, <2>4 DEF OneCut, OwnIsLast, Piece
  <2>6. Orderly => Orderly'
    <3> SUFFICES ASSUME Orderly PROVE Orderly'
      OBVIOUS
    <3>1. Hearing /\ Subject # Ghost
      BY <2>1 DEF Orderly
    <3>2. CASE line = <<Piece("names"), Piece("values")>> /\ heard = Silent
      <4>1. Head(line) = Piece("names") /\ Tail(line) = <<Piece("values")>>
        BY <3>2
      <4>2. heard' = [names |-> Subject, values |-> Unknown]
        BY <2>1, <3>2, <4>1 DEF Piece, Silent
      <4> QED
        BY <2>1, <2>3, <3>1, <4>1, <4>2 DEF Orderly, Piece
    <3>3. CASE line = <<Piece("values")>> /\ heard = [names |-> Subject, values |-> Unknown]
      <4>1. Head(line) = Piece("values") /\ Tail(line) = <<>>
        BY <3>3
      <4>2. heard' = [names |-> Subject, values |-> Subject]
        BY <2>1, <3>3, <4>1 DEF Piece
      <4> QED
        BY <2>1, <2>3, <3>1, <4>1, <4>2 DEF Orderly, Piece
    <3> QED
      BY <2>1, <3>1, <3>2, <3>3 DEF Orderly
  <2>7. LayoutIsRight => LayoutIsRight'
    BY <2>1 DEF layoutVars, LayoutIsRight
  <2> QED
    BY <1>t, <2>1, <2>5, <2>6, <2>7 DEF OneCut, TarNeverMislabels
<1>4. CASE Turn
  <2>1. LayoutIsRight => LayoutIsRight'
    BY <1>4 DEF Turn, layoutVars, LayoutIsRight
  <2> QED
    BY <1>4, <1>t, <2>1, StillKeeps DEF Turn, Hearing, Idle, Doing, TarNeverMislabels
<1>5. ASSUME NEW r \in Rows, SweepRow(r) PROVE OneCut' /\ TarNeverMislabels'
  <2>1. /\ task = Idle /\ Ask(Doing("sweep", r, Unknown, 1), r) /\ r \in Place
        /\ UNCHANGED <<layoutVars, saved, digitals, pauses>>
    BY <1>5 DEF SweepRow, Place
  <2>2. task' = Doing("sweep", r, Unknown, 1)
    BY <2>1 DEF Ask
  <2>3. Hearing' /\ ~Hearing /\ Subject' = r
    BY <2>1, <2>2 DEF Hearing, Subject, Idle, Doing
  <2> QED
    BY <1>t, <2>1, <2>3, AskKeeps DEF layoutVars, TarNeverMislabels
<1>6. ASSUME NEW r \in Rows, ReadRow(r) PROVE OneCut' /\ TarNeverMislabels'
  <2>1. /\ task = Idle /\ Ask(Doing("read", r, Unknown, 1), r) /\ r \in Place
        /\ UNCHANGED <<layoutVars, saved, digitals, pauses>>
    BY <1>6 DEF ReadRow, Place
  <2>2. task' = Doing("read", r, Unknown, 1)
    BY <2>1 DEF Ask
  <2>3. Hearing' /\ ~Hearing /\ Subject' = r
    BY <2>1, <2>2 DEF Hearing, Subject, Idle, Doing
  <2> QED
    BY <1>t, <2>1, <2>3, AskKeeps DEF layoutVars, TarNeverMislabels
<1>7. ASSUME NEW b \in Bits, LookUpBit(b) PROVE OneCut' /\ TarNeverMislabels'
  <2> DEFINE row == IF b = Ghost THEN Unknown ELSE b
  <2>1. /\ task = Idle /\ Ask(Doing("bit", 0, b, 1), row) /\ row \in Place
        /\ UNCHANGED <<layoutVars, saved, digitals, pauses>>
    BY <1>7 DEF LookUpBit, Place, Bits
  <2>2. task' = Doing("bit", 0, b, 1)
    BY <2>1 DEF Ask
  <2>3. Hearing' /\ ~Hearing /\ Subject' = IF row = Unknown THEN Ghost ELSE row
    BY <2>1, <2>2 DEF Hearing, Subject, Idle, Doing, Bits
  <2> QED
    BY <1>t, <2>1, <2>3, AskKeeps DEF layoutVars, TarNeverMislabels
<1>8. CASE Swept
  <2>1. task.what = "sweep" /\ Hearing /\ Subject = task.row /\ task.row \in Rows
    BY <1>8, <1>t DEF Swept, Hearing, Subject, RegionTyped, TaskIsSound
  <2>2. Orderly /\ LayoutIsRight => LayoutIsRight'
    <3> SUFFICES ASSUME Orderly, LayoutIsRight PROVE LayoutIsRight'
      OBVIOUS
    <3>1. heard.names \in {task.row, Unknown}
      BY <2>1 DEF Orderly, Silent
    <3> QED
      BY <1>8, <1>t, <2>1, <3>1 DEF Swept, Record, LayoutIsRight, RegionTyped,
         RegionTypeOK, Bits
  <2>3. Quiet /\ ~Hearing' /\ UNCHANGED <<line, digitals>>
    BY <1>8 DEF Swept, Hearing, Idle, Doing
  <2> QED
    BY <1>t, <2>2, <2>3, QuietKeeps DEF TarNeverMislabels
<1>9. CASE BitAnswered
  <2>1. Quiet /\ ~Hearing' /\ UNCHANGED <<line, row_to_names, bit_to_pos, saved, digitals>>
    BY <1>9 DEF BitAnswered, Hearing, Idle, Doing
  <2>2. LayoutIsRight => LayoutIsRight'
    BY <2>1 DEF LayoutIsRight
  <2> QED
    BY <1>t, <2>1, <2>2, QuietKeeps DEF TarNeverMislabels
<1>10. CASE Compare
  <2>1. /\ task.row \in Rows /\ task.bit \in Bits /\ task \in Tasks /\ task.what = "find"
        /\ task.try = 0 /\ ~Hearing /\ UNCHANGED <<saved, digitals, pauses>>
    BY <1>10, <1>t DEF Compare, Hearing, RegionTyped, RegionTypeOK, TaskIsSound, Tasks
  <2>2. CASE /\ Ask([task EXCEPT !.try = 1], task.row)
             /\ UNCHANGED <<bit_to_pos, row_to_names, not_findable>>
    <3>1. task' = [task EXCEPT !.try = 1] /\ task.row \in Place
      BY <2>1, <2>2 DEF Ask, Place
    <3>2. Hearing' /\ Subject' = task.row
      BY <2>1, <3>1 DEF Hearing, Subject, Tasks
    <3> QED
      BY <1>t, <2>1, <2>2, <3>1, <3>2, AskKeeps DEF TarNeverMislabels
  <2>3. CASE /\ row_to_names[task.row] = task.bit
             /\ Record(task.row, task.bit) /\ task' = Idle
             /\ UNCHANGED <<line, heard, asks, not_findable>>
    <3>1. LayoutIsRight => LayoutIsRight'
      BY <1>t, <2>1, <2>3 DEF LayoutIsRight, Record, RegionTyped, RegionTypeOK, Bits
    <3> QED
      BY <1>t, <2>1, <2>3, <3>1, StillKeeps DEF Hearing, Idle, Doing,
         TarNeverMislabels
  <2>4. CASE /\ task' = NextRow /\ UNCHANGED <<line, heard, asks, layoutVars>>
    <3>1. ~Hearing'
      BY <2>1, <2>4 DEF NextRow, Hearing, Tasks
    <3>2. LayoutIsRight => LayoutIsRight'
      BY <2>1, <2>4 DEF LayoutIsRight, layoutVars
    <3> QED
      BY <1>t, <2>1, <2>4, <3>1, <3>2, StillKeeps DEF TarNeverMislabels
  <2> QED
    BY <1>10, <2>2, <2>3, <2>4 DEF Compare
<1>11. CASE RowAnswered
  <2>1. /\ task.row \in Rows /\ task \in Tasks /\ task.what = "find" /\ task.try = 1
        /\ Hearing /\ Subject = task.row
    BY <1>11, <1>t
       DEF RowAnswered, Hearing, Subject, RegionTyped, RegionTypeOK, TaskIsSound, Tasks
  <2>2. Quiet /\ UNCHANGED <<line, bit_to_pos, saved, digitals>>
    BY <1>11 DEF RowAnswered
  <2>3. ~Hearing'
    BY <1>11, <2>1 DEF RowAnswered, NextRow, Hearing, Tasks
  <2>4. Orderly /\ LayoutIsRight => LayoutIsRight'
    <3> SUFFICES ASSUME Orderly, LayoutIsRight PROVE LayoutIsRight'
      OBVIOUS
    <3>1. heard.names \in {task.row, Unknown}
      BY <2>1 DEF Orderly, Silent
    <3>2. \A r \in Rows : row_to_names'[r] \in {r, Unknown}
      BY <1>11, <1>t, <2>1, <3>1 DEF RowAnswered, LayoutIsRight, RegionTyped,
         RegionTypeOK
    <3> QED
      BY <2>2, <3>2 DEF LayoutIsRight
  <2> QED
    BY <1>t, <2>2, <2>3, <2>4, QuietKeeps DEF TarNeverMislabels
<1>12. CASE NoSuchRow
  <2>1. LayoutIsRight => LayoutIsRight'
    BY <1>12 DEF NoSuchRow, LayoutIsRight
  <2> QED
    BY <1>12, <1>t, <2>1, StillKeeps DEF NoSuchRow, Hearing, Idle, Doing,
       TarNeverMislabels
<1>13. CASE Retry
  <2>1. Quiet /\ UNCHANGED <<line, layoutVars, saved, digitals>>
    BY <1>13 DEF Retry
  <2>2. ~Hearing'
    BY <1>13, <1>t DEF Retry, Hearing, RegionTyped, RegionTypeOK
  <2>3. LayoutIsRight => LayoutIsRight'
    BY <2>1 DEF LayoutIsRight, layoutVars
  <2> QED
    BY <1>t, <2>1, <2>2, <2>3, QuietKeeps DEF TarNeverMislabels
<1>14. CASE Again
  <2>1. /\ task.what = "answer" /\ task.row \in Rows /\ task.row \in Place
        /\ Ask(Doing("read", task.row, Unknown, 2), task.row)
        /\ UNCHANGED <<layoutVars, saved, digitals, pauses>>
    BY <1>14, <1>t DEF Again, RegionTyped, TaskIsSound, Place
  <2>2. task' = Doing("read", task.row, Unknown, 2)
    BY <2>1 DEF Ask
  <2>3. Hearing' /\ ~Hearing /\ Subject' = task.row
    BY <2>1, <2>2 DEF Hearing, Subject, Doing
  <2> QED
    BY <1>t, <2>1, <2>3, AskKeeps DEF layoutVars, TarNeverMislabels
<1>15. CASE RowRead
  <2>1. task.what = "read" /\ Hearing /\ Subject = task.row /\ task.row \in Rows
    BY <1>15, <1>t DEF RowRead, Hearing, Subject, RegionTyped, TaskIsSound
  <2>2. Quiet /\ ~Hearing' /\ UNCHANGED <<line, layoutVars, saved>>
        /\ digitals' = [b \in Bits |->
              IF bit_to_pos[b] # task.row THEN digitals[b]
              ELSE IF heard.names = b THEN heard.values ELSE Unknown]
    BY <1>15 DEF RowRead, Hearing, Idle, Doing
  <2>3. LayoutIsRight => LayoutIsRight'
    BY <2>2 DEF LayoutIsRight, layoutVars
  <2>4. OneCut'
    BY <1>t, <2>2, <2>3, QuietKeeps
  <2>5. Orderly => heard.names \in {task.row, Unknown} /\ heard.values \in {task.row, Unknown}
    BY <2>1 DEF Orderly, Silent
  <2>6. heard.values \in {task.row, Unknown}
    <3>1. CASE line = <<>>
      BY <1>t, <2>1, <3>1 DEF OneCut, OwnIsLast
    <3>2. CASE line # <<>>
      BY <1>t, <2>2, <2>5, <3>2 DEF OneCut, Quiet, RegionTyped, RegionTypeOK
    <3> QED
      BY <3>1, <3>2
  <2>7. ASSUME NEW b \in Bits PROVE digitals'[b] \in {b, Unknown}
    <3>1. b # Unknown
      BY DEF Bits
    <3>2. CASE bit_to_pos[b] # task.row
      BY <1>t, <2>2, <3>2 DEF TarNeverMislabels
    <3>3. CASE bit_to_pos[b] = task.row /\ heard.names = b
      <4>1. b = task.row
        BY <1>t, <2>1, <2>5, <3>1, <3>3 DEF OneCut, LayoutIsRight
      <4> QED
        BY <2>2, <2>6, <3>3, <4>1
    <3>4. CASE bit_to_pos[b] = task.row /\ heard.names # b
      BY <2>2, <3>4
    <3> QED
      BY <3>2, <3>3, <3>4
  <2> QED
    BY <2>4, <2>7 DEF TarNeverMislabels
<1>16. CASE UNCHANGED regionVars
  <2>1. (LayoutIsRight' <=> LayoutIsRight) /\ (Orderly' <=> Orderly) /\ (OwnIsLast' <=> OwnIsLast)
    BY <1>16 DEF regionVars, LayoutIsRight, Orderly, OwnIsLast, Hearing, Subject,
       Piece
  <2> QED
    BY <1>16, <1>t, <2>1 DEF regionVars, OneCut, TarNeverMislabels
<1> QED
  BY <1>0, <1>1, <1>2, <1>3, <1>4, <1>5, <1>6, <1>7, <1>8, <1>9, <1>10, <1>11, <1>12,
     <1>13, <1>14, <1>15, <1>16 DEF RegionSteps

LEMMA RegionInvariant == RegionSpec => []RegionTyped
<1> QED
  BY RegionInitTyped, RegionStepTyped, PTL DEF RegionSpec

(***************************************************************************)
(* A bit never shows another row's value, for any number of rows and of    *)
(* commands, when at most one answer is cut by a pause: whatever the       *)
(* discovery then writes in the layout and the cache, a value is looked up *)
(* under the bit's own name in the answer (core/target_region.py,          *)
(* read_via_tar_rows).                                                      *)
(***************************************************************************)
THEOREM OneCutNeverMislabels ==
    ASSUME MaxPauses <= 1
    PROVE  RegionSpec => []TarNeverMislabels
<1>1. RegionInit => RegionInv
  <2> SUFFICES ASSUME RegionInit PROVE RegionInv
    OBVIOUS
  <2>1. ~Hearing /\ line = <<>> /\ pauses = 0
    BY DEF RegionInit, Hearing, Idle, Doing
  <2>2. LayoutIsRight
    BY DEF RegionInit, NoLayout, LayoutIsRight
  <2>3. TarNeverMislabels
    BY DEF RegionInit, TarNeverMislabels
  <2> QED
    BY <2>1, <2>2, <2>3, RegionInitTyped DEF RegionInv, OneCut, OwnIsLast, Orderly
<1>2. RegionInv /\ [RegionNext]_regionVars => RegionInv'
  BY RegionStepKeeps
<1>3. RegionInv => TarNeverMislabels
  BY DEF RegionInv
<1> QED
  BY <1>1, <1>2, <1>3, PTL DEF RegionSpec

-----------------------------------------------------------------------------
(* A session with a relay (RelaySession).                                  *)

\* Prompts of level k at least.
Prompts(k) == [level : k .. 2, refused : BOOLEAN]

SessionTyped ==
    /\ SessionTypeOK
    /\ fails \in [now : 0 .. MaxFails, all : 0 .. MaxFails]

\* From the moment the names of the bits were read until its end, a session
\* without an error is at level 1 at least, and no prompt of level 0 is left
\* in the stream; and one that has ended well is over, and at level 0.
LoggedIn ==
    /\ outcome = "open" /\ step \in {"map", "poll", "act", "end"}
       => level \in 1 .. 2 /\ said \in Seq(Prompts(1))
    /\ outcome = "ended" => step = "over" /\ (who = "terminal" => level = 0)

\* What two more prompts do to the stream.
LEMMA Pushed ==
    ASSUME NEW k \in {0, 1}, NEW l \in k .. 2, NEW s \in Seq(Prompts(k))
    PROVE  SubSeq(s \o [i \in 1 .. 2 |-> Prompt(l)], 3, Len(s) + 2) \in Seq(Prompts(k))
<1> DEFINE two == [i \in 1 .. 2 |-> Prompt(l)]
<1>1. Prompt(l) \in Prompts(k)
  BY DEF Prompt, Prompts
<1>2. two \in [1 .. 2 -> Prompts(k)]
  BY <1>1
<1>3. two \in Seq(Prompts(k)) /\ Len(two) = 2
  BY <1>2
<1> HIDE DEF two
<1>4. s \o two \in Seq(Prompts(k)) /\ Len(s \o two) = Len(s) + 2 /\ Len(s) \in Nat
  <2>1. s \o two \in Seq(Prompts(k)) /\ Len(s \o two) = Len(s) + Len(two)
    BY <1>3, ConcatProperties
  <2>2. Len(s) \in Nat
    BY LenProperties
  <2> QED
    BY <1>3, <2>1, <2>2
<1>5. \A i \in 3 .. Len(s) + 2 : (s \o two)[i] \in Prompts(k)
  BY <1>4, ElementOfSeq
<1>6. SubSeq(s \o two, 3, Len(s) + 2) \in Seq(Prompts(k))
  BY <1>4, <1>5, SubSeqProperties
<1> QED
  BY <1>6 DEF two

LEMMA LeftTyped ==
    ASSUME NEW k \in {0, 1}, level \in k .. 2, NEW n \in Nat
    PROVE  Left(n) \in Seq(Prompts(k))
<1>1. Prompt(level) \in Prompts(k)
  BY DEF Prompt, Prompts
<1>2. Left(n) \in [1 .. n -> Prompts(k)]
  BY <1>1 DEF Left
<1> QED
  BY <1>2

LEMMA ProbedTyped ==
    ASSUME NEW k \in {0, 1}, level \in k .. 2, said \in Seq(Prompts(k))
    PROVE  Probed \in Seq(Prompts(k))
BY Pushed DEF Probed, Left

LEMMA SeenTyped ==
    ASSUME NEW k \in {0, 1}, level \in k .. 2, said \in Seq(Prompts(k))
    PROVE  Seen \in k .. 2
<1>1. said # <<>> => Head(said) \in Prompts(k)
  BY HeadTailProperties
<1> QED
  BY <1>1 DEF Seen, Prompts

\* A login never leaves the relay, nor a prompt, below where all of them were,
\* unless that is above the level it asks for.
LEMMA ElevateTyped ==
    ASSUME NEW k \in {0, 1}, NEW l \in k .. 2, NEW s \in Seq(Prompts(k)),
           NEW to \in 1 .. 2, NEW right \in BOOLEAN
    PROVE  /\ Elevate(l, s, to, right).level \in k .. 2
           /\ Elevate(l, s, to, right).said \in Seq(Prompts(k))
<1> DEFINE old == SubSeq(s \o [i \in 1 .. 2 |-> Prompt(l)], 3, Len(s) + 2)
           new == IF right THEN to ELSE l
           all == Append(old, [level |-> new, refused |-> ~right])
<1>1. old \in Seq(Prompts(k))
  BY Pushed
<1>2. new \in k .. 2
  OBVIOUS
<1>3. [level |-> new, refused |-> ~right] \in Prompts(k)
  BY <1>2 DEF Prompts
<1>4. Elevate(l, s, to, right) =
        [level |-> new, said |-> Tail(all), taken |-> ~Head(all).refused]
  BY DEF Elevate
<1> HIDE DEF old, new
<1>5. all \in Seq(Prompts(k)) /\ all # <<>>
  BY <1>1, <1>3, AppendProperties
<1>6. Tail(all) \in Seq(Prompts(k))
  BY <1>5, HeadTailProperties
<1> QED
  BY <1>2, <1>4, <1>6

LEMMA Ac2Typed ==
    ASSUME NEW k \in {0, 1}, level \in k .. 2, said \in Seq(Prompts(k)), cfg \in Config,
           NEW right \in BOOLEAN
    PROVE  /\ Acc(right).level \in k .. 2 /\ Acc(right).said \in Seq(Prompts(k))
           /\ Ac2(right).level \in k .. 2 /\ Ac2(right).said \in Seq(Prompts(k))
<1>1. Acc(right).level \in k .. 2 /\ Acc(right).said \in Seq(Prompts(k))
  <2> DEFINE ok == right \/ level >= 1
  <2>1. ok \in BOOLEAN /\ 1 \in 1 .. 2
    OBVIOUS
  <2> HIDE DEF ok
  <2>2. /\ Elevate(level, said, 1, ok).level \in k .. 2
        /\ Elevate(level, said, 1, ok).said \in Seq(Prompts(k))
    BY <2>1, ElevateTyped
  <2> QED
    BY <2>2 DEF Acc, ok
<1> DEFINE first == IF Seen = 0 THEN Acc(right)
                    ELSE [level |-> level, said |-> said, taken |-> TRUE]
<1>2. first.level \in k .. 2 /\ first.said \in Seq(Prompts(k))
  BY <1>1
<1> DEFINE ok == first.level = 2 \/ (first.level = 1 /\ cfg.ac2)
<1>3. ok \in BOOLEAN
  BY DEF Config
<1>4. Ac2(right) = IF first.taken THEN Elevate(first.level, first.said, 2, ok) ELSE first
  BY DEF Ac2
<1> HIDE DEF first, ok
<1>5. /\ Elevate(first.level, first.said, 2, ok).level \in k .. 2
      /\ Elevate(first.level, first.said, 2, ok).said \in Seq(Prompts(k))
  <2>1. 2 \in 1 .. 2
    OBVIOUS
  <2> QED
    BY <1>2, <1>3, <2>1, ElevateTyped
<1> QED
  BY <1>1, <1>2, <1>4, <1>5

Working == {"map", "poll", "act", "end"}

\* Where every step leads.
LEMMA AfterIs ==
    /\ After["verify"] = "leave" /\ After["leave"] = "login" /\ After["login"] = "raise"
    /\ After["raise"] = "definition" /\ After["definition"] = "meter"
    /\ After["level"] = "dna" /\ After["map"] = "poll" /\ After["act"] = "end"
    /\ \A b \in Blocks : After[b] \in Steps \ Working
BY DEF After, Blocks, Steps, Working

\* A step of the beginning: nothing was ended, and it leads to no reading.
LEMMA EarlyKeeps ==
    ASSUME LoggedIn, step # "over", step' \notin Working, UNCHANGED <<who, outcome>>
    PROVE  LoggedIn'
BY DEF LoggedIn, Working

\* quit() believes the prompt it sees.
LEMMA QuitTyped ==
    ASSUME NEW k \in {0, 1}, level \in k .. 2, said \in Seq(Prompts(k)), QuitAs(Seen)
    PROVE  /\ level' \in 0 .. 2 /\ said' \in Seq(Prompts(0))
           /\ k = 1 => level' = 0
<1>1. Seen \in k .. 2
  BY SeenTyped
<1>2. CASE Seen = 0
  <2>1. k = 0
    BY <1>1, <1>2
  <2>2. UNCHANGED level /\ said' = Probed
    BY <1>2 DEF QuitAs
  <2> QED
    BY <2>1, <2>2, ProbedTyped
<1>3. CASE Seen # 0
  BY <1>3, EmptySeq DEF QuitAs
<1> QED
  BY <1>2, <1>3

LEMMA SessionInitKeeps == SessionInit => SessionTyped /\ LoggedIn
<1> SUFFICES ASSUME SessionInit PROVE SessionTyped /\ LoggedIn
  OBVIOUS
<1>1. said \in Seq([level : 0 .. 2, refused : BOOLEAN])
  BY EmptySeq DEF SessionInit
<1>2. sent \in Unsent .. 2
  BY DEF SessionInit, Unsent
<1>3. fails \in [now : 0 .. MaxFails, all : 0 .. MaxFails] /\ fails.now = 0 /\ fails.all = 0
  BY SessionAssumption DEF SessionInit
<1>4. SessionTypeOK
  BY <1>1, <1>2, <1>3, SessionAssumption DEF SessionInit, SessionTypeOK, Steps, Mapped
<1> QED
  BY <1>3, <1>4 DEF SessionInit, SessionTyped, LoggedIn

SessionSteps ==
    \/ Verify \/ LeaveAnswering \/ LogIn \/ RaiseLevel
    \/ Definition \/ Malformed \/ Level \/ Names
    \/ \E b \in Blocks : Block(b)
    \/ Map \/ Poll \/ Act \/ End \/ Raises

\* What no step changes but its own.
Rest == <<cfg, fails, supported, defs, rows, cached, reading, sent>>

\* A step that moves on, and perhaps the level and the prompts.
LEMMA MoveOnTyped ==
    ASSUME SessionTyped, step' \in Steps, level' \in 0 .. 2, said' \in Seq(Prompts(0)),
           outcome' \in {"open", "failed", "ended"}, UNCHANGED Rest
    PROVE  SessionTyped'
BY DEF SessionTyped, SessionTypeOK, Prompts, Rest

LEMMA SessionStepKeeps ==
    ASSUME SessionTyped, LoggedIn, [SessionNext]_sessionVars
    PROVE  SessionTyped' /\ LoggedIn'
<1>0. SessionSteps \/ UNCHANGED sessionVars
  BY DEF SessionNext, SessionSteps
<1>t. /\ level \in 0 .. 2 /\ said \in Seq(Prompts(0)) /\ cfg \in Config /\ step \in Steps
      /\ outcome \in {"open", "failed", "ended"}
      /\ fails \in [now : 0 .. MaxFails, all : 0 .. MaxFails]
      /\ fails.all \in fails.now .. MaxFails /\ MaxFails \in Nat
  BY SessionAssumption DEF SessionTyped, SessionTypeOK, Prompts
<1>e. <<>> \in Seq(Prompts(0)) /\ <<>> \in Seq(Prompts(1))
  BY EmptySeq
<1>1. CASE Verify
  <2>1. step = "verify" /\ step' = "leave" /\ UNCHANGED <<who, level, outcome>> /\ UNCHANGED Rest
    BY <1>1, AfterIs DEF Verify, Goes, Rest
  <2>2. said' \in Seq(Prompts(0))
    <3>1. PICK n \in 0 .. Stale : said' = Left(n)
      BY <1>1 DEF Verify
    <3>2. n \in Nat
      BY SessionAssumption
    <3> QED
      BY <1>t, <3>1, <3>2, LeftTyped
  <2> QED
    BY <1>t, <2>1, <2>2, MoveOnTyped, EarlyKeeps DEF Steps, Working
<1>2. CASE LeaveAnswering
  <2>1. step = "leave" /\ step' = "login" /\ UNCHANGED <<who, outcome>> /\ UNCHANGED Rest
        /\ QuitAs(Seen)
    BY <1>2, AfterIs DEF LeaveAnswering, Goes, Rest
  <2>2. level' \in 0 .. 2 /\ said' \in Seq(Prompts(0))
    BY <1>t, <2>1, QuitTyped
  <2> QED
    BY <1>t, <2>1, <2>2, MoveOnTyped, EarlyKeeps DEF Steps, Working
<1>3. CASE LogIn
  <2>1. step = "login" /\ step' = "raise" /\ UNCHANGED <<who, outcome>> /\ UNCHANGED Rest
    BY <1>3, AfterIs DEF LogIn, Goes, Rest
  <2>2. level' \in 0 .. 2 /\ said' \in Seq(Prompts(0))
    BY <1>3, <1>t, Ac2Typed DEF LogIn, Becomes
  <2> QED
    BY <1>t, <2>1, <2>2, MoveOnTyped, EarlyKeeps DEF Steps, Working
<1>4. CASE RaiseLevel
  <2>1. step = "raise" /\ step' = "definition" /\ UNCHANGED <<who, outcome>> /\ UNCHANGED Rest
    BY <1>4, AfterIs DEF RaiseLevel, Goes, Rest
  <2>2. level' \in 0 .. 2 /\ said' \in Seq(Prompts(0))
    BY <1>4, <1>t, Ac2Typed DEF RaiseLevel, Becomes
  <2> QED
    BY <1>t, <2>1, <2>2, MoveOnTyped, EarlyKeeps DEF Steps, Working
<1>5. CASE Definition
  <2>1. step = "definition" /\ step' = "meter" /\ said' = <<>>
        /\ UNCHANGED <<who, cfg, level, defs, rows, cached, reading, sent, outcome>>
        /\ fails' = [fails EXCEPT !.now = 0] /\ supported' \subseteq Blocks
    BY <1>5, AfterIs DEF Definition, Goes, Blocks
  <2>2. fails' \in [now : 0 .. MaxFails, all : 0 .. MaxFails] /\ fails'.now = 0
    BY <1>t, <2>1
  <2>3. SessionTyped'
    BY <1>e, <1>t, <2>1, <2>2 DEF SessionTyped, SessionTypeOK, Steps, Prompts
  <2> QED
    BY <2>1, <2>3, EarlyKeeps DEF Working
<1>6. CASE Malformed
  <2>1. step \in {"definition"} \cup Blocks /\ said' = <<>> /\ fails.all < MaxFails
        /\ fails' = [now |-> fails.now + 1, all |-> fails.all + 1]
        /\ UNCHANGED <<who, cfg, step, level, supported, defs, rows, cached, reading, sent,
                       outcome>>
    BY <1>6 DEF Malformed
  <2>2. /\ fails' \in [now : 0 .. MaxFails, all : 0 .. MaxFails]
        /\ fails'.now \in 0 .. MaxFails /\ fails'.all \in fails'.now .. MaxFails
    <3>1. fails.now \in Nat /\ fails.all \in Nat /\ fails.now <= fails.all
      BY <1>t
    <3> QED
      BY <1>t, <2>1, <3>1
  <2>3. SessionTyped'
    BY <1>e, <1>t, <2>1, <2>2 DEF SessionTyped, SessionTypeOK, Prompts
  <2>4. step # "over" /\ step' \notin Working
    BY <2>1 DEF Blocks, Working
  <2> QED
    BY <2>1, <2>3, <2>4, EarlyKeeps
<1>7. CASE Level
  <2>1. step = "level" /\ step' = "dna" /\ UNCHANGED <<who, outcome>> /\ UNCHANGED Rest
    BY <1>7, AfterIs DEF Level, Goes, Rest
  <2>2. level' \in 0 .. 2 /\ said' \in Seq(Prompts(0))
    <3>1. Probed \in Seq(Prompts(0))
      BY <1>t, ProbedTyped
    <3>2. ASSUME NEW right \in BOOLEAN, Becomes(Elevate(level, Probed, 1, right \/ level >= 1))
          PROVE  level' \in 0 .. 2 /\ said' \in Seq(Prompts(0))
      <4> DEFINE ok == right \/ level >= 1
      <4>1. ok \in BOOLEAN /\ 1 \in 1 .. 2
        OBVIOUS
      <4>2. Becomes(Elevate(level, Probed, 1, ok))
        BY <3>2
      <4> HIDE DEF ok
      <4> QED
        BY <1>t, <3>1, <4>1, <4>2, ElevateTyped DEF Becomes
    <3> QED
      BY <1>7, <1>t, <3>1, <3>2 DEF Level
  <2> QED
    BY <1>t, <2>1, <2>2, MoveOnTyped, EarlyKeeps DEF Steps, Working
<1>8. CASE Names
  <2>1. step = "dna" /\ step' \in {"map", "end"} /\ said' = <<>> /\ level >= 1
        /\ UNCHANGED <<who, level, outcome>> /\ UNCHANGED Rest
    BY <1>8 DEF Names, Rest
  <2>2. SessionTyped'
    BY <1>e, <1>t, <2>1, MoveOnTyped DEF Steps
  <2>3. LoggedIn'
    BY <1>e, <1>t, <2>1 DEF LoggedIn
  <2> QED
    BY <2>2, <2>3
<1>9. ASSUME NEW b \in Blocks, Block(b) PROVE SessionTyped' /\ LoggedIn'
  <2>1. step = b /\ step' \in Steps \ Working /\ said' \in {said, <<>>}
        /\ UNCHANGED <<who, cfg, level, supported, rows, cached, reading, sent, outcome>>
        /\ fails' = [fails EXCEPT !.now = 0]
    BY <1>9, AfterIs DEF Block, Goes
  <2>2. fails' \in [now : 0 .. MaxFails, all : 0 .. MaxFails] /\ fails'.now = 0
        /\ fails'.all = fails.all
    BY <1>t, <2>1
  <2>3. defs' \subseteq Blocks
    BY <1>9 DEF Block, SessionTyped, SessionTypeOK
  <2>4. SessionTyped'
    BY <1>e, <1>t, <2>1, <2>2, <2>3 DEF SessionTyped, SessionTypeOK, Prompts
  <2>5. step # "over"
    BY <2>1 DEF Blocks
  <2> QED
    BY <2>1, <2>4, <2>5, EarlyKeeps
<1>10. CASE Map
  <2>1. step = "map" /\ step' = "poll"
        /\ UNCHANGED <<who, cfg, level, said, fails, supported, defs, reading, sent, outcome>>
    BY <1>10, AfterIs DEF Map, Goes
  <2>2. rows' \in Mapped /\ cached' \in Mapped
    BY <1>10 DEF Map, Discovered, Mapped, SessionTyped, SessionTypeOK
  <2>3. SessionTyped'
    BY <2>1, <2>2 DEF SessionTyped, SessionTypeOK, Steps
  <2> QED
    BY <2>1, <2>3 DEF LoggedIn
<1>11. CASE Poll
  <2>1. step = "poll" /\ step' \in {"poll", "act"}
        /\ UNCHANGED <<who, cfg, level, fails, supported, defs, rows, cached, sent, outcome>>
    BY <1>11 DEF Poll
  <2>2. reading' \in 0 .. Looks
    BY <1>11, SessionAssumption DEF Poll, SessionTyped, SessionTypeOK
  <2>3. PICK n \in 0 .. Stale : said' = IF reading < Looks THEN Left(n) ELSE said
    BY <1>11 DEF Poll
  <2>4. n \in Nat
    BY SessionAssumption
  <2>5. said' \in Seq(Prompts(0))
    BY <1>t, <2>3, <2>4, LeftTyped
  <2>6. level \in 1 .. 2 /\ said \in Seq(Prompts(1)) => said' \in Seq(Prompts(1))
    BY <2>3, <2>4, LeftTyped
  <2>7. SessionTyped'
    BY <2>1, <2>2, <2>5 DEF SessionTyped, SessionTypeOK, Steps, Prompts
  <2> QED
    BY <2>1, <2>6, <2>7 DEF LoggedIn
<1>12. CASE Act
  <2>1. step = "act" /\ step' = "end"
        /\ UNCHANGED <<who, cfg, fails, supported, defs, rows, cached, reading>>
    BY <1>12, AfterIs DEF Act, Goes
  <2>2. CASE ~cfg.operate
    <3>1. UNCHANGED <<level, said, sent, outcome>>
      BY <1>12, <2>2 DEF Act
    <3>2. SessionTyped'
      BY <2>1, <3>1 DEF SessionTyped, SessionTypeOK, Steps
    <3> QED
      BY <2>1, <3>1, <3>2 DEF LoggedIn
  <2>3. CASE cfg.operate
    <3>1. PICK right \in BOOLEAN :
                /\ Becomes(Ac2(right))
                /\ sent' = IF Ac2(right).taken /\ CanSend THEN level' ELSE Unsent
                /\ outcome' = IF Ac2(right).taken /\ ~CanSend
                              THEN "failed" ELSE outcome
      BY <1>12, <2>3 DEF Act
    <3>2. level' \in 0 .. 2 /\ said' \in Seq(Prompts(0))
      BY <1>t, <3>1, Ac2Typed DEF Becomes
    <3>3. level \in 1 .. 2 /\ said \in Seq(Prompts(1))
          => level' \in 1 .. 2 /\ said' \in Seq(Prompts(1))
      BY <1>t, <3>1, Ac2Typed DEF Becomes
    <3>4. sent' \in Unsent .. 2 /\ outcome' \in {"failed", outcome}
      BY <3>1, <3>2 DEF Unsent
    <3>5. SessionTyped'
      BY <1>t, <2>1, <3>2, <3>4 DEF SessionTyped, SessionTypeOK, Steps, Prompts
    <3> QED
      BY <2>1, <3>3, <3>4, <3>5 DEF LoggedIn
  <2> QED
    BY <2>2, <2>3
<1>13. CASE End
  <2>1. /\ step = "end" /\ step' = "over" /\ QuitAs(Seen)
        /\ outcome' = IF outcome = "open" THEN "ended" ELSE outcome
        /\ UNCHANGED who /\ UNCHANGED Rest
    BY <1>13 DEF End, Rest
  <2>2. level' \in 0 .. 2 /\ said' \in Seq(Prompts(0))
    BY <1>t, <2>1, QuitTyped
  <2>3. outcome = "open" => level' = 0
    BY <2>1, QuitTyped DEF LoggedIn
  <2>4. outcome # "ended"
    BY <2>1 DEF LoggedIn
  <2>5. SessionTyped'
    BY <1>t, <2>1, <2>2, MoveOnTyped DEF Steps
  <2> QED
    BY <2>1, <2>3, <2>4, <2>5 DEF LoggedIn
<1>14. CASE Raises
  <2>1. step' \in {"end", "over"} /\ outcome' = "failed"
        /\ UNCHANGED <<who, level, said>> /\ UNCHANGED Rest
    BY <1>14 DEF Raises, Rest
  <2>2. SessionTyped'
    BY <1>t, <2>1, MoveOnTyped DEF Steps
  <2> QED
    BY <2>1, <2>2 DEF LoggedIn
<1>15. CASE UNCHANGED sessionVars
  BY <1>15 DEF sessionVars, SessionTyped, SessionTypeOK, LoggedIn
<1> QED
  BY <1>0, <1>1, <1>2, <1>3, <1>4, <1>5, <1>6, <1>7, <1>8, <1>9, <1>10, <1>11, <1>12,
     <1>13, <1>14, <1>15 DEF SessionSteps

LEMMA SessionInvariant == SessionSpec => [](SessionTyped /\ LoggedIn)
<1> QED
  BY SessionInitKeeps, SessionStepKeeps, PTL DEF SessionSpec

(***************************************************************************)
(* A terminal that comes to its end has logged out of the relay, however   *)
(* many old prompts are in the stream when quit() asks for its level       *)
(* (cli/runner.py; selprotopy/client/base.py, quit).                       *)
(***************************************************************************)
THEOREM LoggedOutHolds == SessionSpec => []LoggedOut
<1>1. LoggedIn => LoggedOut
  BY DEF LoggedIn, LoggedOut
<1> QED
  BY <1>1, SessionInvariant, PTL

-----------------------------------------------------------------------------
(* The MMS reader (MmsReader).                                             *)

MmsTyped ==
    /\ MmsTypeOK
    /\ mshown \in [digitals : [WordBits -> {0, 1, Unread}],
                   error : {"", "partial", "poll", "mms"}, read : SUBSET WordBits]
    /\ mturn \in [on : BOOLEAN, bits : SUBSET WordBits, n : Nat]

\* Where the SCD was read, the plan and the map hold what both sources resolve
\* of the bits gathered so far, those of every diagram accepted among them.
PlanIsWhole ==
    /\ \A d \in joined : BitsOf[d] \subseteq gathered
    /\ ~flaky => /\ plan = Resolve(gathered, scd)
                 /\ points = Resolve(gathered, scd)

LEMMA MmsInitTyped == MmsInit => MmsTyped /\ PlanIsWhole
<1> SUFFICES ASSUME MmsInit PROVE MmsTyped /\ PlanIsWhole
  OBVIOUS
<1>1. Unread \in {0, 1, Unread}
  OBVIOUS
<1>2. mshown \in [digitals : [WordBits -> {0, 1, Unread}],
                  error : {"", "partial", "poll", "mms"}, read : SUBSET WordBits]
  BY <1>1 DEF MmsInit
<1>3. mturn \in [on : BOOLEAN, bits : SUBSET WordBits, n : Nat]
  BY DEF MmsInit
<1>4. MmsTypeOK
  BY <1>2, <1>3 DEF MmsInit, MmsTypeOK
<1>5. PlanIsWhole
  BY DEF MmsInit, PlanIsWhole, Resolve
<1> QED
  BY <1>2, <1>3, <1>4, <1>5 DEF MmsTyped

MmsSteps ==
    \/ Associate \/ ReadDirectory \/ TurnPageMms \/ TakePlan \/ PublishMms \/ TurnFails
    \/ LoseMms
    \/ \E d \in Drawings : Prepare(d)

\* What a bit may read.
LEMMA DecodeTyped ==
    ASSUME NEW b, NEW v
    PROVE  Decode(b, v) \in {0, 1, Unread}
BY DEF Decode

LEMMA PrepareKeeps ==
    ASSUME MmsTyped, PlanIsWhole, NEW d \in Drawings, Prepare(d)
    PROVE  MmsTyped' /\ PlanIsWhole'
<1>1. BitsOf[d] \subseteq WordBits
  BY MmsAssumption
<1>2. /\ gathered' = gathered \cup BitsOf[d]
      /\ UNCHANGED <<client, directory, scd, table, drawn, mturn, mshown>>
  BY DEF Prepare
<1>3. /\ gathered \subseteq WordBits /\ points \subseteq gathered /\ plan \subseteq gathered
      /\ joined \subseteq Drawings
  BY DEF MmsTyped, MmsTypeOK
<1>4. \A e \in joined' : BitsOf[e] \subseteq gathered'
  <2>1. joined' \subseteq joined \cup {d}
    BY DEF Prepare
  <2> QED
    BY <1>2, <2>1 DEF PlanIsWhole
<1>5. /\ points' \subseteq gathered' /\ plan' \subseteq gathered' /\ joined' \subseteq Drawings
      /\ ~flaky' => /\ plan' = Resolve(gathered', scd)
                    /\ points' = Resolve(gathered', scd)
  <2>1. CASE /\ BitsOf[d] \subseteq points
             /\ joined' = joined \cup {d}
             /\ UNCHANGED <<points, plan, flaky>>
    <3>1. gathered' = gathered
      BY <1>2, <1>3, <2>1
    <3> QED
      BY <1>3, <2>1, <3>1 DEF PlanIsWhole
  <2>2. CASE \E s \in ScdRead :
              /\ flaky' = (flaky \/ s # scd)
              /\ IF s = {} /\ table = {}
                 THEN UNCHANGED <<points, plan, joined>>
                 ELSE /\ points' = Resolve(gathered', s)
                      /\ IF points' \cap BitsOf[d] = {}
                         THEN UNCHANGED <<plan, joined>>
                         ELSE plan' = points' /\ joined' = joined \cup {d}
    <3>1. PICK s \in ScdRead :
              /\ flaky' = (flaky \/ s # scd)
              /\ IF s = {} /\ table = {}
                 THEN UNCHANGED <<points, plan, joined>>
                 ELSE /\ points' = Resolve(gathered', s)
                      /\ IF points' \cap BitsOf[d] = {}
                         THEN UNCHANGED <<plan, joined>>
                         ELSE plan' = points' /\ joined' = joined \cup {d}
      BY <2>2
    <3>2. CASE s = {} /\ table = {}
      <4>1. UNCHANGED <<points, plan, joined>>
        BY <3>1, <3>2
      <4>2. ~flaky' => ~flaky /\ scd = {}
        BY <3>1, <3>2
      <4>3. scd = {} => Resolve(gathered, scd) = {} /\ Resolve(gathered', scd) = {}
        BY <3>2 DEF Resolve
      <4> QED
        BY <1>2, <1>3, <4>1, <4>2, <4>3 DEF PlanIsWhole
    <3>3. CASE ~(s = {} /\ table = {})
      <4>1. points' = Resolve(gathered', s) /\ points' \subseteq gathered'
        BY <3>1, <3>3 DEF Resolve
      <4>2. CASE points' \cap BitsOf[d] = {}
        <5>1. UNCHANGED <<plan, joined>>
          BY <3>1, <3>3, <4>2
        <5>2. ~flaky' => ~flaky /\ s = scd
          BY <3>1
        <5>3. Resolve(gathered', s) = Resolve(gathered, s)
          BY <1>2, <4>1, <4>2 DEF Resolve
        <5> QED
          BY <1>2, <1>3, <4>1, <5>1, <5>2, <5>3 DEF PlanIsWhole
      <4>3. CASE points' \cap BitsOf[d] # {}
        <5>1. plan' = points' /\ joined' = joined \cup {d}
          BY <3>1, <3>3, <4>3
        <5>2. ~flaky' => s = scd
          BY <3>1
        <5> QED
          BY <1>3, <4>1, <5>1, <5>2
      <4> QED
        BY <4>2, <4>3
    <3> QED
      BY <3>2, <3>3
  <2> QED
    BY <2>1, <2>2 DEF Prepare
<1>6. gathered' \subseteq WordBits
  BY <1>1, <1>2, <1>3
<1>7. MmsTyped'
  BY <1>2, <1>5, <1>6 DEF MmsTyped, MmsTypeOK
<1> QED
  BY <1>2, <1>4, <1>5, <1>7 DEF PlanIsWhole, Resolve

LEMMA MmsStepKeeps ==
    ASSUME MmsTyped, PlanIsWhole, [MmsNext]_mmsVars
    PROVE  MmsTyped' /\ PlanIsWhole'
<1>0. MmsSteps \/ UNCHANGED mmsVars
  BY DEF MmsNext, MmsSteps
<1>p. UNCHANGED <<directory, scd, table, flaky, gathered, points, plan, joined>>
      => PlanIsWhole'
  BY DEF PlanIsWhole, Resolve
<1>1. CASE Associate
  BY <1>1, <1>p DEF Associate, MmsTyped, MmsTypeOK
<1>2. CASE ReadDirectory
  BY <1>2, <1>p DEF ReadDirectory, MmsTyped, MmsTypeOK
<1>3. CASE TurnPageMms
  BY <1>3, <1>p DEF TurnPageMms, MmsTyped, MmsTypeOK
<1>4. CASE TakePlan
  <2>1. plan \subseteq WordBits
    BY DEF MmsTyped, MmsTypeOK
  <2>2. mturn' \in [on : BOOLEAN, bits : SUBSET WordBits, n : Nat]
    <3>1. mturn.n + 1 \in Nat
      <4>1. mturn.n \in Nat
        BY DEF MmsTyped
      <4> QED
        BY <4>1
    <3>2. (IF drawn = {} THEN plan ELSE plan \cap drawn) \in SUBSET WordBits
      BY <2>1
    <3> QED
      BY <1>4, <3>1, <3>2 DEF TakePlan
  <2> QED
    BY <1>4, <1>p, <2>2 DEF TakePlan, MmsTyped, MmsTypeOK
<1>5. CASE PublishMms
  <2>1. mturn' = [mturn EXCEPT !.on = FALSE]
        /\ UNCHANGED <<client, directory, scd, table, flaky, gathered, points, plan, joined,
                   drawn>>
    BY <1>5 DEF PublishMms
  <2>2. mturn' \in [on : BOOLEAN, bits : SUBSET WordBits, n : Nat]
    BY <2>1 DEF MmsTyped
  <2>3. mshown' \in [digitals : [WordBits -> {0, 1, Unread}],
                     error : {"", "partial", "poll", "mms"}, read : SUBSET WordBits]
    <3>1. PICK v \in [{LeafOf[b] : b \in mturn.bits} -> LeafValues] :
            LET got == [b \in WordBits |-> IF b \in mturn.bits
                                           THEN Decode(b, v[LeafOf[b]]) ELSE Unread]
            IN  mshown' = [
                   digitals |-> IF mturn.bits = {} THEN mshown.digitals ELSE got,
                   error    |-> IF \A b \in mturn.bits : got[b] # Unread
                                THEN "" ELSE "partial",
                   read     |-> mturn.bits]
      BY <1>5 DEF PublishMms
    <3> DEFINE got == [b \in WordBits |-> IF b \in mturn.bits
                                          THEN Decode(b, v[LeafOf[b]]) ELSE Unread]
    <3>2. got \in [WordBits -> {0, 1, Unread}]
      BY DecodeTyped
    <3>3. mturn.bits \subseteq WordBits /\ mshown.digitals \in [WordBits -> {0, 1, Unread}]
      BY DEF MmsTyped
    <3> HIDE DEF got
    <3>4. mshown' = [
             digitals |-> IF mturn.bits = {} THEN mshown.digitals ELSE got,
             error    |-> IF \A b \in mturn.bits : got[b] # Unread THEN "" ELSE "partial",
             read     |-> mturn.bits]
      BY <3>1 DEF got
    <3> QED
      BY <3>2, <3>3, <3>4
  <2> QED
    BY <2>1, <2>2, <2>3, <1>p DEF MmsTyped, MmsTypeOK
<1>6. CASE TurnFails
  BY <1>6, <1>p DEF TurnFails, MmsTyped, MmsTypeOK
<1>7. CASE LoseMms
  <2>1. mturn' \in [on : BOOLEAN, bits : SUBSET WordBits, n : Nat]
    BY <1>7 DEF LoseMms, MmsTyped
  <2>2. mshown' \in [digitals : [WordBits -> {0, 1, Unread}],
                     error : {"", "partial", "poll", "mms"}, read : SUBSET WordBits]
    BY <1>7 DEF LoseMms, MmsTyped
  <2> QED
    BY <1>7, <1>p, <2>1, <2>2 DEF LoseMms, MmsTyped, MmsTypeOK
<1>8. CASE UNCHANGED mmsVars
  BY <1>8, <1>p DEF mmsVars, MmsTyped, MmsTypeOK
<1> QED
  BY <1>0, <1>1, <1>2, <1>3, <1>4, <1>5, <1>6, <1>7, <1>8, PrepareKeeps DEF MmsSteps

LEMMA MmsInvariant == MmsSpec => [](MmsTyped /\ PlanIsWhole)
<1> QED
  BY MmsInitTyped, MmsStepKeeps, PTL DEF MmsSpec

(***************************************************************************)
(* Every diagram that was accepted is read whole, for any number of        *)
(* diagrams and whichever of them were refused before, as long as the SCD  *)
(* could be read (web/glv/transport/mms.py, prepare_bits).                 *)
(***************************************************************************)
THEOREM AcceptedIsPlannedHolds == MmsSpec => []AcceptedIsPlanned
<1>1. MmsTyped /\ PlanIsWhole => AcceptedIsPlanned
  BY DEF PlanIsWhole, AcceptedIsPlanned, Resolve
<1> QED
  BY <1>1, MmsInvariant, PTL

-----------------------------------------------------------------------------
(* All of it together (MCLive).                                            *)

\* Every story is a behaviour of its own part, in which the others stand still.
LEMMA LiveStories ==
    FairSpec => /\ FeedSpec /\ WantedSpec /\ StreamSpec
                /\ RegionSpec /\ SessionSpec /\ MmsSpec
<1>1. Init => /\ FeedInit /\ WantedInit /\ StreamInit
              /\ RegionInit /\ SessionInit /\ MmsInit
  BY DEF Init
<1>2. ASSUME [Next]_allVars
      PROVE  /\ [FeedNext]_feedVars /\ [WantedNext]_wantedVars /\ [StreamNext]_streamVars
             /\ [RegionNext]_regionVars /\ [SessionNext]_sessionVars /\ [MmsNext]_mmsVars
  BY <1>2 DEF Next, allVars, textVars, clientVars, Show, Demand, ReadStream, ReadRows,
     HoldSession, ReadMms
<1> QED
  BY <1>1, <1>2, PTL DEF FairSpec, FeedSpec, WantedSpec, StreamSpec, RegionSpec,
     SessionSpec, MmsSpec

(***************************************************************************)
(* Every variable on the way from the relay to the screen keeps to its     *)
(* values.                                                                 *)
(***************************************************************************)
THEOREM LiveTyped == FairSpec => []LiveTypeOK
<1>1. /\ FeedTypeOK /\ WantedTypeOK /\ StreamTypeOK /\ RegionTyped
      /\ SessionTyped /\ MmsTyped
      => LiveTypeOK
  BY DEF LiveTypeOK, RegionTyped, SessionTyped, MmsTyped
<1> QED
  BY <1>1, LiveStories, FeedInvariant, WantedInvariant, StreamTypeCorrect,
     RegionInvariant, SessionInvariant, MmsInvariant, PTL

(***************************************************************************)
(* A terminal logs out before it hangs up, and what the relay serves of an *)
(* accepted diagram is what MMS reads.                                     *)
(***************************************************************************)
THEOREM RelaySideHolds == FairSpec => []RelaySideIsRight
<1>1. LoggedOut /\ AcceptedIsPlanned => RelaySideIsRight
  BY DEF RelaySideIsRight
<1> QED
  BY <1>1, LiveStories, LoggedOutHolds, AcceptedIsPlannedHolds, PTL
=============================================================================
