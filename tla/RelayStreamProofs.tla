-------------------------- MODULE RelayStreamProofs --------------------------
(***************************************************************************)
(* For any number of turns and of late answers: what the polling shows is  *)
(* honest, and it implements OrderedReadings.                              *)
(*                                                                         *)
(* The argument: answers of one kind wait in the order in which they were  *)
(* asked for (InOrder), all of them younger than the one in hand and the   *)
(* one on the screen (Younger), and an answer that waits is counted among  *)
(* the late ones before the channel is taken for clean (Recent).           *)
(***************************************************************************)
EXTENDS RelayStream, SequenceTheorems, TLAPS

Modes == {"target", "fastmeter", "tar", "pipelined", "robust"}
ShownRecords == [analogs : Nat, digitals : Nat, stamp : Nat,
                 error : {"", "poll", "parse", "timeout"}]

Typed ==
    /\ StreamTypeOK
    /\ mode \in Modes /\ shown \in ShownRecords
    /\ at # "rest" => turn # 0

\* The answers nobody has read.
Waiting == {wire[i] : i \in DOMAIN wire} \cup {owed[i] : i \in DOMAIN owed}

Rising(s) ==
    \A i, j \in DOMAIN s : i < j /\ s[i].kind = s[j].kind => s[i].turn < s[j].turn
InOrder ==
    /\ Rising(wire) /\ Rising(owed)
    /\ \A i \in DOMAIN wire : \A j \in DOMAIN owed :
          wire[i].kind = owed[j].kind => wire[i].turn < owed[j].turn

\* No answer waits for longer than turns have been late, and on a channel that
\* is taken for clean the turn to come is counted already.
Recent ==
    \A a \in Waiting :
        /\ a.turn <= turn /\ turn - a.turn <= late
        /\ at = "send" => a.turn < turn
        /\ clean /\ at \in {"rest", "publish"} => turn - a.turn < late

\* What waits was asked for after what was found and what is shown.
Younger ==
    \A a \in Waiting :
        /\ \E i \in DOMAIN Commands : a.kind = Commands[i]
        /\ a.kind = "meter" => a.turn > shown.analogs
        /\ at \in {"read", "publish"} => a.turn > found[a.kind]

FoundInTime ==
    at \in {"read", "publish"} =>
        \A k \in Kinds : found[k] # 0 => found[k] <= turn /\ turn - found[k] <= late

\* Only a turn that reads has a dirty channel for sure, and only one that
\* publishes a clean one.
Flag == (at = "read" => ~clean) /\ (at = "publish" => clean)

\* The screen is never ahead of the turns.
Stamped ==
    /\ shown.analogs <= shown.stamp /\ shown.stamp <= turn
    /\ at # "rest" => shown.stamp < turn

StreamInv == /\ InOrder /\ Recent /\ Younger /\ FoundInTime /\ Flag /\ Stamped
             /\ (mode # "target" => StampedIsRead)
-----------------------------------------------------------------------------
\* A turn asks for one or two kinds.
LEMMA Asked ==
    /\ DOMAIN Commands = 1 .. Len(Commands) /\ Len(Commands) \in {1, 2}
    /\ \A i \in DOMAIN Commands : Commands[i] \in Kinds
    /\ \A i, j \in DOMAIN Commands : Commands[i] = Commands[j] => i = j
<1>1. CASE Commands = <<"meter", "target">>
  BY <1>1 DEF Kinds
<1>2. CASE Commands = <<"meter">>
  BY <1>2 DEF Kinds
<1>3. QED
  BY <1>1, <1>2 DEF Commands

\* What a turn adds to what the relay owes.
Questions == [i \in DOMAIN Commands |-> [kind |-> Commands[i], turn |-> turn]]

LEMMA QuestionsData ==
    ASSUME turn \in 1 .. MaxTurns, StreamAssumption
    PROVE  /\ Questions \in Seq(Answer) /\ Len(Questions) = Len(Commands)
           /\ \A i \in 1 .. Len(Commands) :
                 Questions[i].kind = Commands[i] /\ Questions[i].turn = turn
<1>1. Questions \in [1 .. Len(Commands) -> Answer]
  BY Asked DEF Questions, Answer
<1>2. Questions \in Seq(Answer) /\ Len(Questions) = Len(Commands)
  BY <1>1, Asked
<1>3. QED
  BY <1>2, Asked DEF Questions

\* What an answer in a sequence of them says.
LEMMA AnswerData ==
    ASSUME NEW s \in Seq(Answer), NEW i \in 1 .. Len(s)
    PROVE  s[i].turn \in 1 .. MaxTurns /\ s[i].kind \in Kinds
<1>1. s[i] \in Answer
  BY ElementOfSeq
<1>2. QED
  BY <1>1 DEF Answer

\* What is left of the wire behind a chunk.
LEMMA LeftOnWire ==
    ASSUME wire \in Seq(Answer), NEW n \in 1 .. Len(wire)
    PROVE  /\ SubSeq(wire, n + 1, Len(wire)) \in Seq(Answer)
           /\ Len(SubSeq(wire, n + 1, Len(wire))) = Len(wire) - n
           /\ \A i \in 1 .. Len(wire) - n :
                 SubSeq(wire, n + 1, Len(wire))[i] = wire[n + i]
<1>1. \A i \in n + 1 .. Len(wire) : wire[i] \in Answer
  BY ElementOfSeq
<1>2. n + 1 \in Int /\ Len(wire) \in Int
  OBVIOUS
<1>3. QED
  BY <1>1, <1>2, SubSeqProperties

\* A chunk of n answers, of which `first' count.
Takes(first, n) ==
    /\ IsFirst(first, n)
    /\ found' = [k \in Kinds |-> IF found[k] = 0 /\ first[k] # 0
                                 THEN wire[first[k]].turn ELSE found[k]]
    /\ wire' = SubSeq(wire, n + 1, Len(wire))

-----------------------------------------------------------------------------
\* Types.

LEMMA Numbers ==
    ASSUME Typed
    PROVE  /\ turn \in Nat /\ late \in Nat /\ found \in [Kinds -> Nat]
           /\ shown.analogs \in Nat /\ shown.digitals \in Nat /\ shown.stamp \in Nat
<1>1. turn \in 0 .. MaxTurns /\ late \in 0 .. MaxLate /\ found \in [Kinds -> 0 .. MaxTurns]
  BY DEF Typed, StreamTypeOK
<1>2. shown \in ShownRecords
  BY DEF Typed
<1>3. turn \in Nat /\ late \in Nat /\ found \in [Kinds -> Nat]
  BY <1>1, StreamAssumption
<1>4. shown.analogs \in Nat /\ shown.digitals \in Nat /\ shown.stamp \in Nat
  BY <1>2 DEF ShownRecords
<1>5. QED
  BY <1>3, <1>4

LEMMA InitTyped == StreamInit => Typed
<1> SUFFICES ASSUME StreamInit PROVE Typed
  OBVIOUS
<1>1. owed \in Seq(Answer) /\ wire \in Seq(Answer)
  BY EmptySeq DEF StreamInit
<1>2. found \in [Kinds -> 0 .. MaxTurns] /\ turn \in 0 .. MaxTurns /\ late \in 0 .. MaxLate
  <2>1. turn = 0 /\ late = 0 /\ found = [k \in Kinds |-> 0]
    BY DEF StreamInit, Nothing
  <2>2. QED
    BY <2>1, StreamAssumption
<1>3. shown \in ShownRecords /\ shown.stamp \in 0 .. MaxTurns
  <2>1. shown \in ShownRecords /\ shown.stamp = 0
    BY DEF StreamInit, ShownRecords
  <2>2. QED
    BY <2>1, StreamAssumption
<1>4. QED
  BY <1>1, <1>2, <1>3 DEF StreamInit, Typed, StreamTypeOK, Modes

\* What the end of a turn puts on the screen.
LEMMA Published ==
    ASSUME PublishTurn
    PROVE  /\ shown' = [analogs |-> shown'.analogs, digitals |-> shown'.digitals,
                        error |-> shown'.error, stamp |-> shown'.stamp]
           /\ shown'.analogs \in {shown.analogs, found["meter"]}
           /\ shown'.digitals \in {shown.digitals, found["meter"], found["target"]}
           /\ shown'.error \in {"", "parse", "timeout"}
           /\ shown'.stamp = turn
           /\ found["meter"] = 0 => shown'.analogs = shown.analogs
           /\ found["meter"] = 0 /\ mode # "target" => shown'.error = "timeout"
<1>1. PICK parsed \in BOOLEAN : shown' = Reading(parsed)
  BY DEF PublishTurn
<1>2. /\ shown' = [analogs |-> shown'.analogs, digitals |-> shown'.digitals,
                  error |-> shown'.error, stamp |-> shown'.stamp]
      /\ shown'.stamp = turn
  BY <1>1 DEF Reading
<1>3. shown'.analogs \in {shown.analogs, found["meter"]}
  BY <1>1 DEF Reading
<1>4. shown'.digitals \in {shown.digitals, found["meter"], found["target"]}
  BY <1>1 DEF Reading
<1>5. shown'.error \in {"", "parse", "timeout"}
  BY <1>1 DEF Reading
<1>6. ASSUME found["meter"] = 0
      PROVE  /\ shown'.analogs = shown.analogs
             /\ mode # "target" => shown'.error = "timeout"
  BY <1>1, <1>6 DEF Reading
<1>7. QED
  BY <1>2, <1>3, <1>4, <1>5, <1>6

LEMMA StepTyped == Typed /\ [StreamNext]_streamVars => Typed'
<1> SUFFICES ASSUME Typed, [StreamNext]_streamVars PROVE Typed'
  OBVIOUS
<1> USE StreamAssumption DEF Typed, StreamTypeOK
<1>1. CASE Reply
  BY <1>1, HeadTailProperties, AppendProperties DEF Reply
<1>2. CASE Drain
  BY <1>2 DEF Drain, Leaves
<1>3. CASE Send
  <2>1. owed' = owed \o Questions
    BY <1>3 DEF Send, Questions
  <2>2. turn \in 1 .. MaxTurns
    BY <1>3 DEF Send
  <2>3. owed' \in Seq(Answer)
    BY <2>1, <2>2, QuestionsData, ConcatProperties
  <2>4. found' \in [Kinds -> 0 .. MaxTurns]
    BY <1>3 DEF Send, Nothing
  <2>5. QED
    BY <1>3, <2>2, <2>3, <2>4 DEF Send
<1>4. CASE ReadChunk
  <2>0. PICK n \in 1 .. Len(wire) : \E first \in [Kinds -> 0 .. n] : Takes(first, n)
    BY <1>4, Zenon DEF ReadChunk, Takes
  <2>1. PICK first \in [Kinds -> 0 .. n] : Takes(first, n)
    BY <2>0
  <2>2. wire' \in Seq(Answer)
    BY <2>1, LeftOnWire DEF Takes
  <2>3. \A k \in Kinds : first[k] # 0 => wire[first[k]].turn \in 0 .. MaxTurns
    <3>1. SUFFICES ASSUME NEW k \in Kinds, first[k] # 0
                   PROVE  wire[first[k]].turn \in 0 .. MaxTurns
      OBVIOUS
    <3>2. first[k] \in 1 .. Len(wire)
      BY <2>1, <3>1
    <3>3. wire[first[k]].turn \in 1 .. MaxTurns
      BY <3>2, AnswerData
    <3>4. QED
      BY <3>3
  <2>4. found' \in [Kinds -> 0 .. MaxTurns]
    BY <2>1, <2>3 DEF Takes
  <2>5. QED
    BY <1>4, <2>2, <2>4 DEF ReadChunk
<1>5. CASE Whole
  BY <1>5 DEF Whole
<1>6. CASE Silence
  BY <1>6 DEF Silence, Leaves
<1>7. CASE Raise
  BY <1>7 DEF Raise, ShownRecords
<1>8. CASE PublishTurn
  <2>1. found["meter"] \in Nat /\ found["target"] \in Nat
    BY DEF Kinds
  <2>2. shown' \in ShownRecords
    <3>1. shown.analogs \in Nat /\ shown.digitals \in Nat
      BY DEF ShownRecords
    <3>2. shown'.analogs \in Nat /\ shown'.digitals \in Nat
      BY <1>8, <2>1, <3>1, Published
    <3>3. shown'.stamp \in Nat
      BY <1>8, Published, Numbers
    <3>4. QED
      BY <1>8, <3>2, <3>3, Published DEF ShownRecords
  <2>3. QED
    BY <1>8, <2>2, Published DEF PublishTurn
<1>9. CASE UNCHANGED streamVars
  BY <1>9 DEF streamVars
<1>10. QED
  BY <1>1, <1>2, <1>3, <1>4, <1>5, <1>6, <1>7, <1>8, <1>9 DEF StreamNext

\* Every variable of a polled stream keeps to its values.
THEOREM StreamTypeCorrect == StreamSpec => []StreamTypeOK
<1>1. Typed => StreamTypeOK
  BY DEF Typed
<1>2. QED
  BY <1>1, InitTyped, StepTyped, PTL DEF StreamSpec

-----------------------------------------------------------------------------
\* The answers that wait.

LEMMA WaitingData ==
    ASSUME Typed
    PROVE  /\ DOMAIN wire = 1 .. Len(wire) /\ Len(wire) \in Nat
           /\ DOMAIN owed = 1 .. Len(owed) /\ Len(owed) \in Nat
           /\ \A a \in Waiting : a \in Answer /\ a.kind \in Kinds /\ a.turn \in Nat
<1> USE DEF Typed, StreamTypeOK
<1>1. /\ DOMAIN wire = 1 .. Len(wire) /\ Len(wire) \in Nat
      /\ DOMAIN owed = 1 .. Len(owed) /\ Len(owed) \in Nat
  BY LenProperties
<1>2. Waiting \subseteq Answer
  BY <1>1, ElementOfSeq DEF Waiting
<1>3. QED
  BY <1>1, <1>2 DEF Answer

LEMMA WaitingDataNext ==
    ASSUME Typed'
    PROVE  /\ DOMAIN wire' = 1 .. Len(wire') /\ Len(wire') \in Nat
           /\ DOMAIN owed' = 1 .. Len(owed') /\ Len(owed') \in Nat
BY LenProperties DEF Typed, StreamTypeOK

LEMMA InitInv == StreamInit => StreamInv
<1> SUFFICES ASSUME StreamInit PROVE StreamInv
  OBVIOUS
<1>1. Waiting = {} /\ DOMAIN wire = {} /\ DOMAIN owed = {}
  <2>1. wire = <<>> /\ owed = <<>>
    BY DEF StreamInit
  <2>2. QED
    BY <2>1 DEF Waiting
<1>2. InOrder /\ Recent /\ Younger
  BY <1>1 DEF InOrder, Rising, Recent, Younger
<1>3. FoundInTime /\ Flag
  BY DEF StreamInit, FoundInTime, Flag
<1>4. turn = 0 /\ shown.stamp = 0 /\ shown.analogs = 0 /\ at = "rest"
  BY DEF StreamInit
<1>5. QED
  BY <1>2, <1>3, <1>4 DEF StreamInv, Stamped, StampedIsRead

LEMMA InvReply ==
    ASSUME Typed, Typed', StreamInv, Reply
    PROVE  StreamInv'
<1>1. /\ owed # <<>> /\ owed \in Seq(Answer) /\ wire \in Seq(Answer)
      /\ UNCHANGED <<mode, clean, at, turn, found, shown, late>>
  BY DEF Reply, Typed, StreamTypeOK
<1>2. /\ Len(wire') = Len(wire) + 1 /\ Len(owed') = Len(owed) - 1
      /\ \A i \in 1 .. Len(wire) : wire'[i] = wire[i]
      /\ wire'[Len(wire) + 1] = owed[1]
      /\ \A i \in 1 .. Len(owed) - 1 : owed'[i] = owed[i + 1]
  BY <1>1, HeadTailProperties, AppendProperties DEF Reply
<1>3. Waiting' \subseteq Waiting
  <2>1. \A i \in DOMAIN wire' : wire'[i] \in Waiting
    <3>1. TAKE i \in DOMAIN wire'
    <3>2. CASE i \in DOMAIN wire
      BY <1>2, <3>2, WaitingData DEF Waiting
    <3>3. CASE i = Len(wire) + 1
      BY <1>1, <1>2, <3>3, WaitingData DEF Waiting
    <3>4. QED
      BY <1>2, <3>2, <3>3, WaitingData, WaitingDataNext
  <2>2. \A i \in DOMAIN owed' : owed'[i] \in Waiting
    <3>1. TAKE i \in DOMAIN owed'
    <3>2. i \in 1 .. Len(owed) - 1 /\ i + 1 \in DOMAIN owed
      BY <1>1, <1>2, WaitingData, WaitingDataNext
    <3>3. QED
      BY <1>2, <3>2 DEF Waiting
  <2>3. QED
    BY <2>1, <2>2 DEF Waiting
<1>4. InOrder'
  <2> USE WaitingData, WaitingDataNext DEF StreamInv, InOrder, Rising
  <2>1. 1 \in DOMAIN owed
    BY <1>1, EmptySeq
  <2>2. ASSUME NEW i \in DOMAIN wire', NEW j \in DOMAIN wire', i < j,
               wire'[i].kind = wire'[j].kind
        PROVE  wire'[i].turn < wire'[j].turn
    <3>1. i \in DOMAIN wire /\ (j \in DOMAIN wire \/ j = Len(wire) + 1)
      BY <1>2, <2>2
    <3>2. QED
      BY <1>2, <2>1, <2>2, <3>1
  <2>3. ASSUME NEW i \in DOMAIN owed', NEW j \in DOMAIN owed', i < j,
               owed'[i].kind = owed'[j].kind
        PROVE  owed'[i].turn < owed'[j].turn
    <3>1. /\ i + 1 \in DOMAIN owed /\ owed'[i] = owed[i + 1]
          /\ j + 1 \in DOMAIN owed /\ owed'[j] = owed[j + 1]
      BY <1>2
    <3>2. QED
      BY <2>3, <3>1
  <2>4. ASSUME NEW i \in DOMAIN wire', NEW j \in DOMAIN owed',
               wire'[i].kind = owed'[j].kind
        PROVE  wire'[i].turn < owed'[j].turn
    <3>1. j + 1 \in DOMAIN owed /\ owed'[j] = owed[j + 1]
      BY <1>2
    <3>2. i \in DOMAIN wire \/ i = Len(wire) + 1
      BY <1>2
    <3>3. QED
      BY <1>2, <2>1, <2>4, <3>1, <3>2
  <2>5. QED
    BY <2>2, <2>3, <2>4
<1>5. Recent' /\ Younger'
  BY <1>1, <1>3 DEF StreamInv, Recent, Younger, Commands
<1>6. QED
  BY <1>1, <1>4, <1>5 DEF StreamInv, FoundInTime, Flag, Stamped, StampedIsRead

LEMMA InvDrain ==
    ASSUME Typed, Typed', StreamInv, Drain
    PROVE  StreamInv'
<1> USE WaitingData, WaitingDataNext, Numbers DEF StreamInv
<1>1. /\ at = "rest" /\ at' = "send" /\ turn' = turn + 1
      /\ UNCHANGED <<mode, owed, clean, found, shown>>
  BY DEF Drain
<1>2. CASE clean
  <2>1. wire' = wire /\ late' = late
    BY <1>2 DEF Drain, Leaves
  <2>2. Waiting' = Waiting
    BY <1>1, <2>1 DEF Waiting
  <2>3. InOrder' /\ Younger'
    BY <1>1, <2>1, <2>2 DEF InOrder, Rising, Younger, Commands
  <2>4. Recent'
    BY <1>1, <1>2, <2>1, <2>2 DEF Recent
  <2>5. FoundInTime' /\ Flag' /\ StampedIsRead'
    BY <1>1 DEF FoundInTime, Flag, StampedIsRead
  <2>6. Stamped'
    BY <1>1 DEF Stamped
  <2>7. QED
    BY <2>3, <2>4, <2>5, <2>6
<1>3. CASE ~clean
  <2>1. wire' = <<>> /\ late' = IF owed # <<>> THEN late + 1 ELSE late
    BY <1>3 DEF Drain, Leaves
  <2>2. \A a \in Waiting' : a \in Waiting /\ owed # <<>>
    BY <1>1, <2>1 DEF Waiting
  <2>3. InOrder' /\ Younger'
    <3>1. DOMAIN wire' = {} /\ owed' = owed
      BY <1>1, <2>1
    <3>2. Rising(wire)' /\ Rising(owed)'
      BY <3>1 DEF InOrder, Rising
    <3>3. InOrder'
      BY <3>1, <3>2 DEF InOrder
    <3>4. Younger'
      BY <1>1, <2>2 DEF Younger, Commands
    <3>5. QED
      BY <3>3, <3>4
  <2>4. Recent'
    BY <1>1, <1>3, <2>1, <2>2 DEF Recent
  <2>5. FoundInTime' /\ Flag' /\ StampedIsRead'
    BY <1>1 DEF FoundInTime, Flag, StampedIsRead
  <2>6. Stamped'
    BY <1>1 DEF Stamped
  <2>7. QED
    BY <2>3, <2>4, <2>5, <2>6
<1>4. QED
  BY <1>2, <1>3 DEF Typed, StreamTypeOK

LEMMA InvSend ==
    ASSUME Typed, Typed', StreamInv, Send
    PROVE  StreamInv'
<1> USE WaitingData, WaitingDataNext, Numbers DEF StreamInv
<1>1. /\ at = "send" /\ at' = "read" /\ clean' = FALSE /\ found' = Nothing
      /\ owed' = owed \o Questions /\ turn \in 1 .. MaxTurns
      /\ UNCHANGED <<mode, wire, turn, shown, late>>
  BY StreamAssumption DEF Send, Questions, Typed, StreamTypeOK
<1>2. /\ Len(owed') = Len(owed) + Len(Commands)
      /\ \A i \in DOMAIN owed : owed'[i] = owed[i]
      /\ \A i \in DOMAIN owed' : i \notin DOMAIN owed =>
            /\ i - Len(owed) \in DOMAIN Commands
            /\ owed'[i].kind = Commands[i - Len(owed)] /\ owed'[i].turn = turn
  <2>1. Questions \in Seq(Answer) /\ Len(Questions) = Len(Commands)
        /\ owed \in Seq(Answer)
    BY <1>1, QuestionsData, StreamAssumption DEF Typed, StreamTypeOK
  <2>2. /\ Len(owed') = Len(owed) + Len(Commands)
        /\ \A i \in 1 .. Len(owed) + Len(Commands) :
              owed'[i] = IF i <= Len(owed) THEN owed[i] ELSE Questions[i - Len(owed)]
    <3>1. /\ Len(owed \o Questions) = Len(owed) + Len(Questions)
          /\ \A i \in 1 .. Len(owed) + Len(Questions) :
                (owed \o Questions)[i] =
                    IF i <= Len(owed) THEN owed[i] ELSE Questions[i - Len(owed)]
      BY <2>1, ConcatProperties
    <3>2. QED
      BY <1>1, <2>1, <3>1
  <2>3. ASSUME NEW i \in DOMAIN owed', i \notin DOMAIN owed
        PROVE  /\ i - Len(owed) \in DOMAIN Commands
               /\ owed'[i].kind = Commands[i - Len(owed)] /\ owed'[i].turn = turn
    <3>1. i - Len(owed) \in 1 .. Len(Commands) /\ owed'[i] = Questions[i - Len(owed)]
      BY <2>2, <2>3, Asked
    <3>2. QED
      BY <1>1, <3>1, QuestionsData, StreamAssumption, Asked
  <2>4. QED
    BY <2>2, <2>3, Asked
<1>3. \A a \in Waiting' :
        a \in Waiting \/ (a.turn = turn /\ \E i \in DOMAIN Commands : a.kind = Commands[i])
  <2>1. \A i \in DOMAIN owed' :
          owed'[i] \in Waiting \/ (owed'[i].turn = turn /\
            \E c \in DOMAIN Commands : owed'[i].kind = Commands[c])
    <3>1. TAKE i \in DOMAIN owed'
    <3>2. CASE i \in DOMAIN owed
      BY <1>2, <3>2 DEF Waiting
    <3>3. CASE i \notin DOMAIN owed
      BY <1>2, <3>3
    <3>4. QED
      BY <3>2, <3>3
  <2>2. \A i \in DOMAIN wire' : wire'[i] \in Waiting
    BY <1>1 DEF Waiting
  <2>3. QED
    BY <2>1, <2>2 DEF Waiting
<1>4. InOrder'
  <2>1. ASSUME NEW i \in DOMAIN owed', NEW j \in DOMAIN owed', i < j,
               owed'[i].kind = owed'[j].kind
        PROVE  owed'[i].turn < owed'[j].turn
    <3>1. CASE j \in DOMAIN owed
      <4>1. i \in DOMAIN owed
        BY <1>2, <2>1, <3>1
      <4>2. QED
        BY <1>2, <2>1, <3>1, <4>1 DEF InOrder, Rising
    <3>2. CASE i \in DOMAIN owed /\ j \notin DOMAIN owed
      <4>1. owed[i] \in Waiting
        BY <3>2 DEF Waiting
      <4>2. QED
        BY <1>1, <1>2, <3>2, <4>1 DEF Recent
    <3>3. CASE i \notin DOMAIN owed /\ j \notin DOMAIN owed
      BY <1>2, <2>1, <3>3, Asked
    <3>4. QED
      BY <2>1, <3>1, <3>2, <3>3
  <2>2. ASSUME NEW i \in DOMAIN wire', NEW j \in DOMAIN owed',
               wire'[i].kind = owed'[j].kind
        PROVE  wire'[i].turn < owed'[j].turn
    <3>1. CASE j \in DOMAIN owed
      BY <1>1, <1>2, <2>2, <3>1 DEF InOrder
    <3>2. CASE j \notin DOMAIN owed
      <4>1. wire'[i] \in Waiting
        BY <1>1 DEF Waiting
      <4>2. QED
        BY <1>1, <1>2, <3>2, <4>1 DEF Recent
    <3>3. QED
      BY <3>1, <3>2
  <2>3. Rising(wire)'
    BY <1>1 DEF InOrder, Rising
  <2>4. QED
    BY <2>1, <2>2, <2>3 DEF InOrder, Rising
<1>5. Recent'
  BY <1>1, <1>3 DEF Recent
<1>6. Younger'
  <2>1. \A a \in Waiting' : a.kind \in Kinds /\ a.turn \in Nat \ {0}
    <3>1. Waiting' \subseteq Answer
      BY ElementOfSeq DEF Waiting, Typed, StreamTypeOK
    <3>2. QED
      BY <3>1, StreamAssumption DEF Answer
  <2>2. QED
    BY <1>1, <1>3, <2>1 DEF Younger, Commands, Stamped, Nothing
<1>7. QED
  BY <1>1, <1>4, <1>5, <1>6 DEF FoundInTime, Flag, Stamped, StampedIsRead, Nothing

LEMMA InvReadChunk ==
    ASSUME Typed, Typed', StreamInv, ReadChunk
    PROVE  StreamInv'
<1> USE WaitingData, WaitingDataNext, Numbers DEF StreamInv
<1>1. /\ at = "read" /\ at' = "read" /\ ~clean
      /\ UNCHANGED <<mode, owed, clean, turn, shown, late>>
  BY DEF ReadChunk, Flag
<1>2. PICK n \in 1 .. Len(wire) : \E first \in [Kinds -> 0 .. n] : Takes(first, n)
  BY Zenon DEF ReadChunk, Takes
<1>3. PICK first \in [Kinds -> 0 .. n] : Takes(first, n)
  BY <1>2
<1>4. /\ Len(wire') = Len(wire) - n
      /\ \A i \in DOMAIN wire' : n + i \in DOMAIN wire /\ wire'[i] = wire[n + i]
  <2>1. wire \in Seq(Answer)
    BY DEF Typed, StreamTypeOK
  <2>2. /\ Len(wire') = Len(wire) - n
        /\ \A i \in 1 .. Len(wire) - n : wire'[i] = wire[n + i]
    BY <1>3, <2>1, LeftOnWire DEF Takes
  <2>3. QED
    BY <2>2
<1>5. \A a \in Waiting' : a \in Waiting
  BY <1>1, <1>4 DEF Waiting
<1>6. InOrder'
  <2>1. ASSUME NEW i \in DOMAIN wire', NEW j \in DOMAIN wire', i < j,
               wire'[i].kind = wire'[j].kind
        PROVE  wire'[i].turn < wire'[j].turn
    <3>1. /\ n + i \in DOMAIN wire /\ n + j \in DOMAIN wire /\ n + i < n + j
          /\ wire'[i] = wire[n + i] /\ wire'[j] = wire[n + j]
      BY <1>4, <2>1
    <3>2. QED
      BY <2>1, <3>1 DEF InOrder, Rising
  <2>2. ASSUME NEW i \in DOMAIN wire', NEW j \in DOMAIN owed',
               wire'[i].kind = owed'[j].kind
        PROVE  wire'[i].turn < owed'[j].turn
    BY <1>1, <1>4, <2>2 DEF InOrder
  <2>3. Rising(owed)'
    BY <1>1 DEF InOrder, Rising
  <2>4. QED
    BY <2>1, <2>2, <2>3 DEF InOrder, Rising
<1>7. Recent'
  BY <1>1, <1>5 DEF Recent
<1>8. \A k \in Kinds : first[k] # 0 =>
        /\ first[k] \in DOMAIN wire /\ first[k] <= n
        /\ wire[first[k]] \in Waiting /\ wire[first[k]].kind = k
  <2>1. TAKE k \in Kinds
  <2>2. HAVE first[k] # 0
  <2>3. first[k] \in DOMAIN wire /\ first[k] <= n
    BY <2>2
  <2>4. wire[first[k]].kind = k
    BY <1>3, <2>2 DEF Takes, IsFirst
  <2>5. QED
    BY <2>3, <2>4 DEF Waiting
<1>9. Younger'
  <2>1. SUFFICES ASSUME NEW a \in Waiting' PROVE a.turn > found'[a.kind]
    BY <1>1, <1>5 DEF Younger, Commands
  <2>2. a \in Waiting /\ a.kind \in Kinds
    BY <1>5
  <2>3. CASE found[a.kind] # 0 \/ first[a.kind] = 0
    BY <1>1, <1>3, <2>2, <2>3 DEF Takes, Younger
  <2>4. CASE found[a.kind] = 0 /\ first[a.kind] # 0
    <3>1. found'[a.kind] = wire[first[a.kind]].turn
      BY <1>3, <2>2, <2>4 DEF Takes
    <3>2. CASE \E i \in DOMAIN wire' : a = wire'[i]
      <4>1. PICK i \in DOMAIN wire' : a = wire'[i]
        BY <3>2
      <4>2. n + i \in DOMAIN wire /\ a = wire[n + i] /\ first[a.kind] < n + i
        BY <1>4, <1>8, <2>2, <2>4, <4>1
      <4>3. QED
        BY <1>8, <2>2, <2>4, <3>1, <4>2 DEF InOrder, Rising
    <3>3. CASE \E j \in DOMAIN owed : a = owed[j]
      <4>1. PICK j \in DOMAIN owed : a = owed[j]
        BY <3>3
      <4>2. first[a.kind] \in DOMAIN wire /\ wire[first[a.kind]].kind = a.kind
        BY <1>8, <2>2, <2>4
      <4>3. wire[first[a.kind]].turn < owed[j].turn
        BY <4>1, <4>2 DEF InOrder
      <4>4. QED
        BY <3>1, <4>1, <4>3, <1>8, <2>2, <2>4
    <3>4. QED
      BY <1>1, <3>2, <3>3 DEF Waiting
  <2>5. QED
    BY <2>3, <2>4
<1>10. FoundInTime'
  <2>1. \A k \in Kinds : \/ found'[k] = found[k]
                       \/ \E a \in Waiting : found'[k] = a.turn
    BY <1>3, <1>8 DEF Takes
  <2>2. QED
    BY <1>1, <2>1 DEF FoundInTime, Recent
<1>11. Flag' /\ StampedIsRead'
  BY <1>1 DEF Flag, StampedIsRead
<1>12. Stamped'
  BY <1>1 DEF Stamped
<1>13. QED
  BY <1>6, <1>7, <1>9, <1>10, <1>11, <1>12

LEMMA InvWhole ==
    ASSUME Typed, Typed', StreamInv, Whole
    PROVE  StreamInv'
<1> USE WaitingData, WaitingDataNext, Numbers DEF StreamInv
<1>1. /\ at = "read" /\ at' = "publish" /\ Complete /\ clean'
      /\ wire' = wire \/ wire' = <<>>
      /\ UNCHANGED <<mode, owed, turn, found, shown, late>>
  BY DEF Whole
<1>2. \A a \in Waiting' : a \in Waiting
  BY <1>1 DEF Waiting
<1>3. InOrder'
  BY <1>1 DEF InOrder, Rising
<1>4. \A a \in Waiting : turn - a.turn < late
  <2>1. \A a \in Waiting : found[a.kind] # 0 /\ a.turn > found[a.kind]
    BY <1>1 DEF Younger, Complete
  <2>2. QED
    BY <1>1, <2>1 DEF FoundInTime
<1>5. Recent'
  BY <1>1, <1>2, <1>4 DEF Recent
<1>6. Younger'
  BY <1>1, <1>2 DEF Younger, Commands
<1>7. FoundInTime' /\ Flag' /\ StampedIsRead'
  BY <1>1 DEF FoundInTime, Flag, StampedIsRead
<1>8. Stamped'
  BY <1>1 DEF Stamped
<1>9. QED
  BY <1>3, <1>5, <1>6, <1>7, <1>8

LEMMA InvSilence ==
    ASSUME Typed, Typed', StreamInv, Silence
    PROVE  StreamInv'
<1> USE WaitingData, WaitingDataNext, Numbers DEF StreamInv
<1>1. /\ at = "read" /\ at' = "publish" /\ clean' /\ wire = <<>>
      /\ late' = IF owed # <<>> THEN late + 1 ELSE late
      /\ UNCHANGED <<mode, owed, wire, turn, found, shown>>
  BY DEF Silence, Leaves
<1>2. \A a \in Waiting' : a \in Waiting /\ owed # <<>>
  BY <1>1 DEF Waiting
<1>3. InOrder'
  BY <1>1 DEF InOrder, Rising
<1>4. Recent'
  BY <1>1, <1>2 DEF Recent
<1>5. Younger'
  BY <1>1, <1>2 DEF Younger, Commands
<1>6. FoundInTime'
  BY <1>1 DEF FoundInTime
<1>7. Flag' /\ StampedIsRead'
  BY <1>1 DEF Flag, StampedIsRead
<1>8. Stamped'
  BY <1>1 DEF Stamped
<1>9. QED
  BY <1>3, <1>4, <1>5, <1>6, <1>7, <1>8

LEMMA InvRaise ==
    ASSUME Typed, Typed', StreamInv, Raise
    PROVE  StreamInv'
<1> USE WaitingData, WaitingDataNext, Numbers DEF StreamInv
<1>1. /\ at = "read" /\ at' = "rest" /\ ~clean
      /\ UNCHANGED <<mode, owed, wire, clean, turn, found, late>>
  BY DEF Raise, Flag
<1>2. shown'.error = "poll" /\ shown'.analogs = shown.analogs /\ shown'.stamp = shown.stamp
  BY DEF Raise, Typed, ShownRecords
<1>3. Waiting' = Waiting
  BY <1>1 DEF Waiting
<1>4. InOrder' /\ Recent' /\ Younger'
  BY <1>1, <1>2, <1>3 DEF InOrder, Rising, Recent, Younger, Commands
<1>5. FoundInTime' /\ Flag' /\ StampedIsRead'
  BY <1>1, <1>2 DEF FoundInTime, Flag, StampedIsRead
<1>6. Stamped'
  BY <1>1, <1>2 DEF Stamped
<1>7. QED
  BY <1>4, <1>5, <1>6

LEMMA InvPublish ==
    ASSUME Typed, Typed', StreamInv, PublishTurn
    PROVE  StreamInv'
<1> USE WaitingData, WaitingDataNext, Numbers DEF StreamInv
<1>1. /\ at = "publish" /\ at' = "rest"
      /\ UNCHANGED <<mode, owed, wire, clean, turn, found, late>>
  BY DEF PublishTurn
<1>2. shown'.stamp = turn /\ shown'.analogs \in {shown.analogs, found["meter"]}
  BY Published
<1>3. Waiting' = Waiting
  BY <1>1 DEF Waiting
<1>4. InOrder' /\ Recent'
  BY <1>1, <1>3 DEF InOrder, Rising, Recent
<1>5. Younger'
  BY <1>1, <1>2, <1>3 DEF Younger, Commands
<1>6. FoundInTime' /\ Flag'
  BY <1>1 DEF FoundInTime, Flag
<1>7. mode' # "target" => StampedIsRead'
  BY <1>1, Published DEF StampedIsRead, Kinds
<1>8. Stamped'
  BY <1>1, <1>2 DEF Stamped, FoundInTime, Kinds
<1>9. QED
  BY <1>4, <1>5, <1>6, <1>7, <1>8

LEMMA StepInv == Typed /\ Typed' /\ StreamInv /\ [StreamNext]_streamVars => StreamInv'
<1> SUFFICES ASSUME Typed, Typed', StreamInv, [StreamNext]_streamVars PROVE StreamInv'
  OBVIOUS
<1>1. CASE StreamNext
  BY <1>1, InvReply, InvDrain, InvSend, InvReadChunk, InvWhole, InvSilence, InvRaise,
     InvPublish DEF StreamNext
<1>2. CASE UNCHANGED streamVars
  <2>1. UNCHANGED <<mode, owed, wire, clean, at, turn, found, shown, late>>
    BY <1>2 DEF streamVars
  <2>2. InOrder'
    BY <2>1 DEF StreamInv, InOrder, Rising
  <2>3. Recent' /\ Younger'
    BY <2>1 DEF StreamInv, Recent, Younger, Waiting, Commands
  <2>4. FoundInTime' /\ Flag' /\ Stamped' /\ (mode' # "target" => StampedIsRead')
    BY <2>1 DEF StreamInv, FoundInTime, Flag, Stamped, StampedIsRead
  <2>5. QED
    BY <2>2, <2>3, <2>4 DEF StreamInv
<1>3. QED
  BY <1>1, <1>2

LEMMA Invariants == StreamSpec => [](Typed /\ StreamInv)
BY InitTyped, StepTyped, InitInv, StepInv, PTL DEF StreamSpec

\* What a turn publishes is as many turns old, at most, as answers have come
\* late, and a screen stamped as of now was read now: for any numbers of turns
\* and of late answers, and whatever fails in between.
THEOREM StreamIsHonestHolds == StreamSpec => []StreamIsHonest
<1>1. StreamInv => StreamIsHonest
  BY DEF StreamInv, StreamIsHonest, LagIsBounded, FoundInTime
<1>2. QED
  BY <1>1, Invariants, PTL

-----------------------------------------------------------------------------
(***************************************************************************)
(* The refinement.  Only the answer of the meter is in the mapping, so a   *)
(* step that finds another kind of answer, and one that loses answers, is  *)
(* a stutter of OrderedReadings.                                           *)
(***************************************************************************)

LEMMA InitRefines == StreamInit => Ordered!ReadingsInit
<1> SUFFICES ASSUME StreamInit PROVE Ordered!ReadingsInit
  OBVIOUS
<1>1. turn = 0 /\ late = 0 /\ shown.analogs = 0 /\ at = "rest"
  BY DEF StreamInit
<1>2. QED
  BY <1>1 DEF Ordered!ReadingsInit

\* What the mapping calls ripe.
Ripe == IF at \in {"read", "publish"} THEN found["meter"] ELSE 0

LEMMA StepRefines ==
    Typed /\ StreamInv /\ [StreamNext]_streamVars
        => [Ordered!ReadingsNext]_(Ordered!readingVars)
<1> SUFFICES ASSUME Typed, StreamInv, [StreamNext]_streamVars
             PROVE  [Ordered!ReadingsNext]_(Ordered!readingVars)
  OBVIOUS
<1> DEFINE Same == UNCHANGED <<turn, late, Ripe, shown.analogs>>
<1>1. Same => UNCHANGED Ordered!readingVars
  BY DEF Ordered!readingVars, Ripe
<1> HIDE DEF Same
<1>2. CASE Reply
  BY <1>1, <1>2 DEF Reply, Ripe, Same
<1>3. CASE Drain
  <2>1. /\ turn' = turn + 1 /\ late' \in {late, late + 1}
        /\ at = "rest" /\ at' = "send" /\ shown' = shown
    BY <1>3 DEF Drain, Leaves
  <2>2. Ordered!Begin
    BY <2>1 DEF Ordered!Begin
  <2>3. QED
    BY <2>2 DEF Ordered!ReadingsNext
<1>4. CASE Send
  <2>1. Ripe = 0 /\ Ripe' = 0
    BY <1>4 DEF Send, Ripe, Nothing, Kinds
  <2>2. QED
    BY <1>1, <1>4, <2>1 DEF Send, Same
<1>5. CASE ReadChunk
  <2>1. /\ at = "read" /\ at' = "read" /\ UNCHANGED <<turn, late, shown>>
    BY <1>5 DEF ReadChunk
  <2>2. CASE found'["meter"] = found["meter"]
    BY <1>1, <2>1, <2>2 DEF Ripe, Same
  <2>3. CASE found'["meter"] # found["meter"]
    <3>1. PICK n \in 1 .. Len(wire) : \E first \in [Kinds -> 0 .. n] : Takes(first, n)
      BY <1>5, Zenon DEF ReadChunk, Takes
    <3>2. PICK first \in [Kinds -> 0 .. n] : Takes(first, n)
      BY <3>1
    <3>3. "meter" \in Kinds
      BY DEF Kinds
    <3>4. /\ found["meter"] = 0 /\ first["meter"] # 0
          /\ found'["meter"] = wire[first["meter"]].turn
      BY <2>3, <3>2, <3>3 DEF Takes
    <3>5. first["meter"] \in DOMAIN wire /\ wire[first["meter"]].kind = "meter"
      BY <3>2, <3>3, <3>4, WaitingData DEF Takes, IsFirst
    <3>6. wire[first["meter"]] \in Waiting
      BY <3>5 DEF Waiting
    <3>7. /\ found'["meter"] \in shown.analogs + 1 .. turn
          /\ turn - found'["meter"] <= late
      BY <3>4, <3>5, <3>6, WaitingData, Numbers DEF StreamInv, Recent, Younger
    <3>8. Ordered!Ripen
      BY <2>1, <3>4, <3>7 DEF Ordered!Ripen
    <3>9. QED
      BY <3>8 DEF Ordered!ReadingsNext
  <2>4. QED
    BY <2>2, <2>3
<1>6. CASE Whole
  BY <1>1, <1>6 DEF Whole, Ripe, Same
<1>7. CASE Silence
  <2>1. /\ at = "read" /\ at' = "publish" /\ late' \in {late, late + 1}
        /\ UNCHANGED <<turn, found, shown>>
    BY <1>7 DEF Silence, Leaves
  <2>2. CASE late' = late
    BY <1>1, <2>1, <2>2 DEF Ripe, Same
  <2>3. CASE late' = late + 1
    <3>1. Ordered!Miss
      BY <2>1, <2>3 DEF Ordered!Miss
    <3>2. QED
      BY <3>1 DEF Ordered!ReadingsNext
  <2>4. QED
    BY <2>1, <2>2, <2>3
<1>8. CASE Raise
  <2>1. at = "read" /\ at' = "rest" /\ UNCHANGED <<turn, late, found>>
    BY <1>8 DEF Raise
  <2>2. shown'.analogs = shown.analogs
    BY <1>8 DEF Raise, Typed, ShownRecords
  <2>3. Ordered!Show
    BY <2>1, <2>2 DEF Ordered!Show
  <2>4. QED
    BY <2>3 DEF Ordered!ReadingsNext
<1>9. CASE PublishTurn
  <2>1. at = "publish" /\ at' = "rest" /\ UNCHANGED <<turn, late, found>>
    BY <1>9 DEF PublishTurn
  <2>2. /\ shown'.analogs \in {shown.analogs, found["meter"]}
        /\ found["meter"] = 0 => shown'.analogs = shown.analogs
    BY <1>9, Published
  <2>3. Ordered!Show
    BY <2>1, <2>2 DEF Ordered!Show
  <2>4. QED
    BY <2>3 DEF Ordered!ReadingsNext
<1>10. CASE UNCHANGED streamVars
  BY <1>1, <1>10 DEF streamVars, Ripe, Same
<1>11. QED
  BY <1>2, <1>3, <1>4, <1>5, <1>6, <1>7, <1>8, <1>9, <1>10 DEF StreamNext

\* The stream implements the promise: readings reach the screen in the order in
\* which they were asked for, whatever comes late, for any number of turns.
THEOREM ReadingsAreOrderedHolds == StreamSpec => ReadingsAreOrdered
BY InitRefines, StepRefines, Invariants, PTL DEF StreamSpec, ReadingsAreOrdered,
   Ordered!ReadingsSpec
=============================================================================
