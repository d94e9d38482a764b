------------------------------ MODULE LiveFeed ------------------------------
(***************************************************************************)
(* What the screens of the GLV are told: LiveState, the /events streams of *)
(* events.event_frames() and GlvDiagram.values().  Several diagrams share  *)
(* one connection to a relay, whose LiveState they all show while they are *)
(* attached; a diagram at rest shows an empty LiveState of its own.        *)
(*                                                                         *)
(* A version only ever serves to tell whether it moved, so a stream keeps  *)
(* here whether the version it read is still the current one.              *)
(***************************************************************************)
EXTENDS Naturals, FiniteSets

CONSTANTS
    Screens,    \* diagrams, each with one open tab and one stream
    Readings,   \* what the relay may answer
    None        \* no reading: everything indeterminate

VARIABLES
    link,       \* the RelayLink: connected or not, what its LiveState holds
    idle,       \* what each diagram's own LiveState holds
    attached,   \* GlvDiagram.link is the link
    leaving,    \* diagrams that let go of the link and did not release it yet
    stream,     \* each stream's thread
    screen      \* the last frame each screen was sent, and the state it was taken from

feedVars == <<link, idle, attached, leaving, stream, screen>>

\* A LiveState: its reading and its error.
Errors == {"", "poll", "stopped"}
State == [value : Readings \cup {None}, error : Errors]
Clear == [value |-> None, error |-> ""]

\* GlvDiagram.state: which LiveState a diagram shows, and what it holds.
Which(d) == IF attached[d] THEN "link" ELSE "idle"
Shown(d) == IF attached[d] THEN link.state ELSE idle[d]

\* _bump(): every stream whose version is of the state that changed is released.
Bump(those) == [d \in Screens |->
    IF d \in those THEN [stream[d] EXCEPT !.moved = TRUE] ELSE stream[d]]
OnLink == {d \in Screens : stream[d].on = "link"}

FeedInit ==
    /\ link = [connected |-> TRUE, state |-> Clear]
    /\ idle = [d \in Screens |-> Clear]
    /\ attached = [d \in Screens |-> FALSE]
    /\ leaving = {}
    /\ stream = [d \in Screens |-> [at |-> "look", on |-> "idle", moved |-> FALSE]]
    /\ screen = [d \in Screens |-> [state |-> Clear, from |-> "idle"]]

----------------------------------------------------------------------------
(* The reader of the link. *)

\* Mutant: values are written and mark_updated() forgotten.
ReadQuietly(v) ==
    /\ link.connected
    /\ link' = [link EXCEPT !.state = [value |-> v, error |-> ""]]
    /\ UNCHANGED <<idle, attached, leaving, stream, screen>>

\* A turn of the loop: values, error and mark_updated() in one critical section.
Read(v) ==
    /\ link.connected
    /\ link' = [link EXCEPT !.state = [value |-> v, error |-> ""]]
    /\ stream' = Bump(OnLink)
    /\ UNCHANGED <<idle, attached, leaving, screen>>

\* A turn that raised: the error is stored, nothing is stamped and nobody is told.
ReadRaises ==
    /\ link.connected /\ link.state.error = ""
    /\ link' = [link EXCEPT !.state.error = "poll"]
    /\ UNCHANGED <<idle, attached, leaving, stream, screen>>

\* Mutant: the reason is a state nobody reads.
GiveUpOddly ==
    /\ link.connected
    /\ link' = [connected |-> FALSE, state |-> [Clear EXCEPT !.error = "gave up"]]
    /\ stream' = Bump(OnLink)
    /\ UNCHANGED <<idle, attached, leaving, screen>>

\* _poll_gave_up: not connected, clear(), and only then the reason.
GiveUp ==
    /\ link.connected
    /\ link' = [connected |-> FALSE, state |-> Clear]
    /\ stream' = Bump(OnLink)
    /\ UNCHANGED <<idle, attached, leaving, screen>>

Explain ==
    /\ ~link.connected /\ link.state = Clear
    /\ link' = [link EXCEPT !.state.error = "stopped"]
    /\ UNCHANGED <<idle, attached, leaving, stream, screen>>

\* The link nobody holds is gone from the pool: the next connection is a new
\* object.  Bound: it waits until no stream is on the old one.
Renew ==
    /\ leaving = {}
    /\ \A d \in Screens : ~attached[d] /\ stream[d].on = "idle"
    /\ link # [connected |-> TRUE, state |-> Clear]
    /\ link' = [connected |-> TRUE, state |-> Clear]
    /\ UNCHANGED <<idle, attached, leaving, stream, screen>>

----------------------------------------------------------------------------
(* The diagrams. *)

\* The end of _connect(): the link is there to be shown, its version did not move.
AttachTo(d) ==
    /\ ~attached[d] /\ d \notin leaving /\ link.connected
    /\ attached' = [attached EXCEPT ![d] = TRUE]
    /\ UNCHANGED <<link, idle, leaving, stream, screen>>

\* disconnect(): the diagram lets go, and idle.clear() wakes who waits on the diagram's own.
Detach(d) ==
    /\ attached[d]
    /\ attached' = [attached EXCEPT ![d] = FALSE]
    /\ idle' = [idle EXCEPT ![d] = Clear]
    /\ leaving' = leaving \cup {d}
    /\ stream' = Bump({d} \ OnLink)
    /\ UNCHANGED <<link, screen>>

\* pool.release(): its bits leave the union; the last owner closes the link, which clears it.
Leave(d) ==
    /\ d \in leaving
    /\ leaving' = leaving \ {d}
    /\ IF leaving' = {} /\ \A e \in Screens : ~attached[e]
       THEN /\ link' = [connected |-> FALSE, state |-> Clear]
            /\ stream' = Bump(OnLink)
       ELSE UNCHANGED <<link, stream>>
    /\ UNCHANGED <<idle, attached, screen>>

\* A connection that failed is told in the diagram's own state.
ConnectFails(d) ==
    /\ ~attached[d] /\ d \notin leaving /\ idle[d] = Clear
    /\ idle' = [idle EXCEPT ![d].error = "stopped"]
    /\ UNCHANGED <<link, attached, leaving, stream, screen>>

----------------------------------------------------------------------------
(* event_frames(): one turn of a stream. *)

Move(d, at) == stream' = [stream EXCEPT ![d].at = at]

\* state = d.state; version = state.version.
Look(d) ==
    /\ stream[d].at = "look"
    /\ stream' = [stream EXCEPT ![d] = [at |-> "build", moved |-> FALSE, on |-> Which(d)]]
    /\ UNCHANGED <<link, idle, attached, leaving, screen>>

\* Mutant: a diagram that is not connected sends nothing.
BuildConnected(d) ==
    /\ stream[d].at = "build"
    /\ screen' = IF attached[d]
                 THEN [screen EXCEPT ![d] = [state |-> Shown(d), from |-> "link"]]
                 ELSE screen
    /\ Move(d, "park")
    /\ UNCHANGED <<link, idle, attached, leaving>>

\* values(page): a snapshot of the state the diagram shows by now.
BuildFrame(d) ==
    /\ stream[d].at = "build"
    /\ screen' = [screen EXCEPT ![d] = [state |-> Shown(d), from |-> Which(d)]]
    /\ Move(d, "park")
    /\ UNCHANGED <<link, idle, attached, leaving>>

\* wait_for_change(version): at once if it has moved.
Released(d) ==
    /\ stream[d].at = "park" /\ stream[d].moved
    /\ Move(d, "look")
    /\ UNCHANGED <<link, idle, attached, leaving, screen>>

\* The heartbeat, or the end of the stream and the reconnection of the browser.
Heartbeat(d) ==
    /\ stream[d].at = "park"
    /\ Move(d, "look")
    /\ UNCHANGED <<link, idle, attached, leaving, screen>>

\* The thread of a stream.
Stream(d) == Look(d) \/ BuildFrame(d) \/ Released(d) \/ Heartbeat(d)

FeedNext ==
    \/ \E v \in Readings : Read(v)
    \/ ReadRaises \/ GiveUp \/ Explain \/ Renew
    \/ \E d \in Screens :
        \/ AttachTo(d) \/ Detach(d) \/ Leave(d) \/ ConnectFails(d)
        \/ Stream(d)

FeedSpec == FeedInit /\ [][FeedNext]_feedVars

\* A stream's thread is scheduled, and a wait ends by its timeout.
FeedFairness == \A d \in Screens : WF_feedVars(Stream(d))

----------------------------------------------------------------------------
(* Properties. *)

\* Every variable keeps to its values.
FeedTypeOK ==
    /\ link \in [connected : BOOLEAN, state : State]
    /\ idle \in [Screens -> State]
    /\ attached \in [Screens -> BOOLEAN] /\ leaving \subseteq Screens
    /\ stream \in [Screens -> [at : {"look", "build", "park"},
                               on : {"link", "idle"}, moved : BOOLEAN]]
    /\ screen \in [Screens -> [state : State, from : {"link", "idle"}]]

(***************************************************************************)
(* A stream never goes to sleep on a reading it did not send: parked on a  *)
(* version that did not move, of the state its frame was taken from and    *)
(* its diagram still shows, it has sent what that state holds.  The        *)
(* version is read BEFORE the payload is built (events.py:48-51).          *)
(***************************************************************************)
ParkedHasSentIt ==
    \A d \in Screens :
        /\ stream[d].at = "park" /\ ~stream[d].moved
        /\ stream[d].on = Which(d) /\ screen[d].from = Which(d)
        => screen[d].state.value = Shown(d).value

(***************************************************************************)
(* A diagram that stays disconnected does not keep a reading on the        *)
(* screen: "The screen can never keep showing the old reading"             *)
(* (diagram.py:322), although its stream may be parked on the state of a   *)
(* link others still hold, while what disconnecting wakes is its own.      *)
(***************************************************************************)
OldReadingLeaves ==
    \A d \in Screens :
        ~attached[d] ~> (attached[d] \/ screen[d].state.value = None)

(***************************************************************************)
(* Why a reading stopped reaches the screen.  _poll_gave_up() stores the   *)
(* reason after the clear() that wakes the streams, and wakes nobody for   *)
(* it (link.py:480-482).                                                   *)
(***************************************************************************)
ReasonIsShown ==
    \A d \in Screens :
        (attached[d] /\ link.state.error = "stopped") ~>
            (~attached[d] \/ screen[d].state.error = "stopped")

\* Readings leave the screen and reasons reach it.
ScreenFollows == OldReadingLeaves /\ ReasonIsShown
=============================================================================
