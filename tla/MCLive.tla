------------------------------- MODULE MCLive -------------------------------
(***************************************************************************)
(* From the relay to the screen for TLC, one story each: what streams tell *)
(* the screens, what screens ask of the reader, how a loop reads its       *)
(* relay's stream, how the rows of a 3xx are discovered and read, a whole  *)
(* session of a text client, and the MMS reader.                           *)
(***************************************************************************)
EXTENDS LiveFeed, WantedBits, RelayStream, TargetRegion, RelaySession,
        MmsReader, TLC

CONSTANTS x, y, z, e1, e2

VARIABLE story

textVars == <<feedVars, wantedVars, streamVars, regionVars>>
clientVars == <<sessionVars, mmsVars>>
allVars == <<textVars, clientVars, story>>

TwoPages == {{x}, {y}}

\* Two bits on one decorated leaf, the third on another.
Decorated == x :> "l1" @@ y :> "l1" @@ z :> "l2"
OneOfTwo == x :> 1 @@ y :> 2 @@ z :> 1
Drawn == e1 :> {x, z} @@ e2 :> {y, z}
AllOrOne == {{}, {x}}

Init ==
    /\ story \in {"feed", "wanted", "stream", "region", "session", "mms"}
    /\ FeedInit /\ RegionInit
    /\ WantedInit /\ (story # "wanted" => page = [d \in Viewers |-> {x}])
    /\ StreamInit /\ (story # "stream" => mode = "target")
    /\ SessionInit
    /\ story # "session" =>
        /\ who = "glv" /\ cfg.mode = "target" /\ level = 0 /\ cached = "none"
    /\ MmsInit
    /\ story # "mms" =>
        directory = {} /\ scd = {} /\ table = {} /\ drawn = {}

Show ==
    /\ story = "feed" /\ FeedNext
    /\ UNCHANGED <<story, wantedVars, streamVars, regionVars, clientVars>>

Demand ==
    /\ story = "wanted" /\ WantedNext
    /\ UNCHANGED <<story, feedVars, streamVars, regionVars, clientVars>>

ReadStream ==
    /\ story = "stream" /\ StreamNext
    /\ UNCHANGED <<story, feedVars, wantedVars, regionVars, clientVars>>

ReadRows ==
    /\ story = "region" /\ RegionNext
    /\ UNCHANGED <<story, feedVars, wantedVars, streamVars, clientVars>>

HoldSession ==
    /\ story = "session" /\ SessionNext
    /\ UNCHANGED <<story, textVars, mmsVars>>

ReadMms ==
    /\ story = "mms" /\ MmsNext
    /\ UNCHANGED <<story, textVars, sessionVars>>

Next == Show \/ Demand \/ ReadStream \/ ReadRows \/ HoldSession \/ ReadMms

\* The fairness of a component, in the story that is its own.
FairSpec ==
    /\ Init /\ [][Next]_allVars
    /\ \A d \in Screens : WF_feedVars(story = "feed" /\ Stream(d))
    /\ \A d \in Viewers : WF_wantedVars(story = "wanted" /\ Asking(d))

\* Every variable keeps to its values.
LiveTypeOK ==
    FeedTypeOK /\ WantedTypeOK /\ StreamTypeOK /\ RegionTypeOK /\ SessionTypeOK /\ MmsTypeOK

(***************************************************************************)
(* A terminal that ends its session has logged out of the relay, and what  *)
(* the relay serves of every accepted diagram's bits is what MMS reads.    *)
(***************************************************************************)
RelaySideIsRight == LoggedOut /\ AcceptedIsPlanned
=============================================================================
