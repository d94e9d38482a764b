-------------------------------- MODULE MCWeb --------------------------------
(***************************************************************************)
(* The server's side of the tools for TLC: visitors and their sessions,    *)
(* one visitor's project library, the progress registry, the tabs of a GLV *)
(* session, the files the tools write, the DNP map editor and the comments *)
(* of the virtual bits.  They share no state a property of theirs reads,   *)
(* so that a behaviour is one of seven stories, chosen at the start, and   *)
(* their state spaces add up instead of multiplying.                       *)
(***************************************************************************)
EXTENDS Sessions, ProjectLibrary, JobRegistry, GlvTabs, MCRdbOutputs,
        DnpMap, VbComments, TLC

CONSTANTS w1, w2, w3, v1, v2, sh1, sh2, sh3, rdb1, rdb2, m1, m2, tq1, tq2

VARIABLE story

serverVars == <<sessionVars, libraryVars, registryVars, tabVars>>
toolVars == <<outputVars, dnpVars, commentVars>>
allVars == <<serverVars, toolVars, story>>

\* Two visitors' connections of their first diagram, and an upload.
Jobs == w1 :> "glv-connect-d1" @@ w2 :> "glv-connect-d1" @@ w3 :> "random"

\* Two sheets of one relay and one of another, which has fewer scales.
SheetRdb == sh1 :> rdb1 @@ sh2 :> rdb1 @@ sh3 :> rdb2
SheetModel == sh1 :> m1 @@ sh2 :> m1 @@ sh3 :> m2
ModelScaled == m1 :> {0, 1} @@ m2 :> {1}
Straight == 0 :> tq1 @@ 1 :> tq2
Crossed == 0 :> tq2 @@ 1 :> tq1
Files == sh1 :> Straight @@ sh2 :> Crossed @@ sh3 :> Straight

\* The first VB has two ExtRefs and two symbols.
TwoAndOne == <<v1, v1, v2>>

Init ==
    /\ story \in {"session", "library", "jobs", "tabs", "outputs", "dnp", "comments"}
    /\ SessionsInit
    /\ story # "session" => dirs = {} /\ jar = [b \in Browsers |-> NoSid]
    /\ LibraryInit /\ (story # "library" => cached = {})
    /\ RegistryInit /\ TabsInit /\ OutputsInit /\ DnpInit
    /\ CommentsInit
    /\ story # "comments" =>
        described = {} /\ comment = [y \in Symbols |-> Empty]

Visit ==
    /\ story = "session" /\ SessionsNext
    /\ UNCHANGED <<story, libraryVars, registryVars, tabVars, toolVars>>

Store ==
    /\ story = "library" /\ LibraryNext
    /\ UNCHANGED <<story, sessionVars, registryVars, tabVars, toolVars>>

Progress ==
    /\ story = "jobs" /\ RegistryNext
    /\ UNCHANGED <<story, sessionVars, libraryVars, tabVars, toolVars>>

Tabs ==
    /\ story = "tabs" /\ TabsNext
    /\ UNCHANGED <<story, sessionVars, libraryVars, registryVars, toolVars>>

WriteOutputs ==
    /\ story = "outputs" /\ OutputsNext
    /\ UNCHANGED <<story, serverVars, dnpVars, commentVars>>

EditMap ==
    /\ story = "dnp" /\ DnpNext
    /\ UNCHANGED <<story, serverVars, outputVars, commentVars>>

EditComments ==
    /\ story = "comments" /\ CommentsNext
    /\ UNCHANGED <<story, serverVars, outputVars, dnpVars>>

Next ==
    \/ Visit \/ Store \/ Progress \/ Tabs
    \/ WriteOutputs \/ EditMap \/ EditComments

\* The fairness of the sessions, in the story that is theirs.
FairSpec ==
    /\ Init /\ [][Next]_allVars
    /\ WF_sessionVars(story = "session" /\ Tick)
    /\ WF_sessionVars(story = "session" /\ Sweep)

\* Every variable keeps to its values.
WebTypeOK ==
    /\ SessionsTypeOK /\ LibraryTypeOK /\ RegistryTypeOK /\ TabsTypeOK
    /\ OutputsTypeOK /\ DnpTypeOK /\ CommentsTypeOK

(***************************************************************************)
(* What a tool works on comes through whole: the quantities and scales of  *)
(* a DNP map, and the descriptions of the virtual bits.                    *)
(***************************************************************************)
SettingsAreKept == PointsAreKept /\ DescriptionsAreKept
=============================================================================
