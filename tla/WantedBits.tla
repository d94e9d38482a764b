----------------------------- MODULE WantedBits -----------------------------
(***************************************************************************)
(* Which bits the reader of a shared connection is asked for.  Reading a   *)
(* row of a 3xx relay costs a round trip, so only what is on screen is     *)
(* read: every values() of an attached diagram notes the bits of its page, *)
(* and the link publishes the union of what its diagrams noted.            *)
(***************************************************************************)
EXTENDS Naturals, FiniteSets

CONSTANTS
    Viewers,    \* diagrams of the relay
    Pages       \* pages: sets of bits

VARIABLES
    holds,      \* GlvDiagram.link is the link
    goes,       \* diagrams that let go of the link and did not release it yet
    page,       \* the page each screen has open
    asking,     \* the values() of each stream: idle, noting, publishing
    asked,      \* RelayLink._wanted, {} for no entry
    union,      \* the union each values() is about to publish
    giving,     \* the union a release() is about to publish, if any
    wanted      \* LiveState.wanted_bits

wantedVars == <<holds, goes, page, asking, asked, union, giving, wanted>>

\* Mutant: each diagram publishes its own page.
UnionOwn(d, bits) == bits

\* The union under the lock, with one entry replaced.
UnionWith(d, bits) == bits \cup UNION {asked[e] : e \in Viewers \ {d}}

WantedInit ==
    /\ holds = {} /\ goes = {}
    /\ page \in [Viewers -> Pages]
    /\ asking = [d \in Viewers |-> "idle"]
    /\ asked = [d \in Viewers |-> {}]
    /\ union = [d \in Viewers |-> {}] /\ giving = {}
    /\ wanted = {}

\* A connection is shared, or opened by the first: a link of its own, with nothing asked yet.
\* acquire() waits for the lock of the pool, which a release() may hold.
Join(d) ==
    /\ d \notin holds \cup goes /\ giving = {}
    /\ holds' = holds \cup {d}
    /\ IF holds \cup goes = {} /\ \A e \in Viewers : asking[e] = "idle"
       THEN asked' = [e \in Viewers |-> {}] /\ wanted' = {}
       ELSE UNCHANGED <<asked, wanted>>
    /\ UNCHANGED <<goes, page, asking, union, giving>>

\* disconnect(): the diagram drops its reference first ...
LetGo(d) ==
    /\ d \in holds
    /\ holds' = holds \ {d} /\ goes' = goes \cup {d}
    /\ UNCHANGED <<page, asking, asked, union, giving, wanted>>

\* ... release() takes its bits back, with the lock of the pool ...
TakeBack(d) ==
    /\ d \in goes /\ giving = {}
    /\ goes' = goes \ {d}
    /\ asked' = [asked EXCEPT ![d] = {}]
    /\ giving' = {UnionWith(d, {})}
    /\ UNCHANGED <<holds, page, asking, union, wanted>>

\* ... and publishes what is left, when the link's own lock is let go.  What the
\* last diagram publishes, without the pool's, is on a link nobody can join.
GiveBack ==
    /\ \E bits \in giving : wanted' = bits
    /\ giving' = {}
    /\ UNCHANGED <<holds, goes, page, asking, asked, union>>

TurnPage(d, p) ==
    /\ page[d] # p
    /\ page' = [page EXCEPT ![d] = p]
    /\ UNCHANGED <<holds, goes, asking, asked, union, giving, wanted>>

\* values(): link = self.link, read once.
Values(d) ==
    /\ asking[d] = "idle" /\ d \in holds
    /\ asking' = [asking EXCEPT ![d] = "noting"]
    /\ UNCHANGED <<holds, goes, page, asked, union, giving, wanted>>

\* set_wanted_bits(): the page's bits noted and the union taken under the lock ...
Note(d) ==
    /\ asking[d] = "noting"
    /\ asked' = [asked EXCEPT ![d] = page[d]]
    /\ union' = [union EXCEPT ![d] = UnionWith(d, page[d])]
    /\ asking' = [asking EXCEPT ![d] = "publishing"]
    /\ UNCHANGED <<holds, goes, page, giving, wanted>>

\* ... which is let go before the union is published.
Publish(d) ==
    /\ asking[d] = "publishing"
    /\ wanted' = union[d] /\ union' = [union EXCEPT ![d] = {}]
    /\ asking' = [asking EXCEPT ![d] = "idle"]
    /\ UNCHANGED <<holds, goes, page, asked, giving>>

\* One request for the frame of a screen.
Asking(d) == Values(d) \/ Note(d) \/ Publish(d)

WantedNext ==
    \/ \E d \in Viewers :
        \/ Join(d) \/ LetGo(d) \/ TakeBack(d)
        \/ Asking(d)
        \/ \E p \in Pages : TurnPage(d, p)
    \/ GiveBack

WantedSpec == WantedInit /\ [][WantedNext]_wantedVars

\* The stream of an open screen asks at least every heartbeat (events.py:55), and its thread runs.
WantedFairness == \A d \in Viewers : WF_wantedVars(Asking(d))

----------------------------------------------------------------------------
(* Properties. *)

\* Every variable keeps to its values.
WantedTypeOK ==
    /\ holds \subseteq Viewers /\ goes \subseteq Viewers /\ holds \cap goes = {}
    /\ page \in [Viewers -> Pages]
    /\ asking \in [Viewers -> {"idle", "noting", "publishing"}]
    /\ asked \in [Viewers -> SUBSET UNION Pages]
    /\ union \in [Viewers -> SUBSET UNION Pages]
    /\ giving \subseteq SUBSET UNION Pages
    /\ wanted \subseteq UNION Pages

(***************************************************************************)
(* What a screen shows gets read: the bits of a page that stays open come  *)
(* to be among those the reader is asked for, for good, although two       *)
(* set_wanted_bits() may publish their unions in the wrong order and that  *)
(* of a diagram that leaves, or has left, may come last (link.py:543-553). *)
(***************************************************************************)
PageIsAskedFor ==
    \A d \in Viewers, p \in Pages :
        <>[](d \in holds /\ page[d] = p) => <>[](p \subseteq wanted)
=============================================================================
