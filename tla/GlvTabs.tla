------------------------------- MODULE GlvTabs -------------------------------
(***************************************************************************)
(* The diagrams one visitor has open in the Graphical Logic Viewer:        *)
(* _GlvSession and the routes of web/glv/handler.py that change it.  The   *)
(* server runs a thread per request and no lock guards this object, so a   *)
(* check and what it guards are apart by as much as a render takes.        *)
(***************************************************************************)
EXTENDS Naturals, FiniteSets, Sequences, SequencesExt

CONSTANTS
    Calls,      \* request threads
    MaxOpen,    \* defaults.max_diagrams
    MaxBatch,   \* most GLEs ticked in one /diagrams/batch
    MaxCounter  \* bound: how many ids a session draws

ASSUME TabsAssumption == {MaxOpen, MaxBatch, MaxCounter} \subseteq Nat \ {0}

VARIABLES
    diagrams,   \* st.diagrams: id -> which build it is
    order,      \* st.order
    active,     \* st.active, 0 for None
    counter,    \* st.counter
    builds,     \* how many diagrams were built: tells two of one id apart
    call,       \* the request threads
    crowd       \* history: two of them have overlapped

tabVars == <<diagrams, order, active, counter, builds, call, crowd>>

Quiet == [at |-> "idle", left |-> 0, id |-> 0, first |-> 0]
Busy == {c \in Calls : call[c].at # "idle"}
Open == {i \in 1 .. MaxCounter : diagrams[i] # 0}
Count == Cardinality(Open)
Rightmost(s) == IF s = <<>> THEN 0 ELSE s[Len(s)]

TabsInit ==
    /\ diagrams = [i \in 1 .. MaxCounter |-> 0]
    /\ order = <<>> /\ active = 0 /\ counter = 0 /\ builds = 0
    /\ call = [c \in Calls |-> Quiet] /\ crowd = FALSE

----------------------------------------------------------------------------
(* Opening. *)

\* /diagrams asks for one, /diagrams/batch for several: all of them, or 409 and none.
Fits(n) == Count + n <= MaxOpen

Ask1(c, n) ==
    /\ call[c].at = "idle" /\ Fits(n)
    /\ call' = [call EXCEPT ![c] = [Quiet EXCEPT !.at = "check", !.left = n]]
    /\ crowd' = (crowd \/ Busy # {})
    /\ UNCHANGED <<diagrams, order, active, counter, builds>>

\* _resolve_gle() of every item: one that is refused refuses them all, before any is opened.
Resolve1(c) ==
    /\ call[c].at = "check"
    /\ \/ call' = [call EXCEPT ![c].at = "draw"]
       \/ call' = [call EXCEPT ![c] = Quiet]
    /\ UNCHANGED <<diagrams, order, active, counter, builds, crowd>>

\* _open_diagram: st.counter += 1 ...
Draw(c) ==
    /\ call[c].at = "draw" /\ counter < MaxCounter
    /\ counter' = counter + 1
    /\ call' = [call EXCEPT ![c].at = "name"]
    /\ UNCHANGED <<diagrams, order, active, builds, crowd>>

\* ... did = f"d{st.counter}", another read of it ...
Name(c) ==
    /\ call[c].at = "name"
    /\ call' = [call EXCEPT ![c].at = "build", ![c].id = counter]
    /\ UNCHANGED <<diagrams, order, active, counter, builds, crowd>>

\* What is left of a request when one item is through.
Onward(c, id) ==
    call' = [call EXCEPT ![c] =
               [at |-> IF @.left > 1 THEN "draw" ELSE "last", left |-> @.left - 1,
                id |-> 0, first |-> IF @.first = 0 THEN id ELSE @.first]]

\* ... build_diagram(), about a second, and the diagram is stored and shown.
Build(c) ==
    /\ call[c].at = "build"
    /\ builds' = builds + 1
    /\ diagrams' = [diagrams EXCEPT ![call[c].id] = builds + 1]
    /\ order' = Append(order, call[c].id)
    /\ active' = call[c].id
    /\ Onward(c, call[c].id)
    /\ UNCHANGED <<counter, crowd>>

\* A GLE that does not render: a batch goes on without it.
RenderFails(c) ==
    /\ call[c].at = "build"
    /\ Onward(c, 0)
    /\ UNCHANGED <<diagrams, order, active, counter, builds, crowd>>

\* The batch's first tab is the one left active, and the client goes there.
LastItem(c) ==
    /\ call[c].at = "last"
    /\ active' = IF call[c].first # 0 THEN call[c].first ELSE active
    /\ call' = [call EXCEPT ![c] = Quiet]
    /\ UNCHANGED <<diagrams, order, counter, builds, crowd>>

----------------------------------------------------------------------------
(* Closing and choosing. *)

\* _diagram(): the id asked for, or the active one; 404 for one that is not open.
Find1(c, i, what) ==
    /\ call[c].at = "idle" /\ i \in Open
    /\ call' = [call EXCEPT ![c] = [Quiet EXCEPT !.at = what, !.id = i]]
    /\ crowd' = (crowd \/ Busy # {})
    /\ UNCHANGED <<diagrams, order, active, counter, builds>>

\* Mutant: the tab that closes stays the active one.
CloseStaysActive(c) ==
    /\ call[c].at = "close"
    /\ diagrams' = [diagrams EXCEPT ![call[c].id] = 0]
    /\ order' = RemoveFirst(order, call[c].id)
    /\ call' = [call EXCEPT ![c] = Quiet]
    /\ UNCHANGED <<active, counter, builds, crowd>>

\* /diagrams/close after d.close(pool), which may take the reader's join.
Close1(c) ==
    /\ call[c].at = "close"
    /\ LET i == call[c].id
           rest == RemoveFirst(order, i)
       IN  /\ diagrams' = [diagrams EXCEPT ![i] = 0]
           /\ order' = rest
           /\ active' = IF active = i THEN Rightmost(rest) ELSE active
    /\ call' = [call EXCEPT ![c] = Quiet]
    /\ UNCHANGED <<counter, builds, crowd>>

\* /diagrams/activate, and the page with ?d=.
Choose(c) ==
    /\ call[c].at = "choose"
    /\ active' = call[c].id
    /\ call' = [call EXCEPT ![c] = Quiet]
    /\ UNCHANGED <<diagrams, order, counter, builds, crowd>>

\* _close_session: the session expired.
CloseAll ==
    /\ diagrams' = [i \in 1 .. MaxCounter |-> 0]
    /\ order' = <<>> /\ active' = 0
    /\ crowd' = (crowd \/ Busy # {})
    /\ UNCHANGED <<counter, builds, call>>

TabsNext ==
    \/ \E c \in Calls :
        \/ \E n \in 1 .. MaxBatch : Ask1(c, n)
        \/ Resolve1(c) \/ Draw(c) \/ Name(c) \/ Build(c) \/ RenderFails(c)
        \/ LastItem(c) \/ Close1(c) \/ Choose(c)
        \/ \E i \in 1 .. MaxCounter, what \in {"close", "choose"} :
              Find1(c, i, what)
    \/ CloseAll

TabsSpec == TabsInit /\ [][TabsNext]_tabVars

----------------------------------------------------------------------------
(* Properties. *)

\* Every variable keeps to its values.
TabsTypeOK ==
    /\ diagrams \in [1 .. MaxCounter -> Nat]
    /\ order \in Seq(1 .. MaxCounter)
    /\ active \in 0 .. MaxCounter /\ counter \in 0 .. MaxCounter
    /\ builds \in Nat /\ crowd \in BOOLEAN
    /\ call \in [Calls -> [at : {"idle", "check", "draw", "name", "build",
                                 "last", "close", "choose"},
                           left : 0 .. MaxBatch, id : 0 .. MaxCounter,
                           first : 0 .. MaxCounter]]

(***************************************************************************)
(* Request after request, whatever a batch lets through, a session never   *)
(* holds more diagrams than the limit its refusal names.  Two requests     *)
(* that overlap may: the check is a render apart from the tab it lets in.  *)
(***************************************************************************)
WithinMaxDiagrams == Count > MaxOpen => crowd

(***************************************************************************)
(* The strip and the dictionary agree, and the active tab is one of them:  *)
(* closing tabs one after the other never leaves the page on a tab that is *)
(* gone, whether it was closed, the batch had its last render fail, or the *)
(* session ended.                                                          *)
(***************************************************************************)
StripIsTrue ==
    ~crowd => /\ ToSet(order) = Open
              /\ IsInjective(order)
              /\ active \in Open \cup {0}
              /\ (active = 0) = (Open = {})

\* The tabs of a session: within the limit, and as the strip shows them.
TabsAreTrue == WithinMaxDiagrams /\ StripIsTrue
==============================================================================
