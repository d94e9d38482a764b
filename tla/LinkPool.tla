------------------------------ MODULE LinkPool ------------------------------
(***************************************************************************)
(* How the diagrams of the Graphical Logic Viewer share relay connections: *)
(* LinkPool and the life cycle of RelayLink (web/glv/link.py), driven by    *)
(* the connection attempts of GlvDiagram (web/glv/diagram.py).              *)
(*                                                                         *)
(* A relay is a key `ip:porta`.  Every connect or disconnect request of a  *)
(* diagram d bumps d's generation, so a request and the worker thread it    *)
(* starts are named <<d, generation>>; the RelayLink an attempt creates is  *)
(* named after that attempt.                                                *)
(***************************************************************************)
EXTENDS Naturals, FiniteSets

CONSTANTS
  Diagrams,       \* the open diagrams, of every visitor's session
  Relays,         \* the keys ip:porta
  Mms,            \* the relays whose key is an MMS port; the others are telnet
  Owners,         \* the diagram ids ("d1", "d2", ...) used as refcount tokens
  RelayOf,        \* the relay a diagram watches
  OwnerOf,        \* the id of a diagram inside its own session
  MaxLinks,       \* LinkPool.max_links
  MaxGen,         \* bound: generations of a diagram
  Requests,       \* bound: connect and disconnect requests of each diagram
  EarlyReconnect, \* does a user reconnect before the old attempt has ended?
  RelayMayHang,   \* can the setup outlast the watchdog's deadline?
  None            \* no link

Threads == Diagrams \X (1..MaxGen)
Links == Threads

ASSUME PoolAssumption ==
  /\ IsFiniteSet(Relays) /\ Mms \subseteq Relays
  /\ RelayOf \in [Diagrams -> Relays]
  /\ OwnerOf \in [Diagrams -> Owners]
  /\ MaxLinks \in Nat /\ MaxGen \in Nat
  /\ Requests \in [Diagrams -> 0..MaxGen]
  /\ EarlyReconnect \in BOOLEAN /\ RelayMayHang \in BOOLEAN
  /\ None \notin Links

VARIABLES
  pool,       \* LinkPool._links: relay -> link or None
  owners,     \* RelayLink.owners
  conn,       \* where the thread running RelayLink.connect() is
  watchdog,   \* where the setup watchdog's callback is
  sess,       \* the relay session the transport holds
  ready, error, connected, closed,  \* RelayLink's flags
  att,        \* GlvDiagram.link
  status,     \* GlvDiagram.status
  gen,        \* GlvDiagram._gen
  pc,         \* where a request or attempt thread is
  then,       \* what it does once the release it is in has returned
  held        \* its local variable `link`

poolVars    == <<pool, owners>>
linkVars    == <<conn, watchdog, sess, ready, error, connected, closed>>
diagramVars == <<att, status, gen>>
threadVars  == <<pc, then, held>>
vars == <<poolVars, linkVars, diagramVars, threadVars>>

Key(l) == RelayOf[l[1]]
Me(t) == OwnerOf[t[1]]
Current(t) == gen[t[1]] = t[2]
Pooled == {k \in Relays : pool[k] # None}

Releasing == {"drop", "close"}
Active == {"acquire", "wait", "prepare", "refused", "fail"} \cup Releasing
Quiet(d) == \A t \in Threads : t[1] = d => pc[t] \notin Active

\* t still has the reference it took in acquire().
Holding(t) == pc[t] \in {"wait", "prepare", "drop"}

TypeOK ==
  /\ pool \in [Relays -> Links \cup {None}]
  /\ owners \in [Links -> SUBSET Owners]
  /\ conn \in [Links -> {"off", "dialing", "setup", "end"}]
  /\ watchdog \in [Links -> {"armed", "firing", "abandoning", "done"}]
  /\ sess \in [Links -> {"none", "open", "shut"}]
  /\ ready \in [Links -> BOOLEAN] /\ error \in [Links -> BOOLEAN]
  /\ connected \in [Links -> BOOLEAN] /\ closed \in [Links -> BOOLEAN]
  /\ att \in [Diagrams -> Links \cup {None}]
  /\ status \in [Diagrams -> {"idle", "connecting", "live", "error"}]
  /\ gen \in [Diagrams -> 0..MaxGen]
  /\ pc \in [Threads -> Active \cup {"none", "done"}]
  /\ then \in [Threads -> {"acquire", "fail", "done"}]
  /\ held \in [Threads -> Links \cup {None}]
  /\ \A t \in Threads : pc[t] \in {"wait", "prepare"} \cup Releasing => held[t] # None

Init ==
  /\ pool = [k \in Relays |-> None]
  /\ owners = [l \in Links |-> {}]
  /\ conn = [l \in Links |-> "off"]
  /\ watchdog = [l \in Links |-> "armed"]
  /\ sess = [l \in Links |-> "none"]
  /\ ready = [l \in Links |-> FALSE] /\ error = [l \in Links |-> FALSE]
  /\ connected = [l \in Links |-> FALSE] /\ closed = [l \in Links |-> FALSE]
  /\ att = [d \in Diagrams |-> None]
  /\ status = [d \in Diagrams |-> "idle"]
  /\ gen = [d \in Diagrams |-> 0]
  /\ pc = [t \in Threads |-> "none"]
  /\ then = [t \in Threads |-> "done"]
  /\ held = [t \in Threads |-> None]

(***************************************************************************)
(* The requests of a visitor.                                              *)
(***************************************************************************)

\* A new thread of diagram d: it first lets go of the link d is attached to,
\* when there is one, and then goes on with `next`.
Spawn(d, next) ==
  LET t == <<d, gen[d] + 1>> IN
  /\ gen' = [gen EXCEPT ![d] = gen[d] + 1]
  /\ att' = [att EXCEPT ![d] = None]
  /\ held' = [held EXCEPT ![t] = att[d]]
  /\ then' = [then EXCEPT ![t] = next]
  /\ pc' = [pc EXCEPT ![t] = IF att[d] # None THEN "drop" ELSE next]

\* POST /connect.  Attached to a link that still reads, or already
\* connecting, it returns the job that exists (no step).
Connect(d) ==
  /\ gen[d] < Requests[d]
  /\ EarlyReconnect \/ Quiet(d)
  /\ \/ att[d] # None /\ ~connected[att[d]]
     \/ att[d] = None /\ status[d] # "connecting"
  /\ status' = [status EXCEPT ![d] = "connecting"]
  /\ Spawn(d, "acquire")
  /\ UNCHANGED <<poolVars, linkVars>>

\* POST /disconnect, and closing the diagram or its session.
Disconnect(d) ==
  /\ gen[d] < Requests[d]
  /\ status' = [status EXCEPT ![d] = "idle"]
  /\ Spawn(d, "done")
  /\ UNCHANGED <<poolVars, linkVars>>

(***************************************************************************)
(* LinkPool.acquire(): one step under the pool's lock.                     *)
(***************************************************************************)

\* Mutant: joins without signing up as an owner.
JoinUnowned(t) ==
  LET l == pool[Key(t)] IN
  /\ pc[t] = "acquire" /\ l # None
  /\ held' = [held EXCEPT ![t] = l]
  /\ pc' = [pc EXCEPT ![t] = "wait"]
  /\ UNCHANGED <<poolVars, linkVars, diagramVars, then>>

\* The link in the map is joined in whatever state it is.
Join(t) ==
  LET l == pool[Key(t)] IN
  /\ pc[t] = "acquire" /\ l # None
  /\ owners' = [owners EXCEPT ![l] = @ \cup {Me(t)}]
  /\ held' = [held EXCEPT ![t] = l]
  /\ pc' = [pc EXCEPT ![t] = "wait"]
  /\ UNCHANGED <<pool, linkVars, diagramVars, then>>

\* What Open() does once it may: put t in the map.
Install(t) ==
  /\ pool' = [pool EXCEPT ![Key(t)] = t]
  /\ owners' = [owners EXCEPT ![t] = {Me(t)}]
  /\ conn' = [conn EXCEPT ![t] = "dialing"]
  /\ pc' = [pc EXCEPT ![t] = "wait"]
  /\ UNCHANGED <<watchdog, sess, ready, error, connected, closed,
                 diagramVars, then>>

\* Mutant: the attempt does not keep the link it created.
OpenUnheld(t) ==
  /\ pc[t] = "acquire" /\ pool[Key(t)] = None
  /\ Cardinality(Pooled) < MaxLinks
  /\ Install(t)
  /\ UNCHANGED held

\* A new link, whose connect() starts on a thread of its own.
Open(t) ==
  /\ pc[t] = "acquire" /\ pool[Key(t)] = None
  /\ Cardinality(Pooled) < MaxLinks
  /\ Install(t)
  /\ held' = [held EXCEPT ![t] = t]

\* TooManyLinks.
Refuse(t) ==
  /\ pc[t] = "acquire" /\ pool[Key(t)] = None
  /\ Cardinality(Pooled) >= MaxLinks
  /\ pc' = [pc EXCEPT ![t] = "refused"]
  /\ UNCHANGED <<poolVars, linkVars, diagramVars, then, held>>

(***************************************************************************)
(* GlvDiagram._connect() after acquire().                                  *)
(***************************************************************************)

\* From here on t is inside pool.release(held[t]) and then does `next`.
Release(t, next) ==
  /\ pc' = [pc EXCEPT ![t] = "drop"]
  /\ then' = [then EXCEPT ![t] = next]
  /\ UNCHANGED held

\* Mutant: a cancelled wait ends without letting go of the link.
WaitLeaks(t) ==
  /\ pc[t] = "wait" /\ ~ready[held[t]] /\ ~Current(t)
  /\ pc' = [pc EXCEPT ![t] = "done"]
  /\ UNCHANGED <<poolVars, linkVars, diagramVars, then, held>>

\* `ready` did not come within this turn of the wait, and the attempt is stale.
WaitCancelled(t) ==
  /\ pc[t] = "wait" /\ ~ready[held[t]] /\ ~Current(t)
  /\ Release(t, "done")
  /\ UNCHANGED <<poolVars, linkVars, diagramVars>>

WaitReady(t) ==
  LET l == held[t] IN
  /\ pc[t] = "wait" /\ ready[l]
  /\ \/ /\ error[l] \/ ~connected[l]
        /\ Release(t, "fail")
     \/ /\ ~error[l] /\ connected[l] /\ ~Current(t)
        /\ Release(t, "done")
     \/ /\ ~error[l] /\ connected[l] /\ Current(t)
        /\ pc' = [pc EXCEPT ![t] = "prepare"]
        /\ UNCHANGED <<then, held>>
  /\ UNCHANGED <<poolVars, linkVars, diagramVars>>

\* ensure_bits() raised: a wedged reader, a dropped connection.
PrepareFails(t) ==
  /\ pc[t] = "prepare"
  /\ Release(t, "fail")
  /\ UNCHANGED <<poolVars, linkVars, diagramVars>>

\* ensure_bits() returned: attach under the diagram's lock, unless cancelled.
Attach(t) ==
  /\ pc[t] = "prepare"
  /\ \/ /\ Current(t)
        /\ att' = [att EXCEPT ![t[1]] = held[t]]
        /\ status' = [status EXCEPT ![t[1]] = "live"]
        /\ pc' = [pc EXCEPT ![t] = "done"]
        /\ held' = [held EXCEPT ![t] = None]
        /\ UNCHANGED <<gen, then>>
     \/ /\ ~Current(t)
        /\ Release(t, "done")
        /\ UNCHANGED diagramVars
  /\ UNCHANGED <<poolVars, linkVars>>

\* What _fail() leaves of a diagram.
PaintError(d) ==
  /\ att' = [att EXCEPT ![d] = None]
  /\ status' = [status EXCEPT ![d] = "error"]
  /\ UNCHANGED gen

\* Mutant: does not look at the generation.
FailAlways(t) ==
  /\ pc[t] = "fail"
  /\ PaintError(t[1])
  /\ pc' = [pc EXCEPT ![t] = "done"]
  /\ UNCHANGED <<poolVars, linkVars, then, held>>

\* _fail(reason, job, gen): a stale attempt paints nothing.
Fail(t) ==
  /\ pc[t] = "fail"
  /\ IF Current(t) THEN PaintError(t[1]) ELSE UNCHANGED diagramVars
  /\ pc' = [pc EXCEPT ![t] = "done"]
  /\ UNCHANGED <<poolVars, linkVars, then, held>>

\* _fail(reason, job) of the TooManyLinks branch, which passes no generation.
FailRefused(t) ==
  /\ pc[t] = "refused"
  /\ PaintError(t[1])
  /\ pc' = [pc EXCEPT ![t] = "done"]
  /\ UNCHANGED <<poolVars, linkVars, then, held>>

(***************************************************************************)
(* LinkPool.release() and RelayLink.close().                               *)
(***************************************************************************)

\* Back from release().
Return(t) ==
  /\ pc' = [pc EXCEPT ![t] = then[t]]
  /\ then' = [then EXCEPT ![t] = "done"]
  /\ held' = [held EXCEPT ![t] = None]

\* Mutant: asks whether owners are left before it takes itself out.
DropAsksFirst(t) ==
  LET l == held[t] IN
  /\ pc[t] = "drop"
  /\ owners' = [owners EXCEPT ![l] = @ \ {Me(t)}]
  /\ \/ owners[l] # {} /\ Return(t) /\ UNCHANGED pool
     \/ /\ owners[l] = {}
        /\ pool' = [pool EXCEPT ![Key(l)] = None]
        /\ pc' = [pc EXCEPT ![t] = "close"]
        /\ UNCHANGED <<then, held>>
  /\ UNCHANGED <<linkVars, diagramVars>>

\* Mutant: every release takes the link out of the map.
DropAlwaysPops(t) ==
  LET l == held[t] IN
  /\ pc[t] = "drop"
  /\ owners' = [owners EXCEPT ![l] = @ \ {Me(t)}]
  /\ pool' = [pool EXCEPT ![Key(l)] = None]
  /\ IF owners'[l] # {} THEN Return(t)
     ELSE pc' = [pc EXCEPT ![t] = "close"] /\ UNCHANGED <<then, held>>
  /\ UNCHANGED <<linkVars, diagramVars>>

\* Mutant: the last owner leaves and nobody closes the link.
DropNeverCloses(t) ==
  LET l == held[t] IN
  /\ pc[t] = "drop"
  /\ owners' = [owners EXCEPT ![l] = @ \ {Me(t)}]
  /\ pool' = [pool EXCEPT ![Key(l)] = IF owners'[l] = {} THEN None ELSE @]
  /\ Return(t)
  /\ UNCHANGED <<linkVars, diagramVars>>

\* Under the pool's lock: the owner leaves; the last one takes out of the map
\* whatever link the KEY maps to.
Drop(t) ==
  LET l == held[t] IN
  /\ pc[t] = "drop"
  /\ owners' = [owners EXCEPT ![l] = @ \ {Me(t)}]
  /\ \/ /\ owners'[l] # {}
        /\ Return(t)
        /\ UNCHANGED pool
     \/ /\ owners'[l] = {}
        /\ pool' = [pool EXCEPT ![Key(l)] = None]
        /\ pc' = [pc EXCEPT ![t] = "close"]
        /\ UNCHANGED <<then, held>>
  /\ UNCHANGED <<linkVars, diagramVars>>

\* transport.abort() ends a session that is open.  In the middle of the setup it
\* reaches a telnet socket that is already stored, and nothing else: an MMS
\* client, or a socket still waiting for TCP, is stored only later.
Aborted(l) ==
  IF sess[l] = "open" THEN {"shut"}
  ELSE IF conn[l] = "dialing" /\ Key(l) \notin Mms THEN {sess[l], "shut"}
  ELSE {sess[l]}

\* RelayLink.close(), outside the pool's lock.
Close(t) ==
  LET l == held[t] IN
  /\ pc[t] = "close"
  /\ closed' = [closed EXCEPT ![l] = TRUE]
  /\ connected' = [connected EXCEPT ![l] = FALSE]
  /\ \E s \in Aborted(l) : sess' = [sess EXCEPT ![l] = s]
  /\ Return(t)
  /\ UNCHANGED <<poolVars, conn, watchdog, ready, error, diagramVars>>

(***************************************************************************)
(* RelayLink.connect(), on the link's own thread.                          *)
(***************************************************************************)

\* Logged in (telnet) or associated (MMS): the client is stored, setup_done set.
LogIn(l) ==
  /\ conn[l] = "dialing" /\ sess[l] = "none"
  /\ sess' = [sess EXCEPT ![l] = "open"]
  /\ conn' = [conn EXCEPT ![l] = "setup"]
  /\ UNCHANGED <<poolVars, watchdog, ready, error, connected, closed,
                 diagramVars, threadVars>>

\* transport.connect() raised: error, _close_transport(), ready.
SetupFails(l) ==
  /\ conn[l] \in {"dialing", "setup"}
  /\ conn' = [conn EXCEPT ![l] = "end"]
  /\ error' = [error EXCEPT ![l] = TRUE]
  /\ connected' = [connected EXCEPT ![l] = FALSE]
  /\ sess' = [sess EXCEPT ![l] = IF @ = "open" THEN "shut" ELSE @]
  /\ ready' = [ready EXCEPT ![l] = TRUE]
  /\ UNCHANGED <<poolVars, watchdog, closed, diagramVars, threadVars>>

\* transport.connect() returned: _connected, whatever _closed says, then
\* _start_polling(), which refuses a closed link, and ready.
SetupDone(l) ==
  /\ conn[l] = "setup"
  /\ conn' = [conn EXCEPT ![l] = "end"]
  /\ connected' = [connected EXCEPT ![l] = TRUE]
  /\ ready' = [ready EXCEPT ![l] = TRUE]
  /\ UNCHANGED <<poolVars, watchdog, sess, error, closed, diagramVars, threadVars>>

\* _poll_gave_up(): the reading ended on its own.
ReaderGivesUp(l) ==
  /\ conn[l] = "end" /\ connected[l] /\ ~closed[l]
  /\ connected' = [connected EXCEPT ![l] = FALSE]
  /\ error' = [error EXCEPT ![l] = TRUE]
  /\ UNCHANGED <<poolVars, conn, watchdog, sess, ready, closed,
                 diagramVars, threadVars>>

(***************************************************************************)
(* The setup watchdog's abort(), on its timer's thread.                    *)
(***************************************************************************)

\* The deadline passed and setup_done was not set when it looked.
WatchdogExpires(l) ==
  /\ RelayMayHang
  /\ conn[l] = "dialing" /\ watchdog[l] = "armed"
  /\ watchdog' = [watchdog EXCEPT ![l] = "firing"]
  /\ UNCHANGED <<poolVars, conn, sess, ready, error, connected, closed,
                 diagramVars, threadVars>>

\* Mutant: abandons without `ready`, which nobody else will set.
WatchdogKeepsWaiting(l) ==
  /\ watchdog[l] = "firing"
  /\ \E s \in Aborted(l) : sess' = [sess EXCEPT ![l] = s]
  /\ error' = [error EXCEPT ![l] = TRUE]
  /\ watchdog' = [watchdog EXCEPT ![l] = "abandoning"]
  /\ UNCHANGED <<poolVars, conn, ready, connected, closed, diagramVars, threadVars>>

\* transport.abort(), the error, and ready.
WatchdogAborts(l) ==
  /\ watchdog[l] = "firing"
  /\ \E s \in Aborted(l) : sess' = [sess EXCEPT ![l] = s]
  /\ error' = [error EXCEPT ![l] = TRUE]
  /\ ready' = [ready EXCEPT ![l] = TRUE]
  /\ watchdog' = [watchdog EXCEPT ![l] = "abandoning"]
  /\ UNCHANGED <<poolVars, conn, connected, closed, diagramVars, threadVars>>

\* pool.abandon(), which compares identities.
Abandon(l) ==
  /\ watchdog[l] = "abandoning"
  /\ pool' = [pool EXCEPT ![Key(l)] = IF @ = l THEN None ELSE @]
  /\ watchdog' = [watchdog EXCEPT ![l] = "done"]
  /\ UNCHANGED <<owners, conn, sess, ready, error, connected, closed,
                 diagramVars, threadVars>>

-----------------------------------------------------------------------------

Acquire(t) == Join(t) \/ Open(t) \/ Refuse(t)
Work(t) == \/ Acquire(t)
           \/ WaitCancelled(t) \/ WaitReady(t)
           \/ PrepareFails(t) \/ Attach(t)
           \/ Fail(t) \/ FailRefused(t)
           \/ Drop(t) \/ Close(t)
FinishSetup(l) == conn[l] = "setup" /\ (SetupFails(l) \/ SetupDone(l))
Watch(l) == WatchdogExpires(l) \/ WatchdogAborts(l) \/ Abandon(l)

Next ==
  \/ \E d \in Diagrams : Connect(d) \/ Disconnect(d)
  \/ \E t \in Threads : Work(t)
  \/ \E l \in Links : \/ LogIn(l) \/ SetupFails(l) \/ SetupDone(l)
                      \/ ReaderGivesUp(l) \/ Watch(l)

Spec == Init /\ [][Next]_vars

\* Threads run.  Nothing is assumed of the relay during the setup: what ends a
\* setup that hangs is the watchdog.  What follows it has deadlines of its own.
Fairness ==
  /\ \A t \in Threads : WF_vars(Work(t))
  /\ \A l \in Links : WF_vars(FinishSetup(l)) /\ WF_vars(Watch(l))

FairSpec == Spec /\ Fairness

-----------------------------------------------------------------------------
(***************************************************************************)
(* Properties.                                                             *)
(***************************************************************************)

\* A link in the map is not closed and nobody is closing it, so no acquire()
\* ever joins a link on its way down (link.py: "a concurrent acquire() must not
\* join a link that is closing").
NeverJoinClosing ==
  \A k \in Relays : pool[k] # None =>
    /\ Key(pool[k]) = k
    /\ ~closed[pool[k]]
    /\ \A t \in Threads : pc[t] = "close" => held[t] # pool[k]

\* A slot of the ceiling is always accounted to an owner.
PooledIsOwned == \A k \in Relays : pool[k] # None => owners[pool[k]] # {}

\* The ceiling of simultaneous connections holds.
WithinCeiling == Cardinality(Pooled) <= MaxLinks

\* An owner listed in a link is a diagram attached to it or an attempt of such
\* a diagram that has yet to release it: no reference outlives its holder, so
\* no slot of the ceiling is lost.
NoOrphanOwner ==
  \A l \in Links : \A o \in owners[l] :
    \/ \E d \in Diagrams : att[d] = l /\ OwnerOf[d] = o
    \/ \E t \in Threads : Holding(t) /\ held[t] = l /\ Me(t) = o

\* The link a diagram is attached to is the one everybody else would join.
AttachedIsPooled ==
  \A d \in Diagrams : att[d] # None => pool[RelayOf[d]] = att[d]

\* The connection is never closed under a diagram that is attached to it: the
\* diagram is among the owners, and nobody has closed the link or is about to.
NoCloseUnderDiagram ==
  \A d \in Diagrams : att[d] # None =>
    /\ OwnerOf[d] \in owners[att[d]]
    /\ ~closed[att[d]]
    /\ \A t \in Threads : pc[t] = "close" => held[t] # att[d]

\* A diagram that says "connecting" has a current attempt that will decide it.
ConnectingIsWorked ==
  \A d \in Diagrams : status[d] = "connecting" =>
    \E t \in Threads : /\ t[1] = d /\ Current(t) /\ pc[t] \in Active
                       /\ pc[t] \in Releasing => then[t] # "done"

\* An attempt the user has cancelled changes nothing on the diagram.
StaleAttemptIsSilent ==
  [][\A t \in Threads :
       pc[t] \in Active /\ pc'[t] # pc[t] /\ ~Current(t)
         => UNCHANGED <<att[t[1]], status[t[1]]>>]_vars

\* Every attempt decides: "connecting" does not last.
ConnectingEnds ==
  \A d \in Diagrams : status[d] = "connecting" ~> status[d] # "connecting"

\* A link nobody owns any more gets closed, and its owners' slot is given back.
ReleasedIsClosed ==
  \A l \in Links : conn[l] # "off" /\ owners[l] = {} ~> closed[l]

\* What the pool hands out lives: it is open, nobody is closing it, and someone
\* owns its slot of the ceiling.
PooledIsLive == NeverJoinClosing /\ PooledIsOwned
=============================================================================
