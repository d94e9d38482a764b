------------------------------ MODULE Sessions ------------------------------
(***************************************************************************)
(* Visitors, their sessions and the dispatcher in front of the tools:      *)
(* session.SessionManager with mount.Dispatcher, the sweeper thread, the   *)
(* end of the process and the next start.                                  *)
(*                                                                         *)
(* A request is a thread of the server.  It gets its session once, when    *)
(* the dispatcher resolves the cookie, and holds that OBJECT until its     *)
(* answer, whatever the sweeper does meanwhile; the clock is time.time(),  *)
(* which also runs on while the computer sleeps with requests in flight.   *)
(* Reading the clock and taking the lock are one step of resolve: the lock *)
(* is held for operations on a dictionary, never for as long as a tick.    *)
(***************************************************************************)
EXTENDS Naturals, FiniteSets

CONSTANTS
    Browsers,   \* cookie jars: one visitor each
    Requests,   \* request threads
    Sids,       \* ids secrets.token_urlsafe() can still draw
    Stale,      \* an id of a session of an earlier run
    NoSid,      \* no cookie, or one that _parse_sid() refuses
    Ttl,        \* DEFAULT_TTL_SECONDS
    MaxClock    \* bound of the clock; nobody asks within Ttl of it

ASSUME SessionsAssumption ==
    /\ Ttl \in Nat \ {0} /\ MaxClock \in Nat
    /\ Stale \notin Sids /\ NoSid \notin Sids \cup {Stale}

VARIABLES
    up,         \* "down", "serving" or "stopping" (shutdown() has run)
    now,        \* time.time()
    live,       \* _sessions
    lastSeen,   \* Session.last_seen
    minted,     \* every id handed out so far
    jar,        \* the selsid cookie each browser holds
    req,        \* the request threads
    tool,       \* tool state of each Session object: "none", "open", "closed"
    dirs,       \* session directories on disk
    sweeper,    \* the sweeper thread
    heard,      \* history: when a session was last asked for
    outlived    \* history: expired under a request, or their on_expire raised

sessionVars == <<up, now, live, lastSeen, minted, jar, req, tool, dirs,
                 sweeper, heard, outlived>>

AnySid == Sids \cup {Stale, NoSid}
Free == [at |-> "free", by |-> NoSid, shown |-> NoSid, sess |-> NoSid,
         mint |-> FALSE]
Asleep == [at |-> "asleep", cutoff |-> 0, batch |-> {}]

\* Sessions that some request thread holds.
Held == {req[r].sess : r \in Requests}

SessionsInit ==
    /\ up = "down" /\ now = Ttl
    /\ live = {} /\ minted = {}
    /\ lastSeen = [s \in Sids |-> 0] /\ heard = lastSeen
    /\ jar \in [Browsers -> {Stale, NoSid}]
    /\ req = [r \in Requests |-> Free]
    /\ tool = [s \in Sids |-> "none"]
    /\ dirs \in SUBSET {Stale}
    /\ sweeper = Asleep /\ outlived = {}

----------------------------------------------------------------------------
(* The dispatcher. *)

\* A browser asks for a tool's page, for GET /library, or for a plain route:
\* /progress, /theme, /theme.css and /static/ are answered without a look at
\* any session.
Routes == {"tool", "library", "plain"}
Ask(r, b, route) ==
    /\ up = "serving" /\ req[r].at = "free" /\ now + Ttl < MaxClock
    /\ req' = [req EXCEPT ![r] =
                 [at |-> IF route = "plain" THEN "answer" ELSE route, by |-> b, shown |-> jar[b],
                  sess |-> NoSid, mint |-> FALSE]]
    /\ UNCHANGED <<up, now, live, lastSeen, minted, jar, tool, dirs, sweeper,
                   heard, outlived>>

Touch(s) ==
    /\ lastSeen' = [lastSeen EXCEPT ![s] = now]
    /\ heard' = [heard EXCEPT ![s] = now]

\* SessionManager.peek, for the library alone: finds, bumps, never creates.
Peek(r) ==
    /\ req[r].at = "library"
    /\ \/ /\ req[r].shown \in live
          /\ Touch(req[r].shown)
          /\ req' = [req EXCEPT ![r].at = "answer", ![r].sess = req[r].shown]
       \/ /\ req[r].shown \notin live
          /\ req' = [req EXCEPT ![r].at = "answer"]
          /\ UNCHANGED <<lastSeen, heard>>
    /\ UNCHANGED <<up, now, live, minted, jar, tool, dirs, sweeper, outlived>>

\* SessionManager.resolve, a cookie it knows.
Recognise(r) ==
    /\ req[r].at = "tool" /\ req[r].shown \in live
    /\ Touch(req[r].shown)
    /\ req' = [req EXCEPT ![r].at = "in", ![r].sess = req[r].shown]
    /\ UNCHANGED <<up, now, live, minted, jar, tool, dirs, sweeper, outlived>>

\* resolve, none, an illegible or an unknown one: a new id, never the client's.
MintAs(r, s) ==
    /\ minted' = minted \cup {s} /\ live' = live \cup {s}
    /\ Touch(s)
    /\ tool' = [tool EXCEPT ![s] = "none"]
    /\ req' = [req EXCEPT ![r].at = "in", ![r].sess = s, ![r].mint = TRUE]
    /\ UNCHANGED <<up, now, jar, dirs, sweeper, outlived>>

\* Mutant: ids come from a counter, which may give out one that has expired.
MintAgain(r) ==
    /\ req[r].at = "tool" /\ req[r].shown \notin live
    /\ \E s \in Sids \ live : MintAs(r, s)

Mint(r) ==
    /\ req[r].at = "tool" /\ req[r].shown \notin live
    /\ \E s \in Sids \ minted : MintAs(r, s)

\* The tool's handler: sess() builds its state in the session it holds, sdir() the directory.
Work(r) ==
    /\ req[r].at = "in"
    /\ tool' = [tool EXCEPT ![req[r].sess] = "open"]
    /\ dirs' = dirs \cup {req[r].sess}
    /\ UNCHANGED <<up, now, live, lastSeen, minted, jar, req, sweeper, heard,
                   outlived>>

\* The answer; end_headers() sends Set-Cookie once, and the browser may be gone.
Answer(r) ==
    /\ req[r].at \in {"in", "answer"}
    /\ req' = [req EXCEPT ![r] = Free]
    /\ jar' \in {jar} \cup
        {[jar EXCEPT ![b] = req[r].sess] : b \in {req[r].by} \cap
            (IF req[r].mint THEN Browsers ELSE {})}
    /\ UNCHANGED <<up, now, live, lastSeen, minted, tool, dirs, sweeper, heard,
                   outlived>>

----------------------------------------------------------------------------
(* The sweeper thread: sweep() every quarter of an hour. *)

\* A request is resolved at once; in a tool it may take any time.
Tick ==
    /\ now < MaxClock /\ now' = now + 1
    /\ \A r \in Requests :
        req[r].at \in {"tool", "library"} => now + 1 + Ttl < MaxClock
    /\ UNCHANGED <<up, live, lastSeen, minted, jar, req, tool, dirs, sweeper,
                   heard, outlived>>

\* Mutant: the first cutoff of a young clock runs below zero.
WakeEarly ==
    /\ up = "serving" /\ sweeper.at = "asleep"
    /\ sweeper' = [at |-> "cutoff", cutoff |-> now - Ttl - 1, batch |-> {}]
    /\ UNCHANGED <<up, now, live, lastSeen, minted, jar, req, tool, dirs,
                   heard, outlived>>

\* The cutoff is computed before the lock is taken.
Wake ==
    /\ up = "serving" /\ sweeper.at = "asleep"
    /\ sweeper' = [at |-> "cutoff", cutoff |-> now - Ttl, batch |-> {}]
    /\ UNCHANGED <<up, now, live, lastSeen, minted, jar, req, tool, dirs,
                   heard, outlived>>

\* Under the lock: every idle session leaves.
Collect ==
    /\ sweeper.at = "cutoff"
    /\ LET idle == {s \in live : lastSeen[s] < sweeper.cutoff}
       IN  /\ live' = live \ idle
           /\ sweeper' = [sweeper EXCEPT !.at = "expire", !.batch = idle]
           /\ outlived' = outlived \cup (idle \cap Held)
    /\ UNCHANGED <<up, now, lastSeen, minted, jar, req, tool, dirs, heard>>

\* Mutant: the directory goes and the diagrams stay.
ExpireDirOnly(s) ==
    /\ sweeper.at = "expire" /\ s \in sweeper.batch
    /\ sweeper' = [sweeper EXCEPT !.at = "discard", !.batch = @ \ {s}]
    /\ dirs' \in {dirs, dirs \ {s}}
    /\ UNCHANGED <<up, now, live, lastSeen, minted, jar, req, tool, heard, outlived>>

\* on_expire: the GLV closes that session's diagrams; an exception is logged.
Expire(s) ==
    /\ sweeper.at = "expire" /\ s \in sweeper.batch
    /\ \/ /\ tool' = [tool EXCEPT ![s] = IF @ = "open" THEN "closed" ELSE @]
          /\ UNCHANGED outlived
       \/ /\ tool[s] = "open"
          /\ outlived' = outlived \cup {s}
          /\ UNCHANGED tool
    /\ sweeper' = [sweeper EXCEPT !.at = "discard", !.batch = @ \ {s}]
    \* _discard_dir: rmtree, or an OSError that is logged.
    /\ dirs' \in {dirs, dirs \ {s}}
    /\ UNCHANGED <<up, now, live, lastSeen, minted, jar, req, heard>>

\* Mutant: an exception of on_expire ends the thread.
ProceedOrDie ==
    /\ \/ /\ sweeper.at = "discard" /\ outlived = {}
          /\ sweeper' = [sweeper EXCEPT !.at = "expire"]
       \/ /\ sweeper.at = "expire" /\ sweeper.batch = {}
          /\ sweeper' = Asleep
    /\ UNCHANGED <<up, now, live, lastSeen, minted, jar, req, tool, dirs,
                   heard, outlived>>

\* The next one of the batch, or sleep again.
Proceed ==
    /\ \/ /\ sweeper.at = "discard"
          /\ sweeper' = [sweeper EXCEPT !.at = "expire"]
       \/ /\ sweeper.at = "expire" /\ sweeper.batch = {}
          /\ sweeper' = Asleep
    /\ UNCHANGED <<up, now, live, lastSeen, minted, jar, req, tool, dirs,
                   heard, outlived>>

----------------------------------------------------------------------------
(* The process. *)

\* Start-up: purge_root() empties the sessions' directory, or the OS refuses some.
Start ==
    /\ up = "down"
    /\ dirs' \in SUBSET dirs
    /\ up' = "serving"
    /\ UNCHANGED <<now, live, lastSeen, minted, jar, req, tool, sweeper, heard,
                   outlived>>

\* shutdown(): every session is forgotten and its directory deleted, on_expire is
\* not called.  A sweep in progress runs on to its end, and no other begins.
Shutdown ==
    /\ up = "serving"
    /\ up' = "stopping"
    /\ live' = {}
    /\ dirs' \in {dirs \ live, dirs}
    /\ UNCHANGED <<now, lastSeen, minted, jar, req, tool, sweeper, heard, outlived>>

\* The process ends, after shutdown() or without it (kill -9, a power cut).
Die ==
    /\ up # "down" /\ up' = "down"
    /\ live' = {} /\ sweeper' = Asleep
    /\ req' = [r \in Requests |-> Free]
    /\ tool' = [s \in Sids |-> "none"]
    /\ outlived' = {}
    /\ UNCHANGED <<now, lastSeen, minted, jar, dirs, heard>>

\* The sweeper's thread.
Sweep == Wake \/ Collect \/ Proceed \/ \E s \in Sids : Expire(s)

SessionsNext ==
    \/ \E r \in Requests :
        \/ \E b \in Browsers, route \in Routes : Ask(r, b, route)
        \/ Peek(r) \/ Recognise(r) \/ Mint(r) \/ Work(r) \/ Answer(r)
    \/ Tick \/ Sweep
    \/ Start \/ Shutdown \/ Die

SessionsSpec == SessionsInit /\ [][SessionsNext]_sessionVars

\* The clock runs, and a waiting or sweeping thread is scheduled.
SessionsFairness == WF_sessionVars(Tick) /\ WF_sessionVars(Sweep)

----------------------------------------------------------------------------
(* Properties. *)

\* Every variable keeps to its values.
SessionsTypeOK ==
    /\ up \in {"down", "serving", "stopping"}
    /\ now \in Nat
    /\ live \subseteq minted /\ minted \subseteq Sids
    /\ lastSeen \in [Sids -> Nat] /\ heard \in [Sids -> Nat]
    /\ jar \in [Browsers -> AnySid]
    /\ req \in [Requests -> [at : {"free", "tool", "library", "in", "answer"},
                             by : Browsers \cup {NoSid}, shown : AnySid,
                             sess : Sids \cup {NoSid}, mint : BOOLEAN]]
    /\ tool \in [Sids -> {"none", "open", "closed"}]
    /\ dirs \subseteq Sids \cup {Stale}
    /\ sweeper \in [at : {"asleep", "cutoff", "expire", "discard"},
                    cutoff : Nat, batch : SUBSET Sids]
    /\ outlived \subseteq Sids

(***************************************************************************)
(* Two visitors never end up in one session, even when they present the    *)
(* same old cookie to a server that has restarted: resolve() draws an id   *)
(* and never adopts the client's (session.py:138-141).                     *)
(***************************************************************************)
OneVisitorPerSession ==
    \A b, c \in Browsers : jar[b] = jar[c] /\ jar[b] \in live => b = c

(***************************************************************************)
(* A visitor whose tools or whose library were asked for within the TTL is *)
(* not expired: the sweeper computes its cutoff before it takes the lock,  *)
(* and a request may slip in between.  Only those two routes are heard: a  *)
(* page that does nothing but poll /progress loses its session under it    *)
(* (mount.py:322-345).                                                     *)
(***************************************************************************)
OnlyIdleExpires ==
    [][\A s \in live \ live' : up' = "serving" => now - heard[s] > Ttl]_sessionVars

(***************************************************************************)
(* Once the sweeper is done with a session, its diagrams are closed,       *)
(* unless a request still held the session when it expired (and opens them *)
(* again in an object nobody will sweep) or the closing raised.            *)
(***************************************************************************)
ExpiredIsReleased ==
    up = "serving" =>
        \A s \in minted \ (live \cup sweeper.batch \cup outlived) :
            tool[s] # "open"

(***************************************************************************)
(* What a live session has written stays: its directory is only deleted    *)
(* after the session has left, by a sweep that is slow to finish or a      *)
(* start-up purge, and no later session gets the same directory.           *)
(***************************************************************************)
LiveKeepsItsFiles ==
    \A s \in live : tool[s] = "open" => s \in dirs

(***************************************************************************)
(* Sessions nobody comes back to are swept in the end, whatever on_expire  *)
(* or rmtree raised for the ones before it: the sweeper thread survives.   *)
(***************************************************************************)
AbandonedIsSwept ==
    <>[](up = "serving" /\ \A r \in Requests : req[r] = Free)
        => <>[](live = {})

\* Sessions are apart: one visitor each, and a directory of their own.
SessionsAreApart == OneVisitorPerSession /\ LiveKeepsItsFiles

\* The sweep takes what is idle, only that, and in the end all of it.
SweepsTheIdle == OnlyIdleExpires /\ AbandonedIsSwept
=============================================================================
