----------------------------- MODULE UpdateCheck ----------------------------
(***************************************************************************)
(* The home page's question "is there a new version?", answered from one   *)
(* cache per process (src/src/pacct/web/update_check.py, behind GET        *)
(* /update-check).  Every tab asks in a thread of its own; the lock is held *)
(* over the whole question, so the others wait for its answer.             *)
(***************************************************************************)
EXTENDS Versions

CONSTANTS
    Tabs,          \* requests of the home page
    OnDisk,        \* versions VERSION may name: an update in place changes it
    Offers,        \* what the channel may publish
    OkTtl, FailTtl,
    LastHour,      \* bound of the clock
    NoTab

ASSUME UpdateCheckAssumption ==
    /\ FailTtl \in Nat \ {0} /\ OkTtl \in Nat /\ FailTtl <= OkTtl
    /\ LastHour \in Nat
    /\ NoTab \notin Tabs

VARIABLES
    hour,       \* time.monotonic()
    cached,     \* the answer, and the moment it is dated to
    asker,      \* who holds the lock
    tab,        \* where each request is
    moment,     \* the clock when each request arrived
    served,     \* what each request was told
    questions   \* history: the moments the remembered answers are dated to

checkVars == <<hour, cached, asker, tab, moment, served, questions>>

Hours == 0 .. LastHour
Answer(k, v) == [kind |-> k, latest |-> v]
NoAnswerYet == [kind |-> "nothing", latest |-> UnknownVersion]
Kinds == {"nothing", "error", "available", "blocked", "current"}
Answers == [kind : Kinds, latest : Offers \cup {UnknownVersion}]

CheckInit ==
    /\ hour = 0
    /\ cached = [answer |-> NoAnswerYet, at |-> 0]
    /\ asker = NoTab
    /\ tab = [t \in Tabs |-> "away"]
    /\ moment = [t \in Tabs |-> 0]
    /\ served = [t \in Tabs |-> [answer |-> NoAnswerYet, at |-> 0]]
    /\ questions = {}

Ttl(answer) == IF answer.kind = "error" THEN FailTtl ELSE OkTtl

\* moment - cached_at may be negative: this request waited for the lock.
Fresh(t) ==
    /\ cached.answer # NoAnswerYet
    /\ moment[t] < cached.at + Ttl(cached.answer)

Tick ==
    /\ hour < LastHour
    /\ hour' = hour + 1
    /\ UNCHANGED <<cached, asker, tab, moment, served, questions>>

Arrive(t) ==
    /\ tab[t] = "away"
    /\ tab' = [tab EXCEPT ![t] = "waiting"]
    /\ moment' = [moment EXCEPT ![t] = hour]
    /\ UNCHANGED <<hour, cached, asker, served, questions>>

FromCache(t) ==
    /\ tab[t] = "waiting" /\ asker = NoTab /\ Fresh(t)
    /\ served' = [served EXCEPT ![t] = cached]
    /\ tab' = [tab EXCEPT ![t] = "answered"]
    /\ UNCHANGED <<hour, cached, asker, moment, questions>>

\* Mutant: Whoever waited for the lock asks again.
AskAfterWaiting(t) ==
    /\ tab[t] = "waiting" /\ asker = NoTab
    /\ asker' = t
    /\ tab' = [tab EXCEPT ![t] = "asking"]
    /\ UNCHANGED <<hour, cached, moment, served, questions>>

AskGitHub(t) ==
    /\ tab[t] = "waiting" /\ asker = NoTab /\ ~Fresh(t)
    /\ asker' = t
    /\ tab' = [tab EXCEPT ![t] = "asking"]
    /\ UNCHANGED <<hour, cached, moment, served, questions>>

\* _ask: a release this machine cannot take is said to be blocked only if it
\* is newer.
Told(release, running) ==
    Answer(IF UpdateAvailable(release, running) THEN "available"
           ELSE IF IsNewer(release, running) THEN "blocked" ELSE "current",
           release)

Remember(t, answer) ==
    /\ cached' = [answer |-> answer, at |-> moment[t]]
    /\ served' = [served EXCEPT ![t] = cached']
    /\ questions' = questions \cup {moment[t]}

GitHubAnswers(t) ==
    /\ asker = t
    /\ \E release \in Offers, running \in OnDisk :
          Remember(t, Told(release, running))
    /\ asker' = NoTab
    /\ tab' = [tab EXCEPT ![t] = "answered"]
    /\ UNCHANGED <<hour, moment>>

\* An UpdateError becomes text, and the text is remembered like an answer.
GitHubFails(t) ==
    /\ asker = t
    /\ Remember(t, Answer("error", UnknownVersion))
    /\ asker' = NoTab
    /\ tab' = [tab EXCEPT ![t] = "answered"]
    /\ UNCHANGED <<hour, moment>>

\* Any other exception (a reply cut short or that is not HTTP, a manifest
\* whose numbers are not numbers) passes through _ask and status: the lock is
\* left, nothing is remembered and the tab gets no answer.  Whoever waits asks
\* GitHub again.
GitHubEscapes(t) ==
    /\ asker = t
    /\ asker' = NoTab
    /\ tab' = [tab EXCEPT ![t] = "dropped"]
    /\ UNCHANGED <<hour, cached, moment, served, questions>>

\* The tab is loaded again later.
Leave(t) ==
    /\ tab[t] \in {"answered", "dropped"}
    /\ tab' = [tab EXCEPT ![t] = "away"]
    /\ UNCHANGED <<hour, cached, asker, moment, served, questions>>

CheckNext ==
    \/ Tick
    \/ \E t \in Tabs :
          \/ Arrive(t) \/ FromCache(t) \/ AskGitHub(t)
          \/ GitHubAnswers(t) \/ GitHubFails(t) \/ GitHubEscapes(t)
          \/ Leave(t)

CheckSpec == CheckInit /\ [][CheckNext]_checkVars

-----------------------------------------------------------------------------
CheckTypeOK ==
    /\ hour \in Hours
    /\ cached \in [answer : Answers, at : Hours]
    /\ asker \in Tabs \cup {NoTab}
    /\ tab \in [Tabs -> {"away", "waiting", "asking", "answered", "dropped"}]
    /\ moment \in [Tabs -> Hours]
    /\ served \in [Tabs -> [answer : Answers, at : Hours]]
    /\ questions \in SUBSET Hours

\* However many tabs load at once, and wherever they waited, two questions
\* that ended in something the process remembers (an answer, or the text of an
\* UpdateError) are at least the shorter deadline apart: a substation without
\* a route to GitHub does not ask once per tab.  A question that ends in
\* another exception is remembered by nobody and is outside this claim.
NoStampede ==
    \A a, b \in questions : a < b => b >= a + FailTtl

\* What a tab is shown was a fresh answer when that tab arrived, and it is
\* never dated later than what the process remembers.
ServedIsFresh ==
    \A t \in Tabs : tab[t] = "answered" =>
        /\ served[t].answer # NoAnswerYet
        /\ moment[t] < served[t].at + (IF served[t].answer.kind = "error"
                                      THEN FailTtl ELSE OkTtl)
        /\ served[t].at <= cached.at

\* Tabs share what one remembered question brought, and are shown it only
\* while it is fresh (the lock and the two deadlines of status()).
QuestionsAreFew == NoStampede /\ ServedIsFresh
=============================================================================
