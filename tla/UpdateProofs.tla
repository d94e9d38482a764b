---------------------------- MODULE UpdateProofs ----------------------------
(***************************************************************************)
(* What is proved about self-update, for any bundles, any versions, any    *)
(* number of tabs and any deadlines: the question of the home page, the    *)
(* versioned install, the portable folder, and the three put together.     *)
(***************************************************************************)
EXTENDS MCSelfUpdate, FiniteSetTheorems, WellFoundedInduction, TLAPS

-----------------------------------------------------------------------------
(* The home's question (UpdateCheck).                                      *)

LEMMA CheckInitTyped == CheckInit => CheckTypeOK
<1>1. 0 \in Hours
  BY UpdateCheckAssumption DEF Hours
<1>2. [answer |-> NoAnswerYet, at |-> 0] \in [answer : Answers, at : Hours]
  BY <1>1 DEF Answers, NoAnswerYet, Kinds
<1> QED
  BY <1>1, <1>2 DEF CheckInit, CheckTypeOK

\* What GitHub answers, or why it could not be asked, is an answer.
LEMMA ToldIsAnswer ==
    /\ \A release \in Offers, running \in OnDisk : Told(release, running) \in Answers
    /\ Answer("error", UnknownVersion) \in Answers
BY DEF Told, Answer, Answers, Kinds

LEMMA RememberTyped ==
    ASSUME CheckTypeOK, NEW t \in Tabs, NEW answer \in Answers, Remember(t, answer)
    PROVE  /\ cached' \in [answer : Answers, at : Hours]
           /\ served' \in [Tabs -> [answer : Answers, at : Hours]]
           /\ questions' \in SUBSET Hours
<1>1. moment[t] \in Hours
  BY DEF CheckTypeOK
<1>2. cached' \in [answer : Answers, at : Hours]
  BY <1>1 DEF Remember
<1> QED
  BY <1>1, <1>2 DEF Remember, CheckTypeOK

LEMMA CheckStepTyped == CheckTypeOK /\ [CheckNext]_checkVars => CheckTypeOK'
<1> SUFFICES ASSUME CheckTypeOK, [CheckNext]_checkVars PROVE CheckTypeOK'
  OBVIOUS
<1>1. CASE Tick
  BY <1>1, UpdateCheckAssumption DEF Tick, CheckTypeOK, Hours
<1>2. ASSUME NEW t \in Tabs, Arrive(t) PROVE CheckTypeOK'
  BY <1>2 DEF Arrive, CheckTypeOK
<1>3. ASSUME NEW t \in Tabs, FromCache(t) PROVE CheckTypeOK'
  BY <1>3 DEF FromCache, CheckTypeOK
<1>4. ASSUME NEW t \in Tabs, AskGitHub(t) PROVE CheckTypeOK'
  BY <1>4 DEF AskGitHub, CheckTypeOK
<1>5. ASSUME NEW t \in Tabs, GitHubAnswers(t) PROVE CheckTypeOK'
  <2>1. PICK release \in Offers, running \in OnDisk :
           Remember(t, Told(release, running))
    BY <1>5 DEF GitHubAnswers
  <2>2. /\ cached' \in [answer : Answers, at : Hours]
        /\ served' \in [Tabs -> [answer : Answers, at : Hours]]
        /\ questions' \in SUBSET Hours
    BY <2>1, ToldIsAnswer, RememberTyped
  <2> QED
    BY <1>5, <2>2 DEF GitHubAnswers, CheckTypeOK
<1>6. ASSUME NEW t \in Tabs, GitHubFails(t) PROVE CheckTypeOK'
  <2>1. /\ cached' \in [answer : Answers, at : Hours]
        /\ served' \in [Tabs -> [answer : Answers, at : Hours]]
        /\ questions' \in SUBSET Hours
    BY <1>6, ToldIsAnswer, RememberTyped DEF GitHubFails
  <2> QED
    BY <1>6, <2>1 DEF GitHubFails, CheckTypeOK
<1>7. ASSUME NEW t \in Tabs, Leave(t) PROVE CheckTypeOK'
  BY <1>7 DEF Leave, CheckTypeOK
<1>8. CASE UNCHANGED checkVars
  BY <1>8 DEF checkVars, CheckTypeOK
<1>9. ASSUME NEW t \in Tabs, GitHubEscapes(t) PROVE CheckTypeOK'
  BY <1>9 DEF GitHubEscapes, CheckTypeOK
<1> QED
  BY <1>1, <1>2, <1>3, <1>4, <1>5, <1>6, <1>7, <1>8, <1>9 DEF CheckNext

\* The last answer is dated to the last question ...
LastIsCached ==
    /\ cached.answer = NoAnswerYet => questions = {}
    /\ \A m \in questions : m <= cached.at

\* ... whoever holds the lock found it out of date ...
AskerFoundItOld ==
    \A t \in Tabs : asker = t =>
        /\ tab[t] = "asking"
        /\ cached.answer # NoAnswerYet =>
              moment[t] >= cached.at + Ttl(cached.answer)

\* ... and nobody is answered before there is an answer.
AnsweredFromCache ==
    \A t \in Tabs : tab[t] = "answered" => cached.answer # NoAnswerYet

CheckInv ==
    /\ NoStampede /\ ServedIsFresh
    /\ LastIsCached /\ AskerFoundItOld /\ AnsweredFromCache

LEMMA TtlBounds ==
    ASSUME NEW answer PROVE Ttl(answer) \in Nat /\ Ttl(answer) >= FailTtl /\ FailTtl > 0
BY UpdateCheckAssumption DEF Ttl

\* The step that ends a question, whatever the answer is.
LEMMA RememberKeeps ==
    ASSUME CheckTypeOK, CheckInv, NEW t \in Tabs, NEW answer \in Answers,
           answer # NoAnswerYet, asker = t, Remember(t, answer),
           asker' = NoTab, tab' = [tab EXCEPT ![t] = "answered"],
           UNCHANGED <<hour, moment>>
    PROVE  CheckInv'
<1>1. /\ cached.at \in Nat /\ moment \in [Tabs -> Nat] /\ questions \subseteq Nat
      /\ \A u \in Tabs : served[u].at \in Nat
      /\ served \in [Tabs -> [answer : Answers, at : Hours]]
      /\ tab \in [Tabs -> {"away", "waiting", "asking", "answered", "dropped"}]
  BY DEF CheckTypeOK, Hours
<1>2. /\ cached'.answer = answer /\ cached'.at = moment[t]
      /\ questions' = questions \cup {moment[t]}
      /\ served'[t] = cached' /\ \A u \in Tabs \ {t} : served'[u] = served[u]
      /\ tab'[t] = "answered" /\ \A u \in Tabs \ {t} : tab'[u] = tab[u]
      /\ moment' = moment
  BY <1>1 DEF Remember
<1>3. cached.answer # NoAnswerYet => moment[t] >= cached.at + FailTtl
  <2>1. Ttl(cached.answer) \in Nat /\ Ttl(cached.answer) >= FailTtl
    BY TtlBounds
  <2> QED
    BY <1>1, <2>1, UpdateCheckAssumption DEF CheckInv, AskerFoundItOld
<1>4. \A m \in questions : moment[t] >= m + FailTtl
  BY <1>1, <1>3, UpdateCheckAssumption DEF CheckInv, LastIsCached
<1>5. NoStampede'
  <2> SUFFICES ASSUME NEW a \in questions', NEW b \in questions', a < b
               PROVE  b >= a + FailTtl
    BY DEF NoStampede
  <2>5. moment[t] \in Nat /\ FailTtl \in Nat
    BY <1>1, UpdateCheckAssumption
  <2>1. a \in Nat /\ b \in Nat
    BY <1>1, <1>2, <2>5
  <2>2. CASE a \in questions /\ b \in questions
    BY <2>2 DEF CheckInv, NoStampede
  <2>3. CASE a \in questions /\ b = moment[t]
    BY <2>3, <1>4
  <2>4. CASE a = moment[t]
    BY <2>1, <2>4, <2>5, <1>2, <1>4
  <2> QED
    BY <1>2, <2>2, <2>3, <2>4
<1>6. LastIsCached'
  BY <1>1, <1>2, <1>4, UpdateCheckAssumption DEF LastIsCached
<1>7. AskerFoundItOld' /\ AnsweredFromCache'
  BY <1>2, UpdateCheckAssumption DEF AskerFoundItOld, AnsweredFromCache
<1>8. ServedIsFresh'
  <2> SUFFICES ASSUME NEW u \in Tabs, tab'[u] = "answered"
               PROVE  /\ served'[u].answer # NoAnswerYet
                      /\ moment'[u] < served'[u].at +
                            (IF served'[u].answer.kind = "error" THEN FailTtl ELSE OkTtl)
                      /\ served'[u].at <= cached'.at
    BY DEF ServedIsFresh
  <2>1. CASE u = t
    BY <2>1, <1>1, <1>2, UpdateCheckAssumption
  <2>2. CASE u # t
    <3>1. tab[u] = "answered" /\ served'[u] = served[u]
      BY <2>2, <1>2
    <3>2. cached.at <= moment[t]
      BY <1>1, <1>3, <3>1, UpdateCheckAssumption DEF CheckInv, AnsweredFromCache
    <3> QED
      BY <1>1, <1>2, <3>1, <3>2 DEF CheckInv, ServedIsFresh
  <2> QED
    BY <2>1, <2>2
<1> QED
  BY <1>5, <1>6, <1>7, <1>8 DEF CheckInv

LEMMA CheckStepKeeps ==
    CheckTypeOK /\ CheckInv /\ [CheckNext]_checkVars => CheckInv'
<1> SUFFICES ASSUME CheckTypeOK, CheckInv, [CheckNext]_checkVars PROVE CheckInv'
  OBVIOUS
<1>1. CASE Tick \/ UNCHANGED checkVars
  BY <1>1 DEF Tick, checkVars, CheckInv, NoStampede, ServedIsFresh, LastIsCached,
      AskerFoundItOld, AnsweredFromCache
<1>2. ASSUME NEW t \in Tabs, Arrive(t) PROVE CheckInv'
  <2>1. \A u \in Tabs : u # t => tab'[u] = tab[u] /\ moment'[u] = moment[u]
    BY <1>2 DEF Arrive
  <2>2. tab[t] = "away" /\ tab'[t] = "waiting"
    BY <1>2 DEF Arrive, CheckTypeOK
  <2> QED
    BY <1>2, <2>1, <2>2 DEF Arrive, CheckInv, NoStampede, ServedIsFresh,
        LastIsCached, AskerFoundItOld, AnsweredFromCache
<1>3. ASSUME NEW t \in Tabs, FromCache(t) PROVE CheckInv'
  <2>1. \A u \in Tabs : u # t => tab'[u] = tab[u] /\ served'[u] = served[u]
    BY <1>3 DEF FromCache
  <2>2. tab'[t] = "answered" /\ served'[t] = cached /\ asker = NoTab
    BY <1>3 DEF FromCache, CheckTypeOK
  <2>3. cached.at \in Nat
    BY DEF CheckTypeOK, Hours
  <2>4. ServedIsFresh'
    BY <1>3, <2>1, <2>2, <2>3 DEF FromCache, Fresh, CheckInv, ServedIsFresh, Ttl
  <2> QED
    BY <1>3, <2>1, <2>2, <2>4 DEF FromCache, Fresh, CheckInv, NoStampede,
        LastIsCached, AskerFoundItOld, AnsweredFromCache
<1>4. ASSUME NEW t \in Tabs, AskGitHub(t) PROVE CheckInv'
  <2>1. \A u \in Tabs : u # t => tab'[u] = tab[u]
    BY <1>4 DEF AskGitHub
  <2>2. tab'[t] = "asking" /\ asker' = t
    BY <1>4 DEF AskGitHub, CheckTypeOK
  <2>3. moment[t] \in Nat /\ cached.at \in Nat /\ Ttl(cached.answer) \in Nat
    BY TtlBounds DEF CheckTypeOK, Hours
  <2>4. AskerFoundItOld'
    BY <1>4, <2>2, <2>3 DEF AskGitHub, Fresh, AskerFoundItOld
  <2> QED
    BY <1>4, <2>1, <2>2, <2>4 DEF AskGitHub, CheckInv, NoStampede, ServedIsFresh,
        LastIsCached, AnsweredFromCache
<1>5. ASSUME NEW t \in Tabs, GitHubAnswers(t) PROVE CheckInv'
  <2>1. PICK release \in Offers, running \in OnDisk :
           Remember(t, Told(release, running))
    BY <1>5 DEF GitHubAnswers
  <2>2. Told(release, running) \in Answers /\ Told(release, running) # NoAnswerYet
    BY ToldIsAnswer DEF Told, Answer, NoAnswerYet
  <2> QED
    BY <1>5, <2>1, <2>2, RememberKeeps DEF GitHubAnswers
<1>6. ASSUME NEW t \in Tabs, GitHubFails(t) PROVE CheckInv'
  <2>1. /\ Answer("error", UnknownVersion) \in Answers
        /\ Answer("error", UnknownVersion) # NoAnswerYet
    BY ToldIsAnswer DEF Answer, NoAnswerYet
  <2> QED
    BY <1>6, <2>1, RememberKeeps DEF GitHubFails
<1>7. ASSUME NEW t \in Tabs, Leave(t) PROVE CheckInv'
  <2>1. \A u \in Tabs : u # t => tab'[u] = tab[u]
    BY <1>7 DEF Leave
  <2>2. tab'[t] = "away"
    BY <1>7 DEF Leave, CheckTypeOK
  <2> QED
    BY <1>7, <2>1, <2>2 DEF Leave, CheckInv, NoStampede, ServedIsFresh,
        LastIsCached, AskerFoundItOld, AnsweredFromCache
<1>8. ASSUME NEW t \in Tabs, GitHubEscapes(t) PROVE CheckInv'
  <2>1. \A u \in Tabs : u # t => tab'[u] = tab[u]
    BY <1>8 DEF GitHubEscapes
  <2>2. tab'[t] = "dropped"
    BY <1>8 DEF GitHubEscapes, CheckTypeOK
  <2> QED
    BY <1>8, <2>1, <2>2, UpdateCheckAssumption DEF GitHubEscapes, CheckInv,
        NoStampede, ServedIsFresh, LastIsCached, AskerFoundItOld, AnsweredFromCache
<1> QED
  BY <1>1, <1>2, <1>3, <1>4, <1>5, <1>6, <1>7, <1>8 DEF CheckNext

LEMMA CheckInitKeeps == CheckInit => CheckInv
BY UpdateCheckAssumption DEF CheckInit, CheckInv, NoStampede, ServedIsFresh,
    LastIsCached, AskerFoundItOld, AnsweredFromCache

LEMMA CheckInvariant == CheckSpec => [](CheckTypeOK /\ CheckInv)
<1>1. CheckInit => CheckTypeOK /\ CheckInv
  BY CheckInitTyped, CheckInitKeeps
<1>2. CheckTypeOK /\ CheckInv /\ [CheckNext]_checkVars => (CheckTypeOK /\ CheckInv)'
  BY CheckStepTyped, CheckStepKeeps
<1> QED
  BY <1>1, <1>2, PTL DEF CheckSpec

(***************************************************************************)
(* Tabs share what a question brought, be it an answer or the text of an   *)
(* UpdateError, and are shown it only while it is fresh, however many tabs *)
(* there are and whatever the two deadlines: the lock is held over the     *)
(* question, and who asks next found what the last one brought out of      *)
(* date.  Questions that end in another exception leave nothing to share   *)
(* and are not counted (src/src/pacct/web/update_check.py, status).        *)
(***************************************************************************)
THEOREM CheckIsFrugal == CheckSpec => []QuestionsAreFew
<1>1. CheckInv => QuestionsAreFew
  BY DEF CheckInv, QuestionsAreFew
<1> QED
  BY <1>1, CheckInvariant, PTL

-----------------------------------------------------------------------------
(* The versioned install (VersionedUpdate).                                *)

\* Each command's step, by name, as the lemmas below go through them.
Steps ==
    \/ \E v \in Available : Unzip(v)
    \/ \E cmd \in Orders, r \in Available \cup {Outside}, v \in Available :
          Run(cmd, r, v)
    \/ Boot \/ DepsReady \/ DepsFail
    \/ NoAnswer \/ NotOffered \/ Offered \/ FetchRefused \/ UnpackBeside
    \/ MakeVenv \/ FillVenv \/ VenvFails
    \/ Unlink \/ Link \/ InstallHere
    \/ AlreadyThere \/ CopyBegins \/ CopyGoesOn \/ CopyEnds
    \/ Rollback \/ NothingOlder \/ Die

LEMMA VersionedSteps == VersionedNext => Steps
BY DEF VersionedNext, Steps, Update, BuildVenv, InstallInto

(***************************************************************************)
(* Newest: a finite set of versions that is not empty has one that no      *)
(* other comes after.  A set without one would have a smallest such        *)
(* subset, and taking a version away from that leaves a smaller one.       *)
(***************************************************************************)
LEMMA NewestExists ==
    ASSUME NEW vs, IsFiniteSet(vs), vs # {}, \A v \in vs : OrderingKey(v) \in Nat
    PROVE  Newest(vs) \in vs /\ \A w \in vs : ~Older(Newest(vs), w)
<1> DEFINE HasNewest(s) == \E v \in s : \A w \in s : ~Older(v, w)
           Bad == {s \in SUBSET vs : s # {} /\ ~HasNewest(s)}
<1>1. Bad = {}
  <2> SUFFICES ASSUME Bad # {} PROVE FALSE
    OBVIOUS
  <2>1. IsWellFoundedOn(StrictSubsetOrdering(vs), SUBSET vs)
    BY FS_StrictSubsetOrderingWellFounded, FS_FiniteSubsetsOfFinite
  <2>2. PICK s \in Bad : \A t \in Bad : ~(<<t, s>> \in StrictSubsetOrdering(vs))
    BY <2>1, WFMin
  <2>3. PICK v \in s : TRUE
    OBVIOUS
  <2>4. \A u \in s : OrderingKey(u) \in Nat
    OBVIOUS
  <2>5. s \ {v} # {}
    BY <2>4 DEF Older
  <2>6. HasNewest(s \ {v})
    <3>1. <<s \ {v}, s>> \in StrictSubsetOrdering(vs)
      BY DEF StrictSubsetOrdering
    <3>2. s \ {v} \notin Bad
      BY <2>2, <3>1
    <3> QED
      BY <2>5, <3>2
  <2>7. PICK w \in s \ {v} : \A u \in s \ {v} : ~Older(w, u)
    BY <2>6
  <2>8. HasNewest(s)
    <3>1. CASE Older(w, v)
      <4>1. \A u \in s : ~Older(v, u)
        BY <2>4, <2>7, <3>1 DEF Older
      <4> QED
        BY <4>1
    <3>2. CASE ~Older(w, v)
      <4>1. \A u \in s : ~Older(w, u)
        BY <2>7, <3>2
      <4> QED
        BY <4>1
    <3> QED
      BY <3>1, <3>2
  <2> QED
    BY <2>8
<1> QED
  BY <1>1 DEF Newest

LEMMA VersionedInitTyped == VersionedInit => VersionedTypeOK
BY DEF VersionedInit, VersionedTypeOK, FileStates, EnvStates, Tasks, Orders, Verdicts

\* What a rollback goes back to is one of the versions it may choose.
LEMMA NewestIsBelow ==
    ASSUME NEW running, Below(running) # {}
    PROVE  /\ Newest(Below(running)) \in Available
           /\ Newest(Below(running)) \in Installed
           /\ Placed(Newest(Below(running)))
           /\ Placed(running) => Older(Newest(Below(running)), running)
<1>1. Below(running) \subseteq Available
  BY DEF Below, Installed
<1>2. IsFiniteSet(Below(running))
  BY <1>1, VersionedAssumption, FS_Subset
<1>3. \A v \in Below(running) : OrderingKey(v) \in Nat
  BY <1>1, VersionedAssumption DEF OrderingKey
<1>4. Newest(Below(running)) \in Below(running)
  BY <1>2, <1>3, NewestExists
<1> QED
  BY <1>1, <1>4 DEF Below

LEMMA VersionedStepTyped ==
    ASSUME VersionedTypeOK, [VersionedNext]_versionedVars
    PROVE  VersionedTypeOK'
<1>1. Steps \/ UNCHANGED versionedVars
  BY VersionedSteps
<1>2. ASSUME NEW v \in Available, Unzip(v) PROVE VersionedTypeOK'
  BY <1>2 DEF Unzip, SetFiles, VersionedTypeOK, FileStates, Verdicts
<1>3. ASSUME NEW cmd \in Orders, NEW r \in Available \cup {Outside},
             NEW v \in Available, Run(cmd, r, v)
      PROVE  VersionedTypeOK'
  BY <1>3 DEF Run, disk, VersionedTypeOK, Tasks, Verdicts
<1>4. CASE Boot
  BY <1>4 DEF Boot, Goto, SetEnv, disk, VersionedTypeOK, EnvStates, Tasks
<1>5. CASE DepsReady
  BY <1>5 DEF DepsReady, Goto, SetEnv, disk, VersionedTypeOK, EnvStates, Tasks
<1>6. CASE DepsFail
  BY <1>6 DEF DepsFail, Stop, disk, VersionedTypeOK, Tasks, Verdicts, Failures
<1>7. CASE NoAnswer
  BY <1>7 DEF NoAnswer, Stop, disk, VersionedTypeOK, Tasks, Verdicts, Failures
<1>8. CASE NotOffered
  BY <1>8 DEF NotOffered, Stop, disk, VersionedTypeOK, Tasks, Verdicts, Failures
<1>9. CASE Offered
  BY <1>9 DEF Offered, Goto, disk, VersionedTypeOK, Tasks
<1>10. CASE FetchRefused
  BY <1>10 DEF FetchRefused, Stop, disk, VersionedTypeOK, Tasks, Verdicts, Failures
<1>11. CASE UnpackBeside
  BY <1>11 DEF UnpackBeside, Goto, SetFiles, VersionedTypeOK, FileStates, Tasks
<1>12. CASE MakeVenv
  BY <1>12 DEF MakeVenv, Goto, SetEnv, VersionedTypeOK, EnvStates, Tasks
<1>13. CASE FillVenv
  BY <1>13 DEF FillVenv, Goto, SetEnv, VersionedTypeOK, EnvStates, Tasks
<1>14. CASE VenvFails
  BY <1>14 DEF VenvFails, Stop, disk, VersionedTypeOK, Tasks, Verdicts, Failures
<1>15. CASE Unlink
  BY <1>15 DEF Unlink, Goto, VersionedTypeOK, Tasks
<1>16. CASE Link
  BY <1>16 DEF Link, Stop, VersionedTypeOK, Tasks, Verdicts
<1>17. CASE InstallHere
  BY <1>17 DEF InstallHere, Goto, disk, VersionedTypeOK, Tasks
<1>18. CASE AlreadyThere
  BY <1>18 DEF AlreadyThere, Stop, disk, VersionedTypeOK, Tasks, Verdicts, Failures
<1>19. CASE CopyBegins
  BY <1>19 DEF CopyBegins, Goto, SetFiles, VersionedTypeOK, FileStates, Tasks
<1>20. CASE CopyGoesOn
  BY <1>20 DEF CopyGoesOn, Goto, SetFiles, VersionedTypeOK, FileStates
<1>21. CASE CopyEnds
  BY <1>21 DEF CopyEnds, Goto, SetFiles, VersionedTypeOK, FileStates, EnvStates,
      Tasks
<1>22. CASE Rollback
  <2>1. goal' \in Available
    BY <1>22, NewestIsBelow DEF Rollback
  <2> QED
    BY <1>22, <2>1 DEF Rollback, disk, VersionedTypeOK, Tasks
<1>23. CASE NothingOlder
  BY <1>23 DEF NothingOlder, Stop, disk, VersionedTypeOK, Tasks, Verdicts, Failures
<1>24. CASE Die
  BY <1>24 DEF Die, Stop, disk, VersionedTypeOK, Tasks, Verdicts
<1>25. CASE UNCHANGED versionedVars
  BY <1>25 DEF versionedVars, disk, process, VersionedTypeOK
<1> QED
  BY <1>1, <1>2, <1>3, <1>4, <1>5, <1>6, <1>7, <1>8, <1>9, <1>10, <1>11, <1>12,
     <1>13, <1>14, <1>15, <1>16, <1>17, <1>18, <1>19, <1>20, <1>21, <1>22, <1>23,
     <1>24, <1>25 DEF Steps

\* A command that is at work has said nothing yet, ...
AtWorkIsSilent == task # "idle" => verdict = "none"

\* ... goes through the steps of its own order only, ...
StepsOfOrder ==
    /\ task = "fetch" => order = "update"
    /\ task \in {"build", "pip"} => order \in {"update", "install_into"}
    /\ task = "copy" => order = "install_into"

\* ... and is done when `current' points where it was to point.
DoneIsLinked == verdict = "done" => current = goal

\* What an update has in hand on its way to the swap.
UpdateInHand ==
    order = "update" =>
        /\ task \in {"fetch", "build", "pip", "unlink", "link"} \/ verdict = "done"
              => UpdateAvailable(goal, root)
        /\ task \in {"build", "pip", "unlink", "link"} \/ verdict = "done"
              => files[goal] = "whole"
        /\ task \in {"unlink", "link"} \/ verdict = "done" => env[goal] = "ready"

\* What an install in place has in hand, and what one by a copy has.
InstallInHand ==
    /\ order = "install" /\ (task # "idle" \/ verdict = "done") =>
          files[goal] = "whole"
    /\ order = "install_into" =>
          /\ task \in {"build", "pip", "unlink", "link"} \/ verdict = "done"
                => files[goal] = "whole"
          /\ task \in {"unlink", "link"} \/ verdict = "done" => env[goal] = "ready"

\* What a rollback has in hand on its way to the swap.
RollbackInHand ==
    order = "rollback" /\ (task \in {"unlink", "link"} \/ verdict = "done") =>
        /\ Placed(goal) /\ goal \in Installed
        /\ before # NoLink /\ files[before] = "whole" /\ Placed(before)
              => Older(goal, before)

VersionedInv ==
    /\ FailureKeepsCurrent /\ LostLinkComesBack
    /\ AtWorkIsSilent /\ StepsOfOrder /\ DoneIsLinked
    /\ UpdateInHand /\ InstallInHand /\ RollbackInHand

LEMMA VersionedStepKeeps ==
    ASSUME VersionedTypeOK, VersionedTypeOK', VersionedInv, [VersionedNext]_versionedVars
    PROVE  VersionedInv'
<1>1. Steps \/ UNCHANGED versionedVars
  BY VersionedSteps
<1>2. ASSUME NEW v \in Available, Unzip(v) PROVE VersionedInv'
  BY <1>2 DEF Unzip, VersionedInv, FailureKeepsCurrent, LostLinkComesBack,
     AtWorkIsSilent, StepsOfOrder, DoneIsLinked, UpdateInHand, InstallInHand,
     Installed, RollbackInHand, Failures
<1>3. ASSUME NEW cmd \in Orders, NEW r \in Available \cup {Outside},
             NEW v \in Available, Run(cmd, r, v)
      PROVE  VersionedInv'
  BY <1>3 DEF Run, disk, VersionedInv, FailureKeepsCurrent, LostLinkComesBack,
     AtWorkIsSilent, StepsOfOrder, DoneIsLinked, UpdateInHand, InstallInHand,
     Installed, RollbackInHand
<1>4. CASE Boot
  BY <1>4 DEF Boot, Goto, SetEnv, disk, VersionedInv, FailureKeepsCurrent,
     LostLinkComesBack, AtWorkIsSilent, StepsOfOrder, DoneIsLinked, UpdateInHand,
     InstallInHand, Installed, RollbackInHand
<1>5. CASE DepsReady
  BY <1>5 DEF DepsReady, Goto, SetEnv, disk, VersionedInv, FailureKeepsCurrent,
     LostLinkComesBack, AtWorkIsSilent, StepsOfOrder, DoneIsLinked, UpdateInHand,
     InstallInHand, Installed, RollbackInHand
<1>6. CASE DepsFail
  BY <1>6 DEF DepsFail, Stop, disk, VersionedInv, FailureKeepsCurrent,
     LostLinkComesBack, AtWorkIsSilent, StepsOfOrder, DoneIsLinked, UpdateInHand,
     InstallInHand, Installed, RollbackInHand
<1>7. CASE NoAnswer
  BY <1>7 DEF NoAnswer, Stop, disk, VersionedInv, FailureKeepsCurrent,
     LostLinkComesBack, AtWorkIsSilent, StepsOfOrder, DoneIsLinked, UpdateInHand,
     InstallInHand, Installed, RollbackInHand
<1>8. CASE NotOffered
  BY <1>8 DEF NotOffered, Stop, disk, VersionedInv, FailureKeepsCurrent,
     LostLinkComesBack, AtWorkIsSilent, StepsOfOrder, DoneIsLinked, UpdateInHand,
     InstallInHand, Installed, RollbackInHand
<1>9. CASE Offered
  BY <1>9 DEF Offered, Goto, disk, VersionedInv, FailureKeepsCurrent,
     LostLinkComesBack, AtWorkIsSilent, StepsOfOrder, DoneIsLinked, UpdateInHand,
     InstallInHand, Installed, RollbackInHand
<1>10. CASE FetchRefused
  BY <1>10 DEF FetchRefused, Stop, disk, VersionedInv, FailureKeepsCurrent,
     LostLinkComesBack, AtWorkIsSilent, StepsOfOrder, DoneIsLinked, UpdateInHand,
     InstallInHand, Installed, RollbackInHand
<1>11. CASE UnpackBeside
  BY <1>11 DEF UnpackBeside, Goto, SetFiles, VersionedInv, FailureKeepsCurrent,
     LostLinkComesBack, AtWorkIsSilent, StepsOfOrder, DoneIsLinked, UpdateInHand,
     InstallInHand, Installed, RollbackInHand, VersionedTypeOK
<1>12. CASE MakeVenv
  BY <1>12 DEF MakeVenv, Goto, SetEnv, VersionedInv, FailureKeepsCurrent,
     LostLinkComesBack, AtWorkIsSilent, StepsOfOrder, DoneIsLinked, UpdateInHand,
     InstallInHand, Installed, RollbackInHand
<1>13. CASE FillVenv
  BY <1>13 DEF FillVenv, Goto, SetEnv, VersionedInv, FailureKeepsCurrent,
     LostLinkComesBack, AtWorkIsSilent, StepsOfOrder, DoneIsLinked, UpdateInHand,
     InstallInHand, Installed, RollbackInHand, VersionedTypeOK
<1>14. CASE VenvFails
  BY <1>14 DEF VenvFails, Stop, disk, VersionedInv, FailureKeepsCurrent,
     LostLinkComesBack, AtWorkIsSilent, StepsOfOrder, DoneIsLinked, UpdateInHand,
     InstallInHand, Installed, RollbackInHand
<1>15. CASE Unlink
  BY <1>15 DEF Unlink, Goto, VersionedInv, FailureKeepsCurrent, LostLinkComesBack,
     AtWorkIsSilent, StepsOfOrder, DoneIsLinked, UpdateInHand, InstallInHand,
     Installed, RollbackInHand, Failures
<1>16. CASE Link
  BY <1>16 DEF Link, Stop, VersionedInv, FailureKeepsCurrent, LostLinkComesBack,
     AtWorkIsSilent, StepsOfOrder, DoneIsLinked, UpdateInHand, InstallInHand,
     Installed, RollbackInHand, Failures
<1>17. CASE InstallHere
  BY <1>17 DEF InstallHere, Goto, disk, VersionedInv, FailureKeepsCurrent,
     LostLinkComesBack, AtWorkIsSilent, StepsOfOrder, DoneIsLinked, UpdateInHand,
     InstallInHand, Installed, RollbackInHand
<1>18. CASE AlreadyThere
  BY <1>18 DEF AlreadyThere, Stop, disk, VersionedInv, FailureKeepsCurrent,
     LostLinkComesBack, AtWorkIsSilent, StepsOfOrder, DoneIsLinked, UpdateInHand,
     InstallInHand, Installed, RollbackInHand
<1>19. CASE CopyBegins
  BY <1>19 DEF CopyBegins, Goto, VersionedInv, FailureKeepsCurrent,
     LostLinkComesBack, AtWorkIsSilent, StepsOfOrder, DoneIsLinked, UpdateInHand,
     InstallInHand, Installed, RollbackInHand
<1>20. CASE CopyGoesOn
  BY <1>20 DEF CopyGoesOn, Goto, VersionedInv, FailureKeepsCurrent,
     LostLinkComesBack, AtWorkIsSilent, StepsOfOrder, DoneIsLinked, UpdateInHand,
     InstallInHand, Installed, RollbackInHand
<1>21. CASE CopyEnds
  BY <1>21 DEF CopyEnds, Goto, SetFiles, VersionedInv, FailureKeepsCurrent,
      LostLinkComesBack, AtWorkIsSilent, StepsOfOrder, DoneIsLinked, UpdateInHand,
      InstallInHand, Installed, RollbackInHand, VersionedTypeOK
<1>22. CASE Rollback
  <2>1. current = before /\ verdict = "none" /\ task = "act" /\ order = "rollback"
    BY <1>22 DEF Rollback, VersionedInv, FailureKeepsCurrent, AtWorkIsSilent
  <2>2. Placed(goal') /\ goal' \in Installed
    BY <1>22, NewestIsBelow DEF Rollback
  <2>3. before # NoLink /\ files[before] = "whole" /\ Placed(before)
          => Older(goal', before)
    BY <1>22, <2>1, NewestIsBelow DEF Rollback, VersionsRead
  <2>4. RollbackInHand'
    BY <1>22, <2>2, <2>3 DEF Rollback, disk, RollbackInHand, Installed
  <2> QED
    BY <1>22, <2>1, <2>4 DEF Rollback, disk, VersionedInv, FailureKeepsCurrent,
       LostLinkComesBack, AtWorkIsSilent, StepsOfOrder, DoneIsLinked, UpdateInHand,
       InstallInHand, Installed
<1>23. CASE NothingOlder
  <2>1. current = before /\ verdict = "none"
    BY <1>23 DEF NothingOlder, VersionedInv, FailureKeepsCurrent, AtWorkIsSilent
  <2>2. LostLinkComesBack'
    <3> SUFFICES ASSUME before = NoLink, NEW v \in Available, files[v] = "whole", Placed(v)
                 PROVE  FALSE
      BY <1>23, <2>1 DEF NothingOlder, Stop, disk, LostLinkComesBack
    <3>1. Below(UnknownVersion) = {}
      BY <1>23, <2>1 DEF NothingOlder, VersionsRead
    <3>2. v \in Installed /\ v # UnknownVersion /\ ~Placed(UnknownVersion)
      BY DEF Installed, Placed, UnknownVersion
    <3> QED
      BY <3>1, <3>2 DEF Below
  <2> QED
    BY <1>23, <2>1, <2>2 DEF NothingOlder, Stop, disk, VersionedInv,
        FailureKeepsCurrent, AtWorkIsSilent, StepsOfOrder, DoneIsLinked,
        UpdateInHand, InstallInHand, Installed, RollbackInHand
<1>24. CASE Die
  BY <1>24 DEF Die, Stop, VersionedInv, FailureKeepsCurrent, LostLinkComesBack,
     AtWorkIsSilent, StepsOfOrder, DoneIsLinked, UpdateInHand, InstallInHand,
     Installed, RollbackInHand, Failures
<1>25. CASE UNCHANGED versionedVars
  BY <1>25 DEF versionedVars, disk, process, VersionedInv, FailureKeepsCurrent,
     LostLinkComesBack, AtWorkIsSilent, StepsOfOrder, DoneIsLinked, UpdateInHand,
     InstallInHand, Installed, RollbackInHand
<1> QED
  BY <1>1, <1>2, <1>3, <1>4, <1>5, <1>6, <1>7, <1>8, <1>9, <1>10, <1>11, <1>12,
     <1>13, <1>14, <1>15, <1>16, <1>17, <1>18, <1>19, <1>20, <1>21, <1>22, <1>23,
     <1>24, <1>25 DEF Steps

LEMMA VersionedInvariant == VersionedSpec => [](VersionedTypeOK /\ VersionedInv)
<1>1. VersionedInit => VersionedTypeOK /\ VersionedInv
  <2>1. VersionedInit => VersionedInv
    BY DEF VersionedInit, VersionedInv, FailureKeepsCurrent, LostLinkComesBack,
       AtWorkIsSilent, StepsOfOrder, DoneIsLinked, UpdateInHand, InstallInHand,
       Installed, RollbackInHand, Failures
  <2> QED
    BY <2>1, VersionedInitTyped
<1>2. VersionedTypeOK /\ VersionedInv /\ [VersionedNext]_versionedVars
        => (VersionedTypeOK /\ VersionedInv)'
  BY VersionedStepTyped, VersionedStepKeeps
<1> QED
  BY <1>1, <1>2, PTL DEF VersionedSpec

(***************************************************************************)
(* The link `current' moves only in the swap, wherever commands before it  *)
(* died.  Moved by an update it is at a newer release this machine can     *)
(* run, whole and with its packages; by an install, at a version that is   *)
(* whole, with its packages if it was copied; by a rollback, at one that   *)
(* has an app.py, which may be half a copy or lack a venv                  *)
(* (src/src/pacct/update.py, perform_update, install_here, install_into,   *)
(* rollback and point_current).                                            *)
(***************************************************************************)
THEOREM LinkIsUsable == VersionedSpec => []CurrentIsUsable
<1>1. VersionedTypeOK /\ VersionedInv => CurrentIsUsable
  <2> SUFFICES ASSUME VersionedTypeOK, VersionedInv, verdict = "done"
               PROVE  LinkedIsUsable
    BY DEF VersionedInv, CurrentIsUsable, LinkedIsUsable
  <2>1. current = goal /\ UpdateInHand /\ InstallInHand /\ RollbackInHand
    BY DEF VersionedInv, DoneIsLinked
  <2>2. order # "rollback" => files[current] = "whole"
    BY <2>1 DEF UpdateInHand, InstallInHand, VersionedTypeOK, Orders
  <2>3. current \in Installed
    BY <2>1, <2>2 DEF RollbackInHand, Installed, VersionedTypeOK
  <2> QED
    BY <2>1, <2>2, <2>3 DEF LinkedIsUsable, UpdateInHand, InstallInHand,
       UpdateAvailable
<1> QED
  BY <1>1, VersionedInvariant, PTL

(***************************************************************************)
(* A rollback goes back and never forward, and where a kill lost the link  *)
(* it finds a version whenever there is one (update.py, rollback).         *)
(***************************************************************************)
THEOREM RollbackGoesRight == VersionedSpec => []RollbackIsRight
<1>1. VersionedInv => RollbackIsRight
  BY DEF VersionedInv, RollbackIsRight, RollbackGoesBack, DoneIsLinked,
     RollbackInHand
<1> QED
  BY <1>1, VersionedInvariant, PTL

\* One step, one version: what is installed is neither overwritten nor undone.
LEMMA InstalledStep ==
    ASSUME VersionedTypeOK, [VersionedNext]_versionedVars, NEW w \in Available,
           files[w] = "whole", env[w] = "ready"
    PROVE  files'[w] = "whole" /\ env'[w] = "ready"
<1>1. Steps \/ UNCHANGED versionedVars
  BY VersionedSteps
<1>2. ASSUME NEW v \in Available, Unzip(v) PROVE files'[w] = "whole" /\ env'[w] = "ready"
  BY <1>2 DEF Unzip, SetFiles
<1>3. CASE Boot
  BY <1>3 DEF Boot, SetEnv, disk, VersionedTypeOK
<1>4. CASE DepsReady
  BY <1>4 DEF DepsReady, SetEnv, disk, VersionedTypeOK
<1>5. CASE UnpackBeside
  BY <1>5 DEF UnpackBeside, SetFiles
<1>6. CASE MakeVenv
  BY <1>6 DEF MakeVenv, SetEnv
<1>7. CASE FillVenv
  BY <1>7 DEF FillVenv, SetEnv
<1>8. CASE CopyBegins
  BY <1>8 DEF CopyBegins, SetFiles
<1>9. CASE CopyGoesOn
  BY <1>9 DEF CopyGoesOn, SetFiles
<1>10. CASE CopyEnds
  BY <1>10 DEF CopyEnds, SetFiles, VersionedTypeOK
<1>11. ASSUME NEW cmd \in Orders, NEW r \in Available \cup {Outside},
              NEW v \in Available, Run(cmd, r, v)
       PROVE  files'[w] = "whole" /\ env'[w] = "ready"
  BY <1>11 DEF Run, disk
<1>12. CASE \/ DepsFail \/ NoAnswer \/ NotOffered \/ Offered \/ FetchRefused
             \/ VenvFails \/ Unlink \/ Link \/ InstallHere \/ AlreadyThere
             \/ Rollback \/ NothingOlder \/ Die \/ UNCHANGED versionedVars
  <2>1. UNCHANGED <<files, env>>
    BY <1>12 DEF DepsFail, NoAnswer, NotOffered, Offered, FetchRefused, VenvFails,
        Unlink, Link, InstallHere, AlreadyThere, Rollback, NothingOlder, Die, disk,
        versionedVars
  <2> QED
    BY <2>1
<1> QED
  BY <1>1, <1>2, <1>3, <1>4, <1>5, <1>6, <1>7, <1>8, <1>9, <1>10, <1>11, <1>12
     DEF Steps

(***************************************************************************)
(* No command touches a version that is installed, be it the one that runs *)
(* or the one a rollback goes back to (rule 3 of update.py).               *)
(***************************************************************************)
THEOREM InstalledStays == VersionedSpec => InstalledIsKept
<1>1. VersionedTypeOK /\ [VersionedNext]_versionedVars =>
        [\A v \in Available : files[v] = "whole" /\ env[v] = "ready" =>
            files'[v] = "whole" /\ env'[v] = "ready"]_versionedVars
  BY InstalledStep
<1> QED
  BY <1>1, VersionedInvariant, PTL DEF VersionedSpec, InstalledIsKept

-----------------------------------------------------------------------------
(* The portable folder (PortableUpdate).                                   *)

FolderSteps ==
    \/ \E v \in Published : StartUpdate(v)
    \/ Unpacked \/ FetchFails
    \/ MoveAside \/ MoveIn \/ SwapReturns \/ SwapFails
    \/ PipSucceeds \/ PipFails \/ StartRollback \/ NoBackup
    \/ RestoreLast \/ RestoreRaises \/ UndoEnds \/ RevertEnds \/ Killed

LEMMA FolderStepsAre == FolderNext => FolderSteps
BY DEF FolderNext, FolderSteps, Swap, Restore

\* What the swap goes through: a path per position, and each path once.
LEMMA PositionsOfPaths ==
    /\ Slots = 1 .. Len(CodePaths) /\ Len(CodePaths) \in Nat
    /\ \A i \in Slots : CodePaths[i] \in PathSet
    /\ \A p \in PathSet : \E i \in Slots : CodePaths[i] = p
    /\ \A i, j \in Slots : CodePaths[i] = CodePaths[j] => i = j
    /\ PathSet \subseteq Paths /\ KeepPaths \subseteq Paths
    /\ \A p \in KeepPaths : p \notin PathSet
BY FolderAssumption DEF Slots, PathSet, Range, IsInjective, Paths

LEMMA FolderInitTyped == FolderInit => FolderTypeOK
<1> SUFFICES ASSUME FolderInit PROVE FolderTypeOK
  OBVIOUS
<1>1. PICK v \in Published :
         /\ live = [p \in Paths |->
                       IF p \in Bundle[v] \cup KeepPaths THEN v ELSE Absent]
         /\ packages \in {v, Absent}
  BY DEF FolderInit
<1>2. live \in [Paths -> Contents]
  BY <1>1 DEF Contents
<1>3. live[VersionPath] = v
  BY <1>1, FolderAssumption
<1>4. Nothing \in [Paths -> Contents]
  BY DEF Nothing, Contents
<1>5. place \in 1 .. Len(CodePaths) + 1 /\ begun \in 0 .. MaxCommands
  BY FolderAssumption, PositionsOfPaths DEF FolderInit
<1>6. live \in [Paths -> Contents] /\ wanted \in Published /\ packages \in Contents
  BY <1>1, <1>2, <1>3 DEF FolderInit, Contents
<1> QED
  BY <1>4, <1>5, <1>6 DEF FolderInit, FolderTypeOK, Deeds, Outcomes

\* A removal leaves of each path what was there, a part of it, or nothing.
LEMMA WipeLeaves ==
    ASSUME FolderTypeOK, WipeBackup
    PROVE  /\ backup' \in [Paths -> Contents] /\ parents' \in BOOLEAN
           /\ \A p \in Paths : p \notin Held(backup) => backup'[p] = Absent
           /\ \A p \in Paths : ~Has(backup, p) => backup'[p] = Absent
<1>1. PICK left \in {{}} \cup (IF "wipe" \in Faults THEN SUBSET Held(backup) ELSE {}) :
         \E torn \in SUBSET (left \cap CodeDirs) :
            /\ backup' = [p \in Paths |->
                             IF p \in torn THEN Torn
                             ELSE IF p \in left THEN backup[p] ELSE Absent]
            /\ parents' \in {left \cap NestedPaths # {},
                             parents /\ "wipe" \in Faults}
  BY DEF WipeBackup
<1>2. PICK torn \in SUBSET (left \cap CodeDirs) :
         /\ backup' = [p \in Paths |-> IF p \in torn THEN Torn
                                      ELSE IF p \in left THEN backup[p] ELSE Absent]
         /\ parents' \in {left \cap NestedPaths # {}, parents /\ "wipe" \in Faults}
  BY <1>1
<1>7. torn \subseteq left /\ left \subseteq Held(backup)
  OBVIOUS
<1>3. backup' \in [Paths -> Contents]
  BY <1>2 DEF FolderTypeOK, Contents
<1>4. parents' \in BOOLEAN
  BY <1>2 DEF FolderTypeOK
<1>5. \A p \in Paths : p \notin Held(backup) => backup'[p] = Absent
  BY <1>2, <1>7
<1>6. \A p \in Paths : ~Has(backup, p) => p \notin Held(backup)
  BY DEF Held
<1> QED
  BY <1>3, <1>4, <1>5, <1>6

LEMMA FolderStepTyped ==
    ASSUME FolderTypeOK, [FolderNext]_folderVars
    PROVE  FolderTypeOK'
<1>1. FolderSteps \/ UNCHANGED folderVars
  BY FolderStepsAre
<1>2. Nothing \in [Paths -> Contents]
  BY DEF Nothing, Contents
<1>3. ASSUME NEW v \in Published, StartUpdate(v) PROVE FolderTypeOK'
  <2>1. backup' \in [Paths -> Contents] /\ parents' \in BOOLEAN
    BY <1>3, WipeLeaves DEF StartUpdate
  <2>2. stale' \in SUBSET PathSet
    BY <1>3 DEF StartUpdate, Held
  <2>3. begun' \in 0 .. MaxCommands
    BY <1>3, FolderAssumption DEF StartUpdate, Begin, FolderTypeOK
  <2> QED
    BY <1>2, <1>3, <2>1, <2>2, <2>3 DEF StartUpdate, Begin, FolderTypeOK, Deeds,
       Outcomes
<1>4. CASE Unpacked
  <2>1. staged' \in [Paths -> Contents]
    BY <1>4 DEF Unpacked, history, FolderTypeOK, Contents
  <2> QED
    BY <1>4, <2>1 DEF Unpacked, history, FolderTypeOK, Deeds
<1>5. CASE FetchFails
  <2>1. backup' \in [Paths -> Contents] /\ parents' \in BOOLEAN
    BY <1>5, WipeLeaves DEF FetchFails
  <2>2. stale' \in SUBSET PathSet /\ 1 \in 1 .. Len(CodePaths) + 1
    BY <1>5, PositionsOfPaths DEF FetchFails, Held
  <2> QED
    BY <1>2, <1>5, <2>1, <2>2 DEF FetchFails, End, FolderTypeOK, Deeds, Outcomes
<1>6. CASE MoveAside
  <2>1. CodePaths[place] \in Paths /\ place \in Slots
    BY <1>6, PositionsOfPaths DEF MoveAside, FolderTypeOK
  <2> QED
    BY <1>6, <2>1 DEF MoveAside, MakesParent, FolderTypeOK, Contents
<1>7. CASE MoveIn
  <2>1. CodePaths[place] \in Paths /\ place' \in 1 .. Len(CodePaths) + 1
    BY <1>7, PositionsOfPaths DEF MoveIn, history, FolderTypeOK
  <2>2. live' \in [Paths -> Contents] /\ staged' \in [Paths -> Contents]
    BY <1>7, <2>1 DEF MoveIn, history, FolderTypeOK, Contents
  <2> QED
    BY <1>7, <2>1, <2>2 DEF MoveIn, MakesParent, history, FolderTypeOK
<1>8. CASE SwapReturns
  BY <1>8 DEF SwapReturns, history, folder, FolderTypeOK, Deeds
<1>9. CASE SwapFails
  BY <1>9 DEF SwapFails, MakesParent, history, folder, FolderTypeOK, Deeds
<1>10. CASE PipSucceeds
  BY <1>2, <1>10, PositionsOfPaths DEF PipSucceeds, history, End, FolderTypeOK,
     Deeds, Outcomes, Contents
<1>11. CASE PipFails
  BY <1>11 DEF PipFails, history, FolderTypeOK, Deeds
<1>12. CASE StartRollback
  BY <1>12, FolderAssumption, PositionsOfPaths DEF StartRollback, Begin, folder,
     FolderTypeOK, Deeds, Outcomes
<1>13. CASE NoBackup
  BY <1>13, PositionsOfPaths DEF NoBackup, history, End, folder, FolderTypeOK,
     Outcomes
<1>14. CASE RestoreLast
  BY <1>14 DEF RestoreLast, history, FolderTypeOK, Contents
<1>15. CASE RestoreRaises
  BY <1>15, PositionsOfPaths DEF RestoreRaises, Remains, FolderTypeOK, Contents
<1>16. CASE UndoEnds
  BY <1>2, <1>16, PositionsOfPaths DEF UndoEnds, history, End, FolderTypeOK, Deeds,
     Outcomes
<1>17. CASE RevertEnds
  <2>1. backup' \in [Paths -> Contents] /\ parents' \in BOOLEAN
    BY <1>17, WipeLeaves DEF RevertEnds
  <2> QED
    BY <1>17, <2>1, PositionsOfPaths DEF RevertEnds, history, End, FolderTypeOK,
       Deeds, Outcomes
<1>18. CASE Killed
  <2>1. live' \in [Paths -> Contents]
    BY <1>18 DEF Killed, Remains, FolderTypeOK, Contents
  <2>2. parents' \in BOOLEAN
    BY <1>18 DEF Killed, MakesParent, FolderTypeOK
  <2> QED
    BY <1>18, <2>1, <2>2, PositionsOfPaths DEF Killed, history, End, FolderTypeOK,
       Deeds, Outcomes
<1>19. CASE UNCHANGED folderVars
  BY <1>19 DEF folderVars, folder, command, history, FolderTypeOK
<1> QED
  BY <1>1, <1>3, <1>4, <1>5, <1>6, <1>7, <1>8, <1>9, <1>10, <1>11, <1>12, <1>13,
     <1>14, <1>15, <1>16, <1>17, <1>18, <1>19 DEF FolderSteps

\* The old version: what the backup holds is of it, and what no restore failed
\* on is in the folder or in the backup, also between two commands.
BackupIsOld ==
    \A i \in Slots : LET p == CodePaths[i] IN
        p \in Answered /\ Has(backup, p) => backup[p] = origin[p]

OldIsSomewhere ==
    \A i \in Slots : LET p == CodePaths[i] IN
        p \in Answered /\ Has(origin, p) => origin[p] \in {live[p], backup[p]}

Swapped(p) ==
    p \in Bundle[wanted] =>
        live[p] = wanted /\ (p \notin stale => backup[p] = origin[p])

\* Before the swap the folder is the old one, ...
FetchIsBefore ==
    deed = "fetch" =>
        /\ place = 1 /\ aside = {} /\ moved = {}
        /\ \A i \in Slots : LET p == CodePaths[i] IN
              /\ live[p] = origin[p]
              /\ p \notin stale => backup[p] = Absent

\* ... behind its position the swap is through, from it on nothing is moved but
\* the path that is just aside, ...
SwapIsAtPlace ==
    deed = "swap" =>
        /\ moved = {}
        /\ \A i \in aside : Has(backup, CodePaths[i])
        /\ \A i \in Slots : LET p == CodePaths[i] IN
              /\ p \notin stale /\ Has(backup, p) => i \in aside
              /\ i < place => Swapped(p)
              /\ i >= place =>
                    /\ staged[p] = IF p \in Bundle[wanted] THEN wanted ELSE Absent
                    /\ \/ /\ live[p] = origin[p]
                          /\ p \notin stale => backup[p] = Absent
                       \/ /\ i = place /\ live[p] = Absent
                          /\ p \notin stale => backup[p] = origin[p]

\* ... and after it the list is what this update put into the backup.
PipIsAfter ==
    deed = "pip" =>
        /\ place > Len(CodePaths)
        /\ \A i \in moved : Has(backup, CodePaths[i])
        /\ \A i \in Slots : LET p == CodePaths[i] IN
              /\ p \notin stale /\ Has(backup, p) => i \in moved
              /\ Swapped(p)

\* A restore that was handed the whole list has on it all that is in the backup
\* of this update, a rollback all that is in it.
RestoreIsListed ==
    /\ deed \in {"undo", "revert"} =>
          \A i \in moved : Has(backup, CodePaths[i])
    /\ deed = "undo" /\ place > Len(CodePaths) =>
          \A i \in Slots : LET p == CodePaths[i] IN
              p \in Answered /\ Has(backup, p) => i \in moved
    /\ deed = "revert" =>
          \A i \in Slots : Has(backup, CodePaths[i]) =>
              i \in moved \/ CodePaths[i] \in unrestored

\* What a command said stays true until the next one begins.
Reported ==
    /\ deed # "idle" => outcome = "none"
    /\ outcome \in {"restored_pip", "reverted"} =>
          \A i \in Slots : LET p == CodePaths[i] IN
              p \in Answered /\ Has(origin, p) => live[p] = origin[p]
    /\ outcome = "updated" => \A i \in Slots : Swapped(CodePaths[i])

FolderInv ==
    /\ DataUntouched /\ BackupIsOld /\ OldIsSomewhere
    /\ FetchIsBefore /\ SwapIsAtPlace /\ PipIsAfter /\ RestoreIsListed /\ Reported

LEMMA FolderStepKeeps ==
    ASSUME FolderTypeOK, FolderTypeOK', FolderInv, [FolderNext]_folderVars
    PROVE  FolderInv'
<1>1. FolderSteps \/ UNCHANGED folderVars
  BY FolderStepsAre
<1>2. ASSUME NEW v \in Published, StartUpdate(v) PROVE FolderInv'
  <2>0. /\ \A p \in Paths : ~Has(backup, p) => backup'[p] = Absent
        /\ \A i \in Slots : CodePaths[i] \notin stale' => backup'[CodePaths[i]] = Absent
    BY <1>2, WipeLeaves, PositionsOfPaths DEF StartUpdate, Held, Has
  <2>1. DataUntouched'
    BY <1>2, <2>0, PositionsOfPaths DEF StartUpdate, FolderInv, DataUntouched, Has
  <2>2. BackupIsOld'
    BY <1>2, <2>0 DEF StartUpdate, BackupIsOld, Answered, Has
  <2>3. OldIsSomewhere'
    BY <1>2 DEF StartUpdate, OldIsSomewhere
  <2>4. FetchIsBefore'
    BY <1>2, <2>0, PositionsOfPaths DEF StartUpdate, Begin, FetchIsBefore
  <2>5. SwapIsAtPlace'
    BY <1>2 DEF StartUpdate, Begin, SwapIsAtPlace
  <2>6. PipIsAfter'
    BY <1>2 DEF StartUpdate, Begin, PipIsAfter
  <2>7. RestoreIsListed'
    BY <1>2 DEF StartUpdate, Begin, RestoreIsListed
  <2>8. Reported'
    BY <1>2 DEF StartUpdate, Begin, Reported
  <2> QED
    BY <2>1, <2>2, <2>3, <2>4, <2>5, <2>6, <2>7, <2>8 DEF FolderInv
<1>3. CASE Unpacked
  <2>1. DataUntouched'
    BY <1>3 DEF Unpacked, history, FolderInv, DataUntouched
  <2>2. BackupIsOld'
    BY <1>3 DEF Answered, Unpacked, history, FolderInv, BackupIsOld
  <2>3. OldIsSomewhere'
    BY <1>3 DEF Answered, Unpacked, history, FolderInv, OldIsSomewhere
  <2>4. FetchIsBefore'
    BY <1>3 DEF Unpacked, history, FetchIsBefore
  <2>5. SwapIsAtPlace'
    <3>1. \A i \in Slots : staged'[CodePaths[i]] =
             IF CodePaths[i] \in Bundle[wanted] THEN wanted ELSE Absent
      BY <1>3, PositionsOfPaths DEF Unpacked, history
    <3>2. /\ deed = "fetch" /\ place = 1 /\ aside = {} /\ moved = {}
          /\ \A i \in Slots : LET p == CodePaths[i] IN
                /\ live[p] = origin[p]
                /\ p \notin stale => backup[p] = Absent
      BY <1>3 DEF Unpacked, history, FolderInv, FetchIsBefore
    <3>3. UNCHANGED <<live, backup, place, aside, moved, wanted, origin, stale>>
      BY <1>3 DEF Unpacked, history
    <3> QED
      BY <3>1, <3>2, <3>3, PositionsOfPaths DEF SwapIsAtPlace, Has
  <2>6. PipIsAfter'
    BY <1>3 DEF Unpacked, history, PipIsAfter
  <2>7. RestoreIsListed'
    BY <1>3 DEF Unpacked, history, RestoreIsListed
  <2>8. Reported'
    BY <1>3 DEF Answered, Unpacked, history, FolderInv, Reported
  <2> QED
    BY <2>1, <2>2, <2>3, <2>4, <2>5, <2>6, <2>7, <2>8 DEF FolderInv
<1>4. CASE FetchFails
  <2>0. /\ \A p \in Paths : ~Has(backup, p) => backup'[p] = Absent
        /\ \A i \in Slots : CodePaths[i] \notin stale' => backup'[CodePaths[i]] = Absent
    BY <1>4, WipeLeaves, PositionsOfPaths DEF FetchFails, Held, Has
  <2>1. DataUntouched'
    BY <1>4, <2>0, PositionsOfPaths DEF FetchFails, FolderInv, DataUntouched, Has
  <2>2. BackupIsOld'
    BY <1>4, <2>0 DEF FetchFails, BackupIsOld, Answered, Has
  <2>3. OldIsSomewhere'
    BY <1>4 DEF FetchFails, FolderInv, OldIsSomewhere, FetchIsBefore
  <2>4. FetchIsBefore'
    BY <1>4 DEF FetchFails, End, FetchIsBefore
  <2>5. SwapIsAtPlace'
    BY <1>4 DEF FetchFails, End, SwapIsAtPlace
  <2>6. PipIsAfter'
    BY <1>4 DEF FetchFails, End, PipIsAfter
  <2>7. RestoreIsListed'
    BY <1>4 DEF FetchFails, End, RestoreIsListed
  <2>8. Reported'
    BY <1>4 DEF FetchFails, End, Reported
  <2> QED
    BY <2>1, <2>2, <2>3, <2>4, <2>5, <2>6, <2>7, <2>8 DEF FolderInv
<1>5. CASE MoveAside
  <2>10. PICK q \in PathSet : q = CodePaths[place] /\ place \in Slots
    BY <1>5, PositionsOfPaths DEF MoveAside, FolderTypeOK
  <2>11. /\ q \in Paths /\ q \notin KeepPaths /\ deed = "swap" /\ live[q] # Absent
         /\ DataUntouched /\ BackupIsOld /\ OldIsSomewhere /\ SwapIsAtPlace /\ Reported
    BY <1>5, <2>10, PositionsOfPaths DEF MoveAside, FolderInv, Has
  <2>12. live[q] = origin[q] /\ (q \notin stale => backup[q] = Absent)
    BY <2>10, <2>11, PositionsOfPaths DEF SwapIsAtPlace
  <2>13. /\ live'[q] = Absent /\ backup'[q] # Absent
         /\ q \notin stale' => backup'[q] = origin[q]
         /\ \A p \in Paths \ {q} :
               /\ live'[p] = live[p] /\ backup'[p] = backup[p]
               /\ p \in stale => p \in stale'
         /\ aside' = aside \cup {place}
         /\ UNCHANGED <<staged, deed, place, moved, wanted, outcome, origin, unrestored>>
    BY <1>5, <2>10, <2>11, <2>12, FolderAssumption DEF MoveAside, Has, FolderTypeOK,
       Contents
  <2>14. /\ \A i \in Slots : CodePaths[i] \in Paths
         /\ \A i \in Slots : i # place => CodePaths[i] # q
    BY <2>10, PositionsOfPaths
  <2>1. DataUntouched'
    BY <2>11, <2>13, PositionsOfPaths DEF DataUntouched
  <2>2. BackupIsOld'
    BY <2>10, <2>11, <2>13, <2>14 DEF BackupIsOld, Answered, Has
  <2>3. OldIsSomewhere'
    BY <2>10, <2>11, <2>13, <2>14 DEF OldIsSomewhere, Answered, Has
  <2>4. FetchIsBefore'
    BY <2>11, <2>13 DEF FetchIsBefore
  <2>5. SwapIsAtPlace'
    <3>1. moved' = {} /\ \A i \in aside' : backup'[CodePaths[i]] # Absent
      BY <2>10, <2>11, <2>13, <2>14 DEF SwapIsAtPlace, Has, FolderTypeOK
    <3>2. ASSUME NEW i \in Slots, i # place
          PROVE  LET p == CodePaths[i] IN
                    /\ p \notin stale' /\ backup'[p] # Absent => i \in aside'
                    /\ i < place => Swapped(p)'
                    /\ i >= place =>
                       /\ staged'[p] = IF p \in Bundle[wanted] THEN wanted ELSE Absent
                       /\ live'[p] = origin[p] /\ (p \notin stale' => backup'[p] = Absent)
      BY <2>11, <2>13, <2>14, <3>2 DEF SwapIsAtPlace, Swapped, Has
    <3>3. staged'[q] = IF q \in Bundle[wanted] THEN wanted ELSE Absent
      BY <2>10, <2>11, <2>13, PositionsOfPaths DEF SwapIsAtPlace
    <3>4. place \in Nat /\ ~(place < place)
      BY <2>10, PositionsOfPaths
    <3> QED
      BY <2>10, <2>11, <2>13, <3>1, <3>2, <3>3, <3>4 DEF SwapIsAtPlace, Has
  <2>6. PipIsAfter'
    BY <2>11, <2>13 DEF PipIsAfter
  <2>7. RestoreIsListed'
    BY <2>11, <2>13 DEF RestoreIsListed
  <2>8. Reported'
    BY <2>11, <2>13 DEF Reported
  <2> QED
    BY <2>1, <2>2, <2>3, <2>4, <2>5, <2>6, <2>7, <2>8 DEF FolderInv
<1>6. CASE MoveIn
  <2>1. DataUntouched'
    BY <1>6, PositionsOfPaths DEF MoveIn, history, FolderInv, DataUntouched,
       FolderTypeOK
  <2>2. BackupIsOld'
    BY <1>6 DEF Answered, MoveIn, history, FolderInv, BackupIsOld
  <2>3. OldIsSomewhere'
    BY <1>6 DEF Answered, MoveIn, history, FolderInv, OldIsSomewhere, Has
  <2>4. FetchIsBefore'
    BY <1>6 DEF MoveIn, history, FetchIsBefore
  <2>5. SwapIsAtPlace'
    <3> DEFINE q == CodePaths[place]
    <3>1. /\ place \in Slots /\ place' = place + 1 /\ q \in Paths
          /\ ~(Has(staged, q) /\ Has(live, q))
          /\ SwapIsAtPlace /\ deed = "swap" /\ moved = {}
      BY <1>6, PositionsOfPaths DEF MoveIn, history, FolderTypeOK, FolderInv,
         SwapIsAtPlace
    <3>2. /\ live'[q] = IF Has(staged, q) THEN staged[q] ELSE live[q]
          /\ UNCHANGED <<backup, origin, wanted, aside, moved, stale>>
      BY <1>6, <3>1 DEF MoveIn, history, FolderTypeOK
    <3>3. \A i \in Slots : i # place =>
             /\ live'[CodePaths[i]] = live[CodePaths[i]]
             /\ staged'[CodePaths[i]] = staged[CodePaths[i]]
      BY <1>6, <3>1, PositionsOfPaths DEF MoveIn, history
    <3>4. q \in Bundle[wanted] =>
             live'[q] = wanted /\ (q \notin stale => backup[q] = origin[q])
      BY <3>1, <3>2, FolderAssumption DEF SwapIsAtPlace, Has, FolderTypeOK
    <3>5. \A i \in Slots : i < place' => Swapped(CodePaths[i])'
      <4> SUFFICES ASSUME NEW i \in Slots, i < place' PROVE Swapped(CodePaths[i])'
        OBVIOUS
      <4>1. CASE i = place
        BY <4>1, <3>2, <3>4 DEF Swapped
      <4>2. CASE i # place
        <5>1. i < place
          BY <4>2, <3>1, PositionsOfPaths
        <5> QED
          BY <4>2, <5>1, <3>1, <3>2, <3>3 DEF SwapIsAtPlace, Swapped
      <4> QED
        BY <4>1, <4>2
    <3>6. \A i \in Slots : i >= place' => i # place /\ i >= place
      BY <3>1, PositionsOfPaths
    <3> QED
      BY <3>1, <3>2, <3>3, <3>5, <3>6 DEF SwapIsAtPlace
  <2>6. PipIsAfter'
    BY <1>6 DEF MoveIn, history, PipIsAfter
  <2>7. RestoreIsListed'
    BY <1>6 DEF MoveIn, history, RestoreIsListed
  <2>8. Reported'
    BY <1>6 DEF Answered, MoveIn, history, FolderInv, Reported
  <2> QED
    BY <2>1, <2>2, <2>3, <2>4, <2>5, <2>6, <2>7, <2>8 DEF FolderInv
<1>7. CASE SwapReturns
  <2>1. DataUntouched'
    BY <1>7 DEF SwapReturns, history, folder, FolderInv, DataUntouched
  <2>2. BackupIsOld'
    BY <1>7 DEF Answered, SwapReturns, history, folder, FolderInv, BackupIsOld
  <2>3. OldIsSomewhere'
    BY <1>7 DEF Answered, SwapReturns, history, folder, FolderInv, OldIsSomewhere
  <2>4. FetchIsBefore'
    BY <1>7 DEF SwapReturns, history, FetchIsBefore
  <2>5. SwapIsAtPlace'
    BY <1>7 DEF SwapReturns, history, SwapIsAtPlace
  <2>6. PipIsAfter'
    BY <1>7, PositionsOfPaths DEF SwapReturns, history, folder, FolderInv,
       SwapIsAtPlace,
        PipIsAfter, Swapped, FolderTypeOK
  <2>7. RestoreIsListed'
    BY <1>7 DEF SwapReturns, history, RestoreIsListed
  <2>8. Reported'
    BY <1>7 DEF Answered, SwapReturns, history, FolderInv, Reported
  <2> QED
    BY <2>1, <2>2, <2>3, <2>4, <2>5, <2>6, <2>7, <2>8 DEF FolderInv
<1>8. CASE SwapFails
  <2>1. DataUntouched'
    BY <1>8 DEF SwapFails, history, folder, FolderInv, DataUntouched
  <2>2. BackupIsOld'
    BY <1>8 DEF Answered, SwapFails, history, folder, FolderInv, BackupIsOld
  <2>3. OldIsSomewhere'
    BY <1>8 DEF Answered, SwapFails, history, folder, FolderInv, OldIsSomewhere
  <2>4. FetchIsBefore'
    BY <1>8 DEF SwapFails, history, FetchIsBefore
  <2>5. SwapIsAtPlace'
    BY <1>8 DEF SwapFails, history, SwapIsAtPlace
  <2>6. PipIsAfter'
    BY <1>8 DEF SwapFails, history, PipIsAfter
  <2>7. RestoreIsListed'
    BY <1>8 DEF Answered, SwapFails, history, FolderInv, SwapIsAtPlace,
       RestoreIsListed, FolderTypeOK
  <2>8. Reported'
    BY <1>8 DEF Answered, SwapFails, history, FolderInv, Reported
  <2> QED
    BY <2>1, <2>2, <2>3, <2>4, <2>5, <2>6, <2>7, <2>8 DEF FolderInv
<1>9. CASE PipSucceeds
  <2>1. DataUntouched'
    BY <1>9 DEF PipSucceeds, history, FolderInv, DataUntouched
  <2>2. BackupIsOld'
    BY <1>9 DEF Answered, PipSucceeds, history, FolderInv, BackupIsOld
  <2>3. OldIsSomewhere'
    BY <1>9 DEF Answered, PipSucceeds, history, FolderInv, OldIsSomewhere
  <2>4. FetchIsBefore'
    BY <1>9 DEF PipSucceeds, history, End, FetchIsBefore
  <2>5. SwapIsAtPlace'
    BY <1>9 DEF PipSucceeds, history, End, SwapIsAtPlace
  <2>6. PipIsAfter'
    BY <1>9 DEF PipSucceeds, history, End, PipIsAfter
  <2>7. RestoreIsListed'
    BY <1>9 DEF PipSucceeds, history, End, RestoreIsListed
  <2>8. Reported'
    BY <1>9 DEF Answered, PipSucceeds, history, End, FolderInv, PipIsAfter,
       Reported, Swapped
  <2> QED
    BY <2>1, <2>2, <2>3, <2>4, <2>5, <2>6, <2>7, <2>8 DEF FolderInv
<1>10. CASE PipFails
  <2>1. DataUntouched'
    BY <1>10 DEF PipFails, history, FolderInv, DataUntouched
  <2>2. BackupIsOld'
    BY <1>10 DEF Answered, PipFails, history, FolderInv, BackupIsOld
  <2>3. OldIsSomewhere'
    BY <1>10 DEF Answered, PipFails, history, FolderInv, OldIsSomewhere
  <2>4. FetchIsBefore'
    BY <1>10 DEF PipFails, history, FetchIsBefore
  <2>5. SwapIsAtPlace'
    BY <1>10 DEF PipFails, history, SwapIsAtPlace
  <2>6. PipIsAfter'
    BY <1>10 DEF PipFails, history, PipIsAfter
  <2>7. RestoreIsListed'
    BY <1>10 DEF Answered, PipFails, history, FolderInv, PipIsAfter, RestoreIsListed
  <2>8. Reported'
    BY <1>10 DEF Answered, PipFails, history, FolderInv, Reported
  <2> QED
    BY <2>1, <2>2, <2>3, <2>4, <2>5, <2>6, <2>7, <2>8 DEF FolderInv
<1>11. CASE StartRollback
  <2>1. DataUntouched'
    BY <1>11 DEF StartRollback, folder, FolderInv, DataUntouched
  <2>2. BackupIsOld'
    BY <1>11 DEF Answered, StartRollback, folder, FolderInv, BackupIsOld
  <2>3. OldIsSomewhere'
    BY <1>11 DEF Answered, StartRollback, folder, FolderInv, OldIsSomewhere
  <2>4. FetchIsBefore'
    BY <1>11 DEF StartRollback, Begin, FetchIsBefore
  <2>5. SwapIsAtPlace'
    BY <1>11 DEF StartRollback, Begin, SwapIsAtPlace
  <2>6. PipIsAfter'
    BY <1>11 DEF StartRollback, Begin, PipIsAfter
  <2>7. RestoreIsListed'
    BY <1>11 DEF StartRollback, Begin, folder, RestoreIsListed
  <2>8. Reported'
    BY <1>11 DEF StartRollback, Begin, Reported
  <2> QED
    BY <2>1, <2>2, <2>3, <2>4, <2>5, <2>6, <2>7, <2>8 DEF FolderInv
<1>12. CASE NoBackup
  <2>1. DataUntouched'
    BY <1>12 DEF NoBackup, history, folder, FolderInv, DataUntouched
  <2>2. BackupIsOld'
    BY <1>12 DEF Answered, NoBackup, history, folder, FolderInv, BackupIsOld
  <2>3. OldIsSomewhere'
    BY <1>12 DEF Answered, NoBackup, history, folder, FolderInv, OldIsSomewhere
  <2>4. FetchIsBefore'
    BY <1>12 DEF NoBackup, history, End, FetchIsBefore
  <2>5. SwapIsAtPlace'
    BY <1>12 DEF NoBackup, history, End, SwapIsAtPlace
  <2>6. PipIsAfter'
    BY <1>12 DEF NoBackup, history, End, PipIsAfter
  <2>7. RestoreIsListed'
    BY <1>12 DEF NoBackup, history, End, RestoreIsListed
  <2>8. Reported'
    BY <1>12 DEF NoBackup, history, End, Reported
  <2> QED
    BY <2>1, <2>2, <2>3, <2>4, <2>5, <2>6, <2>7, <2>8 DEF FolderInv
<1>13. CASE RestoreLast
  <2>1. DataUntouched'
    BY <1>13 DEF Answered, RestoreLast, history, FolderInv, DataUntouched,
       RestoreIsListed, Has
  <2>2. BackupIsOld'
    BY <1>13 DEF Answered, RestoreLast, history, FolderInv, BackupIsOld, Has
  <2>3. OldIsSomewhere'
    BY <1>13 DEF Answered, RestoreLast, history, FolderInv, BackupIsOld,
       OldIsSomewhere,
        RestoreIsListed, FolderTypeOK
  <2>4. FetchIsBefore'
    BY <1>13 DEF RestoreLast, history, FetchIsBefore
  <2>5. SwapIsAtPlace'
    BY <1>13 DEF RestoreLast, history, SwapIsAtPlace
  <2>6. PipIsAfter'
    BY <1>13 DEF RestoreLast, history, PipIsAfter
  <2>7. RestoreIsListed'
    BY <1>13, PositionsOfPaths DEF Answered, RestoreLast, history, FolderInv,
       RestoreIsListed, Has,
        FolderTypeOK
  <2>8. Reported'
    BY <1>13 DEF Answered, RestoreLast, history, FolderInv, Reported
  <2> QED
    BY <2>1, <2>2, <2>3, <2>4, <2>5, <2>6, <2>7, <2>8 DEF FolderInv
<1>14. CASE RestoreRaises
  <2>1. DataUntouched'
    BY <1>14, PositionsOfPaths DEF RestoreRaises, FolderInv, DataUntouched,
        FolderTypeOK
  <2>2. BackupIsOld'
    BY <1>14 DEF Answered, RestoreRaises, FolderInv, BackupIsOld
  <2>3. OldIsSomewhere'
    BY <1>14, PositionsOfPaths DEF Answered, RestoreRaises, FolderInv,
       OldIsSomewhere, FolderTypeOK
  <2>4. FetchIsBefore'
    BY <1>14 DEF RestoreRaises, FetchIsBefore
  <2>5. SwapIsAtPlace'
    BY <1>14 DEF RestoreRaises, SwapIsAtPlace
  <2>6. PipIsAfter'
    BY <1>14 DEF RestoreRaises, PipIsAfter
  <2>7. RestoreIsListed'
    BY <1>14 DEF Answered, RestoreRaises, FolderInv, RestoreIsListed
  <2>8. Reported'
    BY <1>14 DEF Answered, RestoreRaises, FolderInv, Reported
  <2> QED
    BY <2>1, <2>2, <2>3, <2>4, <2>5, <2>6, <2>7, <2>8 DEF FolderInv
<1>15. CASE UndoEnds
  <2>1. DataUntouched'
    BY <1>15 DEF UndoEnds, history, FolderInv, DataUntouched
  <2>2. BackupIsOld'
    BY <1>15 DEF Answered, UndoEnds, history, FolderInv, BackupIsOld
  <2>3. OldIsSomewhere'
    BY <1>15 DEF Answered, UndoEnds, history, FolderInv, OldIsSomewhere
  <2>4. FetchIsBefore'
    BY <1>15 DEF UndoEnds, history, End, FetchIsBefore
  <2>5. SwapIsAtPlace'
    BY <1>15 DEF UndoEnds, history, End, SwapIsAtPlace
  <2>6. PipIsAfter'
    BY <1>15 DEF UndoEnds, history, End, PipIsAfter
  <2>7. RestoreIsListed'
    BY <1>15 DEF UndoEnds, history, End, RestoreIsListed
  <2>8. Reported'
    BY <1>15 DEF Answered, UndoEnds, history, End, FolderInv, OldIsSomewhere,
       RestoreIsListed,
        Reported, Has
  <2> QED
    BY <2>1, <2>2, <2>3, <2>4, <2>5, <2>6, <2>7, <2>8 DEF FolderInv
<1>16. CASE RevertEnds
  <2>0. /\ \A p \in Paths : ~Has(backup, p) => backup'[p] = Absent
        /\ \A i \in Slots : CodePaths[i] \in Answered => ~Has(backup, CodePaths[i])
    BY <1>16, WipeLeaves DEF RevertEnds, FolderInv, RestoreIsListed, Answered
  <2>1. DataUntouched'
    BY <1>16, <2>0, PositionsOfPaths DEF RevertEnds, history, FolderInv,
       DataUntouched,
        Has
  <2>2. BackupIsOld'
    BY <1>16, <2>0, PositionsOfPaths DEF RevertEnds, history, BackupIsOld,
       Answered, Has
  <2>3. OldIsSomewhere'
    BY <1>16 DEF Answered, RevertEnds, history, FolderInv, OldIsSomewhere,
       RestoreIsListed, Has
  <2>4. FetchIsBefore'
    BY <1>16 DEF RevertEnds, history, End, FetchIsBefore
  <2>5. SwapIsAtPlace'
    BY <1>16 DEF RevertEnds, history, End, SwapIsAtPlace
  <2>6. PipIsAfter'
    BY <1>16 DEF RevertEnds, history, End, PipIsAfter
  <2>7. RestoreIsListed'
    BY <1>16 DEF RevertEnds, history, End, RestoreIsListed
  <2>8. Reported'
    BY <1>16 DEF Answered, RevertEnds, history, End, FolderInv, OldIsSomewhere,
       RestoreIsListed,
        Reported, Has
  <2> QED
    BY <2>1, <2>2, <2>3, <2>4, <2>5, <2>6, <2>7, <2>8 DEF FolderInv
<1>17. CASE Killed
  <2>1. DataUntouched'
    BY <1>17, PositionsOfPaths DEF Answered, Killed, history, FolderInv,
       DataUntouched,
        RestoreIsListed, Has, FolderTypeOK
  <2>2. BackupIsOld'
    BY <1>17 DEF Answered, Killed, history, FolderInv, BackupIsOld
  <2>3. OldIsSomewhere'
    BY <1>17, PositionsOfPaths DEF Answered, Killed, history, FolderInv,
       BackupIsOld, OldIsSomewhere,
        RestoreIsListed, FolderTypeOK
  <2>4. FetchIsBefore'
    BY <1>17 DEF Killed, history, End, FetchIsBefore
  <2>5. SwapIsAtPlace'
    BY <1>17 DEF Killed, history, End, SwapIsAtPlace
  <2>6. PipIsAfter'
    BY <1>17 DEF Killed, history, End, PipIsAfter
  <2>7. RestoreIsListed'
    BY <1>17 DEF Killed, history, End, RestoreIsListed
  <2>8. Reported'
    BY <1>17 DEF Killed, history, End, Reported
  <2> QED
    BY <2>1, <2>2, <2>3, <2>4, <2>5, <2>6, <2>7, <2>8 DEF FolderInv
<1>18. CASE UNCHANGED folderVars
  BY <1>18 DEF Answered, folderVars, folder, command, history, FolderInv,
     DataUntouched, BackupIsOld,
      OldIsSomewhere, FetchIsBefore, SwapIsAtPlace, PipIsAfter, RestoreIsListed,
      Reported, Swapped
<1> QED
  BY <1>1, <1>2, <1>3, <1>4, <1>5, <1>6, <1>7, <1>8, <1>9, <1>10, <1>11, <1>12,
     <1>13, <1>14, <1>15, <1>16, <1>17, <1>18 DEF FolderSteps

LEMMA FolderInitKeeps == FolderInit => FolderInv
<1> SUFFICES ASSUME FolderInit PROVE FolderInv
  OBVIOUS
<1>1. /\ live = origin /\ backup = Nothing /\ deed = "idle" /\ outcome = "none"
  BY DEF FolderInit
<1>2. \A p \in Paths : backup[p] = Absent
  BY <1>1 DEF Nothing
<1> QED
  BY <1>1, <1>2, PositionsOfPaths DEF Answered, FolderInv, DataUntouched,
     BackupIsOld, OldIsSomewhere, FetchIsBefore, SwapIsAtPlace, PipIsAfter,
     RestoreIsListed, Reported, Has

LEMMA FolderInvariant == FolderSpec => [](FolderTypeOK /\ FolderInv)
<1>1. FolderInit => FolderTypeOK /\ FolderInv
  BY FolderInitTyped, FolderInitKeeps
<1>2. FolderTypeOK /\ FolderInv /\ [FolderNext]_folderVars => (FolderTypeOK /\ FolderInv)'
  BY FolderStepTyped, FolderStepKeeps
<1> QED
  BY <1>1, <1>2, PTL DEF FolderSpec

(***************************************************************************)
(* Whatever fails or is killed at any step of an update, of its restore or *)
(* of a rollback, the engineer's half of the folder is not touched, and    *)
(* each path of the old version is in the folder or in the backup, but for *)
(* those whose own restore raised, and those for which an incomplete       *)
(* removal had left the rest of an older copy in the backup (update.py,    *)
(* _swap_in, _restore).                                                    *)
(***************************************************************************)
THEOREM FolderStaysSafe == FolderSpec => []FolderIsSafe
<1>1. FolderInv => FolderIsSafe
  BY PositionsOfPaths DEF FolderInv, FolderIsSafe, NothingLost, OldIsSomewhere,
     Answered
<1> QED
  BY <1>1, FolderInvariant, PTL

(***************************************************************************)
(* "Updated", "restored" after pip failed, and "reverted" are what the     *)
(* folder then holds, path for path, whichever earlier commands failed or  *)
(* died, and wherever.  Two kinds of path are left out, one by one: those  *)
(* whose restore raised, and those at which the backup still held, when    *)
(* the update began to keep its own, what an incomplete removal had left   *)
(* (update.py, perform_portable_update, rollback_portable).                *)
(***************************************************************************)
THEOREM ReportsAreTrue == FolderSpec => []ReportIsTrue
<1>1. FolderInv => ReportIsTrue
  BY PositionsOfPaths DEF FolderInv, Reported, Swapped, ReportIsTrue, Answered,
     PipFailureRestores, RollbackGivesBack, UpdatedIsWhole
<1> QED
  BY <1>1, FolderInvariant, PTL

-----------------------------------------------------------------------------
(* The three together (MCSelfUpdate).                                      *)

(***************************************************************************)
(* The stories do not disturb each other: a behaviour of the whole is one  *)
(* of the folder, one of the versioned install and one of the question, so *)
(* that what is proved of each holds in every run of the whole.            *)
(***************************************************************************)
THEOREM StoriesAreApart == Spec => FolderSpec /\ VersionedSpec /\ CheckSpec
<1>1. Init => FolderInit /\ VersionedInit /\ CheckInit
  BY DEF Init
<1>2. [Next]_allVars => /\ [FolderNext]_folderVars
                        /\ [VersionedNext]_versionedVars
                        /\ [CheckNext]_checkVars
  BY DEF Next, Portable, Versioned, Home, allVars
<1> QED
  BY <1>1, <1>2, PTL DEF Spec, FolderSpec, VersionedSpec, CheckSpec

\* Every variable of self-update keeps to its values, for any constants.
THEOREM UpdateTyped == Spec => []UpdateTypeOK
<1>1. FolderTypeOK /\ VersionedTypeOK /\ CheckTypeOK => UpdateTypeOK
  BY DEF UpdateTypeOK
<1> QED
  BY <1>1, StoriesAreApart, FolderInvariant, VersionedInvariant, CheckInvariant, PTL
=============================================================================
