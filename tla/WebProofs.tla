------------------------------ MODULE WebProofs ------------------------------
(***************************************************************************)
(* The server's side of the tools, for any visitors, requests, contents,   *)
(* jobs, tabs, sheets and virtual bits.  Each part is proved of its own    *)
(* specification; LEMMA WebStories carries the results over to the one     *)
(* that TLC runs, a behaviour of which is one of the seven stories.        *)
(*                                                                         *)
(* The invariants are what each part relies on and its property does not   *)
(* say: of a progress bar, that the entry under an id that one worker has  *)
(* to itself is that worker's; of the tabs, that a request that has them   *)
(* to itself has room for what is left of it and ids that are not open; of *)
(* the DNP map, that every pending change is one, and that a sheet nobody  *)
(* typed into holds each quantity once; of the comments, that what lies in *)
(* a workbook is still told of its own VB.                                 *)
(***************************************************************************)
EXTENDS MCWeb, SessionsProofs, RdbOutputsProofs, FiniteSetTheorems,
        SequenceTheorems, TLAPS

\* A finite set of numbers has a least and a greatest.
LEMMA HasLeast ==
    ASSUME NEW S \in SUBSET Nat, S # {}, IsFiniteSet(S)
    PROVE  Min(S) \in S /\ \A y \in S : Min(S) <= y
<1> DEFINE under(x) == {y \in S : y < x}
<1>1. IsWellFoundedOn(StrictSubsetOrdering(S), SUBSET S)
  BY FS_StrictSubsetOrderingWellFounded, FS_FiniteSubsetsOfFinite
<1>2. PICK u \in {under(x) : x \in S} : \A v \in {under(x) : x \in S} :
              ~(<<v, u>> \in StrictSubsetOrdering(S))
  <2>1. {under(x) : x \in S} \subseteq SUBSET S /\ {under(x) : x \in S} # {}
    OBVIOUS
  <2> QED
    BY <1>1, <2>1, WFMin
<1>3. PICK x \in S : u = under(x)
  BY <1>2
<1>4. ASSUME NEW y \in S, y < x PROVE FALSE
  <2>0. x \in Nat /\ y \in Nat /\ S \subseteq Nat
    OBVIOUS
  <2>1. \A z \in Nat : z < y => z < x
    BY <1>4, <2>0
  <2>4. y \in under(x) /\ y \notin under(y)
    BY <1>4, <2>0
  <2>2. under(y) \subseteq under(x)
    BY <2>0, <2>1
  <2>3. <<under(y), under(x)>> \in StrictSubsetOrdering(S)
    BY <2>2, <2>4 DEF StrictSubsetOrdering
  <2> QED
    BY <1>2, <1>3, <2>3
<1>5. \A y \in S : x <= y
  BY <1>4
<1> QED
  BY <1>5 DEF Min

LEMMA HasGreatest ==
    ASSUME NEW S \in SUBSET Nat, S # {}, IsFiniteSet(S)
    PROVE  Max(S) \in S /\ \A y \in S : y <= Max(S)
<1> DEFINE over(x) == {y \in S : y > x}
<1>1. IsWellFoundedOn(StrictSubsetOrdering(S), SUBSET S)
  BY FS_StrictSubsetOrderingWellFounded, FS_FiniteSubsetsOfFinite
<1>2. PICK u \in {over(x) : x \in S} : \A v \in {over(x) : x \in S} :
              ~(<<v, u>> \in StrictSubsetOrdering(S))
  <2>1. {over(x) : x \in S} \subseteq SUBSET S /\ {over(x) : x \in S} # {}
    OBVIOUS
  <2> QED
    BY <1>1, <2>1, WFMin
<1>3. PICK x \in S : u = over(x)
  BY <1>2
<1>4. ASSUME NEW y \in S, y > x PROVE FALSE
  <2>0. x \in Nat /\ y \in Nat /\ S \subseteq Nat
    OBVIOUS
  <2>1. \A z \in Nat : z > y => z > x
    BY <1>4, <2>0
  <2>4. y \in over(x) /\ y \notin over(y)
    BY <1>4, <2>0
  <2>2. over(y) \subseteq over(x)
    BY <2>0, <2>1
  <2>3. <<over(y), over(x)>> \in StrictSubsetOrdering(S)
    BY <2>2, <2>4 DEF StrictSubsetOrdering
  <2> QED
    BY <1>2, <1>3, <2>3
<1>5. \A y \in S : x >= y
  BY <1>4
<1> QED
  BY <1>5 DEF Max

LEMMA RemoveAtIs ==
    ASSUME NEW T, NEW s \in Seq(T), NEW k \in 1 .. Len(s)
    PROVE  /\ RemoveAt(s, k) \in Seq(T) /\ Len(RemoveAt(s, k)) = Len(s) - 1
           /\ \A i \in 1 .. Len(s) - 1 :
                 RemoveAt(s, k)[i] = IF i < k THEN s[i] ELSE s[i + 1]
<1> DEFINE a == SubSeq(s, 1, k - 1)
           b == SubSeq(s, k + 1, Len(s))
<1>1. a \in Seq(T) /\ Len(a) = k - 1 /\ \A i \in 1 .. k - 1 : a[i] = s[i]
  OBVIOUS
<1>2. b \in Seq(T) /\ Len(b) = Len(s) - k /\ \A i \in 1 .. Len(s) - k : b[i] = s[k + i]
  OBVIOUS
<1> HIDE DEF a, b
<1>3. /\ a \o b \in Seq(T) /\ Len(a \o b) = Len(s) - 1
      /\ \A i \in 1 .. Len(s) - 1 : (a \o b)[i] = IF i <= k - 1 THEN a[i] ELSE b[i - (k - 1)]
  <2>1. Len(a) + Len(b) = Len(s) - 1
    BY <1>1, <1>2
  <2> QED
    <3>1. /\ a \o b \in Seq(T) /\ Len(a \o b) = Len(a) + Len(b)
          /\ \A i \in 1 .. Len(a) + Len(b) :
                (a \o b)[i] = IF i <= Len(a) THEN a[i] ELSE b[i - Len(a)]
      BY <1>1, <1>2, ConcatProperties
    <3>2. Len(a) = k - 1
      BY <1>1
    <3> QED
      BY <2>1, <3>1, <3>2
<1>4. ASSUME NEW i \in 1 .. Len(s) - 1, i >= k PROVE b[i - (k - 1)] = s[i + 1]
  <2>1. i - (k - 1) \in 1 .. Len(s) - k /\ k + (i - (k - 1)) = i + 1
    BY <1>4
  <2> QED
    BY <1>2, <2>1
<1>5. ASSUME NEW i \in 1 .. Len(s) - 1
      PROVE  (a \o b)[i] = IF i < k THEN s[i] ELSE s[i + 1]
  <2>1. CASE i < k
    <3>1. i <= k - 1 /\ i \in 1 .. k - 1
      BY <2>1
    <3> QED
      BY <1>1, <1>3, <2>1, <3>1
  <2>2. CASE ~(i < k)
    <3>1. ~(i <= k - 1) /\ i >= k
      BY <2>2
    <3> QED
      BY <1>3, <1>4, <2>2, <3>1
  <2> QED
    BY <2>1, <2>2
<1>6. RemoveAt(s, k) = a \o b
  BY DEF RemoveAt, a, b
<1> QED
  BY <1>3, <1>5, <1>6

\* One member of a sequence taken out where it is first met.
LEMMA RemoveFirstTyped ==
    ASSUME NEW T, NEW s \in Seq(T), NEW e
    PROVE  RemoveFirst(s, e) \in Seq(T)
<1> DEFINE at == {i \in 1 .. Len(s) : s[i] = e}
<1>1. CASE at = {}
  BY <1>1 DEF RemoveFirst
<1>2. CASE at # {}
  <2>1. IsFiniteSet(1 .. Len(s)) /\ at \subseteq 1 .. Len(s) /\ at \subseteq Nat
    BY FS_Interval
  <2>2. Min(at) \in at
    BY <1>2, <2>1, HasLeast, FS_Subset
  <2>3. RemoveFirst(s, e) = RemoveAt(s, Min(at))
    BY <1>2 DEF RemoveFirst, SelectInSeq
  <2> QED
    BY <2>2, <2>3, RemoveAtIs
<1> QED
  BY <1>1, <1>2

LEMMA RemoveFirstIs ==
    ASSUME NEW T, NEW s \in Seq(T), IsInjective(s), NEW e \in ToSet(s)
    PROVE  /\ RemoveFirst(s, e) \in Seq(T)
           /\ ToSet(RemoveFirst(s, e)) = ToSet(s) \ {e}
           /\ IsInjective(RemoveFirst(s, e))
<1> DEFINE at == {i \in 1 .. Len(s) : s[i] = e}
<1>1. PICK k \in 1 .. Len(s) : s[k] = e
  BY DEF ToSet
<1>2. at = {k}
  BY <1>1 DEF IsInjective
<1>3. Min(at) = k
  BY <1>2 DEF Min
<1>4. RemoveFirst(s, e) = RemoveAt(s, k)
  BY <1>1, <1>3 DEF RemoveFirst, SelectInSeq
<1> DEFINE r == RemoveAt(s, k)
<1>5. /\ r \in Seq(T) /\ Len(r) = Len(s) - 1
      /\ \A i \in 1 .. Len(s) - 1 : r[i] = IF i < k THEN s[i] ELSE s[i + 1]
  BY RemoveAtIs
<1> HIDE DEF r
<1>6. DOMAIN r = 1 .. Len(s) - 1 /\ DOMAIN s = 1 .. Len(s)
  BY <1>5
<1>7. IsInjective(r)
  <2> SUFFICES ASSUME NEW i \in DOMAIN r, NEW j \in DOMAIN r, r[i] = r[j] PROVE i = j
    BY DEF IsInjective
  <2> DEFINE a == IF i < k THEN i ELSE i + 1
             b == IF j < k THEN j ELSE j + 1
  <2>1. a \in DOMAIN s /\ b \in DOMAIN s
    BY <1>6
  <2>2. s[a] = r[i] /\ s[b] = r[j]
    BY <1>5, <1>6
  <2>3. a = b
    BY <2>1, <2>2 DEF IsInjective
  <2> QED
    BY <1>6, <2>3
<1>8. ASSUME NEW i \in DOMAIN r PROVE r[i] \in ToSet(s) \ {e}
  <2> DEFINE a == IF i < k THEN i ELSE i + 1
  <2>1. a \in DOMAIN s /\ a # k
    BY <1>6
  <2>2. r[i] = s[a]
    BY <1>5, <1>6
  <2> QED
    BY <1>1, <1>6, <2>1, <2>2 DEF IsInjective, ToSet
<1>9. ASSUME NEW i \in DOMAIN s, s[i] # e PROVE s[i] \in ToSet(r)
  <2> DEFINE a == IF i < k THEN i ELSE i - 1
  <2>1. a \in DOMAIN r /\ i # k
    BY <1>1, <1>6, <1>9
  <2>2. r[a] = s[i]
    BY <1>5, <1>6, <2>1
  <2> QED
    BY <2>1, <2>2 DEF ToSet
<1>10. ToSet(r) = ToSet(s) \ {e}
  BY <1>8, <1>9 DEF ToSet
<1> QED
  BY <1>4, <1>5, <1>7, <1>10 DEF r

LEMMA AppendIs ==
    ASSUME NEW T, NEW s \in Seq(T), NEW e \in T
    PROVE  /\ Append(s, e) \in Seq(T) /\ ToSet(Append(s, e)) = ToSet(s) \cup {e}
           /\ IsInjective(s) /\ e \notin ToSet(s) => IsInjective(Append(s, e))
<1> DEFINE r == Append(s, e)
<1>1. /\ r \in Seq(T) /\ DOMAIN r = 1 .. Len(s) + 1 /\ DOMAIN s = 1 .. Len(s)
      /\ \A i \in 1 .. Len(s) : r[i] = s[i]
      /\ r[Len(s) + 1] = e
  OBVIOUS
<1> HIDE DEF r
<1>2. \A i \in DOMAIN r : i \in DOMAIN s \/ i = Len(s) + 1
  BY <1>1
<1>3. \A i \in DOMAIN s : i \in DOMAIN r /\ i # Len(s) + 1
  BY <1>1
<1>4. Len(s) + 1 \in DOMAIN r
  BY <1>1
<1>5. ToSet(r) = ToSet(s) \cup {e}
  BY <1>1, <1>2, <1>3, <1>4 DEF ToSet
<1>6. IsInjective(s) /\ e \notin ToSet(s) => IsInjective(r)
  BY <1>1, <1>2, <1>3, <1>4 DEF ToSet, IsInjective
<1> QED
  BY <1>1, <1>5, <1>6 DEF r

-----------------------------------------------------------------------------
(* The project library (ProjectLibrary).                                   *)

\* What a thread that stands still keeps.
LEMMA IdleThreadType ==
    ASSUME NEW n \in Nat
    PROVE  Idle(n) \in [at : {"idle"}, c : Contents, tries : Nat]
           /\ Idle(n).at = "idle"
BY LibraryAssumption DEF Idle

LEMMA LibraryInitType == LibraryInit => LibraryTypeOK
BY LibraryAssumption, IdleThreadType DEF LibraryInit, LibraryTypeOK

LEMMA LibraryStepType == LibraryTypeOK /\ [LibraryNext]_libraryVars => LibraryTypeOK'
<1> SUFFICES ASSUME LibraryTypeOK, [LibraryNext]_libraryVars PROVE LibraryTypeOK'
    OBVIOUS
<1> USE LibraryAssumption DEF LibraryTypeOK
<1>1. \A p \in Posts : Idle(post[p].tries) \in
          [at : {"idle", "receiving", "moved", "known", "copying", "copied"},
           c : Contents, tries : Nat]
    BY IdleThreadType
<1>2. ASSUME NEW p \in Posts, NEW c \in Contents, Receive(p, c) PROVE LibraryTypeOK'
    BY <1>2 DEF Receive
<1>3. ASSUME NEW p \in Posts, NEW c \in Contents, Adopt(p, c) PROVE LibraryTypeOK'
    <2>1. Idle(post[p].tries + 1) \in [at : {"idle"}, c : Contents, tries : Nat]
        BY IdleThreadType
    <2> QED BY <1>3, <2>1 DEF Adopt
<1>4. ASSUME NEW p \in Posts, Refuse(p) PROVE LibraryTypeOK'
    BY <1>1, <1>4 DEF Refuse
<1>5. ASSUME NEW p \in Posts, MoveIn(p) PROVE LibraryTypeOK'
    BY <1>5 DEF MoveIn, Place
<1>6. ASSUME NEW p \in Posts, LookUp(p) PROVE LibraryTypeOK'
    BY <1>6 DEF LookUp
<1>7. ASSUME NEW p \in Posts, Discard(p) PROVE LibraryTypeOK'
    BY <1>1, <1>7 DEF Discard
<1>8. ASSUME NEW p \in Posts, Add(p) PROVE LibraryTypeOK'
    BY <1>1, <1>8 DEF Add
<1>9. ASSUME NEW c \in Contents, RemoveFile(c) PROVE LibraryTypeOK'
    BY <1>9 DEF RemoveFile
<1>10. ASSUME NEW c \in Contents, Prune(c) PROVE LibraryTypeOK'
    BY <1>10 DEF Prune
<1>11. ASSUME NEW g \in Gets, Serve(g) PROVE LibraryTypeOK'
    BY <1>11 DEF Serve
<1>12. ASSUME NEW g \in Gets, Served(g) PROVE LibraryTypeOK'
    <2>1. Idle(get[g].tries) \in [at : {"idle"}, c : Contents, tries : Nat]
        BY IdleThreadType
    <2> QED BY <1>12, <2>1 DEF Served
<1>13. ASSUME NEW g \in Gets, NEW c \in Contents, Find(g, c) PROVE LibraryTypeOK'
    <2>1. Idle(get[g].tries + 1) \in [at : {"idle"}, c : Contents, tries : Nat]
        BY IdleThreadType
    <2> QED BY <1>13, <2>1 DEF Find
<1>14. CASE UNCHANGED libraryVars
    BY <1>14 DEF libraryVars
<1> QED
    BY <1>2, <1>3, <1>4, <1>5, <1>6, <1>7, <1>8, <1>9, <1>10, <1>11, <1>12, <1>13,
       <1>14 DEF LibraryNext

(***************************************************************************)
(* Every variable of the project keeps its type, whatever is uploaded,     *)
(* adopted, removed, pruned and downloaded at once.                        *)
(***************************************************************************)
THEOREM LibraryTypeCorrect == LibrarySpec => []LibraryTypeOK
BY LibraryInitType, LibraryStepType, PTL DEF LibrarySpec

\* A content that is listed, or moved in by a thread that will list it.
Promised(c) ==
    c \in Listed \/ \E p \in Posts : post[p].at \in {"moved", "copied"} /\ post[p].c = c

LEMMA StepListed ==
    LibraryTypeOK /\ ListedIsOnDisk /\ [LibraryNext]_libraryVars => ListedIsOnDisk'
<1> SUFFICES ASSUME LibraryTypeOK, ListedIsOnDisk, [LibraryNext]_libraryVars,
                    NEW c \in Contents, c \notin crossed', Promised(c)'
             PROVE  OnDisk(c)'
    BY DEF ListedIsOnDisk, Promised
<1>1. c \notin crossed => (Promised(c) => OnDisk(c))
    BY DEF ListedIsOnDisk, Promised
\* A step that removes nothing, and promises nothing that is not on disk.
<1>2. ASSUME files \subseteq files', cached \subseteq cached', crossed' = crossed,
             Promised(c) \/ OnDisk(c)'
      PROVE  OnDisk(c)'
    BY <1>1, <1>2 DEF OnDisk
<1>3. ASSUME NEW p \in Posts, NEW d \in Contents, Receive(p, d) \/ Adopt(p, d)
      PROVE  OnDisk(c)'
    <2>1. Promised(c)
        BY <1>3 DEF Receive, Adopt, Promised, Listed, Idle, LibraryTypeOK
    <2> QED BY <1>2, <1>3, <2>1 DEF Receive, Adopt
<1>4. ASSUME NEW p \in Posts, Refuse(p) \/ Discard(p) PROVE OnDisk(c)'
    <2>1. Promised(c)
        BY <1>4 DEF Refuse, Discard, Promised, Listed, Idle, LibraryTypeOK
    <2> QED BY <1>2, <1>4, <2>1 DEF Refuse, Discard
<1>5. ASSUME NEW p \in Posts, MoveIn(p) PROVE OnDisk(c)'
    <2>1. Promised(c) \/ c = post[p].c
        BY <1>5 DEF MoveIn, Promised, Listed, LibraryTypeOK
    <2>2. c = post[p].c => OnDisk(c)'
        BY <1>5 DEF MoveIn, Place, OnDisk
    <2>3. files \subseteq files' /\ cached \subseteq cached' /\ crossed' = crossed
        BY <1>5 DEF MoveIn, Place
    <2> QED BY <1>2, <2>1, <2>2, <2>3
<1>6. ASSUME NEW p \in Posts, LookUp(p) PROVE OnDisk(c)'
    <2>1. Promised(c)
        BY <1>6 DEF LookUp, Promised, Listed, LibraryTypeOK
    <2> QED BY <1>2, <1>6, <2>1 DEF LookUp
<1>7. ASSUME NEW p \in Posts, Add(p) PROVE OnDisk(c)'
    <2>1. Promised(c)
        BY <1>7 DEF Add, Promised, Listed, Idle, LibraryTypeOK
    <2> QED BY <1>2, <1>7, <2>1 DEF Add
<1>8. ASSUME NEW d \in Contents, RemoveFile(d) PROVE OnDisk(c)'
    <2>1. c # d
        <3>1. Promised(d)' => Storing(d)
            BY <1>8 DEF RemoveFile, Promised, Listed, Storing, LibraryTypeOK
        <3> QED BY <1>8, <3>1 DEF RemoveFile
    <2>2. Promised(c) /\ c \notin crossed
        BY <1>8, <2>1 DEF RemoveFile, Promised, Listed, LibraryTypeOK
    <2>3. OnDisk(c) => OnDisk(c)'
        BY <1>8, <2>1 DEF RemoveFile, OnDisk
    <2> QED BY <1>1, <2>2, <2>3
<1>9. ASSUME NEW d \in Contents, Prune(d) PROVE OnDisk(c)'
    <2>1. c # d /\ c \notin crossed
        BY <1>9 DEF Prune
    <2>2. Promised(c)
        BY <1>9 DEF Prune, Promised, Listed
    <2> QED BY <1>1, <1>9, <2>1, <2>2 DEF Prune, OnDisk
<1>10. ASSUME UNCHANGED <<entries, files, cached, post, crossed>> PROVE OnDisk(c)'
    BY <1>2, <1>10 DEF Promised, Listed
<1>11. ASSUME NEW g \in Gets, Serve(g) \/ Served(g) \/ \E d \in Contents : Find(g, d)
       PROVE  OnDisk(c)'
    BY <1>10, <1>11 DEF Serve, Served, Find
<1>12. CASE UNCHANGED libraryVars
    BY <1>10, <1>12 DEF libraryVars
<1> QED
    BY <1>3, <1>4, <1>5, <1>6, <1>7, <1>8, <1>9, <1>11, <1>12 DEF LibraryNext

(***************************************************************************)
(* For any threads that store, remove, prune and download: a listed file   *)
(* has its bytes on disk, unless it was removed while a thread stored the  *)
(* same bytes, or pruned.                                                  *)
(***************************************************************************)
THEOREM ListedIsOnDiskHolds == LibrarySpec => []ListedIsOnDisk
<1>1. LibraryInit => ListedIsOnDisk
    <2> SUFFICES ASSUME LibraryInit, NEW c \in Contents, Promised(c) PROVE FALSE
        BY DEF ListedIsOnDisk, Promised
    <2>1. c \notin Listed
        BY DEF LibraryInit, Listed
    <2>2. \A p \in Posts : post[p].at = "idle"
        BY IdleThreadType DEF LibraryInit
    <2> QED BY <2>1, <2>2 DEF Promised
<1> QED BY <1>1, StepListed, LibraryTypeCorrect, PTL DEF LibrarySpec

-----------------------------------------------------------------------------
(* The progress bars (JobRegistry).                                        *)

\* What the registry says of a worker that has its id to itself is what that
\* worker said, and so is what its page was shown.
SaidByItself(w) ==
    /\ \A e \in jobs : e.id = JobOf[w] =>
          /\ e.by = w /\ e.stage <= worker[w]
          /\ e.done => worker[w] = Stages + 1
    /\ bar[w].stage <= worker[w] /\ bar[w].by \in {w, "nobody"}
    /\ bar[w].done => worker[w] = Stages + 1

RegistryInv ==
    /\ RegistryTypeOK
    /\ bar \in [Workers -> [by : Workers \cup {"nobody"}, stage : Nat, done : BOOLEAN]]
    /\ \A w \in Workers : Alone(w) => SaidByItself(w)

LEMMA RegistryNumbers == Stages \in Nat /\ JobTtl \in Nat /\ Limit \in Nat
BY RegistryAssumption

LEMMA RegistryInitInv == RegistryInit => RegistryInv
<1> SUFFICES ASSUME RegistryInit PROVE RegistryInv
  OBVIOUS
<1>1. Blank \in [by : Workers \cup {"nobody"}, stage : Nat, done : BOOLEAN]
      /\ Blank.by = "nobody" /\ Blank.stage = 0 /\ ~Blank.done
  BY DEF Blank
<1>2. worker = [w \in Workers |-> 0] /\ bar = [w \in Workers |-> Blank] /\ jobs = {} /\ time = 0
  BY DEF RegistryInit
<1>3. RegistryTypeOK
  BY <1>2, RegistryNumbers DEF RegistryTypeOK
<1>4. \A w \in Workers : SaidByItself(w)
  BY <1>1, <1>2 DEF SaidByItself
<1> QED
  BY <1>1, <1>2, <1>3, <1>4 DEF RegistryInv

LEMMA NowIsFresh ==
    ASSUME time \in Nat, NEW e, e.ts = time \/ (e.ts \in Nat /\ e.ts + JobTtl >= time)
    PROVE  Fresh(e)
BY RegistryNumbers DEF Fresh

\* A worker only ever gets further.
LEMMA WorkerMoves ==
    ASSUME RegistryTypeOK, NEW v \in Workers, NEW n \in 1 .. Stages + 1, n > worker[v],
           worker' = [worker EXCEPT ![v] = n]
    PROVE  /\ worker' \in [Workers -> 0 .. Stages + 1] /\ worker'[v] = n
           /\ \A w \in Workers : w # v => worker'[w] = worker[w]
           /\ worker[v] # Stages + 1 /\ n \in Nat /\ n <= n
           /\ \A m \in Nat : m <= worker[v] => m <= n
BY RegistryNumbers DEF RegistryTypeOK

\* Writing under an id: one entry of it, and of every other id what was there,
\* or nothing.
LEMMA SetJobIs ==
    ASSUME RegistryTypeOK, NEW w \in Workers, JobOf[w] # "",
           NEW stage \in 1 .. Stages + 1, NEW done \in BOOLEAN,
           SetJob(JobOf[w], w, stage, done)
    PROVE  LET new == [id |-> JobOf[w], by |-> w, stage |-> stage, done |-> done, ts |-> time]
           IN  /\ jobs' \subseteq {e \in jobs : e.id # JobOf[w]} \cup {new}
               /\ new \in jobs'
               /\ \A e \in jobs : e.id # JobOf[w] /\ e.ts + JobTtl >= time => e \in jobs'
<1> DEFINE new == [id |-> JobOf[w], by |-> w, stage |-> stage, done |-> done, ts |-> time]
           all == (jobs \ Entry(JobOf[w])) \cup {new}
<1>1. jobs' = IF Cardinality(all) > Limit THEN {e \in all : Fresh(e)} ELSE all
  BY DEF SetJob
<1>2. new.id = JobOf[w] /\ new.ts = time
  OBVIOUS
<1>3. time \in Nat /\ \A e \in jobs : e.ts \in Nat
  BY DEF RegistryTypeOK
<1> HIDE DEF new
<1>4. Fresh(new)
  BY <1>2, <1>3, NowIsFresh
<1>5. \A e \in jobs : e.ts + JobTtl >= time => Fresh(e)
  BY <1>3, NowIsFresh
<1>6. \A e \in jobs : e \in all <=> e.id # JobOf[w] \/ e = new
  BY DEF Entry
<1>7. all \subseteq {e \in jobs : e.id # JobOf[w]} \cup {new} /\ new \in all
  BY DEF Entry
<1> HIDE DEF all
<1> QED
  BY <1>1, <1>4, <1>5, <1>6, <1>7 DEF new

\* What a step may do to the registry's entries.
EntriesLast ==
    \A e \in jobs : e.ts + JobTtl >= time
       => \/ \E f \in jobs' : f.id = e.id
          \/ \E w \in Connecting : e.id = JobOf[w] /\ Drop(w)

\* A worker says something.
LEMMA SayKeeps ==
    ASSUME RegistryInv, NEW v \in Workers, NEW n \in 1 .. Stages + 1, n > worker[v],
           NEW done \in BOOLEAN, done => n = Stages + 1,
           worker' = [worker EXCEPT ![v] = n], UNCHANGED <<time, bar>>,
           IF JobOf[v] = "" THEN UNCHANGED jobs ELSE SetJob(JobOf[v], v, n, done)
    PROVE  RegistryInv' /\ EntriesLast
<1> DEFINE new == [id |-> JobOf[v], by |-> v, stage |-> n, done |-> done, ts |-> time]
<1>1. RegistryTypeOK
  BY DEF RegistryInv
<1>2. JobOf[v] # "" =>
          /\ jobs' \subseteq {e \in jobs : e.id # JobOf[v]} \cup {new}
          /\ new \in jobs'
          /\ \A e \in jobs : e.id # JobOf[v] /\ e.ts + JobTtl >= time => e \in jobs'
  BY <1>1, SetJobIs
<1>3. JobOf[v] = "" => jobs' = jobs
  OBVIOUS
<1>4. /\ new.id = JobOf[v] /\ new.by = v /\ new.stage = n /\ new.done = done /\ new.ts = time
  OBVIOUS
<1> HIDE DEF new
<1>5. /\ worker' \in [Workers -> 0 .. Stages + 1] /\ worker'[v] = n
      /\ \A w \in Workers : w # v => worker'[w] = worker[w]
      /\ worker[v] # Stages + 1 /\ n \in Nat /\ n <= n
      /\ \A m \in Nat : m <= worker[v] => m <= n
  BY <1>1, WorkerMoves
<1>6. RegistryTypeOK'
  <2>1. JobOf[v] # "" => JobOf[v] \in Ids
    BY DEF Ids
  <2>2. \A e \in jobs' : /\ e.id \in Ids /\ e.by \in Workers /\ e.ts \in Nat
                          /\ e.stage \in 1 .. Stages + 1 /\ e.done \in BOOLEAN
    BY <1>1, <1>2, <1>3, <1>4, <2>1 DEF RegistryTypeOK
  <2>3. \A e, f \in jobs' : e.id = f.id => e = f
    BY <1>1, <1>2, <1>3, <1>4 DEF RegistryTypeOK
  <2>4. worker' \in [Workers -> 0 .. Stages + 1] /\ time' \in Nat
    BY <1>1, <1>5 DEF RegistryTypeOK
  <2> QED
    BY <2>2, <2>3, <2>4 DEF RegistryTypeOK, Ids
<1>7. ASSUME NEW w \in Workers, Alone(w)' PROVE SaidByItself(w)'
  <2>1. Alone(w) /\ JobOf[w] # ""
    BY <1>7 DEF Alone
  <2>2. SaidByItself(w)
    BY <2>1 DEF RegistryInv
  <2>3. worker[w] \in 0 .. Stages + 1 /\ bar[w].stage \in Nat /\ bar'[w] = bar[w]
    BY <1>1 DEF RegistryInv, RegistryTypeOK
  <2>4. CASE w = v
    <3>1. \A e \in jobs' : e.id = JobOf[w] => e = new
      BY <1>2, <2>1, <2>4
    <3>2. ~bar[w].done
      BY <1>5, <2>2, <2>4 DEF SaidByItself
    <3>3. bar[w].stage <= n
      BY <1>5, <2>2, <2>3, <2>4 DEF SaidByItself
    <3>4. \A e \in jobs' : e.id = JobOf[w] =>
              e.by = w /\ e.stage <= worker'[w] /\ (e.done => worker'[w] = Stages + 1)
      BY <1>4, <1>5, <2>4, <3>1
    <3> QED
      BY <1>5, <2>2, <2>3, <2>4, <3>2, <3>3, <3>4 DEF SaidByItself
  <2>5. CASE w # v
    <3>1. JobOf[v] # JobOf[w]
      BY <2>1, <2>5 DEF Alone
    <3>2. \A e \in jobs' : e.id = JobOf[w] => e \in jobs
      BY <1>2, <1>3, <1>4, <3>1
    <3> QED
      BY <1>5, <2>2, <2>3, <2>5, <3>2 DEF SaidByItself
  <2> QED
    BY <2>4, <2>5
<1>8. RegistryInv'
  BY <1>6, <1>7 DEF RegistryInv
<1>9. EntriesLast
  BY <1>2, <1>3, <1>4 DEF EntriesLast
<1> QED
  BY <1>8, <1>9

LEMMA RegistryStep ==
    ASSUME RegistryInv, [RegistryNext]_registryVars
    PROVE  RegistryInv' /\ (UNCHANGED registryVars \/ EntriesLast)
<1>0. RegistryTypeOK
  BY DEF RegistryInv
<1>1. ASSUME NEW v \in Workers, Report(v) PROVE RegistryInv' /\ EntriesLast
  <2>1. worker[v] \in 0 .. Stages + 1 /\ worker[v] < Stages
    BY <1>0, <1>1 DEF Report, RegistryTypeOK
  <2>2. worker[v] + 1 \in 1 .. Stages + 1 /\ worker[v] + 1 > worker[v]
    BY <2>1, RegistryNumbers
  <2>3. worker' = [worker EXCEPT ![v] = worker[v] + 1]
    BY <1>1 DEF Report
  <2> QED
    BY <1>1, <2>2, <2>3, SayKeeps DEF Report
<1>2. ASSUME NEW v \in Workers, End(v) PROVE RegistryInv' /\ EntriesLast
  <2>1. worker[v] \in 0 .. Stages + 1 /\ worker[v] <= Stages
    BY <1>0, <1>2 DEF End, RegistryTypeOK
  <2>2. Stages + 1 \in 1 .. Stages + 1 /\ Stages + 1 > worker[v]
    BY <2>1, RegistryNumbers
  <2> QED
    BY <1>2, <2>2, SayKeeps DEF End
<1>3. ASSUME NEW v \in Workers, Poll(v) PROVE RegistryInv' /\ EntriesLast
  <2> DEFINE e == CHOOSE e \in Entry(JobOf[v]) : TRUE
             told == IF Entry(JobOf[v]) = {} THEN Blank
                     ELSE [by |-> e.by, stage |-> e.stage, done |-> e.done]
  <2>1. bar' = [bar EXCEPT ![v] = told] /\ UNCHANGED <<time, jobs, worker>>
    BY <1>3 DEF Poll
  <2>2. Entry(JobOf[v]) # {} => e \in jobs /\ e.id = JobOf[v]
    BY DEF Entry
  <2>3. /\ Entry(JobOf[v]) # {} => told.by = e.by /\ told.stage = e.stage /\ told.done = e.done
        /\ Entry(JobOf[v]) = {} => told.by = "nobody" /\ told.stage = 0 /\ ~told.done
    BY DEF Blank
  <2>4. told \in [by : Workers \cup {"nobody"}, stage : Nat, done : BOOLEAN]
    <3>1. CASE Entry(JobOf[v]) = {}
      BY <3>1 DEF Blank
    <3>2. CASE Entry(JobOf[v]) # {}
      <4>1. e.by \in Workers /\ e.stage \in Nat /\ e.done \in BOOLEAN
        BY <1>0, <2>2, <3>2, RegistryNumbers DEF RegistryTypeOK
      <4> QED
        BY <3>2, <4>1
    <3> QED
      BY <3>1, <3>2
  <2> HIDE DEF told, e
  <2>5. /\ bar' \in [Workers -> [by : Workers \cup {"nobody"}, stage : Nat, done : BOOLEAN]]
        /\ bar'[v] = told /\ \A w \in Workers : w # v => bar'[w] = bar[w]
    BY <2>1, <2>4 DEF RegistryInv
  <2>6. ASSUME NEW w \in Workers, Alone(w)' PROVE SaidByItself(w)'
    <3>1. SaidByItself(w)
      BY <2>6 DEF Alone, RegistryInv
    <3>2. worker[w] \in Nat
      BY <1>0, RegistryNumbers DEF RegistryTypeOK
    <3>3. CASE w = v
      BY <2>1, <2>2, <2>3, <2>5, <3>1, <3>2, <3>3 DEF SaidByItself
    <3>4. CASE w # v
      BY <2>1, <2>5, <3>1, <3>4 DEF SaidByItself
    <3> QED
      BY <3>3, <3>4
  <2>7. RegistryTypeOK'
    BY <1>0, <2>1 DEF RegistryTypeOK, Ids
  <2> QED
    BY <2>1, <2>5, <2>6, <2>7 DEF RegistryInv, EntriesLast
<1>4. ASSUME NEW v \in Workers, Drop(v) PROVE RegistryInv' /\ EntriesLast
  <2>1. v \in Connecting /\ jobs' = jobs \ Entry(JobOf[v]) /\ UNCHANGED <<time, worker, bar>>
    BY <1>4 DEF Drop
  <2>2. RegistryTypeOK'
    BY <1>0, <2>1 DEF RegistryTypeOK, Ids
  <2>3. RegistryInv'
    BY <2>1, <2>2 DEF RegistryInv, Alone, SaidByItself
  <2>4. \A e \in jobs : e \in jobs' \/ e.id = JobOf[v]
    BY <2>1 DEF Entry
  <2> QED
    BY <1>4, <2>1, <2>3, <2>4 DEF EntriesLast
<1>5. CASE TimePasses
  <2>1. time' = time + 1 /\ UNCHANGED <<jobs, worker, bar>>
    BY <1>5 DEF TimePasses
  <2>2. time' \in Nat
    BY <1>0, <2>1 DEF RegistryTypeOK
  <2>3. RegistryTypeOK'
    BY <1>0, <2>1, <2>2 DEF RegistryTypeOK, Ids
  <2> QED
    BY <2>1, <2>3 DEF RegistryInv, Alone, SaidByItself, EntriesLast
<1>6. CASE UNCHANGED registryVars
  BY <1>6 DEF registryVars, RegistryInv, RegistryTypeOK, Ids, Alone, SaidByItself
<1> QED
  BY <1>1, <1>2, <1>3, <1>4, <1>5, <1>6 DEF RegistryNext

LEMMA RegistryInvariant == RegistrySpec => []RegistryInv
<1> QED
  BY RegistryInitInv, RegistryStep, PTL DEF RegistrySpec

(***************************************************************************)
(* A bar never runs ahead of the work it shows nor shows another's, and    *)
(* no entry younger than the TTL is pruned, for any number of workers,     *)
(* stages and entries (progress.py, ProgressRegistry.set).                 *)
(***************************************************************************)
THEOREM ProgressIsTrueHolds == RegistrySpec => ProgressIsTrue
<1>1. RegistryInv => BarsAreTrue
  BY DEF RegistryInv, BarsAreTrue, SaidByItself
<1>2. RegistryInv /\ [RegistryNext]_registryVars
      => [BarsAreTrue' /\ EntriesLast]_registryVars
  <2>1. RegistryInv' => BarsAreTrue'
    BY DEF RegistryInv, BarsAreTrue, SaidByItself
  <2> QED
    BY <2>1, RegistryStep
<1> QED
  BY <1>2, RegistryInvariant, PTL DEF RegistrySpec, ProgressIsTrue, EntriesLast

-----------------------------------------------------------------------------
(* The tabs of a session (GlvTabs).                                        *)

CallRecords ==
    [at : {"idle", "check", "draw", "name", "build", "last", "close", "choose"},
     left : 0 .. MaxBatch, id : 0 .. MaxCounter, first : 0 .. MaxCounter]

OpeningPlaces == {"check", "draw", "name", "build"}

\* What a request on its way has settled already.
CallsAreSound ==
    \A c \in Calls :
        /\ call[c].at \in OpeningPlaces => call[c].left >= 1
        /\ call[c].at = "name" => counter >= 1
        /\ call[c].at \in {"build", "close", "choose"} => call[c].id >= 1

\* Where no two requests have overlapped: there is one at most, the tabs it is
\* about to open fit and have ids of their own, and those it is about to close
\* or to show are there.
OneAtATime ==
    /\ \A c, d \in Calls : call[c].at # "idle" /\ call[d].at # "idle" => c = d
    /\ Count <= MaxOpen /\ \A i \in Open : i <= counter
    /\ \A c \in Calls :
        /\ call[c].at \in OpeningPlaces => Count + call[c].left <= MaxOpen
        /\ call[c].at = "name" => counter \notin Open
        /\ call[c].at = "build" => call[c].id = counter /\ counter \notin Open
        /\ call[c].at \in {"close", "choose"} => call[c].id \in Open
        /\ call[c].first \in Open \cup {0}
        /\ call[c].at = "idle" => call[c].first = 0

StripAgrees ==
    /\ ToSet(order) = Open /\ IsInjective(order)
    /\ active \in Open \cup {0} /\ (active = 0 <=> Open = {})

TabsInv ==
    /\ TabsTypeOK /\ CallsAreSound
    /\ ~crowd => OneAtATime /\ StripAgrees

LEMMA TabsNumbers == MaxOpen \in Nat /\ MaxBatch \in Nat /\ MaxCounter \in Nat
BY TabsAssumption

LEMMA OpenIsFinite ==
    /\ Open \subseteq 1 .. MaxCounter /\ IsFiniteSet(Open) /\ Count \in Nat
    /\ Open' \subseteq 1 .. MaxCounter /\ IsFiniteSet(Open') /\ Count' \in Nat
<1>1. IsFiniteSet(1 .. MaxCounter)
  BY FS_Interval, TabsNumbers
<1>2. Open \subseteq 1 .. MaxCounter /\ Open' \subseteq 1 .. MaxCounter
  BY DEF Open
<1>3. IsFiniteSet(Open) /\ IsFiniteSet(Open')
  BY <1>1, <1>2, FS_Subset
<1> QED
  BY <1>2, <1>3, FS_CardinalityType DEF Count

\* A request takes its next step, the others wait.
MoveCall(c, at, left, id, first) ==
    call' = [call EXCEPT ![c] = [at |-> at, left |-> left, id |-> id, first |-> first]]

LEMMA MovesTo ==
    ASSUME TabsTypeOK, NEW c \in Calls,
           NEW at \in {"idle", "check", "draw", "name", "build", "last", "close", "choose"},
           NEW left \in 0 .. MaxBatch, NEW id \in 0 .. MaxCounter,
           NEW first \in 0 .. MaxCounter, MoveCall(c, at, left, id, first)
    PROVE  /\ call' \in [Calls -> CallRecords]
           /\ call'[c].at = at /\ call'[c].left = left
           /\ call'[c].id = id /\ call'[c].first = first
           /\ \A d \in Calls : d # c => call'[d] = call[d]
BY DEF TabsTypeOK, CallRecords, MoveCall

LEMMA CallIs ==
    ASSUME TabsTypeOK, NEW c \in Calls
    PROVE  /\ call[c] \in CallRecords
           /\ call[c].at \in {"idle", "check", "draw", "name", "build", "last",
                              "close", "choose"}
           /\ call[c].left \in 0 .. MaxBatch /\ call[c].left \in Nat
           /\ call[c].id \in 0 .. MaxCounter /\ call[c].id \in Nat
           /\ call[c].first \in 0 .. MaxCounter
           /\ \A at : [call EXCEPT ![c].at = at] = [call EXCEPT ![c] =
                [at |-> at, left |-> call[c].left, id |-> call[c].id, first |-> call[c].first]]
<1>1. call \in [Calls -> CallRecords] /\ call[c] \in CallRecords
  BY DEF TabsTypeOK, CallRecords
<1>2. /\ call[c].at \in {"idle", "check", "draw", "name", "build", "last", "close", "choose"}
      /\ call[c].left \in 0 .. MaxBatch /\ call[c].id \in 0 .. MaxCounter
      /\ call[c].first \in 0 .. MaxCounter
  BY <1>1 DEF CallRecords
<1>3. call[c].left \in Nat /\ call[c].id \in Nat
  BY <1>2, TabsNumbers
<1>4. ASSUME NEW at
      PROVE  [call[c] EXCEPT !.at = at] =
                [at |-> at, left |-> call[c].left, id |-> call[c].id, first |-> call[c].first]
  BY <1>1 DEF CallRecords
<1> QED
  BY <1>1, <1>2, <1>3, <1>4

\* What each action makes of its request.
LEMMA CallForms ==
    ASSUME TabsTypeOK, NEW c \in Calls
    PROVE  /\ \A n \in 1 .. MaxBatch : Ask1(c, n) => MoveCall(c, "check", n, 0, 0)
           /\ Resolve1(c) => \/ MoveCall(c, "draw", call[c].left, call[c].id, call[c].first)
                             \/ MoveCall(c, "idle", 0, 0, 0)
           /\ Draw(c) => MoveCall(c, "name", call[c].left, call[c].id, call[c].first)
           /\ Name(c) => MoveCall(c, "build", call[c].left, counter, call[c].first)
           /\ \A id : Onward(c, id) =>
                MoveCall(c, IF call[c].left > 1 THEN "draw" ELSE "last", call[c].left - 1, 0,
                      IF call[c].first = 0 THEN id ELSE call[c].first)
           /\ LastItem(c) \/ Close1(c) \/ Choose(c) => MoveCall(c, "idle", 0, 0, 0)
           /\ \A i \in 1 .. MaxCounter, what \in {"close", "choose"} :
                Find1(c, i, what) => MoveCall(c, what, 0, i, 0)
<1>1. \A at : [call EXCEPT ![c].at = at] = [call EXCEPT ![c] =
                [at |-> at, left |-> call[c].left, id |-> call[c].id, first |-> call[c].first]]
  BY CallIs
<1>2. [call[c] EXCEPT !.at = "build", !.id = counter] =
          [at |-> "build", left |-> call[c].left, id |-> counter, first |-> call[c].first]
  <2> DEFINE s == [at |-> "build", left |-> call[c].left, id |-> call[c].id,
                   first |-> call[c].first]
  <2>1. call[c] \in CallRecords
    BY CallIs
  <2>2. [call[c] EXCEPT !.at = "build"] = s
    BY <2>1 DEF CallRecords
  <2>3. [call[c] EXCEPT !.at = "build", !.id = counter] = [s EXCEPT !.id = counter]
    BY <2>2
  <2> QED
    BY <2>3
<1>3. call \in [Calls -> CallRecords]
  BY DEF TabsTypeOK, CallRecords
<1>4. Name(c) => MoveCall(c, "build", call[c].left, counter, call[c].first)
  BY <1>2, <1>3 DEF Name, MoveCall
<1>5. \A id : Onward(c, id) =>
          MoveCall(c, IF call[c].left > 1 THEN "draw" ELSE "last", call[c].left - 1, 0,
                IF call[c].first = 0 THEN id ELSE call[c].first)
  BY <1>3 DEF Onward, MoveCall
<1>6. Resolve1(c) => \/ MoveCall(c, "draw", call[c].left, call[c].id, call[c].first)
                     \/ MoveCall(c, "idle", 0, 0, 0)
  BY <1>1 DEF Resolve1, MoveCall, Quiet
<1>7. Draw(c) => MoveCall(c, "name", call[c].left, call[c].id, call[c].first)
  BY <1>1 DEF Draw, MoveCall
<1>8. \A n \in 1 .. MaxBatch : Ask1(c, n) => MoveCall(c, "check", n, 0, 0)
  BY DEF Ask1, MoveCall, Quiet
<1>9. LastItem(c) \/ Close1(c) \/ Choose(c) => MoveCall(c, "idle", 0, 0, 0)
  BY DEF LastItem, Close1, Choose, MoveCall, Quiet
<1>10. \A i \in 1 .. MaxCounter, what \in {"close", "choose"} :
          Find1(c, i, what) => MoveCall(c, what, 0, i, 0)
  BY DEF Find1, MoveCall, Quiet
<1> QED
  BY <1>4, <1>5, <1>6, <1>7, <1>8, <1>9, <1>10

\* The types of the requests, and what they have settled.
LEMMA SoundMove ==
    ASSUME TabsTypeOK, CallsAreSound, NEW c \in Calls,
           NEW at \in {"idle", "check", "draw", "name", "build", "last", "close", "choose"},
           NEW left \in 0 .. MaxBatch, NEW id \in 0 .. MaxCounter,
           NEW first \in 0 .. MaxCounter, MoveCall(c, at, left, id, first),
           counter' \in 0 .. MaxCounter, counter' >= counter,
           at \in OpeningPlaces => left >= 1, at = "name" => counter' >= 1,
           at \in {"build", "close", "choose"} => id >= 1
    PROVE  CallsAreSound' /\ call' \in [Calls -> CallRecords]
<1>1. /\ call' \in [Calls -> CallRecords]
      /\ call'[c].at = at /\ call'[c].left = left
      /\ call'[c].id = id /\ call'[c].first = first
      /\ \A d \in Calls : d # c => call'[d] = call[d]
  BY MovesTo
<1>2. counter >= 1 => counter' >= 1
  BY DEF TabsTypeOK
<1> QED
  BY <1>1, <1>2 DEF CallsAreSound, OpeningPlaces

LEMMA TabsSound ==
    ASSUME TabsTypeOK, CallsAreSound, TabsNext
    PROVE  CallsAreSound' /\ call' \in [Calls -> CallRecords]
           /\ counter' \in 0 .. MaxCounter
<1>0. counter \in 0 .. MaxCounter /\ counter \in Nat /\ counter >= counter
  BY TabsNumbers DEF TabsTypeOK
<1>n. 0 \in 0 .. MaxBatch /\ 0 \in 0 .. MaxCounter
  BY TabsNumbers
<1>1. ASSUME NEW c \in Calls, NEW n \in 1 .. MaxBatch, Ask1(c, n)
      PROVE  CallsAreSound' /\ call' \in [Calls -> CallRecords] /\ counter' \in 0 .. MaxCounter
  <2>1. n \in 0 .. MaxBatch /\ n >= 1
    BY TabsNumbers
  <2> QED
    BY <1>0, <1>n, <1>1, <2>1, CallForms, SoundMove DEF Ask1
<1>2. ASSUME NEW c \in Calls, Resolve1(c)
      PROVE  CallsAreSound' /\ call' \in [Calls -> CallRecords] /\ counter' \in 0 .. MaxCounter
  <2>1. call[c].left >= 1 /\ counter' = counter
    BY <1>2 DEF Resolve1, CallsAreSound, OpeningPlaces
  <2>2. CASE MoveCall(c, "draw", call[c].left, call[c].id, call[c].first)
    BY <1>0, <2>1, <2>2, CallIs, SoundMove
  <2>3. CASE MoveCall(c, "idle", 0, 0, 0)
    BY <1>0, <1>n, <2>1, <2>3, SoundMove DEF OpeningPlaces
  <2> QED
    BY <1>2, <2>2, <2>3, CallForms
<1>3. ASSUME NEW c \in Calls, Draw(c)
      PROVE  CallsAreSound' /\ call' \in [Calls -> CallRecords] /\ counter' \in 0 .. MaxCounter
  <2>1. call[c].left >= 1
    BY <1>3 DEF Draw, CallsAreSound, OpeningPlaces
  <2>2. counter' = counter + 1 /\ counter < MaxCounter
    BY <1>3 DEF Draw
  <2>3. counter' \in 0 .. MaxCounter /\ counter' >= counter /\ counter' >= 1
    BY <1>0, <2>2, TabsNumbers
  <2> QED
    BY <1>0, <1>3, <2>1, <2>3, CallForms, CallIs, SoundMove
<1>4. ASSUME NEW c \in Calls, Name(c)
      PROVE  CallsAreSound' /\ call' \in [Calls -> CallRecords] /\ counter' \in 0 .. MaxCounter
  <2>1. call[c].left >= 1 /\ counter >= 1 /\ counter' = counter
    BY <1>4 DEF Name, CallsAreSound, OpeningPlaces
  <2> QED
    BY <1>0, <1>4, <2>1, CallForms, CallIs, SoundMove
<1>5. ASSUME NEW c \in Calls, NEW id \in 0 .. MaxCounter, call[c].at = "build",
             Onward(c, id), counter' = counter
      PROVE  CallsAreSound' /\ call' \in [Calls -> CallRecords] /\ counter' \in 0 .. MaxCounter
  <2> DEFINE at == IF call[c].left > 1 THEN "draw" ELSE "last"
             first == IF call[c].first = 0 THEN id ELSE call[c].first
  <2>1. call[c].left >= 1
    BY <1>5 DEF CallsAreSound, OpeningPlaces
  <2>2. call[c].left - 1 \in 0 .. MaxBatch /\ (call[c].left > 1 => call[c].left - 1 >= 1)
    BY <2>1, CallIs, TabsNumbers
  <2>3. at \in {"draw", "last"} /\ (at = "draw" => call[c].left - 1 >= 1)
    BY <2>2
  <2>4. first \in 0 .. MaxCounter
    BY CallIs
  <2>5. MoveCall(c, at, call[c].left - 1, 0, first)
    BY <1>5, CallForms
  <2> HIDE DEF at, first
  <2>6. at \in {"idle", "check", "draw", "name", "build", "last", "close", "choose"}
        /\ at # "name" /\ at \notin {"build", "close", "choose"}
        /\ (at \in OpeningPlaces => call[c].left - 1 >= 1)
    BY <2>3 DEF OpeningPlaces
  <2> QED
    BY <1>0, <1>n, <1>5, <2>2, <2>4, <2>5, <2>6, SoundMove
<1>6. ASSUME NEW c \in Calls, Build(c) \/ RenderFails(c)
      PROVE  CallsAreSound' /\ call' \in [Calls -> CallRecords] /\ counter' \in 0 .. MaxCounter
  BY <1>n, <1>5, <1>6, CallIs DEF Build, RenderFails
<1>7. ASSUME NEW c \in Calls, LastItem(c) \/ Close1(c) \/ Choose(c)
      PROVE  CallsAreSound' /\ call' \in [Calls -> CallRecords] /\ counter' \in 0 .. MaxCounter
  <2>1. counter' = counter
    BY <1>7 DEF LastItem, Close1, Choose
  <2> QED
    BY <1>0, <1>n, <1>7, <2>1, CallForms, SoundMove DEF OpeningPlaces
<1>8. ASSUME NEW c \in Calls, NEW i \in 1 .. MaxCounter, NEW what \in {"close", "choose"},
             Find1(c, i, what)
      PROVE  CallsAreSound' /\ call' \in [Calls -> CallRecords] /\ counter' \in 0 .. MaxCounter
  <2>1. counter' = counter /\ i \in 0 .. MaxCounter /\ i >= 1
    BY <1>8, TabsNumbers DEF Find1
  <2>2. what \notin OpeningPlaces /\ what # "name"
    BY DEF OpeningPlaces
  <2> QED
    BY <1>0, <1>n, <1>8, <2>1, <2>2, CallForms, SoundMove
<1>9. CASE CloseAll
  BY <1>9 DEF CloseAll, TabsTypeOK, CallRecords, CallsAreSound
<1> QED
  BY <1>1, <1>2, <1>3, <1>4, <1>6, <1>7, <1>8, <1>9 DEF TabsNext

LEMMA TabsTyped ==
    ASSUME TabsTypeOK, CallsAreSound, TabsNext
    PROVE  TabsTypeOK' /\ CallsAreSound'
<1>1. CallsAreSound' /\ call' \in [Calls -> CallRecords] /\ counter' \in 0 .. MaxCounter
  BY TabsSound
<1>2. crowd' \in BOOLEAN
  BY DEF TabsTypeOK, TabsNext, Ask1, Resolve1, Draw, Name, Build, RenderFails,
     LastItem,
         Find1, Close1, Choose, CloseAll
<1>3. /\ diagrams' \in [1 .. MaxCounter -> Nat] /\ builds' \in Nat
      /\ order' \in Seq(1 .. MaxCounter) /\ active' \in 0 .. MaxCounter
  <2>0. /\ diagrams \in [1 .. MaxCounter -> Nat] /\ builds \in Nat
        /\ order \in Seq(1 .. MaxCounter) /\ active \in 0 .. MaxCounter
    BY DEF TabsTypeOK
  <2>1. ASSUME NEW c \in Calls, Build(c)
        PROVE  /\ diagrams' \in [1 .. MaxCounter -> Nat] /\ builds' \in Nat
               /\ order' \in Seq(1 .. MaxCounter) /\ active' \in 0 .. MaxCounter
    <3>1. call[c].id >= 1 /\ call[c].id \in 0 .. MaxCounter
      BY <2>1, CallIs DEF Build, CallsAreSound
    <3>2. call[c].id \in 1 .. MaxCounter
      BY <3>1, TabsNumbers
    <3>3. order' \in Seq(1 .. MaxCounter)
      BY <2>0, <2>1, <3>2, AppendIs DEF Build
    <3> QED
      BY <2>0, <2>1, <3>1, <3>2, <3>3 DEF Build
  <2>2. ASSUME NEW c \in Calls, LastItem(c) \/ Choose(c)
        PROVE  active' \in 0 .. MaxCounter
    BY <2>0, <2>2, CallIs DEF LastItem, Choose
  <2>3. ASSUME NEW c \in Calls, Close1(c)
        PROVE  /\ diagrams' \in [1 .. MaxCounter -> Nat]
               /\ order' \in Seq(1 .. MaxCounter) /\ active' \in 0 .. MaxCounter
    <3>1. order' \in Seq(1 .. MaxCounter) /\ order' = RemoveFirst(order, call[c].id)
      BY <2>0, <2>3, RemoveFirstTyped DEF Close1
    <3>2. Rightmost(order') \in 0 .. MaxCounter
      BY <3>1, TabsNumbers DEF Rightmost
    <3>3. active' = IF active = call[c].id THEN Rightmost(order') ELSE active
      BY <2>3 DEF Close1
    <3> QED
      BY <2>0, <2>3, <3>1, <3>2, <3>3 DEF Close1
  <2>4. CASE CloseAll
    BY <2>0, <2>4, TabsNumbers DEF CloseAll
  <2> QED
    BY <2>0, <2>1, <2>2, <2>3, <2>4 DEF TabsNext, Ask1, Resolve1, Draw, Name,
       RenderFails,
       LastItem, Find1, Close1, Choose
<1> QED
  BY <1>1, <1>2, <1>3 DEF TabsTypeOK, CallRecords

(* One request at a time. *)

LEMMA StillOne ==
    ASSUME TabsTypeOK, NEW c \in Calls,
           \A d \in Calls : d # c => call[d].at = "idle" /\ call[d].first = 0,
           NEW at \in {"idle", "check", "draw", "name", "build", "last", "close", "choose"},
           NEW left \in 0 .. MaxBatch, NEW id \in 0 .. MaxCounter,
           NEW first \in 0 .. MaxCounter, MoveCall(c, at, left, id, first),
           Count' <= MaxOpen, \A i \in Open' : i <= counter',
           at \in OpeningPlaces => Count' + left <= MaxOpen,
           at = "name" => counter' \notin Open',
           at = "build" => id = counter' /\ counter' \notin Open',
           at \in {"close", "choose"} => id \in Open',
           first \in Open' \cup {0}, at = "idle" => first = 0
    PROVE  OneAtATime'
<1>1. /\ call'[c].at = at /\ call'[c].left = left
      /\ call'[c].id = id /\ call'[c].first = first
      /\ \A d \in Calls : d # c => call'[d] = call[d]
  BY MovesTo
<1>2. \A d \in Calls : d # c => call'[d].at = "idle" /\ call'[d].first = 0
  BY <1>1
<1>3. /\ "idle" \notin OpeningPlaces /\ "idle" \notin {"name", "build"}
      /\ "idle" \notin {"close", "choose"}
  BY DEF OpeningPlaces
<1>4. \A d, e \in Calls : call'[d].at # "idle" /\ call'[e].at # "idle" => d = e
  BY <1>2
<1>5. ASSUME NEW d \in Calls
      PROVE  /\ call'[d].at \in OpeningPlaces => Count' + call'[d].left <= MaxOpen
             /\ call'[d].at = "name" => counter' \notin Open'
             /\ call'[d].at = "build" => call'[d].id = counter' /\ counter' \notin Open'
             /\ call'[d].at \in {"close", "choose"} => call'[d].id \in Open'
             /\ call'[d].first \in Open' \cup {0}
             /\ call'[d].at = "idle" => call'[d].first = 0
  <2>1. CASE d = c
    BY <1>1, <2>1
  <2>2. CASE d # c
    BY <1>2, <1>3, <2>2
  <2> QED
    BY <2>1, <2>2
<1> QED
  BY <1>4, <1>5 DEF OneAtATime

\* The others wait, whether a request is on its way or comes in.
LEMMA OthersWait ==
    ASSUME OneAtATime, NEW c \in Calls, call[c].at # "idle" \/ Busy = {}
    PROVE  \A d \in Calls : d # c => call[d].at = "idle" /\ call[d].first = 0
BY DEF OneAtATime, Busy

TabsAlone == TabsTypeOK /\ CallsAreSound /\ OneAtATime /\ StripAgrees

\* A request that leaves the tabs as they are.
LEMMA LooksOnly ==
    ASSUME TabsAlone, UNCHANGED <<diagrams, order, active>>
    PROVE  StripAgrees' /\ Open' = Open /\ Count' = Count
<1>1. Open' = Open
  BY DEF Open
<1> QED
  BY <1>1 DEF TabsAlone, StripAgrees, Count

LEMMA AskAlone ==
    ASSUME TabsAlone, TabsTypeOK', NEW c \in Calls, NEW n \in 1 .. MaxBatch, Ask1(c, n), Busy = {}
    PROVE  OneAtATime' /\ StripAgrees'
<1>1. StripAgrees' /\ Open' = Open /\ Count' = Count /\ counter' = counter
  BY LooksOnly DEF Ask1
<1>2. \A d \in Calls : d # c => call[d].at = "idle" /\ call[d].first = 0
  BY OthersWait DEF TabsAlone
<1>3. n \in 0 .. MaxBatch /\ 0 \in 0 .. MaxCounter
  BY TabsNumbers
<1>4. Count + n <= MaxOpen /\ MoveCall(c, "check", n, 0, 0)
  BY CallForms DEF Ask1, Fits, TabsAlone
<1>5. Count <= MaxOpen /\ \A i \in Open : i <= counter
  BY DEF TabsAlone, OneAtATime
<1>6. OneAtATime'
  BY <1>1, <1>2, <1>3, <1>4, <1>5, StillOne DEF TabsAlone
<1> QED
  BY <1>1, <1>6

LEMMA FindAlone ==
    ASSUME TabsAlone, TabsTypeOK', NEW c \in Calls, NEW i \in 1 .. MaxCounter,
           NEW what \in {"close", "choose"}, Find1(c, i, what), Busy = {}
    PROVE  OneAtATime' /\ StripAgrees'
<1>1. StripAgrees' /\ Open' = Open /\ Count' = Count /\ counter' = counter
  BY LooksOnly DEF Find1
<1>2. \A d \in Calls : d # c => call[d].at = "idle" /\ call[d].first = 0
  BY OthersWait DEF TabsAlone
<1>3. 0 \in 0 .. MaxBatch /\ 0 \in 0 .. MaxCounter /\ i \in 0 .. MaxCounter
  BY TabsNumbers
<1>4. i \in Open /\ MoveCall(c, what, 0, i, 0)
  BY CallForms DEF Find1, TabsAlone
<1>5. Count <= MaxOpen /\ \A j \in Open : j <= counter
  BY DEF TabsAlone, OneAtATime
<1>6. what \notin OpeningPlaces /\ what # "name" /\ what # "build" /\ what # "idle"
  BY DEF OpeningPlaces
<1>7. OneAtATime'
  BY <1>1, <1>2, <1>3, <1>4, <1>5, <1>6, StillOne DEF TabsAlone
<1> QED
  BY <1>1, <1>7

LEMMA ResolveAlone ==
    ASSUME TabsAlone, TabsTypeOK', NEW c \in Calls, Resolve1(c)
    PROVE  OneAtATime' /\ StripAgrees'
<1>1. StripAgrees' /\ Open' = Open /\ Count' = Count /\ counter' = counter
  BY LooksOnly DEF Resolve1
<1>2. \A d \in Calls : d # c => call[d].at = "idle" /\ call[d].first = 0
  BY OthersWait DEF TabsAlone, Resolve1
<1>3. 0 \in 0 .. MaxBatch /\ 0 \in 0 .. MaxCounter
  BY TabsNumbers
<1>4. \/ MoveCall(c, "draw", call[c].left, call[c].id, call[c].first)
      \/ MoveCall(c, "idle", 0, 0, 0)
  BY CallForms DEF TabsAlone
<1>5. /\ Count <= MaxOpen /\ \A i \in Open : i <= counter
      /\ Count + call[c].left <= MaxOpen /\ call[c].first \in Open \cup {0}
  BY DEF TabsAlone, OneAtATime, Resolve1, OpeningPlaces
<1>6. CASE MoveCall(c, "draw", call[c].left, call[c].id, call[c].first)
  BY <1>1, <1>2, <1>5, <1>6, CallIs, StillOne DEF TabsAlone
<1>7. CASE MoveCall(c, "idle", 0, 0, 0)
  BY <1>1, <1>2, <1>3, <1>5, <1>7, StillOne DEF TabsAlone, OpeningPlaces
<1> QED
  BY <1>1, <1>4, <1>6, <1>7

LEMMA DrawAlone ==
    ASSUME TabsAlone, TabsTypeOK', NEW c \in Calls, Draw(c)
    PROVE  OneAtATime' /\ StripAgrees'
<1>1. StripAgrees' /\ Open' = Open /\ Count' = Count /\ counter' = counter + 1
  BY LooksOnly DEF Draw
<1>2. \A d \in Calls : d # c => call[d].at = "idle" /\ call[d].first = 0
  BY OthersWait DEF TabsAlone, Draw
<1>4. MoveCall(c, "name", call[c].left, call[c].id, call[c].first)
  BY CallForms DEF TabsAlone
<1>5. /\ Count <= MaxOpen /\ \A i \in Open : i <= counter
      /\ Count + call[c].left <= MaxOpen /\ call[c].first \in Open \cup {0}
  BY DEF TabsAlone, OneAtATime, Draw, OpeningPlaces
<1>6. counter \in Nat /\ Open \subseteq Nat
  BY OpenIsFinite, TabsNumbers DEF TabsAlone, TabsTypeOK
<1>7. (\A i \in Open : i <= counter + 1) /\ counter + 1 \notin Open
  BY <1>5, <1>6
<1>8. OneAtATime'
  BY <1>1, <1>2, <1>4, <1>5, <1>7, CallIs, StillOne DEF TabsAlone
<1> QED
  BY <1>1, <1>8

LEMMA NameAlone ==
    ASSUME TabsAlone, TabsTypeOK', NEW c \in Calls, Name(c)
    PROVE  OneAtATime' /\ StripAgrees'
<1>1. StripAgrees' /\ Open' = Open /\ Count' = Count /\ counter' = counter
  BY LooksOnly DEF Name
<1>2. \A d \in Calls : d # c => call[d].at = "idle" /\ call[d].first = 0
  BY OthersWait DEF TabsAlone, Name
<1>4. MoveCall(c, "build", call[c].left, counter, call[c].first)
  BY CallForms DEF TabsAlone
<1>5. /\ Count <= MaxOpen /\ (\A i \in Open : i <= counter) /\ counter \notin Open
      /\ Count + call[c].left <= MaxOpen /\ call[c].first \in Open \cup {0}
  BY DEF TabsAlone, OneAtATime, Name, OpeningPlaces
<1>6. counter \in 0 .. MaxCounter
  BY DEF TabsAlone, TabsTypeOK
<1>7. OneAtATime'
  BY <1>1, <1>2, <1>4, <1>5, <1>6, CallIs, StillOne DEF TabsAlone
<1> QED
  BY <1>1, <1>7

\* One tab more, of an id of its own.
LEMMA BuildAlone ==
    ASSUME TabsAlone, TabsTypeOK', NEW c \in Calls, Build(c)
    PROVE  OneAtATime' /\ StripAgrees'
<1> DEFINE i == call[c].id
           at == IF call[c].left > 1 THEN "draw" ELSE "last"
           first == IF call[c].first = 0 THEN i ELSE call[c].first
<1>1. call[c].at = "build" /\ counter' = counter /\ active' = i /\ order' = Append(order, i)
      /\ diagrams' = [diagrams EXCEPT ![i] = builds + 1]
  BY DEF Build
<1>2. /\ i \in 1 .. MaxCounter /\ i = counter /\ i \notin Open /\ call[c].left >= 1
      /\ call[c].left \in Nat /\ call[c].left - 1 \in 0 .. MaxBatch
  <2>1. i = counter /\ i \notin Open
    BY <1>1 DEF TabsAlone, OneAtATime
  <2>2. i >= 1 /\ call[c].left >= 1
    BY <1>1 DEF TabsAlone, CallsAreSound, OpeningPlaces
  <2>3. i \in 0 .. MaxCounter /\ call[c].left \in 0 .. MaxBatch
    BY CallIs DEF TabsAlone
  <2> QED
    BY <2>1, <2>2, <2>3, TabsNumbers
<1>3. Open' = Open \cup {i}
  BY <1>1, <1>2 DEF Open, TabsAlone, TabsTypeOK
<1>4. Count' = Count + 1 /\ Count \in Nat
  BY <1>2, <1>3, OpenIsFinite, FS_AddElement DEF Count
<1>5. StripAgrees'
  <2>1. ToSet(order) = Open /\ IsInjective(order) /\ order \in Seq(1 .. MaxCounter)
    BY DEF TabsAlone, StripAgrees, TabsTypeOK
  <2>2. ToSet(order') = Open' /\ IsInjective(order')
    <3>1. i \in 1 .. MaxCounter /\ i \notin ToSet(order)
      BY <1>2, <2>1
    <3> HIDE DEF i
    <3>2. ToSet(Append(order, i)) = Open \cup {i} /\ IsInjective(Append(order, i))
      <4> DEFINE T == 1 .. MaxCounter
      <4>0. order \in Seq(T) /\ i \in T
        BY <2>1, <3>1
      <4> HIDE DEF T
      <4>1. /\ ToSet(Append(order, i)) = ToSet(order) \cup {i}
            /\ IsInjective(order) /\ i \notin ToSet(order) => IsInjective(Append(order, i))
        BY <4>0, AppendIs
      <4> QED
        BY <2>1, <3>1, <4>1
    <3> QED
      BY <1>1, <1>3, <3>2
  <2>3. active' \in Open' /\ active' # 0
    BY <1>1, <1>2, <1>3
  <2> QED
    BY <2>2, <2>3 DEF StripAgrees
<1>6. \A d \in Calls : d # c => call[d].at = "idle" /\ call[d].first = 0
  BY <1>1, OthersWait DEF TabsAlone
<1>7. MoveCall(c, at, call[c].left - 1, 0, first)
  BY CallForms DEF Build, TabsAlone
<1>8. (\A j \in Open' : j <= counter') /\ Count + call[c].left <= MaxOpen
      /\ call[c].first \in Open \cup {0}
  <2>1. (\A j \in Open : j <= counter) /\ Count + call[c].left <= MaxOpen
        /\ call[c].first \in Open \cup {0}
    BY <1>1 DEF TabsAlone, OneAtATime, OpeningPlaces
  <2>2. counter <= counter
    BY <1>2
  <2> QED
    BY <1>1, <1>2, <1>3, <2>1, <2>2
<1>9. Count' <= MaxOpen /\ Count' + (call[c].left - 1) <= MaxOpen
  BY <1>2, <1>4, <1>8, TabsNumbers
<1>10. first \in Open' /\ first \in 0 .. MaxCounter
  BY <1>2, <1>3, <1>8, CallIs DEF TabsAlone
<1>11. at \in {"draw", "last"}
  OBVIOUS
<1>12. 0 \in 0 .. MaxCounter
  BY TabsNumbers
<1> HIDE DEF i, at, first
<1>13. at \in {"idle", "check", "draw", "name", "build", "last", "close", "choose"}
       /\ at \notin {"idle", "name", "build", "close", "choose"}
  BY <1>11
<1>14. OneAtATime'
  BY <1>2, <1>6, <1>7, <1>8, <1>9, <1>10, <1>12, <1>13, StillOne DEF TabsAlone
<1> QED
  BY <1>5, <1>14

LEMMA RenderFailsAlone ==
    ASSUME TabsAlone, TabsTypeOK', NEW c \in Calls, RenderFails(c)
    PROVE  OneAtATime' /\ StripAgrees'
<1> DEFINE at == IF call[c].left > 1 THEN "draw" ELSE "last"
           first == IF call[c].first = 0 THEN 0 ELSE call[c].first
<1>1. StripAgrees' /\ Open' = Open /\ Count' = Count /\ counter' = counter
  BY LooksOnly DEF RenderFails
<1>2. call[c].at = "build"
  BY DEF RenderFails
<1>3. call[c].left \in Nat /\ call[c].left - 1 \in 0 .. MaxBatch
  <2>1. call[c].left >= 1 /\ call[c].left \in 0 .. MaxBatch
    BY <1>2, CallIs DEF TabsAlone, CallsAreSound, OpeningPlaces
  <2> QED
    BY <2>1, TabsNumbers
<1>4. \A d \in Calls : d # c => call[d].at = "idle" /\ call[d].first = 0
  BY <1>2, OthersWait DEF TabsAlone
<1>5. MoveCall(c, at, call[c].left - 1, 0, first)
  BY CallForms DEF RenderFails, TabsAlone
<1>6. /\ Count <= MaxOpen /\ \A i \in Open : i <= counter
      /\ Count + call[c].left <= MaxOpen /\ call[c].first \in Open \cup {0}
  BY <1>2 DEF TabsAlone, OneAtATime, OpeningPlaces
<1>7. Count + (call[c].left - 1) <= MaxOpen
  BY <1>3, <1>6, OpenIsFinite, TabsNumbers
<1>8. first \in Open \cup {0} /\ first \in 0 .. MaxCounter
  BY <1>6, CallIs DEF TabsAlone
<1>9. at \in {"draw", "last"} /\ 0 \in 0 .. MaxCounter
  BY TabsNumbers
<1> HIDE DEF at, first
<1>10. at \in {"idle", "check", "draw", "name", "build", "last", "close", "choose"}
       /\ at \notin {"idle", "name", "build", "close", "choose"}
  BY <1>9
<1>11. OneAtATime'
  BY <1>1, <1>3, <1>4, <1>5, <1>6, <1>7, <1>8, <1>9, <1>10, StillOne DEF TabsAlone
<1> QED
  BY <1>1, <1>11

\* The tab shown last, or the one that was asked for.
LEMMA ShowAlone ==
    ASSUME TabsAlone, TabsTypeOK', NEW c \in Calls, LastItem(c) \/ Choose(c)
    PROVE  OneAtATime' /\ StripAgrees'
<1>1. Open' = Open /\ Count' = Count /\ counter' = counter /\ order' = order
  BY DEF LastItem, Choose, Open, Count
<1>2. active' \in {active, call[c].first, call[c].id}
      /\ (active' # active => active' # 0 /\ active' \in Open)
  <2>1. CASE LastItem(c)
    BY <2>1 DEF LastItem, TabsAlone, OneAtATime
  <2>2. CASE Choose(c)
    <3>1. active' = call[c].id /\ call[c].id \in Open
      BY <2>2 DEF Choose, TabsAlone, OneAtATime
    <3>2. 0 \notin Open
      BY OpenIsFinite
    <3> QED
      BY <3>1, <3>2
  <2> QED
    BY <2>1, <2>2
<1>3. StripAgrees'
  BY <1>1, <1>2 DEF TabsAlone, StripAgrees
<1>4. \A d \in Calls : d # c => call[d].at = "idle" /\ call[d].first = 0
  BY OthersWait DEF TabsAlone, LastItem, Choose
<1>5. MoveCall(c, "idle", 0, 0, 0) /\ 0 \in 0 .. MaxBatch /\ 0 \in 0 .. MaxCounter
  BY CallForms, TabsNumbers DEF TabsAlone
<1>6. Count <= MaxOpen /\ \A i \in Open : i <= counter
  BY DEF TabsAlone, OneAtATime
<1>7. OneAtATime'
  BY <1>1, <1>4, <1>5, <1>6, StillOne DEF TabsAlone, OpeningPlaces
<1> QED
  BY <1>3, <1>7

\* One tab less, and the page goes to one that is left.
LEMMA CloseAlone ==
    ASSUME TabsAlone, TabsTypeOK', NEW c \in Calls, Close1(c)
    PROVE  OneAtATime' /\ StripAgrees'
<1> DEFINE i == call[c].id
           rest == RemoveFirst(order, i)
<1>1. call[c].at = "close" /\ counter' = counter /\ order' = rest
      /\ diagrams' = [diagrams EXCEPT ![i] = 0]
      /\ active' = IF active = i THEN Rightmost(rest) ELSE active
  BY DEF Close1
<1>2. i \in Open /\ Open \subseteq 1 .. MaxCounter /\ IsFiniteSet(Open) /\ Count \in Nat
  BY <1>1, OpenIsFinite DEF TabsAlone, OneAtATime
<1>3. Open' = Open \ {i}
  BY <1>1, <1>2 DEF Open, TabsAlone, TabsTypeOK
<1>4. Count' = Count - 1
  BY <1>2, <1>3, FS_RemoveElement DEF Count
<1>5. order \in Seq(1 .. MaxCounter) /\ ToSet(order) = Open /\ IsInjective(order)
      /\ active \in Open \cup {0} /\ (active = 0 <=> Open = {})
  BY DEF TabsAlone, StripAgrees, TabsTypeOK
<1>6. rest \in Seq(1 .. MaxCounter) /\ ToSet(rest) = Open' /\ IsInjective(rest)
  BY <1>2, <1>3, <1>5, RemoveFirstIs
<1> HIDE DEF rest
<1>7. /\ rest = <<>> => Open' = {} /\ Rightmost(rest) = 0
      /\ rest # <<>> => Rightmost(rest) \in Open'
  <2>1. rest = <<>> => ToSet(rest) = {}
    BY DEF ToSet
  <2>2. rest # <<>> => Len(rest) \in DOMAIN rest
    BY <1>6
  <2> QED
    BY <1>6, <2>1, <2>2 DEF Rightmost, ToSet
<1>8. active' \in Open' \cup {0} /\ (active' = 0 <=> Open' = {})
  <2>1. 0 \notin Open /\ Open' \subseteq Open
    BY <1>2, <1>3
  <2>2. CASE active = i
    BY <1>1, <1>7, <2>1, <2>2
  <2>3. CASE active # i
    BY <1>1, <1>2, <1>3, <1>5, <2>1, <2>3
  <2> QED
    BY <2>2, <2>3
<1>9. StripAgrees'
  BY <1>1, <1>6, <1>8 DEF StripAgrees
<1>10. \A d \in Calls : d # c => call[d].at = "idle" /\ call[d].first = 0
  BY <1>1, OthersWait DEF TabsAlone
<1>11. MoveCall(c, "idle", 0, 0, 0) /\ 0 \in 0 .. MaxBatch /\ 0 \in 0 .. MaxCounter
  BY CallForms, TabsNumbers DEF TabsAlone
<1>12. Count <= MaxOpen /\ \A j \in Open : j <= counter
  BY DEF TabsAlone, OneAtATime
<1>13. Count' <= MaxOpen /\ \A j \in Open' : j <= counter'
  BY <1>1, <1>2, <1>3, <1>4, <1>12, TabsNumbers
<1>14. OneAtATime'
  BY <1>10, <1>11, <1>13, StillOne DEF TabsAlone, OpeningPlaces
<1> QED
  BY <1>9, <1>14

LEMMA CloseAllAlone ==
    ASSUME TabsAlone, CloseAll, Busy = {}
    PROVE  OneAtATime' /\ StripAgrees'
<1>1. Open' = {} /\ order' = <<>> /\ active' = 0 /\ call' = call
  BY DEF CloseAll, Open
<1>2. Count' = 0
  BY <1>1, FS_EmptySet DEF Count
<1>3. ToSet(<<>>) = {} /\ IsInjective(<<>>)
  BY DEF ToSet, IsInjective
<1>4. StripAgrees'
  BY <1>1, <1>3 DEF StripAgrees
<1>5. \A c \in Calls : call[c].at = "idle" /\ call[c].first = 0
  BY DEF Busy, TabsAlone, OneAtATime
<1>6. OneAtATime'
  BY <1>1, <1>2, <1>5, TabsNumbers DEF OneAtATime, OpeningPlaces
<1> QED
  BY <1>4, <1>6

LEMMA TabsStep == TabsInv /\ [TabsNext]_tabVars => TabsInv'
<1> SUFFICES ASSUME TabsInv, [TabsNext]_tabVars PROVE TabsInv'
  OBVIOUS
<1>1. CASE UNCHANGED tabVars
  <2>1. Open' = Open /\ Count' = Count /\ UNCHANGED <<order, active, counter, call, crowd>>
    BY <1>1 DEF tabVars, Open, Count
  <2>2. TabsTypeOK'
    BY <1>1 DEF tabVars, TabsInv, TabsTypeOK
  <2>3. CallsAreSound' /\ (OneAtATime => OneAtATime') /\ (StripAgrees => StripAgrees')
    BY <2>1 DEF TabsInv, CallsAreSound, OneAtATime, StripAgrees
  <2> QED
    BY <2>1, <2>2, <2>3 DEF TabsInv
<1>2. CASE TabsNext
  <2>1. TabsTypeOK' /\ CallsAreSound'
    BY <1>2, TabsTyped DEF TabsInv
  <2>2. SUFFICES ASSUME ~crowd' PROVE OneAtATime' /\ StripAgrees'
    BY <2>1 DEF TabsInv
  <2>3. ~crowd
    BY <1>2, <2>2 DEF TabsNext, Ask1, Resolve1, Draw, Name, Build, RenderFails,
       LastItem,
       Find1, Close1, Choose, CloseAll
  <2>4. TabsAlone
    BY <2>3 DEF TabsAlone, TabsInv
  <2>5. ASSUME NEW c \in Calls, NEW n \in 1 .. MaxBatch, Ask1(c, n)
        PROVE OneAtATime' /\ StripAgrees'
    <3>1. Busy = {}
      BY <2>2, <2>5 DEF Ask1
    <3> QED
      BY <2>1, <2>4, <2>5, <3>1, AskAlone
  <2>6. ASSUME NEW c \in Calls, NEW i \in 1 .. MaxCounter, NEW what \in {"close", "choose"},
               Find1(c, i, what)
        PROVE OneAtATime' /\ StripAgrees'
    <3>1. Busy = {}
      BY <2>2, <2>6 DEF Find1
    <3> QED
      BY <2>1, <2>4, <2>6, <3>1, FindAlone
  <2>7. CASE CloseAll
    <3>1. Busy = {}
      BY <2>2, <2>7 DEF CloseAll
    <3> QED
      BY <2>4, <2>7, <3>1, CloseAllAlone
  <2>8. ASSUME NEW c \in Calls,
               \/ Resolve1(c) \/ Draw(c) \/ Name(c) \/ Build(c) \/ RenderFails(c)
               \/ LastItem(c) \/ Close1(c) \/ Choose(c)
        PROVE OneAtATime' /\ StripAgrees'
    BY <2>1, <2>4, <2>8, ResolveAlone, DrawAlone, NameAlone, BuildAlone,
       RenderFailsAlone,
       ShowAlone, CloseAlone
  <2> QED
    BY <1>2, <2>5, <2>6, <2>7, <2>8 DEF TabsNext
<1> QED
  BY <1>1, <1>2

LEMMA TabsInitInv == TabsInit => TabsInv
<1> SUFFICES ASSUME TabsInit PROVE TabsInv
  OBVIOUS
<1>1. /\ diagrams = [i \in 1 .. MaxCounter |-> 0] /\ order = <<>> /\ active = 0
      /\ counter = 0 /\ builds = 0 /\ call = [c \in Calls |-> Quiet] /\ crowd = FALSE
  BY DEF TabsInit
<1>2. 0 \in 0 .. MaxBatch /\ 0 \in 0 .. MaxCounter /\ 0 <= MaxOpen
  BY TabsNumbers
<1>3. /\ Quiet \in CallRecords /\ Quiet.at = "idle" /\ Quiet.first = 0
  BY <1>2 DEF Quiet, CallRecords
<1>4. TabsTypeOK
  <2>1. call \in [Calls -> CallRecords] /\ diagrams \in [1 .. MaxCounter -> Nat]
    BY <1>1, <1>3
  <2>2. order \in Seq(1 .. MaxCounter) /\ builds \in Nat
    BY <1>1
  <2> QED
    BY <1>1, <1>2, <2>1, <2>2 DEF TabsTypeOK, CallRecords
<1>5. Open = {} /\ Count = 0
  <2>1. Open = {}
    BY <1>1 DEF Open
  <2> QED
    BY <2>1, FS_EmptySet DEF Count
<1>6. \A c \in Calls : call[c].at = "idle" /\ call[c].first = 0
  BY <1>1, <1>3
<1>7. CallsAreSound /\ OneAtATime
  BY <1>2, <1>5, <1>6 DEF CallsAreSound, OneAtATime, OpeningPlaces
<1>8. StripAgrees
  <2>1. ToSet(<<>>) = {} /\ IsInjective(<<>>)
    BY DEF ToSet, IsInjective
  <2> QED
    BY <1>1, <1>5, <2>1 DEF StripAgrees
<1> QED
  BY <1>4, <1>7, <1>8 DEF TabsInv

LEMMA TabsInvariant == TabsSpec => []TabsInv
<1> QED
  BY TabsInitInv, TabsStep, PTL DEF TabsSpec

(***************************************************************************)
(* Request after request a visitor's tabs stay within the limit, and the   *)
(* strip, the dictionary and the active tab agree, for any limit and any   *)
(* batches (web/glv/handler.py, _GlvSession).                              *)
(***************************************************************************)
THEOREM TabsAreTrueHolds == TabsSpec => []TabsAreTrue
<1>1. TabsInv => TabsAreTrue
  <2> SUFFICES ASSUME TabsInv PROVE TabsAreTrue
    OBVIOUS
  <2>1. Count <= MaxOpen => ~(Count > MaxOpen)
    BY OpenIsFinite, TabsNumbers
  <2>2. WithinMaxDiagrams
    BY <2>1 DEF WithinMaxDiagrams, TabsInv, OneAtATime
  <2>3. StripIsTrue
    <3>1. ~crowd => StripAgrees
      BY DEF TabsInv
    <3>2. StripAgrees => (active = 0) = (Open = {})
      BY DEF StripAgrees
    <3> QED
      BY <3>1, <3>2 DEF StripIsTrue, StripAgrees
  <2> QED
    BY <2>2, <2>3 DEF TabsAreTrue
<1> QED
  BY <1>1, TabsInvariant, PTL

-----------------------------------------------------------------------------
(* The DNP map editor (DnpMap).                                            *)

\* What a sheet would read with r for its pending changes.
Reads(r, s, k) == IF k \in DOMAIN r THEN r[k] ELSE Original(s, k)

\* A sheet nobody typed into holds each quantity once, and its scales with it.
MapIsStraight(s) ==
    /\ \A a, b \in Points :
          Current(s, <<a, "value">>) = Current(s, <<b, "value">>) => a = b
    /\ Scaled[ModelOf[s]] = Points => \A a \in Points :
          Current(s, <<a, "scale">>) = Current(s, <<a, "value">>)

\* Changes that are changes.
Differs(r, s) == \A k \in DOMAIN r : k \in Keys(s) /\ r[k] \in Quantities /\ r[k] # Original(s, k)

\* The files list each quantity once.
FilesAreStraight == \A s \in Sheets : IsInjective(InFile[s])

DnpInv ==
    /\ DOMAIN edits = Sheets /\ \A s \in Sheets : Differs(edits[s], s)
    /\ typed \in 0 .. MaxTyped /\ loose \subseteq Sheets
    /\ \A s \in DOMAIN snapshot : /\ s \in Sheets /\ Differs(snapshot[s], s)
                                  /\ DOMAIN snapshot[s] # {}
    /\ FilesAreStraight => \A s \in Sheets : s \notin loose => MapIsStraight(s)

LEMMA MapNumbers == MaxTyped \in Nat /\ InFile \in [Sheets -> [Points -> Quantities]]
BY MapAssumption

LEMMA KeysOf ==
    ASSUME NEW s \in Sheets
    PROVE  /\ \A a \in Points : <<a, "value">> \in Keys(s)
           /\ \A a \in Scaled[ModelOf[s]] : <<a, "scale">> \in Keys(s)
           /\ Scaled[ModelOf[s]] \subseteq Points
           /\ \A k \in Keys(s) : /\ k[1] \in Points /\ Original(s, k) \in Quantities
                                 /\ k = <<k[1], "value">> \/ k = <<k[1], "scale">>
<1>1. ModelOf[s] \in Range(ModelOf)
  BY MapAssumption DEF Range
<1>2. Scaled[ModelOf[s]] \in SUBSET Points
  BY <1>1, MapAssumption
<1>3. InFile[s] \in [Points -> Quantities]
  BY MapNumbers
<1> QED
  BY <1>2, <1>3 DEF Keys, Original

\* record_edits(): what is asked for is what is read afterwards, and only what
\* is a change is kept.
LEMMA RecordedIs ==
    ASSUME NEW s \in Sheets, NEW changes, Differs(edits[s], s),
           \A k \in DOMAIN changes : k \in Keys(s) => changes[k] \in Quantities
    PROVE  /\ Differs(Recorded(s, changes), s)
           /\ \A k \in Keys(s) : Reads(Recorded(s, changes), s, k) =
                 IF k \in DOMAIN changes THEN changes[k] ELSE Current(s, k)
<1> DEFINE known == DOMAIN changes \cap Keys(s)
           new(k) == IF k \in known THEN changes[k] ELSE edits[s][k]
           kept == {k \in known \cup DOMAIN edits[s] : new(k) # Original(s, k)}
           r == Recorded(s, changes)
<1>1. r = [k \in kept |-> new(k)]
  BY DEF Recorded
<1>2. DOMAIN r = kept /\ \A k \in kept : r[k] = new(k)
  BY <1>1
<1> HIDE DEF r
<1>3. Differs(r, s)
  <2> SUFFICES ASSUME NEW k \in kept PROVE k \in Keys(s) /\ r[k] \in Quantities /\ r[k] # Original(s, k)
    BY <1>2 DEF Differs
  <2> QED
    BY <1>2 DEF Differs
<1>4. ASSUME NEW k \in Keys(s)
      PROVE  Reads(r, s, k) = IF k \in DOMAIN changes THEN changes[k] ELSE Current(s, k)
  <2>1. CASE k \in known
    BY <1>2, <2>1 DEF Reads
  <2>2. CASE k \notin known
    BY <1>2, <2>2 DEF Reads, Current, Differs
  <2> QED
    BY <2>1, <2>2
<1> QED
  BY <1>3, <1>4 DEF r

LEMMA CurrentIs ==
    ASSUME NEW s \in Sheets
    PROVE  /\ \A k : Current(s, k) = Reads(edits[s], s, k)
           /\ \A k : Current(s, k)' = Reads(edits'[s], s, k)
           /\ Differs(edits[s], s) => \A k \in Keys(s) : Current(s, k) \in Quantities
BY KeysOf DEF Current, Reads, Differs, Original

\* What a change of one sheet leaves of the invariant.
LEMMA SheetsKept ==
    ASSUME DnpInv, DOMAIN edits' = Sheets, \A s \in Sheets : Differs(edits'[s], s),
           typed' \in 0 .. MaxTyped, loose' \subseteq Sheets, UNCHANGED snapshot,
           FilesAreStraight => \A s \in Sheets : s \notin loose' =>
              \/ s \notin loose /\ edits'[s] = edits[s]
              \/ MapIsStraight(s)'
    PROVE  DnpInv'
<1>1. \A s \in Sheets : Differs(edits'[s], s) <=> Differs(edits[s], s)'
  BY DEF Differs, Keys, Original
<1>2. \A s \in DOMAIN snapshot' : s \in Sheets /\ Differs(snapshot[s], s)' /\ DOMAIN snapshot'[s] # {}
  BY DEF DnpInv, Differs, Keys, Original
<1>3. ASSUME FilesAreStraight, NEW s \in Sheets, s \notin loose' PROVE MapIsStraight(s)'
  <2>1. CASE s \notin loose /\ edits'[s] = edits[s]
    BY <1>3, <2>1 DEF DnpInv, MapIsStraight, Current, Original
  <2> QED
    BY <1>3, <2>1
<1> QED
  BY <1>1, <1>2, <1>3 DEF DnpInv

LEMMA EditKeeps ==
    ASSUME DnpInv, NEW s \in Sheets, NEW k \in Keys(s), NEW q \in Quantities, EditField(s, k, q)
    PROVE  DnpInv'
<1> DEFINE r == Recorded(s, [x \in {k} |-> q])
<1>1. Differs(r, s)
  BY RecordedIs DEF DnpInv
<1> HIDE DEF r
<1>2. edits' = [edits EXCEPT ![s] = r] /\ loose' = loose \cup {s} /\ UNCHANGED snapshot
  BY DEF EditField, r
<1>3. typed' \in 0 .. MaxTyped
  BY MapNumbers DEF EditField, DnpInv
<1>4. DOMAIN edits' = Sheets /\ \A t \in Sheets : edits'[t] = IF t = s THEN r ELSE edits[t]
  BY <1>2 DEF DnpInv
<1>5. \A t \in Sheets : Differs(edits'[t], t)
  BY <1>1, <1>4 DEF DnpInv
<1> QED
  BY <1>2, <1>3, <1>4, <1>5, SheetsKept DEF DnpInv

\* Two points change places, with the scales that go with them.
LEMMA SwapKeeps ==
    ASSUME DnpInv, NEW s \in Sheets, NEW a \in Points, NEW b \in Points, Swap(s, a, b)
    PROVE  DnpInv'
<1> DEFINE moved == {a, b} \X Attributes(s, a, b)
           changes == [k \in moved |-> Current(s, <<IF k[1] = a THEN b ELSE a, k[2]>>)]
           r == Recorded(s, changes)
<1>1. moved \subseteq Keys(s)
  BY KeysOf DEF Attributes
<1>2. \A k \in moved : <<IF k[1] = a THEN b ELSE a, k[2]>> \in moved
  OBVIOUS
<1>3. \A k \in moved : changes[k] = Current(s, <<IF k[1] = a THEN b ELSE a, k[2]>>)
                       /\ changes[k] \in Quantities
  BY <1>1, <1>2, CurrentIs DEF DnpInv
<1>4. DOMAIN changes = moved
  OBVIOUS
<1> HIDE DEF changes
<1>5. /\ Differs(r, s)
      /\ \A k \in Keys(s) : Reads(r, s, k) = IF k \in moved THEN changes[k] ELSE Current(s, k)
  BY <1>3, <1>4, RecordedIs DEF DnpInv
<1>6. edits' = [edits EXCEPT ![s] = r] /\ UNCHANGED <<typed, loose, snapshot>>
  BY DEF Swap, changes
<1> HIDE DEF r, moved
<1>7. DOMAIN edits' = Sheets /\ \A t \in Sheets : edits'[t] = IF t = s THEN r ELSE edits[t]
  BY <1>6 DEF DnpInv
<1>8. \A t \in Sheets : Differs(edits'[t], t)
  BY <1>5, <1>7 DEF DnpInv
<1>9. \A k \in Keys(s) :
        Current(s, k)' = IF k \in moved THEN Current(s, <<IF k[1] = a THEN b ELSE a, k[2]>>)
                                        ELSE Current(s, k)
  <2>1. \A k : Current(s, k)' = Reads(r, s, k)
    BY <1>7, CurrentIs
  <2> QED
    BY <1>3, <1>5, <2>1
<1>10. ASSUME MapIsStraight(s) PROVE MapIsStraight(s)'
  <2> DEFINE other(x) == IF x = a THEN b ELSE IF x = b THEN a ELSE x
  <2>1. \A x \in Points : /\ Current(s, <<x, "value">>)' = Current(s, <<other(x), "value">>)
                          /\ other(x) \in Points
    <3> SUFFICES ASSUME NEW x \in Points
                 PROVE  Current(s, <<x, "value">>)' = Current(s, <<other(x), "value">>)
      OBVIOUS
    <3>1. <<x, "value">> \in Keys(s) /\ <<x, "value">>[1] = x /\ <<x, "value">>[2] = "value"
      BY KeysOf
    <3>2. <<x, "value">> \in moved <=> x \in {a, b}
      BY DEF moved, Attributes
    <3> QED
      BY <1>9, <3>1, <3>2
  <2>2. \A x, y \in Points : other(x) = other(y) => x = y
    OBVIOUS
  <2>3. Scaled[ModelOf[s]] = Points => \A x \in Points :
          Current(s, <<x, "scale">>)' = Current(s, <<other(x), "scale">>)
    <3> SUFFICES ASSUME Scaled[ModelOf[s]] = Points, NEW x \in Points
                 PROVE  Current(s, <<x, "scale">>)' = Current(s, <<other(x), "scale">>)
      OBVIOUS
    <3>1. <<x, "scale">> \in Keys(s) /\ <<x, "scale">>[1] = x /\ <<x, "scale">>[2] = "scale"
      BY KeysOf
    <3>2. <<x, "scale">> \in moved <=> x \in {a, b}
      BY DEF moved, Attributes
    <3> QED
      BY <1>9, <3>1, <3>2
  <2> HIDE DEF other
  <2>4. \A x, y \in Points :
          Current(s, <<x, "value">>)' = Current(s, <<y, "value">>)' => x = y
    BY <1>10, <2>1, <2>2 DEF MapIsStraight
  <2>5. Scaled[ModelOf[s]] = Points => \A x \in Points :
          Current(s, <<x, "scale">>)' = Current(s, <<x, "value">>)'
    BY <1>10, <2>1, <2>3 DEF MapIsStraight
  <2> QED
    BY <2>4, <2>5 DEF MapIsStraight
<1>11. FilesAreStraight => \A t \in Sheets : t \notin loose' =>
          (t \notin loose /\ edits'[t] = edits[t]) \/ MapIsStraight(t)'
  BY <1>6, <1>7, <1>10 DEF DnpInv
<1> QED
  BY <1>6, <1>7, <1>8, <1>11, SheetsKept DEF DnpInv

\* A map copied whole is as straight as the one it was copied from.
LEMMA CopyKeeps ==
    ASSUME DnpInv, NEW s \in Sheets, NEW targets \in SUBSET Sheets, NEW chosen \in SUBSET Points,
           \A t \in targets : ModelOf[t] = ModelOf[s], CopyTo(s, targets, chosen)
    PROVE  DnpInv'
<1> DEFINE wanted == MapValues(s, chosen)
           old == edits[s]
<1>1. DOMAIN wanted = {k \in Keys(s) : k[1] \in chosen}
      /\ \A k \in DOMAIN wanted : wanted[k] = Current(s, k) /\ wanted[k] \in Quantities
  BY CurrentIs DEF MapValues, DnpInv
<1>2. \A t \in targets : Keys(t) = Keys(s)
  BY DEF Keys
<1>3. edits' = [t \in Sheets |-> IF t \in targets \ {s} THEN Recorded(t, wanted) ELSE edits[t]]
  BY DEF CopyTo
<1>4. /\ loose' = IF chosen = Points /\ s \notin loose THEN loose \ targets
                  ELSE loose \cup (targets \ {s})
      /\ UNCHANGED <<typed, snapshot>>
  BY DEF CopyTo
<1> HIDE DEF wanted
<1>5. ASSUME NEW t \in targets \ {s}
      PROVE  /\ Differs(edits'[t], t)
             /\ \A k \in Keys(s) :
                  Current(t, k)' = IF k[1] \in chosen THEN Current(s, k) ELSE Current(t, k)
  <2>1. t \in Sheets /\ edits'[t] = Recorded(t, wanted) /\ Differs(edits[t], t)
    BY <1>3 DEF DnpInv
  <2>2. /\ Differs(edits'[t], t)
        /\ \A k \in Keys(t) : Reads(edits'[t], t, k) =
              IF k \in DOMAIN wanted THEN wanted[k] ELSE Current(t, k)
    BY <1>1, <2>1, RecordedIs
  <2>3. \A k : Current(t, k)' = Reads(edits'[t], t, k)
    BY <2>1, CurrentIs
  <2> QED
    BY <1>1, <1>2, <2>2, <2>3
<1>6. \A t \in Sheets : t \notin targets \ {s} => edits'[t] = edits[t]
  BY <1>3
<1>7. \A t \in Sheets : Differs(edits'[t], t)
  BY <1>5, <1>6 DEF DnpInv
<1>8. ASSUME FilesAreStraight, NEW t \in targets \ {s}, chosen = Points, s \notin loose PROVE MapIsStraight(t)'
  <2>1. MapIsStraight(s) /\ Scaled[ModelOf[t]] = Scaled[ModelOf[s]]
    BY <1>8 DEF DnpInv
  <2>2. \A x \in Points : Current(t, <<x, "value">>)' = Current(s, <<x, "value">>)
    BY <1>5, <1>8, KeysOf
  <2>3. Scaled[ModelOf[s]] = Points =>
          \A x \in Points : Current(t, <<x, "scale">>)' = Current(s, <<x, "scale">>)
    BY <1>5, <1>8, KeysOf
  <2>4. \A x, y \in Points :
          Current(t, <<x, "value">>)' = Current(t, <<y, "value">>)' => x = y
    BY <2>1, <2>2 DEF MapIsStraight
  <2>5. Scaled[ModelOf[t]] = Points => \A x \in Points :
          Current(t, <<x, "scale">>)' = Current(t, <<x, "value">>)'
    BY <2>1, <2>2, <2>3 DEF MapIsStraight
  <2> QED
    BY <2>4, <2>5 DEF MapIsStraight
<1>9. FilesAreStraight => \A t \in Sheets : t \notin loose' =>
          (t \notin loose /\ edits'[t] = edits[t]) \/ MapIsStraight(t)'
  BY <1>4, <1>6, <1>8
<1>10. DOMAIN edits' = Sheets /\ loose' \subseteq Sheets
  BY <1>3, <1>4 DEF DnpInv
<1> QED
  BY <1>4, <1>7, <1>9, <1>10, SheetsKept DEF DnpInv

LEMMA DnpStep == DnpInv /\ [DnpNext]_dnpVars => DnpInv'
<1> SUFFICES ASSUME DnpInv, [DnpNext]_dnpVars PROVE DnpInv'
  OBVIOUS
<1>1. ASSUME NEW s \in Sheets, CopySession(s) PROVE DnpInv'
  <2> DEFINE targets == {t \in Sheets \ {s} : RdbOf[t] = RdbOf[s] /\ ModelOf[t] = ModelOf[s]}
  <2>1. targets \in SUBSET Sheets /\ Points \in SUBSET Points
        /\ \A t \in targets : ModelOf[t] = ModelOf[s]
    OBVIOUS
  <2>2. CopyTo(s, targets, Points)
    BY <1>1 DEF CopySession
  <2> HIDE DEF targets
  <2> QED
    BY <2>1, <2>2, CopyKeeps
<1>2. ASSUME NEW s \in Sheets, NEW targets \in SUBSET Sheets, NEW chosen \in SUBSET Points,
             CopyToRelays(s, targets, chosen)
      PROVE  DnpInv'
  BY <1>2, CopyKeeps DEF CopyToRelays
<1>3. ASSUME NEW r \in Range(RdbOf), TakeSnapshot(r) PROVE DnpInv'
  <2>1. snapshot' = [s \in Dirty(r) |-> edits[s]] /\ UNCHANGED <<edits, typed, loose>>
    BY <1>3 DEF TakeSnapshot
  <2>2. \A s \in DOMAIN snapshot' : /\ s \in Sheets /\ snapshot'[s] = edits[s]
                                    /\ DOMAIN edits[s] # {}
    BY <2>1 DEF Dirty
  <2> QED
    BY <2>1, <2>2 DEF DnpInv, Differs, Keys, Original, MapIsStraight, Current
<1>4. CASE BuildStreams
  BY <1>4 DEF BuildStreams, DnpInv, Differs, Keys, Original, MapIsStraight, Current
<1>5. CASE UNCHANGED dnpVars
  BY <1>5 DEF dnpVars, DnpInv, Differs, Keys, Original, MapIsStraight, Current
<1> QED
  BY <1>1, <1>2, <1>3, <1>4, <1>5, EditKeeps, SwapKeeps DEF DnpNext

LEMMA DnpInitInv ==
    ASSUME DnpInit
    PROVE  DnpInv
<1>1. /\ edits = [s \in Sheets |-> NoEdits] /\ typed = 0 /\ loose = {}
      /\ snapshot = [s \in {} |-> NoEdits]
  BY DEF DnpInit
<1>2. DOMAIN NoEdits = {}
  BY DEF NoEdits
<1>3. 0 \in 0 .. MaxTyped
  BY MapNumbers
<1>4. ASSUME FilesAreStraight, NEW s \in Sheets PROVE MapIsStraight(s)
  <2>1. \A k : Current(s, k) = InFile[s][k[1]]
    BY <1>1, <1>2 DEF Current, Original
  <2>2. \A a, b \in Points : InFile[s][a] = InFile[s][b] => a = b
    BY <1>4, MapNumbers DEF FilesAreStraight, IsInjective
  <2> QED
    BY <2>1, <2>2 DEF MapIsStraight
<1> QED
  BY <1>1, <1>2, <1>3, <1>4 DEF DnpInv, Differs

LEMMA DnpInvariant == DnpSpec => []DnpInv
<1> QED
  BY DnpInitInv, DnpStep, PTL DEF DnpSpec

(***************************************************************************)
(* Where each file lists a quantity once, dragging and copying loses and   *)
(* doubles none, keeps each scale with its quantity, and an export writes  *)
(* only streams that differ, for any sheets, points and models             *)
(* (web/dnp_map/model.py, handler.py).                                     *)
(***************************************************************************)
THEOREM PointsAreKeptHolds ==
    ASSUME FilesAreStraight
    PROVE  DnpSpec => []PointsAreKept
<1>1. DnpInv => PointsAreKept
  <2> SUFFICES ASSUME DnpInv PROVE PointsAreKept
    OBVIOUS
  <2>1. ASSUME NEW s \in DOMAIN snapshot
        PROVE  \E k \in Keys(s) : Applied(s)[k] # Original(s, k)
    <3>1. Differs(snapshot[s], s) /\ DOMAIN snapshot[s] # {}
      BY DEF DnpInv
    <3>2. PICK k \in DOMAIN snapshot[s] : k \in Keys(s) /\ snapshot[s][k] # Original(s, k)
      BY <3>1 DEF Differs
    <3> QED
      BY <3>2 DEF Applied
  <2> QED
    BY <2>1 DEF DnpInv, Differs, PointsAreKept, MapIsStraight
<1> QED
  BY <1>1, DnpInvariant, PTL

-----------------------------------------------------------------------------
(* The comments of the virtual bits (VbComments).                          *)

\* A text that may stand where v is described.
Own(t, v) == t \in Texts \cup Labels /\ t.of \in {v, "nobody"}

CommentsInv ==
    /\ cells \in 0 .. MaxCells
    /\ desc \in [Refs -> Texts \cup Labels]
    /\ comment \in [Symbols -> Texts \cup Labels \cup {SelfClosed}]
    /\ \A i \in Refs : Own(desc[i], VbOfRef[i])
    /\ \A y \in Symbols : comment[y] = SelfClosed \/ Own(comment[y], VbOfSymbol[y])
    /\ \A v \in DOMAIN vbSheet : Own(vbSheet[v], v)
    /\ \A y \in DOMAIN portSheet :
          /\ y \in Symbols /\ (portSheet[y] = Untouched \/ Own(portSheet[y], VbOfSymbol[y]))
    /\ DOMAIN portSheet # {} => DOMAIN portSheet = Symbols
    /\ \A i \in described : i \in Refs /\ desc[i] # Empty

LEMMA CommentsNumbers ==
    /\ MaxCells \in Nat
    /\ Refs \subseteq Nat /\ IsFiniteSet(Refs)
    /\ Symbols \subseteq Nat /\ IsFiniteSet(Symbols)
    /\ \A i \in Refs : VbOfRef[i] \in Vbs /\ i \in RefsOf(VbOfRef[i])
    /\ \A y \in Symbols : VbOfSymbol[y] \in Vbs /\ y \in SymbolsOf(VbOfSymbol[y])
<1>1. /\ MaxCells \in Nat /\ VbOfRef \in Seq(Vbs) /\ VbOfSymbol \in Seq(Vbs)
  BY CommentsAssumption
<1>2. Refs = 1 .. Len(VbOfRef) /\ Symbols = 1 .. Len(VbOfSymbol)
  BY <1>1 DEF Refs, Symbols
<1>3. IsFiniteSet(1 .. Len(VbOfRef)) /\ IsFiniteSet(1 .. Len(VbOfSymbol))
  BY <1>1, FS_Interval
<1>4. /\ \A i \in Refs : VbOfRef[i] \in Vbs
      /\ \A y \in Symbols : VbOfSymbol[y] \in Vbs
  BY <1>1, <1>2
<1> QED
  BY <1>1, <1>2, <1>3, <1>4 DEF RefsOf, SymbolsOf

\* The words that stand for no text are told from every text, and from each other.
LEMMA TextsAreTold ==
    /\ \A t \in Texts : t \notin {Empty, SelfClosed, Quality, Spare, Untouched}
    /\ Empty # SelfClosed /\ Empty # Untouched /\ SelfClosed \notin Labels
    /\ Quality # Empty /\ Spare # Empty
    /\ \A v \in Vbs : Own(Empty, v) /\ Own(Quality, v) /\ Own(Spare, v)
    /\ \A v \in Vbs, w \in Wordings : Own(Text(v, w), v)
<1>1. /\ Empty.of = "nobody" /\ SelfClosed.of = "nobody" /\ Quality.of = "nobody"
      /\ Spare.of = "nobody" /\ Untouched.of = "nobody"
  BY DEF Empty, SelfClosed, Quality, Spare, Untouched
<1>2. \A t \in Texts : t.of # "nobody"
  BY CommentsAssumption DEF Texts
<1>3. /\ Empty.says = "nothing" /\ SelfClosed.says = "self-closed"
      /\ Quality.says = "Message Quality" /\ Spare.says = "reserva" /\ Untouched.says = "None"
  BY DEF Empty, SelfClosed, Quality, Spare, Untouched
<1>4. /\ Empty # SelfClosed /\ Empty # Untouched /\ SelfClosed \notin Labels
      /\ Quality # Empty /\ Spare # Empty
  BY <1>3 DEF Labels
<1>5. \A v \in Vbs : Own(Empty, v) /\ Own(Quality, v) /\ Own(Spare, v)
  BY <1>1 DEF Own, Labels
<1>6. \A v \in Vbs, w \in Wordings : Own(Text(v, w), v)
  BY DEF Own, Text, Texts
<1> QED
  BY <1>1, <1>2, <1>4, <1>5, <1>6

LEMMA ToldIs ==
    ASSUME NEW d, NEW v
    PROVE  \/ /\ \A i \in RefsOf(v) : d[i] = Empty
              /\ Told(d, v) = Empty
           \/ \E i \in RefsOf(v) : d[i] # Empty /\ Told(d, v) = d[i]
<1> DEFINE written == {i \in RefsOf(v) : d[i] # Empty}
<1>1. written \subseteq Refs
  BY DEF RefsOf
<1>2. written \in SUBSET Nat /\ IsFiniteSet(written)
  BY <1>1, CommentsNumbers, FS_Subset
<1>3. CASE written = {}
  BY <1>3 DEF Told
<1>4. CASE written # {}
  <2>1. Max(written) \in written
    BY <1>2, <1>4, HasGreatest
  <2>2. Told(d, v) = d[Max(written)]
    BY <1>4 DEF Told
  <2> QED
    BY <2>1, <2>2
<1> QED
  BY <1>3, <1>4

LEMMA CommentedIs ==
    ASSUME NEW c, NEW v
    PROVE  \/ /\ \A y \in SymbolsOf(v) : c[y] \in {Empty, SelfClosed}
              /\ Commented(c, v) = Empty
           \/ \E y \in SymbolsOf(v) : c[y] \notin {Empty, SelfClosed} /\ Commented(c, v) = c[y]
<1> DEFINE written == {y \in SymbolsOf(v) : c[y] \notin {Empty, SelfClosed}}
<1>1. written \subseteq Symbols
  BY DEF SymbolsOf
<1>2. written \in SUBSET Nat /\ IsFiniteSet(written)
  BY <1>1, CommentsNumbers, FS_Subset
<1>3. CASE written = {}
  BY <1>3 DEF Commented
<1>4. CASE written # {}
  <2>1. Min(written) \in written
    BY <1>2, <1>4, HasLeast
  <2>2. Commented(c, v) = c[Min(written)]
    BY <1>4 DEF Commented
  <2> QED
    BY <2>1, <2>2
<1> QED
  BY <1>3, <1>4

LEMMA RowIs ==
    ASSUME NEW v, RefsOf(v) # {}
    PROVE  \E i \in RefsOf(v) : Row(v) = desc[i]
<1> DEFINE signal == RefsOf(v) \cap Subscribed
           from == IF signal = {} THEN RefsOf(v) ELSE signal
<1>1. from # {} /\ from \subseteq RefsOf(v) /\ from \subseteq Refs
  BY DEF RefsOf
<1>2. from \in SUBSET Nat /\ IsFiniteSet(from)
  BY <1>1, CommentsNumbers, FS_Subset
<1>3. Min(from) \in from
  BY <1>1, <1>2, HasLeast
<1> QED
  BY <1>1, <1>3 DEF Row

LEMMA ToldIsOwn ==
    ASSUME CommentsInv, NEW v \in Vbs
    PROVE  Own(Told(desc, v), v) /\ Own(NewComment(desc, v), v)
<1>1. Own(Told(desc, v), v)
  BY ToldIs, TextsAreTold DEF CommentsInv, RefsOf
<1> QED
  BY <1>1, TextsAreTold DEF NewComment

LEMMA CommentedIsOwn ==
    ASSUME CommentsInv, NEW v \in Vbs
    PROVE  Own(Commented(comment, v), v)
BY CommentedIs, TextsAreTold DEF CommentsInv, SymbolsOf

\* Descriptions that are each a VB's own are written where that VB is.
LEMMA DescribedKeeps ==
    ASSUME CommentsInv, NEW new, \A v \in DOMAIN new : Own(new[v], v),
           desc' = Described(desc, new), UNCHANGED <<comment, vbSheet, portSheet, cells, described>>
    PROVE  CommentsInv'
<1>1. DOMAIN desc' = Refs /\ desc' = [i \in Refs |-> desc'[i]]
  BY DEF Described
<1>2. ASSUME NEW i \in Refs
      PROVE  /\ Own(desc'[i], VbOfRef[i])
             /\ desc'[i] = desc[i] \/ desc'[i] # Empty
  <2>1. desc'[i] = IF VbOfRef[i] \in DOMAIN new /\ new[VbOfRef[i]] # Empty
                   THEN new[VbOfRef[i]] ELSE desc[i]
    BY DEF Described
  <2> QED
    BY <2>1 DEF CommentsInv
<1>3. desc' \in [Refs -> Texts \cup Labels]
  BY <1>1, <1>2 DEF Own
<1>4. \A i \in described' : i \in Refs /\ desc'[i] # Empty
  BY <1>2 DEF CommentsInv
<1>5. \A i \in Refs : Own(desc'[i], VbOfRef[i])
  BY <1>2
<1> HIDE <1>2
<1> QED
  BY <1>3, <1>4, <1>5 DEF CommentsInv, Own, Texts, Labels

LEMMA CommentsStep == CommentsInv /\ [CommentsNext]_commentVars => CommentsInv'
<1> SUFFICES ASSUME CommentsInv, [CommentsNext]_commentVars PROVE CommentsInv'
  OBVIOUS
<1>0. /\ \A i \in Refs : VbOfRef[i] \in Vbs
      /\ \A y \in Symbols : VbOfSymbol[y] \in Vbs
  BY CommentsNumbers
<1>1. CASE ScdToGle
  <2>1. comment' = Substituted(comment, desc)
        /\ UNCHANGED <<desc, vbSheet, portSheet, cells, described>>
    BY <1>1 DEF ScdToGle
  <2>2. DOMAIN comment' = Symbols /\ comment' = [y \in Symbols |-> comment'[y]]
    BY <2>1 DEF Substituted
  <2>3. ASSUME NEW y \in Symbols
        PROVE  comment'[y] = SelfClosed \/ Own(comment'[y], VbOfSymbol[y])
    <3>1. comment'[y] = IF RefsOf(VbOfSymbol[y]) = {} \/ comment[y] = SelfClosed
                        THEN comment[y] ELSE NewComment(desc, VbOfSymbol[y])
      BY <2>1 DEF Substituted
    <3> QED
      BY <1>0, <3>1, ToldIsOwn DEF CommentsInv
  <2>4. comment' \in [Symbols -> Texts \cup Labels \cup {SelfClosed}]
    BY <2>2, <2>3 DEF Own
  <2> QED
    BY <2>1, <2>3, <2>4 DEF CommentsInv
<1>2. CASE GleToScd
  <2>1. \A v \in DOMAIN FromGle(comment) : Own(FromGle(comment)[v], v)
    BY CommentedIsOwn DEF FromGle
  <2> QED
    BY <1>2, <2>1, DescribedKeeps DEF GleToScd
<1>3. CASE ExportDescriptions
  <2>1. vbSheet' = [v \in {v \in Vbs : RefsOf(v) # {}} |-> Row(v)]
        /\ UNCHANGED <<desc, comment, portSheet, cells, described>>
    BY <1>3 DEF ExportDescriptions
  <2>2. ASSUME NEW v \in DOMAIN vbSheet' PROVE Own(vbSheet'[v], v)
    <3>1. RefsOf(v) # {} /\ vbSheet'[v] = Row(v)
      BY <2>1, <2>2
    <3>2. PICK i \in RefsOf(v) : Row(v) = desc[i]
      BY <3>1, RowIs
    <3> QED
      BY <3>1, <3>2 DEF CommentsInv, RefsOf
  <2> QED
    BY <2>1, <2>2 DEF CommentsInv
<1>4. CASE ImportDescriptions
  BY <1>4, DescribedKeeps DEF ImportDescriptions, CommentsInv
<1>5. CASE ExportComments
  <2>1. portSheet' = [y \in Symbols |-> IF Says(y) = Empty THEN Untouched ELSE Says(y)]
        /\ UNCHANGED <<desc, comment, vbSheet, cells, described>>
    BY <1>5 DEF ExportComments
  <2>2. \A y \in Symbols : Own(Says(y), VbOfSymbol[y])
    BY <1>0, TextsAreTold DEF Says, CommentsInv
  <2> QED
    BY <2>1, <2>2 DEF CommentsInv
<1>6. CASE ImportComments
  <2>1. DOMAIN portSheet = Symbols /\ UNCHANGED <<desc, vbSheet, portSheet, cells, described>>
    BY <1>6 DEF ImportComments, CommentsInv
  <2>2. comment' = [y \in Symbols |->
            IF y \notin Changed THEN comment[y]
            ELSE IF portSheet[y] = Empty THEN SelfClosed ELSE portSheet[y]]
    BY <1>6 DEF ImportComments, WritePorts
  <2>3. ASSUME NEW y \in Symbols
        PROVE  comment'[y] = SelfClosed \/ Own(comment'[y], VbOfSymbol[y])
    BY <2>1, <2>2 DEF CommentsInv, Changed
  <2>4. comment' \in [Symbols -> Texts \cup Labels \cup {SelfClosed}]
    BY <2>2, <2>3 DEF Own
  <2> QED
    BY <2>1, <2>3, <2>4 DEF CommentsInv
<1>7. ASSUME NEW v \in Vbs, NEW t, Own(t, v), TypeDescription(v, t) PROVE CommentsInv'
  <2>1. /\ vbSheet' = [vbSheet EXCEPT ![v] = t] /\ cells < MaxCells /\ cells' = cells + 1
        /\ UNCHANGED <<desc, comment, portSheet, described>>
    BY <1>7 DEF TypeDescription
  <2>2. cells' \in 0 .. MaxCells
    BY <2>1, CommentsNumbers DEF CommentsInv
  <2> QED
    BY <1>7, <2>1, <2>2 DEF CommentsInv
<1>8. ASSUME NEW y \in Symbols, NEW t, Own(t, VbOfSymbol[y]), TypeComment(y, t) PROVE CommentsInv'
  <2>1. /\ portSheet' = [portSheet EXCEPT ![y] = t] /\ cells < MaxCells /\ cells' = cells + 1
        /\ UNCHANGED <<desc, comment, vbSheet, described>>
    BY <1>8 DEF TypeComment
  <2>2. cells' \in 0 .. MaxCells
    BY <2>1, CommentsNumbers DEF CommentsInv
  <2> QED
    BY <1>8, <2>1, <2>2 DEF CommentsInv
<1>9. ASSUME NEW v \in Vbs, NEW w \in Wordings, NEW y \in SymbolsOf(v), TypeComment(y, Text(v, w))
      PROVE  CommentsInv'
  <2>1. y \in Symbols /\ VbOfSymbol[y] = v
    BY DEF SymbolsOf
  <2> QED
    BY <1>8, <1>9, <2>1, TextsAreTold
<1>10. CASE UNCHANGED commentVars
  BY <1>10 DEF commentVars, CommentsInv
<1> QED
  BY <1>0, <1>1, <1>2, <1>3, <1>4, <1>5, <1>6, <1>7, <1>8, <1>9, <1>10, TextsAreTold
     DEF CommentsNext

LEMMA CommentsInitInv == CommentsInit => CommentsInv
<1> SUFFICES ASSUME CommentsInit PROVE CommentsInv
  OBVIOUS
<1>1. /\ desc \in [Refs -> {Text(v, w) : v \in Vbs, w \in Wordings} \cup {Empty}]
      /\ \A i \in Refs : desc[i].of \in {VbOfRef[i], "nobody"}
      /\ comment \in [Symbols -> {Empty, SelfClosed}]
      /\ vbSheet = NoSheet /\ portSheet = NoSheet /\ cells = 0
      /\ described = {i \in Refs : desc[i] # Empty}
  BY DEF CommentsInit
<1>2. {Text(v, w) : v \in Vbs, w \in Wordings} \cup {Empty} \subseteq Texts \cup Labels
  BY DEF Text, Texts, Labels
<1>3. DOMAIN NoSheet = {} /\ 0 \in 0 .. MaxCells
  BY CommentsNumbers DEF NoSheet
<1>4. desc \in [Refs -> Texts \cup Labels] /\ \A i \in Refs : Own(desc[i], VbOfRef[i])
  BY <1>1, <1>2 DEF Own
<1>5. /\ comment \in [Symbols -> Texts \cup Labels \cup {SelfClosed}]
      /\ \A y \in Symbols : comment[y] = SelfClosed \/ Own(comment[y], VbOfSymbol[y])
  <2>1. Empty \in Labels
    BY DEF Labels
  <2> QED
    BY <1>1, <2>1, CommentsNumbers, TextsAreTold
<1> QED
  BY <1>1, <1>3, <1>4, <1>5 DEF CommentsInv

LEMMA CommentsInvariant == CommentsSpec => []CommentsInv
<1> QED
  BY CommentsInitInv, CommentsStep, PTL DEF CommentsSpec

\* What a VB's symbols took over from the SCD is what they would tell it back.
LEMMA ToldBack ==
    ASSUME CommentsInv, NEW i0 \in Refs, desc[i0] # Empty
    PROVE  LET v == VbOfRef[i0]
               there == Substituted(comment, desc)
               back == Described(desc, FromGle(there))
           IN  Told(back, v) \in {desc[i] : i \in RefsOf(v)} \ {Empty}
<1> DEFINE v == VbOfRef[i0]
           there == Substituted(comment, desc)
           back == Described(desc, FromGle(there))
           known == {desc[i] : i \in RefsOf(v)} \ {Empty}
<1>1. v \in Vbs /\ i0 \in RefsOf(v) /\ RefsOf(v) \subseteq Refs
  BY CommentsNumbers DEF RefsOf
<1>2. Told(desc, v) \in known
  BY <1>1, ToldIs
<1>3. \A y \in SymbolsOf(v) : there[y] \in {comment[y], NewComment(desc, v)}
          /\ (comment[y] # SelfClosed => there[y] = NewComment(desc, v))
  BY <1>1 DEF Substituted, SymbolsOf
<1>4. NewComment(desc, v) = Told(desc, v)
  BY <1>2 DEF NewComment
<1>5. Commented(there, v) = Empty \/ Commented(there, v) = Told(desc, v)
  BY <1>3, <1>4, CommentedIs
<1>6. \A i \in RefsOf(v) : back[i] = desc[i] \/ back[i] = Told(desc, v)
  BY <1>1, <1>5 DEF Described, FromGle, RefsOf
<1>7. back[i0] # Empty
  BY <1>1, <1>2, <1>6
<1> HIDE DEF back
<1>8. PICK i \in RefsOf(v) : back[i] # Empty /\ Told(back, v) = back[i]
  BY <1>1, <1>7, ToldIs
<1>9. Told(back, v) \in known
  BY <1>2, <1>6, <1>8
<1> QED
  BY <1>9 DEF back

(***************************************************************************)
(* Whatever goes from file to file, and by way of whatever workbook, no    *)
(* description is lost or lands on another VB, for any VBs, ExtRefs,       *)
(* symbols and wordings (vb_updater/export.py, model.py).                  *)
(***************************************************************************)
THEOREM DescriptionsAreKeptHolds == CommentsSpec => []DescriptionsAreKept
<1>1. CommentsInv => DescriptionsAreKept
  <2> SUFFICES ASSUME CommentsInv PROVE DescriptionsAreKept
    OBVIOUS
  <2>1. \A i \in described : desc[i] # Empty
    BY DEF CommentsInv
  <2>2. \A i \in Refs : desc[i].of \in {VbOfRef[i], "nobody"}
    BY DEF CommentsInv, Own
  <2>3. \A y \in Symbols : comment[y].of \in {VbOfSymbol[y], "nobody"}
    BY DEF CommentsInv, Own, SelfClosed
  <2> QED
    BY <2>1, <2>2, <2>3, ToldBack DEF DescriptionsAreKept
<1> QED
  BY <1>1, CommentsInvariant, PTL

-----------------------------------------------------------------------------
(* The stories together (MCWeb).                                           *)

\* What TLC runs is, to each part, a behaviour of that part.
LEMMA WebStories ==
    FairSpec => /\ SessionsSpec /\ LibrarySpec /\ RegistrySpec /\ TabsSpec
                /\ OutputsSpec /\ DnpSpec /\ CommentsSpec
<1>1. Init => /\ SessionsInit /\ LibraryInit /\ RegistryInit /\ TabsInit
              /\ OutputsInit /\ DnpInit /\ CommentsInit
  BY DEF Init
<1>2. ASSUME [Next]_allVars
      PROVE  /\ [SessionsNext]_sessionVars /\ [LibraryNext]_libraryVars
             /\ [RegistryNext]_registryVars /\ [TabsNext]_tabVars
             /\ [OutputsNext]_outputVars /\ [DnpNext]_dnpVars /\ [CommentsNext]_commentVars
  BY <1>2 DEF Next, allVars, serverVars, toolVars, Visit, Store, Progress, Tabs,
     WriteOutputs, EditMap, EditComments
<1> QED
  BY <1>1, <1>2, PTL DEF FairSpec, SessionsSpec, LibrarySpec, RegistrySpec, TabsSpec,
     OutputsSpec, DnpSpec, CommentsSpec

(***************************************************************************)
(* Every variable on the server's side of the tools keeps to its values.   *)
(***************************************************************************)
THEOREM WebTyped == FairSpec => []WebTypeOK
<1>1. RegistryInv /\ TabsInv => RegistryTypeOK /\ TabsTypeOK
  BY DEF RegistryInv, TabsInv
<1>2. DnpInv => DnpTypeOK
  BY DEF DnpInv, DnpTypeOK, Differs, Range
<1>3. CommentsInv => CommentsTypeOK
  BY DEF CommentsInv, CommentsTypeOK
<1>4. /\ SessionsTypeOK /\ LibraryTypeOK /\ RegistryTypeOK /\ TabsTypeOK
      /\ OutputsTypeOK /\ DnpTypeOK /\ CommentsTypeOK
      => WebTypeOK
  BY DEF WebTypeOK
<1> QED
  BY <1>1, <1>2, <1>3, <1>4, WebStories, SessionsTypeCorrect, LibraryTypeCorrect,
     RegistryInvariant, TabsInvariant, OutputsTyped, DnpInvariant, CommentsInvariant, PTL

(***************************************************************************)
(* What a tool works on comes through whole, where the files of the relays *)
(* list each DNP quantity once.                                            *)
(***************************************************************************)
THEOREM SettingsAreKeptHolds ==
    ASSUME FilesAreStraight
    PROVE  FairSpec => []SettingsAreKept
<1>1. PointsAreKept /\ DescriptionsAreKept => SettingsAreKept
  BY DEF SettingsAreKept
<1>2. FairSpec => []PointsAreKept
  BY WebStories, PointsAreKeptHolds, PTL
<1> QED
  BY <1>1, <1>2, WebStories, DescriptionsAreKeptHolds, PTL
=============================================================================
