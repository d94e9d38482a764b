--------------------------- MODULE LinkPoolProofs ---------------------------
(* What holds of LinkPool for any number of diagrams, relays and requests. *)
EXTENDS LinkPool, FiniteSetTheorems, TLAPS

\* A request names its thread <<d, gen + 1>>, which is a thread of d.
LEMMA NewThread ==
  ASSUME TypeOK, NEW d \in Diagrams, gen[d] < Requests[d]
  PROVE  /\ <<d, gen[d] + 1>> \in Threads
         /\ gen[d] + 1 \in 0..MaxGen
BY PoolAssumption DEF TypeOK, Threads

\* The relay and the owner id of a thread are of the right types.
LEMMA ThreadData ==
  ASSUME NEW t \in Threads
  PROVE  /\ t[1] \in Diagrams /\ t[2] \in 1..MaxGen /\ t = <<t[1], t[2]>>
         /\ Key(t) \in Relays /\ Me(t) \in Owners
         /\ t # None
BY PoolAssumption DEF Threads, Links, Key, Me

-----------------------------------------------------------------------------
\* Every variable keeps its type, and a thread that waits on a link, prepares
\* its bits or is inside release() has a link in its local variable.
LEMMA TypeInit == Init => TypeOK
BY PoolAssumption DEF Init, TypeOK, Active, Releasing

LEMMA TypeRequest ==
  ASSUME TypeOK, NEW d \in Diagrams, Connect(d) \/ Disconnect(d)
  PROVE  TypeOK'
<1>1. gen[d] < Requests[d]
  BY DEF Connect, Disconnect
<1> DEFINE t == <<d, gen[d] + 1>>
<1>2. t \in Threads /\ gen[d] + 1 \in 0..MaxGen
  BY <1>1, NewThread
<1> HIDE DEF t
<1>3. PICK next \in {"acquire", "done"} :
        /\ gen' = [gen EXCEPT ![d] = gen[d] + 1]
        /\ att' = [att EXCEPT ![d] = None]
        /\ held' = [held EXCEPT ![t] = att[d]]
        /\ then' = [then EXCEPT ![t] = next]
        /\ pc' = [pc EXCEPT ![t] = IF att[d] # None THEN "drop" ELSE next]
        /\ \E s \in {"connecting", "idle"} : status' = [status EXCEPT ![d] = s]
        /\ UNCHANGED <<poolVars, linkVars>>
  BY DEF Connect, Disconnect, Spawn, t
<1>4. QED
  BY <1>2, <1>3 DEF TypeOK, Links, poolVars, linkVars, Active, Releasing

LEMMA TypeWork ==
  ASSUME TypeOK, NEW t \in Threads, Work(t)
  PROVE  TypeOK'
<1> USE ThreadData DEF TypeOK, Links, poolVars, linkVars, diagramVars, threadVars,
                       Active, Releasing
<1>1. CASE Join(t)          BY <1>1 DEF Join
<1>2. CASE Open(t)          BY <1>2 DEF Open, Install
<1>3. CASE Refuse(t)        BY <1>3 DEF Refuse
<1>4. CASE WaitCancelled(t) BY <1>4 DEF WaitCancelled, Release
<1>5. CASE WaitReady(t)
  <2>1. held[t] \in Links
    BY <1>5 DEF WaitReady
  <2>2. CASE pc' = [pc EXCEPT ![t] = "prepare"] /\ UNCHANGED <<then, held>>
    BY <1>5, <2>1, <2>2 DEF WaitReady
  <2>3. CASE \E next \in {"fail", "done"} : Release(t, next)
    BY <1>5, <2>1, <2>3 DEF WaitReady, Release
  <2>4. QED
    BY <1>5, <2>2, <2>3 DEF WaitReady
<1>6. CASE PrepareFails(t)  BY <1>6 DEF PrepareFails, Release
<1>7. CASE Attach(t)
  <2>1. held[t] \in Links
    BY <1>7 DEF Attach
  <2>2. CASE /\ att' = [att EXCEPT ![t[1]] = held[t]]
             /\ status' = [status EXCEPT ![t[1]] = "live"]
             /\ pc' = [pc EXCEPT ![t] = "done"]
             /\ held' = [held EXCEPT ![t] = None]
             /\ UNCHANGED <<gen, then>>
    BY <1>7, <2>1, <2>2 DEF Attach
  <2>3. CASE Release(t, "done") /\ UNCHANGED diagramVars
    BY <1>7, <2>1, <2>3 DEF Attach, Release
  <2>4. QED
    BY <1>7, <2>2, <2>3 DEF Attach
<1>8. CASE Fail(t)          BY <1>8 DEF Fail, PaintError
<1>9. CASE FailRefused(t)   BY <1>9 DEF FailRefused, PaintError
<1>10. CASE Drop(t)
  <2>1. held[t] \in Links /\ Key(held[t]) \in Relays
    BY <1>10 DEF Drop
  <2>2. owners' \in [Links -> SUBSET Owners]
    BY <1>10, <2>1 DEF Drop
  <2>3. CASE Return(t) /\ UNCHANGED pool
    BY <1>10, <2>2, <2>3 DEF Drop, Return
  <2>4. CASE /\ pool' = [pool EXCEPT ![Key(held[t])] = None]
             /\ pc' = [pc EXCEPT ![t] = "close"]
             /\ UNCHANGED <<then, held>>
    BY <1>10, <2>1, <2>2, <2>4 DEF Drop
  <2>5. QED
    BY <1>10, <2>3, <2>4 DEF Drop
<1>11. CASE Close(t)        BY <1>11 DEF Close, Return, Aborted
<1>12. QED
  BY <1>1, <1>2, <1>3, <1>4, <1>5, <1>6, <1>7, <1>8, <1>9, <1>10, <1>11
  DEF Work, Acquire

\* A step of a link's own threads.
LinkStep(l) == \/ LogIn(l) \/ SetupFails(l) \/ SetupDone(l)
               \/ ReaderGivesUp(l) \/ Watch(l)

LEMMA TypeLink ==
  ASSUME TypeOK, NEW l \in Links, LinkStep(l)
  PROVE  TypeOK'
<1> USE ThreadData DEF TypeOK, Links, poolVars, linkVars, diagramVars, threadVars,
                       Active, Releasing
<1>1. CASE LogIn(l)           BY <1>1 DEF LogIn
<1>2. CASE SetupFails(l)      BY <1>2 DEF SetupFails
<1>3. CASE SetupDone(l)       BY <1>3 DEF SetupDone
<1>4. CASE ReaderGivesUp(l)   BY <1>4 DEF ReaderGivesUp
<1>5. CASE WatchdogExpires(l) BY <1>5 DEF WatchdogExpires
<1>6. CASE WatchdogAborts(l)  BY <1>6 DEF WatchdogAborts, Aborted
<1>7. CASE Abandon(l)         BY <1>7 DEF Abandon
<1>8. QED
  BY <1>1, <1>2, <1>3, <1>4, <1>5, <1>6, <1>7 DEF LinkStep, Watch

\* The step of Next is a request, a thread's step or a link's step.
LEMMA NextCases ==
  ASSUME Next
  PROVE  \/ \E d \in Diagrams : Connect(d) \/ Disconnect(d)
         \/ \E t \in Threads : Work(t)
         \/ \E l \in Links : LinkStep(l)
BY DEF Next, LinkStep

\* LinkPool is type correct.
THEOREM TypeCorrect == Spec => []TypeOK
<1>1. TypeOK /\ [Next]_vars => TypeOK'
  <2> SUFFICES ASSUME TypeOK, [Next]_vars PROVE TypeOK'
    OBVIOUS
  <2>1. CASE Next
    BY <2>1, NextCases, TypeRequest, TypeWork, TypeLink
  <2>2. CASE UNCHANGED vars
    BY <2>2 DEF TypeOK, vars, poolVars, linkVars, diagramVars, threadVars
  <2>3. QED
    BY <2>1, <2>2
<1>2. QED
  BY <1>1, TypeInit, PTL DEF Spec

-----------------------------------------------------------------------------
(***************************************************************************)
(* The pool never hands out a link on its way down, and every slot of the  *)
(* ceiling has an owner.  Both are inductive only with what makes a link    *)
(* that has just been created fresh: the attempt that creates it is named   *)
(* by a generation nobody has used, and nothing refers to a link before it. *)
(***************************************************************************)

\* A generation that has not been reached has no thread.
FreshThreads == \A t \in Threads : t[2] > gen[t[1]] => pc[t] = "none"

\* An attempt that has yet to acquire has created no link.
Unopened ==
  \A t \in Threads :
    pc[t] \in {"none", "acquire"} \/ (pc[t] \in Releasing /\ then[t] = "acquire")
      => conn[t] = "off"

\* Nothing refers to a link that does not exist yet.
Unused ==
  \A l \in Links : conn[l] = "off" =>
    /\ owners[l] = {} /\ ~closed[l]
    /\ \A k \in Relays : pool[k] # l
    /\ \A t \in Threads : held[t] # l
    /\ \A d \in Diagrams : att[d] # l

PoolInv == FreshThreads /\ Unopened /\ Unused /\ NeverJoinClosing /\ PooledIsOwned

LEMMA PoolInit == Init => PoolInv
BY PoolAssumption DEF Init, PoolInv, FreshThreads, Unopened, Unused,
  NeverJoinClosing, PooledIsOwned, Releasing, Links

\* A request only adds a thread of a generation that was fresh.
LEMMA PoolRequest ==
  ASSUME TypeOK, PoolInv, NEW d \in Diagrams, Connect(d) \/ Disconnect(d)
  PROVE  PoolInv'
<1> DEFINE n == <<d, gen[d] + 1>>
<1>1. n \in Threads /\ gen[d] \in Nat /\ n[1] = d /\ n[2] = gen[d] + 1
  BY NewThread DEF TypeOK, Connect, Disconnect
<1>2. pc[n] = "none"
  BY <1>1 DEF PoolInv, FreshThreads
<1>3. conn[n] = "off"
  BY <1>1, <1>2 DEF PoolInv, Unopened
<1>4. PICK next \in {"acquire", "done"} :
        /\ gen' = [gen EXCEPT ![d] = gen[d] + 1]
        /\ att' = [att EXCEPT ![d] = None]
        /\ held' = [held EXCEPT ![n] = att[d]]
        /\ then' = [then EXCEPT ![n] = next]
        /\ pc' = [pc EXCEPT ![n] = IF att[d] # None THEN "drop" ELSE next]
        /\ UNCHANGED <<poolVars, linkVars>>
  BY DEF Connect, Disconnect, Spawn
<1> HIDE DEF n
<1>5. FreshThreads'
  <2> SUFFICES ASSUME NEW t \in Threads, t[2] > gen'[t[1]]
               PROVE  pc'[t] = "none"
    BY DEF FreshThreads
  <2>1. t[1] \in Diagrams /\ t[2] \in Nat /\ gen[t[1]] \in Nat
    BY ThreadData DEF TypeOK
  <2>2. t[2] > gen[t[1]] /\ t # n
    BY <1>1, <1>4, <2>1 DEF TypeOK
  <2>3. QED
    BY <1>1, <1>4, <2>2 DEF PoolInv, FreshThreads, TypeOK
<1>6. Unopened'
  BY <1>1, <1>3, <1>4 DEF PoolInv, Unopened, TypeOK, linkVars, Releasing
<1>7. Unused'
  BY <1>1, <1>4, PoolAssumption DEF PoolInv, Unused, TypeOK, poolVars, linkVars
<1>8. NeverJoinClosing'
  BY <1>1, <1>4 DEF PoolInv, NeverJoinClosing, TypeOK, poolVars, linkVars
<1>9. PooledIsOwned'
  BY <1>4 DEF PoolInv, PooledIsOwned, poolVars
<1>10. QED
  BY <1>5, <1>6, <1>7, <1>8, <1>9 DEF PoolInv

\* The steps of an attempt that touch neither the map, nor an owner set, nor a link.
AttemptStep(t) == \/ Refuse(t) \/ WaitCancelled(t) \/ WaitReady(t)
                  \/ PrepareFails(t) \/ Attach(t) \/ Fail(t) \/ FailRefused(t)

LEMMA PoolAttempt ==
  ASSUME TypeOK, PoolInv, NEW t \in Threads, AttemptStep(t)
  PROVE  PoolInv'
<1>1. /\ UNCHANGED <<poolVars, linkVars, gen>>
      /\ held' \in {held, [held EXCEPT ![t] = None]}
      /\ pc[t] \notin {"none", "close"}
      /\ \E p \in {"refused", "drop", "prepare", "fail", "done"} : pc' = [pc EXCEPT ![t] = p]
  BY DEF AttemptStep, Refuse, WaitCancelled, WaitReady, PrepareFails, Attach, Fail,
         FailRefused, PaintError, Release, diagramVars
<1>2. \/ then' = then /\ pc'[t] # "drop"
      \/ \E next \in {"done", "fail"} : then' = [then EXCEPT ![t] = next]
  BY DEF AttemptStep, Refuse, WaitCancelled, WaitReady, PrepareFails, Attach, Fail,
         FailRefused, PaintError, Release, diagramVars, TypeOK
<1>3. att' \in [Diagrams -> Links \cup {None}]
      /\ \A d \in Diagrams : att'[d] \in {att[d], None, held[t]}
  BY DEF AttemptStep, Refuse, WaitCancelled, WaitReady, PrepareFails, Attach, Fail,
         FailRefused, PaintError, Release, diagramVars, TypeOK
<1>4. FreshThreads'
  BY <1>1 DEF PoolInv, FreshThreads, TypeOK
<1>5. Unopened'
  BY <1>1, <1>2 DEF PoolInv, Unopened, TypeOK, linkVars, Releasing
<1>6. Unused'
  BY <1>1, <1>3, PoolAssumption DEF PoolInv, Unused, TypeOK, poolVars, linkVars
<1>7. NeverJoinClosing'
  BY <1>1, PoolAssumption DEF PoolInv, NeverJoinClosing, TypeOK, poolVars, linkVars
<1>8. PooledIsOwned'
  BY <1>1 DEF PoolInv, PooledIsOwned, poolVars
<1>9. QED
  BY <1>4, <1>5, <1>6, <1>7, <1>8 DEF PoolInv

\* Joining adds an owner to a link of the map.
LEMMA PoolJoin ==
  ASSUME TypeOK, PoolInv, NEW t \in Threads, Join(t)
  PROVE  PoolInv'
<1> DEFINE l == pool[Key(t)]
<1>1. l \in Links /\ Key(t) \in Relays
  BY ThreadData DEF Join, TypeOK
<1>2. /\ owners' = [owners EXCEPT ![l] = @ \cup {Me(t)}]
      /\ held' = [held EXCEPT ![t] = l]
      /\ pc[t] = "acquire" /\ pc' = [pc EXCEPT ![t] = "wait"]
      /\ UNCHANGED <<pool, linkVars, diagramVars, then>>
  BY DEF Join
<1>3. conn[l] # "off"
  BY <1>1 DEF PoolInv, Unused
<1> HIDE DEF l
<1>4. FreshThreads'
  BY <1>2 DEF PoolInv, FreshThreads, TypeOK, diagramVars
<1>5. Unopened'
  BY <1>2 DEF PoolInv, Unopened, TypeOK, linkVars, Releasing
<1>6. Unused'
  BY <1>1, <1>2, <1>3 DEF PoolInv, Unused, TypeOK, linkVars, diagramVars
<1>7. NeverJoinClosing'
  BY <1>1, <1>2 DEF PoolInv, NeverJoinClosing, TypeOK, linkVars
<1>8. PooledIsOwned'
  BY <1>1, <1>2 DEF PoolInv, PooledIsOwned, TypeOK
<1>9. QED
  BY <1>4, <1>5, <1>6, <1>7, <1>8 DEF PoolInv

\* A new link is named after its attempt, to which nothing referred before.
LEMMA PoolOpen ==
  ASSUME TypeOK, PoolInv, NEW t \in Threads, Open(t)
  PROVE  PoolInv'
<1>1. conn[t] = "off" /\ t \in Links /\ Key(t) \in Relays /\ t # None
  BY ThreadData DEF Open, Install, PoolInv, Unopened, Links
<1>2. /\ pool' = [pool EXCEPT ![Key(t)] = t]
      /\ owners' = [owners EXCEPT ![t] = {Me(t)}]
      /\ conn' = [conn EXCEPT ![t] = "dialing"]
      /\ held' = [held EXCEPT ![t] = t]
      /\ pc[t] = "acquire" /\ pc' = [pc EXCEPT ![t] = "wait"]
      /\ UNCHANGED <<closed, att, gen, then>>
  BY DEF Open, Install, diagramVars
<1>3. FreshThreads'
  BY <1>2 DEF PoolInv, FreshThreads, TypeOK
<1>4. Unopened'
  BY <1>1, <1>2 DEF PoolInv, Unopened, TypeOK, Links, Releasing
<1>5. Unused'
  BY <1>1, <1>2 DEF PoolInv, Unused, TypeOK
<1>6. ~closed[t] /\ \A u \in Threads : held[u] # t
  BY <1>1 DEF PoolInv, Unused
<1>7. NeverJoinClosing'
  BY <1>1, <1>2, <1>6 DEF PoolInv, NeverJoinClosing, TypeOK
<1>8. PooledIsOwned'
  BY <1>1, <1>2 DEF PoolInv, PooledIsOwned, TypeOK
<1>9. QED
  BY <1>3, <1>4, <1>5, <1>7, <1>8 DEF PoolInv

\* The last owner takes the link out of the map in the step that empties the owners.
LEMMA PoolDrop ==
  ASSUME TypeOK, PoolInv, NEW t \in Threads, Drop(t)
  PROVE  PoolInv'
<1> DEFINE l == held[t]
<1>1. l \in Links /\ Key(l) \in Relays
  BY ThreadData DEF Drop, TypeOK, Releasing, Links
<1>2. /\ pc[t] = "drop"
      /\ owners' = [owners EXCEPT ![l] = @ \ {Me(t)}]
      /\ UNCHANGED <<linkVars, diagramVars>>
  BY DEF Drop
<1>3. conn[l] # "off"
  BY <1>1 DEF PoolInv, Unused
<1>4. \/ /\ owners'[l] # {} /\ UNCHANGED pool
         /\ pc' = [pc EXCEPT ![t] = then[t]]
         /\ then' = [then EXCEPT ![t] = "done"] /\ held' = [held EXCEPT ![t] = None]
      \/ /\ pool' = [pool EXCEPT ![Key(l)] = None]
         /\ pc' = [pc EXCEPT ![t] = "close"]
         /\ UNCHANGED <<then, held>>
  BY DEF Drop, Return
<1> HIDE DEF l
<1>5. FreshThreads'
  BY <1>2, <1>4 DEF PoolInv, FreshThreads, TypeOK, diagramVars
<1>6. Unopened'
  BY <1>2, <1>4 DEF PoolInv, Unopened, TypeOK, linkVars, Releasing
<1>7. Unused'
  BY <1>1, <1>2, <1>3, <1>4, PoolAssumption DEF PoolInv, Unused, TypeOK, linkVars, diagramVars
<1>8. NeverJoinClosing'
  BY <1>1, <1>2, <1>4, PoolAssumption DEF PoolInv, NeverJoinClosing, TypeOK, linkVars, l
<1>9. PooledIsOwned'
  BY <1>1, <1>2, <1>4 DEF PoolInv, PooledIsOwned, NeverJoinClosing, TypeOK
<1>10. QED
  BY <1>5, <1>6, <1>7, <1>8, <1>9 DEF PoolInv

\* close() marks a link that left the map before.
LEMMA PoolClose ==
  ASSUME TypeOK, PoolInv, NEW t \in Threads, Close(t)
  PROVE  PoolInv'
<1> DEFINE l == held[t]
<1>1. l \in Links /\ conn[l] # "off"
  BY DEF Close, TypeOK, PoolInv, Unused, Releasing
<1>2. /\ pc[t] = "close"
      /\ closed' = [closed EXCEPT ![l] = TRUE]
      /\ UNCHANGED <<poolVars, conn, diagramVars>>
      /\ pc' = [pc EXCEPT ![t] = then[t]]
      /\ then' = [then EXCEPT ![t] = "done"] /\ held' = [held EXCEPT ![t] = None]
  BY DEF Close, Return
<1>3. \A k \in Relays : pool[k] # l
  BY <1>1, <1>2, PoolAssumption DEF PoolInv, NeverJoinClosing
<1> HIDE DEF l
<1>4. FreshThreads'
  BY <1>2 DEF PoolInv, FreshThreads, TypeOK, diagramVars
<1>5. Unopened'
  BY <1>2 DEF PoolInv, Unopened, TypeOK, Releasing
<1>6. Unused'
  BY <1>1, <1>2, PoolAssumption DEF PoolInv, Unused, TypeOK, poolVars, diagramVars
<1>7. NeverJoinClosing'
  BY <1>1, <1>2, <1>3, PoolAssumption DEF PoolInv, NeverJoinClosing, TypeOK, poolVars
<1>8. PooledIsOwned'
  BY <1>2 DEF PoolInv, PooledIsOwned, poolVars
<1>9. QED
  BY <1>4, <1>5, <1>6, <1>7, <1>8 DEF PoolInv

\* The link's own threads open, use and abandon a session; they close no link
\* and only take out of the map.
LEMMA PoolLink ==
  ASSUME TypeOK, PoolInv, NEW l \in Links, LinkStep(l)
  PROVE  PoolInv'
<1>1. /\ UNCHANGED <<owners, closed, att, gen, pc, then, held>>
      /\ pool' \in {pool, [pool EXCEPT ![Key(l)] = None]}
  <2>1. Key(l) \in Relays /\ pool = [pool EXCEPT ![Key(l)] = pool[Key(l)]]
    BY ThreadData DEF TypeOK, Links
  <2>2. QED
    BY <2>1 DEF LinkStep, LogIn, SetupFails, SetupDone, ReaderGivesUp, Watch, WatchdogExpires,
         WatchdogAborts, Abandon, poolVars, diagramVars, threadVars
<1>2. \A m \in Links : conn'[m] = "off" <=> conn[m] = "off"
  BY DEF LinkStep, LogIn, SetupFails, SetupDone, ReaderGivesUp, Watch, WatchdogExpires,
         WatchdogAborts, Abandon, TypeOK
<1>3. \A k \in Relays : pool'[k] \in {pool[k], None}
  BY <1>1 DEF TypeOK
<1>4. FreshThreads'
  BY <1>1 DEF PoolInv, FreshThreads
<1>5. Unopened'
  BY <1>1, <1>2 DEF PoolInv, Unopened, Links
<1>6. Unused'
  BY <1>1, <1>2, <1>3, ThreadData DEF PoolInv, Unused, Links
<1>7. NeverJoinClosing'
  BY <1>1, <1>3 DEF PoolInv, NeverJoinClosing
<1>8. PooledIsOwned'
  BY <1>1, <1>3 DEF PoolInv, PooledIsOwned
<1>9. QED
  BY <1>4, <1>5, <1>6, <1>7, <1>8 DEF PoolInv

LEMMA PoolStep == TypeOK /\ PoolInv /\ [Next]_vars => PoolInv'
<1> SUFFICES ASSUME TypeOK, PoolInv, [Next]_vars PROVE PoolInv'
  OBVIOUS
<1>1. CASE \E d \in Diagrams : Connect(d) \/ Disconnect(d)
  BY <1>1, PoolRequest
<1>2. CASE \E t \in Threads : Work(t)
  <2>1. PICK t \in Threads : Work(t)
    BY <1>2
  <2>2. AttemptStep(t) \/ Join(t) \/ Open(t) \/ Drop(t) \/ Close(t)
    BY <2>1 DEF Work, Acquire, AttemptStep
  <2>3. QED
    BY <2>2, PoolAttempt, PoolJoin, PoolOpen, PoolDrop, PoolClose
<1>3. CASE \E l \in Links : LinkStep(l)
  BY <1>3, PoolLink
<1>4. CASE UNCHANGED vars
  BY <1>4 DEF PoolInv, FreshThreads, Unopened, Unused, NeverJoinClosing, PooledIsOwned,
              vars, poolVars, linkVars, diagramVars, threadVars
<1>5. QED
  BY <1>1, <1>2, <1>3, <1>4, NextCases

LEMMA PoolInvariant == Spec => []PoolInv
BY TypeCorrect, PoolInit, PoolStep, PTL DEF Spec

\* No acquire() ever joins a link that is closed or being closed, and every
\* slot of the ceiling has an owner.
THEOREM PooledIsLiveHolds == Spec => []PooledIsLive
BY PoolInvariant, PTL DEF PoolInv, PooledIsLive

-----------------------------------------------------------------------------
(***************************************************************************)
(* The refcount is right for users that let an attempt end before the next *)
(* one and whose diagrams have ids of their own: whatever the relay and the *)
(* watchdog do, no connection is closed under a diagram.                    *)
(***************************************************************************)

Patient == ~EarlyReconnect
DistinctIds == \A d, e \in Diagrams : OwnerOf[d] = OwnerOf[e] => d = e

\* A diagram has one thread at work, and none once it is attached.
OneThread ==
  \A t, u \in Threads :
    pc[t] \in Active /\ pc[u] \in Active /\ t[1] = u[1] => t = u
AttachedIsQuiet == \A d \in Diagrams : att[d] # None => Quiet(d)

\* Whoever holds a link is among its owners.
HoldersOwn ==
  /\ \A t \in Threads : Holding(t) => Me(t) \in owners[held[t]]
  /\ \A d \in Diagrams : att[d] # None => OwnerOf[d] \in owners[att[d]]

\* A link that is closed, or about to be, has no owner.
ClosingIsUnowned ==
  \A l \in Links :
    closed[l] \/ (\E t \in Threads : pc[t] = "close" /\ held[t] = l) => owners[l] = {}

OwnerInv == OneThread /\ AttachedIsQuiet /\ HoldersOwn /\ ClosingIsUnowned

LEMMA OwnerInit == Init => OwnerInv
BY PoolAssumption DEF Init, OwnerInv, OneThread, AttachedIsQuiet, HoldersOwn,
  ClosingIsUnowned, Holding, Active, Releasing, Links

LEMMA OwnerRequest ==
  ASSUME TypeOK, PoolInv, OwnerInv, Patient,
         NEW d \in Diagrams, Connect(d) \/ Disconnect(d)
  PROVE  OwnerInv'
<1> DEFINE n == <<d, gen[d] + 1>>
<1>1. n \in Threads /\ n[1] = d /\ n[2] = gen[d] + 1 /\ gen[d] \in Nat
  BY NewThread DEF TypeOK, Connect, Disconnect
<1>2. pc[n] = "none"
  BY <1>1 DEF PoolInv, FreshThreads
<1>3. PICK next \in {"acquire", "done"} :
        /\ att' = [att EXCEPT ![d] = None]
        /\ held' = [held EXCEPT ![n] = att[d]]
        /\ pc' = [pc EXCEPT ![n] = IF att[d] # None THEN "drop" ELSE next]
        /\ UNCHANGED <<poolVars, linkVars>>
        /\ next = "acquire" => Quiet(d)
  BY DEF Connect, Disconnect, Spawn, Patient
<1> HIDE DEF n
<1>4. pc'[n] \in Active => Quiet(d)
  BY <1>1, <1>3 DEF OwnerInv, AttachedIsQuiet, TypeOK, Active, Releasing
<1>5. OneThread'
  BY <1>1, <1>3, <1>4 DEF OwnerInv, OneThread, Quiet, TypeOK
<1>6. AttachedIsQuiet'
  BY <1>1, <1>3 DEF OwnerInv, AttachedIsQuiet, Quiet, TypeOK
<1>7. Me(n) = OwnerOf[d]
  BY <1>1 DEF Me
<1>8. HoldersOwn'
  BY <1>1, <1>3, <1>7 DEF OwnerInv, HoldersOwn, Holding, Me, TypeOK, poolVars
<1>9. ClosingIsUnowned'
  BY <1>1, <1>2, <1>3 DEF OwnerInv, ClosingIsUnowned, TypeOK, poolVars, linkVars
<1>10. QED
  BY <1>5, <1>6, <1>8, <1>9 DEF OwnerInv

\* Refusing, waiting, giving up: the attempt keeps, hands over or forgets its link.
LEMMA OwnerAttempt ==
  ASSUME TypeOK, OwnerInv, NEW t \in Threads, AttemptStep(t)
  PROVE  OwnerInv'
<1>1. /\ UNCHANGED <<poolVars, linkVars, gen>>
      /\ held' \in {held, [held EXCEPT ![t] = None]}
      /\ pc[t] \in Active \ {"close"}
      /\ \E p \in {"refused", "drop", "prepare", "fail", "done"} :
           /\ pc' = [pc EXCEPT ![t] = p]
           /\ p \in {"drop", "prepare"} => Holding(t) /\ held' = held
  BY DEF AttemptStep, Refuse, WaitCancelled, WaitReady, PrepareFails, Attach, Fail,
         FailRefused, PaintError, Release, diagramVars, Holding, Active, Releasing
<1>2. \/ \A d \in Diagrams : att'[d] \in {att[d], None}
      \/ /\ Holding(t) /\ att' = [att EXCEPT ![t[1]] = held[t]] /\ pc'[t] = "done"
  BY DEF AttemptStep, Refuse, WaitCancelled, WaitReady, PrepareFails, Attach, Fail,
         FailRefused, PaintError, Release, diagramVars, TypeOK, Holding
<1>3. OneThread'
  BY <1>1 DEF OwnerInv, OneThread, TypeOK, Active, Releasing
<1>4. AttachedIsQuiet'
  BY <1>1, <1>2, ThreadData DEF OwnerInv, AttachedIsQuiet, OneThread, Quiet, TypeOK,
     Active, Releasing
<1>5. HoldersOwn'
  BY <1>1, <1>2, ThreadData DEF OwnerInv, HoldersOwn, Holding, Me, TypeOK, poolVars
<1>6. ClosingIsUnowned'
  BY <1>1, PoolAssumption DEF OwnerInv, ClosingIsUnowned, TypeOK, poolVars, linkVars
<1>7. QED
  BY <1>3, <1>4, <1>5, <1>6 DEF OwnerInv

LEMMA OwnerJoin ==
  ASSUME TypeOK, PoolInv, OwnerInv, NEW t \in Threads, Join(t)
  PROVE  OwnerInv'
<1> DEFINE l == pool[Key(t)]
<1>1. l \in Links /\ Key(t) \in Relays /\ l # None
  BY ThreadData DEF Join, TypeOK
<1>2. /\ owners' = [owners EXCEPT ![l] = @ \cup {Me(t)}]
      /\ held' = [held EXCEPT ![t] = l]
      /\ pc[t] = "acquire" /\ pc' = [pc EXCEPT ![t] = "wait"]
      /\ UNCHANGED <<closed, att>>
  BY DEF Join, linkVars, diagramVars
<1>3. ~closed[l] /\ \A u \in Threads : pc[u] = "close" => held[u] # l
  BY <1>1 DEF PoolInv, NeverJoinClosing
<1> HIDE DEF l
<1>4. OneThread'
  BY <1>2 DEF OwnerInv, OneThread, TypeOK, Active, Releasing
<1>5. AttachedIsQuiet'
  BY <1>2, ThreadData DEF OwnerInv, AttachedIsQuiet, Quiet, TypeOK, Active, Releasing
<1>6. HoldersOwn'
  BY <1>1, <1>2 DEF OwnerInv, HoldersOwn, Holding, Me, TypeOK
<1>7. ClosingIsUnowned'
  BY <1>1, <1>2, <1>3 DEF OwnerInv, ClosingIsUnowned, TypeOK
<1>8. QED
  BY <1>4, <1>5, <1>6, <1>7 DEF OwnerInv

LEMMA OwnerOpen ==
  ASSUME TypeOK, PoolInv, OwnerInv, NEW t \in Threads, Open(t)
  PROVE  OwnerInv'
<1>1. t \in Links /\ t # None /\ conn[t] = "off"
  BY ThreadData DEF Open, Install, PoolInv, Unopened, Links
<1>2. /\ owners' = [owners EXCEPT ![t] = {Me(t)}]
      /\ held' = [held EXCEPT ![t] = t]
      /\ pc[t] = "acquire" /\ pc' = [pc EXCEPT ![t] = "wait"]
      /\ UNCHANGED <<closed, att>>
  BY DEF Open, Install, diagramVars
<1>3. /\ ~closed[t]
      /\ \A u \in Threads : held[u] # t
      /\ \A d \in Diagrams : att[d] # t
  BY <1>1 DEF PoolInv, Unused
<1>4. OneThread'
  BY <1>2 DEF OwnerInv, OneThread, TypeOK, Active, Releasing
<1>5. AttachedIsQuiet'
  BY <1>2, ThreadData DEF OwnerInv, AttachedIsQuiet, Quiet, TypeOK, Active, Releasing
<1>6. HoldersOwn'
  BY <1>1, <1>2, <1>3 DEF OwnerInv, HoldersOwn, Holding, Me, TypeOK
<1>7. ClosingIsUnowned'
  BY <1>1, <1>2, <1>3 DEF OwnerInv, ClosingIsUnowned, TypeOK
<1>8. QED
  BY <1>4, <1>5, <1>6, <1>7 DEF OwnerInv

\* The id that leaves is nobody else's.
LEMMA OwnerDrop ==
  ASSUME TypeOK, OwnerInv, DistinctIds, NEW t \in Threads, Drop(t)
  PROVE  OwnerInv'
<1> DEFINE l == held[t]
<1>1. l \in Links /\ pc[t] = "drop" /\ l # None
  BY PoolAssumption DEF Drop, TypeOK, Releasing
<1>2. /\ owners' = [owners EXCEPT ![l] = @ \ {Me(t)}]
      /\ UNCHANGED <<closed, att>>
  BY DEF Drop, linkVars, diagramVars
<1>3. \/ /\ pc' = [pc EXCEPT ![t] = then[t]]
         /\ held' = [held EXCEPT ![t] = None]
         /\ then[t] \in {"acquire", "fail", "done"}
      \/ /\ pc' = [pc EXCEPT ![t] = "close"] /\ held' = held /\ owners'[l] = {}
  BY DEF Drop, Return, TypeOK
<1>4. \A u \in Threads : u # t /\ pc[u] \in Active => Me(u) # Me(t)
  BY <1>1, ThreadData DEF OwnerInv, OneThread, DistinctIds, Me, Active, Releasing
<1>5. \A d \in Diagrams : att[d] # None => OwnerOf[d] # Me(t)
  BY <1>1, ThreadData DEF OwnerInv, AttachedIsQuiet, Quiet, DistinctIds, Me, Active, Releasing
<1> HIDE DEF l
<1>6. OneThread'
  BY <1>1, <1>3 DEF OwnerInv, OneThread, TypeOK, Active, Releasing
<1>7. AttachedIsQuiet'
  BY <1>1, <1>2, <1>3 DEF OwnerInv, AttachedIsQuiet, Quiet, TypeOK, Active, Releasing
<1>8. HoldersOwn'
  BY <1>1, <1>2, <1>3, <1>4, <1>5 DEF OwnerInv, HoldersOwn, Holding, Me, TypeOK, Active, Releasing
<1>9. ClosingIsUnowned'
  BY <1>1, <1>2, <1>3, PoolAssumption DEF OwnerInv, ClosingIsUnowned, TypeOK, l
<1>10. QED
  BY <1>6, <1>7, <1>8, <1>9 DEF OwnerInv

LEMMA OwnerClose ==
  ASSUME TypeOK, OwnerInv, NEW t \in Threads, Close(t)
  PROVE  OwnerInv'
<1>1. /\ held[t] \in Links /\ pc[t] = "close"
      /\ closed' = [closed EXCEPT ![held[t]] = TRUE]
      /\ UNCHANGED <<owners, att>>
      /\ pc' = [pc EXCEPT ![t] = then[t]] /\ then[t] \in {"acquire", "fail", "done"}
      /\ held' = [held EXCEPT ![t] = None]
  BY PoolAssumption DEF Close, Return, TypeOK, Releasing, poolVars, diagramVars
<1>2. OneThread'
  BY <1>1 DEF OwnerInv, OneThread, TypeOK, Active, Releasing
<1>3. AttachedIsQuiet'
  BY <1>1 DEF OwnerInv, AttachedIsQuiet, Quiet, TypeOK, Active, Releasing
<1>4. HoldersOwn'
  BY <1>1 DEF OwnerInv, HoldersOwn, Holding, Me, TypeOK
<1>5. ClosingIsUnowned'
  BY <1>1, PoolAssumption DEF OwnerInv, ClosingIsUnowned, TypeOK
<1>6. QED
  BY <1>2, <1>3, <1>4, <1>5 DEF OwnerInv

LEMMA OwnerLink ==
  ASSUME TypeOK, OwnerInv, NEW l \in Links, LinkStep(l)
  PROVE  OwnerInv'
<1>1. UNCHANGED <<owners, closed, att, gen, pc, then, held>>
  BY DEF LinkStep, LogIn, SetupFails, SetupDone, ReaderGivesUp, Watch, WatchdogExpires,
         WatchdogAborts, Abandon, poolVars, diagramVars, threadVars
<1>2. QED
  BY <1>1 DEF OwnerInv, OneThread, AttachedIsQuiet, Quiet, HoldersOwn, Holding, Me,
              ClosingIsUnowned

LEMMA OwnerStep ==
  ASSUME Patient, DistinctIds
  PROVE  TypeOK /\ PoolInv /\ OwnerInv /\ [Next]_vars => OwnerInv'
<1> SUFFICES ASSUME TypeOK, PoolInv, OwnerInv, [Next]_vars PROVE OwnerInv'
  OBVIOUS
<1>1. CASE \E d \in Diagrams : Connect(d) \/ Disconnect(d)
  BY <1>1, OwnerRequest
<1>2. CASE \E t \in Threads : Work(t)
  <2>1. PICK t \in Threads : Work(t)
    BY <1>2
  <2>2. AttemptStep(t) \/ Join(t) \/ Open(t) \/ Drop(t) \/ Close(t)
    BY <2>1 DEF Work, Acquire, AttemptStep
  <2>3. QED
    BY <2>2, OwnerAttempt, OwnerJoin, OwnerOpen, OwnerDrop, OwnerClose
<1>3. CASE \E l \in Links : LinkStep(l)
  BY <1>3, OwnerLink
<1>4. CASE UNCHANGED vars
  BY <1>4 DEF OwnerInv, OneThread, AttachedIsQuiet, Quiet, HoldersOwn, Holding, Me,
              ClosingIsUnowned, vars, poolVars, linkVars, diagramVars, threadVars
<1>5. QED
  BY <1>1, <1>2, <1>3, <1>4, NextCases

\* With patient users and ids of their own, no connection is closed under a
\* diagram that is attached to it.
THEOREM NoCloseUnderDiagramHolds ==
  ASSUME Patient, DistinctIds
  PROVE  Spec => []NoCloseUnderDiagram
<1>1. TypeOK /\ OwnerInv => NoCloseUnderDiagram
  BY DEF OwnerInv, HoldersOwn, ClosingIsUnowned, NoCloseUnderDiagram, TypeOK
<1>2. TypeOK /\ PoolInv /\ OwnerInv /\ [Next]_vars => OwnerInv'
  BY OwnerStep
<1>3. QED
  BY <1>1, <1>2, OwnerInit, TypeCorrect, PoolInvariant, PTL DEF Spec

-----------------------------------------------------------------------------
(***************************************************************************)
(* Where the setup never outlasts the watchdog, what a diagram holds is     *)
(* also what the pool hands out: no second connection to its relay.         *)
(***************************************************************************)

NeverFires == \A l \in Links : watchdog[l] = "armed"

\* Whoever holds a link holds the one the map has for its relay.
HoldersPooled ==
  /\ \A t \in Threads : Holding(t) =>
       Key(held[t]) = RelayOf[t[1]] /\ pool[RelayOf[t[1]]] = held[t]
  /\ \A d \in Diagrams : att[d] # None =>
       Key(att[d]) = RelayOf[d] /\ pool[RelayOf[d]] = att[d]

MapInv == NeverFires /\ HoldersPooled

LEMMA MapInit == Init => MapInv
BY DEF Init, MapInv, NeverFires, HoldersPooled, Holding

LEMMA MapRequest ==
  ASSUME TypeOK, MapInv, NEW d \in Diagrams, Connect(d) \/ Disconnect(d)
  PROVE  MapInv'
<1> DEFINE n == <<d, gen[d] + 1>>
<1>1. n \in Threads /\ n[1] = d
  BY NewThread DEF Connect, Disconnect
<1>2. PICK next \in {"acquire", "done"} :
        /\ att' = [att EXCEPT ![d] = None]
        /\ held' = [held EXCEPT ![n] = att[d]]
        /\ pc' = [pc EXCEPT ![n] = IF att[d] # None THEN "drop" ELSE next]
        /\ UNCHANGED <<pool, watchdog>>
  BY DEF Connect, Disconnect, Spawn, poolVars, linkVars
<1> HIDE DEF n
<1>3. QED
  BY <1>1, <1>2 DEF MapInv, NeverFires, HoldersPooled, Holding, TypeOK

LEMMA MapWork ==
  ASSUME TypeOK, PoolInv, OwnerInv, OwnerInv', MapInv, NEW t \in Threads, Work(t)
  PROVE  MapInv'
<1>1. NeverFires'
  BY DEF MapInv, NeverFires, Work, Acquire, Join, Open, Install, Refuse, WaitCancelled,
         WaitReady, PrepareFails, Attach, Fail, FailRefused, Drop, Close, linkVars
<1>2. CASE AttemptStep(t)
  <2>1. /\ pool' = pool
        /\ held' \in {held, [held EXCEPT ![t] = None]}
        /\ \E p \in {"refused", "drop", "prepare", "fail", "done"} :
             /\ pc' = [pc EXCEPT ![t] = p]
             /\ p \in {"drop", "prepare"} => Holding(t) /\ held' = held
    BY <1>2 DEF AttemptStep, Refuse, WaitCancelled, WaitReady, PrepareFails, Attach, Fail,
         FailRefused, PaintError, Release, poolVars, Holding
  <2>2. \/ \A d \in Diagrams : att'[d] \in {att[d], None}
        \/ Holding(t) /\ att' = [att EXCEPT ![t[1]] = held[t]]
    BY <1>2 DEF AttemptStep, Refuse, WaitCancelled, WaitReady, PrepareFails, Attach, Fail,
         FailRefused, PaintError, Release, diagramVars, TypeOK, Holding
  <2>3. QED
    BY <1>1, <2>1, <2>2, ThreadData DEF MapInv, HoldersPooled, Holding, TypeOK
<1>3. CASE Join(t)
  BY <1>1, <1>3, ThreadData DEF Join, MapInv, HoldersPooled, Holding, TypeOK, Key,
     diagramVars, PoolInv, NeverJoinClosing
<1>4. CASE Open(t)
  <2>1. pool[RelayOf[t[1]]] = None /\ RelayOf[t[1]] \in Relays
    BY <1>4, ThreadData DEF Open, Install, Key
  <2>2. /\ pool' = [pool EXCEPT ![RelayOf[t[1]]] = t] /\ att' = att
        /\ held' = [held EXCEPT ![t] = t] /\ pc' = [pc EXCEPT ![t] = "wait"]
    BY <1>4 DEF Open, Install, Key, diagramVars
  <2>3. \A u \in Threads : Holding(u) => held[u] # None
    BY DEF Holding, TypeOK, Releasing
  <2>4. QED
    BY <1>1, <2>1, <2>2, <2>3 DEF MapInv, HoldersPooled, Holding, Key, TypeOK
<1>5. CASE Drop(t)
  <2> DEFINE l == held[t]
  <2>1. l \in Links /\ pc[t] = "drop" /\ att' = att /\ Key(l) = RelayOf[t[1]] /\ pool[Key(l)] = l
    BY <1>5 DEF Drop, TypeOK, diagramVars, MapInv, HoldersPooled, Holding, Releasing
  <2>2. \/ /\ pool' = pool
           /\ pc' = [pc EXCEPT ![t] = then[t]] /\ held' = [held EXCEPT ![t] = None]
           /\ then[t] \in {"acquire", "fail", "done"}
        \/ /\ pool' = [pool EXCEPT ![Key(l)] = None] /\ owners'[l] = {}
           /\ pc' = [pc EXCEPT ![t] = "close"] /\ held' = held
    BY <1>5 DEF Drop, Return, TypeOK
  <2>3. \A u \in Threads : Holding(u)' => held'[u] = held[u] /\ Holding(u)
    BY <2>2 DEF Holding, TypeOK
  <2>4. ASSUME owners'[l] = {} PROVE /\ \A u \in Threads : Holding(u)' => held[u] # l
                                     /\ \A d \in Diagrams : att[d] # None => att[d] # l
    BY <2>1, <2>3, <2>4 DEF OwnerInv, HoldersOwn
  <2> HIDE DEF l
  <2>5. /\ \A u \in Threads : Holding(u)' =>
             Key(held[u]) = RelayOf[u[1]] /\ pool[RelayOf[u[1]]] = held[u]
        /\ \A d \in Diagrams : att[d] # None =>
             Key(att[d]) = RelayOf[d] /\ pool[RelayOf[d]] = att[d]
    BY <2>3 DEF MapInv, HoldersPooled
  <2>6. /\ \A u \in Threads : Holding(u)' => pool'[RelayOf[u[1]]] = held[u]
        /\ \A d \in Diagrams : att[d] # None => pool'[RelayOf[d]] = att[d]
    <3>1. CASE pool' = pool
      BY <3>1, <2>5
    <3>2. CASE pool' = [pool EXCEPT ![Key(l)] = None] /\ owners'[l] = {}
      <4>1. \A k : k # Key(l) /\ k \in Relays => pool'[k] = pool[k]
        BY <3>2 DEF TypeOK
      <4>2. /\ \A u \in Threads : Holding(u)' => RelayOf[u[1]] # Key(l)
            /\ \A d \in Diagrams : att[d] # None => RelayOf[d] # Key(l)
        BY <3>2, <2>1, <2>4, <2>5
      <4>3. QED
        BY <4>1, <4>2, <2>5, ThreadData, PoolAssumption
    <3>3. QED
      BY <3>1, <3>2, <2>2
  <2>7. \A x : Key(x)' = Key(x)
    BY DEF Key
  <2>8. QED
    BY <1>1, <2>1, <2>3, <2>5, <2>6, <2>7 DEF MapInv, HoldersPooled
<1>6. CASE Close(t)
  BY <1>1, <1>6 DEF Close, Return, MapInv, HoldersPooled, Holding, TypeOK, poolVars, diagramVars
<1>7. QED
  BY <1>2, <1>3, <1>4, <1>5, <1>6 DEF Work, Acquire, AttemptStep

LEMMA MapLink ==
  ASSUME ~RelayMayHang, MapInv, NEW l \in Links, LinkStep(l)
  PROVE  MapInv'
<1>1. UNCHANGED <<pool, att, pc, held, watchdog>>
  BY DEF LinkStep, LogIn, SetupFails, SetupDone, ReaderGivesUp, Watch, WatchdogExpires,
         WatchdogAborts, Abandon, poolVars, diagramVars, threadVars, MapInv, NeverFires
<1>2. QED
  BY <1>1 DEF MapInv, NeverFires, HoldersPooled, Holding

\* With patient users, ids of their own and relays that answer within the
\* deadline, a diagram's connection is the one the pool hands out.
THEOREM AttachedIsPooledHolds ==
  ASSUME Patient, DistinctIds, ~RelayMayHang
  PROVE  Spec => []AttachedIsPooled
<1>1. TypeOK /\ PoolInv /\ OwnerInv /\ MapInv /\ [Next]_vars /\ OwnerInv' => MapInv'
  <2> SUFFICES ASSUME TypeOK, PoolInv, OwnerInv, OwnerInv', MapInv, [Next]_vars
               PROVE  MapInv'
    OBVIOUS
  <2>1. CASE Next
    BY <2>1, NextCases, MapRequest, MapWork, MapLink
  <2>2. CASE UNCHANGED vars
    BY <2>2 DEF MapInv, NeverFires, HoldersPooled, Holding,
                vars, poolVars, linkVars, diagramVars, threadVars
  <2>3. QED
    BY <2>1, <2>2
<1>2. TypeOK /\ PoolInv /\ OwnerInv /\ [Next]_vars => OwnerInv'
  BY OwnerStep
<1>3. MapInv => AttachedIsPooled
  BY DEF MapInv, HoldersPooled, AttachedIsPooled
<1>4. QED
  BY <1>1, <1>2, <1>3, MapInit, OwnerInit, TypeCorrect, PoolInvariant, PTL DEF Spec

-----------------------------------------------------------------------------
(***************************************************************************)
(* No reference outlives its holder.  It takes that an attempt which paints *)
(* its diagram is not one of a diagram already attached: painting an error  *)
(* over such a diagram would lose the reference it has.                    *)
(***************************************************************************)

\* Those that paint: a current attempt, and one that was refused.
Paints(t) == Current(t) \/ pc[t] = "refused"

LEMMA OrphanRequest ==
  ASSUME TypeOK, PoolInv, NoOrphanOwner, NEW d \in Diagrams, Connect(d) \/ Disconnect(d)
  PROVE  NoOrphanOwner'
<1> DEFINE n == <<d, gen[d] + 1>>
<1>1. n \in Threads /\ n[1] = d /\ n[2] = gen[d] + 1 /\ gen[d] \in Nat
  BY NewThread DEF TypeOK, Connect, Disconnect
<1>2. pc[n] = "none"
  BY <1>1 DEF PoolInv, FreshThreads
<1>3. PICK next \in {"acquire", "done"} :
        /\ att' = [att EXCEPT ![d] = None]
        /\ held' = [held EXCEPT ![n] = att[d]]
        /\ pc' = [pc EXCEPT ![n] = IF att[d] # None THEN "drop" ELSE next]
        /\ UNCHANGED owners
  BY DEF Connect, Disconnect, Spawn, poolVars
<1> HIDE DEF n
<1>4. SUFFICES ASSUME NEW l \in Links, NEW o \in owners[l]
               PROVE  \/ \E e \in Diagrams : att'[e] = l /\ OwnerOf[e] = o
                      \/ \E t \in Threads : Holding(t)' /\ held'[t] = l /\ Me(t) = o
  BY <1>3 DEF NoOrphanOwner, Me
<1>5. CASE \E e \in Diagrams : att[e] = l /\ OwnerOf[e] = o
  <2>1. PICK e \in Diagrams : att[e] = l /\ OwnerOf[e] = o
    BY <1>5
  <2>2. CASE e = d
    BY <1>1, <1>3, <2>1, <2>2, PoolAssumption DEF Holding, Me, TypeOK
  <2>3. CASE e # d
    BY <1>3, <2>1, <2>3 DEF TypeOK
  <2>4. QED
    BY <2>2, <2>3
<1>6. CASE \E t \in Threads : Holding(t) /\ held[t] = l /\ Me(t) = o
  BY <1>2, <1>3, <1>6 DEF Holding, TypeOK
<1>7. QED
  BY <1>5, <1>6 DEF NoOrphanOwner

LEMMA OrphanAttempt ==
  ASSUME TypeOK, NoOrphanOwner, NEW t \in Threads, AttemptStep(t),
         Paints(t) => att[t[1]] = None
  PROVE  NoOrphanOwner'
<1>1. UNCHANGED owners
  BY DEF AttemptStep, Refuse, WaitCancelled, WaitReady, PrepareFails, Attach, Fail,
     FailRefused, poolVars
<1>2. t[1] \in Diagrams
  BY ThreadData
<1>3. \A d \in Diagrams : att[d] # None => att'[d] = att[d]
  BY <1>2 DEF AttemptStep, Refuse, WaitCancelled, WaitReady, PrepareFails, Attach, Fail,
     FailRefused, PaintError, Paints, diagramVars, TypeOK
<1>4. \A u \in Threads : u # t => pc'[u] = pc[u] /\ held'[u] = held[u]
  BY DEF AttemptStep, Refuse, WaitCancelled, WaitReady, PrepareFails, Attach, Fail,
     FailRefused, Release, TypeOK
<1>5. Holding(t) => \/ Holding(t)' /\ held'[t] = held[t]
                    \/ att'[t[1]] = held[t]
  BY <1>2 DEF AttemptStep, Refuse, WaitCancelled, WaitReady, PrepareFails, Attach, Fail,
     FailRefused, Release, Holding, TypeOK
<1>6. QED
  BY <1>1, <1>2, <1>3, <1>4, <1>5, PoolAssumption DEF NoOrphanOwner, Holding, Me, Links

LEMMA OrphanWork ==
  ASSUME TypeOK, NoOrphanOwner, NEW t \in Threads, Work(t),
         pc[t] \in Active /\ Paints(t) => att[t[1]] = None
  PROVE  NoOrphanOwner'
<1> USE ThreadData DEF TypeOK, Holding, NoOrphanOwner, Me
<1>1. CASE AttemptStep(t)
  <2>1. pc[t] \in Active
    BY <1>1 DEF AttemptStep, Refuse, WaitCancelled, WaitReady, PrepareFails, Attach,
       Fail, FailRefused, Active
  <2>2. QED
    BY <1>1, <2>1, OrphanAttempt
<1>2. CASE Join(t)
  BY <1>2 DEF Join, diagramVars
<1>3. CASE Open(t)
  <2>1. /\ owners' = [owners EXCEPT ![t] = {Me(t)}]
        /\ held' = [held EXCEPT ![t] = t] /\ pc' = [pc EXCEPT ![t] = "wait"]
        /\ pc[t] = "acquire" /\ UNCHANGED att
    BY <1>3 DEF Open, Install, diagramVars
  <2>2. t \in Links /\ owners'[t] = {Me(t)} /\ Holding(t)' /\ held'[t] = t
    BY <2>1 DEF Links
  <2>3. \A u \in Threads : Holding(u) => Holding(u)' /\ held'[u] = held[u]
    BY <2>1
  <2>4. \A l \in Links : l # t => owners'[l] = owners[l]
    BY <2>1
  <2>5. QED
    BY <2>1, <2>2, <2>3, <2>4
<1>4. CASE Drop(t)
  <2>1. /\ owners' = [owners EXCEPT ![held[t]] = @ \ {Me(t)}]
        /\ UNCHANGED att
        /\ \A u \in Threads : u # t => pc'[u] = pc[u] /\ held'[u] = held[u]
    BY <1>4 DEF Drop, Return, diagramVars
  <2>2. \A l \in Links : \A o \in owners'[l] :
          o \in owners[l] /\ ~(l = held[t] /\ o = Me(t))
    BY <2>1
  <2>3. ASSUME NEW l \in Links, NEW u \in Threads, Holding(u), held[u] = l,
               ~(l = held[t] /\ Me(u) = Me(t))
        PROVE  Holding(u)' /\ held'[u] = l
    BY <2>1, <2>3
  <2>4. QED
    BY <2>1, <2>2, <2>3
<1>5. CASE Close(t)
  <2>1. UNCHANGED <<owners, att>> /\ pc[t] = "close"
    BY <1>5 DEF Close, poolVars, diagramVars
  <2>2. \A u \in Threads : u # t => pc'[u] = pc[u] /\ held'[u] = held[u]
    BY <1>5 DEF Close, Return
  <2>3. \A u \in Threads : Holding(u) => Holding(u)' /\ held'[u] = held[u]
    BY <2>1, <2>2
  <2>4. SUFFICES ASSUME NEW l \in Links, NEW o \in owners[l]
                 PROVE  \/ \E d \in Diagrams : att'[d] = l /\ OwnerOf[d] = o
                        \/ \E u \in Threads : Holding(u)' /\ held'[u] = l /\ Me(u) = o
    BY <2>1
  <2>5. CASE \E d \in Diagrams : att[d] = l /\ OwnerOf[d] = o
    BY <2>1, <2>5
  <2>6. CASE \E u \in Threads : Holding(u) /\ held[u] = l /\ Me(u) = o
    BY <2>3, <2>6
  <2>7. QED
    BY <2>5, <2>6
<1>6. QED
  BY <1>1, <1>2, <1>3, <1>4, <1>5 DEF Work, Acquire, AttemptStep

LEMMA OrphanLink ==
  ASSUME NoOrphanOwner, NEW l \in Links, LinkStep(l)
  PROVE  NoOrphanOwner'
<1>1. UNCHANGED <<owners, att, pc, held>>
  BY DEF LinkStep, LogIn, SetupFails, SetupDone, ReaderGivesUp, Watch, WatchdogExpires,
     WatchdogAborts, Abandon, poolVars, diagramVars, threadVars
<1>2. QED
  BY <1>1 DEF NoOrphanOwner, Holding, Me

\* With patient users and ids of their own, no slot of the ceiling is lost to an
\* owner that is neither attached nor about to release its link, whatever the
\* relay, the watchdog and the ceiling do.
THEOREM NoOrphanOwnerHolds ==
  ASSUME Patient, DistinctIds
  PROVE  Spec => []NoOrphanOwner
<1>1. Init => NoOrphanOwner
  BY DEF Init, NoOrphanOwner
<1>2. TypeOK /\ PoolInv /\ OwnerInv /\ NoOrphanOwner /\ [Next]_vars => NoOrphanOwner'
  <2> SUFFICES ASSUME TypeOK, PoolInv, OwnerInv, NoOrphanOwner, [Next]_vars
               PROVE  NoOrphanOwner'
    OBVIOUS
  <2>1. \A t \in Threads : pc[t] \in Active => att[t[1]] = None
    BY ThreadData DEF OwnerInv, AttachedIsQuiet, Quiet
  <2>2. CASE Next
    BY <2>1, <2>2, NextCases, OrphanRequest, OrphanWork, OrphanLink
  <2>3. CASE UNCHANGED vars
    BY <2>3 DEF NoOrphanOwner, Holding, Me, vars, poolVars, diagramVars, threadVars
  <2>4. QED
    BY <2>2, <2>3
<1>3. TypeOK /\ PoolInv /\ OwnerInv /\ [Next]_vars => OwnerInv'
  BY OwnerStep
<1>4. QED
  BY <1>1, <1>2, <1>3, OwnerInit, TypeCorrect, PoolInvariant, PTL DEF Spec

-----------------------------------------------------------------------------
\* Only Open() adds to the map, and it looks at the ceiling first.
LEMMA CeilingStep == TypeOK /\ WithinCeiling /\ [Next]_vars => WithinCeiling'
<1> SUFFICES ASSUME TypeOK, WithinCeiling, [Next]_vars PROVE WithinCeiling'
  OBVIOUS
<1>1. IsFiniteSet(Pooled) /\ Cardinality(Pooled) \in Nat
  <2>1. Pooled \subseteq Relays
    BY DEF Pooled
  <2>2. QED
    BY <2>1, PoolAssumption, FS_Subset, FS_CardinalityType
<1>2. CASE \E t \in Threads : Open(t)
  <2>1. PICK t \in Threads : Open(t)
    BY <1>2
  <2>2. Pooled' = Pooled \cup {Key(t)} /\ Key(t) \notin Pooled
    BY <2>1, ThreadData DEF Open, Install, Pooled, TypeOK
  <2>3. Cardinality(Pooled') = Cardinality(Pooled) + 1
    BY <1>1, <2>2, FS_AddElement
  <2>4. Cardinality(Pooled) < MaxLinks
    BY <2>1 DEF Open, Install
  <2>5. QED
    BY <1>1, <2>3, <2>4, PoolAssumption DEF WithinCeiling
<1>3. CASE ~\E t \in Threads : Open(t)
  <2>1. Pooled' \subseteq Pooled
    <3>1. CASE \E d \in Diagrams : Connect(d) \/ Disconnect(d)
      BY <3>1 DEF Connect, Disconnect, Pooled, poolVars
    <3>2. CASE \E t \in Threads : Work(t)
      <4>1. PICK t \in Threads : AttemptStep(t) \/ Join(t) \/ Drop(t) \/ Close(t)
        BY <1>3, <3>2 DEF Work, Acquire, AttemptStep
      <4>2. pool' = pool \/ pool' = [pool EXCEPT ![Key(held[t])] = None]
        BY <4>1 DEF AttemptStep, Refuse, WaitCancelled, WaitReady, PrepareFails, Attach,
           Fail, FailRefused, Join, Drop, Close, poolVars
      <4>3. QED
        BY <4>2 DEF Pooled, TypeOK
    <3>3. CASE \E l \in Links : LinkStep(l)
      <4>1. PICK l \in Links : LinkStep(l)
        BY <3>3
      <4>2. pool' = pool \/ \E m \in {None, pool[Key(l)]} : pool' = [pool EXCEPT ![Key(l)] = m]
        BY <4>1 DEF LinkStep, LogIn, SetupFails, SetupDone, ReaderGivesUp, Watch,
           WatchdogExpires, WatchdogAborts, Abandon, poolVars
      <4>3. QED
        BY <4>2 DEF Pooled, TypeOK
    <3>4. CASE UNCHANGED vars
      BY <3>4 DEF vars, poolVars, Pooled
    <3>5. QED
      BY <3>1, <3>2, <3>3, <3>4, NextCases
  <2>2. Cardinality(Pooled') <= Cardinality(Pooled) /\ Cardinality(Pooled') \in Nat
    BY <1>1, <2>1, FS_Subset, FS_CardinalityType
  <2>3. QED
    BY <1>1, <2>2, PoolAssumption DEF WithinCeiling
<1>4. QED
  BY <1>2, <1>3

\* The ceiling of simultaneous connections holds.
THEOREM WithinCeilingHolds == Spec => []WithinCeiling
<1>1. Init => WithinCeiling
  <2>1. Init => Pooled = {}
    BY DEF Init, Pooled
  <2>2. QED
    BY <2>1, FS_EmptySet, PoolAssumption DEF WithinCeiling
<1>2. QED
  BY <1>1, CeilingStep, TypeCorrect, PTL DEF Spec

-----------------------------------------------------------------------------
(***************************************************************************)
(* Where the ceiling leaves a slot for every relay no attempt is refused,  *)
(* and neither patience nor ids are needed: a cancelled attempt is silent, *)
(* and no reference outlives its holder.                                   *)
(***************************************************************************)

RoomForAll == Cardinality(Relays) <= MaxLinks

NoneRefused == \A t \in Threads : pc[t] # "refused"

\* A diagram that is attached has no current attempt at work.
AttachedIsSettled ==
  \A t \in Threads : Current(t) /\ att[t[1]] # None => pc[t] \notin Active

RoomInv == NoneRefused /\ AttachedIsSettled

\* A relay that is not in the map leaves the map below the ceiling.
LEMMA NeverRefused ==
  ASSUME RoomForAll, NEW t \in Threads
  PROVE  ~Refuse(t)
<1> SUFFICES ASSUME Refuse(t) PROVE FALSE
  OBVIOUS
<1>1. Pooled \subseteq Relays /\ Key(t) \in Relays /\ Key(t) \notin Pooled
  BY ThreadData DEF Refuse, Pooled
<1>2. /\ IsFiniteSet(Pooled) /\ Cardinality(Pooled) \in Nat
      /\ Cardinality(Relays) \in Nat
  BY <1>1, PoolAssumption, FS_Subset, FS_CardinalityType
<1>3. Pooled \cup {Key(t)} \subseteq Relays
  BY <1>1
<1>4. /\ Cardinality(Pooled \cup {Key(t)}) = Cardinality(Pooled) + 1
      /\ Cardinality(Pooled \cup {Key(t)}) <= Cardinality(Relays)
  BY <1>1, <1>2, <1>3, PoolAssumption, FS_AddElement, FS_Subset
<1>5. QED
  BY <1>2, <1>4, PoolAssumption DEF Refuse, RoomForAll

LEMMA RoomInit == Init => RoomInv
BY ThreadData DEF Init, RoomInv, NoneRefused, AttachedIsSettled, Active, Releasing

LEMMA RoomRequest ==
  ASSUME TypeOK, RoomInv, NEW d \in Diagrams, Connect(d) \/ Disconnect(d)
  PROVE  RoomInv'
<1> DEFINE n == <<d, gen[d] + 1>>
<1>1. n \in Threads /\ n[1] = d /\ n[2] = gen[d] + 1
  BY NewThread DEF Connect, Disconnect
<1>2. PICK p \in {"acquire", "done", "drop"} :
        /\ gen' = [gen EXCEPT ![d] = gen[d] + 1]
        /\ att' = [att EXCEPT ![d] = None]
        /\ pc' = [pc EXCEPT ![n] = p]
  BY DEF Connect, Disconnect, Spawn
<1> HIDE DEF n
<1>3. QED
  BY <1>1, <1>2, ThreadData DEF RoomInv, NoneRefused, AttachedIsSettled, Current, TypeOK

LEMMA RoomWork ==
  ASSUME RoomForAll, TypeOK, RoomInv, NEW t \in Threads, Work(t)
  PROVE  RoomInv'
<1>1. pc[t] \in Active \ {"refused"} /\ ~Refuse(t)
  BY NeverRefused DEF RoomInv, NoneRefused, Work, Acquire, Join, Open, Refuse, WaitCancelled,
     WaitReady, PrepareFails, Attach, Fail, FailRefused, Drop, Close, Active, Releasing
<1>2. /\ gen' = gen /\ \A u \in Threads : u # t => pc'[u] = pc[u]
      /\ pc'[t] # "refused"
  BY <1>1 DEF Work, Acquire, Join, Open, Install, WaitCancelled, WaitReady, PrepareFails,
     Attach, Fail, FailRefused, Drop, Close, Release, Return, PaintError, diagramVars,
     TypeOK
<1>3. \/ att' = att
      \/ att' = [att EXCEPT ![t[1]] = None]
      \/ /\ att' = [att EXCEPT ![t[1]] = held[t]]
         /\ Current(t) /\ pc'[t] = "done"
  BY <1>1 DEF Work, Acquire, Join, Open, Install, WaitCancelled, WaitReady, PrepareFails,
     Attach, Fail, FailRefused, Drop, Close, PaintError, diagramVars, TypeOK
<1>4. NoneRefused'
  BY <1>2 DEF RoomInv, NoneRefused
<1>5. ASSUME NEW u \in Threads, Current(u)', att'[u[1]] # None, pc'[u] \in Active
      PROVE  FALSE
  <2>1. Current(u) /\ pc[u] \in Active
    BY <1>1, <1>2, <1>5 DEF Current
  <2>2. att[u[1]] = None
    BY <2>1 DEF RoomInv, AttachedIsSettled
  <2>3. u[1] = t[1] /\ Current(t) /\ pc'[t] = "done"
    BY <1>3, <1>5, <2>2, ThreadData DEF TypeOK
  <2>4. u = t
    BY <2>1, <2>3, ThreadData DEF Current
  <2>5. QED
    BY <1>5, <2>3, <2>4 DEF Active, Releasing
<1>6. QED
  BY <1>4, <1>5 DEF RoomInv, AttachedIsSettled

LEMMA RoomLink ==
  ASSUME RoomInv, NEW l \in Links, LinkStep(l)
  PROVE  RoomInv'
<1>1. UNCHANGED <<att, gen, pc>>
  BY DEF LinkStep, LogIn, SetupFails, SetupDone, ReaderGivesUp, Watch, WatchdogExpires,
     WatchdogAborts, Abandon, diagramVars, threadVars
<1>2. QED
  BY <1>1 DEF RoomInv, NoneRefused, AttachedIsSettled, Current

LEMMA RoomInvariant ==
  ASSUME RoomForAll
  PROVE  Spec => []RoomInv
<1>1. TypeOK /\ RoomInv /\ [Next]_vars => RoomInv'
  <2> SUFFICES ASSUME TypeOK, RoomInv, [Next]_vars PROVE RoomInv'
    OBVIOUS
  <2>1. CASE Next
    BY <2>1, NextCases, RoomRequest, RoomWork, RoomLink
  <2>2. CASE UNCHANGED vars
    BY <2>2 DEF RoomInv, NoneRefused, AttachedIsSettled, Current, vars, diagramVars,
       threadVars
  <2>3. QED
    BY <2>1, <2>2
<1>2. QED
  BY <1>1, RoomInit, TypeCorrect, PTL DEF Spec

\* Only an attempt moves its own thread, and of those that paint the diagram
\* each but the refused one looks at the generation first.
LEMMA SilentStep ==
  ASSUME TypeOK, PoolInv, NoneRefused, [Next]_vars, NEW t \in Threads,
         pc[t] \in Active, pc'[t] # pc[t], ~Current(t)
  PROVE  UNCHANGED <<att[t[1]], status[t[1]]>>
<1>1. CASE \E d \in Diagrams : Connect(d) \/ Disconnect(d)
  <2>1. PICK d \in Diagrams : Connect(d) \/ Disconnect(d)
    BY <1>1
  <2>2. /\ <<d, gen[d] + 1>> \in Threads /\ gen[d] \in Nat
        /\ \E p \in {"acquire", "done", "drop"} :
              pc' = [pc EXCEPT ![<<d, gen[d] + 1>>] = p]
    BY <2>1, NewThread DEF Connect, Disconnect, Spawn, TypeOK
  <2>3. t = <<d, gen[d] + 1>>
    BY <2>2 DEF TypeOK
  <2>4. pc[t] = "none"
    BY <2>2, <2>3 DEF PoolInv, FreshThreads
  <2>5. QED
    BY <2>4 DEF Active, Releasing
<1>2. CASE \E u \in Threads : Work(u)
  <2>1. PICK u \in Threads : Work(u)
    BY <1>2
  <2>2. \A v \in Threads : v # u => pc'[v] = pc[v]
    BY <2>1 DEF Work, Acquire, Join, Open, Install, Refuse, WaitCancelled, WaitReady,
       PrepareFails, Attach, Fail, FailRefused, Drop, Close, Release, Return, TypeOK
  <2>3. Work(t) /\ ~FailRefused(t)
    BY <2>1, <2>2 DEF NoneRefused, FailRefused
  <2>4. QED
    BY <2>3 DEF Work, Acquire, Join, Open, Install, Refuse, WaitCancelled, WaitReady,
       PrepareFails, Attach, Fail, Drop, Close, diagramVars
<1>3. CASE \E l \in Links : LinkStep(l)
  BY <1>3 DEF LinkStep, LogIn, SetupFails, SetupDone, ReaderGivesUp, Watch,
     WatchdogExpires, WatchdogAborts, Abandon, threadVars
<1>4. CASE UNCHANGED vars
  BY <1>4 DEF vars, threadVars
<1>5. QED
  BY <1>1, <1>2, <1>3, <1>4, NextCases

\* An attempt the user has cancelled changes nothing on its diagram, however the
\* user clicks and whatever ids, relays and the watchdog do, where no attempt can
\* meet the ceiling: the branch that does passes no generation to _fail().
THEOREM StaleAttemptIsSilentHolds ==
  ASSUME RoomForAll
  PROVE  Spec => StaleAttemptIsSilent
<1>1. ASSUME TypeOK, PoolInv, RoomInv, [Next]_vars
      PROVE  [\A t \in Threads :
                pc[t] \in Active /\ pc'[t] # pc[t] /\ ~Current(t)
                  => UNCHANGED <<att[t[1]], status[t[1]]>>]_vars
  BY <1>1, SilentStep DEF RoomInv
<1>2. QED
  BY <1>1, RoomInvariant, TypeCorrect, PoolInvariant, PTL DEF Spec, StaleAttemptIsSilent

\* And no slot is lost to an owner without a holder, for users who reconnect as
\* early as they like and for diagrams that share an id.
THEOREM RoomyNoOrphanOwnerHolds ==
  ASSUME RoomForAll
  PROVE  Spec => []NoOrphanOwner
<1>1. Init => NoOrphanOwner
  BY DEF Init, NoOrphanOwner
<1>2. TypeOK /\ PoolInv /\ RoomInv /\ NoOrphanOwner /\ [Next]_vars => NoOrphanOwner'
  <2> SUFFICES ASSUME TypeOK, PoolInv, RoomInv, NoOrphanOwner, [Next]_vars
               PROVE  NoOrphanOwner'
    OBVIOUS
  <2>1. \A t \in Threads : pc[t] \in Active /\ Paints(t) => att[t[1]] = None
    BY DEF RoomInv, NoneRefused, AttachedIsSettled, Paints
  <2>2. CASE Next
    BY <2>1, <2>2, NextCases, OrphanRequest, OrphanWork, OrphanLink
  <2>3. CASE UNCHANGED vars
    BY <2>3 DEF NoOrphanOwner, Holding, Me, vars, poolVars, diagramVars, threadVars
  <2>4. QED
    BY <2>2, <2>3
<1>3. QED
  BY <1>1, <1>2, RoomInvariant, TypeCorrect, PoolInvariant, PTL DEF Spec
=============================================================================
