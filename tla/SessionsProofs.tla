---------------------------- MODULE SessionsProofs ----------------------------
(***************************************************************************)
(* For any visitors, requests and ids: types, that sessions are apart, that *)
(* an expired one is released, and that only idle ones expire.             *)
(*                                                                         *)
(* The argument: an id is drawn once (Cookies), a request inside a tool    *)
(* holds a session that is live or was expired under it (InKnown), and the *)
(* sweeper's batch has left the table before anything of it is deleted     *)
(* (Batch).                                                                *)
(***************************************************************************)
EXTENDS Sessions, TLAPS

\* Whose an id is: the browser's that holds it, or is being answered with it.
IsOf(s, b) ==
    \/ jar[b] = s
    \/ \E r \in Requests : req[r].mint /\ req[r].sess = s /\ req[r].by = b

\* An id is drawn once, and belongs to one visitor.
Cookies ==
    /\ \A s \in Sids : \A b, c \in Browsers : IsOf(s, b) /\ IsOf(s, c) => b = c
    /\ \A s \in Sids : \A b \in Browsers : IsOf(s, b) => s \in minted
    /\ \A r \in Requests :
         req[r].mint => req[r].at = "in" /\ req[r].sess \in Sids

\* A request that works in a tool holds a session, live or outlived by it.
InKnown ==
    \A r \in Requests : req[r].at = "in" =>
        /\ req[r].sess \in minted
        /\ up = "serving" => req[r].sess \in live \cup outlived

\* The sweeper deletes only what has left, and took its cutoff in the past.
Batch ==
    /\ sweeper.batch \subseteq minted /\ sweeper.batch \cap live = {}
    /\ sweeper.at \in {"asleep", "cutoff"} => sweeper.batch = {}
    /\ sweeper.at = "cutoff" => sweeper.cutoff + Ttl <= now

\* A process that is not there remembers nothing.
DownIsEmpty ==
    up = "down" =>
        /\ live = {} /\ sweeper = Asleep
        /\ \A r \in Requests : req[r].at = "free" /\ ~req[r].mint
        /\ \A s \in Sids : tool[s] = "none"

SessionsInv ==
    /\ SessionsTypeOK /\ now >= Ttl /\ lastSeen = heard
    /\ Cookies /\ InKnown /\ Batch /\ DownIsEmpty
    /\ LiveKeepsItsFiles /\ ExpiredIsReleased
-----------------------------------------------------------------------------
\* What a request record may be.
Thread == [at : {"free", "tool", "library", "in", "answer"},
           by : Browsers \cup {NoSid}, shown : AnySid,
           sess : Sids \cup {NoSid}, mint : BOOLEAN]

LEMMA FreeThread == Free \in Thread /\ Free.at = "free" /\ ~Free.mint
BY DEF Free, Thread, AnySid

\* The type of the sweeper.
Sweeping == [at : {"asleep", "cutoff", "expire", "discard"}, cutoff : Nat,
             batch : SUBSET Sids]

LEMMA AsleepSweeper == Asleep \in Sweeping /\ Asleep.at = "asleep" /\ Asleep.batch = {}
BY DEF Asleep, Sweeping

LEMMA InvInit == SessionsInit => SessionsInv
<1> SUFFICES ASSUME SessionsInit PROVE SessionsInv
  OBVIOUS
<1> USE SessionsAssumption, FreeThread, AsleepSweeper DEF SessionsInit
<1>1. SessionsTypeOK
  <2>1. jar \in [Browsers -> AnySid]
    BY DEF AnySid
  <2>2. req \in [Requests -> Thread] /\ sweeper \in Sweeping
    OBVIOUS
  <2>3. now \in Nat /\ lastSeen \in [Sids -> Nat] /\ heard \in [Sids -> Nat]
    OBVIOUS
  <2>4. QED
    BY <2>1, <2>2, <2>3 DEF SessionsTypeOK, Thread, Sweeping
<1>2. now >= Ttl /\ lastSeen = heard
  OBVIOUS
<1>3. Cookies
  BY DEF Cookies, IsOf
<1>4. InKnown /\ Batch /\ DownIsEmpty
  BY DEF InKnown, Batch, DownIsEmpty
<1>5. LiveKeepsItsFiles /\ ExpiredIsReleased
  BY DEF LiveKeepsItsFiles, ExpiredIsReleased
<1>6. QED
  BY <1>1, <1>2, <1>3, <1>4, <1>5 DEF SessionsInv
-----------------------------------------------------------------------------
\* Types.
LEMMA StepType == SessionsInv /\ [SessionsNext]_sessionVars => SessionsTypeOK' /\ now' >= Ttl
<1> SUFFICES ASSUME SessionsInv, [SessionsNext]_sessionVars
             PROVE  SessionsTypeOK' /\ now' >= Ttl
  OBVIOUS
<1> USE SessionsAssumption, FreeThread, AsleepSweeper
    DEF SessionsInv, SessionsTypeOK, Thread, Sweeping
<1>1. ASSUME NEW r \in Requests, NEW b \in Browsers, NEW route \in Routes,
             Ask(r, b, route)
      PROVE  SessionsTypeOK' /\ now' >= Ttl
  BY <1>1 DEF Ask, Routes
<1>2. ASSUME NEW r \in Requests, Peek(r) PROVE SessionsTypeOK' /\ now' >= Ttl
  BY <1>2 DEF Peek, Touch
<1>3. ASSUME NEW r \in Requests, Recognise(r) PROVE SessionsTypeOK' /\ now' >= Ttl
  <2>1. lastSeen' \in [Sids -> Nat] /\ heard' \in [Sids -> Nat]
    BY <1>3 DEF Recognise, Touch
  <2>2. req' \in [Requests -> Thread]
    <3>1. [req[r] EXCEPT !.at = "in", !.sess = req[r].shown] \in Thread
      BY <1>3 DEF Recognise
    <3>2. req' = [req EXCEPT ![r] = [req[r] EXCEPT !.at = "in", !.sess = req[r].shown]]
      BY <1>3 DEF Recognise
    <3> HIDE DEF Thread
    <3>3. req \in [Requests -> Thread]
      BY DEF Thread
    <3>4. QED
      BY <3>1, <3>2, <3>3
  <2>3. QED
    BY <1>3, <2>1, <2>2 DEF Recognise
<1>4. ASSUME NEW r \in Requests, Mint(r) PROVE SessionsTypeOK' /\ now' >= Ttl
  <2>1. PICK s \in Sids \ minted : MintAs(r, s)
    BY <1>4 DEF Mint
  <2>2. req' \in [Requests -> Thread]
    <3>1. [req[r] EXCEPT !.at = "in", !.sess = s, !.mint = TRUE] \in Thread
      OBVIOUS
    <3>2. req' = [req EXCEPT ![r] = [req[r] EXCEPT !.at = "in", !.sess = s, !.mint = TRUE]]
      BY <2>1 DEF MintAs
    <3> HIDE DEF Thread
    <3>3. req \in [Requests -> Thread]
      BY DEF Thread
    <3>4. QED
      BY <3>1, <3>2, <3>3
  <2>3. lastSeen' \in [Sids -> Nat] /\ heard' \in [Sids -> Nat]
    BY <2>1 DEF MintAs, Touch
  <2>4. tool' \in [Sids -> {"none", "open", "closed"}]
    BY <2>1 DEF MintAs
  <2>5. live' \subseteq minted' /\ minted' \subseteq Sids
    BY <2>1 DEF MintAs
  <2>6. QED
    BY <2>1, <2>2, <2>3, <2>4, <2>5 DEF MintAs
<1>5. ASSUME NEW r \in Requests, Work(r) PROVE SessionsTypeOK' /\ now' >= Ttl
  BY <1>5 DEF Work, InKnown
<1>6. ASSUME NEW r \in Requests, Answer(r) PROVE SessionsTypeOK' /\ now' >= Ttl
  BY <1>6 DEF Answer, AnySid
<1>7. ASSUME Tick PROVE SessionsTypeOK' /\ now' >= Ttl
  BY <1>7 DEF Tick
<1>8. ASSUME Wake PROVE SessionsTypeOK' /\ now' >= Ttl
  BY <1>8 DEF Wake
<1>9. ASSUME Collect PROVE SessionsTypeOK' /\ now' >= Ttl
  BY <1>9 DEF Collect
<1>10. ASSUME NEW s \in Sids, Expire(s) PROVE SessionsTypeOK' /\ now' >= Ttl
  <2>1. tool' \in [Sids -> {"none", "open", "closed"}] /\ outlived' \subseteq Sids
    BY <1>10 DEF Expire
  <2>2. sweeper' \in Sweeping
    BY <1>10 DEF Expire
  <2>3. dirs' \subseteq Sids \cup {Stale}
    BY <1>10 DEF Expire
  <2>4. QED
    BY <1>10, <2>1, <2>2, <2>3 DEF Expire
<1>11. ASSUME Proceed PROVE SessionsTypeOK' /\ now' >= Ttl
  BY <1>11 DEF Proceed
<1>12. ASSUME Start PROVE SessionsTypeOK' /\ now' >= Ttl
  BY <1>12 DEF Start
<1>13. ASSUME Shutdown PROVE SessionsTypeOK' /\ now' >= Ttl
  BY <1>13 DEF Shutdown
<1>14. ASSUME Die PROVE SessionsTypeOK' /\ now' >= Ttl
  BY <1>14 DEF Die
<1>15. CASE UNCHANGED sessionVars
  BY <1>15 DEF sessionVars
<1>16. QED
  BY <1>1, <1>2, <1>3, <1>4, <1>5, <1>6, <1>7, <1>8, <1>9, <1>10, <1>11, <1>12, <1>13,
     <1>14, <1>15 DEF SessionsNext, Sweep

\* The table and the history agree on when a session was last heard.
LEMMA StepAgree ==
  ASSUME SessionsInv, SessionsTypeOK', [SessionsNext]_sessionVars
  PROVE  (lastSeen = heard)'
<1> USE SessionsAssumption, FreeThread, AsleepSweeper
    DEF SessionsInv
<1>1. ASSUME NEW r \in Requests, NEW b \in Browsers, NEW route \in Routes,
             Ask(r, b, route)
      PROVE (lastSeen = heard)'
  BY <1>1 DEF Ask, Routes
<1>2. ASSUME NEW r \in Requests, Peek(r) PROVE (lastSeen = heard)'
  BY <1>2 DEF Peek, Touch
<1>3. ASSUME NEW r \in Requests, Recognise(r) PROVE (lastSeen = heard)'
  BY <1>3 DEF Recognise, Touch
<1>4. ASSUME NEW r \in Requests, Mint(r) PROVE (lastSeen = heard)'
  BY <1>4 DEF Mint, MintAs, Touch
<1>5. ASSUME NEW r \in Requests, Work(r) PROVE (lastSeen = heard)'
  BY <1>5 DEF Work
<1>6. ASSUME NEW r \in Requests, Answer(r) PROVE (lastSeen = heard)'
  BY <1>6 DEF Answer
<1>7. ASSUME Tick PROVE (lastSeen = heard)'
  BY <1>7 DEF Tick
<1>8. ASSUME Wake PROVE (lastSeen = heard)'
  BY <1>8 DEF Wake
<1>9. ASSUME Collect PROVE (lastSeen = heard)'
  BY <1>9 DEF Collect
<1>10. ASSUME NEW s \in Sids, Expire(s) PROVE (lastSeen = heard)'
  BY <1>10 DEF Expire
<1>11. ASSUME Proceed PROVE (lastSeen = heard)'
  BY <1>11 DEF Proceed
<1>12. ASSUME Start PROVE (lastSeen = heard)'
  BY <1>12 DEF Start
<1>13. ASSUME Shutdown PROVE (lastSeen = heard)'
  BY <1>13 DEF Shutdown
<1>14. ASSUME Die PROVE (lastSeen = heard)'
  BY <1>14 DEF Die
<1>15. CASE UNCHANGED sessionVars
  BY <1>15 DEF sessionVars
<1>16. QED
  BY <1>1, <1>2, <1>3, <1>4, <1>5, <1>6, <1>7, <1>8, <1>9, <1>10, <1>11, <1>12, <1>13,
     <1>14, <1>15 DEF SessionsNext, Sweep

\* An id is drawn once: a new one is nobody's.
LEMMA StepCookies ==
  ASSUME SessionsInv, SessionsTypeOK', [SessionsNext]_sessionVars
  PROVE  Cookies'
<1> USE SessionsAssumption, FreeThread, AsleepSweeper
    DEF SessionsInv, Cookies, IsOf, SessionsTypeOK, Thread, Sweeping
<1>1. ASSUME NEW r \in Requests, NEW b \in Browsers, NEW route \in Routes,
             Ask(r, b, route)
      PROVE Cookies'
  BY <1>1 DEF Ask, Routes
<1>2. ASSUME NEW r \in Requests, Peek(r) PROVE Cookies'
  <2>1. jar' = jar /\ minted' = minted
    BY <1>2 DEF Peek
  <2>2. ~req[r].mint /\ ~req'[r].mint
    BY <1>2 DEF Peek
  <2>3. \A q \in Requests \ {r} : req'[q] = req[q]
    BY <1>2 DEF Peek
  <2>4. \A s \in Sids : \A b \in Browsers : IsOf(s, b)' => IsOf(s, b)
    BY <2>1, <2>2, <2>3
  <2> HIDE DEF IsOf
  <2>5. \A q \in Requests : req'[q].mint => req'[q].at = "in" /\ req'[q].sess \in Sids
    BY <2>2, <2>3
  <2>6. QED
    BY <2>1, <2>4, <2>5
<1>3. ASSUME NEW r \in Requests, Recognise(r) PROVE Cookies'
  BY <1>3 DEF Recognise, Touch
<1>4. ASSUME NEW r \in Requests, Mint(r) PROVE Cookies'
  BY <1>4 DEF Mint, MintAs, Touch
<1>5. ASSUME NEW r \in Requests, Work(r) PROVE Cookies'
  BY <1>5 DEF Work
<1>6. ASSUME NEW r \in Requests, Answer(r) PROVE Cookies'
  BY <1>6 DEF Answer
<1>7. ASSUME Tick PROVE Cookies'
  BY <1>7 DEF Tick
<1>8. ASSUME Wake PROVE Cookies'
  BY <1>8 DEF Wake
<1>9. ASSUME Collect PROVE Cookies'
  <2>1. jar' = jar /\ minted' = minted /\ req' = req
    BY <1>9 DEF Collect
  <2>2. QED
    BY <2>1
<1>10. ASSUME NEW s \in Sids, Expire(s) PROVE Cookies'
  BY <1>10 DEF Expire
<1>11. ASSUME Proceed PROVE Cookies'
  BY <1>11 DEF Proceed
<1>12. ASSUME Start PROVE Cookies'
  BY <1>12 DEF Start
<1>13. ASSUME Shutdown PROVE Cookies'
  BY <1>13 DEF Shutdown
<1>14. ASSUME Die PROVE Cookies'
  BY <1>14 DEF Die
<1>15. CASE UNCHANGED sessionVars
  BY <1>15 DEF sessionVars
<1> HIDE DEF Cookies, IsOf, SessionsInv, SessionsTypeOK, Thread, Sweeping
<1>16. QED
  BY <1>1, <1>2, <1>3, <1>4, <1>5, <1>6, <1>7, <1>8, <1>9, <1>10, <1>11, <1>12, <1>13,
     <1>14, <1>15 DEF SessionsNext, Sweep

\* A request keeps a session that is live, or was expired under it.
LEMMA StepInKnown ==
  ASSUME SessionsInv, SessionsTypeOK', [SessionsNext]_sessionVars
  PROVE  InKnown'
<1> USE SessionsAssumption, FreeThread, AsleepSweeper
    DEF SessionsInv, InKnown, SessionsTypeOK, Thread, Sweeping
<1>1. ASSUME NEW r \in Requests, NEW b \in Browsers, NEW route \in Routes,
             Ask(r, b, route)
      PROVE InKnown'
  BY <1>1 DEF Ask, Routes
<1>2. ASSUME NEW r \in Requests, Peek(r) PROVE InKnown'
  BY <1>2 DEF Peek, Touch
<1>3. ASSUME NEW r \in Requests, Recognise(r) PROVE InKnown'
  BY <1>3 DEF Recognise, Touch
<1>4. ASSUME NEW r \in Requests, Mint(r) PROVE InKnown'
  BY <1>4 DEF Mint, MintAs, Touch
<1>5. ASSUME NEW r \in Requests, Work(r) PROVE InKnown'
  BY <1>5 DEF Work
<1>6. ASSUME NEW r \in Requests, Answer(r) PROVE InKnown'
  BY <1>6 DEF Answer
<1>7. ASSUME Tick PROVE InKnown'
  BY <1>7 DEF Tick
<1>8. ASSUME Wake PROVE InKnown'
  BY <1>8 DEF Wake
<1>9. ASSUME Collect PROVE InKnown'
  <2>1. req' = req /\ minted' = minted /\ up' = up
    BY <1>9 DEF Collect
  <2>2. ASSUME NEW s \in live, s \in Held PROVE s \in live' \cup outlived'
    BY <1>9, <2>2 DEF Collect
  <2>3. outlived \subseteq outlived'
    BY <1>9 DEF Collect
  <2>4. QED
    BY <2>1, <2>2, <2>3 DEF Held
<1>10. ASSUME NEW s \in Sids, Expire(s) PROVE InKnown'
  BY <1>10 DEF Expire
<1>11. ASSUME Proceed PROVE InKnown'
  BY <1>11 DEF Proceed
<1>12. ASSUME Start PROVE InKnown'
  <2>1. req' = req /\ \A r \in Requests : req[r].at # "in"
    BY <1>12 DEF Start, DownIsEmpty
  <2>2. QED
    BY <2>1
<1>13. ASSUME Shutdown PROVE InKnown'
  BY <1>13 DEF Shutdown
<1>14. ASSUME Die PROVE InKnown'
  BY <1>14 DEF Die
<1>15. CASE UNCHANGED sessionVars
  BY <1>15 DEF sessionVars
<1>16. QED
  BY <1>1, <1>2, <1>3, <1>4, <1>5, <1>6, <1>7, <1>8, <1>9, <1>10, <1>11, <1>12, <1>13,
     <1>14, <1>15 DEF SessionsNext, Sweep

\* The batch has left the table.
LEMMA StepBatch ==
  ASSUME SessionsInv, SessionsTypeOK', [SessionsNext]_sessionVars
  PROVE  Batch'
<1> USE SessionsAssumption, FreeThread, AsleepSweeper
    DEF SessionsInv, Batch, SessionsTypeOK, Thread, Sweeping
<1>1. ASSUME NEW r \in Requests, NEW b \in Browsers, NEW route \in Routes,
             Ask(r, b, route)
      PROVE Batch'
  BY <1>1 DEF Ask, Routes
<1>2. ASSUME NEW r \in Requests, Peek(r) PROVE Batch'
  BY <1>2 DEF Peek, Touch
<1>3. ASSUME NEW r \in Requests, Recognise(r) PROVE Batch'
  BY <1>3 DEF Recognise, Touch
<1>4. ASSUME NEW r \in Requests, Mint(r) PROVE Batch'
  BY <1>4 DEF Mint, MintAs, Touch
<1>5. ASSUME NEW r \in Requests, Work(r) PROVE Batch'
  BY <1>5 DEF Work
<1>6. ASSUME NEW r \in Requests, Answer(r) PROVE Batch'
  BY <1>6 DEF Answer
<1>7. ASSUME Tick PROVE Batch'
  BY <1>7 DEF Tick
<1>8. ASSUME Wake PROVE Batch'
  BY <1>8 DEF Wake
<1>9. ASSUME Collect PROVE Batch'
  BY <1>9 DEF Collect
<1>10. ASSUME NEW s \in Sids, Expire(s) PROVE Batch'
  BY <1>10 DEF Expire
<1>11. ASSUME Proceed PROVE Batch'
  BY <1>11 DEF Proceed
<1>12. ASSUME Start PROVE Batch'
  BY <1>12 DEF Start
<1>13. ASSUME Shutdown PROVE Batch'
  BY <1>13 DEF Shutdown
<1>14. ASSUME Die PROVE Batch'
  BY <1>14 DEF Die
<1>15. CASE UNCHANGED sessionVars
  BY <1>15 DEF sessionVars
<1>16. QED
  BY <1>1, <1>2, <1>3, <1>4, <1>5, <1>6, <1>7, <1>8, <1>9, <1>10, <1>11, <1>12, <1>13,
     <1>14, <1>15 DEF SessionsNext, Sweep

\* A process that ends forgets.
LEMMA StepDown ==
  ASSUME SessionsInv, SessionsTypeOK', [SessionsNext]_sessionVars
  PROVE  DownIsEmpty'
<1> USE SessionsAssumption, FreeThread, AsleepSweeper
    DEF SessionsInv, DownIsEmpty, SessionsTypeOK, Thread, Sweeping
<1>1. ASSUME NEW r \in Requests, NEW b \in Browsers, NEW route \in Routes,
             Ask(r, b, route)
      PROVE DownIsEmpty'
  BY <1>1 DEF Ask, Routes
<1>2. ASSUME NEW r \in Requests, Peek(r) PROVE DownIsEmpty'
  BY <1>2 DEF Peek, Touch
<1>3. ASSUME NEW r \in Requests, Recognise(r) PROVE DownIsEmpty'
  BY <1>3 DEF Recognise, Touch
<1>4. ASSUME NEW r \in Requests, Mint(r) PROVE DownIsEmpty'
  BY <1>4 DEF Mint, MintAs, Touch
<1>5. ASSUME NEW r \in Requests, Work(r) PROVE DownIsEmpty'
  BY <1>5 DEF Work
<1>6. ASSUME NEW r \in Requests, Answer(r) PROVE DownIsEmpty'
  BY <1>6 DEF Answer
<1>7. ASSUME Tick PROVE DownIsEmpty'
  BY <1>7 DEF Tick
<1>8. ASSUME Wake PROVE DownIsEmpty'
  BY <1>8 DEF Wake
<1>9. ASSUME Collect PROVE DownIsEmpty'
  BY <1>9 DEF Collect
<1>10. ASSUME NEW s \in Sids, Expire(s) PROVE DownIsEmpty'
  BY <1>10 DEF Expire
<1>11. ASSUME Proceed PROVE DownIsEmpty'
  BY <1>11 DEF Proceed
<1>12. ASSUME Start PROVE DownIsEmpty'
  BY <1>12 DEF Start
<1>13. ASSUME Shutdown PROVE DownIsEmpty'
  BY <1>13 DEF Shutdown
<1>14. ASSUME Die PROVE DownIsEmpty'
  BY <1>14 DEF Die
<1>15. CASE UNCHANGED sessionVars
  BY <1>15 DEF sessionVars
<1>16. QED
  BY <1>1, <1>2, <1>3, <1>4, <1>5, <1>6, <1>7, <1>8, <1>9, <1>10, <1>11, <1>12, <1>13,
     <1>14, <1>15 DEF SessionsNext, Sweep

\* Only what has left loses its directory.
LEMMA StepFiles ==
  ASSUME SessionsInv, SessionsTypeOK', [SessionsNext]_sessionVars
  PROVE  LiveKeepsItsFiles'
<1> USE SessionsAssumption, FreeThread, AsleepSweeper
    DEF SessionsInv, LiveKeepsItsFiles, SessionsTypeOK, Thread, Sweeping
<1>1. ASSUME NEW r \in Requests, NEW b \in Browsers, NEW route \in Routes,
             Ask(r, b, route)
      PROVE LiveKeepsItsFiles'
  BY <1>1 DEF Ask, Routes
<1>2. ASSUME NEW r \in Requests, Peek(r) PROVE LiveKeepsItsFiles'
  BY <1>2 DEF Peek, Touch
<1>3. ASSUME NEW r \in Requests, Recognise(r) PROVE LiveKeepsItsFiles'
  BY <1>3 DEF Recognise, Touch
<1>4. ASSUME NEW r \in Requests, Mint(r) PROVE LiveKeepsItsFiles'
  BY <1>4 DEF Mint, MintAs, Touch
<1>5. ASSUME NEW r \in Requests, Work(r) PROVE LiveKeepsItsFiles'
  BY <1>5 DEF Work
<1>6. ASSUME NEW r \in Requests, Answer(r) PROVE LiveKeepsItsFiles'
  BY <1>6 DEF Answer
<1>7. ASSUME Tick PROVE LiveKeepsItsFiles'
  BY <1>7 DEF Tick
<1>8. ASSUME Wake PROVE LiveKeepsItsFiles'
  BY <1>8 DEF Wake
<1>9. ASSUME Collect PROVE LiveKeepsItsFiles'
  BY <1>9 DEF Collect
<1>10. ASSUME NEW s \in Sids, Expire(s) PROVE LiveKeepsItsFiles'
  <2>1. live' = live /\ s \notin live
    BY <1>10 DEF Expire, Batch
  <2>2. dirs \ {s} \subseteq dirs'
    BY <1>10 DEF Expire
  <2>3. \A t \in Sids \ {s} : tool'[t] = tool[t]
    BY <1>10 DEF Expire
  <2>4. QED
    BY <2>1, <2>2, <2>3
<1>11. ASSUME Proceed PROVE LiveKeepsItsFiles'
  BY <1>11 DEF Proceed
<1>12. ASSUME Start PROVE LiveKeepsItsFiles'
  <2>1. live' = {}
    BY <1>12 DEF Start, DownIsEmpty
  <2>2. QED
    BY <2>1
<1>13. ASSUME Shutdown PROVE LiveKeepsItsFiles'
  BY <1>13 DEF Shutdown
<1>14. ASSUME Die PROVE LiveKeepsItsFiles'
  BY <1>14 DEF Die
<1>15. CASE UNCHANGED sessionVars
  BY <1>15 DEF sessionVars
<1>16. QED
  BY <1>1, <1>2, <1>3, <1>4, <1>5, <1>6, <1>7, <1>8, <1>9, <1>10, <1>11, <1>12, <1>13,
     <1>14, <1>15 DEF SessionsNext, Sweep

\* What has left is closed, or was outlived.
LEMMA StepReleased ==
  ASSUME SessionsInv, SessionsTypeOK', [SessionsNext]_sessionVars
  PROVE  ExpiredIsReleased'
<1> USE SessionsAssumption, FreeThread, AsleepSweeper
    DEF SessionsInv, ExpiredIsReleased, SessionsTypeOK, Thread, Sweeping
<1>1. ASSUME NEW r \in Requests, NEW b \in Browsers, NEW route \in Routes,
             Ask(r, b, route)
      PROVE ExpiredIsReleased'
  BY <1>1 DEF Ask, Routes
<1>2. ASSUME NEW r \in Requests, Peek(r) PROVE ExpiredIsReleased'
  BY <1>2 DEF Peek, Touch
<1>3. ASSUME NEW r \in Requests, Recognise(r) PROVE ExpiredIsReleased'
  BY <1>3 DEF Recognise, Touch
<1>4. ASSUME NEW r \in Requests, Mint(r) PROVE ExpiredIsReleased'
  BY <1>4 DEF Mint, MintAs, Touch
<1>5. ASSUME NEW r \in Requests, Work(r) PROVE ExpiredIsReleased'
  BY <1>5 DEF Work, InKnown
<1>6. ASSUME NEW r \in Requests, Answer(r) PROVE ExpiredIsReleased'
  BY <1>6 DEF Answer
<1>7. ASSUME Tick PROVE ExpiredIsReleased'
  BY <1>7 DEF Tick
<1>8. ASSUME Wake PROVE ExpiredIsReleased'
  BY <1>8 DEF Wake, Batch
<1>9. ASSUME Collect PROVE ExpiredIsReleased'
  <2>1. sweeper.batch = {} /\ minted' = minted /\ tool' = tool /\ up' = up
    BY <1>9 DEF Collect, Batch
  <2>2. live \ live' \subseteq sweeper'.batch /\ outlived \subseteq outlived'
    BY <1>9 DEF Collect
  <2>3. QED
    BY <2>1, <2>2
<1>10. ASSUME NEW s \in Sids, Expire(s) PROVE ExpiredIsReleased'
  BY <1>10 DEF Expire
<1>11. ASSUME Proceed PROVE ExpiredIsReleased'
  BY <1>11 DEF Proceed
<1>12. ASSUME Start PROVE ExpiredIsReleased'
  <2>1. tool' = tool /\ minted' = minted /\ \A s \in Sids : tool[s] = "none"
    BY <1>12 DEF Start, DownIsEmpty
  <2>2. QED
    BY <2>1
<1>13. ASSUME Shutdown PROVE ExpiredIsReleased'
  BY <1>13 DEF Shutdown
<1>14. ASSUME Die PROVE ExpiredIsReleased'
  BY <1>14 DEF Die
<1>15. CASE UNCHANGED sessionVars
  BY <1>15 DEF sessionVars
<1>16. QED
  BY <1>1, <1>2, <1>3, <1>4, <1>5, <1>6, <1>7, <1>8, <1>9, <1>10, <1>11, <1>12, <1>13,
     <1>14, <1>15 DEF SessionsNext, Sweep

\* SessionsInv is inductive.
THEOREM SessionsInductive == SessionsSpec => []SessionsInv
<1>1. SessionsInv /\ [SessionsNext]_sessionVars => SessionsInv'
  <2> SUFFICES ASSUME SessionsInv, [SessionsNext]_sessionVars PROVE SessionsInv'
    OBVIOUS
  <2>1. SessionsTypeOK' /\ now' >= Ttl'
    BY StepType
  <2>2. (lastSeen = heard)' /\ Cookies' /\ InKnown' /\ Batch'
    BY <2>1, StepAgree, StepCookies, StepInKnown, StepBatch
  <2>3. DownIsEmpty' /\ LiveKeepsItsFiles' /\ ExpiredIsReleased'
    BY <2>1, StepDown, StepFiles, StepReleased
  <2>4. QED
    BY <2>1, <2>2, <2>3 DEF SessionsInv
<1>2. QED
  BY InvInit, <1>1, PTL DEF SessionsSpec

\* Every variable keeps to its values.
THEOREM SessionsTypeCorrect == SessionsSpec => []SessionsTypeOK
<1>1. SessionsInv => SessionsTypeOK
  BY DEF SessionsInv
<1>2. QED
  BY <1>1, SessionsInductive, PTL

(***************************************************************************)
(* Two visitors never share a session, whatever old cookies they present,  *)
(* and a live one keeps its directory, whatever the sweeper and the purge  *)
(* of a start delete (session.py:127-205).                                 *)
(***************************************************************************)
THEOREM SessionsAreApartHolds == SessionsSpec => []SessionsAreApart
<1>1. SessionsInv => SessionsAreApart
  <2> SUFFICES ASSUME SessionsInv PROVE OneVisitorPerSession /\ LiveKeepsItsFiles
    BY DEF SessionsAreApart
  <2>1. live \subseteq Sids
    BY DEF SessionsInv, SessionsTypeOK
  <2>2. OneVisitorPerSession
    BY <2>1 DEF SessionsInv, Cookies, IsOf, OneVisitorPerSession
  <2>3. QED
    BY <2>2 DEF SessionsInv
<1>2. QED
  BY <1>1, SessionsInductive, PTL

(***************************************************************************)
(* Once the sweeper is done with a session its diagrams are closed, unless *)
(* a request outlived it or its on_expire raised.                          *)
(***************************************************************************)
THEOREM ExpiredIsReleasedHolds == SessionsSpec => []ExpiredIsReleased
<1>1. SessionsInv => ExpiredIsReleased
  BY DEF SessionsInv
<1>2. QED
  BY <1>1, SessionsInductive, PTL

\* What one step may expire.
OnlyIdleStep == \A s \in live \ live' : up' = "serving" => now - heard[s] > Ttl

(***************************************************************************)
(* A session that was heard within the TTL is never expired, though the    *)
(* sweeper computes its cutoff before it takes the lock.                   *)
(***************************************************************************)
THEOREM OnlyIdleExpiresHolds == SessionsSpec => OnlyIdleExpires
<1>1. SessionsInv /\ [SessionsNext]_sessionVars => [OnlyIdleStep]_sessionVars
  <2> SUFFICES ASSUME SessionsInv, SessionsNext PROVE OnlyIdleStep
    BY DEF OnlyIdleStep, sessionVars
  <2> USE SessionsAssumption DEF OnlyIdleStep
  <2>1. CASE Collect
    BY <2>1 DEF SessionsInv, SessionsTypeOK, Batch, Collect
  <2>2. CASE Shutdown \/ Die
    BY <2>2 DEF Shutdown, Die
  <2>3. CASE Tick \/ Wake \/ Proceed \/ Start \/ \E s \in Sids : Expire(s)
    BY <2>3 DEF Tick, Wake, Proceed, Start, Expire
  <2>4. ASSUME NEW r \in Requests,
               \/ \E b \in Browsers, route \in Routes : Ask(r, b, route)
               \/ Peek(r) \/ Recognise(r) \/ Mint(r) \/ Work(r) \/ Answer(r)
        PROVE  OnlyIdleStep
    <3>1. live \subseteq live'
      BY <2>4 DEF Ask, Routes, Peek, Recognise, Mint, MintAs, Work, Answer
    <3>2. QED
      BY <3>1
  <2>5. QED
    BY <2>1, <2>2, <2>3, <2>4 DEF SessionsNext, Sweep
<1>2. QED
  BY <1>1, SessionsInductive, PTL DEF SessionsSpec, OnlyIdleExpires, OnlyIdleStep
=============================================================================
