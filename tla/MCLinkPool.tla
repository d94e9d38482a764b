----------------------------- MODULE MCLinkPool -----------------------------
(* Instances of LinkPool for TLC. *)
EXTENDS LinkPool, TLC

CONSTANTS d1, d2, d3, r1, r2, o1, o2, o3

\* Two diagrams of one session on one relay.
OneRelay == d1 :> r1 @@ d2 :> r1
\* Two diagrams on one relay and a third on another.
Rivals == OneRelay @@ d3 :> r2
\* Ids that are unique, and the first diagram of two sessions: both are "d1".
OwnId == d1 :> o1 @@ d2 :> o2
Own3 == OwnId @@ d3 :> o3
SameId == d1 :> o1 @@ d2 :> o1
\* How often each diagram asks.
Both2 == d1 :> 2 @@ d2 :> 2
Three0 == d1 :> 3 @@ d2 :> 0
Two1 == d1 :> 2 @@ d2 :> 1
Three11 == d1 :> 3 @@ d2 :> 1 @@ d3 :> 1
=============================================================================
