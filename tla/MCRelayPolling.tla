--------------------------- MODULE MCRelayPolling ---------------------------
(* Instances of RelayPolling for TLC. *)
EXTENDS RelayPolling, TLC

CONSTANTS a, b, p, q, x, y

\* Calls of one kind differ only in name.
Calls == Permutations({a, b}) \cup Permutations({p, q}) \cup Permutations({x, y})
=============================================================================
