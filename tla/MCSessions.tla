----------------------------- MODULE MCSessions -----------------------------
(* Sessions for TLC: one user, who may have one session.                     *)
EXTENDS Sessions, TLC

Symmetric == Permutations(Sessions) \cup Permutations(Procs)

\* No property speaks of a session that was handled in an outage, and none leaves
\* that set: when all have, there is nothing left to see.
SomethingToSee == strayed # Sessions
=============================================================================
