----------------------------- MODULE MCResolver -----------------------------
(* An instance of Resolver for TLC.                                         *)
EXTENDS Resolver

Small == [maxEntries |-> 2, minTTL |-> 1, maxTTL |-> 1, staleWindow |-> 1, staleMaxAge |-> 2]

SameKey == [k \in Keys |-> k]

Symmetry == Permutations(Requests) \cup Permutations(QueryIDs)
=============================================================================
