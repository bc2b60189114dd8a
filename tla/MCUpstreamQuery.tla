-------------------------- MODULE MCUpstreamQuery --------------------------
(* Instances of UpstreamQuery for TLC.                                     *)
EXTENDS UpstreamQuery, TLC

Lax == [failureThreshold |-> 2, successThreshold |-> 2, openTimeout |-> 1]
Strict == [failureThreshold |-> 1, successThreshold |-> 1, openTimeout |-> 1]

Symmetry == Permutations(Calls) \cup Permutations(QueryIDs)

NoSettings == {}
Tightened == {Strict}
=============================================================================
