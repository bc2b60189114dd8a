------------------------------- MODULE MCCache -------------------------------
(* Instances of Cache for TLC.                                             *)
EXTENDS Cache

Limits(entries, minT, maxT, window, age) ==
    [maxEntries |-> entries, minTTL |-> minT, maxTTL |-> maxT,
     staleWindow |-> window, staleMaxAge |-> age]

UnitKeySize == [k \in Keys |-> 1]
VaryingSize == [v \in Values |-> IF v \in Encodable THEN 2 ELSE 0]

KeySymmetry == Permutations(Keys)

(* A cache that has room for two of its keys, and posts that shrink it or  *)
(* name the limits of the time to live in the wrong order.                 *)
TwoEntries == Limits(2, 1, 2, 1, 4)
Posts == {Limits(1, None, None, 0, 1), Limits(2, 2, 1, None, None)}

(* A cache that starts with room for one entry and may grow, so that a     *)
(* snapshot can hold more than the next start has room for.                *)
OneEntry == Limits(1, 1, 1, 1, 1)
Grow == {Limits(2, None, None, None, None)}
=============================================================================
