------------------------------- MODULE MCApi -------------------------------
(* An instance of Api for TLC: more items than slots, none at all, and a   *)
(* concurrency that is not given.                                          *)
EXTENDS Api

SomeRequests == {<<0, 0>>, <<2, 0>>, <<3, 1>>}
=============================================================================
