------------------------------- MODULE MCHandler -------------------------------
(***************************************************************************)
(* Instances of Handler for TLC.                                           *)
(***************************************************************************)
EXTENDS Handler, TLC

(* Queries by both protocols, with and without EDNS, and packets that are  *)
(* turned away.                                                            *)
SomePackets ==
    LET from == CHOOSE c \in Clients : TRUE
        about == CHOOSE q \in Questions : TRUE
        Packet(proto, c, kind, q, edns) == [proto |-> proto, client |-> c, kind |-> kind, question |-> q, edns |-> edns]
    IN
    {Packet("udp", c, "query", q, FALSE) : c \in Clients, q \in Questions}
    \cup {Packet("udp", from, k, about, FALSE) : k \in {"oversize", "malformed"}}
    \cup {Packet("tcp", from, "query", about, TRUE)}

(* One request per tick and no bursts, one response per second.            *)
Strict == [rate |-> 1, burst |-> 1, limit |-> 1, slip |-> 2, rrlEnabled |-> TRUE, allowRecursive |-> TRUE]

(* Bursts of three, more than an idle bucket earns before it is swept, and *)
(* two responses per second; recursion and RRL switched off.               *)
Looser == {[rate |-> 0, burst |-> 3, limit |-> 2, slip |-> 0, rrlEnabled |-> FALSE, allowRecursive |-> FALSE]}

GoroutineSymmetry == Permutations(Goroutines)
=============================================================================
