------------------------------- MODULE Limiters -------------------------------
(***************************************************************************)
(* The two limiters of internal/security as functions on their state: the  *)
(* token bucket per client address (ratelimit.go) and response rate        *)
(* limiting per tuple of client, question and response code (rrl.go).      *)
(* Each method runs under the limiter's mutex, so it is one step of        *)
(* whoever calls it.                                                       *)
(*                                                                         *)
(* Time passes in ticks, of which a second has Second.  A moment is kept   *)
(* as the ticks since then, counted no further than the code tells apart.  *)
(* The counters of drops are left out: nothing is decided by them.         *)
(***************************************************************************)
EXTENDS Integers

CONSTANTS
    Second,      \* ticks per second: the window of RRL
    GCInterval,  \* ticks between two sweeps: one minute in the code
    GCAge,       \* ticks without a request after which a bucket is swept: two minutes
    None         \* no bucket

(* A token bucket, and how long it was not used.                           *)
TokenBucket == [tokens : Nat, idle : 0 .. GCAge + 1]

(* A window of RRL: how long ago it began, the responses in it, and those  *)
(* of them over the limit.                                                 *)
Window == [age : 0 .. Second, count : Nat, slipped : Nat, idle : 0 .. GCAge + 1]

ASSUME LimitersAssumption ==
    /\ {Second, GCInterval} \subseteq Nat \ {0}
    /\ GCAge \in Nat /\ GCAge >= Second
    /\ None \notin TokenBucket \cup Window

RateLimiters(K) ==
    [buckets : [K -> TokenBucket \cup {None}], rate : Nat \ {0}, burst : Nat \ {0}, sinceGC : 0 .. GCInterval]

RRLs(K) ==
    [buckets : [K -> Window \cup {None}], limit : Nat \ {0}, slip : Nat \ {0}, sinceGC : 0 .. GCInterval]

NewRateLimiter(K, rate, burst) ==
    [buckets |-> [k \in K |-> None], rate |-> rate, burst |-> burst, sinceGC |-> 0]

NewRRL(K, limit, slip) ==
    [buckets |-> [k \in K |-> None], limit |-> limit, slip |-> slip, sinceGC |-> 0]

(* Every bucket is thrown away, idle or not.                               *)
gcLocked_All(buckets) == [k \in DOMAIN buckets |-> None]

gcLocked(buckets) ==
    [k \in DOMAIN buckets |-> IF buckets[k] # None /\ buckets[k].idle > GCAge THEN None ELSE buckets[k]]

(* What every Allow begins with.                                           *)
Swept(r) ==
    IF r.sinceGC >= GCInterval
    THEN [r EXCEPT !.buckets = gcLocked(@), !.sinceGC = 0]
    ELSE r

(* A tick passes.                                                          *)
Smaller(a, b) == IF a < b THEN a ELSE b

Aged(r, older(_)) ==
    [r EXCEPT !.sinceGC = Smaller(@ + 1, GCInterval),
              !.buckets = [k \in DOMAIN @ |-> IF @[k] = None THEN None ELSE older(@[k])]]

RateTick(r) == Aged(r, LAMBDA b : [b EXCEPT !.idle = Smaller(@ + 1, GCAge + 1)])
RRLTick(r) == Aged(r, LAMBDA b : [b EXCEPT !.idle = Smaller(@ + 1, GCAge + 1), !.age = Smaller(@ + 1, Second)])
-----------------------------------------------------------------------------
(* RateLimiter.                                                            *)

Refilled(r, b) == Smaller(r.burst, b.tokens + b.idle * r.rate)

(* The tokens at hand when a client asks; a new client has all of them.    *)
Tokens(r, ip) == IF r.buckets[ip] = None THEN r.burst ELSE Refilled(r, r.buckets[ip])

(* Allow: the verdict, and the limiter it leaves.                          *)
RateAllows(r, ip) == Tokens(Swept(r), ip) >= 1

RateAllow(r, ip) ==
    LET tokens == Tokens(Swept(r), ip) IN
    [Swept(r) EXCEPT !.buckets[ip] =
        [tokens |-> IF RateAllows(r, ip) THEN tokens - 1 ELSE tokens, idle |-> 0]]

(* A value that is not positive leaves the setting alone.                  *)
OrElse(new, old) == IF new > 0 THEN new ELSE old

RateUpdate(r, rate, burst) == [r EXCEPT !.rate = OrElse(rate, @), !.burst = OrElse(burst, @)]
-----------------------------------------------------------------------------
(* RRL.                                                                    *)

FirstOfWindow == [age |-> 0, count |-> 1, slipped |-> 0, idle |-> 0]

(* A window that is over is emptied but keeps its start, so that it is     *)
(* over for ever.                                                          *)
Counted_KeepsStart(b) ==
    IF b = None THEN FirstOfWindow
    ELSE IF b.age >= Second THEN [FirstOfWindow EXCEPT !.age = b.age]
         ELSE [b EXCEPT !.count = @ + 1, !.idle = 0]

(* The window the response falls into, with the response counted.          *)
Counted(b) ==
    IF b = None \/ b.age >= Second
    THEN FirstOfWindow
    ELSE [b EXCEPT !.count = @ + 1, !.idle = 0]

(* Only the first of the responses over the limit that may slip does.      *)
Slips_Once(slipped, slip) == slipped = slip

(* One response in slip gets through once the limit is reached.            *)
Slips(slipped, slip) == slipped % slip = 0

RRLAllows(r, tuple) ==
    LET w == Counted(Swept(r).buckets[tuple]) IN
    w.count > r.limit => Slips(w.slipped + 1, r.slip)

RRLAllow(r, tuple) ==
    LET w == Counted(Swept(r).buckets[tuple]) IN
    [Swept(r) EXCEPT !.buckets[tuple] = IF w.count > r.limit THEN [w EXCEPT !.slipped = @ + 1] ELSE w]

RRLUpdate(r, limit, slip) == [r EXCEPT !.limit = OrElse(limit, @), !.slip = OrElse(slip, @)]
=============================================================================
