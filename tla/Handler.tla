------------------------------- MODULE Handler -------------------------------
(***************************************************************************)
(* HandlePacket of internal/server/handler.go, run by the UDP workers and  *)
(* by the goroutines of stream connections, with the two limiters it asks  *)
(* and the settings that may be posted meanwhile.                          *)
(*                                                                         *)
(* A packet is what HandlePacket tells apart: how it came, from whom,      *)
(* whether it is too large, does not decode (or has no question) or is a   *)
(* query, its question if it is one, and whether the client speaks EDNS.   *)
(* What Resolve returns is the environment's choice: an error or a         *)
(* message, which fits 512 bytes or does not, and can be encoded or not.   *)
(* Logging, counters and gauges are left out: nothing is decided by them.  *)
(***************************************************************************)
EXTENDS Limiters, Sequences, FiniteSets, FiniteSetsExt, Functions

CONSTANTS
    Goroutines,   \* callers of HandlePacket
    Clients,      \* addresses
    Questions,    \* names, in lower case, with types
    Packets,      \* packets that may arrive
    RCodes,       \* response codes of messages, among them "SERVFAIL"
    InitSettings, \* rate, burst, limit, slip, rrlEnabled and allowRecursive at start
    Posts,        \* what may be posted; 0 leaves a number alone
    ClientTable,  \* queries whose client is remembered: 2000 in the code
    MaxPackets    \* bound on the packets handled at once and answered within a second

AllSettings == Posts \cup {InitSettings}
Responses == [rcode : RCodes, tc : BOOLEAN, traced : BOOLEAN]

ASSUME HandlerAssumption ==
    /\ Packets \subseteq [proto : {"udp", "tcp"}, client : Clients, kind : {"oversize", "malformed", "query"},
                           question : Questions, edns : BOOLEAN]
    /\ "SERVFAIL" \in RCodes
    /\ None \notin Packets /\ None \notin Responses
    /\ ClientTable \in Nat \ {0}
    /\ MaxPackets \in Nat
    /\ \A p \in AllSettings : /\ {p.rate, p.burst, p.limit, p.slip} \subseteq Nat
                              /\ {p.rrlEnabled, p.allowRecursive} \subseteq BOOLEAN
    /\ \E p \in AllSettings : \A q \in AllSettings : q.rate <= p.rate
    /\ \E p \in AllSettings : \A q \in AllSettings : q.burst <= p.burst
    /\ \E p \in AllSettings : \A q \in AllSettings : q.limit <= p.limit
    /\ 0 \notin {InitSettings.rate, InitSettings.burst, InitSettings.limit, InitSettings.slip}

VARIABLES
    limiter,       \* h.limiter
    rrl,           \* h.rrl
    rrlEnabled,    \* h.rrlEnabled
    allowRecursive,\* h.allowRecursive
    pc,            \* per goroutine: where HandlePacket is
    packet,        \* per goroutine: its packet
    response,      \* per goroutine: the response it prepared
    clientIP,      \* number of entries in h.queryClientIP
    excess,        \* history, per client: GCAge times the most requests admitted to it over a
                   \* stretch of time that ends now, less what was Earned in each tick of it
    recent,        \* history, per tuple: responses RRL saw and passed in each tick of the last second
    silent         \* history, per tuple: responses withheld since the last one passed

settingVars == <<rrlEnabled, allowRecursive>>
callVars == <<pc, packet, response>>
historyVars == <<excess, recent, silent>>
vars == <<limiter, rrl, settingVars, callVars, clientIP, historyVars>>

(* What RRL keeps windows for.                                             *)
Tuples == Clients \X Questions \X RCodes
TupleOf(p, rcode) == <<p.client, p.question, rcode>>

Nothing == [seen |-> 0, passed |-> 0]
Greatest(values) == CHOOSE n \in values : \A v \in values : v <= n
MaxRate == Greatest({p.rate : p \in AllSettings})
MaxBurst == Greatest({p.burst : p \in AllSettings})

(* What the limiter gives a client in GCAge ticks: what the rate earns or, *)
(* if that is more, the burst that it finds again when it stays away for   *)
(* so long that its bucket is swept.                                       *)
Earned == IF GCAge * MaxRate >= MaxBurst THEN GCAge * MaxRate ELSE MaxBurst

TypeOK ==
    /\ limiter \in RateLimiters(Clients)
    /\ rrl \in RRLs(Tuples)
    /\ {rrlEnabled, allowRecursive} \subseteq BOOLEAN
    /\ pc \in [Goroutines -> {"idle", "limit", "decode", "resolve", "rrl", "account"}]
    /\ packet \in [Goroutines -> Packets \cup {None}]
    /\ response \in [Goroutines -> Responses \cup {None}]
    /\ \A g \in Goroutines :
          /\ packet[g] # None <=> pc[g] # "idle"
          /\ response[g] # None <=> pc[g] \in {"rrl", "account"}
    /\ clientIP \in 0 .. ClientTable
    /\ excess \in [Clients -> Nat]
    /\ recent \in [Tuples -> [1 .. Second -> [seen : Nat, passed : Nat]]]
    /\ silent \in [Tuples -> Nat]

Init ==
    /\ limiter = NewRateLimiter(Clients, InitSettings.rate, InitSettings.burst)
    /\ rrl = NewRRL(Tuples, InitSettings.limit, InitSettings.slip)
    /\ rrlEnabled = InitSettings.rrlEnabled
    /\ allowRecursive = InitSettings.allowRecursive
    /\ pc = [g \in Goroutines |-> "idle"]
    /\ packet = [g \in Goroutines |-> None]
    /\ response = [g \in Goroutines |-> None]
    /\ clientIP = 0
    /\ excess = [c \in Clients |-> 0]
    /\ recent = [t \in Tuples |-> [i \in 1 .. Second |-> Nothing]]
    /\ silent = [t \in Tuples |-> 0]
-----------------------------------------------------------------------------
(* Packets at work, and responses of the last second.                      *)
Total(t, f) == SumFunction([i \in 1 .. Second |-> recent[t][i][f]])
Load == Cardinality({g \in Goroutines : pc[g] # "idle"}) + MapThenSumSet(LAMBDA t : Total(t, "seen"), Tuples)

Goto(g, step) == pc' = [pc EXCEPT ![g] = step]

(* HandlePacket returns.                                                   *)
Return(g) ==
    /\ Goto(g, "idle")
    /\ packet' = [packet EXCEPT ![g] = None]
    /\ response' = [response EXCEPT ![g] = None]

(* HandlePacket is called.  A datagram that is too large gets FORMERR at   *)
(* once; the limiter is asked for the other datagrams only.                *)
Receive(g, p) ==
    /\ pc[g] = "idle" /\ Load < MaxPackets
    /\ \/ p.proto = "udp" /\ p.kind = "oversize" /\ UNCHANGED callVars
       \/ /\ p.proto = "tcp" \/ p.kind # "oversize"
          /\ packet' = [packet EXCEPT ![g] = p]
          /\ Goto(g, IF p.proto = "udp" THEN "limit" ELSE "decode")
          /\ UNCHANGED response
    /\ UNCHANGED <<limiter, rrl, settingVars, clientIP, excess, recent, silent>>

(* limiter.Allow: a client over its rate is not answered.                  *)
Limit(g) ==
    LET ip == packet[g].client IN
    /\ pc[g] = "limit"
    /\ limiter' = RateAllow(limiter, ip)
    /\ \/ /\ RateAllows(limiter, ip)
          /\ excess' = [excess EXCEPT ![ip] = @ + GCAge]
          /\ Goto(g, "decode")
          /\ UNCHANGED <<packet, response>>
       \/ /\ ~RateAllows(limiter, ip)
          /\ Return(g)
          /\ UNCHANGED excess
    /\ UNCHANGED <<rrl, settingVars, clientIP, recent, silent>>

(* Decode fails or finds no question: FORMERR.  Recursion is not allowed:  *)
(* REFUSED.  Neither is counted as a query.                                *)
Reject(g) ==
    /\ pc[g] = "decode"
    /\ packet[g].kind = "malformed" \/ ~allowRecursive
    /\ Return(g)
    /\ UNCHANGED <<limiter, rrl, settingVars, clientIP, historyVars>>

StartResolve(g) ==
    /\ pc[g] = "decode" /\ packet[g].kind # "malformed" /\ allowRecursive
    /\ Goto(g, "resolve")
    /\ UNCHANGED <<limiter, rrl, settingVars, packet, response, clientIP, historyVars>>

(* Resolve fails: a SERVFAIL that belongs to no query in the history.      *)
ResolveFails(g) ==
    /\ pc[g] = "resolve"
    /\ response' = [response EXCEPT ![g] = [rcode |-> "SERVFAIL", tc |-> FALSE, traced |-> FALSE]]
    /\ Goto(g, "rrl")
    /\ UNCHANGED <<limiter, rrl, settingVars, packet, clientIP, historyVars>>

(* Resolve returns a message, which is encoded; a large one is cut down to *)
(* its question for a datagram to a client without EDNS.                   *)
Resolved(g, rcode, large) ==
    /\ pc[g] = "resolve"
    /\ response' = [response EXCEPT ![g] =
          [rcode |-> rcode, tc |-> large /\ packet[g].proto = "udp" /\ ~packet[g].edns, traced |-> TRUE]]
    /\ Goto(g, "rrl")
    /\ UNCHANGED <<limiter, rrl, settingVars, packet, clientIP, historyVars>>

(* The message cannot be encoded: the client hears nothing.                *)
EncodeFails(g) ==
    /\ pc[g] = "resolve"
    /\ Return(g)
    /\ UNCHANGED <<limiter, rrl, settingVars, clientIP, historyVars>>

(* rrl.Allow, and the response is withheld or passed.                      *)
CheckRRL(g) ==
    LET tuple == TupleOf(packet[g], response[g].rcode)
        passes == RRLAllows(rrl, tuple)
    IN
    /\ pc[g] = "rrl" /\ rrlEnabled
    /\ rrl' = RRLAllow(rrl, tuple)
    /\ \/ passes /\ Goto(g, "account") /\ UNCHANGED <<packet, response>>
       \/ ~passes /\ Return(g)
    /\ recent' = [recent EXCEPT ![tuple][1] =
                     [seen |-> @.seen + 1, passed |-> @.passed + (IF passes THEN 1 ELSE 0)]]
    /\ silent' = [silent EXCEPT ![tuple] = IF passes THEN 0 ELSE @ + 1]
    /\ UNCHANGED <<limiter, settingVars, clientIP, excess>>

SkipRRL(g) ==
    /\ pc[g] = "rrl" /\ ~rrlEnabled
    /\ Goto(g, "account")
    /\ UNCHANGED <<limiter, rrl, settingVars, packet, response, clientIP, historyVars>>

(* Room is made only when the table has grown past its size.               *)
recordQueryClient_OffByOne(entries) == IF entries > ClientTable THEN entries ELSE entries + 1

(* At the limit some entry, whichever the map yields first, makes room for *)
(* the new one.  Query ids are new, so none is overwritten.                *)
recordQueryClient(entries) == IF entries >= ClientTable THEN entries ELSE entries + 1

(* The query is counted and its client remembered, unless Resolve failed   *)
(* and there is no id to remember it by; the reply is returned.            *)
Account(g) ==
    /\ pc[g] = "account"
    /\ clientIP' = IF response[g].traced THEN recordQueryClient(clientIP) ELSE clientIP
    /\ Return(g)
    /\ UNCHANGED <<limiter, rrl, settingVars, historyVars>>

(* ApplyRuntimeSettings: the flags, the limiter and RRL, each under its    *)
(* own lock; a packet in between sees some of them changed.                *)
PostRecursion(p) ==
    /\ allowRecursive' = p.allowRecursive
    /\ UNCHANGED <<limiter, rrl, rrlEnabled, callVars, clientIP, historyVars>>

PostRRLEnabled(p) ==
    /\ rrlEnabled' = p.rrlEnabled
    /\ UNCHANGED <<limiter, rrl, allowRecursive, callVars, clientIP, historyVars>>

PostRate(p) ==
    /\ limiter' = RateUpdate(limiter, p.rate, p.burst)
    /\ UNCHANGED <<rrl, settingVars, callVars, clientIP, historyVars>>

PostRRL(p) ==
    /\ rrl' = RRLUpdate(rrl, p.limit, p.slip)
    /\ UNCHANGED <<limiter, settingVars, callVars, clientIP, historyVars>>

Tick ==
    /\ limiter' = RateTick(limiter)
    /\ rrl' = RRLTick(rrl)
    /\ excess' = [c \in Clients |-> IF excess[c] > Earned THEN excess[c] - Earned ELSE 0]
    /\ recent' = [t \in Tuples |-> [i \in 1 .. Second |-> IF i = 1 THEN Nothing ELSE recent[t][i - 1]]]
    /\ UNCHANGED <<settingVars, callVars, clientIP, silent>>
-----------------------------------------------------------------------------
HandlePacket(g) ==
    \/ \E p \in Packets : Receive(g, p)
    \/ Limit(g) \/ Reject(g) \/ StartResolve(g)
    \/ ResolveFails(g) \/ EncodeFails(g)
    \/ \E rcode \in RCodes, large \in BOOLEAN : Resolved(g, rcode, large)
    \/ CheckRRL(g) \/ SkipRRL(g) \/ Account(g)

ApplyRuntimeSettings(p) == PostRecursion(p) \/ PostRRLEnabled(p) \/ PostRate(p) \/ PostRRL(p)

Next ==
    \/ \E g \in Goroutines : HandlePacket(g)
    \/ \E p \in Posts : ApplyRuntimeSettings(p)
    \/ Tick

Spec == Init /\ [][Next]_vars
-----------------------------------------------------------------------------
(* Over every stretch of time a client gets at most the greatest burst and *)
(* what is earned meanwhile, whatever is posted.  A bucket that is swept   *)
(* starts full again (ratelimit.go:85), so that a client may earn a burst  *)
(* in each GCAge where the rate alone would earn it less: that is the most *)
(* the sweep can give away, although buckets are swept at any age past it  *)
(* and settings change between a client's last request and the sweep.      *)
WithinRate == \A c \in Clients : excess[c] <= GCAge * MaxBurst

SlipIsFixed == InitSettings.slip > 1 /\ \A p \in AllSettings : p.slip \in {0, InitSettings.slip}

(* RRL counts in fixed windows, so that of one client, question and code   *)
(* twice the limit may pass within one second, and never more than that    *)
(* apart from the responses let slip, each of which takes slip - 1 that    *)
(* are withheld; also across sweeps and changes of the limit.              *)
ResponsesAreLimited ==
    SlipIsFixed => \A t \in Tuples :
        LET passed == Total(t, "passed")
            withheld == Total(t, "seen") - passed
        IN  passed <= 2 * Greatest({p.limit : p \in AllSettings}) + withheld \div (InitSettings.slip - 1)

(* A client under response rate limiting is never silenced: of slip        *)
(* responses in a row to one of its questions, with one code, one gets     *)
(* through, also across windows, sweeps and changes of the limit.          *)
NobodyIsSilenced == SlipIsFixed => \A t \in Tuples : silent[t] < InitSettings.slip
=============================================================================
