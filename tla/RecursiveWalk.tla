---------------------------- MODULE RecursiveWalk ----------------------------
(***************************************************************************)
(* One recursive resolution (resolveRecursive of                           *)
(* internal/resolver/recursive.go): from the root servers down the         *)
(* referrals, along CNAMEs, asking minimised names when that is enabled.   *)
(*                                                                         *)
(* Names are sequences of labels, the label nearest the root first, so     *)
(* that a zone is a prefix of the names below it; they are taken to be     *)
(* lower-cased with a final dot, as normalizeFQDN leaves them.             *)
(*                                                                         *)
(* Each turn of the loop is one action: it is decided by the state at the  *)
(* top of the loop and by what queryFastest brings back, which is          *)
(* UpstreamQuery's business and here whatever World offers.                *)
(***************************************************************************)
EXTENDS Integers, Sequences, FiniteSets

CONSTANTS
    Labels,             \* the labels names are made of
    LabelEnds,          \* pairs <<l, m>> of labels such that l's text ends in m's
    Names,              \* the names that occur
    Types,              \* the types of record that occur
    Addresses,          \* addresses of name servers
    RootServers,        \* the addresses in the root hints
    Questions,          \* pairs of a name and a type that clients ask for
    MaxRecursionDepth,  \* referrals followed for one name
    MaxCNAMEDepth,      \* CNAMEs followed
    Minimization,       \* the values QNAME_MINIMIZATION may have
    World(_, _, _),     \* what a query for a name and a type to some servers may bring
    LookupIPs(_),       \* what the host's own resolver may say of a name server
    Failed              \* no server answered

(* The parts of a message the walk looks at.  cnames and answers are the   *)
(* records of the answer section, ns is the zone of the last NS record and *)
(* the hosts named by all of them, glue the addresses of the additional    *)
(* and answer sections, soa whether an SOA is there and its minimum is     *)
(* zero or more.                                                           *)
Replies ==
    [rcode : {"noerror", "nxdomain", "other"}, aa : BOOLEAN,
     cnames : SUBSET [owner : Names, target : Names],
     answers : SUBSET [owner : Names, type : Types],
     ns : [zone : Names, hosts : SUBSET Names],
     glue : SUBSET [host : Names, ip : Addresses],
     soa : {"none", "zero", "positive"}]

ASSUME WalkAssumption ==
    /\ Names \subseteq Seq(Labels)
    /\ \A n \in Names : \A i \in 0 .. Len(n) : SubSeq(n, 1, i) \in Names
    /\ {"NS", "CNAME"} \subseteq Types
    /\ RootServers \subseteq Addresses
    /\ Questions \subseteq Names \X Types
    /\ MaxRecursionDepth \in Nat \ {0}
    /\ MaxCNAMEDepth \in Nat \ {0}
    /\ Minimization \subseteq BOOLEAN
    /\ \A h \in Names : LookupIPs(h) \subseteq Addresses
    /\ \A n \in Names, t \in Types, s \in SUBSET Addresses :
          World(n, t, s) \subseteq Replies \cup {Failed}

VARIABLES
    outcome,        \* "running", or how the resolution ended
    qname,          \* the name being resolved: the question's, then a CNAME's target
    qtype,          \* the type asked for
    servers,        \* the servers to ask next
    steps,          \* turns of the loop since the last CNAME
    cnameDepth,     \* CNAMEs followed
    visitedCNAME,   \* their targets
    visitedStates,  \* what was asked of which servers
    minimize,       \* qnameMinimizationEnabled
    question,       \* history: the name the client asked for
    queries         \* history: queries sent

vars == <<outcome, qname, qtype, servers, steps, cnameDepth, visitedCNAME, visitedStates,
          minimize, question, queries>>

(* A response was returned to the caller, or an error.                     *)
Responses == {"answer", "nodata", "nxdomain", "rcode", "terminal"}
Failures == {"query failed", "cname depth", "cname loop", "referral loop", "depth", "no referral"}

(* What a query asks, and of whom: referralStateKey.                       *)
QueryStates == [name : Names, type : Types, servers : SUBSET Addresses]

TypeOK ==
    /\ outcome \in {"running"} \cup Responses \cup Failures
    /\ qname \in Names
    /\ qtype \in Types
    /\ servers \subseteq Addresses
    /\ steps \in 0 .. MaxRecursionDepth
    /\ cnameDepth \in 0 .. MaxCNAMEDepth
    /\ visitedCNAME \subseteq Names
    /\ visitedStates \subseteq QueryStates
    /\ minimize \in BOOLEAN
    /\ question \in Names
    /\ queries \in Nat

Init ==
    /\ outcome = "running"
    /\ \E q \in Questions : qname = q[1] /\ qtype = q[2]
    /\ servers = RootServers
    /\ steps = 0
    /\ cnameDepth = 0
    /\ visitedCNAME = {}
    /\ visitedStates = {}
    /\ minimize \in Minimization
    /\ question = qname
    /\ queries = 0

-----------------------------------------------------------------------------
(* Reading a response.                                                     *)

(* MinimizedQNameForHop: one label more at each hop.                       *)
Minimized(name, hop) == IF hop + 1 > Len(name) THEN name ELSE SubSeq(name, 1, hop + 1)

(* What this turn of the loop, the hop after steps others, asks for.       *)
QueryName == IF minimize THEN Minimized(qname, steps) ELSE qname
QueryType == IF QueryName # qname THEN "NS" ELSE qtype
QueryState == [name |-> QueryName, type |-> QueryType, servers |-> servers]

CNAMEsOf(r) == {c \in r.cnames : c.owner = qname}

hasAnswer(r) ==
    \/ [owner |-> qname, type |-> qtype] \in r.answers
    \/ qtype = "CNAME" /\ r.cnames # {}

shouldCacheAsNODATA(r) == r.rcode = "noerror" /\ ~hasAnswer(r) /\ r.soa = "positive"

(* InBailiwick compares the text of the names, so the label where the zone *)
(* ends need only end in the zone's own label.                             *)
InBailiwick(name, zone) ==
    LET n == Len(zone) IN
    \/ n = 0
    \/ /\ Len(name) >= n
       /\ SubSeq(name, 1, n - 1) = SubSeq(zone, 1, n - 1)
       /\ name[n] = zone[n] \/ <<name[n], zone[n]>> \in LabelEnds

(* nextReferralServers: the addresses in the response for its name         *)
(* servers; failing that, those the host's resolver finds.                 *)
GlueServers(r) ==
    {g.ip : g \in {x \in r.glue : InBailiwick(x.host, r.ns.zone) /\ x.host \in r.ns.hosts}}

nextReferralServers(r) ==
    IF GlueServers(r) # {} THEN GlueServers(r) ELSE UNION {LookupIPs(h) : h \in r.ns.hosts}

(* The answer section or the authority section holds something.            *)
HasSections(r) == r.cnames # {} \/ r.answers # {} \/ r.ns.hosts # {} \/ r.soa # "none"

-----------------------------------------------------------------------------
(* Turns of the loop.                                                      *)

Return(result) ==
    /\ outcome' = result
    /\ UNCHANGED <<qname, qtype, servers, cnameDepth, visitedCNAME, minimize, question>>

(* The loop condition fails.                                               *)
DepthExceeded ==
    /\ outcome = "running"
    /\ steps = MaxRecursionDepth
    /\ Return("depth")
    /\ UNCHANGED <<steps, visitedStates, queries>>

(* The same question would go to the same servers a second time.           *)
LoopDetected ==
    /\ outcome = "running"
    /\ steps < MaxRecursionDepth
    /\ QueryState \in visitedStates
    /\ steps' = steps + 1
    /\ Return("referral loop")
    /\ UNCHANGED <<visitedStates, queries>>

(* Mutant: the state is noted but never looked up.                         *)
Asks_NoLookup ==
    /\ outcome = "running"
    /\ steps < MaxRecursionDepth
    /\ visitedStates' = visitedStates \cup {QueryState}
    /\ queries' = queries + 1

(* The part of a turn before the response: the state is noted and the      *)
(* query sent.                                                             *)
Asks ==
    /\ outcome = "running"
    /\ steps < MaxRecursionDepth
    /\ QueryState \notin visitedStates
    /\ visitedStates' = visitedStates \cup {QueryState}
    /\ queries' = queries + 1

QueryFails ==
    /\ Asks
    /\ Failed \in World(QueryName, QueryType, servers)
    /\ steps' = steps + 1
    /\ Return("query failed")

(* Mutant: NXDOMAIN for a minimised name is passed on.                     *)
MinimizedNameError_Final(r) ==
    /\ Asks
    /\ r.rcode = "nxdomain"
    /\ QueryName # qname
    /\ steps' = steps + 1
    /\ Return("nxdomain")

(* NXDOMAIN for a minimised name: the full name is asked from now on.      *)
MinimizedNameError(r) ==
    /\ Asks
    /\ r.rcode = "nxdomain"
    /\ QueryName # qname
    /\ minimize' = FALSE
    /\ steps' = steps + 1
    /\ UNCHANGED <<outcome, qname, qtype, servers, cnameDepth, visitedCNAME, question>>

NameError(r) ==
    /\ Asks
    /\ r.rcode = "nxdomain"
    /\ QueryName = qname
    /\ steps' = steps + 1
    /\ Return("nxdomain")

FollowsCNAME(r) == r.rcode # "nxdomain" /\ CNAMEsOf(r) # {} /\ qtype # "CNAME"

CNAMEDepthExceeded(r) ==
    /\ Asks
    /\ FollowsCNAME(r)
    /\ cnameDepth = MaxCNAMEDepth
    /\ steps' = steps + 1
    /\ Return("cname depth")

CNAMELoop(r) ==
    /\ Asks
    /\ FollowsCNAME(r)
    /\ cnameDepth < MaxCNAMEDepth
    /\ \E c \in CNAMEsOf(r) : c.target \in visitedCNAME
    /\ steps' = steps + 1
    /\ Return("cname loop")

(* Mutant: the CNAMEs followed are not counted.                            *)
FollowCNAME_Uncounted(r) ==
    /\ Asks
    /\ FollowsCNAME(r)
    /\ \E c \in CNAMEsOf(r) : qname' = c.target
    /\ servers' = RootServers
    /\ steps' = 0
    /\ UNCHANGED <<outcome, qtype, cnameDepth, visitedCNAME, minimize, question>>

(* Mutant: a chain of CNAMEs may have any length.                          *)
FollowCNAME_NoLimit(r) ==
    /\ Asks
    /\ FollowsCNAME(r)
    /\ \E c \in CNAMEsOf(r) :
          /\ c.target \notin visitedCNAME
          /\ qname' = c.target
          /\ visitedCNAME' = visitedCNAME \cup {c.target}
    /\ cnameDepth' = cnameDepth + 1
    /\ servers' = RootServers
    /\ steps' = 0
    /\ UNCHANGED <<outcome, qtype, minimize, question>>

(* The target is resolved from the root, with a new budget of steps; what  *)
(* was asked so far stays noted.                                           *)
FollowCNAME(r) ==
    /\ Asks
    /\ FollowsCNAME(r)
    /\ cnameDepth < MaxCNAMEDepth
    /\ \E c \in CNAMEsOf(r) :
          /\ c.target \notin visitedCNAME
          /\ qname' = c.target
          /\ visitedCNAME' = visitedCNAME \cup {c.target}
    /\ cnameDepth' = cnameDepth + 1
    /\ servers' = RootServers
    /\ steps' = 0
    /\ UNCHANGED <<outcome, qtype, minimize, question>>

(* The response answers the question, says there is no such record, or     *)
(* carries an error code: it is returned as it is.                         *)
Conclude(r) ==
    /\ Asks
    /\ r.rcode # "nxdomain"
    /\ ~FollowsCNAME(r)
    /\ hasAnswer(r) \/ shouldCacheAsNODATA(r) \/ r.rcode = "other"
    /\ steps' = steps + 1
    /\ Return(IF r.rcode = "other" THEN "rcode" ELSE IF hasAnswer(r) THEN "answer" ELSE "nodata")

(* Neither an end nor a CNAME.                                             *)
IsReferral(r) ==
    r.rcode = "noerror" /\ ~FollowsCNAME(r) /\ ~hasAnswer(r) /\ ~shouldCacheAsNODATA(r)

Refer(r) ==
    /\ Asks
    /\ IsReferral(r)
    /\ nextReferralServers(r) # {}
    /\ servers' = nextReferralServers(r)
    /\ steps' = steps + 1
    /\ UNCHANGED <<outcome, qname, qtype, cnameDepth, visitedCNAME, minimize, question>>

(* Nowhere to go: a response with content is taken for the last word.      *)
NoReferral(r) ==
    /\ Asks
    /\ IsReferral(r)
    /\ nextReferralServers(r) = {}
    /\ steps' = steps + 1
    /\ Return(IF r.aa \/ HasSections(r) THEN "terminal" ELSE "no referral")

-----------------------------------------------------------------------------
HandleReply(r) ==
    \/ MinimizedNameError(r)
    \/ NameError(r)
    \/ CNAMEDepthExceeded(r)
    \/ CNAMELoop(r)
    \/ FollowCNAME(r)
    \/ Conclude(r)
    \/ Refer(r)
    \/ NoReferral(r)

Next ==
    \/ DepthExceeded
    \/ LoopDetected
    \/ QueryFails
    \/ \E r \in World(QueryName, QueryType, servers) \ {Failed} : HandleReply(r)

Spec == Init /\ [][Next]_vars

-----------------------------------------------------------------------------
(* Properties, for any behaviour of the servers.                           *)

(* A resolution sends at most MaxRecursionDepth queries for the name and   *)
(* for each CNAME followed, whatever the servers answer, though the step   *)
(* counter starts again at every CNAME.                                    *)
QueriesAreBounded ==
    /\ queries <= cnameDepth * MaxRecursionDepth + steps
    /\ queries <= (MaxCNAMEDepth + 1) * MaxRecursionDepth

(* No question is put twice to the same servers.                           *)
NeverAsksTwice == queries = Cardinality(visitedStates)
=============================================================================
