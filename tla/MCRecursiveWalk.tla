--------------------------- MODULE MCRecursiveWalk ---------------------------
(* Instances of RecursiveWalk for TLC: servers that say anything, and      *)
(* servers that publish a small, consistent tree of zones.                 *)
EXTENDS RecursiveWalk

root == << >>
com == <<"com">>
site == <<"com", "site">>
www == <<"com", "site", "www">>
cdn == <<"com", "site", "cdn">>
deep == <<"com", "site", "dept", "host">>
gone == <<"com", "site", "gone">>
org == <<"org">>
far == <<"org", "far">>
api == <<"org", "api">>

NoEnds == {}
NoLookup(host) == {}

Reply(rcode, aa, cnames, answers, zone, hosts, glue, soa) ==
    [rcode |-> rcode, aa |-> aa, cnames |-> cnames, answers |-> answers,
     ns |-> [zone |-> zone, hosts |-> hosts], glue |-> glue, soa |-> soa]

Alias(owner, target) ==
    Reply("noerror", TRUE, {[owner |-> owner, target |-> target]}, {}, root, {}, {}, "none")
Answer(owner, type) ==
    Reply("noerror", TRUE, {}, {[owner |-> owner, type |-> type]}, root, {}, {}, "none")
Referral(zone, ips) ==
    Reply("noerror", FALSE, {}, {}, zone, {zone}, {[host |-> zone, ip |-> ip] : ip \in ips}, "none")
NoData == Reply("noerror", TRUE, {}, {}, root, {}, {}, "positive")
NoName == Reply("nxdomain", TRUE, {}, {}, root, {}, {}, "positive")

-----------------------------------------------------------------------------
(* Servers that say anything.                                              *)

SmallNames == {root, com, site, org}
SmallQuestions == {site, com} \X {"A", "CNAME"}
BothModes == {TRUE, FALSE}
WildWorld(name, type, asked) ==
    {Failed, NoData, NoName}
    \cup {Alias(o, t) : o \in SmallNames, t \in SmallNames}
    \cup {Answer(name, type)}
    \cup {Referral(com, ips) : ips \in SUBSET Addresses \ {{}}}
    \cup {Reply("other", FALSE, {}, {}, root, {}, {}, "none"),
          Reply("noerror", FALSE, {}, {}, root, {}, {}, "none"),
          Reply("noerror", FALSE, {}, {}, root, {}, {}, "zero"),
          Reply("noerror", FALSE, {}, {}, com, {org}, {}, "none")}

-----------------------------------------------------------------------------
(* Servers that publish the tree . / com / com.site and . / org, each zone *)
(* on two servers, of which a referral names one or both.                  *)

TreeNames == {root, com, site, www, cdn, deep, SubSeq(deep, 1, 3), gone, org, far, api}
Zones == {root, com, site, org}
ServersOf == [z \in Zones |-> CASE z = root -> {"root1", "root2"} [] z = com -> {"com1", "com2"}
                                [] z = site -> {"site1", "site2"} [] z = org -> {"org1", "org2"}]
TreeAddresses == UNION {ServersOf[z] : z \in Zones}
TreeRoot == ServersOf[root]
TreeLookup(host) == IF host = site THEN ServersOf[site] ELSE {}

HostNames == {www, deep, far, api}           \* names with an address record
Aliases == {[owner |-> cdn, target |-> www], [owner |-> org, target |-> cdn]}

Under(name, zone) == Len(name) >= Len(zone) /\ SubSeq(name, 1, Len(zone)) = zone
Exists(name) ==
    \E n \in HostNames \cup Zones \cup {a.owner : a \in Aliases} : Under(n, name)
Cuts(zone, name) == {z \in Zones : Len(z) = Len(zone) + 1 /\ Under(z, zone) /\ Under(name, z)}

(* What an authoritative server of a zone may say.  The glue of com.site   *)
(* is left out, so that its servers have to be looked up.                  *)
ZoneSays(zone, name, type) ==
    IF ~Under(name, zone) THEN {Reply("other", FALSE, {}, {}, root, {}, {}, "none")}
    ELSE IF Cuts(zone, name) # {} THEN
        LET cut == CHOOSE z \in Cuts(zone, name) : TRUE
        IN  IF cut = site THEN {Reply("noerror", FALSE, {}, {}, cut, {cut}, {}, "none")}
            ELSE {Referral(cut, ips) : ips \in SUBSET ServersOf[cut] \ {{}}}
    ELSE IF type # "CNAME" /\ \E a \in Aliases : a.owner = name THEN
        {Alias(name, (CHOOSE a \in Aliases : a.owner = name).target)}
    ELSE IF name \in HostNames /\ type = "A" THEN {Answer(name, "A")}
    ELSE IF name = zone /\ type = "NS" THEN
        {Reply("noerror", TRUE, {}, {[owner |-> name, type |-> "NS"]}, zone, {zone},
               {[host |-> zone, ip |-> ip] : ip \in ServersOf[zone]}, "none")}
    ELSE IF Exists(name) THEN {NoData}
    ELSE {NoName}

TreeWorld(name, type, asked) ==
    {Failed} \cup UNION {ZoneSays(z, name, type) : z \in {x \in Zones : ServersOf[x] \cap asked # {}}}

(* The same servers, except that they deny names with nothing but names    *)
(* below them: those that "do not support minimized names".                *)
DenyingWorld(name, type, asked) ==
    IF name = SubSeq(deep, 1, 3) /\ asked \subseteq ServersOf[site] THEN {NoName}
    ELSE TreeWorld(name, type, asked)

(* Where the aliases lead, and what is there.                              *)
Step(name) ==
    IF \E a \in Aliases : a.owner = name THEN (CHOOSE a \in Aliases : a.owner = name).target ELSE name
Target(name) == Step(Step(name))
Truth(name) ==
    IF Target(name) \in HostNames THEN "answer"
    ELSE IF Exists(Target(name)) THEN "nodata"
    ELSE "nxdomain"

TreeQuestions == (TreeNames \ {SubSeq(deep, 1, 3)}) \X {"A"}
OnlyMinimized == {TRUE}
AliasQuestion == {<<cdn, "A">>}

(* With servers that agree, the walk finds what the zones say: over        *)
(* referrals with and without glue, over a chain of CNAMEs that crosses    *)
(* zones, and with minimised names also where servers deny intermediate    *)
(* names, unless no server answers.  Aliases asked for with minimised      *)
(* names are the exception that CNAMEIsFollowed is about; that every       *)
(* server denies such names with NXDOMAIN, none with NODATA, is what       *)
(* DenyingWorld assumes and the code needs.                                *)
FindsTheTruth ==
    outcome \notin {"running", "query failed"} =>
        \/ minimize /\ Step(question) # question
        \/ outcome = Truth(question)

-----------------------------------------------------------------------------
(* A documented claim the code does not keep, with names minimised as in    *)
(* the default configuration.                                              *)

(* "Follow CNAME chains (max 10 hops, detect loops)": a single CNAME to a  *)
(* name with an address is followed to it.                                 *)
CNAMEIsFollowed == outcome \notin {"running", "query failed"} => outcome = "answer"
=============================================================================
