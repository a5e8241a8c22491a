-------------------------------- MODULE ACL ---------------------------------
(***************************************************************************)
(* The ACL engine: extras/outbounds/acl.go and extras/outbounds/acl.       *)
(* Compile turns the text rules into compiled rules; handle picks the      *)
(* outbound of a request by the first rule that matches, through a cache   *)
(* that every request goes through and that several of them use at once.   *)
(***************************************************************************)
EXTENDS Integers, Sequences, SequencesExt, FiniteSets

(***************************************************************************)
(* The matching algorithms of the ACL engine, over bounded inputs:         *)
(* deepMatchRune and the suffix match of acl/matchers.go, and the binary   *)
(* search of acl/matchers_v2geo.go.  A name is a sequence of letters; the  *)
(* addresses are 0 .. 2^AddrBits - 1.                                      *)
(***************************************************************************)

CONSTANTS
    MaxName,    \* the longest name and pattern
    AddrBits,   \* the width of an address
    MaxNets     \* the most networks in a list

ASSUME ACLMatchAssumption == MaxName \in Nat /\ AddrBits \in Nat /\ MaxNets \in Nat

Letters == {"a", "."}
Star == "*"

VARIABLES amName, amPattern, amNets, amIP, amInverse

amVars == <<amName, amPattern, amNets, amIP, amInverse>>

-----------------------------------------------------------------------------
(***************************************************************************)
(* Names                                                                   *)
(***************************************************************************)

\* The * case of deepMatchRune, of the match without the star.
StarMatch(empty, str) == empty

\* deepMatchRune.
RECURSIVE DeepMatchRune(_, _)
DeepMatchRune(str, pattern) ==
    IF pattern = <<>> THEN str = <<>>
    ELSE IF Head(pattern) = Star
    THEN \/ StarMatch(DeepMatchRune(str, Tail(pattern)), str)
         \/ str # <<>> /\ DeepMatchRune(Tail(str), pattern)
    ELSE str # <<>> /\ Head(str) = Head(pattern) /\ DeepMatchRune(Tail(str), Tail(pattern))

\* The suffix mode of domainMatcher.Match.
SuffixMatch(str, pattern) == str = pattern \/ IsSuffix(<<".">> \o pattern, str)

-----------------------------------------------------------------------------
(***************************************************************************)
(* Addresses                                                               *)
(***************************************************************************)

\* A network is its base address and the number of bits that are free.
Nets == { <<base * 2^free, free>> : <<base, free>> \in
            { p \in (0 .. 2^AddrBits - 1) \X (0 .. AddrBits - 1) : p[1] * 2^p[2] < 2^AddrBits } }
NetContains(net, ip) == net[1] <= ip /\ ip < net[1] + 2^net[2]
Disjoint(m, n) == ~NetContains(m, n[1]) /\ ~NetContains(n, m[1])

\* bytes.Compare(n[mid].IP, ip) < 0.
GoRight(net, ip) == net[1] < ip

\* The binary search of matchIP between two indices.
RECURSIVE SearchNets(_, _, _, _)
SearchNets(n, ip, left, right) ==
    LET mid == (left + right) \div 2
    IN  /\ left <= right
        /\ \/ NetContains(n[mid], ip)
           \/ GoRight(n[mid], ip) /\ SearchNets(n, ip, mid + 1, right)
           \/ ~GoRight(n[mid], ip) /\ SearchNets(n, ip, left, mid - 1)

\* newGeoIPMatcher sorts the networks by their address.
SortedNets(set) == SetToSortSeq(set, LAMBDA m, n : m[1] < n[1])

\* geoipMatcher.Match, for a host with one address or, amIP = -1, none.
GeoIPMatch(set, ip, inverse) ==
    IF ip >= 0 /\ SearchNets(SortedNets(set), ip, 1, Cardinality(set)) THEN ~inverse ELSE inverse

ACLMatchInit ==
    \/ /\ amName \in SeqOf(Letters, MaxName) /\ amPattern \in SeqOf(Letters \cup {Star}, MaxName)
       /\ amNets = {} /\ amIP = -1 /\ amInverse = FALSE
    \/ /\ amName = <<>> /\ amPattern = <<>>
       /\ amNets \in { s \in UNION { kSubset(k, Nets) : k \in 0 .. MaxNets } :
                         \A m, n \in s : m # n => Disjoint(m, n) }
       /\ amIP \in -1 .. 2^AddrBits - 1 /\ amInverse \in BOOLEAN

ACLMatchNext == UNCHANGED amVars

-----------------------------------------------------------------------------
(***************************************************************************)
(* Properties                                                              *)
(***************************************************************************)

\* The name with some text put for each star of the pattern.
FilledPattern(pattern, fill) ==
    FlattenSeq([ i \in DOMAIN pattern |-> IF pattern[i] = Star THEN fill[i] ELSE <<pattern[i]>> ])

\* A name matches a pattern exactly when some text, the empty one included, can
\* be put for each star to give the name (acl/matchers.go:58-73).
WildcardMatches ==
    LET stars == { i \in DOMAIN amPattern : amPattern[i] = Star }
    IN  DeepMatchRune(amName, amPattern) <=>
          \E fill \in [stars -> SeqOf(Letters, Len(amName))] : FilledPattern(amPattern, fill) = amName

\* A suffix matches whole labels only: what comes before it is empty or ends
\* with a dot (acl/matchers.go:51-52).
SuffixMatchesLabels ==
    SuffixMatch(amName, amPattern) <=>
      /\ Len(amPattern) <= Len(amName)
      /\ LET k == Len(amName) - Len(amPattern)
         IN  SubSeq(amName, k + 1, Len(amName)) = amPattern /\ (k = 0 \/ amName[k] = ".")

\* For networks that do not overlap the binary search finds an address exactly
\* when one of them holds it, and a list that is inverted holds every other
\* address (acl/matchers_v2geo.go:24-60).
GeoIPExact ==
    GeoIPMatch(amNets, amIP, amInverse) <=> ((\E n \in amNets : amIP >= 0 /\ NetContains(n, amIP)) # amInverse)

-----------------------------------------------------------------------------
CONSTANTS
    Callers,        \* goroutines with a request
    RuleLists,      \* the files: sequences of [ob, addr, proto, port, hijack]
    Requests,       \* [host, ip, proto, port], a request at TCP or UDP
    OutboundLists,  \* the configured outbounds: sequences of names
    CacheSize       \* the size of the LRU cache

ASSUME ACLAssumption == CacheSize \in Nat \ {0}

VARIABLES
    textRules,  \* the rules as written
    aclRules,   \* the compiled rules; ok is false when the file was refused
    entries,    \* the configured outbounds
    aclCache,   \* the LRU cache: a sequence of <<key, result>>, newest first
    aclPC,      \* per caller: "idle", "search", "done"
    aclReq,     \* per caller: the request in hand
    aclAns      \* per caller: the decision

aclVars == <<textRules, aclRules, entries, aclCache, aclPC, aclReq, aclAns>>

\* Normalisation of a host name: lower case, no trailing dots.
Normal(host) == IF host \in {"HOST", "host."} THEN "host" ELSE host

-----------------------------------------------------------------------------
(***************************************************************************)
(* Compilation                                                             *)
(***************************************************************************)

\* outboundsToMap: the outbound a name stands for.
BuiltIn(obs) == {"direct", "reject"} \cup Range(obs)
OutboundNamed(obs, n) ==
    IF n # "default" \/ n \in Range(obs) THEN n
    ELSE IF obs = <<>> THEN "direct" ELSE obs[1]

AnyPort == -1   \* the * of proto/*

\* parseProtoPort, of a rule's proto ("tcp", "udp", "*", "" or another) and port:
\* <<>> is none, <<AnyPort>> the wildcard, <<p>> one port, <<p, q>> a range.
ParseProtoPort(proto, port) ==
    LET both == IF proto \in {"*", ""} THEN "both" ELSE proto
        ok == IF port = <<>> THEN proto \in {"", "*", "tcp", "udp"}
              ELSE /\ proto \in {"*", "tcp", "udp"}
                   /\ Len(port) = 2 => port[1] <= port[2]
        range == IF port \in {<<>>, <<AnyPort>>} THEN <<0, 0>> ELSE <<port[1], port[Len(port)]>>
    IN  [ok |-> ok, proto |-> both, start |-> range[1], end |-> range[2]]

\* Compile: the first rule with an unknown outbound, or a bad protocol or port,
\* is an error.
Compile(rules, obs) ==
    LET pp(r) == ParseProtoPort(r.proto, r.port)
    IN  IF \E i \in DOMAIN rules :
             \/ rules[i].ob \notin BuiltIn(obs) \cup {"default"}
             \/ ~pp(rules[i]).ok
        THEN [ok |-> FALSE, rules |-> <<>>]
        ELSE [ok |-> TRUE, rules |-> [ i \in DOMAIN rules |->
                 [ob |-> OutboundNamed(obs, rules[i].ob), addr |-> Normal(rules[i].addr),
                  proto |-> pp(rules[i]).proto, start |-> pp(rules[i]).start,
                  end |-> pp(rules[i]).end, hijack |-> rules[i].hijack] ] ]

ACLInit ==
    /\ textRules \in RuleLists /\ entries \in OutboundLists
    /\ aclRules = Compile(textRules, entries)
    /\ aclCache = <<>> /\ aclPC = [c \in Callers |-> "idle"]
    /\ aclReq = [c \in Callers |-> <<>>] /\ aclAns = [c \in Callers |-> <<>>]

-----------------------------------------------------------------------------
(***************************************************************************)
(* Matching                                                                *)
(***************************************************************************)

\* The host matchers: all, a name, an address of the request.
HostMatches(addr, r) == addr = "*" \/ addr = Normal(r.host) \/ addr = r.ip

\* A rule's port range; a start of 0 is every port.
PortMatches(start, end, port) == start = 0 \/ ~(port < start \/ port > end)

\* compiledRule.Match.
RuleMatches(rule, r) ==
    /\ rule.proto = "both" \/ rule.proto = r.proto
    /\ PortMatches(rule.start, rule.end, r.port)
    /\ HostMatches(rule.addr, r)

\* Mutant of CacheKey: the port is not part of the key.
CacheKeyHost(r) == <<Normal(r.host), r.ip, r.proto>>

CacheKey(r) == <<Normal(r.host), r.ip, r.proto, r.port>>

NoMatch == [ob |-> "nil", hijack |-> "none"]

\* The loop over the rules.
FirstMatch(r) ==
    LET i == SelectInSeq(aclRules.rules, LAMBDA rule : RuleMatches(rule, r))
    IN  IF i = 0 THEN NoMatch ELSE [ob |-> aclRules.rules[i].ob, hijack |-> aclRules.rules[i].hijack]

\* handle: the default outbound without a match, and a hijack rewrites both the
\* host and the resolved address.
Decision(r, m) ==
    [ob |-> IF m.ob = "nil" THEN OutboundNamed(entries, "default") ELSE m.ob,
     host |-> IF m.hijack = "none" THEN r.host ELSE m.hijack,
     ip |-> IF m.hijack = "none" THEN r.ip ELSE m.hijack]

\* lru.Cache: the newest entry first.
Cached(k) == SelectInSeq(aclCache, LAMBDA e : e[1] = k)
Promoted(k, m) ==
    LET rest == SelectSeq(aclCache, LAMBDA e : e[1] # k)
    IN  <<<<k, m>>>> \o IF Len(rest) < CacheSize THEN rest ELSE Front(rest)

\* A request reaches Match: the answer is in the cache,
ACLHit(c, r) ==
    /\ aclRules.ok /\ aclPC[c] = "idle"
    /\ LET i == Cached(CacheKey(r)) IN
         /\ i # 0
         /\ aclCache' = Promoted(CacheKey(r), aclCache[i][2])
         /\ aclAns' = [aclAns EXCEPT ![c] = Decision(r, aclCache[i][2])]
    /\ aclReq' = [aclReq EXCEPT ![c] = r] /\ aclPC' = [aclPC EXCEPT ![c] = "done"]
    /\ UNCHANGED <<textRules, aclRules, entries>>

\* or it is not and the rules are searched,
ACLMiss(c, r) ==
    /\ aclRules.ok /\ aclPC[c] = "idle" /\ Cached(CacheKey(r)) = 0
    /\ aclReq' = [aclReq EXCEPT ![c] = r] /\ aclPC' = [aclPC EXCEPT ![c] = "search"]
    /\ UNCHANGED <<textRules, aclRules, entries, aclCache, aclAns>>

\* the result of which goes to the cache.
ACLSearch(c) ==
    /\ aclPC[c] = "search" /\ aclPC' = [aclPC EXCEPT ![c] = "done"]
    /\ LET r == aclReq[c] IN
         /\ aclCache' = Promoted(CacheKey(r), FirstMatch(r))
         /\ aclAns' = [aclAns EXCEPT ![c] = Decision(r, FirstMatch(r))]
    /\ UNCHANGED <<textRules, aclRules, entries, aclReq>>

\* The caller goes on to the outbound, and comes back with another request.
ACLNextRequest(c) ==
    /\ aclPC[c] = "done" /\ aclPC' = [aclPC EXCEPT ![c] = "idle"]
    /\ aclAns' = [aclAns EXCEPT ![c] = <<>>] /\ aclReq' = [aclReq EXCEPT ![c] = <<>>]
    /\ UNCHANGED <<textRules, aclRules, entries, aclCache>>

ACLNext ==
    \E c \in Callers :
      \/ \E r \in Requests : ACLHit(c, r) \/ ACLMiss(c, r)
      \/ ACLSearch(c) \/ ACLNextRequest(c)

-----------------------------------------------------------------------------
(***************************************************************************)
(* Properties                                                              *)
(***************************************************************************)

\* What a rule means as its author wrote it: a port alone, a range with both its
\* ends, nothing or a star for every port.
Written(t, r) ==
    /\ t.addr = "*" \/ Normal(t.addr) = Normal(r.host) \/ t.addr = r.ip
    /\ t.proto \in {"", "*"} \/ t.proto = r.proto
    /\ t.port \in {<<>>, <<AnyPort>>} \/ r.port \in t.port[1] .. t.port[Len(t.port)] \/ t.port[1] = 0

\* Every decision, cached or not, is the one the first rule of the file that
\* covers the request gives; without one it is the default outbound
\* (acl/compile.go:62-70, 88-109).  A range that begins with port 0 covers every
\* port, which is not what it says.
FirstRuleDecides ==
    \A c \in Callers : aclPC[c] = "done" =>
      LET i == SelectInSeq(textRules, LAMBDA t : Written(t, aclReq[c]))
      IN  aclAns[c].ob = OutboundNamed(entries, IF i = 0 THEN "default" ELSE textRules[i].ob)

\* A decision that comes from the cache is the one a search would give, for the
\* same request and not one that looks like it (acl/compile.go:89-97).
CacheTransparent ==
    \A c \in Callers : aclPC[c] = "done" => aclAns[c] = Decision(aclReq[c], FirstMatch(aclReq[c]))

\* An outbound that connects by name and one that connects by address go to the
\* same place: a hijacked request names only the hijack address (acl.go:90-98).
HijackComplete ==
    \A c \in Callers : aclPC[c] = "done" =>
      (aclAns[c].host # aclReq[c].host => aclAns[c].ip = aclAns[c].host)

\* What becomes of a request is what the first matching rule says, whatever the
\* cache remembers, and the matchers match what their patterns stand for.
RulesDecide ==
    /\ FirstRuleDecides /\ CacheTransparent /\ HijackComplete
    /\ WildcardMatches /\ SuffixMatchesLabels /\ GeoIPExact
=============================================================================
