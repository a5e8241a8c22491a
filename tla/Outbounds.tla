------------------------------ MODULE Outbounds ------------------------------
(***************************************************************************)
(* The parts of extras/outbounds around the direct outbound.  The          *)
(* resolvers fill in the addresses of a request before the next outbound   *)
(* sees it: the standard resolver (dns_standard.go), which follows CNAMEs  *)
(* and retries, DNS over HTTPS (dns_https.go with tinydoh) and the         *)
(* system's (dns_system.go); the two address families are looked up by two *)
(* goroutines.  The outbounds that go through another proxy are            *)
(* ob_socks5.go (CONNECT and UDP ASSOCIATE) and ob_http.go (CONNECT, plain *)
(* or over TLS); the other proxy may refuse, fail or fall silent at any    *)
(* stage, and what it sends after its answer belongs to the caller.        *)
(***************************************************************************)
EXTENDS Integers, Sequences

(***************************************************************************)
(* The resolvers                                                           *)
(***************************************************************************)

CONSTANTS
    DomainNames,        \* the names CNAME records may point to
    QueryName,          \* the name that is resolved, one of them
    maxCNAMEDepth,      \* 16
    RetryTimes          \* standardResolverRetryTimes

ASSUME ResolverAssumption ==
    QueryName \in DomainNames /\ maxCNAMEDepth \in Nat /\ RetryTimes \in Nat \ {0}

RecordTypes == {"v4", "v6"}

VARIABLES
    rsKind,     \* "standard", "doh", "system"
    literal,    \* the family of an address that is not a name, or "none"
    name,       \* per family: the name the lookup is at
    depth,      \* per family: the depth of the CNAME recursion
    seen,       \* per family: the names asked in this try
    try,        \* per family: the number of tries begun
    found,      \* per family: "none", "failed", "empty", "addr"
    info        \* the ResolveInfo: the families with an address, and Err

rsVars == <<rsKind, literal, name, depth, seen, try, found, info>>

NoInfo == [addrs |-> {}, err |-> FALSE, done |-> FALSE]

ResolverInit ==
    /\ rsKind \in {"standard", "doh", "system"} /\ literal \in RecordTypes \cup {"none"}
    /\ name = [f \in RecordTypes |-> QueryName] /\ depth = [f \in RecordTypes |-> 0]
    /\ seen = [f \in RecordTypes |-> {}] /\ try = [f \in RecordTypes |-> 1]
    /\ found = [f \in RecordTypes |-> "none"] /\ info = NoInfo

\* tryParseIP: an address needs no lookup.
ParsedIP ==
    /\ literal # "none" /\ rsKind # "system" /\ ~info.done
    /\ info' = [addrs |-> {literal}, err |-> FALSE, done |-> TRUE]
    /\ UNCHANGED <<rsKind, literal, name, depth, seen, try, found>>

Looking(f, kind) == rsKind = kind /\ literal = "none" /\ found[f] = "none"

\* skipCNAMEChain: the last target of the chain that the CNAME records of one
\* answer form in the order they come; a record is <<owner, target>>.
SkipCNAMEChain(records) ==
    LET linked == { k \in 1 .. Len(records) :
                      \A i \in 2 .. k : records[i][1] = records[i - 1][2] }
    IN  IF records = << >> THEN ""
        ELSE records[CHOOSE k \in linked : \A j \in linked : j <= k][2]

\* A try of the loop in resolve has failed: the next one, or the result.
TryFailed(f) ==
    IF try[f] < RetryTimes
    THEN /\ try' = [try EXCEPT ![f] = @ + 1]
         /\ name' = [name EXCEPT ![f] = QueryName] /\ depth' = [depth EXCEPT ![f] = 0]
         /\ seen' = [seen EXCEPT ![f] = {}] /\ UNCHANGED found
    ELSE found' = [found EXCEPT ![f] = "failed"] /\ UNCHANGED <<name, depth, seen, try>>

\* The two checks at the head of lookup4WithCNAMEDepth and lookup6WithCNAMEDepth.
TooFar(f) == depth[f] > maxCNAMEDepth \/ name[f] \in seen[f]

\* One round of lookup4 or lookup6: an error, an answer without or with an
\* address, or one with CNAMEs only.
LookupRound(f) ==
    /\ Looking(f, "standard")
    /\ IF TooFar(f) THEN TryFailed(f)
       ELSE \/ TryFailed(f)                                  \* Exchange fails
            \/ /\ \E r \in {"empty", "addr"} : found' = [found EXCEPT ![f] = r]
               /\ seen' = [seen EXCEPT ![f] = @ \cup {name[f]}]
               /\ UNCHANGED <<name, depth, try>>
            \/ /\ \E t \in DomainNames, rest \in {<<>>} \cup { <<c>> : c \in DomainNames \X DomainNames } :
                    name' = [name EXCEPT ![f] = SkipCNAMEChain(<< <<name[f], t>> >> \o rest)]
               /\ seen' = [seen EXCEPT ![f] = @ \cup {name[f]}]
               /\ depth' = [depth EXCEPT ![f] = @ + 1]
               /\ UNCHANGED <<try, found>>
    /\ UNCHANGED <<rsKind, literal, info>>

\* LookupA and LookupAAAA of tinydoh: one exchange, without following CNAMEs.
LookupDoH(f) ==
    /\ Looking(f, "doh")
    /\ \E r \in {"failed", "empty", "addr"} : found' = [found EXCEPT ![f] = r]
    /\ UNCHANGED <<rsKind, literal, name, depth, seen, try, info>>

Addresses == { f \in RecordTypes : found[f] = "addr" }

\* resolve has both results.
ResolveJoin ==
    /\ rsKind # "system" /\ literal = "none" /\ ~info.done
    /\ \A f \in RecordTypes : found[f] # "none"
    /\ info' = [addrs |-> Addresses, err |-> \E f \in RecordTypes : found[f] = "failed", done |-> TRUE]
    /\ UNCHANGED <<rsKind, literal, name, depth, seen, try, found>>

\* splitIPv4IPv6: the families that the list has a first address of.
SplitIPv4IPv6(ips) == { f \in RecordTypes : \E i \in DOMAIN ips : ips[i] = f }

\* systemResolver.resolve: net.LookupIP gives a list or an error.
ResolveSystem ==
    /\ rsKind = "system" /\ ~info.done
    /\ \/ info' = [addrs |-> {}, err |-> TRUE, done |-> TRUE]
       \/ \E n \in 0 .. 3 : \E ips \in [1 .. n -> RecordTypes] :
            /\ literal # "none" => ips = <<literal>>
            /\ info' = [addrs |-> SplitIPv4IPv6(ips), err |-> FALSE, done |-> TRUE]
    /\ UNCHANGED <<rsKind, literal, name, depth, seen, try, found>>

ResolverNext ==
    \/ ParsedIP \/ ResolveJoin \/ ResolveSystem
    \/ \E f \in RecordTypes : LookupRound(f) \/ LookupDoH(f)

ResolverSpec == ResolverInit /\ [][ResolverNext]_rsVars /\ WF_rsVars(ResolverNext)

-----------------------------------------------------------------------------
(***************************************************************************)
(* Properties                                                              *)
(***************************************************************************)

\* A failure of one family does not hide the address of the other, and the
\* addresses a request carries are the ones that were found (dns_standard.go:230-239).
FamiliesIndependent ==
    info.done /\ literal = "none" /\ rsKind # "system" =>
      /\ \A f \in RecordTypes : f \in info.addrs <=> found[f] = "addr"
      /\ info.err <=> \E f \in RecordTypes : found[f] = "failed"

\* Whatever the server answers, a loop of CNAMEs included, resolve returns.
ResolveReturns == (rsKind # "system" /\ ~info.done) ~> info.done

-----------------------------------------------------------------------------
(***************************************************************************)
(* The outbounds through another proxy                                     *)
(***************************************************************************)

CONSTANT Payload    \* the chunks the target sends, in order

ASSUME ProxyOutboundAssumption == Payload \in Seq(Nat)

VARIABLES
    pxKind,     \* "socks", "associate", "http", "https"
    pxAuth,     \* the proxy asks for a user name and a password
    pxPC,       \* "dial", "hello", "userpass", "request", "udp", "returned", "failed", "closed"
    tcp, udp,   \* the sockets: "none", "open", "closed"
    deadline,   \* a deadline is set on the TCP connection
    silent,     \* the proxy has stopped answering
    lost,       \* newSOCKS5UDPConn failed after the association was made
    hold,       \* the goroutine hold: "none", "running", "ended"
    tcpEnded,   \* the proxy has closed the control connection
    onWire,     \* chunks in the TCP connection
    Buffer,     \* chunks the reader of the answer took with it
    pxGot       \* chunks the caller has read

pxVars == <<pxKind, pxAuth, pxPC, tcp, udp, deadline, silent, lost, hold, tcpEnded,
            onWire, Buffer, pxGot>>
pxData == <<onWire, Buffer, pxGot>>
pxEnv == <<pxKind, pxAuth, silent>>

ProxyInit ==
    /\ pxKind \in {"socks", "associate", "http", "https"} /\ pxAuth \in BOOLEAN
    /\ pxPC = "dial" /\ tcp = "none" /\ udp = "none" /\ deadline = FALSE
    /\ silent = FALSE /\ lost = FALSE /\ hold = "none" /\ tcpEnded = FALSE
    /\ onWire = Payload /\ Buffer = <<>> /\ pxGot = <<>>

IsHTTP == pxKind \in {"http", "https"}

\* Mutant of FailureCloses: an error path that only returns the error.
FailureLeaves == tcp

\* What every error path does with the connection to the proxy.
FailureCloses == IF tcp = "open" THEN "closed" ELSE tcp

\* The stage fails: a refusal, an error, or the deadline.
PxFails ==
    /\ pxPC' = "failed" /\ tcp' = FailureCloses
    /\ UNCHANGED <<pxEnv, udp, deadline, lost, hold, tcpEnded, pxData>>

\* Dialer.Dial, which has a timeout of its own; SOCKS5 sets a deadline for the
\* negotiation, HTTP none before the request is written.
PxDial ==
    /\ pxPC = "dial" /\ ~silent
    /\ tcp' = "open" /\ deadline' = ~IsHTTP
    /\ pxPC' = IF IsHTTP THEN "write" ELSE "hello"
    /\ UNCHANGED <<pxEnv, udp, lost, hold, tcpEnded, pxData>>

\* The two rounds of negotiation, after which the deadline is reset.
PxNegotiate ==
    /\ \/ pxPC = "hello" /\ ~silent /\ pxPC' = IF pxAuth THEN "userpass" ELSE "request"
       \/ pxPC = "userpass" /\ ~silent /\ pxPC' = "request"
    /\ deadline' = (pxPC' = "userpass")
    /\ UNCHANGED <<pxEnv, tcp, udp, lost, hold, tcpEnded, pxData>>

\* request writes and sets the deadline for the reply; req.Write of HTTPS first
\* does the TLS handshake, which a silent proxy never ends.
PxWrite ==
    /\ pxPC \in {"request", "write"} /\ (pxKind = "https" => ~silent)
    /\ pxPC' = "reply" /\ deadline' = TRUE
    /\ UNCHANGED <<pxEnv, tcp, udp, lost, hold, tcpEnded, pxData>>

\* SetDeadline(time.Time{}).
Cleared == FALSE

\* The answer.  http.ReadResponse reads through a bufio.Reader, which may take
\* chunks that follow the answer; they go to the Buffer of a cachedConn.
PxReply ==
    /\ pxPC = "reply" /\ ~silent
    /\ pxPC' = IF pxKind = "associate" THEN "udp" ELSE "returned"
    /\ deadline' = Cleared
    /\ \E n \in 0 .. (IF IsHTTP THEN Len(onWire) ELSE 0) :
         Buffer' = SubSeq(onWire, 1, n) /\ onWire' = SubSeq(onWire, n + 1, Len(onWire))
    /\ UNCHANGED <<pxEnv, tcp, udp, lost, hold, tcpEnded, pxGot>>

\* newSOCKS5UDPConn: net.Dial, and hold watches the control connection.
PxUDP(ok) ==
    /\ pxPC = "udp"
    /\ IF ok THEN pxPC' = "returned" /\ udp' = "open" /\ hold' = "running" /\ UNCHANGED lost
       ELSE pxPC' = "failed" /\ lost' = TRUE /\ UNCHANGED <<udp, hold>>
    /\ UNCHANGED <<pxEnv, tcp, deadline, tcpEnded, pxData>>

\* A failure the proxy or the network causes, or the deadline passing.
PxError ==
    /\ pxPC \in {"dial", "hello", "userpass", "write", "request", "reply"}
    /\ ~silent \/ deadline \/ pxPC = "dial"
    /\ PxFails

PxSilent ==
    /\ ~silent /\ silent' = TRUE
    /\ UNCHANGED <<pxKind, pxAuth, pxPC, tcp, udp, deadline, lost, hold, tcpEnded, pxData>>

-----------------------------------------------------------------------------
(***************************************************************************)
(* The connection the caller has                                           *)
(***************************************************************************)

FromBuffer == Buffer # <<>>

\* cachedConn.Read.
PxRead ==
    /\ pxPC = "returned" /\ tcp = "open" /\ pxKind # "associate"
    /\ Buffer \o onWire # <<>>
    /\ IF FromBuffer
       THEN pxGot' = pxGot \o SubSeq(Buffer, 1, 1) /\ Buffer' = SubSeq(Buffer, 2, Len(Buffer)) /\ UNCHANGED onWire
       ELSE pxGot' = pxGot \o SubSeq(onWire, 1, 1) /\ onWire' = SubSeq(onWire, 2, Len(onWire)) /\ UNCHANGED Buffer
    /\ UNCHANGED <<pxEnv, pxPC, tcp, udp, deadline, lost, hold, tcpEnded>>

CloseBoth == tcp' = "closed" /\ udp' = IF udp = "open" THEN "closed" ELSE udp

\* The caller closes the connection: socks5UDPConn.Close closes both.
PxClose ==
    /\ pxPC = "returned" /\ pxPC' = "closed"
    /\ CloseBoth
    /\ UNCHANGED <<pxEnv, deadline, lost, hold, tcpEnded, pxData>>

\* The proxy ends the association by closing the control connection.
ControlEnds ==
    /\ hold = "running" /\ ~tcpEnded /\ tcpEnded' = TRUE
    /\ UNCHANGED <<pxEnv, pxPC, tcp, udp, deadline, lost, hold, pxData>>

HoldCloses == CloseBoth

\* hold: io.Copy returns and both sockets are closed.
Hold ==
    /\ hold = "running" /\ (tcpEnded \/ tcp = "closed")
    /\ hold' = "ended" /\ HoldCloses
    /\ UNCHANGED <<pxEnv, pxPC, deadline, lost, tcpEnded, pxData>>

ProxyNext ==
    \/ PxDial \/ PxNegotiate \/ PxWrite \/ PxReply \/ PxError \/ PxSilent
    \/ \E ok \in BOOLEAN : PxUDP(ok)
    \/ PxRead \/ PxClose \/ ControlEnds \/ Hold

ProxyStep ==
    PxDial \/ PxNegotiate \/ PxWrite \/ PxReply \/ PxError \/ (\E ok \in BOOLEAN : PxUDP(ok)) \/ Hold

ProxySpec == ProxyInit /\ [][ProxyNext]_pxVars /\ WF_pxVars(ProxyStep)

-----------------------------------------------------------------------------
(***************************************************************************)
(* Properties                                                              *)
(***************************************************************************)

\* A call that fails leaves no socket open, and one that succeeds returns a
\* connection that is open and without a deadline.  The exception is an
\* association whose UDP socket cannot be opened: newSOCKS5UDPConn then drops
\* the control connection without closing it (ob_socks5.go:198-201).
NoProxyLeak ==
    /\ pxPC = "failed" => (tcp # "open" /\ udp # "open") \/ lost
    /\ pxPC = "returned" => ~deadline /\ (hold = "none" => tcp = "open")

\* The caller reads every chunk the target sent, in order, the ones that arrived
\* together with the proxy's answer included (ob_http.go:148-163, 184-194).
PayloadKept ==
    pxGot \o Buffer \o onWire = Payload

\* Once connected, the call returns, whatever the proxy does; a proxy that never completes the
\* TLS handshake is not covered, as no deadline is set by then (ob_http.go:122-126).
ProxyCallReturns ==
    tcp = "open" ~> (pxPC \in {"returned", "failed", "closed"} \/ (pxPC = "write" /\ pxKind = "https"))

\* An association ends as a whole: once the caller or the proxy closes one
\* socket, the other does not stay open (ob_socks5.go:210-214, 240-244).
AssociationEnds ==
    (hold = "running" /\ (tcpEnded \/ pxPC = "closed")) ~> (tcp = "closed" /\ udp = "closed")

\* What a resolver or another proxy answers reaches the caller whole: each
\* family's addresses, every chunk of data, and no socket when it is an error.
AnswersKept == FamiliesIndependent /\ PayloadKept /\ NoProxyLeak
=============================================================================
