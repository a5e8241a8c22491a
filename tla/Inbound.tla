------------------------------ MODULE Inbound -------------------------------
(***************************************************************************)
(* A connection taken by one of the client's TCP inbounds: a forwarded     *)
(* port, tproxy, redirect, SOCKS5, HTTP or the TUN interface.  The inbound *)
(* reads what its protocol asks for, dials through the Hysteria client and *)
(* copies both ways until one direction ends.  What the application sends  *)
(* is a sequence of tokens: messages of the protocol, then data.           *)
(***************************************************************************)
EXTENDS Naturals, Sequences

CONSTANTS
    MaxData,        \* bound on the data tokens each side sends
    MaxRequests     \* bound on the plain requests of an HTTP connection

ASSUME InboundAssumption == MaxData \in Nat /\ MaxRequests \in Nat

VARIABLES
    ibKind,         \* "forward", "tproxy", "redirect", "socks", "http" or "tun"
    ibAuth,         \* AuthFunc is set
    ibIn,           \* what the application has sent and nobody has read
    ibAhead,        \* what the HTTP inbound's buffered reader has read ahead
    ibEOF,          \* the application has ended its side
    ibPC,           \* where the handler is
    ibReplies,      \* replies of the protocol sent to the application
    ibCred,         \* the credentials of the request being served were good
    ibDialed,       \* for each dial through the Hysteria client, its ibCred
    ibUp, ibDown,   \* the copying goroutines: "none", "copying" or "ended"
    ibUpstream,     \* data written to the remote connection
    ibRemoteLeft,   \* data tokens the remote side may still send
    ibDownstream,   \* data written to the application
    ibRemoteEOF,    \* the remote side has ended
    ibLocalOpen, ibRemoteOpen,
    ibServerOpen,   \* the TUN server is open: its context is not done
    ibSent          \* the tokens the application sent from the first data on

ibVars == <<ibKind, ibAuth, ibIn, ibAhead, ibEOF, ibPC, ibReplies, ibCred, ibDialed, ibUp, ibDown,
            ibUpstream, ibRemoteLeft, ibDownstream, ibRemoteEOF, ibLocalOpen, ibRemoteOpen, ibServerOpen, ibSent>>

relayVars == <<ibUp, ibDown, ibUpstream, ibDownstream>>
peerVars == <<ibKind, ibAuth, ibSent, ibRemoteLeft, ibRemoteEOF, ibServerOpen>>

Token(what, good) == [what |-> what, good |-> good]
DataTokens(n) == [i \in 1 .. n |-> Token("data", TRUE)]

PlainTokens(n) == [i \in 1 .. n |-> Token("plain", TRUE)]

\* What an application may send to each kind of inbound: requests of the
\* protocol, well formed and allowed or not, then data.
Opens(data) ==
    \/ /\ ibKind = "socks"
       /\ \E m, g \in BOOLEAN :
            \/ \E cmd \in {"connect", "other"} :
                 ibIn = <<Token("negotiation", m), Token("userpass", g), Token(cmd, TRUE)>> \o data
            \/ ibIn = <<Token("negotiation", m), Token("connect", g)>> \o data
    \/ /\ ibKind = "http"
       /\ \E n \in 0 .. MaxRequests - 1, what \in {"connect", "plain", "lastplain"}, g \in BOOLEAN :
            ibIn = (PlainTokens(n) \o <<Token(what, g)>>) \o data
    \/ ibKind \notin {"socks", "http"} /\ ibIn = data

InboundInit ==
    /\ ibKind \in {"forward", "tproxy", "redirect", "socks", "http", "tun"}
    /\ ibAuth \in IF ibKind \in {"socks", "http"} THEN BOOLEAN ELSE {FALSE}
    /\ \E n \in 0 .. MaxData : ibSent = n /\ Opens(DataTokens(n))
    /\ ibAhead = << >> /\ ibEOF = FALSE
    /\ ibPC = IF ibKind = "socks" THEN "negotiate" ELSE IF ibKind = "http" THEN "read"
              ELSE IF ibKind = "redirect" THEN "original" ELSE "dial"
    /\ ibReplies = << >> /\ ibCred = FALSE /\ ibDialed = {} /\ ibUp = "none" /\ ibDown = "none"
    /\ ibUpstream = 0 /\ ibRemoteLeft \in 0 .. MaxData /\ ibDownstream = 0 /\ ibRemoteEOF = FALSE
    /\ ibLocalOpen = TRUE /\ ibRemoteOpen = FALSE /\ ibServerOpen = TRUE

-----------------------------------------------------------------------------
(***************************************************************************)
(* The protocols                                                           *)
(***************************************************************************)

\* The connection is closed without being relayed.
CloseLocal == ibLocalOpen' = FALSE /\ ibPC' = "closed"

\* The handler goes on to pc.
Proceed(pc) == ibPC' = pc /\ UNCHANGED ibLocalOpen

\* A read that fails: the application ended before it sent the message.
ReadFails == ibIn = << >> /\ ibEOF

\* Server.negotiate of socks5: the method of this server must be among those
\* offered.  An application that offers it with AuthFunc goes on to "userpass".
SocksNegotiate ==
    /\ ibPC = "negotiate"
    /\ \/ ReadFails /\ CloseLocal /\ UNCHANGED <<ibIn, ibReplies>>
       \/ /\ ibIn # << >> /\ ibIn' = Tail(ibIn)
          /\ IF Head(ibIn).what # "negotiation" THEN CloseLocal /\ UNCHANGED ibReplies
             ELSE IF Head(ibIn).good
             THEN /\ ibReplies' = Append(ibReplies, "method")
                  /\ Proceed(IF ibAuth THEN "userpass" ELSE "request")
             ELSE ibReplies' = Append(ibReplies, "unsupported") /\ CloseLocal
    /\ UNCHANGED <<ibCred, peerVars, relayVars, ibAhead, ibEOF, ibDialed, ibRemoteOpen>>

\* AuthFunc accepts the credentials.
UserPassAccepted(token) == token.what = "userpass" /\ token.good

\* The username/password part of negotiate.
SocksUserPass ==
    /\ ibPC = "userpass"
    /\ \/ ReadFails /\ CloseLocal /\ UNCHANGED <<ibIn, ibReplies, ibCred>>
       \/ /\ ibIn # << >> /\ ibIn' = Tail(ibIn) /\ ibCred' = Head(ibIn).good
          /\ IF UserPassAccepted(Head(ibIn))
             THEN ibReplies' = Append(ibReplies, "accepted") /\ Proceed("request")
             ELSE /\ ibReplies' = IF Head(ibIn).what = "userpass" THEN Append(ibReplies, "failure") ELSE ibReplies
                  /\ CloseLocal
    /\ UNCHANGED <<peerVars, relayVars, ibAhead, ibEOF, ibDialed, ibRemoteOpen>>

\* Server.dispatch of socks5.  A userpass message that nobody asked for is not
\* a request.  UDP associations are below.
SocksRequest ==
    /\ ibPC = "request"
    /\ \/ ReadFails /\ CloseLocal /\ UNCHANGED <<ibIn, ibReplies>>
       \/ /\ ibIn # << >> /\ ibIn' = Tail(ibIn)
          /\ LET token == Head(ibIn) IN
             IF token.what = "connect" /\ token.good THEN Proceed("dial") /\ UNCHANGED ibReplies
             ELSE IF token.what = "other" THEN ibReplies' = Append(ibReplies, "not supported") /\ CloseLocal
             ELSE CloseLocal /\ UNCHANGED ibReplies
    /\ UNCHANGED <<ibCred, peerVars, relayVars, ibAhead, ibEOF, ibDialed, ibRemoteOpen>>

\* The Proxy-Authorization header is accepted.
HTTPAllowed(token) == ibAuth => token.good

\* What stays read ahead when a message is taken.
AlreadyAhead == IF ibAhead = << >> THEN 0 ELSE Len(ibAhead) - 1

\* Mutant of TakeAhead: what was read ahead is left in the buffered reader.
TakeAheadDropped(rest) == \E k \in AlreadyAhead .. Len(rest) :
    ibAhead' = << >> /\ ibIn' = SubSeq(rest, k + 1, Len(rest))

\* The buffered reader has read some of the rest ahead; cachedConn keeps it.
TakeAhead(rest) == \E k \in AlreadyAhead .. Len(rest) :
    ibAhead' = SubSeq(rest, 1, k) /\ ibIn' = SubSeq(rest, k + 1, Len(rest))

\* Server.handleRequest: a request that is not for a proxy is refused, and the
\* connection is kept only if the response was written and is to be kept.
HTTPRoundTrip(token) ==
    \/ ibReplies' = Append(ibReplies, "bad request") /\ CloseLocal /\ UNCHANGED ibDialed
    \/ /\ ibDialed' = ibDialed \union {token.good}
       /\ \/ /\ ibReplies' = Append(ibReplies, "response")
             /\ IF token.what = "plain" THEN Proceed("read") ELSE CloseLocal
          \/ ibReplies' = ibReplies /\ CloseLocal
          \/ ibReplies' = Append(ibReplies, "bad gateway") /\ CloseLocal

\* Server.dispatch of http: a request is read, authenticated, and handled.  A
\* plain request is one round trip with handleRequest and leaves the
\* connection open when it is to be kept alive and the response was written.
HTTPRequest ==
    /\ ibPC = "read"
    /\ LET stream == ibAhead \o ibIn IN
       \/ stream = << >> /\ ibEOF /\ CloseLocal /\ UNCHANGED <<ibIn, ibAhead, ibReplies, ibCred, ibDialed>>
       \/ /\ stream # << >> /\ TakeAhead(Tail(stream))
          /\ LET token == Head(stream) IN
             \/ token.what = "data" /\ CloseLocal /\ UNCHANGED <<ibReplies, ibDialed>>
             \/ /\ token.what # "data" /\ ~HTTPAllowed(token)
                /\ ibReplies' = Append(ibReplies, "auth required") /\ CloseLocal /\ UNCHANGED ibDialed
             \/ /\ token.what = "connect" /\ HTTPAllowed(token)
                /\ Proceed("dial") /\ UNCHANGED <<ibReplies, ibDialed>>
             \/ token.what \in {"plain", "lastplain"} /\ HTTPAllowed(token) /\ HTTPRoundTrip(token)
          /\ ibCred' = Head(stream).good
    /\ UNCHANGED <<peerVars, relayVars, ibEOF, ibRemoteOpen>>

\* TCPRedirect.handle: the original destination may not be known.
RedirectOriginal ==
    /\ ibPC = "original"
    /\ Proceed("dial") \/ CloseLocal
    /\ UNCHANGED <<ibCred, peerVars, relayVars, ibIn, ibAhead, ibEOF, ibReplies, ibDialed, ibRemoteOpen>>

-----------------------------------------------------------------------------
(***************************************************************************)
(* Dialling and relaying                                                   *)
(***************************************************************************)

\* HyClient.TCP, the reply of the protocol if it has one, and the two
\* goroutines that copy.
Dial(ok, failed) ==
    /\ ibPC = "dial" /\ ibDialed' = ibDialed \union {ibCred}
    /\ \/ /\ ibReplies' = ibReplies \o ok /\ ibRemoteOpen' = TRUE
          /\ ibUp' = "copying" /\ ibDown' = "copying" /\ Proceed("relay")
       \/ /\ ibReplies' = ibReplies \o failed /\ CloseLocal /\ UNCHANGED <<ibRemoteOpen, ibUp, ibDown>>
    /\ UNCHANGED <<ibCred, peerVars, ibIn, ibAhead, ibEOF, ibUpstream, ibDownstream>>

ForwardTCP == ibKind = "forward" /\ Dial(<< >>, << >>)
TProxyTCP == ibKind = "tproxy" /\ Dial(<< >>, << >>)
RedirectTCP == ibKind = "redirect" /\ Dial(<< >>, << >>)
TunTCP == ibKind = "tun" /\ Dial(<< >>, << >>)
SocksTCP == ibKind = "socks" /\ Dial(<<"success">>, <<"host unreachable">>)
HTTPConnect == ibKind = "http" /\ Dial(<<"ok">>, <<"bad gateway">>)

\* io.Copy from the application to the remote side.
CopyUp ==
    /\ ibUp = "copying"
    /\ LET stream == ibAhead \o ibIn IN
       \/ /\ stream # << >> /\ ibLocalOpen /\ ibRemoteOpen
          /\ ibUpstream' = ibUpstream + 1 /\ UNCHANGED ibUp
          /\ IF ibAhead # << >> THEN ibAhead' = Tail(ibAhead) /\ UNCHANGED ibIn
             ELSE ibIn' = Tail(ibIn) /\ UNCHANGED ibAhead
       \/ /\ ~ibLocalOpen \/ (stream = << >> /\ ibEOF) \/ (stream # << >> /\ ~ibRemoteOpen)
          /\ ibUp' = "ended" /\ UNCHANGED <<ibUpstream, ibIn, ibAhead>>
    /\ UNCHANGED <<ibCred, peerVars, ibEOF, ibPC, ibReplies, ibDialed, ibDown, ibDownstream, ibLocalOpen, ibRemoteOpen>>

\* io.Copy from the remote side to the application.
CopyDown ==
    /\ ibDown = "copying"
    /\ \/ /\ ibRemoteLeft > 0 /\ ibLocalOpen /\ ibRemoteOpen
          /\ ibRemoteLeft' = ibRemoteLeft - 1 /\ ibDownstream' = ibDownstream + 1 /\ UNCHANGED ibDown
       \/ /\ ~ibRemoteOpen \/ ibRemoteEOF \/ (ibRemoteLeft > 0 /\ ~ibLocalOpen)
          /\ ibDown' = "ended" /\ UNCHANGED <<ibRemoteLeft, ibDownstream>>
    /\ UNCHANGED <<ibCred, ibKind, ibAuth, ibSent, ibRemoteEOF, ibServerOpen, ibIn, ibAhead, ibEOF, ibPC, ibReplies,
                   ibDialed, ibUp, ibUpstream, ibLocalOpen, ibRemoteOpen>>

\* The deferred calls: the remote connection and then the local one are closed.
CloseConns == ibRemoteOpen' = FALSE /\ ibLocalOpen' = FALSE

\* The handler takes the first error of copyErrChan, or in the TUN handler the
\* end of the context, and returns.
RelayReturns ==
    /\ ibPC = "relay" /\ (ibUp = "ended" \/ ibDown = "ended" \/ (ibKind = "tun" /\ ~ibServerOpen))
    /\ CloseConns /\ ibPC' = "closed"
    /\ UNCHANGED <<ibCred, peerVars, relayVars, ibIn, ibAhead, ibEOF, ibReplies, ibDialed>>

-----------------------------------------------------------------------------
\* The application or the remote side ends, or the TUN server is closed.
ApplicationEnds ==
    /\ ~ibEOF /\ ibEOF' = TRUE
    /\ UNCHANGED <<ibCred, peerVars, relayVars, ibIn, ibAhead, ibPC, ibReplies, ibDialed, ibLocalOpen, ibRemoteOpen>>

RemoteEnds ==
    /\ ~ibRemoteEOF /\ ibRemoteOpen /\ ibRemoteEOF' = TRUE
    /\ UNCHANGED <<ibCred, ibKind, ibAuth, ibSent, ibRemoteLeft, ibServerOpen, relayVars, ibIn, ibAhead, ibEOF, ibPC,
                   ibReplies, ibDialed, ibLocalOpen, ibRemoteOpen>>

TunCloses ==
    /\ ibKind = "tun" /\ ibServerOpen /\ ibServerOpen' = FALSE
    /\ UNCHANGED <<ibCred, ibKind, ibAuth, ibSent, ibRemoteLeft, ibRemoteEOF, relayVars, ibIn, ibAhead, ibEOF, ibPC,
                   ibReplies, ibDialed, ibLocalOpen, ibRemoteOpen>>

InboundStep ==
    \/ SocksNegotiate \/ SocksUserPass \/ SocksRequest \/ HTTPRequest \/ RedirectOriginal
    \/ ForwardTCP \/ TProxyTCP \/ RedirectTCP \/ TunTCP \/ SocksTCP \/ HTTPConnect
    \/ CopyUp \/ CopyDown \/ RelayReturns

InboundNext == InboundStep \/ ApplicationEnds \/ RemoteEnds \/ TunCloses

InboundSpec ==
    /\ InboundInit /\ [][InboundNext]_ibVars
    /\ WF_ibVars(InboundStep) /\ WF_ibVars(CopyUp) /\ WF_ibVars(CopyDown)

-----------------------------------------------------------------------------
(***************************************************************************)
(* Properties                                                              *)
(***************************************************************************)

\* Nothing is dialled for an application that has not authenticated, on any
\* path, a second request on a kept connection included (socks5/server.go:
\* 68-119, http/server.go:58-77).
DialedIfAllowed == ibAuth => FALSE \notin ibDialed

\* While the relay is up, what has reached the remote side and what is still to
\* be read are together what the application sent after its request: nothing
\* that was read ahead is lost (http/server.go:78-98, 118-135).
NothingLostAhead ==
    ibPC = "relay" => ibUpstream + Len(ibAhead) + Len(ibIn) = ibSent

\* A handler that has returned has closed both connections, and the copying
\* goroutine that is left ends too (forwarding/tcp.go:31-62).
RelayEnds == (ibPC = "closed" /\ ibDialed # {}) ~> (~ibLocalOpen /\ ~ibRemoteOpen /\ ibUp # "copying" /\ ibDown # "copying")

\* An application that ends does not hold its connection, whatever it had sent
\* of its protocol until then: it is closed (socks5/server.go:39-66,
\* http/server.go:49-116).
ConnectionReleased == ibEOF ~> ~ibLocalOpen

-----------------------------------------------------------------------------
(***************************************************************************)
(* A UDP association of an inbound that has one session of the Hysteria    *)
(* client for it: a source and destination pair of tproxy, a UDP           *)
(* association of SOCKS5, a UDP flow of the TUN interface.  One goroutine  *)
(* carries packets up, one carries them down, and the first that ends ends *)
(* the association.                                                        *)
(***************************************************************************)

CONSTANTS
    Locals,         \* local addresses that send packets
    ReadTimeout     \* the read deadline of tproxy, in ticks

ASSUME UDPInboundAssumption == 0 \notin Locals

VARIABLES
    uiKind,         \* "tproxy", "socks" or "tun"
    uiPC,           \* where the handler is
    uiLocal,        \* the local socket: "none", "open" or "closed"
    uiHy,           \* the session: "none", "open", "failed" or "closed"
    uiControl,      \* the TCP connection of a SOCKS5 association is open, or the
                    \* context of the TUN server is not done
    uiHolder,       \* the goroutine that reads that connection: "none", "running", "ended"
    uiUp, uiDown,   \* the goroutines that carry packets
    uiClient,       \* the local address packets are carried for, 0 if unknown
    uiFirst,        \* the first local address that sent a valid packet
    uiDeadline,     \* ticks until a read of the local socket times out
    uiTaken,        \* local addresses whose packets were sent up
    uiGiven         \* local addresses that were sent packets

uiVars == <<uiKind, uiPC, uiLocal, uiHy, uiControl, uiHolder, uiUp, uiDown, uiClient, uiFirst,
            uiDeadline, uiTaken, uiGiven>>

goroutines == <<uiHolder, uiUp, uiDown>>
packets == <<uiClient, uiFirst, uiTaken, uiGiven>>

UDPInboundInit ==
    /\ uiKind \in {"tproxy", "socks", "tun"}
    /\ uiPC = IF uiKind = "tun" THEN "session" ELSE "socket"
    /\ uiLocal = IF uiKind = "tun" THEN "open" ELSE "none"
    /\ uiHy = "none" /\ uiControl = (uiKind # "tproxy") /\ uiHolder = "none"
    /\ uiUp = "none" /\ uiDown = "none" /\ uiDeadline = ReadTimeout
    /\ \E a \in Locals : uiClient = IF uiKind = "socks" THEN 0 ELSE a
    /\ uiFirst = uiClient /\ uiTaken = {} /\ uiGiven = {}

-----------------------------------------------------------------------------
\* The handler returns, and closes what it had opened.
Released == /\ uiLocal' = IF uiLocal = "none" THEN "none" ELSE "closed"
            /\ uiHy' = IF uiHy = "none" THEN "none" ELSE "closed"
            /\ uiControl' = (uiControl /\ uiKind = "tun") /\ uiPC' = "closed"

\* The local socket is opened; the TUN stack hands one over.
OpenLocal ==
    /\ uiPC = "socket"
    /\ \/ uiLocal' = "open" /\ uiPC' = "session" /\ UNCHANGED <<uiHy, uiControl>>
       \/ Released
    /\ UNCHANGED <<uiKind, goroutines, packets, uiDeadline>>

\* HyClient.UDP, and what starts once it is there.  tproxy sends the packet that
\* made the pair first; SOCKS5 starts the goroutine that holds the TCP
\* connection, and carries nothing down until it knows its client.
OpenSession ==
    /\ uiPC = "session"
    /\ \/ /\ uiHy' = "open" /\ uiPC' = "running" /\ uiUp' = "running"
          /\ uiDown' = IF uiKind = "socks" THEN "none" ELSE "running"
          /\ uiHolder' = IF uiKind = "socks" THEN "running" ELSE "none"
          /\ uiTaken' = IF uiKind = "tproxy" THEN {uiClient} ELSE {}
          /\ UNCHANGED <<uiLocal, uiControl>>
       \/ Released /\ UNCHANGED <<goroutines, uiTaken>>
    /\ UNCHANGED <<uiKind, uiClient, uiFirst, uiGiven, uiDeadline>>

\* udpServer takes the first sender for its client; the other kinds have one.
ClientOf(a) == IF uiClient = 0 THEN a ELSE uiClient

\* A packet of a local address is read and sent up.  SOCKS5 ignores a packet
\* that is not its client's, and an error of Send; the others return it.
CarryUp(a) ==
    /\ uiUp = "running" /\ uiLocal = "open"
    /\ uiKind # "socks" => a = uiClient
    /\ uiDeadline' = ReadTimeout /\ uiClient' = ClientOf(a)
    /\ uiFirst' = IF uiFirst = 0 THEN a ELSE uiFirst
    /\ IF a = uiClient'
       THEN /\ uiTaken' = uiTaken \union {a}
            /\ uiDown' = IF uiDown = "none" THEN "running" ELSE uiDown
            /\ uiUp' = IF uiKind # "socks" /\ uiHy # "open" THEN "ended" ELSE "running"
       ELSE UNCHANGED <<uiTaken, uiDown, uiUp>>
    /\ UNCHANGED <<uiKind, uiPC, uiLocal, uiHy, uiControl, uiHolder, uiGiven>>

\* The read deadline that updateConnDeadline set has passed.
DeadlinePassed == uiKind = "tproxy" /\ uiDeadline = 0

\* A read of the local socket fails: it is closed, or its deadline has passed.
ReadLocalFails ==
    /\ uiUp = "running" /\ (uiLocal # "open" \/ DeadlinePassed)
    /\ uiUp' = "ended"
    /\ UNCHANGED <<uiKind, uiPC, uiLocal, uiHy, uiControl, uiHolder, uiDown, packets, uiDeadline>>

\* A packet of the session is written to the client.
CarryDown ==
    /\ uiDown = "running" /\ uiHy = "open"
    /\ \/ uiLocal = "open" /\ uiGiven' = uiGiven \union {uiClient} /\ uiDeadline' = ReadTimeout /\ UNCHANGED uiDown
       \/ uiKind # "socks" /\ uiDown' = "ended" /\ UNCHANGED <<uiGiven, uiDeadline>>
    /\ UNCHANGED <<uiKind, uiPC, uiLocal, uiHy, uiControl, uiHolder, uiUp, uiClient, uiFirst, uiTaken>>

\* The goroutine that carries packets down ends; that of SOCKS5 closes the
\* local socket so that the other one ends.
EndDown ==
    /\ uiDown' = "ended"
    /\ uiLocal' = IF uiKind = "socks" THEN "closed" ELSE uiLocal

\* Receive fails.
ReceiveFails ==
    /\ uiDown = "running" /\ uiHy # "open" /\ EndDown
    /\ UNCHANGED <<uiKind, uiPC, uiHy, uiControl, uiHolder, uiUp, packets, uiDeadline>>

\* The goroutine that reads the TCP connection of a SOCKS5 association ends.
HolderEnds ==
    /\ uiHolder = "running" /\ ~uiControl /\ uiHolder' = "ended"
    /\ UNCHANGED <<uiKind, uiPC, uiLocal, uiHy, uiControl, uiUp, uiDown, packets, uiDeadline>>

\* The first error ends the association.
HandlerReturns ==
    /\ uiPC = "running"
    /\ uiUp = "ended" \/ uiHolder = "ended" \/ (uiKind # "socks" /\ uiDown = "ended")
       \/ (uiKind = "tun" /\ ~uiControl)
    /\ Released
    /\ UNCHANGED <<uiKind, goroutines, packets, uiDeadline>>

-----------------------------------------------------------------------------
\* The session fails, the application closes the TCP connection or the TUN
\* server is closed, time passes.
SessionFails ==
    /\ uiHy = "open" /\ uiHy' = "failed"
    /\ UNCHANGED <<uiKind, uiPC, uiLocal, uiControl, goroutines, packets, uiDeadline>>

ControlCloses ==
    /\ uiControl /\ uiControl' = FALSE
    /\ UNCHANGED <<uiKind, uiPC, uiLocal, uiHy, goroutines, packets, uiDeadline>>

DeadlineNears ==
    /\ uiPC = "running" /\ uiKind = "tproxy" /\ uiDeadline > 0 /\ uiDeadline' = uiDeadline - 1
    /\ UNCHANGED <<uiKind, uiPC, uiLocal, uiHy, uiControl, goroutines, packets>>

UDPInboundStep == ReadLocalFails \/ ReceiveFails \/ HolderEnds \/ HandlerReturns

UDPInboundNext ==
    \/ UDPInboundStep \/ OpenLocal \/ OpenSession \/ CarryDown \/ (\E a \in Locals : CarryUp(a))
    \/ SessionFails \/ ControlCloses \/ DeadlineNears

UDPInboundFairness ==
    /\ WF_uiVars(ReadLocalFails) /\ WF_uiVars(ReceiveFails) /\ WF_uiVars(HolderEnds)
    /\ WF_uiVars(HandlerReturns) /\ WF_uiVars(DeadlineNears)

UDPInboundSpec == UDPInboundInit /\ [][UDPInboundNext]_uiVars /\ UDPInboundFairness

-----------------------------------------------------------------------------
(***************************************************************************)
(* Properties                                                              *)
(***************************************************************************)

\* Packets are carried up and down for one local address only, the first that
\* sent one, although any address can send to the socket of a SOCKS5
\* association (socks5/server.go:238-272).
OneClient == uiTaken \union uiGiven \subseteq {uiFirst}

\* An association that has ended holds no socket, no session and, in the end,
\* no goroutine (socks5/server.go:160-221, tproxy/udp_linux.go:47-92,
\* tun/server.go:277-336).
AssociationReleased ==
    uiPC = "closed" ~> /\ uiLocal # "open" /\ uiHy \notin {"open", "failed"} /\ (uiControl => uiKind = "tun")
                       /\ {uiUp, uiDown, uiHolder} \subseteq {"none", "ended"}

\* A session that fails ends its association, unless it is a SOCKS5 one that
\* does not know its client yet: nothing receives for it until the first packet
\* (socks5/server.go:243-252).
FailureEnds == uiHy = "failed" /\ uiDown = "running" ~> uiPC = "closed"

\* A pair of tproxy without packets in either direction ends at the deadline
\* (tproxy/udp_linux.go:113-140).
IdlePairEnds ==
    (uiKind = "tproxy" /\ uiPC = "running" /\ uiDeadline < ReadTimeout) ~> (uiPC = "closed" \/ uiDeadline = ReadTimeout)

\* An inbound dials only for an application that has authenticated, hands on
\* every byte that follows its request, and serves one client by an association.
InboundsFaithful == DialedIfAllowed /\ NothingLostAhead /\ OneClient
=============================================================================
