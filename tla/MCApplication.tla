--------------------------- MODULE MCApplication ---------------------------
(***************************************************************************)
(* The inbounds of the client application and the outbounds of the server, *)
(* with the speed test between them, for TLC: each part on its own.  part  *)
(* says which of them a behaviour is about.                                *)
(***************************************************************************)
EXTENDS Inbound, Forwarding, Speedtest, DirectOutbound, Outbounds

VARIABLE part

mcVars == <<ibVars, fwVars, uiVars, stVars, doVars, foVars, pxVars, rsVars, part>>

MCPayload == <<1, 2, 3>>

MCInit ==
    /\ part \in {"tcp", "forward", "udp", "speedtest", "direct", "fastopen", "proxy", "resolver"}
    /\ \/ part = "tcp"
       \/ part # "tcp" /\ ibKind = "forward" /\ ibIn = << >> /\ ibRemoteLeft = 0
    /\ part = "udp" \/ (part # "udp" /\ uiKind = "tun" /\ uiClient = CHOOSE a \in Locals : TRUE)
    /\ \/ part = "speedtest"
       \/ (part # "speedtest" /\ stUp = FALSE /\ stTimed = FALSE /\ dataSize = 1)
    /\ \/ part = "direct"
       \/ (part # "direct" /\ dMode = "auto" /\ dBind = {} /\ dDevice = FALSE /\ dAddr = {})
    /\ part = "proxy" \/ (part # "proxy" /\ pxKind = "socks" /\ pxAuth = FALSE)
    /\ part = "resolver" \/ (part # "resolver" /\ rsKind = "system" /\ literal = "none")
    /\ InboundInit /\ ForwardingInit /\ UDPInboundInit
    /\ SpeedtestInit /\ DirectInit /\ FastOpenInit /\ ProxyInit /\ ResolverInit

Except(p, q, v) == IF p = q THEN TRUE ELSE UNCHANGED v

\* A step of one part leaves the others alone.
Only(p, A) ==
    /\ part = p /\ A /\ UNCHANGED part
    /\ Except(p, "tcp", ibVars) /\ Except(p, "forward", fwVars) /\ Except(p, "udp", uiVars)
    /\ Except(p, "speedtest", stVars) /\ Except(p, "direct", doVars)
    /\ Except(p, "fastopen", foVars) /\ Except(p, "proxy", pxVars) /\ Except(p, "resolver", rsVars)

MCNext ==
    \/ Only("tcp", InboundNext) \/ Only("forward", ForwardingNext) \/ Only("udp", UDPInboundNext)
    \/ Only("speedtest", SpeedtestNext) \/ Only("direct", DirectNext)
    \/ Only("fastopen", FastOpenNext) \/ Only("proxy", ProxyNext) \/ Only("resolver", ResolverNext)

\* The fairness of the parts whose properties need it.  A behaviour is about
\* one part, so an action of one part shares a conjunct with an action of
\* another.
MCFairness ==
    /\ WF_mcVars(Only("tcp", InboundStep) \/ Only("forward", LoopStep(1)) \/ Only("udp", ReadLocalFails)
                 \/ Only("speedtest", SpeedtestStep) \/ Only("direct", DialStep)
                 \/ Only("proxy", ProxyStep) \/ Only("resolver", ResolverNext)
                 \/ Only("fastopen", FOStep("r1")))
    /\ WF_mcVars(Only("tcp", CopyUp) \/ Only("forward", LoopStep(2)) \/ Only("udp", ReceiveFails)
                 \/ Only("fastopen", FOStep("r2")))
    /\ WF_mcVars(Only("tcp", CopyDown) \/ Only("forward", LoopStep(3)) \/ Only("udp", HolderEnds)
                 \/ Only("fastopen", FOStep("w1")))
    /\ WF_mcVars(Only("udp", HandlerReturns) \/ Only("fastopen", FOStep("w2")))
    /\ WF_mcVars(Only("udp", DeadlineNears))

MCSpec == MCInit /\ [][MCNext]_mcVars /\ MCFairness

\* Every call returns and every relay, test, association and forwarding session
\* ends.
RelaysEnd ==
    /\ TestEnds /\ LoserClosed /\ WaitersWake /\ ProxyCallReturns /\ ResolveReturns
    /\ RelayEnds /\ ConnectionReleased /\ AllClosedAfterServe
    /\ AssociationEnds /\ AssociationReleased /\ FailureEnds /\ IdlePairEnds
=============================================================================
