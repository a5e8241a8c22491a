---------------------------- MODULE MCTransport ----------------------------
(***************************************************************************)
(* What carries the packets, for TLC: port hopping, Gecko and the          *)
(* congestion controllers, each on its own.  part says which of them a     *)
(* behaviour is about.                                                     *)
(***************************************************************************)
EXTENDS UDPHop, Gecko, PacketQueue, Sampler, Brutal, BBR

CONSTANTS va, vb, none

VARIABLE part

mcVars == <<part, hopVars, geckoVars, pqVars, wfVars, brVars, pcVars, stVars, bbVars>>

\* The cycle of pacing gains, with one phase for the six of gain 1.
MCCongestionCycle == [o \in 0 .. 3 |-> CASE o = 0 -> "up" [] o = 1 -> "down" [] OTHER -> "one"]

MCInit ==
    /\ part \in {"hop", "gecko", "queue", "filter", "brutal", "pacer", "sampler", "bbr"}
    /\ part = "hop" \/ (part # "hop" /\ addrIndex = 0)
    /\ part = "brutal" \/ (part # "brutal" /\ disableLossCompensation = FALSE)
    /\ part = "pacer" \/ (part # "pacer" /\ pcBandwidth = Min(Bandwidths))
    /\ HopInit /\ GeckoInit
    /\ PacketQueueInit /\ WindowedFilterInit /\ BrutalInit /\ PacerInit /\ SamplerInit /\ BBRInit
    /\ part = "sampler" \/ (part # "sampler" /\ ~st.avoid)
    /\ part = "bbr" \/ (part # "bbr" /\ ~bb.drainToTarget /\ ~bb.ackAggregation)

Except(p, q, v) == IF p = q THEN TRUE ELSE UNCHANGED v

\* A step of one part leaves the others alone.
Only(p, A) ==
    /\ part = p /\ A /\ UNCHANGED part
    /\ Except(p, "hop", hopVars) /\ Except(p, "gecko", geckoVars)
    /\ Except(p, "queue", pqVars) /\ Except(p, "filter", wfVars) /\ Except(p, "brutal", brVars)
    /\ Except(p, "pacer", pcVars) /\ Except(p, "sampler", stVars) /\ Except(p, "bbr", bbVars)

MCNext ==
    \/ Only("hop", HopStepNext) \/ Only("gecko", GeckoNext)
    \/ Only("queue", PacketQueueNext) \/ Only("filter", WindowedFilterNext) \/ Only("brutal", BrutalNext)
    \/ Only("pacer", PacerNext) \/ Only("sampler", SamplerNext) \/ Only("bbr", BBRNext)

\* Goroutines that can run do, time passes, and packets in flight are
\* acknowledged or lost.  A behaviour is about one part, so an action of one
\* shares a conjunct with an action of another.
MCFairness ==
    /\ WF_mcVars(Only("hop", HopStep) \/ Only("bbr", BBRSend))
    /\ WF_mcVars(Only("hop", HopReadReturns) \/ Only("bbr", ProbeRttTimePasses))
    /\ SF_mcVars(Only("hop", HopLoopEnds))
    /\ \A s \in Socks : WF_mcVars(Only("hop", RecvStep(s)))
    /\ []<>(bbFlight = {}) \/ []<><<Cardinality(bbFlight') < Cardinality(bbFlight)>>_mcVars

MCSpec == MCInit /\ [][MCNext]_mcVars /\ MCFairness

\* The estimates congestion control works with are exact: the bandwidth sampler's,
\* the filter's, and the rates Brutal and the pacer keep to; and the sampler's queue
\* holds no packets that are gone.
MeasuresExact == SamplesExact /\ RateKept /\ NoEmptyFront

\* Close ends the goroutines of port hopping, and BBR does not stay in the mode in
\* which it probes.
TransportEnds == HopShutsDown /\ ProbeRttEnds
=============================================================================
