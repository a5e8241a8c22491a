--------------------------------- MODULE BBR ---------------------------------
(***************************************************************************)
(* bbrSender (core/internal/congestion/bbr/bbr_sender.go): the modes, the  *)
(* gain cycle, the recovery state and the windows.  What the sampler and   *)
(* the filters measure (module Sampler) and what the clock says are inputs *)
(* of an event; the pacing rate is left out (the pacer, in module Brutal,  *)
(* takes any).  A packet is known by its age: the number of packets sent   *)
(* after it, MaxAge standing for that and more, and for no packet.         *)
(***************************************************************************)
EXTENDS Integers, FiniteSets, FiniteSetsExt

CONSTANTS
    MaxAge,                     \* bound on the packets in flight
    reorderThreshold,           \* of quic-go
    BDPs,                       \* values of rtt * bandwidth, 0 without a sample
    AckHeights,                 \* values of MaxAckHeight and of excessAcked
    MaxDatagramSizes,              \* values of maxDatagramSize
    minCongestionWindowPackets, initialCongestionWindowPackets, maxCongestionWindowPackets,
    MaxPacketBufferSize,        \* of quic-go
    numStartupRtts, startupFullLossCount,
    gainCycle                   \* the gains of PROBE_BW: "up", "down", "one"

ASSUME BBRAssumption ==
    /\ {MaxAge, reorderThreshold, numStartupRtts, startupFullLossCount} \subseteq Nat \ {0}
    /\ maxCongestionWindowPackets \in Nat \ {0}
    /\ initialCongestionWindowPackets \in 1 .. maxCongestionWindowPackets
    /\ minCongestionWindowPackets \in 1 .. initialCongestionWindowPackets
    /\ MaxPacketBufferSize \in Nat
    /\ MaxDatagramSizes # {} /\ MaxDatagramSizes \subseteq 1 .. MaxPacketBufferSize
    /\ 0 \in BDPs /\ BDPs \subseteq Nat /\ AckHeights \subseteq Nat
    /\ \E n \in 1 .. 8 : gainCycle \in [0 .. n - 1 -> {"up", "down", "one"}]

VARIABLES
    bb,             \* the sender
    bbFlight,       \* the ages of the packets in flight
    bbLargest       \* the age of the largest acknowledged

bbVars == <<bb, bbFlight, bbLargest>>

PacketSize == Min(MaxDatagramSizes)
Older(age) == Min({MaxAge, age + 1})
gainCycleLength == Cardinality(DOMAIN gainCycle)

minWindow(b) == minCongestionWindowPackets * b.mds

\* newBbrSender with the flags of the profile, and enterStartupMode.
BBRInit ==
    /\ bbFlight = {} /\ bbLargest = MaxAge
    /\ \E profile \in {"conservative", "standard", "aggressive"} :
         bb = [ mode |-> "STARTUP", pacingGain |-> "high", cwndGain |-> "high", offset |-> 0,
                full |-> FALSE, roundsWithoutGain |-> 0, bwAtLastRound |-> 0, bdp |-> 0,
                roundEnd |-> MaxAge, recovery |-> "NOT_IN_RECOVERY", endRecoveryAt |-> MaxAge,
                mds |-> PacketSize, cwnd |-> initialCongestionWindowPackets * PacketSize,
                initial |-> initialCongestionWindowPackets * PacketSize,
                max |-> maxCongestionWindowPackets * PacketSize,
                recoveryWindow |-> maxCongestionWindowPackets * PacketSize,
                exitingQuiescence |-> FALSE, exitProbeRttAt |-> "zero", roundPassed |-> FALSE,
                lossEvents |-> 0, inFlight |-> 0, totalAcked |-> 0,
                drainToTarget |-> profile = "conservative", ackAggregation |-> profile = "aggressive" ]

-----------------------------------------------------------------------------
(***************************************************************************)
(* Windows                                                                 *)
(***************************************************************************)

\* A gain times a number of bytes.
Gained(gain, bytes) ==
    CASE gain = "up"   -> (bytes * 5) \div 4
      [] gain = "high" -> bytes * 2
      [] gain = "constant" -> bytes * 2
      [] OTHER -> bytes

\* getTargetCongestionWindow.
TargetWindow(b, gain) ==
    LET w == Gained(gain, b.bdp)
    IN  Max({IF w = 0 THEN Gained(gain, b.initial) ELSE w, minWindow(b)})

\* GetCongestionWindow.
GetCongestionWindow(b) ==
    IF b.mode = "PROBE_RTT" THEN minWindow(b)
    ELSE IF b.recovery # "NOT_IN_RECOVERY" THEN Min({b.cwnd, b.recoveryWindow})
    ELSE b.cwnd

\* The limits on the congestion window.
Limit(b, w) == Min({Max({w, minWindow(b)}), b.max})

\* calculateCongestionWindow.  extra is MaxAckHeight, or in STARTUP excessAcked.
CongestionWindow(b, acked, extra) ==
    LET target == TargetWindow(b, b.cwndGain) + IF b.full \/ b.ackAggregation THEN extra ELSE 0
        w == IF b.full THEN Min({target, b.cwnd + acked})
             ELSE IF b.cwnd < target \/ b.totalAcked < b.initial THEN b.cwnd + acked ELSE b.cwnd
    IN  IF b.mode = "PROBE_RTT" THEN b ELSE [b EXCEPT !.cwnd = Limit(b, w)]

\* The lower limit on the recovery window.
RecoveryFloor(b, w) == Max({minWindow(b), w})

\* calculateRecoveryWindow.
RecoveryWindow(b, acked, lost) ==
    LET less == IF b.recoveryWindow >= lost THEN b.recoveryWindow - lost ELSE b.mds
        grown == less + IF b.recovery = "GROWTH" THEN acked ELSE 0
        w == IF b.recoveryWindow = 0 THEN b.inFlight + acked ELSE Max({grown, b.inFlight + acked})
    IN  IF b.recovery = "NOT_IN_RECOVERY" THEN b
        ELSE [b EXCEPT !.recoveryWindow = Min({RecoveryFloor(b, w), b.max})]    \* bound: max

-----------------------------------------------------------------------------
(***************************************************************************)
(* Modes                                                                   *)
(***************************************************************************)

\* enterStartupMode.
EnterStartup(b) == [b EXCEPT !.mode = "STARTUP", !.pacingGain = "high", !.cwndGain = "high"]

\* enterProbeBandwidthMode: a random offset, but not that of the low gain.
EnterProbeBw(b, o) ==
    [b EXCEPT !.mode = "PROBE_BW", !.cwndGain = "constant", !.offset = o, !.pacingGain = gainCycle[o]]

\* updateRoundTripCounter.
RoundStarts(b, lastAcked) == b.roundEnd = MaxAge \/ lastAcked < b.roundEnd

\* Recovery is disabled until the bandwidth is full.
RecoveryAllowed(b) == b.full

\* updateRecoveryState, the last packet sent having age 0.
RecoveryState(b, lastAcked, losses, roundStart) ==
    LET b1 == IF losses THEN [b EXCEPT !.endRecoveryAt = 0] ELSE b
        grown == IF b.recovery = "CONSERVATION" /\ roundStart THEN "GROWTH" ELSE b.recovery
    IN  IF ~RecoveryAllowed(b) THEN b
        ELSE IF b.recovery = "NOT_IN_RECOVERY"
        THEN IF losses THEN [b1 EXCEPT !.recovery = "CONSERVATION", !.recoveryWindow = 0, !.roundEnd = 0] ELSE b
        ELSE IF ~losses /\ lastAcked < b1.endRecoveryAt THEN [b1 EXCEPT !.recovery = "NOT_IN_RECOVERY"]
        ELSE [b1 EXCEPT !.recovery = grown]

\* Whether updateGainCyclePhase advances: in is what the event found in flight.
Advances(b, in, losses, rttPassed) ==
    \/ b.pacingGain = "down" /\ b.inFlight <= TargetWindow(b, "one")
    \/ rttPassed /\ ~(b.pacingGain = "up" /\ ~losses /\ in < TargetWindow(b, "up"))

\* updateGainCyclePhase.
GainCycle(b, in, losses, rttPassed) ==
    LET o == (b.offset + 1) % gainCycleLength
        stay == b.drainToTarget /\ b.pacingGain = "down" /\ gainCycle[o] = "one"
                  /\ b.inFlight > TargetWindow(b, "one")
    IN  IF b.mode # "PROBE_BW" \/ ~Advances(b, in, losses, rttPassed) THEN b
        ELSE [b EXCEPT !.offset = o, !.pacingGain = IF stay THEN @ ELSE gainCycle[o]]

\* checkIfFullBandwidthReached with shouldExitStartupDueToLoss.
CheckFullBandwidth(b, appLimited) ==
    LET rounds == b.roundsWithoutGain + 1
    IN  IF b.full \/ appLimited THEN b
        ELSE IF b.bdp >= (b.bwAtLastRound * 5) \div 4
        THEN [b EXCEPT !.bwAtLastRound = b.bdp, !.roundsWithoutGain = 0]
        ELSE [b EXCEPT !.roundsWithoutGain = rounds,
                       !.full = rounds >= numStartupRtts \/ b.lossEvents >= startupFullLossCount]

\* maybeExitStartupOrDrain.
ExitStartupOrDrain(b, o) ==
    LET b1 == IF b.mode = "STARTUP" /\ b.full
              THEN [b EXCEPT !.mode = "DRAIN", !.pacingGain = "drain", !.cwndGain = "high"] ELSE b
    IN  IF b1.mode = "DRAIN" /\ b1.inFlight <= TargetWindow(b1, "one") THEN EnterProbeBw(b1, o) ELSE b1

\* Mutant of AfterProbeRtt: the sender always goes back to STARTUP.
AfterProbeRttStartup(b, o) == EnterStartup(b)

\* Where PROBE_RTT leads.
AfterProbeRtt(b, o) == IF ~b.full THEN EnterStartup(b) ELSE EnterProbeBw(b, o)

\* The window is small enough to schedule the end of PROBE_RTT; QUIC checks the
\* window before it sends, so that an extra packet is allowed.
ProbeRttDrained(b) == b.inFlight < minWindow(b) + MaxPacketBufferSize

\* Within PROBE_RTT.
InProbeRtt(b, roundStart, o) ==
    LET passed == b.roundPassed \/ roundStart
    IN  IF b.exitProbeRttAt = "zero"
        THEN IF ProbeRttDrained(b)
             THEN [b EXCEPT !.exitProbeRttAt = "ahead", !.roundPassed = FALSE] ELSE b
        ELSE IF b.exitProbeRttAt = "passed" /\ passed
        THEN [AfterProbeRtt(b, o) EXCEPT !.roundPassed = FALSE, !.exitProbeRttAt = "zero"]
        ELSE [b EXCEPT !.roundPassed = passed]

\* Mutant of Enters: PROBE_RTT is entered again from PROBE_RTT.
EntersAgain(b, expired) == expired /\ ~b.exitingQuiescence

\* PROBE_RTT is entered.
Enters(b, expired) == expired /\ ~b.exitingQuiescence /\ b.mode # "PROBE_RTT"

\* maybeEnterOrExitProbeRtt.
ProbeRtt(b, roundStart, expired, o) ==
    LET b1 == IF Enters(b, expired) THEN [b EXCEPT !.mode = "PROBE_RTT", !.pacingGain = "one", !.exitProbeRttAt = "zero"]
              ELSE b
        b2 == IF b1.mode = "PROBE_RTT" THEN InProbeRtt(b1, roundStart, o) ELSE b1
    IN  [b2 EXCEPT !.exitingQuiescence = FALSE]

-----------------------------------------------------------------------------
(***************************************************************************)
(* Operations                                                              *)
(***************************************************************************)

\* A packet is sent when CanSend: OnPacketSent.
BBRSend ==
    /\ PacketSize * Cardinality(bbFlight) < GetCongestionWindow(bb)
    /\ \A a \in bbFlight : a < MaxAge - 1       \* bound
    /\ bb' = [bb EXCEPT !.inFlight = PacketSize * Cardinality(bbFlight),
                        !.exitingQuiescence = @ \/ bbFlight = {},
                        !.roundEnd = Older(@), !.endRecoveryAt = Older(@)]
    /\ bbFlight' = { a + 1 : a \in bbFlight } \union {0}
    /\ bbLargest' = Older(bbLargest)

\* OnCongestionEventEx.  i holds what the measurements and the clock say.
CongestionEvent(acked, lost, i) ==
    LET prior == PacketSize * Cardinality(bbFlight)
        bytesAcked == PacketSize * Cardinality(acked)
        bytesLost == PacketSize * Cardinality(lost)
        last == Min(acked)
        roundStart == acked # {} /\ RoundStarts(bb, last)
        losses == lost # {}
    IN  /\ \E b0 \in {[bb EXCEPT !.inFlight = prior - bytesAcked - bytesLost,
                                 !.roundEnd = IF roundStart THEN 0 ELSE @]} :
           \E b1 \in {IF acked = {} THEN b0 ELSE RecoveryState(b0, last, losses, roundStart)} :
           \E b2 \in {[b1 EXCEPT !.bdp = i.bdp, !.totalAcked = Min({@ + bytesAcked, bb.max}),
                                 !.lossEvents = IF losses THEN Min({@ + 1, startupFullLossCount}) ELSE @]} :
           \E b3 \in {GainCycle(b2, prior, losses, i.rttPassed)} :
           \E b4 \in {IF roundStart THEN CheckFullBandwidth(b3, i.appLimited) ELSE b3} :
           \E b5 \in {ProbeRtt(ExitStartupOrDrain(b4, i.offset), roundStart, i.expired, i.offset)} :
           \E b6 \in {RecoveryWindow(CongestionWindow(b5, bytesAcked, i.extra), bytesAcked, bytesLost)} :
             bb' = [b6 EXCEPT !.lossEvents = IF roundStart THEN 0 ELSE @]
        /\ bbFlight' = bbFlight \ (acked \union lost)
        /\ bbLargest' = Min(acked \union {bbLargest})

\* The losses that quic-go declares with an acknowledgement or by its timer:
\* all packets reorderThreshold older than the largest acknowledged, or more.
QuicLosses(acked, k) ==
    { a \in bbFlight \ acked : a >= Min(acked \union {bbLargest}) + k }

\* The inputs that matter in the present state.  The estimate changes only when
\* packets are acknowledged.
Inputs(acked) ==
    [bdp : IF acked = {} THEN {bb.bdp} ELSE BDPs \ {0},
     rttPassed : IF bb.mode = "PROBE_BW" THEN BOOLEAN ELSE {FALSE},
     appLimited : IF bb.full THEN {FALSE} ELSE BOOLEAN,
     expired : IF acked = {} THEN {FALSE} ELSE BOOLEAN,
     extra : IF bb.full \/ bb.ackAggregation THEN AckHeights ELSE {0},
     offset : IF bb.mode = "PROBE_BW" THEN {0} ELSE DOMAIN gainCycle \ {1}]

\* An acknowledgement, or the loss timer.
BBREvent ==
    \E acked \in SUBSET bbFlight : \E lost \in { QuicLosses(acked, k) : k \in 1 .. reorderThreshold } :
      /\ acked \union lost # {}
      /\ \E i \in Inputs(acked) : CongestionEvent(acked, lost, i)

\* exitProbeRttAt passes.
ProbeRttTimePasses ==
    /\ bb.exitProbeRttAt = "ahead" /\ bb' = [bb EXCEPT !.exitProbeRttAt = "passed"]
    /\ UNCHANGED <<bbFlight, bbLargest>>

\* scaleByteWindowForDatagramSize.
Scaled(w, old, new) == (w * new) \div old

\* SetMaxDatagramSize.
BBRSetMaxDatagramSize(size) ==
    LET b == [bb EXCEPT !.mds = size, !.initial = Scaled(@, bb.mds, size), !.max = Scaled(@, bb.mds, size)]
        cwnd == IF bb.cwnd = minWindow(bb) THEN minWindow(b)
                ELSE IF bb.cwnd = bb.initial THEN b.initial
                ELSE Limit(b, bb.cwnd)
    IN  /\ size > bb.mds
        /\ bb' = [b EXCEPT !.cwnd = cwnd, !.recoveryWindow = Min({b.max, Max({@, minWindow(b)})})]
        /\ UNCHANGED <<bbFlight, bbLargest>>

BBRNext ==
    \/ BBRSend \/ BBREvent \/ ProbeRttTimePasses
    \/ \E size \in MaxDatagramSizes : BBRSetMaxDatagramSize(size)

\* Data to send does not run out, the acknowledgements or the timer come, and
\* so does the time to leave PROBE_RTT (the last conjunct is weak fairness of
\* BBREvent, the only action that takes packets out of flight).
BBRFairness ==
    /\ WF_bbVars(BBRSend) /\ WF_bbVars(ProbeRttTimePasses)
    /\ []<>(bbFlight = {}) \/ []<><<Cardinality(bbFlight') < Cardinality(bbFlight)>>_bbVars

BBRSpec == BBRInit /\ [][BBRNext]_bbVars /\ BBRFairness

-----------------------------------------------------------------------------
(***************************************************************************)
(* Properties                                                              *)
(***************************************************************************)

\* Whatever is lost, measured or rescaled, the windows stay within their limits,
\* and with nothing in flight the sender may always send (bbr_sender.go:
\* 488-532, 977-1040).
WindowsInRange ==
    /\ minWindow(bb) <= bb.cwnd /\ bb.cwnd <= bb.max /\ minWindow(bb) <= bb.initial
    /\ GetCongestionWindow(bb) >= minWindow(bb)

\* The gains are those of the mode; only a sender that has not seen the full
\* bandwidth is in STARTUP, only one that has is in DRAIN or PROBE_BW or in
\* recovery (bbr_sender.go:720-752, 831-935).
ModeConsistent ==
    /\ bb.mode = "STARTUP" => ~bb.full /\ bb.pacingGain = "high" /\ bb.cwndGain = "high"
    /\ bb.mode = "DRAIN" => bb.full /\ bb.pacingGain = "drain" /\ bb.cwndGain = "high"
    /\ bb.mode = "PROBE_BW" => bb.full /\ bb.cwndGain = "constant" /\ bb.pacingGain \in {"up", "down", "one"}
    /\ bb.mode = "PROBE_RTT" => bb.pacingGain = "one"
    /\ bb.recovery # "NOT_IN_RECOVERY" => bb.full

\* PROBE_RTT, in which the window is small, ends (bbr_sender.go:849-898).
ProbeRttEnds == (bb.mode = "PROBE_RTT") ~> (bb.mode # "PROBE_RTT")

\* The sender is in a mode that fits what it has measured, with windows in their
\* limits.
ModesSound == WindowsInRange /\ ModeConsistent
=============================================================================
