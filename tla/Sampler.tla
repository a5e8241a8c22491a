------------------------------ MODULE Sampler -------------------------------
(***************************************************************************)
(* bandwidthSampler and maxAckHeightTracker of core/internal/congestion/   *)
(* bbr.  The sampler keeps the state of the connection with each packet it *)
(* sends and makes a bandwidth sample of each packet acknowledged.  The    *)
(* map of states is a function here (PacketQueue is its implementation),   *)
(* the filter of heights is the one below, and a packet has one            *)
(* byte.  The losses are those that quic-go declares: every packet         *)
(* packetThreshold below the largest acknowledged, and, by time, more of   *)
(* the packets below it, the oldest first.                                 *)
(***************************************************************************)
EXTENDS Integers, Sequences, FiniteSetsExt, FiniteSets, SequencesExt, Functions

(***************************************************************************)
(* WindowedFilter of core/internal/congestion/bbr with MaxFilter: the three *)
(* estimates of the largest bandwidth of the last windowLength rounds.     *)
(***************************************************************************)

CONSTANTS
    windowLength,   \* in round trips
    FilterSamples,  \* the samples, zero among them
    MaxRound        \* bound on the rounds

ASSUME WindowedFilterAssumption ==
    windowLength \in Nat \ {0} /\ FilterSamples \subseteq Nat /\ 0 \in FilterSamples

VARIABLES
    estimates,  \* <<best, second best, third best>>, each [sample, time]
    wfRound,    \* the round trip count
    wfPeak      \* per round of the window: the largest sample, or -1 without one

wfVars == <<estimates, wfRound, wfPeak>>

Zero == [sample |-> 0, time |-> 0]

WindowedFilterInit ==
    /\ estimates = <<Zero, Zero, Zero>> /\ wfRound = 0
    /\ wfPeak = [r \in 0 .. MaxRound |-> -1]

\* Reset.
ResetTo(e) == <<e, e, e>>

Old(e, t, age) == t - e.time > age

\* The best estimate has expired: the others move up, twice if need be.
PromotedBest(es, e) ==
    IF Old(es[2], e.time, windowLength) THEN <<es[3], e, e>> ELSE <<es[2], es[3], e>>

\* The sample becomes the second best, and the third best with it.
NewSecond(es, e) == <<es[1], e, e>>

\* The expiry that ends Update.
Expire(es, e) ==
    CASE Old(es[1], e.time, windowLength) -> PromotedBest(es, e)
      [] ~Old(es[1], e.time, windowLength) /\ es[2].sample = es[1].sample
           /\ Old(es[2], e.time, windowLength \div 4) -> NewSecond(es, e)
      [] ~Old(es[1], e.time, windowLength)
           /\ ~(es[2].sample = es[1].sample /\ Old(es[2], e.time, windowLength \div 4))
           /\ es[3].sample = es[2].sample /\ Old(es[3], e.time, windowLength \div 2) -> <<es[1], es[2], e>>
      [] OTHER -> es

\* Update with a sample.
FilterUpdate(es, e) ==
    IF es[1].sample = 0 \/ e.sample >= es[1].sample \/ Old(es[3], e.time, windowLength)
    THEN ResetTo(e)
    ELSE Expire(IF e.sample >= es[2].sample THEN NewSecond(es, e)
                ELSE IF e.sample >= es[3].sample THEN <<es[1], es[2], e>>
                ELSE es, e)

WFSample(v) ==
    /\ estimates' = FilterUpdate(estimates, [sample |-> v, time |-> wfRound])
    /\ wfPeak' = [wfPeak EXCEPT ![wfRound] = IF v > @ THEN v ELSE @]
    /\ UNCHANGED wfRound

\* Rounds pass, some of them without a sample.  Rounds out of the window are
\* forgotten.
WFRoundPasses ==
    /\ wfRound < MaxRound /\ wfRound' = wfRound + 1
    /\ wfPeak' = [r \in 0 .. MaxRound |-> IF r < wfRound' - windowLength THEN -1 ELSE wfPeak[r]]
    /\ UNCHANGED estimates

WindowedFilterNext == WFRoundPasses \/ \E v \in FilterSamples : WFSample(v)

WindowedFilterSpec == WindowedFilterInit /\ [][WindowedFilterNext]_wfVars

-----------------------------------------------------------------------------
(***************************************************************************)
(* Properties                                                              *)
(***************************************************************************)

\* windowed_filter.go:9-11: the estimates are the best, second best and third
\* best, and "the measurement time of the n'th best >= n-1'th best".
EstimatesOrdered ==
    \A i \in 1 .. 2 :
      estimates[i].sample >= estimates[i + 1].sample /\ estimates[i].time <= estimates[i + 1].time

\* After a sample the best estimate is one that was really measured in the
\* window, and no later sample is larger (windowed_filter.go:102-151).
BestIsRecent ==
    wfPeak[wfRound] # -1 =>
      LET best == estimates[1]
      IN  /\ wfRound - best.time <= windowLength
          /\ wfPeak[best.time] >= best.sample
          /\ \A r \in best.time .. wfRound : wfPeak[r] <= best.sample

-----------------------------------------------------------------------------
CONSTANTS
    MaxPacket,          \* bound on the packet numbers
    MaxClock,           \* bound on the time
    packetThreshold,    \* 3, of quic-go
    Estimates,          \* bandwidth estimates, in bytes per unit of time
    AppLimitedWindow,       \* getTargetCongestionWindow(1), in packets
    Scale               \* rates are counted in 1/Scale bytes per unit of time

ASSUME SamplerAssumption ==
    /\ {MaxPacket, MaxClock, packetThreshold, AppLimitedWindow, Scale} \subseteq Nat \ {0}
    /\ Estimates \subseteq Nat \ {0} /\ Estimates # {}

VARIABLES
    st,             \* the sampler
    stNow,          \* the time, from 1
    stOutstanding,  \* packets in flight, as quic-go counts them
    stLargest,      \* the largest acknowledged, -1 before
    stSample,       \* the last sample: [packet, bandwidth, a0, sent], packet 0 without one
    stSince         \* the last OnAppLimited: lastSentPacket then, packets acknowledged since

stVars == <<st, stNow, stOutstanding, stLargest, stSample, stSince>>

infBandwidth == Scale * MaxPacket + 1
NoPoint == [ackTime |-> 0, total |-> 0]
NoSample == [packet |-> 0, bandwidth |-> 0, a0 |-> NoPoint, sent |-> NoPoint]

\* newBandwidthSampler, with EnableOverestimateAvoidance by the profile.  The
\* connection has sent its first packet before it was given this sender.
SamplerInit ==
    /\ stNow = 1 /\ stOutstanding = {0} /\ stLargest = -1 /\ stSample = NoSample
    /\ stSince = [called |-> FALSE, last |-> -1, acked |-> {}]
    /\ \E avoid \in BOOLEAN :
         st = [ sent |-> 0, acked |-> 0,
                sentAtLastAcked |-> 0, lastAckedSentTime |-> 0, lastAckedAckTime |-> 0,
                lastSent |-> -1, isAppLimited |-> FALSE, endOfAppLimitedPhase |-> -1,
                map |-> << >>, ackPoints |-> <<NoPoint, NoPoint>>, a0Candidates |-> << >>,
                epoch |-> [start |-> 0, bytes |-> 0], ackedAfterLastEvent |-> 0,
                avoid |-> avoid ]

-----------------------------------------------------------------------------
(***************************************************************************)
(* Ack points                                                              *)
(***************************************************************************)

\* recentAckPoints.Update.
PointsUpdate(points, t, total) ==
    IF t > points[2].ackTime THEN <<points[2], [ackTime |-> t, total |-> total]>>
    ELSE <<points[1], [ackTime |-> t, total |-> total]>>

LessRecentPoint(points) == IF points[1].total # 0 THEN points[1] ELSE points[2]

\* Mutant of A0Index: the point after the packet was sent is taken.
A0IndexAfter(cands, total) ==
    LET later == { i \in 2 .. Len(cands) : cands[i].total > total }
    IN  IF later = {} THEN Len(cands) ELSE Min(later)

\* The candidate chooseA0Point takes: the last one before the packet was sent.
A0Index(cands, total) ==
    LET later == { i \in 2 .. Len(cands) : cands[i].total > total }
    IN  IF later = {} THEN Len(cands) ELSE Min(later) - 1

\* The candidates it leaves: the older ones are popped.  The loop that pops
\* them at the end compares with a length that shrinks, and stops half way.
A0Left(cands, total) ==
    LET i == A0Index(cands, total)
    IN  IF i < Len(cands) THEN SubSeq(cands, i, Len(cands))
        ELSE SubSeq(cands, 1 + Len(cands) \div 2, Len(cands))

-----------------------------------------------------------------------------
(***************************************************************************)
(* Packets sent                                                            *)
(***************************************************************************)

\* OnPacketSent when nothing is in flight: the transmission begins anew.
FromQuiescence(s, t) ==
    LET points == PointsUpdate(<<NoPoint, NoPoint>>, t, s.acked)
    IN  [s EXCEPT !.lastAckedAckTime = t, !.sentAtLastAcked = s.sent, !.lastAckedSentTime = t,
                  !.ackPoints = IF s.avoid THEN points ELSE @,
                  !.a0Candidates = IF s.avoid THEN <<points[2]>> ELSE @]

\* newConnectionStateOnSentPacket.
StateOnSent(s, t) ==
    [sentTime |-> t, sentAtLastAcked |-> s.sentAtLastAcked, lastAckedSentTime |-> s.lastAckedSentTime,
     lastAckedAckTime |-> s.lastAckedAckTime, isAppLimited |-> s.isAppLimited,
     sent |-> s.sent, acked |-> s.acked]

SamplerSend(retransmittable) ==
    LET p == Max({st.lastSent, 0}) + 1
        counted == [st EXCEPT !.lastSent = p, !.sent = @ + 1]
        s == IF stOutstanding = {} THEN FromQuiescence(counted, stNow) ELSE counted
    IN  /\ p <= MaxPacket
        /\ st' = IF ~retransmittable THEN [st EXCEPT !.lastSent = p]
                 ELSE [s EXCEPT !.map = @ @@ (p :> StateOnSent(s, stNow))]
        /\ stOutstanding' = IF retransmittable THEN stOutstanding \union {p} ELSE stOutstanding
        /\ UNCHANGED <<stNow, stLargest, stSample, stSince>>

-----------------------------------------------------------------------------
(***************************************************************************)
(* Congestion events                                                       *)
(***************************************************************************)

\* OnAppLimited.
Limited(s) == [s EXCEPT !.isAppLimited = TRUE, !.endOfAppLimitedPhase = s.lastSent]

\* An acknowledgement of p ends the app-limited phase.
EndsPhase(s, p) == s.endOfAppLimitedPhase = -1 \/ p > s.endOfAppLimitedPhase

\* BandwidthFromDelta.
Rate(bytes, delta) == (Scale * bytes) \div delta

\* The A0 point of a packet.
A0Of(s, e) ==
    IF s.avoid /\ s.a0Candidates # << >> THEN s.a0Candidates[A0Index(s.a0Candidates, e.acked)]
    ELSE [ackTime |-> e.lastAckedAckTime, total |-> e.acked]

\* onPacketAcknowledged: <<the sampler, the best sample so far>>.
Acknowledged(acc, p) ==
    LET s == acc[1]
        e == s.map[p]
        s1 == [s EXCEPT !.acked = @ + 1, !.sentAtLastAcked = e.sent, !.lastAckedSentTime = e.sentTime,
                        !.lastAckedAckTime = stNow,
                        !.ackPoints = IF s.avoid THEN PointsUpdate(@, stNow, s.acked + 1) ELSE @,
                        !.isAppLimited = @ /\ ~EndsPhase(s, p)]
        a0 == A0Of(s1, e)
        s2 == IF s.avoid /\ s1.a0Candidates # << >>
              THEN [s1 EXCEPT !.a0Candidates = A0Left(@, e.acked)] ELSE s1
        sendRate == IF e.sentTime > e.lastAckedSentTime
                    THEN Rate(e.sent - e.sentAtLastAcked, e.sentTime - e.lastAckedSentTime)
                    ELSE infBandwidth
        bandwidth == Min({sendRate, Rate(s1.acked - a0.total, stNow - a0.ackTime)})
        sample == [packet |-> p, bandwidth |-> bandwidth, a0 |-> a0,
                   sent |-> [ackTime |-> e.sentTime, total |-> e.acked]]
    IN  IF p \notin DOMAIN s.map THEN <<s, acc[2]>>
        ELSE IF e.lastAckedSentTime = 0 THEN <<s1, acc[2]>>
        ELSE IF stNow <= a0.ackTime THEN <<s2, acc[2]>>
        ELSE <<s2, IF bandwidth > acc[2].bandwidth THEN sample ELSE acc[2]>>

\* maxAckHeightTracker begins a new epoch: there is none, or bytes arrive no
\* faster than expected.  The threshold is 2 with overestimate avoidance.
EpochEnds(s, expected) ==
    s.epoch.start = 0 \/ s.epoch.bytes <= (IF s.avoid THEN 2 ELSE 1) * expected

\* onAckEventEnd with maxAckHeightTracker.Update.
AckEventEnd(s, estimate) ==
    LET newly == s.acked - s.ackedAfterLastEvent
        expected == estimate * (s.lastAckedAckTime - s.epoch.start)
    IN  IF newly = 0 THEN s
        ELSE IF EpochEnds(s, expected)
        THEN [s EXCEPT !.ackedAfterLastEvent = s.acked,
                       !.epoch = [start |-> s.lastAckedAckTime, bytes |-> newly],
                       !.a0Candidates = IF s.avoid THEN Append(@, LessRecentPoint(s.ackPoints)) ELSE @]
        ELSE [s EXCEPT !.ackedAfterLastEvent = s.acked, !.epoch.bytes = @ + newly]

\* What OnCongestionEventEx takes for the least packet that is not acknowledged.
LeastUnacked(acked, lost) == IF acked # {} THEN Max(acked) - 2 ELSE Max(lost) + 1

\* RemoveObsoletePackets.
RemoveObsolete(s, least) == [s EXCEPT !.map = Restrict(@, { p \in DOMAIN @ : p >= least })]

\* OnCongestionEvent within OnCongestionEventEx, which calls maybeAppLimited
\* first and removes obsolete packets last.
SamplerEvent(acked, lost, estimate) ==
    LET limited == Cardinality(stOutstanding) < AppLimitedWindow
        s0 == IF limited THEN Limited(st) ELSE st
        folded == FoldLeft(Acknowledged, <<s0, NoSample>>, SetToSortSeq(acked, <))
        s1 == IF acked = {} THEN s0 ELSE AckEventEnd(folded[1], estimate)
    IN  /\ st' = RemoveObsolete(s1, LeastUnacked(acked, lost))
        /\ stSample' = folded[2]
        /\ stSince' = IF limited THEN [called |-> TRUE, last |-> st.lastSent, acked |-> acked \ {0}]
                      ELSE [stSince EXCEPT !.acked = @ \union (acked \ {0})]
        /\ stOutstanding' = stOutstanding \ (acked \union lost)
        /\ stLargest' = Max(acked \union {stLargest})
        /\ UNCHANGED stNow

\* An acknowledgement, or the timer that declares losses.
QuicEvent(acked, lost) ==
    LET largest == Max(acked \union {stLargest})
        left == stOutstanding \ acked
    IN  /\ acked \union lost # {}
        /\ \E k \in (largest - packetThreshold) .. (largest - 1) : lost = { p \in left : p <= k }

SamplerTick == stNow < MaxClock /\ stNow' = stNow + 1
               /\ UNCHANGED <<st, stOutstanding, stLargest, stSample, stSince>>

SamplerNext ==
    \/ SamplerTick \/ \E r \in BOOLEAN : SamplerSend(r)
    \/ \E acked, lost \in SUBSET stOutstanding :
         /\ QuicEvent(acked, lost)
         /\ \E estimate \in Estimates : SamplerEvent(acked, lost, estimate)

SamplerSpec == SamplerInit /\ [][SamplerNext]_stVars

-----------------------------------------------------------------------------
(***************************************************************************)
(* Properties                                                              *)
(***************************************************************************)

\* bbr_sender.go:618-631: the obsolete packets are removed by an estimate of
\* FirstOutstanding.  Whatever is acknowledged, lost or reordered, the state of
\* a packet still in flight is there when its acknowledgement comes.
StateKept == stOutstanding \ {0} \subseteq DOMAIN st.map

\* bandwidth_sampler.go:407-411: "once OnAppLimited() is called, all sent
\* packets will produce app-limited samples up until an ack for a packet that
\* was sent after OnAppLimited() was called".
AppLimitedPhase ==
    st.isAppLimited <=> stSince.called /\ \A p \in stSince.acked : p <= stSince.last

\* The candidates for A0 are in the order of their times and of their bytes,
\* and none is in the future: the rate of acknowledgement is never computed
\* from a negative difference (bandwidth_sampler.go:733-760, 803-820).
CandidatesOrdered ==
    LET points == st.a0Candidates \o st.ackPoints
    IN  /\ \A i, j \in DOMAIN st.a0Candidates : i <= j =>
             st.a0Candidates[i].ackTime <= st.a0Candidates[j].ackTime
               /\ st.a0Candidates[i].total <= st.a0Candidates[j].total
        /\ \A i \in DOMAIN points : points[i].ackTime <= stNow /\ points[i].total <= st.acked

\* The slope of a sample begins at a point acknowledged before its packet was
\* sent, unless a later packet was acknowledged first (bandwidth_sampler.go:
\* 733-760; the candidates of a later packet are all that is left then).
A0BeforeSend ==
    stSample.packet = stLargest /\ stLargest > 0 =>
      stSample.a0.total <= stSample.sent.total /\ stSample.a0.ackTime <= stSample.sent.ackTime

\* The samples rest on the state kept of their own packet, on a point before it
\* was sent, and the filter's best is one the window still holds.
SamplesExact ==
    /\ StateKept /\ AppLimitedPhase /\ CandidatesOrdered /\ A0BeforeSend
    /\ EstimatesOrdered /\ BestIsRecent
=============================================================================
