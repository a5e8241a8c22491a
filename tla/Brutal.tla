------------------------------- MODULE Brutal -------------------------------
(***************************************************************************)
(* The Brutal congestion control (core/internal/congestion/brutal): the    *)
(* acknowledgement rate of the last seconds, by which the sending rate and *)
(* the window are raised to make up for losses.  Its pacer is below.        *)
(***************************************************************************)
EXTENDS Integers, FiniteSetsExt

CONSTANTS
    pktInfoSlotCount,       \* 5
    minSampleCount,         \* 50
    minAckNum, minAckDen,   \* minAckRate, 4/5
    MaxSecond,              \* bound on the seconds
    MaxPerEvent             \* bound on the packets acknowledged or lost in an event

ASSUME BrutalAssumption ==
    /\ {pktInfoSlotCount, minSampleCount, minAckDen, MaxSecond, MaxPerEvent} \subseteq Nat \ {0}
    /\ minAckNum \in 1 .. minAckDen

VARIABLES
    bsecond,        \* the time in seconds
    disableLossCompensation,
    pktInfoSlots,   \* [Timestamp, AckCount, LossCount] per slot
    ackRate,        \* <<acks, packets>>, 1 being <<1, 1>>
    bLog            \* per second of the window: <<acks, losses>>

brVars == <<bsecond, disableLossCompensation, pktInfoSlots, ackRate, bLog>>

Slots == 0 .. pktInfoSlotCount - 1

BrutalInit ==
    /\ bsecond = 0 /\ disableLossCompensation \in BOOLEAN
    /\ pktInfoSlots = [s \in Slots |-> [Timestamp |-> 0, AckCount |-> 0, LossCount |-> 0]]
    /\ ackRate = <<1, 1>>
    /\ bLog = [s \in 0 .. MaxSecond |-> <<0, 0>>]

\* The rate of the counts: 1 without enough samples, and never below minAckRate.
AckRate(acks, losses) ==
    IF disableLossCompensation \/ acks + losses < minSampleCount THEN <<1, 1>>
    ELSE IF acks * minAckDen < minAckNum * (acks + losses) THEN <<minAckNum, minAckDen>>
    ELSE <<acks, acks + losses>>

SlotIsCurrent(slot) == slot.Timestamp = bsecond

\* updateAckRate.
UpdatedRate(slots) ==
    LET recent == { s \in Slots : slots[s].Timestamp >= bsecond - pktInfoSlotCount }
    IN  AckRate(FoldSet(LAMBDA s, n : n + slots[s].AckCount, 0, recent),
                FoldSet(LAMBDA s, n : n + slots[s].LossCount, 0, recent))

\* OnCongestionEventEx.
BrutalEvent(acked, lost) ==
    LET i == bsecond % pktInfoSlotCount
        slot == IF SlotIsCurrent(pktInfoSlots[i]) THEN pktInfoSlots[i]
                ELSE [AckCount |-> 0, LossCount |-> 0]
    IN  /\ pktInfoSlots' = [pktInfoSlots EXCEPT ![i] =
                              [Timestamp |-> bsecond, AckCount |-> slot.AckCount + acked,
                               LossCount |-> slot.LossCount + lost]]
        /\ ackRate' = UpdatedRate(pktInfoSlots')
        /\ bLog' = [bLog EXCEPT ![bsecond] = <<@[1] + acked, @[2] + lost>>]
        /\ UNCHANGED <<bsecond, disableLossCompensation>>

\* A second passes; bLog forgets the seconds out of the window.
BrutalTick ==
    /\ bsecond < MaxSecond /\ bsecond' = bsecond + 1
    /\ bLog' = [s \in DOMAIN bLog |-> IF s <= bsecond' - pktInfoSlotCount THEN <<0, 0>> ELSE bLog[s]]
    /\ UNCHANGED <<disableLossCompensation, pktInfoSlots, ackRate>>

BrutalNext ==
    \/ BrutalTick
    \/ \E acked, lost \in 0 .. MaxPerEvent :
         /\ acked + lost > 0 /\ bLog[bsecond][1] + bLog[bsecond][2] < MaxPerEvent
         /\ BrutalEvent(acked, lost)

BrutalSpec == BrutalInit /\ [][BrutalNext]_brVars

-----------------------------------------------------------------------------
(***************************************************************************)
(* Properties                                                              *)
(***************************************************************************)

\* After an event the rate is that of the packets of the last pktInfoSlotCount
\* seconds, and of no other, however long the pauses between events were and
\* whichever slots they fell into (brutal.go:109-171).
RateOfWindow ==
    LET Total(i) == FoldSet(LAMBDA s, n : n + bLog[s][i], 0, DOMAIN bLog)
    IN  bLog[bsecond] # <<0, 0>> => ackRate = AckRate(Total(1), Total(2))

-----------------------------------------------------------------------------
(***************************************************************************)
(* The token bucket of core/internal/congestion/common/pacer.go, which     *)
(* paces the senders of Brutal and BBR.  A second has Nano units of time   *)
(* and an integer Width bits.                                              *)
(***************************************************************************)

CONSTANTS
    Nano,               \* 10^9
    Width,              \* 64
    PacerSizes,      \* the values of maxDatagramSize
    Bandwidths,         \* what getBandwidth may return, in bytes/s
    maxBurstPackets,    \* 10
    MinPacingDelay,     \* of quic-go, in units of time
    MaxIdle             \* bound on the time between two packets

ASSUME PacerAssumption ==
    /\ {Nano, Width, maxBurstPackets, MinPacingDelay, MaxIdle} \subseteq Nat \ {0}
    /\ PacerSizes \subseteq Nat \ {0} /\ Bandwidths \subseteq Nat \ {0}
    /\ PacerSizes # {} /\ Bandwidths # {}

VARIABLES
    pcBandwidth,        \* what getBandwidth returns
    maxDatagramSize,
    budgetAtLastSent,
    pcSent,             \* a packet was sent: lastSentTime is not zero
    pcElapsed,          \* time since lastSentTime
    pcCredit            \* a bucket of the largest rate and burst, in bytes/Nano

pcVars == <<pcBandwidth, maxDatagramSize, budgetAtLastSent, pcSent, pcElapsed, pcCredit>>

-----------------------------------------------------------------------------
\* A product as a signed integer of Width bits.
Wrap(x) == ((x + 2^(Width - 1)) % 2^Width) - 2^(Width - 1)

\* Division truncates towards zero.
Quot(x, y) == IF x >= 0 THEN x \div y ELSE -((-x) \div y)

maxBurstSize(bw, size) == Max({(4 * MinPacingDelay * bw) \div Nano, maxBurstPackets * size})

\* Budget, elapsed after the last packet.  A product that wraps to a negative
\* number is taken for a large one.
Budget(elapsed) ==
    LET burst == maxBurstSize(pcBandwidth, maxDatagramSize)
        budget == budgetAtLastSent + Quot(Wrap(pcBandwidth * elapsed), Nano)
    IN  IF ~pcSent \/ budget < 0 THEN burst ELSE Min({burst, budget})

Ceil(x, y) == x \div y + IF x % y > 0 THEN 1 ELSE 0

\* TimeUntilSend as a delay after the last packet; 0 is at once.
TimeUntilSend ==
    IF budgetAtLastSent >= maxDatagramSize THEN 0
    ELSE Max({MinPacingDelay, Ceil(Nano * (maxDatagramSize - budgetAtLastSent), pcBandwidth)})

-----------------------------------------------------------------------------
Depth == Nano * maxBurstSize(Max(Bandwidths), Max(PacerSizes))

\* NewPacer, with the smallest packets.
PacerInit ==
    /\ pcBandwidth \in Bandwidths /\ maxDatagramSize = Min(PacerSizes)
    /\ budgetAtLastSent = maxBurstPackets * maxDatagramSize
    /\ pcSent = FALSE /\ pcElapsed = 0 /\ pcCredit = Depth


\* What SentPacket leaves of the budget.
Left(budget, size) == IF size > budget THEN 0 ELSE budget - size

\* SentPacket.  A probe or an acknowledgement is sent without asking
\* HasPacingBudget.
PacerSend(size, paced) ==
    /\ paced => Budget(pcElapsed) >= maxDatagramSize
    /\ budgetAtLastSent' = Left(Budget(pcElapsed), size)
    /\ pcSent' = TRUE /\ pcElapsed' = 0
    /\ pcCredit' = IF paced THEN pcCredit - Nano * size ELSE Max({0, pcCredit - Nano * size})
    /\ UNCHANGED <<pcBandwidth, maxDatagramSize>>

PacerSetMaxDatagramSize(size) ==
    /\ size > maxDatagramSize /\ maxDatagramSize' = size
    /\ UNCHANGED <<pcBandwidth, budgetAtLastSent, pcSent, pcElapsed, pcCredit>>

\* The sender's estimate changes.
PacerBandwidth(bw) ==
    /\ bw # pcBandwidth /\ pcBandwidth' = bw
    /\ UNCHANGED <<maxDatagramSize, budgetAtLastSent, pcSent, pcElapsed, pcCredit>>

PacerTick ==
    /\ pcElapsed < MaxIdle /\ pcElapsed' = pcElapsed + 1
    /\ pcCredit' = Min({Depth, pcCredit + Max(Bandwidths)})
    /\ UNCHANGED <<pcBandwidth, maxDatagramSize, budgetAtLastSent, pcSent>>

PacerNext ==
    \/ PacerTick \/ \E bw \in Bandwidths : PacerBandwidth(bw)
    \/ \E size \in PacerSizes : PacerSetMaxDatagramSize(size)
    \/ \E size \in 1 .. maxDatagramSize, paced \in BOOLEAN : PacerSend(size, paced)

PacerSpec == PacerInit /\ [][PacerNext]_pcVars

-----------------------------------------------------------------------------
(***************************************************************************)
(* Properties                                                              *)
(***************************************************************************)

\* In any stretch of time the packets that asked for a budget stay within the
\* largest rate and one burst, whatever the rate did meanwhile, whatever was
\* sent without asking, and when the product overflows (pacer.go:32-58).
PacedRateKept == pcCredit >= 0

\* A sender without a budget is told to wait: TimeUntilSend is not in the past,
\* so the send loop does not spin, as long as the product does not overflow
\* (pacer.go:66-75; bbr_sender.go:663-672 guards the same).
NoSpin ==
    pcBandwidth * pcElapsed < 2^(Width - 1) /\ Budget(pcElapsed) < maxDatagramSize
      => TimeUntilSend > pcElapsed

\* The rate that was asked for is the one sent at: the acknowledgement rate is
\* that of the last seconds, and the pacer keeps to it without waiting for nothing.
RateKept == RateOfWindow /\ PacedRateKept /\ NoSpin
=============================================================================
