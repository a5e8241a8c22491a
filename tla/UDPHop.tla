------------------------------- MODULE UDPHop -------------------------------
(***************************************************************************)
(* The port hopping connection of extras/transport/udphop/conn.go: a       *)
(* net.PacketConn over at most two sockets, with one receiving goroutine   *)
(* for each socket, a hopping goroutine, and the callers of ReadFrom, of   *)
(* Close and of the setters.                                               *)
(***************************************************************************)
EXTENDS Integers, Sequences

CONSTANTS
    Socks,       \* sockets ListenUDPFunc may return
    PortCount,   \* len(addrs)
    QueueSize,   \* packetQueueSize
    Deadlines,       \* deadlines that are set: zero, in the future, past
    Seconds,     \* hop intervals that may be configured
    NoSock       \* a nil net.PacketConn

ASSUME UDPHopAssumption ==
    /\ NoSock \notin Socks /\ Socks # {} /\ PortCount \in Nat \ {0} /\ QueueSize \in Nat \ {0}
    /\ Seconds \subseteq Nat /\ Deadlines \subseteq {"zero", "future", "past"}

VARIABLES
    hopInterval, hopNext,    \* HopInterval, the interval of the running timer
    prevConn, currentConn, addrIndex, hopClosed,
    deadline, readDeadline, writeDeadline, bufSize,   \* what was set last
    sock,        \* socket: its state, its deadlines and its buffer size
    recvLoop,    \* goroutine of a socket: "none", "read", "timeout", "end"
    hopLoop,     \* "select", "hop", "end"
    recvQueue,
    hopReader    \* a caller of ReadFrom: "idle" or "select"

hopSettings == <<deadline, readDeadline, writeDeadline, bufSize>>
hopVars == <<hopInterval, hopNext, prevConn, currentConn, addrIndex, hopClosed,
             hopSettings, sock, recvLoop, hopLoop, recvQueue, hopReader>>

DefaultInterval == 30
LeastInterval == 5

IntervalOK(mn, mx) == mn <= mx /\ mn >= LeastInterval

\* HopIntervalConfig.normalized: the set of the interval, or {} for an error.
Normalized(mn, mx) ==
    IF mn = 0 /\ mx = 0 THEN {[Min |-> DefaultInterval, Max |-> DefaultInterval]}
    ELSE {c \in {[Min |-> mn, Max |-> mx]} : mn # 0 /\ mx # 0 /\ IntervalOK(mn, mx)}

\* nextHopInterval: Min, or Min + rand.Int63n(Max - Min + 1)
NextHopInterval(c) ==
    IF c.Min = c.Max THEN {c.Min} ELSE {c.Min + n : n \in 0 .. (c.Max - c.Min)}

Unopened == [state |-> "unopened", read |-> "zero", write |-> "zero", buf |-> 0]
Opened == [Unopened EXCEPT !.state = "open"]

\* NewUDPHopPacketConn
HopInit ==
    /\ \E mn, mx \in Seconds : hopInterval \in Normalized(mn, mx)
    /\ hopNext \in NextHopInterval(hopInterval)
    /\ prevConn = NoSock
    /\ currentConn = CHOOSE s \in Socks : TRUE
    /\ addrIndex \in 0 .. (PortCount - 1)
    /\ hopClosed = FALSE
    /\ deadline = "zero" /\ readDeadline = "zero" /\ writeDeadline = "zero"
    /\ bufSize = 0
    /\ sock = [s \in Socks |-> IF s = currentConn THEN Opened ELSE Unopened]
    /\ recvLoop = [s \in Socks |-> IF s = currentConn THEN "read" ELSE "none"]
    /\ hopLoop = "select"
    /\ recvQueue = <<>>
    /\ hopReader = "idle"

-----------------------------------------------------------------------------
\* Both sockets, without a nil one.
HopSocks == {prevConn, currentConn} \ {NoSock}

CloseSocks(set) ==
    [s \in Socks |-> IF s \in set THEN [sock[s] EXCEPT !.state = "closed"]
                     ELSE sock[s]]

LoopGoto(s, label) == recvLoop' = [recvLoop EXCEPT ![s] = label]

QueueHasRoom == Len(recvQueue) < QueueSize

\* A packet arrives; when the queue is full it is dropped.
RecvPacket(s) ==
    /\ recvLoop[s] = "read" /\ sock[s].state = "open" /\ sock[s].read # "past"
    /\ QueueHasRoom
    /\ recvQueue' = Append(recvQueue, "packet")
    /\ UNCHANGED <<hopInterval, hopNext, prevConn, currentConn, addrIndex,
                   hopClosed, hopSettings, sock, recvLoop, hopLoop, hopReader>>

\* ReadFrom of the socket fails: a timeout goes on to the queue, anything else
\* ends the loop.
RecvFails(s) ==
    /\ recvLoop[s] = "read"
    /\ sock[s].state = "closed" \/ sock[s].read = "past"
    /\ LoopGoto(s, IF sock[s].state = "closed" THEN "end" ELSE "timeout")
    /\ UNCHANGED <<hopInterval, hopNext, prevConn, currentConn, addrIndex,
                   hopClosed, hopSettings, sock, hopLoop, recvQueue, hopReader>>

\* u.recvQueue <- &udpPacket{nil, 0, nil, netErr}, which blocks on a full queue
RecvTimeout(s) ==
    /\ recvLoop[s] = "timeout" /\ QueueHasRoom
    /\ recvQueue' = Append(recvQueue, "timeout")
    /\ LoopGoto(s, "read")
    /\ UNCHANGED <<hopInterval, hopNext, prevConn, currentConn, addrIndex,
                   hopClosed, hopSettings, sock, hopLoop, hopReader>>

\* The timer fires.
HopTimer ==
    /\ hopLoop = "select"
    /\ hopLoop' = "hop"
    /\ UNCHANGED <<hopInterval, hopNext, prevConn, currentConn, addrIndex,
                   hopClosed, hopSettings, sock, recvLoop, recvQueue, hopReader>>

HopLoopEnds ==
    /\ hopLoop = "select" /\ hopClosed
    /\ hopLoop' = "end"
    /\ UNCHANGED <<hopInterval, hopNext, prevConn, currentConn, addrIndex,
                   hopClosed, hopSettings, sock, recvLoop, recvQueue, hopReader>>

HopMayListen == ~hopClosed

\* hop returns early, when the connection is closed or no socket is to be had,
\* and hopLoop sets the timer again.
HopSkipped ==
    /\ hopLoop = "hop"
    /\ hopLoop' = "select"
    /\ hopNext' \in NextHopInterval(hopInterval)
    /\ UNCHANGED <<hopInterval, prevConn, currentConn, addrIndex, hopClosed,
                   hopSettings, sock, recvLoop, recvQueue, hopReader>>

\* The new socket after the settings have been applied to it.
NewSock ==
    [state |-> "open", buf |-> bufSize,
     read  |-> IF readDeadline # "zero" THEN readDeadline ELSE deadline,
     write |-> IF writeDeadline # "zero" THEN writeDeadline ELSE deadline]

\* Mutant of HopCloses: the current socket is closed as well.
HopClosesBoth == HopSocks

\* The socket hop closes.
HopCloses == {prevConn} \ {NoSock}

\* hop with a new socket s
Hop(s) ==
    /\ hopLoop = "hop" /\ HopMayListen /\ sock[s].state = "unopened"
    /\ sock' = [CloseSocks(HopCloses) EXCEPT ![s] = NewSock]
    /\ prevConn' = currentConn
    /\ currentConn' = s
    /\ LoopGoto(s, "read")
    /\ addrIndex' \in 0 .. (PortCount - 1)
    /\ hopLoop' = "select"
    /\ hopNext' \in NextHopInterval(hopInterval)
    /\ UNCHANGED <<hopInterval, hopClosed, hopSettings, recvQueue, hopReader>>

-----------------------------------------------------------------------------
HopReadFrom ==
    /\ hopReader = "idle"
    /\ hopReader' = "select"
    /\ UNCHANGED <<hopInterval, hopNext, prevConn, currentConn, addrIndex,
                   hopClosed, hopSettings, sock, recvLoop, hopLoop, recvQueue>>

ReadUnblocked == hopClosed

\* The select of ReadFrom: a packet, a timeout, or net.ErrClosed.
HopReadReturns ==
    /\ hopReader = "select"
    /\ hopReader' = "idle"
    /\ \/ recvQueue # <<>> /\ recvQueue' = Tail(recvQueue)
       \/ ReadUnblocked /\ UNCHANGED recvQueue
    /\ UNCHANGED <<hopInterval, hopNext, prevConn, currentConn, addrIndex,
                   hopClosed, hopSettings, sock, recvLoop, hopLoop>>

\* The socket WriteTo sends on.
WriteSock == IF hopClosed THEN NoSock ELSE currentConn

CloseCloses == HopSocks

\* Close; a second call changes nothing.
HopClose ==
    /\ ~hopClosed
    /\ hopClosed' = TRUE
    /\ sock' = CloseSocks(CloseCloses)
    /\ UNCHANGED <<hopInterval, hopNext, prevConn, currentConn, addrIndex,
                   hopSettings, recvLoop, hopLoop, recvQueue, hopReader>>

\* What the three setters of deadlines share: the fields, then both sockets.
SetDeadlines(d, r, w) ==
    /\ deadline' = d /\ readDeadline' = r /\ writeDeadline' = w
    /\ sock' = [s \in Socks |->
                  IF s \in HopSocks THEN [sock[s] EXCEPT !.read = r, !.write = w]
                  ELSE sock[s]]
    /\ UNCHANGED <<hopInterval, hopNext, prevConn, currentConn, addrIndex,
                   hopClosed, bufSize, recvLoop, hopLoop, recvQueue, hopReader>>

SetDeadline(t) == SetDeadlines(t, t, t)

SetReadDeadline(t) == SetDeadlines("zero", t, writeDeadline)

SetWriteDeadline(t) == SetDeadlines("zero", readDeadline, t)

\* SetReadBuffer; SetWriteBuffer is the same for its own size.
SetReadBuffer(n) ==
    /\ bufSize' = n
    /\ sock' = [s \in Socks |->
                  IF s \in HopSocks THEN [sock[s] EXCEPT !.buf = n] ELSE sock[s]]
    /\ UNCHANGED <<hopInterval, hopNext, prevConn, currentConn, addrIndex,
                   hopClosed, deadline, readDeadline, writeDeadline, recvLoop,
                   hopLoop, recvQueue, hopReader>>

-----------------------------------------------------------------------------
RecvStep(s) == RecvFails(s) \/ RecvTimeout(s)
HopStep == HopSkipped \/ \E s \in Socks : Hop(s)

HopStepNext ==
    \/ \E s \in Socks : RecvPacket(s) \/ RecvStep(s)
    \/ HopTimer \/ HopLoopEnds \/ HopStep
    \/ HopReadFrom \/ HopReadReturns \/ HopClose
    \/ \E t \in Deadlines : SetDeadline(t) \/ SetReadDeadline(t) \/ SetWriteDeadline(t)
    \/ SetReadBuffer(1)

HopSpec == HopInit /\ [][HopStepNext]_hopVars

-----------------------------------------------------------------------------
(***************************************************************************)
(* Properties                                                              *)
(***************************************************************************)

\* Exactly the previous and the current socket are open while the connection is,
\* and none once it is closed, even if hop was waiting for the lock meanwhile;
\* WriteTo never uses one that was closed by a hop.
TwoSocketsAtMost ==
    /\ {s \in Socks : sock[s].state = "open"} = IF hopClosed THEN {} ELSE HopSocks
    /\ WriteSock # NoSock => sock[WriteSock].state = "open"

\* Every open socket has the deadlines and the buffer size of the latest calls
\* of the setters, in whatever order they and the hops came.
SettingsFollow ==
    \A s \in Socks : sock[s].state = "open" =>
      /\ sock[s].read = readDeadline /\ sock[s].write = writeDeadline
      /\ sock[s].buf = bufSize

\* A hop keeps receiving on the socket that was current until then.
PreviousStaysOpen ==
    currentConn' # currentConn => prevConn' = currentConn /\ sock'[currentConn].state = "open"

\* After Close the hopping goroutine ends, a waiting ReadFrom returns, and the
\* receiving goroutines end, except for one that waits for room in the queue to
\* report a timeout.
HopShutsDown ==
    hopClosed ~>
      /\ hopLoop = "end" /\ hopReader = "idle"
      /\ \A s \in Socks :
           \/ recvLoop[s] \in {"none", "end"}
           \/ recvLoop[s] = "timeout" /\ Len(recvQueue) = QueueSize

\* A hop is noticed neither by those who send and receive nor by the callers of
\* the setters: this holds before and after every step.
HopSeamless ==
    [][/\ TwoSocketsAtMost /\ TwoSocketsAtMost' /\ SettingsFollow /\ SettingsFollow'
       /\ PreviousStaysOpen]_hopVars
=============================================================================
