--------------------------- MODULE DirectOutbound ---------------------------
(***************************************************************************)
(* The direct outbound of extras/outbounds/ob_direct.go: the address       *)
(* family its mode selects, the race of dualStackDialTCP, and the sockets  *)
(* of UDP with and without a bound address or device.  A request's         *)
(* ResolveInfo is the set of families it has an address of.                *)
(***************************************************************************)
EXTENDS Integers, Sequences

CONSTANT Nothing    \* no family, no result

Families == {4, 6}
Modes == {"auto", "64", "46", "6", "4"}

ASSUME DirectAssumption == Nothing \notin Families

VARIABLES
    dMode, dBind,   \* Mode; the families with a bind address
    dDevice,        \* DeviceName # ""
    dAddr,          \* the families of the request's addresses
    dPC,            \* TCP: "idle", "dialing", "race", "second", "returned"; UDP: "socket", ...
    dial,           \* what the dial of a family is doing
    ch,             \* results in the channel of dualStackDialTCP
    dConn,          \* the family of the connection TCP returned, or Nothing
    drainer,        \* the goroutine that waits for the other result: "none", "waiting", "done"
    open,           \* families with an open TCP connection
    socket,         \* the UDP socket: "none", "open", "closed"
    State,          \* directOutboundUDPConn.State: dual stack (Nothing), 4 or 6
    wrote           \* the families of the addresses written to

doVars == <<dMode, dBind, dDevice, dAddr, dPC, dial, ch, dConn, drainer, open,
            socket, State, wrote>>

dCfg == <<dMode, dBind, dDevice>>
tcpState == <<dial, ch, dConn, drainer, open>>
udpState == <<socket, State, wrote>>

DirectInit ==
    /\ dMode \in Modes /\ dBind \in SUBSET Families /\ dDevice \in BOOLEAN
    /\ dAddr \in SUBSET Families
    /\ dPC = "idle"
    /\ dial = [f \in Families |-> "none"] /\ ch = <<>> /\ dConn = Nothing
    /\ drainer = "none" /\ open = {}
    /\ socket = "none" /\ State = Nothing /\ wrote = {}

\* The order in which the switch of TCP, of UDP and of WriteTo tries families;
\* auto prefers IPv4 where it has to decide.
Preference(mode) ==
    CASE mode \in {"auto", "46"} -> <<4, 6>>
      [] mode = "64" -> <<6, 4>>
      [] mode = "6" -> <<6>> [] mode = "4" -> <<4>>

\* The first family in that order that there is an address of.
Pick(addr) ==
    LET p == Preference(dMode)
        able == {i \in DOMAIN p : p[i] \in addr}
    IN  IF able = {} THEN Nothing ELSE p[CHOOSE i \in able : \A j \in able : i <= j]

-----------------------------------------------------------------------------
(***************************************************************************)
(* TCP                                                                     *)
(***************************************************************************)

DirectTCP ==
    /\ dPC = "idle"
    /\ CASE dMode = "auto" /\ dAddr = Families ->
              dial' = [f \in Families |-> "dialing"] /\ dPC' = "race"
         [] ~(dMode = "auto" /\ dAddr = Families) /\ Pick(dAddr) # Nothing ->
              /\ dial' = [dial EXCEPT ![Pick(dAddr)] = "dialing"]
              /\ dPC' = "dialing"
         [] OTHER -> dPC' = "returned" /\ UNCHANGED dial
    /\ UNCHANGED <<dCfg, dAddr, ch, dConn, drainer, open, udpState>>

\* A dial ends.  In a race the result goes to the channel, which holds two.
DialEnds(f, ok) ==
    /\ dial[f] = "dialing"
    /\ dial' = [dial EXCEPT ![f] = "ended"]
    /\ open' = IF ok THEN open \cup {f} ELSE open
    /\ IF dPC = "dialing"
       THEN /\ dConn' = IF ok THEN f ELSE Nothing
            /\ dPC' = "returned" /\ UNCHANGED ch
       ELSE /\ ch' = Append(ch, IF ok THEN f ELSE Nothing)
            /\ UNCHANGED <<dConn, dPC>>
    /\ UNCHANGED <<dCfg, dAddr, drainer, udpState>>

\* Where an error of the first result leads.
OnError == "second"

FirstResult ==
    /\ dPC = "race" /\ ch # <<>>
    /\ ch' = Tail(ch)
    /\ IF Head(ch) # Nothing
       THEN dConn' = Head(ch) /\ dPC' = "returned" /\ drainer' = "waiting"
       ELSE dPC' = OnError /\ UNCHANGED <<dConn, drainer>>
    /\ UNCHANGED <<dCfg, dAddr, dial, open, udpState>>

SecondResult ==
    /\ dPC = "second" /\ ch # <<>>
    /\ ch' = Tail(ch) /\ dConn' = Head(ch) /\ dPC' = "returned"
    /\ UNCHANGED <<dCfg, dAddr, dial, drainer, open, udpState>>

\* The connections closed when the other result comes.
Loser(r) == {r} \cap open

Drain ==
    /\ drainer = "waiting" /\ ch # <<>>
    /\ ch' = Tail(ch) /\ drainer' = "done"
    /\ open' = open \ Loser(Head(ch))
    /\ UNCHANGED <<dCfg, dAddr, dPC, dial, dConn, udpState>>

-----------------------------------------------------------------------------
(***************************************************************************)
(* UDP                                                                     *)
(***************************************************************************)

\* The socket after udpConnBindToDevice failed.
BindFailed == "closed"

\* ListenUDP may fail, and so may binding to the device.
DirectUDP(listens, binds) ==
    LET f == Pick(dAddr)
    IN  /\ dPC = "idle"
        /\ IF dBind = {}
           THEN /\ State' = Nothing
                /\ socket' = CASE ~listens -> "none"
                               [] listens /\ dDevice /\ ~binds -> BindFailed
                               [] OTHER -> "open"
                /\ dPC' = IF listens /\ (dDevice => binds) THEN "udp" ELSE "returned"
           ELSE /\ State' = IF f = Nothing THEN State ELSE f
                /\ socket' = IF f # Nothing /\ listens THEN "open" ELSE "none"
                /\ dPC' = IF f # Nothing /\ listens THEN "udp" ELSE "returned"
        /\ UNCHANGED <<dCfg, dAddr, tcpState, wrote>>

\* The family WriteTo sends to: the one the socket is locked to, if the address
\* has it, or the one the mode selects.
WriteFamily(addr) ==
    IF State = Nothing THEN Pick(addr) ELSE IF State \in addr THEN State ELSE Nothing

DirectWriteTo(addr) ==
    /\ dPC = "udp" /\ socket = "open"
    /\ wrote' = wrote \cup {<<addr, WriteFamily(addr)>>}
    /\ UNCHANGED <<dCfg, dAddr, dPC, tcpState, socket, State>>

DirectClose ==
    /\ dPC = "udp" /\ socket' = "closed" /\ dPC' = "closed"
    /\ UNCHANGED <<dCfg, dAddr, tcpState, State, wrote>>

DirectNext ==
    \/ DirectTCP \/ FirstResult \/ SecondResult \/ Drain
    \/ \E f \in Families, ok \in BOOLEAN : DialEnds(f, ok)
    \/ \E l \in BOOLEAN, b \in BOOLEAN : DirectUDP(l, b)
    \/ \E addr \in SUBSET Families : DirectWriteTo(addr)
    \/ DirectClose

\* The goroutines of TCP; a dial ends, if only by its timeout.
DialStep ==
    FirstResult \/ SecondResult \/ Drain
      \/ \E f \in Families, ok \in BOOLEAN : DialEnds(f, ok)

DirectSpec == DirectInit /\ [][DirectNext]_doVars /\ WF_doVars(DialStep)

-----------------------------------------------------------------------------
(***************************************************************************)
(* Properties                                                              *)
(***************************************************************************)

\* What the modes promise (ob_direct.go:15-19): only addresses there are, none
\* of a family the mode excludes, and the preferred one when there are both.
Selects(mode, addr, f) ==
    /\ f \in addr
    /\ mode = "6" => f = 6
    /\ mode = "4" => f = 4
    /\ mode = "64" /\ 6 \in addr => f = 6
    /\ mode = "46" /\ 4 \in addr => f = 4

\* Every TCP connection and every datagram goes to a family that the mode
\* selects among the addresses of the target; a socket bound to an address stays
\* with the family it was opened for, and a request that has an address the mode
\* allows is refused only by the network.
ModeRespected ==
    /\ dConn # Nothing => Selects(dMode, dAddr, dConn)
    /\ \A w \in wrote :
         IF State = Nothing
         THEN w[2] = Nothing <=> ~\E f \in w[1] : Selects(dMode, w[1], f)
         ELSE w[2] \in {State, Nothing}
    /\ \A w \in wrote : w[2] # Nothing /\ State = Nothing => Selects(dMode, w[1], w[2])

\* The race is won by a connection if any dial succeeds, and fails only when
\* both fail (ob_direct.go:262-264).
RaceWon ==
    dPC = "returned" /\ dConn = Nothing => open = {}

\* A socket that UDP does not return is not left open.
NoSocketLeft == dPC \in {"returned", "closed"} => socket # "open"

\* In the end at most the connection that TCP returned is open: the loser of the
\* race is closed, however late it arrives.
LoserClosed ==
    <>[](dPC = "returned" => open \subseteq {dConn})

-----------------------------------------------------------------------------
(***************************************************************************)
(* The connection of extras/outbounds/fastopen.go, which dials on its      *)
(* first Write: Read, Write, Close and the deadline setters called by the  *)
(* goroutines of a relay, under connLock.  A Write holds the write lock    *)
(* while it dials, so that the others wait for the dial.                   *)
(***************************************************************************)

CONSTANTS
    FOReaders, FOWriters,  \* goroutines that call Read, that call Write
    Closer,                \* the goroutine that closes the connection
    Free                   \* an unlocked connLock

ASSUME FastOpenAssumption == Free \notin FOWriters /\ Closer \notin FOReaders \cup FOWriters

VARIABLES
    foConn,      \* c.conn: "nil", "open", "closed"
    foLock,      \* the holder of connLock for writing
    readyChan,   \* "open", "closed", "panic" when it is closed twice
    foDeadline,  \* c.deadline: set before the connection is there
    applied,     \* the deadline is set on c.conn
    foPC,        \* where each goroutine is
    foRes,       \* what its last call returned
    dials,       \* dials made
    closedRet    \* Close has returned

foVars == <<foConn, foLock, readyChan, foDeadline, applied, foPC, foRes, dials, closedRet>>

FOProcs == FOReaders \cup FOWriters \cup {Closer}

FastOpenInit ==
    /\ foConn = "nil" /\ foLock = Free /\ readyChan = "open"
    /\ foDeadline = FALSE /\ applied = FALSE
    /\ foPC = [p \in FOProcs |-> "idle"] /\ foRes = [p \in FOProcs |-> "none"]
    /\ dials = 0 /\ closedRet = FALSE

\* RLock is granted.
Unlocked == foLock = Free

IsClosedBeforeReady == readyChan # "open" /\ foConn = "nil"

CloseReady == readyChan' = IF readyChan = "open" THEN "closed" ELSE "panic"

Goto(p, l) == foPC' = [foPC EXCEPT ![p] = l]
Return(p, r) == Goto(p, "done") /\ foRes' = [foRes EXCEPT ![p] = r]

-----------------------------------------------------------------------------
\* Read: on the connection if there is one, else once readyChan is closed.
ReadStart(p) ==
    /\ foPC[p] = "idle" /\ Unlocked
    /\ Goto(p, IF foConn = "nil" THEN "wait" ELSE "read")
    /\ UNCHANGED <<foConn, foLock, readyChan, foDeadline, applied, foRes, dials, closedRet>>

ReadReady(p) ==
    /\ foPC[p] = "wait" /\ readyChan # "open"
    /\ IF foConn = "nil" THEN Return(p, "ErrClosed")
       ELSE Goto(p, "read") /\ UNCHANGED foRes
    /\ UNCHANGED <<foConn, foLock, readyChan, foDeadline, applied, dials, closedRet>>

\* conn.Read: data from the target, or an error once it is closed.
ReadConn(p) ==
    /\ foPC[p] = "read"
    /\ Return(p, IF foConn = "open" THEN "data" ELSE "error")
    /\ UNCHANGED <<foConn, foLock, readyChan, foDeadline, applied, dials, closedRet>>

\* Write, up to connLock.Lock.
WriteStart(p) ==
    /\ foPC[p] = "idle" /\ Unlocked
    /\ IF foConn # "nil" THEN Return(p, IF foConn = "open" THEN "data" ELSE "error")
       ELSE IF IsClosedBeforeReady THEN Return(p, "ErrClosed")
       ELSE Goto(p, "lock") /\ UNCHANGED foRes
    /\ UNCHANGED <<foConn, foLock, readyChan, foDeadline, applied, dials, closedRet>>

\* Mutant of Checked: the state is not looked at again under the lock.
CheckedBefore == "dial"

\* What Write finds under the lock.
Checked ==
    IF IsClosedBeforeReady THEN "closed" ELSE IF foConn # "nil" THEN "write" ELSE "dial"

WriteLock(p) ==
    /\ foPC[p] = "lock" /\ Unlocked
    /\ CASE Checked = "closed" -> Return(p, "ErrClosed") /\ UNCHANGED foLock
         [] Checked = "write" ->
              Return(p, IF foConn = "open" THEN "data" ELSE "error") /\ UNCHANGED foLock
         [] Checked = "dial" -> Goto(p, "dial") /\ foLock' = p /\ UNCHANGED foRes
    /\ UNCHANGED <<foConn, readyChan, foDeadline, applied, dials, closedRet>>

\* Mutant of FailedDial: readers are not told.
FailedDialQuiet == UNCHANGED readyChan

\* A dial that fails ends the connection for the readers too.
FailedDial == CloseReady

Applies == foDeadline

\* The dial with the first data, and the deadline set before.
WriteDial(p, ok) ==
    /\ foPC[p] = "dial"
    /\ dials' = dials + 1
    /\ foLock' = Free
    /\ IF ok THEN /\ foConn' = "open" /\ CloseReady
                  /\ applied' = Applies /\ Return(p, "data")
       ELSE FailedDial /\ Return(p, "error") /\ UNCHANGED <<foConn, applied>>
    /\ UNCHANGED <<foDeadline, closedRet>>

MayClose == Unlocked

FOClose ==
    /\ foPC[Closer] = "idle" /\ MayClose
    /\ Return(Closer, IF IsClosedBeforeReady THEN "ErrClosed" ELSE "nil")
    /\ IF IsClosedBeforeReady THEN UNCHANGED <<foConn, readyChan>>
       ELSE IF foConn # "nil" THEN foConn' = "closed" /\ UNCHANGED readyChan
       ELSE CloseReady /\ UNCHANGED foConn
    /\ closedRet' = TRUE
    /\ UNCHANGED <<foLock, foDeadline, applied, dials>>

\* SetDeadline and its two likes.
SetDeadline ==
    /\ Unlocked /\ ~foDeadline
    /\ foDeadline' = TRUE
    /\ applied' = (applied \/ foConn = "open")
    /\ UNCHANGED <<foConn, foLock, readyChan, foPC, foRes, dials, closedRet>>

\* A goroutine calls again.
CallAgain(p) ==
    /\ p # Closer /\ foPC[p] = "done" /\ foRes[p] = "data"
    /\ Goto(p, "idle")
    /\ UNCHANGED <<foConn, foLock, readyChan, foDeadline, applied, foRes, dials, closedRet>>

FastOpenNext ==
    \/ FOClose \/ SetDeadline
    \/ \E p \in FOReaders : ReadStart(p) \/ ReadReady(p) \/ ReadConn(p)
    \/ \E p \in FOWriters : \/ WriteStart(p) \/ WriteLock(p)
                            \/ \E ok \in BOOLEAN : WriteDial(p, ok)
    \/ \E p \in FOReaders \cup FOWriters : CallAgain(p)

FOStep(p) == IF p \in FOReaders THEN ReadReady(p) \/ (foConn # "open" /\ ReadConn(p))
             ELSE WriteLock(p) \/ \E ok \in BOOLEAN : WriteDial(p, ok)

FastOpenSpec ==
    /\ FastOpenInit /\ [][FastOpenNext]_foVars
    /\ \A p \in FOReaders \cup FOWriters : WF_foVars(FOStep(p))

-----------------------------------------------------------------------------
(***************************************************************************)
(* Properties                                                              *)
(***************************************************************************)

\* However Read, Write and Close interleave, readyChan is closed once and at
\* most one connection is dialled (fastopen.go:86-120, 134).
DialsOnce == readyChan # "panic" /\ dials <= 1

\* After Close has returned no connection to the target is open or will be, a
\* dial that was under way included (fastopen.go:122-136).
ClosedStaysClosed == closedRet => foConn # "open" /\ foLock = Free

\* A reader that waits for the connection is woken once a write has failed or
\* the connection is closed; one that waits for the first write is not.
WaitersWake ==
    \A p \in FOReaders :
      (foPC[p] = "wait" /\ (closedRet \/ dials > 0)) ~> foPC[p] # "wait"

\* A direct dial goes to a family of its mode, a connection wins the race over an
\* error and no socket is lost; a fast-open connection is dialled once, and never
\* after it was closed.
DialsExact ==
    ModeRespected /\ RaceWon /\ NoSocketLeft /\ DialsOnce /\ ClosedStaysClosed
=============================================================================
