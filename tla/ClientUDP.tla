------------------------------ MODULE ClientUDP ------------------------------
(***************************************************************************)
(* The client's UDP session manager, core/client/udp.go: one goroutine     *)
(* (run) takes the server's messages off the QUIC connection and puts each *)
(* in the channel of its session; the application opens sessions, receives *)
(* from them (one goroutine per session) and closes them at any time.  The *)
(* critical sections of the mutex call nothing and are single steps.       *)
(* udpConn.Send, which shares no state with these, is in FragChannel.      *)
(***************************************************************************)
EXTENDS Frag

CONSTANTS
    Conns,     \* pool of udpConn objects, each allocated once
    IDMod,     \* number of values of the uint32 session ID
    ChanSize,  \* udpMessageChanSize
    Messages,  \* messages the server may send
    Nil        \* no entry in the map, no ID yet

IDs == 0..(IDMod - 1)

ASSUME ClientUDPAssumption ==
    /\ Nil \notin Conns /\ Nil \notin Nat
    /\ IDMod \in Nat \ {0, 1}
    /\ ChanSize \in Nat \ {0}
    /\ \A g \in Messages : g.SessionID \in IDs

VARIABLES
    \* udpSessionManager
    m,          \* session ID -> udpConn, Nil if none
    nextID,
    closed,
    running,    \* run has not returned
    \* udpConn
    ID, D,
    ReceiveCh,  \* buffered messages
    Closed,     \* ReceiveCh is closed
    \* environment
    ioAlive,    \* the QUIC connection is up
    rcv,        \* the application's receiver: "idle", "recv", "eof"
    panicked    \* run sent on a closed channel

conn == <<ID, D, ReceiveCh, Closed>>
manager == <<m, nextID, closed, running>>
vars == <<m, nextID, closed, running, ID, D, ReceiveCh, Closed, ioAlive, rcv,
          panicked>>

Init ==
    /\ m = [i \in IDs |-> Nil]
    /\ nextID = 1
    /\ closed = FALSE
    /\ running = TRUE
    /\ ID = [c \in Conns |-> Nil]
    /\ D = [c \in Conns |-> NewDefragger]
    /\ ReceiveCh = [c \in Conns |-> <<>>]
    /\ Closed = [c \in Conns |-> FALSE]
    /\ ioAlive = TRUE
    /\ rcv = [c \in Conns |-> "idle"]
    /\ panicked = FALSE

-----------------------------------------------------------------------------
(***************************************************************************)
(* The manager.                                                            *)
(***************************************************************************)

\* Mutant of ManagerClosed: NewUDP does not look at closed.
NeverClosed == FALSE

ManagerClosed == closed

\* NewUDP, unless the manager is closed.
NewUDP ==
    /\ ~ManagerClosed
    /\ \E c \in Conns : /\ ID[c] = Nil
                        /\ ID' = [ID EXCEPT ![c] = nextID]
                        /\ m' = [m EXCEPT ![nextID] = c]
    /\ nextID' = (nextID + 1) % IDMod
    /\ UNCHANGED <<closed, running, D, ReceiveCh, Closed, ioAlive, rcv,
                   panicked>>

HasRoom(c) == Len(ReceiveCh[c]) < ChanSize

\* run receives a message and feeds it: it is ignored if its session is unknown,
\* dropped if the channel is full.
Feed ==
    /\ running
    /\ \E g \in Messages :
         LET c == m[g.SessionID]
         IN  /\ c # Nil
             /\ panicked' = (panicked \/ Closed[c])
             /\ IF HasRoom(c)
                THEN ReceiveCh' = [ReceiveCh EXCEPT ![c] = Append(@, g)]
                ELSE UNCHANGED ReceiveCh
    /\ UNCHANGED <<manager, ID, D, Closed, ioAlive, rcv>>

\* Mutant of Removed: a closed session stays in the map.
NotRemoved(C) == m

\* The map after delete(m.m, conn.ID) for the sessions C.
Removed(C) == [i \in IDs |-> IF \E c \in C : ID[c] = i THEN Nil ELSE m[i]]

\* close, on those of the sessions C that are not closed yet.
close(C) ==
    LET open == {c \in C : ~Closed[c]}
    IN  /\ Closed' = [c \in Conns |-> Closed[c] \/ c \in open]
        /\ m' = Removed(open)

\* Mutant of Leftover: sessions with messages still to be received are spared.
LeftoverEmpty == {m[i] : i \in IDs} \ ({Nil} \cup {c \in Conns : ReceiveCh[c] # <<>>})

\* The sessions closeCleanup closes.
Leftover == {m[i] : i \in IDs} \ {Nil}

\* ReceiveMessage fails: run returns through closeCleanup.  Datagrams that were
\* queued before the connection went down are still received.
RunReturns ==
    /\ running /\ ~ioAlive
    /\ running' = FALSE
    /\ closed' = TRUE
    /\ close(Leftover)
    /\ UNCHANGED <<nextID, ID, D, ReceiveCh, ioAlive, rcv, panicked>>

-----------------------------------------------------------------------------
(***************************************************************************)
(* The application.                                                        *)
(***************************************************************************)

\* udpConn.Close, which may be called again.
Close(c) ==
    /\ ID[c] # Nil
    /\ close({c})
    /\ UNCHANGED <<nextID, closed, running, ID, D, ReceiveCh, ioAlive, rcv,
                   panicked>>

CallReceive(c) ==
    /\ ID[c] # Nil /\ rcv[c] = "idle"
    /\ rcv' = [rcv EXCEPT ![c] = "recv"]
    /\ UNCHANGED <<manager, conn, ioAlive, panicked>>

\* Receive takes a message off the channel, closed or not, and returns if it
\* completes a packet.
Receive(c) ==
    /\ rcv[c] = "recv" /\ ReceiveCh[c] # <<>>
    /\ ReceiveCh' = [ReceiveCh EXCEPT ![c] = Tail(@)]
    /\ LET r == DefraggerFeed(D[c], Head(ReceiveCh[c]))
       IN  /\ D' = [D EXCEPT ![c] = r.d]
           /\ IF r.out = NoMsg THEN UNCHANGED rcv
              ELSE rcv' = [rcv EXCEPT ![c] = "idle"]
    /\ UNCHANGED <<manager, ID, Closed, ioAlive, panicked>>

\* Receive finds the channel closed and drained: io.EOF.
ReceiveEOF(c) ==
    /\ rcv[c] = "recv" /\ ReceiveCh[c] = <<>> /\ Closed[c]
    /\ rcv' = [rcv EXCEPT ![c] = "eof"]
    /\ UNCHANGED <<manager, conn, ioAlive, panicked>>

ConnectionLost ==
    /\ ioAlive
    /\ ioAlive' = FALSE
    /\ UNCHANGED <<manager, conn, rcv, panicked>>

Receiver(c) == Receive(c) \/ ReceiveEOF(c)

Next ==
    \/ NewUDP \/ Feed \/ RunReturns \/ ConnectionLost
    \/ \E c \in Conns : Close(c) \/ CallReceive(c) \/ Receiver(c)

Spec == Init /\ [][Next]_vars

\* A receiver that can go on does, and run sees the connection fail.
Fairness ==
    /\ WF_vars(RunReturns)
    /\ \A c \in Conns : WF_vars(Receiver(c))

FairSpec == Spec /\ Fairness

-----------------------------------------------------------------------------
(***************************************************************************)
(* Properties                                                              *)
(***************************************************************************)

\* Every variable has its type; no channel holds more than it has room for.
TypeOK ==
    /\ m \in [IDs -> Conns \cup {Nil}]
    /\ nextID \in IDs
    /\ closed \in BOOLEAN /\ running \in BOOLEAN /\ ioAlive \in BOOLEAN
    /\ ID \in [Conns -> IDs \cup {Nil}]
    /\ ReceiveCh \in [Conns -> Seq(Messages)]
    /\ \A c \in Conns : Len(ReceiveCh[c]) <= ChanSize
    /\ Closed \in [Conns -> BOOLEAN]
    /\ rcv \in [Conns -> {"idle", "recv", "eof"}]
    /\ panicked \in BOOLEAN

\* run never sends on a channel that Close or closeCleanup closed, though both
\* race with feed, and even if the session IDs wrap around.
NoPanic == ~panicked

\* io.EOF is final: no message is put in a channel whose receiver was told that
\* there will be none.
EOFIsFinal == \A c \in Conns : rcv[c] = "eof" => ReceiveCh[c] = <<>>

\* The map holds exactly the open sessions, each under its own ID.
TableExact ==
    /\ \A i \in IDs : m[i] # Nil => ID[m[i]] = i
    /\ \A c \in Conns : ID[c] # Nil => (m[ID[c]] = c <=> ~Closed[c])

\* Once run returned every session ever opened is closed, and none is opened
\* any more, however NewUDP and closeCleanup race.
CleanAfterRun ==
    ~running => \A c \in Conns : ID[c] # Nil => Closed[c]

\* Nobody waits for ever: after Close, or once the connection is lost, a call
\* of Receive returns.
ReceiversReturn ==
    \A c \in Conns : Closed[c] \/ ~ioAlive ~> [](rcv[c] # "recv")
=============================================================================
