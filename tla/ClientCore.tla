----------------------------- MODULE ClientCore -----------------------------
(***************************************************************************)
(* The client of core/client/client.go: connect and what it releases when  *)
(* it fails, TCP with and without fast open, the response that the first   *)
(* Read of a fast-opened connection takes off the stream, and Close.       *)
(* Streams deliver in order what the server writes: a response, data, end. *)
(***************************************************************************)
EXTENDS Integers, Sequences, FiniteSets, Functions

CONSTANTS
    Calls,       \* calls of Client.TCP, each with its stream
    StreamLimit, \* streams the server lets a client have open
    MaxChunks    \* chunks of data a server sends on a stream

ASSUME ClientCoreAssumption == StreamLimit \in Nat /\ MaxChunks \in Nat

VARIABLES
    FastOpen,  \* config.FastOpen
    cnPC,      \* connect: "new", "dial", "auth", "up", "failed", "closed"
    held,      \* what is open of {"pktConn", "tr", "conn"}
    alive,     \* the QUIC connection has not failed
    tcpPC,     \* "idle", "request", "response", "conn", "closed", or the error
    Established,
    wire,      \* what a server has written to a stream and no one has read
    accepted,  \* streams whose request reached the server
    answered,  \* what the server said of a stream: "none", "ok", "error", "end"
    sent,      \* chunks the server has written
    got        \* what Read has returned on a connection

ccVars == <<FastOpen, cnPC, held, alive, tcpPC, Established, wire, accepted, answered, sent,
            got>>

TCPErrors == {"ClosedError", "DialError", "StreamLimit"}

ClientCoreInit ==
    /\ FastOpen \in BOOLEAN
    /\ cnPC = "new" /\ held = {} /\ alive = FALSE
    /\ tcpPC = [t \in Calls |-> "idle"]
    /\ Established = [t \in Calls |-> FALSE]
    /\ wire = [t \in Calls |-> <<>>]
    /\ accepted = {}
    /\ answered = [t \in Calls |-> "none"]
    /\ sent = [t \in Calls |-> 0]
    /\ got = [t \in Calls |-> <<>>]

connState == <<FastOpen, cnPC, held, alive>>
streamState == <<FastOpen, tcpPC, Established, wire, accepted, answered, sent, got>>

-----------------------------------------------------------------------------
(***************************************************************************)
(* connect                                                                 *)
(***************************************************************************)

\* ConnFactory.New, and the transport over its packet connection.
NewConn ==
    /\ cnPC = "new"
    /\ \/ cnPC' = "failed" /\ UNCHANGED held
       \/ cnPC' = "dial" /\ held' = {"pktConn", "tr"}
    /\ UNCHANGED <<alive, streamState>>

\* DialEarly inside RoundTrip.
DialEarly ==
    /\ cnPC = "dial"
    /\ cnPC' = "auth" /\ held' = held \cup {"conn"} /\ alive' = TRUE
    /\ UNCHANGED streamState

\* Mutant of Released: only the connection and the transport are closed.
ReleasedTransport == {"conn", "tr"}

\* What an error path of connect, and Close, close.
Released == {"conn", "tr", "pktConn"}

\* RoundTrip fails, before or after the dial, or the status is not StatusAuthOK.
ClientConnectFails ==
    /\ cnPC \in {"dial", "auth"}
    /\ cnPC' = "failed" /\ held' = held \ Released /\ alive' = FALSE
    /\ UNCHANGED streamState

AuthAccepted ==
    /\ cnPC = "auth" /\ alive
    /\ cnPC' = "up"
    /\ UNCHANGED <<held, alive, streamState>>

ClientClose ==
    /\ cnPC = "up"
    /\ cnPC' = "closed" /\ held' = held \ Released /\ alive' = FALSE
    /\ UNCHANGED streamState

\* The connection times out or the server closes it.
ConnectionDies ==
    /\ alive
    /\ alive' = FALSE
    /\ UNCHANGED <<cnPC, held, streamState>>

-----------------------------------------------------------------------------
(***************************************************************************)
(* TCP                                                                     *)
(***************************************************************************)

Open == {t \in Calls : tcpPC[t] \in {"request", "response", "conn"}}

WrapIfConnectionClosed(e) == IF e = "StreamLimit" THEN e ELSE "ClosedError"

OpenStream(t) ==
    /\ cnPC \in {"up", "closed"} /\ tcpPC[t] = "idle"
    /\ tcpPC' = [tcpPC EXCEPT ![t] =
         IF ~alive THEN WrapIfConnectionClosed("connectionError")
         ELSE IF Cardinality(Open) >= StreamLimit
              THEN WrapIfConnectionClosed("StreamLimit")
              ELSE "request"]
    /\ UNCHANGED <<connState, Established, wire, accepted, answered, sent, got>>

\* WriteTCPRequest; with fast open the connection is returned at once.
WriteRequest(t) ==
    /\ tcpPC[t] = "request"
    /\ IF alive
       THEN /\ tcpPC' = [tcpPC EXCEPT ![t] = IF FastOpen THEN "conn" ELSE "response"]
            /\ accepted' = accepted \cup {t}
       ELSE /\ tcpPC' = [tcpPC EXCEPT ![t] = "ClosedError"]
            /\ UNCHANGED accepted
    /\ UNCHANGED <<connState, Established, wire, answered, sent, got>>

\* The reading end of a stream: its first item, or the end of the connection.
Readable(t) == wire[t] # <<>> \/ ~alive

Arrived(t) == IF alive /\ wire[t] # <<>> THEN Head(wire[t]) ELSE "connectionError"

Consumed(t) == [wire EXCEPT ![t] = IF alive /\ @ # <<>> /\ @ # <<"end">> THEN Tail(@) ELSE @]

\* ReadTCPResponse in TCP.  On an error the stream is closed.
ReadResponseNow(t) ==
    /\ tcpPC[t] = "response" /\ Readable(t)
    /\ wire' = Consumed(t)
    /\ tcpPC' = [tcpPC EXCEPT ![t] =
         CASE Arrived(t) = "ok" -> "conn"
           [] Arrived(t) = "error" -> "DialError"
           [] OTHER -> WrapIfConnectionClosed(Arrived(t))]
    /\ Established' = [Established EXCEPT ![t] = Arrived(t) = "ok"]
    /\ UNCHANGED <<connState, accepted, answered, sent, got>>

MustReadResponse(t) == ~Established[t]

\* tcpConn.Read.  The response of an accepted request is taken and Read goes on
\* to wait for data; any other is the result.
ReadDeferred(t) ==
    /\ tcpPC[t] = "conn" /\ MustReadResponse(t) /\ Readable(t)
    /\ wire' = Consumed(t)
    /\ IF Arrived(t) = "ok"
       THEN Established' = [Established EXCEPT ![t] = TRUE] /\ UNCHANGED got
       ELSE /\ got' = [got EXCEPT ![t] =
                  Append(@, IF Arrived(t) = "error" THEN "DialError" ELSE "failed")]
            /\ UNCHANGED Established
    /\ Len(got[t]) <= MaxChunks
    /\ UNCHANGED <<connState, tcpPC, accepted, answered, sent>>

ReadData(t) ==
    /\ tcpPC[t] = "conn" /\ ~MustReadResponse(t) /\ Readable(t)
    /\ wire' = Consumed(t)
    /\ got' = [got EXCEPT ![t] = Append(@, Arrived(t))]
    /\ Len(got[t]) <= MaxChunks
    /\ UNCHANGED <<connState, tcpPC, Established, accepted, answered, sent>>

\* QStream.Close: reading is cancelled too.
ConnClose(t) ==
    /\ tcpPC[t] = "conn"
    /\ tcpPC' = [tcpPC EXCEPT ![t] = "closed"]
    /\ UNCHANGED <<connState, Established, wire, accepted, answered, sent, got>>

-----------------------------------------------------------------------------
(***************************************************************************)
(* The server's end of a stream (module ServerConn)                        *)
(***************************************************************************)

ServerAnswers(t) ==
    /\ alive /\ t \in accepted /\ answered[t] = "none"
    /\ \E a \in {"ok", "error", "end"} :
         /\ answered' = [answered EXCEPT ![t] = a]
         /\ wire' = [wire EXCEPT ![t] = @ \o
              CASE a = "ok" -> <<"ok">> [] a = "error" -> <<"error", "end">>
                [] OTHER -> <<"end">>]
    /\ UNCHANGED <<connState, tcpPC, Established, accepted, sent, got>>

ServerSends(t) ==
    /\ alive /\ answered[t] = "ok" /\ sent[t] <= MaxChunks
    /\ wire' = [wire EXCEPT ![t] =
         Append(@, IF sent[t] < MaxChunks THEN "data" ELSE "end")]
    /\ sent' = [sent EXCEPT ![t] = @ + 1]
    /\ UNCHANGED <<connState, tcpPC, Established, accepted, answered, got>>

ClientCoreNext ==
    \/ NewConn \/ DialEarly \/ ClientConnectFails \/ AuthAccepted \/ ClientClose \/ ConnectionDies
    \/ \E t \in Calls :
         \/ OpenStream(t) \/ WriteRequest(t) \/ ReadResponseNow(t) \/ ReadDeferred(t)
         \/ ReadData(t) \/ ConnClose(t) \/ ServerAnswers(t) \/ ServerSends(t)

\* One step of connect or of a call of TCP or Read that is under way.
ClientCoreStep ==
    \/ NewConn \/ DialEarly \/ ClientConnectFails
    \/ \E t \in Calls :
         WriteRequest(t) \/ ReadResponseNow(t) \/ ReadDeferred(t) \/ ServerAnswers(t)

ClientCoreSpec ==
    ClientCoreInit /\ [][ClientCoreNext]_ccVars /\ WF_ccVars(ClientCoreStep)

-----------------------------------------------------------------------------
(***************************************************************************)
(* Properties                                                              *)
(***************************************************************************)

\* A connect that fails, at whatever stage, and a Close leave no packet
\* connection, transport or QUIC connection behind; a client that is up holds
\* all three (client.go:132-146, 240-245).
NothingLeaks ==
    /\ cnPC \in {"failed", "closed"} => held = {}
    /\ cnPC = "up" => held = {"pktConn", "tr", "conn"}

\* The application only ever reads what the target sent, in order: with fast
\* open the server's response is never taken for data, and no data follows a
\* refusal (client.go:271-284).
ResponseIsNotData ==
    \A t \in Calls :
      /\ "ok" \notin Range(got[t]) /\ "error" \notin Range(got[t])
      /\ "data" \in Range(got[t]) => answered[t] = "ok" /\ "DialError" \notin Range(got[t])
      /\ Cardinality({i \in DOMAIN got[t] : got[t][i] = "data"}) <= sent[t]

\* A connection that TCP returns without fast open, and one whose Read has
\* returned data, belongs to a request the server accepted; TCP says DialError
\* exactly when the server refused, and says that the connection is closed only
\* when it is or the stream ended without a response (client.go:193-231,247-262).
ErrorsMeanWhatTheySay ==
    \A t \in Calls :
      /\ Established[t] => answered[t] = "ok"
      /\ tcpPC[t] = "conn" /\ ~FastOpen => Established[t]
      /\ tcpPC[t] = "DialError" => answered[t] = "error"
      /\ tcpPC[t] = "ClosedError" => ~alive \/ answered[t] = "end"

\* Every call of TCP returns: the server answers every request or the connection
\* dies (ServerConn's OneResponse), and connect itself succeeds or fails.
TCPReturns ==
    \A t \in Calls : tcpPC[t] \in {"request", "response"} ~> tcpPC[t] \in {"conn", "closed"} \cup TCPErrors

\* No error path of connecting leaves anything open, and a caller is given the
\* answer to its own request: a response is not taken for data, an error means
\* what it says.
ClientCoreSafe == NothingLeaks /\ ResponseIsNotData /\ ErrorsMeanWhatTheySay
=============================================================================
