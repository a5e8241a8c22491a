----------------------------- MODULE ServerConn -----------------------------
(***************************************************************************)
(* The life of the server's client connections: handleClient, ServeHTTP,   *)
(* ProxyStreamHijacker and handleTCPRequest of core/server/server.go, the  *)
(* two copying goroutines of core/server/copy.go, and the statistics       *)
(* server of extras/trafficlogger/http.go that they all report to.  The    *)
(* UDP session manager (module ServerUDP) appears as the traffic it logs.  *)
(***************************************************************************)
EXTENDS Integers, FiniteSets, Sequences

CONSTANTS
    Conns,     \* QUIC connections
    Reqs,      \* goroutines running ServeHTTP for an authentication request
    Streams,   \* proxy streams
    Users,     \* IDs the Authenticator gives
    MaxData,   \* chunks that arrive in all
    None       \* no connection, request or user

ASSUME ServerConnAssumption ==
    /\ MaxData \in Nat
    /\ None \notin Conns \cup Reqs \cup Users

VARIABLES
    conn,          \* the QUIC connection: "new", "open", "closed"
    serving,       \* handleClient: "no", "serving", "done"
    authenticated, authID, authMutex,  \* h3sHandler
    reqPC, reqConn,                    \* ServeHTTP goroutines
    udpSM,         \* sm.Run: "none", "running", "ended"
    OnlineMap, KickMap, StatsMap, StreamMap,  \* trafficStatsServerImpl
    sPC, sConn,    \* handleTCPRequest goroutines
    hooked, stream, tConn,
    copier, errChan,  \* copyTwoWayEx: its two goroutines, their results
    \* Environment and history
    written,       \* what was written to the client's side of a stream
    data,          \* chunks that may still arrive
    events,        \* Connect and Disconnect events of a connection
    reported, forwarded  \* chunks in cleared statistics; chunks past LogTraffic

connVars == <<conn, serving, authenticated, authID, authMutex, reqPC, reqConn,
              udpSM, OnlineMap, events>>
statVars == <<KickMap, StatsMap, reported, forwarded, data>>
streamVars == <<sPC, sConn, hooked, stream, tConn, copier, errChan, written,
                StreamMap>>
vars == <<connVars, statVars, streamVars>>

Dirs == {"tx", "rx"}   \* client to target, target to client

Init ==
    /\ conn = [c \in Conns |-> "new"]
    /\ serving = [c \in Conns |-> "no"]
    /\ authenticated = [c \in Conns |-> FALSE]
    /\ authID = [c \in Conns |-> None]
    /\ authMutex = [c \in Conns |-> None]
    /\ reqPC = [r \in Reqs |-> "idle"]
    /\ reqConn = [r \in Reqs |-> None]
    /\ udpSM = [c \in Conns |-> "none"]
    /\ OnlineMap = [u \in Users |-> 0]
    /\ KickMap = {}
    /\ StatsMap = [u \in Users |-> 0]
    /\ StreamMap = {}
    /\ sPC = [s \in Streams |-> "idle"]
    /\ sConn = [s \in Streams |-> None]
    /\ hooked = [s \in Streams |-> FALSE]
    /\ stream = [s \in Streams |-> "new"]
    /\ tConn = [s \in Streams |-> "none"]
    /\ copier = [s \in Streams |-> [d \in Dirs |-> "none"]]
    /\ errChan = [s \in Streams |-> <<>>]
    /\ written = [s \in Streams |-> <<>>]
    /\ data = MaxData
    /\ events = [c \in Conns |-> <<>>]
    /\ reported = [u \in Users |-> 0]
    /\ forwarded = [u \in Users |-> 0]

-----------------------------------------------------------------------------
(***************************************************************************)
(* Connections and authentication                                          *)
(***************************************************************************)

\* Serve accepts a connection and starts handleClient.
Accept(c) ==
    /\ conn[c] = "new"
    /\ conn' = [conn EXCEPT ![c] = "open"]
    /\ serving' = [serving EXCEPT ![c] = "serving"]
    /\ UNCHANGED <<authenticated, authID, authMutex, reqPC, reqConn, udpSM,
                   OnlineMap, events, statVars, streamVars>>

\* The client leaves, the connection times out, or the server is closed.
ConnLost(c) ==
    /\ conn[c] = "open"
    /\ conn' = [conn EXCEPT ![c] = "closed"]
    /\ UNCHANGED <<serving, authenticated, authID, authMutex, reqPC, reqConn,
                   udpSM, OnlineMap, events, statVars, streamVars>>

\* A POST to the authentication URL; http3 runs ServeHTTP in its own goroutine.
\* Other requests go to masqHandler and change nothing.
Request(r, c) ==
    /\ reqPC[r] = "idle" /\ conn[c] = "open"
    /\ reqPC' = [reqPC EXCEPT ![r] = "lock"]
    /\ reqConn' = [reqConn EXCEPT ![r] = c]
    /\ UNCHANGED <<conn, serving, authenticated, authID, authMutex, udpSM,
                   OnlineMap, events, statVars, streamVars>>

\* Mutant of AuthFree: the check is made without holding authMutex.
AuthAlwaysFree(c) == TRUE

AuthFree(c) == authMutex[c] = None

\* h.authMutex.Lock(), and the answer to a connection that is authenticated.
AuthLock(r) ==
    LET c == reqConn[r]
    IN  /\ reqPC[r] = "lock" /\ AuthFree(c)
        /\ IF authenticated[c]
           THEN /\ reqPC' = [reqPC EXCEPT ![r] = "end"]
                /\ UNCHANGED authMutex
           ELSE /\ reqPC' = [reqPC EXCEPT ![r] = "auth"]
                /\ authMutex' = [authMutex EXCEPT ![c] = r]
        /\ UNCHANGED <<conn, serving, authenticated, authID, reqConn, udpSM,
                       OnlineMap, events, statVars, streamVars>>

\* Authenticate returns false: masqHandler answers.
AuthFails(r) ==
    /\ reqPC[r] = "auth"
    /\ reqPC' = [reqPC EXCEPT ![r] = "end"]
    /\ authMutex' = [authMutex EXCEPT ![reqConn[r]] = None]
    /\ UNCHANGED <<conn, serving, authenticated, authID, reqConn, udpSM,
                   OnlineMap, events, statVars, streamVars>>

\* Authenticate returns true: from here on streams are accepted.
AuthOK(r, u) ==
    /\ reqPC[r] = "auth"
    /\ reqPC' = [reqPC EXCEPT ![r] = "accepted"]
    /\ authenticated' = [authenticated EXCEPT ![reqConn[r]] = TRUE]
    /\ authID' = [authID EXCEPT ![reqConn[r]] = u]
    /\ UNCHANGED <<conn, serving, authMutex, reqConn, udpSM, OnlineMap, events,
                   statVars, streamVars>>

\* The response, LogOnlineState(id, true), the Connect event, the UDP session
\* manager and the deferred Unlock.
AuthOnline(r) ==
    LET c == reqConn[r]
    IN  /\ reqPC[r] = "accepted"
        /\ reqPC' = [reqPC EXCEPT ![r] = "end"]
        /\ OnlineMap' = [OnlineMap EXCEPT ![authID[c]] = @ + 1]
        /\ events' = [events EXCEPT ![c] = Append(@, "Connect")]
        /\ udpSM' = [udpSM EXCEPT ![c] = "running"]
        /\ authMutex' = [authMutex EXCEPT ![c] = None]
        /\ UNCHANGED <<conn, serving, authenticated, authID, reqConn, statVars,
                       streamVars>>

\* External: http3.Server.ServeQUICConn waits for the handlers it started.
HandlersDone(c) == \A r \in Reqs : reqConn[r] = c => reqPC[r] = "end"

\* LogOnlineState(id, false); an absent entry of the map is 0.
LoggedOff(n) == IF n - 1 <= 0 THEN 0 ELSE n - 1

\* ServeQUICConn returns and handleClient finishes.
HandleClientEnds(c) ==
    /\ serving[c] = "serving" /\ conn[c] = "closed" /\ HandlersDone(c)
    /\ serving' = [serving EXCEPT ![c] = "done"]
    /\ IF authenticated[c]
       THEN /\ OnlineMap' = [OnlineMap EXCEPT ![authID[c]] = LoggedOff(@)]
            /\ events' = [events EXCEPT ![c] = Append(@, "Disconnect")]
       ELSE UNCHANGED <<OnlineMap, events>>
    /\ UNCHANGED <<conn, authenticated, authID, authMutex, reqPC, reqConn,
                   udpSM, statVars, streamVars>>

-----------------------------------------------------------------------------
(***************************************************************************)
(* Statistics                                                              *)
(***************************************************************************)

\* LogTraffic(id, ...) for connection c, and what it returned: a kick is
\* consumed by the call that is refused.
LogTraffic(c, ok) ==
    LET u == authID[c]
    IN  /\ ok = (u \notin KickMap)
        /\ KickMap' = KickMap \ {u}
        /\ StatsMap' = IF ok THEN [StatsMap EXCEPT ![u] = @ + 1] ELSE StatsMap
        /\ forwarded' = IF ok THEN [forwarded EXCEPT ![u] = @ + 1] ELSE forwarded

\* kick
Kick(u) ==
    /\ KickMap' = KickMap \cup {u}
    /\ UNCHANGED <<connVars, streamVars, StatsMap, reported, forwarded,
                   data>>

Clear ==
    /\ reported' = [u \in Users |-> reported[u] + StatsMap[u]]
    /\ StatsMap' = [u \in Users |-> 0]

\* getTraffic with clear; without, it only reads.
GetTrafficClear ==
    /\ \E u \in Users : StatsMap[u] > 0
    /\ Clear
    /\ UNCHANGED <<connVars, streamVars, KickMap, forwarded, data>>

\* udpIOImpl.ReceiveMessage and SendMessage log a message of the connection and
\* close the connection when they are refused.
UDPTraffic(c) ==
    /\ udpSM[c] = "running" /\ conn[c] = "open" /\ data > 0
    /\ data' = data - 1
    /\ \E ok \in BOOLEAN :
         /\ LogTraffic(c, ok)
         /\ conn' = IF ok THEN conn ELSE [conn EXCEPT ![c] = "closed"]
    /\ UNCHANGED <<serving, authenticated, authID, authMutex, reqPC, reqConn,
                   udpSM, OnlineMap, events, reported, streamVars>>

\* ReceiveDatagram fails and Run returns.
UDPEnds(c) ==
    /\ udpSM[c] = "running" /\ conn[c] = "closed"
    /\ udpSM' = [udpSM EXCEPT ![c] = "ended"]
    /\ UNCHANGED <<conn, serving, authenticated, authID, authMutex, reqPC,
                   reqConn, OnlineMap, events, statVars, streamVars>>

-----------------------------------------------------------------------------
(***************************************************************************)
(* Proxy streams                                                           *)
(***************************************************************************)

MayProxy(c) == authenticated[c]

\* ProxyStreamHijacker takes a stream and starts handleTCPRequest, which traces
\* it.
OpenStream(s, c) ==
    /\ sPC[s] = "idle" /\ conn[c] = "open" /\ MayProxy(c)
    /\ sPC' = [sPC EXCEPT ![s] = "request"]
    /\ sConn' = [sConn EXCEPT ![s] = c]
    /\ stream' = [stream EXCEPT ![s] = "open"]
    /\ StreamMap' = StreamMap \cup {s}
    /\ UNCHANGED <<hooked, tConn, copier, errChan, written, connVars, statVars>>

Readable(s) == stream[s] = "open" /\ conn[sConn[s]] = "open"

Respond(s, msg) == written' = [written EXCEPT ![s] = Append(@, msg)]

Untraced(s) == StreamMap \ {s}

\* handleTCPRequest returns: the stream is closed, and untraced by the defer.
Return(s) ==
    /\ sPC' = [sPC EXCEPT ![s] = "end"]
    /\ stream' = [stream EXCEPT ![s] = "closed"]
    /\ StreamMap' = Untraced(s)

\* ReadTCPRequest and, when the hook wants the request, the early response.
ReadRequest(s) ==
    /\ sPC[s] = "request" /\ Readable(s)
    /\ \E h \in BOOLEAN :
         /\ hooked' = [hooked EXCEPT ![s] = h]
         /\ sPC' = [sPC EXCEPT ![s] = IF h THEN "hook" ELSE "dial"]
         /\ IF h THEN Respond(s, "ok") ELSE UNCHANGED written
    /\ UNCHANGED <<sConn, stream, tConn, copier, errChan, StreamMap, connVars,
                   statVars>>

\* ReadTCPRequest fails, or RequestHook.TCP does.
RequestFails(s) ==
    /\ sPC[s] \in {"request", "hook"}
    /\ Return(s)
    /\ UNCHANGED <<sConn, hooked, tConn, copier, errChan, written, connVars,
                   statVars>>

HookDone(s) ==
    /\ sPC[s] = "hook" /\ Readable(s)
    /\ sPC' = [sPC EXCEPT ![s] = "dial"]
    /\ UNCHANGED <<sConn, hooked, stream, tConn, copier, errChan, written,
                   StreamMap, connVars, statVars>>

\* Mutant of RespondUnlessHooked: the response is sent in any case.
RespondAlways(s, msg) == Respond(s, msg)

RespondUnlessHooked(s, msg) ==
    IF hooked[s] THEN UNCHANGED written ELSE Respond(s, msg)

\* Outbound.TCP fails.
DialFails(s) ==
    /\ sPC[s] = "dial"
    /\ RespondUnlessHooked(s, "fail")
    /\ Return(s)
    /\ UNCHANGED <<sConn, hooked, tConn, copier, errChan, connVars, statVars>>

\* Outbound.TCP succeeds; putback is written and copyTwoWayEx starts.
DialOK(s) ==
    /\ sPC[s] = "dial"
    /\ RespondUnlessHooked(s, "ok")
    /\ sPC' = [sPC EXCEPT ![s] = "copy"]
    /\ tConn' = [tConn EXCEPT ![s] = "open"]
    /\ copier' = [copier EXCEPT ![s] = [d \in Dirs |-> "read"]]
    /\ UNCHANGED <<sConn, hooked, stream, errChan, StreamMap, connVars, statVars>>

SrcOpen(s, d) == IF d = "tx" THEN Readable(s) ELSE tConn[s] = "open"
DstOpen(s, d) == IF d = "tx" THEN tConn[s] = "open" ELSE Readable(s)

CopierGoto(s, d, label) == copier' = [copier EXCEPT ![s][d] = label]

\* src.Read returns a chunk, which is logged next.
CopyRead(s, d) ==
    /\ copier[s][d] = "read" /\ SrcOpen(s, d) /\ data > 0
    /\ data' = data - 1
    /\ CopierGoto(s, d, "log")
    /\ UNCHANGED <<sPC, sConn, hooked, stream, tConn, errChan, written, StreamMap,
                   connVars, KickMap, StatsMap, reported, forwarded>>

\* A goroutine of copyTwoWayEx ends with a result.
CopyEnds(s, d, err) ==
    /\ CopierGoto(s, d, "end")
    /\ errChan' = [errChan EXCEPT ![s] = Append(@, err)]

\* log(n): the chunk is written next, or the goroutine ends with errDisconnect.
CopyLog(s, d) ==
    /\ copier[s][d] = "log"
    /\ \E ok \in BOOLEAN :
         /\ LogTraffic(sConn[s], ok)
         /\ IF ok THEN CopierGoto(s, d, "write") /\ UNCHANGED errChan
                  ELSE CopyEnds(s, d, "disconnect")
    /\ UNCHANGED <<sPC, sConn, hooked, stream, tConn, written, StreamMap,
                   connVars, reported, data>>

\* dst.Write succeeds.
CopyWrite(s, d) ==
    /\ copier[s][d] = "write" /\ DstOpen(s, d)
    /\ CopierGoto(s, d, "read")
    /\ IF d = "rx" THEN Respond(s, "data") ELSE UNCHANGED written
    /\ UNCHANGED <<sPC, sConn, hooked, stream, tConn, errChan, StreamMap,
                   connVars, statVars>>

\* The source is at its end, or reading or writing fails.
CopyStops(s, d) ==
    /\ copier[s][d] \in {"read", "write"}
    /\ CopyEnds(s, d, "end")
    /\ UNCHANGED <<sPC, sConn, hooked, stream, tConn, written, StreamMap,
                   connVars, statVars>>

Disconnects(err) == err = "disconnect"

\* Mutant of TargetClosed: the connection to the target is left open.
TargetKept(s) == tConn

TargetClosed(s) == [tConn EXCEPT ![s] = "closed"]

\* copyTwoWayEx returns the first result, and handleTCPRequest cleans up.
CopyReturns(s) ==
    /\ sPC[s] = "copy" /\ errChan[s] # <<>>
    /\ tConn' = TargetClosed(s)
    /\ conn' = IF Disconnects(Head(errChan[s]))
               THEN [conn EXCEPT ![sConn[s]] = "closed"] ELSE conn
    /\ Return(s)
    /\ UNCHANGED <<sConn, hooked, copier, errChan, written, serving,
                   authenticated, authID, authMutex, reqPC, reqConn, udpSM,
                   OnlineMap, events, statVars>>

-----------------------------------------------------------------------------
\* Steps of goroutines that do not wait for a peer.
ConnStep(c) == HandleClientEnds(c) \/ UDPEnds(c)

ReqStep(r) ==
    AuthLock(r) \/ AuthFails(r) \/ AuthOnline(r) \/ \E u \in Users : AuthOK(r, u)

StreamStep(s) == DialFails(s) \/ DialOK(s) \/ CopyReturns(s)

CopierStep(s, d) == CopyLog(s, d) \/ CopyWrite(s, d) \/ CopyStops(s, d)

Next ==
    \/ \E c \in Conns : Accept(c) \/ ConnLost(c) \/ ConnStep(c) \/ UDPTraffic(c)
    \/ \E r \in Reqs : ReqStep(r) \/ \E c \in Conns : Request(r, c)
    \/ \E u \in Users : Kick(u)
    \/ GetTrafficClear
    \/ \E s \in Streams :
         \/ StreamStep(s) \/ ReadRequest(s) \/ RequestFails(s) \/ HookDone(s)
         \/ \E c \in Conns : OpenStream(s, c)
         \/ \E d \in Dirs : CopyRead(s, d) \/ CopierStep(s, d)

Spec == Init /\ [][Next]_vars

\* The scheduler runs every goroutine that can run; Authenticate and Outbound.TCP
\* return; a read or write on what was closed fails.
Fairness ==
    /\ \A c \in Conns : WF_vars(ConnStep(c))
    /\ \A r \in Reqs : WF_vars(ReqStep(r))
    /\ \A s \in Streams :
         /\ WF_vars(StreamStep(s))
         /\ WF_vars(~Readable(s) /\ RequestFails(s))
         /\ \A d \in Dirs :
              /\ WF_vars(CopyLog(s, d))
              /\ WF_vars(~SrcOpen(s, d) /\ copier[s][d] = "read" /\ CopyStops(s, d))
              /\ WF_vars(copier[s][d] = "write" /\ CopierStep(s, d))

FairSpec == Spec /\ Fairness

-----------------------------------------------------------------------------
(***************************************************************************)
(* Properties                                                              *)
(***************************************************************************)

\* The number of connections the /online API shows for a user is the number of
\* handlers that announced the user and did not yet sign off: concurrent
\* authentication requests on one connection count once, and a connection lost
\* while it authenticates is not left behind.
OnlineExact ==
    \A u \in Users :
      OnlineMap[u] =
        Cardinality({c \in Conns :
          /\ authenticated[c] /\ authID[c] = u /\ serving[c] # "done"
          /\ \A r \in Reqs : reqConn[r] = c => reqPC[r] # "accepted"})

\* The event logger sees at most one Connect and one Disconnect of a connection,
\* in this order, and both if the connection was ever authenticated.
EventsPaired ==
    \A c \in Conns :
      /\ events[c] \in {<<>>, <<"Connect">>, <<"Connect", "Disconnect">>}
      /\ serving[c] = "done" =>
           (events[c] = <<"Connect", "Disconnect">>) = authenticated[c]

\* What the client reads on a proxy stream begins with exactly one response, and
\* there is no data after a failure.  With a hook the response is sent before
\* the dial, without one after it.
OneResponse ==
    \A s \in Streams :
      /\ \A i \in DOMAIN written[s] : (written[s][i] = "data") = (i > 1)
      /\ written[s] # <<>> /\ Head(written[s]) = "fail" => Len(written[s]) = 1

\* Every chunk that LogTraffic accepted is in the statistics, or was in an
\* answer of /traffic that cleared them, exactly once.
StatsExact ==
    \A u \in Users : reported[u] + StatsMap[u] = forwarded[u]

\* When a connection ends, its proxied streams come to an end: the target is
\* closed, both copying goroutines finish, and the handler of the connection
\* returns.
ServingEnds ==
    \A s \in Streams, c \in Conns :
      conn[c] = "closed" /\ sConn[s] = c ~>
        /\ sPC[s] = "end" /\ tConn[s] # "open" /\ serving[c] = "done"
        /\ \A d \in Dirs : copier[s][d] \in {"none", "end"}

\* A copy that ends because its traffic was refused disconnects the client.
FirstRefusalDisconnects ==
    \A s \in Streams, c \in Conns :
      sConn[s] = c /\ errChan[s] # <<>> /\ errChan[s][1] = "disconnect"
        ~> conn[c] = "closed"

\* The accounts the server keeps of its clients are exact: who is online, the
\* events that say so, and the bytes each has used.
AccountsExact == OnlineExact /\ EventsPaired /\ StatsExact

\* A connection that is closed is soon served no longer, and the first bytes the
\* traffic logger refuses close it.
EverythingEnds == ServingEnds /\ FirstRefusalDisconnects
=============================================================================
