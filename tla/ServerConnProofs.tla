-------------------------- MODULE ServerConnProofs --------------------------
(***************************************************************************)
(* The accounts of the server and the responses on its streams, for any    *)
(* number of connections, authentication requests, streams and users; and  *)
(* the protocol both peers speak: the rates that the authentication settles, *)
(* and the messages on streams and in datagrams, of any length.            *)
(***************************************************************************)
EXTENDS ServerConn, Protocol, FiniteSetTheorems, SequenceTheorems, TLAPS

ConnTypes ==
    /\ conn \in [Conns -> {"new", "open", "closed"}]
    /\ serving \in [Conns -> {"no", "serving", "done"}]
    /\ authenticated \in [Conns -> BOOLEAN]
    /\ authID \in [Conns -> Users \cup {None}]
    /\ authMutex \in [Conns -> Reqs \cup {None}]
    /\ reqPC \in [Reqs -> {"idle", "lock", "auth", "accepted", "end"}]
    /\ reqConn \in [Reqs -> Conns \cup {None}]
    /\ OnlineMap \in [Users -> Nat]
    /\ events \in [Conns -> Seq({"Connect", "Disconnect"})]

\* A request that is being decided holds authMutex of its connection, which is
\* not authenticated before the decision and is after it; handleClient has
\* outlived all the requests of its connection.
AuthInv ==
    /\ \A r \in Reqs :
         /\ reqPC[r] # "idle" => reqConn[r] \in Conns
         /\ reqPC[r] \in {"auth", "accepted"} => authMutex[reqConn[r]] = r
         /\ reqPC[r] = "auth" => ~authenticated[reqConn[r]]
         /\ reqPC[r] = "accepted" => authenticated[reqConn[r]]
    /\ \A c \in Conns :
         /\ authenticated[c] => authID[c] \in Users
         /\ serving[c] = "done" => conn[c] = "closed" /\ HandlersDone(c)

\* A request has authenticated the connection and did not announce it yet.
Accepting(c) == \E r \in Reqs : reqConn[r] = c /\ reqPC[r] = "accepted"

EventsInv ==
    \A c \in Conns :
      /\ ~authenticated[c] \/ Accepting(c) => events[c] = <<>>
      /\ authenticated[c] /\ ~Accepting(c) =>
           events[c] = IF serving[c] = "done" THEN <<"Connect", "Disconnect">>
                       ELSE <<"Connect">>

\* The connections that count for a user.
Online(u) ==
    {c \in Conns : authenticated[c] /\ authID[c] = u /\ serving[c] # "done" /\ ~Accepting(c)}

OnlineInv ==
    \A u \in Users : IsFiniteSet(Online(u)) /\ OnlineMap[u] = Cardinality(Online(u))

ConnInv == ConnTypes /\ AuthInv /\ EventsInv /\ OnlineInv

-----------------------------------------------------------------------------
LEMMA AppendToOne ==
    ASSUME NEW a, NEW b
    PROVE  Append(<<a>>, b) = <<a, b>>
  <1> DEFINE T == {a, b}
             p == Append(<<a>>, b)
             q == <<a, b>>
  <1>1. p \in Seq(T) /\ q \in Seq(T) /\ Len(p) = 2 /\ Len(q) = 2
    OBVIOUS
  <1>2. p[1] = a /\ p[2] = b /\ q[1] = a /\ q[2] = b
    OBVIOUS
  <1>3. \A i \in 1 .. Len(p) : p[i] = q[i]
    <2>1. \A i \in 1 .. 2 : i = 1 \/ i = 2
      OBVIOUS
    <2> HIDE DEF p, q
    <2> QED BY <1>1, <1>2, <2>1, Zenon
  <1> HIDE DEF p, q, T
  <1>4. p = q
    BY <1>1, <1>3, SeqEqual, Zenon
  <1> QED BY <1>4, Zenon DEF p, q

\* The invariant holds of a server that has accepted nothing.
LEMMA ConnInit == Init => ConnInv
  <1> SUFFICES ASSUME Init PROVE ConnInv
    OBVIOUS
  <1>1. ConnTypes /\ AuthInv /\ EventsInv
    BY ServerConnAssumption DEF Init, ConnTypes, AuthInv, EventsInv, Accepting
  <1>2. ASSUME NEW u \in Users PROVE Online(u) = {} /\ OnlineMap[u] = 0
    BY <1>2, Zenon DEF Init, Online
  <1> QED BY <1>1, <1>2, FS_EmptySet, Zenon DEF ConnInv, OnlineInv

\* Steps that at most close connections disturb nothing: closed ones stay so.
LEMMA ConnKept ==
    ASSUME ConnInv,
           UNCHANGED <<serving, authenticated, authID, authMutex, reqPC, reqConn,
                       OnlineMap, events>>,
           conn' \in [Conns -> {"new", "open", "closed"}],
           \A c \in Conns : conn[c] = "closed" => conn'[c] = "closed"
    PROVE  ConnInv'
  <1>1. ConnTypes' /\ AuthInv'
    BY Zenon DEF ConnInv, ConnTypes, AuthInv, HandlersDone
  <1>2. EventsInv'
    BY Zenon DEF ConnInv, EventsInv, Accepting
  <1>3. ASSUME NEW u \in Users PROVE Online(u)' = Online(u)
    BY <1>3, Zenon DEF Online, Accepting
  <1>4. OnlineInv'
    BY <1>3, Zenon DEF ConnInv, OnlineInv
  <1> QED BY <1>1, <1>2, <1>4, Zenon DEF ConnInv

\* Accept
LEMMA AcceptStep ==
    ASSUME ConnInv, NEW c \in Conns, Accept(c)
    PROVE  ConnInv'
  <1> USE DEF ConnInv
  <1>1. /\ conn[c] = "new" /\ conn' = [conn EXCEPT ![c] = "open"]
        /\ serving' = [serving EXCEPT ![c] = "serving"]
        /\ UNCHANGED <<authenticated, authID, authMutex, reqPC, reqConn, OnlineMap, events>>
    BY Zenon DEF Accept
  <1>2. ConnTypes'
    BY <1>1, Zenon DEF ConnTypes
  <1>3. serving[c] # "done"
    BY <1>1, Zenon DEF AuthInv
  <1>4. AuthInv'
    BY <1>1 DEF ConnTypes, AuthInv, HandlersDone
  <1>5. EventsInv'
    BY <1>1, <1>3, Zenon DEF ConnTypes, EventsInv, Accepting
  <1>6. ASSUME NEW u \in Users PROVE Online(u)' = Online(u)
    BY <1>1, <1>3, Zenon DEF ConnTypes, Online, Accepting
  <1>7. OnlineInv'
    BY <1>1, <1>6, Zenon DEF OnlineInv
  <1> QED BY <1>2, <1>4, <1>5, <1>7, Zenon

\* A request arrives, waits for authMutex, or is refused.
LEMMA RequestStep ==
    ASSUME ConnInv, NEW r \in Reqs,
           \/ \E c \in Conns : Request(r, c)
           \/ AuthLock(r)
           \/ AuthFails(r)
    PROVE  ConnInv'
  <1> USE DEF ConnInv
  <1>1. /\ UNCHANGED <<conn, serving, authenticated, authID, OnlineMap, events>>
        /\ reqPC[r] # "accepted" /\ reqPC' = [reqPC EXCEPT ![r] = reqPC'[r]]
        /\ reqPC'[r] \in {"lock", "auth", "end"}
        /\ reqPC[r] # "end"
    BY Zenon DEF Request, AuthLock, AuthFails, ConnTypes
  <1>2. ConnTypes' /\ AuthInv'
    <2>1. CASE \E c \in Conns : Request(r, c)
      BY <2>1 DEF Request, ConnTypes, AuthInv, HandlersDone
    <2>2. CASE AuthLock(r)
      <3>1. \A q \in Reqs : reqPC[q] \in {"auth", "accepted"} => reqConn[q] # reqConn[r]
        BY <2>2, ServerConnAssumption DEF AuthLock, AuthFree, ConnTypes, AuthInv
      <3>2. /\ reqConn[r] \in Conns /\ serving[reqConn[r]] # "done"
            /\ reqConn' = reqConn
        BY <2>2, Zenon DEF AuthLock, AuthInv, HandlersDone
      <3>3. CASE authenticated[reqConn[r]]
        BY <2>2, <3>2, <3>3 DEF AuthLock, ConnTypes, AuthInv, HandlersDone
      <3>4. CASE ~authenticated[reqConn[r]]
        <4>1. /\ reqPC' = [reqPC EXCEPT ![r] = "auth"]
              /\ authMutex' = [authMutex EXCEPT ![reqConn[r]] = r]
          BY <2>2, <3>4, Zenon DEF AuthLock
        <4> QED BY <1>1, <3>1, <3>2, <3>4, <4>1 DEF ConnTypes, AuthInv, HandlersDone
      <3> QED BY <3>3, <3>4, Zenon
    <2>3. CASE AuthFails(r)
      BY <2>3 DEF AuthFails, ConnTypes, AuthInv, HandlersDone
    <2> QED BY <2>1, <2>2, <2>3, Zenon
  <1>3. \A q \in Reqs : q # r => reqConn'[q] = reqConn[q] /\ reqPC'[q] = reqPC[q]
    BY Zenon DEF Request, AuthLock, AuthFails, ConnTypes
  <1>4. ASSUME NEW c \in Conns PROVE Accepting(c)' <=> Accepting(c)
    BY <1>1, <1>3, ZenonT(30) DEF Accepting, ConnTypes
  <1>5. EventsInv'
    BY <1>1, <1>4, Zenon DEF EventsInv
  <1>6. ASSUME NEW u \in Users PROVE Online(u)' = Online(u)
    BY <1>1, <1>4, Zenon DEF Online
  <1>7. OnlineInv'
    BY <1>1, <1>6, Zenon DEF OnlineInv
  <1> QED BY <1>2, <1>5, <1>7, Zenon

\* Authenticate returns true: the connection was not authenticated, and is not
\* counted before it is announced.
LEMMA AuthOKStep ==
    ASSUME ConnInv, NEW r \in Reqs, NEW u \in Users, AuthOK(r, u)
    PROVE  ConnInv'
  <1> USE DEF ConnInv
  <1>0. PICK c \in Conns : c = reqConn[r]
    BY Zenon DEF AuthOK, AuthInv
  <1>1. /\ reqPC[r] = "auth" /\ reqPC' = [reqPC EXCEPT ![r] = "accepted"]
        /\ authenticated' = [authenticated EXCEPT ![c] = TRUE]
        /\ authID' = [authID EXCEPT ![c] = u]
        /\ UNCHANGED <<conn, serving, authMutex, reqConn, OnlineMap, events>>
    BY <1>0, Zenon DEF AuthOK
  <1>2. /\ c \in Conns /\ ~authenticated[c] /\ authMutex[c] = r
        /\ serving[c] # "done"
    BY <1>0, <1>1, Zenon DEF AuthInv, HandlersDone
  <1>3. \A q \in Reqs : reqPC[q] \in {"auth", "accepted"} /\ reqConn[q] = c => q = r
    BY <1>2, Zenon DEF AuthInv
  <1>4. ConnTypes'
    BY <1>1, <1>2, Zenon DEF ConnTypes
  <1>5. AuthInv'
    <2>1. ASSUME NEW q \in Reqs, q # r PROVE reqPC'[q] = reqPC[q]
      BY <1>1, <2>1, Zenon DEF ConnTypes
    <2>2. reqPC'[r] = "accepted" /\ reqConn[r] = c
      BY <1>0, <1>1, Zenon DEF ConnTypes
    <2>3. ASSUME NEW q \in Reqs
          PROVE  /\ reqPC'[q] # "idle" => reqConn'[q] \in Conns
                 /\ reqPC'[q] \in {"auth", "accepted"} => authMutex'[reqConn'[q]] = q
                 /\ reqPC'[q] = "auth" => ~authenticated'[reqConn'[q]]
                 /\ reqPC'[q] = "accepted" => authenticated'[reqConn'[q]]
      BY <1>1, <1>2, <1>3, <2>1, <2>2, <2>3, Zenon DEF ConnTypes, AuthInv
    <2>4. ASSUME NEW d \in Conns
          PROVE  /\ authenticated'[d] => authID'[d] \in Users
                 /\ serving'[d] = "done" => conn'[d] = "closed" /\ HandlersDone(d)'
      BY <1>1, <1>2, <2>1, <2>2, <2>4 DEF ConnTypes, AuthInv, HandlersDone
    <2> QED BY <2>3, <2>4, Zenon DEF AuthInv
  <1>6. Accepting(c)'
    BY <1>0, <1>1, <1>2, Zenon DEF Accepting, ConnTypes
  <1>7. ASSUME NEW d \in Conns, d # c PROVE Accepting(d)' <=> Accepting(d)
    BY <1>0, <1>1, <1>7, Zenon DEF Accepting, ConnTypes
  <1>8. EventsInv'
    BY <1>1, <1>2, <1>6, <1>7, Zenon DEF EventsInv, ConnTypes
  <1>9. ASSUME NEW v \in Users PROVE Online(v)' = Online(v)
    BY <1>1, <1>2, <1>6, <1>7 DEF Online, ConnTypes
  <1>10. OnlineInv'
    BY <1>1, <1>9, Zenon DEF OnlineInv
  <1> QED BY <1>4, <1>5, <1>8, <1>10, Zenon

\* LogOnlineState(id, true) and Connect: no other request accepts the connection,
\* so it was not counted, and now is.
LEMMA AuthOnlineStep ==
    ASSUME ConnInv, NEW r \in Reqs, AuthOnline(r)
    PROVE  ConnInv'
  <1> USE DEF ConnInv
  <1>0. PICK c \in Conns, u \in Users : c = reqConn[r] /\ u = authID[reqConn[r]]
    BY Zenon DEF AuthOnline, AuthInv
  <1>1. /\ reqPC[r] = "accepted" /\ reqPC' = [reqPC EXCEPT ![r] = "end"]
        /\ OnlineMap' = [OnlineMap EXCEPT ![u] = @ + 1]
        /\ events' = [events EXCEPT ![c] = Append(@, "Connect")]
        /\ authMutex' = [authMutex EXCEPT ![c] = None]
        /\ UNCHANGED <<conn, serving, authenticated, authID, reqConn>>
    BY <1>0, Zenon DEF AuthOnline
  <1>2. /\ c \in Conns /\ authenticated[c] /\ authMutex[c] = r
        /\ serving[c] # "done" /\ u \in Users
    BY <1>0, <1>1, Zenon DEF AuthInv, HandlersDone
  <1>3. \A q \in Reqs : reqPC[q] \in {"auth", "accepted"} /\ reqConn[q] = c => q = r
    BY <1>2, Zenon DEF AuthInv
  <1>4. reqConn[r] = c /\ authID[c] = u
    BY <1>0, Zenon
  <1>5. ConnTypes'
    BY <1>1, <1>2 DEF ConnTypes
  <1>6. AuthInv'
    BY <1>1, <1>2, <1>3, <1>4 DEF ConnTypes, AuthInv, HandlersDone
  <1>7. Accepting(c) /\ ~Accepting(c)'
    BY <1>1, <1>3, <1>4, Zenon DEF Accepting, ConnTypes
  <1>8. ASSUME NEW d \in Conns, d # c PROVE Accepting(d)' <=> Accepting(d)
    BY <1>1, <1>4, <1>8, Zenon DEF Accepting, ConnTypes
  <1>9. EventsInv'
    <2>1. events[c] = <<>> /\ events'[c] = <<"Connect">>
      <3>1. events[c] = <<>>
        BY <1>7, Zenon DEF EventsInv
      <3>2. events'[c] = Append(events[c], "Connect")
        BY <1>1, Zenon DEF ConnTypes
      <3> QED BY <3>1, <3>2
    <2> QED BY <1>1, <1>2, <1>7, <1>8, <2>1, Zenon DEF EventsInv, ConnTypes
  <1>10. c \notin Online(u) /\ Online(u)' = Online(u) \cup {c}
    BY <1>1, <1>2, <1>4, <1>7, <1>8, Zenon DEF Online
  <1>11. ASSUME NEW v \in Users, v # u PROVE Online(v)' = Online(v)
    BY <1>1, <1>4, <1>7, <1>8, <1>11, Zenon DEF Online
  <1>12. OnlineInv'
    <2>1. /\ IsFiniteSet(Online(u)')
          /\ Cardinality(Online(u)') = Cardinality(Online(u)) + 1
      BY <1>2, <1>10, FS_AddElement DEF OnlineInv
    <2>2. /\ OnlineMap'[u] = OnlineMap[u] + 1
          /\ \A v \in Users : v # u => OnlineMap'[v] = OnlineMap[v]
      BY <1>1, <1>2, Zenon DEF ConnTypes
    <2> QED BY <1>2, <1>11, <2>1, <2>2, Zenon DEF OnlineInv
  <1> QED BY <1>5, <1>6, <1>9, <1>12, Zenon

\* handleClient finishes: LogOnlineState(id, false) takes off the one connection
\* that counted.
LEMMA HandleClientEndsStep ==
    ASSUME ConnInv, NEW c \in Conns, HandleClientEnds(c)
    PROVE  ConnInv'
  <1> USE DEF ConnInv
  <1>1. /\ serving[c] = "serving" /\ conn[c] = "closed" /\ HandlersDone(c)
        /\ serving' = [serving EXCEPT ![c] = "done"]
        /\ UNCHANGED <<conn, authenticated, authID, authMutex, reqPC, reqConn>>
    BY Zenon DEF HandleClientEnds
  <1>2. ~Accepting(c) /\ \A d \in Conns : Accepting(d)' <=> Accepting(d)
    BY <1>1, Zenon DEF HandlersDone, Accepting
  <1>3. CASE ~authenticated[c]
    <2>1. UNCHANGED <<OnlineMap, events>>
      BY <1>3, Zenon DEF HandleClientEnds
    <2>2. ConnTypes' /\ AuthInv'
      BY <1>1, <2>1 DEF ConnTypes, AuthInv, HandlersDone
    <2>3. EventsInv'
      BY <1>1, <1>2, <1>3, <2>1, Zenon DEF EventsInv, ConnTypes
    <2>4. ASSUME NEW v \in Users PROVE Online(v)' = Online(v)
      BY <1>1, <1>2, <1>3, Zenon DEF Online, ConnTypes
    <2> QED BY <2>1, <2>2, <2>3, <2>4, Zenon DEF OnlineInv
  <1>4. CASE authenticated[c]
    <2>0. PICK u \in Users : authID[c] = u
      BY <1>4, Zenon DEF AuthInv
    <2>1. /\ OnlineMap' = [OnlineMap EXCEPT ![u] = LoggedOff(@)]
          /\ events' = [events EXCEPT ![c] = Append(@, "Disconnect")]
      BY <1>4, <2>0, Zenon DEF HandleClientEnds
    <2>3. c \in Online(u) /\ Online(u)' = Online(u) \ {c}
      BY <1>1, <1>2, <1>4, <2>0, Zenon DEF Online, ConnTypes
    <2>4. /\ IsFiniteSet(Online(u)')
          /\ Cardinality(Online(u)') = Cardinality(Online(u)) - 1
      BY <2>0, <2>3, FS_RemoveElement DEF OnlineInv
    <2>5. /\ Cardinality(Online(u)') \in Nat /\ Cardinality(Online(u)) \in Nat
      BY <2>0, <2>4, FS_CardinalityType, Zenon DEF OnlineInv
    <2>6. OnlineMap'[u] = Cardinality(Online(u)')
      BY <2>1, <2>0, <2>4, <2>5 DEF OnlineInv, ConnTypes, LoggedOff
    <2>7. ASSUME NEW v \in Users, v # u
          PROVE  Online(v)' = Online(v) /\ OnlineMap'[v] = OnlineMap[v]
      BY <1>1, <1>2, <2>1, <2>0, <2>7, Zenon DEF Online, ConnTypes
    <2>8. OnlineInv'
      BY <2>4, <2>6, <2>7, Zenon DEF OnlineInv
    <2>9. ConnTypes' /\ AuthInv'
      <3>1. OnlineMap' \in [Users -> Nat]
        BY <2>1, <2>0, <2>5, <2>6, Zenon DEF ConnTypes
      <3> QED BY <1>1, <2>1, <3>1 DEF ConnTypes, AuthInv, HandlersDone
    <2>10. EventsInv'
      <3>1. events[c] = <<"Connect">> /\ events'[c] = <<"Connect", "Disconnect">>
        <4>1. events[c] = <<"Connect">>
          BY <1>1, <1>2, <1>4, Zenon DEF EventsInv
        <4>2. events'[c] = Append(events[c], "Disconnect")
          BY <2>1, Zenon DEF ConnTypes
        <4>3. Append(<<"Connect">>, "Disconnect") = <<"Connect", "Disconnect">>
          BY AppendToOne, Zenon
        <4> QED BY <4>1, <4>2, <4>3, Zenon
      <3> QED BY <1>1, <1>2, <1>4, <2>1, <3>1, Zenon DEF EventsInv, ConnTypes
    <2> QED BY <2>8, <2>9, <2>10, Zenon
  <1> QED BY <1>3, <1>4, Zenon

LEMMA ConnNext == ConnInv /\ [Next]_vars => ConnInv'
  <1> SUFFICES ASSUME ConnInv, [Next]_vars PROVE ConnInv'
    OBVIOUS
  <1>1. ASSUME NEW c \in Conns, Accept(c) PROVE ConnInv'
    BY <1>1, AcceptStep, Zenon
  <1>2. ASSUME NEW c \in Conns, ConnLost(c) \/ UDPTraffic(c) PROVE ConnInv'
    <2>1. /\ conn' \in [Conns -> {"new", "open", "closed"}]
          /\ \A d \in Conns : conn[d] = "closed" => conn'[d] = "closed"
      BY <1>2, Zenon DEF ConnInv, ConnTypes, ConnLost, UDPTraffic
    <2>2. UNCHANGED <<serving, authenticated, authID, authMutex, reqPC, reqConn,
                      OnlineMap, events>>
      BY <1>2, Zenon DEF ConnLost, UDPTraffic
    <2> QED BY <2>1, <2>2, ConnKept, Zenon
  <1>3. ASSUME NEW c \in Conns, HandleClientEnds(c) PROVE ConnInv'
    BY <1>3, HandleClientEndsStep, Zenon
  <1>4. ASSUME NEW r \in Reqs,
               (\E c \in Conns : Request(r, c)) \/ AuthLock(r) \/ AuthFails(r)
        PROVE  ConnInv'
    BY <1>4, RequestStep, Zenon
  <1>5. ASSUME NEW r \in Reqs, AuthOnline(r) \/ \E u \in Users : AuthOK(r, u)
        PROVE  ConnInv'
    BY <1>5, AuthOKStep, AuthOnlineStep, Zenon
  <1>6. ASSUME NEW s \in Streams, CopyReturns(s) PROVE ConnInv'
    <2>1. /\ conn' \in [Conns -> {"new", "open", "closed"}]
          /\ \A d \in Conns : conn[d] = "closed" => conn'[d] = "closed"
      BY <1>6, Zenon DEF ConnInv, ConnTypes, CopyReturns
    <2>2. UNCHANGED <<serving, authenticated, authID, authMutex, reqPC, reqConn,
                      OnlineMap, events>>
      BY <1>6, Zenon DEF CopyReturns
    <2> QED BY <2>1, <2>2, ConnKept, Zenon
  <1>7. ASSUME UNCHANGED <<conn, serving, authenticated, authID, authMutex, reqPC,
                           reqConn, OnlineMap, events>>
        PROVE  ConnInv'
    BY <1>7, ConnKept, Zenon DEF ConnInv, ConnTypes
  <1>8. ASSUME NEW c \in Conns, UDPEnds(c) PROVE ConnInv'
    BY <1>7, <1>8, Zenon DEF UDPEnds
  <1>9. ASSUME NEW u \in Users, Kick(u) PROVE ConnInv'
    BY <1>7, <1>9, Zenon DEF Kick, connVars
  <1>10. CASE GetTrafficClear
    BY <1>7, <1>10, Zenon DEF GetTrafficClear, connVars
  <1>11. ASSUME NEW s \in Streams,
                \/ DialFails(s) \/ DialOK(s)
                \/ ReadRequest(s) \/ RequestFails(s) \/ HookDone(s)
                \/ \E c \in Conns : OpenStream(s, c)
                \/ \E d \in Dirs : CopyRead(s, d) \/ CopierStep(s, d)
         PROVE  ConnInv'
    <2>1. UNCHANGED connVars
      BY <1>11, Zenon DEF DialFails, DialOK, ReadRequest, RequestFails, HookDone, OpenStream,
         CopyRead, CopierStep, CopyLog, CopyWrite, CopyStops
    <2> QED BY <1>7, <2>1, Zenon DEF connVars
  <1>12. CASE UNCHANGED vars
    BY <1>7, <1>12, Zenon DEF vars, connVars
  <1> QED
    BY <1>1, <1>2, <1>3, <1>4, <1>5, <1>6, <1>8, <1>9, <1>10, <1>11, <1>12, Zenon
    DEF Next, ConnStep, ReqStep, StreamStep

-----------------------------------------------------------------------------
StatsInv ==
    /\ StatsMap \in [Users -> Nat]
    /\ reported \in [Users -> Nat]
    /\ forwarded \in [Users -> Nat]
    /\ StatsExact

\* LogTraffic counts a chunk in both places or in neither.
LEMMA LogTrafficStep ==
    ASSUME StatsInv, NEW c, NEW ok \in BOOLEAN, LogTraffic(c, ok), UNCHANGED reported
    PROVE  StatsInv'
  <1> DEFINE u == authID[c]
  <1>1. \/ UNCHANGED <<StatsMap, forwarded>>
        \/ /\ StatsMap' = [StatsMap EXCEPT ![u] = @ + 1]
           /\ forwarded' = [forwarded EXCEPT ![u] = @ + 1]
    BY Zenon DEF LogTraffic
  <1> HIDE DEF u
  <1> QED BY <1>1 DEF StatsInv, StatsExact

LEMMA StatsNext == StatsInv /\ [Next]_vars => StatsInv'
  <1> SUFFICES ASSUME StatsInv, [Next]_vars PROVE StatsInv'
    OBVIOUS
  <1>1. ASSUME UNCHANGED <<StatsMap, reported, forwarded>> PROVE StatsInv'
    BY <1>1, Zenon DEF StatsInv, StatsExact
  <1>2. ASSUME NEW c \in Conns, UDPTraffic(c) PROVE StatsInv'
    BY <1>2, LogTrafficStep, Zenon DEF UDPTraffic
  <1>3. ASSUME NEW s \in Streams, NEW d \in Dirs, CopyLog(s, d) PROVE StatsInv'
    BY <1>3, LogTrafficStep, Zenon DEF CopyLog
  <1>4. CASE GetTrafficClear
    BY <1>4 DEF GetTrafficClear, Clear, StatsInv, StatsExact
  <1>5. ASSUME NEW c \in Conns, Accept(c) \/ ConnLost(c) \/ ConnStep(c) PROVE StatsInv'
    BY <1>1, <1>5, Zenon DEF Accept, ConnLost, ConnStep, HandleClientEnds, UDPEnds, statVars
  <1>6. ASSUME NEW r \in Reqs, ReqStep(r) \/ \E c \in Conns : Request(r, c) PROVE StatsInv'
    BY <1>1, <1>6, Zenon DEF ReqStep, AuthLock, AuthFails, AuthOnline, AuthOK, Request, statVars
  <1>7. ASSUME NEW u \in Users, Kick(u) PROVE StatsInv'
    BY <1>1, <1>7, Zenon DEF Kick
  <1>8. ASSUME NEW s \in Streams,
               \/ StreamStep(s) \/ ReadRequest(s) \/ RequestFails(s) \/ HookDone(s)
               \/ \E c \in Conns : OpenStream(s, c)
        PROVE  StatsInv'
    BY <1>1, <1>8, Zenon DEF StreamStep, DialFails, DialOK, CopyReturns, ReadRequest,
       RequestFails, HookDone, OpenStream, statVars
  <1>9. ASSUME NEW s \in Streams, NEW d \in Dirs,
               CopyRead(s, d) \/ CopyWrite(s, d) \/ CopyStops(s, d)
        PROVE  StatsInv'
    BY <1>1, <1>9, Zenon DEF CopyRead, CopyWrite, CopyStops, statVars
  <1>10. CASE UNCHANGED vars
    BY <1>1, <1>10, Zenon DEF vars, statVars
  <1> QED
    BY <1>2, <1>3, <1>4, <1>5, <1>6, <1>7, <1>8, <1>9, <1>10, Zenon DEF Next, CopierStep

\* Who is online, the events and the byte counts are exact, for any number of
\* connections and of concurrent authentication requests: the number kept for a
\* user is the number of announced connections, Connect and Disconnect come in
\* pairs, and every chunk LogTraffic accepted is counted once.
THEOREM AccountsAreExact == Spec => []AccountsExact
  <1>1. Init => ConnInv /\ StatsInv
    BY ConnInit DEF Init, StatsInv, StatsExact
  <1>2. ConnInv /\ StatsInv /\ [Next]_vars => (ConnInv /\ StatsInv)'
    BY ConnNext, StatsNext, Zenon
  <1>3. ConnInv /\ StatsInv => AccountsExact
    <2> SUFFICES ASSUME ConnInv, StatsInv PROVE AccountsExact
      OBVIOUS
    <2>1. ASSUME NEW u \in Users
          PROVE  Online(u) = {c \in Conns :
                   /\ authenticated[c] /\ authID[c] = u /\ serving[c] # "done"
                   /\ \A r \in Reqs : reqConn[r] = c => reqPC[r] # "accepted"}
      BY Zenon DEF Online, Accepting
    <2>2. OnlineExact
      BY <2>1, Zenon DEF ConnInv, OnlineInv, OnlineExact
    <2>3. ASSUME NEW c \in Conns
          PROVE  /\ events[c] \in {<<>>, <<"Connect">>, <<"Connect", "Disconnect">>}
                 /\ serving[c] = "done" =>
                      (events[c] = <<"Connect", "Disconnect">>) = authenticated[c]
      <3>1. CASE ~authenticated[c]
        <4>1. events[c] = <<>> /\ authenticated[c] = FALSE
          BY <3>1, Zenon DEF ConnInv, ConnTypes, EventsInv
        <4>2. <<>> # <<"Connect", "Disconnect">>
          OBVIOUS
        <4> QED BY <4>1, <4>2, Zenon
      <3>2. CASE authenticated[c]
        <4>1. serving[c] = "done" => ~Accepting(c)
          BY Zenon DEF ConnInv, AuthInv, HandlersDone, Accepting
        <4> QED BY <3>2, <4>1, Zenon DEF ConnInv, ConnTypes, EventsInv
      <3> QED BY <3>1, <3>2, Zenon
    <2>4. EventsPaired
      BY <2>3, Zenon DEF EventsPaired
    <2> QED BY <2>2, <2>4, Zenon DEF AccountsExact, StatsInv
  <1> QED BY <1>1, <1>2, <1>3, PTL DEF Spec

-----------------------------------------------------------------------------
\* An accepted request: the response, and then only data.
OKData(w) == Len(w) >= 1 /\ w[1] = "ok" /\ \A i \in 2 .. Len(w) : w[i] = "data"

StreamTypes ==
    /\ sPC \in [Streams -> {"idle", "request", "hook", "dial", "copy", "end"}]
    /\ hooked \in [Streams -> BOOLEAN]
    /\ written \in [Streams -> Seq({"ok", "fail", "data"})]
    /\ copier \in [Streams -> [Dirs -> {"none", "read", "log", "write", "end"}]]

\* What was written, by the place handleTCPRequest is at; the copying goroutines
\* may outlive it.
ResponseInv ==
    \A s \in Streams :
      /\ sPC[s] \in {"idle", "request"} => written[s] = <<>>
      /\ sPC[s] = "hook" => hooked[s] /\ written[s] = <<"ok">>
      /\ sPC[s] = "dial" => written[s] = IF hooked[s] THEN <<"ok">> ELSE <<>>
      /\ sPC[s] = "copy" => OKData(written[s])
      /\ sPC[s] = "end" => written[s] \in {<<>>, <<"fail">>} \/ OKData(written[s])
      /\ (\E d \in Dirs : copier[s][d] # "none") =>
           sPC[s] \in {"copy", "end"} /\ OKData(written[s])

StreamInv == StreamTypes /\ ResponseInv

LEMMA DataAfterOK ==
    ASSUME NEW w \in Seq({"ok", "fail", "data"}), OKData(w)
    PROVE  OKData(Append(w, "data"))
  BY DEF OKData

LEMMA OKAlone == OKData(<<"ok">>)
  BY DEF OKData

\* The steps of handleTCPRequest before it copies.
LEMMA HandlerStep ==
    ASSUME StreamInv, NEW s \in Streams,
           \/ \E c \in Conns : OpenStream(s, c)
           \/ ReadRequest(s) \/ RequestFails(s) \/ HookDone(s)
           \/ DialFails(s) \/ DialOK(s) \/ CopyReturns(s)
    PROVE  StreamInv'
  <1> USE DEF StreamInv
  <1>1. CASE \E c \in Conns : OpenStream(s, c)
    BY <1>1 DEF OpenStream, StreamTypes, ResponseInv
  <1>2. CASE ReadRequest(s)
    <2>1. PICK h \in BOOLEAN :
            /\ hooked' = [hooked EXCEPT ![s] = h]
            /\ sPC' = [sPC EXCEPT ![s] = IF h THEN "hook" ELSE "dial"]
            /\ written' = IF h THEN [written EXCEPT ![s] = Append(@, "ok")] ELSE written
      BY <1>2, Zenon DEF ReadRequest, Respond
    <2>2. sPC[s] = "request" /\ written[s] = <<>> /\ copier' = copier
      BY <1>2, Zenon DEF ReadRequest, ResponseInv
    <2>3. Append(<<>>, "ok") = <<"ok">>
      OBVIOUS
    <2>4. written' = IF h THEN [written EXCEPT ![s] = <<"ok">>] ELSE written
      BY <2>1, <2>2, <2>3, Zenon
    <2> QED BY <2>1, <2>2, <2>4 DEF StreamTypes, ResponseInv
  <1>3. CASE RequestFails(s)
    BY <1>3, OKAlone DEF RequestFails, Return, StreamTypes, ResponseInv
  <1>4. CASE HookDone(s)
    BY <1>4, Zenon DEF HookDone, StreamTypes, ResponseInv
  <1>5. ASSUME NEW msg \in {"ok", "fail"}, sPC[s] = "dial", RespondUnlessHooked(s, msg)
        PROVE  /\ written' \in [Streams -> Seq({"ok", "fail", "data"})]
               /\ \A t \in Streams : t # s => written'[t] = written[t]
               /\ written'[s] = IF hooked[s] THEN <<"ok">> ELSE <<msg>>
    <2>1. CASE hooked[s]
      BY <1>5, <2>1, Zenon DEF RespondUnlessHooked, StreamTypes, ResponseInv
    <2>2. CASE ~hooked[s]
      <3>1. written[s] = <<>> /\ written' = [written EXCEPT ![s] = Append(@, msg)]
        BY <1>5, <2>2, Zenon DEF RespondUnlessHooked, Respond, ResponseInv
      <3>2. Append(<<>>, msg) = <<msg>>
        OBVIOUS
      <3>3. written' = [written EXCEPT ![s] = <<msg>>]
        BY <3>1, <3>2, Zenon
      <3> QED BY <2>2, <3>3 DEF StreamTypes
    <2> QED BY <2>1, <2>2, Zenon
  <1>6. CASE DialFails(s)
    <2>1. /\ sPC[s] = "dial" /\ sPC' = [sPC EXCEPT ![s] = "end"]
          /\ RespondUnlessHooked(s, "fail") /\ UNCHANGED <<hooked, copier>>
      BY <1>6, Zenon DEF DialFails, Return
    <2>2. /\ written' \in [Streams -> Seq({"ok", "fail", "data"})]
          /\ \A t \in Streams : t # s => written'[t] = written[t]
          /\ written'[s] = IF hooked[s] THEN <<"ok">> ELSE <<"fail">>
      BY <1>5, <2>1, Zenon
    <2> QED BY <2>1, <2>2, OKAlone, ZenonT(30) DEF StreamTypes, ResponseInv
  <1>7. CASE DialOK(s)
    <2>1. /\ sPC[s] = "dial" /\ sPC' = [sPC EXCEPT ![s] = "copy"]
          /\ RespondUnlessHooked(s, "ok") /\ UNCHANGED hooked
          /\ copier' = [copier EXCEPT ![s] = [d \in Dirs |-> "read"]]
      BY <1>7, Zenon DEF DialOK
    <2>2. /\ written' \in [Streams -> Seq({"ok", "fail", "data"})]
          /\ \A t \in Streams : t # s => written'[t] = written[t]
          /\ written'[s] = <<"ok">>
      BY <1>5, <2>1, Zenon
    <2>3. StreamTypes'
      BY <2>1, <2>2, Zenon DEF StreamTypes
    <2>4. OKData(written'[s]) /\ sPC'[s] = "copy"
      BY <2>1, <2>2, OKAlone, Zenon DEF StreamTypes
    <2>5. \A t \in Streams : t # s => sPC'[t] = sPC[t] /\ copier'[t] = copier[t]
      BY <2>1, Zenon DEF StreamTypes
    <2>6. ResponseInv'
      <3> SUFFICES ASSUME NEW t \in Streams
                   PROVE  /\ sPC'[t] \in {"idle", "request"} => written'[t] = <<>>
                          /\ sPC'[t] = "hook" => hooked'[t] /\ written'[t] = <<"ok">>
                          /\ sPC'[t] = "dial" => written'[t] = IF hooked'[t] THEN <<"ok">> ELSE <<>>
                          /\ sPC'[t] = "copy" => OKData(written'[t])
                          /\ sPC'[t] = "end" => written'[t] \in {<<>>, <<"fail">>} \/ OKData(written'[t])
                          /\ (\E d \in Dirs : copier'[t][d] # "none") =>
                               sPC'[t] \in {"copy", "end"} /\ OKData(written'[t])
        BY Zenon DEF ResponseInv
      <3>1. CASE t = s
        BY <2>4, <3>1, Zenon
      <3>2. CASE t # s
        <4>1. sPC'[t] = sPC[t] /\ copier'[t] = copier[t] /\ written'[t] = written[t] /\ hooked' = hooked
          BY <2>1, <2>2, <2>5, <3>2, Zenon
        <4> QED BY <4>1, Zenon DEF ResponseInv
      <3> QED BY <3>1, <3>2, Zenon
    <2> QED BY <2>3, <2>6, Zenon
  <1>8. CASE CopyReturns(s)
    BY <1>8, Zenon DEF CopyReturns, Return, StreamTypes, ResponseInv
  <1> QED BY <1>1, <1>2, <1>3, <1>4, <1>6, <1>7, <1>8, Zenon

\* The steps of the copying goroutines: only data follows the response.
LEMMA CopyStep ==
    ASSUME StreamInv, NEW s \in Streams, NEW d \in Dirs, CopyRead(s, d) \/ CopierStep(s, d)
    PROVE  StreamInv'
  <1> USE DEF StreamInv
  <1>1. /\ copier[s][d] # "none" /\ UNCHANGED <<sPC, hooked>>
        /\ \E label \in {"read", "log", "write", "end"} :
             copier' = [copier EXCEPT ![s][d] = label]
    BY Zenon DEF CopyRead, CopierStep, CopyLog, CopyWrite, CopyStops, CopyEnds, CopierGoto
  <1>2. sPC[s] \in {"copy", "end"} /\ OKData(written[s])
    BY <1>1, Zenon DEF ResponseInv
  <1>3. written' = written \/ written' = [written EXCEPT ![s] = Append(@, "data")]
    BY Zenon DEF CopyRead, CopierStep, CopyLog, CopyWrite, CopyStops, Respond
  <1>4. /\ written' \in [Streams -> Seq({"ok", "fail", "data"})]
        /\ \A t \in Streams : t # s => written'[t] = written[t]
        /\ OKData(written'[s])
    <2>1. CASE written' = written
      BY <1>2, <2>1, Zenon DEF StreamTypes
    <2>2. CASE written' = [written EXCEPT ![s] = Append(@, "data")]
      <3>1. written'[s] = Append(written[s], "data")
        BY <2>2, Zenon DEF StreamTypes
      <3>2. OKData(written'[s])
        BY <1>2, <3>1, DataAfterOK, Zenon DEF StreamTypes
      <3> QED BY <2>2, <3>2 DEF StreamTypes
    <2> QED BY <1>3, <2>1, <2>2, Zenon
  <1>5. /\ copier' \in [Streams -> [Dirs -> {"none", "read", "log", "write", "end"}]]
        /\ \A t \in Streams : t # s => copier'[t] = copier[t]
    BY <1>1 DEF StreamTypes
  <1> QED BY <1>1, <1>2, <1>4, <1>5 DEF StreamTypes, ResponseInv

LEMMA StreamNext == StreamInv /\ [Next]_vars => StreamInv'
  <1> SUFFICES ASSUME StreamInv, [Next]_vars PROVE StreamInv'
    OBVIOUS
  <1>1. ASSUME UNCHANGED streamVars PROVE StreamInv'
    BY <1>1, Zenon DEF streamVars, StreamInv, StreamTypes, ResponseInv
  <1>2. ASSUME NEW c \in Conns, Accept(c) \/ ConnLost(c) \/ ConnStep(c) \/ UDPTraffic(c)
        PROVE  StreamInv'
    BY <1>1, <1>2, Zenon DEF Accept, ConnLost, ConnStep, HandleClientEnds, UDPEnds, UDPTraffic
  <1>3. ASSUME NEW r \in Reqs, ReqStep(r) \/ \E c \in Conns : Request(r, c)
        PROVE  StreamInv'
    BY <1>1, <1>3, Zenon DEF ReqStep, AuthLock, AuthFails, AuthOnline, AuthOK, Request
  <1>4. ASSUME NEW u \in Users, Kick(u) PROVE StreamInv'
    BY <1>1, <1>4, Zenon DEF Kick
  <1>5. CASE GetTrafficClear
    BY <1>1, <1>5, Zenon DEF GetTrafficClear
  <1>6. CASE UNCHANGED vars
    BY <1>1, <1>6, Zenon DEF vars
  <1> QED
    BY <1>2, <1>3, <1>4, <1>5, <1>6, HandlerStep, CopyStep, Zenon DEF Next, StreamStep

\* A client reads one response on a proxy stream, before any data, and nothing
\* after a failure, however the hook, the dial, the copying goroutines and the
\* loss of the connection interleave.
THEOREM OneResponseIsSent == Spec => []OneResponse
  <1>1. Init => StreamInv
    BY DEF Init, StreamInv, StreamTypes, ResponseInv
  <1>2. StreamInv => OneResponse
    <2> SUFFICES ASSUME StreamInv, NEW s \in Streams
                 PROVE  /\ \A i \in DOMAIN written[s] : (written[s][i] = "data") = (i > 1)
                        /\ written[s] # <<>> /\ Head(written[s]) = "fail" =>
                             Len(written[s]) = 1
      BY Zenon DEF OneResponse
    <2>1. written[s] \in Seq({"ok", "fail", "data"})
      BY Zenon DEF StreamInv, StreamTypes
    <2>2. CASE written[s] \in {<<>>, <<"fail">>}
      BY <2>2
    <2>3. CASE OKData(written[s])
      <3>1. \A i \in DOMAIN written[s] : i = 1 \/ i \in 2 .. Len(written[s])
        BY <2>1
      <3>2. Head(written[s]) = "ok"
        BY <2>1, <2>3 DEF OKData
      <3> QED BY <2>1, <2>3, <3>1, <3>2 DEF OKData
    <2>4. written[s] = <<"ok">> => OKData(written[s])
      BY OKAlone, Zenon
    <2> QED BY <2>2, <2>3, <2>4, Zenon DEF StreamInv, StreamTypes, ResponseInv
  <1> QED BY <1>1, <1>2, StreamNext, PTL DEF Spec

-----------------------------------------------------------------------------
(***************************************************************************)
(* The protocol: the exchange and the messages                             *)
(***************************************************************************)

\* What is known of a configuration and of the headers under way, step by step.
ClientConfigs ==
    [MaxTx : Nat, MaxRx : Nat, window : Windows \cup {DefaultWindow},
     idle : Idles \cup {DefaultIdle}, cc : {"", "reno", "cubic", "bbr"}]

\* The configurations of a server, before and after they are filled in.
ServerConfigs ==
    [MaxTx : Nat, MaxRx : Nat, window : {0, DefaultWindow}, idle : {0, DefaultIdle},
     cc : {"", "reno", "bbr"}, ignore : BOOLEAN, udp : BOOLEAN]

\* What the server sent and settled on.
ServerSettled ==
    /\ header = AuthResponseToHeader(sCfg.udp, sCfg.MaxRx, sCfg.ignore)
    /\ sTx = IF sCfg.ignore THEN 0 ELSE Agreed(cCfg.MaxRx, sCfg.MaxTx)
    /\ sCC = IF sTx > 0 THEN "brutal" ELSE sCfg.cc

\* A configuration that is filled in keeps its rates, the request bears the rate
\* the client receives at, and the response what the server settled on.
HandshakeInv ==
    /\ cCfg \in ClientConfigs /\ sCfg \in ServerConfigs
    /\ hsPC = "answer" => header = [RX |-> Number(cCfg.MaxRx)]
    /\ hsPC \in {"response", "done"} => ServerSettled
    /\ RatesAgree

\* The client's comparison and the server's choose the same rate.
LEMMA AgreedRates ==
    ASSUME NEW known \in Nat, NEW limit \in Nat
    PROVE  /\ (IF limit > 0 /\ known > limit THEN limit ELSE known) = Agreed(known, limit)
           /\ (IF limit = 0 \/ limit > known THEN known ELSE limit) = Agreed(known, limit)
  BY DEF Agreed

\* A header is read as the number, or the word, it was written from.
LEMMA HeadersReadBack ==
    ASSUME NEW udp, NEW rx \in Nat, NEW auto \in BOOLEAN
    PROVE  /\ ParseUint(Number(rx)) = rx
           /\ AuthResponseFromHeader(AuthResponseToHeader(udp, rx, auto)) =
                [UDPEnabled |-> udp, RxAuto |-> auto, Rx |-> IF auto THEN 0 ELSE rx]
  <1>1. ParseUint(Number(rx)) = rx
    BY DEF ParseUint, Number
  <1>2. Number(rx) # AutoText
    <2>1. Number(rx).text = "number" /\ AutoText.text = "auto"
      BY DEF Number, AutoText
    <2> QED BY <2>1
  <1> DEFINE h == AuthResponseToHeader(udp, rx, auto)
  <1>3. h.UDP = udp /\ h.RX = IF auto THEN AutoText ELSE Number(rx)
    BY DEF AuthResponseToHeader
  <1>4. (h.RX = AutoText) = auto
    BY <1>2, <1>3
  <1>5. (IF h.RX = AutoText THEN 0 ELSE ParseUint(h.RX)) = IF auto THEN 0 ELSE rx
    BY <1>1, <1>2, <1>3
  <1>6. AuthResponseFromHeader(h) =
          [UDPEnabled |-> h.UDP, RxAuto |-> h.RX = AutoText,
           Rx |-> IF h.RX = AutoText THEN 0 ELSE ParseUint(h.RX)]
    BY DEF AuthResponseFromHeader
  <1> HIDE DEF h
  <1>7. AuthResponseFromHeader(h) =
                [UDPEnabled |-> udp, RxAuto |-> auto, Rx |-> IF auto THEN 0 ELSE rx]
    BY <1>3, <1>4, <1>5, <1>6
  <1> QED BY <1>1, <1>7 DEF h

\* The configurations before the exchange.
LEMMA HandshakeStart == HandshakeInit => HandshakeInv
  <1> SUFFICES ASSUME HandshakeInit PROVE HandshakeInv
    OBVIOUS
  <1>1. cCfg \in ClientConfigs /\ sCfg \in ServerConfigs
    BY HandshakeAssumption DEF HandshakeInit, ClientConfigs, ServerConfigs
  <1>2. hsPC = "client"
    BY DEF HandshakeInit
  <1> QED BY <1>1, <1>2 DEF HandshakeInv, RatesAgree

\* Each step of the exchange.
LEMMA HandshakeStep == HandshakeInv /\ [HandshakeNext]_hsVars => HandshakeInv'
  <1> SUFFICES ASSUME HandshakeInv, [HandshakeNext]_hsVars PROVE HandshakeInv'
    OBVIOUS
  <1> USE DEF HandshakeInv
  <1>1. CASE UNCHANGED hsVars
    BY <1>1, Zenon DEF hsVars, ServerSettled, RatesAgree
  <1>2. CASE ClientFill
    <2>1. cCfg' \in ClientConfigs
      BY <1>2 DEF ClientFill, Fill, NormalizeType, ClientConfigs
    <2>2. hsPC' \in {"server", "refused"} /\ sCfg' = sCfg
      BY <1>2 DEF ClientFill
    <2> QED BY <2>1, <2>2 DEF ClientConfigs, ServerConfigs, RatesAgree
  <1>3. CASE ServerFill
    <2>1. sCfg' \in ServerConfigs
      BY <1>3 DEF ServerFill, Fill, NormalizeType, ServerConfigs
    <2>2. hsPC' \in {"request", "refused"} /\ cCfg' = cCfg
      BY <1>3 DEF ServerFill
    <2> QED BY <2>1, <2>2 DEF ClientConfigs, ServerConfigs, RatesAgree
  <1>4. CASE SendRequest
    BY <1>4 DEF SendRequest, ClientConfigs, ServerConfigs, RatesAgree
  <1>5. CASE ServeHTTP
    <2>1. header.RX = Number(cCfg.MaxRx)
      BY <1>5 DEF ServeHTTP
    <2>0. cCfg.MaxRx \in Nat /\ sCfg.MaxTx \in Nat
      BY DEF ClientConfigs, ServerConfigs
    <2>9. ParseUint(header.RX) = cCfg.MaxRx
      BY <2>0, <2>1 DEF ParseUint, Number
    <2>2. ServerTx(ParseUint(header.RX)) = Agreed(cCfg.MaxRx, sCfg.MaxTx)
      <3>1. Agreed(cCfg.MaxRx, sCfg.MaxTx)
              = IF sCfg.MaxTx > 0 /\ cCfg.MaxRx > sCfg.MaxTx THEN sCfg.MaxTx ELSE cCfg.MaxRx
        BY <2>0, AgreedRates, Zenon
      <3> QED BY <2>9, <3>1, Zenon DEF ServerTx
    <2>3. hsPC' = "response" /\ cCfg' = cCfg /\ sCfg' = sCfg
      BY <1>5 DEF ServeHTTP
    <2>4. ServerSettled'
      BY <1>5, <2>2 DEF ServeHTTP, ServerSettled, Agreed
    <2> QED BY <2>3, <2>4 DEF ClientConfigs, ServerConfigs, RatesAgree
  <1>6. CASE ReadResponse
    <2> DEFINE resp == AuthResponseFromHeader(header)
    <2>0. sCfg.MaxRx \in Nat /\ sCfg.ignore \in BOOLEAN
      BY DEF ServerConfigs
    <2>9. resp = [UDPEnabled |-> sCfg.udp, RxAuto |-> sCfg.ignore,
                  Rx |-> IF sCfg.ignore THEN 0 ELSE sCfg.MaxRx]
      BY <1>6, <2>0, HeadersReadBack, Zenon DEF ReadResponse, ServerSettled
    <2> HIDE DEF resp
    <2>1. resp.RxAuto = sCfg.ignore /\ resp.Rx = IF sCfg.ignore THEN 0 ELSE sCfg.MaxRx
      BY <2>9
    <2>2. ClientTx(sCfg.MaxRx) = Agreed(cCfg.MaxTx, sCfg.MaxRx)
      BY AgreedRates DEF ClientTx, ClientConfigs, ServerConfigs
    <2>3. cTx' = IF sCfg.ignore THEN 0 ELSE Agreed(cCfg.MaxTx, sCfg.MaxRx)
      BY <1>6, <2>1, <2>2 DEF ReadResponse, resp
    <2>4. hsPC' = "done" /\ UNCHANGED <<cCfg, sCfg, header, sTx, sCC>>
          /\ cCC' = IF cTx' > 0 THEN "brutal" ELSE cCfg.cc
      BY <1>6 DEF ReadResponse
    <2>5. ServerSettled
      BY <1>6 DEF ReadResponse
    <2> QED BY <2>3, <2>4, <2>5 DEF ClientConfigs, ServerConfigs, ServerSettled, RatesAgree, Agreed
  <1> QED BY <1>1, <1>2, <1>3, <1>4, <1>5, <1>6 DEF HandshakeNext

-----------------------------------------------------------------------------
\* What is written and read.
Bytes == Seq(Int)

\* The limits of the encodings of an integer.
LEMMA VarIntTypes == maxVarInt1 \in Nat /\ maxVarInt2 \in Nat
  BY VarIntAssumption, SMT

\* The same, as the first byte tells them.
LEMMA VarIntLimits ==
    \A n \in Nat : (n <= maxVarInt1 <=> n < 64) /\ (n <= maxVarInt2 <=> n < 16384)
  <1>1. maxVarInt1 = 63 /\ maxVarInt2 = 16383
    BY VarIntAssumption, SMT
  <1> QED BY <1>1, VarIntTypes, SMT

\* Sequences of bytes, joined and cut.
LEMMA Joined ==
    ASSUME NEW s \in Bytes, NEW t \in Bytes
    PROVE  /\ s \o t \in Bytes /\ Len(s \o t) = Len(s) + Len(t)
           /\ Len(s) \in Nat /\ Len(t) \in Nat
  BY ConcatProperties DEF Bytes

\* Joining associates.
LEMMA Associates ==
    ASSUME NEW s \in Bytes, NEW t \in Bytes, NEW u \in Bytes
    PROVE  (s \o t) \o u = s \o (t \o u)
  BY ConcatAssociative DEF Bytes

\* The two parts of joined bytes.
LEMMA Parts ==
    ASSUME NEW s \in Bytes, NEW t \in Bytes
    PROVE  SubSeq(s \o t, 1, Len(s)) = s /\ SubSeq(s \o t, Len(s) + 1, Len(s \o t)) = t
  BY SMT DEF Bytes

\* A prefix that ends in the second part.
LEMMA SplitAt ==
    ASSUME NEW s \in Bytes, NEW t \in Bytes, NEW k \in Len(s) .. Len(s) + Len(t)
    PROVE  /\ SubSeq(s \o t, 1, k) = s \o SubSeq(t, 1, k - Len(s))
           /\ SubSeq(t, 1, k - Len(s)) \in Bytes /\ Len(SubSeq(t, 1, k - Len(s))) = k - Len(s)
  BY DEF Bytes

\* An integer is one or two bytes, of which the first tells.
OneByte(n) == n < 64 /\ VarintPut(n) = <<n>> /\ PutLen(n) = 1

\* The encoding of n in two bytes.
TwoBytes(n, a, b) ==
    /\ a \in Int /\ b \in Int /\ 64 <= a /\ a < 128 /\ (a - 64) * 256 + b = n
    /\ VarintPut(n) = <<a, b>> /\ PutLen(n) = 2

\* Every integer up to maxVarInt2 is written in one of the two ways.
LEMMA VarintBytes ==
    ASSUME NEW n \in 0 .. maxVarInt2
    PROVE  n \in Nat /\ (OneByte(n) \/ \E a, b : TwoBytes(n, a, b))
  <1>a. n \in Nat
    BY VarIntTypes, SMT
  <1>0. n \in Nat /\ n < 16384
    BY VarIntTypes, VarIntLimits, SMT
  <1>1. CASE n < 64
    BY <1>0, <1>1, VarIntLimits, SMT DEF OneByte, VarintPut, PutLen
  <1>2. CASE n >= 64
    <2> DEFINE a == (n \div 256) + 64
               b == n % 256
    <2>1. a \in Int /\ b \in Int /\ 64 <= a /\ a < 128 /\ (a - 64) * 256 + b = n
      BY <1>0, SMT
    <2>2. VarintPut(n) = <<a, b>> /\ PutLen(n) = 2
      BY <1>0, <1>2, VarIntLimits, SMT DEF VarintPut, PutLen
    <2> HIDE DEF a, b
    <2>3. TwoBytes(n, a, b)
      BY <2>1, <2>2, SMT DEF TwoBytes
    <2> QED BY <1>a, <2>3, Zenon
  <1> QED BY <1>0, <1>1, <1>2, SMT

\* An integer is read as it was written, and what follows it is left.
LEMMA VarintRoundTrip ==
    ASSUME NEW n \in 0 .. maxVarInt2, NEW r \in Bytes
    PROVE  /\ VarintPut(n) \in Bytes /\ Len(VarintPut(n)) = PutLen(n) /\ PutLen(n) \in {1, 2}
           /\ VarintRead(VarintPut(n) \o r) = Read(n, r)
  <1>0. n \in Nat
    BY VarintBytes, Zenon
  <1>1. CASE OneByte(n)
    <2> DEFINE s == <<n>> \o r
    <2>1. s # <<>> /\ s[1] = n /\ Tail(s) = r
      BY <1>0, SMT DEF Bytes
    <2> HIDE DEF s
    <2>2. VarintRead(s) = Read(s[1], Tail(s))
      BY <1>0, <1>1, <2>1, SMT DEF VarintRead, OneByte
    <2>3. VarintPut(n) \o r = s /\ Read(s[1], Tail(s)) = Read(n, r)
      BY <1>1, <2>1, Zenon DEF s, OneByte
    <2>4. VarintRead(VarintPut(n) \o r) = Read(n, r)
      BY <2>2, <2>3, Zenon
    <2> QED BY <1>0, <1>1, <2>4, SMT DEF OneByte, Bytes
  <1>2. ASSUME NEW a, NEW b, TwoBytes(n, a, b)
        PROVE  /\ VarintPut(n) \in Bytes /\ Len(VarintPut(n)) = PutLen(n) /\ PutLen(n) \in {1, 2}
               /\ VarintRead(VarintPut(n) \o r) = Read(n, r)
    <2> DEFINE s == <<a, b>> \o r
    <2>0. a \in Int /\ b \in Int /\ VarintPut(n) = <<a, b>> /\ PutLen(n) = 2
      BY <1>2, SMT DEF TwoBytes
    <2>1. s # <<>> /\ s[1] = a /\ s[2] = b /\ Len(s) >= 2 /\ SubSeq(s, 3, Len(s)) = r
      BY <2>0, SMT DEF Bytes
    <2> HIDE DEF s
    <2>2. VarintRead(s) = Read((s[1] - 64) * 256 + s[2], SubSeq(s, 3, Len(s)))
      BY <1>2, <2>1, SMT DEF VarintRead, TwoBytes
    <2>3. (s[1] - 64) * 256 + s[2] = n
      BY <1>2, <2>1, SMT DEF TwoBytes
    <2>4. VarintPut(n) \o r = s
      BY <2>0, Zenon DEF s
    <2> DEFINE value == (s[1] - 64) * 256 + s[2]
               rest == SubSeq(s, 3, Len(s))
    <2> HIDE DEF value, rest
    <2>5. VarintRead(VarintPut(n) \o r) = Read(n, r)
      <3>1. VarintRead(s) = Read(value, rest) /\ value = n /\ rest = r
        BY <2>1, <2>2, <2>3, SMT DEF value, rest
      <3> QED BY <2>4, <3>1, Zenon
    <2> QED BY <2>0, <2>5, SMT DEF Bytes
  <1> QED BY <1>1, <1>2, VarintBytes, Zenon

\* An integer that is cut short is not read.
LEMMA VarintCutShort ==
    ASSUME NEW n \in 0 .. maxVarInt2, NEW r \in Bytes, NEW k \in 0 .. (PutLen(n) - 1)
    PROVE  VarintRead(SubSeq(VarintPut(n) \o r, 1, k)) = Failed
  <1> DEFINE s == SubSeq(VarintPut(n) \o r, 1, k)
  <1>1. CASE k = 0
    <2>1. s = <<>>
      BY <1>1, SubSeqEmpty, SMT
    <2> HIDE DEF s
    <2>2. VarintRead(s) = Failed
      BY <2>1, SMT DEF VarintRead
    <2> QED BY <2>2 DEF s
  <1>2. CASE k = 1
    <2>0. ~OneByte(n)
      BY <1>2, SMT DEF OneByte
    <2>1. PICK a, b : TwoBytes(n, a, b)
      BY <2>0, VarintBytes, Zenon
    <2>2. s # <<>> /\ s[1] = a /\ Len(s) = 1
      BY <1>2, <2>1, SMT DEF Bytes, TwoBytes
    <2> HIDE DEF s
    <2>3. VarintRead(s) = Failed
      BY <2>1, <2>2, SMT DEF VarintRead, TwoBytes
    <2> QED BY <2>3 DEF s
  <1> QED BY <1>1, <1>2, VarintRoundTrip, SMT

\* A text is read as it was written when its length is allowed, and refused otherwise.
LEMMA TextRoundTrip ==
    ASSUME NEW t \in Bytes, Len(t) <= maxVarInt2, NEW r \in Bytes, NEW lo \in Nat, NEW hi \in Nat
    PROVE  /\ PutText(t) \in Bytes /\ Len(PutText(t)) = PutLen(Len(t)) + Len(t)
           /\ ReadText(PutText(t) \o r, lo, hi) = IF Len(t) \in lo .. hi THEN Read(t, r) ELSE Failed
  <1> DEFINE v == VarintPut(Len(t))
             s == PutText(t) \o r
             n == VarintRead(s)
  <1>0. Len(t) \in 0 .. maxVarInt2
    BY Joined, VarIntTypes, SMT
  <1>1. v \in Bytes /\ Len(v) = PutLen(Len(t)) /\ t \o r \in Bytes
    BY <1>0, VarintRoundTrip, Joined, Zenon
  <1>2. PutText(t) = v \o t
    BY DEF PutText
  <1> HIDE DEF v
  <1>3. PutText(t) \in Bytes /\ Len(PutText(t)) = PutLen(Len(t)) + Len(t)
    <2>1. v \o t \in Bytes /\ Len(v \o t) = Len(v) + Len(t)
      BY <1>1, Joined, Zenon
    <2> QED BY <1>1, <1>2, <2>1, Zenon
  <1>4. s = v \o (t \o r)
    <2>1. (v \o t) \o r = v \o (t \o r)
      BY <1>1, Associates, Zenon
    <2> QED BY <1>2, <2>1, Zenon
  <1>5. n = Read(Len(t), t \o r)
    BY <1>0, <1>1, <1>4, VarintRoundTrip, Zenon DEF v
  <1>6. n.ok /\ n.value = Len(t) /\ n.rest = t \o r
    BY <1>5 DEF Read
  <1>7. /\ Len(t \o r) >= Len(t) /\ SubSeq(t \o r, 1, Len(t)) = t
        /\ SubSeq(t \o r, Len(t) + 1, Len(t \o r)) = r
    <2>1. Len(t \o r) = Len(t) + Len(r) /\ Len(t) \in Nat /\ Len(r) \in Nat
      BY Joined, Zenon
    <2>2. SubSeq(t \o r, 1, Len(t)) = t /\ SubSeq(t \o r, Len(t) + 1, Len(t \o r)) = r
      BY Parts, Zenon
    <2> QED BY <2>1, <2>2, SMT
  <1> HIDE DEF n, s
  <1>8. ReadText(s, lo, hi) = IF Len(t) \in lo .. hi THEN Read(t, r) ELSE Failed
    BY <1>6, <1>7 DEF ReadText, n
  <1> QED BY <1>3, <1>8 DEF s

\* A text that is cut short is not read.
LEMMA TextCutShort ==
    ASSUME NEW t \in Bytes, Len(t) <= maxVarInt2, NEW r \in Bytes, NEW lo \in Nat, NEW hi \in Nat,
           NEW k \in 0 .. (PutLen(Len(t)) + Len(t) - 1)
    PROVE  ReadText(SubSeq(PutText(t) \o r, 1, k), lo, hi) = Failed
  <1> DEFINE v == VarintPut(Len(t))
             s == SubSeq(PutText(t) \o r, 1, k)
             n == VarintRead(s)
  <1>0. Len(t) \in 0 .. maxVarInt2 /\ Len(r) \in Nat
    BY Joined, VarIntTypes, SMT
  <1>1. /\ v \in Bytes /\ Len(v) = PutLen(Len(t)) /\ PutLen(Len(t)) \in {1, 2}
        /\ t \o r \in Bytes /\ Len(t \o r) = Len(t) + Len(r)
    BY <1>0, VarintRoundTrip, Joined, Zenon
  <1>2. PutText(t) \o r = v \o (t \o r)
    <2>1. PutText(t) = v \o t
      BY Zenon DEF PutText
    <2> HIDE DEF v
    <2>2. (v \o t) \o r = v \o (t \o r)
      BY <1>1, Associates, Zenon
    <2> QED BY <2>1, <2>2, Zenon
  <1>3. CASE k < PutLen(Len(t))
    <2>1. k \in 0 .. (PutLen(Len(t)) - 1)
      BY <1>0, <1>1, <1>3
    <2>2. n = Failed
      BY <1>0, <1>1, <1>2, <2>1, VarintCutShort, Zenon
    <2>3. ~n.ok
      BY <2>2 DEF Failed
    <2> HIDE DEF n, s
    <2> QED BY <2>3 DEF ReadText, n, s
  <1>4. CASE k >= PutLen(Len(t))
    <2> DEFINE u == SubSeq(t \o r, 1, k - Len(v))
    <2>1. k \in Len(v) .. Len(v) + Len(t \o r)
      BY <1>0, <1>1, <1>4
    <2> HIDE DEF v
    <2>2. s = v \o u /\ u \in Bytes /\ Len(u) = k - Len(v)
      <3>1. /\ SubSeq(v \o (t \o r), 1, k) = v \o u
            /\ u \in Bytes /\ Len(u) = k - Len(v)
        BY <1>1, <2>1, SplitAt, Zenon
      <3> QED BY <1>2, <3>1, Zenon
    <2> HIDE DEF u
    <2>3. n = Read(Len(t), u)
      BY <1>0, <2>2, VarintRoundTrip, Zenon DEF v
    <2>4. n.value = Len(t) /\ n.rest = u
      BY <2>3 DEF Read
    <2>5. ~(Len(n.rest) >= n.value)
      BY <1>0, <1>1, <2>2, <2>4
    <2> HIDE DEF n, s
    <2> QED BY <2>5 DEF ReadText, n, s
  <1> QED BY <1>0, <1>1, <1>3, <1>4
-----------------------------------------------------------------------------
\* What the reader of a stream is given when the last wCut bytes do not come.
LEMMA ArrivesIs ==
    ASSUME NEW s \in Bytes, wCut \in Nat
    PROVE  \E k \in 0 .. Len(s) :
             Arrives(s) = SubSeq(s, 1, k) /\ k = IF wCut > Len(s) THEN 0 ELSE Len(s) - wCut
  <1> DEFINE k == IF wCut > Len(s) THEN 0 ELSE Len(s) - wCut
  <1>1. Len(s) \in Nat
    BY DEF Bytes
  <1>2. k \in 0 .. Len(s) /\ Len(s) - (IF wCut > Len(s) THEN Len(s) ELSE wCut) = k
    BY <1>1
  <1> QED BY <1>2 DEF Arrives

\* The results of a read.
LEMMA Results ==
    /\ ~Failed.ok /\ Failed.rest = <<>>
    /\ \A v, r : Read(v, r).ok /\ Read(v, r).value = v /\ Read(v, r).rest = r
  BY SMT DEF Failed, Read

\* Two texts one after the other, and two more bytes.
TwoTexts(a, p) == PutText(a) \o (PutText(p) \o more)

\* They are bytes, and more than the last two.
LEMMA TwoTextsAre ==
    ASSUME NEW a \in Bytes, Len(a) <= maxVarInt2, NEW p \in Bytes, Len(p) <= maxVarInt2
    PROVE  TwoTexts(a, p) \in Bytes /\ Len(TwoTexts(a, p)) \in Nat /\ Len(TwoTexts(a, p)) > 2
  <1> DEFINE A == PutText(a)
             P == PutText(p)
  <1>1. more \in Bytes /\ Len(more) = 2 /\ 0 \in Nat
    BY DEF more, Bytes
  <1>2. A \in Bytes /\ Len(A) = PutLen(Len(a)) + Len(a) /\ P \in Bytes
    BY <1>1, TextRoundTrip, Zenon
  <1>3. Len(a) \in Nat /\ PutLen(Len(a)) \in {1, 2}
    BY SMT DEF Bytes, PutLen
  <1> HIDE DEF A, P
  <1>4. P \o more \in Bytes /\ Len(P \o more) = Len(P) + Len(more) /\ Len(P) \in Nat
    BY <1>1, <1>2, Joined, Zenon
  <1> DEFINE R == P \o more
  <1> HIDE DEF R
  <1>5. A \o R \in Bytes /\ Len(A \o R) = Len(A) + Len(R)
    BY <1>2, <1>4, Joined, Zenon DEF R
  <1>6. Len(R) >= 2 /\ Len(R) \in Nat /\ Len(A) >= 1 /\ Len(A) \in Nat
    BY <1>1, <1>2, <1>3, <1>4, SMT DEF R
  <1>7. Len(A \o R) \in Nat /\ Len(A \o R) > 2
    BY <1>5, <1>6, SMT
  <1> QED BY <1>5, <1>7, Zenon DEF TwoTexts, A, P, R

\* Reading two texts of which the end is missing.
LEMMA TwoTextsRead ==
    ASSUME NEW a \in Bytes, Len(a) <= maxVarInt2, NEW p \in Bytes, Len(p) <= maxVarInt2,
           NEW lo \in Nat, NEW hi \in Nat, NEW k \in 0 .. Len(TwoTexts(a, p))
    PROVE  LET cut == Len(TwoTexts(a, p)) - k
               one == ReadText(SubSeq(TwoTexts(a, p), 1, k), lo, hi)
               two == ReadText(one.rest, 0, MaxPaddingLength)
               fits == Len(a) \in lo .. hi /\ Len(p) <= MaxPaddingLength
           IN  IF fits /\ cut <= 2
               THEN one.ok /\ one.value = a /\ two.ok /\ two.rest = SubSeq(more, 1, 2 - cut)
               ELSE ~one.ok \/ ~two.ok
  <1> DEFINE A == PutText(a)
             P == PutText(p)
             s == TwoTexts(a, p)
             cut == Len(s) - k
             one == ReadText(SubSeq(s, 1, k), lo, hi)
             two == ReadText(one.rest, 0, MaxPaddingLength)
  <1>1. more \in Bytes /\ Len(more) = 2 /\ MaxPaddingLength \in Nat
    BY WireAssumption DEF more, Bytes
  <1>2. A \in Bytes /\ Len(A) = PutLen(Len(a)) + Len(a) /\ P \in Bytes /\ Len(P) = PutLen(Len(p)) + Len(p)
    BY <1>1, TextRoundTrip
  <1>3. P \o more \in Bytes /\ Len(P \o more) = Len(P) + 2
    <2> HIDE DEF P
    <2>1. P \o more \in Bytes /\ Len(P \o more) = Len(P) + Len(more)
      BY <1>1, <1>2, Joined, Zenon
    <2> QED BY <1>1, <2>1, Zenon
  <1>4. s \in Bytes /\ Len(s) = Len(A) + Len(P) + 2 /\ k \in Nat /\ Len(A) \in Nat /\ Len(P) \in Nat
    <2>1. s = A \o (P \o more)
      BY Zenon DEF TwoTexts
    <2> HIDE DEF s, A, P
    <2>2. s \in Bytes /\ Len(s) = Len(A) + Len(P \o more) /\ Len(A) \in Nat /\ Len(P) \in Nat
      BY <1>1, <1>2, <1>3, <2>1, Joined, Zenon
    <2>3. k \in 0 .. Len(s)
      BY DEF s
    <2> QED BY <1>3, <2>2, <2>3, SMT
  <1>5. Len(a) \in Nat /\ Len(p) \in Nat /\ PutLen(Len(a)) \in {1, 2} /\ PutLen(Len(p)) \in {1, 2}
    BY SMT DEF Bytes, PutLen
  <1> DEFINE Wanted ==
        IF Len(a) \in lo .. hi /\ Len(p) <= MaxPaddingLength /\ cut <= 2
        THEN one.ok /\ one.value = a /\ two.ok /\ two.rest = SubSeq(more, 1, 2 - cut)
        ELSE ~one.ok \/ ~two.ok
  <1>6. CASE k < Len(A)
    <2>1. k \in 0 .. (PutLen(Len(a)) + Len(a) - 1) /\ ~(cut <= 2)
      BY <1>2, <1>4, <1>5, <1>6, SMT
    <2>2. one = Failed
      BY <1>3, <2>1, TextCutShort, Zenon DEF TwoTexts
    <2>3. ~one.ok
      <3> HIDE DEF one
      <3> QED BY <2>2, Results, Zenon
    <2> HIDE DEF one, two, cut
    <2> QED BY <2>1, <2>3, Zenon DEF one, two, cut, s
  <1>7. CASE k >= Len(A)
    <2> DEFINE u == SubSeq(P \o more, 1, k - Len(A))
    <2>1. k \in Len(A) .. (Len(A) + Len(P \o more)) /\ k - Len(A) \in Nat
      BY <1>3, <1>4, <1>7, SMT
    <2>2. SubSeq(s, 1, k) = A \o u /\ u \in Bytes
      BY <1>2, <1>3, <2>1, SplitAt, Zenon DEF TwoTexts
    <2>3. one = IF Len(a) \in lo .. hi THEN Read(a, u) ELSE Failed
      <3>1. ReadText(A \o u, lo, hi) = IF Len(a) \in lo .. hi THEN Read(a, u) ELSE Failed
        <4> HIDE DEF u
        <4> QED BY <2>2, TextRoundTrip, Zenon
      <3> QED BY <2>2, <3>1, Zenon
    <2>4. CASE Len(a) \notin lo .. hi
      <3>1. ~one.ok
        <4> HIDE DEF one
        <4> QED BY <2>3, <2>4, Results, Zenon
      <3> HIDE DEF one, two, cut
      <3> QED BY <2>4, <3>1, Zenon DEF one, two, cut, s
    <2>5. CASE Len(a) \in lo .. hi
      <3>1. one.rest = u /\ one.ok /\ one.value = a
        <4> HIDE DEF one, u
        <4> QED BY <2>3, <2>5, Results, Zenon
      <3>2. two = ReadText(u, 0, MaxPaddingLength)
        BY <3>1, Zenon
      <3>3. CASE k - Len(A) < Len(P)
        <4>1. k - Len(A) \in 0 .. (PutLen(Len(p)) + Len(p) - 1) /\ ~(cut <= 2)
          <5> HIDE DEF A, P, s
          <5>1. k - Len(A) < PutLen(Len(p)) + Len(p)
            BY <1>2, <3>3, Zenon
          <5>2. k - Len(A) \in 0 .. (PutLen(Len(p)) + Len(p) - 1)
            BY <1>5, <2>1, <5>1, SMT
          <5>3. ~(cut <= 2)
            BY <1>4, <3>3, SMT
          <5> QED BY <5>2, <5>3, Zenon
        <4>2. two = Failed
          BY <1>1, <3>2, <4>1, TextCutShort, SMT
        <4>3. ~two.ok
          <5> HIDE DEF two
          <5> QED BY <4>2, Results, Zenon
        <4> HIDE DEF one, two, cut
        <4> QED BY <4>1, <4>3, Zenon DEF one, two, cut, s
      <3>4. CASE k - Len(A) >= Len(P)
        <4> DEFINE w == SubSeq(more, 1, (k - Len(A)) - Len(P))
        <4>1. k - Len(A) \in Len(P) .. (Len(P) + Len(more)) /\ (k - Len(A)) - Len(P) = 2 - cut
          BY <1>1, <1>4, <2>1, <3>4, SMT
        <4>2. u = P \o w /\ w \in Bytes
          BY <1>1, <1>2, <4>1, SplitAt, Zenon
        <4>3. two = IF Len(p) \in 0 .. MaxPaddingLength THEN Read(p, w) ELSE Failed
          <5>1. 0 \in Nat
            OBVIOUS
          <5>2. ReadText(P \o w, 0, MaxPaddingLength)
                  = IF Len(p) \in 0 .. MaxPaddingLength THEN Read(p, w) ELSE Failed
            <6> HIDE DEF w
            <6> QED BY <1>1, <4>2, <5>1, TextRoundTrip, Zenon
          <5> HIDE DEF two, u
          <5> QED BY <3>2, <4>2, <5>2, Zenon
        <4>4. w = SubSeq(more, 1, 2 - cut) /\ cut <= 2
          BY <1>4, <3>4, <4>1, SMT
        <4>5. Len(p) \in 0 .. MaxPaddingLength <=> Len(p) <= MaxPaddingLength
          BY <1>1, <1>5, SMT
        <4> HIDE DEF one, two, cut, w, u
        <4>7. Wanted
          BY <2>5, <3>1, <4>3, <4>4, <4>5, Results, Zenon
        <4> QED BY <4>7, Zenon DEF one, two, cut, s
      <3>5. k - Len(A) < Len(P) \/ k - Len(A) >= Len(P)
        <4>1. k \in Int /\ Len(A) \in Int /\ Len(P) \in Int
          BY <1>4, <2>1, SMT
        <4> HIDE DEF A, P
        <4> QED BY <4>1, SMT
      <3> QED BY <3>3, <3>4, <3>5, Zenon
    <2> QED BY <2>4, <2>5, Zenon
  <1> QED BY <1>4, <1>6, <1>7, SMT

\* The texts of the messages.
LEMMA TextIs ==
    ASSUME NEW n \in Nat, NEW b \in Int
    PROVE  Text(n, b) \in Bytes /\ Len(Text(n, b)) = n
  BY DEF Text, Bytes

\* The bytes after a message.
LEMMA MoreIs == more \in Bytes /\ Len(more) = 2
  BY SMT DEF more, Bytes

\* What follows the two bytes of the frame type.
LEMMA TypeDropped ==
    ASSUME NEW x \in Int, NEW y \in Int, NEW s \in Bytes, NEW t \in Bytes
    PROVE  Tail(Tail((<<x, y>> \o s) \o t)) \o more = s \o (t \o more)
  <1>1. <<x, y>> \in Bytes /\ s \o t \in Bytes
    BY SMT DEF Bytes
  <1>2. (<<x, y>> \o s) \o t = <<x, y>> \o (s \o t)
    <2> DEFINE f == <<x, y>>
    <2> HIDE DEF f
    <2>1. f \in Bytes
      BY <1>1 DEF f
    <2> QED BY <2>1, Associates, SMT DEF f
  <1> DEFINE u == s \o t
  <1> HIDE DEF u
  <1>3. u \in Bytes
    BY <1>1 DEF u
  <1>4. Tail(<<x, y>> \o u) = <<y>> \o u
    BY <1>3, SMT DEF Bytes
  <1>5. Tail(<<y>> \o u) = u
    BY <1>3, SMT DEF Bytes
  <1>6. (s \o t) \o more = s \o (t \o more)
    BY MoreIs, Associates, Zenon
  <1> QED BY <1>2, <1>4, <1>5, <1>6, Zenon DEF u

\* What the sender of a request and of a response writes, and more after it.
LEMMA RequestWritten ==
    ASSUME NEW a \in Bytes, Len(a) <= maxVarInt2, NEW p \in Bytes, Len(p) <= maxVarInt2
    PROVE  Tail(Tail(WriteTCPRequest(a, p))) \o more = TwoTexts(a, p)
  <1> DEFINE A == PutText(a)
             P == PutText(p)
  <1>1. A \in Bytes /\ P \in Bytes
    <2>1. more \in Bytes /\ 0 \in Nat
      BY MoreIs
    <2> QED BY <2>1, TextRoundTrip, Zenon
  <1>2. \E x, y \in Int : FrameType = <<x, y>>
    <2>1. 1025 \in Nat /\ 1025 < 16384 /\ ~(1025 < 64)
      BY SMT
    <2>2. VarintPut(1025) = <<(1025 \div 256) + 64, 1025 % 256>>
      BY <2>1, VarIntLimits, SMT DEF VarintPut
    <2> QED BY <2>2, SMT DEF FrameType
  <1> HIDE DEF A, P
  <1>3. PICK x, y \in Int : FrameType = <<x, y>>
    BY <1>2, Zenon
  <1>4. WriteTCPRequest(a, p) = (<<x, y>> \o A) \o P
    BY <1>3, Zenon DEF WriteTCPRequest, A, P
  <1>5. Tail(Tail((<<x, y>> \o A) \o P)) \o more = A \o (P \o more)
    BY <1>1, <1>3, TypeDropped, Zenon
  <1> QED BY <1>4, <1>5, Zenon DEF TwoTexts, A, P

\* A response is a status byte and two texts.
LEMMA ResponseWritten ==
    ASSUME NEW a \in Bytes, Len(a) <= maxVarInt2, NEW p \in Bytes, Len(p) <= maxVarInt2, NEW ok \in BOOLEAN
    PROVE  WriteTCPResponse(ok, a, p) \o more = <<IF ok THEN 0 ELSE 1>> \o TwoTexts(a, p)
  <1> DEFINE A == PutText(a)
             P == PutText(p)
             c == IF ok THEN 0 ELSE 1
  <1>1. A \in Bytes /\ P \in Bytes /\ more \in Bytes
    <2>1. more \in Bytes /\ 0 \in Nat
      BY DEF more, Bytes
    <2> QED BY <2>1, TextRoundTrip, Zenon
  <1>2. <<c>> \in Bytes
    BY SMT DEF Bytes
  <1>3. WriteTCPResponse(ok, a, p) = (<<c>> \o A) \o P
    BY Zenon DEF WriteTCPResponse
  <1> HIDE DEF A, P, c
  <1>4. <<c>> \o A \in Bytes /\ P \o more \in Bytes
    BY <1>1, <1>2, Joined, Zenon
  <1>5. ((<<c>> \o A) \o P) \o more = (<<c>> \o A) \o (P \o more)
    <2> DEFINE h == <<c>> \o A
    <2> HIDE DEF h
    <2>1. h \in Bytes
      BY <1>4 DEF h
    <2>2. (h \o P) \o more = h \o (P \o more)
      BY <1>1, <2>1, Associates, Zenon
    <2> QED BY <2>2, Zenon DEF h
  <1>6. (<<c>> \o A) \o (P \o more) = <<c>> \o (A \o (P \o more))
    <2> DEFINE h == <<c>>
               R == P \o more
    <2> HIDE DEF h, R
    <2>1. h \in Bytes /\ A \in Bytes /\ R \in Bytes
      BY <1>1, <1>2, <1>4, Zenon DEF h, R
    <2>2. (h \o A) \o R = h \o (A \o R)
      BY <2>1, Associates, SMT
    <2> QED BY <2>2, Zenon DEF h, R
  <1> QED BY <1>3, <1>5, <1>6, Zenon DEF TwoTexts, A, P, c

-----------------------------------------------------------------------------
\* The request and the response of a stream are read as they were written.
LEMMA StreamsReadBack == ASSUME WireInit PROVE StreamMessages
  <1> DEFINE s == TwoTexts(addr, padding)
  <1>0. wText \in Nat /\ wPad \in Nat /\ wCut \in Nat /\ wText <= maxVarInt2 /\ wPad <= maxVarInt2
    BY WireAssumption, VarIntTypes, SMT DEF WireInit
  <1>1. /\ addr \in Bytes /\ Len(addr) = wText /\ Len(addr) <= maxVarInt2
        /\ padding \in Bytes /\ Len(padding) = wPad /\ Len(padding) <= maxVarInt2
    BY <1>0, TextIs, SMT DEF addr, padding
  <1>2. {MaxAddressLength, MaxTextLength, MaxPaddingLength} \subseteq Nat /\ 0 \in Nat /\ 1 \in Nat
    BY WireAssumption, SMT
  <1>3. s \in Bytes /\ Len(s) \in Nat /\ Len(s) > 2
    BY <1>1, TwoTextsAre, Zenon
  <1>4. ASSUME wKind = "request"
        PROVE  ReadTCPRequest(Arrives(Tail(Tail(WriteTCPRequest(addr, padding))) \o more))
               = IF (wText \in 1 .. MaxAddressLength /\ wPad <= MaxPaddingLength) /\ wCut <= 2
                 THEN Read(addr, SubSeq(more, 1, 2 - wCut)) ELSE Failed
    <2>1. Tail(Tail(WriteTCPRequest(addr, padding))) \o more = s
      BY <1>1, RequestWritten, Zenon
    <2> HIDE DEF s
    <2>2. PICK k \in 0 .. Len(s) :
            Arrives(s) = SubSeq(s, 1, k) /\ k = IF wCut > Len(s) THEN 0 ELSE Len(s) - wCut
      BY <1>0, <1>3, ArrivesIs, Zenon
    <2> DEFINE cut == Len(s) - k
               one == ReadText(SubSeq(s, 1, k), 1, MaxAddressLength)
               two == ReadText(one.rest, 0, MaxPaddingLength)
               fits == wText \in 1 .. MaxAddressLength /\ wPad <= MaxPaddingLength
    <2>3. (cut <= 2 <=> wCut <= 2) /\ (cut <= 2 => cut = wCut)
      BY <1>0, <1>3, <2>2, SMT
    <2>4. IF fits /\ cut <= 2
          THEN one.ok /\ one.value = addr /\ two.ok /\ two.rest = SubSeq(more, 1, 2 - cut)
          ELSE ~one.ok \/ ~two.ok
      BY <1>1, <1>2, TwoTextsRead DEF s
    <2>5. ReadTCPRequest(SubSeq(s, 1, k))
            = IF one.ok /\ two.ok THEN Read(one.value, two.rest) ELSE Failed
      BY Zenon DEF ReadTCPRequest
    <2> HIDE DEF cut, one, two
    <2>6. CASE fits /\ wCut <= 2
      <3>1. one.ok /\ two.ok /\ one.value = addr /\ two.rest = SubSeq(more, 1, 2 - wCut)
        BY <2>3, <2>4, <2>6, Zenon
      <3> QED BY <2>1, <2>2, <2>5, <2>6, <3>1, Zenon
    <2>7. CASE ~(fits /\ wCut <= 2)
      <3>1. ~one.ok \/ ~two.ok
        BY <2>3, <2>4, <2>7, Zenon
      <3> QED BY <2>1, <2>2, <2>5, <2>7, <3>1, Zenon
    <2> QED BY <2>6, <2>7, Zenon
  <1>5. ASSUME wKind \in {"ok", "error"}
        PROVE  ReadTCPResponse(Arrives(WriteTCPResponse(wKind = "ok", addr, padding) \o more))
               = IF (wText <= MaxTextLength /\ wPad <= MaxPaddingLength) /\ wCut <= 2
                 THEN Read([ok |-> wKind = "ok", msg |-> addr], SubSeq(more, 1, 2 - wCut)) ELSE Failed
    <2> DEFINE ok == wKind = "ok"
               c == IF ok THEN 0 ELSE 1
               w == <<c>> \o s
    <2>1. WriteTCPResponse(ok, addr, padding) \o more = w
      BY <1>1, ResponseWritten, Zenon
    <2>2. c \in Int /\ ok \in BOOLEAN /\ (c = 0 <=> ok)
      OBVIOUS
    <2> HIDE DEF s, c, ok
    <2>3. <<c>> \in Bytes /\ Len(<<c>>) = 1
      BY <2>2, SMT DEF Bytes
    <2>4. w \in Bytes /\ Len(w) = 1 + Len(s)
      BY <1>3, <2>3, Joined, Zenon
    <2> HIDE DEF w
    <2>5. PICK k \in 0 .. Len(w) :
            Arrives(w) = SubSeq(w, 1, k) /\ k = IF wCut > Len(w) THEN 0 ELSE Len(w) - wCut
      BY <1>0, <2>4, ArrivesIs, Zenon
    <2> DEFINE fits == wText <= MaxTextLength /\ wPad <= MaxPaddingLength
    <2>6. CASE k = 0
      <3>1. SubSeq(w, 1, k) = <<>> /\ ~(wCut <= 2)
        BY <1>0, <1>3, <2>4, <2>5, <2>6, SubSeqEmpty, SMT
      <3>2. ReadTCPResponse(<<>>) = Failed
        BY Zenon DEF ReadTCPResponse
      <3> QED BY <2>1, <2>5, <3>1, <3>2, Zenon DEF ok
    <2>7. CASE k # 0
      <3> DEFINE rest == SubSeq(s, 1, k - 1)
                 cut == Len(s) - (k - 1)
                 one == ReadText(rest, 0, MaxTextLength)
                 two == ReadText(one.rest, 0, MaxPaddingLength)
      <3>1. /\ k \in Len(<<c>>) .. (Len(<<c>>) + Len(s)) /\ k - 1 \in 0 .. Len(s)
            /\ k - Len(<<c>>) = k - 1
        BY <1>3, <2>3, <2>4, <2>5, <2>7, SMT
      <3>2. SubSeq(w, 1, k) = <<c>> \o rest /\ rest \in Bytes
        BY <1>3, <2>3, <3>1, SplitAt, Zenon DEF w
      <3>3. (cut <= 2 <=> wCut <= 2) /\ (cut <= 2 => cut = wCut)
        BY <1>0, <1>3, <2>4, <2>5, <2>7, SMT
      <3>4. Len(addr) \in 0 .. MaxTextLength <=> wText <= MaxTextLength
        BY <1>0, <1>1, <1>2, SMT
      <3>5. IF fits /\ cut <= 2
            THEN one.ok /\ one.value = addr /\ two.ok /\ two.rest = SubSeq(more, 1, 2 - cut)
            ELSE ~one.ok \/ ~two.ok
        BY <1>1, <1>2, <3>1, <3>4, TwoTextsRead DEF s
      <3> HIDE DEF rest, cut
      <3>6. <<c>> \o rest # <<>> /\ (<<c>> \o rest)[1] = c /\ Tail(<<c>> \o rest) = rest
        BY <2>2, <3>2, SMT DEF Bytes
      <3>7. ReadTCPResponse(<<c>> \o rest)
              = IF one.ok /\ two.ok THEN Read([ok |-> c = 0, msg |-> one.value], two.rest) ELSE Failed
        BY <3>6, Zenon DEF ReadTCPResponse
      <3> HIDE DEF one, two
      <3>8. CASE fits /\ wCut <= 2
        <4>2. one.ok /\ two.ok /\ one.value = addr /\ two.rest = SubSeq(more, 1, 2 - wCut)
          BY <3>3, <3>5, <3>8, Zenon
        <4>3. (c = 0) = ok
          BY <2>2, Zenon
        <4>4. ReadTCPResponse(<<c>> \o rest)
                = Read([ok |-> ok, msg |-> addr], SubSeq(more, 1, 2 - wCut))
          BY <3>7, <4>2, <4>3, Zenon
        <4> QED BY <2>1, <2>5, <3>2, <3>8, <4>4, Zenon DEF ok
      <3>9. CASE ~(fits /\ wCut <= 2)
        <4>1. ~one.ok \/ ~two.ok
          BY <3>3, <3>5, <3>9, Zenon
        <4>2. ReadTCPResponse(<<c>> \o rest) = Failed
          BY <3>7, <4>1, Zenon
        <4> QED BY <2>1, <2>5, <3>2, <3>9, <4>2, Zenon DEF ok
      <3> QED BY <3>8, <3>9, Zenon
    <2> QED BY <2>6, <2>7, Zenon
  <1> QED BY <1>4, <1>5, Zenon DEF StreamMessages

\* A datagram is read as it was written, and one too long for its buffer is not written.
LEMMA DatagramsAreReadBack == ASSUME WireInit PROVE DatagramsReadBack
  <1> DEFINE A == PutText(addr)
             size == UDPSize(addr, padding)
             buf == Serialize(size - wCut, addr, padding)
  <1>0. wText \in Nat /\ wPad \in Nat /\ wCut \in Nat /\ wText <= maxVarInt2 /\ wPad <= maxVarInt2
    BY WireAssumption, VarIntTypes, SMT DEF WireInit
  <1>1. /\ addr \in Bytes /\ Len(addr) = wText /\ Len(addr) <= maxVarInt2
        /\ padding \in Bytes /\ Len(padding) = wPad /\ wText \in 0 .. maxVarInt2
    BY <1>0, TextIs, VarIntTypes, SMT DEF addr, padding
  <1>2. A \in Bytes /\ Len(A) = PutLen(wText) + wText /\ PutLen(wText) \in {1, 2} /\ 0 \in Nat
    BY <1>1, TextRoundTrip, VarintRoundTrip
  <1>3. size \in Nat /\ size = 8 + Len(A) + wPad
    BY <1>0, <1>1, <1>2, SMT DEF UDPSize, UDPHeaderSize
  <1>4. ASSUME wCut > 0 PROVE buf = <<>>
    BY <1>0, <1>3, <1>4, SMT DEF Serialize
  <1>5. IDs \in Bytes /\ Len(IDs) = 8
    BY SMT DEF IDs, Bytes
  <1>6. ASSUME wCut = 0
        PROVE  /\ Len(buf) = size
               /\ ParseUDPMessage(buf) =
                    IF wText \in 1 .. MaxTextLength /\ wPad > 0
                    THEN Read([ids |-> IDs, addr |-> addr], padding) ELSE Failed
    <2> DEFINE body == A \o padding
               v == VarintPut(wText)
               packed == addr \o padding
    <2>1. buf = (IDs \o A) \o padding
      BY <1>3, <1>6, SMT DEF Serialize
    <2> HIDE DEF A, buf
    <2>2. buf = IDs \o body /\ body \in Bytes /\ Len(body) = Len(A) + wPad
      BY <1>1, <1>2, <1>5, <2>1, Associates, Joined, Zenon
    <2>3. v \in Bytes /\ packed \in Bytes /\ Len(packed) = wText + wPad /\ VarintRead(v \o packed) = Read(wText, packed)
      BY <1>1, Joined, VarintRoundTrip, Zenon
    <2>4. A = v \o addr
      BY <1>1, Zenon DEF A, PutText
    <2>5. body = v \o packed
      <3> HIDE DEF v
      <3>1. (v \o addr) \o padding = v \o (addr \o padding)
        BY <1>1, <2>3, Associates, Zenon
      <3> QED BY <2>4, <3>1, Zenon
    <2> HIDE DEF body
    <2>6. /\ Len(buf) = 8 + Len(body) /\ Len(body) \in Nat
          /\ SubSeq(buf, 9, Len(buf)) = body /\ SubSeq(buf, 1, 8) = IDs
      <3> HIDE DEF buf
      <3>1. Len(IDs) + 1 = 9
        BY <1>5, SMT
      <3>2. Len(buf) = Len(IDs) + Len(body) /\ Len(body) \in Nat
        BY <1>5, <2>2, Joined, Zenon
      <3>3. SubSeq(buf, 1, Len(IDs)) = IDs /\ SubSeq(buf, Len(IDs) + 1, Len(buf)) = body
        BY <1>5, <2>2, Parts, Zenon
      <3> QED BY <1>5, <3>1, <3>2, <3>3, Zenon
    <2>7. /\ SubSeq(packed, 1, wText) = addr /\ SubSeq(packed, wText + 1, Len(packed)) = padding
          /\ (DataFollows(packed, wText) <=> wPad > 0)
      <3>1. SubSeq(packed, 1, Len(addr)) = addr /\ SubSeq(packed, Len(addr) + 1, Len(packed)) = padding
        BY <1>1, Parts, Zenon
      <3>2. Len(packed) > wText <=> wPad > 0
        <4> HIDE DEF packed
        <4> QED BY <1>0, <2>3, SMT
      <3> QED BY <1>1, <3>1, <3>2, Zenon DEF DataFollows
    <2> DEFINE n == VarintRead(SubSeq(buf, 9, Len(buf)))
    <2>8. n = Read(wText, packed)
      BY <2>3, <2>5, <2>6, Zenon
    <2> HIDE DEF n, v, packed
    <2>9. n.ok /\ n.value = wText /\ n.rest = packed
      BY <2>8, Results, Zenon
    <2>10. Len(buf) = size /\ Len(buf) >= 8
      <3> HIDE DEF size
      <3>1. Len(A) \in Nat
        BY <1>0, <1>2, SMT
      <3> QED BY <1>0, <1>3, <2>2, <2>6, <3>1, SMT
    <2>11. ParseUDPMessage(buf) =
             IF Len(buf) >= 8 /\ n.ok /\ n.value \in 1 .. MaxTextLength /\ DataFollows(n.rest, n.value)
             THEN Read([ids |-> SubSeq(buf, 1, 8), addr |-> SubSeq(n.rest, 1, n.value)],
                       SubSeq(n.rest, n.value + 1, Len(n.rest)))
             ELSE Failed
      BY Zenon DEF ParseUDPMessage, n
    <2> QED BY <2>6, <2>7, <2>9, <2>10, <2>11, Zenon
  <1> QED BY <1>4, <1>6, Zenon DEF DatagramsReadBack

-----------------------------------------------------------------------------
\* The exchange, with a message of any kind, length and cut beside it.
ProtocolSpec ==
    /\ HandshakeInit /\ WireInit
    /\ [][HandshakeNext /\ UNCHANGED wireVars]_<<hsVars, wireVars>>

\* Whatever both sides configure, they settle on the same rates, and whatever the
\* limits, every message of a length two bytes can say is read as it was written,
\* or refused when it is cut short or too long (client.go, server.go, http.go and
\* proxy.go of core).
THEOREM PeersAlwaysAgree == ProtocolSpec => []PeersAgree
  <1> DEFINE PInv == HandshakeInv /\ WireInit
  <1>1. HandshakeInit /\ WireInit => PInv
    BY HandshakeStart, Zenon
  <1>2. PInv /\ [HandshakeNext /\ UNCHANGED wireVars]_<<hsVars, wireVars>> => PInv'
    <2> SUFFICES ASSUME PInv, [HandshakeNext /\ UNCHANGED wireVars]_<<hsVars, wireVars>> PROVE PInv'
      OBVIOUS
    <2>1. HandshakeInv'
      BY HandshakeStep, Zenon
    <2>2. WireInit'
      BY Zenon DEF WireInit, wireVars
    <2> QED BY <2>1, <2>2
  <1>3. PInv => PeersAgree
    BY StreamsReadBack, DatagramsAreReadBack, Zenon DEF PeersAgree, HandshakeInv
  <1> QED BY <1>1, <1>2, <1>3, PTL DEF ProtocolSpec
=============================================================================
