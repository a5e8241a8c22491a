---------------------------- MODULE ClientProofs ----------------------------
(***************************************************************************)
(* Safety of the client: its connect and its TCP calls, for any number of  *)
(* calls and any amount of data, and the client that reconnects, for any   *)
(* number of goroutines and of reconnections.                              *)
(***************************************************************************)
EXTENDS ClientCore, Reconnect, FiniteSetTheorems, FunctionTheorems, SequenceTheorems, TLAPS

-----------------------------------------------------------------------------
(***************************************************************************)
(* One connection: what each stage of connect holds, and that a call that  *)
(* reads data was accepted, reads it once, and reports a refusal as one.   *)
(***************************************************************************)

\* What a server writes after it accepted a request, and what it writes at all.
Data == {"data", "end"}
Items == Data \cup {"ok", "error"}

\* What Read returns.
Results == Data \cup {"DialError", "failed", "connectionError"}

NData(s) == Cardinality({i \in DOMAIN s : s[i] = "data"})

CoreTypes ==
    /\ FastOpen \in BOOLEAN /\ alive \in BOOLEAN
    /\ tcpPC \in [Calls -> {"idle", "request", "response", "conn", "closed"} \cup TCPErrors]
    /\ Established \in [Calls -> BOOLEAN]
    /\ wire \in [Calls -> Seq(Items)]
    /\ accepted \subseteq Calls
    /\ answered \in [Calls -> {"none", "ok", "error", "end"}]
    /\ sent \in [Calls -> Nat]
    /\ got \in [Calls -> Seq(Results)]

\* What each stage of connect holds.
HeldInv ==
    /\ cnPC \in {"new", "dial", "auth", "up", "failed", "closed"}
    /\ cnPC \in {"new", "failed", "closed"} => held = {}
    /\ cnPC = "dial" => held = {"pktConn", "tr"}
    /\ cnPC \in {"auth", "up"} => held = {"pktConn", "tr", "conn"}
    /\ alive => cnPC \in {"auth", "up"}

\* Where a call is and what its server has said agree.
CallInv(t) ==
    /\ tcpPC[t] # "idle" => cnPC \in {"up", "closed"}
    /\ t \in accepted => tcpPC[t] \notin {"idle", "request"}
    /\ answered[t] # "none" => t \in accepted
    /\ tcpPC[t] \in {"idle", "request", "response"} => ~Established[t]
    /\ Established[t] => answered[t] = "ok"
    /\ tcpPC[t] = "conn" /\ ~FastOpen => Established[t]
    /\ tcpPC[t] = "DialError" => answered[t] = "error"
    /\ tcpPC[t] = "ClosedError" => ~alive \/ answered[t] = "end"

\* What is on a stream: a response that was not taken is before all data.
WireInv(t) ==
    /\ answered[t] = "none" => wire[t] = <<>>
    /\ answered[t] = "error" => wire[t] \in {<<"error", "end">>, <<"end">>}
    /\ answered[t] = "error" /\ tcpPC[t] = "response" => wire[t] = <<"error", "end">>
    /\ answered[t] = "end" => wire[t] = <<"end">>
    /\ answered[t] = "ok" /\ Established[t] => wire[t] \in Seq(Data)
    /\ answered[t] = "ok" /\ ~Established[t] =>
         wire[t] # <<>> /\ Head(wire[t]) = "ok" /\ Tail(wire[t]) \in Seq(Data)

\* Data is read once, and only where a server accepted.
GotInv(t) ==
    /\ "data" \in Range(got[t]) => answered[t] = "ok"
    /\ "DialError" \in Range(got[t]) => answered[t] = "error"
    /\ NData(got[t]) + NData(wire[t]) <= sent[t]

PerCall(t) == CallInv(t) /\ WireInv(t) /\ GotInv(t)

CoreInv == CoreTypes /\ HeldInv /\ \A t \in Calls : PerCall(t)

-----------------------------------------------------------------------------
\* The amount of data in a sequence is a number ...
LEMMA NDataIsNat == ASSUME NEW S, NEW s \in Seq(S) PROVE NData(s) \in Nat
  <1>1. 1 \in Int /\ Len(s) \in Int
    OBVIOUS
  <1>2. IsFiniteSet(1 .. Len(s))
    BY <1>1, FS_Interval, Zenon
  <1>3. {i \in DOMAIN s : s[i] = "data"} \in SUBSET (1 .. Len(s))
    OBVIOUS
  <1> QED BY <1>2, <1>3, FS_Subset, FS_CardinalityType, Zenon DEF NData

\* ... zero where there is none ...
LEMMA NDataNone == ASSUME NEW s, \A i \in DOMAIN s : s[i] # "data" PROVE NData(s) = 0
  <1>1. {i \in DOMAIN s : s[i] = "data"} = {}
    OBVIOUS
  <1> QED BY <1>1, FS_EmptySet, Zenon DEF NData

\* ... that grows with the data that is appended ...
LEMMA NDataAppend ==
    ASSUME NEW S, NEW s \in Seq(S), NEW x \in S
    PROVE  /\ NData(Append(s, x)) = NData(s) + (IF x = "data" THEN 1 ELSE 0)
           /\ Append(s, x) \in Seq(S) /\ Range(Append(s, x)) = Range(s) \cup {x}
  <1> DEFINE P == {i \in DOMAIN s : s[i] = "data"}
             a == Append(s, x)
             Q == {i \in DOMAIN a : a[i] = "data"}
  <1>1. /\ a \in Seq(S) /\ DOMAIN s = 1 .. Len(s) /\ DOMAIN a = 1 .. (Len(s) + 1)
        /\ \A i \in 1 .. Len(s) : a[i] = s[i]
        /\ a[Len(s) + 1] = x /\ Len(s) \in Nat
    OBVIOUS
  <1>2. IsFiniteSet(P)
    <2>1. 1 \in Int /\ Len(s) \in Int
      OBVIOUS
    <2>2. IsFiniteSet(1 .. Len(s))
      BY <2>1, FS_Interval, Zenon
    <2> QED BY <1>1, <2>2, FS_Subset, Zenon
  <1> HIDE DEF a
  <1>r. Range(a) = Range(s) \cup {x}
    BY <1>1 DEF Range
  <1>3. CASE x = "data"
    <2>1. Q = P \cup {Len(s) + 1} /\ Len(s) + 1 \notin P
      BY <1>1, <1>3
    <2>2. Cardinality(Q) = Cardinality(P) + 1
      BY <1>2, <2>1, FS_AddElement, Zenon
    <2>3. Cardinality(Q) = Cardinality(P) + (IF x = "data" THEN 1 ELSE 0)
      BY <1>3, <2>2, Zenon
    <2> QED BY <1>1, <2>3, <1>r, Zenon DEF NData, a
  <1>4. CASE x # "data"
    <2>1. Q = P
      BY <1>1, <1>4
    <2>2. Cardinality(P) = Cardinality(P) + 0
      BY <1>2, FS_CardinalityType
    <2>3. Cardinality(Q) = Cardinality(P) + (IF x = "data" THEN 1 ELSE 0)
      BY <1>4, <2>1, <2>2, Zenon
    <2> QED BY <1>1, <2>3, <1>r, Zenon DEF NData, a
  <1> QED BY <1>3, <1>4, Zenon

\* ... and shrinks with the data that is taken from the front.
LEMMA NDataTail ==
    ASSUME NEW S, NEW s \in Seq(S), s # <<>>
    PROVE  /\ Tail(s) \in Seq(S) /\ Head(s) \in S
           /\ NData(s) = NData(Tail(s)) + (IF Head(s) = "data" THEN 1 ELSE 0)
  <1> DEFINE P == {i \in DOMAIN s : s[i] = "data"}
             a == Tail(s)
             Q == {i \in DOMAIN a : a[i] = "data"}
             R == P \ {1}
  <1>1. /\ a \in Seq(S) /\ DOMAIN s = 1 .. Len(s) /\ DOMAIN a = 1 .. (Len(s) - 1)
        /\ \A i \in 1 .. (Len(s) - 1) : a[i] = s[i + 1]
        /\ Head(s) = s[1] /\ Len(s) \in Nat /\ Len(s) >= 1 /\ s[1] \in S
    OBVIOUS
  <1>2. IsFiniteSet(P)
    <2>1. 1 \in Int /\ Len(s) \in Int
      OBVIOUS
    <2>2. IsFiniteSet(1 .. Len(s))
      BY <2>1, FS_Interval, Zenon
    <2> QED BY <1>1, <2>2, FS_Subset, Zenon
  <1> HIDE DEF a
  <1>3. Cardinality(Q) = Cardinality(R) /\ IsFiniteSet(Q)
    <2> DEFINE f == [j \in R |-> j - 1]
    <2>1. f \in Bijection(R, Q)
      <3>1. \A j \in R : j - 1 \in Q
        BY <1>1
      <3>2. \A i \in Q : i + 1 \in R /\ f[i + 1] = i
        BY <1>1
      <3>3. \A j, k \in R : f[j] = f[k] => j = k
        BY <1>1
      <3>4. f \in [R -> Q] /\ \A i \in Q : \E j \in R : f[j] = i
        BY <3>1, <3>2, Zenon
      <3> HIDE DEF f, R, Q
      <3> QED BY <3>3, <3>4, Fun_IsBij, Zenon
    <2>2. IsFiniteSet(R)
      BY <1>2, FS_Subset, Zenon
    <2> QED BY <2>1, <2>2, FS_Bijection DEF ExistsBijection
  <1>4. Cardinality(R) = IF 1 \in P THEN Cardinality(P) - 1 ELSE Cardinality(P)
    BY <1>2, FS_RemoveElement, Zenon
  <1>5. 1 \in P <=> Head(s) = "data"
    BY <1>1
  <1>6. Cardinality(P) \in Nat
    BY <1>2, FS_CardinalityType, Zenon
  <1>7. Cardinality(P) = Cardinality(Q) + (IF Head(s) = "data" THEN 1 ELSE 0)
    BY <1>3, <1>4, <1>5, <1>6
  <1> QED BY <1>1, <1>7, Zenon DEF NData, a

-----------------------------------------------------------------------------
\* A call stays what it is when a step is not one of its own.
LEMMA OtherCalls ==
    ASSUME CoreInv, NEW u \in Calls,
           tcpPC'[u] = tcpPC[u], Established'[u] = Established[u], wire'[u] = wire[u],
           answered'[u] = answered[u], sent'[u] = sent[u], got'[u] = got[u],
           u \in accepted' <=> u \in accepted, FastOpen' = FastOpen,
           tcpPC[u] # "idle" => cnPC' \in {"up", "closed"} /\ (alive' => alive)
    PROVE  PerCall(u)'
  <1>1. PerCall(u)
    BY Zenon DEF CoreInv
  <1>2. CallInv(u)'
    BY <1>1, Zenon DEF PerCall, CallInv
  <1>3. WireInv(u)' /\ GotInv(u)'
    BY <1>1, Zenon DEF PerCall, WireInv, GotInv
  <1> QED BY <1>2, <1>3, Zenon DEF PerCall

\* The steps of connect, Close and the end of the connection.
LEMMA ConnSteps ==
    ASSUME CoreInv, NewConn \/ DialEarly \/ ClientConnectFails \/ AuthAccepted
                    \/ ClientClose \/ ConnectionDies
    PROVE  CoreInv'
  <1>1. UNCHANGED streamState
    BY Zenon DEF NewConn, DialEarly, ClientConnectFails, AuthAccepted, ClientClose, ConnectionDies
  <1>2. HeldInv' /\ alive' \in BOOLEAN
    <2> USE DEF CoreInv, CoreTypes, HeldInv
    <2>1. CASE NewConn
      BY <2>1, Zenon DEF NewConn
    <2>2. CASE DialEarly
      BY <2>2, Zenon DEF DialEarly
    <2>3. CASE ClientConnectFails
      BY <2>3, Zenon DEF ClientConnectFails, Released
    <2>4. CASE AuthAccepted
      BY <2>4, Zenon DEF AuthAccepted
    <2>5. CASE ClientClose
      BY <2>5, Zenon DEF ClientClose, Released
    <2>6. CASE ConnectionDies
      BY <2>6, Zenon DEF ConnectionDies
    <2> QED BY <2>1, <2>2, <2>3, <2>4, <2>5, <2>6
  <1>3. CoreTypes'
    BY <1>1, <1>2, Zenon DEF CoreInv, CoreTypes, streamState
  <1>4. ASSUME NEW u \in Calls PROVE PerCall(u)'
    <2>1. tcpPC[u] # "idle" => cnPC \in {"up", "closed"}
      BY Zenon DEF CoreInv, PerCall, CallInv
    <2>2. tcpPC[u] # "idle" => cnPC' \in {"up", "closed"} /\ (alive' => alive)
      BY <2>1, Zenon DEF NewConn, DialEarly, ClientConnectFails, AuthAccepted, ClientClose, ConnectionDies
    <2> QED BY <1>1, <2>2, OtherCalls, Zenon DEF streamState
  <1> QED BY <1>2, <1>3, <1>4, Zenon DEF CoreInv

\* A step of a call leaves the connection and the other calls alone.
LEMMA OwnStep ==
    ASSUME CoreInv, NEW t \in Calls, UNCHANGED connState, CoreTypes', PerCall(t)',
           \A u \in Calls \ {t} :
             /\ tcpPC'[u] = tcpPC[u] /\ Established'[u] = Established[u] /\ wire'[u] = wire[u]
             /\ answered'[u] = answered[u] /\ sent'[u] = sent[u] /\ got'[u] = got[u]
             /\ u \in accepted' <=> u \in accepted
    PROVE  CoreInv'
  <1>1. HeldInv'
    BY Zenon DEF CoreInv, HeldInv, connState
  <1>2. ASSUME NEW u \in Calls \ {t} PROVE PerCall(u)'
    <2>1. tcpPC[u] # "idle" => cnPC' \in {"up", "closed"} /\ (alive' => alive)
      BY Zenon DEF CoreInv, PerCall, CallInv, connState
    <2> QED BY <2>1, OtherCalls, Zenon DEF connState
  <1> QED BY <1>1, <1>2, Zenon DEF CoreInv

\* TCP: opening the stream.
LEMMA OpenStreamStep == ASSUME CoreInv, NEW t \in Calls, OpenStream(t) PROVE CoreInv'
  <1>1. /\ UNCHANGED connState /\ UNCHANGED <<Established, wire, accepted, answered, sent, got>>
        /\ cnPC \in {"up", "closed"} /\ tcpPC[t] = "idle"
    BY Zenon DEF OpenStream
  <1>2. PICK s \in {"ClosedError", "StreamLimit", "request"} :
          tcpPC' = [tcpPC EXCEPT ![t] = s] /\ (s = "ClosedError" => ~alive)
    BY Zenon DEF OpenStream, WrapIfConnectionClosed
  <1>3. CoreTypes'
    BY <1>1, <1>2, Zenon DEF CoreInv, CoreTypes, connState, TCPErrors
  <1>4. PerCall(t)'
    <2>1. tcpPC'[t] = s /\ PerCall(t)
      BY <1>2, Zenon DEF CoreInv, CoreTypes
    <2>2. CallInv(t)'
      BY <1>1, <1>2, <2>1, Zenon DEF PerCall, CallInv, connState
    <2>3. WireInv(t)' /\ GotInv(t)'
      BY <1>1, <2>1, Zenon DEF PerCall, WireInv, GotInv
    <2> QED BY <2>2, <2>3, Zenon DEF PerCall
  <1>5. \A u \in Calls \ {t} : tcpPC'[u] = tcpPC[u]
    BY <1>2, Zenon DEF CoreInv, CoreTypes
  <1> QED BY <1>1, <1>3, <1>4, <1>5, OwnStep

\* TCP: writing the request, after which a fast-open caller has its connection.
LEMMA WriteRequestStep == ASSUME CoreInv, NEW t \in Calls, WriteRequest(t) PROVE CoreInv'
  <1>1. /\ UNCHANGED connState /\ UNCHANGED <<Established, wire, answered, sent, got>>
        /\ tcpPC[t] = "request"
    BY Zenon DEF WriteRequest
  <1>2. PICK s \in {"ClosedError", "conn", "response"} :
          /\ tcpPC' = [tcpPC EXCEPT ![t] = s]
          /\ s = "ClosedError" => ~alive /\ accepted' = accepted
          /\ s # "ClosedError" => accepted' = accepted \cup {t}
          /\ s = "conn" => FastOpen
    BY Zenon DEF WriteRequest
  <1>3. CoreTypes'
    BY <1>1, <1>2, Zenon DEF CoreInv, CoreTypes, connState, TCPErrors
  <1>4. PerCall(t)'
    <2>1. tcpPC'[t] = s /\ PerCall(t)
      BY <1>2, Zenon DEF CoreInv, CoreTypes
    <2>2. CallInv(t)'
      BY <1>1, <1>2, <2>1 DEF PerCall, CallInv, connState
    <2>3. WireInv(t)' /\ GotInv(t)'
      BY <1>1, <2>1, Zenon DEF PerCall, CallInv, WireInv, GotInv
    <2> QED BY <2>2, <2>3, Zenon DEF PerCall
  <1>5. \A u \in Calls \ {t} : tcpPC'[u] = tcpPC[u] /\ (u \in accepted' <=> u \in accepted)
    BY <1>2, Zenon DEF CoreInv, CoreTypes
  <1> QED BY <1>1, <1>3, <1>4, <1>5, OwnStep

\* tcpConn.Close, whatever the server still sends.
LEMMA ConnCloseStep == ASSUME CoreInv, NEW t \in Calls, ConnClose(t) PROVE CoreInv'
  <1>1. /\ UNCHANGED connState /\ UNCHANGED <<Established, wire, accepted, answered, sent, got>>
        /\ tcpPC[t] = "conn" /\ tcpPC' = [tcpPC EXCEPT ![t] = "closed"]
    BY Zenon DEF ConnClose
  <1>2. CoreTypes'
    BY <1>1, Zenon DEF CoreInv, CoreTypes, connState
  <1>3. PerCall(t)'
    <2>1. tcpPC'[t] = "closed" /\ PerCall(t)
      BY <1>1, Zenon DEF CoreInv, CoreTypes
    <2>2. CallInv(t)'
      BY <1>1, <2>1, Zenon DEF PerCall, CallInv, connState
    <2>3. WireInv(t)' /\ GotInv(t)'
      BY <1>1, <2>1, Zenon DEF PerCall, WireInv, GotInv
    <2> QED BY <2>2, <2>3, Zenon DEF PerCall
  <1>4. \A u \in Calls \ {t} : tcpPC'[u] = tcpPC[u]
    BY <1>1, Zenon DEF CoreInv, CoreTypes
  <1> QED BY <1>1, <1>2, <1>3, <1>4, OwnStep

-----------------------------------------------------------------------------
\* What reading takes off a stream, and what it leaves.
LEMMA ReadOff ==
    ASSUME CoreInv, NEW t \in Calls, Readable(t), wire' = Consumed(t)
    PROVE  /\ wire' \in [Calls -> Seq(Items)] /\ \A u \in Calls \ {t} : wire'[u] = wire[u]
           /\ IF alive /\ wire[t] # <<>>
              THEN /\ Arrived(t) = Head(wire[t]) /\ Arrived(t) \in Items
                   /\ wire[t] # <<"end">> => wire'[t] = Tail(wire[t])
                   /\ wire[t] = <<"end">> => wire'[t] = wire[t] /\ Arrived(t) = "end"
              ELSE ~alive /\ Arrived(t) = "connectionError" /\ wire'[t] = wire[t]
           /\ NData(wire'[t]) \in Nat /\ NData(wire[t]) \in Nat
           /\ NData(wire'[t]) + (IF Arrived(t) = "data" THEN 1 ELSE 0) = NData(wire[t])
  <1>1. wire \in [Calls -> Seq(Items)] /\ wire[t] \in Seq(Items) /\ alive \in BOOLEAN
    BY Zenon DEF CoreInv, CoreTypes
  <1>2. \A u \in Calls \ {t} : wire'[u] = wire[u]
    BY <1>1, Zenon DEF Consumed
  <1>3. NData(wire[t]) \in Nat
    BY <1>1, NDataIsNat, Zenon
  <1>4. CASE alive /\ wire[t] # <<>> /\ wire[t] # <<"end">>
    <2>1. /\ Tail(wire[t]) \in Seq(Items) /\ Head(wire[t]) \in Items
          /\ NData(wire[t]) = NData(Tail(wire[t])) + (IF Head(wire[t]) = "data" THEN 1 ELSE 0)
      BY <1>1, <1>4, NDataTail, Zenon
    <2>2. Arrived(t) = Head(wire[t])
      BY <1>4, Zenon DEF Arrived
    <2>3. wire' = [wire EXCEPT ![t] = Tail(wire[t])]
      BY <1>4, Zenon DEF Consumed
    <2>4. wire'[t] = Tail(wire[t]) /\ wire' \in [Calls -> Seq(Items)]
      BY <1>1, <2>1, <2>3, Zenon
    <2>5. NData(Tail(wire[t])) \in Nat
      BY <2>1, NDataIsNat, Zenon
    <2> QED BY <1>2, <1>3, <1>4, <2>1, <2>2, <2>4, <2>5
  <1>5. CASE alive /\ wire[t] = <<"end">>
    <2>1. wire' = [wire EXCEPT ![t] = wire[t]]
      BY <1>5, Zenon DEF Consumed
    <2>2. wire'[t] = wire[t] /\ wire' \in [Calls -> Seq(Items)]
      BY <1>1, <2>1, Zenon
    <2>3. Arrived(t) = "end" /\ Head(wire[t]) = "end" /\ wire[t] # <<>>
      BY <1>5 DEF Arrived
    <2> QED BY <1>2, <1>3, <1>5, <2>2, <2>3 DEF Items, Data
  <1>6. CASE ~alive
    <2>1. wire' = [wire EXCEPT ![t] = wire[t]]
      BY <1>6 DEF Consumed
    <2>2. wire'[t] = wire[t] /\ wire' \in [Calls -> Seq(Items)]
      BY <1>1, <2>1, Zenon
    <2>3. Arrived(t) = "connectionError"
      BY <1>6, Zenon DEF Arrived
    <2>4. NData(wire[t]) + (IF Arrived(t) = "data" THEN 1 ELSE 0) = NData(wire[t])
      BY <1>3, <2>3
    <2> QED BY <1>2, <1>3, <1>6, <2>2, <2>3, <2>4
  <1> QED BY <1>1, <1>4, <1>5, <1>6 DEF Readable

\* What is first on a stream tells what the server said.
LEMMA FirstItem ==
    ASSUME CoreInv, NEW t \in Calls, wire[t] # <<>>
    PROVE  /\ Head(wire[t]) = "ok" => answered[t] = "ok" /\ ~Established[t]
           /\ Head(wire[t]) = "error" => answered[t] = "error" /\ wire[t] = <<"error", "end">>
           /\ ~Established[t] => Head(wire[t]) # "data"
           /\ ~Established[t] /\ Head(wire[t]) = "end" =>
                answered[t] \in {"error", "end"} /\ wire[t] = <<"end">>
           /\ Established[t] => Head(wire[t]) \in Data /\ Tail(wire[t]) \in Seq(Data)
  <1>1. WireInv(t) /\ CallInv(t) /\ answered[t] \in {"none", "ok", "error", "end"}
        /\ Established[t] \in BOOLEAN
    BY Zenon DEF CoreInv, PerCall, CoreTypes
  <1>2. Head(<<"error", "end">>) = "error" /\ Head(<<"end">>) = "end"
    OBVIOUS
  <1>3. CASE Established[t]
    <2>1. answered[t] = "ok" /\ wire[t] \in Seq(Data)
      BY <1>1, <1>3, Zenon DEF WireInv, CallInv
    <2>2. Head(wire[t]) \in Data /\ Tail(wire[t]) \in Seq(Data)
      BY <2>1
    <2> QED BY <1>3, <2>2, Zenon DEF Data
  <1>4. CASE ~Established[t] /\ answered[t] = "ok"
    BY <1>1, <1>4, Zenon DEF WireInv
  <1>5. CASE ~Established[t] /\ answered[t] # "ok"
    BY <1>1, <1>2, <1>5 DEF WireInv
  <1> QED BY <1>1, <1>3, <1>4, <1>5

\* TCP without fast open: the response decides between a connection and an error.
LEMMA ReadResponseStep == ASSUME CoreInv, NEW t \in Calls, ReadResponseNow(t) PROVE CoreInv'
  <1> DEFINE it == Arrived(t)
             to == CASE it = "ok" -> "conn" [] it = "error" -> "DialError"
                     [] OTHER -> WrapIfConnectionClosed(it)
  <1>1. /\ UNCHANGED connState /\ UNCHANGED <<accepted, answered, sent, got>>
        /\ tcpPC[t] = "response" /\ Readable(t) /\ wire' = Consumed(t)
        /\ tcpPC' = [tcpPC EXCEPT ![t] = to]
        /\ Established' = [Established EXCEPT ![t] = it = "ok"]
    BY Zenon DEF ReadResponseNow
  <1>2. /\ wire' \in [Calls -> Seq(Items)] /\ \A u \in Calls \ {t} : wire'[u] = wire[u]
        /\ IF alive /\ wire[t] # <<>>
           THEN /\ it = Head(wire[t]) /\ it \in Items
                /\ wire[t] # <<"end">> => wire'[t] = Tail(wire[t])
                /\ wire[t] = <<"end">> => wire'[t] = wire[t] /\ it = "end"
           ELSE ~alive /\ it = "connectionError" /\ wire'[t] = wire[t]
        /\ NData(wire'[t]) \in Nat /\ NData(wire[t]) \in Nat
        /\ NData(wire'[t]) + (IF it = "data" THEN 1 ELSE 0) = NData(wire[t])
    BY <1>1, ReadOff, Zenon
  <1>3. PerCall(t) /\ ~Established[t] /\ cnPC \in {"up", "closed"}
    BY <1>1, Zenon DEF CoreInv, PerCall, CallInv
  <1> HIDE DEF it
  <1>4. to = IF it = "ok" THEN "conn" ELSE IF it = "error" THEN "DialError" ELSE "ClosedError"
    BY <1>2, Zenon DEF WrapIfConnectionClosed, Items, Data
  <1> HIDE DEF to
  <1>5. /\ tcpPC'[t] = to /\ (Established'[t] <=> it = "ok")
        /\ \A u \in Calls \ {t} : tcpPC'[u] = tcpPC[u] /\ Established'[u] = Established[u]
    BY <1>1, Zenon DEF CoreInv, CoreTypes
  <1>6. CoreTypes'
    BY <1>1, <1>2, <1>4 DEF CoreInv, CoreTypes, connState, TCPErrors
  <1>7. wire[t] # <<>> =>
           /\ Head(wire[t]) = "ok" => answered[t] = "ok"
           /\ Head(wire[t]) = "error" => answered[t] = "error" /\ wire[t] = <<"error", "end">>
           /\ Head(wire[t]) # "data"
           /\ Head(wire[t]) = "end" => answered[t] \in {"error", "end"} /\ wire[t] = <<"end">>
    BY <1>3, FirstItem, Zenon
  <1>8. it = "end" => answered[t] = "end"
    <2>1. <<"error", "end">> # <<"end">>
      OBVIOUS
    <2>2. it = "end" => wire[t] = <<"end">> /\ answered[t] \in {"error", "end"}
      BY <1>2, <1>7, Zenon
    <2> QED BY <1>1, <1>3, <2>1, <2>2 DEF PerCall, WireInv
  <1>9. CallInv(t)'
    BY <1>1, <1>2, <1>3, <1>4, <1>5, <1>7, <1>8 DEF PerCall, CallInv, connState, Items, Data
  <1>10. WireInv(t)'
    <2>1. CASE it = "ok"
      BY <1>1, <1>2, <1>3, <1>4, <1>5, <1>7, <2>1, Zenon DEF PerCall, WireInv
    <2>2. CASE it = "error"
      <3>1. Tail(<<"error", "end">>) = <<"end">> /\ <<"error", "end">> # <<"end">>
        OBVIOUS
      <3>2. wire[t] = <<"error", "end">> /\ answered'[t] = "error" /\ tcpPC'[t] = "DialError"
        BY <1>1, <1>2, <1>4, <1>5, <1>7, <2>2
      <3>3. wire'[t] = <<"end">>
        BY <1>2, <2>2, <3>1, <3>2
      <3> QED BY <3>2, <3>3, Zenon DEF WireInv
    <2>3. CASE it \notin {"ok", "error"}
      <3>1. wire'[t] = wire[t]
        BY <1>2, <1>7, <2>3 DEF Items, Data
      <3> QED BY <1>1, <1>3, <1>4, <1>5, <2>3, <3>1 DEF PerCall, WireInv
    <2> QED BY <2>1, <2>2, <2>3, Zenon
  <1>11. GotInv(t)'
    <2>1. NData(wire'[t]) <= NData(wire[t]) /\ NData(got[t]) \in Nat /\ sent[t] \in Nat
      BY <1>2, NDataIsNat DEF CoreInv, CoreTypes
    <2> QED BY <1>1, <1>2, <1>3, <2>1 DEF PerCall, GotInv
  <1> QED BY <1>1, <1>2, <1>5, <1>6, <1>9, <1>10, <1>11, OwnStep DEF PerCall

\* What reading adds to what the application has.
LEMMA Returned ==
    ASSUME CoreInv, NEW t \in Calls, NEW x \in Results, got' = [got EXCEPT ![t] = Append(@, x)]
    PROVE  /\ got' \in [Calls -> Seq(Results)] /\ \A u \in Calls \ {t} : got'[u] = got[u]
           /\ Range(got'[t]) = Range(got[t]) \cup {x}
           /\ NData(got[t]) \in Nat
           /\ NData(got'[t]) = NData(got[t]) + (IF x = "data" THEN 1 ELSE 0)
  <1>1. got \in [Calls -> Seq(Results)] /\ got[t] \in Seq(Results)
    BY Zenon DEF CoreInv, CoreTypes
  <1>2. /\ NData(Append(got[t], x)) = NData(got[t]) + (IF x = "data" THEN 1 ELSE 0)
        /\ Append(got[t], x) \in Seq(Results)
        /\ Range(Append(got[t], x)) = Range(got[t]) \cup {x} /\ NData(got[t]) \in Nat
    BY <1>1, NDataAppend, NDataIsNat
  <1>3. got'[t] = Append(got[t], x)
    BY <1>1, Zenon
  <1> QED BY <1>1, <1>2, <1>3

\* tcpConn.Read of an established connection takes the front of the stream.
LEMMA ReadDataStep == ASSUME CoreInv, NEW t \in Calls, ReadData(t) PROVE CoreInv'
  <1> DEFINE it == Arrived(t)
  <1>1. /\ UNCHANGED connState /\ UNCHANGED <<tcpPC, Established, accepted, answered, sent>>
        /\ tcpPC[t] = "conn" /\ Established[t] /\ Readable(t) /\ wire' = Consumed(t)
        /\ got' = [got EXCEPT ![t] = Append(@, it)]
    BY Zenon DEF ReadData, MustReadResponse
  <1>2. /\ wire' \in [Calls -> Seq(Items)] /\ \A u \in Calls \ {t} : wire'[u] = wire[u]
        /\ IF alive /\ wire[t] # <<>>
           THEN /\ it = Head(wire[t]) /\ it \in Items
                /\ wire[t] # <<"end">> => wire'[t] = Tail(wire[t])
                /\ wire[t] = <<"end">> => wire'[t] = wire[t] /\ it = "end"
           ELSE ~alive /\ it = "connectionError" /\ wire'[t] = wire[t]
        /\ NData(wire'[t]) \in Nat /\ NData(wire[t]) \in Nat
        /\ NData(wire'[t]) + (IF it = "data" THEN 1 ELSE 0) = NData(wire[t])
    BY <1>1, ReadOff, Zenon
  <1>3. /\ PerCall(t) /\ answered[t] = "ok" /\ wire[t] \in Seq(Data)
        /\ wire[t] # <<>> => Head(wire[t]) \in Data /\ Tail(wire[t]) \in Seq(Data)
    BY <1>1, FirstItem, Zenon DEF CoreInv, PerCall, CallInv, WireInv
  <1> HIDE DEF it
  <1>4. it \in Results /\ it \in Data \cup {"connectionError"} /\ wire'[t] \in Seq(Data)
    BY <1>2, <1>3, Zenon DEF Results
  <1>5. /\ got' \in [Calls -> Seq(Results)] /\ \A u \in Calls \ {t} : got'[u] = got[u]
        /\ Range(got'[t]) = Range(got[t]) \cup {it}
        /\ NData(got[t]) \in Nat
        /\ NData(got'[t]) = NData(got[t]) + (IF it = "data" THEN 1 ELSE 0)
    BY <1>1, <1>4, Returned
  <1>6. CoreTypes'
    BY <1>1, <1>2, <1>5 DEF CoreInv, CoreTypes, connState
  <1>7. CallInv(t)'
    BY <1>1, <1>3, Zenon DEF PerCall, CallInv, connState
  <1>8. WireInv(t)'
    BY <1>1, <1>3, <1>4 DEF WireInv
  <1>9. GotInv(t)'
    <2>1. NData(got'[t]) + NData(wire'[t]) = NData(got[t]) + NData(wire[t])
      BY <1>2, <1>5
    <2>2. "DialError" \in Range(got'[t]) => "DialError" \in Range(got[t])
      BY <1>4, <1>5, Zenon DEF Data
    <2> QED BY <1>1, <1>3, <2>1, <2>2 DEF PerCall, GotInv
  <1> QED BY <1>1, <1>2, <1>5, <1>6, <1>7, <1>8, <1>9, OwnStep, Zenon DEF PerCall

\* The first tcpConn.Read of a fast-open connection takes the response first.
LEMMA ReadDeferredStep == ASSUME CoreInv, NEW t \in Calls, ReadDeferred(t) PROVE CoreInv'
  <1> DEFINE it == Arrived(t)
  <1>1. /\ UNCHANGED connState /\ UNCHANGED <<tcpPC, accepted, answered, sent>>
        /\ tcpPC[t] = "conn" /\ ~Established[t] /\ Readable(t) /\ wire' = Consumed(t)
        /\ IF it = "ok"
           THEN Established' = [Established EXCEPT ![t] = TRUE] /\ UNCHANGED got
           ELSE /\ got' = [got EXCEPT ![t] =
                      Append(@, IF it = "error" THEN "DialError" ELSE "failed")]
                /\ UNCHANGED Established
    BY Zenon DEF ReadDeferred, MustReadResponse
  <1>2. /\ wire' \in [Calls -> Seq(Items)] /\ \A u \in Calls \ {t} : wire'[u] = wire[u]
        /\ IF alive /\ wire[t] # <<>>
           THEN /\ it = Head(wire[t]) /\ it \in Items
                /\ wire[t] # <<"end">> => wire'[t] = Tail(wire[t])
                /\ wire[t] = <<"end">> => wire'[t] = wire[t] /\ it = "end"
           ELSE ~alive /\ it = "connectionError" /\ wire'[t] = wire[t]
        /\ NData(wire'[t]) \in Nat /\ NData(wire[t]) \in Nat
        /\ NData(wire'[t]) + (IF it = "data" THEN 1 ELSE 0) = NData(wire[t])
    BY <1>1, ReadOff, Zenon
  <1>3. /\ PerCall(t) /\ NData(got[t]) \in Nat /\ sent[t] \in Nat
        /\ wire[t] # <<>> =>
             /\ Head(wire[t]) = "ok" => answered[t] = "ok"
             /\ Head(wire[t]) = "error" => answered[t] = "error" /\ wire[t] = <<"error", "end">>
             /\ Head(wire[t]) # "data"
             /\ Head(wire[t]) = "end" => answered[t] \in {"error", "end"} /\ wire[t] = <<"end">>
    BY <1>1, FirstItem, NDataIsNat DEF CoreInv, CoreTypes
  <1> HIDE DEF it
  <1>4. NData(wire'[t]) <= NData(wire[t])
    BY <1>2
  <1>5. CASE it = "ok"
    <2>1. /\ answered[t] = "ok" /\ wire'[t] = Tail(wire[t]) /\ Established'[t] = TRUE
          /\ \A u \in Calls \ {t} : Established'[u] = Established[u]
          /\ got' = got
      BY <1>1, <1>2, <1>3, <1>5 DEF CoreInv, CoreTypes
    <2>2. CoreTypes'
      BY <1>1, <1>2, <1>5, Zenon DEF CoreInv, CoreTypes, connState
    <2>3. CallInv(t)' /\ WireInv(t)'
      BY <1>1, <1>3, <2>1 DEF PerCall, CallInv, WireInv, connState
    <2>4. GotInv(t)'
      BY <1>1, <1>2, <1>3, <1>4, <2>1 DEF PerCall, GotInv
    <2> QED BY <1>1, <1>2, <2>1, <2>2, <2>3, <2>4, OwnStep DEF PerCall
  <1>6. CASE it # "ok"
    <2>1. PICK x \in {"DialError", "failed"} :
            /\ got' = [got EXCEPT ![t] = Append(@, x)]
            /\ x = "DialError" <=> it = "error"
      BY <1>1, <1>6, Zenon
    <2>2. x \in Results /\ x # "data" /\ Established' = Established
      BY <1>1, <1>6, Zenon DEF Results
    <2>3. /\ got' \in [Calls -> Seq(Results)] /\ \A u \in Calls \ {t} : got'[u] = got[u]
          /\ Range(got'[t]) = Range(got[t]) \cup {x}
          /\ NData(got'[t]) = NData(got[t]) + (IF x = "data" THEN 1 ELSE 0)
      BY <2>1, <2>2, Returned
    <2>4. CoreTypes'
      BY <1>1, <1>2, <2>2, <2>3 DEF CoreInv, CoreTypes, connState
    <2>5. CallInv(t)'
      BY <1>1, <1>3, <2>2 DEF PerCall, CallInv, connState
    <2>6. it = "error" => answered[t] = "error" /\ wire'[t] = <<"end">>
      <3>1. Tail(<<"error", "end">>) = <<"end">> /\ <<"error", "end">> # <<"end">>
        OBVIOUS
      <3> QED BY <1>2, <1>3, <3>1, Zenon
    <2>7. it # "error" => wire'[t] = wire[t]
      BY <1>2, <1>3, <1>6 DEF Items, Data
    <2>8. WireInv(t)'
      <3>1. CASE it = "error"
        BY <1>1, <2>6, <3>1, Zenon DEF WireInv
      <3>2. CASE it # "error"
        BY <1>1, <1>3, <2>2, <2>7, <3>2 DEF PerCall, WireInv
      <3> QED BY <3>1, <3>2, Zenon
    <2>9. GotInv(t)'
      <3>1. NData(got'[t]) = NData(got[t])
        BY <1>3, <2>2, <2>3
      <3> QED BY <1>1, <1>2, <1>3, <1>4, <2>1, <2>2, <2>3, <2>6, <3>1 DEF PerCall, GotInv
    <2> QED BY <1>1, <1>2, <2>2, <2>3, <2>4, <2>5, <2>8, <2>9, OwnStep, Zenon DEF PerCall
  <1> QED BY <1>5, <1>6, Zenon

\* The server answers a request once, and ends the stream when it refuses.
LEMMA ServerAnswersStep == ASSUME CoreInv, NEW t \in Calls, ServerAnswers(t) PROVE CoreInv'
  <1>1. /\ UNCHANGED connState /\ UNCHANGED <<tcpPC, Established, accepted, sent, got>>
        /\ t \in accepted /\ answered[t] = "none"
    BY Zenon DEF ServerAnswers
  <1>2. PICK a \in {"ok", "error", "end"} :
          /\ answered' = [answered EXCEPT ![t] = a]
          /\ wire' = [wire EXCEPT ![t] = @ \o
                        CASE a = "ok" -> <<"ok">> [] a = "error" -> <<"error", "end">>
                          [] OTHER -> <<"end">>]
    BY Zenon DEF ServerAnswers
  <1>3. PerCall(t) /\ wire[t] = <<>> /\ ~Established[t]
    BY <1>1, Zenon DEF CoreInv, CoreTypes, PerCall, CallInv, WireInv
  <1> DEFINE w == CASE a = "ok" -> <<"ok">> [] a = "error" -> <<"error", "end">>
                    [] OTHER -> <<"end">>
  <1>4. w \in Seq(Items) /\ \A i \in DOMAIN w : w[i] # "data"
    <2>1. CASE a = "ok"
      <3>1. <<"ok">> \in Seq(Items) /\ \A i \in DOMAIN <<"ok">> : <<"ok">>[i] # "data"
        BY DEF Items
      <3> QED BY <2>1, <3>1, Zenon
    <2>2. CASE a = "error"
      <3>1. <<"error", "end">> \in Seq(Items)
            /\ \A i \in DOMAIN <<"error", "end">> : <<"error", "end">>[i] # "data"
        BY DEF Items, Data
      <3> QED BY <2>2, <3>1, Zenon
    <2>3. CASE a = "end"
      <3>1. <<"end">> \in Seq(Items) /\ \A i \in DOMAIN <<"end">> : <<"end">>[i] # "data"
        BY DEF Items, Data
      <3> QED BY <2>3, <3>1, Zenon
    <2> QED BY <1>2, <2>1, <2>2, <2>3
  <1>5. wire'[t] = w
    <2>1. <<>> \o w = w
      BY <1>4
    <2> QED BY <1>2, <1>3, <2>1, Zenon DEF CoreInv, CoreTypes
  <1>6. answered'[t] = a /\ \A u \in Calls \ {t} : answered'[u] = answered[u] /\ wire'[u] = wire[u]
    BY <1>2, Zenon DEF CoreInv, CoreTypes
  <1>7. CoreTypes'
    <2>1. <<>> \o w \in Seq(Items)
      BY <1>4
    <2>2. wire' \in [Calls -> Seq(Items)]
      BY <1>2, <1>3, <2>1, Zenon DEF CoreInv, CoreTypes
    <2> QED BY <1>1, <1>2, <2>2, Zenon DEF CoreInv, CoreTypes, connState
  <1>8. CallInv(t)'
    BY <1>1, <1>3, <1>6, Zenon DEF PerCall, CallInv, connState
  <1>9. WireInv(t)'
    <2>1. CASE a = "ok"
      <3>1. /\ w = <<"ok">> /\ <<"ok">> # <<>> /\ Head(<<"ok">>) = "ok"
            /\ Tail(<<"ok">>) \in Seq(Data)
        BY <2>1
      <3> QED BY <1>1, <1>3, <1>5, <1>6, <2>1, <3>1 DEF WireInv
    <2>2. CASE a # "ok"
      BY <1>1, <1>5, <1>6, <2>2 DEF WireInv
    <2> QED BY <2>1, <2>2, Zenon
  <1>10. GotInv(t)'
    <2>1. NData(wire'[t]) = 0 /\ NData(wire[t]) = 0
      BY <1>3, <1>4, <1>5, NDataNone
    <2>2. ~("data" \in Range(got[t])) /\ ~("DialError" \in Range(got[t]))
      BY <1>1, <1>3, Zenon DEF PerCall, GotInv
    <2> QED BY <1>1, <1>3, <2>1, <2>2 DEF PerCall, GotInv
  <1> QED BY <1>1, <1>6, <1>7, <1>8, <1>9, <1>10, OwnStep, Zenon DEF PerCall

\* Data goes on the stream behind what is there.
LEMMA ServerSendsStep == ASSUME CoreInv, NEW t \in Calls, ServerSends(t) PROVE CoreInv'
  <1>1. /\ UNCHANGED connState /\ UNCHANGED <<tcpPC, Established, accepted, answered, got>>
        /\ answered[t] = "ok" /\ sent' = [sent EXCEPT ![t] = @ + 1]
    BY Zenon DEF ServerSends
  <1>2. PICK x \in Data : wire' = [wire EXCEPT ![t] = Append(@, x)]
    BY Zenon DEF ServerSends, Data
  <1>3. PerCall(t) /\ wire[t] \in Seq(Items) /\ x \in Items /\ Established[t] \in BOOLEAN
    BY Zenon DEF CoreInv, CoreTypes, Items
  <1>4. /\ wire'[t] = Append(wire[t], x) /\ sent'[t] = sent[t] + 1 /\ sent[t] \in Nat
        /\ \A u \in Calls \ {t} : wire'[u] = wire[u] /\ sent'[u] = sent[u]
    BY <1>1, <1>2, Zenon DEF CoreInv, CoreTypes
  <1>5. /\ NData(wire'[t]) = NData(wire[t]) + (IF x = "data" THEN 1 ELSE 0)
        /\ NData(wire[t]) \in Nat /\ NData(got[t]) \in Nat /\ wire'[t] \in Seq(Items)
    BY <1>3, <1>4, NDataAppend, NDataIsNat DEF CoreInv, CoreTypes
  <1>6. CoreTypes'
    BY <1>1, <1>2, <1>3 DEF CoreInv, CoreTypes, connState
  <1>7. CallInv(t)'
    BY <1>1, <1>3, Zenon DEF PerCall, CallInv, connState
  <1>8. WireInv(t)'
    <2>1. CASE Established[t]
      BY <1>1, <1>3, <1>4, <2>1 DEF PerCall, WireInv
    <2>2. CASE ~Established[t]
      <3>1. wire[t] # <<>> /\ Head(wire[t]) = "ok" /\ Tail(wire[t]) \in Seq(Data)
        BY <1>1, <1>3, <2>2, Zenon DEF PerCall, WireInv
      <3>2. /\ Append(wire[t], x) # <<>> /\ Head(Append(wire[t], x)) = Head(wire[t])
            /\ Tail(Append(wire[t], x)) = Append(Tail(wire[t]), x)
        BY <1>3, <3>1, HeadTailAppend, AppendProperties
      <3>3. Append(Tail(wire[t]), x) \in Seq(Data)
        BY <3>1
      <3> QED BY <1>1, <1>4, <2>2, <3>1, <3>2, <3>3, Zenon DEF WireInv
    <2> QED BY <1>3, <2>1, <2>2, Zenon
  <1>9. GotInv(t)'
    BY <1>1, <1>3, <1>4, <1>5 DEF PerCall, GotInv
  <1> QED BY <1>1, <1>4, <1>6, <1>7, <1>8, <1>9, OwnStep DEF PerCall

\* A client that did not connect yet holds nothing and has no calls.
LEMMA CoreInit == ClientCoreInit => CoreInv
  <1> SUFFICES ASSUME ClientCoreInit PROVE CoreInv
    OBVIOUS
  <1>1. CoreTypes /\ HeldInv
    <2>1. <<>> \in Seq(Items) /\ <<>> \in Seq(Results)
      OBVIOUS
    <2>2. wire \in [Calls -> Seq(Items)] /\ got \in [Calls -> Seq(Results)]
      BY <2>1, Zenon DEF ClientCoreInit
    <2> QED BY <2>2, Zenon DEF ClientCoreInit, CoreTypes, HeldInv
  <1>2. ASSUME NEW t \in Calls PROVE PerCall(t)
    <2>1. NData(<<>>) = 0 /\ Range(<<>>) = {}
      BY NDataNone DEF Range
    <2> QED BY <2>1 DEF ClientCoreInit, PerCall, CallInv, WireInv, GotInv
  <1> QED BY <1>1, <1>2, Zenon DEF CoreInv

\* Every step of the client and of its server keeps the invariant.
LEMMA CoreKept == CoreInv /\ [ClientCoreNext]_ccVars => CoreInv'
  <1> SUFFICES ASSUME CoreInv, [ClientCoreNext]_ccVars PROVE CoreInv'
    OBVIOUS
  <1>1. CASE NewConn \/ DialEarly \/ ClientConnectFails \/ AuthAccepted
             \/ ClientClose \/ ConnectionDies
    BY <1>1, ConnSteps, Zenon
  <1>2. ASSUME NEW t \in Calls,
               \/ OpenStream(t) \/ WriteRequest(t) \/ ReadResponseNow(t) \/ ReadDeferred(t)
               \/ ReadData(t) \/ ConnClose(t) \/ ServerAnswers(t) \/ ServerSends(t)
        PROVE  CoreInv'
    BY <1>2, OpenStreamStep, WriteRequestStep, ReadResponseStep, ReadDeferredStep,
       ReadDataStep, ConnCloseStep, ServerAnswersStep, ServerSendsStep
  <1>3. CASE UNCHANGED ccVars
    <2>1. ASSUME NEW t \in Calls PROVE PerCall(t)'
      BY <1>3, Zenon DEF ccVars, CoreInv, PerCall, CallInv, WireInv, GotInv
    <2> QED BY <1>3, <2>1, Zenon DEF ccVars, CoreInv, CoreTypes, HeldInv
  <1> QED BY <1>1, <1>2, <1>3, Zenon DEF ClientCoreNext

\* For any number of calls, streams and chunks: no error path of connect leaks, a
\* response is never read as data, no more data is read than was sent, and the
\* errors of TCP and Read mean what they say.
THEOREM ClientIsSafe == ClientCoreSpec => []ClientCoreSafe
  <1>1. CoreInv => ClientCoreSafe
    <2> SUFFICES ASSUME CoreInv PROVE ClientCoreSafe
      OBVIOUS
    <2>1. NothingLeaks
      BY Zenon DEF CoreInv, HeldInv, NothingLeaks
    <2>2. ErrorsMeanWhatTheySay
      BY Zenon DEF CoreInv, PerCall, CallInv, ErrorsMeanWhatTheySay
    <2>3. ASSUME NEW t \in Calls
          PROVE  /\ "ok" \notin Range(got[t]) /\ "error" \notin Range(got[t])
                 /\ "data" \in Range(got[t]) =>
                      answered[t] = "ok" /\ "DialError" \notin Range(got[t])
                 /\ NData(got[t]) <= sent[t]
      <3>1. GotInv(t) /\ got[t] \in Seq(Results) /\ wire[t] \in Seq(Items) /\ sent[t] \in Nat
        BY Zenon DEF CoreInv, CoreTypes, PerCall
      <3>2. \A x \in Range(got[t]) : x \in Results
        BY <3>1 DEF Range
      <3>3. NData(got[t]) \in Nat /\ NData(wire[t]) \in Nat
        BY <3>1, NDataIsNat, Zenon
      <3>4. NData(got[t]) <= sent[t]
        BY <3>1, <3>3 DEF GotInv
      <3> QED BY <3>1, <3>2, <3>4, Zenon DEF GotInv, Results, Data
    <2>4. ResponseIsNotData
      BY <2>3, Zenon DEF ResponseIsNotData, NData
    <2> QED BY <2>1, <2>2, <2>4, Zenon DEF ClientCoreSafe
  <1> QED BY <1>1, CoreInit, CoreKept, PTL DEF ClientCoreSpec

-----------------------------------------------------------------------------
(***************************************************************************)
(* The reconnecting client                                                 *)
(***************************************************************************)

Types ==
    /\ client \in Clients \cup {Nil}
    /\ closed \in BOOLEAN
    /\ status \in [Clients -> {"new", "up", "down", "closed"}]
    /\ pc \in [Callers -> {"idle", "enter", "connect", "call", "drop"}]
    /\ mine \in [Callers -> Clients \cup {Nil}]

\* Whoever is in reconnect holds the mutex, found no client, and found that
\* Close was not called: while it holds the mutex that cannot change.
LockInv ==
    \A p \in Callers : pc[p] = "connect" => m = p /\ client = Nil /\ ~closed

\* The goroutines call clients that were connected, and go on to drop only one
\* that they reported.
ReconnectCalls ==
    /\ client # Nil => status[client] # "new"
    /\ \A p \in Callers :
         /\ pc[p] \in {"call", "drop"} => mine[p] \in Clients
         /\ pc[p] = "drop" => mine[p] \in reported

Inv == Types /\ LockInv /\ ReconnectCalls /\ CloseIsPermanent /\ OnlyReportedDropped

\* Every step preserves the invariant.
LEMMA Step == Inv /\ [Next]_vars => Inv'
  <1> SUFFICES ASSUME Inv, [Next]_vars PROVE Inv'
    OBVIOUS
  <1> USE ReconnectAssumption DEF Inv, Types, LockInv, ReconnectCalls, CloseIsPermanent,
          OnlyReportedDropped, Goto
  <1>1. ASSUME NEW p \in Callers, Call(p) PROVE Inv'
    BY <1>1, Zenon DEF Call
  <1>2. ASSUME NEW p \in Callers, Enter(p) PROVE Inv'
    <2>1. CASE closed
      BY <1>2, <2>1, Zenon DEF Enter, PermanentlyClosed
    <2>2. CASE ~closed /\ client = Nil
      BY <1>2, <2>2, Zenon DEF Enter, PermanentlyClosed
    <2>3. CASE ~closed /\ client # Nil
      BY <1>2, <2>3 DEF Enter, PermanentlyClosed
    <2> QED BY <2>1, <2>2, <2>3, Zenon
  <1>3. ASSUME NEW p \in Callers, ConnectFails(p) PROVE Inv'
    BY <1>3, Zenon DEF ConnectFails, OldClosed
  <1>4. ASSUME NEW p \in Callers, ConnectSucceeds(p) PROVE Inv'
    <2>1. PICK c \in Clients :
            /\ status[c] = "new"
            /\ client' = c
            /\ status' = [OldClosed EXCEPT ![c] = "up"]
            /\ mine' = [mine EXCEPT ![p] = c]
      BY <1>4, Zenon DEF ConnectSucceeds
    <2>2. client = Nil /\ ~closed /\ m = p
      BY <1>4, Zenon DEF ConnectSucceeds
    <2>3. status' = [status EXCEPT ![c] = "up"]
      BY <2>1, <2>2, Zenon DEF OldClosed
    <2>4. /\ closed' = closed /\ reported' = reported /\ m' = Nil
          /\ pc' = [pc EXCEPT ![p] = "call"]
      BY <1>4, Zenon DEF ConnectSucceeds
    <2>5. Types'
      BY <2>1, <2>3, <2>4, Zenon
    <2>6. LockInv'
      BY <2>2, <2>4, Zenon
    <2>7. ReconnectCalls'
      BY <2>1, <2>3, <2>4
    <2>8. CloseIsPermanent'
      BY <2>2, <2>4, Zenon
    <2>9. OnlyReportedDropped'
      BY <2>1, <2>2, <2>3, <2>4
    <2> QED BY <2>5, <2>6, <2>7, <2>8, <2>9, Zenon
  <1>5. ASSUME NEW p \in Callers, CallReturns(p) PROVE Inv'
    BY <1>5, Zenon DEF CallReturns
  <1>6. ASSUME NEW p \in Callers, CallReportsClosed(p) PROVE Inv'
    BY <1>6, Zenon DEF CallReportsClosed
  <1>7. ASSUME NEW p \in Callers, Drop(p) PROVE Inv'
    <2>1. client' = Nil \/ client' = client
      BY <1>7, Zenon DEF Drop
    <2>2. client' # client => client \in reported
      BY <1>7, Zenon DEF Drop, StillCurrent
    <2> QED BY <1>7, <2>1, <2>2 DEF Drop
  <1>8. CASE Close
    BY <1>8, Zenon DEF Close, OldClosed
  <1>9. ASSUME NEW c \in Clients, ConnectionLost(c) PROVE Inv'
    BY <1>9, Zenon DEF ConnectionLost
  <1>10. CASE UNCHANGED vars
    BY <1>10, Zenon DEF vars
  <1> QED BY <1>1, <1>2, <1>3, <1>4, <1>5, <1>6, <1>7, <1>8, <1>9, <1>10
          DEF Next, ClientDo

\* The invariant holds throughout.
THEOREM Invariance == Spec => []Inv
  <1>1. Init => Inv
    BY ReconnectAssumption, ZenonT(30) DEF Init, Inv, Types, LockInv, ReconnectCalls,
       CloseIsPermanent, OnlyReportedDropped
  <1> QED BY <1>1, Step, PTL DEF Spec

\* After Close the current client is closed for good.
THEOREM ClosePermanent == Spec => []CloseIsPermanent
  <1>1. Inv => CloseIsPermanent
    BY Zenon DEF Inv
  <1> QED BY <1>1, Invariance, PTL

\* A late ClosedError of an old client never drops the client that replaced it.
THEOREM DropsOnlyReported == Spec => []OnlyReportedDropped
  <1>1. Inv => OnlyReportedDropped
    BY Zenon DEF Inv
  <1> QED BY <1>1, Invariance, PTL

\* reconnect is never reached after Close.
THEOREM NoLateConnect == Spec => NoConnectAfterClose
  <1>1. Inv /\ [Next]_vars => [closed => count' = count]_vars
    <2> SUFFICES ASSUME Inv, Next, closed PROVE count' = count
      BY Zenon DEF vars
    <2>1. \A p \in Callers : ~ConnectSucceeds(p)
      BY Zenon DEF ConnectSucceeds, Inv, LockInv
    <2> QED BY <2>1, Zenon DEF Next, Call, ClientDo, Enter, ConnectFails, CallReturns,
               CallReportsClosed, Drop, Close, ConnectionLost
  <1> QED BY <1>1, Invariance, PTL DEF Spec, NoConnectAfterClose
=============================================================================
