------------------------- MODULE ApplicationProofs --------------------------
(***************************************************************************)
(* Safety of the inbounds of the client application, of the outbounds and  *)
(* resolvers of the server, and of the speed test between them.            *)
(***************************************************************************)
EXTENDS Inbound, Outbounds, Speedtest, DirectOutbound, SequenceTheorems, TLAPS

-----------------------------------------------------------------------------
(***************************************************************************)
(* The TCP inbounds.  A CONNECT or the like is the last token before the   *)
(* data, so that what follows it, read ahead or not, is the data.          *)
(***************************************************************************)

TokenKinds == {"negotiation", "userpass", "connect", "other", "plain", "lastplain", "data"}
Tokens == [what : TokenKinds, good : BOOLEAN]

\* The token that is dialled for stands right before the n tokens of data of stream s.
Framed(s, n) == \A i \in 1 .. Len(s) : s[i].what = "connect" => i = Len(s) - n

InboundTypeOK ==
    /\ ibIn \in Seq(Tokens) /\ ibAhead \in Seq(Tokens)
    /\ ibSent \in Nat /\ ibUpstream \in Nat

\* Credentials are checked before "dial" is reached, and nothing of the stream is
\* lost on the way there.
InboundInv ==
    /\ InboundTypeOK
    /\ ibKind \in {"forward", "tproxy", "redirect", "tun"} => ~ibAuth
    /\ ibPC \in {"negotiate", "userpass", "request"} => ibAhead = << >>
    /\ ibPC \in {"negotiate", "userpass", "request", "read"} => Framed(ibAhead \o ibIn, ibSent)
    /\ ibPC \in {"original", "dial"} => Len(ibAhead) + Len(ibIn) = ibSent
    /\ ibPC \in {"request", "dial"} /\ ibAuth => ibCred # FALSE
    /\ ibPC \in {"negotiate", "userpass", "request", "read", "original", "dial"} =>
         ibUpstream = 0 /\ ibUp = "none"
    /\ ibPC = "original" => ~ibAuth
    /\ DialedIfAllowed /\ NothingLostAhead

\* A function on 1 .. n is a sequence of that length.
LEMMA SeqOfFcn ==
    ASSUME NEW S, NEW n \in Nat, NEW f \in [1 .. n -> S]
    PROVE  f \in Seq(S) /\ Len(f) = n
  <1>1. f \in Seq(S)
    BY SeqDef
  <1>2. Len(f) \in Nat /\ DOMAIN f = 1 .. Len(f) /\ DOMAIN f = 1 .. n
    BY <1>1, LenProperties
  <1> QED BY <1>1, <1>2

\* A token and a sequence of one to three of them.
LEMMA TokenIs ==
    ASSUME NEW what \in TokenKinds, NEW good \in BOOLEAN
    PROVE  Token(what, good) \in Tokens /\ Token(what, good).what = what /\ Token(what, good).good = good
  BY DEF Token, Tokens, TokenKinds

LEMMA DataIs ==
    ASSUME NEW n \in Nat
    PROVE  /\ DataTokens(n) \in Seq(Tokens) /\ Len(DataTokens(n)) = n
           /\ \A i \in 1 .. n : DataTokens(n)[i].what # "connect"
           /\ PlainTokens(n) \in Seq(Tokens) /\ Len(PlainTokens(n)) = n
           /\ \A i \in 1 .. n : PlainTokens(n)[i].what # "connect"
  <1>0. /\ Token("data", TRUE) \in Tokens /\ Token("data", TRUE).what = "data"
        /\ Token("plain", TRUE) \in Tokens /\ Token("plain", TRUE).what = "plain"
    BY DEF Token, Tokens, TokenKinds
  <1>1. DataTokens(n) \in [1 .. n -> Tokens] /\ PlainTokens(n) \in [1 .. n -> Tokens]
    BY <1>0, Zenon DEF DataTokens, PlainTokens
  <1>2. \A i \in 1 .. n : DataTokens(n)[i] = Token("data", TRUE) /\ PlainTokens(n)[i] = Token("plain", TRUE)
    BY Zenon DEF DataTokens, PlainTokens
  <1> QED BY <1>0, <1>1, <1>2, SeqOfFcn, Zenon

\* The streams an application may open with are framed.
LEMMA OpeningFramed ==
    ASSUME NEW data \in Seq(Tokens), Opens(data)
    PROVE  \E opening \in Seq(Tokens) :
             /\ ibIn = opening \o data
             /\ \A i \in 1 .. Len(opening) : opening[i].what = "connect" => i = Len(opening)
             /\ ibKind \notin {"socks", "http"} => opening = << >>
  <1>1. ASSUME NEW m \in BOOLEAN, NEW g \in BOOLEAN, NEW cmd \in {"connect", "other"}
        PROVE  LET s == <<Token("negotiation", m), Token("userpass", g), Token(cmd, TRUE)>>
               IN  s \in Seq(Tokens) /\ \A i \in 1 .. Len(s) : s[i].what = "connect" => i = Len(s)
    <2>1. PICK t1 \in Tokens, t2 \in Tokens, t3 \in Tokens :
            /\ t1 = Token("negotiation", m) /\ t2 = Token("userpass", g) /\ t3 = Token(cmd, TRUE)
            /\ t1.what # "connect" /\ t2.what # "connect"
      <3>1. Token("negotiation", m) \in Tokens /\ Token("negotiation", m).what # "connect"
        BY TokenIs DEF TokenKinds
      <3>2. Token("userpass", g) \in Tokens /\ Token("userpass", g).what # "connect"
        BY TokenIs DEF TokenKinds
      <3>3. Token(cmd, TRUE) \in Tokens
        BY TokenIs, Zenon DEF TokenKinds
      <3> QED BY <3>1, <3>2, <3>3, Zenon
    <2> DEFINE s == <<t1, t2, t3>>
    <2>2. s \in Seq(Tokens) /\ Len(s) = 3 /\ s[1] = t1 /\ s[2] = t2
      OBVIOUS
    <2>3. \A i \in 1 .. Len(s) : s[i].what = "connect" => i = Len(s)
      <3> HIDE DEF s
      <3> SUFFICES ASSUME NEW i \in 1 .. 3, s[i].what = "connect" PROVE i = 3
        BY <2>2
      <3>1. i = 1 \/ i = 2 \/ i = 3
        OBVIOUS
      <3> QED BY <2>1, <2>2, <3>1, Zenon
    <2> QED BY <2>1, <2>2, <2>3, Zenon
  <1>2. ASSUME NEW m \in BOOLEAN, NEW g \in BOOLEAN
        PROVE  LET s == <<Token("negotiation", m), Token("connect", g)>>
               IN  s \in Seq(Tokens) /\ \A i \in 1 .. Len(s) : s[i].what = "connect" => i = Len(s)
    <2>1. PICK t1 \in Tokens, t2 \in Tokens :
            t1 = Token("negotiation", m) /\ t2 = Token("connect", g) /\ t1.what # "connect"
      <3>1. Token("negotiation", m) \in Tokens /\ Token("negotiation", m).what # "connect"
        BY TokenIs DEF TokenKinds
      <3>2. Token("connect", g) \in Tokens
        BY TokenIs DEF TokenKinds
      <3> QED BY <3>1, <3>2, Zenon
    <2> QED BY <2>1
  <1>3. ASSUME NEW k \in 0 .. MaxRequests - 1, NEW what \in {"connect", "plain", "lastplain"}, NEW g \in BOOLEAN
        PROVE  LET s == PlainTokens(k) \o <<Token(what, g)>>
               IN  s \in Seq(Tokens) /\ \A i \in 1 .. Len(s) : s[i].what = "connect" => i = Len(s)
    <2>1. k \in Nat
      BY InboundAssumption
    <2>2. PlainTokens(k) \in Seq(Tokens) /\ \A i \in 1 .. Len(PlainTokens(k)) : PlainTokens(k)[i].what # "connect"
      BY <2>1, DataIs, Zenon
    <2>3. Token(what, g) \in Tokens
      BY TokenIs DEF TokenKinds
    <2>4. PICK p \in Seq(Tokens), t \in Tokens : p = PlainTokens(k) /\ t = Token(what, g)
                                                  /\ \A i \in 1 .. Len(p) : p[i].what # "connect"
      BY <2>2, <2>3, Zenon
    <2> DEFINE s == p \o <<t>>
    <2>5. s \in Seq(Tokens) /\ Len(s) = Len(p) + 1 /\ \A i \in 1 .. Len(p) : s[i] = p[i]
      BY <2>4
    <2>6. \A i \in 1 .. Len(s) : s[i].what = "connect" => i = Len(s)
      <3> HIDE DEF s
      <3> QED BY <2>4, <2>5
    <2> QED BY <2>4, <2>5, <2>6, Zenon
  <1>4. << >> \in Seq(Tokens) /\ << >> \o data = data /\ \A i \in 1 .. Len(<< >>) : FALSE
    OBVIOUS
  <1>5. CASE ibKind = "socks"
    BY <1>1, <1>2, <1>5, Zenon DEF Opens
  <1>6. CASE ibKind = "http"
    BY <1>3, <1>6, Zenon DEF Opens
  <1>7. CASE ibKind \notin {"socks", "http"}
    BY <1>4, <1>7, Zenon DEF Opens
  <1> QED BY <1>5, <1>6, <1>7, Zenon

\* Two sequences one after the other.
LEMMA Concatenated ==
    ASSUME NEW S, NEW a \in Seq(S), NEW b \in Seq(S)
    PROVE  /\ a \o b \in Seq(S) /\ Len(a \o b) = Len(a) + Len(b) /\ Len(a) \in Nat
           /\ \A i \in 1 .. Len(a) : (a \o b)[i] = a[i]
           /\ \A i \in Len(a) + 1 .. Len(a) + Len(b) : (a \o b)[i] = b[i - Len(a)]
  OBVIOUS

LEMMA InboundInitInv == InboundInit => InboundInv
  <1> SUFFICES ASSUME InboundInit PROVE InboundInv
    OBVIOUS
  <1>1. PICK n \in 0 .. MaxData : ibSent = n /\ Opens(DataTokens(n))
    BY Zenon DEF InboundInit
  <1>2. n \in Nat
    BY InboundAssumption
  <1>4. PICK d \in Seq(Tokens) : Opens(d) /\ Len(d) = n /\ \A i \in 1 .. n : d[i].what # "connect"
    BY <1>1, <1>2, DataIs, Zenon
  <1>3. PICK opening \in Seq(Tokens) :
             /\ ibIn = opening \o d
             /\ \A i \in 1 .. Len(opening) : opening[i].what = "connect" => i = Len(opening)
             /\ ibKind \notin {"socks", "http"} => opening = << >>
    BY <1>4, OpeningFramed, Zenon
  <1>5. /\ ibIn \in Seq(Tokens) /\ Len(ibIn) = Len(opening) + n /\ Len(opening) \in Nat
        /\ \A i \in 1 .. Len(opening) : ibIn[i] = opening[i]
        /\ \A i \in Len(opening) + 1 .. Len(opening) + n : ibIn[i] = d[i - Len(opening)]
    <2>1. ibIn = opening \o d /\ opening \in Seq(Tokens) /\ d \in Seq(Tokens) /\ Len(d) = n
      BY <1>3, <1>4, Zenon
    <2>2. /\ opening \o d \in Seq(Tokens) /\ Len(opening \o d) = Len(opening) + Len(d)
          /\ Len(opening) \in Nat
          /\ \A i \in 1 .. Len(opening) : (opening \o d)[i] = opening[i]
          /\ \A i \in Len(opening) + 1 .. Len(opening) + Len(d) :
               (opening \o d)[i] = d[i - Len(opening)]
      BY <2>1, Concatenated, Zenon
    <2> QED BY <2>1, <2>2, Zenon
  <1>6. Framed(ibIn, ibSent)
    <2> SUFFICES ASSUME NEW i \in 1 .. Len(ibIn), ibIn[i].what = "connect" PROVE i = Len(ibIn) - ibSent
      BY Zenon DEF Framed
    <2>1. CASE i <= Len(opening)
      BY <1>1, <1>3, <1>5, <2>1
    <2>2. CASE i > Len(opening)
      <3>1. i - Len(opening) \in 1 .. n /\ ibIn[i] = d[i - Len(opening)]
        BY <1>2, <1>5, <2>2
      <3> QED BY <1>4, <3>1, Zenon
    <2> QED BY <1>5, <2>1, <2>2
  <1>7. ibAhead = << >> /\ ibAhead \o ibIn = ibIn /\ Len(ibAhead) = 0 /\ ibAhead \in Seq(Tokens)
    BY <1>5 DEF InboundInit
  <1>8. ibKind \notin {"socks", "http"} => Len(ibAhead) + Len(ibIn) = ibSent
    BY <1>1, <1>2, <1>3, <1>5, <1>7
  <1>9. InboundTypeOK
    BY <1>1, <1>2, <1>5, <1>7 DEF InboundTypeOK, InboundInit
  <1> QED BY <1>6, <1>7, <1>8, <1>9, Zenon
          DEF InboundInit, InboundInv, DialedIfAllowed, NothingLostAhead

\* What is left of a framed stream when a token is taken.
LEMMA TakeFramed ==
    ASSUME NEW s \in Seq(Tokens), s # << >>, NEW n \in Nat, Framed(s, n)
    PROVE  /\ Head(s) \in Tokens /\ Tail(s) \in Seq(Tokens) /\ Len(Tail(s)) = Len(s) - 1
           /\ Framed(Tail(s), n)
           /\ Head(s).what = "connect" => Len(Tail(s)) = n
  <1>1. /\ Head(s) \in Tokens /\ Tail(s) \in Seq(Tokens) /\ Len(Tail(s)) = Len(s) - 1
        /\ \A i \in 1 .. Len(Tail(s)) : Tail(s)[i] = s[i + 1]
    BY HeadTailProperties, Zenon
  <1>2. Len(s) \in Nat /\ Len(s) > 0 /\ Head(s) = s[1]
    OBVIOUS
  <1>3. Framed(Tail(s), n)
    <2> SUFFICES ASSUME NEW i \in 1 .. Len(Tail(s)), Tail(s)[i].what = "connect" PROVE i = Len(Tail(s)) - n
      BY Zenon DEF Framed
    <2>1. i + 1 \in 1 .. Len(s) /\ s[i + 1].what = "connect"
      BY <1>1, <1>2
    <2>2. i + 1 = Len(s) - n
      BY <2>1, Zenon DEF Framed
    <2>3. i \in Int /\ Len(Tail(s)) = Len(s) - 1 /\ Len(s) \in Int
      BY <1>1, <1>2
    <2> HIDE DEF Framed
    <2> QED BY <2>2, <2>3
  <1>4. Head(s).what = "connect" => Len(Tail(s)) = n
    <2> SUFFICES ASSUME Head(s).what = "connect" PROVE Len(Tail(s)) = n
      OBVIOUS
    <2>1. 1 \in 1 .. Len(s) /\ s[1].what = "connect"
      BY <1>2
    <2>2. 1 = Len(s) - n
      BY <2>1, Zenon DEF Framed
    <2>3. Len(Tail(s)) = Len(s) - 1 /\ Len(s) \in Int
      BY <1>1, <1>2
    <2> QED BY <2>2, <2>3
  <1> QED BY <1>1, <1>3, <1>4, Zenon

\* Reading ahead splits the rest of the stream in two.
LEMMA AheadSplits ==
    ASSUME NEW rest \in Seq(Tokens), ibAhead \in Seq(Tokens), TakeAhead(rest)
    PROVE  /\ ibAhead' \in Seq(Tokens) /\ ibIn' \in Seq(Tokens)
           /\ ibAhead' \o ibIn' = rest /\ Len(ibAhead') + Len(ibIn') = Len(rest)
  <1>1. PICK k \in AlreadyAhead .. Len(rest) :
          ibAhead' = SubSeq(rest, 1, k) /\ ibIn' = SubSeq(rest, k + 1, Len(rest))
    BY Zenon DEF TakeAhead
  <1>2. AlreadyAhead \in Nat /\ Len(rest) \in Nat
    BY DEF AlreadyAhead
  <1>3. k \in Nat /\ k <= Len(rest)
    BY <1>1, <1>2
  <1>4. /\ ibAhead' \in Seq(Tokens) /\ Len(ibAhead') = k
    BY <1>1, <1>2, <1>3
  <1>5. /\ ibIn' \in Seq(Tokens) /\ Len(ibIn') = Len(rest) - k
    BY <1>1, <1>2, <1>3
  <1>6. ibAhead' \o ibIn' = SubSeq(rest, 1, Len(rest))
    <2>1. 1 \in 1 .. Len(rest) + 1 /\ k \in 1 - 1 .. Len(rest) /\ Len(rest) \in k .. Len(rest)
      BY <1>2, <1>3
    <2> QED BY <1>1, <2>1, ConcatAdjacentSubSeq, Zenon
  <1> QED BY <1>2, <1>3, <1>4, <1>5, <1>6, SubSeqFull

\* A connection that is closed without being relayed.
LEMMA InboundClosed ==
    ASSUME InboundInv, ibPC' = "closed", UNCHANGED <<ibKind, ibAuth, ibSent, ibUpstream>>,
           ibIn' \in Seq(Tokens), ibAhead' \in Seq(Tokens), ibAuth => FALSE \notin ibDialed'
    PROVE  InboundInv'
  BY Zenon DEF InboundInv, InboundTypeOK, DialedIfAllowed, NothingLostAhead

LEMMA InboundFrame ==
    ASSUME InboundInv,
           UNCHANGED <<ibKind, ibAuth, ibIn, ibAhead, ibPC, ibCred, ibDialed, ibUp, ibUpstream, ibSent>>
    PROVE  InboundInv'
  BY Zenon DEF InboundInv, InboundTypeOK, DialedIfAllowed, NothingLostAhead, Framed

LEMMA SocksSteps ==
    ASSUME InboundInv, SocksNegotiate \/ SocksUserPass \/ SocksRequest
    PROVE  InboundInv'
  <1>0. /\ ibPC \in {"negotiate", "userpass", "request"} /\ ibAhead = << >> /\ Framed(ibIn, ibSent)
        /\ ibIn \in Seq(Tokens) /\ ibSent \in Nat /\ ibUpstream = 0 /\ ibUp = "none" /\ ibAhead \in Seq(Tokens)
        /\ UNCHANGED <<ibKind, ibAuth, ibSent, ibUpstream, ibUp, ibAhead, ibDialed>>
        /\ ibAuth => FALSE \notin ibDialed'
    <2>1. /\ ibPC \in {"negotiate", "userpass", "request"} /\ ibAhead = << >> /\ Framed(ibAhead \o ibIn, ibSent)
          /\ ibIn \in Seq(Tokens) /\ ibSent \in Nat /\ ibUpstream = 0 /\ ibUp = "none" /\ ibAhead \in Seq(Tokens)
      BY Zenon DEF InboundInv, InboundTypeOK, SocksNegotiate, SocksUserPass, SocksRequest
    <2>2. ibAhead \o ibIn = ibIn
      BY <2>1
    <2>3. UNCHANGED <<ibKind, ibAuth, ibSent, ibUpstream, ibUp, ibAhead, ibDialed>>
      BY Zenon DEF SocksNegotiate, SocksUserPass, SocksRequest, peerVars, relayVars
    <2> QED BY <2>1, <2>2, <2>3, Zenon DEF InboundInv, DialedIfAllowed
  <1>1. CASE ReadFails /\ CloseLocal /\ UNCHANGED ibIn
    BY <1>0, <1>1, InboundClosed, Zenon DEF CloseLocal
  <1>2. CASE ibIn # << >> /\ ibIn' = Tail(ibIn)
    <2>1. /\ Head(ibIn) \in Tokens /\ ibIn' \in Seq(Tokens)
          /\ Framed(ibIn', ibSent)
          /\ Head(ibIn).what = "connect" => Len(ibIn') = ibSent
      BY <1>0, <1>2, TakeFramed, Zenon
    <2>2. CASE CloseLocal
      BY <1>0, <2>1, <2>2, InboundClosed, Zenon DEF CloseLocal
    <2>3. CASE ~CloseLocal
      <3>1. \/ ibPC' = "userpass"
            \/ ibPC' = "request" /\ (ibAuth => ibCred' # FALSE)
            \/ ibPC' = "dial" /\ (ibAuth => ibCred' # FALSE) /\ Len(ibIn') = ibSent
        <4>1. CASE SocksNegotiate
          BY <1>2, <2>3, <4>1, Zenon DEF SocksNegotiate, Proceed, ReadFails
        <4>2. CASE SocksUserPass
          BY <1>2, <2>3, <4>2, Zenon DEF SocksUserPass, Proceed, UserPassAccepted, ReadFails
        <4>3. CASE SocksRequest
          <5>1. ibAuth => ibCred # FALSE
            BY <4>3, Zenon DEF SocksRequest, InboundInv
          <5>2. ibPC' = "dial" /\ Head(ibIn).what = "connect" /\ ibCred' = ibCred
            BY <1>2, <2>3, <4>3, Zenon DEF SocksRequest, Proceed, ReadFails
          <5> QED BY <2>1, <5>1, <5>2, Zenon
        <4> QED BY <4>1, <4>2, <4>3, Zenon
      <3>2. ibAhead' \o ibIn' = ibIn' /\ Len(ibAhead') = 0 /\ Len(ibIn') \in Nat
        BY <1>0, <2>1
      <3>3. ibPC' = "dial" => Len(ibAhead') + Len(ibIn') = ibSent'
        BY <1>0, <3>1, <3>2
      <3>4. InboundTypeOK' /\ DialedIfAllowed' /\ NothingLostAhead'
        BY <1>0, <2>1, <3>1, Zenon DEF InboundTypeOK, DialedIfAllowed, NothingLostAhead
      <3>5. ibKind' \in {"forward", "tproxy", "redirect", "tun"} => ~ibAuth'
        BY <1>0, Zenon DEF InboundInv
      <3>6. ibPC' \in {"userpass", "request", "dial"}
        BY <3>1, Zenon
      <3>7. ibPC' \in {"request", "dial"} /\ ibAuth' => ibCred' # FALSE
        BY <1>0, <3>1, Zenon
      <3>8. Framed(ibAhead' \o ibIn', ibSent')
        BY <1>0, <2>1, <3>2, Zenon
      <3>9. ibAhead' = << >> /\ ibUpstream' = 0 /\ ibUp' = "none"
        BY <1>0, Zenon
      <3> QED BY <3>3, <3>4, <3>5, <3>6, <3>7, <3>8, <3>9, Zenon DEF InboundInv
    <2> QED BY <2>2, <2>3, Zenon
  <1> QED BY <1>1, <1>2, Zenon DEF SocksNegotiate, SocksUserPass, SocksRequest

LEMMA HTTPStep ==
    ASSUME InboundInv, HTTPRequest
    PROVE  InboundInv'
  <1> DEFINE stream == ibAhead \o ibIn
  <1>0. /\ ibPC = "read" /\ Framed(stream, ibSent) /\ ibIn \in Seq(Tokens) /\ ibAhead \in Seq(Tokens)
        /\ ibSent \in Nat /\ ibUpstream = 0 /\ ibUp = "none"
        /\ ibKind' = ibKind /\ ibAuth' = ibAuth /\ ibSent' = ibSent /\ ibUpstream' = ibUpstream /\ ibUp' = ibUp
        /\ (ibAuth => FALSE \notin ibDialed)
        /\ (ibKind \in {"forward", "tproxy", "redirect", "tun"} => ~ibAuth)
    BY Zenon DEF InboundInv, InboundTypeOK, HTTPRequest, peerVars, relayVars, DialedIfAllowed
  <1>1. stream \in Seq(Tokens)
    BY <1>0, ConcatProperties, Zenon
  <1>2. CASE CloseLocal /\ UNCHANGED <<ibIn, ibAhead, ibDialed>>
    BY <1>0, <1>2, InboundClosed, Zenon DEF CloseLocal
  <1>3. CASE stream # << >> /\ TakeAhead(Tail(stream)) /\ ibCred' = Head(stream).good
    <2> DEFINE token == Head(stream)
    <2>1. /\ token \in Tokens /\ Tail(stream) \in Seq(Tokens) /\ Framed(Tail(stream), ibSent)
          /\ (token.what = "connect" => Len(Tail(stream)) = ibSent)
      BY <1>0, <1>1, <1>3, TakeFramed, Zenon
    <2>2. /\ ibAhead' \in Seq(Tokens) /\ ibIn' \in Seq(Tokens)
          /\ ibAhead' \o ibIn' = Tail(stream) /\ Len(ibAhead') + Len(ibIn') = Len(Tail(stream))
      BY <1>0, <1>3, <2>1, AheadSplits, Zenon
    <2> HIDE DEF stream, token
    <2>3. \/ CloseLocal /\ (ibAuth => FALSE \notin ibDialed')
          \/ /\ ibPC' = "dial" /\ token.what = "connect" /\ (ibAuth => ibCred' # FALSE)
             /\ ibDialed' = ibDialed
          \/ ibPC' = "read" /\ (ibAuth => FALSE \notin ibDialed')
      <3>0. token.good \in BOOLEAN
        BY <2>1 DEF Tokens
      <3>1. \/ CloseLocal /\ UNCHANGED ibDialed
            \/ ibPC' = "dial" /\ UNCHANGED ibDialed /\ token.what = "connect" /\ HTTPAllowed(token)
            \/ /\ CloseLocal \/ ibPC' = "read"
               /\ ibDialed' = ibDialed \union {token.good} /\ HTTPAllowed(token)
        BY <1>3, Zenon DEF HTTPRequest, HTTPRoundTrip, Proceed, stream, token
      <3>2. HTTPAllowed(token) => (ibAuth => ibCred' # FALSE /\ token.good # FALSE)
        <4>1. ibCred' = token.good
          BY <1>3, Zenon DEF token
        <4> QED BY <4>1, <3>0, Zenon DEF HTTPAllowed
      <3> QED BY <1>0, <3>1, <3>2, Zenon
    <2>4. CASE CloseLocal /\ (ibAuth => FALSE \notin ibDialed')
      BY <1>0, <2>2, <2>4, InboundClosed, Zenon DEF CloseLocal
    <2>5. CASE /\ ibPC' = "dial" /\ token.what = "connect" /\ (ibAuth => ibCred' # FALSE)
               /\ ibDialed' = ibDialed
      <3>1. Len(ibAhead') + Len(ibIn') = ibSent'
        BY <1>0, <2>1, <2>2, <2>5, Zenon
      <3>2. InboundTypeOK' /\ DialedIfAllowed' /\ NothingLostAhead'
        BY <1>0, <2>2, <2>5, Zenon DEF InboundTypeOK, DialedIfAllowed, NothingLostAhead
      <3> QED BY <1>0, <2>5, <3>1, <3>2, Zenon DEF InboundInv
    <2>6. CASE ibPC' = "read" /\ (ibAuth => FALSE \notin ibDialed')
      <3>1. Framed(ibAhead' \o ibIn', ibSent')
        BY <1>0, <2>1, <2>2, Zenon
      <3>2. InboundTypeOK' /\ DialedIfAllowed' /\ NothingLostAhead'
        BY <1>0, <2>2, <2>6, Zenon DEF InboundTypeOK, DialedIfAllowed, NothingLostAhead
      <3> QED BY <1>0, <2>6, <3>1, <3>2, Zenon DEF InboundInv
    <2> QED BY <2>3, <2>4, <2>5, <2>6, Zenon
  <1> QED BY <1>2, <1>3, Zenon DEF HTTPRequest

LEMMA InboundDialStep ==
    ASSUME InboundInv, NEW ok, NEW failed, Dial(ok, failed)
    PROVE  InboundInv'
  <1>0. /\ ibPC = "dial" /\ Len(ibAhead) + Len(ibIn) = ibSent /\ ibIn \in Seq(Tokens) /\ ibAhead \in Seq(Tokens)
        /\ ibSent \in Nat /\ ibUpstream = 0
        /\ ibKind' = ibKind /\ ibAuth' = ibAuth /\ ibSent' = ibSent /\ ibUpstream' = ibUpstream
        /\ ibIn' = ibIn /\ ibAhead' = ibAhead /\ ibPC' \in {"relay", "closed"}
        /\ (ibAuth => FALSE \notin ibDialed')
        /\ (ibKind \in {"forward", "tproxy", "redirect", "tun"} => ~ibAuth)
    BY Zenon DEF InboundInv, InboundTypeOK, Dial, peerVars, DialedIfAllowed, Proceed, CloseLocal
  <1>1. ibUpstream' + Len(ibAhead') + Len(ibIn') = ibSent'
    BY <1>0
  <1> QED BY <1>0, <1>1, Zenon DEF InboundInv, InboundTypeOK, DialedIfAllowed, NothingLostAhead

LEMMA CopyUpStep ==
    ASSUME InboundInv, CopyUp
    PROVE  InboundInv'
  <1>0. /\ ibPC \notin {"negotiate", "userpass", "request", "read", "original", "dial"}
        /\ ibIn \in Seq(Tokens) /\ ibAhead \in Seq(Tokens) /\ ibSent \in Nat /\ ibUpstream \in Nat
        /\ ibKind' = ibKind /\ ibAuth' = ibAuth /\ ibSent' = ibSent /\ ibPC' = ibPC /\ ibDialed' = ibDialed
        /\ (ibPC = "relay" => ibUpstream + Len(ibAhead) + Len(ibIn) = ibSent)
        /\ (ibKind \in {"forward", "tproxy", "redirect", "tun"} => ~ibAuth) /\ DialedIfAllowed
    BY Zenon DEF InboundInv, InboundTypeOK, CopyUp, peerVars, NothingLostAhead
  <1>1. /\ ibIn' \in Seq(Tokens) /\ ibAhead' \in Seq(Tokens) /\ ibUpstream' \in Nat
        /\ ibUpstream' + Len(ibAhead') + Len(ibIn') = ibUpstream + Len(ibAhead) + Len(ibIn)
    <2>1. CASE ibAhead # << >> /\ ibAhead' = Tail(ibAhead) /\ UNCHANGED ibIn /\ ibUpstream' = ibUpstream + 1
      BY <1>0, <2>1
    <2>2. CASE ibAhead = << >> /\ ibAhead \o ibIn # << >> /\ ibIn' = Tail(ibIn) /\ UNCHANGED ibAhead
               /\ ibUpstream' = ibUpstream + 1
      <3>1. ibIn # << >>
        BY <1>0, <2>2
      <3> QED BY <1>0, <2>2, <3>1
    <2>3. CASE UNCHANGED <<ibUpstream, ibIn, ibAhead>>
      BY <1>0, <2>3, LenProperties
    <2> QED BY <2>1, <2>2, <2>3, Zenon DEF CopyUp
  <1> QED BY <1>0, <1>1, Zenon DEF InboundInv, InboundTypeOK, DialedIfAllowed, NothingLostAhead

LEMMA InboundStepInv == InboundInv /\ [InboundNext]_ibVars => InboundInv'
  <1> SUFFICES ASSUME InboundInv, [InboundNext]_ibVars PROVE InboundInv'
    OBVIOUS
  <1>1. CASE SocksNegotiate \/ SocksUserPass \/ SocksRequest
    BY <1>1, SocksSteps, Zenon
  <1>2. CASE HTTPRequest
    BY <1>2, HTTPStep, Zenon
  <1>3. CASE RedirectOriginal
    <2>1. /\ ibPC = "original" /\ ibPC' \in {"dial", "closed"}
          /\ UNCHANGED <<ibKind, ibAuth, ibIn, ibAhead, ibCred, ibDialed, ibUp, ibUpstream, ibSent>>
      BY <1>3, Zenon DEF RedirectOriginal, Proceed, CloseLocal, peerVars, relayVars
    <2> QED BY <2>1, Zenon DEF InboundInv, InboundTypeOK, DialedIfAllowed, NothingLostAhead
  <1>4. CASE ForwardTCP \/ TProxyTCP \/ RedirectTCP \/ TunTCP \/ SocksTCP \/ HTTPConnect
    BY <1>4, InboundDialStep, Zenon DEF ForwardTCP, TProxyTCP, RedirectTCP, TunTCP, SocksTCP, HTTPConnect
  <1>5. CASE CopyUp
    BY <1>5, CopyUpStep, Zenon
  <1>6. CASE CopyDown \/ ApplicationEnds \/ RemoteEnds \/ TunCloses
    BY <1>6, InboundFrame, Zenon DEF CopyDown, ApplicationEnds, RemoteEnds, TunCloses, peerVars, relayVars
  <1>7. CASE RelayReturns
    <2>1. /\ ibPC' = "closed" /\ UNCHANGED <<ibKind, ibAuth, ibSent, ibUpstream, ibIn, ibAhead, ibDialed>>
      BY <1>7, Zenon DEF RelayReturns, peerVars, relayVars
    <2> QED BY <2>1, InboundClosed, Zenon DEF InboundInv, InboundTypeOK, DialedIfAllowed
  <1>8. CASE UNCHANGED ibVars
    BY <1>8, InboundFrame, Zenon DEF ibVars
  <1> QED BY <1>1, <1>2, <1>3, <1>4, <1>5, <1>6, <1>7, <1>8, Zenon DEF InboundNext, InboundStep

-----------------------------------------------------------------------------
(***************************************************************************)
(* The UDP associations.  The client of one is the first address that sent *)
(* a packet, from then on.                                                 *)
(***************************************************************************)

AssociationInv ==
    /\ uiClient = uiFirst
    /\ uiKind # "socks" => uiClient \in Locals
    /\ uiDown # "none" => uiClient # 0
    /\ uiClient = 0 => uiTaken = {} /\ uiGiven = {}
    /\ OneClient

LEMMA AssociationInitInv == UDPInboundInit => AssociationInv
  BY UDPInboundAssumption, Zenon DEF UDPInboundInit, AssociationInv, OneClient

LEMMA AssociationStepInv == AssociationInv /\ [UDPInboundNext]_uiVars => AssociationInv'
  <1> SUFFICES ASSUME AssociationInv, [UDPInboundNext]_uiVars PROVE AssociationInv'
    OBVIOUS
  <1>1. CASE \/ ReadLocalFails \/ HolderEnds \/ HandlerReturns \/ OpenLocal \/ SessionFails \/ ControlCloses
             \/ DeadlineNears \/ UNCHANGED uiVars
    BY <1>1, Zenon DEF AssociationInv, OneClient, ReadLocalFails, HolderEnds, HandlerReturns, OpenLocal,
       SessionFails, ControlCloses, DeadlineNears, uiVars, goroutines, packets
  <1>2. CASE ReceiveFails
    BY <1>2, Zenon DEF AssociationInv, OneClient, ReceiveFails, EndDown, packets
  <1>3. CASE OpenSession
    BY <1>3, UDPInboundAssumption, Zenon DEF AssociationInv, OneClient, OpenSession, goroutines
  <1>4. CASE CarryDown
    BY <1>4, Zenon DEF AssociationInv, OneClient, CarryDown
  <1>5. ASSUME NEW a \in Locals, CarryUp(a) PROVE AssociationInv'
    BY <1>5, UDPInboundAssumption, Zenon DEF AssociationInv, OneClient, CarryUp, ClientOf
  <1> QED BY <1>1, <1>2, <1>3, <1>4, <1>5, Zenon DEF UDPInboundNext, UDPInboundStep

\* Every inbound, whatever it is sent and whenever either side ends, dials only
\* for an application that has authenticated, hands on every byte that follows
\* the request, read ahead or not, and carries packets for one client.
THEOREM InboundsAreFaithful == InboundSpec /\ UDPInboundSpec => []InboundsFaithful
  <1>1. InboundInv /\ AssociationInv => InboundsFaithful
    BY Zenon DEF InboundInv, AssociationInv, InboundsFaithful
  <1> QED BY <1>1, InboundInitInv, InboundStepInv, AssociationInitInv, AssociationStepInv, PTL
          DEF InboundSpec, UDPInboundSpec

-----------------------------------------------------------------------------
(***************************************************************************)
(* The resolvers.  Once the result is there both lookups have ended.       *)
(***************************************************************************)

ResolverInv ==
    /\ found \in [RecordTypes -> {"none", "failed", "empty", "addr"}]
    /\ info.done /\ literal = "none" /\ rsKind # "system" => \A f \in RecordTypes : found[f] # "none"
    /\ FamiliesIndependent

LEMMA ResolverInitInv == ResolverInit => ResolverInv
  <1> SUFFICES ASSUME ResolverInit PROVE ResolverInv
    OBVIOUS
  <1>1. found = [f \in RecordTypes |-> "none"] /\ info = NoInfo
    BY Zenon DEF ResolverInit
  <1>2. ~info.done
    BY <1>1 DEF NoInfo
  <1>3. found \in [RecordTypes -> {"none", "failed", "empty", "addr"}]
    BY <1>1
  <1> QED BY <1>2, <1>3, Zenon DEF ResolverInv, FamiliesIndependent

\* A lookup ends only while the result is not there.
LEMMA LookupInv ==
    ASSUME ResolverInv, NEW f \in RecordTypes, NEW r \in {"none", "failed", "empty", "addr"},
           literal = "none", found[f] = "none", rsKind # "system",
           found' = [found EXCEPT ![f] = r], UNCHANGED <<rsKind, literal, info>>
    PROVE  ResolverInv'
  <1>1. ~info.done
    BY Zenon DEF ResolverInv
  <1>2. found' \in [RecordTypes -> {"none", "failed", "empty", "addr"}]
    BY Zenon DEF ResolverInv
  <1> QED BY <1>1, <1>2, Zenon DEF ResolverInv, FamiliesIndependent

LEMMA ResolverStepInv == ResolverInv /\ [ResolverNext]_rsVars => ResolverInv'
  <1> SUFFICES ASSUME ResolverInv, [ResolverNext]_rsVars PROVE ResolverInv'
    OBVIOUS
  <1>0. ASSUME UNCHANGED <<rsKind, literal, found, info>> PROVE ResolverInv'
    BY <1>0, Zenon DEF ResolverInv, FamiliesIndependent
  <1>1. CASE ParsedIP
    BY <1>1, Zenon DEF ParsedIP, ResolverInv, FamiliesIndependent
  <1>2. CASE ResolveJoin
    <2>1. /\ info'.addrs = Addresses /\ (info'.err <=> \E f \in RecordTypes : found[f] = "failed")
      BY <1>2 DEF ResolveJoin
    <2>2. /\ \A f \in RecordTypes : found[f] # "none"
          /\ rsKind' = rsKind /\ literal' = literal /\ found' = found
      BY <1>2, Zenon DEF ResolveJoin
    <2>3. \A f \in RecordTypes : f \in info'.addrs <=> found'[f] = "addr"
      BY <2>1, <2>2 DEF Addresses
    <2> QED BY <2>1, <2>2, <2>3, Zenon DEF ResolverInv, FamiliesIndependent
  <1>3. CASE ResolveSystem
    BY <1>3, Zenon DEF ResolveSystem, ResolverInv, FamiliesIndependent
  <1>4. ASSUME NEW f \in RecordTypes, LookupRound(f) PROVE ResolverInv'
    <2>1. rsKind = "standard" /\ literal = "none" /\ found[f] = "none" /\ UNCHANGED <<rsKind, literal, info>>
      BY <1>4, Zenon DEF LookupRound, Looking
    <2>2. UNCHANGED found \/ \E r \in {"none", "failed", "empty", "addr"} : found' = [found EXCEPT ![f] = r]
      BY <1>4, Zenon DEF LookupRound, TryFailed
    <2> QED BY <1>0, <2>1, <2>2, LookupInv, Zenon
  <1>5. ASSUME NEW f \in RecordTypes, LookupDoH(f) PROVE ResolverInv'
    <2>1. rsKind = "doh" /\ literal = "none" /\ found[f] = "none" /\ UNCHANGED <<rsKind, literal, info>>
      BY <1>5, Zenon DEF LookupDoH, Looking
    <2>2. \E r \in {"none", "failed", "empty", "addr"} : found' = [found EXCEPT ![f] = r]
      BY <1>5, Zenon DEF LookupDoH
    <2> QED BY <2>1, <2>2, LookupInv, Zenon
  <1>6. CASE UNCHANGED rsVars
    BY <1>0, <1>6, Zenon DEF rsVars
  <1> QED BY <1>1, <1>2, <1>3, <1>4, <1>5, <1>6, Zenon DEF ResolverNext

-----------------------------------------------------------------------------
(***************************************************************************)
(* The outbounds through another proxy.  Until the association has its     *)
(* UDP socket nothing but the TCP connection is open, and nothing of the   *)
(* payload has been read before the answer.                                *)
(***************************************************************************)

Talking == {"hello", "userpass", "request", "write", "reply", "udp"}

ProxyInv ==
    /\ onWire \in Seq(Nat) /\ Buffer \in Seq(Nat) /\ pxGot \in Seq(Nat)
    /\ pxPC \in {"dial", "returned", "failed", "closed"} \union Talking
    /\ pxPC = "dial" => tcp = "none"
    /\ pxPC \in Talking => tcp = "open"
    /\ pxPC \in Talking \union {"dial"} => udp = "none" /\ hold = "none" /\ Buffer = << >>
    /\ pxPC = "udp" => ~deadline /\ Buffer = << >>
    /\ pxPC = "failed" => udp = "none" /\ hold = "none"
    /\ NoProxyLeak /\ PayloadKept

LEMMA ProxyInitInv == ProxyInit => ProxyInv
  <1> SUFFICES ASSUME ProxyInit PROVE ProxyInv
    OBVIOUS
  <1>1. onWire = Payload /\ Buffer = << >> /\ pxGot = << >>
    BY Zenon DEF ProxyInit
  <1>2. onWire \in Seq(Nat) /\ Buffer \in Seq(Nat) /\ pxGot \in Seq(Nat) /\ PayloadKept
    BY <1>1, ProxyOutboundAssumption DEF PayloadKept
  <1> QED BY <1>2, Zenon DEF ProxyInit, ProxyInv, Talking, NoProxyLeak

\* The first n chunks of s are taken, and the rest left.
LEMMA TakenFirst ==
    ASSUME NEW s \in Seq(Nat), NEW n \in 0 .. Len(s)
    PROVE  /\ SubSeq(s, 1, n) \in Seq(Nat) /\ SubSeq(s, n + 1, Len(s)) \in Seq(Nat)
           /\ SubSeq(s, 1, n) \o SubSeq(s, n + 1, Len(s)) = s
  <1>1. Len(s) \in Nat
    BY LenProperties
  <1>2. SubSeq(s, 1, n) \in Seq(Nat) /\ SubSeq(s, n + 1, Len(s)) \in Seq(Nat)
    BY <1>1
  <1>3. 1 \in 1 .. Len(s) + 1 /\ n \in 1 - 1 .. Len(s) /\ Len(s) \in n .. Len(s)
    BY <1>1
  <1>4. SubSeq(s, 1, n) \o SubSeq(s, n + 1, Len(s)) = SubSeq(s, 1, Len(s))
    BY <1>3, ConcatAdjacentSubSeq, Zenon
  <1> QED BY <1>2, <1>4, SubSeqFull, Zenon

\* What is moved from the front of one part to the end of the one before it.
LEMMA Associates ==
    ASSUME NEW S, NEW a \in Seq(S), NEW b \in Seq(S), NEW c \in Seq(S)
    PROVE  (a \o b) \o c = a \o (b \o c)
  OBVIOUS

LEMMA Moved ==
    ASSUME NEW S, NEW a \in Seq(S), NEW b \in Seq(S), NEW c \in Seq(S), NEW d, d = b \o c, NEW e, e = a \o b
    PROVE  e \in Seq(S) /\ e \o c = a \o d
  <1>1. (a \o b) \o c = a \o (b \o c)
    BY Associates
  <1>2. e \o c = (a \o b) \o c /\ a \o d = a \o (b \o c)
    BY Zenon
  <1>3. e \in Seq(S)
    BY ConcatProperties, Zenon
  <1> QED BY <1>1, <1>2, <1>3, Zenon

\* A step that leaves the payload and the sockets of other stages alone.
LEMMA ProxyFrame ==
    ASSUME ProxyInv, UNCHANGED <<onWire, Buffer, pxGot>>
    PROVE  onWire' \in Seq(Nat) /\ Buffer' \in Seq(Nat) /\ pxGot' \in Seq(Nat) /\ PayloadKept'
  BY Zenon DEF ProxyInv, PayloadKept

LEMMA ProxyStepInv == ProxyInv /\ [ProxyNext]_pxVars => ProxyInv'
  <1> SUFFICES ASSUME ProxyInv, [ProxyNext]_pxVars PROVE ProxyInv'
    OBVIOUS
  <1>1. CASE PxDial
    <2>1. UNCHANGED <<onWire, Buffer, pxGot>>
      BY <1>1, Zenon DEF PxDial, pxData
    <2> QED BY <1>1, <2>1, ProxyFrame, Zenon DEF PxDial, ProxyInv, Talking, NoProxyLeak
  <1>2. CASE PxNegotiate
    <2>1. UNCHANGED <<onWire, Buffer, pxGot>>
      BY <1>2, Zenon DEF PxNegotiate, pxData
    <2> QED BY <1>2, <2>1, ProxyFrame, Zenon DEF PxNegotiate, ProxyInv, Talking, NoProxyLeak
  <1>3. CASE PxWrite
    <2>1. UNCHANGED <<onWire, Buffer, pxGot>>
      BY <1>3, Zenon DEF PxWrite, pxData
    <2> QED BY <1>3, <2>1, ProxyFrame, Zenon DEF PxWrite, ProxyInv, Talking, NoProxyLeak
  <1>4. CASE PxReply
    <2>0. /\ pxPC = "reply" /\ onWire \in Seq(Nat) /\ Buffer = << >> /\ pxGot \in Seq(Nat) /\ pxGot' = pxGot
          /\ pxGot \o Buffer \o onWire = Payload
      BY <1>4, Zenon DEF PxReply, ProxyInv, PayloadKept, Talking
    <2>1. PICK n \in 0 .. Len(onWire) : Buffer' = SubSeq(onWire, 1, n) /\ onWire' = SubSeq(onWire, n + 1, Len(onWire))
      <3>1. Len(onWire) \in Nat
        BY <2>0, LenProperties
      <3>2. PICK n \in 0 .. (IF IsHTTP THEN Len(onWire) ELSE 0) :
              Buffer' = SubSeq(onWire, 1, n) /\ onWire' = SubSeq(onWire, n + 1, Len(onWire))
        BY <1>4, Zenon DEF PxReply
      <3>3. n \in 0 .. Len(onWire)
        BY <3>1
      <3> QED BY <3>2, <3>3, Zenon
    <2>2. /\ onWire' \in Seq(Nat) /\ Buffer' \in Seq(Nat) /\ Buffer' \o onWire' = onWire
      BY <2>0, <2>1, TakenFirst, Zenon
    <2>3. PayloadKept'
      <3>1. pxGot' \o Buffer' \o onWire' = pxGot \o onWire
        <4> DEFINE e == pxGot \o Buffer'
        <4>1. pxGot \o Buffer' = e
          BY Zenon
        <4> HIDE DEF e
        <4>2. e \in Seq(Nat) /\ e \o onWire' = pxGot \o onWire
          <5>1. pxGot \in Seq(Nat) /\ Buffer' \in Seq(Nat) /\ onWire' \in Seq(Nat) /\ onWire = Buffer' \o onWire' /\ e = pxGot \o Buffer'
            BY <2>0, <2>2, <4>1, Zenon
          <5> QED BY <5>1, Moved, SMTT(30)
        <4> QED BY <2>0, <4>1, <4>2, Zenon
      <3>2. pxGot \o Buffer = pxGot
        BY <2>0, ConcatEmptySeq, Zenon
      <3> QED BY <2>0, <3>1, <3>2, Zenon DEF PayloadKept
    <2>4. pxKind = "associate" => Buffer' = << >>
      <3> SUFFICES ASSUME pxKind = "associate" PROVE Buffer' = << >>
        OBVIOUS
      <3>1. PICK m \in 0 .. 0 : Buffer' = SubSeq(onWire, 1, m)
        BY <1>4, Zenon DEF PxReply, IsHTTP
      <3>2. m = 0
        OBVIOUS
      <3> QED BY <2>0, <3>1, <3>2
    <2> QED BY <1>4, <2>0, <2>2, <2>3, <2>4, Zenon DEF PxReply, Cleared, ProxyInv, Talking, NoProxyLeak
  <1>5. CASE PxError
    <2>1. UNCHANGED <<onWire, Buffer, pxGot>>
      BY <1>5, Zenon DEF PxError, PxFails, pxData
    <2> QED BY <1>5, <2>1, ProxyFrame, Zenon
            DEF PxError, PxFails, FailureCloses, ProxyInv, Talking, NoProxyLeak
  <1>6. ASSUME NEW ok \in BOOLEAN, PxUDP(ok) PROVE ProxyInv'
    <2>1. UNCHANGED <<onWire, Buffer, pxGot>>
      BY <1>6, Zenon DEF PxUDP, pxData
    <2> QED BY <1>6, <2>1, ProxyFrame, Zenon DEF PxUDP, ProxyInv, Talking, NoProxyLeak
  <1>7. CASE PxRead
    <2>0. /\ pxPC = "returned" /\ onWire \in Seq(Nat) /\ Buffer \in Seq(Nat) /\ pxGot \in Seq(Nat)
          /\ pxGot \o Buffer \o onWire = Payload /\ Buffer \o onWire # << >>
      BY <1>7, Zenon DEF PxRead, ProxyInv, PayloadKept
    <2>1. CASE FromBuffer
      <3>1. 1 \in 0 .. Len(Buffer)
        BY <2>0, <2>1 DEF FromBuffer
      <3> DEFINE b == SubSeq(Buffer, 1, 1)
      <3>2. b \in Seq(Nat) /\ Buffer' \in Seq(Nat) /\ b \o Buffer' = Buffer /\ pxGot' = pxGot \o b /\ onWire' = onWire
        <4>1. SubSeq(Buffer, 1 + 1, Len(Buffer)) = Buffer' /\ pxGot' = pxGot \o b /\ onWire' = onWire
          BY <1>7, <2>1 DEF PxRead
        <4> QED BY <2>0, <3>1, <4>1, TakenFirst, Zenon
      <3> HIDE DEF b
      <3>3. pxGot' \in Seq(Nat) /\ pxGot' \o Buffer' = pxGot \o Buffer
        <4>1. /\ pxGot \in Seq(Nat) /\ b \in Seq(Nat) /\ Buffer' \in Seq(Nat)
              /\ Buffer = b \o Buffer' /\ pxGot' = pxGot \o b
          BY <2>0, <3>2, Zenon
        <4> QED BY <4>1, Moved
      <3> QED BY <1>7, <2>0, <3>2, <3>3, Zenon DEF PxRead, ProxyInv, PayloadKept, NoProxyLeak, Talking
    <2>2. CASE ~FromBuffer
      <3>0. Buffer = << >> /\ onWire # << >> /\ pxGot \o onWire = Payload
        BY <2>0, <2>2, ConcatEmptySeq DEF FromBuffer
      <3>1. 1 \in 0 .. Len(onWire)
        BY <2>0, <3>0
      <3> DEFINE b == SubSeq(onWire, 1, 1)
      <3>2. b \in Seq(Nat) /\ onWire' \in Seq(Nat) /\ b \o onWire' = onWire /\ pxGot' = pxGot \o b /\ Buffer' = << >>
        <4>1. SubSeq(onWire, 1 + 1, Len(onWire)) = onWire' /\ pxGot' = pxGot \o b /\ Buffer' = Buffer
          BY <1>7, <2>2 DEF PxRead
        <4> QED BY <2>0, <3>0, <3>1, <4>1, TakenFirst, Zenon
      <3> HIDE DEF b
      <3>3. pxGot' \in Seq(Nat) /\ pxGot' \o onWire' = pxGot \o onWire
        <4>1. /\ pxGot \in Seq(Nat) /\ b \in Seq(Nat) /\ onWire' \in Seq(Nat)
              /\ onWire = b \o onWire' /\ pxGot' = pxGot \o b
          BY <2>0, <3>2, Zenon
        <4> QED BY <4>1, Moved
      <3>4. PayloadKept'
        <4>1. pxGot' \o Buffer' = pxGot'
          BY <3>2, <3>3, ConcatEmptySeq, Zenon
        <4> QED BY <3>0, <3>3, <4>1, Zenon DEF PayloadKept
      <3>5. Buffer' \in Seq(Nat)
        BY <2>0, <3>0, <3>2, Zenon
      <3> QED BY <1>7, <2>0, <3>2, <3>3, <3>4, <3>5, Zenon DEF PxRead, ProxyInv, NoProxyLeak, Talking
    <2> QED BY <2>1, <2>2
  <1>8. CASE PxClose
    <2>1. UNCHANGED <<onWire, Buffer, pxGot>>
      BY <1>8, Zenon DEF PxClose, pxData
    <2> QED BY <1>8, <2>1, ProxyFrame, Zenon DEF PxClose, CloseBoth, ProxyInv, Talking, NoProxyLeak
  <1>9. CASE Hold
    <2>1. UNCHANGED <<onWire, Buffer, pxGot>>
      BY <1>9, Zenon DEF Hold, pxData
    <2> QED BY <1>9, <2>1, ProxyFrame, Zenon DEF Hold, HoldCloses, CloseBoth, ProxyInv, Talking, NoProxyLeak
  <1>10. CASE PxSilent \/ ControlEnds \/ UNCHANGED pxVars
    <2>1. UNCHANGED <<pxPC, tcp, udp, deadline, lost, hold, onWire, Buffer, pxGot>>
      BY <1>10, Zenon DEF PxSilent, ControlEnds, pxVars, pxData, pxEnv
    <2> QED BY <2>1, Zenon DEF ProxyInv, PayloadKept, NoProxyLeak
  <1> QED BY <1>1, <1>2, <1>3, <1>4, <1>5, <1>6, <1>7, <1>8, <1>9, <1>10, Zenon DEF ProxyNext

\* Whatever a server or another proxy answers, and wherever it fails, resolving
\* keeps the addresses of the family that was found, the caller gets every chunk
\* that follows the proxy's answer, and an error leaves no socket open (but for
\* the control connection of an association without a UDP socket).
THEOREM AnswersAreKept == ResolverSpec /\ ProxySpec => []AnswersKept
  <1>1. ResolverInv /\ ProxyInv => AnswersKept
    BY Zenon DEF ResolverInv, ProxyInv, AnswersKept
  <1> QED BY <1>1, ResolverInitInv, ResolverStepInv, ProxyInitInv, ProxyStepInv, PTL DEF ResolverSpec, ProxySpec

-----------------------------------------------------------------------------
(***************************************************************************)
(* The speed test.  What one side has moved, what is under way and what is *)
(* left add up, and the server says it has all only when it has.           *)
(***************************************************************************)

Size == IF stTimed THEN MaxUint32 ELSE dataSize

Moving == {"data", "summary", "ok"}

MovedInv ==
    /\ stUp \in BOOLEAN /\ stTimed \in BOOLEAN /\ connUp \in BOOLEAN /\ dataSize \in Nat
    /\ totalBytes \in Nat /\ remaining \in Nat /\ svTotal \in Nat /\ svRemaining \in Nat /\ inFlight \in Nat
    /\ summary \in Int
    /\ (~stTimed => remaining + totalBytes = dataSize)
    /\ (svPC = "request" => totalBytes = 0 /\ svTotal = 0 /\ inFlight = 0 /\ connUp
                           /\ stPC \in {"request", "response"})
    /\ ((connUp /\ svPC # "request") \/ stPC \in Moving => svTotal + svRemaining = Size)
    /\ (stUp => totalBytes = svTotal + inFlight)
    /\ (~stUp => svTotal = totalBytes + inFlight)
    /\ (summary >= 0 => svPC = "closed" /\ svRemaining = 0 /\ summary = Size)
    /\ (stPC = "summary" => stUp /\ ~stTimed /\ remaining = 0)
    /\ (stPC = "ok" /\ ~stTimed => remaining = 0 /\ svTotal = dataSize)

ReportInv ==
    /\ calls \in [interval : Nat, done : Seq(Nat)] /\ counter \in Nat
    /\ calls.interval + counter = totalBytes
    /\ (stPC # "ok" => calls.done = << >>)
    /\ (stPC = "ok" => calls.done = <<IF stTimed THEN totalBytes ELSE dataSize>>)

LEMMA ChunkIs ==
    ASSUME NEW left \in Nat
    PROVE  Chunk(left) \in Nat /\ Chunk(left) <= left
  BY SpeedtestAssumption DEF Chunk

LEMMA SpeedInitInv == SpeedtestInit => MovedInv /\ ReportInv
  <1> SUFFICES ASSUME SpeedtestInit PROVE MovedInv /\ ReportInv
    OBVIOUS
  <1>1. dataSize \in Nat
    BY SpeedtestAssumption DEF SpeedtestInit
  <1>2. MovedInv
    BY <1>1 DEF SpeedtestInit, MovedInv, Moving
  <1>3. calls \in [interval : Nat, done : Seq(Nat)] /\ calls.interval = 0 /\ calls.done = << >>
    BY DEF SpeedtestInit
  <1>4. ReportInv
    BY <1>3 DEF SpeedtestInit, ReportInv
  <1> QED BY <1>2, <1>4

\* Steps of the server and of the connection.
LEMMA ServerMoves ==
    ASSUME MovedInv, ServerStarts \/ DownloadWrites \/ UploadReads \/ SpeedConnLost
    PROVE  MovedInv' /\ UNCHANGED <<stTimed, dataSize, stPC, totalBytes, counter, calls>>
  <1>0. UNCHANGED <<stUp, stTimed, dataSize, stPC, totalBytes, remaining, counter, calls>>
    BY Zenon DEF ServerStarts, DownloadWrites, UploadReads, SpeedConnLost, test, client
  <1>s. Size' = Size /\ Size \in Nat
    BY <1>0, SpeedtestAssumption DEF Size, MovedInv
  <1>1. CASE ServerStarts
    <2>1. /\ svPC = "request" /\ svPC' = "data" /\ svTotal' = svTotal /\ inFlight' = inFlight
          /\ summary' = summary /\ connUp' = connUp /\ svRemaining' = Size
      BY <1>1, Zenon DEF ServerStarts, Size
    <2> QED BY <1>0, <1>s, <2>1 DEF MovedInv, Moving
  <1>2. CASE DownloadWrites
    <2>1. CASE svRemaining > 0
      <3>1. PICK n \in Nat : n = Chunk(svRemaining) /\ n <= svRemaining
        BY ChunkIs DEF MovedInv
      <3>2. /\ svPC = "data" /\ ~stUp /\ svPC' = svPC /\ svTotal' = svTotal + n /\ inFlight' = inFlight + n
            /\ svRemaining' = svRemaining - n /\ summary' = summary /\ connUp' = connUp
        BY <1>2, <2>1, <3>1, Zenon DEF DownloadWrites
      <3>3. stPC = "ok" => stTimed
        BY <2>1 DEF MovedInv, Moving, Size
      <3> QED BY <1>0, <1>s, <3>1, <3>2, <3>3 DEF MovedInv, Moving
    <2>2. CASE ~(svRemaining > 0)
      <3>1. /\ svPC = "data" /\ svPC' = "closed" /\ svTotal' = svTotal /\ inFlight' = inFlight
            /\ svRemaining' = svRemaining /\ summary' = summary /\ connUp' = connUp /\ connUp
        BY <1>2, <2>2, Zenon DEF DownloadWrites
      <3> QED BY <1>0, <1>s, <3>1 DEF MovedInv, Moving
    <2> QED BY <2>1, <2>2, Zenon
  <1>3. CASE UploadReads
    <2>1. CASE ~Received
      <3>1. PICK n \in 1 .. Chunk(svRemaining) :
              /\ svPC = "data" /\ stUp /\ svPC' = svPC /\ svTotal' = svTotal + n /\ inFlight' = inFlight - n
              /\ n <= inFlight /\ svRemaining' = svRemaining - n /\ summary' = summary /\ connUp' = connUp
        BY <1>3, <2>1, Zenon DEF UploadReads
      <3>2. n \in Nat /\ n <= svRemaining
        BY ChunkIs DEF MovedInv
      <3> QED BY <1>0, <1>s, <3>1, <3>2 DEF MovedInv, Moving
    <2>2. CASE Received
      <3>1. /\ svPC = "data" /\ svPC' = "closed" /\ svTotal' = svTotal /\ inFlight' = inFlight
            /\ svRemaining' = svRemaining /\ summary' = Size /\ connUp' = connUp /\ connUp /\ svRemaining = 0
        BY <1>3, <2>2, Zenon DEF UploadReads, Size, Received
      <3> QED BY <1>0, <1>s, <3>1 DEF MovedInv, Moving
    <2> QED BY <2>1, <2>2, Zenon
  <1>4. CASE SpeedConnLost
    <2>1. /\ connUp' = FALSE /\ svPC' = "closed" /\ svTotal' = svTotal /\ inFlight' = inFlight
          /\ svRemaining' = svRemaining /\ summary' = summary
      BY <1>4, Zenon DEF SpeedConnLost
    <2> QED BY <1>0, <1>s, <2>1, Zenon DEF MovedInv, Moving
  <1> QED BY <1>0, <1>1, <1>2, <1>3, <1>4, Zenon

\* Bytes the client has read or written.
LEMMA Counts ==
    ASSUME MovedInv, ReportInv, DownloadReads \/ UploadWrites
    PROVE  MovedInv' /\ ReportInv'
  <1>0. /\ stPC = "data" /\ connUp /\ UNCHANGED <<stUp, stTimed, dataSize, stPC, calls, connUp>>
        /\ UNCHANGED <<svPC, svTotal, svRemaining, summary>>
    BY Zenon DEF DownloadReads, UploadWrites, test, server
  <1>s. Size' = Size /\ Size \in Nat
    BY <1>0, SpeedtestAssumption DEF Size, MovedInv
  <1>1. \E n \in Nat : /\ totalBytes' = totalBytes + n /\ counter' = counter + n
                       /\ (~stTimed => n <= remaining /\ remaining' = remaining - n)
                       /\ (stTimed => remaining' = remaining)
                       /\ (stUp => inFlight' = inFlight + n)
                       /\ (~stUp => n <= inFlight /\ inFlight' = inFlight - n)
    <2>0. ClientChunk \in Nat /\ (~stTimed => ClientChunk <= remaining)
      BY ChunkIs, SpeedtestAssumption DEF ClientChunk, MovedInv
    <2>1. CASE DownloadReads
      <3>1. PICK n \in 1 .. ClientChunk : n <= inFlight /\ Count(n) /\ inFlight' = inFlight - n /\ ~stUp
        BY <2>1, Zenon DEF DownloadReads
      <3>2. n \in Nat /\ (~stTimed => n <= remaining)
        BY <2>0 DEF MovedInv
      <3> QED BY <3>1, <3>2, Zenon DEF Count
    <2>2. CASE UploadWrites
      BY <2>0, <2>2, Zenon DEF UploadWrites, Count
    <2> QED BY <2>1, <2>2, Zenon
  <1>2. PICK n \in Nat : /\ totalBytes' = totalBytes + n /\ counter' = counter + n
                         /\ (~stTimed => n <= remaining /\ remaining' = remaining - n)
                         /\ (stTimed => remaining' = remaining)
                         /\ (stUp => inFlight' = inFlight + n)
                         /\ (~stUp => n <= inFlight /\ inFlight' = inFlight - n)
    BY <1>1
  <1>3. MovedInv'
    BY <1>0, <1>s, <1>2, SMTT(30) DEF MovedInv, Moving
  <1>4. ReportInv'
    BY <1>0, <1>2, SMTT(30) DEF ReportInv, MovedInv
  <1> QED BY <1>3, <1>4

\* The client's test is over.
LEMMA EndsInv ==
    ASSUME MovedInv, ReportInv, NEW ok \in BOOLEAN, NEW total, Ends(ok, total), stPC \in {"data", "summary"},
           ok => total = IF stTimed THEN totalBytes ELSE dataSize,
           ok /\ ~stTimed => remaining = 0 /\ svTotal = dataSize,
           UNCHANGED <<stUp, stTimed, dataSize, totalBytes, remaining, counter, inFlight, connUp>>,
           UNCHANGED <<svPC, svTotal, svRemaining, summary>>
    PROVE  MovedInv' /\ ReportInv'
  <1>s. Size' = Size /\ Size \in Nat
    BY SpeedtestAssumption DEF Size, MovedInv
  <1>1. stPC' = IF ok THEN "ok" ELSE "error"
    BY Zenon DEF Ends
  <1>2. MovedInv'
    BY <1>s, <1>1 DEF MovedInv, Moving
  <1>3. CASE ok
    <2>1. /\ calls' = [calls EXCEPT !.done = Append(@, total)] /\ total \in Nat
          /\ calls \in [interval : Nat, done : Seq(Nat)] /\ calls.done = << >>
      BY <1>3, Zenon DEF Ends, ReportInv, MovedInv
    <2>2. calls' \in [interval : Nat, done : Seq(Nat)] /\ calls'.interval = calls.interval /\ calls'.done = <<total>>
      <3>1. Append(<< >>, total) = <<total>> /\ <<total>> \in Seq(Nat)
        BY <2>1
      <3>2. calls' = [calls EXCEPT !.done = <<total>>]
        BY <2>1, <3>1, Zenon
      <3> QED BY <2>1, <3>1, <3>2, Zenon
    <2> QED BY <1>1, <1>2, <1>3, <2>2, Zenon DEF ReportInv
  <1>4. CASE ~ok
    BY <1>1, <1>2, <1>4, Zenon DEF Ends, ReportInv
  <1> QED BY <1>3, <1>4

LEMMA ReportFrame ==
    ASSUME ReportInv, UNCHANGED <<stTimed, dataSize, totalBytes, counter, calls>>,
           stPC' = stPC \/ (stPC # "ok" /\ stPC' # "ok")
    PROVE  ReportInv'
  BY Zenon DEF ReportInv

LEMMA SpeedStepInv == MovedInv /\ ReportInv /\ [SpeedtestNext]_stVars => MovedInv' /\ ReportInv'
  <1> SUFFICES ASSUME MovedInv, ReportInv, [SpeedtestNext]_stVars PROVE MovedInv' /\ ReportInv'
    OBVIOUS
  <1>1. CASE ServerStarts \/ DownloadWrites \/ UploadReads \/ SpeedConnLost
    BY <1>1, ServerMoves, ReportFrame, Zenon
  <1>2. CASE DownloadReads \/ UploadWrites
    BY <1>2, Counts, Zenon
  <1>3. CASE WriteSpeedRequest \/ ReadSpeedResponse
    <2>1. /\ UNCHANGED <<stUp, stTimed, dataSize, totalBytes, remaining, counter, inFlight, connUp, calls>>
          /\ UNCHANGED <<svPC, svTotal, svRemaining, summary>>
          /\ \/ stPC = "request" /\ (stPC' = "response" \/ (~connUp /\ stPC' = "error"))
             \/ stPC = "response" /\ ((connUp /\ svPC # "request" /\ stPC' = "data") \/ (~connUp /\ stPC' = "error"))
      BY <1>3, Zenon DEF WriteSpeedRequest, ReadSpeedResponse, test, server
    <2>2. Size' = Size /\ Size \in Nat
      BY <2>1, SpeedtestAssumption DEF Size, MovedInv
    <2>3. svPC = "request" => connUp
      BY DEF MovedInv
    <2>4. MovedInv'
      BY <2>1, <2>2, <2>3 DEF MovedInv, Moving
    <2> QED BY <2>1, <2>4, ReportFrame, Zenon
  <1>4. CASE DataFails
    <2>1. /\ Ends(FALSE, 0) /\ stPC = "data" /\ UNCHANGED <<svPC, svTotal, svRemaining, summary>>
          /\ UNCHANGED <<stUp, stTimed, dataSize, totalBytes, remaining, counter, inFlight, connUp>>
      BY <1>4, Zenon DEF DataFails, test, server
    <2> QED BY <2>1, EndsInv, Zenon
  <1>5. CASE Deadline
    <2>1. /\ Ends(TRUE, totalBytes) /\ stPC = "data" /\ stTimed /\ UNCHANGED <<svPC, svTotal, svRemaining, summary>>
          /\ UNCHANGED <<stUp, stTimed, dataSize, totalBytes, remaining, counter, inFlight, connUp>>
      BY <1>5, Zenon DEF Deadline, test, server
    <2> QED BY <2>1, EndsInv, Zenon
  <1>6. CASE AllDone
    <2>1. /\ stPC = "data" /\ ~stTimed /\ ~(remaining > 0) /\ UNCHANGED <<svPC, svTotal, svRemaining, summary>>
          /\ UNCHANGED <<stUp, stTimed, dataSize, totalBytes, remaining, counter, inFlight, connUp>>
      BY <1>6, Zenon DEF AllDone, More, test, server
    <2>2. remaining = 0 /\ totalBytes = dataSize
      BY <2>1 DEF MovedInv
    <2>3. CASE stUp
      <3>1. stPC' = "summary" /\ UNCHANGED calls
        BY <1>6, <2>3, Zenon DEF AllDone
      <3>2. Size' = Size /\ Size \in Nat
        BY <2>1, SpeedtestAssumption DEF Size, MovedInv
      <3>3. MovedInv'
        BY <2>1, <2>2, <2>3, <3>1, <3>2 DEF MovedInv, Moving
      <3> QED BY <2>1, <3>1, <3>3, ReportFrame, Zenon
    <2>4. CASE ~stUp
      <3>1. Ends(TRUE, totalBytes)
        BY <1>6, <2>4, Zenon DEF AllDone
      <3>2. svTotal = dataSize
        BY <2>1, <2>2, <2>4 DEF MovedInv, Moving, Size
      <3> QED BY <2>1, <2>2, <3>1, <3>2, EndsInv, Zenon
    <2> QED BY <2>3, <2>4
  <1>7. CASE ReadSummary
    <2>1. /\ stPC = "summary" /\ (~connUp \/ summary >= 0) /\ Ends(connUp, summary)
          /\ UNCHANGED <<svPC, svTotal, svRemaining, summary>>
          /\ UNCHANGED <<stUp, stTimed, dataSize, totalBytes, remaining, counter, inFlight, connUp>>
      BY <1>7, Zenon DEF ReadSummary, test, server
    <2>2. connUp \in BOOLEAN /\ ~stTimed /\ remaining = 0
      BY <2>1, Zenon DEF MovedInv
    <2>3. connUp => summary = dataSize /\ svTotal = dataSize
      <3>1. svTotal + svRemaining = Size /\ Size = dataSize /\ svTotal \in Nat
        BY <2>1, <2>2, Zenon DEF MovedInv, Moving, Size
      <3>2. summary >= 0 => svRemaining = 0 /\ summary = Size
        BY Zenon DEF MovedInv
      <3> QED BY <2>1, <3>1, <3>2
    <2> QED BY <2>1, <2>2, <2>3, EndsInv, Zenon
  <1>8. CASE SpeedTick
    <2>1. /\ calls' = [calls EXCEPT !.interval = @ + counter] /\ counter' = 0
          /\ UNCHANGED <<stUp, stTimed, dataSize, stPC, totalBytes, remaining, inFlight, connUp>>
          /\ UNCHANGED <<svPC, svTotal, svRemaining, summary>>
      BY <1>8, Zenon DEF SpeedTick, Taken, test, server
    <2>2. MovedInv'
      BY <2>1, Zenon DEF MovedInv, Size
    <2>3. calls \in [interval : Nat, done : Seq(Nat)] /\ counter \in Nat /\ calls.interval + counter = totalBytes
      BY Zenon DEF ReportInv
    <2>4. /\ calls' \in [interval : Nat, done : Seq(Nat)] /\ calls'.interval = calls.interval + counter
          /\ calls'.done = calls.done
      BY <2>1, <2>3
    <2>5. calls'.interval + counter' = totalBytes'
      BY <2>1, <2>3, <2>4
    <2>6. counter' \in Nat
      BY <2>1
    <2> QED BY <2>1, <2>2, <2>4, <2>5, <2>6, Zenon DEF ReportInv
  <1>9. CASE UNCHANGED stVars
    BY <1>9, Zenon DEF stVars, MovedInv, ReportInv, Size
  <1> QED BY <1>1, <1>2, <1>3, <1>4, <1>5, <1>6, <1>7, <1>8, <1>9, Zenon DEF SpeedtestNext

\* Whatever sizes are asked for, in whatever pieces the connection delivers and
\* wherever it breaks, a test that succeeds has moved the bytes it was asked for
\* on both sides, reports them once, and its intervals add up to the total.
THEOREM SpeedtestsAreExact == SpeedtestSpec => []TestsExact
  <1>1. MovedInv /\ ReportInv => TestsExact
    <2> SUFFICES ASSUME MovedInv, ReportInv PROVE TestsExact
      OBVIOUS
    <2>1. Len(calls.done) = IF stPC = "ok" THEN 1 ELSE 0
      BY Zenon DEF ReportInv
    <2>2. stPC = "ok" /\ ~stTimed => svTotal = dataSize /\ totalBytes = dataSize
      BY DEF MovedInv
    <2> QED BY <2>1, <2>2, Zenon DEF TestsExact, SizeExact, IntervalsExact, ReportInv
  <1> QED BY <1>1, SpeedInitInv, SpeedStepInv, PTL DEF SpeedtestSpec

-----------------------------------------------------------------------------
(***************************************************************************)
(* The direct outbound.  What is dialled is what the mode selects; in a    *)
(* race the channel holds a result for each dial that has ended, but for   *)
(* the first one once that was an error.                                   *)
(***************************************************************************)

Maybe == Families \union {Nothing}
DialStates == {"none", "dialing", "ended"}

\* 1 if the dial of family f has ended.
Ended(f) == IF dial[f] = "ended" THEN 1 ELSE 0

DirectTypes ==
    /\ dMode \in Modes /\ dAddr \subseteq Families
    /\ dial \in [Families -> DialStates] /\ ch \in Seq(Maybe) /\ dConn \in Maybe
    /\ open \subseteq Families /\ State \in Maybe
    /\ dPC \in {"idle", "dialing", "race", "second", "returned", "udp", "closed"}

DialInv ==
    /\ \A f \in Families : dial[f] # "none" => Selects(dMode, dAddr, f)
    /\ \A f \in open : dial[f] = "ended"
    /\ \A i \in 1 .. Len(ch) : ch[i] # Nothing => dial[ch[i]] = "ended"
    /\ dConn # Nothing => dial[dConn] = "ended"
    /\ dPC \in {"idle", "udp", "closed"} => dial = [f \in Families |-> "none"]
    /\ dPC \in {"idle", "dialing"} => ch = << >>
    /\ dPC # "returned" => drainer = "none"
    /\ dPC \in {"dialing", "race", "second"} => dConn = Nothing
    /\ dPC = "dialing" =>
         open = {} /\ \E f \in Families : \A g \in Families : dial[g] = IF g = f THEN "dialing" ELSE "none"
    /\ dPC \in {"race", "second"} =>
         /\ \A f \in open : \E i \in 1 .. Len(ch) : ch[i] = f
         /\ \A f \in Families : dial[f] # "none"
         /\ Ended(4) + Ended(6) = Len(ch) + (IF dPC = "second" THEN 1 ELSE 0)
    /\ dPC = "returned" /\ dConn = Nothing => open = {} /\ \A f \in Families : dial[f] # "dialing"

SocketInv ==
    /\ dPC \in {"idle", "dialing", "race", "second"} => socket = "none"
    /\ dPC = "idle" => State = Nothing
    /\ dPC \notin {"udp", "closed"} => wrote = {}
    /\ NoSocketLeft

\* What has been written, and to which family.
WroteInv ==
    \A w \in wrote :
      /\ (State = Nothing => (w[2] = Nothing <=> ~\E f \in w[1] : Selects(dMode, w[1], f)))
      /\ (State = Nothing /\ w[2] # Nothing => Selects(dMode, w[1], w[2]))
      /\ (State # Nothing => w[2] \in {State, Nothing})

DirectInv == DirectTypes /\ DialInv /\ SocketInv /\ WroteInv

\* The first family of a preference that there is an address of.
LEMMA PickIs ==
    ASSUME dMode \in Modes, NEW addr \in SUBSET Families
    PROVE  /\ Pick(addr) \in Maybe
           /\ Pick(addr) # Nothing => Selects(dMode, addr, Pick(addr)) /\ Pick(addr) \in Families
           /\ Pick(addr) = Nothing <=> ~\E f \in addr : Selects(dMode, addr, f)
  <1> DEFINE p == Preference(dMode)
             able == {i \in DOMAIN p : p[i] \in addr}
             first == CHOOSE i \in able : \A j \in able : i <= j
  <1>1. CASE dMode \in {"auto", "46"}
    <2>1. p = <<4, 6>> /\ DOMAIN p = {1, 2}
      BY <1>1 DEF Preference
    <2>2. p[1] = 4 /\ p[2] = 6
      BY <2>1
    <2>3. Pick(addr) = IF able = {} THEN Nothing ELSE p[first]
      BY DEF Pick
    <2> HIDE DEF p
    <2>4. able = {i \in {1, 2} : p[i] \in addr}
      BY <2>1
    <2>5. 4 \in addr => Pick(addr) = 4
      <3> SUFFICES ASSUME 4 \in addr PROVE first = 1 /\ able # {}
        BY <2>2, <2>3, Zenon
      <3>1. 1 \in able /\ able \subseteq {1, 2}
        BY <2>2, <2>4
      <3> HIDE DEF able
      <3>2. 1 \in able /\ \A j \in able : 1 <= j
        BY <3>1
      <3>3. first \in able /\ \A j \in able : first <= j
        BY <3>2, Zenon
      <3> HIDE DEF first
      <3> QED BY <3>1, <3>3
    <2>6. 4 \notin addr /\ 6 \in addr => Pick(addr) = 6
      <3> SUFFICES ASSUME 4 \notin addr, 6 \in addr PROVE first = 2 /\ able # {}
        BY <2>2, <2>3, Zenon
      <3>1. able = {2}
        BY <2>2, <2>4
      <3> HIDE DEF able
      <3> QED BY <3>1
    <2>7. 4 \notin addr /\ 6 \notin addr => Pick(addr) = Nothing
      BY <2>2, <2>3, <2>4
    <2> HIDE DEF first, able
    <2> QED BY <1>1, <2>5, <2>6, <2>7, DirectAssumption DEF Families, Selects, Maybe
  <1>2. CASE dMode = "64"
    <2>1. p = <<6, 4>> /\ DOMAIN p = {1, 2}
      BY <1>2 DEF Preference
    <2>2. p[1] = 6 /\ p[2] = 4
      BY <2>1
    <2>3. Pick(addr) = IF able = {} THEN Nothing ELSE p[first]
      BY DEF Pick
    <2> HIDE DEF p
    <2>4. able = {i \in {1, 2} : p[i] \in addr}
      BY <2>1
    <2>5. 6 \in addr => Pick(addr) = 6
      <3> SUFFICES ASSUME 6 \in addr PROVE first = 1 /\ able # {}
        BY <2>2, <2>3, Zenon
      <3>1. 1 \in able /\ able \subseteq {1, 2}
        BY <2>2, <2>4
      <3> HIDE DEF able
      <3>2. 1 \in able /\ \A j \in able : 1 <= j
        BY <3>1
      <3>3. first \in able /\ \A j \in able : first <= j
        BY <3>2, Zenon
      <3> HIDE DEF first
      <3> QED BY <3>1, <3>3
    <2>6. 6 \notin addr /\ 4 \in addr => Pick(addr) = 4
      <3> SUFFICES ASSUME 6 \notin addr, 4 \in addr PROVE first = 2 /\ able # {}
        BY <2>2, <2>3, Zenon
      <3>1. able = {2}
        BY <2>2, <2>4
      <3> HIDE DEF able
      <3> QED BY <3>1
    <2>7. 4 \notin addr /\ 6 \notin addr => Pick(addr) = Nothing
      BY <2>2, <2>3, <2>4
    <2> HIDE DEF first, able
    <2> QED BY <1>2, <2>5, <2>6, <2>7, DirectAssumption DEF Families, Selects, Maybe
  <1>3. ASSUME NEW f \in Families, \/ dMode = "6" /\ f = 6
                                   \/ dMode = "4" /\ f = 4
        PROVE  Pick(addr) = IF f \in addr THEN f ELSE Nothing
    <2>1. p = <<f>> /\ DOMAIN p = {1}
      BY <1>3 DEF Preference
    <2>2. p[1] = f
      BY <2>1
    <2>3. Pick(addr) = IF able = {} THEN Nothing ELSE p[first]
      BY DEF Pick
    <2> HIDE DEF p
    <2>4. able = {i \in {1} : p[i] \in addr}
      BY <2>1
    <2>5. CASE f \in addr
      <3>1. able = {1}
        BY <2>2, <2>4, <2>5
      <3>2. first = 1
        <4> HIDE DEF able
        <4> QED BY <3>1
      <3> QED BY <2>2, <2>3, <2>5, <3>1, <3>2
    <2>6. CASE f \notin addr
      BY <2>2, <2>3, <2>4, <2>6
    <2> QED BY <2>5, <2>6
  <1>4. CASE dMode \in {"6", "4"}
    <2> HIDE DEF first, able, p
    <2>1. (dMode = "6" => Pick(addr) = IF 6 \in addr THEN 6 ELSE Nothing) /\ (dMode = "4" => Pick(addr) = IF 4 \in addr THEN 4 ELSE Nothing)
      BY <1>3 DEF Families
    <2> QED BY <1>4, <2>1, DirectAssumption DEF Families, Selects, Maybe
  <1> QED BY <1>1, <1>2, <1>4, Zenon DEF Modes

LEMMA DirectInitInv == DirectInit => DirectInv
  <1> SUFFICES ASSUME DirectInit PROVE DirectInv
    OBVIOUS
  <1>1. /\ dMode \in Modes /\ dAddr \in SUBSET Families /\ dPC = "idle" /\ dial = [f \in Families |-> "none"]
        /\ ch = << >> /\ dConn = Nothing /\ open = {} /\ drainer = "none"
        /\ socket = "none" /\ State = Nothing /\ wrote = {}
    BY Zenon DEF DirectInit
  <1>2. DirectTypes
    BY <1>1 DEF DirectTypes, DialStates, Maybe
  <1>3. \A i \in 1 .. Len(ch) : FALSE
    BY <1>1
  <1>4. DialInv
    BY <1>1, <1>3, Zenon DEF DialInv
  <1> QED BY <1>1, <1>2, <1>4, Zenon DEF DirectInv, SocketInv, NoSocketLeft, WroteInv

\* Steps that leave TCP alone, and steps that leave UDP alone.
LEMMA DialFrame ==
    ASSUME DialInv, UNCHANGED <<dMode, dAddr, dPC, dial, ch, dConn, drainer, open>>
    PROVE  DialInv'
  BY Zenon DEF DialInv, Selects, Ended

LEMMA SocketFrame ==
    ASSUME SocketInv, WroteInv, UNCHANGED <<dMode, socket, State, wrote>>,
           dPC' = dPC \/ (dPC \in {"idle", "dialing", "race", "second"} /\ dPC' \in {"dialing", "race", "second", "returned"})
    PROVE  SocketInv' /\ WroteInv'
  <1>1. SocketInv'
    BY Zenon DEF SocketInv, NoSocketLeft
  <1> QED BY <1>1, Zenon DEF WroteInv, Selects

LEMMA TCPStarts ==
    ASSUME DirectInv, DirectTCP
    PROVE  DirectInv'
  <1>0. /\ dPC = "idle" /\ dMode \in Modes /\ dAddr \in SUBSET Families /\ dial = [f \in Families |-> "none"]
        /\ open \subseteq Families /\ \A f \in open : dial[f] = "ended"
        /\ dConn # Nothing => dial[dConn] = "ended"
        /\ dConn \in Maybe /\ ch = << >> /\ State \in Maybe /\ drainer = "none"
    BY Zenon DEF DirectInv, DirectTypes, DialInv, DirectTCP
  <1>1. open = {} /\ dConn = Nothing
    BY <1>0 DEF Maybe
  <1>2. UNCHANGED <<dMode, dAddr, ch, dConn, drainer, open, socket, State, wrote>>
    BY Zenon DEF DirectTCP, dCfg, udpState
  <1>3. PICK b \in {"race", "dialing", "returned"} : dPC' = b
    BY Zenon DEF DirectTCP
  <1>4. SocketInv' /\ WroteInv'
    BY <1>0, <1>2, <1>3, SocketFrame, Zenon DEF DirectInv
  <1>5. (\A i \in 1 .. Len(ch') : FALSE) /\ Len(ch') = 0 /\ ch' \in Seq(Maybe)
    BY <1>0, <1>2
  <1>6. CASE dMode = "auto" /\ dAddr = Families
    <2>1. dial' = [f \in Families |-> "dialing"] /\ dPC' = "race"
      BY <1>6, Zenon DEF DirectTCP
    <2>2. dial' \in [Families -> DialStates] /\ \A f \in Families : dial'[f] = "dialing"
      BY <2>1 DEF DialStates
    <2>3. Ended(4)' + Ended(6)' = 0
      BY <2>2 DEF Ended, Families
    <2>4. DirectTypes'
      BY <1>0, <1>2, <1>5, <2>1, <2>2, Zenon DEF DirectTypes
    <2>5. \A f \in Families : Selects(dMode', dAddr', f)
      BY <1>2, <1>6 DEF Selects
    <2>6. Ended(4)' + Ended(6)' = Len(ch') + (IF dPC' = "second" THEN 1 ELSE 0)
      BY <1>5, <2>1, <2>3
    <2>7. DialInv'
      BY <1>0, <1>1, <1>2, <1>5, <2>1, <2>2, <2>5, <2>6, Zenon DEF DialInv
    <2> QED BY <1>4, <2>4, <2>7, Zenon DEF DirectInv
  <1>7. CASE ~(dMode = "auto" /\ dAddr = Families) /\ Pick(dAddr) # Nothing
    <2>1. PICK f \in Families : f = Pick(dAddr) /\ Selects(dMode, dAddr, f)
      BY <1>0, <1>7, PickIs, Zenon
    <2>2. dial' = [dial EXCEPT ![f] = "dialing"] /\ dPC' = "dialing"
      BY <1>7, <2>1, Zenon DEF DirectTCP
    <2>3. dial' \in [Families -> DialStates] /\ \A g \in Families : dial'[g] = IF g = f THEN "dialing" ELSE "none"
      BY <1>0, <2>2 DEF DialStates
    <2>4. DirectTypes'
      BY <1>0, <1>2, <1>5, <2>2, <2>3, Zenon DEF DirectTypes
    <2>5. \A g \in Families : dial'[g] # "none" => Selects(dMode', dAddr', g)
      BY <1>2, <2>1, <2>3 DEF Selects
    <2>6. DialInv'
      BY <1>0, <1>1, <1>2, <1>5, <2>2, <2>3, <2>5, Zenon DEF DialInv
    <2> QED BY <1>4, <2>4, <2>6, Zenon DEF DirectInv
  <1>8. CASE ~(dMode = "auto" /\ dAddr = Families) /\ Pick(dAddr) = Nothing
    <2>1. dial' = dial /\ dPC' = "returned"
      BY <1>8, Zenon DEF DirectTCP
    <2>2. dial \in [Families -> DialStates] /\ \A g \in Families : dial[g] = "none"
      BY <1>0 DEF DialStates
    <2>4. DirectTypes'
      BY <1>0, <1>2, <1>5, <2>1, <2>2, Zenon DEF DirectTypes
    <2>6. DialInv'
      BY <1>0, <1>1, <1>2, <1>5, <2>1, <2>2, Zenon DEF DialInv
    <2> QED BY <1>4, <2>4, <2>6, Zenon DEF DirectInv
  <1> QED BY <1>6, <1>7, <1>8, Zenon

LEMMA DialEnded ==
    ASSUME DirectInv, NEW f \in Families, NEW ok \in BOOLEAN, DialEnds(f, ok)
    PROVE  DirectInv'
  <1>0. DirectTypes /\ DialInv /\ dial[f] = "dialing"
    BY Zenon DEF DirectInv, DialEnds
  <1>1. UNCHANGED <<dMode, dAddr, drainer, socket, State, wrote>>
    BY Zenon DEF DialEnds, dCfg, udpState
  <1>2. dPC \in {"dialing", "race", "second", "returned"}
    <2>1. dPC \notin {"idle", "udp", "closed"}
      BY <1>0 DEF DialInv
    <2> QED BY <1>0, <2>1, Zenon DEF DirectTypes
  <1>3. dPC' = dPC \/ (dPC = "dialing" /\ dPC' = "returned")
    BY Zenon DEF DialEnds
  <1>4. SocketInv' /\ WroteInv'
    BY <1>1, <1>3, SocketFrame, Zenon DEF DirectInv
  <1>5. /\ dial' \in [Families -> DialStates] /\ dial'[f] = "ended"
        /\ \A g \in Families : g # f => dial'[g] = dial[g]
    BY <1>0 DEF DialEnds, DirectTypes, DialStates
  <1>6. open' \subseteq Families /\ (\A g \in open' : dial'[g] = "ended") /\ (~ok => open' = open)
        /\ (open' = open \/ open' = open \union {f})
    BY <1>0, <1>5, Zenon DEF DialEnds, DirectTypes, DialInv
  <1>7. \A g \in Families : dial'[g] # "none" => Selects(dMode', dAddr', g)
    <2>1. \A g \in Families : dial'[g] # "none" => Selects(dMode, dAddr, g)
      BY <1>0, <1>5, Zenon DEF DialInv
    <2> QED BY <1>1, <2>1, Zenon
  <1>8. \A g \in Maybe : g # Nothing /\ dial[g] = "ended" => dial'[g] = "ended"
    BY <1>0, <1>5, Zenon DEF Maybe
  <1>9. CASE dPC = "dialing"
    <2>1. dConn' = (IF ok THEN f ELSE Nothing) /\ dPC' = "returned" /\ ch' = ch /\ open = {} /\ ch = << >>
      BY <1>0, <1>9, Zenon DEF DialEnds, DialInv
    <2>2. PICK h \in Families : \A g \in Families : dial[g] = IF g = h THEN "dialing" ELSE "none"
      BY <1>0, <1>9, Zenon DEF DialInv
    <2>3. \A g \in Families : dial'[g] # "dialing"
      BY <1>0, <1>5, <2>2
    <2>4. ch' \in Seq(Maybe) /\ \A i \in 1 .. Len(ch') : FALSE
      BY <2>1
    <2>5. dConn' \in Maybe
      BY <2>1, Zenon DEF Maybe
    <2>6. DirectTypes'
      BY <1>0, <1>1, <1>5, <1>6, <2>1, <2>4, <2>5, Zenon DEF DirectTypes
    <2>7. DialInv'
      BY <1>5, <1>6, <1>7, <2>1, <2>3, <2>4, DirectAssumption, Zenon DEF DialInv
    <2> QED BY <1>4, <2>6, <2>7, Zenon DEF DirectInv
  <1>10. CASE dPC # "dialing"
    <2> DEFINE r == IF ok THEN f ELSE Nothing
    <2>1. ch' = Append(ch, r) /\ dConn' = dConn /\ dPC' = dPC /\ r \in Maybe /\ ch \in Seq(Maybe)
      BY <1>0, <1>10, Zenon DEF DialEnds, Maybe, DirectTypes
    <2>0. r = Nothing \/ r = f
      BY Zenon
    <2>00. ok => r = f
      BY Zenon
    <2> HIDE DEF r
    <2>2. /\ ch' \in Seq(Maybe) /\ Len(ch') = Len(ch) + 1 /\ Len(ch) \in Nat
          /\ ch'[Len(ch) + 1] = r /\ \A i \in 1 .. Len(ch) : ch'[i] = ch[i]
      BY <2>1
    <2>3. \A i \in 1 .. Len(ch) : ch[i] \in Maybe
      BY <2>1
    <2>4. \A i \in 1 .. Len(ch') : ch'[i] # Nothing => dial'[ch'[i]] = "ended"
      <3> SUFFICES ASSUME NEW i \in 1 .. Len(ch'), ch'[i] # Nothing PROVE dial'[ch'[i]] = "ended"
        BY Zenon
      <3>1. CASE i = Len(ch) + 1
        BY <3>1, <1>5, <2>0, <2>2
      <3>2. CASE i # Len(ch) + 1
        <4>1. i \in 1 .. Len(ch)
          BY <2>2, <3>2
        <4>2. ch'[i] = ch[i] /\ ch[i] \in Maybe
          BY <4>1, <2>2, <2>3, Zenon
        <4>3. ch[i] # Nothing => dial[ch[i]] = "ended"
          BY <4>1, <1>0, Zenon DEF DialInv
        <4> QED BY <4>2, <4>3, <1>8, Zenon
      <3> QED BY <3>1, <3>2
    <2>5. DirectTypes'
      BY <1>0, <1>1, <1>5, <1>6, <2>1, <2>2, Zenon DEF DirectTypes
    <2>6. dConn' # Nothing => dial'[dConn'] = "ended"
      BY <1>0, <1>8, <2>1, Zenon DEF DialInv, DirectTypes
    <2>7. dPC \in {"race", "second"} =>
             /\ \A g \in open' : \E i \in 1 .. Len(ch') : ch'[i] = g
             /\ \A g \in Families : dial'[g] # "none"
             /\ Ended(4)' + Ended(6)' = Len(ch') + (IF dPC = "second" THEN 1 ELSE 0)
      <3> SUFFICES ASSUME dPC \in {"race", "second"}
                   PROVE  /\ \A g \in open' : \E i \in 1 .. Len(ch') : ch'[i] = g
                          /\ \A g \in Families : dial'[g] # "none"
                          /\ Ended(4)' + Ended(6)' = Len(ch') + (IF dPC = "second" THEN 1 ELSE 0)
        OBVIOUS
      <3>1. /\ \A g \in open : \E i \in 1 .. Len(ch) : ch[i] = g
            /\ \A g \in Families : dial[g] # "none"
            /\ Ended(4) + Ended(6) = Len(ch) + (IF dPC = "second" THEN 1 ELSE 0)
        BY <1>0, Zenon DEF DialInv
      <3>2. \A g \in open : \E i \in 1 .. Len(ch') : ch'[i] = g
        <4> SUFFICES ASSUME NEW g \in open PROVE \E i \in 1 .. Len(ch') : ch'[i] = g
          OBVIOUS
        <4>1. PICK i \in 1 .. Len(ch) : ch[i] = g
          BY <3>1, Zenon
        <4>2. i \in 1 .. Len(ch')
          BY <4>1, <2>2
        <4> QED BY <4>1, <4>2, <2>2, Zenon
      <3>3. r = f => \E i \in 1 .. Len(ch') : ch'[i] = f
        BY <2>2
      <3>4. ok \/ open' = open
        BY <1>6
      <3>5. \A g \in open' : g \in open \/ (ok /\ g = f)
        BY <1>6, Zenon
      <3>6. \A g \in open' : \E i \in 1 .. Len(ch') : ch'[i] = g
        BY <2>00, <3>2, <3>3, <3>5, Zenon
      <3>7. \A g \in Families : dial'[g] # "none"
        BY <1>5, <3>1, Zenon
      <3>8. Ended(4)' + Ended(6)' = Ended(4) + Ended(6) + 1
        BY <1>0, <1>5 DEF Ended, Families
      <3>9. Ended(4) \in Nat /\ Ended(6) \in Nat
        BY DEF Ended
      <3>10. Ended(4)' + Ended(6)' = Len(ch') + (IF dPC = "second" THEN 1 ELSE 0)
        <4> DEFINE k == IF dPC = "second" THEN 1 ELSE 0
        <4>1. Ended(4) + Ended(6) = Len(ch) + k /\ k \in Nat
          BY <3>1
        <4> HIDE DEF k
        <4>2. Ended(4)' + Ended(6)' = Len(ch') + k
          BY <2>2, <3>8, <3>9, <4>1
        <4> QED BY <4>2 DEF k
      <3> QED BY <3>6, <3>7, <3>10, Zenon
    <2>8. dPC # "idle" /\ dPC # "dialing" /\ dPC \notin {"idle", "udp", "closed"}
      BY <1>2, <1>10
    <2>9. dPC \in {"race", "second"} => dConn = Nothing
      BY <1>0, Zenon DEF DialInv
    <2>10. dPC = "returned" => dConn # Nothing
      BY <1>0, Zenon DEF DialInv
    <2>11. dPC # "returned" => drainer' = "none"
      BY <1>0, <1>1, Zenon DEF DialInv
    <2>12. DialInv'
      BY <1>6, <1>7, <2>1, <2>4, <2>6, <2>7, <2>8, <2>9, <2>10, <2>11, Zenon DEF DialInv
    <2> QED BY <1>4, <2>5, <2>12, Zenon DEF DirectInv
  <1> QED BY <1>9, <1>10, Zenon

\* What taking the first of the results leaves in the channel.
LEMMA ResultTaken ==
    ASSUME ch \in Seq(Maybe), ch # << >>, ch' = Tail(ch)
    PROVE  /\ ch' \in Seq(Maybe) /\ Len(ch) \in Nat /\ Len(ch) >= 1 /\ Len(ch') = Len(ch) - 1
           /\ Head(ch) = ch[1] /\ Head(ch) \in Maybe
           /\ \A i \in 1 .. Len(ch') : i + 1 \in 1 .. Len(ch) /\ ch'[i] = ch[i + 1]
           /\ \A i \in 1 .. Len(ch) : i = 1 \/ (i - 1 \in 1 .. Len(ch') /\ ch'[i - 1] = ch[i])
  OBVIOUS

LEMMA FirstTaken ==
    ASSUME DirectInv, FirstResult
    PROVE  DirectInv'
  <1>0. DirectTypes /\ DialInv /\ dPC = "race" /\ ch \in Seq(Maybe) /\ ch # << >> /\ ch' = Tail(ch)
    BY Zenon DEF DirectInv, DirectTypes, FirstResult
  <1>1. UNCHANGED <<dMode, dAddr, dial, open, socket, State, wrote>>
    BY Zenon DEF FirstResult, dCfg, udpState
  <1>2. dPC' \in {"second", "returned"}
    BY Zenon DEF FirstResult, OnError
  <1>3. SocketInv' /\ WroteInv'
    BY <1>0, <1>1, <1>2, SocketFrame, Zenon DEF DirectInv
  <1>4. /\ ch' \in Seq(Maybe) /\ Len(ch) \in Nat /\ Len(ch) >= 1 /\ Len(ch') = Len(ch) - 1
        /\ Head(ch) = ch[1] /\ Head(ch) \in Maybe
        /\ \A i \in 1 .. Len(ch') : i + 1 \in 1 .. Len(ch) /\ ch'[i] = ch[i + 1]
        /\ \A i \in 1 .. Len(ch) : i = 1 \/ (i - 1 \in 1 .. Len(ch') /\ ch'[i - 1] = ch[i])
    BY <1>0, ResultTaken, Zenon
  <1>5. \A i \in 1 .. Len(ch') : ch'[i] # Nothing => dial'[ch'[i]] = "ended"
    <2>1. \A i \in 1 .. Len(ch) : ch[i] # Nothing => dial[ch[i]] = "ended"
      BY <1>0, Zenon DEF DialInv
    <2>2. \A i \in 1 .. Len(ch') : i + 1 \in 1 .. Len(ch) /\ ch'[i] = ch[i + 1]
      BY <1>4, Zenon
    <2>3. dial' = dial
      BY <1>1, Zenon
    <2> QED BY <2>1, <2>2, <2>3
  <1>6. (\A g \in open' : dial'[g] = "ended") /\ \A g \in Families : dial'[g] # "none" => Selects(dMode', dAddr', g)
    BY <1>0, <1>1, Zenon DEF DialInv
  <1>7. CASE Head(ch) # Nothing
    <2>1. dConn' = Head(ch) /\ dPC' = "returned" /\ drainer' = "waiting"
      BY <1>7, Zenon DEF FirstResult
    <2>2. 1 \in 1 .. Len(ch)
      BY <1>4
    <2>3. dial'[dConn'] = "ended"
      BY <1>0, <1>1, <1>4, <1>7, <2>1, <2>2, ZenonT(30) DEF DialInv
    <2>4. DirectTypes'
      BY <1>0, <1>1, <1>4, <2>1, Zenon DEF DirectTypes
    <2>5. DialInv'
      BY <1>5, <1>6, <1>7, <2>1, <2>3, Zenon DEF DialInv
    <2> QED BY <1>3, <2>4, <2>5, Zenon DEF DirectInv
  <1>8. CASE Head(ch) = Nothing
    <2>1. dConn' = dConn /\ dPC' = "second" /\ drainer' = drainer /\ dConn = Nothing /\ drainer = "none"
      BY <1>0, <1>8, Zenon DEF FirstResult, OnError, DialInv
    <2>2. DirectTypes'
      BY <1>0, <1>1, <1>4, <2>1, Zenon DEF DirectTypes
    <2>3. /\ \A g \in open : \E i \in 1 .. Len(ch) : ch[i] = g
          /\ \A g \in Families : dial[g] # "none"
          /\ Ended(4) + Ended(6) = Len(ch) + (IF dPC = "second" THEN 1 ELSE 0)
      BY <1>0, Zenon DEF DialInv
    <2>4. \A g \in open' : \E i \in 1 .. Len(ch') : ch'[i] = g
      <3> SUFFICES ASSUME NEW g \in open PROVE \E i \in 1 .. Len(ch') : ch'[i] = g
        BY <1>1
      <3>1. g # Nothing
        BY <1>0, DirectAssumption, Zenon DEF DirectTypes
      <3>2. PICK i \in 1 .. Len(ch) : ch[i] = g
        BY <2>3, Zenon
      <3> QED BY <1>4, <1>8, <3>1, <3>2, Zenon
    <2>5. Ended(4)' + Ended(6)' = Len(ch') + (IF dPC' = "second" THEN 1 ELSE 0)
      <3>1. Ended(4)' = Ended(4) /\ Ended(6)' = Ended(6)
        BY <1>1, Zenon DEF Ended
      <3> QED BY <1>0, <1>4, <2>1, <2>3, <3>1
    <2>6. \A g \in Families : dial'[g] # "none"
      BY <1>1, <2>3, Zenon
    <2>7. DialInv'
      BY <1>5, <1>6, <2>1, <2>4, <2>5, <2>6, Zenon DEF DialInv
    <2> QED BY <1>3, <2>2, <2>7, Zenon DEF DirectInv
  <1> QED BY <1>7, <1>8, Zenon

LEMMA SecondTaken ==
    ASSUME DirectInv, SecondResult
    PROVE  DirectInv'
  <1>0. DirectTypes /\ DialInv /\ dPC = "second" /\ ch \in Seq(Maybe) /\ ch # << >> /\ ch' = Tail(ch)
    BY Zenon DEF DirectInv, DirectTypes, SecondResult
  <1>1. UNCHANGED <<dMode, dAddr, dial, open, drainer, socket, State, wrote>>
    BY Zenon DEF SecondResult, dCfg, udpState
  <1>2. dPC' = "returned" /\ dConn' = Head(ch)
    BY Zenon DEF SecondResult
  <1>3. SocketInv' /\ WroteInv'
    BY <1>0, <1>1, <1>2, SocketFrame, Zenon DEF DirectInv
  <1>4. /\ ch' \in Seq(Maybe) /\ Len(ch) \in Nat /\ Len(ch) >= 1 /\ Len(ch') = Len(ch) - 1
        /\ Head(ch) = ch[1] /\ Head(ch) \in Maybe
        /\ \A i \in 1 .. Len(ch') : i + 1 \in 1 .. Len(ch) /\ ch'[i] = ch[i + 1]
    BY <1>0, ResultTaken, Zenon
  <1>5. /\ \A g \in open : \E i \in 1 .. Len(ch) : ch[i] = g
        /\ Ended(4) + Ended(6) = Len(ch) + 1
    <2>1. /\ \A g \in open : \E i \in 1 .. Len(ch) : ch[i] = g
          /\ Ended(4) + Ended(6) = Len(ch) + (IF dPC = "second" THEN 1 ELSE 0)
      BY <1>0, Zenon DEF DialInv
    <2> QED BY <1>0, <2>1
  <1>6. dial[4] = "ended" /\ dial[6] = "ended" /\ Len(ch) = 1
    <2>1. (dial[4] = "ended" /\ Ended(4) = 1) \/ Ended(4) = 0
      BY Zenon DEF Ended
    <2>2. (dial[6] = "ended" /\ Ended(6) = 1) \/ Ended(6) = 0
      BY Zenon DEF Ended
    <2> QED BY <1>4, <1>5, <2>1, <2>2
  <1>7. \A i \in 1 .. Len(ch') : FALSE
    BY <1>4, <1>6, SMTT(30)
  <1>8. \A g \in open : ch[1] = g
    BY <1>5, <1>6
  <1>9. Head(ch) = Nothing => open = {}
    BY <1>0, <1>4, <1>8, DirectAssumption, Zenon DEF DirectTypes
  <1>10. \A g \in Families : dial'[g] = "ended"
    BY <1>1, <1>6 DEF Families
  <1>11. DirectTypes'
    BY <1>0, <1>1, <1>2, <1>4, Zenon DEF DirectTypes
  <1>12. Head(ch) # Nothing => dial'[dConn'] = "ended"
    BY <1>2, <1>4, <1>10, Zenon DEF Maybe
  <1>13. \A g \in Families : dial'[g] # "none" => Selects(dMode', dAddr', g)
    BY <1>0, <1>1, Zenon DEF DialInv
  <1>14. (\A g \in open' : dial'[g] = "ended") /\ (\A g \in Families : dial'[g] # "dialing")
    BY <1>0, <1>1, <1>10, Zenon DEF DirectTypes
  <1>15. DialInv'
    BY <1>1, <1>2, <1>7, <1>9, <1>12, <1>13, <1>14, Zenon DEF DialInv
  <1> QED BY <1>3, <1>11, <1>15, Zenon DEF DirectInv

LEMMA Drained ==
    ASSUME DirectInv, Drain
    PROVE  DirectInv'
  <1>0. DirectTypes /\ DialInv /\ drainer = "waiting" /\ ch \in Seq(Maybe) /\ ch # << >> /\ ch' = Tail(ch)
    BY Zenon DEF DirectInv, DirectTypes, Drain
  <1>1. UNCHANGED <<dMode, dAddr, dPC, dial, dConn, socket, State, wrote>> /\ open' \subseteq open
    BY Zenon DEF Drain, dCfg, udpState
  <1>2. dPC = "returned"
    BY <1>0 DEF DialInv
  <1>3. SocketInv' /\ WroteInv'
    BY <1>0, <1>1, SocketFrame, Zenon DEF DirectInv
  <1>4. /\ ch' \in Seq(Maybe)
        /\ \A i \in 1 .. Len(ch') : i + 1 \in 1 .. Len(ch) /\ ch'[i] = ch[i + 1]
    BY <1>0, ResultTaken, Zenon
  <1>5. \A i \in 1 .. Len(ch') : ch'[i] # Nothing => dial'[ch'[i]] = "ended"
    <2>1. \A i \in 1 .. Len(ch) : ch[i] # Nothing => dial[ch[i]] = "ended"
      BY <1>0, Zenon DEF DialInv
    <2>2. \A i \in 1 .. Len(ch') : i + 1 \in 1 .. Len(ch) /\ ch'[i] = ch[i + 1]
      BY <1>4, Zenon
    <2>3. dial' = dial
      BY <1>1, Zenon
    <2> QED BY <2>1, <2>2, <2>3
  <1>6. DirectTypes'
    BY <1>0, <1>1, <1>4, Zenon DEF DirectTypes
  <1>7. DialInv'
    BY <1>0, <1>1, <1>2, <1>5, Zenon DEF DialInv
  <1> QED BY <1>3, <1>6, <1>7, Zenon DEF DirectInv

LEMMA UDPOpens ==
    ASSUME DirectInv, NEW l \in BOOLEAN, NEW b \in BOOLEAN, DirectUDP(l, b)
    PROVE  DirectInv'
  <1>0. DirectTypes /\ DialInv /\ SocketInv /\ dPC = "idle" /\ State = Nothing /\ wrote = {} /\ ch = << >>
    BY Zenon DEF DirectInv, DirectUDP, SocketInv, DialInv
  <1>1. UNCHANGED <<dMode, dAddr, dial, ch, dConn, drainer, open, wrote>>
    BY Zenon DEF DirectUDP, dCfg, tcpState
  <1>2. Pick(dAddr) \in Maybe
    BY <1>0, PickIs, Zenon DEF DirectTypes
  <1>3. State' \in Maybe
    BY <1>0, <1>2, Zenon DEF DirectUDP, Maybe
  <1>4. dPC' = "udp" \/ (dPC' = "returned" /\ socket' # "open")
    BY Zenon DEF DirectUDP, BindFailed
  <1>5. DirectTypes'
    BY <1>0, <1>1, <1>3, <1>4, Zenon DEF DirectTypes
  <1>6. \A g \in Families : dial[g] = "none"
    BY <1>0 DEF DialInv
  <1>7. open = {} /\ dConn = Nothing
    BY <1>0, <1>6, Zenon DEF DirectTypes, DialInv, Maybe
  <1>8. \A i \in 1 .. Len(ch) : FALSE
    BY <1>0
  <1>9. dial = [f \in Families |-> "none"] /\ drainer = "none"
    BY <1>0, Zenon DEF DialInv
  <1>10. DialInv'
    BY <1>1, <1>4, <1>6, <1>7, <1>8, <1>9, Zenon DEF DialInv
  <1> QED BY <1>0, <1>1, <1>4, <1>5, <1>10, Zenon DEF DirectInv, SocketInv, NoSocketLeft, WroteInv

LEMMA WrittenTo ==
    ASSUME DirectInv, NEW addr \in SUBSET Families, DirectWriteTo(addr)
    PROVE  DirectInv'
  <1>0. DirectTypes /\ DialInv /\ SocketInv /\ WroteInv /\ dPC = "udp"
    BY Zenon DEF DirectInv, DirectWriteTo
  <1>1. /\ UNCHANGED <<dMode, dAddr, dPC, dial, ch, dConn, drainer, open, socket, State>>
        /\ wrote' = wrote \cup {<<addr, WriteFamily(addr)>>}
    BY Zenon DEF DirectWriteTo, dCfg, tcpState
  <1>2. DirectTypes' /\ DialInv'
    BY <1>0, <1>1, DialFrame, Zenon DEF DirectTypes
  <1>3. SocketInv'
    BY <1>0, <1>1, Zenon DEF SocketInv, NoSocketLeft
  <1>4. /\ (State = Nothing => (WriteFamily(addr) = Nothing <=> ~\E f \in addr : Selects(dMode, addr, f)))
        /\ (State = Nothing /\ WriteFamily(addr) # Nothing => Selects(dMode, addr, WriteFamily(addr)))
        /\ (State # Nothing => WriteFamily(addr) \in {State, Nothing})
    BY <1>0, PickIs, Zenon DEF DirectTypes, WriteFamily
  <1> DEFINE v == <<addr, WriteFamily(addr)>>
  <1>5. v[1] = addr /\ v[2] = WriteFamily(addr)
    OBVIOUS
  <1> HIDE DEF v
  <1>6. \A w \in wrote' : w \in wrote \/ w = v
    BY <1>1, Zenon DEF v
  <1>7. \A w \in wrote' :
          /\ (State = Nothing => (w[2] = Nothing <=> ~\E f \in w[1] : Selects(dMode, w[1], f)))
          /\ (State = Nothing /\ w[2] # Nothing => Selects(dMode, w[1], w[2]))
          /\ (State # Nothing => w[2] \in {State, Nothing})
    <2> SUFFICES ASSUME NEW w \in wrote'
                 PROVE  /\ (State = Nothing => (w[2] = Nothing <=> ~\E f \in w[1] : Selects(dMode, w[1], f)))
                        /\ (State = Nothing /\ w[2] # Nothing => Selects(dMode, w[1], w[2]))
                        /\ (State # Nothing => w[2] \in {State, Nothing})
      OBVIOUS
    <2>1. CASE w \in wrote
      BY <1>0, <2>1, Zenon DEF WroteInv
    <2>2. CASE w = v
      BY <1>4, <1>5, <2>2, Zenon
    <2> QED BY <1>6, <2>1, <2>2, Zenon
  <1>8. WroteInv'
    BY <1>1, <1>7, Zenon DEF WroteInv
  <1> QED BY <1>2, <1>3, <1>8, Zenon DEF DirectInv

LEMMA UDPCloses ==
    ASSUME DirectInv, DirectClose
    PROVE  DirectInv'
  <1>0. DirectTypes /\ DialInv /\ SocketInv /\ WroteInv /\ dPC = "udp"
    BY Zenon DEF DirectInv, DirectClose
  <1>1. /\ UNCHANGED <<dMode, dAddr, dial, ch, dConn, drainer, open, State, wrote>>
        /\ dPC' = "closed" /\ socket' = "closed"
    BY Zenon DEF DirectClose, dCfg, tcpState
  <1>2. DirectTypes'
    BY <1>0, <1>1, Zenon DEF DirectTypes
  <1>3. DialInv'
    BY <1>0, <1>1, Zenon DEF DialInv
  <1>4. WroteInv'
    BY <1>0, <1>1, Zenon DEF WroteInv
  <1> QED BY <1>1, <1>2, <1>3, <1>4, Zenon DEF DirectInv, SocketInv, NoSocketLeft

LEMMA DirectStep == DirectInv /\ [DirectNext]_doVars => DirectInv'
  <1> SUFFICES ASSUME DirectInv, [DirectNext]_doVars PROVE DirectInv'
    OBVIOUS
  <1>1. CASE UNCHANGED doVars
    <2>1. UNCHANGED <<dMode, dAddr, dPC, dial, ch, dConn, drainer, open, socket, State, wrote>>
      BY <1>1, Zenon DEF doVars
    <2>2. DirectTypes' /\ DialInv'
      BY <2>1, DialFrame, Zenon DEF DirectInv, DirectTypes
    <2>3. SocketInv' /\ WroteInv'
      BY <2>1, SocketFrame, Zenon DEF DirectInv
    <2> QED BY <2>2, <2>3, Zenon DEF DirectInv
  <1>2. CASE \E f \in Families, ok \in BOOLEAN : DialEnds(f, ok)
    BY <1>2, DialEnded, Zenon
  <1>3. CASE \E l \in BOOLEAN, b \in BOOLEAN : DirectUDP(l, b)
    BY <1>3, UDPOpens, Zenon
  <1>4. CASE \E addr \in SUBSET Families : DirectWriteTo(addr)
    BY <1>4, WrittenTo, Zenon
  <1>5. CASE DirectTCP \/ FirstResult \/ SecondResult \/ Drain \/ DirectClose
    BY <1>5, TCPStarts, FirstTaken, SecondTaken, Drained, UDPCloses, Zenon
  <1> QED BY <1>1, <1>2, <1>3, <1>4, <1>5, Zenon DEF DirectNext

LEMMA DirectInvSuffices == DirectInv => ModeRespected /\ RaceWon /\ NoSocketLeft
  <1> SUFFICES ASSUME DirectInv PROVE ModeRespected /\ RaceWon /\ NoSocketLeft
    OBVIOUS
  <1>1. DirectTypes /\ DialInv /\ SocketInv /\ WroteInv
    BY Zenon DEF DirectInv
  <1>2. dConn # Nothing => Selects(dMode, dAddr, dConn)
    <2> SUFFICES ASSUME dConn # Nothing PROVE Selects(dMode, dAddr, dConn)
      OBVIOUS
    <2>1. dConn \in Families /\ dial[dConn] = "ended"
      BY <1>1, Zenon DEF DirectTypes, DialInv, Maybe
    <2> QED BY <1>1, <2>1 DEF DialInv
  <1>3. ModeRespected
    BY <1>1, <1>2, Zenon DEF ModeRespected, WroteInv
  <1> QED BY <1>1, <1>3, Zenon DEF DialInv, SocketInv, RaceWon

-----------------------------------------------------------------------------
(***************************************************************************)
(* Fast open, for any number of goroutines that read and write.            *)
(***************************************************************************)

\* connLock is held for writing by the one Write that dials, and while it does
\* nothing has happened to the connection that could not be undone.
FoInv ==
    /\ foConn \in {"nil", "open", "closed"} /\ readyChan \in {"open", "closed"}
    /\ dials \in {0, 1} /\ closedRet \in BOOLEAN
    /\ foPC \in [FOProcs -> {"idle", "wait", "read", "lock", "dial", "done"}]
    /\ \A p \in FOProcs : foPC[p] = "dial" => foLock = p /\ p \in FOWriters
    /\ foLock # Free => foLock \in FOWriters /\ readyChan = "open"
    /\ readyChan = "open" => foConn = "nil" /\ dials = 0 /\ ~closedRet
    /\ closedRet => foConn # "open"

\* Nothing is dialled before the first Write.
LEMMA FoInitInv == FastOpenInit => FoInv
  BY Zenon DEF FastOpenInit, FoInv

\* Every step keeps FoInv: the lock is what keeps Close and a second Write away.
LEMMA FoStep == FoInv /\ [FastOpenNext]_foVars => FoInv'
  <1> SUFFICES ASSUME FoInv, [FastOpenNext]_foVars PROVE FoInv'
    OBVIOUS
  <1> USE FastOpenAssumption DEF FoInv, Goto, Return, Unlocked
  <1>1. CASE FOClose
    BY <1>1, Zenon DEF FOClose, MayClose, IsClosedBeforeReady, CloseReady
  <1>2. CASE SetDeadline
    BY <1>2, Zenon DEF SetDeadline
  <1>3. ASSUME NEW p \in FOReaders, ReadStart(p) \/ ReadReady(p) \/ ReadConn(p) PROVE FoInv'
    <2>1. PICK at \in {"idle", "wait", "read", "lock", "done"} : foPC' = [foPC EXCEPT ![p] = at]
      BY <1>3, Zenon DEF ReadStart, ReadReady, ReadConn
    <2>2. UNCHANGED <<foConn, readyChan, dials, closedRet, foLock>>
      BY <1>3, Zenon DEF ReadStart, ReadReady, ReadConn
    <2>3. p \in FOProcs
      BY Zenon DEF FOProcs
    <2> QED BY <2>1, <2>2, <2>3, Zenon
  <1>4. ASSUME NEW p \in FOWriters, WriteStart(p) PROVE FoInv'
    BY <1>4, Zenon DEF WriteStart, FOProcs
  <1>5. ASSUME NEW p \in FOWriters, WriteLock(p) PROVE FoInv'
    <2>1. p \in FOProcs
      BY Zenon DEF FOProcs
    <2>2. CASE Checked = "dial"
      <3>1. foConn = "nil" /\ readyChan = "open"
        BY <2>2, Zenon DEF Checked, IsClosedBeforeReady
      <3> QED BY <1>5, <2>1, <2>2, <3>1, Zenon DEF WriteLock
    <2>3. CASE Checked = "closed"
      BY <1>5, <2>1, <2>3, Zenon DEF WriteLock
    <2>4. CASE Checked = "write"
      BY <1>5, <2>1, <2>4, Zenon DEF WriteLock
    <2> QED BY <2>2, <2>3, <2>4, Zenon DEF Checked
  <1>6. ASSUME NEW p \in FOWriters, NEW ok \in BOOLEAN, WriteDial(p, ok) PROVE FoInv'
    <2>1. p \in FOProcs /\ foLock = p /\ p # Free /\ readyChan = "open"
      BY <1>6, Zenon DEF WriteDial, FOProcs
    <2>2. \A q \in FOProcs : q # p => foPC[q] # "dial"
      BY <2>1, Zenon
    <2>3. dials = 0 /\ dials' = dials + 1
      BY <1>6, <2>1, Zenon DEF WriteDial
    <2>4. dials' = 1
      BY <2>3
    <2>5. CASE ok
      BY <1>6, <2>1, <2>2, <2>4, <2>5, Zenon DEF WriteDial, FailedDial, CloseReady
    <2>6. CASE ~ok
      BY <1>6, <2>1, <2>2, <2>4, <2>6, Zenon DEF WriteDial, FailedDial, CloseReady
    <2> QED BY <2>5, <2>6, Zenon
  <1>7. ASSUME NEW p \in FOReaders \cup FOWriters, CallAgain(p) PROVE FoInv'
    BY <1>7, Zenon DEF CallAgain, FOProcs
  <1>8. CASE UNCHANGED foVars
    BY <1>8, Zenon DEF foVars
  <1> QED BY <1>1, <1>2, <1>3, <1>4, <1>5, <1>6, <1>7, <1>8, Zenon DEF FastOpenNext

\* A direct dial goes to a family that the mode selects, a connection wins the race
\* over an error, no socket is lost, and a fast-open connection is dialled at most
\* once, however many goroutines write, and is not open once Close has returned.
THEOREM DialsAreExact == DirectSpec /\ FastOpenSpec => []DialsExact
  <1>1. FoInv => DialsOnce /\ ClosedStaysClosed
    BY DEF FoInv, DialsOnce, ClosedStaysClosed
  <1>2. DirectInv /\ FoInv => DialsExact
    BY <1>1, DirectInvSuffices, Zenon DEF DialsExact
  <1> QED BY <1>2, DirectInitInv, DirectStep, FoInitInv, FoStep, PTL DEF DirectSpec, FastOpenSpec
=============================================================================
