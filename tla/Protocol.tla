------------------------------ MODULE Protocol ------------------------------
(***************************************************************************)
(* The authentication exchange of core/client/client.go and                *)
(* core/server/server.go: the configuration each side fills, the headers   *)
(* of core/internal/protocol/http.go and the sending rate and congestion   *)
(* controller each side ends with.  Rates, windows and durations come from *)
(* small scales whose order and limits are those of the code.              *)
(***************************************************************************)
EXTENDS Integers, Sequences

CONSTANTS
    Rates,      \* configured rates in bytes per second; 0 is "not set"
    MinRate,    \* 65536, the least rate a server accepts
    Windows, MinWindow,  \* receive windows and 16384
    Idles, MinIdle, MaxIdle,  \* idle timeouts, 4 s and 120 s
    DefaultWindow, DefaultIdle

ASSUME HandshakeAssumption ==
    /\ Rates \subseteq Nat /\ 0 \in Rates
    /\ MinWindow \in 1 .. DefaultWindow
    /\ MinIdle \in 1 .. DefaultIdle /\ MaxIdle >= DefaultIdle

VARIABLES
    hsPC,        \* "client", "server", "request", "answer", "response",
                 \* "done", "refused"
    cCfg, sCfg,  \* client.Config, server.Config
    header,      \* the headers under way
    cTx, cCC,    \* the client's actualTx and congestion controller
    sTx, sCC     \* the server's

hsVars == <<hsPC, cCfg, sCfg, header, cTx, cCC, sTx, sCC>>

HandshakeInit ==
    /\ hsPC = "client"
    /\ cCfg \in [MaxTx : Rates, MaxRx : Rates, window : Windows, idle : Idles,
                 cc : {"", "reno", "cubic"}]
    /\ sCfg \in [MaxTx : Rates, MaxRx : Rates, window : {0}, idle : {0},
                 cc : {"", "reno"}, ignore : BOOLEAN, udp : BOOLEAN]
    /\ header = <<>> /\ cTx = 0 /\ cCC = "none" /\ sTx = 0 /\ sCC = "none"

-----------------------------------------------------------------------------
(***************************************************************************)
(* Filling a configuration: 0 takes the default, what is out of range is   *)
(* an error.                                                               *)
(***************************************************************************)

WindowOK(c) == c.window = 0 \/ c.window >= MinWindow

IdleOK(c) == c.idle = 0 \/ c.idle \in MinIdle .. MaxIdle

NormalizeTypeOK(c) == c.cc \in {"", "bbr", "reno"}

NormalizeType(cc) == IF cc = "" THEN "bbr" ELSE cc

\* The part of verifyAndFill and of fill that both have.
Fill(c) ==
    [c EXCEPT !.window = IF @ = 0 THEN DefaultWindow ELSE @,
              !.idle = IF @ = 0 THEN DefaultIdle ELSE @,
              !.cc = NormalizeType(@)]

RateOK(r) == r = 0 \/ r >= MinRate

ClientFill ==
    /\ hsPC = "client"
    /\ IF WindowOK(cCfg) /\ IdleOK(cCfg) /\ NormalizeTypeOK(cCfg)
       THEN cCfg' = Fill(cCfg) /\ hsPC' = "server"
       ELSE hsPC' = "refused" /\ UNCHANGED cCfg
    /\ UNCHANGED <<sCfg, header, cTx, cCC, sTx, sCC>>

ServerFill ==
    /\ hsPC = "server"
    /\ IF /\ WindowOK(sCfg) /\ IdleOK(sCfg) /\ NormalizeTypeOK(sCfg)
          /\ RateOK(sCfg.MaxTx) /\ RateOK(sCfg.MaxRx)
       THEN sCfg' = Fill(sCfg) /\ hsPC' = "request"
       ELSE hsPC' = "refused" /\ UNCHANGED sCfg
    /\ UNCHANGED <<cCfg, header, cTx, cCC, sTx, sCC>>

-----------------------------------------------------------------------------
(***************************************************************************)
(* The exchange                                                            *)
(***************************************************************************)

\* The header text: a number in decimal, or "auto".
Number(n) == [text |-> "number", n |-> n]
AutoText == [text |-> "auto", n |-> 0]

\* ParseUint, whose error is ignored: 0 for what is not a number.
ParseUint(h) == IF h.text = "number" THEN h.n ELSE 0

AuthResponseToHeader(udp, rx, auto) ==
    [UDP |-> udp, RX |-> IF auto THEN AutoText ELSE Number(rx)]

AuthResponseFromHeader(h) ==
    [UDPEnabled |-> h.UDP, RxAuto |-> h.RX = AutoText,
     Rx |-> IF h.RX = AutoText THEN 0 ELSE ParseUint(h.RX)]

\* connect sends the rate the client can receive at; 0 is "unknown".
SendRequest ==
    /\ hsPC = "request"
    /\ header' = [RX |-> Number(cCfg.MaxRx)]
    /\ hsPC' = "answer"
    /\ UNCHANGED <<cCfg, sCfg, cTx, cCC, sTx, sCC>>

ServerTx(asked) ==
    IF sCfg.MaxTx > 0 /\ asked > sCfg.MaxTx THEN sCfg.MaxTx ELSE asked

\* ServeHTTP, once Authenticate has returned true.
ServeHTTP ==
    LET tx == IF sCfg.ignore THEN 0 ELSE ServerTx(ParseUint(header.RX))
    IN  /\ hsPC = "answer"
        /\ sTx' = tx
        /\ sCC' = IF tx > 0 THEN "brutal" ELSE sCfg.cc
        /\ header' = AuthResponseToHeader(sCfg.udp, sCfg.MaxRx, sCfg.ignore)
        /\ hsPC' = "response"
        /\ UNCHANGED <<cCfg, sCfg, cTx, cCC>>

\* Mutant of ClientTx: a server without a limit is taken for one that allows nothing.
ClientTxZero(rx) == IF rx > cCfg.MaxTx THEN cCfg.MaxTx ELSE rx

ClientTx(rx) == IF rx = 0 \/ rx > cCfg.MaxTx THEN cCfg.MaxTx ELSE rx

\* connect, once the status is StatusAuthOK.
ReadResponse ==
    LET resp == AuthResponseFromHeader(header)
        tx == IF resp.RxAuto THEN 0 ELSE ClientTx(resp.Rx)
    IN  /\ hsPC = "response"
        /\ cTx' = tx
        /\ cCC' = IF tx > 0 THEN "brutal" ELSE cCfg.cc
        /\ hsPC' = "done"
        /\ UNCHANGED <<cCfg, sCfg, header, sTx, sCC>>

HandshakeNext == ClientFill \/ ServerFill \/ SendRequest \/ ServeHTTP \/ ReadResponse

HandshakeSpec == HandshakeInit /\ [][HandshakeNext]_hsVars

-----------------------------------------------------------------------------
(***************************************************************************)
(* Properties                                                              *)
(***************************************************************************)

\* What the two ends are meant to agree on in either direction: nothing when
\* the client does not know its bandwidth, else the lower of what it knows and
\* the server's limit, where 0 is no limit.
Agreed(known, limit) ==
    IF limit = 0 \/ known < limit THEN known ELSE limit

\* Once the exchange is over both ends send at the agreed rate, or, where there
\* is none and where the server ignores the client's bandwidth, both leave it to
\* their configured congestion controller (server.go:184-199, client.go:149-167).
RatesAgree ==
    hsPC = "done" =>
      /\ cTx = IF sCfg.ignore THEN 0 ELSE Agreed(cCfg.MaxTx, sCfg.MaxRx)
      /\ sTx = IF sCfg.ignore THEN 0 ELSE Agreed(cCfg.MaxRx, sCfg.MaxTx)
      /\ cCC = IF cTx > 0 THEN "brutal" ELSE cCfg.cc
      /\ sCC = IF sTx > 0 THEN "brutal" ELSE sCfg.cc

-----------------------------------------------------------------------------
(***************************************************************************)
(* The messages of core/internal/protocol/proxy.go as bytes: what a writer *)
(* puts on a stream or in a datagram and what a reader makes of it, whole  *)
(* or cut short.  The limits are CONSTANTS, so that the lengths around     *)
(* them and around those of a variable-length integer stay small.          *)
(***************************************************************************)

CONSTANTS
    MaxAddressLength, MaxTextLength, MaxPaddingLength,
    maxVarInt1, maxVarInt2,  \* the largest integers of one and of two bytes
    Lengths,     \* lengths of addresses, messages, paddings and data
    Cuts         \* bytes that may be missing from the end of a message

ASSUME VarIntAssumption == maxVarInt1 = 63 /\ maxVarInt2 = 16383

ASSUME WireAssumption ==
    /\ Lengths \subseteq 0 .. maxVarInt2 /\ Cuts \subseteq Nat
    /\ {MaxAddressLength, MaxTextLength, MaxPaddingLength} \subseteq Nat

VARIABLES wKind, wText, wPad, wCut  \* a message and how much of it is lost

wireVars == <<wKind, wText, wPad, wCut>>

WireInit ==
    /\ wKind \in {"request", "ok", "error", "udp"}
    /\ wText \in Lengths /\ wPad \in Lengths /\ wCut \in Cuts

-----------------------------------------------------------------------------
\* A text of n bytes whose content tells texts and paddings apart.
Text(n, b) == [i \in 1 .. n |-> b]

\* Integers of four and of eight bytes do not occur below the limits.
VarintPut(i) ==
    IF i <= maxVarInt1 THEN <<i>> ELSE <<(i \div 256) + 64, i % 256>>

PutLen(i) == IF i <= maxVarInt1 THEN 1 ELSE 2

Failed == [ok |-> FALSE, value |-> 0, rest |-> <<>>]
Read(v, rest) == [ok |-> TRUE, value |-> v, rest |-> rest]

\* quicvarint.Read: the two high bits of the first byte are the length.
VarintRead(s) ==
    CASE s = <<>> -> Failed
      [] s # <<>> /\ s[1] < 64 -> Read(s[1], Tail(s))
      [] s # <<>> /\ s[1] >= 64 /\ s[1] < 128 /\ Len(s) >= 2 ->
           Read((s[1] - 64) * 256 + s[2], SubSeq(s, 3, Len(s)))
      [] OTHER -> Failed

\* A length and that many bytes, read after the length was checked.
ReadText(s, min, max) ==
    LET n == VarintRead(s)
    IN  IF n.ok /\ n.value \in min .. max /\ Len(n.rest) >= n.value
        THEN Read(SubSeq(n.rest, 1, n.value),
                  SubSeq(n.rest, n.value + 1, Len(n.rest)))
        ELSE Failed

PutText(t) == VarintPut(Len(t)) \o t

-----------------------------------------------------------------------------
(***************************************************************************)
(* Requests and responses.  The frame type of a request is read by         *)
(* whoever dispatches the stream.                                          *)
(***************************************************************************)

FrameType == VarintPut(1025)   \* 0x401

WriteTCPRequest(addr, padding) == FrameType \o PutText(addr) \o PutText(padding)

ReadTCPRequest(s) ==
    LET addr == ReadText(s, 1, MaxAddressLength)
        padding == ReadText(addr.rest, 0, MaxPaddingLength)
    IN  IF addr.ok /\ padding.ok THEN Read(addr.value, padding.rest) ELSE Failed

WriteTCPResponse(ok, msg, padding) ==
    <<IF ok THEN 0 ELSE 1>> \o PutText(msg) \o PutText(padding)

ReadTCPResponse(s) ==
    LET msg == ReadText(Tail(s), 0, MaxTextLength)
        padding == ReadText(msg.rest, 0, MaxPaddingLength)
    IN  IF s # <<>> /\ msg.ok /\ padding.ok
        THEN Read([ok |-> s[1] = 0, msg |-> msg.value], padding.rest) ELSE Failed

(***************************************************************************)
(* UDP messages: eight bytes of IDs, the address and, to the end, data.    *)
(***************************************************************************)

UDPHeaderSize(addr) == 8 + PutLen(Len(addr)) + Len(addr)

UDPSize(addr, data) == UDPHeaderSize(addr) + Len(data)

IDs == <<0, 0, 0, 9, 0, 7, 1, 2>>

Serialize(room, addr, data) ==
    IF room < UDPSize(addr, data) THEN <<>> ELSE IDs \o PutText(addr) \o data

DataFollows(rest, n) == Len(rest) > n

ParseUDPMessage(s) ==
    LET n == VarintRead(SubSeq(s, 9, Len(s)))
    IN  IF /\ Len(s) >= 8 /\ n.ok
           /\ n.value \in 1 .. MaxTextLength /\ DataFollows(n.rest, n.value)
        THEN Read([ids |-> SubSeq(s, 1, 8), addr |-> SubSeq(n.rest, 1, n.value)],
                  SubSeq(n.rest, n.value + 1, Len(n.rest)))
        ELSE Failed

-----------------------------------------------------------------------------
(***************************************************************************)
(* Properties.  On a stream, more may follow a message: here two bytes.    *)
(***************************************************************************)

addr == Text(wText, 7)
padding == Text(wPad, 65)
more == <<200, 201>>

\* What arrives of a stream of these bytes.
Arrives(s) == SubSeq(s, 1, Len(s) - (IF wCut > Len(s) THEN Len(s) ELSE wCut))

\* The reader of a request or of a response returns exactly the address, or the
\* status and message, that was written, and leaves the stream right after it,
\* so that not one byte of payload is taken for padding or the reverse; what is
\* cut short or out of its limits is an error (proxy.go:39-149).
StreamMessages ==
    LET reqFits == wText \in 1 .. MaxAddressLength /\ wPad <= MaxPaddingLength
        respFits == wText <= MaxTextLength /\ wPad <= MaxPaddingLength
        req == ReadTCPRequest(Arrives(Tail(Tail(WriteTCPRequest(addr, padding))) \o more))
        resp == ReadTCPResponse(Arrives(WriteTCPResponse(wKind = "ok", addr, padding) \o more))
        left == SubSeq(more, 1, 2 - wCut)
    IN  /\ wKind = "request" =>
             req = IF reqFits /\ wCut <= 2 THEN Read(addr, left) ELSE Failed
        /\ wKind \in {"ok", "error"} =>
             resp = IF respFits /\ wCut <= 2
                    THEN Read([ok |-> wKind = "ok", msg |-> addr], left) ELSE Failed

\* A datagram is parsed to the session, address and data it was made of; an
\* address that is empty or too long and a message without data are refused; and
\* Serialize writes exactly Size bytes, or nothing when the buffer is too small
\* (proxy.go:169-223).  A datagram is never cut short; the buffer may be.
DatagramsReadBack ==
    LET data == padding
        buf == Serialize(UDPSize(addr, data) - wCut, addr, data)
    IN  wKind = "udp" =>
          /\ wCut > 0 => buf = <<>>
          /\ wCut = 0 =>
               /\ Len(buf) = UDPSize(addr, data)
               /\ ParseUDPMessage(buf) =
                    IF wText \in 1 .. MaxTextLength /\ wPad > 0
                    THEN Read([ids |-> IDs, addr |-> addr], data) ELSE Failed

\* Client and server make the same of what they exchange: the rates they settle
\* on are consistent, and every message is read as it was written.
PeersAgree == RatesAgree /\ StreamMessages /\ DatagramsReadBack
=============================================================================
