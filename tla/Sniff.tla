-------------------------------- MODULE Sniff --------------------------------
(***************************************************************************)
(* Sniffer (extras/sniff): the request hook that finds the domain in the   *)
(* first bytes of a TCP stream or the first packets of a UDP session.      *)
(*                                                                         *)
(* TCP: the stream is read through a recorder until there is a verdict, an *)
(* error, the deadline or the limit; what was read is handed back and sent *)
(* to the target first.  UDP: the packets held so far are examined afresh  *)
(* with each that comes; the CRYPTO frames of QUIC Initial packets are put *)
(* together into the TLS handshake stream.  A byte of the handshake is     *)
(* known by its place in it.                                               *)
(***************************************************************************)
EXTENDS Integers, Sequences, SequencesExt, FiniteSetsExt

CONSTANTS
    HelloLen,           \* the length of the ClientHello with its header
    HelloHeader,        \* the length of the header, which has the length
    sniffMaxTCPBytes,
    sniffMaxUDPPackets,
    TCPStreams,         \* the streams: what they hold, cell by cell
    QUICDatagrams           \* the UDP packets that may come

VARIABLES
    snStream,   \* the stream of a TCP request
    snRead,     \* how much of it has been read
    snBuf,      \* recorder.buf
    snEnded,    \* the error of the last read: "no", "eof" or "timeout"
    snDeadline, \* whether the stream has a read deadline
    snAddr,     \* the host of the request address: "ip" or "domain"
    snAt,       \* "tcp", "udp" or "done"
    snPackets   \* the packets of the UDP session that are held

snVars == <<snStream, snRead, snBuf, snEnded, snDeadline, snAddr, snAt, snPackets>>

-----------------------------------------------------------------------------
(* UDP: quicCrypto. *)

\* feed, for one datagram: the Initial packets that decrypt and have the
\* connection ID of the first, up to one that cannot be parsed.  A packet is
\* [kind, dcid, frames]; "stop" is a short header, an unknown version or a
\* length that does not fit, "opaque" another type or one that fails to decrypt.
FeedPacket(c, packet) ==
    IF c.stopped \/ packet.kind = "stop" THEN [c EXCEPT !.stopped = TRUE]
    ELSE IF packet.kind = "opaque" \/ c.dcid \notin {"nil", packet.dcid} THEN c
    ELSE [c EXCEPT !.dcid = packet.dcid, !.frames = @ \o packet.frames, !.found = TRUE]

feed(c, datagram) ==
    FoldLeft(FeedPacket, [c EXCEPT !.found = FALSE, !.stopped = FALSE], datagram)

NewCrypto == [dcid |-> "nil", frames |-> <<>>, found |-> FALSE, stopped |-> FALSE]

FrameBefore(a, b) == a.offset <= b.offset

\* The frames in order of their offsets, each adding what it has past the end.
Extend(stream, f) ==
    IF f.offset > Len(stream) \/ f.offset + Len(f.data) <= Len(stream) THEN stream
    ELSE stream \o SubSeq(f.data, Len(stream) - f.offset + 1, Len(f.data))

Sorted(frames) == SortSeq(frames, FrameBefore)

CryptoStream(c) == FoldLeft(Extend, <<>>, Sorted(c.frames))

\* clientHello: whether the stream has all of it, has another message (its first
\* byte, the type, is not 0 here), or is too short to tell.
clientHello(stream) ==
    CASE Len(stream) < HelloHeader -> "more"
      [] Len(stream) >= HelloHeader /\ stream[1] # 0 -> "none"
      [] OTHER -> IF Len(stream) < HelloLen THEN "more" ELSE "hello"

\* Sniffer.UDP of the packets held: "more", or done with or without a name.
Crypto(packets) == FoldLeft(feed, NewCrypto, packets)

TooMany(n) == n >= sniffMaxUDPPackets

SniffUDP(packets) ==
    IF ~feed(NewCrypto, packets[1]).found THEN "done"
    ELSE LET hello == clientHello(CryptoStream(Crypto(packets)))
         IN  CASE hello = "hello" -> "named"
               [] hello = "more" /\ ~TooMany(Len(packets)) -> "more"
               [] OTHER -> "done"

-----------------------------------------------------------------------------
(* TCP: a "tls" stream is a sequence of records [ok, len], each a header and *)
(* a fragment; "http" is a request whose header needs so many bytes, "other" *)
(* what isHTTP rejects after so many.                                        *)

\* readClientHello: where each record ends, and the handshake bytes by then.
RecordEnd(records, i) == FoldLeft(LAMBDA n, r : n + 1 + r.len, 0, SubSeq(records, 1, i))
HandshakeBytes(records, i) == FoldLeft(LAMBDA n, r : n + r.len, 0, SubSeq(records, 1, i))

BadRecords(records) == { i \in DOMAIN records : ~records[i].ok }
HelloRecords(records) == { i \in DOMAIN records : HandshakeBytes(records, i) >= HelloLen }

\* The bytes that must be read for a verdict, and the verdict.
Verdict(stream) ==
    CASE stream.kind \in {"other", "http"} ->
           [need |-> stream.need, name |-> stream.kind = "http"]
      [] stream.kind = "tls"   ->
           LET bad == BadRecords(stream.records)
               hello == HelloRecords(stream.records)
           IN  IF hello # {} /\ (bad = {} \/ Min(hello) < Min(bad))
               THEN [need |-> RecordEnd(stream.records, Min(hello)), name |-> TRUE]
               ELSE IF bad # {}
               THEN [need |-> RecordEnd(stream.records, Min(bad) - 1) + 1, name |-> FALSE]
               ELSE [need |-> stream.len + 1, name |-> FALSE]

SniffInit ==
    /\ \/ snAt = "tcp" /\ snStream \in TCPStreams
       \/ snAt = "udp" /\ snStream = CHOOSE s \in TCPStreams : TRUE
    /\ snRead = 0 /\ snBuf = 0 /\ snEnded = "no"
    /\ snDeadline = FALSE /\ snAddr = "ip" /\ snPackets = <<>>

\* The deadline is set before the first read; that may fail.
SniffTCPBegins ==
    /\ snAt = "tcp"
    /\ \/ snAt' = "reading" /\ snDeadline' = TRUE
       \/ snAt' = "done" /\ UNCHANGED snDeadline
    /\ UNCHANGED <<snStream, snRead, snBuf, snEnded, snAddr, snPackets>>

Undecided == snRead < Verdict(snStream).need /\ snEnded = "no"

\* Mutant of Recorded: bytes that came with an error are not.
RecordedUnlessError(n, err) == IF err = "no" THEN snBuf + n ELSE snBuf

\* recorder.Read: what was read is recorded, also if it came with an error.
Recorded(n, err) == snBuf + n

\* A read returns some bytes, an error, or both; at the limit it returns EOF.
SniffRead ==
    /\ snAt = "reading" /\ Undecided
    /\ \E n \in 0 .. Min({snStream.len, sniffMaxTCPBytes}) - snRead, err \in {"no", "eof", "timeout"} :
         /\ n > 0 \/ err # "no"
         /\ snRead' = snRead + n
         /\ snBuf' = Recorded(n, err)
         /\ snEnded' = err
    /\ UNCHANGED <<snStream, snDeadline, snAddr, snAt, snPackets>>

\* rewrite, and the deferred reset of the deadline.
SniffTCPReturns ==
    /\ snAt = "reading" /\ ~Undecided
    /\ snAt' = "done"
    /\ snDeadline' = FALSE
    /\ snAddr' = IF snRead >= Verdict(snStream).need /\ Verdict(snStream).name THEN "domain" ELSE "ip"
    /\ UNCHANGED <<snStream, snRead, snBuf, snEnded, snPackets>>

\* A packet of a session that is not decided yet: the hook examines them all.
SniffUDPPacket ==
    /\ snAt = "udp"
    /\ \E d \in QUICDatagrams : snPackets' = Append(snPackets, d)
    /\ snAt' = IF SniffUDP(snPackets') = "more" THEN "udp" ELSE "done"
    /\ snAddr' = IF SniffUDP(snPackets') = "named" THEN "domain" ELSE "ip"
    /\ UNCHANGED <<snStream, snRead, snBuf, snEnded, snDeadline>>

SniffNext == SniffTCPBegins \/ SniffRead \/ SniffTCPReturns \/ SniffUDPPacket

-----------------------------------------------------------------------------
\* The target is sent every byte that was taken from the stream, also when
\* sniffing ended with an error, and the deadline of sniffing does not cut off
\* the connection that follows (extras/sniff/sniff.go:62-76, 160-164).
NothingLost == snAt = "done" => snBuf = snRead /\ ~snDeadline

\* The frames of the connection seen first, in the packets that can be reached.
OwnFrames ==
    UNION { UNION { ToSet(d[i].frames) :
                      i \in { i \in DOMAIN d : /\ d[i].kind = "initial"
                                               /\ d[i].dcid = Crypto(snPackets).dcid
                                               /\ \A j \in 1 .. i : d[j].kind # "stop" } }
            : d \in ToSet(snPackets) }

Covered == UNION { f.offset .. f.offset + Len(f.data) - 1 : f \in OwnFrames }

\* The handshake stream is the longest start of it that the frames cover, byte
\* for byte, in whatever order, packets and overlaps they came
\* (extras/sniff/quic.go:93-106).
StreamIsPrefix ==
    LET stream == CryptoStream(Crypto(snPackets))
    IN  /\ \A i \in DOMAIN stream : \E f \in OwnFrames :
              /\ i > f.offset /\ i <= f.offset + Len(f.data)
              /\ stream[i] = f.data[i - f.offset]
        /\ Len(stream) \notin Covered

\* A UDP session is held back for a bounded number of packets, and not once
\* its ClientHello is there (sniff.go:79-93).
HeldNoLonger ==
    snAt = "udp" /\ snPackets # <<>> =>
        /\ Len(snPackets) < sniffMaxUDPPackets
        /\ ~(0 .. HelloLen - 1 \subseteq Covered)

\* Sniffing takes nothing from the stream, invents nothing, and ends.
SniffedIntact == NothingLost /\ StreamIsPrefix /\ HeldNoLonger
=============================================================================
