---------------------------- MODULE MCServerConn ----------------------------
(***************************************************************************)
(* The server's connections, for TLC, and parts of the server process of   *)
(* which only safety is asked, each on its own: port unions, the firewall, *)
(* the geo databases and the sniffer.  part says which a behaviour is      *)
(* about.                                                                  *)
(***************************************************************************)
EXTENDS ServerConn, Firewall, GeoLoader, Sniff

VARIABLE part

mcVars == <<part, vars, puVars, fwVars, geoVars, snVars>>

Between(a, b) == [Start |-> a, End |-> b]
MCUnions == {<<Between(2, 2)>>, <<Between(1, 3)>>, <<Between(0, 0), Between(2, 3)>>}

\* A CRYPTO frame of a ClientHello, and QUIC packets with such frames in and out
\* of order, overlapping, of another connection, or out of reach.
CryptoFrame(offset, n) == [offset |-> offset, data |-> [i \in 1 .. n |-> offset + i - 1]]
QUICPacket(kind, dcid, frames) == [kind |-> kind, dcid |-> dcid, frames |-> frames]

MCQUICDatagrams ==
    {<<QUICPacket("initial", "a", <<CryptoFrame(0, 2)>>)>>,
     <<QUICPacket("initial", "a", <<CryptoFrame(3, 1), CryptoFrame(1, 2)>>)>>,
     <<QUICPacket("initial", "a", <<CryptoFrame(2, 2)>>), QUICPacket("initial", "b", <<CryptoFrame(0, 4)>>)>>,
     <<QUICPacket("initial", "a", <<[offset |-> 0, data |-> <<9, 9>>]>>)>>,
     <<QUICPacket("opaque", "a", <<>>), QUICPacket("initial", "a", <<>>)>>,
     <<QUICPacket("stop", "", <<>>), QUICPacket("initial", "a", <<CryptoFrame(0, 1)>>)>>}

TLSRecord(ok, n) == [ok |-> ok, len |-> n]
TLSStream(records) == [kind |-> "tls", records |-> records, len |-> RecordEnd(records, Len(records))]

\* ClientHellos in one record and in several, cut short, after and before a bad
\* record; requests, whole and cut short, and what is not one.
MCTCPStreams ==
    {TLSStream(<<TLSRecord(TRUE, 2), TLSRecord(TRUE, 2), TLSRecord(TRUE, 1)>>),
     TLSStream(<<TLSRecord(TRUE, 1), TLSRecord(FALSE, 3)>>), TLSStream(<<TLSRecord(TRUE, 0), TLSRecord(TRUE, 3)>>),
     TLSStream(<<TLSRecord(TRUE, 4), TLSRecord(FALSE, 3)>>), TLSStream(<<TLSRecord(TRUE, 8)>>),
     [kind |-> "http", len |-> 3, need |-> 3], [kind |-> "http", len |-> 3, need |-> 5],
     [kind |-> "other", len |-> 3, need |-> 2]}

MCInit ==
    /\ part \in {"conn", "ports", "firewall", "geo", "sniff"}
    /\ part = "ports" \/ (part # "ports" /\ puItems = <<Bad>>)
    /\ \/ part = "firewall"
       \/ (part # "firewall" /\ fwBackend = "nft" /\ fwIP = "any" /\ fwPorts = <<Between(2, 2)>>)
    /\ part = "geo" \/ (part # "geo" /\ geoAuto = TRUE /\ geoTarget = "none")
    /\ part = "sniff" \/ (part # "sniff" /\ snAt = "udp")
    /\ PortUnionInit /\ FirewallInit /\ GeoLoaderInit /\ SniffInit /\ Init

Except(p, q, v) == IF p = q THEN TRUE ELSE UNCHANGED v

\* A step of one part leaves the others alone.
Only(p, A) ==
    /\ part = p /\ A /\ UNCHANGED <<part, puVars>>
    /\ Except(p, "conn", vars) /\ Except(p, "firewall", fwVars)
    /\ Except(p, "geo", geoVars) /\ Except(p, "sniff", snVars)

MCNext ==
    \/ Only("conn", Next) \/ Only("firewall", FirewallNext) \/ Only("geo", GeoLoaderNext)
    \/ Only("sniff", SniffNext)

\* The fairness of ServerConn: nothing that must happen is asked of the others.
MCSpec == MCInit /\ [][MCNext]_mcVars /\ Fairness
=============================================================================
