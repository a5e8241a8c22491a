----------------------------- MODULE FragChannel -----------------------------
(***************************************************************************)
(* One direction of a proxied UDP session: the sender's try-whole-then-    *)
(* fragment logic (udpConn.Send in core/client/udp.go, the same code as    *)
(* sendMessageAutoFrag in core/server/udp.go), QUIC datagrams that may be  *)
(* lost or reordered but not duplicated, and the receiver's Defragger.     *)
(*                                                                         *)
(* The payload of the k-th message is made of the values 10*k+1, 10*k+2,   *)
(* ..., so that every byte tells which message it belongs to and where.    *)
(***************************************************************************)
EXTENDS Frag, SequencesExt, FiniteSets

CONSTANTS
    Addrs,      \* target addresses
    DataLens,   \* payload lengths
    PathMTUs,   \* values of MaxDatagramPayloadSize, which QUIC may change
    MaxUDPSize, \* size of the buffer a message is serialized in
    PacketIDs,  \* values of the random packet ID
    MaxSends,     \* bound on the number of messages sent
    MaxDatagrams  \* bound on the number of datagrams they make

ASSUME FragChannelAssumption ==
    /\ DataLens \subseteq Nat
    /\ \A n \in DataLens : n < 10
    /\ PacketIDs \subseteq Nat \ {0}
    /\ PathMTUs \subseteq Nat /\ MaxUDPSize \in Nat
    /\ MaxSends \in Nat /\ MaxDatagrams \in Nat

\* For instances small enough for TLC: an address is one byte long, the header
\* then takes 10 bytes, or empty.
MCAddrLen(a) == IF a = "" THEN 0 ELSE 1

VARIABLES
    net,        \* datagrams in flight
    d,          \* the receiver's Defragger
    \* History, read by the properties only:
    sent,       \* the messages handed to Send, with the PacketID they got
    mtus,       \* the datagram size each of them met
    fed,        \* the datagrams fed to the Defragger, in order
    delivered   \* the complete messages the Defragger returned, in order

vars == <<net, d, sent, mtus, fed, delivered>>

Payload(k, n) == [j \in 1..n |-> 10 * k + j]

\* The number of the message a payload byte belongs to.
Origin(byte) == byte \div 10

Message(k, pid, addr, n) ==
    [SessionID |-> 1, PacketID |-> pid, FragID |-> 0, FragCount |-> 1,
     Addr |-> addr, Data |-> Payload(k, n)]

Init ==
    /\ net = {}
    /\ d = NewDefragger
    /\ sent = <<>>
    /\ mtus = <<>>
    /\ fed = <<>>
    /\ delivered = <<>>

\* Serialize finds the buffer large enough; SendMessage drops silently what is
\* larger.
Serializes(m) == Size(m) <= MaxUDPSize

\* The datagrams that leave for message m when the path carries mtu bytes.
Datagrams(m, mtu) ==
    IF Serializes(m) THEN ToSet(FragUDPMessage(m, mtu)) ELSE {}

\* Send: whole with packet ID 0 if SendFunc takes it (or drops it), otherwise
\* fragmented under a random packet ID.  FragUDPMessage does not panic on the
\* sizes in use: at most 4096 bytes, and QUIC datagrams of more than 1000.
Send ==
    /\ Len(sent) < MaxSends
    /\ \E addr \in Addrs, n \in DataLens, mtu \in PathMTUs :
         \E pid \in PacketIDs :
           LET whole == Message(Len(sent) + 1, 0, addr, n)
               m == IF Size(whole) <= mtu \/ ~Serializes(whole) THEN whole
                    ELSE [whole EXCEPT !.PacketID = pid]
           IN  /\ ~FragPanics(m, mtu)
               /\ net' = net \cup Datagrams(m, mtu)
               /\ Len(fed) + Cardinality(net') <= MaxDatagrams
               /\ sent' = Append(sent, m)
               /\ mtus' = Append(mtus, mtu)
    /\ UNCHANGED <<d, fed, delivered>>

\* Any datagram in flight arrives and is fed to the Defragger if it parses (what
\* does not parse is as good as lost).  One that is lost, or that was not sent
\* because SendFunc failed half-way, never is.
Receive ==
    /\ \E g \in {h \in net : Parses(h)} :
         LET r == DefraggerFeed(d, g)
         IN  /\ net' = net \ {g}
             /\ d' = r.d
             /\ fed' = Append(fed, g)
             /\ delivered' = IF r.out = NoMsg THEN delivered
                             ELSE Append(delivered, r.out)
    /\ UNCHANGED <<sent, mtus>>

Next == Send \/ Receive

Spec == Init /\ [][Next]_vars

-----------------------------------------------------------------------------
(***************************************************************************)
(* Properties                                                              *)
(***************************************************************************)

Filled(def) == {i \in 1..Len(def.frags) : def.frags[i] # NoMsg}

\* FragUDPMessage cuts a message in pieces that each fit the datagram size it
\* was given, that number 0..count-1, none of them empty unless the message is,
\* and that put together are the payload; it gives up (no piece) only if there
\* is no room for any payload.
FragmentsFit ==
    \A k \in 1..Len(sent) :
      LET fs == FragUDPMessage(sent[k], mtus[k])
      IN  IF HeaderSize(sent[k]) >= mtus[k] /\ Size(sent[k]) > mtus[k] THEN fs = <<>>
          ELSE /\ FlattenSeq([i \in 1..Len(fs) |-> fs[i].Data]) = sent[k].Data
               /\ \A i \in 1..Len(fs) :
                    /\ Size(fs[i]) <= mtus[k]
                    /\ fs[i].Data = <<>> => sent[k].Data = <<>>
                    /\ fs[i].FragID = i - 1
                    /\ fs[i].FragCount = Len(fs)

\* Messages whose packet ID no other message shares.
Unambiguous(k) ==
    \/ sent[k].PacketID = 0
    \/ \A j \in 1..Len(sent) : j # k => sent[j].PacketID # sent[k].PacketID

\* What the receiver gets is what was sent: whatever is lost or reordered, a
\* message the Defragger returns under a packet ID that identifies one message
\* is that message, payload, address and all, never a mixture of two.
DeliveredIntact ==
    \A i \in 1..Len(delivered) :
      \/ delivered[i] \in ToSet(sent)
      \/ \E k \in 1..Len(sent) : /\ sent[k].PacketID = delivered[i].PacketID
                                 /\ ~Unambiguous(k)

\* The positions in fed of the datagrams of message k.
Arrivals(k) == {i \in 1..Len(fed) : Origin(fed[i].Data[1]) = k}

\* All the datagrams of message k arrived, and between the first and the last
\* of them no fragment of another message did.
ArrivedTogether(k) ==
    /\ Arrivals(k) # {}
    /\ Cardinality(Arrivals(k)) = Len(FragUDPMessage(sent[k], mtus[k]))
    /\ \A i \in Min(Arrivals(k))..Max(Arrivals(k)) :
         i \in Arrivals(k) \/ fed[i].FragCount <= 1

\* A packet whose fragments all arrive, in any order, is returned exactly once,
\* unless the fragments of another packet came in between: unfragmented
\* messages in between do not disturb it.
DeliveredOnce ==
    \A k \in 1..Len(sent) :
      Unambiguous(k) =>
        LET copies == {i \in 1..Len(delivered) : delivered[i] = sent[k]}
        IN  /\ Cardinality(copies) <= 1
            /\ ArrivedTogether(k) => copies # {}

\* The comment on Defragger: "If another packet arrives before a packet has
\* received all fragments in their entirety, any previous state is discarded."
\* So an incomplete packet being collected is the packet that arrived last
\* (said of messages whose packet IDs differ).
PreviousStateDiscarded ==
    /\ d.count < Len(d.frags)
    /\ \A k \in 1..Len(sent) : Unambiguous(k)
    => \A i \in Filled(d) :
        Origin(d.frags[i].Data[1]) = Origin(fed[Len(fed)].Data[1])

\* What crosses the channel fits the path, and comes out as it was sent, once.
Integrity == FragmentsFit /\ DeliveredIntact /\ DeliveredOnce
=============================================================================
