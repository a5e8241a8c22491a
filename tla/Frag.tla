-------------------------------- MODULE Frag --------------------------------
(***************************************************************************)
(* UDP messages of the proxy protocol and their fragmentation:             *)
(* core/internal/protocol/proxy.go (UDPMessage) and                        *)
(* core/internal/frag/frag.go (FragUDPMessage, Defragger).                 *)
(*                                                                         *)
(* A message is a record with the fields of the Go struct.  Addresses are  *)
(* opaque values with a length in bytes; the payload is a sequence, one    *)
(* element per byte.  The fields that are uint8 in the code wrap at        *)
(* FragCountMod (256 in the code).                                         *)
(***************************************************************************)
EXTENDS Integers, Sequences

CONSTANTS
    NoMsg,        \* the nil *UDPMessage
    AddrLen(_),   \* length in bytes of an address
    FragCountMod  \* number of values of the uint8 FragID and FragCount

ASSUME FragCountModAssumption == FragCountMod \in Nat \ {0, 1}

-----------------------------------------------------------------------------
(***************************************************************************)
(* UDPMessage                                                              *)
(***************************************************************************)

\* Bytes taken by the QUIC varint that carries n.
VarintLen(n) ==
    CASE n <= 63 -> 1
      [] n \in 64..16383 -> 2
      [] OTHER -> 4

\* Session ID, packet ID, fragment ID and count, address length, address.
HeaderSize(m) ==
    4 + 2 + 1 + 1 + VarintLen(AddrLen(m.Addr)) + AddrLen(m.Addr)

Size(m) == HeaderSize(m) + Len(m.Data)

MaxMessageLength == 2048

\* ParseUDPMessage accepts a datagram: it has an address, not too long, and at
\* least one byte of data.
Parses(m) ==
    /\ AddrLen(m.Addr) \in 1..MaxMessageLength
    /\ m.Data # <<>>

-----------------------------------------------------------------------------
(***************************************************************************)
(* FragUDPMessage.  The loop fills frags[0..], one piece of maxPayload     *)
(* bytes after the other; with FragCountMod pieces or more the uint8 count *)
(* has wrapped, the slice is too short and indexing it panics.             *)
(***************************************************************************)

MaxPayload(m, maxSize) == maxSize - HeaderSize(m)

Pieces(m, maxSize) ==
    (Len(m.Data) + MaxPayload(m, maxSize) - 1) \div MaxPayload(m, maxSize)

FragPanics(m, maxSize) ==
    /\ Size(m) > maxSize
    /\ MaxPayload(m, maxSize) > 0
    /\ Pieces(m, maxSize) >= FragCountMod

\* The i-th fragment, counted from 1 as sequences are.
Fragment(m, maxSize, i) ==
    LET size == MaxPayload(m, maxSize)
        end == IF i * size > Len(m.Data) THEN Len(m.Data) ELSE i * size
    IN  [m EXCEPT !.FragID = i - 1,
                  !.FragCount = Pieces(m, maxSize),
                  !.Data = SubSeq(m.Data, (i - 1) * size + 1, end)]

\* The fragments of m, for a message on which the code does not panic.
FragUDPMessage(m, maxSize) ==
    IF Size(m) <= maxSize THEN <<m>>
    ELSE IF MaxPayload(m, maxSize) <= 0 THEN <<>>
    ELSE [i \in 1..Pieces(m, maxSize) |-> Fragment(m, maxSize, i)]

-----------------------------------------------------------------------------
(***************************************************************************)
(* Defragger: the fragments of one packet ID at a time.                    *)
(***************************************************************************)

NewDefragger == [pktID |-> 0, frags |-> <<>>, count |-> 0, size |-> 0]

\* Mutant of StartsPacket: the packet ID is not looked at.
StartsOtherCount(d, m) == m.FragCount # Len(d.frags)

\* m does not belong to the packet d is collecting.
StartsPacket(d, m) == m.PacketID # d.pktID \/ m.FragCount # Len(d.frags)

\* First fragment of a new packet: whatever was collected before is dropped.
Restart(m) ==
    [pktID |-> m.PacketID,
     frags |-> [i \in 1..m.FragCount |-> IF i = m.FragID + 1 THEN m ELSE NoMsg],
     count |-> 1,
     size  |-> Len(m.Data)]

\* Another fragment of the packet d is collecting.
Collect(d, m) ==
    [d EXCEPT !.frags[m.FragID + 1] = m,
              !.count = @ + 1,
              !.size = @ + Len(m.Data)]

\* A buffer of d.size bytes into which the fragments are copied in order.
AssembledData(d) ==
    LET upTo[i \in 0..Len(d.frags)] ==
          IF i = 0 THEN <<>> ELSE upTo[i - 1] \o d.frags[i].Data
        all == upTo[Len(d.frags)]
    IN  [i \in 1..d.size |-> IF i <= Len(all) THEN all[i] ELSE 0]

\* The assembled message is the last fragment, modified in place.
Assembled(d, m) ==
    [m EXCEPT !.Data = AssembledData(d), !.FragID = 0, !.FragCount = 1]

\* Defragger.Feed: the new state and the complete message, NoMsg if none.
\* The slot of the last fragment points to the message that is returned.
DefraggerFeed(d, m) ==
    IF m.FragCount <= 1 THEN [d |-> d, out |-> m]
    ELSE IF m.FragID >= m.FragCount THEN [d |-> d, out |-> NoMsg]
    ELSE IF StartsPacket(d, m) THEN [d |-> Restart(m), out |-> NoMsg]
    ELSE IF d.frags[m.FragID + 1] # NoMsg THEN [d |-> d, out |-> NoMsg]
    ELSE LET c == Collect(d, m)
         IN  IF c.count = Len(c.frags)
             THEN LET out == Assembled(c, m)
                  IN  [d |-> [c EXCEPT !.frags[m.FragID + 1] = out], out |-> out]
             ELSE [d |-> c, out |-> NoMsg]
=============================================================================
