----------------------------- MODULE PacketQueue -----------------------------
(***************************************************************************)
(* packetNumberIndexedQueue of core/internal/congestion/bbr, on top of its *)
(* RingBuffer, and that the two implement the map of PacketMap.  A slot of *)
(* the ring is [present, entry].                                           *)
(***************************************************************************)
EXTENDS Integers, Sequences, FiniteSetsExt

CONSTANTS
    PacketNumbers,  \* the packet numbers, from 0
    EntryValues,    \* what is stored
    NoEntry,        \* the zero value of an entry
    RingSize        \* the size the ring is made with

ASSUME PacketQueueAssumption ==
    PacketNumbers \subseteq Nat /\ NoEntry \notin EntryValues /\ RingSize \in Nat

VARIABLE pq     \* [ring, size, headPos, tailPos, full, numberOfPresentEntries, firstPacket]

pqVars == pq

invalidPacketNumber == -1
ZeroSlot == [present |-> FALSE, entry |-> NoEntry]

PacketQueueInit ==
    pq = [ring |-> [ i \in 0 .. RingSize - 1 |-> ZeroSlot ], size |-> RingSize, headPos |-> 0,
          tailPos |-> 0, full |-> FALSE, numberOfPresentEntries |-> 0,
          firstPacket |-> invalidPacketNumber]

-----------------------------------------------------------------------------
(***************************************************************************)
(* RingBuffer                                                              *)
(***************************************************************************)

RingLen(q) ==
    IF q.full THEN q.size
    ELSE IF q.tailPos >= q.headPos THEN q.tailPos - q.headPos
    ELSE q.tailPos - q.headPos + q.size

RingEmpty(q) == ~q.full /\ q.headPos = q.tailPos

Offset(q, i) == q.ring[(q.headPos + i) % q.size]

\* grow: twice the size, the elements moved to its beginning.
Grow(q) ==
    LET newSize == IF q.size = 0 THEN 1 ELSE q.size * 2
    IN  [q EXCEPT !.ring = [ i \in 0 .. newSize - 1 |-> IF i < q.size THEN Offset(q, i) ELSE ZeroSlot ],
                  !.size = newSize, !.headPos = 0, !.tailPos = q.size, !.full = FALSE]

PushBack(q, t) ==
    LET g == IF q.full \/ q.size = 0 THEN Grow(q) ELSE q
        tail == IF g.tailPos + 1 = g.size THEN 0 ELSE g.tailPos + 1
    IN  [g EXCEPT !.ring[g.tailPos] = t, !.tailPos = tail, !.full = tail = g.headPos]

PopFront(q) ==
    [q EXCEPT !.full = FALSE, !.ring[q.headPos] = ZeroSlot,
              !.headPos = IF q.headPos + 1 = q.size THEN 0 ELSE q.headPos + 1]

\* An operation on the queue done n times.
Repeat(n, q, Op(_)) == LET t[i \in 0 .. n] == IF i = 0 THEN q ELSE Op(t[i - 1]) IN t[n]

-----------------------------------------------------------------------------
(***************************************************************************)
(* packetNumberIndexedQueue                                                *)
(***************************************************************************)

IsEmpty(q) == q.numberOfPresentEntries = 0

LastPacket(q) == IF IsEmpty(q) THEN invalidPacketNumber ELSE q.firstPacket + RingLen(q) - 1

\* getEntryWraper finds an entry.
Has(q, n) ==
    /\ ~IsEmpty(q) /\ n >= q.firstPacket /\ n - q.firstPacket < RingLen(q)
    /\ Offset(q, n - q.firstPacket).present

\* The first slot leaves the queue.
DropFront(q) ==
    [PopFront(q) EXCEPT !.firstPacket = q.firstPacket + 1,
                        !.numberOfPresentEntries = @ - IF Offset(q, 0).present THEN 1 ELSE 0]

\* clearup: empty slots at the front are dropped.
Clearup(q) ==
    LET k == CHOOSE k \in 0 .. RingLen(q) :
               /\ \A i \in 0 .. k - 1 : ~Offset(q, i).present
               /\ k = RingLen(q) \/ Offset(q, k).present
        d == Repeat(k, q, DropFront)
    IN  IF RingEmpty(d) THEN [d EXCEPT !.firstPacket = invalidPacketNumber] ELSE d

\* Mutant of TooOld: a number can be inserted twice.
OlderThanLast(q, n) == n < LastPacket(q)

\* Emplace takes packets in increasing order only.
TooOld(q, n) == n <= LastPacket(q)

Emplace(n, v) ==
    LET slot == [present |-> TRUE, entry |-> v]
        gap == n - pq.firstPacket - RingLen(pq)
        PushZero(q) == PushBack(q, ZeroSlot)
        filled == Repeat(IF gap > 0 THEN gap ELSE 0, pq, PushZero)
    IN  pq' = IF IsEmpty(pq)
              THEN [PushBack(pq, slot) EXCEPT !.numberOfPresentEntries = 1, !.firstPacket = n]
              ELSE IF TooOld(pq, n) THEN pq
              ELSE [PushBack(filled, slot) EXCEPT !.numberOfPresentEntries = @ + 1]

QueueRemove(n) ==
    LET i == (pq.headPos + n - pq.firstPacket) % pq.size
        r == [pq EXCEPT !.ring[i].present = FALSE, !.numberOfPresentEntries = @ - 1]
    IN  pq' = IF ~Has(pq, n) THEN pq ELSE IF n = pq.firstPacket THEN Clearup(r) ELSE r

RemoveUpTo(n) ==
    LET k == IF pq.firstPacket = invalidPacketNumber \/ n <= pq.firstPacket THEN 0
             ELSE Min({n - pq.firstPacket, RingLen(pq)})
    IN  pq' = Clearup(Repeat(k, pq, DropFront))

PacketQueueNext ==
    \E n \in PacketNumbers :
      \/ \E v \in EntryValues : Emplace(n, v)
      \/ QueueRemove(n) \/ RemoveUpTo(n)

PacketQueueSpec == PacketQueueInit /\ [][PacketQueueNext]_pqVars

-----------------------------------------------------------------------------
(***************************************************************************)
(* Properties                                                              *)
(***************************************************************************)

\* What GetEntry finds.
Contents == [ n \in { n \in PacketNumbers : Has(pq, n) } |-> Offset(pq, n - pq.firstPacket).entry ]

PM == INSTANCE PacketMap WITH pmap <- Contents, plast <- LastPacket(pq)

\* The queue, with its ring, its gaps and its growth, is the map the sampler
\* wants: no operation loses, moves or revives an entry.
QueueIsMap == PM!PMInit /\ [][PM!PMNext]_<<Contents, LastPacket(pq)>>

\* The queue does not hold on to packets that are gone: its first slot is in use,
\* and it is empty when no entry is present (packet_number_indexed_queue.go:16-22).
NoEmptyFront ==
    /\ ~RingEmpty(pq) => Offset(pq, 0).present
    /\ IsEmpty(pq) <=> RingEmpty(pq)
    /\ IsEmpty(pq) <=> pq.firstPacket = invalidPacketNumber
=============================================================================
