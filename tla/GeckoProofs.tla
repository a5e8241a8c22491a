----------------------------- MODULE GeckoProofs ------------------------------
(***************************************************************************)
(* The transport.  First Gecko for any number of peers, packets and chunks. *)
(* The bookkeeping of the receiver: every entry holds as many chunks as it *)
(* says, the counters of the sources are exact and within the limits, and  *)
(* nothing outlives its deadline by more than a period of the collector.   *)
(* Then what is delivered: as long as the 16-bit message ids do not wrap,  *)
(* the chunks of an entry are chunks of one packet, each at its index, so  *)
(* that a full entry is that packet.  Last the BBR sender, for any packets, *)
(* losses, measurements and datagram sizes: its windows and its modes.     *)
(***************************************************************************)
EXTENDS Gecko, BBR, FiniteSetTheorems, WellFoundedInduction, TLAPS

\* What a slot of an entry may hold, and the slots of an entry of any length.
Payloads == {NoChunk} \cup [peer : Peers, pkt : Nat, start : Nat, end : Nat]

ChunkLists == UNION {[0 .. (n - 1) -> Payloads] : n \in Nat}

\* reassemblyEntry; left is the time to its deadline.
EntrySet ==
    [chunks : ChunkLists,
     received : Nat, total : Nat, left : Int]

\* The slots that hold a chunk.
Filled(e) == {i \in 0 .. (e.total - 1) : e.chunks[i] # NoChunk}

\* Frame f is one of packet pkt of peer a, which has len bytes in n chunks.
FrameOf(f, a, pkt, len, n) ==
    /\ f.totalChunks = n /\ f.chunkIdx \in 0 .. (n - 1)
    /\ f.payload = Chunk(a, pkt, f.chunkIdx * (len \div n), ChunkEnd(len, n, f.chunkIdx))

\* The frames of a packet agree on its length and on the number of its chunks.
NetInv ==
    /\ msgID \in [Peers -> 0 .. MaxPackets]
    /\ \A f \in gNet :
         /\ f.addr \in Peers /\ f.payload.pkt \in 1 .. msgID[f.addr]
         /\ f.msgID = f.payload.pkt % MsgIDMod
    /\ \A a \in Peers : \A pkt \in 1 .. msgID[a] :
         \E len \in PacketLens, n \in ChunkCounts :
           \A f \in gNet : f.addr = a /\ f.payload.pkt = pkt => FrameOf(f, a, pkt, len, n)

\* An entry counts its chunks, has at least one, and misses at least one.
TypedEntry(e) ==
    /\ e \in EntrySet /\ e.chunks \in [0 .. (e.total - 1) -> Payloads]
    /\ e.received = Cardinality(Filled(e)) /\ e.received \in 1 .. (e.total - 1)

\* Every entry belongs to a peer, under a message id, and is such an entry.
EntriesInv ==
    /\ IsFiniteSet(DOMAIN reassembly)
    /\ \A k \in DOMAIN reassembly : k \in Peers \X Nat /\ TypedEntry(reassembly[k])

\* The entries of a source.
Of(a, keys) == {k \in keys : k[1] = a}

\* perSource counts the entries of each peer, and both limits hold.
SourcesInv ==
    /\ perSource \in [Peers -> Int]
    /\ \A a \in Peers : perSource[a] = Cardinality(Of(a, DOMAIN reassembly))
                        /\ perSource[a] <= MaxPerSource
    /\ Cardinality(DOMAIN reassembly) <= MaxReassembly

\* Since gcExpired last ran, an entry grew no older than the ticker did.
ExpiryInv ==
    /\ gcIn \in 1 .. GCPeriod
    /\ \A k \in DOMAIN reassembly : reassembly[k].left >= gcIn - GCPeriod

GeckoInv == NetInv /\ EntriesInv /\ SourcesInv /\ ExpiryInv

-----------------------------------------------------------------------------
\* What the sender cuts a packet into: chunk i of n, of that packet.
LEMMA FramesAre ==
    ASSUME NEW a \in Peers, NEW pkt \in Nat, NEW len \in PacketLens, NEW n \in ChunkCounts,
           NEW f \in Frames(a, pkt, len, n)
    PROVE  /\ f.addr = a /\ f.msgID = pkt % MsgIDMod /\ f.payload.pkt = pkt
           /\ FrameOf(f, a, pkt, len, n)
  <1>1. PICK i \in 0 .. (n - 1) :
          f = [addr |-> a, msgID |-> pkt % MsgIDMod, chunkIdx |-> i, totalChunks |-> n,
               payload |-> Chunk(a, pkt, i * (len \div n), ChunkEnd(len, n, i))]
    BY Zenon DEF Frames
  <1> QED BY <1>1, Zenon DEF FrameOf, Chunk

\* What a frame from the network that decodeFrame accepts looks like; noise is
\* not accepted.
LEMMA Accepted ==
    ASSUME GeckoInv, NEW f \in gNet \cup NoiseFrames, DecodeFrame(f)
    PROVE  /\ f \in gNet /\ f.addr \in Peers /\ Key(f) \in Peers \X Nat
           /\ f.totalChunks \in Nat /\ f.totalChunks >= 2
           /\ f.chunkIdx \in 0 .. (f.totalChunks - 1)
           /\ f.payload \in Payloads /\ f.payload # NoChunk
  <1>1. f \in gNet
    BY GeckoAssumption DEF NoiseFrames, DecodeFrame
  <1>2. f.addr \in Peers /\ f.payload.pkt \in 1 .. msgID[f.addr]
        /\ f.msgID = f.payload.pkt % MsgIDMod
    BY <1>1, Zenon DEF GeckoInv, NetInv
  <1>3. PICK len \in PacketLens, n \in ChunkCounts :
          FrameOf(f, f.addr, f.payload.pkt, len, n)
    BY <1>1, <1>2, Zenon DEF GeckoInv, NetInv
  <1>4. n \in Nat /\ n >= 2 /\ len \in Nat
    BY GeckoAssumption
  <1>5. f.payload.pkt \in Nat /\ f.payload.pkt % MsgIDMod \in Nat
    BY <1>2, GeckoAssumption DEF GeckoInv, NetInv
  <1>6. f.payload \in [peer : Peers, pkt : Nat, start : Nat, end : Nat]
    <2>1. f.chunkIdx \in Nat /\ len \div n \in Nat
      BY <1>3, <1>4 DEF FrameOf
    <2>2. f.chunkIdx * (len \div n) \in Nat /\ (f.chunkIdx + 1) * (len \div n) \in Nat
      BY <2>1
    <2>3. ChunkEnd(len, n, f.chunkIdx) \in Nat
      BY <1>4, <2>2, Zenon DEF ChunkEnd
    <2> QED BY <1>2, <1>3, <1>5, <2>2, <2>3 DEF FrameOf, Chunk
  <1>7. f.payload # NoChunk
    BY <1>6 DEF NoChunk
  <1> QED BY <1>1, <1>2, <1>3, <1>4, <1>5, <1>6, <1>7, Zenon DEF FrameOf, Payloads, Key

\* A chunk fills the place of an entry that waits for it.
LEMMA StoredIs ==
    ASSUME NEW e \in EntrySet, e.chunks \in [0 .. (e.total - 1) -> Payloads],
           e.received = Cardinality(Filled(e)),
           NEW f, f.chunkIdx \in 0 .. (e.total - 1), e.chunks[f.chunkIdx] = NoChunk,
           f.payload \in Payloads, f.payload # NoChunk
    PROVE  /\ Stored(e, f) \in EntrySet
           /\ Stored(e, f).total = e.total /\ Stored(e, f).left = e.left
           /\ Stored(e, f).received = e.received + 1
           /\ Stored(e, f).chunks = [e.chunks EXCEPT ![f.chunkIdx] = f.payload]
           /\ Stored(e, f).chunks \in [0 .. (e.total - 1) -> Payloads]
           /\ Stored(e, f).received = Cardinality(Filled(Stored(e, f)))
           /\ Filled(Stored(e, f)) = Filled(e) \cup {f.chunkIdx}
  <1> DEFINE s == Stored(e, f)
             c == [e.chunks EXCEPT ![f.chunkIdx] = f.payload]
  <1>1. /\ c \in [0 .. (e.total - 1) -> Payloads] /\ e.total \in Nat
        /\ e.received \in Nat /\ e.left \in Int
        /\ \A i \in 0 .. (e.total - 1) :
             c[i] = IF i = f.chunkIdx THEN f.payload ELSE e.chunks[i]
    BY Zenon DEF EntrySet
  <1>2. s = [e EXCEPT !.chunks = c, !.received = e.received + 1]
    BY Zenon DEF Stored, EntrySet
  <1>a. c \in ChunkLists
    BY <1>1, Zenon DEF ChunkLists
  <1> HIDE DEF s, c
  <1>3. /\ s.total = e.total /\ s.left = e.left /\ s.received = e.received + 1
        /\ s.chunks = c /\ s \in EntrySet
    <2>1. s = [chunks |-> c, received |-> e.received + 1, total |-> e.total, left |-> e.left]
      BY <1>2, Zenon DEF EntrySet
    <2> QED BY <1>1, <1>a, <2>1 DEF EntrySet
  <1>4. Filled(s) = Filled(e) \cup {f.chunkIdx} /\ f.chunkIdx \notin Filled(e)
    BY <1>1, <1>3 DEF Filled
  <1>5. IsFiniteSet(Filled(e))
    <2>1. 0 \in Int /\ e.total - 1 \in Int
      BY <1>1
    <2>2. IsFiniteSet(0 .. (e.total - 1))
      BY <2>1, FS_Interval, Zenon
    <2> QED BY <2>2, FS_Subset, Zenon DEF Filled
  <1>6. s.received = Cardinality(Filled(s))
    BY <1>3, <1>4, <1>5, FS_AddElement
  <1> QED BY <1>1, <1>3, <1>4, <1>6, Zenon DEF s, c

\* Dropping entries takes them off their sources.
LEMMA Dropped ==
    ASSUME NEW D, IsFiniteSet(D), NEW keys \in SUBSET D, NEW a
    PROVE  /\ IsFiniteSet(D \ keys) /\ IsFiniteSet(Of(a, D)) /\ IsFiniteSet(Of(a, D \ keys))
           /\ Cardinality(Of(a, D \ keys)) = Cardinality(Of(a, D)) - Cardinality(Of(a, keys))
           /\ Cardinality(Of(a, D)) \in Nat /\ Cardinality(Of(a, keys)) \in Nat
           /\ Cardinality(D \ keys) \in Nat /\ Cardinality(D \ keys) <= Cardinality(D)
  <1>1. IsFiniteSet(D \ keys) /\ IsFiniteSet(Of(a, D)) /\ IsFiniteSet(Of(a, keys))
        /\ IsFiniteSet(Of(a, D \ keys)) /\ Cardinality(D \ keys) <= Cardinality(D)
    <2>1. /\ D \ keys \in SUBSET D /\ Of(a, D) \in SUBSET D /\ Of(a, keys) \in SUBSET D
          /\ Of(a, D \ keys) \in SUBSET D
      BY Zenon DEF Of
    <2> QED BY <2>1, FS_Subset, Zenon
  <1>2. Of(a, D \ keys) = Of(a, D) \ Of(a, keys) /\ Of(a, D) \cap Of(a, keys) = Of(a, keys)
    BY Zenon DEF Of
  <1>3. Cardinality(Of(a, D) \ Of(a, keys)) =
          Cardinality(Of(a, D)) - Cardinality(Of(a, D) \cap Of(a, keys))
    BY <1>1, FS_Difference, Zenon
  <1> QED BY <1>1, <1>2, <1>3, FS_CardinalityType, Zenon

-----------------------------------------------------------------------------
\* Nothing was sent, and nothing is being reassembled.
LEMMA GeckoInitInv == GeckoInit => GeckoInv
  <1> SUFFICES ASSUME GeckoInit PROVE GeckoInv
    OBVIOUS
  <1>1. DOMAIN reassembly = {}
    BY DEF GeckoInit
  <1>2. NetInv
    BY GeckoAssumption DEF GeckoInit, NetInv
  <1>3. \A a \in Peers : Of(a, DOMAIN reassembly) = {}
    BY <1>1, Zenon DEF Of
  <1>4. EntriesInv /\ ExpiryInv
    BY <1>1, FS_EmptySet, GeckoAssumption DEF GeckoInit, EntriesInv, ExpiryInv
  <1>5. SourcesInv
    <2>1. Cardinality({}) = 0 /\ MaxPerSource \in Nat /\ MaxReassembly \in Nat
      BY FS_EmptySet, GeckoAssumption, Zenon
    <2>2. perSource \in [Peers -> Int] /\ \A a \in Peers : perSource[a] = 0
      BY DEF GeckoInit
    <2>3. Cardinality(DOMAIN reassembly) = 0
          /\ \A a \in Peers : Cardinality(Of(a, DOMAIN reassembly)) = 0
      BY <1>1, <1>3, <2>1, Zenon
    <2> QED BY <2>1, <2>2, <2>3 DEF SourcesInv
  <1> QED BY <1>2, <1>4, <1>5, Zenon DEF GeckoInv

\* Frames of a new packet are told from those sent before by its number.
LEMMA WriteStep ==
    ASSUME GeckoInv, NEW a \in Peers, NEW len \in PacketLens, NEW n \in ChunkCounts,
           GeckoWrite(a, len, n)
    PROVE  GeckoInv'
  <1>1. /\ msgID[a] < MaxPackets /\ msgID' = [msgID EXCEPT ![a] = @ + 1]
        /\ gNet' = gNet \cup Frames(a, msgID[a] + 1, len, n)
        /\ UNCHANGED <<reassembly, perSource, gcIn>>
    BY Zenon DEF GeckoWrite
  <1>2. PICK p \in Nat : p = msgID[a] + 1
    BY DEF GeckoInv, NetInv
  <1>3. /\ msgID' \in [Peers -> 0 .. MaxPackets] /\ msgID'[a] = p
        /\ \A b \in Peers : b # a => msgID'[b] = msgID[b]
    BY <1>1, <1>2, GeckoAssumption DEF GeckoInv, NetInv
  <1>4. \A f \in Frames(a, p, len, n) :
          /\ f.addr = a /\ f.msgID = p % MsgIDMod /\ f.payload.pkt = p
          /\ FrameOf(f, a, p, len, n)
    BY <1>2, FramesAre
  <1>5. ASSUME NEW f \in gNet'
        PROVE  /\ f.addr \in Peers /\ f.payload.pkt \in 1 .. msgID'[f.addr]
               /\ f.msgID = f.payload.pkt % MsgIDMod
    <2>1. CASE f \in gNet
      <3>1. /\ f.addr \in Peers /\ f.payload.pkt \in 1 .. msgID[f.addr]
            /\ f.msgID = f.payload.pkt % MsgIDMod
        BY <2>1, Zenon DEF GeckoInv, NetInv
      <3>2. msgID[f.addr] \in Int /\ msgID'[f.addr] \in Int /\ msgID[f.addr] <= msgID'[f.addr]
        BY <1>2, <1>3, <3>1 DEF GeckoInv, NetInv
      <3> QED BY <3>1, <3>2
    <2>2. CASE f \in Frames(a, p, len, n)
      BY <1>2, <1>3, <1>4, <2>2 DEF GeckoInv, NetInv
    <2> QED BY <1>1, <1>2, <2>1, <2>2, Zenon
  <1>6. ASSUME NEW b \in Peers, NEW q \in 1 .. msgID'[b]
        PROVE  \E l \in PacketLens, c \in ChunkCounts :
                 \A f \in gNet' : f.addr = b /\ f.payload.pkt = q => FrameOf(f, b, q, l, c)
    <2>1. CASE b = a /\ q = p
      <3>1. \A f \in gNet : ~(f.addr = a /\ f.payload.pkt = p)
        BY <1>2 DEF GeckoInv, NetInv
      <3>2. \A f \in gNet' : f.addr = b /\ f.payload.pkt = q => FrameOf(f, b, q, len, n)
        BY <1>1, <1>2, <1>4, <2>1, <3>1, Zenon
      <3> QED BY <3>2, Zenon
    <2>2. CASE ~(b = a /\ q = p)
      <3>1. q \in 1 .. msgID[b]
        BY <1>2, <1>3, <2>2 DEF GeckoInv, NetInv
      <3>2. PICK l \in PacketLens, c \in ChunkCounts :
              \A f \in gNet : f.addr = b /\ f.payload.pkt = q => FrameOf(f, b, q, l, c)
        BY <3>1, Zenon DEF GeckoInv, NetInv
      <3>3. \A f \in gNet' : f.addr = b /\ f.payload.pkt = q => f \in gNet
        BY <1>1, <1>2, <1>4, <2>2, Zenon
      <3> QED BY <3>2, <3>3, Zenon
    <2> QED BY <2>1, <2>2, Zenon
  <1>7. NetInv'
    BY <1>3, <1>5, <1>6, Zenon DEF NetInv
  <1>8. (EntriesInv /\ SourcesInv /\ ExpiryInv)'
    BY <1>1, Zenon DEF GeckoInv, EntriesInv, SourcesInv, ExpiryInv
  <1> QED BY <1>7, <1>8, Zenon DEF GeckoInv

\* The first chunk of a message: what is evicted and the new entry are counted.
LEMMA FirstChunkStep ==
    ASSUME GeckoInv, NEW f \in gNet \cup NoiseFrames, GeckoFirstChunk(f)
    PROVE  GeckoInv'
  <1> USE DEF GeckoInv
  <1>1. /\ f \in gNet /\ f.addr \in Peers /\ Key(f) \in Peers \X Nat
        /\ f.totalChunks \in Nat /\ f.totalChunks >= 2
        /\ f.chunkIdx \in 0 .. (f.totalChunks - 1)
        /\ f.payload \in Payloads /\ f.payload # NoChunk
    BY Accepted, Zenon DEF GeckoFirstChunk
  <1> DEFINE fresh == [chunks |-> [i \in 0 .. (f.totalChunks - 1) |-> NoChunk],
                       received |-> 0, total |-> f.totalChunks, left |-> ReassemblyTTL]
             D == DOMAIN reassembly
             new == Stored(fresh, f)
  <1>k. PICK key \in Peers \X Nat : key = Key(f)
    BY <1>1, Zenon
  <1>a. f.chunkIdx < f.totalChunks
    BY <1>1
  <1>b. /\ key \notin D /\ perSource[f.addr] < MaxPerSource
        /\ UNCHANGED <<msgID, gNet, gcIn>>
    BY <1>k, Zenon DEF GeckoFirstChunk
  <1>2. PICK old \in Evicted :
          /\ reassembly' = [k \in (D \ old) \cup {Key(f)} |->
                              IF k # Key(f) THEN reassembly[k]
                              ELSE IF f.chunkIdx < f.totalChunks THEN new ELSE fresh]
          /\ perSource' = [SourcesWithout(old) EXCEPT ![f.addr] = @ + 1]
    BY Zenon DEF GeckoFirstChunk
  <1>3. old \in SUBSET D /\ (Cardinality(D) >= MaxReassembly => \E k \in D : old = {k})
    BY <1>b, <1>2, Zenon DEF Evicted, Oldest
  <1>4. TypedEntry(new) /\ new.left = ReassemblyTTL
    <2>1. /\ fresh.total = f.totalChunks /\ fresh.received = 0 /\ fresh.left = ReassemblyTTL
          /\ fresh.chunks = [i \in 0 .. (f.totalChunks - 1) |-> NoChunk]
      OBVIOUS
    <2>2. fresh.chunks \in [0 .. (fresh.total - 1) -> Payloads]
      BY <2>1, Zenon DEF Payloads
    <2>3. fresh \in EntrySet
      <3>1. [i \in 0 .. (f.totalChunks - 1) |-> NoChunk] \in
              ChunkLists
        BY <1>1 DEF Payloads, ChunkLists
      <3> QED BY <1>1, <3>1, GeckoAssumption DEF EntrySet
    <2>4. Filled(fresh) = {} /\ fresh.received = Cardinality(Filled(fresh))
      BY <2>1, FS_EmptySet, Zenon DEF Filled
    <2>5. f.chunkIdx \in 0 .. (fresh.total - 1) /\ fresh.chunks[f.chunkIdx] = NoChunk
      BY <1>1, <2>1, Zenon
    <2> HIDE DEF fresh
    <2>6. /\ new \in EntrySet /\ new.total = fresh.total /\ new.left = fresh.left
          /\ new.received = fresh.received + 1
          /\ new.chunks \in [0 .. (fresh.total - 1) -> Payloads]
          /\ new.received = Cardinality(Filled(new))
      BY <1>1, <2>2, <2>3, <2>4, <2>5, StoredIs, Zenon
    <2> HIDE DEF new
    <2> QED BY <1>1, <2>1, <2>6 DEF TypedEntry
  <1> HIDE DEF new, fresh
  <1>5. /\ DOMAIN reassembly' = (D \ old) \cup {key} /\ reassembly'[key] = new
        /\ \A k \in D \ old : reassembly'[k] = reassembly[k]
    BY <1>k, <1>b, <1>2, <1>a, Zenon
  <1>6. IsFiniteSet(D \ old) /\ key \notin D \ old
    BY <1>k, <1>b, <1>2, <1>3, Dropped, Zenon DEF EntriesInv
  <1>7. EntriesInv'
    BY <1>1, <1>k, <1>b, <1>2, <1>3, <1>4, <1>5, <1>6, FS_AddElement DEF EntriesInv
  <1>8. ExpiryInv'
    <2>1. ReassemblyTTL >= gcIn - GCPeriod /\ gcIn' = gcIn
      BY <1>k, <1>b, <1>2, GeckoAssumption DEF ExpiryInv
    <2> QED BY <1>3, <1>4, <1>5, <2>1, Zenon DEF ExpiryInv
  <1>9. ASSUME NEW a \in Peers
        PROVE  /\ perSource'[a] = Cardinality(Of(a, DOMAIN reassembly'))
               /\ perSource'[a] <= MaxPerSource
    <2>1. /\ Cardinality(Of(a, D \ old)) = perSource[a] - Cardinality(Of(a, old))
          /\ IsFiniteSet(Of(a, D \ old))
          /\ Cardinality(Of(a, old)) \in Nat /\ perSource[a] \in Nat
          /\ perSource[a] <= MaxPerSource
      <3>1. IsFiniteSet(D) /\ perSource[a] = Cardinality(Of(a, D)) /\ perSource[a] <= MaxPerSource
        BY Zenon DEF EntriesInv, SourcesInv
      <3> HIDE DEF D
      <3>2. /\ IsFiniteSet(Of(a, D \ old))
            /\ Cardinality(Of(a, D \ old)) = Cardinality(Of(a, D)) - Cardinality(Of(a, old))
            /\ Cardinality(Of(a, D)) \in Nat /\ Cardinality(Of(a, old)) \in Nat
        BY <1>3, <3>1, Dropped
      <3> QED BY <3>1, <3>2, Zenon
    <2>2. perSource'[a] = perSource[a] - Cardinality(Of(a, old)) + (IF a = f.addr THEN 1 ELSE 0)
      BY <1>1, <1>k, <1>b, <1>2, <2>1 DEF SourcesWithout, Of
    <2>3. CASE a = f.addr
      <3>1. Of(a, DOMAIN reassembly') = Of(a, D \ old) \cup {key} /\ key \notin Of(a, D \ old)
        BY <1>k, <1>5, <1>6, <2>3 DEF Of, Key
      <3>2. Cardinality(Of(a, DOMAIN reassembly')) = Cardinality(Of(a, D \ old)) + 1
        BY <2>1, <3>1, FS_AddElement, Zenon
      <3>3. perSource[a] < MaxPerSource
        BY <1>k, <1>b, <1>2, <2>3, Zenon
      <3> QED BY <2>1, <2>2, <2>3, <3>2, <3>3, GeckoAssumption
    <2>4. CASE a # f.addr
      <3>1. Of(a, DOMAIN reassembly') = Of(a, D \ old)
        BY <1>k, <1>5, <2>4 DEF Of, Key
      <3> QED BY <2>1, <2>2, <2>4, <3>1, GeckoAssumption
    <2> QED BY <2>3, <2>4, Zenon
  <1>10. Cardinality(DOMAIN reassembly') <= MaxReassembly
    <2>1. /\ Cardinality(DOMAIN reassembly') = Cardinality(D \ old) + 1
          /\ Cardinality(D) \in Nat /\ Cardinality(D \ old) \in Nat
          /\ Cardinality(D \ old) <= Cardinality(D) /\ Cardinality(D) <= MaxReassembly
      BY <1>3, <1>5, <1>6, FS_AddElement, FS_CardinalityType, Dropped DEF EntriesInv, SourcesInv
    <2>2. CASE Cardinality(D) >= MaxReassembly
      <3>1. PICK k \in D : old = {k}
        BY <1>3, <2>2, Zenon
      <3>2. Cardinality(D \ old) = Cardinality(D) - 1
        BY <3>1, FS_RemoveElement, Zenon DEF EntriesInv
      <3> QED BY <2>1, <3>2, GeckoAssumption
    <2> QED BY <2>1, <2>2, GeckoAssumption
  <1>11. SourcesInv'
    <2>1. perSource' \in [Peers -> Int]
      <3>1. \A a \in Peers : Cardinality(Of(a, old)) \in Nat
        BY <1>3, Dropped, Zenon DEF EntriesInv
      <3>2. \A a \in Peers : perSource[a] - Cardinality(Of(a, old)) \in Int
        BY <3>1 DEF SourcesInv
      <3>3. SourcesWithout(old) \in [Peers -> Int]
        BY <3>2, Zenon DEF SourcesWithout, Of
      <3> QED BY <1>1, <1>k, <1>b, <1>2, <3>3
    <2> QED BY <1>9, <1>10, <2>1, Zenon DEF SourcesInv
  <1>12. NetInv'
    BY <1>b, <1>2, Zenon DEF NetInv
  <1> QED BY <1>7, <1>8, <1>11, <1>12, Zenon

\* What dropping entries leaves, when the others keep what they hold.
LEMMA DropStep ==
    ASSUME GeckoInv, NEW keys \in SUBSET DOMAIN reassembly,
           perSource' = SourcesWithout(keys), DOMAIN reassembly' = DOMAIN reassembly \ keys
    PROVE  SourcesInv' /\ IsFiniteSet(DOMAIN reassembly')
  <1> USE DEF GeckoInv
  <1>1. ASSUME NEW a \in Peers
        PROVE  /\ perSource'[a] = Cardinality(Of(a, DOMAIN reassembly'))
               /\ perSource'[a] <= MaxPerSource /\ perSource'[a] \in Int
    <2>1. /\ Cardinality(Of(a, DOMAIN reassembly \ keys)) =
               perSource[a] - Cardinality(Of(a, keys))
          /\ Cardinality(Of(a, keys)) \in Nat /\ perSource[a] \in Nat
          /\ perSource[a] <= MaxPerSource
      <3>1. /\ IsFiniteSet(DOMAIN reassembly) /\ perSource[a] <= MaxPerSource
            /\ perSource[a] = Cardinality(Of(a, DOMAIN reassembly))
        BY Zenon DEF EntriesInv, SourcesInv
      <3>2. /\ Cardinality(Of(a, DOMAIN reassembly \ keys)) =
                 Cardinality(Of(a, DOMAIN reassembly)) - Cardinality(Of(a, keys))
            /\ Cardinality(Of(a, DOMAIN reassembly)) \in Nat /\ Cardinality(Of(a, keys)) \in Nat
        BY <3>1, Dropped
      <3> QED BY <3>1, <3>2, Zenon
    <2>2. perSource'[a] = perSource[a] - Cardinality(Of(a, keys))
      BY Zenon DEF SourcesWithout, Of
    <2> QED BY <2>1, <2>2, GeckoAssumption
  <1>2. perSource' \in [Peers -> Int]
    BY <1>1, Zenon DEF SourcesWithout
  <1>3. /\ IsFiniteSet(DOMAIN reassembly \ keys)
        /\ Cardinality(DOMAIN reassembly \ keys) \in Nat
        /\ Cardinality(DOMAIN reassembly) \in Nat
        /\ Cardinality(DOMAIN reassembly \ keys) <= Cardinality(DOMAIN reassembly)
    BY Dropped, FS_CardinalityType, Zenon DEF EntriesInv
  <1>4. Cardinality(DOMAIN reassembly') <= MaxReassembly
    BY <1>3, GeckoAssumption DEF SourcesInv
  <1> QED BY <1>1, <1>2, <1>3, <1>4, Zenon DEF SourcesInv

\* A further chunk fills a place that was empty; the last one takes the entry away.
LEMMA NextChunkStep ==
    ASSUME GeckoInv, NEW f \in gNet \cup NoiseFrames, GeckoNextChunk(f)
    PROVE  GeckoInv'
  <1> USE DEF GeckoInv
  <1>1. /\ f \in gNet /\ f.addr \in Peers /\ Key(f) \in Peers \X Nat
        /\ f.totalChunks \in Nat /\ f.totalChunks >= 2
        /\ f.chunkIdx \in 0 .. (f.totalChunks - 1)
        /\ f.payload \in Payloads /\ f.payload # NoChunk
    BY Accepted, Zenon DEF GeckoNextChunk
  <1>2. PICK key \in DOMAIN reassembly : key = Key(f)
    BY Zenon DEF GeckoNextChunk
  <1> DEFINE e == reassembly[key]
             s == Stored(e, f)
  <1>3. /\ e.total = f.totalChunks /\ e.chunks[f.chunkIdx] = NoChunk
        /\ UNCHANGED <<msgID, gNet, gcIn>>
        /\ IF s.received < s.total
           THEN reassembly' = [reassembly EXCEPT ![key] = s] /\ perSource' = perSource
           ELSE reassembly' = Without({key}) /\ perSource' = SourcesWithout({key})
    BY <1>2, Zenon DEF GeckoNextChunk, Wanted
  <1>4. TypedEntry(e) /\ key \in Peers \X Nat
    BY Zenon DEF EntriesInv
  <1>5. /\ s \in EntrySet /\ s.total = e.total /\ s.left = e.left
        /\ s.received = e.received + 1
        /\ s.chunks \in [0 .. (e.total - 1) -> Payloads]
        /\ s.received = Cardinality(Filled(s))
    <2> HIDE DEF e
    <2> QED BY <1>1, <1>3, <1>4, StoredIs, Zenon DEF TypedEntry
  <1>6. e.received \in Nat /\ e.total \in Nat
    BY <1>4, Zenon DEF TypedEntry, EntrySet
  <1>7. NetInv'
    BY <1>3, Zenon DEF NetInv
  <1> HIDE DEF e, s
  <1>8. CASE s.received < s.total
    <2>1. TypedEntry(s)
      BY <1>5, <1>6, <1>8 DEF TypedEntry
    <2>2. /\ DOMAIN reassembly' = DOMAIN reassembly /\ reassembly'[key] = s
          /\ \A k \in DOMAIN reassembly : k # key => reassembly'[k] = reassembly[k]
          /\ perSource' = perSource
      BY <1>3, <1>8, Zenon
    <2>3. EntriesInv'
      BY <1>4, <2>1, <2>2, Zenon DEF EntriesInv
    <2>4. SourcesInv'
      BY <2>2, Zenon DEF SourcesInv
    <2>5. ExpiryInv'
      <3>1. \A k \in DOMAIN reassembly : reassembly'[k].left = reassembly[k].left
        BY <1>5, <2>2, Zenon DEF e
      <3> QED BY <1>3, <2>2, <3>1, Zenon DEF ExpiryInv
    <2> QED BY <1>7, <2>3, <2>4, <2>5, Zenon
  <1>9. CASE ~(s.received < s.total)
    <2>1. /\ DOMAIN reassembly' = DOMAIN reassembly \ {key}
          /\ \A k \in DOMAIN reassembly' : reassembly'[k] = reassembly[k]
          /\ perSource' = SourcesWithout({key})
      BY <1>3, <1>9, Zenon DEF Without
    <2>2. SourcesInv' /\ IsFiniteSet(DOMAIN reassembly')
      BY <2>1, DropStep, Zenon
    <2>3. EntriesInv'
      BY <2>1, <2>2, Zenon DEF EntriesInv
    <2>4. ExpiryInv'
      BY <1>3, <2>1, Zenon DEF ExpiryInv
    <2> QED BY <1>7, <2>2, <2>3, <2>4, Zenon
  <1> QED BY <1>8, <1>9, Zenon

\* gcExpired runs often enough: an entry that outlives it is not past its deadline.
LEMMA GeckoTickStep == ASSUME GeckoInv, GeckoTick PROVE GeckoInv'
  <1> USE DEF GeckoInv
  <1> DEFINE aged == [k \in DOMAIN reassembly |-> [reassembly[k] EXCEPT !.left = @ - 1]]
  <1>1. PICK dead \in SUBSET DOMAIN reassembly :
          /\ dead = {k \in DOMAIN aged : gcIn = 1 /\ Expired(aged[k])}
          /\ reassembly' = [k \in DOMAIN aged \ dead |-> aged[k]]
          /\ perSource' = SourcesWithout(dead)
    BY Zenon DEF GeckoTick
  <1>2. /\ gcIn' = IF gcIn = 1 THEN GCPeriod ELSE gcIn - 1
        /\ UNCHANGED <<msgID, gNet>>
    BY Zenon DEF GeckoTick
  <1>3. /\ DOMAIN reassembly' = DOMAIN reassembly \ dead
        /\ \A k \in DOMAIN reassembly' :
             /\ reassembly'[k] = [reassembly[k] EXCEPT !.left = @ - 1]
             /\ gcIn = 1 => ~([reassembly[k] EXCEPT !.left = @ - 1].left < 0)
    BY <1>1, Zenon DEF Expired
  <1>4. SourcesInv' /\ IsFiniteSet(DOMAIN reassembly')
    BY <1>1, <1>3, DropStep, Zenon
  <1>5. ASSUME NEW k \in DOMAIN reassembly'
        PROVE  /\ reassembly'[k] \in EntrySet
               /\ reassembly'[k].chunks = reassembly[k].chunks
               /\ reassembly'[k].received = reassembly[k].received
               /\ reassembly'[k].total = reassembly[k].total
               /\ reassembly'[k].left = reassembly[k].left - 1
               /\ reassembly[k].left \in Int
               /\ TypedEntry(reassembly[k]) /\ k \in Peers \X Nat
    <2>1. TypedEntry(reassembly[k]) /\ k \in Peers \X Nat
      BY <1>3, Zenon DEF EntriesInv
    <2> QED BY <1>3, <2>1 DEF TypedEntry, EntrySet
  <1>6. ASSUME NEW k \in DOMAIN reassembly'
        PROVE  k \in Peers \X Nat /\ TypedEntry(reassembly'[k])
    <2>1. Filled(reassembly'[k]) = Filled(reassembly[k])
      BY <1>5, Zenon DEF Filled
    <2> QED BY <1>5, <2>1, Zenon DEF TypedEntry
  <1>7. EntriesInv'
    BY <1>4, <1>6, Zenon DEF EntriesInv
  <1>8. ExpiryInv'
    <2>1. gcIn' \in 1 .. GCPeriod
      BY <1>2, GeckoAssumption DEF ExpiryInv
    <2>2. ASSUME NEW k \in DOMAIN reassembly' PROVE reassembly'[k].left >= gcIn' - GCPeriod
      <3>1. reassembly[k].left >= gcIn - GCPeriod /\ (gcIn = 1 => ~(reassembly'[k].left < 0))
        BY <1>3, Zenon DEF ExpiryInv
      <3> QED BY <1>2, <1>5, <3>1, GeckoAssumption DEF ExpiryInv
    <2> QED BY <2>1, <2>2, Zenon DEF ExpiryInv
  <1>9. NetInv'
    BY <1>2, Zenon DEF NetInv
  <1> QED BY <1>4, <1>7, <1>8, <1>9, Zenon

\* Every step keeps the bookkeeping of the sender and of the receiver.
LEMMA GeckoInvKept == GeckoInv /\ [GeckoNext]_geckoVars => GeckoInv'
  <1> SUFFICES ASSUME GeckoInv, [GeckoNext]_geckoVars PROVE GeckoInv'
    OBVIOUS
  <1>1. ASSUME NEW a \in Peers, NEW len \in PacketLens, NEW n \in ChunkCounts,
               GeckoWrite(a, len, n)
        PROVE  GeckoInv'
    BY <1>1, WriteStep, Zenon
  <1>2. ASSUME NEW f \in gNet \cup NoiseFrames, GeckoFirstChunk(f) PROVE GeckoInv'
    BY <1>2, FirstChunkStep, Zenon
  <1>3. ASSUME NEW f \in gNet \cup NoiseFrames, GeckoNextChunk(f) PROVE GeckoInv'
    BY <1>3, NextChunkStep, Zenon
  <1>4. CASE GeckoTick
    BY <1>4, GeckoTickStep, Zenon
  <1>5. CASE GeckoClose \/ UNCHANGED geckoVars
    <2>1. UNCHANGED <<msgID, gNet, reassembly, perSource, gcIn>>
      BY <1>5, Zenon DEF GeckoClose, geckoVars
    <2> QED BY <2>1, Zenon DEF GeckoInv, NetInv, EntriesInv, SourcesInv, ExpiryInv
  <1> QED BY <1>1, <1>2, <1>3, <1>4, <1>5, Zenon DEF GeckoNext

\* The bookkeeping is what the three properties of the run ask for.
LEMMA GeckoInvIs == GeckoInv => SourcesExact /\ EntriesPartial /\ EntriesExpire
  <1> SUFFICES ASSUME GeckoInv PROVE SourcesExact /\ EntriesPartial /\ EntriesExpire
    OBVIOUS
  <1>1. SourcesExact
    BY Zenon DEF GeckoInv, SourcesInv, SourcesExact, Of
  <1>2. EntriesPartial
    BY Zenon DEF GeckoInv, EntriesInv, TypedEntry, Filled, EntriesPartial
  <1>3. EntriesExpire
    <2>1. ASSUME NEW k \in DOMAIN reassembly PROVE reassembly[k].left > -GCPeriod
      <3>1. reassembly[k].left >= gcIn - GCPeriod /\ reassembly[k].left \in Int
        BY Zenon DEF GeckoInv, EntriesInv, ExpiryInv, TypedEntry, EntrySet
      <3> QED BY <3>1, GeckoAssumption DEF GeckoInv, ExpiryInv
    <2> QED BY <2>1, Zenon DEF EntriesExpire
  <1> QED BY <1>1, <1>2, <1>3, Zenon

-----------------------------------------------------------------------------
\* Frame f is chunk i of packet pkt of peer a, which has n chunks.
ChunkOf(f, a, pkt, n, i) ==
    f.addr = a /\ f.payload.pkt = pkt /\ f.totalChunks = n /\ f.chunkIdx = i

\* The chunks an entry holds are of one packet, with the number in its key.
EntryOf(k, e) ==
    \E pkt \in 1 .. msgID[k[1]] :
      /\ pkt % MsgIDMod = k[2]
      /\ \A i \in Filled(e) :
           \E f \in gNet : ChunkOf(f, k[1], pkt, e.total, i) /\ f.payload = e.chunks[i]

OutInv ==
    gOut # <<>> =>
      \E a \in Peers, pkt \in Nat, len \in PacketLens, n \in ChunkCounts :
        gOut = [i \in 1 .. n |->
                  Chunk(a, pkt, (i - 1) * (len \div n), ChunkEnd(len, n, i - 1))]

WholeInv == (\A k \in DOMAIN reassembly : EntryOf(k, reassembly[k])) /\ OutInv

\* Numbers that did not come round tell packets apart.
LEMMA NumbersTell ==
    ASSUME NEW M \in Nat \ {0}, NEW p \in 1 .. M, NEW q \in 1 .. M, p % M = q % M
    PROVE  p = q
  <1>1. \A x \in 1 .. M : x % M = IF x = M THEN 0 ELSE x
    <2>1. ASSUME NEW x \in 1 .. M, x # M PROVE x % M = x
      BY <2>1
    <2>2. M % M = 0
      OBVIOUS
    <2> QED BY <2>1, <2>2, Zenon
  <1> QED BY <1>1

\* More frames and higher numbers leave an entry what it is.
LEMMA EntryStays ==
    ASSUME GeckoInv, NEW k, k[1] \in Peers, NEW e, EntryOf(k, e),
           NEW d, d.total = e.total, d.chunks = e.chunks,
           gNet \subseteq gNet', \A a \in Peers : msgID'[a] \in Nat /\ msgID[a] <= msgID'[a]
    PROVE  EntryOf(k, d)'
  <1>1. PICK pkt \in 1 .. msgID[k[1]] :
          /\ pkt % MsgIDMod = k[2]
          /\ \A i \in Filled(e) :
               \E f \in gNet : ChunkOf(f, k[1], pkt, e.total, i) /\ f.payload = e.chunks[i]
    BY Zenon DEF EntryOf
  <1>2. pkt \in 1 .. msgID'[k[1]]
    BY DEF GeckoInv, NetInv
  <1>3. Filled(d) = Filled(e)
    BY Zenon DEF Filled
  <1> QED BY <1>1, <1>2, <1>3 DEF EntryOf

\* Reassembly takes the chunks of one packet together while numbers tell packets
\* apart, and hands the packet on only when it has them all.
LEMMA WholeNextChunk ==
    ASSUME MaxPackets <= MsgIDMod, GeckoInv, WholeInv,
           NEW f \in gNet \cup NoiseFrames, GeckoNextChunk(f)
    PROVE  WholeInv'
  <1> USE DEF GeckoInv
  <1>1. /\ f \in gNet /\ f.addr \in Peers /\ Key(f) \in Peers \X Nat
        /\ f.totalChunks \in Nat /\ f.totalChunks >= 2
        /\ f.chunkIdx \in 0 .. (f.totalChunks - 1)
        /\ f.payload \in Payloads /\ f.payload # NoChunk
    BY Accepted, Zenon DEF GeckoNextChunk
  <1>2. PICK key \in DOMAIN reassembly : key = Key(f)
    BY Zenon DEF GeckoNextChunk
  <1>e. PICK e : e = reassembly[key]
    OBVIOUS
  <1> DEFINE s == Stored(e, f)
  <1>3. /\ e.total = f.totalChunks /\ e.chunks[f.chunkIdx] = NoChunk
        /\ UNCHANGED <<msgID, gNet, gcIn>>
        /\ IF s.received < s.total
           THEN reassembly' = [reassembly EXCEPT ![key] = s] /\ gOut' = gOut
           ELSE /\ gOut' = [i \in 1 .. s.total |-> s.chunks[i - 1]]
                /\ reassembly' = Without({key})
    BY <1>2, <1>e, Zenon DEF GeckoNextChunk, Wanted
  <1>4. TypedEntry(e) /\ key[1] = f.addr /\ key[2] = f.msgID
    BY <1>2, <1>e, Zenon DEF EntriesInv, Key
  <1>5. /\ s.total = e.total /\ s.received = e.received + 1
        /\ s.chunks = [e.chunks EXCEPT ![f.chunkIdx] = f.payload]
        /\ s.received = Cardinality(Filled(s)) /\ Filled(s) = Filled(e) \cup {f.chunkIdx}
    BY <1>1, <1>3, <1>4, StoredIs DEF TypedEntry
  <1>6. e.received \in Nat /\ e.total \in Nat /\ e.chunks \in [0 .. (e.total - 1) -> Payloads]
        /\ e.received < e.total
    BY <1>4 DEF TypedEntry, EntrySet
  <1> HIDE DEF s
  <1>7. PICK pkt \in 1 .. msgID[key[1]] :
          /\ pkt % MsgIDMod = key[2]
          /\ \A i \in Filled(e) :
               \E g \in gNet : ChunkOf(g, key[1], pkt, e.total, i) /\ g.payload = e.chunks[i]
    BY <1>e, Zenon DEF WholeInv, EntryOf
  <1>8. f.payload.pkt = pkt
    <2>1. /\ f.payload.pkt \in 1 .. msgID[f.addr] /\ f.msgID = f.payload.pkt % MsgIDMod
          /\ msgID[f.addr] \in 0 .. MaxPackets
      BY <1>1, Zenon DEF NetInv
    <2>2. MsgIDMod \in Nat \ {0} /\ MaxPackets \in Nat
      BY GeckoAssumption, Zenon
    <2>3. f.payload.pkt \in 1 .. MsgIDMod /\ pkt \in 1 .. MsgIDMod
      BY <1>4, <2>1, <2>2
    <2> QED BY <1>4, <1>7, <2>1, <2>2, <2>3, NumbersTell
  <1>9. \A i \in Filled(s) :
          \E g \in gNet : ChunkOf(g, key[1], pkt, s.total, i) /\ g.payload = s.chunks[i]
    <2>1. ASSUME NEW i \in Filled(e), i # f.chunkIdx
          PROVE  \E g \in gNet : ChunkOf(g, key[1], pkt, s.total, i) /\ g.payload = s.chunks[i]
      <3>1. PICK g \in gNet : ChunkOf(g, key[1], pkt, e.total, i) /\ g.payload = e.chunks[i]
        BY <1>7, Zenon
      <3>2. s.chunks[i] = e.chunks[i] /\ s.total = e.total
        BY <1>5, <1>6, <2>1, Zenon DEF Filled
      <3> QED BY <3>1, <3>2, Zenon
    <2>2. ChunkOf(f, key[1], pkt, s.total, f.chunkIdx) /\ f.payload = s.chunks[f.chunkIdx]
      BY <1>1, <1>3, <1>4, <1>5, <1>6, <1>8, Zenon DEF ChunkOf
    <2> QED BY <1>1, <1>5, <2>1, <2>2, Zenon
  <1>10. ASSUME NEW k \in DOMAIN reassembly, k # key PROVE EntryOf(k, reassembly[k])'
                                                     \/ k \notin DOMAIN reassembly'
    <2>1. k \in DOMAIN reassembly' => reassembly'[k] = reassembly[k]
      BY <1>3, <1>10, Zenon DEF Without
    <2> QED BY <1>3, <2>1 DEF WholeInv, EntryOf
  <1>11. CASE s.received < s.total
    <2>1. /\ DOMAIN reassembly' = DOMAIN reassembly /\ reassembly'[key] = s /\ gOut' = gOut
      BY <1>3, <1>11, Zenon
    <2>2. EntryOf(key, reassembly[key])'
      BY <1>3, <1>7, <1>9, <2>1, Zenon DEF EntryOf
    <2>3. OutInv'
      BY <2>1 DEF WholeInv, OutInv
    <2> QED BY <1>10, <2>1, <2>2, <2>3, Zenon DEF WholeInv
  <1>12. CASE ~(s.received < s.total)
    <2>1. DOMAIN reassembly' = DOMAIN reassembly \ {key}
          /\ gOut' = [i \in 1 .. s.total |-> s.chunks[i - 1]]
      BY <1>3, <1>12, Zenon DEF Without
    <2>2. Filled(s) = 0 .. (s.total - 1)
      <3>1. s.total \in Nat /\ s.received = s.total
        BY <1>5, <1>6, <1>12
      <3>2. 0 \in Int /\ s.total - 1 \in Int /\ Filled(s) \in SUBSET (0 .. (s.total - 1))
        BY <3>1 DEF Filled
      <3>3. IsFiniteSet(0 .. (s.total - 1)) /\ Cardinality(0 .. (s.total - 1)) = s.total
        <4>1. /\ IsFiniteSet(0 .. (s.total - 1))
              /\ Cardinality(0 .. (s.total - 1)) =
                   IF 0 > s.total - 1 THEN 0 ELSE (s.total - 1) - 0 + 1
          BY <3>2, FS_Interval, Zenon
        <4> QED BY <3>1, <4>1
      <3> QED BY <1>5, <3>1, <3>2, <3>3, FS_Subset, Zenon
    <2>3. PICK a \in Peers : a = key[1]
      BY <1>1, <1>4, Zenon
    <2>4. PICK len \in PacketLens, n \in ChunkCounts :
            \A g \in gNet : g.addr = a /\ g.payload.pkt = pkt => FrameOf(g, a, pkt, len, n)
      BY <1>7, <2>3, Zenon DEF NetInv
    <2>5. s.total = n
      BY <1>1, <1>3, <1>4, <1>5, <1>8, <2>3, <2>4, Zenon DEF FrameOf
    <2>6. ASSUME NEW i \in 0 .. (n - 1)
          PROVE  s.chunks[i] = Chunk(a, pkt, i * (len \div n), ChunkEnd(len, n, i))
      <3>1. PICK g \in gNet : ChunkOf(g, a, pkt, s.total, i) /\ g.payload = s.chunks[i]
        BY <1>9, <2>2, <2>3, <2>5, Zenon
      <3>2. FrameOf(g, a, pkt, len, n) /\ g.chunkIdx = i
        BY <2>4, <3>1, Zenon DEF ChunkOf
      <3> QED BY <3>1, <3>2, Zenon DEF FrameOf
    <2>7. n \in Nat /\ pkt \in Nat
      BY <1>5, <1>6, <2>3, <2>5 DEF NetInv
    <2>8. ASSUME NEW i \in 1 .. n
          PROVE  gOut'[i] = Chunk(a, pkt, (i - 1) * (len \div n), ChunkEnd(len, n, i - 1))
      <3>1. i - 1 \in 0 .. (n - 1)
        BY <2>7
      <3>2. gOut'[i] = s.chunks[i - 1]
        BY <2>1, <2>5, Zenon
      <3> QED BY <2>6, <3>1, <3>2, Zenon
    <2>9. gOut' = [i \in 1 .. n |->
                     Chunk(a, pkt, (i - 1) * (len \div n), ChunkEnd(len, n, i - 1))]
      BY <2>1, <2>5, <2>8, Zenon
    <2>10. OutInv'
      BY <2>7, <2>9, Zenon DEF OutInv
    <2> QED BY <1>10, <2>1, <2>10, Zenon DEF WholeInv
  <1> QED BY <1>11, <1>12, Zenon

\* The entry that a first chunk opens holds chunks of one packet only.
LEMMA WholeFirstChunk ==
    ASSUME GeckoInv, WholeInv, NEW f \in gNet \cup NoiseFrames, GeckoFirstChunk(f)
    PROVE  WholeInv'
  <1> USE DEF GeckoInv
  <1>1. /\ f \in gNet /\ f.addr \in Peers /\ Key(f) \in Peers \X Nat
        /\ f.totalChunks \in Nat /\ f.totalChunks >= 2
        /\ f.chunkIdx \in 0 .. (f.totalChunks - 1)
        /\ f.payload \in Payloads /\ f.payload # NoChunk
    BY Accepted, Zenon DEF GeckoFirstChunk
  <1> DEFINE fresh == [chunks |-> [i \in 0 .. (f.totalChunks - 1) |-> NoChunk],
                       received |-> 0, total |-> f.totalChunks, left |-> ReassemblyTTL]
             D == DOMAIN reassembly
             new == Stored(fresh, f)
  <1>2. PICK old \in Evicted :
          reassembly' = [k \in (D \ old) \cup {Key(f)} |->
                           IF k # Key(f) THEN reassembly[k]
                           ELSE IF f.chunkIdx < f.totalChunks THEN new ELSE fresh]
    BY Zenon DEF GeckoFirstChunk
  <1>3. Key(f) \notin D /\ UNCHANGED <<msgID, gNet, gOut>>
    BY Zenon DEF GeckoFirstChunk
  <1>4. /\ new.total = f.totalChunks
        /\ \A i \in Filled(new) : i = f.chunkIdx /\ new.chunks[i] = f.payload
    BY <1>1, Zenon DEF Stored, Filled
  <1>5. f.chunkIdx < f.totalChunks
    BY <1>1
  <1> HIDE DEF new, fresh
  <1>6. /\ DOMAIN reassembly' \subseteq D \cup {Key(f)} /\ reassembly'[Key(f)] = new
        /\ \A k \in DOMAIN reassembly' : k # Key(f) => reassembly'[k] = reassembly[k]
    BY <1>2, <1>5, Zenon
  <1>7. EntryOf(Key(f), new)
    <2>1. f.payload.pkt \in 1 .. msgID[f.addr] /\ f.payload.pkt % MsgIDMod = f.msgID
      BY <1>1, Zenon DEF NetInv
    <2>2. \A i \in Filled(new) :
            ChunkOf(f, f.addr, f.payload.pkt, new.total, i) /\ f.payload = new.chunks[i]
      BY <1>4, Zenon DEF ChunkOf
    <2>3. Key(f)[1] = f.addr /\ Key(f)[2] = f.msgID
      BY Zenon DEF Key
    <2> QED BY <1>1, <2>1, <2>2, <2>3, Zenon DEF EntryOf
  <1>8. ASSUME NEW k \in DOMAIN reassembly' PROVE EntryOf(k, reassembly[k])'
    <2>1. CASE k = Key(f)
      BY <1>3, <1>6, <1>7, <2>1 DEF EntryOf
    <2>2. CASE k # Key(f)
      BY <1>3, <1>6, <2>2 DEF WholeInv, EntryOf
    <2> QED BY <2>1, <2>2, Zenon
  <1>9. OutInv'
    BY <1>3 DEF WholeInv, OutInv
  <1> QED BY <1>8, <1>9, Zenon DEF WholeInv

\* Every step keeps entries and delivered packets whole.
LEMMA WholeKept ==
    ASSUME MaxPackets <= MsgIDMod, GeckoInv, WholeInv, [GeckoNext]_geckoVars
    PROVE  WholeInv'
  <1>1. ASSUME NEW a \in Peers, NEW len \in PacketLens, NEW n \in ChunkCounts,
               GeckoWrite(a, len, n)
        PROVE  WholeInv'
    <2>1. /\ msgID' = [msgID EXCEPT ![a] = @ + 1] /\ gNet \subseteq gNet'
          /\ UNCHANGED <<reassembly, gOut>>
      BY <1>1, Zenon DEF GeckoWrite
    <2>2. \A b \in Peers : msgID'[b] \in Nat /\ msgID[b] <= msgID'[b]
      BY <2>1, GeckoAssumption DEF GeckoInv, NetInv
    <2>3. ASSUME NEW k \in DOMAIN reassembly PROVE EntryOf(k, reassembly[k])'
      <3>1. PICK e : e = reassembly[k]
        OBVIOUS
      <3>2. EntryOf(k, e) /\ k[1] \in Peers
        BY <3>1, Zenon DEF WholeInv, GeckoInv, EntriesInv
      <3>3. EntryOf(k, e)'
        BY <2>1, <2>2, <3>2, EntryStays, Zenon
      <3> QED BY <2>1, <3>1, <3>3, Zenon
    <2> QED BY <2>1, <2>3 DEF WholeInv, OutInv
  <1>2. ASSUME NEW f \in gNet \cup NoiseFrames, GeckoFirstChunk(f) PROVE WholeInv'
    BY <1>2, WholeFirstChunk, Zenon
  <1>3. ASSUME NEW f \in gNet \cup NoiseFrames, GeckoNextChunk(f) PROVE WholeInv'
    BY <1>3, WholeNextChunk, Zenon
  <1>4. CASE GeckoTick
    <2>1. /\ DOMAIN reassembly' \subseteq DOMAIN reassembly /\ UNCHANGED <<msgID, gNet, gOut>>
          /\ \A k \in DOMAIN reassembly' :
               reassembly'[k] = [reassembly[k] EXCEPT !.left = @ - 1]
      BY <1>4, Zenon DEF GeckoTick
    <2>2. \A b \in Peers : msgID'[b] \in Nat /\ msgID[b] <= msgID'[b]
      BY <2>1, GeckoAssumption DEF GeckoInv, NetInv
    <2>3. ASSUME NEW k \in DOMAIN reassembly' PROVE EntryOf(k, reassembly[k])'
      <3>1. PICK e, d : e = reassembly[k] /\ d = reassembly'[k]
        OBVIOUS
      <3>2. EntryOf(k, e) /\ k[1] \in Peers /\ e \in EntrySet
        BY <2>1, <3>1, Zenon DEF WholeInv, GeckoInv, EntriesInv, TypedEntry
      <3>3. d.total = e.total /\ d.chunks = e.chunks
        BY <2>1, <3>1, <3>2, Zenon DEF EntrySet
      <3>4. EntryOf(k, d)'
        BY <2>1, <2>2, <3>2, <3>3, EntryStays, Zenon
      <3> QED BY <3>1, <3>4, Zenon
    <2> QED BY <2>1, <2>3 DEF WholeInv, OutInv
  <1>5. CASE GeckoClose \/ UNCHANGED geckoVars
    <2>1. UNCHANGED <<msgID, gNet, reassembly, gOut>>
      BY <1>5, Zenon DEF GeckoClose, geckoVars
    <2> QED BY <2>1 DEF WholeInv, EntryOf, OutInv
  <1> QED BY <1>1, <1>2, <1>3, <1>4, <1>5, Zenon DEF GeckoNext

\* What was delivered is whole: all bytes of one packet, in order.
LEMMA OutWhole == ASSUME WholeInv PROVE PacketsWhole
  <1> SUFFICES ASSUME gOut # <<>>
               PROVE  /\ gOut[1].start = 0 /\ gOut[Len(gOut)].end \in PacketLens
                      /\ \A i \in 2 .. Len(gOut) :
                           /\ gOut[i].peer = gOut[1].peer /\ gOut[i].pkt = gOut[1].pkt
                           /\ gOut[i].start = gOut[i - 1].end
    BY Zenon DEF PacketsWhole
  <1>1. PICK a \in Peers, pkt \in Nat, len \in PacketLens, n \in ChunkCounts :
          gOut = [i \in 1 .. n |->
                    Chunk(a, pkt, (i - 1) * (len \div n), ChunkEnd(len, n, i - 1))]
    BY Zenon DEF WholeInv, OutInv
  <1>2. n \in Nat /\ n >= 2 /\ len \in Nat /\ len \div n \in Nat
    BY GeckoAssumption
  <1>3. Len(gOut) = n
    BY <1>1, <1>2
  <1>4. \A i \in 1 .. n :
          /\ gOut[i].peer = a /\ gOut[i].pkt = pkt
          /\ gOut[i].start = (i - 1) * (len \div n) /\ gOut[i].end = ChunkEnd(len, n, i - 1)
    BY <1>1, Zenon DEF Chunk
  <1>5. gOut[1].start = 0 /\ gOut[n].end = len
    BY <1>2, <1>4 DEF ChunkEnd
  <1>6. ASSUME NEW i \in 2 .. n PROVE gOut[i].start = gOut[i - 1].end
    <2>1. /\ i - 1 \in 1 .. n /\ i \in 1 .. n /\ (i - 1) - 1 < n - 1
          /\ ((i - 1) - 1) + 1 = i - 1
      BY <1>2
    <2> QED BY <1>4, <2>1, Zenon DEF ChunkEnd
  <1> QED BY <1>2, <1>3, <1>4, <1>5, <1>6

\* While no peer sends more packets than there are message numbers, whatever is
\* lost, duplicated, reordered or mixed with noise, acceptChunk puts packets together
\* whole, counts the entries of each source exactly, keeps both limits, and
\* gcExpired forgets an entry half a lifetime after its deadline at the latest.
THEOREM PacketsAreReassembled ==
    ASSUME MaxPackets <= MsgIDMod PROVE GeckoSpec => []GeckoIntegrity
  <1>1. GeckoInit => GeckoInv /\ WholeInv
    <2>1. GeckoInit => WholeInv
      BY DEF GeckoInit, WholeInv, OutInv
    <2> QED BY <2>1, GeckoInitInv, Zenon
  <1>2. GeckoInv /\ WholeInv /\ [GeckoNext]_geckoVars => (GeckoInv /\ WholeInv)'
    BY GeckoInvKept, WholeKept, Zenon
  <1>3. GeckoInv /\ WholeInv => GeckoIntegrity
    BY GeckoInvIs, OutWhole, Zenon DEF GeckoIntegrity
  <1> QED BY <1>1, <1>2, <1>3, PTL DEF GeckoSpec

\* The account of the entries does not depend on the message numbers: it is exact
\* and both limits hold, however often the uint8 comes round.
THEOREM EntriesAreBounded == GeckoSpec => [](SourcesExact /\ EntriesPartial /\ EntriesExpire)
  <1> QED BY GeckoInitInv, GeckoInvKept, GeckoInvIs, PTL DEF GeckoSpec

-----------------------------------------------------------------------------
(***************************************************************************)
(* The BBR sender                                                          *)
(***************************************************************************)

\* The least of a set of numbers, and the least and greatest of two.
LEMMA Least ==
    ASSUME NEW S, S \subseteq Nat, S # {}
    PROVE  Min(S) \in S /\ \A y \in S : Min(S) <= y
  <1> DEFINE R == OpToRel(<, Nat)
  <1>1. PICK x \in S : \A y \in S : ~(<<y, x>> \in R)
    BY NatLessThanWellFounded, WFMin, Zenon
  <1>2. \A y \in S : x <= y
    <2> SUFFICES ASSUME NEW y \in S PROVE x <= y
      OBVIOUS
    <2>1. y < x => <<y, x>> \in R
      BY DEF OpToRel
    <2>2. ~(y < x) /\ x \in Nat /\ y \in Nat
      BY <1>1, <2>1, Zenon
    <2> QED BY <2>2, SMT
  <1> QED BY <1>2, Zenon DEF Min

\* Min and Max of two numbers.
LEMMA OfTwo ==
    ASSUME NEW a \in Int, NEW b \in Int
    PROVE  /\ Min({a, b}) = IF a <= b THEN a ELSE b
           /\ Max({a, b}) = IF a >= b THEN a ELSE b
  BY DEF Min, Max

\* A limit in bytes is one in packets times the size of a packet.
LEMMA Products ==
    ASSUME NEW a \in Nat, NEW b \in Nat, NEW m \in Nat, a <= b
    PROVE  a * m <= b * m /\ a * m \in Nat
  BY SMT

\* A limit that is scaled follows the datagram size exactly.
LEMMA Rescaled ==
    ASSUME NEW a \in Nat, NEW m \in Nat \ {0}, NEW b \in Nat
    PROVE  Scaled(a * m, m, b) = a * b
  BY SMT DEF Scaled

-----------------------------------------------------------------------------
\* The fields of a sender that are read and written here.
BBFields ==
    {"mode", "pacingGain", "cwndGain", "offset", "full", "roundsWithoutGain", "bwAtLastRound",
     "bdp", "roundEnd", "recovery", "endRecoveryAt", "mds", "cwnd", "initial", "max",
     "recoveryWindow", "exitingQuiescence", "exitProbeRttAt", "roundPassed", "lossEvents",
     "inFlight", "totalAcked", "drainToTarget", "ackAggregation"}

\* A sender with its windows in their limits, which follow the datagram size.
Sized(b) ==
    /\ DOMAIN b = BBFields
    /\ b.mds \in Nat \ {0} /\ b.bdp \in Nat /\ b.inFlight \in Int /\ b.recoveryWindow \in Int
    /\ b.initial = initialCongestionWindowPackets * b.mds
    /\ b.max = maxCongestionWindowPackets * b.mds
    /\ b.cwnd \in Int /\ minWindow(b) <= b.cwnd /\ b.cwnd <= b.max

\* The gains are those of the mode; full is known where the mode or recovery needs it.
Gains(b) ==
    /\ b.full \in BOOLEAN /\ b.offset \in DOMAIN gainCycle
    /\ b.mode = "STARTUP" => b.pacingGain = "high" /\ b.cwndGain = "high"
    /\ b.mode = "DRAIN" => b.full /\ b.pacingGain = "drain" /\ b.cwndGain = "high"
    /\ b.mode = "PROBE_BW" =>
         b.full /\ b.cwndGain = "constant" /\ b.pacingGain \in {"up", "down", "one"}
    /\ b.mode = "PROBE_RTT" => b.pacingGain = "one"
    /\ b.recovery # "NOT_IN_RECOVERY" => b.full

\* Between the operations of an event, STARTUP may be about to be left.
Working(b) == Sized(b) /\ Gains(b)

\* Once the event is over, a sender that knows the full bandwidth has left STARTUP.
Left(b) == b.mode = "STARTUP" => ~b.full

\* In recovery the recovery window does not fall below the least window.
Refilled(b) == b.recovery # "NOT_IN_RECOVERY" => b.recoveryWindow >= minWindow(b)

\* The invariant of the sender between two calls.
SenderInv ==
    /\ Working(bb) /\ Left(bb) /\ Refilled(bb)
    /\ bbFlight \subseteq 0 .. (MaxAge - 1)

\* The limits are in order.
LEMMA Limits ==
    ASSUME NEW b, Sized(b)
    PROVE  /\ minWindow(b) \in Nat /\ b.initial \in Nat /\ b.max \in Nat
           /\ minWindow(b) <= b.initial /\ b.initial <= b.max
  <1>1. /\ minCongestionWindowPackets \in Nat /\ initialCongestionWindowPackets \in Nat
        /\ maxCongestionWindowPackets \in Nat
        /\ minCongestionWindowPackets <= initialCongestionWindowPackets
        /\ initialCongestionWindowPackets <= maxCongestionWindowPackets
    BY BBRAssumption, SMT
  <1>2. b.mds \in Nat
    BY DEF Sized
  <1> QED BY <1>1, <1>2, Products DEF Sized, minWindow

\* What an invariant sender promises.
LEMMA SenderSound == SenderInv => ModesSound
  <1> SUFFICES ASSUME SenderInv PROVE ModesSound
    OBVIOUS
  <1>1. Sized(bb) /\ Gains(bb) /\ Left(bb) /\ Refilled(bb)
    BY DEF SenderInv, Working
  <1>2. minWindow(bb) \in Nat /\ minWindow(bb) <= bb.initial
    BY <1>1, Limits
  <1>3. minWindow(bb) <= bb.cwnd /\ bb.cwnd <= bb.max /\ bb.cwnd \in Int /\ bb.recoveryWindow \in Int
    BY <1>1 DEF Sized
  <1>4. GetCongestionWindow(bb) >= minWindow(bb)
    <2>1. bb.recovery # "NOT_IN_RECOVERY" => Min({bb.cwnd, bb.recoveryWindow}) >= minWindow(bb)
      BY <1>1, <1>2, <1>3, OfTwo DEF Refilled
    <2> QED BY <1>2, <1>3, <2>1 DEF GetCongestionWindow
  <1>5. ModeConsistent
    BY <1>1, Zenon DEF Gains, Left, ModeConsistent
  <1> QED BY <1>2, <1>3, <1>4, <1>5 DEF ModesSound, WindowsInRange

-----------------------------------------------------------------------------
\* The operations of an event, one after the other.
LEMMA BeginEvent ==
    ASSUME NEW b, Working(b), NEW in \in Int, NEW end
    PROVE  Working([b EXCEPT !.inFlight = in, !.roundEnd = end])
  BY DEF Working, Sized, Gains, BBFields, minWindow

\* updateRecoveryState enters recovery only with the full bandwidth known.
LEMMA RecoveryStateWorks ==
    ASSUME NEW b, Working(b), NEW last, NEW losses \in BOOLEAN, NEW roundStart \in BOOLEAN
    PROVE  Working(RecoveryState(b, last, losses, roundStart))
  BY DEF Working, Sized, Gains, BBFields, minWindow, RecoveryState, RecoveryAllowed

\* The new estimate and the counters.
LEMMA EstimateWorks ==
    ASSUME NEW b, Working(b), NEW bdp \in Nat, NEW acked, NEW events
    PROVE  Working([b EXCEPT !.bdp = bdp, !.totalAcked = acked, !.lossEvents = events])
  BY DEF Working, Sized, Gains, BBFields, minWindow

\* The gain cycle is not empty and holds the gains of PROBE_BW.
LEMMA CycleIs ==
    /\ gainCycleLength \in Nat \ {0} /\ DOMAIN gainCycle = 0 .. (gainCycleLength - 1)
    /\ \A o \in DOMAIN gainCycle : gainCycle[o] \in {"up", "down", "one"}
  <1>1. PICK n \in 1 .. 8 : gainCycle \in [0 .. n - 1 -> {"up", "down", "one"}]
    BY BBRAssumption, Zenon
  <1>2. DOMAIN gainCycle = 0 .. (n - 1) /\ n \in Nat \ {0}
    BY <1>1
  <1>3. Cardinality(0 .. (n - 1)) = n
    <2>1. 0 \in Int /\ n - 1 \in Int /\ ~(0 > n - 1) /\ (n - 1) - 0 + 1 = n
      BY <1>2
    <2> QED BY <2>1, FS_Interval
  <1> QED BY <1>1, <1>2, <1>3 DEF gainCycleLength

\* updateGainCyclePhase stays in the cycle.
LEMMA GainCycleWorks ==
    ASSUME NEW b, Working(b), NEW in, NEW losses, NEW rttPassed
    PROVE  Working(GainCycle(b, in, losses, rttPassed))
  <1> DEFINE o == (b.offset + 1) % gainCycleLength
  <1>1. o \in DOMAIN gainCycle /\ gainCycle[o] \in {"up", "down", "one"}
    <2>1. b.offset \in Nat
      BY CycleIs DEF Working, Gains
    <2>2. o \in 0 .. (gainCycleLength - 1)
      BY <2>1, CycleIs, SMT
    <2> QED BY <2>2, CycleIs, Zenon
  <1> HIDE DEF o
  <1>2. ASSUME NEW g, g = b.pacingGain \/ g = gainCycle[o], b.mode = "PROBE_BW"
        PROVE  Working([b EXCEPT !.offset = o, !.pacingGain = g])
    BY <1>1, <1>2 DEF Working, Sized, Gains, BBFields, minWindow
  <1> QED BY <1>2 DEF GainCycle, o

\* checkIfFullBandwidthReached.
LEMMA CheckFullWorks ==
    ASSUME NEW b, Working(b), NEW appLimited
    PROVE  Working(CheckFullBandwidth(b, appLimited))
  BY DEF Working, Sized, Gains, BBFields, minWindow, CheckFullBandwidth

\* enterProbeBandwidthMode.
LEMMA ProbeBwWorks ==
    ASSUME NEW b, Sized(b), b.full = TRUE, NEW o \in DOMAIN gainCycle
    PROVE  Working(EnterProbeBw(b, o)) /\ Left(EnterProbeBw(b, o))
  BY CycleIs DEF Working, Left, Sized, Gains, BBFields, minWindow, EnterProbeBw

\* maybeExitStartupOrDrain leaves STARTUP when the full bandwidth is known.
LEMMA ExitWorks ==
    ASSUME NEW b, Working(b), NEW o \in DOMAIN gainCycle
    PROVE  Working(ExitStartupOrDrain(b, o)) /\ Left(ExitStartupOrDrain(b, o))
  <1> DEFINE d == [b EXCEPT !.mode = "DRAIN", !.pacingGain = "drain", !.cwndGain = "high"]
             b1 == IF b.mode = "STARTUP" /\ b.full THEN d ELSE b
  <1>1. b.full = TRUE => Working(d)
    BY DEF Working, Sized, Gains, BBFields, minWindow
  <1>2. Working(b1) /\ Left(b1)
    BY <1>1 DEF Working, Left, Gains, Sized, BBFields
  <1> HIDE DEF b1
  <1>3. b1.mode = "DRAIN" => b1.full = TRUE
    BY <1>2 DEF Working, Gains
  <1>4. b1.mode = "DRAIN" => Working(EnterProbeBw(b1, o)) /\ Left(EnterProbeBw(b1, o))
    BY <1>2, <1>3, ProbeBwWorks, Zenon DEF Working
  <1> QED BY <1>2, <1>4, Zenon DEF ExitStartupOrDrain, b1

\* The fields that say when PROBE_RTT ends do not matter here.
LEMMA TimersWork ==
    ASSUME NEW b, Working(b), Left(b), NEW passed, NEW at
    PROVE  /\ Working([b EXCEPT !.roundPassed = passed, !.exitProbeRttAt = at])
           /\ Left([b EXCEPT !.roundPassed = passed, !.exitProbeRttAt = at])
           /\ Working([b EXCEPT !.exitProbeRttAt = at, !.roundPassed = passed])
           /\ Left([b EXCEPT !.exitProbeRttAt = at, !.roundPassed = passed])
           /\ Working([b EXCEPT !.roundPassed = passed]) /\ Left([b EXCEPT !.roundPassed = passed])
           /\ Working([b EXCEPT !.exitProbeRttAt = at]) /\ Left([b EXCEPT !.exitProbeRttAt = at])
           /\ Working([b EXCEPT !.exitingQuiescence = at]) /\ Left([b EXCEPT !.exitingQuiescence = at])
  BY DEF Working, Left, Sized, Gains, BBFields, minWindow

\* PROBE_RTT is left for STARTUP or PROBE_BW, as the full bandwidth is known or not.
LEMMA AfterProbeRttWorks ==
    ASSUME NEW b, Working(b), NEW o \in DOMAIN gainCycle
    PROVE  Working(AfterProbeRtt(b, o)) /\ Left(AfterProbeRtt(b, o))
  <1>1. CASE b.full = TRUE
    BY <1>1, ProbeBwWorks DEF AfterProbeRtt, Working
  <1>2. CASE b.full = FALSE
    BY <1>2 DEF AfterProbeRtt, EnterStartup, Working, Left, Sized, Gains, BBFields, minWindow
  <1> QED BY <1>1, <1>2 DEF Working, Gains

\* maybeEnterOrExitProbeRtt.
LEMMA ProbeRttWorks ==
    ASSUME NEW b, Working(b), Left(b), NEW roundStart, NEW expired, NEW o \in DOMAIN gainCycle
    PROVE  Working(ProbeRtt(b, roundStart, expired, o)) /\ Left(ProbeRtt(b, roundStart, expired, o))
  <1> DEFINE e == [b EXCEPT !.mode = "PROBE_RTT", !.pacingGain = "one", !.exitProbeRttAt = "zero"]
             b1 == IF Enters(b, expired) THEN e ELSE b
             b2 == IF b1.mode = "PROBE_RTT" THEN InProbeRtt(b1, roundStart, o) ELSE b1
  <1>1. Working(e) /\ Left(e)
    BY DEF Working, Left, Sized, Gains, BBFields, minWindow
  <1>2. Working(b1) /\ Left(b1)
    BY <1>1, Zenon
  <1> HIDE DEF b1, e
  <1>3. Working(InProbeRtt(b1, roundStart, o)) /\ Left(InProbeRtt(b1, roundStart, o))
    BY <1>2, AfterProbeRttWorks, TimersWork, Zenon DEF InProbeRtt
  <1>4. Working(b2) /\ Left(b2)
    BY <1>2, <1>3, Zenon
  <1>5. ProbeRtt(b, roundStart, expired, o) = [b2 EXCEPT !.exitingQuiescence = FALSE]
    BY Zenon DEF ProbeRtt, b1, e
  <1> HIDE DEF b2
  <1>6. Working([b2 EXCEPT !.exitingQuiescence = FALSE]) /\ Left([b2 EXCEPT !.exitingQuiescence = FALSE])
    BY <1>4, TimersWork
  <1> QED BY <1>5, <1>6, Zenon

-----------------------------------------------------------------------------
\* The windows after an event.
LEMMA GainedIs ==
    ASSUME NEW gain, NEW bytes \in Nat
    PROVE  Gained(gain, bytes) \in Nat
  BY DEF Gained

\* getTargetCongestionWindow.
LEMMA TargetIs ==
    ASSUME NEW b, Sized(b), NEW gain
    PROVE  TargetWindow(b, gain) \in Int
  <1>1. minWindow(b) \in Int /\ b.initial \in Nat /\ b.bdp \in Nat
    BY Limits DEF Sized
  <1> DEFINE w == Gained(gain, b.bdp)
             v == IF w = 0 THEN Gained(gain, b.initial) ELSE w
  <1>2. v \in Int
    BY <1>1, GainedIs
  <1> HIDE DEF v
  <1>3. Max({v, minWindow(b)}) \in Int
    BY <1>1, <1>2, OfTwo
  <1> QED BY <1>3 DEF TargetWindow, v

\* A window that is limited is within the limits, whatever it was.
LEMMA LimitIs ==
    ASSUME NEW b, Sized(b), NEW w \in Int
    PROVE  Limit(b, w) \in Int /\ minWindow(b) <= Limit(b, w) /\ Limit(b, w) <= b.max
  <1>1. minWindow(b) \in Int /\ b.max \in Int /\ minWindow(b) <= b.max
    BY Limits
  <1> DEFINE v == Max({w, minWindow(b)})
  <1>0. v = IF w >= minWindow(b) THEN w ELSE minWindow(b)
    BY <1>1, OfTwo, Zenon
  <1>2. v \in Int /\ v >= minWindow(b)
    BY <1>0, <1>1, SMT
  <1> HIDE DEF v
  <1>3. Min({v, b.max}) \in Int /\ minWindow(b) <= Min({v, b.max}) /\ Min({v, b.max}) <= b.max
    BY <1>1, <1>2, OfTwo
  <1> QED BY <1>3 DEF Limit, v

\* A window within the limits may be set.
LEMMA WindowSet ==
    ASSUME NEW b, Working(b), Left(b), NEW w \in Int, minWindow(b) <= w, w <= b.max
    PROVE  Working([b EXCEPT !.cwnd = w]) /\ Left([b EXCEPT !.cwnd = w])
  BY DEF Working, Left, Sized, Gains, BBFields, minWindow

\* calculateCongestionWindow.
LEMMA CongestionWindowWorks ==
    ASSUME NEW b, Working(b), Left(b), NEW acked \in Nat, NEW extra \in Nat
    PROVE  Working(CongestionWindow(b, acked, extra)) /\ Left(CongestionWindow(b, acked, extra))
  <1> DEFINE target == TargetWindow(b, b.cwndGain) + IF b.full \/ b.ackAggregation THEN extra ELSE 0
             w == IF b.full THEN Min({target, b.cwnd + acked})
                  ELSE IF b.cwnd < target \/ b.totalAcked < b.initial THEN b.cwnd + acked ELSE b.cwnd
  <1>1. Sized(b) /\ b.cwnd \in Int
    BY DEF Working, Sized
  <1>2. target \in Int
    BY <1>1, TargetIs
  <1> HIDE DEF target
  <1>a. b.cwnd + acked \in Int
    BY <1>1
  <1>b. Min({target, b.cwnd + acked}) = IF target <= b.cwnd + acked THEN target ELSE b.cwnd + acked
    BY <1>2, <1>a, OfTwo, Zenon
  <1>3. w \in Int
    BY <1>1, <1>2, <1>a, <1>b, SMT
  <1>4. CongestionWindow(b, acked, extra) = IF b.mode = "PROBE_RTT" THEN b ELSE [b EXCEPT !.cwnd = Limit(b, w)]
    BY Zenon DEF CongestionWindow, target
  <1> HIDE DEF w
  <1>5. Working([b EXCEPT !.cwnd = Limit(b, w)]) /\ Left([b EXCEPT !.cwnd = Limit(b, w)])
    BY <1>1, <1>3, LimitIs, WindowSet, Zenon
  <1> QED BY <1>4, <1>5, Zenon

\* So may a recovery window that is not less than the least window.
LEMMA RecoverySet ==
    ASSUME NEW b, Working(b), Left(b), NEW w \in Int, minWindow(b) <= w
    PROVE  LET c == [b EXCEPT !.recoveryWindow = w] IN Working(c) /\ Left(c) /\ Refilled(c)
  BY DEF Working, Left, Refilled, Sized, Gains, BBFields, minWindow

\* calculateRecoveryWindow.
LEMMA RecoveryWindowWorks ==
    ASSUME NEW b, Working(b), Left(b), NEW acked \in Nat, NEW lost \in Nat
    PROVE  LET c == RecoveryWindow(b, acked, lost) IN Working(c) /\ Left(c) /\ Refilled(c)
  <1> DEFINE less == IF b.recoveryWindow >= lost THEN b.recoveryWindow - lost ELSE b.mds
             grown == less + IF b.recovery = "GROWTH" THEN acked ELSE 0
             w == IF b.recoveryWindow = 0 THEN b.inFlight + acked ELSE Max({grown, b.inFlight + acked})
             v == Min({RecoveryFloor(b, w), b.max})
  <1>1. Sized(b) /\ b.recoveryWindow \in Int /\ b.mds \in Int /\ b.inFlight \in Int
    BY DEF Working, Sized
  <1>2. grown \in Int
    BY <1>1
  <1> HIDE DEF grown
  <1>a. b.inFlight + acked \in Int
    BY <1>1
  <1>b. Max({grown, b.inFlight + acked}) = IF grown >= b.inFlight + acked THEN grown ELSE b.inFlight + acked
    BY <1>2, <1>a, OfTwo, Zenon
  <1>3. w \in Int
    BY <1>2, <1>a, <1>b, SMT
  <1> HIDE DEF w
  <1>4. minWindow(b) \in Int /\ b.max \in Int /\ minWindow(b) <= b.max
    BY <1>1, Limits
  <1>c. RecoveryFloor(b, w) = IF minWindow(b) >= w THEN minWindow(b) ELSE w
    BY <1>3, <1>4, OfTwo, Zenon DEF RecoveryFloor
  <1>5. RecoveryFloor(b, w) \in Int /\ RecoveryFloor(b, w) >= minWindow(b)
    BY <1>3, <1>4, <1>c, SMT
  <1>d. v = IF RecoveryFloor(b, w) <= b.max THEN RecoveryFloor(b, w) ELSE b.max
    BY <1>4, <1>5, OfTwo, Zenon
  <1>6. v \in Int /\ minWindow(b) <= v
    BY <1>4, <1>5, <1>d, SMT
  <1> HIDE DEF v
  <1>7. RecoveryWindow(b, acked, lost)
          = IF b.recovery = "NOT_IN_RECOVERY" THEN b ELSE [b EXCEPT !.recoveryWindow = v]
    BY Zenon DEF RecoveryWindow, v, w, grown
  <1>8. b.recovery = "NOT_IN_RECOVERY" => Refilled(b)
    BY DEF Refilled
  <1> QED BY <1>6, <1>7, <1>8, RecoverySet, Zenon

\* The loss events are counted again from a round's start.
LEMMA EndEvent ==
    ASSUME NEW b, Working(b), Left(b), Refilled(b), NEW events
    PROVE  LET c == [b EXCEPT !.lossEvents = events] IN Working(c) /\ Left(c) /\ Refilled(c)
  BY DEF Working, Left, Refilled, Sized, Gains, BBFields, minWindow

-----------------------------------------------------------------------------
\* What is in flight can be counted.
LEMMA PacketSizeIs == PacketSize \in Nat \ {0} /\ PacketSize \in MaxDatagramSizes
  <1>1. MaxDatagramSizes # {} /\ MaxDatagramSizes \subseteq Nat \ {0}
    BY BBRAssumption
  <1>2. PacketSize \in MaxDatagramSizes
    BY <1>1, Least DEF PacketSize
  <1> QED BY <1>1, <1>2

\* The bytes of any packets in flight are a number.
LEMMA BytesOf ==
    ASSUME SenderInv, NEW S, S \subseteq bbFlight
    PROVE  PacketSize * Cardinality(S) \in Nat
  <1>1. MaxAge \in Nat
    BY BBRAssumption
  <1>2. IsFiniteSet(0 .. (MaxAge - 1))
    BY <1>1, FS_Interval
  <1>3. IsFiniteSet(S)
    BY <1>2, FS_Subset DEF SenderInv
  <1>4. Cardinality(S) \in Nat
    BY <1>3, FS_CardinalityType
  <1> QED BY <1>4, PacketSizeIs

\* The sender begins within its limits, in STARTUP.
LEMMA SenderBegins == BBRInit => SenderInv
  <1> SUFFICES ASSUME BBRInit PROVE SenderInv
    OBVIOUS
  <1>1. 0 \in DOMAIN gainCycle
    BY CycleIs
  <1>2. /\ minCongestionWindowPackets \in Nat /\ initialCongestionWindowPackets \in Nat
        /\ maxCongestionWindowPackets \in Nat
        /\ minCongestionWindowPackets <= initialCongestionWindowPackets
        /\ initialCongestionWindowPackets <= maxCongestionWindowPackets
    BY BBRAssumption, SMT
  <1> DEFINE low == minCongestionWindowPackets * PacketSize
             first == initialCongestionWindowPackets * PacketSize
             most == maxCongestionWindowPackets * PacketSize
  <1>3. low <= first /\ first <= most /\ low \in Nat /\ first \in Nat /\ most \in Nat
    BY <1>2, PacketSizeIs, Products
  <1>4. /\ DOMAIN bb = BBFields /\ bb.mds = PacketSize /\ bb.bdp = 0 /\ bb.inFlight = 0
        /\ bb.initial = first /\ bb.max = most /\ bb.cwnd = first /\ bb.recoveryWindow = most
        /\ bb.mode = "STARTUP" /\ bb.full = FALSE /\ bb.offset = 0
        /\ bb.pacingGain = "high" /\ bb.cwndGain = "high" /\ bb.recovery = "NOT_IN_RECOVERY"
    <2> HIDE DEF first, most
    <2>1. PICK profile : bb =
            [ mode |-> "STARTUP", pacingGain |-> "high", cwndGain |-> "high", offset |-> 0,
              full |-> FALSE, roundsWithoutGain |-> 0, bwAtLastRound |-> 0, bdp |-> 0,
              roundEnd |-> MaxAge, recovery |-> "NOT_IN_RECOVERY", endRecoveryAt |-> MaxAge,
              mds |-> PacketSize, cwnd |-> first, initial |-> first, max |-> most, recoveryWindow |-> most,
              exitingQuiescence |-> FALSE, exitProbeRttAt |-> "zero", roundPassed |-> FALSE,
              lossEvents |-> 0, inFlight |-> 0, totalAcked |-> 0,
              drainToTarget |-> profile = "conservative", ackAggregation |-> profile = "aggressive" ]
      BY Zenon DEF BBRInit, first, most
    <2>2. DOMAIN bb = BBFields
      BY <2>1, SMT DEF BBFields
    <2>3. bb.mds = PacketSize /\ bb.bdp = 0 /\ bb.inFlight = 0
      BY <2>1, SMT
    <2>4. bb.initial = first /\ bb.max = most /\ bb.cwnd = first /\ bb.recoveryWindow = most
      BY <2>1, SMT
    <2>5. bb.mode = "STARTUP" /\ bb.full = FALSE /\ bb.offset = 0
      BY <2>1, SMT
    <2>6. bb.pacingGain = "high" /\ bb.cwndGain = "high" /\ bb.recovery = "NOT_IN_RECOVERY"
      BY <2>1, SMT
    <2> QED BY <2>2, <2>3, <2>4, <2>5, <2>6, Zenon
  <1>5. Sized(bb)
    <2>1. minWindow(bb) = low
      BY <1>4 DEF minWindow
    <2> HIDE DEF low
    <2>2. bb.cwnd \in Int /\ minWindow(bb) <= bb.cwnd /\ bb.cwnd <= bb.max /\ bb.recoveryWindow \in Int
      BY <1>3, <1>4, <2>1
    <2> QED BY <1>4, <2>2, PacketSizeIs DEF Sized
  <1>6. Gains(bb)
    BY <1>1, <1>4 DEF Gains
  <1> QED BY <1>4, <1>5, <1>6 DEF BBRInit, SenderInv, Working, Left, Refilled

\* A packet is sent.
LEMMA SendKeeps == SenderInv /\ BBRSend => SenderInv'
  <1> SUFFICES ASSUME SenderInv, BBRSend PROVE SenderInv'
    OBVIOUS
  <1>1. PacketSize * Cardinality(bbFlight) \in Nat
    BY BytesOf
  <1>2. ASSUME NEW b, Working(b), Left(b), Refilled(b), NEW in \in Nat, NEW q, NEW e, NEW r
        PROVE  LET c == [b EXCEPT !.inFlight = in, !.exitingQuiescence = q, !.roundEnd = e, !.endRecoveryAt = r]
               IN  Working(c) /\ Left(c) /\ Refilled(c)
    BY <1>2 DEF Working, Left, Refilled, Sized, Gains, BBFields, minWindow
  <1>3. Working(bb') /\ Left(bb') /\ Refilled(bb')
    BY <1>1, <1>2 DEF BBRSend, SenderInv
  <1>4. bbFlight' \subseteq 0 .. (MaxAge - 1)
    <2>1. bbFlight \subseteq 0 .. (MaxAge - 1) /\ MaxAge \in Nat \ {0}
      BY BBRAssumption DEF SenderInv
    <2> QED BY <2>1 DEF BBRSend
  <1> QED BY <1>3, <1>4 DEF SenderInv, Working, Left, Refilled, Sized, Gains, minWindow

\* The time to leave PROBE_RTT comes.
LEMMA TimeKeeps == SenderInv /\ ProbeRttTimePasses => SenderInv'
  <1> SUFFICES ASSUME SenderInv, ProbeRttTimePasses PROVE SenderInv'
    OBVIOUS
  <1>1. Working(bb') /\ Left(bb') /\ Refilled(bb') /\ bbFlight' = bbFlight
    BY DEF ProbeRttTimePasses, SenderInv, Working, Left, Refilled, Sized, Gains, BBFields, minWindow
  <1> QED BY <1>1 DEF SenderInv, Working, Left, Refilled, Sized, Gains, minWindow

\* Acknowledgements and losses: the operations of an event keep what each needs.
LEMMA EventKeeps ==
    ASSUME SenderInv, NEW acked \in SUBSET bbFlight, NEW lost \in SUBSET bbFlight,
           NEW i, i.bdp \in Nat, i.extra \in Nat, i.offset \in DOMAIN gainCycle,
           CongestionEvent(acked, lost, i)
    PROVE  SenderInv'
  <1> DEFINE prior == PacketSize * Cardinality(bbFlight)
             bytesAcked == PacketSize * Cardinality(acked)
             bytesLost == PacketSize * Cardinality(lost)
             last == Min(acked)
             roundStart == acked # {} /\ RoundStarts(bb, last)
             losses == lost # {}
             in == prior - bytesAcked - bytesLost
             end == IF roundStart THEN 0 ELSE bb.roundEnd
  <1>1. prior \in Nat /\ bytesAcked \in Nat /\ bytesLost \in Nat
    BY BytesOf
  <1>2. in \in Int
    BY <1>1
  <1>3. roundStart \in BOOLEAN /\ losses \in BOOLEAN
    OBVIOUS
  <1> DEFINE
        After6(b6) == bb' = [b6 EXCEPT !.lossEvents = IF roundStart THEN 0 ELSE @]
        After5(b5) ==
          \E b6 \in {RecoveryWindow(CongestionWindow(b5, bytesAcked, i.extra), bytesAcked, bytesLost)} : After6(b6)
        After4(b4) ==
          \E b5 \in {ProbeRtt(ExitStartupOrDrain(b4, i.offset), roundStart, i.expired, i.offset)} : After5(b5)
        After3(b3) == \E b4 \in {IF roundStart THEN CheckFullBandwidth(b3, i.appLimited) ELSE b3} : After4(b4)
        After2(b2) == \E b3 \in {GainCycle(b2, prior, losses, i.rttPassed)} : After3(b3)
        After1(b1) ==
          \E b2 \in {[b1 EXCEPT !.bdp = i.bdp, !.totalAcked = Min({@ + bytesAcked, bb.max}),
                                !.lossEvents = IF losses THEN Min({@ + 1, startupFullLossCount}) ELSE @]} : After2(b2)
        After0(b0) == \E b1 \in {IF acked = {} THEN b0 ELSE RecoveryState(b0, last, losses, roundStart)} : After1(b1)
  <1>0. \E b0 \in {[bb EXCEPT !.inFlight = in, !.roundEnd = IF roundStart THEN 0 ELSE @]} : After0(b0)
    BY Zenon DEF CongestionEvent
  <1> HIDE DEF in, prior, bytesAcked, bytesLost, last, roundStart, losses
  <1> HIDE DEF After0, After1, After2, After3, After4, After5, After6
  <1>a. PICK b0 : b0 = [bb EXCEPT !.inFlight = in, !.roundEnd = IF roundStart THEN 0 ELSE @] /\ After0(b0)
    BY <1>0, Zenon
  <1>b. PICK b1 : b1 = (IF acked = {} THEN b0 ELSE RecoveryState(b0, last, losses, roundStart)) /\ After1(b1)
    BY <1>a, Zenon DEF After0
  <1>c. PICK b2 : /\ b2 = [b1 EXCEPT !.bdp = i.bdp, !.totalAcked = Min({@ + bytesAcked, bb.max}),
                                     !.lossEvents = IF losses THEN Min({@ + 1, startupFullLossCount}) ELSE @]
                  /\ After2(b2)
    BY <1>b, Zenon DEF After1
  <1>d. PICK b3 : b3 = GainCycle(b2, prior, losses, i.rttPassed) /\ After3(b3)
    BY <1>c, Zenon DEF After2
  <1>e. PICK b4 : b4 = (IF roundStart THEN CheckFullBandwidth(b3, i.appLimited) ELSE b3) /\ After4(b4)
    BY <1>d, Zenon DEF After3
  <1>f. PICK b5 : b5 = ProbeRtt(ExitStartupOrDrain(b4, i.offset), roundStart, i.expired, i.offset) /\ After5(b5)
    BY <1>e, Zenon DEF After4
  <1>g. PICK b6 : /\ b6 = RecoveryWindow(CongestionWindow(b5, bytesAcked, i.extra), bytesAcked, bytesLost)
                  /\ bb' = [b6 EXCEPT !.lossEvents = IF roundStart THEN 0 ELSE @]
    BY <1>f, Zenon DEF After5, After6
  <1> DEFINE total == Min({b1.totalAcked + bytesAcked, bb.max})
             events == IF losses THEN Min({b1.lossEvents + 1, startupFullLossCount}) ELSE b1.lossEvents
             final == IF roundStart THEN 0 ELSE b6.lossEvents
  <1>5. /\ b0 = [bb EXCEPT !.inFlight = in, !.roundEnd = end]
        /\ b2 = [b1 EXCEPT !.bdp = i.bdp, !.totalAcked = total, !.lossEvents = events]
        /\ bb' = [b6 EXCEPT !.lossEvents = final]
    BY <1>a, <1>c, <1>g, Zenon
  <1> HIDE DEF end, total, events, final
  <1>6. Working(b0)
    BY <1>2, <1>5, BeginEvent, Zenon DEF SenderInv
  <1>7. Working(b1)
    BY <1>3, <1>b, <1>6, RecoveryStateWorks, Zenon
  <1>8. Working(b2)
    BY <1>5, <1>7, EstimateWorks, Zenon
  <1>9. Working(b3)
    BY <1>d, <1>8, GainCycleWorks, Zenon
  <1>10. Working(b4)
    BY <1>e, <1>9, CheckFullWorks, Zenon
  <1>11. Working(b5) /\ Left(b5)
    <2>1. Working(ExitStartupOrDrain(b4, i.offset)) /\ Left(ExitStartupOrDrain(b4, i.offset))
      BY <1>10, ExitWorks, Zenon
    <2> QED BY <1>f, <2>1, ProbeRttWorks, Zenon
  <1>12. Working(b6) /\ Left(b6) /\ Refilled(b6)
    <2> DEFINE c == CongestionWindow(b5, bytesAcked, i.extra)
    <2>1. Working(c) /\ Left(c)
      BY <1>1, <1>11, CongestionWindowWorks, Zenon
    <2>2. b6 = RecoveryWindow(c, bytesAcked, bytesLost)
      BY <1>g
    <2> HIDE DEF c
    <2> QED BY <1>1, <2>1, <2>2, RecoveryWindowWorks, Zenon
  <1>19. Working(bb') /\ Left(bb') /\ Refilled(bb')
    BY <1>5, <1>12, EndEvent, Zenon
  <1>20. bbFlight' \subseteq 0 .. (MaxAge - 1)
    BY DEF SenderInv, CongestionEvent
  <1> QED BY <1>19, <1>20 DEF SenderInv, Working, Left, Refilled, Sized, Gains, minWindow

\* OnCongestionEventEx with any acknowledgement, loss and measurement.
LEMMA EventsKeep == SenderInv /\ BBREvent => SenderInv'
  <1> SUFFICES ASSUME SenderInv, BBREvent PROVE SenderInv'
    OBVIOUS
  <1>1. PICK acked \in SUBSET bbFlight, lost \in SUBSET bbFlight :
          \E i \in Inputs(acked) : CongestionEvent(acked, lost, i)
    <2>1. PICK acked \in SUBSET bbFlight : \E k \in 1 .. reorderThreshold :
            \E i \in Inputs(acked) : CongestionEvent(acked, QuicLosses(acked, k), i)
      BY Zenon DEF BBREvent
    <2>2. PICK k \in 1 .. reorderThreshold :
            \E i \in Inputs(acked) : CongestionEvent(acked, QuicLosses(acked, k), i)
      BY <2>1, Zenon
    <2>3. QuicLosses(acked, k) \in SUBSET bbFlight
      BY Zenon DEF QuicLosses
    <2> QED BY <2>2, <2>3, Zenon
  <1>i. PICK i \in Inputs(acked) : CongestionEvent(acked, lost, i)
    BY <1>1, Zenon
  <1>2. i.bdp \in Nat
    BY <1>i, BBRAssumption DEF Inputs, SenderInv, Working, Sized
  <1>3. i.extra \in Nat
    BY <1>i, BBRAssumption DEF Inputs
  <1>4. i.offset \in DOMAIN gainCycle
    <2>1. 0 \in DOMAIN gainCycle
      BY CycleIs
    <2>2. i.offset \in (IF bb.mode = "PROBE_BW" THEN {0} ELSE DOMAIN gainCycle \ {1})
      BY <1>i DEF Inputs
    <2> QED BY <2>1, <2>2, Zenon
  <1> QED BY <1>i, <1>2, <1>3, <1>4, EventKeeps

\* The datagram size grows, and the limits with it.
LEMMA SizeKeeps ==
    ASSUME SenderInv, NEW size \in MaxDatagramSizes, BBRSetMaxDatagramSize(size)
    PROVE  SenderInv'
  <1> DEFINE b == [bb EXCEPT !.mds = size, !.initial = Scaled(@, bb.mds, size), !.max = Scaled(@, bb.mds, size)]
             cwnd == IF bb.cwnd = minWindow(bb) THEN minWindow(b)
                     ELSE IF bb.cwnd = bb.initial THEN b.initial
                     ELSE Limit(b, bb.cwnd)
             rw == Min({b.max, Max({bb.recoveryWindow, minWindow(b)})})
  <1>1. Sized(bb) /\ Gains(bb) /\ Left(bb) /\ Refilled(bb)
    BY DEF SenderInv, Working
  <1>2. /\ minCongestionWindowPackets \in Nat /\ initialCongestionWindowPackets \in Nat
        /\ maxCongestionWindowPackets \in Nat /\ size \in Nat \ {0}
        /\ minCongestionWindowPackets <= initialCongestionWindowPackets
        /\ initialCongestionWindowPackets <= maxCongestionWindowPackets
    BY BBRAssumption, SMT
  <1>3. /\ Scaled(bb.initial, bb.mds, size) = initialCongestionWindowPackets * size
        /\ Scaled(bb.max, bb.mds, size) = maxCongestionWindowPackets * size
    <2>1. bb.initial = initialCongestionWindowPackets * bb.mds /\ bb.max = maxCongestionWindowPackets * bb.mds
      BY <1>1, Zenon DEF Sized
    <2>2. bb.mds \in Nat \ {0} /\ size \in Nat
      BY <1>1, <1>2 DEF Sized
    <2>3. /\ Scaled(initialCongestionWindowPackets * bb.mds, bb.mds, size) = initialCongestionWindowPackets * size
          /\ Scaled(maxCongestionWindowPackets * bb.mds, bb.mds, size) = maxCongestionWindowPackets * size
      BY <1>2, <2>2, Rescaled, Zenon
    <2> QED BY <2>1, <2>3, Zenon
  <1>4. /\ DOMAIN b = BBFields /\ b.mds = size /\ b.initial = initialCongestionWindowPackets * size
        /\ b.max = maxCongestionWindowPackets * size /\ b.cwnd = bb.cwnd
        /\ \A f \in BBFields \ {"mds", "initial", "max"} : b[f] = bb[f]
    BY <1>1, <1>3 DEF Sized, BBFields
  <1>5. bb' = [b EXCEPT !.cwnd = cwnd, !.recoveryWindow = rw]
    BY <1>1, <1>4 DEF BBRSetMaxDatagramSize, Sized, BBFields
  <1> HIDE DEF b
  <1>6. /\ minWindow(b) \in Nat /\ b.initial \in Nat /\ b.max \in Nat
        /\ minWindow(b) <= b.initial /\ b.initial <= b.max
    BY <1>2, <1>4, Products DEF minWindow
  <1> DEFINE v == Max({bb.cwnd, minWindow(b)})
             u == Max({bb.recoveryWindow, minWindow(b)})
  <1>7. bb.cwnd \in Int /\ bb.recoveryWindow \in Int
    BY <1>1 DEF Sized
  <1>8. /\ v = IF bb.cwnd >= minWindow(b) THEN bb.cwnd ELSE minWindow(b)
        /\ u = IF bb.recoveryWindow >= minWindow(b) THEN bb.recoveryWindow ELSE minWindow(b)
    <2>1. minWindow(b) \in Int
      BY <1>6
    <2> QED BY <1>7, <2>1, OfTwo, Zenon
  <1>9. v \in Int /\ v >= minWindow(b) /\ u \in Int /\ u >= minWindow(b)
    BY <1>6, <1>7, <1>8, SMT
  <1>10. Limit(b, bb.cwnd) = Min({v, b.max}) /\ rw = Min({b.max, u})
    BY Zenon DEF Limit
  <1> HIDE DEF v, u, rw
  <1>11. /\ Min({v, b.max}) = IF v <= b.max THEN v ELSE b.max
         /\ Min({b.max, u}) = IF b.max <= u THEN b.max ELSE u
    <2>1. b.max \in Int
      BY <1>6
    <2> QED BY <1>9, <2>1, OfTwo, Zenon
  <1>12. rw \in Int /\ rw >= minWindow(b)
    BY <1>6, <1>9, <1>10, <1>11, SMT
  <1>13. cwnd \in Int /\ minWindow(b) <= cwnd /\ cwnd <= b.max
    BY <1>6, <1>9, <1>10, <1>11, SMT
  <1> HIDE DEF cwnd
  <1>14. /\ DOMAIN bb' = BBFields /\ bb'.mds = size /\ bb'.cwnd = cwnd /\ bb'.recoveryWindow = rw
         /\ bb'.initial = b.initial /\ bb'.max = b.max
         /\ \A f \in BBFields \ {"mds", "initial", "max", "cwnd", "recoveryWindow"} : bb'[f] = bb[f]
    BY <1>4, <1>5 DEF BBFields
  <1>15. minWindow(bb)' = minWindow(b)
    BY <1>4, <1>14 DEF minWindow
  <1>16. Sized(bb)'
    <2>1. bb'.bdp = bb.bdp /\ bb'.inFlight = bb.inFlight
      BY <1>14 DEF BBFields
    <2>2. bb.bdp \in Nat /\ bb.inFlight \in Int
      BY <1>1 DEF Sized
    <2>3. /\ bb'.initial = initialCongestionWindowPackets * bb'.mds
          /\ bb'.max = maxCongestionWindowPackets * bb'.mds
      BY <1>4, <1>14
    <2> QED BY <1>2, <1>12, <1>13, <1>14, <1>15, <2>1, <2>2, <2>3 DEF Sized
  <1>17. Gains(bb)' /\ Left(bb)'
    <2>1. /\ bb'.mode = bb.mode /\ bb'.full = bb.full /\ bb'.offset = bb.offset /\ bb'.recovery = bb.recovery
          /\ bb'.pacingGain = bb.pacingGain /\ bb'.cwndGain = bb.cwndGain
      BY <1>14 DEF BBFields
    <2> QED BY <1>1, <2>1 DEF Gains, Left
  <1>18. Refilled(bb)'
    BY <1>12, <1>14, <1>15 DEF Refilled
  <1>19. bbFlight' \subseteq 0 .. (MaxAge - 1)
    BY DEF SenderInv, BBRSetMaxDatagramSize
  <1> QED BY <1>16, <1>17, <1>18, <1>19 DEF SenderInv, Working

\* The windows of the BBR sender stay within their limits and its gains and flags
\* are those of its mode, in every behaviour, whatever is acknowledged, lost or
\* measured and whenever the datagram size grows (bbr_sender.go:488-532, 720-752,
\* 831-1040).
THEOREM SenderAlwaysSound == BBRInit /\ [][BBRNext]_bbVars => []ModesSound
  <1>1. SenderInv /\ [BBRNext]_bbVars => SenderInv'
    <2> SUFFICES ASSUME SenderInv, [BBRNext]_bbVars PROVE SenderInv'
      OBVIOUS
    <2>1. CASE UNCHANGED bbVars
      BY <2>1 DEF bbVars, SenderInv, Working, Left, Refilled, Sized, Gains, minWindow
    <2>2. ASSUME NEW size \in MaxDatagramSizes, BBRSetMaxDatagramSize(size)
          PROVE  SenderInv'
      BY <2>2, SizeKeeps
    <2> QED BY <2>1, <2>2, SendKeeps, TimeKeeps, EventsKeep, Zenon DEF BBRNext
  <1> QED BY <1>1, SenderBegins, SenderSound, PTL
=============================================================================
