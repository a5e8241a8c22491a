------------------------------- MODULE Gecko -------------------------------
(***************************************************************************)
(* Gecko of extras/obfs: peers cut their QUIC long-header packets into     *)
(* padded chunks (gecko.go, gecko_frame.go), each of which travels in one  *)
(* obfuscated datagram (conn.go, salamander.go) over a network that loses, *)
(* duplicates and reorders; the receiver reassembles them per source       *)
(* address and message number.  Short-header packets pass through.         *)
(***************************************************************************)
EXTENDS Integers, Sequences, FiniteSets, FiniteSetsExt

CONSTANTS
    Peers,          \* source addresses
    PacketLens,     \* lengths of long-header packets
    ChunkCounts,    \* chunk counts randomFragmentChunks may pick
    MaxPackets,     \* packets of one peer
    MsgIDMod,       \* 256: message numbers are uint8
    MaxReassembly, MaxPerSource,     \* geckoMaxReassembly, geckoMaxPerSource
    ReassemblyTTL, GCPeriod,         \* geckoReassemblyTTL, and a half of it
    MinPkt, MaxPkt, BufferSize,      \* packet sizes; geckoBufferSize
    SaltLen, HeaderSize,             \* smSaltLen, geckoHeaderSize
    MinChunks, MaxChunks             \* geckoMinFragmentChunks, ...MaxFragment...

ASSUME GeckoAssumption ==
    /\ ChunkCounts \subseteq MinChunks .. MaxChunks
    /\ 0 < MinPkt /\ MinPkt <= MaxPkt /\ MaxPkt <= BufferSize
    /\ MinChunks \in Nat \ {0, 1} /\ MaxPerSource \in Nat \ {0}
    /\ PacketLens \subseteq Nat
    /\ {MaxChunks, MaxPackets, MaxReassembly, ReassemblyTTL} \subseteq Nat
    /\ {MsgIDMod, GCPeriod} \subseteq Nat \ {0}

VARIABLES
    msgID,         \* atomic counter of a peer
    gNet,          \* datagrams sent so far: each may arrive any number of times
    reassembly, perSource,
    gcIn,          \* time until the next tick of gcLoop
    gOut,          \* the packet ReadFrom returned last, as its chunks
    gOpen

geckoVars == <<msgID, gNet, reassembly, perSource, gcIn, gOut, gOpen>>

\* Bytes start..end-1 of packet number pkt of a peer.
Chunk(a, pkt, start, end) == [peer |-> a, pkt |-> pkt, start |-> start, end |-> end]

NoChunk == [peer |-> "none"]

GeckoInit ==
    /\ msgID = [a \in Peers |-> 0]
    /\ gNet = {}
    /\ reassembly = <<>>
    /\ perSource = [a \in Peers |-> 0]
    /\ gcIn = GCPeriod
    /\ gOut = <<>>
    /\ gOpen = TRUE

-----------------------------------------------------------------------------
(***************************************************************************)
(* Sending                                                                 *)
(***************************************************************************)

\* end in writeFragmented: the last chunk takes the remainder.
ChunkEnd(len, chunks, i) ==
    IF i < chunks - 1 THEN (i + 1) * (len \div chunks) ELSE len

\* The values randomPadLen may return for a chunk of n bytes.
PadLens(n) ==
    LET base == SaltLen + HeaderSize + n
        lo   == Max({MinPkt, base})
    IN  IF lo > MaxPkt THEN {0} ELSE {lo - base + r : r \in 0 .. (MaxPkt - lo)}

\* Obfuscate puts a salt before the frame, Deobfuscate takes it off; 0 for a
\* packet the buffer does not hold.
ObfuscateLen(n) == IF BufferSize < n + SaltLen THEN 0 ELSE n + SaltLen

DeobfuscateLen(n) ==
    IF n - SaltLen <= 0 \/ BufferSize < n - SaltLen THEN 0 ELSE n - SaltLen

\* The datagram of a chunk of n bytes.
WireLen(n, pad) == ObfuscateLen(HeaderSize + pad + n)

\* The frames of a packet, as encodeFrame writes them.
Frames(a, pkt, len, chunks) ==
    {[addr |-> a, msgID |-> pkt % MsgIDMod, chunkIdx |-> i, totalChunks |-> chunks,
      payload |-> Chunk(a, pkt, i * (len \div chunks), ChunkEnd(len, chunks, i))] :
       i \in 0 .. (chunks - 1)}

\* writeFragmented; a failing write leaves a beginning of the frames, which the
\* losses of the network cover.
GeckoWrite(a, len, chunks) ==
    /\ msgID[a] < MaxPackets
    /\ msgID' = [msgID EXCEPT ![a] = @ + 1]
    /\ gNet' = gNet \cup Frames(a, msgID[a] + 1, len, chunks)
    /\ UNCHANGED <<reassembly, perSource, gcIn, gOut, gOpen>>

\* Datagrams of somebody with another password, whose header decodes to noise.
NoiseFrames ==
    {[addr |-> a, msgID |-> 0, chunkIdx |-> MaxChunks + 1,
      totalChunks |-> MinChunks, payload |-> NoChunk] : a \in Peers}

-----------------------------------------------------------------------------
(***************************************************************************)
(* Receiving                                                               *)
(***************************************************************************)

\* decodeFrame accepts the frame.
DecodeFrame(f) ==
    f.totalChunks \in MinChunks .. MaxChunks /\ f.chunkIdx < f.totalChunks

Key(f) == <<f.addr, f.msgID>>

\* reassembly without the keys, and perSource as dropEntryLocked leaves it
Without(keys) == [k \in DOMAIN reassembly \ keys |-> reassembly[k]]

\* Mutant of SourcesWithout: an evicted entry is not taken off its source.
SourcesKept(keys) == perSource

SourcesWithout(keys) ==
    [a \in Peers |-> perSource[a] - Cardinality({k \in keys : k[1] = a})]

\* evictOldestLocked: one with the earliest deadline.
Oldest ==
    {k \in DOMAIN reassembly :
       \A j \in DOMAIN reassembly : reassembly[k].left <= reassembly[j].left}

\* What acceptChunk makes room with.
Evicted ==
    IF Cardinality(DOMAIN reassembly) >= MaxReassembly
    THEN {{k} : k \in Oldest} ELSE {{}}

Stored(e, f) ==
    [e EXCEPT !.chunks = [@ EXCEPT ![f.chunkIdx] = f.payload], !.received = @ + 1]

\* acceptChunk for the first chunk of a message.
GeckoFirstChunk(f) ==
    /\ gOpen /\ DecodeFrame(f) /\ Key(f) \notin DOMAIN reassembly
    /\ perSource[f.addr] < MaxPerSource
    /\ \E old \in Evicted :
         LET fresh == [chunks |-> [i \in 0 .. (f.totalChunks - 1) |-> NoChunk],
                       received |-> 0, total |-> f.totalChunks,
                       left |-> ReassemblyTTL]
         IN /\ reassembly' =
                 [k \in (DOMAIN reassembly \ old) \cup {Key(f)} |->
                    IF k # Key(f) THEN reassembly[k]
                    ELSE IF f.chunkIdx < f.totalChunks THEN Stored(fresh, f)
                    ELSE fresh]
            /\ perSource' = [SourcesWithout(old) EXCEPT ![f.addr] = @ + 1]
    /\ UNCHANGED <<msgID, gNet, gcIn, gOut, gOpen>>

\* acceptChunk goes on with an entry it found.
Wanted(e, f) ==
    e.total = f.totalChunks /\ f.chunkIdx < e.total /\ e.chunks[f.chunkIdx] = NoChunk

GeckoNextChunk(f) ==
    /\ gOpen /\ DecodeFrame(f) /\ Key(f) \in DOMAIN reassembly
    /\ Wanted(reassembly[Key(f)], f)
    /\ LET e == Stored(reassembly[Key(f)], f)
       IN IF e.received < e.total
          THEN /\ reassembly' = [reassembly EXCEPT ![Key(f)] = e]
               /\ UNCHANGED <<perSource, gOut>>
          ELSE /\ gOut' = [i \in 1 .. e.total |-> e.chunks[i - 1]]
               /\ reassembly' = Without({Key(f)})
               /\ perSource' = SourcesWithout({Key(f)})
    /\ UNCHANGED <<msgID, gNet, gcIn, gOpen>>

Expired(e) == e.left < 0

\* A unit of time passes; gcExpired runs when its ticker fires.
GeckoTick ==
    /\ gOpen
    /\ LET aged == [k \in DOMAIN reassembly |->
                      [reassembly[k] EXCEPT !.left = @ - 1]]
           dead == {k \in DOMAIN aged : gcIn = 1 /\ Expired(aged[k])}
       IN /\ reassembly' = [k \in DOMAIN aged \ dead |-> aged[k]]
          /\ perSource' = SourcesWithout(dead)
    /\ gcIn' = IF gcIn = 1 THEN GCPeriod ELSE gcIn - 1
    /\ UNCHANGED <<msgID, gNet, gOut, gOpen>>

\* Close: gcLoop ends, and reading from the inner connection fails.
GeckoClose ==
    /\ gOpen
    /\ gOpen' = FALSE
    /\ UNCHANGED <<msgID, gNet, reassembly, perSource, gcIn, gOut>>

GeckoNext ==
    \/ \E a \in Peers, len \in PacketLens, n \in ChunkCounts : GeckoWrite(a, len, n)
    \/ \E f \in gNet \cup NoiseFrames : GeckoFirstChunk(f) \/ GeckoNextChunk(f)
    \/ GeckoTick \/ GeckoClose

GeckoSpec == GeckoInit /\ [][GeckoNext]_geckoVars

-----------------------------------------------------------------------------
(***************************************************************************)
(* Properties                                                              *)
(***************************************************************************)

\* The counter of every source is the number of its entries, through
\* completion, eviction and expiry, and neither limit is ever exceeded.
SourcesExact ==
    /\ \A a \in Peers :
         /\ perSource[a] = Cardinality({k \in DOMAIN reassembly : k[1] = a})
         /\ perSource[a] <= MaxPerSource
    /\ Cardinality(DOMAIN reassembly) <= MaxReassembly

\* An entry counts each of its chunks once, has at least one and lacks at least
\* one: duplicates and noise neither complete a packet nor leave an empty entry.
EntriesPartial ==
    \A k \in DOMAIN reassembly :
      LET e == reassembly[k]
      IN  /\ e.received = Cardinality({i \in 0 .. (e.total - 1) :
                                         e.chunks[i] # NoChunk})
          /\ e.received \in 1 .. (e.total - 1)

\* What ReadFrom returns is a packet that was written, whole and in order, while
\* the message number did not come round.
PacketsWhole ==
    gOut # <<>> =>
      /\ gOut[1].start = 0 /\ gOut[Len(gOut)].end \in PacketLens
      /\ \A i \in 2 .. Len(gOut) :
           /\ gOut[i].peer = gOut[1].peer /\ gOut[i].pkt = gOut[1].pkt
           /\ gOut[i].start = gOut[i - 1].end

\* An entry is gone half a lifetime after its deadline: with SourcesExact, a
\* source at its limit gets room again without sending anything.
EntriesExpire == \A k \in DOMAIN reassembly : reassembly[k].left > -GCPeriod

\* Packets are reassembled whole, from entries that are counted exactly and
\* forgotten in time.
GeckoIntegrity == PacketsWhole /\ SourcesExact /\ EntriesPartial /\ EntriesExpire
=============================================================================
