# A TLA+ verification of hysteria2

This directory models hysteria2 (the Go proxy under `hysteria2-go/`, wrapped for
Python) in TLA+, checks the models with TLC on small instances, and proves the
main safety properties of four components with TLAPS for every value of the
constants. Paths below are relative to `src/hysteria2-go/`. `PROJECT.json` maps
every definition to the lines it models and lists runs, mutants, findings,
hazards and theorems.

## 1. The system and its modules

A client accepts traffic on inbounds (SOCKS5, HTTP, forwarding, redirect, TUN),
carries it over one QUIC connection to the server (TCP: one stream per
connection; UDP: datagrams that carry a session ID), and the server sends it on
through outbounds. Below QUIC sit congestion control, obfuscation and port
hopping; beside it NAT traversal ("realm"), ACLs, resolvers, sniffing, statistics
and what each process sets up on its machine.

| Module | Code | What is hard about it |
|---|---|---|
| **Core** | | |
| `Frag`, `FragChannel` | `core/internal/frag`, `udpConn.Send`, `sendMessageAutoFrag` | loss, reordering, rounding, uint8 counts |
| `Wire` | `core/internal/protocol/proxy.go` | what a writer writes a reader must read, at every length limit and cut |
| `Handshake` | `fill`, `verifyAndFill`, headers and bandwidth negotiation of both sides | two sides that must agree without a second exchange |
| `ServerUDP` | `core/server/udp.go` | three kinds of goroutine close the same session; a dial under a lock; a snapshot used after unlock |
| `ServerConn` | `core/server/server.go`, `copy.go`, `extras/trafficlogger` | authentication racing disconnection, half-finished relays, one kick and many connections |
| `ClientUDP` | `core/client/udp.go` | send on a channel that may be closed; open versus cleanup; IDs that wrap |
| `ClientCore` | `core/client/client.go` | every error path, a response taken off the stream by the first Read |
| `Reconnect` | `core/client/reconnect.go` | calls outside the lock, late errors of an old client, permanent close |
| **Transport** | | |
| `Brutal`, `Pacer` | `core/internal/congestion/brutal`, `common/pacer.go` | slots that are reused, division by small rates, overflow |
| `BBR`, `Sampler`, `WindowedFilter`, `PacketQueue`, `PacketMap` | `core/internal/congestion/bbr` | mode cycles, app-limited phases, ring indices |
| `UDPHop` | `extras/transport/udphop` | hop versus close, a blocking send, two sockets at most |
| `Gecko` | `extras/obfs` | limits, 8-bit IDs reused, two maps in step |
| **Realm** | | |
| `Punch`, `Stun` | `extras/realm` | two locks, answers taken by another's call |
| `RealmRuntime`, `RealmSetup` | `app/cmd/server.go`, `client.go`, `realm_portmap.go` | requests that fail after they took effect, resources acquired in a chain |
| **Outbounds** | | |
| `ACL`, `ACLMatch` | `extras/outbounds/acl.go`, `acl/` | a cache that must be transparent; search by bisection |
| `DirectOutbound`, `FastOpen`, `ProxyOutbound`, `Resolver`, `Speedtest` | `extras/outbounds` | racing dials, double close, silence of the other end |
| **Inbounds** | | |
| `Inbound`, `UDPInbound`, `Forwarding`, `Mux`, `TunServer` | `app/internal` | read-ahead buffers, goroutines started before insertion, replace versus close |
| **Processes** | | |
| `ClientApp` | `runClient`, `clientModeRunner`, `StartFromJSON` | deferred calls that Fatal does not run, a channel nobody reads |
| `CertLoader` | `app/internal/utils/certloader.go` | two files replaced one after the other under concurrent handshakes |
| `GeoLoader` | `app/internal/utils/geoloader.go` | downloads that fail half way, kills, two processes |
| `Firewall`, `PortUnion` | `app/internal/firewall`, `extras/utils/portunion.go` | rollback of kernel rules; what a crash leaves to the next start |
| `Mimic` | `app/internal/mimic` | a child shared by processes, stale lock files, exit versus Close |
| `Sniff` | `extras/sniff` | fragments in any order, bytes that must not be lost |

`ServerUDPInv`, `ServerUDPFeed`, `ServerUDPConn`, `ServerUDPClose`,
`ServerUDPProofs`, `ClientUDPProofs`, `ReconnectProofs` and `CertLoaderProofs`
hold the proofs; `MC*` are the instances for TLC.

## 2. How state and actions correspond to the code

Variables carry the names of the fields where TLA+ allows it, with a prefix for
the module where several modules meet in one instance. A goroutine is a program
counter; one action is one critical section, or one stretch of code that shares
nothing. A lock is explicit where the code calls something while it holds it
(`connLock` over a dial, the reconnecting client's mutex over a handshake, the
fast-open lock over a dial, the certificate loader's lock over a load); the
critical sections of other locks are single actions. `panic` appears as a state.
Variables commented as history record what happened and are read by properties
only.

**Frag, FragChannel.** A message is a record with the fields of the Go struct;
its payload tells which message and position a byte belongs to, so a mixture of
two packets is visible. Datagrams are reordered and lost; QUIC does not duplicate
them. `FragPanics` says when the code would index out of range; `Send` has its
negation as a precondition (4096-byte messages, datagrams above 1000 bytes).

**Wire** writes and reads each message as bytes, with scaled-down limits that
keep their order; `Handshake` fills both configurations, exchanges the headers
and applies what each side makes of them.

**ServerUDP.** `CloseWithErr` is one action for all callers, followed by
`ExitFunc`. Time is the age of a session in ticks, saturated just above the
timeout. The hook may ask for more packets, settle on any address, or fail; what
the sniffer does in it is `Sniff`.

**ServerConn** follows a connection from handshake to the last event, with its
streams, both goroutines of every relay and the statistics server, whose requests
run at any time. The UDP session manager appears as the traffic it logs.

**ClientUDP, ClientCore, Reconnect.** `panicked` records a send on a closed
channel; session IDs are counted modulo `IDMod`. A stream delivers a response,
data and its end in order. In `Reconnect` a client is "new", "up", "down" or
"closed", and `CallReportsClosed` is possible whatever its status, because
`wrapIfConnectionClosed` wraps nearly every stream error.

**Congestion control.** Each algorithm is a module of its own. What one measures
is an input of the next: the sampler's and filters' results are arbitrary small
values in `BBR`, its pacing rate is any in `Pacer`. Rates are fractions or small
integers, with the width of the integers kept where they may overflow. The
losses are those quic-go declares. `PacketQueue` implements `PacketMap`: the ring
buffer with its offset and slots, under the refinement mapping to the function
from packet numbers to present entries (property `QueueIsMap`).

**Gecko, UDPHop.** Datagrams are lost, duplicated and reordered; chunk counts,
lengths and padding follow the code's limits, scaled down. A hop opens a socket
while the receiving goroutines of the last two go on.

**Realm.** A punch packet decodes for its own attempt only. Requests to the
rendezvous server fail before or after they took effect.

**Outbounds and inbounds.** A relay carries sequences of tokens, so that
read-ahead bytes and replies that belong to the caller are visible. `Inbound`
covers six kinds of TCP inbound and `UDPInbound` three of UDP: the kind is chosen
in Init.

**Processes.** `CertLoader` identifies a file with the number of its last write,
which is also its modification time. `Firewall` issues the commands one by one,
each of which may fail; a process may die anywhere and start again on what it
left. `GeoLoader` has processes that share a directory. `Mimic` has the lock
files and children of several processes. `ClientApp` covers the command and the
Python binding. `Sniff` knows a byte of a ClientHello by its place.

## 3. What TLC checks

Parts that do not interact share an instance: `part` chooses one in the initial
state and a step of one leaves the others alone, so a run is the sum of its parts
and not their product.

| Run | Question | Distinct states |
|---|---|---|
| `safety` | Are fragments, messages, rates, punches, rules, multiplexed connections, TUN resources, certificates, Mimic, client exits and UDP routes right in every reachable state? | 2,159,064 |
| `server_udp` | Who owns the session table and the connections, in every interleaving; do idle sessions close, closed ones leave, all loops return? | 146,539 |
| `client_udp` | No send on a closed channel, an exact table, nothing left open, every receiver returns? | 318,683 |
| `server_conn` | Are online counts, events and statistics exact, is there one response per request, does everything end with the connection? And around it: are port unions, redirections, databases and sniffed bytes right under failures and crashes? | 221,672 |
| `client` | Is Close permanent, is anything leaked on an error path, does a realm have one session at a time and re-register, does every call return? | 48,244 |
| `transport` | Are sockets, reassembly, estimates, windows and pacing within their bounds; does the queue implement a map; does a probe end? | 192,136 |
| `application` | Who may dial, what may a relay lose, what is closed on which path, does every call and relay end? | 86,379 |

Five runs show that a comment says more than the code does:
`server_udp_stale_idle` (a session refreshed after the snapshot is closed),
`server_udp_held` (an error loses the remaining held messages), `frag_discard`
(an unfragmented packet does not discard a partial one), `reconnect_drop` (a
stream error drops a client that is up) and `forward_stale` (a forwarding session
that ended before it was inserted stays in the map). Each is quoted in
`PROJECT.json` under findings.

**Bounds.** They are the smallest at which the cases the properties are about
happen.
- One session ID and two entries: a session is closed while its successor lives;
  a third entry repeats it. Two addresses, one permitted, and a cache of one
  entry make every eviction happen. `IdleTimeout` of 0 or 1 tick separates fresh,
  at the limit and idle.
- Two client sessions with four IDs do not wrap. What survives a wrapped ID
  (`NoPanic`, `EOFIsFinal`) is proved for every `IDMod` (section 4).
- Two goroutines and three connections of the reconnecting client: a late error
  meets a successor and a successor's successor.
- Two server connections, two requests and one stream: two connections of one
  user, and a stream of one that is kicked through the other.
- `MaxSends`, `MaxDatagrams` and payloads of up to 6 bytes over paths that carry
  0 to 3 give one to three fragments, messages that do not fit, and interleavings
  of three packets under two packet IDs.
- `Wire` takes the lengths on both sides of every limit and of the sizes of a
  variable-length integer.
- Two attempts, two responders, buffers of one event: an attempt meets an old
  packet of another and a full buffer.
- Gecko with two peers, IDs modulo 4 and a table of two, one per source: eviction
  by either limit, and an ID that comes again.
- Packet numbers 0 to 4 over a ring of 2 that grows; windows of 4 rounds of 7;
  two slots over five seconds, so that each is reused.
- Two writes of each certificate file under two handshakes and InitializeCache:
  every mixture of old and new. Three runs of a process over the kernel's rules;
  two processes with two runs each over a database.
- Unions of up to three items over the ports 0 to 3, where 3 is the largest a
  port can be: all touching, overlapping and reversed ranges.

**Fairness.** Every goroutine that can run is run by the Go scheduler (weak
fairness of its steps); dials, hooks, sends and handshakes return, by the
timeouts the code gives them. Strong fairness is assumed where a choice stays
open while another is taken: an idle loop whose ticker and stop channel are both
ready, a receive on a dead connection behind queued datagrams, waiters for a
`sync.Mutex`, which does not starve them, and requests to a rendezvous server
that are repeated for ever, one of which gets through (`Reregisters` and
`AddrsPublished` rest on it). BBR's `ProbeRttEnds` takes the packets in flight to
be acknowledged or lost in the end. Nothing obliges the client, the target or the
application to do anything. In `Mimic` and `ClientApp`, where a step once
possible stays so, "it ends" is stated as an invariant: as long as something is
pending, a step of the code that brings it about is enabled.

**Deadlock** is checked in `server_udp` and `reconnect_drop`. Elsewhere
everything may have been sent, ended or used up, so it is not; what must not wait
for ever is a property.

Each property is shown to depend on the code by a mutant: an operator next to the
definition it replaces (a dropped check, a forgotten unlock, an off-by-one)
under which TLC finds the property violated.

## 4. What is proved

All theorems hold for any sets of sessions, entries, addresses, goroutines,
clients and handshakes, from the named assumptions of the modules (distinct
identifiers, types of the constants, positive capacities).

**Server sessions** (`ServerUDPProofs`). `TableExact`, `CloseLoggedOnce`,
`NoConnAfterClose`, `ReturnedClean`, `NoEarlyIdleClose` and `RoutesRespected` are
not inductive: they speak of the table and the log, while what makes them true is
where each goroutine is. `Inv` in `ServerUDPInv` adds: which goroutine works on
which entry at which label; that an entry has at most one goroutine between
setting `closed` and `ExitFunc`, which therefore runs once; that an entry with a
connection has a receive loop; that the holder of `connLock` is RunLoop at its
dial; that a snapshot entry was idle when it was taken, or Run is draining; that
after the final snapshot no new entry appears and every open one is still in
`todo` or being closed; and that cached decisions agree with the policy. The
steps are proved in three modules by group of actions and combined in `NextInv`.

**Client sessions** (`ClientUDPProofs`). `NoPanic` needs only that the table
points to open sessions, which survives a wrap-around of the counter, so
`NeverPanics` and `EOFFinal` hold unconditionally. `TableExact` and
`CleanAfterRun` hold as long as the counter has not wrapped: `ExactUntilWrap`
states this as `Spec /\ []NotWrapped => ...`.

**Reconnecting client** (`ReconnectProofs`). The lock invariant (whoever is in
`reconnect` holds the mutex, found no client and no Close) gives
`NoConnectAfterClose`, an action property, and with the call invariant
`CloseIsPermanent` and `OnlyReportedDropped`.

**Certificate loader** (`CertLoaderProofs`). `SafeInv` says: the numbers of the
files only grow and what a cache holds was on disk; the lock has one holder, the
one that is loading; a load read each modification time before the contents, so a
cache is never stamped newer than it is. From it follow `UpToDateIsCurrent`,
`NoHandshakeFails` (a call finds a cache, since the server serves only after
InitializeCache) and `CacheAdvances`. `RenewalServed` needs `SettledInv`
besides, about the time after the last write once a call began by itself: every
call in progress reads the last versions only, a call whose cache was replaced
since it looked finds a current one, and the cache is current or a call that will
renew it is in progress.

Only model-checked: liveness and what is stated with ENABLED; the refinement
`QueueIsMap`; fragmentation (`AssembledData` is recursive) and the other
algorithms over sequences (matchers, port unions, reassembly of CRYPTO frames);
the count in `Reconnect!TypeOK`; and the components without a module of proofs.

## 5. What is not modelled

- Generated code (protobuf, mocks), and the URL parser, a copy of the standard
  library's. The grammar of QUIC headers, a ClientHello and an HTTP request is
  reduced to its outcomes in `Sniff`.
- Text: configuration files, command lines, share links, addresses, rule syntax.
  A configuration that is refused is an input (`ClientApp`, `Handshake`).
- Stateless calls: authentication back ends and masquerading, whose verdicts are
  inputs of `ServerConn`; socket options; the comparison of the SNI guard.
- Cryptography: Salamander's keyed transformation and QUIC's Initial keys.
- Arithmetic on floating-point rates beyond what the properties tell apart.
- Packet handling of the TUN stack and the router's side of a port mapping, which
  are outside of the program.
- Go's memory model: accesses under the same lock are atomic, and unsynchronised
  ones are listed as hazards. So are the hazards that the models reproduce and no
  property forbids, such as rules left in the kernel by an exit through Fatal;
  each has a note saying why.
