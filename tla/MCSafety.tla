------------------------------ MODULE MCSafety ------------------------------
(***************************************************************************)
(* The parts of which only safety is asked, for TLC, each on its own: the  *)
(* fragmented datagrams of a UDP session, the handshake, the format of the *)
(* messages, the hole punching of a realm, the ACL engine and its          *)
(* matchers, the multiplexer of local protocols, the TUN server, the       *)
(* certificate loader, Mimic, the client application, and the addresses    *)
(* the server's UDP session manager writes to.  part says which a          *)
(* behaviour is about.                                                     *)
(***************************************************************************)
EXTENDS FragChannel, Protocol, Punch, ACL, Mux, ClientApp, CertLoader, Mimic

CONSTANTS
    Sessions, SessionAddrs, Allowed, Entry, RunLoop, IdleLoop, Nil, NoAddr,
    IdleTimeout, MaxACLCache, MaxHeld

VARIABLES
    part,
    m, ID, closed, conn, override, original, D, held, udpACLCache, age, connLock,
    pc, cur, todo, errNil, msg, queue, target, draining, stopped, ioAlive,
    closeLog, wasIdle, lastWrite, lastReply

udpVars == <<m, ID, closed, conn, override, original, D, held, udpACLCache, age, connLock,
             pc, cur, todo, errNil, msg, queue, target, draining, stopped, ioAlive,
             closeLog, wasIdle, lastWrite, lastReply>>

Msg(s, pid, id, count, a) ==
    [SessionID |-> s, PacketID |-> pid, FragID |-> id, FragCount |-> count,
     Addr |-> a, Data |-> <<1>>]

\* Whole messages of every session to every address, a packet in two fragments,
\* of which the first may bear another address, and a fragment numbered past the
\* count.
FragmentedMessages ==
    { Msg(s, 0, 0, 1, a) : s \in Sessions, a \in SessionAddrs } \cup
    { Msg(s, 1, 0, 2, a) : s \in Sessions, a \in SessionAddrs } \cup
    { Msg(s, 1, i, 2, a) : s \in Sessions, i \in 1 .. 2, a \in Allowed }

UDP == INSTANCE ServerUDP
         WITH Addrs <- SessionAddrs, Messages <- FragmentedMessages, aclCache <- udpACLCache

NoConfig == [MaxTx |-> 0, MaxRx |-> 0, window |-> 0, idle |-> 0, cc |-> ""]

R(ob, host, proto, port, hijack) ==
    [ob |-> ob, addr |-> host, proto |-> proto, port |-> port, hijack |-> hijack]

MCRuleLists ==
    {<<>>,
     <<R("reject", "HOST", "tcp", <<2, 3>>, "none"), R("out", "*", "", <<>>, "none")>>,
     <<R("out", "host", "*", <<2>>, "ip9"), R("direct", "ip1", "udp", <<AnyPort>>, "none")>>,
     <<R("default", "*", "*", <<0, 2>>, "ip9")>>,
     <<R("out", "*", "udp", <<3, 2>>, "none")>>,
     <<R("lost", "*", "udp", <<>>, "none")>>}

Q(host, ip, proto, port) == [host |-> host, ip |-> ip, proto |-> proto, port |-> port]

MCRequests ==
    {Q("host", "nil", "tcp", 3), Q("HOST", "nil", "tcp", 3), Q("host", "nil", "tcp", 1),
     Q("host", "ip1", "udp", 2), Q("else", "ip1", "udp", 4)}

MCOutboundLists == {<<>>, <<"out">>, <<"out", "default">>}

MCProtocolOf == [c \in MuxCallers |-> IF c = "s1" THEN "socks" ELSE "http"]

\* Each write of a certificate comes with a key of its own.
MCKeyOf == [v \in Writes |-> v]

MCInit ==
    /\ part \in {"frag", "handshake", "wire", "punch", "acl", "match", "mux", "tun", "udp",
                 "cert", "mimic", "app"}
    /\ part = "mimic" \/ (part # "mimic" /\ mmCovers = TRUE /\ mmLocks = {})
    /\ part = "app" \/ (part # "app" /\ caModes = {})
    /\ \/ part = "handshake"
       \/ /\ part # "handshake"
          /\ cCfg = NoConfig /\ sCfg = NoConfig @@ [ignore |-> FALSE, udp |-> FALSE]
    /\ \/ part = "wire"
       \/ (part # "wire" /\ wKind = "ok" /\ wText = 0 /\ wPad = 0 /\ wCut = 0)
    /\ \/ part = "acl"
       \/ (part # "acl" /\ textRules = <<>> /\ entries = <<>>)
    /\ \/ part = "match"
       \/ /\ part # "match"
          /\ amName = <<>> /\ amPattern = <<>> /\ amNets = {} /\ amIP = -1 /\ amInverse = FALSE
    /\ CertLoaderInit /\ MimicInit /\ ClientAppInit
    /\ ACLMatchInit /\ ACLInit /\ WireInit /\ Init
    /\ PunchInit /\ MuxInit /\ TunInit /\ UDP!Init /\ HandshakeInit

Except(p, q, v) == IF p = q THEN TRUE ELSE UNCHANGED v

\* A step of one part leaves the others alone.
Only(p, A) ==
    /\ part = p /\ A /\ UNCHANGED <<part, wireVars, amVars>>
    /\ Except(p, "frag", vars) /\ Except(p, "handshake", hsVars)
    /\ Except(p, "punch", punchVars) /\ Except(p, "acl", aclVars)
    /\ Except(p, "mux", mxVars) /\ Except(p, "tun", tnVars)
    /\ Except(p, "udp", udpVars) /\ Except(p, "cert", clVars)
    /\ Except(p, "mimic", mmVars) /\ Except(p, "app", caVars)

MCNext ==
    \/ Only("frag", Next) \/ Only("handshake", HandshakeNext) \/ Only("punch", PunchNext)
    \/ Only("acl", ACLNext) \/ Only("mux", MuxNext) \/ Only("tun", TunNext)
    \/ Only("udp", UDP!Next) \/ Only("cert", CertLoaderNext) \/ Only("mimic", MimicNext)
    \/ Only("app", ClientAppNext)

MCSpec ==
    MCInit /\ [][MCNext]_<<vars, hsVars, wireVars, punchVars, aclVars, amVars, mxVars, tnVars,
                           udpVars, clVars, mmVars, caVars, part>>

\* Once the hook replaced the address, every packet of a session goes to the
\* replacement and every reply bears the address the client used; otherwise
\* packets go only where the policy permits, whatever the decision cache
\* remembers (core/server/udp.go).
RoutesRespected == UDP!RoutesRespected

\* Processes end when they must and leave nothing running: the client with its
\* modes and its TUN device, and the Mimic process it started.
ProcessesEnd == ClientEndsClean /\ MimicFollowed
=============================================================================
