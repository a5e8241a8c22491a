------------------------------ MODULE Firewall ------------------------------
(***************************************************************************)
(* The redirection of a server's port range to the port it listens on      *)
(* (app/internal/firewall/firewall_linux.go), by commands that add         *)
(* objects to the kernel's NAT tables, and its removal.  A process may     *)
(* fail at any command, end without cleaning up, and be started again on   *)
(* the same address, where it meets what was left.                         *)
(*                                                                         *)
(* The names of tables and chains are hashes of the family, address and    *)
(* ports, so two processes of one configuration use the same ones.         *)
(***************************************************************************)
EXTENDS Integers, Sequences, SequencesExt, FiniteSetsExt, FiniteSets

(***************************************************************************)
(* PortUnion (extras/utils/portunion.go): sets of ports as ranges, for     *)
(* port hopping, server port ranges and sniffing, and the ranges the       *)
(* firewall is asked to redirect (app/internal/firewall/firewall.go).      *)
(* A port union in a configuration is a sequence of items: a pair of ports *)
(* in either order, a single port, or text that is neither.                *)
(***************************************************************************)

CONSTANTS
    MaxPort,        \* the largest uint16
    MaxItems        \* bound on the items of a union

ASSUME MaxPortAssumption == MaxPort \in Nat /\ MaxItems \in Nat

Port == 0 .. MaxPort
PortRange == [Start : Port, End : Port]
Bad == [Start |-> -1, End |-> -1]
Wildcard == [Start |-> -2, End |-> -2]

VARIABLE puItems    \* the items of the configured union, or <<Wildcard>>

puVars == <<puItems>>

PortUnionInit ==
    puItems \in {<<Wildcard>>} \cup
        (BoundedSeq(PortRange \cup {Bad}, MaxItems) \ {<<>>})

RangeBefore(a, b) == a.Start < b.Start \/ (a.Start = b.Start /\ a.End <= b.End)

\* uint32(last.End) + 1: no port follows the last one.
NextPort(end) == end + 1

Merge(normalized, current) ==
    LET n == Len(normalized)
        last == normalized[n]
    IN  IF current.Start <= NextPort(last.End)
        THEN [normalized EXCEPT ![n].End = IF current.End > @ THEN current.End ELSE @]
        ELSE Append(normalized, current)

Normalize(u) ==
    IF u = <<>> THEN u
    ELSE LET sorted == SortSeq(u, RangeBefore)
         IN  FoldLeft(Merge, <<sorted[1]>>, Tail(sorted))

\* The two ports of a range are put in order.
Ordered(item) ==
    IF item.Start > item.End THEN [Start |-> item.End, End |-> item.Start] ELSE item

ParsePortUnion(items) ==
    CASE items = <<Wildcard>> -> <<[Start |-> 0, End |-> MaxPort]>>
      [] items # <<Wildcard>> /\ Bad \in ToSet(items) -> <<>>
      [] OTHER -> Normalize([i \in 1 .. Len(items) |-> Ordered(items[i])])

\* Ports: every port of every range, in order.
Ports(u) ==
    FlattenSeq([i \in 1 .. Len(u) |-> [j \in 1 .. u[i].End - u[i].Start + 1 |-> u[i].Start + j - 1]])

ContainsPort(u, port) == \E i \in 1 .. Len(u) : port >= u[i].Start /\ port <= u[i].End

\* The ranges to redirect: all but the first port, which is listened on.
redirectPortUnion(ports) ==
    CASE ports = <<>>                          -> <<>>
      [] ports # <<>> /\ ports[1].Start = ports[1].End -> Tail(ports)
      [] OTHER                                 -> [ports EXCEPT ![1].Start = @ + 1]

-----------------------------------------------------------------------------
Union == ParsePortUnion(puItems)
Meant == IF puItems = <<Wildcard>> THEN Port
         ELSE UNION { Min({puItems[i].Start, puItems[i].End}) ..
                      Max({puItems[i].Start, puItems[i].End}) : i \in DOMAIN puItems }

\* A union that is parsed has the ports its text names and no other, and its
\* ranges ascend with a gap between them, up to the largest port
\* (extras/utils/portunion.go:21-86).
UnionIsNormal ==
    Union # <<>> =>
        /\ { p \in Port : ContainsPort(Union, p) } = Meant
        /\ \A i \in 1 .. Len(Union) : Union[i].Start <= Union[i].End
        /\ \A i \in 1 .. Len(Union) - 1 : Union[i].End + 1 < Union[i + 1].Start

\* Ports lists every port once: hopping draws from them evenly, and the loop
\* over a range that ends at the largest port ends (portunion.go:89-97).
PortsListed ==
    Union # <<>> => Ports(Union) = SetToSortSeq(Meant, <)

\* The port that is listened on and the ones redirected to it make up the union
\* (app/internal/firewall/firewall.go:16-27).
RedirectsTheRest ==
    Union # <<>> =>
        { p \in Port : ContainsPort(redirectPortUnion(Union), p) } = Meant \ {Union[1].Start}

-----------------------------------------------------------------------------
CONSTANTS
    Unions,         \* the port unions a server may be configured with
    ListenIPs,      \* the addresses it may listen on: "any", "v4", "v6"
    MaxRuns         \* bound on the processes started, one after the other

VARIABLES
    fwBackend,      \* "nft" or "iptables"
    fwIP, fwPorts,  \* the configured address and ports
    fwKernel,       \* the objects in the kernel
    fwBefore,       \* the objects there when this process started
    fwPhase,        \* "setup", "undo", "up", "failed", "closed", "killed" or "panicked"
    fwNext,         \* the commands run so far
    fwCleanup,      \* closerFuncs.fns: the objects to remove, in the order added
    fwRuns

fwConfig == <<fwBackend, fwIP, fwPorts>>
fwVars == <<fwConfig, fwKernel, fwBefore, fwPhase, fwNext, fwCleanup, fwRuns>>

Families(ip) ==
    CASE ip = "any" -> <<"ip", "ip6">> [] ip = "v4" -> <<"ip">> [] ip = "v6" -> <<"ip6">>

Hooks == <<"prerouting", "output">>

Obj(family, what, hook, range) ==
    [family |-> family, what |-> what, hook |-> hook, range |-> range]
NoRange == [Start |-> 0, End |-> 0]

Rules(family, redirects) ==
    FlattenSeq([h \in 1 .. 2 |->
        [i \in 1 .. Len(redirects) |-> Obj(family, "rule", Hooks[h], redirects[i])]])

\* The commands for one family: nft fills a table of its own; iptables makes a
\* chain and has the built-in chains jump to it.
NFTCommands(family, redirects) ==
    <<Obj(family, "table", "", NoRange)>>
      \o [h \in 1 .. 2 |-> Obj(family, "chain", Hooks[h], NoRange)]
      \o Rules(family, redirects)

IPTablesCommands(family, redirects) ==
    <<Obj(family, "chain", "", NoRange), Obj(family, "target", "", NoRange)>>
      \o Rules(family, redirects)

Commands ==
    LET families == Families(fwIP)
        redirects == redirectPortUnion(fwPorts)
    IN  FlattenSeq([f \in 1 .. Len(families) |->
            IF fwBackend = "nft" THEN NFTCommands(families[f], redirects)
                                 ELSE IPTablesCommands(families[f], redirects)])

\* What cleanup.add is told of: nft removes the table whole, iptables every rule
\* and then the chain with its target.
Undone(obj) ==
    IF fwBackend = "nft" THEN obj.what = "table" ELSE obj.what \in {"chain", "rule"}

FirewallInit ==
    /\ fwBackend \in {"nft", "iptables"} /\ fwIP \in ListenIPs /\ fwPorts \in Unions
    /\ fwKernel = {} /\ fwBefore = {} /\ fwRuns = 1
    /\ fwPhase = "setup" /\ fwNext = 0 /\ fwCleanup = <<>>

\* iptables -N fails if the chain is there; nft add does not mind.
Accepts(obj) == ~(fwBackend = "iptables" /\ obj.what = "chain" /\ obj \in fwKernel)

RunCommand ==
    /\ fwPhase = "setup" /\ fwNext < Len(Commands)
    /\ LET obj == Commands[fwNext + 1]
       IN  /\ Accepts(obj)
           /\ fwKernel' = fwKernel \cup {obj}
           /\ fwNext' = fwNext + 1
           /\ fwCleanup' = IF Undone(obj) THEN Append(fwCleanup, obj) ELSE fwCleanup
    /\ UNCHANGED <<fwConfig, fwBefore, fwPhase, fwRuns>>

\* What a failed command leaves to undo: what was done before it.
UndoneAfter(obj) == fwCleanup

\* A command fails, or the binaries are missing.
CommandFails ==
    /\ fwPhase = "setup" /\ fwNext < Len(Commands)
    /\ fwPhase' = "undo"
    /\ fwCleanup' = UndoneAfter(Commands[fwNext + 1])
    /\ UNCHANGED <<fwConfig, fwKernel, fwBefore, fwNext, fwRuns>>

SetupDone ==
    /\ fwPhase = "setup" /\ fwNext = Len(Commands)
    /\ fwPhase' = "up"
    /\ UNCHANGED <<fwConfig, fwKernel, fwBefore, fwNext, fwCleanup, fwRuns>>

\* Close of a serving process: the server's, or Close when Listen failed.  With
\* nothing to redirect the closer is a nil pointer in an interface that is not
\* nil, and calling it panics.
BeginClose ==
    /\ fwPhase = "up"
    /\ fwPhase' = IF redirectPortUnion(fwPorts) = <<>> THEN "panicked" ELSE "undo"
    /\ UNCHANGED <<fwConfig, fwKernel, fwBefore, fwNext, fwCleanup, fwRuns>>

Referenced(obj) == \E o \in fwKernel : o.what = "rule" /\ o.family = obj.family

\* The commands of one cleanup function: nft delete table; iptables -D; or -F
\* and -X, of which the second fails on a chain that is still referred to.
Removed(obj) ==
    CASE obj.what = "table" -> { o \in fwKernel : o.family = obj.family }
      [] obj.what = "rule"  -> {obj}
      [] obj.what = "chain" ->
            { o \in fwKernel : o.family = obj.family /\ o.what = "target" }
              \cup (IF Referenced(obj) THEN {} ELSE {obj})

\* Mutant of NextUndone: from the first to the last.
FirstUndone == 1

\* Close runs the functions from the last to the first.
NextUndone == Len(fwCleanup)

Undo ==
    /\ fwPhase = "undo" /\ fwCleanup # <<>>
    /\ fwKernel' = fwKernel \ Removed(fwCleanup[NextUndone])
    /\ fwCleanup' = RemoveAt(fwCleanup, NextUndone)
    /\ UNCHANGED <<fwConfig, fwBefore, fwPhase, fwNext, fwRuns>>

UndoDone ==
    /\ fwPhase = "undo" /\ fwCleanup = <<>>
    /\ fwPhase' = IF fwNext = Len(Commands) THEN "closed" ELSE "failed"
    /\ UNCHANGED <<fwConfig, fwKernel, fwBefore, fwNext, fwCleanup, fwRuns>>

\* The process is killed, or ends by logger.Fatal: a later part of the
\* configuration is wrong, Mimic does not start, or Serve fails.
Die ==
    /\ fwPhase \in {"setup", "undo", "up"}
    /\ fwPhase' = "killed"
    /\ UNCHANGED <<fwConfig, fwKernel, fwBefore, fwNext, fwCleanup, fwRuns>>

FirewallRestart ==
    /\ fwPhase \in {"closed", "failed", "killed", "panicked"} /\ fwRuns < MaxRuns
    /\ fwRuns' = fwRuns + 1
    /\ fwBefore' = fwKernel
    /\ fwPhase' = "setup" /\ fwNext' = 0 /\ fwCleanup' = <<>>
    /\ UNCHANGED <<fwConfig, fwKernel>>

FirewallNext ==
    \/ RunCommand \/ CommandFails \/ SetupDone \/ BeginClose
    \/ Undo \/ UndoDone \/ Die \/ FirewallRestart

-----------------------------------------------------------------------------
\* What comes to a port over a family, by a hook.
Redirected(family, hook) ==
    UNION { o.range.Start .. o.range.End :
              o \in { o \in fwKernel : o.family = family /\ o.what = "rule" /\ o.hook = hook } }

\* While the server is up, packets to every port of its range but the first
\* come to the first, for every family it listens on, from outside and from
\* the host itself, whatever an earlier process left in the kernel.
ServingRedirectsAll ==
    fwPhase = "up" =>
        \A f \in ToSet(Families(fwIP)), h \in ToSet(Hooks) :
            Redirected(f, h) = ToSet(Ports(fwPorts)) \ {fwPorts[1].Start}

\* A setup that fails leaves nothing in the kernel that was not there before
\* (firewall_linux.go:85-184).
FailedSetupAddsNothing == fwPhase = "failed" => fwKernel \subseteq fwBefore

\* After a close nothing is left, of this process or of an earlier one: the
\* cleanup functions run in an order in which each can succeed
\* (firewall_linux.go:46-56).
ClosedLeavesNothing == fwPhase = "closed" => fwKernel = {}

\* A process that finds its objects in the kernel never removes part of them:
\* when its setup fails, what an earlier process left is either whole or gone.
LeftoversStayWhole ==
    fwPhase = "failed" /\ fwBackend = "iptables" /\ fwBefore # {}
        => \A f \in {"ip", "ip6"} :
             \/ { o \in fwKernel : o.family = f } = { o \in fwBefore : o.family = f }
             \/ { o \in fwKernel : o.family = f } = {}

\* The kernel redirects exactly the configured ports while the server runs, and
\* a set-up that fails or is closed leaves what was there before.
RedirectsExact ==
    /\ UnionIsNormal /\ PortsListed /\ RedirectsTheRest
    /\ ServingRedirectsAll /\ FailedSetupAddsNothing
    /\ ClosedLeavesNothing /\ LeftoversStayWhole
=============================================================================
