----------------------------- MODULE MCClientUDP -----------------------------
EXTENDS ClientUDP, TLC

\* Every address is one byte long.
MCAddrLen(a) == 1

Msg(s, id, count) ==
    [SessionID |-> s, PacketID |-> count - 1, FragID |-> id, FragCount |-> count,
     Addr |-> "a", Data |-> <<1>>]

\* For every session ID a whole message and a packet in two fragments.
SomeMessages == {Msg(s, 0, 1) : s \in IDs} \cup {Msg(s, i, 2) : s \in IDs, i \in 0..1}

ConnSymmetry == Permutations(Conns)
=============================================================================
