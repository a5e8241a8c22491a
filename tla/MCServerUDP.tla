----------------------------- MODULE MCServerUDP -----------------------------
EXTENDS ServerUDP

\* Every address is one byte long.
MCAddrLen(a) == 1

Msg(s, pid, id, count, a) ==
    [SessionID |-> s, PacketID |-> pid, FragID |-> id, FragCount |-> count,
     Addr |-> a, Data |-> <<1>>]

\* Unfragmented messages of every session to every address.
WholeMessages == {Msg(s, 0, 0, 1, a) : s \in Sessions, a \in Addrs}
=============================================================================
