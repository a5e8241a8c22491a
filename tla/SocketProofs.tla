---------------------------- MODULE SocketProofs ----------------------------
(***************************************************************************)
(* Safety of the sockets whose users change: a listener that inbounds of two *)
(* protocols share, for any number of inbounds and of connections, and port *)
(* hopping, for any number of sockets.                                     *)
(***************************************************************************)
EXTENDS Mux, UDPHop, TLAPS

-----------------------------------------------------------------------------
(***************************************************************************)
(* The multiplexer                                                         *)
(***************************************************************************)

\* Where mainLoop is, and what a multiplexer, a listener, a caller and a
\* connection are.
Places == {"unused", "loop", "select", "check", "delete", "close", "subs", "ended"}
MuxType == [base : BOOLEAN, done : BOOLEAN, sub : [Protocols -> 0 .. MaxSubs],
            seen : [Protocols -> 0 .. MaxSubs], main : Places,
            accepting : {"accept", "offer", "ended"}, hand : 0 .. MaxConns]
SubType == [mux : 0 .. MaxMux, protocol : Protocols \cup {"none"}, closed : BOOLEAN, ended : BOOLEAN]
CallerType == [pc : {"idle", "listen", "accepting", "stopped"}, mux : 0 .. MaxMux, sub : 0 .. MaxSubs]
ConnType ==
    [protocol : Protocols \cup {"none"}, mux : 0 .. MaxMux, target : 0 .. MaxSubs,
     at : {"unused", "backlog", "hand", "dispatch", "offered", "taken", "dropped", "closed", "panic"}]

MxTypes ==
    /\ mxCurrent \in 0 .. MaxMux
    /\ mxMux \in [Muxes -> MuxType] /\ mxSub \in [Subs -> SubType]
    /\ mxCaller \in [MuxCallers -> CallerType] /\ mxConn \in [MuxConns -> ConnType]

\* A multiplexer knows its own listeners, none once it has ended, and while
\* mainLoop waits it knows one of every protocol that it waits for.
KnownInv(m) ==
    /\ mxMux[m].main \in {"subs", "ended"} <=> mxMux[m].done
    /\ mxMux[m].main \in {"unused", "ended"} => \A p \in Protocols : mxMux[m].sub[p] = 0
    /\ mxMux[m].main = "select" =>
         \A p \in Protocols : mxMux[m].seen[p] # 0 => mxMux[m].sub[p] # 0
    /\ \A p \in Protocols : mxMux[m].sub[p] # 0 =>
         mxSub[mxMux[m].sub[p]].mux = m /\ mxSub[mxMux[m].sub[p]].protocol = p

\* The connection that acceptLoop offers to mainLoop.
HandInv(m) ==
    mxMux[m].accepting = "offer" =>
      /\ mxMux[m].hand \in MuxConns /\ mxConn[mxMux[m].hand].at = "hand"
      /\ mxConn[mxMux[m].hand].mux = m

\* A listener belongs to a multiplexer, which knows it as long as it is open.
SubInv(s) ==
    mxSub[s].mux # 0 =>
      /\ mxSub[s].protocol \in Protocols /\ mxMux[mxSub[s].mux].main # "unused"
      /\ ~mxSub[s].closed /\ ~mxSub[s].ended => mxMux[mxSub[s].mux].sub[mxSub[s].protocol] = s

\* A caller listens at a multiplexer that exists, and accepts from a listener of it.
CallerInv(c) ==
    /\ mxCaller[c].pc = "listen" => mxCaller[c].mux \in Muxes /\ mxMux[mxCaller[c].mux].main # "unused"
    /\ mxCaller[c].pc = "accepting" =>
         mxCaller[c].mux \in Muxes /\ mxCaller[c].sub \in Subs
         /\ mxSub[mxCaller[c].sub].mux = mxCaller[c].mux

\* A connection is offered to a listener of its protocol and of its multiplexer.
ConnInv(k) ==
    /\ mxConn[k].at # "unused" => mxConn[k].protocol \in Protocols
    /\ mxConn[k].at \in {"unused", "backlog", "hand", "dispatch"} => mxConn[k].target = 0
    /\ mxConn[k].at \in {"hand", "dispatch"} => mxConn[k].mux \in Muxes
    /\ mxConn[k].target # 0 =>
         /\ mxConn[k].mux # 0 /\ mxSub[mxConn[k].target].mux = mxConn[k].mux
         /\ mxSub[mxConn[k].target].protocol = mxConn[k].protocol

MxInv ==
    /\ MxTypes
    /\ mxCurrent # 0 => mxMux[mxCurrent].main # "unused"
    /\ \A m \in Muxes : KnownInv(m) /\ HandInv(m)
    /\ \A s \in Subs : SubInv(s)
    /\ \A c \in MuxCallers : CallerInv(c)
    /\ \A k \in MuxConns : ConnInv(k)

-----------------------------------------------------------------------------
\* What a multiplexer knows is a listener.
LEMMA KnownSub ==
    ASSUME NEW x \in MuxType, NEW q \in Protocols
    PROVE  x.sub[q] \in 0 .. MaxSubs /\ (x.sub[q] # 0 => x.sub[q] \in Subs)
  BY MuxAssumption DEF MuxType, Subs

\* Nobody listens at first.
LEMMA MxInitInv == MuxInit => MxInv
  <1> SUFFICES ASSUME MuxInit PROVE MxInv
    OBVIOUS
  <1> USE MuxAssumption
  <1>1. None \in [Protocols -> 0 .. MaxSubs] /\ \A p \in Protocols : None[p] = 0
    BY DEF None, Protocols
  <1>2. \A m \in Muxes : /\ mxMux[m] \in MuxType /\ mxMux[m].main = "unused" /\ ~mxMux[m].done
                         /\ mxMux[m].sub = None /\ mxMux[m].accepting = "ended"
    <2>1. NewMux \in MuxType /\ ~NewMux.done /\ NewMux.sub = None
      BY <1>1 DEF NewMux, MuxType, Places
    <2> TAKE m \in Muxes
    <2>2. mxMux[m] = [NewMux EXCEPT !.base = FALSE, !.main = "unused", !.accepting = "ended"]
      BY Zenon DEF MuxInit
    <2> QED BY <2>1, <2>2, Zenon DEF MuxType, Places
  <1>3. \A s \in Subs : mxSub[s] \in SubType /\ mxSub[s].mux = 0
    BY DEF MuxInit, NewSub, SubType
  <1>4. \A c \in MuxCallers : mxCaller[c] \in CallerType /\ mxCaller[c].pc = "idle"
    <2>1. mxCaller = [c \in MuxCallers |-> [pc |-> "idle", mux |-> 0, sub |-> 0]]
      BY Zenon DEF MuxInit
    <2>2. 0 \in 0 .. MaxMux /\ 0 \in 0 .. MaxSubs
      OBVIOUS
    <2> QED BY <2>1, <2>2, Zenon DEF CallerType
  <1>5. \A k \in MuxConns : mxConn[k] \in ConnType /\ mxConn[k].at = "unused" /\ mxConn[k].target = 0
    BY DEF MuxInit, NewConn, ConnType
  <1>6. MxTypes
    BY <1>2, <1>3, <1>4, <1>5 DEF MuxInit, MxTypes
  <1> QED BY <1>1, <1>2, <1>3, <1>4, <1>5, <1>6, Zenon
             DEF MuxInit, MxInv, KnownInv, HandInv, SubInv, CallerInv, ConnInv

\* Steps that change no listener and nothing that a multiplexer knows.
LEMMA MxFrame ==
    ASSUME MxInv, MxTypes', UNCHANGED <<mxSub>>,
           mxCurrent' \in {0, mxCurrent},
           \A m \in Muxes : /\ mxMux'[m].sub = mxMux[m].sub
                            /\ mxMux'[m].main = "unused" <=> mxMux[m].main = "unused"
                            /\ KnownInv(m)' /\ HandInv(m)',
           \A c \in MuxCallers : mxCaller'[c] = mxCaller[c] \/ CallerInv(c)',
           \A k \in MuxConns : mxConn'[k] = mxConn[k] \/ ConnInv(k)'
    PROVE  MxInv'
  <1>2. \A s \in Subs : SubInv(s)'
    <2> SUFFICES ASSUME NEW s \in Subs, mxSub[s].mux # 0 PROVE SubInv(s)'
      BY Zenon DEF SubInv
    <2>1. mxSub[s].mux \in Muxes
      BY MuxAssumption DEF MxInv, MxTypes, SubType, Muxes
    <2> QED BY <2>1, Zenon DEF MxInv, SubInv
  <1>3. \A c \in MuxCallers : CallerInv(c)'
    BY Zenon DEF MxInv, CallerInv
  <1>4. \A k \in MuxConns : ConnInv(k)'
    BY DEF MxInv, ConnInv
  <1>5. mxCurrent' # 0 => mxMux'[mxCurrent'].main # "unused"
    BY MuxAssumption DEF MxInv, MxTypes, Muxes
  <1> QED BY <1>2, <1>3, <1>4, <1>5, Zenon DEF MxInv

\* The goroutines of a multiplexer, where they forget no listener.
LEMMA MxMainFrame ==
    ASSUME MxInv, NEW m \in Muxes,
           MainReads(m) \/ MainEnds(m) \/ MainChecks(m) \/ MainDeletes(m) \/ BaseFails(m)
    PROVE  MxInv'
  <1> USE MuxAssumption
  <1>1. mxMux \in [Muxes -> MuxType] /\ KnownInv(m) /\ HandInv(m)
    BY Zenon DEF MxInv, MxTypes
  <1>2. /\ UNCHANGED <<mxSub, mxCaller, mxConn>> /\ mxCurrent' \in {0, mxCurrent}
        /\ \A n \in Muxes \ {m} : mxMux'[n] = mxMux[n]
    BY <1>1, Zenon DEF MainReads, MainEnds, MainChecks, MainDeletes, BaseFails
  <1>3. /\ mxMux' \in [Muxes -> MuxType]
        /\ mxMux'[m].sub = mxMux[m].sub /\ mxMux'[m].done = mxMux[m].done
        /\ mxMux'[m].main = "select" =>
             mxMux'[m].seen = mxMux[m].sub \/ (mxMux[m].main = "select" /\ mxMux'[m].seen = mxMux[m].seen)
        /\ \/ mxMux'[m].main = mxMux[m].main
           \/ mxMux'[m].main \notin {"unused", "subs", "ended"}
              /\ mxMux[m].main \notin {"unused", "subs", "ended"}
        /\ mxMux'[m].accepting = "offer" => mxMux[m].accepting = "offer" /\ mxMux'[m].hand = mxMux[m].hand
    <2>1. CASE MainReads(m)
      BY <1>1, <2>1 DEF MainReads, MuxType, Places
    <2>2. CASE MainEnds(m)
      <3>1. None \in [Protocols -> 0 .. MaxSubs]
        BY DEF None
      <3> QED BY <1>1, <2>2, <3>1, ZenonT(30) DEF MainEnds, MuxType, Places
    <2>3. CASE MainChecks(m)
      BY <1>1, <2>3, ZenonT(30) DEF MainChecks, MuxType, Places
    <2>4. CASE MainDeletes(m)
      BY <1>1, <2>4, ZenonT(30) DEF MainDeletes, MuxType, Places
    <2>5. CASE BaseFails(m)
      BY <1>1, <2>5, ZenonT(30) DEF BaseFails, MuxType, Places
    <2> QED BY <2>1, <2>2, <2>3, <2>4, <2>5, Zenon
  <1>4. KnownInv(m)'
    BY <1>1, <1>2, <1>3 DEF KnownInv
  <1>5. HandInv(m)'
    BY <1>1, <1>2, <1>3, Zenon DEF HandInv
  <1>6. \A n \in Muxes \ {m} : KnownInv(n)' /\ HandInv(n)'
    BY <1>2 DEF MxInv, KnownInv, HandInv
  <1>7. MxTypes'
    BY <1>2, <1>3 DEF MxInv, MxTypes
  <1> QED BY <1>2, <1>3, <1>4, <1>5, <1>6, <1>7, MxFrame, Zenon

\* What the goroutines do with a connection.
LEMMA MxConnFrame ==
    ASSUME MxInv, NEW m \in Muxes, NEW k \in MuxConns,
           BaseAccepts(m, k) \/ (k = mxMux[m].hand /\ (AcceptLoopStops(m) \/ MainTakes(m)))
    PROVE  MxInv'
  <1> USE MuxAssumption
  <1>1. /\ mxMux \in [Muxes -> MuxType] /\ KnownInv(m) /\ HandInv(m)
        /\ mxConn \in [MuxConns -> ConnType] /\ ConnInv(k)
    BY Zenon DEF MxInv, MxTypes
  <1>2. /\ UNCHANGED <<mxSub, mxCaller, mxCurrent>>
        /\ \A n \in Muxes \ {m} : mxMux'[n] = mxMux[n]
        /\ \A j \in MuxConns \ {k} : mxConn'[j] = mxConn[j]
    BY <1>1, Zenon DEF BaseAccepts, AcceptLoopStops, MainTakes
  <1>3. /\ mxMux' \in [Muxes -> MuxType] /\ mxConn' \in [MuxConns -> ConnType]
        /\ mxMux'[m].sub = mxMux[m].sub /\ mxMux'[m].done = mxMux[m].done
        /\ mxMux'[m].main = "select" => mxMux'[m].seen = mxMux[m].seen
        /\ \/ mxMux'[m].main = mxMux[m].main
           \/ mxMux'[m].main = "loop" /\ mxMux[m].main = "select"
        /\ mxMux'[m].accepting = "offer" => mxMux'[m].hand = k /\ mxConn'[k].at = "hand"
        /\ mxConn'[k].mux = m
        /\ mxConn'[k].protocol = mxConn[k].protocol /\ mxConn'[k].target = mxConn[k].target
        /\ mxConn'[k].at \in {"hand", "dropped", "dispatch"}
        /\ mxConn[k].at \in {"backlog", "hand"}
    <2>1. CASE BaseAccepts(m, k)
      <3>1. k \in 0 .. MaxConns /\ m \in 0 .. MaxMux
        BY DEF MuxConns, Muxes
      <3>2. /\ mxConn' \in [MuxConns -> ConnType] /\ mxConn'[k].at = "hand" /\ mxConn'[k].mux = m
            /\ mxConn'[k].protocol = mxConn[k].protocol /\ mxConn'[k].target = mxConn[k].target
            /\ mxConn[k].at = "backlog"
        BY <1>1, <2>1, <3>1, Zenon DEF BaseAccepts, ConnType
      <3>3. /\ mxMux' \in [Muxes -> MuxType] /\ mxMux'[m].hand = k
            /\ mxMux'[m].sub = mxMux[m].sub /\ mxMux'[m].done = mxMux[m].done
            /\ mxMux'[m].main = mxMux[m].main /\ mxMux'[m].seen = mxMux[m].seen
        BY <1>1, <2>1, <3>1, ZenonT(30) DEF BaseAccepts, MuxType
      <3> QED BY <3>2, <3>3, Zenon
    <2>2. CASE k = mxMux[m].hand /\ AcceptLoopStops(m)
      <3>1. /\ mxConn' \in [MuxConns -> ConnType] /\ mxConn'[k].at = "dropped"
            /\ mxConn'[k].mux = mxConn[k].mux /\ mxConn[k].mux = m /\ mxConn[k].at = "hand"
            /\ mxConn'[k].protocol = mxConn[k].protocol /\ mxConn'[k].target = mxConn[k].target
        BY <1>1, <2>2 DEF AcceptLoopStops, HandInv, ConnType
      <3>2. /\ mxMux' \in [Muxes -> MuxType] /\ mxMux'[m].accepting = "ended"
            /\ mxMux'[m].sub = mxMux[m].sub /\ mxMux'[m].done = mxMux[m].done
            /\ mxMux'[m].main = mxMux[m].main /\ mxMux'[m].seen = mxMux[m].seen
        <4>1. mxMux' = [mxMux EXCEPT ![m].accepting = "ended", ![m].hand = 0] /\ 0 \in 0 .. MaxConns
          BY <2>2 DEF AcceptLoopStops
        <4> QED BY <1>1, <4>1, ZenonT(30) DEF MuxType
      <3> QED BY <3>1, <3>2, Zenon
    <2>3. CASE k = mxMux[m].hand /\ MainTakes(m)
      <3>1. None \in [Protocols -> 0 .. MaxSubs]
        BY DEF None
      <3> QED BY <1>1, <2>3, <3>1, SMTT(30) DEF MainTakes, HandInv, MuxType, Places, ConnType
    <2> QED BY <2>1, <2>2, <2>3, Zenon
  <1>4. KnownInv(m)'
    BY <1>1, <1>2, <1>3 DEF KnownInv
  <1>5. HandInv(m)'
    BY <1>1, <1>2, <1>3, Zenon DEF HandInv
  <1>6. \A n \in Muxes \ {m} : KnownInv(n)' /\ HandInv(n)'
    <2> TAKE n \in Muxes \ {m}
    <2>1. KnownInv(n) /\ HandInv(n)
      BY Zenon DEF MxInv
    <2>2. mxMux[n].accepting = "offer" => mxMux[n].hand # k
      <3>1. CASE BaseAccepts(m, k)
        BY <2>1, <3>1, Zenon DEF HandInv, BaseAccepts
      <3>2. CASE k = mxMux[m].hand /\ (AcceptLoopStops(m) \/ MainTakes(m))
        BY <1>1, <2>1, <3>2, Zenon DEF HandInv, AcceptLoopStops, MainTakes
      <3> QED BY <3>1, <3>2, Zenon
    <2> QED BY <1>2, <2>1, <2>2 DEF KnownInv, HandInv
  <1>7. MxTypes'
    BY <1>2, <1>3, Zenon DEF MxInv, MxTypes
  <1>8. ConnInv(k)'
    BY <1>1, <1>2, <1>3, Zenon DEF ConnInv
  <1>9. \A n \in Muxes : mxMux'[n].sub = mxMux[n].sub
                         /\ (mxMux'[n].main = "unused" <=> mxMux[n].main = "unused")
    BY <1>2, <1>3, Zenon
  <1> QED BY <1>2, <1>4, <1>5, <1>6, <1>7, <1>8, <1>9, MxFrame, Zenon

\* A close channel is closed: if the listener is still the one waited for, it is
\* closed and no longer known.
LEMMA MxSeesClosedStep ==
    ASSUME MxInv, NEW m \in Muxes, NEW p \in Protocols, MainSeesClosed(m, p)
    PROVE  MxInv'
  <1> USE MuxAssumption
  <1>1. /\ mxMux \in [Muxes -> MuxType] /\ KnownInv(m) /\ HandInv(m)
        /\ mxMux[m].main = "select" /\ SeenClosed(m, p)
        /\ UNCHANGED <<mxCurrent, mxSub, mxCaller, mxConn>>
    BY Zenon DEF MxInv, MxTypes, MainSeesClosed
  <1>2. mxMux[m] \in MuxType /\ None \in [Protocols -> 0 .. MaxSubs] /\ Forgotten(m, p) \in 0 .. MaxSubs
    BY <1>1 DEF None, Forgotten, MuxType
  <1>3. /\ mxMux' \in [Muxes -> MuxType] /\ \A n \in Muxes \ {m} : mxMux'[n] = mxMux[n]
        /\ mxMux'[m].sub = [mxMux[m].sub EXCEPT ![p] = Forgotten(m, p)]
        /\ mxMux'[m].main = "check" /\ mxMux'[m].done = mxMux[m].done
        /\ mxMux'[m].accepting = mxMux[m].accepting /\ mxMux'[m].hand = mxMux[m].hand
    BY <1>1, <1>2, Zenon DEF MainSeesClosed, MuxType, Places
  <1>4. \A q \in Protocols : mxMux'[m].sub[q] = IF q = p THEN Forgotten(m, p) ELSE mxMux[m].sub[q]
    BY <1>2, <1>3, Zenon DEF MuxType
  <1>5. Forgotten(m, p) = mxMux[m].sub[p]
        \/ (Forgotten(m, p) = 0 /\ mxSub[mxMux[m].sub[p]].closed)
    BY <1>1, Zenon DEF Forgotten, SeenClosed
  <1>6. KnownInv(m)' /\ HandInv(m)'
    BY <1>1, <1>3, <1>4, <1>5 DEF KnownInv, HandInv
  <1>7. \A n \in Muxes \ {m} : KnownInv(n)' /\ HandInv(n)'
    BY <1>1, <1>3 DEF MxInv, KnownInv, HandInv
  <1>8. ASSUME NEW s \in Subs PROVE SubInv(s)'
    <2> SUFFICES ASSUME mxSub[s].mux # 0 PROVE SubInv(s)'
      BY <1>1, Zenon DEF SubInv
    <2>1. mxSub[s].mux \in Muxes /\ SubInv(s)
      BY DEF MxInv, MxTypes, SubType, Muxes
    <2>2. CASE mxSub[s].mux = m
      BY <1>1, <1>3, <1>4, <1>5, <2>1, <2>2, ZenonT(30) DEF SubInv
    <2>3. CASE mxSub[s].mux # m
      BY <1>1, <1>3, <2>1, <2>3, Zenon DEF SubInv
    <2> QED BY <2>2, <2>3, Zenon
  <1>9. \A n \in Muxes : mxMux'[n].main = "unused" <=> mxMux[n].main = "unused"
    BY <1>1, <1>3, Zenon
  <1>10. \A c \in MuxCallers : CallerInv(c)'
    BY <1>1, <1>9, Zenon DEF MxInv, CallerInv
  <1>11. \A k \in MuxConns : ConnInv(k)'
    BY <1>1, Zenon DEF MxInv, ConnInv
  <1>12. mxCurrent' # 0 => mxMux'[mxCurrent'].main # "unused"
    BY <1>1, <1>9 DEF MxInv, MxTypes, Muxes
  <1> QED BY <1>1, <1>3, <1>6, <1>7, <1>8, <1>10, <1>11, <1>12, Zenon DEF MxInv, MxTypes

\* The base listener and closeChan are closed.
LEMMA MxClosesStep == ASSUME MxInv, NEW m \in Muxes, MainCloses(m) PROVE MxInv'
  <1> USE MuxAssumption
  <1>1. /\ mxMux \in [Muxes -> MuxType] /\ KnownInv(m) /\ HandInv(m) /\ mxMux[m].main = "close"
        /\ mxConn \in [MuxConns -> ConnType] /\ UNCHANGED <<mxCurrent, mxSub, mxCaller>>
    BY Zenon DEF MxInv, MxTypes, MainCloses
  <1>2. /\ mxMux' \in [Muxes -> MuxType] /\ \A n \in Muxes \ {m} : mxMux'[n] = mxMux[n]
        /\ mxMux'[m].sub = mxMux[m].sub /\ mxMux'[m].main = "subs" /\ mxMux'[m].done = TRUE
        /\ mxMux'[m].accepting = mxMux[m].accepting /\ mxMux'[m].hand = mxMux[m].hand
    BY <1>1 DEF MainCloses, MuxType, Places
  <1>3. /\ mxConn' \in [MuxConns -> ConnType]
        /\ \A k \in MuxConns : /\ mxConn[k].at # "backlog" => mxConn'[k] = mxConn[k]
                               /\ mxConn[k].at = "backlog" =>
                                    mxConn'[k].at = "closed" /\ mxConn'[k].protocol = mxConn[k].protocol
                                    /\ mxConn'[k].target = mxConn[k].target
    <2>1. \A k \in MuxConns : [mxConn[k] EXCEPT !.at = "closed"] \in ConnType
      BY <1>1, Zenon DEF ConnType
    <2> QED BY <1>1, <2>1, Zenon DEF MainCloses, ConnType
  <1>4. KnownInv(m)'
    BY <1>1, <1>2 DEF KnownInv
  <1>5. \A n \in Muxes : HandInv(n)'
    BY <1>2, <1>3 DEF MxInv, HandInv
  <1>6. \A n \in Muxes \ {m} : KnownInv(n)'
    BY <1>1, <1>2 DEF MxInv, KnownInv
  <1>7. \A k \in MuxConns : mxConn'[k] = mxConn[k] \/ ConnInv(k)'
    BY <1>1, <1>3, Zenon DEF MxInv, ConnInv
  <1>8. MxTypes'
    BY <1>1, <1>2, <1>3, Zenon DEF MxInv, MxTypes
  <1>9. \A n \in Muxes : mxMux'[n].sub = mxMux[n].sub
                         /\ (mxMux'[n].main = "unused" <=> mxMux[n].main = "unused")
    BY <1>1, <1>2, Zenon
  <1> QED BY <1>1, <1>4, <1>5, <1>6, <1>7, <1>8, <1>9, MxFrame, Zenon

\* acceptChan of every listener that is still known is closed.
LEMMA MxEndsSubsStep == ASSUME MxInv, NEW m \in Muxes, MainEndsSubs(m) PROVE MxInv'
  <1> USE MuxAssumption
  <1>1. /\ mxMux \in [Muxes -> MuxType] /\ KnownInv(m) /\ HandInv(m) /\ mxMux[m].main = "subs"
        /\ mxSub \in [Subs -> SubType] /\ UNCHANGED <<mxCurrent, mxConn, mxCaller>>
    BY Zenon DEF MxInv, MxTypes, MainEndsSubs
  <1>2. None \in [Protocols -> 0 .. MaxSubs] /\ \A p \in Protocols : None[p] = 0
    BY DEF None
  <1>3. /\ mxMux' \in [Muxes -> MuxType] /\ \A n \in Muxes \ {m} : mxMux'[n] = mxMux[n]
        /\ mxMux'[m].sub = None /\ mxMux'[m].main = "ended" /\ mxMux'[m].done = mxMux[m].done
        /\ mxMux'[m].accepting = mxMux[m].accepting /\ mxMux'[m].hand = mxMux[m].hand
    BY <1>1, <1>2 DEF MainEndsSubs, MuxType, Places
  <1>4. /\ mxSub' \in [Subs -> SubType]
        /\ \A s \in Subs : /\ mxSub'[s].mux = mxSub[s].mux /\ mxSub'[s].protocol = mxSub[s].protocol
                           /\ mxSub'[s].closed = mxSub[s].closed
                           /\ (\E p \in Protocols : mxMux[m].sub[p] = s) => mxSub'[s].ended
                           /\ mxSub[s].ended => mxSub'[s].ended
    <2>1. \A s \in Subs : mxSub[s] \in SubType /\ [mxSub[s] EXCEPT !.ended = TRUE] \in SubType
      BY <1>1, Zenon DEF SubType
    <2> QED BY <1>1, <2>1, Zenon DEF MainEndsSubs, SubType
  <1>5. \A n \in Muxes, p \in Protocols : mxMux[n].sub[p] # 0 => mxMux[n].sub[p] \in Subs
    BY <1>1 DEF MuxType, Subs
  <1>6. KnownInv(m)' /\ HandInv(m)'
    BY <1>1, <1>2, <1>3, Zenon DEF KnownInv, HandInv
  <1>7. ASSUME NEW n \in Muxes \ {m} PROVE KnownInv(n)' /\ HandInv(n)'
    <2>1. KnownInv(n) /\ HandInv(n) /\ mxMux'[n] = mxMux[n] /\ mxConn' = mxConn
      BY <1>1, <1>3, Zenon DEF MxInv
    <2>2. HandInv(n)'
      BY <2>1, Zenon DEF HandInv
    <2>3. ASSUME NEW p \in Protocols, mxMux[n].sub[p] # 0
          PROVE  mxSub'[mxMux[n].sub[p]].mux = n /\ mxSub'[mxMux[n].sub[p]].protocol = p
      <3>1. mxMux[n].sub[p] \in Subs
        BY <1>5, <2>3, Zenon
      <3> QED BY <1>4, <2>1, <2>3, <3>1, Zenon DEF KnownInv
    <2>4. \A p \in Protocols : mxMux'[n].sub[p] # 0 =>
             mxSub'[mxMux'[n].sub[p]].mux = n /\ mxSub'[mxMux'[n].sub[p]].protocol = p
      BY <2>1, <2>3, Zenon
    <2>5. KnownInv(n)'
      BY <2>1, <2>4, Zenon DEF KnownInv
    <2> QED BY <2>2, <2>5, Zenon
  <1>8. ASSUME NEW s \in Subs PROVE SubInv(s)'
    <2> SUFFICES ASSUME mxSub[s].mux # 0 PROVE SubInv(s)'
      BY <1>4, Zenon DEF SubInv
    <2>1. mxSub[s].mux \in Muxes /\ SubInv(s)
      BY DEF MxInv, MxTypes, SubType, Muxes
    <2>2. CASE mxSub[s].mux = m
      BY <1>1, <1>3, <1>4, <2>1, <2>2, Zenon DEF SubInv
    <2>3. CASE mxSub[s].mux # m
      BY <1>1, <1>3, <1>4, <2>1, <2>3 DEF SubInv
    <2> QED BY <2>2, <2>3, Zenon
  <1>9. \A n \in Muxes : mxMux'[n].main = "unused" <=> mxMux[n].main = "unused"
    BY <1>1, <1>3, Zenon
  <1>10. \A c \in MuxCallers : CallerInv(c)'
    BY <1>1, <1>4, <1>9 DEF MxInv, CallerInv
  <1>11. \A k \in MuxConns : ConnInv(k)'
    <2> TAKE k \in MuxConns
    <2>1. mxConn[k].target # 0 => mxConn[k].target \in Subs
      BY DEF MxInv, MxTypes, ConnType, Subs
    <2> QED BY <1>1, <1>4, <2>1, Zenon DEF MxInv, ConnInv
  <1>12. mxCurrent' # 0 => mxMux'[mxCurrent'].main # "unused"
    BY <1>1, <1>9 DEF MxInv, MxTypes, Muxes
  <1> QED BY <1>1, <1>3, <1>4, <1>6, <1>7, <1>8, <1>10, <1>11, <1>12, Zenon DEF MxInv, MxTypes

\* GetOrCreate takes a slot that nobody refers to.
LEMMA MxGetOrCreateStep == ASSUME MxInv, NEW c \in MuxCallers, GetOrCreate(c) PROVE MxInv'
  <1> USE MuxAssumption
  <1>1. UNCHANGED <<mxSub, mxConn>> /\ mxCaller \in [MuxCallers -> CallerType] /\ mxCurrent \in 0 .. MaxMux
        /\ mxMux \in [Muxes -> MuxType]
    BY Zenon DEF GetOrCreate, MxInv, MxTypes
  <1>2. ASSUME NEW n \in 0 .. MaxMux, NEW l \in {"listen", "stopped"}, CallerAt(c, l, n, 0)
        PROVE  /\ mxCaller' \in [MuxCallers -> CallerType] /\ mxCaller'[c].pc = l /\ mxCaller'[c].mux = n
               /\ \A d \in MuxCallers \ {c} : mxCaller'[d] = mxCaller[d]
    BY <1>1, <1>2 DEF CallerAt, CallerType
  <1>3. CASE mxCurrent # 0 /\ CallerAt(c, "listen", mxCurrent, 0) /\ UNCHANGED <<mxCurrent, mxMux>>
    <2>1. mxCurrent \in Muxes /\ mxMux[mxCurrent].main # "unused"
      BY <1>3 DEF MxInv, MxTypes, Muxes
    <2>2. CallerInv(c)' /\ \A d \in MuxCallers \ {c} : mxCaller'[d] = mxCaller[d]
      BY <1>1, <1>2, <1>3, <2>1, Zenon DEF CallerInv
    <2>3. MxTypes'
      BY <1>1, <1>2, <1>3, Zenon DEF MxInv, MxTypes
    <2>4. \A n \in Muxes : KnownInv(n)' /\ HandInv(n)'
      BY <1>1, <1>3 DEF MxInv, KnownInv, HandInv
    <2> QED BY <1>1, <1>3, <2>2, <2>3, <2>4, MxFrame, Zenon
  <1>4. CASE CallerAt(c, "stopped", 0, 0) /\ UNCHANGED <<mxCurrent, mxMux>>
    <2>2. CallerInv(c)' /\ \A d \in MuxCallers \ {c} : mxCaller'[d] = mxCaller[d]
      BY <1>1, <1>2, <1>4 DEF CallerInv
    <2>3. MxTypes'
      BY <1>1, <1>2, <1>4 DEF MxInv, MxTypes
    <2>4. \A n \in Muxes : KnownInv(n)' /\ HandInv(n)'
      BY <1>1, <1>4 DEF MxInv, KnownInv, HandInv
    <2> QED BY <1>1, <1>4, <2>2, <2>3, <2>4, MxFrame, Zenon
  <1>5. ASSUME NEW m \in Muxes, mxMux[m].main = "unused", mxMux' = [mxMux EXCEPT ![m] = NewMux],
               mxCurrent' = m, CallerAt(c, "listen", m, 0)
        PROVE  MxInv'
    <2>1. None \in [Protocols -> 0 .. MaxSubs] /\ \A p \in Protocols : None[p] = 0
      BY DEF None
    <2>2. /\ NewMux \in MuxType /\ NewMux.sub = None /\ NewMux.main = "loop" /\ NewMux.done = FALSE
          /\ NewMux.accepting = "accept"
      BY <2>1 DEF NewMux, MuxType, Places
    <2>3. /\ mxMux' \in [Muxes -> MuxType] /\ mxMux'[m] = NewMux
          /\ \A n \in Muxes \ {m} : mxMux'[n] = mxMux[n]
      BY <1>1, <1>5, <2>2, Zenon
    <2>4. m \in 0 .. MaxMux /\ m # 0
      BY DEF Muxes
    <2>5. MxTypes'
      BY <1>1, <1>2, <1>5, <2>3, <2>4, Zenon DEF MxInv, MxTypes
    <2>6. KnownInv(m)' /\ HandInv(m)'
      BY <2>1, <2>2, <2>3, Zenon DEF KnownInv, HandInv
    <2>7. \A n \in Muxes \ {m} : KnownInv(n)' /\ HandInv(n)'
      BY <1>1, <2>3 DEF MxInv, KnownInv, HandInv
    <2>8. \A s \in Subs : SubInv(s)'
      <3> SUFFICES ASSUME NEW s \in Subs, mxSub[s].mux # 0 PROVE SubInv(s)'
        BY <1>1, Zenon DEF SubInv
      <3>1. mxSub[s].mux \in Muxes /\ SubInv(s)
        BY DEF MxInv, MxTypes, SubType, Muxes
      <3>2. mxSub[s].mux # m
        BY <1>5, <3>1, Zenon DEF SubInv
      <3> QED BY <1>1, <2>3, <3>1, <3>2, Zenon DEF SubInv
    <2>9. \A n \in Muxes : mxMux[n].main # "unused" => mxMux'[n].main # "unused"
      BY <2>2, <2>3, Zenon
    <2>10. \A d \in MuxCallers \ {c} : CallerInv(d)'
      BY <1>1, <1>2, <1>5, <2>4, <2>9, SMTT(30) DEF MxInv, CallerInv
    <2>11. CallerInv(c)'
      BY <1>2, <1>5, <2>2, <2>3, <2>4, Zenon DEF CallerInv
    <2>12. \A k \in MuxConns : ConnInv(k)'
      BY <1>1, Zenon DEF MxInv, ConnInv
    <2> QED BY <1>5, <2>2, <2>3, <2>5, <2>6, <2>7, <2>8, <2>10, <2>11, <2>12, Zenon DEF MxInv
  <1> QED BY <1>3, <1>4, <1>5, Zenon DEF GetOrCreate

\* Listen replaces a listener that is closed, by one that nobody refers to.
LEMMA MxListenStep == ASSUME MxInv, NEW c \in MuxCallers, Listen(c) PROVE MxInv'
  <1> USE MuxAssumption
  <1>0. PICK m \in Muxes : m = mxCaller[c].mux
    BY Zenon DEF Listen, MxInv, CallerInv
  <1> DEFINE p == ProtocolOf[c]
  <1>1. /\ UNCHANGED <<mxCurrent, mxConn>> /\ mxCaller \in [MuxCallers -> CallerType]
        /\ mxMux \in [Muxes -> MuxType] /\ mxSub \in [Subs -> SubType]
        /\ m \in Muxes /\ mxMux[m].main # "unused" /\ p \in Protocols
        /\ m \in 0 .. MaxMux /\ m # 0 /\ KnownInv(m) /\ HandInv(m)
    BY <1>0 DEF Listen, MxInv, MxTypes, CallerInv, Muxes
  <1>2. \/ CallerAt(c, "stopped", 0, 0) /\ UNCHANGED <<mxMux, mxSub>>
        \/ /\ ~InUse(m, p) /\ MuxClosed(m) /\ mxMux' = [mxMux EXCEPT ![m].sub[p] = 0]
           /\ CallerAt(c, "stopped", 0, 0) /\ UNCHANGED mxSub
        \/ /\ ~InUse(m, p) /\ ~MuxClosed(m)
           /\ \E s \in Subs :
               /\ mxSub[s].mux = 0
               /\ mxSub' = [mxSub EXCEPT ![s] = NewSub(m, p)]
               /\ mxMux' = [mxMux EXCEPT ![m].sub[p] = s]
               /\ CallerAt(c, "accepting", m, s)
    BY <1>0, Zenon DEF Listen
  <1> HIDE DEF p
  <1>3. ASSUME NEW n \in 0 .. MaxMux, NEW s \in 0 .. MaxSubs, NEW l \in {"accepting", "stopped"},
               CallerAt(c, l, n, s)
        PROVE  /\ mxCaller' \in [MuxCallers -> CallerType] /\ mxCaller'[c].pc = l
               /\ mxCaller'[c].mux = n /\ mxCaller'[c].sub = s
               /\ \A d \in MuxCallers \ {c} : mxCaller'[d] = mxCaller[d]
    BY <1>1, <1>3, Zenon DEF CallerAt, CallerType
  <1>4. ASSUME NEW s \in 0 .. MaxSubs, mxMux' = [mxMux EXCEPT ![m].sub[p] = s]
        PROVE  /\ mxMux' \in [Muxes -> MuxType] /\ \A n \in Muxes \ {m} : mxMux'[n] = mxMux[n]
               /\ mxMux'[m].main = mxMux[m].main /\ mxMux'[m].done = mxMux[m].done
               /\ mxMux'[m].accepting = mxMux[m].accepting /\ mxMux'[m].hand = mxMux[m].hand
               /\ mxMux'[m].seen = mxMux[m].seen
               /\ \A q \in Protocols : mxMux'[m].sub[q] = IF q = p THEN s ELSE mxMux[m].sub[q]
    BY <1>1, <1>4, Zenon DEF MuxType
  <1>5. ~InUse(m, p) => mxMux[m].sub[p] = 0 \/ mxSub[mxMux[m].sub[p]].closed
    BY Zenon DEF InUse
  <1>6. CASE CallerAt(c, "stopped", 0, 0) /\ UNCHANGED <<mxMux, mxSub>>
    <2>1. 0 \in 0 .. MaxMux /\ 0 \in 0 .. MaxSubs
      OBVIOUS
    <2>2. CallerInv(c)' /\ \A d \in MuxCallers \ {c} : mxCaller'[d] = mxCaller[d]
      BY <1>3, <1>6, <2>1, Zenon DEF CallerInv
    <2>3. MxTypes'
      BY <1>1, <1>3, <1>6, <2>1, Zenon DEF MxInv, MxTypes
    <2>4. \A n \in Muxes : KnownInv(n)' /\ HandInv(n)'
      <3> TAKE n \in Muxes
      <3>1. KnownInv(n) /\ HandInv(n) /\ mxMux' = mxMux /\ mxSub' = mxSub /\ mxConn' = mxConn
        BY <1>1, <1>6, Zenon DEF MxInv
      <3> QED BY <3>1, Zenon DEF KnownInv, HandInv
    <2> QED BY <1>1, <1>6, <2>2, <2>3, <2>4, MxFrame, Zenon
  <1>7. CASE /\ ~InUse(m, p) /\ MuxClosed(m) /\ mxMux' = [mxMux EXCEPT ![m].sub[p] = 0]
             /\ CallerAt(c, "stopped", 0, 0) /\ UNCHANGED mxSub
    <2>1. 0 \in 0 .. MaxMux /\ 0 \in 0 .. MaxSubs
      OBVIOUS
    <2>2. CallerInv(c)' /\ \A d \in MuxCallers \ {c} : mxCaller'[d] = mxCaller[d]
      BY <1>3, <1>7, <2>1, Zenon DEF CallerInv
    <2>3. MxTypes'
      BY <1>1, <1>3, <1>4, <1>7, <2>1, Zenon DEF MxInv, MxTypes
    <2>4. KnownInv(m)' /\ HandInv(m)'
      BY <1>1, <1>4, <1>7, <2>1 DEF KnownInv, HandInv, MuxClosed
    <2>5. \A n \in Muxes \ {m} : KnownInv(n)' /\ HandInv(n)'
      BY <1>1, <1>4, <1>7, <2>1 DEF MxInv, KnownInv, HandInv
    <2>6. \A s \in Subs : SubInv(s)'
      <3> SUFFICES ASSUME NEW s \in Subs, mxSub[s].mux # 0 PROVE SubInv(s)'
        BY <1>7, Zenon DEF SubInv
      <3>1. mxSub[s].mux \in Muxes /\ SubInv(s) /\ s # 0
        BY DEF MxInv, MxTypes, SubType, Muxes, Subs
      <3>2. CASE mxSub[s].mux = m
        BY <1>1, <1>4, <1>5, <1>7, <2>1, <3>1, <3>2 DEF SubInv
      <3>3. CASE mxSub[s].mux # m
        BY <1>1, <1>4, <1>7, <2>1, <3>1, <3>3, Zenon DEF SubInv
      <3> QED BY <3>2, <3>3, Zenon
    <2>7. \A n \in Muxes : mxMux'[n].main = mxMux[n].main
      BY <1>4, <1>7, <2>1, Zenon
    <2>8. \A d \in MuxCallers \ {c} : CallerInv(d)'
      BY <1>7, <2>2, <2>7 DEF MxInv, CallerInv
    <2>9. \A k \in MuxConns : ConnInv(k)'
      BY <1>1, <1>7, Zenon DEF MxInv, ConnInv
    <2>10. mxCurrent' # 0 => mxMux'[mxCurrent'].main # "unused"
      BY <1>1, <2>7 DEF MxInv, MxTypes, Muxes
    <2> QED BY <2>2, <2>3, <2>4, <2>5, <2>6, <2>8, <2>9, <2>10, Zenon DEF MxInv
  <1>8. ASSUME NEW s \in Subs, ~InUse(m, p), ~MuxClosed(m), mxSub[s].mux = 0,
               mxSub' = [mxSub EXCEPT ![s] = NewSub(m, p)],
               mxMux' = [mxMux EXCEPT ![m].sub[p] = s], CallerAt(c, "accepting", m, s)
        PROVE  MxInv'
    <2>1. s \in 0 .. MaxSubs /\ s # 0 /\ NewSub(m, p) \in SubType
      BY <1>1 DEF Subs, NewSub, SubType
    <2>2. /\ mxSub' \in [Subs -> SubType] /\ \A r \in Subs \ {s} : mxSub'[r] = mxSub[r]
          /\ mxSub'[s].mux = m /\ mxSub'[s].protocol = p
      BY <1>1, <1>8, <2>1, Zenon DEF NewSub
    <2>3. CallerInv(c)' /\ \A d \in MuxCallers \ {c} : mxCaller'[d] = mxCaller[d]
      BY <1>1, <1>3, <1>8, <2>1, <2>2, Zenon DEF CallerInv
    <2>4. MxTypes'
      BY <1>1, <1>3, <1>4, <1>8, <2>1, <2>2, Zenon DEF MxInv, MxTypes
    <2>5. \A n \in Muxes, q \in Protocols : mxMux[n].sub[q] # 0 =>
            mxMux[n].sub[q] \in Subs /\ mxMux[n].sub[q] # s
      <3> SUFFICES ASSUME NEW n \in Muxes, NEW q \in Protocols, mxMux[n].sub[q] # 0
                   PROVE  mxMux[n].sub[q] \in Subs /\ mxMux[n].sub[q] # s
        OBVIOUS
      <3>1. mxMux[n].sub[q] \in Subs
        BY <1>1, KnownSub, Zenon
      <3>2. mxSub[mxMux[n].sub[q]].mux = n /\ n # 0
        BY DEF MxInv, KnownInv, Muxes
      <3> QED BY <1>8, <3>1, <3>2, Zenon
    <2>6. KnownInv(m)'
      <3>1. mxMux[m].main \notin {"unused", "subs", "ended"}
        BY <1>1, <1>8, Zenon DEF KnownInv, MuxClosed
      <3> QED BY <1>1, <1>4, <1>8, <2>1, <2>2, <2>5, <3>1 DEF KnownInv
    <2>7. \A n \in Muxes \ {m} : KnownInv(n)'
      BY <1>4, <1>8, <2>1, <2>2, <2>5 DEF MxInv, KnownInv
    <2>8. \A n \in Muxes : HandInv(n)'
      BY <1>1, <1>4, <1>8, <2>1 DEF MxInv, HandInv
    <2>9. \A r \in Subs : SubInv(r)'
      <3> TAKE r \in Subs
      <3>1. CASE r = s
        <4>1. mxMux'[m].main = mxMux[m].main /\ mxMux'[m].sub[p] = s
          <5>1. \A q \in Protocols : mxMux'[m].sub[q] = IF q = p THEN s ELSE mxMux[m].sub[q]
            BY <1>4, <1>8, <2>1, Zenon
          <5>2. mxMux'[m].main = mxMux[m].main
            BY <1>4, <1>8, <2>1, Zenon
          <5> QED BY <1>1, <5>1, <5>2, Zenon
        <4>2. mxMux'[mxSub'[s].mux].main # "unused" /\ mxSub'[s].protocol \in Protocols
              /\ mxMux'[mxSub'[s].mux].sub[mxSub'[s].protocol] = s
          BY <1>1, <2>2, <4>1, Zenon
        <4> QED BY <3>1, <4>2, Zenon DEF SubInv
      <3>2. CASE r # s /\ mxSub[r].mux # 0
        <4>1. mxSub[r].mux \in Muxes /\ SubInv(r) /\ r # 0
          BY <3>2 DEF MxInv, MxTypes, SubType, Muxes, Subs
        <4>2. CASE mxSub[r].mux = m
          BY <1>1, <1>4, <1>5, <1>8, <2>1, <2>2, <3>2, <4>1, <4>2 DEF SubInv
        <4>3. CASE mxSub[r].mux # m
          BY <1>1, <1>4, <1>8, <2>1, <2>2, <3>2, <4>1, <4>3 DEF SubInv
        <4> QED BY <4>2, <4>3, Zenon
      <3>3. CASE r # s /\ mxSub[r].mux = 0
        BY <2>2, <3>3, Zenon DEF SubInv
      <3> QED BY <3>1, <3>2, <3>3, Zenon
    <2>10. \A n \in Muxes : mxMux'[n].main = mxMux[n].main
      BY <1>4, <1>8, <2>1, Zenon
    <2>11. \A d \in MuxCallers \ {c} : CallerInv(d)'
      <3> TAKE d \in MuxCallers \ {c}
      <3>1. mxCaller[d].pc = "accepting" => mxCaller[d].sub \in Subs \ {s}
        BY <1>8 DEF MxInv, CallerInv, Muxes
      <3> QED BY <2>2, <2>3, <2>10, <3>1, SMTT(30) DEF MxInv, CallerInv
    <2>12. \A k \in MuxConns : ConnInv(k)'
      <3> TAKE k \in MuxConns
      <3>1. mxConn[k].target # 0 => mxConn[k].target \in Subs \ {s}
        BY <1>8 DEF MxInv, MxTypes, ConnInv, ConnType, Subs
      <3> QED BY <1>1, <2>2, <3>1 DEF MxInv, ConnInv
    <2>13. mxCurrent' # 0 => mxMux'[mxCurrent'].main # "unused"
      BY <1>1, <2>10, SMTT(30) DEF MxInv, MxTypes, Muxes
    <2> QED BY <2>3, <2>4, <2>6, <2>7, <2>8, <2>9, <2>11, <2>12, <2>13, Zenon DEF MxInv
  <1> QED BY <1>2, <1>6, <1>7, <1>8, Zenon

\* The callers that accept, fail, or come back, and the connections.
LEMMA MxCallerFrame ==
    ASSUME MxInv, NEW c \in MuxCallers, AcceptFails(c) \/ ListenAgain(c)
    PROVE  MxInv'
  <1> USE MuxAssumption
  <1>1. /\ mxCaller \in [MuxCallers -> CallerType] /\ UNCHANGED <<mxCurrent, mxMux, mxSub, mxConn>>
        /\ mxCaller[c].mux \in 0 .. MaxMux /\ mxCaller[c].sub \in 0 .. MaxSubs
    BY Zenon DEF MxInv, MxTypes, AcceptFails, ListenAgain, CallerType
  <1>2. /\ mxCaller' \in [MuxCallers -> CallerType] /\ mxCaller'[c].pc \in {"stopped", "idle"}
        /\ \A d \in MuxCallers \ {c} : mxCaller'[d] = mxCaller[d]
    BY <1>1 DEF AcceptFails, ListenAgain, CallerAt, CallerType
  <1>3. CallerInv(c)'
    BY <1>2, Zenon DEF CallerInv
  <1>4. MxTypes'
    BY <1>1, <1>2, Zenon DEF MxInv, MxTypes
  <1>5. \A n \in Muxes : KnownInv(n)' /\ HandInv(n)'
    <2> TAKE n \in Muxes
    <2>1. KnownInv(n) /\ HandInv(n)
      BY Zenon DEF MxInv
    <2>2. KnownInv(n)'
      BY <1>1, <2>1, Zenon DEF KnownInv
    <2>3. HandInv(n)'
      BY <1>1, <2>1, Zenon DEF HandInv
    <2> QED BY <2>2, <2>3, Zenon
  <1> QED BY <1>1, <1>2, <1>3, <1>4, <1>5, MxFrame, Zenon

\* A caller closes its listener: mainLoop has yet to find out.
LEMMA MxCloseSubStep == ASSUME MxInv, NEW c \in MuxCallers, CloseSub(c) PROVE MxInv'
  <1> USE MuxAssumption
  <1>1. /\ mxSub \in [Subs -> SubType] /\ mxMux \in [Muxes -> MuxType]
        /\ UNCHANGED <<mxCurrent, mxMux, mxCaller, mxConn>>
    BY Zenon DEF MxInv, MxTypes, CloseSub
  <1>2. mxCaller[c].sub \in Subs
    BY DEF MxInv, MxTypes, CloseSub, CallerType, Subs
  <1>3. /\ mxSub' \in [Subs -> SubType]
        /\ \A s \in Subs : /\ mxSub'[s].mux = mxSub[s].mux /\ mxSub'[s].protocol = mxSub[s].protocol
                           /\ mxSub'[s].ended = mxSub[s].ended
                           /\ ~mxSub'[s].closed => ~mxSub[s].closed
    BY <1>1, <1>2 DEF CloseSub, SubType
  <1>4. \A n \in Muxes, p \in Protocols : mxMux[n].sub[p] # 0 => mxMux[n].sub[p] \in Subs
    BY <1>1 DEF MuxType, Subs
  <1>5. \A n \in Muxes : KnownInv(n)' /\ HandInv(n)'
    <2> TAKE n \in Muxes
    <2>1. KnownInv(n) /\ HandInv(n)
      BY Zenon DEF MxInv
    <2>2. KnownInv(n)'
      BY <1>1, <1>3, <1>4, <2>1 DEF KnownInv
    <2>3. HandInv(n)'
      BY <1>1, <2>1, Zenon DEF HandInv
    <2> QED BY <2>2, <2>3, Zenon
  <1>6. \A s \in Subs : SubInv(s)'
    BY <1>1, <1>3, Zenon DEF MxInv, SubInv
  <1>7. \A d \in MuxCallers : CallerInv(d)'
    BY <1>1, <1>3 DEF MxInv, CallerInv
  <1>8. \A k \in MuxConns : ConnInv(k)'
    <2> TAKE k \in MuxConns
    <2>1. mxConn[k].target # 0 => mxConn[k].target \in Subs
      BY DEF MxInv, MxTypes, ConnType, Subs
    <2> QED BY <1>1, <1>3, <2>1, Zenon DEF MxInv, ConnInv
  <1> QED BY <1>1, <1>3, <1>5, <1>6, <1>7, <1>8, Zenon DEF MxInv, MxTypes

\* A connection arrives, is dispatched to a listener, dropped or accepted.
LEMMA MxConnStep ==
    ASSUME MxInv, NEW k \in MuxConns,
           \/ Connect(k) \/ MuxDispatch(k) \/ DispatchDrops(k)
           \/ \E c \in MuxCallers : AcceptConn(c, k)
    PROVE  MxInv'
  <1> USE MuxAssumption
  <1>1. /\ mxConn \in [MuxConns -> ConnType] /\ mxMux \in [Muxes -> MuxType] /\ ConnInv(k)
        /\ UNCHANGED <<mxCurrent, mxMux, mxSub, mxCaller>> /\ mxConn[k] \in ConnType
    BY Zenon DEF MxInv, MxTypes, Connect, MuxDispatch, DispatchDrops, AcceptConn
  <1>2. /\ mxConn' \in [MuxConns -> ConnType] /\ \A j \in MuxConns \ {k} : mxConn'[j] = mxConn[j]
        /\ ConnInv(k)' /\ mxConn[k].at # "hand"
    <2>1. CASE Connect(k)
      <3>1. PICK p \in Protocols : mxConn' = [mxConn EXCEPT ![k] = NewConn(p, "backlog")]
        BY <2>1, Zenon DEF Connect
      <3>2. /\ NewConn(p, "backlog") \in ConnType /\ NewConn(p, "backlog").protocol = p
            /\ NewConn(p, "backlog").at = "backlog" /\ NewConn(p, "backlog").target = 0
        BY DEF NewConn, ConnType
      <3>3. mxConn'[k] = NewConn(p, "backlog")
        BY <1>1, <3>1, Zenon
      <3> QED BY <1>1, <2>1, <3>1, <3>2, <3>3, Zenon DEF Connect, ConnInv
    <2>2. CASE MuxDispatch(k)
      <3>1. PICK t \in 0 .. MaxSubs : t = TargetOf(mxConn[k].mux, mxConn[k].protocol)
        <4>1. mxMux[mxConn[k].mux] \in MuxType /\ mxConn[k].protocol \in Protocols
          BY <1>1, <2>2, Zenon DEF MuxDispatch, ConnInv
        <4> QED BY <4>1, KnownSub, Zenon DEF TargetOf
      <3>2. mxConn[k].mux \in Muxes /\ mxConn[k].protocol \in Protocols /\ mxConn[k].at = "dispatch"
            /\ mxConn[k].target = 0 /\ mxConn[k].mux # 0
        BY <1>1, <2>2 DEF MuxDispatch, ConnInv, Muxes
      <3>3. t # 0 => mxSub[t].mux = mxConn[k].mux /\ mxSub[t].protocol = mxConn[k].protocol
        BY <3>1, <3>2, Zenon DEF MxInv, KnownInv, TargetOf
      <3>4. CASE mxConn' = [mxConn EXCEPT ![k].at = "closed"]
        BY <1>1, <3>2, <3>4, Zenon DEF ConnInv, ConnType
      <3>5. CASE t # 0 /\ mxConn' = [mxConn EXCEPT ![k].at = "offered", ![k].target = t]
        <4>1. /\ mxConn' \in [MuxConns -> ConnType] /\ mxConn'[k].at = "offered" /\ mxConn'[k].target = t
              /\ mxConn'[k].mux = mxConn[k].mux /\ mxConn'[k].protocol = mxConn[k].protocol
          BY <1>1, <3>5, Zenon DEF ConnType
        <4> QED BY <1>1, <3>2, <3>3, <3>5, <4>1, Zenon DEF ConnInv
      <3> QED BY <2>2, <3>1, <3>4, <3>5, Zenon DEF MuxDispatch
    <2>3. CASE mxConn[k].at = "offered"
               /\ \E l \in {"taken", "dropped", "panic"} : mxConn' = [mxConn EXCEPT ![k].at = l]
      <3>1. PICK l \in {"taken", "dropped", "panic"} : mxConn' = [mxConn EXCEPT ![k].at = l]
        BY <2>3, Zenon
      <3>2. /\ mxConn' \in [MuxConns -> ConnType] /\ mxConn'[k].at = l
            /\ mxConn'[k].target = mxConn[k].target
            /\ mxConn'[k].mux = mxConn[k].mux /\ mxConn'[k].protocol = mxConn[k].protocol
        BY <1>1, <3>1, Zenon DEF ConnType
      <3> QED BY <1>1, <2>3, <3>1, <3>2, Zenon DEF ConnInv
    <2> QED BY <2>1, <2>2, <2>3, Zenon DEF DispatchDrops, AcceptConn
  <1>3. \A n \in Muxes : KnownInv(n)' /\ HandInv(n)'
    <2> TAKE n \in Muxes
    <2>1. mxMux[n].accepting = "offer" => mxMux[n].hand \in MuxConns \ {k}
      BY <1>2 DEF MxInv, HandInv
    <2>2. KnownInv(n) /\ HandInv(n)
      BY Zenon DEF MxInv
    <2>3. KnownInv(n)'
      BY <1>1, <2>2, Zenon DEF KnownInv
    <2>4. HandInv(n)'
      BY <1>1, <1>2, <2>1, <2>2, Zenon DEF HandInv
    <2> QED BY <2>3, <2>4, Zenon
  <1>4. MxTypes'
    BY <1>1, <1>2, Zenon DEF MxInv, MxTypes
  <1> QED BY <1>1, <1>2, <1>3, <1>4, MxFrame, Zenon

\* Every step keeps MxInv.
LEMMA MxStep == MxInv /\ [MuxNext]_mxVars => MxInv'
  <1> SUFFICES ASSUME MxInv, [MuxNext]_mxVars PROVE MxInv'
    OBVIOUS
  <1>1. ASSUME NEW m \in Muxes, AcceptLoopStops(m) \/ MainTakes(m) PROVE MxInv'
    <2>1. mxMux[m].hand \in MuxConns
      BY <1>1, Zenon DEF MxInv, HandInv, AcceptLoopStops, MainTakes
    <2> QED BY <1>1, <2>1, MxConnFrame, Zenon
  <1>2. CASE UNCHANGED mxVars
    <2>1. UNCHANGED <<mxCurrent, mxMux, mxSub, mxCaller, mxConn>>
      BY <1>2, Zenon DEF mxVars
    <2>2. MxTypes'
      BY <2>1, Zenon DEF MxInv, MxTypes
    <2>3. ASSUME NEW m \in Muxes PROVE KnownInv(m)' /\ HandInv(m)'
      <3>1. KnownInv(m) /\ HandInv(m)
        BY Zenon DEF MxInv
      <3>2. KnownInv(m)'
        BY <2>1, <3>1, Zenon DEF KnownInv
      <3>3. HandInv(m)'
        BY <2>1, <3>1, Zenon DEF HandInv
      <3> QED BY <3>2, <3>3, Zenon
    <2> QED BY <2>1, <2>2, <2>3, MxFrame, Zenon
  <1> QED BY <1>1, <1>2, MxMainFrame, MxConnFrame, MxSeesClosedStep, MxClosesStep, MxEndsSubsStep,
             MxGetOrCreateStep, MxListenStep, MxCallerFrame, MxCloseSubStep, MxConnStep, Zenon
          DEF MuxNext, MainStep

\* A connection reaches the inbound of its protocol only, an open listener is known
\* to its multiplexer, and nobody waits at one that has ended.
THEOREM InboundsAreServed == MuxSpec => []InboundsServed
  <1>1. MxInv => InboundsServed
    <2> SUFFICES ASSUME MxInv PROVE InboundsServed
      OBVIOUS
    <2>1. RightInbound /\ ListenerToCompare
      BY Zenon DEF MxInv, ConnInv, KnownInv, SeenClosed, RightInbound, ListenerToCompare
    <2>2. OpenIsKnown
      BY Zenon DEF MxInv, SubInv, OpenIsKnown
    <2>3. NobodyLeftWaiting
      <3> SUFFICES ASSUME NEW c \in MuxCallers, mxCaller[c].pc = "accepting",
                          mxMux[mxCaller[c].mux].main = "ended"
                   PROVE  mxSub[mxCaller[c].sub].closed \/ mxSub[mxCaller[c].sub].ended
        BY Zenon DEF NobodyLeftWaiting
      <3>1. mxCaller[c].mux \in Muxes /\ mxCaller[c].sub \in Subs /\ mxCaller[c].sub # 0
            /\ mxSub[mxCaller[c].sub].mux = mxCaller[c].mux /\ mxCaller[c].mux # 0
        BY DEF MxInv, CallerInv, Muxes, Subs
      <3>2. mxSub[mxCaller[c].sub].protocol \in Protocols
        BY <3>1, Zenon DEF MxInv, SubInv
      <3> QED BY <2>2, <3>1, <3>2 DEF MxInv, KnownInv, OpenIsKnown
    <2> QED BY <2>1, <2>2, <2>3, Zenon DEF InboundsServed
  <1> QED BY <1>1, MxInitInv, MxStep, PTL DEF MuxSpec

-----------------------------------------------------------------------------
(***************************************************************************)
(* Port hopping                                                            *)
(***************************************************************************)

Settings == {"zero", "future", "past"}

SockType ==
    [state : {"unopened", "open", "closed"}, read : Settings, write : Settings, buf : Nat]

HopTypes ==
    /\ sock \in [Socks -> SockType]
    /\ currentConn \in Socks /\ prevConn \in Socks \cup {NoSock}
    /\ hopClosed \in BOOLEAN
    /\ deadline \in Settings /\ readDeadline \in Settings /\ writeDeadline \in Settings
    /\ bufSize \in Nat

\* The deadline that hop falls back on is the zero time or that of both
\* directions; and no socket is open but the two of the connection.
HopInv ==
    /\ HopTypes
    /\ deadline = "zero" \/ (deadline = readDeadline /\ deadline = writeDeadline)
    /\ prevConn # currentConn
    /\ \A s \in Socks : sock[s].state = "open" <=> ~hopClosed /\ s \in {prevConn, currentConn}
    /\ SettingsFollow

\* Steps of the goroutines and readers that open, close and set nothing.
LEMMA HopFrame ==
    ASSUME HopInv,
           UNCHANGED <<sock, currentConn, prevConn, hopClosed, hopSettings>>
    PROVE  HopInv'
  BY Zenon DEF HopInv, HopTypes, hopSettings, SettingsFollow

\* hop: the new socket is set up as the others are, and only the one before the
\* last is closed.
LEMMA HopHop ==
    ASSUME HopInv, NEW s \in Socks, Hop(s)
    PROVE  HopInv' /\ prevConn' = currentConn /\ sock'[currentConn].state = "open"
  <1> USE DEF HopInv
  <1>1. /\ ~hopClosed /\ sock[s].state = "unopened"
        /\ sock' = [CloseSocks({prevConn} \ {NoSock}) EXCEPT ![s] = NewSock]
        /\ prevConn' = currentConn /\ currentConn' = s
        /\ UNCHANGED <<hopClosed, deadline, readDeadline, writeDeadline, bufSize>>
    BY Zenon DEF Hop, HopMayListen, HopCloses, hopSettings
  <1>2. sock[currentConn].state = "open" /\ s # currentConn
    BY <1>1, Zenon DEF HopTypes
  <1>3. ASSUME NEW t \in Socks
        PROVE  sock'[t] = IF t = s THEN NewSock
                          ELSE IF t = prevConn THEN [sock[t] EXCEPT !.state = "closed"]
                          ELSE sock[t]
    BY <1>1, UDPHopAssumption, Zenon DEF CloseSocks
  <1>4. sock' = [t \in Socks |-> sock'[t]]
    BY <1>1, Zenon DEF CloseSocks
  <1>5. /\ NewSock \in SockType
        /\ NewSock.state = "open" /\ NewSock.read = readDeadline
        /\ NewSock.write = writeDeadline /\ NewSock.buf = bufSize
    BY Zenon DEF NewSock, HopTypes, Settings, SockType
  <1>6. HopTypes'
    <2>1. \A t \in Socks : sock'[t] \in SockType
      BY <1>3, <1>5 DEF HopTypes, SockType
    <2> QED BY <1>1, <1>4, <2>1, Zenon DEF HopTypes
  <1>7. \A t \in Socks :
          sock'[t].state = "open" <=> ~hopClosed' /\ t \in {prevConn', currentConn'}
    <2> TAKE t \in Socks
    <2>1. sock[t] \in SockType
      BY Zenon DEF HopTypes
    <2>2. CASE t = s
      BY <1>1, <1>3, <1>5, <2>2, Zenon
    <2>3. CASE t # s /\ t = prevConn
      <3>1. sock'[t].state = "closed"
        BY <1>3, <2>1, <2>3, Zenon DEF SockType
      <3> QED BY <1>1, <2>3, <3>1, Zenon
    <2>4. CASE t # s /\ t # prevConn
      <3>1. sock'[t] = sock[t]
        BY <1>3, <2>4, Zenon
      <3> QED BY <1>1, <2>4, <3>1, Zenon
    <2> QED BY <2>2, <2>3, <2>4, Zenon
  <1>8. SettingsFollow'
    <2> SUFFICES ASSUME NEW t \in Socks, sock'[t].state = "open"
                 PROVE  /\ sock'[t].read = readDeadline /\ sock'[t].write = writeDeadline
                        /\ sock'[t].buf = bufSize
      BY <1>1, Zenon DEF SettingsFollow
    <2>1. CASE t = s
      BY <1>3, <1>5, <2>1, Zenon
    <2>2. CASE t # s
      <3>1. t = currentConn
        BY <1>1, <1>7, <2>2, Zenon
      <3>2. sock'[t] = sock[t]
        BY <1>3, <2>2, <3>1, Zenon
      <3> QED BY <3>2, Zenon DEF SettingsFollow
    <2> QED BY <2>1, <2>2, Zenon
  <1>9. sock'[currentConn].state = "open"
    BY <1>1, <1>2, <1>7, Zenon DEF HopTypes
  <1> QED BY <1>1, <1>2, <1>6, <1>7, <1>8, <1>9, Zenon

LEMMA HopClosing ==
    ASSUME HopInv, HopClose
    PROVE  HopInv'
  <1> USE DEF HopInv
  <1>1. /\ ~hopClosed /\ hopClosed' = TRUE
        /\ sock' = [s \in Socks |-> IF s \in {prevConn, currentConn}
                                    THEN [sock[s] EXCEPT !.state = "closed"] ELSE sock[s]]
        /\ UNCHANGED <<prevConn, currentConn, deadline, readDeadline, writeDeadline, bufSize>>
    BY UDPHopAssumption, Zenon DEF HopClose, CloseCloses, CloseSocks, HopSocks, hopSettings
  <1>2. HopTypes'
    BY <1>1 DEF HopTypes, SockType
  <1> QED BY <1>1, <1>2 DEF HopTypes, SockType, SettingsFollow

LEMMA HopSetting ==
    ASSUME HopInv,
           \/ \E t \in Deadlines : SetDeadline(t) \/ SetReadDeadline(t) \/ SetWriteDeadline(t)
           \/ SetReadBuffer(1)
    PROVE  HopInv'
  <1> USE DEF HopInv
  <1>1. /\ UNCHANGED <<prevConn, currentConn, hopClosed>>
        /\ deadline' = "zero" \/ (deadline' = readDeadline' /\ deadline' = writeDeadline')
        /\ deadline' \in Settings /\ readDeadline' \in Settings /\ writeDeadline' \in Settings
        /\ bufSize' \in Nat
    <2>1. CASE SetReadBuffer(1)
      BY <2>1, Zenon DEF SetReadBuffer, HopTypes
    <2>2. ASSUME NEW t \in Deadlines,
                 SetDeadline(t) \/ SetReadDeadline(t) \/ SetWriteDeadline(t)
          PROVE  /\ UNCHANGED <<prevConn, currentConn, hopClosed, bufSize>>
                 /\ deadline' = "zero" \/ (deadline' = readDeadline' /\ deadline' = writeDeadline')
                 /\ {deadline', readDeadline', writeDeadline'} \subseteq
                      {"zero", t, readDeadline, writeDeadline}
      <3>1. CASE SetDeadline(t)
        BY <3>1, Zenon DEF SetDeadline, SetDeadlines
      <3>2. CASE SetReadDeadline(t)
        BY <3>2, Zenon DEF SetReadDeadline, SetDeadlines
      <3>3. CASE SetWriteDeadline(t)
        BY <3>3, Zenon DEF SetWriteDeadline, SetDeadlines
      <3> QED BY <2>2, <3>1, <3>2, <3>3, Zenon
    <2>3. Deadlines \subseteq Settings /\ "zero" \in Settings
      BY UDPHopAssumption, Zenon DEF Settings
    <2> QED BY <2>1, <2>2, <2>3, Zenon DEF HopTypes
  <1>2. HopSocks = {prevConn, currentConn} \cap Socks
    BY UDPHopAssumption, Zenon DEF HopSocks, HopTypes
  <1>3. ASSUME NEW s \in Socks
        PROVE  /\ sock'[s] \in SockType /\ sock'[s].state = sock[s].state
               /\ s \in {prevConn, currentConn} /\ sock[s].state = "open" =>
                    /\ sock'[s].read = readDeadline' /\ sock'[s].write = writeDeadline'
                    /\ sock'[s].buf = bufSize'
    <2>1. sock[s] \in SockType
      BY Zenon DEF HopTypes
    <2>2. sock[s].state = "open" =>
            /\ sock[s].read = readDeadline /\ sock[s].write = writeDeadline
            /\ sock[s].buf = bufSize
      BY Zenon DEF SettingsFollow
    <2>3. CASE SetReadBuffer(1)
      <3>1. /\ sock'[s] = IF s \in HopSocks THEN [sock[s] EXCEPT !.buf = 1] ELSE sock[s]
            /\ bufSize' = 1 /\ UNCHANGED <<readDeadline, writeDeadline>>
        BY <2>3, Zenon DEF SetReadBuffer
      <3> QED BY <1>2, <2>1, <2>2, <3>1 DEF SockType
    <2>4. CASE \E t \in Deadlines :
                 SetDeadline(t) \/ SetReadDeadline(t) \/ SetWriteDeadline(t)
      <3>1. /\ sock'[s] = IF s \in HopSocks
                          THEN [sock[s] EXCEPT !.read = readDeadline', !.write = writeDeadline']
                          ELSE sock[s]
            /\ UNCHANGED bufSize
        BY <2>4, Zenon DEF SetDeadline, SetReadDeadline, SetWriteDeadline, SetDeadlines
      <3> QED BY <1>1, <1>2, <2>1, <2>2, <3>1, Zenon DEF SockType
    <2> QED BY <2>3, <2>4, Zenon
  <1>4. sock' = [s \in Socks |-> sock'[s]]
    BY Zenon DEF SetDeadline, SetReadDeadline, SetWriteDeadline, SetDeadlines, SetReadBuffer
  <1>5. HopTypes'
    BY <1>1, <1>3, <1>4, Zenon DEF HopTypes
  <1> QED BY <1>1, <1>3, <1>5, Zenon DEF SettingsFollow

\* Hopping is seamless, for any number of hops and sockets: only the previous
\* and the current socket are open, the settings reach every open socket in
\* whatever order setters and hops come, and a hop keeps its predecessor open.
THEOREM HoppingIsSeamless == HopSpec => HopSeamless
  <1>1. HopInit => HopInv
    <2> SUFFICES ASSUME HopInit PROVE HopInv
      OBVIOUS
    <2>1. /\ currentConn \in Socks /\ prevConn = NoSock /\ hopClosed = FALSE
          /\ deadline = "zero" /\ readDeadline = "zero" /\ writeDeadline = "zero"
          /\ bufSize = 0
          /\ sock = [s \in Socks |-> IF s = currentConn THEN Opened ELSE Unopened]
      BY UDPHopAssumption, Zenon DEF HopInit
    <2>2. Opened = [state |-> "open", read |-> "zero", write |-> "zero", buf |-> 0]
      BY DEF Opened, Unopened
    <2>3. HopTypes
      BY <2>1, <2>2, Zenon DEF HopTypes, SockType, Unopened, Settings
    <2> QED BY <2>1, <2>2, <2>3, UDPHopAssumption, Zenon DEF HopInv, Unopened, SettingsFollow
  <1>2. HopInv /\ [HopStepNext]_hopVars =>
          HopInv' /\ PreviousStaysOpen
    <2> SUFFICES ASSUME HopInv, [HopStepNext]_hopVars
                 PROVE  /\ HopInv'
                        /\ currentConn' # currentConn =>
                             prevConn' = currentConn /\ sock'[currentConn].state = "open"
      BY Zenon DEF PreviousStaysOpen
    <2>1. ASSUME NEW s \in Socks, Hop(s)
          PROVE  HopInv' /\ prevConn' = currentConn /\ sock'[currentConn].state = "open"
      BY <2>1, HopHop, Zenon
    <2>2. CASE \/ \E t \in Deadlines :
                    SetDeadline(t) \/ SetReadDeadline(t) \/ SetWriteDeadline(t)
               \/ SetReadBuffer(1)
      <3>1. UNCHANGED currentConn
        BY <2>2, Zenon DEF SetDeadline, SetReadDeadline, SetWriteDeadline, SetDeadlines,
           SetReadBuffer
      <3> QED BY <2>2, <3>1, HopSetting, Zenon
    <2>3. CASE HopClose
      BY <2>3, HopClosing, Zenon DEF HopClose
    <2>4. CASE UNCHANGED hopVars
      BY <2>4, HopFrame, Zenon DEF hopVars, hopSettings
    <2>5. ASSUME NEW s \in Socks, RecvPacket(s) \/ RecvStep(s)
          PROVE  HopInv' /\ UNCHANGED currentConn
      BY <2>5, HopFrame, Zenon DEF RecvPacket, RecvStep, RecvFails, RecvTimeout
    <2>6. CASE HopTimer \/ HopLoopEnds \/ HopSkipped \/ HopReadFrom \/ HopReadReturns
      BY <2>6, HopFrame, Zenon DEF HopTimer, HopLoopEnds, HopSkipped, HopReadFrom, HopReadReturns
    <2> QED BY <2>1, <2>2, <2>3, <2>4, <2>5, <2>6, Zenon DEF HopStepNext, HopStep
  <1>3. HopInv => TwoSocketsAtMost /\ SettingsFollow
    <2> SUFFICES ASSUME HopInv PROVE TwoSocketsAtMost
      BY Zenon DEF HopInv
    <2>1. {s \in Socks : sock[s].state = "open"} = IF hopClosed THEN {} ELSE HopSocks
      BY UDPHopAssumption, Zenon DEF HopInv, HopTypes, HopSocks
    <2> QED BY <2>1, Zenon DEF TwoSocketsAtMost, WriteSock, HopInv, HopTypes
  <1> QED BY <1>1, <1>2, <1>3, PTL DEF HopSpec, HopSeamless
=============================================================================
