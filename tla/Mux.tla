--------------------------------- MODULE Mux ---------------------------------
(***************************************************************************)
(* proxymux: a SOCKS5 and an HTTP inbound on one address.  The manager has *)
(* a multiplexer per address; each has a base listener, a goroutine that   *)
(* accepts, a main goroutine that hands connections over and stops when    *)
(* both inbounds are gone, and a goroutine per connection that reads its   *)
(* first byte and offers it to the inbound of that protocol.               *)
(***************************************************************************)
EXTENDS Naturals

CONSTANTS
    MuxCallers,        \* those who listen on the address
    ProtocolOf,     \* the protocol each listens for: a function
    MaxMux, MaxSubs, MaxConns   \* bounds on what is created

VARIABLES
    mxCurrent,      \* muxManager.listeners of the address, 0 if none
    mxMux,          \* the multiplexers: see NewMux
    mxSub,          \* the listeners given to callers: see NewSub
    mxCaller,       \* the callers: where each is, its multiplexer, its listener
    mxConn          \* the connections: see NewConn

mxVars == <<mxCurrent, mxMux, mxSub, mxCaller, mxConn>>

Muxes == 1 .. MaxMux
Subs == 1 .. MaxSubs
MuxConns == 1 .. MaxConns
Protocols == {"socks", "http"}
None == [p \in Protocols |-> 0]

ASSUME MuxAssumption ==
    /\ MaxMux \in Nat /\ MaxSubs \in Nat /\ MaxConns \in Nat
    /\ ProtocolOf \in [MuxCallers -> Protocols]

\* base: its listener is open; done: closeChan is closed; sub: socksListener and
\* httpListener; seen: the listeners whose closeChan mainLoop waits for; main
\* and accepting: where the two goroutines are; hand: the accepted connection.
NewMux == [base |-> TRUE, done |-> FALSE, sub |-> None, seen |-> None, main |-> "loop",
           accepting |-> "accept", hand |-> 0]
\* closed: closeChan is closed; ended: acceptChan is closed.
NewSub(m, p) == [mux |-> m, protocol |-> p, closed |-> FALSE, ended |-> FALSE]
\* at: where the connection is; target: the listener it is offered or given to.
NewConn(p, at) == [protocol |-> p, at |-> at, mux |-> 0, target |-> 0]

\* Slots not used yet have mux 0, and main and at "unused".
MuxInit ==
    /\ mxCurrent = 0
    /\ mxMux = [m \in Muxes |-> [NewMux EXCEPT !.base = FALSE, !.main = "unused", !.accepting = "ended"]]
    /\ mxSub = [s \in Subs |-> NewSub(0, "none")]
    /\ mxCaller = [c \in MuxCallers |-> [pc |-> "idle", mux |-> 0, sub |-> 0]]
    /\ mxConn = [k \in MuxConns |-> NewConn("none", "unused")]

CallerAt(c, pc, m, s) == mxCaller' = [mxCaller EXCEPT ![c] = [pc |-> pc, mux |-> m, sub |-> s]]

-----------------------------------------------------------------------------
(***************************************************************************)
(* The callers                                                             *)
(***************************************************************************)

\* muxManager.GetOrCreate, under the manager's lock.  A new multiplexer needs
\* the address: Listen fails while an old one has it.
GetOrCreate(c) ==
    /\ mxCaller[c].pc = "idle"
    /\ \/ mxCurrent # 0 /\ CallerAt(c, "listen", mxCurrent, 0) /\ UNCHANGED <<mxCurrent, mxMux>>
       \/ /\ mxCurrent = 0 /\ \E m \in Muxes : mxMux[m].base
          /\ CallerAt(c, "stopped", 0, 0) /\ UNCHANGED <<mxCurrent, mxMux>>
       \/ /\ mxCurrent = 0 /\ \A m \in Muxes : ~mxMux[m].base
          /\ \E m \in Muxes :
               /\ mxMux[m].main = "unused" /\ \A n \in 1 .. m - 1 : mxMux[n].main # "unused"
               /\ mxMux' = [mxMux EXCEPT ![m] = NewMux] /\ mxCurrent' = m
               /\ CallerAt(c, "listen", m, 0)
    /\ UNCHANGED <<mxSub, mxConn>>

\* The protocol is in use: it has a listener that is not closed.
InUse(m, p) == mxMux[m].sub[p] # 0 /\ ~mxSub[mxMux[m].sub[p]].closed

\* closeChan of the multiplexer is closed.
MuxClosed(m) == mxMux[m].done

\* ListenHTTP and ListenSOCKS, under the lock of the multiplexer.
Listen(c) ==
    /\ mxCaller[c].pc = "listen"
    /\ LET m == mxCaller[c].mux   p == ProtocolOf[c] IN
       \/ InUse(m, p) /\ CallerAt(c, "stopped", 0, 0) /\ UNCHANGED <<mxMux, mxSub>>
       \/ /\ ~InUse(m, p) /\ MuxClosed(m)
          /\ mxMux' = [mxMux EXCEPT ![m].sub[p] = 0]
          /\ CallerAt(c, "stopped", 0, 0) /\ UNCHANGED mxSub
       \/ /\ ~InUse(m, p) /\ ~MuxClosed(m)
          /\ \E s \in Subs :
               /\ mxSub[s].mux = 0 /\ \A r \in 1 .. s - 1 : mxSub[r].mux # 0
               /\ mxSub' = [mxSub EXCEPT ![s] = NewSub(m, p)]
               /\ mxMux' = [mxMux EXCEPT ![m].sub[p] = s]
               /\ CallerAt(c, "accepting", m, s)
    /\ UNCHANGED <<mxCurrent, mxConn>>

\* subListener.Accept returns a connection, or that the listener is closed.
AcceptConn(c, k) ==
    /\ mxCaller[c].pc = "accepting" /\ mxConn[k].at = "offered" /\ mxConn[k].target = mxCaller[c].sub
    /\ mxConn' = [mxConn EXCEPT ![k].at = "taken"]
    /\ UNCHANGED <<mxCurrent, mxMux, mxSub, mxCaller>>

AcceptFails(c) ==
    /\ mxCaller[c].pc = "accepting" /\ (mxSub[mxCaller[c].sub].closed \/ mxSub[mxCaller[c].sub].ended)
    /\ CallerAt(c, "stopped", mxCaller[c].mux, mxCaller[c].sub)
    /\ UNCHANGED <<mxCurrent, mxMux, mxSub, mxConn>>

\* subListener.Close, called by another goroutine than Accept.
CloseSub(c) ==
    /\ mxCaller[c].sub # 0 /\ ~mxSub[mxCaller[c].sub].closed
    /\ mxSub' = [mxSub EXCEPT ![mxCaller[c].sub].closed = TRUE]
    /\ UNCHANGED <<mxCurrent, mxMux, mxCaller, mxConn>>

\* A caller that was stopped may listen again.
ListenAgain(c) ==
    /\ mxCaller[c].pc = "stopped" /\ (mxCaller[c].sub # 0 => mxSub[mxCaller[c].sub].closed)
    /\ \E s \in Subs : mxSub[s].mux = 0
    /\ CallerAt(c, "idle", 0, 0)
    /\ UNCHANGED <<mxCurrent, mxMux, mxSub, mxConn>>

-----------------------------------------------------------------------------
(***************************************************************************)
(* The goroutines of a multiplexer                                         *)
(***************************************************************************)

\* A connection is made to the address; the byte it will send first is chosen.
Connect(k) ==
    /\ mxConn[k].at = "unused" /\ \A j \in 1 .. k - 1 : mxConn[j].at # "unused"
    /\ \E m \in Muxes : mxMux[m].base
    /\ \E p \in Protocols : mxConn' = [mxConn EXCEPT ![k] = NewConn(p, "backlog")]
    /\ UNCHANGED <<mxCurrent, mxMux, mxSub, mxCaller>>

\* acceptLoop: Accept returns a connection or an error.
BaseAccepts(m, k) ==
    /\ mxMux[m].accepting = "accept" /\ mxMux[m].base /\ mxConn[k].at = "backlog"
    /\ mxConn' = [mxConn EXCEPT ![k].at = "hand", ![k].mux = m]
    /\ mxMux' = [mxMux EXCEPT ![m].accepting = "offer", ![m].hand = k]
    /\ UNCHANGED <<mxCurrent, mxSub, mxCaller>>

BaseFails(m) ==
    /\ mxMux[m].accepting = "accept"
    /\ mxMux' = [mxMux EXCEPT ![m].accepting = "ended"]
    /\ UNCHANGED <<mxCurrent, mxSub, mxCaller, mxConn>>

\* acceptLoop sees closeChan while it offers a connection, and drops it.
AcceptLoopStops(m) ==
    /\ mxMux[m].accepting = "offer" /\ mxMux[m].done
    /\ mxConn' = [mxConn EXCEPT ![mxMux[m].hand].at = "dropped"]
    /\ mxMux' = [mxMux EXCEPT ![m].accepting = "ended", ![m].hand = 0]
    /\ UNCHANGED <<mxCurrent, mxSub, mxCaller>>

\* mainLoop reads the close channels of the listeners there are, and waits.
MainReads(m) ==
    /\ mxMux[m].main = "loop"
    /\ mxMux' = [mxMux EXCEPT ![m].seen = mxMux[m].sub, ![m].main = "select"]
    /\ UNCHANGED <<mxCurrent, mxSub, mxCaller, mxConn>>

\* It is given a connection and starts dispatch for it.
MainTakes(m) ==
    /\ mxMux[m].main = "select" /\ mxMux[m].accepting = "offer"
    /\ mxConn' = [mxConn EXCEPT ![mxMux[m].hand].at = "dispatch"]
    /\ mxMux' = [mxMux EXCEPT ![m].main = "loop", ![m].seen = None,
                               ![m].accepting = "accept", ![m].hand = 0]
    /\ UNCHANGED <<mxCurrent, mxSub, mxCaller>>

\* acceptChan is closed: it returns.
MainEnds(m) ==
    /\ mxMux[m].main = "select" /\ mxMux[m].accepting = "ended"
    /\ mxMux' = [mxMux EXCEPT ![m].main = "delete", ![m].seen = None]
    /\ UNCHANGED <<mxCurrent, mxSub, mxCaller, mxConn>>

\* A close channel of a listener it waits for is closed.
SeenClosed(m, p) == mxMux[m].seen[p] # 0 /\ mxSub[mxMux[m].seen[p]].closed

\* Mutant of Forgotten: the listener is forgotten although it was replaced.
ForgottenAlways(m, p) == 0

\* The listener of the protocol once one of its listeners was seen closed.
Forgotten(m, p) == IF mxMux[m].sub[p] = mxMux[m].seen[p] THEN 0 ELSE mxMux[m].sub[p]

MainSeesClosed(m, p) ==
    /\ mxMux[m].main = "select" /\ SeenClosed(m, p)
    /\ mxMux' = [mxMux EXCEPT ![m].sub[p] = Forgotten(m, p), ![m].seen = None, ![m].main = "check"]
    /\ UNCHANGED <<mxCurrent, mxSub, mxCaller, mxConn>>

\* checkIdle: it returns when there is no listener.
MainChecks(m) ==
    /\ mxMux[m].main = "check"
    /\ mxMux' = [mxMux EXCEPT ![m].main = IF mxMux[m].sub = None THEN "delete" ELSE "loop"]
    /\ UNCHANGED <<mxCurrent, mxSub, mxCaller, mxConn>>

\* The deferred function: deleteFunc, then the base listener and closeChan are
\* closed, then, under the lock, acceptChan of the listeners there are.
MainDeletes(m) ==
    /\ mxMux[m].main = "delete" /\ mxCurrent' = 0
    /\ mxMux' = [mxMux EXCEPT ![m].main = "close"]
    /\ UNCHANGED <<mxSub, mxCaller, mxConn>>

MainCloses(m) ==
    /\ mxMux[m].main = "close"
    /\ mxMux' = [mxMux EXCEPT ![m].base = FALSE, ![m].done = TRUE, ![m].main = "subs"]
    /\ mxConn' = [k \in MuxConns |->
         IF mxConn[k].at = "backlog" THEN [mxConn[k] EXCEPT !.at = "closed"] ELSE mxConn[k]]
    /\ UNCHANGED <<mxCurrent, mxSub, mxCaller>>

MainEndsSubs(m) ==
    /\ mxMux[m].main = "subs"
    /\ mxSub' = [s \in Subs |-> IF \E p \in Protocols : mxMux[m].sub[p] = s
                                THEN [mxSub[s] EXCEPT !.ended = TRUE] ELSE mxSub[s]]
    /\ mxMux' = [mxMux EXCEPT ![m].sub = None, ![m].main = "ended"]
    /\ UNCHANGED <<mxCurrent, mxCaller, mxConn>>

\* The listener for the first byte of a connection.
TargetOf(m, p) == mxMux[m].sub[p]

\* dispatch reads the first byte, or fails to, and looks the listener up.
MuxDispatch(k) ==
    /\ mxConn[k].at = "dispatch"
    /\ LET target == TargetOf(mxConn[k].mux, mxConn[k].protocol) IN
       \/ mxConn' = [mxConn EXCEPT ![k].at = "closed"]
       \/ target # 0 /\ mxConn' = [mxConn EXCEPT ![k].at = "offered", ![k].target = target]
    /\ UNCHANGED <<mxCurrent, mxMux, mxSub, mxCaller>>

\* It offers the connection until it is taken, and drops it when the listener is
\* closed.  A send on a channel that was closed meanwhile panics.
DispatchDrops(k) ==
    /\ mxConn[k].at = "offered"
    /\ \/ mxSub[mxConn[k].target].closed /\ mxConn' = [mxConn EXCEPT ![k].at = "dropped"]
       \/ mxSub[mxConn[k].target].ended /\ mxConn' = [mxConn EXCEPT ![k].at = "panic"]
    /\ UNCHANGED <<mxCurrent, mxMux, mxSub, mxCaller>>

-----------------------------------------------------------------------------
MainStep(m) ==
    \/ MainReads(m) \/ MainTakes(m) \/ MainEnds(m) \/ (\E p \in Protocols : MainSeesClosed(m, p))
    \/ MainChecks(m) \/ MainDeletes(m) \/ MainCloses(m) \/ MainEndsSubs(m)

MuxNext ==
    \/ \E c \in MuxCallers : \/ GetOrCreate(c) \/ Listen(c) \/ AcceptFails(c) \/ CloseSub(c) \/ ListenAgain(c)
                          \/ \E k \in MuxConns : AcceptConn(c, k)
    \/ \E m \in Muxes : \/ MainStep(m) \/ BaseFails(m) \/ AcceptLoopStops(m)
                        \/ \E k \in MuxConns : BaseAccepts(m, k)
    \/ \E k \in MuxConns : Connect(k) \/ MuxDispatch(k) \/ DispatchDrops(k)

\* Goroutines that can go on do; Accept of a base listener that is closed fails.
MuxFairness ==
    /\ \A c \in MuxCallers : WF_mxVars(AcceptFails(c)) /\ WF_mxVars(Listen(c))
    /\ \A m \in Muxes : /\ WF_mxVars(MainStep(m)) /\ WF_mxVars(AcceptLoopStops(m))
                        /\ WF_mxVars(~mxMux[m].base /\ BaseFails(m))

MuxSpec == MuxInit /\ [][MuxNext]_mxVars /\ MuxFairness

-----------------------------------------------------------------------------
(***************************************************************************)
(* Properties                                                              *)
(***************************************************************************)

\* An inbound is given connections of its own protocol only, by a multiplexer
\* that it listens on (proxymux/mux.go:118-145).
RightInbound ==
    \A k \in MuxConns : mxConn[k].target # 0 =>
        /\ mxSub[mxConn[k].target].protocol = mxConn[k].protocol
        /\ mxSub[mxConn[k].target].mux = mxConn[k].mux

\* When mainLoop sees a close channel closed there is a listener to compare it
\* with: "l.socksListener.closeChan" is not read through nil
\* (proxymux/mux.go:94-110).
ListenerToCompare ==
    \A m \in Muxes, p \in Protocols :
        mxMux[m].main = "select" /\ SeenClosed(m, p) => mxMux[m].sub[p] # 0

\* A listener that is neither closed nor ended is the one its multiplexer knows
\* for the protocol: no inbound waits where no connection can come
\* (proxymux/mux.go:86-110, 166-230).
OpenIsKnown ==
    \A s \in Subs : mxSub[s].mux # 0 /\ ~mxSub[s].closed /\ ~mxSub[s].ended =>
        mxMux[mxSub[s].mux].sub[mxSub[s].protocol] = s

\* No inbound is left waiting on a multiplexer that has ended: its listener was
\* closed, also when it was given out while mainLoop was returning
\* (proxymux/mux.go:57-74, 188-192, 253-268).
NobodyLeftWaiting ==
    \A c \in MuxCallers : mxCaller[c].pc = "accepting" /\ mxMux[mxCaller[c].mux].main = "ended" =>
        mxSub[mxCaller[c].sub].closed \/ mxSub[mxCaller[c].sub].ended

\* Every open multiplexer serves the inbounds registered with it and is known to
\* the manager, and one that is closed leaves no caller or connection behind.
InboundsServed ==
    RightInbound /\ ListenerToCompare /\ OpenIsKnown /\ NobodyLeftWaiting
=============================================================================
