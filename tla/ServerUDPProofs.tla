-------------------------- MODULE ServerUDPProofs --------------------------
(***************************************************************************)
(* The safety properties of ServerUDP, proved for every number of sessions *)
(* and entries, every set of addresses and messages and every timeout: the *)
(* inductive invariant and the facts its proof rests on, the steps of Run, *)
(* those that close sessions, those of the receiving goroutines and of     *)
(* time, and the theorems.                                                 *)
(***************************************************************************)
EXTENDS ServerUDP, TLAPS

-----------------------------------------------------------------------------
(***************************************************************************)
(* The inductive invariant.                                                *)
(***************************************************************************)

\* The type invariant, in parts.
ProcType ==
    /\ pc \in [Procs -> Labels]
    /\ cur \in [Procs -> Entry \cup {Nil}]
    /\ todo \in [Procs -> SUBSET Entry]
    /\ errNil \in [Procs -> BOOLEAN]

EntryType ==
    /\ m \in [Sessions -> Entry \cup {Nil}]
    /\ ID \in [Entry -> Sessions \cup {Nil}]
    /\ closed \in [Entry -> BOOLEAN]
    /\ conn \in [Entry -> {"nil", "open", "closed"}]
    /\ connLock \in [Entry -> {Nil, RunLoop}]
    /\ closeLog \in [Entry -> Seq(BOOLEAN)]

TimeType ==
    /\ age \in [Entry -> 0..(IdleTimeout + 1)]
    /\ wasIdle \in [Entry -> BOOLEAN]
    /\ draining \in BOOLEAN /\ stopped \in BOOLEAN /\ ioAlive \in BOOLEAN

FeedType ==
    /\ held \in [Entry -> Seq(Addrs)]
    /\ msg \in Messages \cup {NoMsg}
    /\ queue \in Seq(Addrs)
    /\ target \in Addrs \cup {NoAddr}

RouteType ==
    /\ override \in [Entry -> Addrs \cup {NoAddr}]
    /\ original \in [Entry -> Addrs \cup {NoAddr}]
    /\ aclCache \in [Entry -> Decisions]
    /\ lastWrite \in {Nil} \cup (Entry \X Addrs)
    /\ lastReply \in {Nil} \cup (Entry \X Addrs \X Addrs)

\* The labels of Run at which it is feeding a message to the entry cur.
FeedLabels == {"feed", "hook", "init", "dial", "write"}

\* A goroutine works only on an entry that was allocated; a receive loop only
\* on its own.
GoroutineInv ==
    /\ \A p \in Procs :
         /\ pc[p] \in {"close", "exit"} => cur[p] \in Entry /\ ID[cur[p]] # Nil
         /\ \A e \in todo[p] : ID[e] # Nil
    /\ pc[RunLoop] \in FeedLabels =>
         cur[RunLoop] \in Entry /\ ID[cur[RunLoop]] # Nil
    /\ pc[RunLoop] \in {"create", "feed"} => msg \in Messages
    /\ pc[RunLoop] = "create" => m[msg.SessionID] = Nil
    /\ pc[RunLoop] = "write" => queue # <<>>

\* An entry that was not allocated yet is untouched.
FreshInv ==
    \A e \in Entry :
      ID[e] = Nil => /\ ~closed[e]
                     /\ conn[e] = "nil"
                     /\ closeLog[e] = <<>>
                     /\ pc[e] = "off"

\* From closed to the end of ExitFunc an entry belongs to the one goroutine
\* that closed it, and stays in the map.
CloseInv ==
    /\ \A e \in Entry :
         /\ Len(closeLog[e]) <= 1
         /\ closeLog[e] # <<>> => closed[e]
    /\ \A p \in Procs :
         pc[p] = "exit" => closed[cur[p]] /\ closeLog[cur[p]] = <<>>
    /\ \A p, q \in Procs :
         pc[p] = "exit" /\ pc[q] = "exit" /\ cur[p] = cur[q] => p = q

\* While Run dials it holds the lock of an entry that is open for business.
ConnInv ==
    /\ \A e \in Entry : closed[e] => conn[e] # "open"
    /\ pc[RunLoop] \in {"hook", "init", "dial"} =>
         /\ conn[cur[RunLoop]] = "nil"
         /\ held[cur[RunLoop]] # <<>>
    /\ pc[RunLoop] = "dial" =>
         connLock[cur[RunLoop]] = RunLoop /\ ~closed[cur[RunLoop]]
    /\ pc[RunLoop] = "write" => conn[cur[RunLoop]] # "nil"
    /\ pc[RunLoop] = "dial" => target \in Addrs
    /\ pc[RunLoop] = "init" => target \in Addrs

\* Once Run left its receive loop, every session is closed or still to be
\* closed by it.
DrainInv ==
    /\ pc[RunLoop] \in {"cleanup", "done"} => draining
    /\ draining => pc[RunLoop] \in {"cleanup", "close", "exit", "done"}
    /\ draining => \A e \in Entry :
         ID[e] # Nil /\ ~closed[e] =>
           \/ e \in todo[RunLoop]
           \/ pc[RunLoop] = "close" /\ cur[RunLoop] = e
    /\ pc[RunLoop] = "done" => todo[RunLoop] = {}

\* A nil error is passed on only at the end of Run or for an entry that was
\* idle when the idle loop looked.
IdleInv ==
    /\ \A e \in Entry :
         /\ age[e] > IdleTimeout => wasIdle[e]
         /\ \A i \in 1..Len(closeLog[e]) : closeLog[e][i] => wasIdle[e] \/ draining
    /\ \A e \in todo[IdleLoop] : wasIdle[e]
    /\ \A p \in Procs :
         pc[p] \in {"close", "exit"} /\ errNil[p] => wasIdle[cur[p]] \/ draining

\* Cached decisions are the policy's, and the addresses of a session are
\* settled before its first packet.
RouteInv ==
    /\ \A e \in Entry :
         /\ \A a \in DOMAIN aclCache[e] : aclCache[e][a] => a \in Allowed
         /\ override[e] = NoAddr <=> original[e] = NoAddr
    /\ lastWrite # Nil => conn[lastWrite[1]] # "nil"
    /\ lastReply # Nil => conn[lastReply[1]] # "nil"

Inv ==
    /\ ProcType /\ EntryType /\ TimeType /\ FeedType /\ RouteType
    /\ GoroutineInv /\ FreshInv /\ TableExact /\ CloseInv /\ ConnInv
    /\ DrainInv /\ IdleInv /\ RouteInv /\ RoutesRespected
-----------------------------------------------------------------------------
(***************************************************************************)
(* Facts the steps rest on.                                                *)
(***************************************************************************)

\* The goroutines are distinct, and none of them is nil.
LEMMA ProcsFacts ==
    /\ RunLoop \in Procs /\ IdleLoop \in Procs
    /\ \A e \in Entry : e \in Procs /\ e # RunLoop /\ e # IdleLoop /\ e # Nil
    /\ RunLoop # IdleLoop /\ RunLoop # Nil
    /\ Nil \notin Entry /\ Nil \notin Sessions
  BY ServerUDPAssumption, Zenon DEF Procs

\* Defragger.Feed returns a message for the address of the fragment it was fed.
LEMMA FeedOut ==
    ASSUME NEW d, NEW g \in Messages
    PROVE  DefraggerFeed(d, g).out # NoMsg => DefraggerFeed(d, g).out.Addr = g.Addr
  BY ServerUDPAssumption, Zenon DEF DefraggerFeed, Assembled

\* What the proofs use of the other constants.
LEMMA ConstFacts ==
    /\ IdleTimeout \in Nat
    /\ NoAddr \notin Addrs
    /\ Allowed \subseteq Addrs
    /\ NoMsg \notin Messages
    /\ \A g \in Messages : g.SessionID \in Sessions /\ g.Addr \in Addrs
  BY ServerUDPAssumption, Zenon

\* The decision caches that newUDPSessionEntry and initConn start from.
LEMMA SmallDecisions ==
    /\ [a \in {} |-> FALSE] \in Decisions
    /\ \A x \in Addrs : [a \in {x} |-> TRUE] \in Decisions
  <1>1. ASSUME NEW S \in SUBSET Addrs,
     NEW f \in [S -> BOOLEAN] PROVE f \in Decisions
    BY Zenon DEF Decisions
  <1>2. [a \in {} |-> FALSE] \in Decisions
    <2>1. [a \in {} |-> FALSE] \in [{} -> BOOLEAN]
      OBVIOUS
    <2> QED BY <1>1, <2>1, ZenonT(30)
  <1>3. ASSUME NEW x \in Addrs PROVE [a \in {x} |-> TRUE] \in Decisions
    BY <1>1, ZenonT(30)
  <1> QED BY <1>2, <1>3, Zenon

\* Asking the policy adds its decision to the cache and keeps the others.
LEMMA CacheWithFacts ==
    ASSUME NEW c \in Decisions, NEW a \in Addrs, NEW k \in CacheWith(c, a),
           \A x \in DOMAIN c : c[x] => x \in Allowed
    PROVE  k \in Decisions /\ \A x \in DOMAIN k : k[x] => x \in Allowed
  <1> DEFINE decided(S) == [x \in S \cup {a} |-> IF x = a THEN a \in Allowed ELSE c[x]]
  <1>1. DOMAIN c \subseteq Addrs /\ c \in [DOMAIN c -> BOOLEAN]
    BY Zenon DEF Decisions
  <1>2. ASSUME NEW S \in SUBSET DOMAIN c
        PROVE  /\ decided(S) \in Decisions
               /\ \A x \in DOMAIN decided(S) : decided(S)[x] => x \in Allowed
    <2>1. S \cup {a} \in SUBSET Addrs
      BY <1>1, Zenon
    <2>2. ASSUME NEW x \in S \cup {a}
          PROVE  (IF x = a THEN a \in Allowed ELSE c[x]) \in BOOLEAN
      <3>1. CASE x = a
        <4>1. (a \in Allowed) \in BOOLEAN
          OBVIOUS
        <4> QED BY <3>1, <4>1, Zenon
      <3>2. CASE x # a
        BY <3>2, <1>1, Zenon
      <3> QED BY <3>1, <3>2, Zenon
    <2>3. decided(S) \in [S \cup {a} -> BOOLEAN]
      BY <2>2, Zenon
    <2> QED BY <2>1, <2>3, Zenon DEF Decisions
  <1>3. k = c \/ \E S \in SUBSET DOMAIN c : k = decided(S)
    BY ZenonT(30) DEF CacheWith
  <1> QED BY <1>2, <1>3, ZenonT(30)

\* A step that takes no goroutine to ExitFunc preserves CloseInv.
LEMMA CloseFrame ==
    ASSUME CloseInv, UNCHANGED <<closed, closeLog>>,
           \A q \in Procs : pc'[q] = "exit" => pc[q] = "exit" /\ cur'[q] = cur[q]
    PROVE  CloseInv'
  BY DEF CloseInv

\* A step that logs nothing, lets no entry become idle, and takes no goroutine
\* to CloseWithErr with a nil error preserves IdleInv.
LEMMA IdleFrame ==
    ASSUME IdleInv, UNCHANGED <<closeLog, wasIdle>>, draining => draining',
           \A e \in Entry : age'[e] > IdleTimeout => age[e] > IdleTimeout,
           \A e \in todo'[IdleLoop] : wasIdle[e],
           \A q \in Procs : pc'[q] \in {"close", "exit"} /\ errNil'[q] =>
                              \/ wasIdle[cur'[q]] \/ draining'
                              \/ /\ pc[q] \in {"close", "exit"} /\ errNil[q]
                                 /\ cur'[q] = cur[q]
    PROVE  IdleInv'
  BY Zenon DEF IdleInv

\* cleanup closes entries that were allocated and, as the idle loop, only
\* entries it found idle.
LEMMA SnapshotFacts ==
    ASSUME EntryType, TableExact, NEW idleOnly \in BOOLEAN
    PROVE  /\ Snapshot(idleOnly) \subseteq Entry
           /\ \A e \in Snapshot(idleOnly) :
                ID[e] # Nil /\ (idleOnly => age[e] > IdleTimeout)
  BY ProcsFacts DEF EntryType, TableExact, Snapshot

-----------------------------------------------------------------------------
(***************************************************************************)
(* The initial state, and every action, one by one.                        *)
(***************************************************************************)

\* The initial states satisfy the invariant.
LEMMA InitInv == Init => Inv
  <1> SUFFICES ASSUME Init PROVE Inv OBVIOUS
  <1>1. ProcType
    BY ProcsFacts, Zenon DEF Init, ProcType, Labels, Procs
  <1>2. EntryType
    BY ProcsFacts DEF Init, EntryType
  <1>3. TimeType
    <2>1. age \in [Entry -> 0..(IdleTimeout + 1)]
      BY ConstFacts DEF Init
    <2>2. wasIdle \in [Entry -> BOOLEAN]
      BY Zenon DEF Init
    <2> QED BY <2>1, <2>2, ZenonT(30) DEF Init, TimeType
  <1>4. FeedType
    BY ProcsFacts DEF Init, FeedType
  <1>5. RouteType
    BY SmallDecisions, Zenon DEF Init, RouteType
  <1>6. GoroutineInv
    BY ProcsFacts, Zenon DEF Init, GoroutineInv, FeedLabels, Procs
  <1>7. FreshInv
    BY ProcsFacts, Zenon DEF Init, FreshInv, Procs
  <1>8. TableExact
    BY ProcsFacts, Zenon DEF Init, TableExact
  <1>9. CloseInv
    BY ProcsFacts DEF Init, CloseInv
  <1>10. ConnInv
    BY ProcsFacts, Zenon DEF Init, ConnInv
  <1>11. DrainInv
    BY ProcsFacts, Zenon DEF Init, DrainInv
  <1>12. IdleInv
    <2>1. \A e \in Entry : ~(age[e] > IdleTimeout) /\ 1..Len(closeLog[e]) = {}
      BY ConstFacts DEF Init
    <2>2. \A p \in Procs : pc[p] \notin {"close", "exit"} /\ todo[p] = {}
      BY Zenon DEF Init
    <2> QED BY <2>1, <2>2, ConstFacts, ProcsFacts, Zenon DEF IdleInv
  <1>13. RouteInv
    BY ProcsFacts, Zenon DEF Init, RouteInv
  <1>14. RoutesRespected
    BY ProcsFacts, Zenon DEF Init, RoutesRespected
  <1> QED BY <1>1, <1>2, <1>3, <1>4, <1>5, <1>6, <1>7, <1>8, <1>9, <1>10,
      <1>11, <1>12, <1>13, <1>14, Zenon DEF Inv

-----------------------------------------------------------------------------
(***************************************************************************)
(* Steps of Run, from a received message to the write                      *)
(***************************************************************************)

\* Looking a session up yields its entry, or leaves none for create.
LEMMA ReceiveMessageStep ==
    ASSUME Inv, ReceiveMessage
    PROVE  Inv'
  <1> USE DEF Inv
  <1>1. UNCHANGED <<m, ID, closed, conn, connLock, closeLog, override,
                original, aclCache, lastWrite, lastReply, held, queue, target,
                age, wasIdle, draining, stopped, ioAlive, todo, errNil>>
    BY Zenon DEF ReceiveMessage, table, session, feeding, control, events
  <1>2. EntryType' /\ TimeType' /\ RouteType' /\ TableExact' /\ RouteInv' /\
        RoutesRespected'
    BY <1>1, Zenon DEF EntryType, TimeType, RouteType, TableExact, RouteInv,
      RoutesRespected
  <1>3. ProcType'
    BY <1>1, ProcsFacts, ConstFacts DEF ReceiveMessage, Goto, EntryType,
       ProcType, Labels
  <1>4. FeedType'
    BY <1>1, ProcsFacts, Zenon DEF ReceiveMessage, Goto, FeedType
  <1>5. GoroutineInv'
    BY <1>1, ProcsFacts, ConstFacts DEF ReceiveMessage, Goto, EntryType,
       ProcType, GoroutineInv, FeedLabels, TableExact
  <1>6. FreshInv'
    BY <1>1, ProcsFacts, Zenon DEF ReceiveMessage, Goto, ProcType, FreshInv
  <1>7. CloseInv'
    <2>1. \A q \in Procs : pc'[q] = "exit" => pc[q] = "exit" /\ cur'[q] = cur[q]
      BY <1>1, ProcsFacts, Zenon DEF ReceiveMessage, Goto, ProcType
    <2> QED BY <1>1, <2>1, CloseFrame, Zenon
  <1>8. ConnInv'
    BY <1>1, ProcsFacts, Zenon DEF ReceiveMessage, Goto, ProcType, ConnInv
  <1>9. DrainInv'
    BY <1>1, ProcsFacts, Zenon DEF ReceiveMessage, Goto, ProcType, DrainInv
  <1>10. IdleInv'
    <2>1. \A q \in Procs : pc'[q] \in {"close", "exit"} /\ errNil'[q] =>
            pc[q] \in {"close", "exit"} /\ errNil[q] /\ cur'[q] = cur[q]
      BY <1>1, ProcsFacts DEF ReceiveMessage, Goto, ProcType
    <2>2. \A x \in todo'[IdleLoop] : wasIdle[x]
      BY <1>1, Zenon DEF IdleInv
    <2> QED BY <1>1, <2>1, <2>2, IdleFrame, Zenon
  <1> QED BY <1>2, <1>3, <1>4, <1>5, <1>6, <1>7, <1>8, <1>9, <1>10, Zenon

\* The new entry is fresh, so the table stays exact.
LEMMA NewSessionStep ==
    ASSUME Inv, NewSession
    PROVE  Inv'
  <1> USE DEF Inv
  <1>1. UNCHANGED <<closed, conn, connLock, closeLog, override, original,
                aclCache, lastWrite, lastReply, held, msg, queue, target,
                wasIdle, draining, stopped, ioAlive, todo, errNil>>
    BY Zenon DEF NewSession, table, session, feeding, control, events
  <1>2. FeedType' /\ RouteType' /\ RouteInv' /\ RoutesRespected'
    BY <1>1, Zenon DEF FeedType, RouteType, RouteInv, RoutesRespected
  <1>3. ProcType'
    BY <1>1, ProcsFacts DEF NewSession, Goto, Touch, ProcType, Labels,
      GoroutineInv, FeedLabels
  <1>4. EntryType'
    BY <1>1, ConstFacts DEF NewSession, EntryType, GoroutineInv
  <1>5. TimeType'
    BY <1>1, ConstFacts DEF NewSession, Touch, TimeType
  <1>6. GoroutineInv'
    BY <1>1, ProcsFacts, ConstFacts DEF NewSession, Goto, EntryType, ProcType,
       GoroutineInv, FeedLabels
  <1>7. FreshInv'
    BY <1>1, ProcsFacts, ConstFacts DEF NewSession, Goto, EntryType, ProcType,
       FreshInv, GoroutineInv
  <1>8. TableExact'
    BY <1>1, ProcsFacts, ConstFacts DEF NewSession, EntryType, GoroutineInv,
       TableExact, FreshInv
  <1>9. CloseInv'
    <2>1. \A q \in Procs : pc'[q] = "exit" => pc[q] = "exit" /\ cur'[q] = cur[q]
      BY <1>1, ProcsFacts, Zenon DEF NewSession, Goto, Touch, ProcType
    <2> QED BY <1>1, <2>1, CloseFrame, Zenon
  <1>10. ConnInv'
    BY <1>1, ProcsFacts, Zenon DEF NewSession, Goto, Touch, ProcType, ConnInv
  <1>11. DrainInv'
    BY <1>1, ProcsFacts, Zenon DEF NewSession, Goto, ProcType, DrainInv
  <1>12. IdleInv'
    <2>1. \A q \in Procs : pc'[q] \in {"close", "exit"} /\ errNil'[q] =>
            pc[q] \in {"close", "exit"} /\ errNil[q] /\ cur'[q] = cur[q]
      BY <1>1, ProcsFacts, Zenon DEF NewSession, Goto, Touch, ProcType
    <2>2. \A x \in Entry : age'[x] > IdleTimeout => age[x] > IdleTimeout
      BY ConstFacts DEF NewSession, Goto, Touch, TimeType
    <2>3. \A x \in todo'[IdleLoop] : wasIdle[x]
      BY <1>1, Zenon DEF IdleInv
    <2> QED BY <1>1, <2>1, <2>2, <2>3, IdleFrame, Zenon
  <1> QED BY <1>2, <1>3, <1>4, <1>5, <1>6, <1>7, <1>8, <1>9, <1>10, <1>11,
      <1>12, Zenon

\* Feed refreshes Last and passes on only addresses of messages.
LEMMA FeedStep ==
    ASSUME Inv, Feed
    PROVE  Inv'
  <1> USE DEF Inv
  <1>1. UNCHANGED <<m, ID, closed, conn, connLock, closeLog, override,
                original, aclCache, lastWrite, lastReply, msg, target, wasIdle,
                draining, stopped, ioAlive, cur, todo, errNil>>
    BY Zenon DEF Feed, table, session, feeding, control, events
  <1>2. EntryType' /\ RouteType' /\ TableExact' /\ RouteInv' /\
        RoutesRespected'
    BY <1>1, Zenon DEF EntryType, RouteType, TableExact, RouteInv, RoutesRespected
  <1> DEFINE e == cur[RunLoop]
             out == DefraggerFeed(D[e], msg).out
  <1>0. e \in Entry /\ msg \in Messages /\ (out # NoMsg => out.Addr \in Addrs)
    BY FeedOut, ConstFacts DEF Feed, GoroutineInv, FeedLabels
  <1>3. ProcType'
    BY <1>1, ProcsFacts, Zenon DEF Feed, Goto, Touch, ProcType, Labels, GoroutineInv,
      FeedLabels
  <1>4. TimeType'
    BY <1>0, <1>1, ConstFacts DEF Feed, Touch, TimeType
  <1>5. FeedType'
    <2>1. ASSUME NEW a \in Addrs
          PROVE  /\ <<a>> \in Seq(Addrs)
                 /\ [held EXCEPT ![e] = Append(@, a)] \in [Entry -> Seq(Addrs)]
      <3>1. <<a>> \in Seq(Addrs)
        <4>1. <<a>> = [i \in 1..1 |-> a]
          OBVIOUS
        <4> QED BY <4>1
      <3>2. Append(held[e], a) \in Seq(Addrs)
        BY <1>0 DEF FeedType
      <3> QED BY <3>1, <3>2, ZenonT(30) DEF FeedType
    <2>2. held' \in [Entry -> Seq(Addrs)]
      BY <1>0, <2>1, ZenonT(30) DEF Feed, FeedType
    <2>3. queue' \in Seq(Addrs)
      BY <1>0, <2>1, ZenonT(30) DEF Feed, FeedType
    <2> QED BY <1>1, <2>2, <2>3, Zenon DEF FeedType
  <1>6. GoroutineInv'
    <2>1. pc'[RunLoop] = "write" => queue' # <<>>
      BY <1>0, ProcsFacts DEF Feed, Goto, ProcType
    <2>2. \A q \in Procs : q # RunLoop => pc'[q] = pc[q]
      BY Zenon DEF Feed, Goto, ProcType
    <2>3. pc'[RunLoop] \in {"recv", "write", "hook"}
      BY ProcsFacts, Zenon DEF Feed, Goto, ProcType
    <2> QED BY <1>0, <1>1, <2>1, <2>2, <2>3, ProcsFacts, ZenonT(30) DEF GoroutineInv,
       FeedLabels, Feed
  <1>7. FreshInv'
    BY <1>1, ProcsFacts, Zenon DEF Feed, Goto, Touch, ProcType, FreshInv
  <1>8. CloseInv'
    <2>1. \A q \in Procs : pc'[q] = "exit" => pc[q] = "exit" /\ cur'[q] = cur[q]
      BY <1>1, ProcsFacts, Zenon DEF Feed, Goto, Touch, ProcType
    <2> QED BY <1>1, <2>1, CloseFrame, Zenon
  <1>9. ConnInv'
    BY <1>0, <1>1, ProcsFacts DEF Feed, Goto, Touch, ProcType, FeedType, ConnInv
  <1>10. DrainInv'
    BY <1>1, ProcsFacts, Zenon DEF Feed, Goto, Touch, ProcType, DrainInv
  <1>11. IdleInv'
    <2>1. \A q \in Procs : pc'[q] \in {"close", "exit"} /\ errNil'[q] =>
            pc[q] \in {"close", "exit"} /\ errNil[q] /\ cur'[q] = cur[q]
      BY <1>1, ProcsFacts, Zenon DEF Feed, Goto, Touch, ProcType
    <2>2. \A x \in Entry : age'[x] > IdleTimeout => age[x] > IdleTimeout
      BY <1>0, ConstFacts DEF Feed, Goto, Touch, TimeType
    <2>3. \A x \in todo'[IdleLoop] : wasIdle[x]
      BY <1>1, Zenon DEF IdleInv
    <2> QED BY <1>1, <2>1, <2>2, <2>3, IdleFrame, Zenon
  <1> QED BY <1>2, <1>3, <1>4, <1>5, <1>6, <1>7, <1>8, <1>9, <1>10, <1>11, Zenon

\* A failing hook closes the entry that is being fed.
LEMMA HookFailsStep ==
    ASSUME Inv, HookFails
    PROVE  Inv'
  <1> USE DEF Inv
  <1>1. UNCHANGED <<m, ID, closed, conn, connLock, closeLog, override,
                original, aclCache, lastWrite, lastReply, held, msg, queue,
                target, age, wasIdle, draining, stopped, ioAlive, todo>>
    BY Zenon DEF HookFails, table, session, feeding, control, events
  <1>2. EntryType' /\ TimeType' /\ FeedType' /\ RouteType' /\ TableExact' /\
        RouteInv' /\ RoutesRespected'
    BY <1>1 DEF EntryType, TimeType, FeedType, RouteType, TableExact, RouteInv,
      RoutesRespected
  <1>3. ProcType'
    BY <1>1, ProcsFacts, Zenon DEF HookFails, Goto, GotoClose, ProcType, Labels,
      GoroutineInv, FeedLabels
  <1>4. GoroutineInv'
    BY <1>1, ProcsFacts, Zenon DEF HookFails, Goto, GotoClose, ProcType, GoroutineInv,
      FeedLabels
  <1>5. FreshInv'
    BY <1>1, ProcsFacts, Zenon DEF HookFails, Goto, GotoClose, ProcType, FreshInv
  <1>6. CloseInv'
    <2>1. \A q \in Procs : pc'[q] = "exit" => pc[q] = "exit" /\ cur'[q] = cur[q]
      BY <1>1, ProcsFacts, Zenon DEF HookFails, Goto, GotoClose, ProcType
    <2> QED BY <1>1, <2>1, CloseFrame, Zenon
  <1>7. ConnInv'
    BY <1>1, ProcsFacts, Zenon DEF HookFails, Goto, GotoClose, ProcType, ConnInv
  <1>8. DrainInv'
    BY <1>1, ProcsFacts, Zenon DEF HookFails, Goto, GotoClose, ProcType, DrainInv
  <1>9. IdleInv'
    <2>1. \A q \in Procs : pc'[q] \in {"close", "exit"} /\ errNil'[q] =>
            pc[q] \in {"close", "exit"} /\ errNil[q] /\ cur'[q] = cur[q]
      BY <1>1, ProcsFacts, Zenon DEF HookFails, Goto, GotoClose, ProcType
    <2>2. \A x \in todo'[IdleLoop] : wasIdle[x]
      BY <1>1, Zenon DEF IdleInv
    <2> QED BY <1>1, <2>1, <2>2, IdleFrame, Zenon
  <1> QED BY <1>2, <1>3, <1>4, <1>5, <1>6, <1>7, <1>8, <1>9, Zenon

\* The hook settles on an address and touches no session.
LEMMA HookStep ==
    ASSUME Inv, Hook
    PROVE  Inv'
  <1> USE DEF Inv
  <1>1. UNCHANGED <<m, ID, closed, conn, connLock, closeLog, override,
                original, aclCache, lastWrite, lastReply, held, msg, queue,
                age, wasIdle, draining, stopped, ioAlive, cur, todo, errNil>>
    BY Zenon DEF Hook, table, session, feeding, control, events
  <1>2. EntryType' /\ TimeType' /\ RouteType' /\ TableExact' /\ RouteInv' /\
        RoutesRespected'
    BY <1>1, Zenon DEF EntryType, TimeType, RouteType, TableExact, RouteInv,
      RoutesRespected
  <1>3. ProcType'
    BY <1>1, ProcsFacts DEF Hook, Goto, ProcType, Labels, GoroutineInv,
      FeedLabels
  <1>4. FeedType'
    BY <1>1, ProcsFacts, Zenon DEF Hook, Goto, FeedType
  <1>5. GoroutineInv'
    BY <1>1, ProcsFacts DEF Hook, Goto, ProcType, GoroutineInv, FeedLabels
  <1>6. FreshInv'
    BY <1>1, ProcsFacts, Zenon DEF Hook, Goto, ProcType, FreshInv
  <1>7. CloseInv'
    <2>1. \A q \in Procs : pc'[q] = "exit" => pc[q] = "exit" /\ cur'[q] = cur[q]
      BY <1>1, ProcsFacts, Zenon DEF Hook, Goto, ProcType
    <2> QED BY <1>1, <2>1, CloseFrame, Zenon
  <1>8. ConnInv'
    BY <1>1, ProcsFacts, Zenon DEF Hook, Goto, ProcType, ConnInv
  <1>9. DrainInv'
    BY <1>1, ProcsFacts, Zenon DEF Hook, Goto, ProcType, DrainInv
  <1>10. IdleInv'
    <2>1. \A q \in Procs : pc'[q] \in {"close", "exit"} /\ errNil'[q] =>
            pc[q] \in {"close", "exit"} /\ errNil[q] /\ cur'[q] = cur[q]
      BY <1>1, ProcsFacts, Zenon DEF Hook, Goto, ProcType
    <2>2. \A x \in todo'[IdleLoop] : wasIdle[x]
      BY <1>1, Zenon DEF IdleInv
    <2> QED BY <1>1, <2>1, <2>2, IdleFrame, Zenon
  <1> QED BY <1>2, <1>3, <1>4, <1>5, <1>6, <1>7, <1>8, <1>9, <1>10, Zenon

-----------------------------------------------------------------------------
(***************************************************************************)
(* The steps of Run that open a session's connection and write to it       *)
(* preserve the invariant of ServerUDP.                                    *)
(***************************************************************************)

\* initConn takes connLock only of an entry that is not closed.
LEMMA InitConnStep ==
    ASSUME Inv, InitConn
    PROVE  Inv'
  <1> USE DEF Inv
  <1>1. UNCHANGED <<m, ID, closed, conn, closeLog, override, original,
                aclCache, lastWrite, lastReply, held, msg, queue, target, age,
                wasIdle, draining, stopped, ioAlive, cur, todo, errNil>>
    BY Zenon DEF InitConn, table, session, feeding, control, events
  <1>2. TimeType' /\ FeedType' /\ RouteType' /\ TableExact' /\ RouteInv' /\
        RoutesRespected'
    BY <1>1 DEF TimeType, FeedType, RouteType, TableExact, RouteInv,
      RoutesRespected
  <1>3. ProcType'
    BY <1>1, ProcsFacts DEF InitConn, Goto, SessionExited, ProcType, Labels,
      GoroutineInv, FeedLabels
  <1>4. EntryType'
    BY <1>1, ProcsFacts, ZenonT(30) DEF InitConn, Goto, SessionExited, EntryType,
      GoroutineInv, FeedLabels
  <1>5. GoroutineInv'
    BY <1>1, ProcsFacts DEF InitConn, Goto, SessionExited, ProcType,
      GoroutineInv, FeedLabels
  <1>6. FreshInv'
    BY <1>1, ProcsFacts DEF InitConn, Goto, SessionExited, ProcType, FreshInv
  <1>7. CloseInv'
    <2>1. \A q \in Procs : pc'[q] = "exit" => pc[q] = "exit" /\ cur'[q] = cur[q]
      BY <1>1, ProcsFacts DEF InitConn, Goto, SessionExited, ProcType
    <2> QED BY <1>1, <2>1, CloseFrame, Zenon
  <1>8. ConnInv'
    BY <1>1, ProcsFacts DEF InitConn, Goto, SessionExited, EntryType,
       ProcType, ConnInv, GoroutineInv, FeedLabels
  <1>9. DrainInv'
    BY <1>1, ProcsFacts DEF InitConn, Goto, SessionExited, ProcType, DrainInv
  <1>10. IdleInv'
    <2>1. \A q \in Procs : pc'[q] \in {"close", "exit"} /\ errNil'[q] =>
            pc[q] \in {"close", "exit"} /\ errNil[q] /\ cur'[q] = cur[q]
      BY <1>1, ProcsFacts DEF InitConn, Goto, SessionExited, ProcType
    <2>2. \A x \in todo'[IdleLoop] : wasIdle[x]
      BY <1>1, Zenon DEF IdleInv
    <2> QED BY <1>1, <2>1, <2>2, IdleFrame, Zenon
  <1> QED BY <1>2, <1>3, <1>4, <1>5, <1>6, <1>7, <1>8, <1>9, <1>10, Zenon

\* A failed dial releases connLock and closes the entry.
LEMMA DialFailsStep ==
    ASSUME Inv, DialFails
    PROVE  Inv'
  <1> USE DEF Inv
  <1>1. UNCHANGED <<m, ID, closed, conn, closeLog, override, original,
                aclCache, lastWrite, lastReply, held, msg, queue, target, age,
                wasIdle, draining, stopped, ioAlive, todo>>
    BY Zenon DEF DialFails, table, session, feeding, control, events
  <1>2. TimeType' /\ FeedType' /\ RouteType' /\ TableExact' /\ RouteInv' /\
        RoutesRespected'
    BY <1>1 DEF TimeType, FeedType, RouteType, TableExact, RouteInv,
      RoutesRespected
  <1>3. ProcType'
    BY <1>1, ProcsFacts, Zenon DEF DialFails, Goto, GotoClose, ProcType, Labels,
      GoroutineInv, FeedLabels
  <1>4. EntryType'
    BY <1>1, ProcsFacts, Zenon DEF DialFails, Goto, GotoClose, EntryType,
      GoroutineInv, FeedLabels
  <1>5. GoroutineInv'
    BY <1>1, ProcsFacts, Zenon DEF DialFails, Goto, GotoClose, ProcType, GoroutineInv,
      FeedLabels
  <1>6. FreshInv'
    BY <1>1, ProcsFacts, Zenon DEF DialFails, Goto, GotoClose, ProcType, FreshInv
  <1>7. CloseInv'
    <2>1. \A q \in Procs : pc'[q] = "exit" => pc[q] = "exit" /\ cur'[q] = cur[q]
      BY <1>1, ProcsFacts, Zenon DEF DialFails, Goto, GotoClose, ProcType
    <2> QED BY <1>1, <2>1, CloseFrame, Zenon
  <1>8. ConnInv'
    BY <1>1, ProcsFacts, Zenon DEF DialFails, Goto, GotoClose, ProcType, ConnInv
  <1>9. DrainInv'
    BY <1>1, ProcsFacts, Zenon DEF DialFails, Goto, GotoClose, ProcType, DrainInv
  <1>10. IdleInv'
    <2>1. \A q \in Procs : pc'[q] \in {"close", "exit"} /\ errNil'[q] =>
            pc[q] \in {"close", "exit"} /\ errNil[q] /\ cur'[q] = cur[q]
      BY <1>1, ProcsFacts, Zenon DEF DialFails, Goto, GotoClose, ProcType
    <2>2. \A x \in todo'[IdleLoop] : wasIdle[x]
      BY <1>1, Zenon DEF IdleInv
    <2> QED BY <1>1, <2>1, <2>2, IdleFrame, Zenon
  <1> QED BY <1>2, <1>3, <1>4, <1>5, <1>6, <1>7, <1>8, <1>9, <1>10, Zenon

\* The connection is opened under connLock, and the session's
\* addresses are settled before the first write.
LEMMA DialSucceedsStep ==
    ASSUME Inv, DialSucceeds
    PROVE  Inv'
  <1> USE DEF Inv
  <1>1. UNCHANGED <<m, ID, closed, closeLog, lastWrite, lastReply, msg, target,
                age, wasIdle, draining, stopped, ioAlive, todo, errNil>>
    BY Zenon DEF DialSucceeds, table, session, feeding, control, events
  <1>2. TimeType' /\ TableExact'
    BY <1>1, Zenon DEF TimeType, TableExact
  <1> DEFINE e == cur[RunLoop]
             first == Head(held[e])
  <1>0. e \in Entry /\ ID[e] # Nil /\ first \in Addrs /\ target \in Addrs
    BY DEF DialSucceeds, GoroutineInv, FeedLabels, ConnInv, FeedType
  <1>3. ProcType'
    BY <1>0, <1>1, ProcsFacts, Zenon DEF DialSucceeds, ProcType, Labels
  <1>4. EntryType'
    BY <1>0, <1>1, ProcsFacts, Zenon DEF DialSucceeds, EntryType
  <1>5. FeedType'
    BY <1>0, <1>1 DEF DialSucceeds, FeedType
  <1>6. RouteType'
    <2>1. /\ override' \in [Entry -> Addrs \cup {NoAddr}]
          /\ original' \in [Entry -> Addrs \cup {NoAddr}]
      BY <1>0, Zenon DEF DialSucceeds, RouteType
    <2>2. aclCache' \in [Entry -> Decisions]
      BY <1>0, SmallDecisions, ZenonT(30) DEF DialSucceeds, RouteType
    <2> QED BY <1>1, <2>1, <2>2, Zenon DEF RouteType
  <1>7. GoroutineInv'
    <2>1. \A q \in Procs : pc'[q] \in {"close", "exit"} =>
            pc[q] \in {"close", "exit"} /\ cur'[q] = cur[q]
      BY <1>0, ProcsFacts, Zenon DEF DialSucceeds, ProcType
    <2>2. pc'[RunLoop] = "write" /\ cur'[RunLoop] = e /\ queue' # <<>>
      BY <1>0, ProcsFacts, Zenon DEF DialSucceeds, ProcType, ConnInv
    <2> QED BY <1>0, <1>1, <2>1, <2>2, Zenon DEF GoroutineInv
  <1>8. FreshInv'
    BY <1>0, <1>1, ProcsFacts DEF DialSucceeds, EntryType, ProcType, FreshInv
  <1>9. CloseInv'
    <2>1. \A q \in Procs : pc'[q] = "exit" => pc[q] = "exit" /\ cur'[q] = cur[q]
      BY <1>0, <1>1, ProcsFacts, Zenon DEF DialSucceeds, ProcType
    <2> QED BY <1>1, <2>1, CloseFrame, Zenon
  <1>10. ConnInv'
    BY <1>0, <1>1, ProcsFacts DEF DialSucceeds, EntryType, ProcType, ConnInv
  <1>11. DrainInv'
    BY <1>0, <1>1, ProcsFacts, Zenon DEF DialSucceeds, ProcType, DrainInv
  <1>12. IdleInv'
    <2>1. \A q \in Procs : pc'[q] \in {"close", "exit"} /\ errNil'[q] =>
            pc[q] \in {"close", "exit"} /\ errNil[q] /\ cur'[q] = cur[q]
      BY <1>0, <1>1, ProcsFacts, Zenon DEF DialSucceeds, ProcType
    <2>2. \A x \in todo'[IdleLoop] : wasIdle[x]
      BY <1>1, Zenon DEF IdleInv
    <2> QED BY <1>1, <2>1, <2>2, IdleFrame, Zenon
  <1>13. RouteInv'
    <2>1. ASSUME NEW x \in Entry
          PROVE  \A a \in DOMAIN aclCache'[x] : aclCache'[x][a] => a \in Allowed
      BY <1>0 DEF DialSucceeds, RouteType, RouteInv
    <2>2. ASSUME NEW x \in Entry
          PROVE  override'[x] = NoAddr <=> original'[x] = NoAddr
      BY <1>0, ConstFacts, Zenon DEF DialSucceeds, RouteType, RouteInv
    <2>3. /\ lastWrite # Nil => lastWrite[1] \in Entry /\ conn'[lastWrite[1]] # "nil"
          /\ lastReply # Nil => lastReply[1] \in Entry /\ conn'[lastReply[1]] # "nil"
      BY <1>0, Zenon DEF DialSucceeds, RouteType, EntryType, RouteInv
    <2> QED BY <1>1, <2>1, <2>2, <2>3, Zenon DEF RouteInv
  <1>14. RoutesRespected'
    <2>1. conn[e] = "nil"
      BY Zenon DEF DialSucceeds, ConnInv
    <2>2. \A x \in Entry : x # e => override'[x] = override[x] /\ original'[x] = original[x]
      BY Zenon DEF DialSucceeds, RouteType
    <2>3. /\ lastWrite # Nil => lastWrite[1] \in Entry /\ lastWrite[1] # e
          /\ lastReply # Nil => lastReply[1] \in Entry /\ lastReply[1] # e
      BY <2>1, Zenon DEF RouteInv, RouteType
    <2> QED BY <1>1, <2>2, <2>3, Zenon DEF RoutesRespected
  <1> QED BY <1>2, <1>3, <1>4, <1>5, <1>6, <1>7, <1>8, <1>9, <1>10, <1>11,
      <1>12, <1>13, <1>14, Zenon

\* A write goes where the override, or the policy, says.
LEMMA WriteStep ==
    ASSUME Inv, Write
    PROVE  Inv'
  <1> USE DEF Inv
  <1>1. UNCHANGED <<m, ID, closed, conn, connLock, closeLog, override,
                original, lastReply, held, msg, target, age, wasIdle, draining,
                stopped, ioAlive, cur, todo, errNil>>
    BY Zenon DEF Write, table, session, feeding, control, events
  <1>2. EntryType' /\ TimeType' /\ TableExact'
    BY <1>1, Zenon DEF EntryType, TimeType, TableExact
  <1> DEFINE e == cur[RunLoop]
             addr == WriteAddr(e, Head(queue))
             permitted == override[e] # NoAddr \/ Permits(e, addr)
  <1>0. /\ e \in Entry /\ queue # <<>> /\ conn[e] # "nil"
        /\ Head(queue) \in Addrs /\ addr \in Addrs
        /\ Tail(queue) \in Seq(Addrs)
        /\ Len(queue) # 1 => Tail(queue) # <<>>
    <2>1. e \in Entry /\ queue # <<>> /\ queue \in Seq(Addrs) /\ conn[e] # "nil"
      BY Zenon DEF Write, GoroutineInv, FeedLabels, FeedType, ConnInv
    <2>2. Head(queue) \in Addrs /\ Tail(queue) \in Seq(Addrs)
      BY <2>1
    <2>3. Len(queue) # 1 => Tail(queue) # <<>>
      <3>1. Len(queue) # 0 /\ Len(Tail(queue)) = Len(queue) - 1
        BY <2>1
      <3>2. Len(queue) \in Nat /\ Len(<<>>) = 0
        BY <2>1
      <3> QED BY <3>1, <3>2
    <2>4. addr \in Addrs
      BY <2>1, <2>2, Zenon DEF RouteType, WriteAddr
    <2> QED BY <2>1, <2>2, <2>3, <2>4, Zenon
  <1>a. \/ UNCHANGED aclCache
        \/ \E c \in CacheWith(aclCache[e], addr) : aclCache' = [aclCache EXCEPT ![e] = c]
    BY Zenon DEF Write
  <1>b. \/ UNCHANGED lastWrite
        \/ permitted /\ lastWrite' = <<e, addr>>
    BY Zenon DEF Write
  <1>c. \/ /\ pc' = [pc EXCEPT ![RunLoop] = "write"]
           /\ queue' = Tail(queue) /\ Len(queue) # 1
        \/ /\ pc' = [pc EXCEPT ![RunLoop] = "recv"]
           /\ queue' = Tail(queue) \/ queue' = <<>>
    BY Zenon DEF Write, Goto
  <1>d. \A q \in Procs : q # RunLoop => pc'[q] = pc[q]
    BY <1>c, Zenon DEF ProcType
  <1>e. pc[RunLoop] = "write" /\ pc'[RunLoop] \in {"write", "recv"}
    BY <1>c, ProcsFacts, Zenon DEF Write, ProcType
  <1>3. ProcType'
    BY <1>1, <1>c, Zenon DEF ProcType, Labels
  <1>4. FeedType'
    <2>1. queue' = Tail(queue) \/ queue' = <<>>
      BY <1>c, Zenon
    <2>2. <<>> \in Seq(Addrs)
      OBVIOUS
    <2>3. queue' \in Seq(Addrs)
      BY <1>0, <2>1, <2>2, Zenon
    <2> QED BY <1>1, <2>3, Zenon DEF FeedType
  <1>5. RouteType'
    <2>1. aclCache' \in [Entry -> Decisions]
      BY <1>0, <1>a, CacheWithFacts DEF RouteType, RouteInv
    <2>2. lastWrite' \in {Nil} \cup (Entry \X Addrs)
      BY <1>0, <1>b DEF RouteType
    <2> QED BY <1>1, <2>1, <2>2, Zenon DEF RouteType
  <1>6. GoroutineInv'
    <2>1. pc'[RunLoop] = "write" => queue' # <<>>
      BY <1>0, <1>c, ProcsFacts, Zenon DEF ProcType
    <2> QED BY <1>0, <1>1, <1>d, <1>e, <2>1, ZenonT(30) DEF GoroutineInv, FeedLabels
  <1>7. FreshInv'
    BY <1>1, <1>d, ProcsFacts, Zenon DEF FreshInv
  <1>8. CloseInv'
    <2>1. \A q \in Procs : pc'[q] = "exit" => pc[q] = "exit" /\ cur'[q] = cur[q]
      BY <1>1, <1>d, <1>e, Zenon
    <2> QED BY <1>1, <2>1, CloseFrame, Zenon
  <1>9. ConnInv'
    BY <1>1, <1>e, Zenon DEF ConnInv
  <1>10. DrainInv'
    BY <1>1, <1>e, Zenon DEF DrainInv
  <1>11. IdleInv'
    <2>1. \A q \in Procs : pc'[q] \in {"close", "exit"} /\ errNil'[q] =>
            pc[q] \in {"close", "exit"} /\ errNil[q] /\ cur'[q] = cur[q]
      BY <1>1, <1>d, <1>e, Zenon
    <2>2. \A x \in todo'[IdleLoop] : wasIdle[x]
      BY <1>1, Zenon DEF IdleInv
    <2> QED BY <1>1, <2>1, <2>2, IdleFrame, Zenon
  <1>12. RouteInv'
    <2>1. ASSUME NEW x \in Entry
          PROVE  \A a \in DOMAIN aclCache'[x] : aclCache'[x][a] => a \in Allowed
      <3>1. CASE UNCHANGED aclCache
        BY <3>1, Zenon DEF RouteInv
      <3>2. CASE \E c \in CacheWith(aclCache[e], addr) :
                   aclCache' = [aclCache EXCEPT ![e] = c]
        <4>1. PICK c \in CacheWith(aclCache[e], addr) :
                     aclCache' = [aclCache EXCEPT ![e] = c]
          BY <3>2, ZenonT(30)
        <4>2. \A a \in DOMAIN c : c[a] => a \in Allowed
          BY <1>0, CacheWithFacts, Zenon DEF RouteType, RouteInv
        <4>3. aclCache'[x] = IF x = e THEN c ELSE aclCache[x]
          BY <4>1, Zenon DEF RouteType
        <4> QED BY <4>2, <4>3, Zenon DEF RouteInv
      <3> QED BY <1>a, <3>1, <3>2, Zenon
    <2>2. lastWrite' # Nil => conn[lastWrite'[1]] # "nil"
      BY <1>0, <1>b DEF RouteInv
    <2> QED BY <1>1, <2>1, <2>2, Zenon DEF RouteInv
  <1>13. RoutesRespected'
    <2>1. permitted => addr = override[e] \/ (override[e] = NoAddr /\ addr \in Allowed)
      BY <1>0, Zenon DEF WriteAddr, Permits, RouteInv
    <2> QED BY <1>1, <1>b, <2>1 DEF RoutesRespected
  <1> QED BY <1>2, <1>3, <1>4, <1>5, <1>6, <1>7, <1>8, <1>9, <1>10, <1>11,
      <1>12, <1>13, Zenon

-----------------------------------------------------------------------------
(***************************************************************************)
(* Steps that close sessions                                               *)
(***************************************************************************)

\* cleanup(false) takes every session that is not closed yet.
LEMMA ReceiveFailsStep ==
    ASSUME Inv, ReceiveFails
    PROVE  Inv'
  <1> USE DEF Inv
  <1>1. UNCHANGED <<m, ID, closed, conn, connLock, closeLog, override,
                original, aclCache, lastWrite, lastReply, held, msg, queue,
                target, age, wasIdle, stopped, cur, errNil>>
    BY Zenon DEF ReceiveFails, table, session, feeding, control, events
  <1>2. EntryType' /\ FeedType' /\ RouteType' /\ TableExact' /\ RouteInv' /\
        RoutesRespected'
    BY <1>1, Zenon DEF EntryType, FeedType, RouteType, TableExact, RouteInv,
      RoutesRespected
  <1>3. ProcType'
    BY <1>1, SnapshotFacts, ProcsFacts, ZenonT(30) DEF ReceiveFails, Goto,
       ProcType, Labels
  <1>4. TimeType'
    BY <1>1, ProcsFacts, ZenonT(30) DEF ReceiveFails, Goto, TimeType
  <1>5. GoroutineInv'
    BY <1>1, SnapshotFacts, ProcsFacts, ZenonT(30) DEF ReceiveFails, Goto, ProcType,
       GoroutineInv, FeedLabels
  <1>6. FreshInv'
    BY <1>1, ProcsFacts, Zenon DEF ReceiveFails, Goto, ProcType, FreshInv
  <1>7. CloseInv'
    <2>1. \A q \in Procs : pc'[q] = "exit" => pc[q] = "exit" /\ cur'[q] = cur[q]
      BY <1>1, ProcsFacts, Zenon DEF ReceiveFails, Goto, ProcType
    <2> QED BY <1>1, <2>1, CloseFrame, Zenon
  <1>8. ConnInv'
    BY <1>1, ProcsFacts, Zenon DEF ReceiveFails, Goto, ProcType, ConnInv
  <1>9. DrainInv'
    BY <1>1, ProcsFacts DEF ReceiveFails, Goto, Snapshot, ProcType, EntryType,
       DrainInv, TableExact, CloseInv
  <1>10. IdleInv'
    BY <1>1, ProcsFacts, ZenonT(30) DEF ReceiveFails, Goto, ProcType, IdleInv,
       DrainInv
  <1> QED BY <1>2, <1>3, <1>4, <1>5, <1>6, <1>7, <1>8, <1>9, <1>10, Zenon

\* Run returns when nothing is left to close.
LEMMA RunReturnsStep ==
    ASSUME Inv, RunReturns
    PROVE  Inv'
  <1> USE DEF Inv
  <1>1. UNCHANGED <<m, ID, closed, conn, connLock, closeLog, override,
                original, aclCache, lastWrite, lastReply, held, msg, queue,
                target, age, wasIdle, draining, ioAlive, cur, todo, errNil>>
    BY Zenon DEF RunReturns, table, session, feeding, control, events
  <1>2. EntryType' /\ FeedType' /\ RouteType' /\ TableExact' /\ RouteInv' /\
        RoutesRespected'
    BY <1>1, Zenon DEF EntryType, FeedType, RouteType, TableExact, RouteInv,
      RoutesRespected
  <1>3. ProcType'
    BY <1>1, ProcsFacts, Zenon DEF RunReturns, Goto, ProcType, Labels, GoroutineInv,
      FeedLabels
  <1>4. TimeType'
    BY <1>1, ProcsFacts, Zenon DEF RunReturns, Goto, TimeType
  <1>5. GoroutineInv'
    BY <1>1, ProcsFacts, Zenon DEF RunReturns, Goto, ProcType, GoroutineInv,
      FeedLabels
  <1>6. FreshInv'
    BY <1>1, ProcsFacts, Zenon DEF RunReturns, Goto, ProcType, FreshInv
  <1>7. CloseInv'
    <2>1. \A q \in Procs : pc'[q] = "exit" => pc[q] = "exit" /\ cur'[q] = cur[q]
      BY <1>1, ProcsFacts, Zenon DEF RunReturns, Goto, ProcType
    <2> QED BY <1>1, <2>1, CloseFrame, Zenon
  <1>8. ConnInv'
    BY <1>1, ProcsFacts, Zenon DEF RunReturns, Goto, ProcType, ConnInv
  <1>9. DrainInv'
    BY <1>1, ProcsFacts DEF RunReturns, Goto, ProcType, DrainInv
  <1>10. IdleInv'
    <2>1. \A q \in Procs : pc'[q] \in {"close", "exit"} /\ errNil'[q] =>
            pc[q] \in {"close", "exit"} /\ errNil[q] /\ cur'[q] = cur[q]
      BY <1>1, ProcsFacts, Zenon DEF RunReturns, Goto, ProcType
    <2>2. \A x \in todo'[IdleLoop] : wasIdle[x]
      BY <1>1, Zenon DEF IdleInv
    <2> QED BY <1>1, <2>1, <2>2, IdleFrame, Zenon
  <1> QED BY <1>2, <1>3, <1>4, <1>5, <1>6, <1>7, <1>8, <1>9, <1>10, Zenon

\* cleanup closes only entries of its snapshot.
LEMMA CleanupNextStep ==
    ASSUME Inv, NEW p \in {RunLoop, IdleLoop}, CleanupNext(p)
    PROVE  Inv'
  <1> USE DEF Inv
  <1>1. UNCHANGED <<m, ID, closed, conn, connLock, closeLog, override,
                original, aclCache, lastWrite, lastReply, held, msg, queue,
                target, age, wasIdle, draining, stopped, ioAlive>>
    BY Zenon DEF CleanupNext, table, session, feeding, control, events
  <1>2. EntryType' /\ TimeType' /\ FeedType' /\ RouteType' /\ TableExact' /\
        RouteInv' /\ RoutesRespected'
    BY <1>1 DEF EntryType, TimeType, FeedType, RouteType, TableExact, RouteInv,
      RoutesRespected
  <1>0. PICK e \in todo[p] :
          todo' = [todo EXCEPT ![p] = @ \ {e}] /\ GotoClose(p, e, TRUE)
    BY ZenonT(30) DEF CleanupNext
  <1>a. p \in Procs /\ e \in Entry /\ ID[e] # Nil /\ pc[p] = "cleanup"
    BY ProcsFacts DEF CleanupNext, ProcType, GoroutineInv
  <1>b. \A q \in Procs : IF q = p THEN pc'[q] = "close" /\ cur'[q] = e
                                  ELSE pc'[q] = pc[q] /\ cur'[q] = cur[q]
    BY <1>0, Zenon DEF ProcType, GotoClose, Goto
  <1>3. ProcType'
    <2>1. pc' \in [Procs -> Labels] /\ cur' \in [Procs -> Entry \cup {Nil}]
      BY <1>0, <1>a, Zenon DEF GotoClose, Goto, ProcType, Labels
    <2>2. todo' \in [Procs -> SUBSET Entry] /\ errNil' \in [Procs -> BOOLEAN]
      BY <1>0, <1>a, Zenon DEF GotoClose, ProcType
    <2> QED BY <2>1, <2>2, Zenon DEF ProcType
  <1>4. GoroutineInv'
    BY <1>0, <1>1, <1>a, <1>b, ProcsFacts DEF ProcType, GoroutineInv, FeedLabels
  <1>5. FreshInv'
    BY <1>1, <1>b, ProcsFacts, Zenon DEF FreshInv
  <1>6. CloseInv'
    <2>1. \A q \in Procs : pc'[q] = "exit" => pc[q] = "exit" /\ cur'[q] = cur[q]
      BY <1>b, Zenon
    <2> QED BY <1>1, <2>1, CloseFrame, Zenon
  <1>7. ConnInv'
    BY <1>1, <1>b, ProcsFacts, Zenon DEF ConnInv
  <1>8. DrainInv'
    BY <1>0, <1>1, <1>a, <1>b, ProcsFacts, Zenon DEF ProcType, DrainInv
  <1>9. IdleInv'
    <2>1. p = RunLoop => draining
      BY <1>a, Zenon DEF DrainInv
    <2>2. p = IdleLoop => wasIdle[e]
      BY Zenon DEF IdleInv
    <2>3. \A q \in Procs : pc'[q] \in {"close", "exit"} /\ errNil'[q] =>
            \/ wasIdle[cur'[q]] \/ draining
            \/ pc[q] \in {"close", "exit"} /\ errNil[q] /\ cur'[q] = cur[q]
      BY <1>0, <1>b, <2>1, <2>2, Zenon DEF GotoClose, ProcType
    <2>4. \A x \in todo'[IdleLoop] : wasIdle[x]
      BY <1>0, ProcsFacts, Zenon DEF IdleInv, ProcType
    <2> QED BY <1>1, <2>3, <2>4, IdleFrame, Zenon
  <1> QED BY <1>2, <1>3, <1>4, <1>5, <1>6, <1>7, <1>8, <1>9, Zenon

\* Of the goroutines that close an entry one goes on to ExitFunc.
LEMMA CloseWithErrStep ==
    ASSUME Inv, NEW p \in Procs, CloseWithErr(p)
    PROVE  Inv'
  <1> USE DEF Inv
  <1>1. UNCHANGED <<m, ID, connLock, closeLog, override, original, aclCache,
                lastWrite, lastReply, held, msg, queue, target, age, wasIdle,
                draining, stopped, ioAlive, cur, todo, errNil>>
    BY Zenon DEF CloseWithErr, table, session, feeding, control, events
  <1>2. TimeType' /\ FeedType' /\ RouteType' /\ TableExact' /\
        RoutesRespected'
    BY <1>1 DEF TimeType, FeedType, RouteType, TableExact, RoutesRespected
  <1>0. cur[p] \in Entry /\ ID[cur[p]] # Nil
    BY Zenon DEF CloseWithErr, GoroutineInv
  <1>3. ProcType'
    BY <1>1, ProcsFacts DEF CloseWithErr, Goto, AfterClose, AlreadyClosed,
      ProcType, Labels, GoroutineInv, FeedLabels
  <1>4. EntryType'
    BY <1>0, <1>1, ZenonT(30) DEF CloseWithErr, Goto, AfterClose,
       AlreadyClosed, EntryType
  <1>5. GoroutineInv'
    <2>1. \A q \in Procs : pc'[q] = pc[q] \/ (q = p /\ pc'[q] \in {"exit",
       "recv", "cleanup", "done"})
      BY Zenon DEF CloseWithErr, Goto, AfterClose, AlreadyClosed, ProcType
    <2> QED BY <1>0, <1>1, <2>1, ProcsFacts, ZenonT(30) DEF GoroutineInv, FeedLabels
  <1>6. FreshInv'
    BY <1>0, <1>1, ProcsFacts DEF CloseWithErr, Goto, AfterClose,
       AlreadyClosed, EntryType, ProcType, FreshInv
  <1>7. CloseInv'
    <2>1. CASE closed[cur[p]]
      <3>1. \A q \in Procs : pc'[q] = "exit" => pc[q] = "exit" /\ cur'[q] = cur[q]
        BY <1>1, <2>1, Zenon DEF CloseWithErr, Goto, AfterClose, AlreadyClosed, ProcType
      <3>2. UNCHANGED <<closed, closeLog>>
        BY <1>1, <2>1, Zenon DEF CloseWithErr, AlreadyClosed
      <3> QED BY <3>1, <3>2, CloseFrame, Zenon
    <2>2. CASE ~closed[cur[p]]
      <3>1. closeLog[cur[p]] = <<>>
        BY <1>0, <2>2, Zenon DEF CloseInv
      <3>2. \A q \in Procs : pc'[q] = "exit" => q = p \/ (pc[q] = "exit" /\ cur[q] # cur[p])
        BY <2>2, Zenon DEF CloseWithErr, Goto, AfterClose, AlreadyClosed, ProcType,
           CloseInv
      <3>3. \A x \in Entry : closed[x] => closed'[x]
        BY <2>2, Zenon DEF CloseWithErr, AlreadyClosed, EntryType
      <3>4. closed'[cur[p]]
        BY <1>0, <2>2, Zenon DEF CloseWithErr, AlreadyClosed, EntryType
      <3>5. \A x \in Entry : Len(closeLog[x]) <= 1 /\ (closeLog[x] # <<>> => closed'[x])
        BY <3>3, Zenon DEF CloseInv
      <3>6. \A q \in Procs : pc'[q] = "exit" => closed'[cur[q]] /\ closeLog[cur[q]] = <<>>
        BY <3>1, <3>2, <3>3, <3>4, Zenon DEF CloseInv, GoroutineInv
      <3>7. \A q, r \in Procs :
              pc'[q] = "exit" /\ pc'[r] = "exit" /\ cur[q] = cur[r] => q = r
        BY <3>2, Zenon DEF CloseInv
      <3> QED BY <1>1, <3>5, <3>6, <3>7, ZenonT(30) DEF CloseInv
    <2> QED BY <2>1, <2>2, Zenon
  <1>8. ConnInv'
    <2>1. pc[RunLoop] = "dial" => cur[RunLoop] # cur[p]
      BY ProcsFacts, Zenon DEF CloseWithErr, ConnInv
    <2>2. p = RunLoop => pc'[RunLoop] \notin {"hook", "init", "dial", "write"}
      BY ProcsFacts DEF CloseWithErr, Goto, AfterClose, AlreadyClosed, ProcType
    <2>3. \A x \in Entry : /\ x # cur[p] => closed'[x] = closed[x] /\ conn'[x] = conn[x]
                           /\ conn[x] = "nil" <=> conn'[x] = "nil"
                           /\ closed'[x] => conn'[x] # "open"
      BY <1>0 DEF CloseWithErr, AlreadyClosed, EntryType, ConnInv
    <2>4. p # RunLoop => pc'[RunLoop] = pc[RunLoop]
      BY ProcsFacts DEF CloseWithErr, Goto, AfterClose, AlreadyClosed, ProcType
    <2> QED BY <1>1, <2>1, <2>2, <2>3, <2>4, Zenon DEF ConnInv, GoroutineInv, FeedLabels
  <1>9. DrainInv'
    <2>1. p # RunLoop => pc'[RunLoop] = pc[RunLoop]
      BY ProcsFacts, Zenon DEF CloseWithErr, Goto, AfterClose, AlreadyClosed, ProcType
    <2>2. p = RunLoop =>
            pc'[RunLoop] = IF ~closed[cur[p]] THEN "exit"
                           ELSE IF draining THEN "cleanup" ELSE "recv"
      BY ProcsFacts DEF CloseWithErr, Goto, AfterClose, AlreadyClosed, ProcType
    <2>3. \A x \in Entry : closed'[x] <=> closed[x] \/ x = cur[p]
      BY <1>0, Zenon DEF CloseWithErr, AlreadyClosed, EntryType
    <2> QED BY <1>1, <2>1, <2>2, <2>3, Zenon DEF DrainInv
  <1>10. IdleInv'
    <2>1. \A q \in Procs : pc'[q] \in {"close", "exit"} => pc[q] \in {"close",
       "exit"}
      BY DEF CloseWithErr, Goto, AfterClose, AlreadyClosed, ProcType
    <2>2. \A x \in todo'[IdleLoop] : wasIdle[x]
      BY <1>1, Zenon DEF IdleInv
    <2> QED BY <1>1, <2>1, <2>2, IdleFrame, Zenon
  <1>11. RouteInv'
    <2>1. \A x \in Entry : conn[x] # "nil" => conn'[x] # "nil"
      BY <1>0, Zenon DEF CloseWithErr, AlreadyClosed, EntryType
    <2>2. /\ lastWrite # Nil => lastWrite[1] \in Entry
          /\ lastReply # Nil => lastReply[1] \in Entry
      BY Zenon DEF RouteType
    <2> QED BY <1>1, <2>1, <2>2, Zenon DEF RouteInv
  <1> QED BY <1>2, <1>3, <1>4, <1>5, <1>6, <1>7, <1>8, <1>9, <1>10, <1>11, Zenon

\* ExitFunc removes the entry that its goroutine closed.
LEMMA ExitFuncStep ==
    ASSUME Inv, NEW p \in Procs, ExitFunc(p)
    PROVE  Inv'
  <1> USE DEF Inv
  <1>1. UNCHANGED <<ID, closed, conn, connLock, override, original, aclCache,
                lastWrite, lastReply, held, msg, queue, target, age, wasIdle,
                draining, stopped, ioAlive, cur, todo, errNil>>
    BY Zenon DEF ExitFunc, table, session, feeding, control, events
  <1>2. TimeType' /\ FeedType' /\ RouteType' /\ RouteInv' /\ RoutesRespected'
    BY <1>1 DEF TimeType, FeedType, RouteType, RouteInv, RoutesRespected
  <1>0. /\ cur[p] \in Entry /\ ID[cur[p]] \in Sessions
        /\ closeLog[cur[p]] = <<>> /\ m[ID[cur[p]]] = cur[p]
    <2>1. pc[p] = "exit"
      BY Zenon DEF ExitFunc
    <2> QED BY <2>1 DEF GoroutineInv, CloseInv, EntryType, TableExact
  <1>a. /\ pc[p] = "exit"
        /\ pc' = [pc EXCEPT ![p] = AfterClose(p)]
        /\ m' = [m EXCEPT ![ID[cur[p]]] = Nil]
        /\ closeLog' = [closeLog EXCEPT ![cur[p]] = Append(@, errNil[p])]
    BY Zenon DEF ExitFunc, RemoveSession, Goto
  <1>b. \A q \in Procs : pc'[q] = IF q = p THEN AfterClose(p) ELSE pc[q]
    BY <1>a, Zenon DEF ProcType
  <1>c. AfterClose(p) \in {"recv", "cleanup", "done"}
    BY Zenon DEF AfterClose
  <1>d. /\ closeLog'[cur[p]] \in Seq(BOOLEAN) /\ Len(closeLog'[cur[p]]) = 1
        /\ closeLog'[cur[p]][1] = errNil[p]
        /\ \A x \in Entry : x # cur[p] => closeLog'[x] = closeLog[x]
    BY <1>0, <1>a DEF EntryType, ProcType
  <1>3. ProcType'
    BY <1>1, <1>a, <1>c, Zenon DEF ProcType, Labels
  <1>4. EntryType'
    BY <1>0, <1>1, <1>a, <1>d, ZenonT(30) DEF EntryType
  <1>5. GoroutineInv'
    <2>1. \A q \in Procs : pc'[q] = pc[q] \/ pc'[q] \in {"recv", "cleanup", "done"}
      BY <1>b, <1>c, Zenon
    <2>2. \A s \in Sessions : m[s] = Nil => m'[s] = Nil
      BY <1>a, Zenon DEF EntryType
    <2> QED BY <1>1, <2>1, <2>2, ProcsFacts, ConstFacts, Zenon DEF GoroutineInv, FeedLabels
  <1>6. FreshInv'
    <2>1. ASSUME NEW x \in Entry, ID[x] = Nil
          PROVE  x # cur[p] /\ x # p
      BY <1>0, <1>a, <2>1, ProcsFacts, Zenon DEF FreshInv
    <2> QED BY <1>1, <1>b, <1>d, <2>1, ProcsFacts, Zenon DEF FreshInv
  <1>7. TableExact'
    <2>1. closeLog'[cur[p]] # <<>>
      BY <1>d
    <2> QED BY <1>0, <1>1, <1>a, <1>d, <2>1, ProcsFacts DEF TableExact, EntryType
  <1>8. CloseInv'
    <2>1. \A q \in Procs : pc'[q] = "exit" => pc[q] = "exit" /\ cur[q] # cur[p]
      BY <1>a, <1>b, <1>c DEF CloseInv
    <2> QED BY <1>0, <1>1, <1>a, <1>d, <2>1 DEF CloseInv, GoroutineInv
  <1>9. ConnInv'
    BY <1>1, <1>b, <1>c, ProcsFacts, ZenonT(30) DEF ConnInv
  <1>10. DrainInv'
    BY <1>0, <1>1, <1>a, <1>b, ProcsFacts DEF DrainInv, AfterClose, CloseInv
  <1>11. IdleInv'
    <2>1. ASSUME NEW x \in Entry, NEW i \in 1..Len(closeLog'[x]), closeLog'[x][i]
          PROVE  wasIdle[x] \/ draining
      <3>1. CASE x = cur[p]
        <4>1. i = 1 /\ errNil[p]
          BY <1>d, <2>1, <3>1
        <4> QED BY <1>a, <3>1, <4>1, Zenon DEF IdleInv
      <3>2. CASE x # cur[p]
        BY <1>d, <2>1, <3>2, Zenon DEF IdleInv
      <3> QED BY <3>1, <3>2, Zenon
    <2>2. \A q \in Procs : pc'[q] \in {"close", "exit"} => pc[q] \in {"close",
       "exit"}
      BY <1>b, <1>c, Zenon
    <2> QED BY <1>1, <2>1, <2>2, ZenonT(30) DEF IdleInv
  <1> QED BY <1>2, <1>3, <1>4, <1>5, <1>6, <1>7, <1>8, <1>9, <1>10, <1>11, Zenon

\* cleanup(true) takes only entries that are idle.
LEMMA IdleScanStep ==
    ASSUME Inv, IdleScan
    PROVE  Inv'
  <1> USE DEF Inv
  <1>1. UNCHANGED <<m, ID, closed, conn, connLock, closeLog, override,
                original, aclCache, lastWrite, lastReply, held, msg, queue,
                target, age, wasIdle, draining, stopped, ioAlive, cur, errNil>>
    BY Zenon DEF IdleScan, table, session, feeding, control, events
  <1>2. EntryType' /\ TimeType' /\ FeedType' /\ RouteType' /\ TableExact' /\
        RouteInv' /\ RoutesRespected'
    BY <1>1 DEF EntryType, TimeType, FeedType, RouteType, TableExact, RouteInv,
      RoutesRespected
  <1>3. ProcType'
    BY <1>1, SnapshotFacts, ProcsFacts, ZenonT(30) DEF IdleScan, Goto,
       ProcType, Labels
  <1>4. GoroutineInv'
    BY <1>1, SnapshotFacts, ProcsFacts, ZenonT(30) DEF IdleScan, Goto, ProcType,
       GoroutineInv, FeedLabels
  <1>5. FreshInv'
    BY <1>1, ProcsFacts, Zenon DEF IdleScan, Goto, ProcType, FreshInv
  <1>6. CloseInv'
    <2>1. \A q \in Procs : pc'[q] = "exit" => pc[q] = "exit" /\ cur'[q] = cur[q]
      BY <1>1, ProcsFacts, Zenon DEF IdleScan, Goto, ProcType
    <2> QED BY <1>1, <2>1, CloseFrame, Zenon
  <1>7. ConnInv'
    BY <1>1, ProcsFacts, Zenon DEF IdleScan, Goto, ProcType, ConnInv
  <1>8. DrainInv'
    BY <1>1, ProcsFacts, Zenon DEF IdleScan, Goto, ProcType, DrainInv
  <1>9. IdleInv'
    <2>1. \A q \in Procs : pc'[q] \in {"close", "exit"} /\ errNil'[q] =>
            pc[q] \in {"close", "exit"} /\ errNil[q] /\ cur'[q] = cur[q]
      BY <1>1, ProcsFacts, Zenon DEF IdleScan, Goto, ProcType
    <2>2. \A x \in todo'[IdleLoop] : wasIdle[x]
      BY SnapshotFacts, ProcsFacts, ZenonT(30) DEF IdleScan, ProcType, IdleInv
    <2> QED BY <1>1, <2>1, <2>2, IdleFrame, Zenon
  <1> QED BY <1>2, <1>3, <1>4, <1>5, <1>6, <1>7, <1>8, <1>9, Zenon

\* The idle loop goes back to its ticker.
LEMMA IdleScanDoneStep ==
    ASSUME Inv, IdleScanDone
    PROVE  Inv'
  <1> USE DEF Inv
  <1>1. UNCHANGED <<m, ID, closed, conn, connLock, closeLog, override,
                original, aclCache, lastWrite, lastReply, held, msg, queue,
                target, age, wasIdle, draining, stopped, ioAlive, cur, todo,
                errNil>>
    BY Zenon DEF IdleScanDone, table, session, feeding, control, events
  <1>2. EntryType' /\ TimeType' /\ FeedType' /\ RouteType' /\ TableExact' /\
        RouteInv' /\ RoutesRespected'
    BY <1>1 DEF EntryType, TimeType, FeedType, RouteType, TableExact, RouteInv,
      RoutesRespected
  <1>3. ProcType'
    BY <1>1, ProcsFacts, Zenon DEF IdleScanDone, Goto, ProcType, Labels, GoroutineInv,
      FeedLabels
  <1>4. GoroutineInv'
    BY <1>1, ProcsFacts, Zenon DEF IdleScanDone, Goto, ProcType, GoroutineInv,
      FeedLabels
  <1>5. FreshInv'
    BY <1>1, ProcsFacts, Zenon DEF IdleScanDone, Goto, ProcType, FreshInv
  <1>6. CloseInv'
    <2>1. \A q \in Procs : pc'[q] = "exit" => pc[q] = "exit" /\ cur'[q] = cur[q]
      BY <1>1, ProcsFacts, Zenon DEF IdleScanDone, Goto, ProcType
    <2> QED BY <1>1, <2>1, CloseFrame, Zenon
  <1>7. ConnInv'
    BY <1>1, ProcsFacts, Zenon DEF IdleScanDone, Goto, ProcType, ConnInv
  <1>8. DrainInv'
    BY <1>1, ProcsFacts, Zenon DEF IdleScanDone, Goto, ProcType, DrainInv
  <1>9. IdleInv'
    <2>1. \A q \in Procs : pc'[q] \in {"close", "exit"} /\ errNil'[q] =>
            pc[q] \in {"close", "exit"} /\ errNil[q] /\ cur'[q] = cur[q]
      BY <1>1, ProcsFacts, Zenon DEF IdleScanDone, Goto, ProcType
    <2>2. \A x \in todo'[IdleLoop] : wasIdle[x]
      BY <1>1, Zenon DEF IdleInv
    <2> QED BY <1>1, <2>1, <2>2, IdleFrame, Zenon
  <1> QED BY <1>2, <1>3, <1>4, <1>5, <1>6, <1>7, <1>8, <1>9, Zenon

\* The idle loop returns.
LEMMA IdleStopStep ==
    ASSUME Inv, IdleStop
    PROVE  Inv'
  <1> USE DEF Inv
  <1>1. UNCHANGED <<m, ID, closed, conn, connLock, closeLog, override,
                original, aclCache, lastWrite, lastReply, held, msg, queue,
                target, age, wasIdle, draining, stopped, ioAlive, cur, todo,
                errNil>>
    BY Zenon DEF IdleStop, table, session, feeding, control, events
  <1>2. EntryType' /\ TimeType' /\ FeedType' /\ RouteType' /\ TableExact' /\
        RouteInv' /\ RoutesRespected'
    BY <1>1, Zenon DEF EntryType, TimeType, FeedType, RouteType, TableExact, RouteInv,
      RoutesRespected
  <1>3. ProcType'
    BY <1>1, ProcsFacts DEF IdleStop, Goto, ProcType, Labels, GoroutineInv,
      FeedLabels
  <1>4. GoroutineInv'
    BY <1>1, ProcsFacts, Zenon DEF IdleStop, Goto, ProcType, GoroutineInv, FeedLabels
  <1>5. FreshInv'
    BY <1>1, ProcsFacts, Zenon DEF IdleStop, Goto, ProcType, FreshInv
  <1>6. CloseInv'
    <2>1. \A q \in Procs : pc'[q] = "exit" => pc[q] = "exit" /\ cur'[q] = cur[q]
      BY <1>1, ProcsFacts, Zenon DEF IdleStop, Goto, ProcType
    <2> QED BY <1>1, <2>1, CloseFrame, Zenon
  <1>7. ConnInv'
    BY <1>1, ProcsFacts, Zenon DEF IdleStop, Goto, ProcType, ConnInv
  <1>8. DrainInv'
    BY <1>1, ProcsFacts, Zenon DEF IdleStop, Goto, ProcType, DrainInv
  <1>9. IdleInv'
    <2>1. \A q \in Procs : pc'[q] \in {"close", "exit"} /\ errNil'[q] =>
            pc[q] \in {"close", "exit"} /\ errNil[q] /\ cur'[q] = cur[q]
      BY <1>1, ProcsFacts, Zenon DEF IdleStop, Goto, ProcType
    <2>2. \A x \in todo'[IdleLoop] : wasIdle[x]
      BY <1>1, Zenon DEF IdleInv
    <2> QED BY <1>1, <2>1, <2>2, IdleFrame, Zenon
  <1> QED BY <1>2, <1>3, <1>4, <1>5, <1>6, <1>7, <1>8, <1>9, Zenon

-----------------------------------------------------------------------------
(***************************************************************************)
(* Steps of the receiving goroutines and of time, and the theorems         *)
(***************************************************************************)

\* A receive loop whose read fails closes its own entry.
LEMMA ReadFailsStep ==
    ASSUME Inv, NEW e \in Entry, ReadFails(e)
    PROVE  Inv'
  <1> USE DEF Inv
  <1>1. UNCHANGED <<m, ID, closed, conn, connLock, closeLog, override,
                original, aclCache, lastWrite, lastReply, held, msg, queue,
                target, age, wasIdle, draining, stopped, ioAlive, todo>>
    BY Zenon DEF ReadFails, table, session, feeding, control, events
  <1>2. EntryType' /\ TimeType' /\ FeedType' /\ RouteType' /\ TableExact' /\
        RouteInv' /\ RoutesRespected'
    BY <1>1 DEF EntryType, TimeType, FeedType, RouteType, TableExact, RouteInv,
      RoutesRespected
  <1>3. ProcType'
    BY <1>1, ProcsFacts, Zenon DEF ReadFails, Goto, GotoClose, ProcType, Labels,
      GoroutineInv, FeedLabels
  <1>4. GoroutineInv'
    BY <1>1, ProcsFacts, Zenon DEF ReadFails, Goto, GotoClose, ProcType,
       GoroutineInv, FeedLabels, FreshInv
  <1>5. FreshInv'
    BY <1>1, ProcsFacts, Zenon DEF ReadFails, Goto, GotoClose, ProcType, FreshInv
  <1>6. CloseInv'
    <2>1. \A q \in Procs : pc'[q] = "exit" => pc[q] = "exit" /\ cur'[q] = cur[q]
      BY <1>1, ProcsFacts, Zenon DEF ReadFails, Goto, GotoClose, ProcType
    <2> QED BY <1>1, <2>1, CloseFrame, Zenon
  <1>7. ConnInv'
    BY <1>1, ProcsFacts, Zenon DEF ReadFails, Goto, GotoClose, ProcType, ConnInv
  <1>8. DrainInv'
    BY <1>1, ProcsFacts, Zenon DEF ReadFails, Goto, GotoClose, ProcType, DrainInv
  <1>9. IdleInv'
    <2>1. \A q \in Procs : pc'[q] \in {"close", "exit"} /\ errNil'[q] =>
            pc[q] \in {"close", "exit"} /\ errNil[q] /\ cur'[q] = cur[q]
      BY <1>1, ProcsFacts, Zenon DEF ReadFails, Goto, GotoClose, ProcType
    <2>2. \A x \in todo'[IdleLoop] : wasIdle[x]
      BY <1>1, Zenon DEF IdleInv
    <2> QED BY <1>1, <2>1, <2>2, IdleFrame, Zenon
  <1> QED BY <1>2, <1>3, <1>4, <1>5, <1>6, <1>7, <1>8, <1>9, Zenon

\* A reply bears the session's original address.
LEMMA ReadPacketStep ==
    ASSUME Inv, NEW e \in Entry, ReadPacket(e)
    PROVE  Inv'
  <1> USE DEF Inv
  <1>1. UNCHANGED <<m, ID, closed, conn, connLock, closeLog, override,
                original, aclCache, lastWrite, held, msg, queue, target,
                wasIdle, draining, stopped, ioAlive, cur, todo, errNil>>
    BY Zenon DEF ReadPacket, table, session, feeding, control, events
  <1>0. /\ pc[e] = "read" /\ pc' = [pc EXCEPT ![e] = "send"]
        /\ conn[e] = "open" /\ age' = [age EXCEPT ![e] = 0]
    BY Zenon DEF ReadPacket, Goto, Touch
  <1>r. PICK rAddr \in Addrs :
          lastReply' = <<e, rAddr, IF original[e] # NoAddr THEN original[e] ELSE rAddr>>
    BY Zenon DEF ReadPacket
  <1>2. EntryType' /\ FeedType' /\ TableExact'
    BY <1>1, Zenon DEF EntryType, FeedType, TableExact
  <1>3. ProcType'
    BY <1>0, <1>1, ProcsFacts, Zenon DEF ProcType, Labels,
      GoroutineInv, FeedLabels
  <1>4. TimeType'
    BY <1>0, <1>1, ConstFacts DEF TimeType
  <1>5. RouteType'
    <2>1. lastReply' \in Entry \X Addrs \X Addrs
      BY <1>r, Zenon DEF RouteType
    <2> QED BY <1>1, <2>1, Zenon DEF RouteType
  <1>6. GoroutineInv'
    BY <1>0, <1>1, ProcsFacts, Zenon DEF ProcType, GoroutineInv,
      FeedLabels
  <1>7. FreshInv'
    BY <1>0, <1>1, ProcsFacts, Zenon DEF ProcType, FreshInv
  <1>8. CloseInv'
    <2>1. \A q \in Procs : pc'[q] = "exit" => pc[q] = "exit" /\ cur'[q] = cur[q]
      BY <1>0, <1>1, ProcsFacts, Zenon DEF ProcType
    <2> QED BY <1>1, <2>1, CloseFrame, Zenon
  <1>9. ConnInv'
    BY <1>0, <1>1, ProcsFacts, Zenon DEF ProcType, ConnInv
  <1>10. DrainInv'
    BY <1>0, <1>1, ProcsFacts, Zenon DEF ProcType, DrainInv
  <1>11. IdleInv'
    <2>1. \A q \in Procs : pc'[q] \in {"close", "exit"} /\ errNil'[q] =>
            pc[q] \in {"close", "exit"} /\ errNil[q] /\ cur'[q] = cur[q]
      BY <1>0, <1>1, ProcsFacts, Zenon DEF ProcType
    <2>2. \A x \in Entry : age'[x] > IdleTimeout => age[x] > IdleTimeout
      BY <1>0, ConstFacts DEF TimeType
    <2>3. \A x \in todo'[IdleLoop] : wasIdle[x]
      BY <1>1, Zenon DEF IdleInv
    <2> QED BY <1>1, <2>1, <2>2, <2>3, IdleFrame, Zenon
  <1>12. RouteInv'
    <2>1. lastReply'[1] = e /\ conn[e] # "nil"
      BY <1>0, <1>r, Zenon
    <2> QED BY <1>1, <2>1, Zenon DEF RouteInv
  <1>13. RoutesRespected'
    <2>1. override[e] = NoAddr <=> original[e] = NoAddr
      BY Zenon DEF RouteInv
    <2> QED BY <1>1, <1>r, <2>1, Zenon DEF RoutesRespected
  <1> QED BY <1>2, <1>3, <1>4, <1>5, <1>6, <1>7, <1>8, <1>9, <1>10, <1>11,
      <1>12, <1>13, Zenon

\* The receive loop goes back to reading.
LEMMA SendSucceedsStep ==
    ASSUME Inv, NEW e \in Entry, SendSucceeds(e)
    PROVE  Inv'
  <1> USE DEF Inv
  <1>1. UNCHANGED <<m, ID, closed, conn, connLock, closeLog, override,
                original, aclCache, lastWrite, lastReply, held, msg, queue,
                target, age, wasIdle, draining, stopped, ioAlive, cur, todo,
                errNil>>
    BY Zenon DEF SendSucceeds, table, session, feeding, control, events
  <1>2. EntryType' /\ TimeType' /\ FeedType' /\ RouteType' /\ TableExact' /\
        RouteInv' /\ RoutesRespected'
    BY <1>1 DEF EntryType, TimeType, FeedType, RouteType, TableExact, RouteInv,
      RoutesRespected
  <1>3. ProcType'
    BY <1>1, ProcsFacts DEF SendSucceeds, Goto, ProcType, Labels, GoroutineInv,
      FeedLabels
  <1>4. GoroutineInv'
    BY <1>1, ProcsFacts, Zenon DEF SendSucceeds, Goto, ProcType, GoroutineInv,
      FeedLabels
  <1>5. FreshInv'
    BY <1>1, ProcsFacts, Zenon DEF SendSucceeds, Goto, ProcType, FreshInv
  <1>6. CloseInv'
    <2>1. \A q \in Procs : pc'[q] = "exit" => pc[q] = "exit" /\ cur'[q] = cur[q]
      BY <1>1, ProcsFacts, Zenon DEF SendSucceeds, Goto, ProcType
    <2> QED BY <1>1, <2>1, CloseFrame, Zenon
  <1>7. ConnInv'
    BY <1>1, ProcsFacts, Zenon DEF SendSucceeds, Goto, ProcType, ConnInv
  <1>8. DrainInv'
    BY <1>1, ProcsFacts, Zenon DEF SendSucceeds, Goto, ProcType, DrainInv
  <1>9. IdleInv'
    <2>1. \A q \in Procs : pc'[q] \in {"close", "exit"} /\ errNil'[q] =>
            pc[q] \in {"close", "exit"} /\ errNil[q] /\ cur'[q] = cur[q]
      BY <1>1, ProcsFacts, Zenon DEF SendSucceeds, Goto, ProcType
    <2>2. \A x \in todo'[IdleLoop] : wasIdle[x]
      BY <1>1, Zenon DEF IdleInv
    <2> QED BY <1>1, <2>1, <2>2, IdleFrame, Zenon
  <1> QED BY <1>2, <1>3, <1>4, <1>5, <1>6, <1>7, <1>8, <1>9, Zenon

\* A receive loop whose send fails closes its own entry.
LEMMA SendFailsStep ==
    ASSUME Inv, NEW e \in Entry, SendFails(e)
    PROVE  Inv'
  <1> USE DEF Inv
  <1>1. UNCHANGED <<m, ID, closed, conn, connLock, closeLog, override,
                original, aclCache, lastWrite, lastReply, held, msg, queue,
                target, age, wasIdle, draining, stopped, todo>>
    BY Zenon DEF SendFails, table, session, feeding, control, events
  <1>0. /\ pc[e] = "send" /\ pc' = [pc EXCEPT ![e] = "close"]
        /\ cur' = [cur EXCEPT ![e] = e] /\ errNil' = [errNil EXCEPT ![e] = FALSE]
        /\ ioAlive' \in {ioAlive, FALSE}
    BY Zenon DEF SendFails, Goto, GotoClose
  <1>2. EntryType' /\ FeedType' /\ RouteType' /\ TableExact' /\ RouteInv' /\
        RoutesRespected'
    BY <1>1, Zenon DEF EntryType, FeedType, RouteType, TableExact, RouteInv,
      RoutesRespected
  <1>3. ProcType'
    BY <1>0, <1>1, ProcsFacts, Zenon DEF ProcType, Labels,
      GoroutineInv, FeedLabels
  <1>4. TimeType'
    BY <1>0, <1>1, ZenonT(30) DEF TimeType
  <1>5. GoroutineInv'
    BY <1>0, <1>1, ProcsFacts, Zenon DEF ProcType,
       GoroutineInv, FeedLabels, FreshInv
  <1>6. FreshInv'
    BY <1>0, <1>1, ProcsFacts, Zenon DEF ProcType, FreshInv
  <1>7. CloseInv'
    <2>1. \A q \in Procs : pc'[q] = "exit" => pc[q] = "exit" /\ cur'[q] = cur[q]
      BY <1>0, <1>1, ProcsFacts, Zenon DEF ProcType
    <2> QED BY <1>1, <2>1, CloseFrame, Zenon
  <1>8. ConnInv'
    BY <1>0, <1>1, ProcsFacts, Zenon DEF ProcType, ConnInv
  <1>9. DrainInv'
    BY <1>0, <1>1, ProcsFacts, Zenon DEF ProcType, DrainInv
  <1>10. IdleInv'
    <2>1. \A q \in Procs : pc'[q] \in {"close", "exit"} /\ errNil'[q] =>
            pc[q] \in {"close", "exit"} /\ errNil[q] /\ cur'[q] = cur[q]
      BY <1>0, <1>1, ProcsFacts, Zenon DEF ProcType
    <2>2. \A x \in todo'[IdleLoop] : wasIdle[x]
      BY <1>1, Zenon DEF IdleInv
    <2> QED BY <1>1, <2>1, <2>2, IdleFrame, Zenon
  <1> QED BY <1>2, <1>3, <1>4, <1>5, <1>6, <1>7, <1>8, <1>9, <1>10, Zenon

\* Losing the QUIC connection touches no session.
LEMMA ConnectionLostStep ==
    ASSUME Inv, ConnectionLost
    PROVE  Inv'
  <1> USE DEF Inv
  <1>1. UNCHANGED <<m, ID, closed, conn, connLock, closeLog, override,
                original, aclCache, lastWrite, lastReply, held, msg, queue,
                target, age, wasIdle, draining, stopped, pc, cur, todo,
                errNil>>
    BY Zenon DEF ConnectionLost, table, session, feeding, control, events
  <1>2. ProcType' /\ EntryType' /\ FeedType' /\ RouteType' /\
        GoroutineInv' /\ FreshInv'
    BY <1>1, ZenonT(30) DEF ProcType, EntryType, FeedType, RouteType, GoroutineInv,
      FreshInv
  <1>3. TableExact' /\ CloseInv' /\ ConnInv' /\ DrainInv' /\
        IdleInv' /\ RouteInv' /\ RoutesRespected'
    BY <1>1, ZenonT(30) DEF TableExact, CloseInv, ConnInv, DrainInv, IdleInv, RouteInv,
      RoutesRespected
  <1>4. TimeType'
    BY <1>1, ProcsFacts, ZenonT(30) DEF ConnectionLost, TimeType
  <1> QED BY <1>2, <1>3, <1>4, Zenon

\* An entry that is not beyond the timeout may get older.
LEMMA Older ==
    ASSUME NEW a \in 0..(IdleTimeout + 1), a <= IdleTimeout
    PROVE  a + 1 \in 0..(IdleTimeout + 1)
  BY ConstFacts

\* As time passes, entries beyond the timeout are noted as idle.
LEMMA TickStep ==
    ASSUME Inv, Tick
    PROVE  Inv'
  <1> USE DEF Inv
  <1>1. UNCHANGED <<m, ID, closed, conn, connLock, closeLog, override,
                original, aclCache, lastWrite, lastReply, held, msg, queue,
                target, draining, stopped, ioAlive, pc, cur, todo, errNil>>
    BY Zenon DEF Tick, table, session, feeding, control, events
  <1>2. ProcType' /\ EntryType' /\ FeedType' /\ RouteType' /\
        GoroutineInv' /\ FreshInv'
    BY <1>1, ZenonT(30) DEF ProcType, EntryType, FeedType, RouteType, GoroutineInv,
      FreshInv
  <1>3. TableExact' /\ CloseInv' /\ ConnInv' /\ DrainInv' /\
        RouteInv' /\ RoutesRespected'
    BY <1>1 DEF TableExact, CloseInv, ConnInv, DrainInv, RouteInv,
      RoutesRespected
  <1>4. TimeType'
    <2>1. ASSUME NEW e \in Entry PROVE age'[e] \in 0..(IdleTimeout + 1)
      <3>1. age[e] \in 0..(IdleTimeout + 1)
        BY Zenon DEF TimeType
      <3>2. age'[e] = IF ID[e] # Nil /\ age[e] <= IdleTimeout THEN age[e] + 1 ELSE age[e]
        BY Zenon DEF Tick
      <3> QED BY <3>1, <3>2, Older, Zenon
    <2>2. age' \in [Entry -> 0..(IdleTimeout + 1)]
      BY <2>1, Zenon DEF Tick
    <2>3. wasIdle' \in [Entry -> BOOLEAN]
      BY Zenon DEF Tick, TimeType
    <2> QED BY <1>1, <2>2, <2>3, Zenon DEF TimeType
  <1>5. IdleInv'
    BY <1>1, ProcsFacts, ZenonT(30) DEF Tick, TimeType, IdleInv, ProcType,
       GoroutineInv
  <1> QED BY <1>2, <1>3, <1>4, <1>5, Zenon

-----------------------------------------------------------------------------
(***************************************************************************)
(* The theorems.                                                           *)
(***************************************************************************)

\* No step of the server leaves the invariant.
LEMMA NextInv == Inv /\ [Next]_vars => Inv'
  <1> SUFFICES ASSUME Inv, [Next]_vars PROVE Inv'
    OBVIOUS
  <1>1. CASE RunStep
    BY <1>1, ReceiveMessageStep, NewSessionStep, FeedStep, HookFailsStep,
       HookStep, InitConnStep, DialFailsStep, DialSucceedsStep, WriteStep,
       ReceiveFailsStep, RunReturnsStep, CleanupNextStep, CloseWithErrStep,
       ExitFuncStep, ProcsFacts, Zenon DEF RunStep
  <1>2. CASE IdleStep
    BY <1>2, IdleScanStep, IdleScanDoneStep, IdleStopStep, CleanupNextStep,
       CloseWithErrStep, ExitFuncStep, ProcsFacts, Zenon DEF IdleStep
  <1>3. ASSUME NEW e \in Entry, ReceiveLoop(e) PROVE Inv'
    BY <1>3, ReadFailsStep, ReadPacketStep, SendSucceedsStep, SendFailsStep,
       CloseWithErrStep, ExitFuncStep, ProcsFacts, Zenon DEF ReceiveLoop
  <1>4. CASE UNCHANGED vars
    <2>1. /\ ProcType' /\ EntryType' /\ TimeType' /\ FeedType' /\ RouteType'
          /\ GoroutineInv' /\ FreshInv'
      BY <1>4, ZenonT(30) DEF Inv, vars, ProcType, EntryType, TimeType, FeedType, RouteType,
         GoroutineInv, FreshInv
    <2>2. /\ TableExact' /\ CloseInv' /\ ConnInv' /\ DrainInv' /\ IdleInv'
          /\ RouteInv' /\ RoutesRespected'
      BY <1>4, ZenonT(30) DEF Inv, vars, TableExact, CloseInv, ConnInv, DrainInv, IdleInv,
         RouteInv, RoutesRespected
    <2> QED BY <2>1, <2>2, Zenon DEF Inv
  <1> QED
    BY <1>1, <1>2, <1>3, <1>4, ConnectionLostStep, TickStep, Zenon DEF Next, Terminated

\* The invariant holds throughout.
THEOREM Invariance == Spec => []Inv
  BY InitInv, NextInv, PTL DEF Spec

\* Every variable of the session manager keeps its type: in particular no age
\* runs past its saturation and no goroutine works on a nil entry's fields.
THEOREM TypeCorrect == Spec => []TypeOK
  <1>1. Inv => TypeOK
    BY Zenon DEF Inv, TypeOK, ProcType, EntryType, TimeType, FeedType, RouteType
  <1> QED BY <1>1, Invariance, PTL

\* ExitFunc deletes from the map by session ID, outside connLock, and still
\* removes its own entry and never a newer one.
THEOREM TableIsExact == Spec => []TableExact
  <1>1. Inv => TableExact
    BY Zenon DEF Inv
  <1> QED BY <1>1, Invariance, PTL

\* CloseWithErr logs one Close event, whoever races to close the session.
THEOREM ClosedOnce == Spec => []CloseLoggedOnce
  <1>1. Inv => CloseLoggedOnce
    BY ZenonT(30) DEF Inv, CloseInv, CloseLoggedOnce
  <1> QED BY <1>1, Invariance, PTL

\* initConn never leaves a connection open in a session that was closed.
THEOREM NoConnLeft == Spec => []NoConnAfterClose
  <1>1. Inv => NoConnAfterClose
    BY Zenon DEF Inv, ConnInv, NoConnAfterClose
  <1> QED BY <1>1, Invariance, PTL

\* When Run returns, all its sessions and their connections are closed.
THEOREM RunReturnsClean == Spec => []ReturnedClean
  <1>1. Inv => ReturnedClean
    <2> SUFFICES ASSUME Inv, pc[RunLoop] = "done", NEW e \in Entry
                 PROVE  (ID[e] # Nil => closed[e]) /\ conn[e] # "open"
      BY Zenon DEF ReturnedClean
    <2>1. ID[e] # Nil => closed[e]
      BY Zenon DEF Inv, DrainInv
    <2> QED BY <2>1, Zenon DEF Inv, ConnInv, FreshInv
  <1> QED BY <1>1, Invariance, PTL

\* Idle cleanup never closes a session that was not idle beyond the timeout.
THEOREM IdleCloseJustified == Spec => []NoEarlyIdleClose
  <1>1. Inv => NoEarlyIdleClose
    BY Zenon DEF Inv, IdleInv, NoEarlyIdleClose
  <1> QED BY <1>1, Invariance, PTL

\* Packets and replies bear the addresses that the hook and the policy settle.
THEOREM RoutesAreRespected == Spec => []RoutesRespected
  <1>1. Inv => RoutesRespected
    BY Zenon DEF Inv
  <1> QED BY <1>1, Invariance, PTL
=============================================================================
