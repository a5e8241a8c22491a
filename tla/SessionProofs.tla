--------------------------- MODULE SessionProofs ----------------------------
(***************************************************************************)
(* Safety of the tables that several goroutines share, for any number of   *)
(* entries: the UDP sessions of the client and of UDP forwarding, and the  *)
(* attempts of the hole puncher.                                           *)
(***************************************************************************)
EXTENDS ClientUDP, Forwarding, Punch, TLAPS

-----------------------------------------------------------------------------
(***************************************************************************)
(* The client's UDP session manager: what holds even when session IDs wrap *)
(* around.                                                                 *)
(***************************************************************************)

\* The map leads only to open sessions, under their own ID.
MapInv == \A i \in IDs : m[i] # Nil => ~Closed[m[i]] /\ ID[m[i]] = i

\* A session that was not opened yet is not closed either.
FreshInv == \A c \in Conns : ID[c] = Nil => ~Closed[c]

\* A receiver is told EOF on a channel that is closed and drained.
EOFInv == \A c \in Conns : rcv[c] = "eof" => Closed[c] /\ ReceiveCh[c] = <<>>

Inv == TypeOK /\ MapInv /\ FreshInv /\ EOFInv /\ NoPanic

\* close removes the sessions it closes from the map, and closes no others.
LEMMA CloseStep ==
    ASSUME Inv, NEW C \in SUBSET Conns, \A c \in C : ID[c] # Nil, close(C),
           UNCHANGED <<ID, ReceiveCh, rcv>>
    PROVE  /\ m' \in [IDs -> Conns \cup {Nil}] /\ Closed' \in [Conns -> BOOLEAN]
           /\ MapInv' /\ FreshInv' /\ EOFInv'
  <1> DEFINE open == {c \in C : ~Closed[c]}
  <1>1. /\ Closed' = [c \in Conns |-> Closed[c] \/ c \in open]
        /\ m' = [i \in IDs |-> IF \E c \in open : ID[c] = i THEN Nil ELSE m[i]]
    BY Zenon DEF close, Removed
  <1>2. m' \in [IDs -> Conns \cup {Nil}]
    BY <1>1, Zenon DEF Inv, TypeOK
  <1>3. Closed' \in [Conns -> BOOLEAN]
    BY <1>1, Zenon
  <1>4. \A c \in Conns : Closed'[c] <=> Closed[c] \/ c \in open
    BY <1>1, Zenon
  <1>5. ASSUME NEW i \in IDs, m'[i] # Nil
        PROVE  ~Closed'[m'[i]] /\ ID[m'[i]] = i
    <2>1. m'[i] = m[i] /\ ~\E c \in open : ID[c] = i
      BY <1>1, <1>5, Zenon
    <2>2. m[i] \in Conns /\ ~Closed[m[i]] /\ ID[m[i]] = i
      BY <1>5, <2>1, Zenon DEF Inv, TypeOK, MapInv
    <2> QED BY <1>4, <2>1, <2>2, Zenon
  <1>6. MapInv'
    BY <1>5, Zenon DEF MapInv
  <1>7. FreshInv'
    BY <1>4, Zenon DEF FreshInv, Inv
  <1>8. EOFInv'
    BY <1>4, Zenon DEF EOFInv, Inv
  <1> QED BY <1>2, <1>3, <1>6, <1>7, <1>8, Zenon

\* nextID++ stays among the session IDs.
LEMMA NextIDType == ASSUME NEW i \in IDs PROVE (i + 1) % IDMod \in IDs
  BY ClientUDPAssumption DEF IDs

\* Every step preserves the invariant.
LEMMA Step == Inv /\ [Next]_vars => Inv'
  <1> SUFFICES ASSUME Inv, [Next]_vars PROVE Inv'
    OBVIOUS
  <1> USE DEF manager, conn
  <1>1. CASE NewUDP
    <2>1. PICK c \in Conns : /\ ID[c] = Nil
                             /\ ID' = [ID EXCEPT ![c] = nextID]
                             /\ m' = [m EXCEPT ![nextID] = c]
      BY <1>1, Zenon DEF NewUDP
    <2>2. nextID \in IDs /\ nextID' \in IDs /\ nextID # Nil
      BY <1>1, NextIDType, ClientUDPAssumption DEF NewUDP, Inv, TypeOK, IDs
    <2>3. TypeOK'
      BY <1>1, <2>1, <2>2, Zenon DEF NewUDP, Inv, TypeOK
    <2>4. MapInv'
      <3>1. \A i \in IDs : i # Nil
        BY ClientUDPAssumption DEF IDs
      <3> QED BY <1>1, <2>1, <2>2, <3>1 DEF NewUDP, Inv, TypeOK, MapInv, FreshInv
    <2>5. FreshInv' /\ EOFInv' /\ NoPanic'
      BY <1>1, <2>1, <2>2, Zenon DEF NewUDP, Inv, TypeOK, FreshInv, EOFInv, NoPanic
    <2> QED BY <2>3, <2>4, <2>5, Zenon DEF Inv
  <1>2. CASE Feed
    <2>1. PICK g \in Messages :
            LET c == m[g.SessionID]
            IN  /\ c # Nil
                /\ panicked' = (panicked \/ Closed[c])
                /\ IF HasRoom(c)
                   THEN ReceiveCh' = [ReceiveCh EXCEPT ![c] = Append(@, g)]
                   ELSE UNCHANGED ReceiveCh
      BY <1>2, Zenon DEF Feed
    <2> DEFINE c == m[g.SessionID]
    <2>2. c \in Conns /\ ~Closed[c]
      BY <2>1, ClientUDPAssumption, Zenon DEF Inv, TypeOK, MapInv
    <2>3. /\ ReceiveCh' \in [Conns -> Seq(Messages)]
          /\ \A x \in Conns : Len(ReceiveCh'[x]) <= ChanSize
      <3>1. CASE HasRoom(c)
        <4>1. ReceiveCh' = [ReceiveCh EXCEPT ![c] = Append(@, g)]
          BY <2>1, <3>1, Zenon
        <4>2. /\ Append(ReceiveCh[c], g) \in Seq(Messages)
              /\ Len(Append(ReceiveCh[c], g)) <= ChanSize
          BY <2>2, <3>1, ClientUDPAssumption DEF Inv, TypeOK, HasRoom
        <4> QED BY <2>2, <4>1, <4>2, Zenon DEF Inv, TypeOK
      <3>2. CASE ~HasRoom(c)
        BY <2>1, <3>2, Zenon DEF Inv, TypeOK
      <3> QED BY <3>1, <3>2, Zenon
    <2>4. ~panicked'
      BY <2>1, <2>2, Zenon DEF Inv, NoPanic
    <2>5. TypeOK' /\ NoPanic'
      BY <1>2, <2>3, <2>4, Zenon DEF Feed, Inv, TypeOK, NoPanic
    <2>6. MapInv' /\ FreshInv'
      BY <1>2, Zenon DEF Feed, Inv, MapInv, FreshInv
    <2>7. \A x \in Conns : Closed[x] => ReceiveCh'[x] = ReceiveCh[x]
      BY <2>1, <2>2, Zenon DEF Inv, TypeOK
    <2>8. EOFInv'
      BY <1>2, <2>7, Zenon DEF Feed, Inv, EOFInv
    <2> QED BY <2>5, <2>6, <2>8, Zenon DEF Inv
  <1>3. CASE RunReturns
    <2>1. Leftover \in SUBSET Conns /\ \A c \in Leftover : ID[c] # Nil
      BY ClientUDPAssumption DEF Leftover, Inv, TypeOK, MapInv, IDs
    <2>2. close(Leftover) /\ UNCHANGED <<ID, ReceiveCh, rcv>>
      BY <1>3, Zenon DEF RunReturns
    <2>3. /\ m' \in [IDs -> Conns \cup {Nil}] /\ Closed' \in [Conns -> BOOLEAN]
          /\ MapInv' /\ FreshInv' /\ EOFInv'
      BY <2>1, <2>2, CloseStep, Zenon
    <2> QED BY <1>3, <2>3, Zenon DEF RunReturns, Inv, TypeOK, NoPanic
  <1>4. CASE ConnectionLost
    BY <1>4, Zenon DEF ConnectionLost, Inv, TypeOK, MapInv, FreshInv, EOFInv, NoPanic
  <1>5. ASSUME NEW c \in Conns, Close(c) PROVE Inv'
    <2>1. close({c}) /\ ID[c] # Nil /\ UNCHANGED <<ID, ReceiveCh, rcv>>
      BY <1>5, Zenon DEF Close
    <2>2. /\ m' \in [IDs -> Conns \cup {Nil}] /\ Closed' \in [Conns -> BOOLEAN]
          /\ MapInv' /\ FreshInv' /\ EOFInv'
      BY <2>1, CloseStep, Zenon
    <2> QED BY <1>5, <2>2, Zenon DEF Close, Inv, TypeOK, NoPanic
  <1>6. ASSUME NEW c \in Conns, CallReceive(c) PROVE Inv'
    BY <1>6, Zenon DEF CallReceive, Inv, TypeOK, MapInv, FreshInv, EOFInv, NoPanic
  <1>7. ASSUME NEW c \in Conns, Receive(c) PROVE Inv'
    <2>1. /\ Tail(ReceiveCh[c]) \in Seq(Messages)
          /\ Len(Tail(ReceiveCh[c])) <= ChanSize
      BY <1>7, ClientUDPAssumption DEF Receive, Inv, TypeOK
    <2>2. rcv' = rcv \/ rcv' = [rcv EXCEPT ![c] = "idle"]
      BY <1>7, Zenon DEF Receive
    <2>3. TypeOK' /\ NoPanic'
      BY <1>7, <2>1, <2>2, Zenon DEF Receive, Inv, TypeOK, NoPanic
    <2>4. MapInv' /\ FreshInv' /\ EOFInv'
      BY <1>7, <2>2 DEF Receive, Inv, TypeOK, MapInv, FreshInv, EOFInv
    <2> QED BY <2>3, <2>4, Zenon DEF Inv
  <1>8. ASSUME NEW c \in Conns, ReceiveEOF(c) PROVE Inv'
    BY <1>8 DEF ReceiveEOF, Inv, TypeOK, MapInv, FreshInv, EOFInv, NoPanic
  <1>9. CASE UNCHANGED vars
    BY <1>9, Zenon DEF vars, Inv, TypeOK, MapInv, FreshInv, EOFInv, NoPanic
  <1> QED BY <1>1, <1>2, <1>3, <1>4, <1>5, <1>6, <1>7, <1>8, <1>9, Zenon
          DEF Next, Receiver

\* The invariant holds throughout.
THEOREM Invariance == Spec => []Inv
  <1>1. Init => Inv
    <2> SUFFICES ASSUME Init PROVE Inv
      OBVIOUS
    <2>1. nextID \in IDs /\ ReceiveCh \in [Conns -> Seq(Messages)]
      BY ClientUDPAssumption DEF Init, IDs
    <2>2. \A c \in Conns : Len(ReceiveCh[c]) <= ChanSize
      BY ClientUDPAssumption DEF Init
    <2>3. TypeOK
      BY <2>1, <2>2, Zenon DEF Init, TypeOK
    <2>4. MapInv /\ FreshInv /\ EOFInv /\ NoPanic
      BY Zenon DEF Init, MapInv, FreshInv, EOFInv, NoPanic
    <2> QED BY <2>3, <2>4, Zenon DEF Inv
  <1> QED BY <1>1, Step, PTL DEF Spec

\* The manager's variables keep their types, and no channel overflows.
THEOREM TypeCorrect == Spec => []TypeOK
  <1>1. Inv => TypeOK
    BY Zenon DEF Inv
  <1> QED BY <1>1, Invariance, PTL

\* feed never sends on a closed channel, whatever Close and closeCleanup do and
\* whether or not the session IDs have wrapped around.
THEOREM NeverPanics == Spec => []NoPanic
  <1>1. Inv => NoPanic
    BY Zenon DEF Inv
  <1> QED BY <1>1, Invariance, PTL

\* After io.EOF no message arrives for the receiver that was told.
THEOREM EOFFinal == Spec => []EOFIsFinal
  <1>1. Inv => EOFIsFinal
    BY Zenon DEF Inv, EOFInv, EOFIsFinal
  <1> QED BY <1>1, Invariance, PTL

-----------------------------------------------------------------------------
(***************************************************************************)
(* What holds until session IDs wrap around, that is, until nextID is 0.   *)
(***************************************************************************)

\* NewUDP has not handed out the last of the session IDs.
NotWrapped == nextID # 0

\* Sessions have IDs of their own, below nextID; the map holds the open ones;
\* closeCleanup leaves none open.
ExactInv ==
    /\ \A c \in Conns : ID[c] # Nil => ID[c] < nextID
    /\ \A c, d \in Conns : ID[c] # Nil /\ ID[c] = ID[d] => c = d
    /\ \A c \in Conns : ID[c] # Nil => (m[ID[c]] = c <=> ~Closed[c])
    /\ ~running => closed
    /\ closed => \A c \in Conns : ID[c] # Nil => Closed[c]

\* nextID++ counts up, or wraps to 0.
LEMMA NextIDCounts ==
    ASSUME NEW i \in IDs, (i + 1) % IDMod # 0
    PROVE  (i + 1) % IDMod = i + 1
  <1>1. CASE i + 1 = IDMod
    BY <1>1, ClientUDPAssumption DEF IDs
  <1>2. CASE i + 1 < IDMod
    BY <1>2, ClientUDPAssumption DEF IDs
  <1> QED BY <1>1, <1>2, ClientUDPAssumption DEF IDs

\* While IDs are unique, close removes just the sessions it closes.
LEMMA CloseExact ==
    ASSUME Inv, ExactInv, NEW C \in SUBSET Conns, close(C), UNCHANGED ID
    PROVE  /\ \A c \in Conns : ID[c] # Nil => (m'[ID[c]] = c <=> ~Closed'[c])
           /\ \A c \in C : Closed'[c]
           /\ \A c \in Conns : Closed[c] => Closed'[c]
  <1> DEFINE open == {c \in C : ~Closed[c]}
  <1>1. /\ Closed' = [c \in Conns |-> Closed[c] \/ c \in open]
        /\ m' = [i \in IDs |-> IF \E c \in open : ID[c] = i THEN Nil ELSE m[i]]
    BY Zenon DEF close, Removed
  <1>2. \A c \in Conns : Closed'[c] <=> Closed[c] \/ c \in open
    BY <1>1, Zenon
  <1>3. ASSUME NEW c \in Conns, ID[c] # Nil
        PROVE  m'[ID[c]] = c <=> ~Closed'[c]
    <2>1. ID[c] \in IDs
      BY <1>3, Zenon DEF Inv, TypeOK
    <2>2. (\E d \in open : ID[d] = ID[c]) <=> c \in open
      BY <1>3, Zenon DEF ExactInv
    <2>3. m'[ID[c]] = IF c \in open THEN Nil ELSE m[ID[c]]
      BY <1>1, <2>1, <2>2, Zenon
    <2> QED BY <1>2, <1>3, <2>3, ClientUDPAssumption, Zenon DEF ExactInv
  <1> QED BY <1>2, <1>3, Zenon

\* Every step that does not wrap nextID preserves the invariant.
LEMMA ExactStep == Inv /\ ExactInv /\ NotWrapped' /\ [Next]_vars => ExactInv'
  <1> SUFFICES ASSUME Inv, ExactInv, NotWrapped', [Next]_vars PROVE ExactInv'
    OBVIOUS
  <1> USE DEF manager, conn
  <1>1. CASE NewUDP
    <2>1. PICK c \in Conns : /\ ID[c] = Nil
                             /\ ID' = [ID EXCEPT ![c] = nextID]
                             /\ m' = [m EXCEPT ![nextID] = c]
      BY <1>1, Zenon DEF NewUDP
    <2>2. /\ nextID \in IDs /\ nextID' = nextID + 1
          /\ \A x \in Conns : ID[x] # Nil => ID[x] \in IDs
          /\ \A i \in IDs : i # Nil /\ i \in Int
      BY <1>1, NextIDCounts, ClientUDPAssumption DEF NewUDP, NotWrapped, Inv, TypeOK, IDs
    <2>3. \A x \in Conns : ID'[x] = IF x = c THEN nextID ELSE ID[x]
      BY <2>1, Zenon DEF Inv, TypeOK
    <2>4. \A x \in Conns : ID'[x] # Nil => ID'[x] < nextID'
      BY <2>2, <2>3 DEF ExactInv
    <2>5. \A x \in Conns : ID[x] # nextID
      BY <2>2 DEF ExactInv
    <2>6. \A x, y \in Conns : ID'[x] # Nil /\ ID'[x] = ID'[y] => x = y
      BY <2>3, <2>5 DEF ExactInv
    <2>7. \A x \in Conns : ID'[x] # Nil => (m'[ID'[x]] = x <=> ~Closed[x])
      BY <2>1, <2>2, <2>3, <2>5 DEF ExactInv, Inv, TypeOK, FreshInv
    <2> QED BY <1>1, <2>4, <2>6, <2>7, Zenon DEF NewUDP, ManagerClosed, ExactInv
  <1>2. CASE RunReturns
    <2>1. Leftover \in SUBSET Conns
      BY DEF Leftover, Inv, TypeOK
    <2>2. close(Leftover) /\ UNCHANGED ID
      BY <1>2, Zenon DEF RunReturns
    <2>3. /\ \A c \in Conns : ID[c] # Nil => (m'[ID[c]] = c <=> ~Closed'[c])
          /\ \A c \in Leftover : Closed'[c]
          /\ \A c \in Conns : Closed[c] => Closed'[c]
      BY <2>1, <2>2, CloseExact, Zenon
    <2>4. \A c \in Conns : ID[c] # Nil => Closed[c] \/ c \in Leftover
      BY ClientUDPAssumption DEF ExactInv, Leftover, Inv, TypeOK
    <2> QED BY <1>2, <2>3, <2>4, Zenon DEF RunReturns, ExactInv
  <1>3. ASSUME NEW c \in Conns, Close(c) PROVE ExactInv'
    <2>1. close({c}) /\ UNCHANGED ID
      BY <1>3, Zenon DEF Close
    <2>2. /\ \A x \in Conns : ID[x] # Nil => (m'[ID[x]] = x <=> ~Closed'[x])
          /\ \A x \in Conns : Closed[x] => Closed'[x]
      BY <2>1, CloseExact, Zenon
    <2> QED BY <1>3, <2>2, Zenon DEF Close, ExactInv
  <1>4. CASE UNCHANGED <<m, nextID, closed, running, ID, Closed>>
    BY <1>4, Zenon DEF ExactInv
  <1>5. /\ Feed \/ ConnectionLost \/ UNCHANGED vars =>
             UNCHANGED <<m, nextID, closed, running, ID, Closed>>
        /\ \A c \in Conns : CallReceive(c) \/ Receiver(c) =>
             UNCHANGED <<m, nextID, closed, running, ID, Closed>>
    BY Zenon DEF Feed, ConnectionLost, CallReceive, Receiver, Receive, ReceiveEOF, vars
  <1> QED BY <1>1, <1>2, <1>3, <1>4, <1>5, Zenon DEF Next

\* With fewer sessions than IDs (nextID has not wrapped around), the map holds
\* exactly the open sessions, and after closeCleanup none is left open.
THEOREM ExactUntilWrap ==
    Spec /\ []NotWrapped => [](TableExact /\ CleanAfterRun)
  <1>1. Init => ExactInv
    BY Zenon DEF Init, ExactInv
  <1>2. Inv /\ ExactInv => TableExact /\ CleanAfterRun
    BY Zenon DEF Inv, MapInv, ExactInv, TableExact, CleanAfterRun
  <1> QED BY <1>1, <1>2, ExactStep, Invariance, PTL DEF Spec

-----------------------------------------------------------------------------
(***************************************************************************)
(* UDP forwarding                                                          *)
(***************************************************************************)

\* The goroutine of the session has not yet removed it.
Alive(s) == fwSession[s].loop \in {"receiving", "returned", "deleting"}

SessionType ==
    [sender : Senders \cup {0}, open : BOOLEAN, timeout : BOOLEAN, idle : BOOLEAN,
     loop : {"none", "receiving", "returned", "deleting", "ended"}]

FwTypes ==
    /\ fwMap \in [Senders -> 0 .. MaxSessions]
    /\ fwSession \in [Sessions -> SessionType]
    /\ fwUsed \in 0 .. MaxSessions
    /\ fwFeed \in [pc : {"read", "create", "insert", "send"}, sender : Senders \cup {0},
                   session : 0 .. MaxSessions]

\* What feed knows of its sender stays so until it is done: only a goroutine of
\* a session of that sender changes the map, and it can only empty it.
FeedInv ==
    /\ fwFeed.pc \in {"create", "insert"} => fwFeed.sender \in Senders /\ fwMap[fwFeed.sender] = 0
    /\ fwFeed.pc = "insert" => /\ fwFeed.session \in Sessions
                               /\ fwSession[fwFeed.session].sender = fwFeed.sender
    /\ fwFeed.pc = "send" => fwFeed.session \in Sessions

\* A session that is alive is in the map under its sender, or is being put there.
TableInv ==
    /\ \A s \in Sessions :
         /\ fwSession[s].loop # "none" <=> s <= fwUsed
         /\ fwSession[s].loop # "none" => fwSession[s].sender \in Senders
         /\ Alive(s) => fwMap[fwSession[s].sender] = s
                        \/ (fwFeed.pc = "insert" /\ fwFeed.session = s)

FwInv == FwTypes /\ FeedInv /\ TableInv

\* No session exists when ListenAndServe begins.
LEMMA FwInit == ForwardingInit => FwInv
  BY ForwardingAssumption
     DEF ForwardingInit, FwInv, FwTypes, SessionType, FeedInv, TableInv, Alive, Sessions, NoSession, FeedAt

\* Steps that leave the map, feed and the senders as they are, and end no loop
\* that has not begun.
LEMMA FwFrame ==
    ASSUME FwInv, FwTypes', UNCHANGED <<fwMap, fwUsed, fwFeed>>,
           \A s \in Sessions : /\ fwSession'[s].sender = fwSession[s].sender
                               /\ (fwSession[s].loop = "none") <=> (fwSession'[s].loop = "none")
                               /\ Alive(s)' => Alive(s)
    PROVE  FwInv'
  BY DEF FwInv, FeedInv, TableInv, Alive

\* What the goroutines write into a session.
LEMMA FwSessionType ==
    ASSUME NEW e \in SessionType, NEW l \in {"returned", "deleting", "ended"},
           NEW b \in BOOLEAN
    PROVE  /\ [e EXCEPT !.idle = b] \in SessionType /\ [e EXCEPT !.loop = l] \in SessionType
           /\ [e EXCEPT !.loop = l, !.open = b] \in SessionType
           /\ [e EXCEPT !.timeout = TRUE, !.open = FALSE] \in SessionType
  BY Zenon DEF SessionType

\* Every step of feed, of a session's goroutine and of the cleanup keeps FwInv.
LEMMA FwStep == FwInv /\ [ForwardingNext]_fwVars => FwInv'
  <1> SUFFICES ASSUME FwInv, [ForwardingNext]_fwVars PROVE FwInv'
    OBVIOUS
  <1> USE ForwardingAssumption
  <1>1. CASE FeedLookup
    <2>1. PICK a \in Senders :
            fwFeed' = IF Known(a) THEN FeedAt("send", a, fwMap[a]) ELSE FeedAt("create", a, 0)
      BY <1>1, Zenon DEF FeedLookup
    <2> QED BY <1>1, <2>1 DEF FeedLookup, FwInv, FwTypes, FeedInv, TableInv, Alive, Known,
               FeedAt, Sessions
  <1>2. CASE FeedCreate
    <2>1. CASE fwUsed < MaxSessions /\ fwUsed' = fwUsed + 1 /\
               fwSession' = [fwSession EXCEPT ![fwUsed + 1] =
                 [NoSession EXCEPT !.sender = fwFeed.sender, !.open = TRUE, !.loop = "receiving"]]
               /\ fwFeed' = FeedAt("insert", fwFeed.sender, fwUsed + 1)
      <3>1. fwUsed + 1 \in Sessions /\ fwFeed.sender \in Senders /\ fwMap[fwFeed.sender] = 0
            /\ fwMap' = fwMap /\ fwFeed.pc = "create"
        BY <1>2, <2>1 DEF FeedCreate, FwInv, FwTypes, FeedInv, Sessions
      <3>2. /\ \A s \in Sessions : s # fwUsed + 1 => fwSession'[s] = fwSession[s]
            /\ fwSession'[fwUsed + 1].sender = fwFeed.sender
            /\ fwSession'[fwUsed + 1].loop = "receiving"
        BY <2>1, <3>1, Zenon DEF FwInv, FwTypes, SessionType, NoSession
      <3>3. FwTypes'
        <4>1. [NoSession EXCEPT !.sender = fwFeed.sender, !.open = TRUE, !.loop = "receiving"]
                \in SessionType
          BY <3>1, Zenon DEF NoSession, SessionType
        <4> QED BY <2>1, <3>1, <4>1 DEF FwInv, FwTypes, FeedAt, Sessions
      <3>4. FeedInv'
        BY <2>1, <3>1, <3>2, Zenon DEF FeedInv, FeedAt, Sessions
      <3>5. TableInv'
        BY <2>1, <3>1, <3>2 DEF FwInv, FwTypes, TableInv, FeedAt, Alive, Sessions
      <3> QED BY <3>3, <3>4, <3>5, Zenon DEF FwInv
    <2>2. CASE fwFeed' = FeedAt("read", 0, 0) /\ UNCHANGED <<fwSession, fwUsed>>
      BY <1>2, <2>2, Zenon DEF FeedCreate, FwInv, FwTypes, FeedInv, TableInv, Alive, FeedAt, Sessions
    <2> QED BY <1>2, <2>1, <2>2, Zenon DEF FeedCreate
  <1>3. CASE FeedInsert
    BY <1>3 DEF FeedInsert, FwInv, FwTypes, FeedInv, TableInv, Alive, FeedAt, Sessions
  <1>4. CASE FeedSend
    <2>1. fwFeed.session \in Sessions /\ fwFeed.pc = "send" /\ fwUsed' = fwUsed /\ fwMap' = fwMap
          /\ fwFeed' = FeedAt("read", 0, 0)
      BY <1>4, Zenon DEF FeedSend, FwInv, FeedInv
    <2>2. \A s \in Sessions : fwSession'[s].sender = fwSession[s].sender
                              /\ fwSession'[s].loop = fwSession[s].loop
      BY <1>4, <2>1, Zenon DEF FeedSend, FwInv, FwTypes, SessionType
    <2>3. FwTypes'
      <3>1. [fwSession[fwFeed.session] EXCEPT !.idle = FALSE] \in SessionType
        BY <2>1, FwSessionType, Zenon DEF FwInv, FwTypes
      <3> QED BY <1>4, <2>1, <3>1 DEF FeedSend, FwInv, FwTypes, FeedAt
    <2> QED BY <2>1, <2>2, <2>3, Zenon DEF FwInv, FeedInv, TableInv, Alive, FeedAt
  <1>5. ASSUME NEW s \in Sessions, LoopReceives(s) \/ LoopFails(s) \/ LoopCloses(s) \/ SessionIdles(s)
        PROVE  FwInv'
    <2>1. FwTypes' /\ UNCHANGED <<fwMap, fwUsed, fwFeed>>
      <3>1. fwSession[s] \in SessionType
        BY Zenon DEF FwInv, FwTypes
      <3>2. (fwSession[s].open /\ fwSession[s].timeout) \in BOOLEAN
        BY <3>1, Zenon DEF SessionType
      <3>3. CASE LoopReceives(s)
        BY <3>1, <3>3, FwSessionType, Zenon DEF LoopReceives, FwInv, FwTypes
      <3>4. CASE LoopFails(s)
        BY <3>1, <3>4, FwSessionType, Zenon DEF LoopFails, FwInv, FwTypes
      <3>5. CASE LoopCloses(s)
        BY <3>1, <3>2, <3>5, FwSessionType, Zenon DEF LoopCloses, FwInv, FwTypes
      <3>6. CASE SessionIdles(s)
        BY <3>1, <3>6, FwSessionType, Zenon DEF SessionIdles, FwInv, FwTypes
      <3> QED BY <1>5, <3>3, <3>4, <3>5, <3>6, Zenon
    <2>2. \A t \in Sessions : /\ fwSession'[t].sender = fwSession[t].sender
                              /\ (fwSession[t].loop = "none") <=> (fwSession'[t].loop = "none")
                              /\ Alive(t)' => Alive(t)
      BY <1>5 DEF LoopReceives, LoopFails, LoopCloses, SessionIdles, FwInv, FwTypes, SessionType, Alive
    <2> QED BY <2>1, <2>2, FwFrame, Zenon
  <1>6. ASSUME NEW s \in Sessions, LoopDeletes(s) PROVE FwInv'
    <2>1. /\ fwSession[s].loop = "deleting" /\ fwSession[s].sender \in Senders
          /\ UNCHANGED <<fwUsed, fwFeed>>
          /\ fwMap' = [fwMap EXCEPT ![fwSession[s].sender] = 0]
      BY <1>6, Zenon DEF LoopDeletes, FwInv, TableInv
    <2>2. \A t \in Sessions : fwSession'[t].sender = fwSession[t].sender
                              /\ fwSession'[t].loop = IF t = s THEN "ended" ELSE fwSession[t].loop
      BY <1>6, Zenon DEF LoopDeletes, FwInv, FwTypes, SessionType
    <2>3. FwTypes'
      <3>1. [fwSession[s] EXCEPT !.loop = "ended"] \in SessionType
        BY FwSessionType, Zenon DEF FwInv, FwTypes
      <3> QED BY <1>6, <2>1, <3>1 DEF LoopDeletes, FwInv, FwTypes
    <2>4. FeedInv'
      BY <2>1, <2>2, Zenon DEF FwInv, FwTypes, FeedInv
    <2>5. ASSUME NEW t \in Sessions, t # s, Alive(t), fwMap[fwSession[t].sender] = t
          PROVE  fwSession[t].sender # fwSession[s].sender
      BY <2>1, <2>5 DEF FwInv, FeedInv, TableInv, Alive, Sessions
    <2> QED BY <2>1, <2>2, <2>3, <2>4, <2>5, Zenon DEF FwInv, FwTypes, TableInv, Alive
  <1>7. ASSUME NEW b \in BOOLEAN, Cleanup(b), UNCHANGED <<fwMap, fwUsed, fwFeed>> PROVE FwInv'
    <2>1. FwTypes' /\ \A t \in Sessions : /\ fwSession'[t].sender = fwSession[t].sender
                                          /\ fwSession[t].loop = fwSession'[t].loop
      <3>1. \A t \in Sessions : /\ fwSession[t] \in SessionType
                                /\ [fwSession[t] EXCEPT !.timeout = TRUE, !.open = FALSE] \in SessionType
        BY FwSessionType, Zenon DEF FwInv, FwTypes
      <3> QED BY <1>7, <3>1 DEF Cleanup, FwInv, FwTypes, SessionType
    <2> QED BY <1>7, <2>1, FwFrame, Zenon DEF Alive
  <1>8. CASE ServeFails \/ UNCHANGED fwVars
    BY <1>8, Zenon DEF ServeFails, fwVars, FwInv, FwTypes, FeedInv, TableInv, Alive
  <1>9. CASE IdleCleanup \/ ServeReturns
    BY <1>7, <1>9, Zenon DEF IdleCleanup, ServeReturns
  <1> QED BY <1>1, <1>2, <1>3, <1>4, <1>5, <1>6, <1>8, <1>9, Zenon DEF ForwardingNext, ForwardingStep

\* While a session receives, its sender's packets go to it, and the goroutine that
\* ends removes its own entry: never that of the session that replaced it.
THEOREM SessionsAreOwned == ForwardingSpec => SessionsOwned
  <1>1. FwInv => ReceivingIsMapped
    BY Zenon DEF FwInv, TableInv, Alive, ReceivingIsMapped
  <1>2. FwInv => DeletesOwn
    BY Zenon DEF FwInv, FeedInv, TableInv, Alive, DeletesOwn
  <1> QED BY <1>1, <1>2, FwInit, FwStep, PTL DEF ForwardingSpec, SessionsOwned

-----------------------------------------------------------------------------
(***************************************************************************)
(* Hole punching                                                           *)
(***************************************************************************)

\* What the connections carry, and what the puncher makes of it.
PacketType == [dst : {"client", "server"}, id : Attempts, type : {"hello", "ack"}]
EventType == [id : Attempts, type : {"hello", "ack"}, sent : Attempts]

PunchTypes ==
    /\ punchNet \subseteq PacketType
    /\ clientPC \in [Attempts -> {"idle", "punch", "hello", "ack", "timeout"}]
    /\ attempts \in [Attempts -> Responders \cup {Nobody}]
    /\ connAttempts \subseteq Attempts
    /\ events \in Seq(EventType)
    /\ rPC \in [Responders -> {"idle", "add", "select", "remove", "remove2", "end"}]
    /\ rID \in [Responders -> Attempts \cup {Nobody}]
    /\ rEvents \in [Responders -> Seq(EventType)]
    /\ rResult \in [Responders -> EventType \cup {NoEvent}]

\* Where Respond has its attempt in ServerPuncher.attempts.
Serving == {"add", "select", "remove", "remove2"}

\* The two maps and the goroutines agree.
MapsInv ==
    /\ \A r \in Responders :
         /\ rPC[r] # "idle" => rID[r] \in Attempts
         /\ rPC[r] \in Serving => attempts[rID[r]] = r
         /\ rPC[r] \in {"select", "remove"} => rID[r] \in connAttempts
    /\ \A a \in Attempts : attempts[a] # Nobody => rID[attempts[a]] = a /\ rPC[attempts[a]] \in Serving
    /\ \A a \in connAttempts : attempts[a] # Nobody /\ rPC[attempts[a]] \in {"select", "remove"}

\* Event e stands for a packet that the client of attempt a sent.
Sound(e, a) == e.id = a /\ e.sent = a /\ Packet("server", a, e.type) \in punchNet

\* On its way from the connection to a goroutine an event keeps its attempt,
\* also while dispatch holds a channel whose goroutine has left.
EventsInv ==
    /\ \A i \in DOMAIN events : Sound(events[i], events[i].id)
    /\ dispatching # <<>> =>
         \E e \in EventType, r \in Responders :
           dispatching = <<e, r>> /\ Sound(e, rID[r]) /\ rPC[r] # "idle"
    /\ \A r \in Responders :
         /\ \A i \in DOMAIN rEvents[r] : Sound(rEvents[r][i], rID[r])
         /\ rPC[r] = "idle" => rEvents[r] = <<>>
         /\ rPC[r] \in {"idle", "add", "select"} => rResult[r] = NoEvent
         /\ rResult[r] # NoEvent => rResult[r] \in EventType /\ Sound(rResult[r], rID[r])

\* Who has sent an ack has succeeded.
AckInv ==
    \A a \in Attempts :
      /\ Packet("client", a, "ack") \in punchNet =>
           \E r \in Responders : rID[r] = a /\ rResult[r].type = "hello"
      /\ Packet("server", a, "ack") \in punchNet => clientPC[a] = "hello"
      /\ clientPC[a] = "ack" => Packet("client", a, "ack") \in punchNet

PunchInv == PunchTypes /\ MapsInv /\ EventsInv /\ AckInv

-----------------------------------------------------------------------------
\* No packet was sent and no attempt is served at first.
LEMMA PunchInitInv == PunchInit => PunchInv
  BY DEF PunchInit, PunchInv, PunchTypes, MapsInv, EventsInv, AckInv, Serving, NoEvent

\* What SendPunch adds to the network.
LEMMA PacketIs ==
    ASSUME NEW dst \in {"client", "server"}, NEW a \in Attempts, NEW type \in {"hello", "ack"}
    PROVE  /\ Packet(dst, a, type) \in PacketType
           /\ \A d \in {"client", "server"}, b \in Attempts, t \in {"hello", "ack"} :
                Packet(d, b, t) = Packet(dst, a, type) => d = dst /\ b = a /\ t = type
  BY Zenon DEF Packet, PacketType

\* Events are kept by steps that only add packets.
LEMMA EventsKept ==
    ASSUME EventsInv, punchNet \subseteq punchNet',
           UNCHANGED <<events, dispatching, rPC, rID, rEvents, rResult>>
    PROVE  EventsInv'
  BY Zenon DEF EventsInv, Sound

\* The network, the maps and the goroutines are as they were; a client may have
\* given up, and dispatch may have dropped its event.
LEMMA PunchFrame ==
    ASSUME PunchInv,
           UNCHANGED <<punchNet, attempts, connAttempts, events, rPC, rID, rEvents, rResult>>,
           dispatching' \in {dispatching, <<>>},
           \/ clientPC' = clientPC
           \/ \E a \in Attempts : clientPC[a] = "punch" /\ clientPC' = [clientPC EXCEPT ![a] = "timeout"]
    PROVE  PunchInv'
  <1>1. PunchTypes'
    BY Zenon DEF PunchInv, PunchTypes
  <1>2. MapsInv'
    BY Zenon DEF PunchInv, MapsInv
  <1>3. EventsInv'
    BY DEF PunchInv, EventsInv, Sound
  <1>4. AckInv'
    BY DEF PunchInv, PunchTypes, AckInv
  <1> QED BY <1>1, <1>2, <1>3, <1>4, Zenon DEF PunchInv

\* A client begins with a hello.
LEMMA PunchStartStep == ASSUME PunchInv, NEW a \in Attempts, PunchStart(a) PROVE PunchInv'
  <1>1. /\ clientPC[a] = "idle" /\ clientPC' = [clientPC EXCEPT ![a] = "punch"]
        /\ punchNet' = punchNet \cup {Packet("server", a, "hello")}
        /\ UNCHANGED <<attempts, connAttempts, events, dispatching, rPC, rID, rEvents, rResult>>
    BY Zenon DEF PunchStart, SendPunch, Opening
  <1>2. Packet("server", a, "hello") \in PacketType
    BY PacketIs, Zenon
  <1>3. EventsInv'
    BY <1>1, EventsKept, Zenon DEF PunchInv
  <1>4. \A b \in Attempts : /\ Packet("client", b, "ack") # Packet("server", a, "hello")
                            /\ Packet("server", b, "ack") # Packet("server", a, "hello")
    BY PacketIs, Zenon
  <1>5. AckInv'
    BY <1>1, <1>4 DEF PunchInv, PunchTypes, AckInv
  <1> QED BY <1>1, <1>2, <1>3, <1>5 DEF PunchInv, PunchTypes, MapsInv

\* A client that reads the hello of its attempt answers with an ack.
LEMMA PunchReadsStep ==
    ASSUME PunchInv, NEW a \in Attempts, NEW type \in {"hello", "ack"}, PunchReads(a, type)
    PROVE  PunchInv'
  <1>1. /\ clientPC[a] = "punch" /\ clientPC' = [clientPC EXCEPT ![a] = type]
        /\ Packet("client", a, type) \in punchNet
        /\ punchNet' = IF type = "hello" THEN punchNet \cup {Packet("server", a, "ack")} ELSE punchNet
        /\ UNCHANGED <<attempts, connAttempts, events, dispatching, rPC, rID, rEvents, rResult>>
    BY Zenon DEF PunchReads, SendPunch
  <1>2. Packet("server", a, "ack") \in PacketType
    BY PacketIs, Zenon
  <1>3. EventsInv'
    BY <1>1, EventsKept, Zenon DEF PunchInv
  <1>4. \A b \in Attempts : /\ Packet("client", b, "ack") # Packet("server", a, "ack")
                            /\ Packet("server", b, "ack") = Packet("server", a, "ack") => b = a
    BY PacketIs, Zenon
  <1>5. AckInv'
    BY <1>1, <1>4 DEF PunchInv, PunchTypes, AckInv
  <1> QED BY <1>1, <1>2, <1>3, <1>5 DEF PunchInv, PunchTypes, MapsInv

\* Respond takes an attempt that no goroutine serves, or is refused.
LEMMA RespondStartStep ==
    ASSUME PunchInv, NEW a \in Attempts, NEW r \in Responders, RespondStart(r, a)
    PROVE  PunchInv'
  <1>1. /\ rPC[r] = "idle" /\ rID' = [rID EXCEPT ![r] = a]
        /\ UNCHANGED <<punchNet, clientPC, connAttempts, events, dispatching, rEvents, rResult>>
        /\ rEvents[r] = <<>> /\ rResult[r] = NoEvent
    BY Zenon DEF RespondStart, PunchInv, EventsInv
  <1>2. /\ attempts' = IF Unused(a) THEN [attempts EXCEPT ![a] = r] ELSE attempts
        /\ rPC' = [rPC EXCEPT ![r] = IF Unused(a) THEN "add" ELSE "end"]
    BY Zenon DEF RespondStart, RGoto
  <1>3. PunchTypes'
    BY <1>1, <1>2, Zenon DEF PunchInv, PunchTypes
  <1>4. MapsInv'
    BY PunchAssumption, <1>1, <1>2 DEF PunchInv, PunchTypes, MapsInv, Serving, Unused
  <1>5. \A q \in Responders : q # r => rID'[q] = rID[q] /\ rPC'[q] = rPC[q]
    BY <1>1, <1>2, Zenon DEF PunchInv, PunchTypes
  <1>6. EventsInv'
    <2>1. dispatching' # <<>> =>
            \E e \in EventType, q \in Responders :
              dispatching' = <<e, q>> /\ Sound(e, rID[q])' /\ rPC'[q] # "idle"
      <3> SUFFICES ASSUME dispatching # <<>>
                   PROVE  \E e \in EventType, q \in Responders :
                            dispatching' = <<e, q>> /\ Sound(e, rID[q])' /\ rPC'[q] # "idle"
        BY <1>1, Zenon
      <3>1. PICK e \in EventType, q \in Responders :
              dispatching = <<e, q>> /\ Sound(e, rID[q]) /\ rPC[q] # "idle"
        BY Zenon DEF PunchInv, EventsInv
      <3>2. q # r
        BY <1>1, <3>1, Zenon
      <3> QED BY <1>1, <1>5, <3>1, <3>2 DEF Sound
    <2>2. \A q \in Responders :
         /\ \A i \in DOMAIN rEvents'[q] : Sound(rEvents[q][i], rID[q])'
         /\ rPC'[q] = "idle" => rEvents'[q] = <<>>
         /\ rPC'[q] \in {"idle", "add", "select"} => rResult'[q] = NoEvent
         /\ rResult'[q] # NoEvent => rResult'[q] \in EventType /\ Sound(rResult[q], rID[q])'
      <3> TAKE q \in Responders
      <3>1. CASE q = r
        BY <1>1, <3>1
      <3>2. CASE q # r
        BY <1>1, <1>5, <3>2 DEF PunchInv, EventsInv, Sound
      <3> QED BY <3>1, <3>2, Zenon
    <2> QED BY <1>1, <2>1, <2>2, Zenon DEF PunchInv, EventsInv, Sound
  <1>7. AckInv'
    <2>1. \A q \in Responders : rResult[q].type = "hello" => q # r
      BY <1>1 DEF NoEvent
    <2> QED BY <1>1, <1>5, <2>1 DEF PunchInv, AckInv
  <1> QED BY <1>3, <1>4, <1>6, <1>7, Zenon DEF PunchInv

\* Respond has the connection listen for its attempt.
LEMMA RespondAddStep ==
    ASSUME PunchInv, NEW r \in Responders, RespondAdd(r)
    PROVE  PunchInv'
  <1>1. /\ rPC[r] = "add" /\ rPC' = [rPC EXCEPT ![r] = "select"] /\ rID[r] \in Attempts
        /\ connAttempts' = connAttempts \cup {rID[r]}
        /\ punchNet' = punchNet \cup {Packet("client", rID[r], "hello")}
        /\ UNCHANGED <<clientPC, attempts, events, dispatching, rID, rEvents, rResult>>
    BY Zenon DEF RespondAdd, SendPunch, Opening, RGoto, PunchInv, MapsInv
  <1>2. Packet("client", rID[r], "hello") \in PacketType
    BY <1>1, PacketIs, Zenon
  <1>3. \A b \in Attempts : /\ Packet("client", b, "ack") # Packet("client", rID[r], "hello")
                            /\ Packet("server", b, "ack") # Packet("client", rID[r], "hello")
    BY <1>1, PacketIs, Zenon
  <1>4. PunchTypes'
    BY <1>1, <1>2, Zenon DEF PunchInv, PunchTypes
  <1>5. MapsInv'
    BY PunchAssumption, <1>1 DEF PunchInv, PunchTypes, MapsInv, Serving
  <1>6. EventsInv'
    BY <1>1, Zenon DEF PunchInv, PunchTypes, EventsInv, Sound
  <1>7. AckInv'
    BY <1>1, <1>3, Zenon DEF PunchInv, AckInv
  <1> QED BY <1>4, <1>5, <1>6, <1>7, Zenon DEF PunchInv

\* Respond ends with the first event of its channel.
LEMMA RespondEventStep ==
    ASSUME PunchInv, NEW r \in Responders, RespondEvent(r)
    PROVE  PunchInv'
  <1> DEFINE e == Head(rEvents[r])
  <1>1. /\ rPC[r] = "select" /\ rPC' = [rPC EXCEPT ![r] = "remove"] /\ rID[r] \in Attempts
        /\ rResult' = [rResult EXCEPT ![r] = e] /\ rResult[r] = NoEvent /\ rEvents[r] # <<>>
        /\ punchNet' = IF e.type = "hello" THEN punchNet \cup {Packet("client", rID[r], "ack")}
                       ELSE punchNet
        /\ UNCHANGED <<clientPC, attempts, connAttempts, events, dispatching, rID, rEvents>>
    BY Zenon DEF RespondEvent, SendPunch, RGoto, PunchInv, MapsInv, EventsInv
  <1>2. e \in EventType /\ Sound(e, rID[r])
    <2>1. rEvents[r] \in Seq(EventType) /\ rEvents[r] # <<>>
      BY <1>1, Zenon DEF PunchInv, PunchTypes
    <2>2. 1 \in DOMAIN rEvents[r] /\ e = rEvents[r][1] /\ e \in EventType
      BY <2>1
    <2> QED BY <2>2, Zenon DEF PunchInv, EventsInv
  <1> HIDE DEF e
  <1>3. Packet("client", rID[r], "ack") \in PacketType
    BY <1>1, PacketIs, Zenon
  <1>4. \A b \in Attempts : /\ Packet("client", b, "ack") = Packet("client", rID[r], "ack") => b = rID[r]
                            /\ Packet("server", b, "ack") # Packet("client", rID[r], "ack")
    BY <1>1, PacketIs, Zenon
  <1>5. PunchTypes'
    BY <1>1, <1>2, <1>3, Zenon DEF PunchInv, PunchTypes
  <1>6. MapsInv'
    BY PunchAssumption, <1>1 DEF PunchInv, PunchTypes, MapsInv, Serving
  <1>7. \A q \in Responders : q # r => rResult'[q] = rResult[q] /\ rPC'[q] = rPC[q]
    BY <1>1, Zenon DEF PunchInv, PunchTypes
  <1>8. rResult'[r] = e /\ rPC'[r] = "remove" /\ punchNet \subseteq punchNet'
    BY <1>1, Zenon DEF PunchInv, PunchTypes
  <1>9. EventsInv'
    <2>1. ASSUME NEW q \in Responders
          PROVE  /\ \A i \in DOMAIN rEvents'[q] : Sound(rEvents[q][i], rID[q])'
                 /\ rPC'[q] = "idle" => rEvents'[q] = <<>>
                 /\ rPC'[q] \in {"idle", "add", "select"} => rResult'[q] = NoEvent
                 /\ rResult'[q] # NoEvent => rResult'[q] \in EventType /\ Sound(rResult[q], rID[q])'
      <3>1. CASE q = r
        BY <1>1, <1>2, <1>8, <3>1 DEF PunchInv, EventsInv, Sound
      <3>2. CASE q # r
        BY <1>1, <1>7, <1>8, <3>2 DEF PunchInv, EventsInv, Sound
      <3> QED BY <3>1, <3>2, Zenon
    <2>2. dispatching' # <<>> =>
            \E d \in EventType, q \in Responders :
              dispatching' = <<d, q>> /\ Sound(d, rID[q])' /\ rPC'[q] # "idle"
      BY <1>1, <1>7, <1>8 DEF PunchInv, EventsInv, Sound
    <2>3. \A i \in DOMAIN events' : Sound(events[i], events[i].id)'
      BY <1>1, <1>8, Zenon DEF PunchInv, EventsInv, Sound
    <2> QED BY <2>1, <2>2, <2>3, Zenon DEF EventsInv
  <1>10. AckInv'
    <2>1. \A q \in Responders : rResult[q].type = "hello" => q # r
      BY <1>1 DEF NoEvent
    <2> QED BY <1>1, <1>4, <1>7, <1>8, <2>1 DEF PunchInv, AckInv
  <1> QED BY <1>5, <1>6, <1>9, <1>10, Zenon DEF PunchInv

\* Respond leaves the two maps one after the other.
LEMMA RespondRemoveStep ==
    ASSUME PunchInv, NEW r \in Responders, RespondTimeout(r) \/ RespondRemove(r)
    PROVE  PunchInv'
  <1>1. /\ UNCHANGED <<punchNet, clientPC, events, dispatching, rID, rEvents, rResult>>
        /\ \E l \in {"remove", "remove2", "end"} : rPC' = [rPC EXCEPT ![r] = l]
        /\ rPC[r] \in {"select", "remove", "remove2"}
    BY Zenon DEF RespondTimeout, RespondRemove, RGoto, CtxDone
  <1>2. rID[r] \in Attempts
    BY <1>1, Zenon DEF PunchInv, MapsInv
  <1>3. PunchTypes'
    BY <1>1, <1>2, Zenon DEF PunchInv, PunchTypes, RespondTimeout, RespondRemove, RemoveFrom
  <1>4. MapsInv'
    <2>1. CASE RespondTimeout(r)
      BY PunchAssumption, <2>1 DEF PunchInv, PunchTypes, MapsInv, Serving, RespondTimeout, CtxDone, RGoto
    <2>2. CASE rPC[r] = "remove" /\ RemoveFrom(r, 1) /\ RGoto(r, "remove2")
      BY PunchAssumption, <1>1, <1>2, <2>2
         DEF PunchInv, PunchTypes, MapsInv, Serving, RemoveFrom, RGoto
    <2>3. CASE rPC[r] = "remove2" /\ RemoveFrom(r, 2) /\ RGoto(r, "end")
      <3>1. attempts' = [attempts EXCEPT ![rID[r]] = Nobody] /\ connAttempts' = connAttempts
            /\ rPC' = [rPC EXCEPT ![r] = "end"]
        BY <2>3 DEF RemoveFrom, RGoto
      <3>2. attempts[rID[r]] = r /\ rID[r] \notin connAttempts
        BY <1>2, <2>3, Zenon DEF PunchInv, MapsInv, Serving
      <3>3. \A a \in Attempts : attempts'[a] = IF a = rID[r] THEN Nobody ELSE attempts[a]
        BY <3>1, Zenon DEF PunchInv, PunchTypes
      <3>4. \A q \in Responders : rPC'[q] = IF q = r THEN "end" ELSE rPC[q]
        BY <3>1, Zenon DEF PunchInv, PunchTypes
      <3>5. \A q \in Responders : q # r /\ rPC[q] \in Serving => rID[q] # rID[r]
        BY <3>2, Zenon DEF PunchInv, MapsInv
      <3>6. \A a \in Attempts : a # rID[r] /\ attempts[a] # Nobody =>
              attempts[a] \in Responders /\ attempts[a] # r
        BY DEF PunchInv, PunchTypes, MapsInv
      <3>7. \A a \in connAttempts : a \in Attempts /\ a # rID[r]
        BY <3>2, Zenon DEF PunchInv, PunchTypes
      <3>8. \A q \in Responders :
             /\ rPC'[q] # "idle" => rID'[q] \in Attempts
             /\ rPC'[q] \in Serving => attempts'[rID'[q]] = q
             /\ rPC'[q] \in {"select", "remove"} => rID'[q] \in connAttempts'
        BY <1>1, <1>2, <3>1, <3>3, <3>4, <3>5 DEF PunchInv, MapsInv, Serving
      <3>9. \A a \in Attempts : attempts'[a] # Nobody =>
              rID'[attempts'[a]] = a /\ rPC'[attempts'[a]] \in Serving
        BY <1>1, <3>3, <3>4, <3>6 DEF PunchInv, MapsInv
      <3>10. \A a \in connAttempts' :
               attempts'[a] # Nobody /\ rPC'[attempts'[a]] \in {"select", "remove"}
        BY <3>1, <3>3, <3>4, <3>6, <3>7 DEF PunchInv, MapsInv
      <3> QED BY <3>8, <3>9, <3>10, Zenon DEF MapsInv
    <2> QED BY <2>1, <2>2, <2>3, Zenon DEF RespondRemove
  <1>5. EventsInv'
    BY <1>1 DEF PunchInv, PunchTypes, EventsInv, Sound
  <1>6. AckInv'
    BY <1>1, Zenon DEF PunchInv, AckInv
  <1> QED BY <1>3, <1>4, <1>5, <1>6, Zenon DEF PunchInv

\* The connection reads a packet as an event of the attempt that decodes it.
LEMMA ConnReadsStep == ASSUME PunchInv, NEW p \in punchNet, ConnReads(p) PROVE PunchInv'
  <1>1. PICK a \in connAttempts :
          Decodes(p, a) /\ events' = Append(events, [id |-> a, type |-> p.type, sent |-> p.id])
    BY Zenon DEF ConnReads
  <1>2. p \in PacketType /\ p.dst = "server" /\ p.id = a /\ a \in Attempts
        /\ UNCHANGED <<punchNet, clientPC, attempts, connAttempts, dispatching, rPC, rID,
                       rEvents, rResult>>
    BY <1>1, Zenon DEF ConnReads, Decodes, PunchInv, PunchTypes
  <1> DEFINE e == [id |-> a, type |-> p.type, sent |-> p.id]
  <1>3. e \in EventType /\ e.id = a /\ e.sent = a /\ Packet("server", a, e.type) = p
    BY <1>2, Zenon DEF EventType, PacketType, Packet
  <1> HIDE DEF e
  <1>4. /\ events' = Append(events, e) /\ events \in Seq(EventType) /\ events' \in Seq(EventType)
        /\ \A i \in DOMAIN events' : IF i = Len(events) + 1 THEN events'[i] = e
                                     ELSE i \in DOMAIN events /\ events'[i] = events[i]
    <2>1. events' = Append(events, e) /\ events \in Seq(EventType)
      BY <1>1, Zenon DEF e, PunchInv, PunchTypes
    <2> QED BY <1>3, <2>1
  <1>5. \A i \in DOMAIN events' : Sound(events[i], events[i].id)'
    <2>1. Sound(e, e.id)
      BY <1>2, <1>3, Zenon DEF Sound
    <2>2. \A i \in DOMAIN events' : events'[i] = e \/ Sound(events'[i], events'[i].id)
      BY <1>4, Zenon DEF PunchInv, EventsInv
    <2>3. \A i \in DOMAIN events' : Sound(events'[i], events'[i].id)
      BY <2>1, <2>2, Zenon
    <2> QED BY <1>2, <2>3, Zenon DEF Sound
  <1>6. EventsInv'
    BY <1>2, <1>5, Zenon DEF PunchInv, EventsInv, Sound
  <1>7. PunchTypes'
    BY <1>2, <1>4, Zenon DEF PunchInv, PunchTypes
  <1>8. MapsInv'
    BY <1>2, Zenon DEF PunchInv, MapsInv
  <1>9. AckInv'
    BY <1>2, Zenon DEF PunchInv, AckInv
  <1> QED BY <1>6, <1>7, <1>8, <1>9, Zenon DEF PunchInv

\* dispatch looks up the channel of the event's attempt.
LEMMA DispatchStep == ASSUME PunchInv, Dispatch PROVE PunchInv'
  <1> DEFINE e == Head(events)
  <1>1. /\ dispatching' = IF attempts[e.id] = Nobody THEN <<>> ELSE <<e, attempts[e.id]>>
        /\ events' = Tail(events) /\ events # <<>> /\ events \in Seq(EventType)
        /\ UNCHANGED <<punchNet, clientPC, attempts, connAttempts, rPC, rID, rEvents, rResult>>
    BY Zenon DEF Dispatch, PunchInv, PunchTypes
  <1>2. /\ e \in EventType /\ 1 \in DOMAIN events /\ e = events[1] /\ events' \in Seq(EventType)
        /\ \A i \in DOMAIN events' : i + 1 \in DOMAIN events /\ events'[i] = events[i + 1]
    BY <1>1
  <1> HIDE DEF e
  <1>3. Sound(e, e.id) /\ e.id \in Attempts
    BY <1>2, Zenon DEF PunchInv, EventsInv, EventType
  <1>4. attempts[e.id] # Nobody =>
          /\ attempts[e.id] \in Responders /\ rID[attempts[e.id]] = e.id /\ rPC[attempts[e.id]] # "idle"
    <2>1. attempts[e.id] \in Responders \cup {Nobody}
      BY <1>3, Zenon DEF PunchInv, PunchTypes
    <2> QED BY <1>3, <2>1, Zenon DEF PunchInv, MapsInv, Serving
  <1>5. dispatching' # <<>> =>
            \E d \in EventType, q \in Responders :
              dispatching' = <<d, q>> /\ Sound(d, rID[q])' /\ rPC'[q] # "idle"
    BY <1>1, <1>2, <1>3, <1>4, Zenon DEF Sound
  <1>6. \A i \in DOMAIN events' : Sound(events[i], events[i].id)'
    BY <1>1, <1>2 DEF PunchInv, EventsInv, Sound
  <1>7. EventsInv'
    BY <1>1, <1>5, <1>6, Zenon DEF PunchInv, EventsInv, Sound
  <1> QED BY <1>1, <1>2, <1>7 DEF PunchInv, PunchTypes, MapsInv, AckInv

\* dispatch sends to the channel it found, or drops the event.
LEMMA DispatchSendStep == ASSUME PunchInv, DispatchSend PROVE PunchInv'
  <1>1. PICK e \in EventType, r \in Responders :
          dispatching = <<e, r>> /\ Sound(e, rID[r]) /\ rPC[r] # "idle"
    BY Zenon DEF DispatchSend, PunchInv, EventsInv
  <1>2. /\ rEvents' = IF Room(rEvents[r]) THEN [rEvents EXCEPT ![r] = Append(@, e)] ELSE rEvents
        /\ dispatching' = <<>>
        /\ UNCHANGED <<punchNet, clientPC, attempts, connAttempts, events, rPC, rID, rResult>>
    BY <1>1, Zenon DEF DispatchSend
  <1>3. CASE ~Room(rEvents[r])
    BY <1>2, <1>3, PunchFrame, Zenon
  <1>4. CASE Room(rEvents[r])
    <2>1. rEvents[r] \in Seq(EventType) /\ rEvents \in [Responders -> Seq(EventType)]
      BY Zenon DEF PunchInv, PunchTypes
    <2>2. /\ Append(rEvents[r], e) \in Seq(EventType)
          /\ \A i \in DOMAIN Append(rEvents[r], e) :
               IF i = Len(rEvents[r]) + 1 THEN Append(rEvents[r], e)[i] = e
               ELSE i \in DOMAIN rEvents[r] /\ Append(rEvents[r], e)[i] = rEvents[r][i]
      BY <1>1, <2>1, SMTT(30)
    <2>3. /\ rEvents' \in [Responders -> Seq(EventType)] /\ rEvents'[r] = Append(rEvents[r], e)
          /\ \A q \in Responders : q # r => rEvents'[q] = rEvents[q]
      BY <1>2, <1>4, <2>1, <2>2, Zenon
    <2>4. ASSUME NEW q \in Responders
          PROVE  (\A i \in DOMAIN rEvents'[q] : Sound(rEvents[q][i], rID[q])')
                 /\ (rPC'[q] = "idle" => rEvents'[q] = <<>>)
      <3>1. CASE q = r
        <4>1. \A i \in DOMAIN rEvents[r] : Sound(rEvents[r][i], rID[r])
          BY Zenon DEF PunchInv, EventsInv
        <4> QED BY <1>1, <1>2, <2>2, <2>3, <3>1, <4>1 DEF Sound
      <3>2. CASE q # r
        BY <1>2, <2>3, <3>2, Zenon DEF PunchInv, EventsInv, Sound
      <3> QED BY <3>1, <3>2, Zenon
    <2>5. EventsInv'
      BY <1>2, <2>4 DEF PunchInv, EventsInv, Sound
    <2> QED BY <1>2, <2>3, <2>5 DEF PunchInv, PunchTypes, MapsInv, AckInv
  <1> QED BY <1>3, <1>4, Zenon

\* Every step keeps PunchInv.
LEMMA PunchStep == PunchInv /\ [PunchNext]_punchVars => PunchInv'
  <1> SUFFICES ASSUME PunchInv, [PunchNext]_punchVars PROVE PunchInv'
    OBVIOUS
  <1>1. ASSUME NEW a \in Attempts, PunchTimeout(a) PROVE PunchInv'
    BY <1>1, PunchFrame, Zenon DEF PunchTimeout
  <1>2. CASE UNCHANGED punchVars
    BY <1>2, PunchFrame, Zenon DEF punchVars
  <1> QED BY <1>1, <1>2, PunchStartStep, PunchReadsStep, RespondStartStep, RespondAddStep,
             RespondEventStep, RespondRemoveStep, ConnReadsStep, DispatchStep, DispatchSendStep, Zenon
          DEF PunchNext, RespondStep

\* Attempts that share the server's socket are each served and each succeed by
\* their own packets, and a client that is acknowledged is one the server accepted.
THEOREM PunchesAreMatched == PunchInit /\ [][PunchNext]_punchVars => []PunchesMatched
  <1>1. PunchInv => PunchesMatched
    <2> SUFFICES ASSUME PunchInv PROVE PunchesMatched
      OBVIOUS
    <2>1. RespondListening /\ AttemptsServed
      BY Zenon DEF PunchInv, PunchTypes, MapsInv, RespondListening, AttemptsServed, Serving
    <2>2. NoCrossTalk
      BY Zenon DEF PunchInv, EventsInv, Sound, NoCrossTalk
    <2>3. ASSUME NEW r \in Responders, rResult[r].type = "ack" PROVE clientPC[rID[r]] = "hello"
      <3>1. rResult[r] # NoEvent
        BY <2>3 DEF NoEvent
      <3>2. rResult[r].id \in Attempts /\ rID[r] = rResult[r].id
            /\ Packet("server", rID[r], "ack") \in punchNet
        BY <2>3, <3>1, Zenon DEF PunchInv, EventsInv, EventType, Sound
      <3> QED BY <3>2, Zenon DEF PunchInv, AckInv
    <2>4. AckMeansSuccess
      BY <2>3, Zenon DEF PunchInv, AckInv, AckMeansSuccess
    <2> QED BY <2>1, <2>2, <2>4, Zenon DEF PunchesMatched
  <1> QED BY <1>1, PunchInitInv, PunchStep, PTL
=============================================================================
