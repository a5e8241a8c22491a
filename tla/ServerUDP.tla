------------------------------ MODULE ServerUDP ------------------------------
(***************************************************************************)
(* The server's UDP session manager, core/server/udp.go.                   *)
(*                                                                         *)
(* Three kinds of goroutine run concurrently:                              *)
(*   RunLoop    udpSessionManager.Run: receives the client's messages,     *)
(*              looks up or creates the session and feeds it; on an error  *)
(*              of the QUIC connection it closes every session and returns *)
(*   IdleLoop   udpSessionManager.idleCleanupLoop                          *)
(*   one udpSessionEntry.receiveLoop per session with a connection; the    *)
(*              goroutine of entry e is called e                           *)
(* They share the table m (under m.mutex) and the entries (under connLock).*)
(* The critical sections of m.mutex call nothing and are single steps; the *)
(* one of initConn spans the dial and holds connLock over several steps.   *)
(*                                                                         *)
(* Time: age[e] is time.Now() - entry.Last in ticks, saturated just above  *)
(* the idle timeout, beyond which the code does not tell ages apart.       *)
(***************************************************************************)
EXTENDS Frag, FiniteSets

CONSTANTS
    Sessions,    \* session IDs
    Addrs,       \* addresses in messages
    Allowed,     \* addresses the outbound's policy (ACL) permits
    Messages,    \* UDP messages the client may send
    Entry,       \* pool of udpSessionEntry objects, each allocated once
    RunLoop, IdleLoop,
    Nil,         \* nil pointer, unlocked mutex
    NoAddr,      \* the empty address
    IdleTimeout, \* in ticks
    MaxACLCache, \* maxSessionACLCache
    MaxHeld      \* packets after which the hook always decides

ASSUME ServerUDPAssumption ==
    /\ Nil \notin Entry \cup {RunLoop, IdleLoop}
    /\ RunLoop \notin Entry /\ IdleLoop \notin Entry /\ RunLoop # IdleLoop
    /\ NoAddr \notin Addrs
    /\ Allowed \subseteq Addrs
    /\ Nil \notin Sessions
    /\ Messages \subseteq [SessionID : Sessions, PacketID : Nat, FragID : Nat,
                           FragCount : Nat, Addr : Addrs, Data : Seq(Nat)]
    /\ NoMsg \notin Messages
    /\ IdleTimeout \in Nat
    /\ MaxACLCache \in Nat \ {0}
    /\ MaxHeld \in Nat \ {0}

Procs == {RunLoop, IdleLoop} \cup Entry

VARIABLES
    \* udpSessionManager
    m,          \* session ID -> entry in the map, Nil if none
    \* udpSessionEntry
    ID,         \* entry -> its session ID, Nil before it is allocated
    closed,
    conn,       \* "nil", "open", or "closed" once conn.Close() was called
    override,   \* OverrideAddr
    original,   \* OriginalAddr
    D,          \* the Defragger
    held,       \* messages held back until the hook is done, by their address
    aclCache,   \* partial function: address -> permitted
    age,        \* ticks since Last
    connLock,   \* holder of connLock
    \* goroutines
    pc,
    cur,        \* the entry a goroutine is working on
    todo,       \* timeoutEntry in cleanup: entries still to be closed
    errNil,     \* the error passed to CloseWithErr is nil
    msg,        \* RunLoop: the message being fed
    queue,      \* RunLoop: messages being written, by their address
    target,     \* RunLoop: the address the hook decided on
    draining,   \* RunLoop left its receive loop
    stopped,    \* stopCh is closed
    ioAlive,    \* the QUIC connection is up
    \* History, read by the properties only
    closeLog,   \* entry -> errors of the Close events logged for it
    wasIdle,    \* the entry's age exceeded the timeout at some time
    lastWrite,  \* the last <<entry, address>> given to conn.WriteTo
    lastReply   \* the last <<entry, source, address>> sent to the client

table == <<m, ID>>
session == <<closed, conn, override, original, connLock>>
feeding == <<msg, queue, target, D, held, aclCache>>
control == <<draining, stopped, ioAlive>>
events == <<closeLog, lastWrite, lastReply>>
vars == <<m, ID, closed, conn, override, original, D, held, aclCache, age,
          connLock, pc, cur, todo, errNil, msg, queue, target, draining,
          stopped, ioAlive, closeLog, wasIdle, lastWrite, lastReply>>

Init ==
    /\ m = [s \in Sessions |-> Nil]
    /\ ID = [e \in Entry |-> Nil]
    /\ closed = [e \in Entry |-> FALSE]
    /\ conn = [e \in Entry |-> "nil"]
    /\ override = [e \in Entry |-> NoAddr]
    /\ original = [e \in Entry |-> NoAddr]
    /\ D = [e \in Entry |-> NewDefragger]
    /\ held = [e \in Entry |-> <<>>]
    /\ aclCache = [e \in Entry |-> [a \in {} |-> FALSE]]
    /\ age = [e \in Entry |-> 0]
    /\ connLock = [e \in Entry |-> Nil]
    /\ pc = [p \in Procs |-> CASE p = RunLoop -> "recv"
                               [] p = IdleLoop -> "tick"
                               [] OTHER -> "off"]
    /\ cur = [p \in Procs |-> Nil]
    /\ todo = [p \in Procs |-> {}]
    /\ errNil = [p \in Procs |-> FALSE]
    /\ msg = NoMsg
    /\ queue = <<>>
    /\ target = NoAddr
    /\ draining = FALSE
    /\ stopped = FALSE
    /\ ioAlive = TRUE
    /\ closeLog = [e \in Entry |-> <<>>]
    /\ wasIdle = [e \in Entry |-> FALSE]
    /\ lastWrite = Nil
    /\ lastReply = Nil

Goto(p, label) == pc' = [pc EXCEPT ![p] = label]

\* e.Last.Set(time.Now())
Touch(e) == age' = [age EXCEPT ![e] = 0]

-----------------------------------------------------------------------------
(***************************************************************************)
(* udpSessionEntry.CloseWithErr, called by every kind of goroutine.        *)
(***************************************************************************)

\* Where goroutine p continues after CloseWithErr.
AfterClose(p) ==
    CASE p = RunLoop -> IF draining THEN "cleanup" ELSE "recv"
      [] p = IdleLoop -> "cleanup"
      [] OTHER -> "done"

\* Go on to CloseWithErr(err) on entry e.
GotoClose(p, e, isNil) ==
    /\ Goto(p, "close")
    /\ cur' = [cur EXCEPT ![p] = e]
    /\ errNil' = [errNil EXCEPT ![p] = isNil]

\* Mutant of AlreadyClosed: every caller goes on to ExitFunc.
NeverAlreadyClosed(e) == FALSE

AlreadyClosed(e) == closed[e]

\* The critical section: whoever sets closed also closes the connection and
\* goes on to ExitFunc; the others return.
CloseWithErr(p) ==
    /\ pc[p] = "close"
    /\ LET e == cur[p]
       IN  /\ connLock[e] = Nil
           /\ IF AlreadyClosed(e)
              THEN /\ Goto(p, AfterClose(p))
                   /\ UNCHANGED <<closed, conn>>
              ELSE /\ closed' = [closed EXCEPT ![e] = TRUE]
                   /\ conn' = [conn EXCEPT ![e] = IF @ = "nil" THEN @ ELSE "closed"]
                   /\ Goto(p, "exit")
    /\ UNCHANGED <<table, override, original, connLock, feeding, control, age,
                   cur, todo, errNil, events, wasIdle>>

RemoveSession(e) == m' = [m EXCEPT ![ID[e]] = Nil]

\* ExitFunc: log the Close event, remove the session from the map.  The event
\* touches nothing the other goroutines see, so the two are one step.
ExitFunc(p) ==
    /\ pc[p] = "exit"
    /\ LET e == cur[p]
       IN  /\ closeLog' = [closeLog EXCEPT ![e] = Append(@, errNil[p])]
           /\ RemoveSession(e)
    /\ Goto(p, AfterClose(p))
    /\ UNCHANGED <<ID, session, feeding, control, age, cur, todo, errNil,
                   wasIdle, lastWrite, lastReply>>

-----------------------------------------------------------------------------
(***************************************************************************)
(* RunLoop: Run, feed, Feed, initConn, write.                              *)
(***************************************************************************)

\* Bounds of the model: the pool of entries is not exhausted, and no more than
\* MaxHeld messages pile up in an entry that is closed but still in the map.
Room(s) ==
    IF m[s] = Nil THEN \E e \in Entry : ID[e] = Nil
    ELSE Len(held[m[s]]) <= MaxHeld

\* ReceiveMessage returns a message; feed looks its session up.  Datagrams
\* that QUIC queued before the connection went down are still received.
ReceiveMessage ==
    /\ pc[RunLoop] = "recv"
    /\ \E g \in Messages :
         /\ msg' = g
         /\ cur' = [cur EXCEPT ![RunLoop] = m[g.SessionID]]
         /\ Goto(RunLoop, IF m[g.SessionID] = Nil THEN "create" ELSE "feed")
         /\ Room(g.SessionID)
    /\ UNCHANGED <<table, session, queue, target, D, held, aclCache, control,
                   age, todo, errNil, events, wasIdle>>

\* feed allocates a new entry and inserts it in the map.
NewSession ==
    /\ pc[RunLoop] = "create"
    /\ \E e \in Entry :
         /\ ID[e] = Nil
         /\ ID' = [ID EXCEPT ![e] = msg.SessionID]
         /\ m' = [m EXCEPT ![msg.SessionID] = e]
         /\ cur' = [cur EXCEPT ![RunLoop] = e]
         /\ Touch(e)
    /\ Goto(RunLoop, "feed")
    /\ UNCHANGED <<session, feeding, control, todo, errNil, events, wasIdle>>

\* Feed up to the hook: refresh Last, defragment, then write, or hold back.
Feed ==
    /\ pc[RunLoop] = "feed"
    /\ LET e == cur[RunLoop]
           r == DefraggerFeed(D[e], msg)
       IN  /\ Touch(e)
           /\ D' = [D EXCEPT ![e] = r.d]
           /\ \/ /\ r.out = NoMsg
                 /\ Goto(RunLoop, "recv")
                 /\ UNCHANGED <<queue, held>>
              \/ /\ r.out # NoMsg /\ conn[e] # "nil"
                 /\ queue' = <<r.out.Addr>>
                 /\ Goto(RunLoop, "write")
                 /\ UNCHANGED held
              \/ /\ r.out # NoMsg /\ conn[e] = "nil"
                 /\ held' = [held EXCEPT ![e] = Append(@, r.out.Addr)]
                 /\ Goto(RunLoop, "hook")
                 /\ UNCHANGED queue
    /\ UNCHANGED <<table, session, msg, target, aclCache, control, cur, todo,
                   errNil, events, wasIdle>>

\* The hook fails: the session is closed with its error.
HookFails ==
    /\ pc[RunLoop] = "hook"
    /\ GotoClose(RunLoop, cur[RunLoop], FALSE)
    /\ UNCHANGED <<table, session, feeding, control, age, todo, events, wasIdle>>

\* The hook wants to see more packets, or settles on an address.
Hook ==
    /\ pc[RunLoop] = "hook"
    /\ \/ /\ Len(held[cur[RunLoop]]) < MaxHeld
          /\ Goto(RunLoop, "recv")
          /\ UNCHANGED target
       \/ /\ target' \in Addrs
          /\ Goto(RunLoop, "init")
    /\ UNCHANGED <<table, session, msg, queue, D, held, aclCache, control, age,
                   cur, todo, errNil, events, wasIdle>>

SessionExited(e) == closed[e]

\* initConn enters its critical section.
InitConn ==
    /\ pc[RunLoop] = "init"
    /\ LET e == cur[RunLoop]
       IN  /\ connLock[e] = Nil
           /\ IF SessionExited(e)
              THEN Goto(RunLoop, "recv") /\ UNCHANGED connLock
              ELSE /\ connLock' = [connLock EXCEPT ![e] = RunLoop]
                   /\ Goto(RunLoop, "dial")
    /\ UNCHANGED <<table, closed, conn, override, original, feeding, control,
                   age, cur, todo, errNil, events, wasIdle>>

\* DialFunc fails, because the policy rejects the address or otherwise.
DialFails ==
    /\ pc[RunLoop] = "dial"
    /\ connLock' = [connLock EXCEPT ![cur[RunLoop]] = Nil]
    /\ GotoClose(RunLoop, cur[RunLoop], FALSE)
    /\ UNCHANGED <<table, closed, conn, override, original, feeding, control,
                   age, todo, events, wasIdle>>

\* DialFunc succeeds: the rest of initConn and of Feed up to the writes.
DialSucceeds ==
    /\ pc[RunLoop] = "dial"
    /\ target \in Allowed
    /\ LET e == cur[RunLoop]
           first == Head(held[e])
           same == target = first
       IN  /\ conn' = [conn EXCEPT ![e] = "open"]
           /\ override' = [override EXCEPT ![e] = IF same THEN @ ELSE target]
           /\ original' = [original EXCEPT ![e] = IF same THEN @ ELSE first]
           /\ aclCache' = [aclCache EXCEPT ![e] = IF same
                                                  THEN [a \in {first} |-> TRUE]
                                                  ELSE @]
           /\ connLock' = [connLock EXCEPT ![e] = Nil]
           /\ queue' = held[e]
           /\ held' = [held EXCEPT ![e] = <<>>]
           /\ pc' = [pc EXCEPT ![RunLoop] = "write", ![e] = "read"]
           /\ cur' = [cur EXCEPT ![e] = e]
    /\ UNCHANGED <<table, closed, msg, target, D, control, age, todo, errNil,
                   events, wasIdle>>

\* checkAddr: the cached decision, or the policy's, which is then cached.
Permits(e, a) ==
    IF a \in DOMAIN aclCache[e] THEN aclCache[e][a] ELSE a \in Allowed

\* The cache c after the policy was asked about a: at the limit any one
\* address makes room.
CacheWith(c, a) ==
    LET decided(S) == [x \in S \cup {a} |-> IF x = a THEN a \in Allowed ELSE c[x]]
    IN  IF a \in DOMAIN c THEN {c}
        ELSE IF Cardinality(DOMAIN c) >= MaxACLCache
        THEN {decided(DOMAIN c \ {k}) : k \in DOMAIN c}
        ELSE {decided(DOMAIN c)}

\* Mutant of WriteAddr: the override is forgotten.
WriteAddrOfMessage(e, a) == a

\* The address write sends a message for a to.
WriteAddr(e, a) == IF override[e] # NoAddr THEN override[e] ELSE a

\* write of the next message.  An error ends Feed, and with it the loop over
\* the messages that were held back.
Write ==
    /\ pc[RunLoop] = "write"
    /\ LET e == cur[RunLoop]
           addr == WriteAddr(e, Head(queue))
           permitted == override[e] # NoAddr \/ Permits(e, addr)
       IN  /\ \/ override[e] # NoAddr /\ UNCHANGED aclCache
              \/ /\ override[e] = NoAddr
                 /\ \E c \in CacheWith(aclCache[e], addr) :
                      aclCache' = [aclCache EXCEPT ![e] = c]
           /\ lastWrite' = IF permitted THEN <<e, addr>> ELSE lastWrite
           /\ \/ /\ permitted /\ conn[e] = "open"
                 /\ queue' = Tail(queue)
                 /\ Goto(RunLoop, IF Len(queue) = 1 THEN "recv" ELSE "write")
              \/ /\ queue' = <<>>
                 /\ Goto(RunLoop, "recv")
    /\ UNCHANGED <<table, session, msg, target, D, held, control, age, cur,
                   todo, errNil, closeLog, lastReply, wasIdle>>

\* Mutants of Snapshot: at the end of Run only idle sessions are taken; idle
\* includes a session whose age is the timeout; no session ever counts as idle.
SnapshotAlwaysIdleOnly(idleOnly) ==
    {e \in {m[s] : s \in Sessions} \ {Nil} : age[e] > IdleTimeout}
SnapshotEarly(idleOnly) ==
    {e \in {m[s] : s \in Sessions} \ {Nil} : idleOnly => age[e] >= IdleTimeout}
SnapshotLate(idleOnly) ==
    {e \in {m[s] : s \in Sessions} \ {Nil} : idleOnly => age[e] > IdleTimeout + 1}

\* The entries cleanup(idleOnly) collects under m.mutex.
Snapshot(idleOnly) ==
    {e \in {m[s] : s \in Sessions} \ {Nil} : idleOnly => age[e] > IdleTimeout}

\* ReceiveMessage fails: the connection is down, or the traffic logger asks to
\* disconnect the client and ReceiveMessage closes the connection.  The
\* deferred cleanup(false) takes every entry of the map.
ReceiveFails ==
    /\ pc[RunLoop] = "recv"
    /\ ioAlive' = FALSE
    /\ draining' = TRUE
    /\ todo' = [todo EXCEPT ![RunLoop] = Snapshot(FALSE)]
    /\ Goto(RunLoop, "cleanup")
    /\ UNCHANGED <<table, session, feeding, stopped, age, cur, errNil, events,
                   wasIdle>>

\* Mutant of RunReturns: stopCh is not closed.
RunReturnsSilently ==
    /\ pc[RunLoop] = "cleanup"
    /\ todo[RunLoop] = {}
    /\ Goto(RunLoop, "done")
    /\ UNCHANGED <<table, session, feeding, control, age, cur, todo, errNil,
                   events, wasIdle>>

\* close(stopCh) and Run returns.
RunReturns ==
    /\ pc[RunLoop] = "cleanup"
    /\ todo[RunLoop] = {}
    /\ stopped' = TRUE
    /\ Goto(RunLoop, "done")
    /\ UNCHANGED <<table, session, feeding, draining, ioAlive, age, cur, todo,
                   errNil, events, wasIdle>>

-----------------------------------------------------------------------------
(***************************************************************************)
(* cleanup, shared by RunLoop and IdleLoop, and idleCleanupLoop.           *)
(***************************************************************************)

\* The next entry of the snapshot.
CleanupNext(p) ==
    /\ pc[p] = "cleanup"
    /\ \E e \in todo[p] :
         /\ todo' = [todo EXCEPT ![p] = @ \ {e}]
         /\ GotoClose(p, e, TRUE)
    /\ UNCHANGED <<table, session, feeding, control, age, events, wasIdle>>

\* The ticker fires: cleanup(true) takes a snapshot of the idle entries.
IdleScan ==
    /\ pc[IdleLoop] = "tick"
    /\ todo' = [todo EXCEPT ![IdleLoop] = Snapshot(TRUE)]
    /\ Goto(IdleLoop, "cleanup")
    /\ UNCHANGED <<table, session, feeding, control, age, cur, errNil, events,
                   wasIdle>>

IdleScanDone ==
    /\ pc[IdleLoop] = "cleanup"
    /\ todo[IdleLoop] = {}
    /\ Goto(IdleLoop, "tick")
    /\ UNCHANGED <<table, session, feeding, control, age, cur, todo, errNil,
                   events, wasIdle>>

IdleStop ==
    /\ pc[IdleLoop] = "tick"
    /\ stopped
    /\ Goto(IdleLoop, "done")
    /\ UNCHANGED <<table, session, feeding, control, age, cur, todo, errNil,
                   events, wasIdle>>

-----------------------------------------------------------------------------
(***************************************************************************)
(* receiveLoop of entry e, with sendMessageAutoFrag: whether the message   *)
(* leaves whole or in fragments, the send succeeds or fails as a whole.    *)
(***************************************************************************)

ReadFails(e) ==
    /\ pc[e] = "read"
    /\ GotoClose(e, e, FALSE)
    /\ UNCHANGED <<table, session, feeding, control, age, todo, events, wasIdle>>

ReadPacket(e) ==
    /\ pc[e] = "read"
    /\ conn[e] = "open"
    /\ Touch(e)
    /\ \E rAddr \in Addrs :
         lastReply' = <<e, rAddr, IF original[e] # NoAddr THEN original[e] ELSE rAddr>>
    /\ Goto(e, "send")
    /\ UNCHANGED <<table, session, feeding, control, cur, todo, errNil,
                   closeLog, lastWrite, wasIdle>>

SendSucceeds(e) ==
    /\ pc[e] = "send"
    /\ Goto(e, "read")
    /\ UNCHANGED <<table, session, feeding, control, age, cur, todo, errNil,
                   events, wasIdle>>

\* A fragment is still too large, the connection is down, or the traffic
\* logger asks to disconnect and SendMessage closes the connection.
SendFails(e) ==
    /\ pc[e] = "send"
    /\ ioAlive' \in {ioAlive, FALSE}
    /\ GotoClose(e, e, FALSE)
    /\ UNCHANGED <<table, session, feeding, draining, stopped, age, todo,
                   events, wasIdle>>

-----------------------------------------------------------------------------
(***************************************************************************)
(* The environment, and the specification.                                 *)
(***************************************************************************)

ConnectionLost ==
    /\ ioAlive
    /\ ioAlive' = FALSE
    /\ UNCHANGED <<table, session, feeding, draining, stopped, age, pc, cur,
                   todo, errNil, events, wasIdle>>

\* Time passes for the sessions that are in the map.
Tick ==
    /\ \E s \in Sessions : m[s] # Nil /\ age[m[s]] <= IdleTimeout
    /\ age' = [e \in Entry |->
                 IF ID[e] # Nil /\ age[e] <= IdleTimeout THEN age[e] + 1 ELSE age[e]]
    /\ wasIdle' = [e \in Entry |-> wasIdle[e] \/ age'[e] > IdleTimeout]
    /\ UNCHANGED <<table, session, feeding, control, pc, cur, todo, errNil, events>>

\* Everything has returned.
Terminated ==
    /\ pc[RunLoop] = "done" /\ pc[IdleLoop] = "done"
    /\ \A e \in Entry : pc[e] \in {"off", "done"}
    /\ UNCHANGED vars

RunStep ==
    \/ ReceiveMessage \/ NewSession \/ Feed \/ HookFails \/ Hook \/ InitConn
    \/ DialFails \/ DialSucceeds \/ Write \/ ReceiveFails \/ RunReturns
    \/ CleanupNext(RunLoop) \/ CloseWithErr(RunLoop) \/ ExitFunc(RunLoop)

IdleStep ==
    \/ IdleScan \/ IdleScanDone \/ IdleStop
    \/ CleanupNext(IdleLoop) \/ CloseWithErr(IdleLoop) \/ ExitFunc(IdleLoop)

ReceiveLoop(e) ==
    \/ ReadFails(e) \/ ReadPacket(e) \/ SendSucceeds(e) \/ SendFails(e)
    \/ CloseWithErr(e) \/ ExitFunc(e)

Next ==
    \/ RunStep \/ IdleStep
    \/ \E e \in Entry : ReceiveLoop(e)
    \/ ConnectionLost \/ Tick \/ Terminated

Spec == Init /\ [][Next]_vars

(***************************************************************************)
(* Fairness.  The Go scheduler runs every goroutine that can run; hooks,   *)
(* dials, writes and sends return; reading a closed connection fails; time *)
(* passes.  Nothing obliges the client to send or the target to answer.    *)
(* The two choices that stay open while others are taken need strong       *)
(* fairness: ReceiveMessage fails once QUIC's queue is drained, and the    *)
(* idle loop finds stopCh closed when the ticker is not ready.             *)
(***************************************************************************)
RunProgress ==
    \/ NewSession \/ Feed \/ HookFails \/ Hook \/ InitConn
    \/ DialFails \/ DialSucceeds \/ Write \/ RunReturns
    \/ CleanupNext(RunLoop) \/ CloseWithErr(RunLoop) \/ ExitFunc(RunLoop)

ReceiveProgress(e) ==
    \/ conn[e] = "closed" /\ ReadFails(e)
    \/ SendSucceeds(e) \/ SendFails(e) \/ CloseWithErr(e) \/ ExitFunc(e)

Fairness ==
    /\ WF_vars(RunProgress)
    /\ SF_vars(~ioAlive /\ ReceiveFails)
    /\ WF_vars(IdleStep)
    /\ SF_vars(IdleStop)
    /\ \A e \in Entry : WF_vars(ReceiveProgress(e))
    /\ WF_vars(Tick)

FairSpec == Spec /\ Fairness

-----------------------------------------------------------------------------
(***************************************************************************)
(* Properties                                                              *)
(***************************************************************************)

Labels == {"recv", "create", "feed", "hook", "init", "dial", "write", "tick",
           "cleanup", "close", "exit", "off", "read", "send", "done"}

\* Contents of a decision cache.
Decisions == UNION {[S -> BOOLEAN] : S \in SUBSET Addrs}

\* Every variable has its type (the Defragger apart).
TypeOK ==
    /\ m \in [Sessions -> Entry \cup {Nil}]
    /\ ID \in [Entry -> Sessions \cup {Nil}]
    /\ closed \in [Entry -> BOOLEAN]
    /\ conn \in [Entry -> {"nil", "open", "closed"}]
    /\ override \in [Entry -> Addrs \cup {NoAddr}]
    /\ original \in [Entry -> Addrs \cup {NoAddr}]
    /\ held \in [Entry -> Seq(Addrs)]
    /\ aclCache \in [Entry -> Decisions]
    /\ age \in [Entry -> 0..(IdleTimeout + 1)]
    /\ connLock \in [Entry -> {Nil, RunLoop}]
    /\ pc \in [Procs -> Labels]
    /\ cur \in [Procs -> Entry \cup {Nil}]
    /\ todo \in [Procs -> SUBSET Entry]
    /\ errNil \in [Procs -> BOOLEAN]
    /\ msg \in Messages \cup {NoMsg}
    /\ queue \in Seq(Addrs)
    /\ target \in Addrs \cup {NoAddr}
    /\ draining \in BOOLEAN /\ stopped \in BOOLEAN /\ ioAlive \in BOOLEAN
    /\ closeLog \in [Entry -> Seq(BOOLEAN)]
    /\ wasIdle \in [Entry -> BOOLEAN]
    /\ lastWrite \in {Nil} \cup (Entry \X Addrs)
    /\ lastReply \in {Nil} \cup (Entry \X Addrs \X Addrs)

\* The map holds exactly the sessions that have not been reported closed: an
\* entry is found under its ID from feed's insertion until its own ExitFunc.
\* ExitFunc deletes by session ID, after connLock is released, so this fails if
\* an entry could leave the map twice and take a newer session of that ID along.
TableExact ==
    /\ \A s \in Sessions : m[s] # Nil => ID[m[s]] = s
    /\ \A e \in Entry :
         ID[e] # Nil => (m[ID[e]] = e <=> closeLog[e] = <<>>)

\* However many goroutines call CloseWithErr (idle cleanup, a failed read or
\* send, a failed hook or dial, the end of Run), the Close event of a session
\* is logged at most once, and only for a session that is closed.
CloseLoggedOnce ==
    \A e \in Entry : /\ Len(closeLog[e]) <= 1
                     /\ closeLog[e] # <<>> => closed[e]

\* "We need this lock to ensure not to create conn after session exit": a
\* closed session has no open connection, though the idle loop may close it
\* while initConn is dialing.
NoConnAfterClose == \A e \in Entry : closed[e] => conn[e] # "open"

\* When Run returns every session it ever created is closed, its connection
\* with it, even those other goroutines were closing at the same time.
ReturnedClean ==
    pc[RunLoop] = "done" =>
      \A e \in Entry : /\ ID[e] # Nil => closed[e]
                       /\ conn[e] # "open"

\* While Run serves, a session closed without error (by idle cleanup) has at
\* some time been idle for longer than the timeout.
NoEarlyIdleClose ==
    \A e \in Entry : \A i \in 1..Len(closeLog[e]) : closeLog[e][i] => wasIdle[e] \/ draining

\* Where packets go: once the hook replaced the address, every packet of the
\* session goes to the replacement and every reply bears the address the client
\* used; otherwise packets go only where the policy permits, whatever the
\* decision cache remembers, and replies bear the address they came from.
RoutesRespected ==
    /\ lastWrite # Nil =>
         LET e == lastWrite[1] a == lastWrite[2]
         IN  a = override[e] \/ (override[e] = NoAddr /\ a \in Allowed)
    /\ lastReply # Nil =>
         LET e == lastReply[1]
         IN  lastReply[3] = IF override[e] # NoAddr THEN original[e]
                            ELSE lastReply[2]

\* No session stays idle for good: as long as nothing is heard of a session
\* after its timeout, the idle loop will close it, dials in progress included.
IdleSessionsClose ==
    \A e \in Entry : []<>(ID[e] = Nil \/ closed[e] \/ age[e] <= IdleTimeout)

\* After the QUIC connection is lost everything winds down: the map empties,
\* and Run, the idle loop and every receive loop return.
ShutsDown ==
    ~ioAlive ~> [](/\ \A s \in Sessions : m[s] = Nil
                   /\ pc[RunLoop] = "done" /\ pc[IdleLoop] = "done"
                   /\ \A e \in Entry : pc[e] \in {"off", "done"})

-----------------------------------------------------------------------------
(***************************************************************************)
(* What the comments say and the code does not do                          *)
(***************************************************************************)

\* The comment on udpSessionManager: a session is destroyed "when no UDP message
\* is received for a certain period of time (specified by idleTimeout)", so the
\* idle loop closes no session that was heard of within that time.
IdleCloseIsFresh ==
    [][\A e \in Entry :
         /\ pc[IdleLoop] = "close" /\ cur[IdleLoop] = e
         /\ ~closed[e] /\ closed'[e]
         => age[e] > IdleTimeout]_vars

\* The comment on Feed: messages held back "are written together once the hook
\* is done with them": Feed does not leave its loop before the last of them.
HeldWrittenTogether ==
    [][pc[RunLoop] = "write" /\ pc'[RunLoop] # "write" => Len(queue) = 1]_vars

\* Idle sessions are closed, and everything returns once the QUIC connection is
\* lost.
SessionsEnd == IdleSessionsClose /\ ShutsDown
=============================================================================
