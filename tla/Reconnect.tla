------------------------------ MODULE Reconnect ------------------------------
(***************************************************************************)
(* The reconnecting client, core/client/reconnect.go: goroutines (Callers) *)
(* call TCP or UDP on one reconnectableClientImpl, which connects on       *)
(* demand, hands the call to its current client outside the lock, and      *)
(* drops that client when the call reports it closed.  What clientImpl     *)
(* (core/client/client.go) does is reduced to its status and to what its   *)
(* calls may return in that status.                                        *)
(***************************************************************************)
EXTENDS Integers, FiniteSets

CONSTANTS
    Callers,  \* goroutines calling TCP, UDP or Close
    Clients,  \* pool of clientImpl objects, each connected at most once
    Nil       \* nil interface, unlocked mutex

ASSUME ReconnectAssumption == Nil \notin Callers \cup Clients

VARIABLES
    \* reconnectableClientImpl
    client, count, closed,
    m,         \* holder of the mutex over several steps, Nil if free
    \* clientImpl
    status,    \* "new", "up", "down" (connection lost), "closed" (Close called)
    \* goroutines
    pc,        \* "idle", "enter" (in m.Lock), "connect", "call", "drop"
    mine,      \* the local variable client of clientDo
    \* History, read by the properties only
    reported   \* clients of which a call said ClosedError

vars == <<client, count, closed, m, status, pc, mine, reported>>

\* NewReconnectableClient: lazily, or after a first connection.
Init ==
    /\ \/ /\ client = Nil /\ count = 0
          /\ status = [c \in Clients |-> "new"]
       \/ /\ client \in Clients /\ count = 1
          /\ status = [c \in Clients |-> IF c = client THEN "up" ELSE "new"]
    /\ closed = FALSE
    /\ m = Nil
    /\ pc = [p \in Callers |-> "idle"]
    /\ mine = [p \in Callers |-> Nil]
    /\ reported = {}

Goto(p, label) == pc' = [pc EXCEPT ![p] = label]

\* TCP or UDP is called.
Call(p) ==
    /\ pc[p] = "idle"
    /\ Goto(p, "enter")
    /\ UNCHANGED <<client, count, closed, m, status, mine, reported>>

\* Mutant of PermanentlyClosed: clientDo does not look at closed.
NeverClosed == FALSE

PermanentlyClosed == closed

\* clientDo gets the lock and returns ClosedError, or connects, or goes on with
\* the current client.
Enter(p) ==
    /\ pc[p] = "enter" /\ m = Nil
    /\ \/ /\ PermanentlyClosed
          /\ Goto(p, "idle")
          /\ UNCHANGED <<m, mine>>
       \/ /\ ~PermanentlyClosed /\ client = Nil
          /\ m' = p
          /\ Goto(p, "connect")
          /\ UNCHANGED mine
       \/ /\ ~PermanentlyClosed /\ client # Nil
          /\ mine' = [mine EXCEPT ![p] = client]
          /\ Goto(p, "call")
          /\ UNCHANGED m
    /\ UNCHANGED <<client, count, closed, status, reported>>

\* status once reconnect closed the client it replaces.
OldClosed ==
    IF client = Nil THEN status ELSE [status EXCEPT ![client] = "closed"]

\* reconnect: configFunc or NewClient fails.  NewClient returned a nil client;
\* configFunc fails before the assignment, with the client nil already.
ConnectFails(p) ==
    /\ pc[p] = "connect"
    /\ client' = Nil
    /\ status' = OldClosed
    /\ m' = Nil
    /\ Goto(p, "idle")
    /\ UNCHANGED <<count, closed, mine, reported>>

CountUp == count' = count + 1

\* reconnect succeeds, connectedFunc included, and clientDo releases the lock.
ConnectSucceeds(p) ==
    /\ pc[p] = "connect"
    /\ \E c \in Clients :
         /\ status[c] = "new"
         /\ client' = c
         /\ status' = [OldClosed EXCEPT ![c] = "up"]
         /\ mine' = [mine EXCEPT ![p] = c]
    /\ CountUp
    /\ m' = Nil
    /\ Goto(p, "call")
    /\ UNCHANGED <<closed, reported>>

\* f(client) returns a connection, or an error other than ClosedError.  UDP may
\* do so on a lost connection too, before its session manager noticed.
CallReturns(p) ==
    /\ pc[p] = "call"
    /\ Goto(p, "idle")
    /\ UNCHANGED <<client, count, closed, m, status, mine, reported>>

\* f(client) returns ClosedError: the connection is gone, or only the stream
\* failed: wrapIfConnectionClosed wraps every error but StreamLimitReached.
CallReportsClosed(p) ==
    /\ pc[p] = "call"
    /\ reported' = reported \cup {mine[p]}
    /\ Goto(p, "drop")
    /\ UNCHANGED <<client, count, closed, m, status, mine>>

\* Mutant of StillCurrent: whatever client there is now is dropped.
AnyClient(p) == TRUE

\* "in case the client is already changed by another goroutine"
StillCurrent(p) == client = mine[p]

\* clientDo drops the client that was reported closed.
Drop(p) ==
    /\ pc[p] = "drop" /\ m = Nil
    /\ client' = IF StillCurrent(p) THEN Nil ELSE client
    /\ Goto(p, "idle")
    /\ UNCHANGED <<count, closed, m, status, mine, reported>>

\* Close, which may be called again.
Close ==
    /\ m = Nil
    /\ closed' = TRUE
    /\ status' = OldClosed
    /\ UNCHANGED <<client, count, m, pc, mine, reported>>

ConnectionLost(c) ==
    /\ status[c] = "up"
    /\ status' = [status EXCEPT ![c] = "down"]
    /\ UNCHANGED <<client, count, closed, m, pc, mine, reported>>

ClientDo(p) ==
    \/ Enter(p) \/ ConnectFails(p) \/ ConnectSucceeds(p)
    \/ CallReturns(p) \/ CallReportsClosed(p) \/ Drop(p)

Next ==
    \/ \E p \in Callers : Call(p) \/ ClientDo(p)
    \/ Close
    \/ \E c \in Clients : ConnectionLost(c)

Spec == Init /\ [][Next]_vars

\* configFunc, NewClient and the client's calls return; a goroutine waiting for
\* the mutex gets it, since sync.Mutex does not starve its waiters.
Fairness ==
    \A p \in Callers : /\ WF_vars(ClientDo(p))
                       /\ SF_vars(Enter(p))
                       /\ SF_vars(Drop(p))

FairSpec == Spec /\ Fairness

-----------------------------------------------------------------------------
(***************************************************************************)
(* Properties                                                              *)
(***************************************************************************)

\* Every variable has its type, and count is the number of clients connected.
TypeOK ==
    /\ client \in Clients \cup {Nil}
    /\ count = Cardinality({c \in Clients : status[c] # "new"})
    /\ closed \in BOOLEAN
    /\ m \in Callers \cup {Nil}
    /\ status \in [Clients -> {"new", "up", "down", "closed"}]
    /\ pc \in [Callers -> {"idle", "enter", "connect", "call", "drop"}]
    /\ mine \in [Callers -> Clients \cup {Nil}]
    /\ reported \subseteq Clients

\* "permanently close this client": once Close was called the current client is
\* closed and stays so, whatever connects, calls and drops were in progress.
CloseIsPermanent == closed => client = Nil \/ status[client] = "closed"

\* No client is forgotten without a cause: every client but the current one was
\* reported closed by a call made on that client.  A goroutine that comes late
\* with the error of an old client does not drop the one that replaced it.
OnlyReportedDropped ==
    \A c \in Clients : status[c] # "new" => c = client \/ c \in reported

\* Nobody connects after Close.
NoConnectAfterClose == [][closed => count' = count]_vars

\* Every call of TCP or UDP returns.
CallsReturn == \A p \in Callers : pc[p] = "enter" ~> pc[p] = "idle"

\* The comment where clientDo drops the client: "Connection closed, set client
\* to nil for reconnect next time": the client it sets to nil is one whose
\* connection is gone.
DroppedClientIsClosed ==
    [][client # Nil /\ client' = Nil => status[client] # "up"]_vars
=============================================================================
