------------------------------- MODULE Punch -------------------------------
(***************************************************************************)
(* Hole punching of extras/realm: the client's Punch (punch_engine.go),    *)
(* the server's Respond with its dispatcher (server_punch.go), and the     *)
(* connection that takes punch packets out of the stream of QUIC packets   *)
(* (punch_conn.go), over a network that loses, repeats and reorders.  A    *)
(* packet is encoded with the metadata of its attempt, so that it decodes  *)
(* for that attempt and for no other (punch.go).                           *)
(***************************************************************************)
EXTENDS Integers, Sequences

CONSTANTS
    Attempts,     \* nonces
    Responders,   \* goroutines calling Respond
    EventBuf,     \* capacity of the channels of events
    Nobody

ASSUME PunchAssumption == EventBuf \in Nat \ {0} /\ Nobody \notin Responders

VARIABLES
    punchNet,     \* packets sent so far
    clientPC,     \* Punch of an attempt: "idle", "punch", "hello", "ack", "timeout"
    attempts,     \* ServerPuncher.attempts: the goroutine whose channel it is
    connAttempts, \* PunchPacketConn.attempts
    events,       \* PunchPacketConn.events
    dispatching,  \* event and channel that dispatch holds between its two selects
    rPC, rID, rEvents, rResult   \* Respond

punchVars == <<punchNet, clientPC, attempts, connAttempts, events, dispatching,
               rPC, rID, rEvents, rResult>>

NoEvent == [id |-> "none", type |-> "none", sent |-> "none"]

PunchInit ==
    /\ punchNet = {}
    /\ clientPC = [a \in Attempts |-> "idle"]
    /\ attempts = [a \in Attempts |-> Nobody]
    /\ connAttempts = {}
    /\ events = <<>>
    /\ dispatching = <<>>
    /\ rPC = [r \in Responders |-> "idle"]
    /\ rID = [r \in Responders |-> Nobody]
    /\ rEvents = [r \in Responders |-> <<>>]
    /\ rResult = [r \in Responders |-> NoEvent]

Packet(dst, a, type) == [dst |-> dst, id |-> a, type |-> type]

\* sendPunchPacket, sendPunchPackets
SendPunch(dst, a, type) == punchNet' = punchNet \cup {Packet(dst, a, type)}

\* What both sides send until they hear from the other.
Opening == "hello"

\* A channel with a default case next to it takes an event.
Room(queue) == Len(queue) < EventBuf

RGoto(r, label) == rPC' = [rPC EXCEPT ![r] = label]

-----------------------------------------------------------------------------
(***************************************************************************)
(* The client                                                              *)
(***************************************************************************)

\* Punch begins, and from then on repeats its hello.
PunchStart(a) ==
    /\ clientPC[a] = "idle"
    /\ clientPC' = [clientPC EXCEPT ![a] = "punch"]
    /\ SendPunch("server", a, Opening)
    /\ UNCHANGED <<attempts, connAttempts, events, dispatching, rPC, rID, rEvents,
                   rResult>>

\* A packet that decodes with the metadata of the attempt ends it.
PunchReads(a, type) ==
    /\ clientPC[a] = "punch" /\ Packet("client", a, type) \in punchNet
    /\ clientPC' = [clientPC EXCEPT ![a] = type]
    /\ IF type = "hello" THEN SendPunch("server", a, "ack") ELSE UNCHANGED punchNet
    /\ UNCHANGED <<attempts, connAttempts, events, dispatching, rPC, rID, rEvents,
                   rResult>>

PunchTimeout(a) ==
    /\ clientPC[a] = "punch"
    /\ clientPC' = [clientPC EXCEPT ![a] = "timeout"]
    /\ UNCHANGED <<punchNet, attempts, connAttempts, events, dispatching, rPC, rID,
                   rEvents, rResult>>

-----------------------------------------------------------------------------
(***************************************************************************)
(* The server                                                              *)
(***************************************************************************)

\* addAttempt accepts the id.
Unused(a) == attempts[a] = Nobody

\* Respond for an event of the rendezvous server, which may come twice: the
\* first half of addAttempt.
RespondStart(r, a) ==
    /\ rPC[r] = "idle" /\ clientPC[a] # "idle"
    /\ rID' = [rID EXCEPT ![r] = a]
    /\ IF Unused(a)
       THEN attempts' = [attempts EXCEPT ![a] = r] /\ RGoto(r, "add")
       ELSE UNCHANGED attempts /\ RGoto(r, "end")
    /\ UNCHANGED <<punchNet, clientPC, connAttempts, events, dispatching, rEvents,
                   rResult>>

\* AddPunchAttempt, and the first hello; the ticker repeats it.
RespondAdd(r) ==
    /\ rPC[r] = "add"
    /\ connAttempts' = connAttempts \cup {rID[r]}
    /\ SendPunch("client", rID[r], Opening)
    /\ RGoto(r, "select")
    /\ UNCHANGED <<clientPC, attempts, events, dispatching, rID, rEvents, rResult>>

RespondEvent(r) ==
    /\ rPC[r] = "select" /\ rEvents[r] # <<>>
    /\ rResult' = [rResult EXCEPT ![r] = Head(rEvents[r])]
    /\ IF Head(rEvents[r]).type = "hello"
       THEN SendPunch("client", rID[r], "ack") ELSE UNCHANGED punchNet
    /\ RGoto(r, "remove")
    /\ UNCHANGED <<clientPC, attempts, connAttempts, events, dispatching, rID,
                   rEvents>>

\* The timeout, or the context of the session is cancelled.
CtxDone(r) == rPC[r] = "select"

RespondTimeout(r) ==
    /\ CtxDone(r)
    /\ RGoto(r, "remove")
    /\ UNCHANGED <<punchNet, clientPC, attempts, connAttempts, events, dispatching,
                   rID, rEvents, rResult>>

\* Mutant of RemoveFrom: the two maps are left in the opposite order.
RemoveReversed(r, step) ==
    IF step = 2 THEN connAttempts' = connAttempts \ {rID[r]} /\ UNCHANGED attempts
    ELSE attempts' = [attempts EXCEPT ![rID[r]] = Nobody] /\ UNCHANGED connAttempts

\* The two steps of removeAttempt.
RemoveFrom(r, step) ==
    IF step = 1 THEN connAttempts' = connAttempts \ {rID[r]} /\ UNCHANGED attempts
    ELSE attempts' = [attempts EXCEPT ![rID[r]] = Nobody] /\ UNCHANGED connAttempts

RespondRemove(r) ==
    /\ \/ rPC[r] = "remove" /\ RemoveFrom(r, 1) /\ RGoto(r, "remove2")
       \/ rPC[r] = "remove2" /\ RemoveFrom(r, 2) /\ RGoto(r, "end")
    /\ UNCHANGED <<punchNet, clientPC, events, dispatching, rID, rEvents, rResult>>

\* DecodePunchPacket with the metadata of attempt a
Decodes(p, a) == p.id = a

\* ReadFrom takes a packet of a registered attempt out; others go to QUIC, and
\* what finds the channel full is dropped.
ConnReads(p) ==
    /\ p.dst = "server" /\ Room(events)
    /\ \E a \in connAttempts :
         /\ Decodes(p, a)
         /\ events' = Append(events, [id |-> a, type |-> p.type, sent |-> p.id])
    /\ UNCHANGED <<punchNet, clientPC, attempts, connAttempts, dispatching, rPC, rID,
                   rEvents, rResult>>

\* dispatch receives an event and looks its channel up.
Dispatch ==
    /\ dispatching = <<>> /\ events # <<>>
    /\ events' = Tail(events)
    /\ dispatching' = IF attempts[Head(events).id] = Nobody THEN <<>>
                      ELSE <<Head(events), attempts[Head(events).id]>>
    /\ UNCHANGED <<punchNet, clientPC, attempts, connAttempts, rPC, rID, rEvents,
                   rResult>>

\* It sends without waiting; the goroutine may have gone in the meantime.
DispatchSend ==
    /\ dispatching # <<>>
    /\ LET r == dispatching[2]
       IN  rEvents' = IF Room(rEvents[r])
                      THEN [rEvents EXCEPT ![r] = Append(@, dispatching[1])]
                      ELSE rEvents
    /\ dispatching' = <<>>
    /\ UNCHANGED <<punchNet, clientPC, attempts, connAttempts, events, rPC, rID,
                   rResult>>

RespondStep(r) == RespondAdd(r) \/ RespondEvent(r) \/ RespondTimeout(r) \/ RespondRemove(r)

PunchNext ==
    \/ \E a \in Attempts :
         \/ PunchStart(a) \/ PunchTimeout(a)
         \/ \E type \in {"hello", "ack"} : PunchReads(a, type)
         \/ \E r \in Responders : RespondStart(r, a)
    \/ \E r \in Responders : RespondStep(r)
    \/ \E p \in punchNet : ConnReads(p)
    \/ Dispatch \/ DispatchSend

-----------------------------------------------------------------------------
(***************************************************************************)
(* Properties                                                              *)
(***************************************************************************)

\* A goroutine that waits in Respond is reachable: its attempt is in both maps,
\* and with its own channel, whatever other calls for the same id begin or end.
RespondListening ==
    \A r \in Responders :
      rPC[r] = "select" => attempts[rID[r]] = r /\ rID[r] \in connAttempts

\* An attempt stays in the maps only while a goroutine serves it.
AttemptsServed ==
    /\ \A a \in Attempts : attempts[a] # Nobody => rPC[attempts[a]] # "end"
    /\ \A a \in connAttempts : attempts[a] # Nobody

\* Events of one attempt never reach another.
NoCrossTalk ==
    \A r \in Responders :
      /\ \A i \in DOMAIN rEvents[r] : rEvents[r][i].id = rID[r]
      /\ rResult[r] # NoEvent => rResult[r].id = rID[r] /\ rResult[r].sent = rID[r]

\* An ack is the end of an exchange: a client that got one knows that a
\* responder of its attempt succeeded, and a responder that its client did.
AckMeansSuccess ==
    /\ \A a \in Attempts :
         clientPC[a] = "ack" =>
           \E r \in Responders : rID[r] = a /\ rResult[r].type = "hello"
    /\ \A r \in Responders :
         rResult[r].type = "ack" => clientPC[rID[r]] = "hello"

\* Attempts that share the socket do not disturb each other: each is served and
\* succeeds by its own packets only.
PunchesMatched ==
    RespondListening /\ AttemptsServed /\ NoCrossTalk /\ AckMeansSuccess
=============================================================================
