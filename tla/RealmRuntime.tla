---------------------------- MODULE RealmRuntime ----------------------------
(***************************************************************************)
(* realmServerRuntime of app/cmd/server.go: it keeps the server registered *)
(* with a rendezvous server, with a heartbeat loop and an events loop for  *)
(* each session, re-registers when a session is lost, refreshes the        *)
(* addresses it publishes, and deregisters when it is closed.  Requests    *)
(* (extras/realm/client.go) may fail before or after they took effect.     *)
(***************************************************************************)
EXTENDS Integers

CONSTANTS
    MaxSession,    \* sessions the rendezvous server hands out
    RealmAddrs,    \* external addresses of the server
    MaxMoves       \* how often the external address changes

ASSUME RealmRuntimeAssumption == MaxSession \in Nat /\ MaxMoves \in Nat

VARIABLES
    \* The world
    extAddr, moves,   \* the external address, and how often it changed
    rzLive,           \* sessions the rendezvous server knows
    rzAddr,           \* the address it has for the latest of them
    rzNext,           \* the next session id
    \* The runtime
    ctxDone, closePC, runPC, regReply,
    session,          \* r.session
    addrs,            \* r.addrs
    \* The loops of each session
    cancelled, heartbeatPC, eventsPC, lastPublished, sessionLost,
    \* History
    hbFailed,         \* a heartbeat with addresses failed in the current session
    raced             \* Close deregistered while a registration was on its way

rtVars == <<extAddr, moves, rzLive, rzAddr, rzNext, ctxDone, closePC, runPC,
            regReply, session, addrs, cancelled, heartbeatPC, eventsPC,
            lastPublished, sessionLost, hbFailed, raced>>
rtHistory == <<hbFailed, raced>>
world == <<extAddr, moves, rzLive, rzAddr, rzNext>>
main == <<ctxDone, closePC, runPC, regReply, session, addrs>>
loops == <<cancelled, heartbeatPC, eventsPC, lastPublished, sessionLost>>

Sessions == 1 .. MaxSession

\* startRealmServerRuntime discovered the address, registered and started run.
RuntimeInit ==
    /\ extAddr = (CHOOSE a \in RealmAddrs : TRUE) /\ moves = 0
    /\ rzLive = {1} /\ rzAddr = extAddr /\ rzNext = 2
    /\ ctxDone = FALSE /\ closePC = "no" /\ runPC = "session" /\ regReply = 0
    /\ session = 1 /\ addrs = extAddr
    /\ cancelled = {}
    /\ heartbeatPC = [s \in Sessions |-> IF s = 1 THEN "select" ELSE "none"]
    /\ eventsPC = [s \in Sessions |-> IF s = 1 THEN "connect" ELSE "none"]
    /\ lastPublished = [s \in Sessions |-> extAddr]
    /\ sessionLost = {}
    /\ hbFailed = FALSE /\ raced = FALSE

-----------------------------------------------------------------------------
(***************************************************************************)
(* The world                                                               *)
(***************************************************************************)

AddrMoves(a) ==
    /\ moves < MaxMoves /\ a # extAddr
    /\ moves' = moves + 1 /\ extAddr' = a
    /\ UNCHANGED <<rzLive, rzAddr, rzNext, main, loops, rtHistory>>

\* External: the rendezvous server drops a session, or restarts.
SessionExpires(s) ==
    /\ s \in rzLive /\ s < MaxSession
    /\ rzLive' = rzLive \ {s}
    /\ UNCHANGED <<extAddr, moves, rzAddr, rzNext, main, loops, rtHistory>>

-----------------------------------------------------------------------------
(***************************************************************************)
(* run                                                                     *)
(***************************************************************************)

\* Mutant of Cancel: runSession does not cancel its context.
CancelNot(s) == cancelled' = cancelled

Cancel(s) == cancelled' = cancelled \cup {s}

\* runSession returns with the first result of the two loops.
SessionEnds ==
    /\ runPC = "session" /\ session \in sessionLost
    /\ Cancel(session)
    /\ runPC' = IF ctxDone THEN "end" ELSE "refresh"
    /\ UNCHANGED <<world, ctxDone, closePC, regReply, session, addrs, heartbeatPC,
                   eventsPC, lastPublished, sessionLost, rtHistory>>

\* refreshAddrs before re-registering; its failure is only logged.
RunRefresh ==
    /\ runPC = "refresh"
    /\ addrs' \in {addrs, extAddr}
    /\ runPC' = IF ctxDone THEN "end" ELSE "register"
    /\ UNCHANGED <<world, ctxDone, closePC, regReply, session, loops, rtHistory>>

\* The rendezvous server accepts the registration; the reply is on its way.
RegisterArrives ==
    /\ runPC = "register" /\ rzNext <= MaxSession /\ ~ctxDone
    /\ rzLive' = rzLive \cup {rzNext} /\ rzNext' = rzNext + 1
    /\ rzAddr' = addrs
    /\ regReply' = rzNext
    /\ runPC' = "reply"
    /\ UNCHANGED <<extAddr, moves, ctxDone, closePC, session, addrs, loops, rtHistory>>

NewSession == regReply

\* The reply arrives: setSession, and runSession starts the loops.
RegisterOK ==
    /\ runPC = "reply"
    /\ session' = NewSession
    /\ runPC' = IF ctxDone THEN "end" ELSE "session"
    /\ IF ctxDone THEN UNCHANGED <<heartbeatPC, eventsPC, lastPublished>>
       ELSE /\ heartbeatPC' = [heartbeatPC EXCEPT ![regReply] = "select"]
            /\ eventsPC' = [eventsPC EXCEPT ![regReply] = "connect"]
            /\ lastPublished' = [lastPublished EXCEPT ![regReply] = addrs]
    /\ regReply' = 0
    /\ hbFailed' = FALSE
    /\ UNCHANGED <<world, ctxDone, closePC, addrs, cancelled, sessionLost, raced>>

\* The request or its reply is lost, or the context is done: back off and retry.
RegisterFails ==
    /\ runPC \in {"register", "reply"}
    /\ runPC' = IF ctxDone THEN "end" ELSE "refresh"
    /\ regReply' = 0
    /\ UNCHANGED <<world, ctxDone, closePC, session, addrs, loops, rtHistory>>

\* isRealmRegisterFatal: the rendezvous server answers 400.
RegisterFatal ==
    /\ runPC = "register"
    /\ runPC' = "end"
    /\ UNCHANGED <<world, ctxDone, closePC, regReply, session, addrs, loops, rtHistory>>

\* Close cancels, then takes the session to deregister.
RuntimeClose ==
    /\ closePC = "no"
    /\ ctxDone' = TRUE /\ closePC' = "deregister"
    /\ UNCHANGED <<world, runPC, regReply, session, addrs, loops, rtHistory>>

DeregisterTarget == session

Deregister ==
    /\ closePC = "deregister"
    /\ \/ closePC' = "ok" /\ rzLive' = rzLive \ {DeregisterTarget}
       \/ closePC' = "failed" /\ UNCHANGED rzLive
    /\ raced' = (runPC = "reply")
    /\ UNCHANGED <<extAddr, moves, rzAddr, rzNext, ctxDone, runPC, regReply, session,
                   addrs, loops, hbFailed>>

-----------------------------------------------------------------------------
(***************************************************************************)
(* The loops of session s                                                  *)
(***************************************************************************)

\* The context of the session is done.
Done(s) == ctxDone \/ s \in cancelled

\* Mutant of SessionInvalid: the status of the answer is not looked at.
SessionInvalidIgnored(s) == FALSE

\* isRealmSessionInvalid: the rendezvous server answers 401 or 404.
SessionInvalid(s) == s \notin rzLive

AddrsChanged(s) == addrs # lastPublished[s]

\* A loop returns, and its result is in errCh.
LoopEnds(pc, s) ==
    /\ pc' = [pc EXCEPT ![s] = "end"]
    /\ sessionLost' = sessionLost \cup {s}

\* A tick: the request carries the address if it changed since the last one.
HeartbeatTick(s) ==
    /\ heartbeatPC[s] = "select"
    /\ heartbeatPC' = [heartbeatPC EXCEPT
         ![s] = IF AddrsChanged(s) THEN "update" ELSE "keep"]
    /\ lastPublished' = [lastPublished EXCEPT ![s] = addrs]
    /\ UNCHANGED <<world, main, cancelled, eventsPC, sessionLost, rtHistory>>

HeartbeatOK(s) ==
    /\ heartbeatPC[s] \in {"update", "keep"} /\ s \in rzLive
    /\ rzAddr' = IF heartbeatPC[s] = "update" THEN lastPublished[s] ELSE rzAddr
    /\ heartbeatPC' = [heartbeatPC EXCEPT ![s] = "select"]
    /\ UNCHANGED <<extAddr, moves, rzLive, rzNext, main, cancelled, eventsPC,
                   lastPublished, sessionLost, rtHistory>>

\* errRealmSessionInvalid
HeartbeatInvalid(s) ==
    /\ heartbeatPC[s] \in {"update", "keep"} /\ SessionInvalid(s)
    /\ LoopEnds(heartbeatPC, s)
    /\ UNCHANGED <<world, main, cancelled, eventsPC, lastPublished, rtHistory>>

\* The request fails: go on, or, once the TTL has passed, errRealmSessionLost.
HeartbeatFails(s) ==
    /\ heartbeatPC[s] \in {"update", "keep"}
    /\ \/ LoopEnds(heartbeatPC, s)
       \/ /\ heartbeatPC' = [heartbeatPC EXCEPT ![s] = "select"]
          /\ UNCHANGED sessionLost
    /\ hbFailed' = (hbFailed \/ heartbeatPC[s] = "update")
    /\ UNCHANGED <<world, main, cancelled, eventsPC, lastPublished, raced>>

HeartbeatDone(s) ==
    /\ heartbeatPC[s] # "none" /\ heartbeatPC[s] # "end" /\ Done(s)
    /\ LoopEnds(heartbeatPC, s)
    /\ UNCHANGED <<world, main, cancelled, eventsPC, lastPublished, rtHistory>>

\* eventsLoop: a stream of the session is opened, delivers, and drops.
EventsConnect(s) ==
    /\ eventsPC[s] = "connect" /\ s \in rzLive
    /\ eventsPC' = [eventsPC EXCEPT ![s] = "stream"]
    /\ UNCHANGED <<world, main, cancelled, heartbeatPC, lastPublished, sessionLost,
                   rtHistory>>

EventsInvalid(s) ==
    /\ eventsPC[s] = "connect" /\ SessionInvalid(s)
    /\ LoopEnds(eventsPC, s)
    /\ UNCHANGED <<world, main, cancelled, heartbeatPC, lastPublished, rtHistory>>

\* The request fails: sleep and retry, or errRealmSessionLost.
EventsLost(s) ==
    /\ eventsPC[s] = "connect"
    /\ LoopEnds(eventsPC, s)
    /\ UNCHANGED <<world, main, cancelled, heartbeatPC, lastPublished, rtHistory>>

EventsDrop(s) ==
    /\ eventsPC[s] = "stream"
    /\ eventsPC' = [eventsPC EXCEPT ![s] = "connect"]
    /\ UNCHANGED <<world, main, cancelled, heartbeatPC, lastPublished, sessionLost,
                   rtHistory>>

EventsDone(s) ==
    /\ eventsPC[s] \in {"connect", "stream"} /\ Done(s)
    /\ LoopEnds(eventsPC, s)
    /\ UNCHANGED <<world, main, cancelled, heartbeatPC, lastPublished, rtHistory>>

\* A punch event: respond refreshes the addresses when the cache is too old.
RespondRefresh(s) ==
    /\ eventsPC[s] = "stream" /\ ~Done(s)
    /\ addrs' = extAddr
    /\ UNCHANGED <<world, ctxDone, closePC, runPC, regReply, session, loops, rtHistory>>

HeartbeatStep(s) == HeartbeatTick(s) \/ HeartbeatOK(s) \/ HeartbeatInvalid(s)
LoopStops(s) == HeartbeatDone(s) \/ EventsDone(s)
RunStep == SessionEnds \/ RunRefresh \/ RegisterArrives \/ RegisterFatal

RuntimeNext ==
    \/ \E a \in RealmAddrs : AddrMoves(a)
    \/ RunStep \/ RegisterOK \/ RegisterFails \/ RuntimeClose \/ Deregister
    \/ \E s \in Sessions :
         \/ SessionExpires(s) \/ HeartbeatStep(s) \/ HeartbeatFails(s) \/ LoopStops(s)
         \/ EventsConnect(s) \/ EventsInvalid(s) \/ EventsLost(s) \/ EventsDrop(s)
         \/ RespondRefresh(s)

-----------------------------------------------------------------------------
(***************************************************************************)
(* Properties                                                              *)
(***************************************************************************)

\* Only the loops of the session the runtime believes in run on: a session that
\* was given up has its loops cancelled before the next one is registered.
OneSessionRuns ==
    \A s \in Sessions :
      heartbeatPC[s] \notin {"none", "end"} /\ s # session => Done(s)

\* A Close that deregistered without error leaves nothing at the rendezvous
\* server, unless it overtook a registration whose reply was still on its way.
ClosedIsGone ==
    closePC = "ok" /\ runPC = "end" /\ ~raced => session \notin rzLive

\* A session the rendezvous server has forgotten is replaced, unless the runtime
\* is closed or its registration is refused.
Reregisters ==
    session \notin rzLive ~> session \in rzLive \/ ctxDone \/ runPC = "end"
        \/ rzNext > MaxSession

\* After Close every goroutine of the runtime comes to an end.
RuntimeEnds ==
    ctxDone ~> /\ runPC = "end"
               /\ \A s \in Sessions : /\ heartbeatPC[s] \in {"none", "end"}
                                      /\ eventsPC[s] \in {"none", "end"}

\* Addresses found by a refresh reach the rendezvous server with a later
\* heartbeat.  A heartbeat that carried them and failed is the exception: the
\* loop has recorded them as published and does not send them again.
AddrsPublished ==
    addrs # rzAddr /\ runPC = "session"
      ~> addrs = rzAddr \/ hbFailed \/ runPC # "session" \/ ctxDone

\* The server is registered in one session at a time, and in none once it is
\* closed.
RealmKept == OneSessionRuns /\ ClosedIsGone
=============================================================================
