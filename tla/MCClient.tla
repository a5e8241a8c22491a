------------------------------ MODULE MCClient ------------------------------
(***************************************************************************)
(* The client and the realm it can find its server through, for TLC: each  *)
(* part on its own.  part says which of them a behaviour is about.         *)
(***************************************************************************)
EXTENDS Reconnect, ClientCore, RealmRuntime, RealmSetup

VARIABLE part

mcVars == <<vars, ccVars, rtVars, stunVars, setupVars, part>>

MCInit ==
    /\ part \in {"reconnect", "core", "runtime", "stun", "setup"}
    /\ part = "reconnect" \/ (part # "reconnect" /\ client = Nil)
    /\ part = "core" \/ (part # "core" /\ FastOpen = FALSE)
    /\ part = "setup" \/ (part # "setup" /\ role = "client" /\ mapper = "off")
    /\ Init /\ ClientCoreInit /\ RuntimeInit /\ StunInit /\ SetupInit

Except(p, q, v) == IF p = q THEN TRUE ELSE UNCHANGED v

\* A step of one part leaves the others alone.
Only(p, A) ==
    /\ part = p /\ A /\ UNCHANGED part
    /\ Except(p, "reconnect", vars) /\ Except(p, "core", ccVars)
    /\ Except(p, "runtime", rtVars)
    /\ Except(p, "stun", stunVars) /\ Except(p, "setup", setupVars)

MCNext ==
    \/ Only("reconnect", Next) \/ Only("core", ClientCoreNext)
    \/ Only("runtime", RuntimeNext)
    \/ Only("stun", StunNext) \/ Only("setup", SetupNext)

\* Goroutines that can run do, the waiters of a mutex are not starved, timers
\* fire, and a request that is repeated for ever is answered at last.  A
\* behaviour is about one part, so an action of one part shares a conjunct with
\* an action of another.
MCFairness ==
    /\ WF_mcVars(Only("core", ClientCoreStep)
                 \/ Only("runtime", RunStep) \/ Only("stun", \E d \in Discoverers : StunFinish(d))
                 \/ Only("setup", MapLoopEnds))
    /\ WF_mcVars(Only("runtime", ctxDone /\ RegisterFails))
    /\ WF_mcVars(Only("runtime", \E s \in Sessions : LoopStops(s)))
    /\ SF_mcVars(Only("runtime", RegisterArrives) \/ Only("reconnect", Enter(1)))
    /\ SF_mcVars(Only("runtime", RegisterOK) \/ Only("reconnect", Enter(2)))
    /\ \A i \in {1, 2} :
         /\ WF_mcVars(Only("runtime", HeartbeatTick(i)) \/ Only("reconnect", ClientDo(i)))
         /\ SF_mcVars(Only("runtime", HeartbeatOK(i) \/ HeartbeatInvalid(i))
                      \/ Only("reconnect", Drop(i)))

MCSpec == MCInit /\ [][MCNext]_mcVars /\ MCFairness

\* Every call returns, of the reconnecting client, on a stream, for the public
\* addresses, and the one that removes a port mapping; a realm that lost its
\* session or changed its addresses is registered anew, and its runtime ends.
CallsEnd ==
    /\ CallsReturn /\ TCPReturns /\ DiscoverReturns /\ MappingRemoved
    /\ Reregisters /\ AddrsPublished /\ RuntimeEnds
=============================================================================
