----------------------------- MODULE RealmSetup -----------------------------
(***************************************************************************)
(* How the two sides of a realm acquire their resources and give them      *)
(* back: clientConfig.realmConfig of app/cmd/client.go, fillRealmConn and  *)
(* startRealmServerRuntime of app/cmd/server.go, with the gateway port     *)
(* mapping of app/cmd/realm_portmap.go and extras/realm/portmap.go.        *)
(***************************************************************************)
EXTENDS Integers, Sequences

(***************************************************************************)
(* Address discovery of extras/realm/stun.go on a connection shared with   *)
(* QUIC: DiscoverWithDemux callers send binding requests and take the      *)
(* responses that PunchPacketConn (punch_conn.go) puts on one channel.     *)
(* Calls may overlap, so that one takes what another waits for.            *)
(***************************************************************************)

CONSTANTS
    Discoverers,   \* calls of DiscoverWithDemux
    StunServers,   \* server addresses resolveSTUNServers returns
    StunBuf        \* capacity of the channel

ASSUME StunAssumption == StunBuf \in Nat \ {0}

VARIABLES
    stunPC,         \* "idle", "wait", "ok", "error"
    transactions,   \* requests of a call that are not answered
    stunSent,       \* requests a call has sent
    stunResults,    \* answers a call has accepted, with how often
    stunNet,        \* responses, each of which may arrive repeatedly
    stunChan

stunVars == <<stunPC, transactions, stunSent, stunResults, stunNet, stunChan>>

\* A transaction ID belongs to one request.
Transaction(d, srv) == [by |-> d, server |-> srv]

StunInit ==
    /\ stunPC = [d \in Discoverers |-> "idle"]
    /\ transactions = [d \in Discoverers |-> {}]
    /\ stunSent = [d \in Discoverers |-> {}]
    /\ stunResults = [d \in Discoverers |-> <<>>]
    /\ stunNet = {}
    /\ stunChan = <<>>

\* sendSTUNRequests: the requests that could be written, or an error if none.
StunSend(d, servers) ==
    LET ids == {Transaction(d, s) : s \in servers}
    IN  /\ stunPC[d] = "idle"
        /\ stunPC' = [stunPC EXCEPT ![d] = IF ids = {} THEN "error" ELSE "wait"]
        /\ transactions' = [transactions EXCEPT ![d] = ids]
        /\ stunSent' = [stunSent EXCEPT ![d] = ids]
        /\ stunNet' = stunNet \cup ids
        /\ UNCHANGED <<stunResults, stunChan>>

StunRoom == Len(stunChan) < StunBuf

\* A response arrives; emitSTUN drops it when the channel is full.
StunArrives(t) ==
    /\ t \in stunNet /\ StunRoom
    /\ stunChan' = Append(stunChan, t)
    /\ UNCHANGED <<stunPC, transactions, stunSent, stunResults, stunNet>>

OwnTransaction(d, t) == t \in transactions[d]

\* A call takes an event: its own, or one that it throws away.
StunTake(d) ==
    /\ stunPC[d] = "wait" /\ transactions[d] # {} /\ stunChan # <<>>
    /\ stunChan' = Tail(stunChan)
    /\ IF OwnTransaction(d, Head(stunChan))
       THEN /\ transactions' = [transactions EXCEPT ![d] = @ \ {Head(stunChan)}]
            /\ stunResults' = [stunResults EXCEPT ![d] = Append(@, Head(stunChan))]
       ELSE UNCHANGED <<transactions, stunResults>>
    /\ UNCHANGED <<stunPC, stunSent, stunNet>>

\* finishSTUNResults
StunOutcome(d) == IF stunResults[d] = <<>> THEN "error" ELSE "ok"

\* Every request is answered, or the context is done.
StunMayFinish(d) == stunPC[d] = "wait"

StunFinish(d) ==
    /\ StunMayFinish(d)
    /\ stunPC' = [stunPC EXCEPT ![d] = StunOutcome(d)]
    /\ UNCHANGED <<transactions, stunSent, stunResults, stunNet, stunChan>>

StunNext ==
    \/ \E d \in Discoverers :
         \/ \E servers \in SUBSET StunServers : StunSend(d, servers)
         \/ StunTake(d) \/ StunFinish(d)
    \/ \E t \in stunNet : StunArrives(t)

-----------------------------------------------------------------------------
\* A call counts an answer to each of its own requests once, however often it
\* arrives and whoever else reads from the channel, and it succeeds only with
\* an address.
OwnAnswersOnce ==
    \A d \in Discoverers :
      /\ \A i, j \in DOMAIN stunResults[d] :
           i # j => stunResults[d][i] # stunResults[d][j]
      /\ {stunResults[d][i] : i \in DOMAIN stunResults[d]} =
           stunSent[d] \ transactions[d]
      /\ stunPC[d] = "ok" => stunResults[d] # <<>>

\* Every call returns, even if another takes all its answers.
DiscoverReturns ==
    (\E d \in Discoverers : stunPC[d] = "wait")
      ~> (\A d \in Discoverers : stunPC[d] # "wait")

-----------------------------------------------------------------------------
CONSTANTS Lifetime   \* of a port mapping, in units of time

ASSUME RealmSetupAssumption == Lifetime \in Nat /\ Lifetime >= 2

VARIABLES
    role,        \* "client" or "server"
    setupStep,   \* the next step, or past the last one
    setup,       \* "running", "ok", "failed", "closed"
    baseConn,    \* the UDP socket: "none", "open", "closed"
    mapper,      \* the PortMapper: "off", "none", "held", "closed"
    lease,       \* time the gateway keeps the mapping; 0 is no mapping
    mapLoop,     \* realmPortMapLoop: "none", "select", "end"
    renewIn,     \* time until its ticker fires
    renewFailed  \* the latest renewal failed, or mapping failed half way

setupVars == <<role, setupStep, setup, baseConn, mapper, lease, mapLoop, renewIn,
               renewFailed>>

\* What may fail, in its order.
Steps(r) ==
    IF r = "client"
    THEN <<"listen", "map", "stun", "meta", "connect", "addresses", "punch", "obfs">>
    ELSE <<"listen", "obfs", "map", "stun", "register">>

SetupInit ==
    /\ role \in {"client", "server"}
    /\ setupStep = 1 /\ setup = "running" /\ baseConn = "none"
    /\ mapper \in {"off", "none"}   \* PortMapping.Enabled
    /\ lease = 0 /\ mapLoop = "none" /\ renewIn = 0 /\ renewFailed = FALSE

Step == Steps(role)[setupStep]

SetupAdvance == setupStep' = setupStep + 1

\* A step without resources succeeds.
SetupStepOK ==
    /\ setup = "running" /\ setupStep <= Len(Steps(role))
    /\ Step # "map" \/ mapper = "off"
    /\ baseConn' = IF Step = "listen" THEN "open" ELSE baseConn
    /\ SetupAdvance
    /\ UNCHANGED <<role, setup, mapper, lease, mapLoop, renewIn, renewFailed>>

\* newRealmPortMapper: its failure is not fatal.  Renew fails half way when the
\* mapping is added and the external address is not to be had.
SetupMap ==
    /\ setup = "running" /\ setupStep <= Len(Steps(role)) /\ Step = "map"
    /\ mapper = "none"
    /\ \/ mapper' = "held" /\ lease' = Lifetime /\ UNCHANGED renewFailed
       \/ mapper' = "off" /\ UNCHANGED <<lease, renewFailed>>
       \/ mapper' = "off" /\ lease' = Lifetime /\ renewFailed' = TRUE
    /\ SetupAdvance
    /\ UNCHANGED <<role, setup, baseConn, mapLoop, renewIn>>

\* Mutant of MapperCloses: an error after the mapping leaves it.
MapperStays == UNCHANGED <<mapper, lease>>

\* PortMapper.Close, with a gateway that answers.
MapperCloses ==
    IF mapper = "held" THEN mapper' = "closed" /\ lease' = 0
    ELSE UNCHANGED <<mapper, lease>>

\* An error: what was acquired is given back, in the defers of realmConfig, by
\* cleanupMapper and in fillRealmConn.
SetupFails ==
    /\ setup = "running" /\ setupStep <= Len(Steps(role)) /\ Step # "map"
    /\ setup' = "failed"
    /\ baseConn' = IF baseConn = "open" THEN "closed" ELSE baseConn
    /\ MapperCloses
    /\ UNCHANGED <<role, setupStep, mapLoop, renewIn, renewFailed>>

\* The interval of realmPortMapLoop.
RenewEvery == Lifetime \div 2

\* The last step is done, and the loop is started if there is a mapping.
SetupDone ==
    /\ setup = "running" /\ setupStep > Len(Steps(role))
    /\ setup' = "ok"
    /\ mapLoop' = IF mapper = "held" THEN "select" ELSE "none"
    /\ renewIn' = IF mapper = "held" THEN RenewEvery ELSE 0
    /\ UNCHANGED <<role, setupStep, baseConn, mapper, lease, renewFailed>>

\* Time passes; it does not while the loop has a tick to handle.
SetupTick ==
    /\ mapLoop = "select" /\ renewIn > 0
    /\ renewIn' = renewIn - 1
    /\ lease' = IF lease > 0 THEN lease - 1 ELSE 0
    /\ UNCHANGED <<role, setupStep, setup, baseConn, mapper, mapLoop, renewFailed>>

\* Renew
MapRenew ==
    /\ mapLoop = "select" /\ renewIn = 0
    /\ renewIn' = RenewEvery
    /\ \/ lease' = Lifetime /\ renewFailed' = FALSE
       \/ UNCHANGED lease /\ renewFailed' = TRUE
    /\ UNCHANGED <<role, setupStep, setup, baseConn, mapper, mapLoop>>

\* cleanupPacketConn.Close, or realmServerRuntime.Close with the connection's.
SetupClose ==
    /\ setup = "ok"
    /\ setup' = "closed" /\ baseConn' = "closed"
    /\ UNCHANGED <<role, setupStep, mapper, lease, mapLoop, renewIn, renewFailed>>

\* The context of the loop is done: its defer removes the mapping.
MapLoopEnds ==
    /\ mapLoop = "select" /\ setup = "closed"
    /\ mapLoop' = "end"
    /\ MapperCloses
    /\ UNCHANGED <<role, setupStep, setup, baseConn, renewIn, renewFailed>>

SetupNext ==
    \/ SetupStepOK \/ SetupMap \/ SetupFails \/ SetupDone \/ SetupTick \/ MapRenew
    \/ SetupClose \/ MapLoopEnds

-----------------------------------------------------------------------------
\* A setup that fails at any step leaves no socket open and no mapping behind,
\* except for one the gateway made in a renewal that failed half way, for which
\* there is no mapper.
FailedLeavesNothing ==
    setup = "failed" => baseConn # "open" /\ (lease > 0 => renewFailed /\ mapper = "off")

\* While the connection is in use and renewals succeed, the mapping never runs
\* out.
MappingHeld == mapLoop = "select" /\ ~renewFailed => lease > 0

\* After the connection is closed the mapping is removed.
MappingRemoved == setup = "closed" /\ mapper = "held" ~> mapper = "closed" /\ lease = 0

\* Opening a realm's connection leaves nothing behind when it fails, its mapping
\* is held as long as it is, and a STUN response counts for its own request.
SetupSafe == FailedLeavesNothing /\ MappingHeld /\ OwnAnswersOnce
=============================================================================
