----------------------------- MODULE Forwarding ------------------------------
(***************************************************************************)
(* UDPTunnel: a local UDP port whose packets are forwarded to one remote   *)
(* address, with a session of the Hysteria client for every sender.  The   *)
(* serving goroutine creates the sessions, a goroutine per session         *)
(* receives, and a ticker closes the sessions that are idle.               *)
(***************************************************************************)
EXTENDS Naturals

CONSTANTS
    Senders,        \* addresses that send to the local port
    MaxSessions     \* bound on the sessions created

ASSUME ForwardingAssumption == MaxSessions \in Nat

VARIABLES
    fwMap,          \* UDPTunnel.m: the session of a sender, 0 if it has none
    fwSession,      \* the sessions: see NoSession
    fwUsed,         \* sessions created so far
    fwFeed,         \* where the serving goroutine is, and with what
    fwServing       \* "serving", "failed" (ReadFrom failed) or "stopped"

fwVars == <<fwMap, fwSession, fwUsed, fwFeed, fwServing>>

Sessions == 1 .. MaxSessions

\* sender, whether HyConn is open, sessionEntry.Timeout, whether Last is older
\* than the timeout, and where the receiving goroutine is.
NoSession == [sender |-> 0, open |-> FALSE, timeout |-> FALSE, idle |-> FALSE, loop |-> "none"]

FeedAt(pc, a, s) == [pc |-> pc, sender |-> a, session |-> s]

ForwardingInit ==
    /\ fwMap = [a \in Senders |-> 0]
    /\ fwSession = [s \in Sessions |-> NoSession]
    /\ fwUsed = 0 /\ fwServing = "serving"
    /\ fwFeed = FeedAt("read", 0, 0)

-----------------------------------------------------------------------------
\* Mutant of Known: a session closed for its idleness does not count.
KnownOpen(a) == fwMap[a] # 0 /\ ~fwSession[fwMap[a]].timeout

\* The sender has a session.
Known(a) == fwMap[a] # 0

\* Serve reads a packet, and feed looks its sender up.
FeedLookup ==
    /\ fwServing = "serving" /\ fwFeed.pc = "read"
    /\ \E a \in Senders :
         fwFeed' = IF Known(a) THEN FeedAt("send", a, fwMap[a]) ELSE FeedAt("create", a, 0)
    /\ UNCHANGED <<fwMap, fwSession, fwUsed, fwServing>>

\* feed opens a session and starts its receiving goroutine, or fails to.
FeedCreate ==
    /\ fwFeed.pc = "create"
    /\ \/ /\ fwUsed < MaxSessions /\ fwUsed' = fwUsed + 1
          /\ fwSession' = [fwSession EXCEPT ![fwUsed + 1] =
                             [NoSession EXCEPT !.sender = fwFeed.sender, !.open = TRUE, !.loop = "receiving"]]
          /\ fwFeed' = FeedAt("insert", fwFeed.sender, fwUsed + 1)
       \/ fwFeed' = FeedAt("read", 0, 0) /\ UNCHANGED <<fwSession, fwUsed>>
    /\ UNCHANGED <<fwMap, fwServing>>

\* feed puts the session in the map, after its goroutine was started.
FeedInsert ==
    /\ fwFeed.pc = "insert"
    /\ fwMap' = [fwMap EXCEPT ![fwFeed.sender] = fwFeed.session]
    /\ fwFeed' = FeedAt("send", fwFeed.sender, fwFeed.session)
    /\ UNCHANGED <<fwSession, fwUsed, fwServing>>

\* sessionEntry.Feed: the time is noted before the packet is sent, and an error
\* of Send is dropped.
FeedSend ==
    /\ fwFeed.pc = "send"
    /\ fwSession' = [fwSession EXCEPT ![fwFeed.session].idle = FALSE]
    /\ fwFeed' = FeedAt("read", 0, 0)
    /\ UNCHANGED <<fwMap, fwUsed, fwServing>>

\* ReceiveLoop: a packet came and was written to the sender.
LoopReceives(s) ==
    /\ fwSession[s].loop = "receiving" /\ fwSession[s].open /\ fwSession[s].idle
    /\ fwSession' = [fwSession EXCEPT ![s].idle = FALSE]
    /\ UNCHANGED <<fwMap, fwUsed, fwFeed, fwServing>>

\* ReceiveLoop returns: its connection is closed, or Receive or WriteTo failed.
LoopFails(s) ==
    /\ fwSession[s].loop = "receiving"
    /\ fwSession' = [fwSession EXCEPT ![s].loop = "returned"]
    /\ UNCHANGED <<fwMap, fwUsed, fwFeed, fwServing>>

\* The goroutine closes the session unless it was closed for its idleness.
LoopCloses(s) ==
    /\ fwSession[s].loop = "returned"
    /\ fwSession' = [fwSession EXCEPT ![s].loop = "deleting",
                                      ![s].open = fwSession[s].open /\ fwSession[s].timeout]
    /\ UNCHANGED <<fwMap, fwUsed, fwFeed, fwServing>>

\* The goroutine removes what the map has for its sender.
LoopDeletes(s) ==
    /\ fwSession[s].loop = "deleting"
    /\ fwSession' = [fwSession EXCEPT ![s].loop = "ended"]
    /\ fwMap' = [fwMap EXCEPT ![fwSession[s].sender] = 0]
    /\ UNCHANGED <<fwUsed, fwFeed, fwServing>>

\* The sessions of the map that cleanup closes.
ToClose(s, idleOnly) == ~idleOnly \/ fwSession[s].idle

\* UDPTunnel.cleanup, under the read lock.
Cleanup(idleOnly) ==
    fwSession' = [s \in Sessions |->
        IF (\E a \in Senders : fwMap[a] = s) /\ ToClose(s, idleOnly)
        THEN [fwSession[s] EXCEPT !.timeout = TRUE, !.open = FALSE] ELSE fwSession[s]]

\* The ticker of idleCleanupLoop.
IdleCleanup ==
    /\ fwServing # "stopped" /\ Cleanup(TRUE) /\ fwSession' # fwSession
    /\ UNCHANGED <<fwMap, fwUsed, fwFeed, fwServing>>

\* ReadFrom fails, and Serve returns through its deferred cleanup(false).
ServeFails ==
    /\ fwServing = "serving" /\ fwFeed.pc = "read" /\ fwServing' = "failed"
    /\ UNCHANGED <<fwMap, fwSession, fwUsed, fwFeed>>

ServeReturns ==
    /\ fwServing = "failed" /\ fwServing' = "stopped" /\ Cleanup(FALSE)
    /\ UNCHANGED <<fwMap, fwUsed, fwFeed>>

\* The timeout passes since the last packet of a session.
SessionIdles(s) ==
    /\ fwSession[s].loop # "none" /\ ~fwSession[s].idle
    /\ fwSession' = [fwSession EXCEPT ![s].idle = TRUE]
    /\ UNCHANGED <<fwMap, fwUsed, fwFeed, fwServing>>

ForwardingStep ==
    \/ FeedLookup \/ FeedCreate \/ FeedInsert \/ FeedSend \/ IdleCleanup \/ ServeFails \/ ServeReturns
    \/ \E s \in Sessions : LoopReceives(s) \/ LoopFails(s) \/ LoopCloses(s) \/ LoopDeletes(s)

ForwardingNext == ForwardingStep \/ \E s \in Sessions : SessionIdles(s)

\* A goroutine that can go on does: a receiving one when its connection is
\* closed, the serving one within feed, the ticker.
FeedStep == FeedCreate \/ FeedInsert \/ FeedSend
LoopStep(s) == (~fwSession[s].open /\ LoopFails(s)) \/ LoopCloses(s) \/ LoopDeletes(s)

ForwardingFairness ==
    /\ WF_fwVars(FeedStep) /\ WF_fwVars(IdleCleanup) /\ WF_fwVars(ServeReturns)
    /\ \A s \in Sessions : WF_fwVars(LoopStep(s))

ForwardingSpec == ForwardingInit /\ [][ForwardingNext]_fwVars /\ ForwardingFairness

-----------------------------------------------------------------------------
(***************************************************************************)
(* Properties                                                              *)
(***************************************************************************)

\* A session whose goroutine is receiving is one that cleanup can find: it is
\* in the map or feed is about to put it there (forwarding/udp.go:152-175).
ReceivingIsMapped ==
    \A s \in Sessions : fwSession[s].loop = "receiving" =>
        fwMap[fwSession[s].sender] = s \/ (fwFeed.pc = "insert" /\ fwFeed.session = s)

\* Although the goroutine of a session removes by sender, it never removes the
\* session of another goroutine (forwarding/udp.go:168-170).
DeletesOwn ==
    \A s \in Sessions : fwSession[s].loop = "deleting" /\ fwSession'[s].loop = "ended" =>
      fwMap[fwSession[s].sender] \in {0, s}

\* When Serve has returned every session is closed and every goroutine has
\* ended (forwarding/udp.go:77-93, 108-127).
AllClosedAfterServe ==
    fwServing = "stopped" ~>
        \A s \in Sessions : fwSession[s].loop \in {"none", "ended"} /\ ~fwSession[s].open

\* "Closing the connection here will cause the ReceiveLoop to exit, and the
\* session will be removed from the map there." (forwarding/udp.go:123-124)
ClosedIsRemoved ==
    \A s \in Sessions : fwSession[s].timeout ~> \A a \in Senders : fwMap[a] # s

\* Until its receive loop ends a session can be found by cleanup, and nobody but
\* its own loop takes it out of the map.
SessionsOwned == [][ReceivingIsMapped /\ ReceivingIsMapped' /\ DeletesOwn]_fwVars
=============================================================================
