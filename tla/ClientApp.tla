----------------------------- MODULE ClientApp ------------------------------
(***************************************************************************)
(* The life of a client process: runClient and clientModeRunner            *)
(* (app/cmd/client.go), and StartFromJSON, the same for the Python binding *)
(* (app/cmd/python_binding.go).  The client and the TUN are set up, every  *)
(* mode runs in a goroutine, and a signal or the first failure of a mode   *)
(* ends the process.                                                       *)
(***************************************************************************)
EXTENDS Integers, Sequences, FiniteSets, SequencesExt

CONSTANTS
    ProxyModes      \* the configured modes other than TUN

VARIABLES
    caModes,    \* the configured modes
    caStage,    \* where the main goroutine is
    caClient,   \* "none", "open" or "closed"
    caTun,      \* the same, of the TUN
    caNotify,   \* whether signals go to signalChan
    caSignal,   \* whether one waits there
    caRunner,   \* clientModeRunner.Run: "off", "running" or "done"
    caMode,     \* each mode: "off", "running", or its result until it is sent
    caFailed,   \* the modes that have failed
    caErrChan,  \* errChan
    caGot,      \* the results Run has received
    caResult,   \* runnerChan: "none", "ok" or "fail"
    caExit      \* "no", "returned", "fatal" or "killed"

caVars == <<caModes, caStage, caClient, caTun, caNotify, caSignal, caRunner, caMode,
            caFailed, caErrChan, caGot, caResult, caExit>>

AllModes == ProxyModes \cup {"TUN"}

ClientAppInit ==
    /\ caModes \in SUBSET AllModes
    /\ caStage = "config" /\ caClient = "none" /\ caTun = "none"
    /\ caNotify = FALSE /\ caSignal = FALSE
    /\ caRunner = "off" /\ caMode = [m \in AllModes |-> "off"] /\ caFailed = {}
    /\ caErrChan = <<>> /\ caGot = 0 /\ caResult = "none" /\ caExit = "no"

Up == caExit = "no"
caRun == <<caRunner, caMode, caFailed, caErrChan, caGot, caResult>>

Fatal == caExit' = "fatal" /\ caStage' = "gone"

\* The configuration and the client; either may fail.
NewReconnectableClient ==
    /\ Up /\ caStage = "config"
    /\ \/ Fatal /\ UNCHANGED caClient
       \/ caClient' = "open" /\ caStage' = "tun" /\ UNCHANGED caExit
    /\ UNCHANGED <<caModes, caTun, caNotify, caSignal, caRun>>

newTUNServer ==
    /\ Up /\ caStage = "tun"
    /\ \/ "TUN" \in caModes /\ caClient' = "closed" /\ Fatal /\ UNCHANGED caTun
       \/ /\ caTun' = IF "TUN" \in caModes THEN "open" ELSE "none"
          /\ caStage' = "notify" /\ UNCHANGED <<caClient, caExit>>
    /\ UNCHANGED <<caModes, caNotify, caSignal, caRun>>

\* signal.Notify, and the goroutine of Run.
StartRunner ==
    /\ Up /\ caStage = "notify"
    /\ caNotify' = TRUE /\ caStage' = "select"
    /\ \/ caModes = {} /\ caRunner' = "done" /\ caResult' = "fail" /\ UNCHANGED caMode
       \/ /\ caModes # {} /\ caRunner' = "running" /\ UNCHANGED caResult
          /\ caMode' = [m \in AllModes |-> IF m \in caModes THEN "running" ELSE "off"]
    /\ UNCHANGED <<caModes, caClient, caTun, caSignal, caFailed, caErrChan, caGot, caExit>>

\* A signal: to the channel, which holds one, or by default the end.
Signal ==
    /\ Up
    /\ \/ caNotify /\ caSignal' = TRUE /\ UNCHANGED <<caExit, caStage>>
       \/ ~caNotify /\ caExit' = "killed" /\ caStage' = "gone" /\ UNCHANGED caSignal
    /\ UNCHANGED <<caModes, caClient, caTun, caNotify, caRun>>

ModeReturns(m) ==
    /\ Up /\ caMode[m] = "running"
    /\ \E r \in {"nil", "error"} :
         /\ caMode' = [caMode EXCEPT ![m] = r]
         /\ caFailed' = IF r = "error" THEN caFailed \cup {m} ELSE caFailed
    /\ UNCHANGED <<caModes, caStage, caClient, caTun, caNotify, caSignal, caRunner,
                   caErrChan, caGot, caResult, caExit>>

\* The capacity of errChan.
ErrChanSize == Cardinality(caModes)

ModeSends(m) ==
    /\ Up /\ caMode[m] \in {"nil", "error"} /\ Len(caErrChan) < ErrChanSize
    /\ caErrChan' = Append(caErrChan, caMode[m])
    /\ caMode' = [caMode EXCEPT ![m] = "off"]
    /\ UNCHANGED <<caModes, caStage, caClient, caTun, caNotify, caSignal, caRunner,
                   caFailed, caGot, caResult, caExit>>

\* Run returns at the first error, or when every mode has returned.
RunReceives ==
    /\ Up /\ caRunner = "running" /\ caErrChan # <<>>
    /\ caErrChan' = Tail(caErrChan)
    /\ caGot' = caGot + 1
    /\ caResult' = CASE Head(caErrChan) = "error" -> "fail"
                     [] Head(caErrChan) # "error" /\ caGot' = Cardinality(caModes) -> "ok"
                     [] OTHER -> "none"
    /\ caRunner' = IF caResult' = "none" THEN "running" ELSE "done"
    /\ UNCHANGED <<caModes, caStage, caClient, caTun, caNotify, caSignal, caMode, caFailed, caExit>>

\* The select: return, or the cleanup before Fatal, which runs no deferred call.
\* On return the calls deferred run last to first, signal.Stop before the others.
Select ==
    /\ Up /\ caStage = "select"
    /\ \/ /\ caSignal \/ caResult = "ok"
          /\ caStage' = "return" /\ caNotify' = FALSE
       \/ /\ caResult = "fail"
          /\ caStage' = "fatal" /\ UNCHANGED caNotify
    /\ UNCHANGED <<caModes, caClient, caTun, caSignal, caRun, caExit>>

CloseTUN ==
    /\ Up /\ caStage \in {"return", "fatal"} /\ caTun = "open"
    /\ caTun' = "closed"
    /\ UNCHANGED <<caModes, caStage, caClient, caNotify, caSignal, caRun, caExit>>

CloseClient ==
    /\ Up /\ caStage \in {"return", "fatal"} /\ caTun # "open" /\ caClient = "open"
    /\ caClient' = "closed"
    /\ UNCHANGED <<caModes, caStage, caTun, caNotify, caSignal, caRun, caExit>>

\* What is closed before the process exits.
Cleaned == caTun # "open" /\ caClient # "open"

Exit ==
    /\ Up /\ caStage \in {"return", "fatal"} /\ Cleaned
    /\ caExit' = IF caStage = "return" THEN "returned" ELSE "fatal"
    /\ caStage' = "gone"
    /\ UNCHANGED <<caModes, caClient, caTun, caNotify, caSignal, caRun>>

ClientAppStep ==
    \/ NewReconnectableClient \/ newTUNServer \/ StartRunner \/ RunReceives
    \/ Select \/ CloseTUN \/ CloseClient \/ Exit
    \/ \E m \in AllModes : ModeSends(m)

ClientAppNext == ClientAppStep \/ Signal \/ \E m \in AllModes : ModeReturns(m)

-----------------------------------------------------------------------------
\* A client that ends by itself, well or not, has removed what the TUN added to
\* the system and closed its connection (app/cmd/client.go:916-957).
ExitIsClean == caExit \in {"returned", "fatal"} => caTun # "open" /\ caClient # "open"

\* No mode is left waiting to report, also after Run has returned at an error
\* of another (client.go:987-993).
NoModeStuck ==
    Cardinality({ m \in AllModes : caMode[m] \in {"nil", "error"} }) + Len(caErrChan)
        <= ErrChanSize

\* The client reports success only when every mode has ended without an error
\* (client.go:995-1004).
OKMeansAllDone ==
    caResult = "ok" => caFailed = {} /\ \A m \in AllModes : caMode[m] = "off"

\* The failure of one mode ends the client, whatever the others do: until it has
\* ended there is a step to take, and there are finitely many (client.go:940-957).
FailureEndsClient == caFailed # {} /\ caExit = "no" => ENABLED ClientAppStep

-----------------------------------------------------------------------------
(***************************************************************************)
(* The TUN inbound's life: Serve sets up a chain of resources, each built  *)
(* on the ones before it, and waits; Close, from any goroutine and at any  *)
(* time, takes them down.  The mutex makes start and closeLocked atomic.   *)
(***************************************************************************)

CONSTANT TunClosers     \* goroutines that call Close

VARIABLES
    tnServe,        \* where Serve is: "idle", "waiting" or "returned"
    tnClosed,       \* Server.closed
    tnDone,         \* Server.done: "none", "open" or "closed"
    tnClosers,      \* Server.closers
    tnOpen,         \* resources that are set up
    tnTorn,         \* resources in the order they were closed
    tnCallers       \* goroutines that have yet to call Close

tnVars == <<tnServe, tnClosed, tnDone, tnClosers, tnOpen, tnTorn, tnCallers>>

\* The resources of start, in order.  The stack and the interface are also
\* started, at the end, when all are in closers.
TunChain == <<"context", "network monitor", "interface monitor", "interface", "stack">>

TunInit ==
    /\ tnServe = "idle" /\ tnClosed = FALSE /\ tnDone = "none"
    /\ tnClosers = << >> /\ tnOpen = {} /\ tnTorn = << >> /\ tnCallers = TunClosers

-----------------------------------------------------------------------------
\* slices.Backward(s.closers).
Teardown(closers) == Reverse(closers)

\* done is closed if Serve made it.
Woken(done) == IF done = "none" THEN "none" ELSE "closed"

\* closeLocked on what is set up.
CloseLocked(closers, open, done) ==
    /\ tnClosed' = TRUE /\ tnClosers' = << >>
    /\ tnTorn' = tnTorn \o Teardown(closers) /\ tnOpen' = open \ ToSet(closers)
    /\ tnDone' = Woken(done)

\* Serve on a server that is closed already.
ServeClosed ==
    /\ tnServe = "idle" /\ tnClosed /\ tnServe' = "returned"
    /\ UNCHANGED <<tnClosed, tnDone, tnClosers, tnOpen, tnTorn, tnCallers>>

\* start failed with these resources set up.
AfterFailure(set) == CloseLocked(set, ToSet(set), "open")

\* Serve: start goes through, or fails after n resources, or at a Start of the
\* last two, and takes down what it had set up.
Serve ==
    /\ tnServe = "idle" /\ ~tnClosed
    /\ \/ /\ tnServe' = "waiting" /\ tnClosers' = TunChain /\ tnOpen' = ToSet(TunChain) /\ tnDone' = "open"
          /\ UNCHANGED <<tnClosed, tnTorn>>
       \/ \E n \in 1 .. Len(TunChain) : AfterFailure(SubSeq(TunChain, 1, n)) /\ tnServe' = "returned"
    /\ UNCHANGED tnCallers

\* Close.
TunClose(c) ==
    /\ c \in tnCallers /\ tnCallers' = tnCallers \ {c}
    /\ IF tnClosed THEN UNCHANGED <<tnClosed, tnDone, tnClosers, tnOpen, tnTorn>>
       ELSE CloseLocked(tnClosers, tnOpen, tnDone)
    /\ UNCHANGED tnServe

\* Serve is woken.
ServeReturn ==
    /\ tnServe = "waiting" /\ tnDone = "closed" /\ tnServe' = "returned"
    /\ UNCHANGED <<tnClosed, tnDone, tnClosers, tnOpen, tnTorn, tnCallers>>

TunNext == ServeClosed \/ Serve \/ ServeReturn \/ \E c \in TunClosers : TunClose(c)

TunSpec == TunInit /\ [][TunNext]_tnVars

-----------------------------------------------------------------------------
\* A closed server has nothing left set up, also when start failed half way, and
\* nothing was closed before what was built on it, or twice: the stack goes
\* before the interface it reads (tun/server.go:95-106, 119-196).
TornDown ==
    tnClosed =>
      /\ tnOpen = {}
      /\ \A i, j \in 1 .. Len(tnTorn) : i < j =>
           \E a, b \in 1 .. Len(TunChain) : a > b /\ TunChain[a] = tnTorn[i] /\ TunChain[b] = tnTorn[j]

\* Close, whenever it comes, leaves no Serve waiting on a channel nobody closes
\* (tun/server.go:66-106).
CloseEndsServe == tnServe = "waiting" /\ tnClosed => tnDone = "closed"

\* The client ends when one of its parts fails or it is told to, everything it
\* had set up is taken down, and nothing is left waiting.
ClientEndsClean ==
    /\ ExitIsClean /\ NoModeStuck /\ OKMeansAllDone /\ FailureEndsClient
    /\ TornDown /\ CloseEndsServe
=============================================================================
