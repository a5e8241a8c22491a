-------------------------------- MODULE Mimic --------------------------------
(***************************************************************************)
(* Mimic run as a child process (app/internal/mimic/mimic_linux.go), by    *)
(* the Hysteria processes of a machine that use one interface.  A process  *)
(* uses the Mimic that runs there already if its filters cover the         *)
(* addresses it needs; otherwise it starts its own, waits for it to        *)
(* attach, and stops it in the end.  If Mimic stops by itself the process  *)
(* ends.  Mimic is external: it writes a lock file when it has attached,   *)
(* and removes it if it exits cleanly.                                     *)
(***************************************************************************)
EXTENDS Integers

CONSTANTS
    MimicHosts,     \* the Hysteria processes
    Stale           \* the owner of a lock file an earlier Mimic left

VARIABLES
    mmCovers,       \* whether the filters of each cover those of the other
    mmLocks,        \* the owners of the lock files
    mmChild,        \* the Mimic of each process: "none", "running" or "gone"
    mmStart,        \* where Start is, or what it returned
    mmClose,        \* where Close is
    mmStopped,      \* Instance.stopped
    mmCancelled,    \* whether cancel was called
    mmWait,         \* Instance.wait: "no", "waiting", "exited" or "done"
    mmHost,         \* the process: "up", "dead" (killed) or "fatal" (onExit)
    mmAsked         \* whether the Mimic that exited had been asked to

mmVars == <<mmCovers, mmLocks, mmChild, mmStart, mmClose, mmStopped, mmCancelled, mmWait,
            mmHost, mmAsked>>

MimicInit ==
    /\ mmCovers \in BOOLEAN
    /\ mmLocks \in {{}, {Stale}}
    /\ mmChild = [p \in MimicHosts |-> "none"]
    /\ mmStart = [p \in MimicHosts |-> "check"]
    /\ mmClose = [p \in MimicHosts |-> "no"]
    /\ mmStopped = [p \in MimicHosts |-> FALSE]
    /\ mmCancelled = [p \in MimicHosts |-> FALSE]
    /\ mmWait = [p \in MimicHosts |-> "no"]
    /\ mmHost = [p \in MimicHosts |-> "up"]
    /\ mmAsked = [p \in MimicHosts |-> FALSE]

Alive(p) == mmHost[p] = "up"

\* A lock file counts only if the process it names is alive.
runningOn == { q \in mmLocks \ {Stale} : mmChild[q] = "running" }

StartTo(p, at) == mmStart' = [mmStart EXCEPT ![p] = at]

\* Start, up to the choice between the Mimic that runs and one of its own.
StartCheck(p) ==
    /\ Alive(p) /\ mmStart[p] = "check"
    /\ \/ StartTo(p, "error")       \* no binary, no interface, filters unreadable
       \/ runningOn # {} /\ StartTo(p, IF mmCovers THEN "shared" ELSE "error")
       \/ runningOn = {} /\ StartTo(p, "spawn")
    /\ UNCHANGED <<mmCovers, mmLocks, mmChild, mmClose, mmStopped, mmCancelled, mmWait,
                   mmHost, mmAsked>>

\* cmd.Start and the goroutine that waits for the child.
StartSpawn(p) ==
    /\ Alive(p) /\ mmStart[p] = "spawn"
    /\ \/ StartTo(p, "error") /\ UNCHANGED <<mmChild, mmWait>>
       \/ /\ StartTo(p, "ready")
          /\ mmChild' = [mmChild EXCEPT ![p] = "running"]
          /\ mmWait' = [mmWait EXCEPT ![p] = "waiting"]
    /\ UNCHANGED <<mmCovers, mmLocks, mmClose, mmStopped, mmCancelled, mmHost, mmAsked>>

\* Only the lock of the child counts.
IsReady(p) == p \in mmLocks

\* waitReady: the child exits, attaches, or does neither in time.  It may exit
\* between the look at the channel exited and the one at the lock files.
WaitReady(p) ==
    /\ Alive(p) /\ mmStart[p] = "ready"
    /\ \/ IsReady(p) /\ StartTo(p, "instance") /\ UNCHANGED mmClose
       \/ /\ StartTo(p, "failed")
          /\ mmClose' = [mmClose EXCEPT ![p] = "begin"]
    /\ UNCHANGED <<mmCovers, mmLocks, mmChild, mmStopped, mmCancelled, mmWait, mmHost, mmAsked>>

\* The process ends: the deferred Close, which does nothing without an instance.
HostEnds(p) ==
    /\ Alive(p) /\ mmClose[p] = "no"
    /\ \/ mmStart[p] = "instance" /\ mmClose' = [mmClose EXCEPT ![p] = "begin"]
       \/ mmStart[p] \in {"shared", "error"} /\ mmClose' = [mmClose EXCEPT ![p] = "returned"]
    /\ UNCHANGED <<mmCovers, mmLocks, mmChild, mmStart, mmStopped, mmCancelled, mmWait,
                   mmHost, mmAsked>>

(* Close: stopped is set before the child is asked to stop. *)
CloseStop(p) ==
    /\ Alive(p) /\ mmClose[p] = "begin"
    /\ mmStopped' = [mmStopped EXCEPT ![p] = TRUE]
    /\ mmClose' = [mmClose EXCEPT ![p] = "cancel"]
    /\ UNCHANGED <<mmCovers, mmLocks, mmChild, mmStart, mmCancelled, mmWait, mmHost, mmAsked>>

\* Mutant of CloseCancel: stopped is set only when the child is gone.
CloseCancelFirst(p) ==
    /\ Alive(p) /\ mmClose[p] \in {"begin", "cancel"}
    /\ mmCancelled' = [mmCancelled EXCEPT ![p] = TRUE]
    /\ mmClose' = [mmClose EXCEPT ![p] = "wait"]
    /\ UNCHANGED <<mmCovers, mmLocks, mmChild, mmStart, mmStopped, mmWait, mmHost, mmAsked>>

CloseCancel(p) ==
    /\ Alive(p) /\ mmClose[p] = "cancel"
    /\ mmCancelled' = [mmCancelled EXCEPT ![p] = TRUE]
    /\ mmClose' = [mmClose EXCEPT ![p] = "wait"]
    /\ UNCHANGED <<mmCovers, mmLocks, mmChild, mmStart, mmStopped, mmWait, mmHost, mmAsked>>

\* Receiving from the channel exited.
ExitSeen(p) == mmWait[p] \in {"exited", "done"}

CloseWait(p) ==
    /\ Alive(p) /\ mmClose[p] = "wait" /\ ExitSeen(p)
    /\ mmClose' = [mmClose EXCEPT ![p] = "returned"]
    /\ StartTo(p, IF mmStart[p] = "failed" THEN "error" ELSE mmStart[p])
    /\ UNCHANGED <<mmCovers, mmLocks, mmChild, mmStopped, mmCancelled, mmWait, mmHost, mmAsked>>

(* Instance.wait: cmd.Wait returns, exited is closed, and then stopped is read. *)
WaitExited(p) ==
    /\ Alive(p) /\ mmWait[p] = "waiting" /\ mmChild[p] = "gone"
    /\ mmWait' = [mmWait EXCEPT ![p] = "exited"]
    /\ UNCHANGED <<mmCovers, mmLocks, mmChild, mmStart, mmClose, mmStopped, mmCancelled,
                   mmHost, mmAsked>>

\* onExit is logger.Fatal.
WaitReport(p) ==
    /\ Alive(p) /\ mmWait[p] = "exited"
    /\ mmWait' = [mmWait EXCEPT ![p] = "done"]
    /\ mmHost' = [mmHost EXCEPT ![p] = IF mmStopped[p] THEN "up" ELSE "fatal"]
    /\ UNCHANGED <<mmCovers, mmLocks, mmChild, mmStart, mmClose, mmStopped, mmCancelled, mmAsked>>

\* The process is killed, or ends by logger.Fatal, which runs no deferred call.
HostKilled(p) ==
    /\ Alive(p)
    /\ mmHost' = [mmHost EXCEPT ![p] = "dead"]
    /\ UNCHANGED <<mmCovers, mmLocks, mmChild, mmStart, mmClose, mmStopped, mmCancelled,
                   mmWait, mmAsked>>

(* External: a Mimic attaches if no other holds the interface, and exits,     *)
(* cleanly or leaving its lock file, by itself or when it is asked to.        *)
Attach(p) ==
    /\ mmChild[p] = "running" /\ p \notin mmLocks /\ runningOn = {}
    /\ mmLocks' = mmLocks \cup {p}
    /\ UNCHANGED <<mmCovers, mmChild, mmStart, mmClose, mmStopped, mmCancelled, mmWait,
                   mmHost, mmAsked>>

\* The interrupt Cancel sends, followed by a kill after WaitDelay, and the
\* signal the kernel sends when the process that started it dies.
AskedToExit(p) == mmCancelled[p] \/ ~Alive(p)

ChildExits(p) ==
    /\ mmChild[p] = "running"
    /\ mmChild' = [mmChild EXCEPT ![p] = "gone"]
    /\ mmLocks' \in {mmLocks, mmLocks \ {p}}
    /\ mmAsked' = [mmAsked EXCEPT ![p] = AskedToExit(p)]
    /\ UNCHANGED <<mmCovers, mmStart, mmClose, mmStopped, mmCancelled, mmWait, mmHost>>

ChildObeys(p) == AskedToExit(p) /\ ChildExits(p)

MimicStep(p) ==
    \/ StartCheck(p) \/ StartSpawn(p) \/ WaitReady(p) \/ CloseStop(p) \/ CloseCancel(p)
    \/ CloseWait(p) \/ WaitExited(p) \/ WaitReport(p)

MimicNext ==
    \E p \in MimicHosts :
        MimicStep(p) \/ HostEnds(p) \/ HostKilled(p) \/ Attach(p) \/ ChildExits(p)

-----------------------------------------------------------------------------
\* When Start has failed or Close has returned, the child is gone: it neither
\* rewrites packets any more nor blocks the next start (mimic_linux.go:128-138).
NoOrphan ==
    \A p \in MimicHosts :
        Alive(p) /\ (mmStart[p] = "error" \/ mmClose[p] = "returned") => mmChild[p] # "running"

\* The process is not ended for the exit of a Mimic it asked to stop
\* (mimic_linux.go:132-149).
FatalIsUnexpected == \A p \in MimicHosts : mmHost[p] = "fatal" => ~mmAsked[p]

(* A process takes finitely many steps, so what follows is that the thing    *)
(* awaited happens.                                                          *)

\* The exit of a Mimic the process needs ends it, unless it is ending anyway:
\* until then there is a step to take (mimic_linux.go:140-149).
ExitIsFatal ==
    \A p \in MimicHosts :
        mmStart[p] = "instance" /\ mmChild[p] = "gone" /\ mmClose[p] = "no" /\ Alive(p)
            => ENABLED (WaitExited(p) \/ WaitReport(p))

\* Close returns: nobody waits for a child that nobody has asked to stop, or for
\* a goroutine that has ended (mimic_linux.go:128-142).
MimicCloseReturns ==
    \A p \in MimicHosts :
        mmClose[p] \in {"begin", "cancel", "wait"} /\ Alive(p)
            => ENABLED (MimicStep(p) \/ ChildObeys(p))

\* No Mimic process outlives what started it, its death is reported exactly
\* when nobody asked for it, and Close returns.
MimicFollowed ==
    NoOrphan /\ FatalIsUnexpected /\ ExitIsFatal /\ MimicCloseReturns
=============================================================================
