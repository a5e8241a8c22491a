----------------------------- MODULE CertLoader -----------------------------
(***************************************************************************)
(* LocalCertificateLoader (app/internal/utils/certloader.go): the server's *)
(* certificate, reloaded when its files change.  The handshakes ask for it *)
(* concurrently, while some other program renews the two files one after   *)
(* the other.  A file is known by the number of its last write, which also *)
(* stands for its modification time; a file may be away for a moment.      *)
(***************************************************************************)
EXTENDS Integers

CONSTANTS
    Calls,          \* the goroutines that call GetCertificate
    Boot,           \* the goroutine that calls InitializeCache
    MaxWrites,      \* bound on the writes of each file
    KeyOf,          \* KeyOf[v]: the key pair that write v of a file belongs to
    NoCache         \* the nil cache

ASSUME MaxWritesAssumption == MaxWrites \in Nat
ASSUME BootAssumption == Boot \notin Calls /\ "free" \notin Calls \cup {Boot}

Files == {"cert", "key"}
Away == -1
Writes == 0 .. MaxWrites
Stats == Writes \cup {Away}
Loaders == Calls \cup {Boot}

Pair == [cert : Stats, key : Stats]
Cache == [pair : Pair, modTime : Pair]

ASSUME NoCacheAssumption == NoCache \notin Cache

Places == {"idle", "statCert", "statKey", "compare", "lock", "recheck", "makeStatCert",
           "makeStatKey", "readCert", "readKey", "parse", "done"}

VARIABLES
    clFile,     \* the files on the disk
    clWritten,  \* how often each was written
    clCache,    \* LocalCertificateLoader.cache
    clLock,     \* LocalCertificateLoader.lock: its holder, or "free"
    clAt,       \* where each goroutine is
    clSeen,     \* getCertificateWithCache's cache
    clStat,     \* the modification times a goroutine read
    clRead,     \* what LoadX509KeyPair read of the files
    clResult,   \* what each call returned last
    clSettled   \* whether a call began, alone, after the last renewal

clVars == <<clFile, clWritten, clCache, clLock, clAt, clSeen, clStat, clRead, clResult,
            clSettled>>
clDisk == <<clFile, clWritten>>

NoPair == [cert |-> Away, key |-> Away]

CertLoaderInit ==
    /\ clFile = [f \in Files |-> 0]
    /\ clWritten = [f \in Files |-> 0]
    /\ clCache = NoCache
    /\ clLock = "free"
    /\ clAt = [p \in Loaders |-> IF p = Boot THEN "lock" ELSE "idle"]
    /\ clSeen = [p \in Loaders |-> NoCache]
    /\ clStat = [p \in Loaders |-> NoPair]
    /\ clRead = [p \in Loaders |-> NoPair]
    /\ clResult = [p \in Loaders |-> "none"]
    /\ clSettled = FALSE

(* The program that renews the certificate: a file goes away, or is replaced. *)
Renew(f) ==
    /\ clWritten[f] < MaxWrites
    /\ clWritten' = [clWritten EXCEPT ![f] = @ + 1]
    /\ clFile' = [clFile EXCEPT ![f] = clWritten[f] + 1]
    /\ UNCHANGED <<clCache, clLock, clAt, clSeen, clStat, clRead, clResult, clSettled>>

Unlink(f) ==
    /\ clWritten[f] < MaxWrites
    /\ clFile' = [clFile EXCEPT ![f] = Away]
    /\ UNCHANGED <<clWritten, clCache, clLock, clAt, clSeen, clStat, clRead, clResult, clSettled>>

GoTo(p, at) == clAt' = [clAt EXCEPT ![p] = at]

(* The call returns a certificate or an error; what it noted is forgotten, and *)
(* the lock released if it holds it.                                           *)
Returns(p, what) ==
    /\ GoTo(p, IF p = Boot THEN "done" ELSE "idle")
    /\ clResult' = [clResult EXCEPT ![p] = what]
    /\ clLock' = IF clLock = p THEN "free" ELSE clLock
    /\ clSeen' = [clSeen EXCEPT ![p] = NoCache]
    /\ clStat' = [clStat EXCEPT ![p] = NoPair]
    /\ clRead' = [clRead EXCEPT ![p] = NoPair]

\* Files that cannot be used: the cache is returned if there is one.
Unusable(p) == Returns(p, IF clSeen[p] # NoCache THEN "certificate" ELSE "error")

Renewed == \A f \in Files : clFile[f] = MaxWrites
Idle(p) == clAt[p] \in {"idle", "done"}

LoadCache(p) ==
    /\ p \in Calls /\ clAt[p] = "idle" /\ clResult[Boot] = "certificate"
    /\ clSeen' = [clSeen EXCEPT ![p] = clCache]
    /\ GoTo(p, "statCert")
    /\ clResult' = [clResult EXCEPT ![p] = "none"]
    /\ clSettled' = (clSettled \/ (Renewed /\ \A q \in Loaders : Idle(q)))
    /\ UNCHANGED <<clDisk, clCache, clLock, clStat, clRead>>

(* checkModTime: one file and then the other. *)
Stat(p, f, from, to) ==
    /\ clAt[p] = from
    /\ \/ clFile[f] = Away /\ Unusable(p)
       \/ /\ clFile[f] # Away
          /\ clStat' = [clStat EXCEPT ![p][f] = clFile[f]]
          /\ GoTo(p, to)
          /\ UNCHANGED <<clResult, clLock, clSeen, clRead>>
    /\ UNCHANGED <<clDisk, clCache, clSettled>>

UpToDate(cache, stat) == cache # NoCache /\ cache.modTime = stat

CompareModTime(p) ==
    /\ clAt[p] = "compare"
    /\ \/ UpToDate(clSeen[p], clStat[p]) /\ Returns(p, "certificate")
       \/ /\ ~UpToDate(clSeen[p], clStat[p])
          /\ GoTo(p, "lock")
          /\ clStat' = [clStat EXCEPT ![p] = NoPair]
          /\ UNCHANGED <<clResult, clLock, clSeen, clRead>>
    /\ UNCHANGED <<clDisk, clCache, clSettled>>

\* Mutant of Locked: the cache is renewed without the lock.
NeverLocked == FALSE

Locked == clLock # "free"

(* TryLock when there is a cache to return meanwhile, Lock otherwise. *)
AcquireLock(p) ==
    /\ clAt[p] = "lock"
    /\ \/ Locked /\ clSeen[p] # NoCache /\ Returns(p, "certificate")
       \/ /\ ~Locked
          /\ clLock' = p
          /\ GoTo(p, IF p = Boot THEN "makeStatCert" ELSE "recheck")
          /\ UNCHANGED <<clResult, clSeen, clStat, clRead>>
    /\ UNCHANGED <<clDisk, clCache, clSettled>>

\* Modification times only grow, so that a cache stored since differs from the
\* one seen: comparing their contents compares the pointers.
Recheck(p) ==
    /\ clAt[p] = "recheck"
    /\ \/ clCache # clSeen[p] /\ Returns(p, "certificate")
       \/ /\ clCache = clSeen[p]
          /\ GoTo(p, "makeStatCert")
          /\ UNCHANGED <<clResult, clLock, clSeen, clStat, clRead>>
    /\ UNCHANGED <<clDisk, clCache, clSettled>>

(* LoadX509KeyPair, the rest of makeCache: the files are read one after the  *)
(* other, and must hold a certificate and its key.                           *)
ReadFile(p, f, from, to) ==
    /\ clAt[p] = from
    /\ clRead' = [clRead EXCEPT ![p][f] = clFile[f]]
    /\ GoTo(p, to)
    /\ UNCHANGED <<clDisk, clCache, clLock, clSeen, clStat, clResult, clSettled>>

Loads(read) ==
    read.cert # Away /\ read.key # Away /\ KeyOf[read.cert] = KeyOf[read.key]

\* Mutant of MadeModTime: read after the files were.
MadeModTimeLate(p) == [cert |-> clFile["cert"], key |-> clFile["key"]]

\* The modification times of a new cache: the ones read before the files were.
MadeModTime(p) == clStat[p]

StoreCache(p) ==
    /\ clAt[p] = "parse"
    /\ \/ ~Loads(clRead[p]) /\ Unusable(p) /\ UNCHANGED clCache
       \/ /\ Loads(clRead[p])
          /\ clCache' = [pair |-> clRead[p], modTime |-> MadeModTime(p)]
          /\ Returns(p, "certificate")
    /\ UNCHANGED <<clDisk, clSettled>>

LoaderStep(p) ==
    \/ Stat(p, "cert", "statCert", "statKey") \/ Stat(p, "key", "statKey", "compare")
    \/ CompareModTime(p) \/ AcquireLock(p) \/ Recheck(p)
    \/ Stat(p, "cert", "makeStatCert", "makeStatKey")
    \/ Stat(p, "key", "makeStatKey", "readCert")
    \/ ReadFile(p, "cert", "readCert", "readKey") \/ ReadFile(p, "key", "readKey", "parse")
    \/ StoreCache(p)

CallStep(p) == LoadCache(p) \/ LoaderStep(p)

CertLoaderNext ==
    \/ \E f \in Files : Renew(f) \/ Unlink(f)
    \/ \E p \in Loaders : CallStep(p)

CertLoaderSpec == CertLoaderInit /\ [][CertLoaderNext]_clVars

-----------------------------------------------------------------------------
CertLoaderTypeOK ==
    /\ clFile \in [Files -> Stats] /\ clWritten \in [Files -> Writes]
    /\ clCache \in Cache \cup {NoCache}
    /\ clLock \in Loaders \cup {"free"} /\ clAt \in [Loaders -> Places]
    /\ clSettled \in BOOLEAN
    /\ clSeen \in [Loaders -> Cache \cup {NoCache}]
    /\ clStat \in [Loaders -> Pair] /\ clRead \in [Loaders -> Pair]
    /\ clResult \in [Loaders -> {"none", "certificate", "error"}]

\* A cache whose modification times are those of the files holds what the files
\* hold: getCertificateWithCache may return it without reading them, however
\* the renewal and the reload interleaved (app/internal/utils/certloader.go:121).
UpToDateIsCurrent ==
    clCache # NoCache /\ (\A f \in Files : clCache.modTime[f] = clFile[f])
        => \A f \in Files : clCache.pair[f] = clFile[f]

\* Once InitializeCache has succeeded no handshake fails for the state of the
\* files: one is served what was loaded last while they are away, half renewed
\* or being loaded (certloader.go:112-148).
NoHandshakeFails == \A p \in Calls : clResult[p] # "error"

\* The loader never goes back to a certificate older than the one it has,
\* though several handshakes may reload it (certloader.go:126-150).
CacheAdvances ==
    [][clCache # NoCache =>
         clCache' # NoCache /\ \A f \in Files : clCache'.pair[f] >= clCache.pair[f]]_clVars

\* When the files are renewed for good, the loader comes to hold them: once a
\* call has begun by itself after that, the files have been loaded when no call
\* is in progress, whichever of the calls since then loaded them.
RenewalServed ==
    clSettled /\ (\A p \in Loaders : Idle(p))
        => \A f \in Files : clCache.pair[f] = MaxWrites
=============================================================================
