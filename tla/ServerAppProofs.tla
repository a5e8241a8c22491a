-------------------------- MODULE ServerAppProofs ---------------------------
(***************************************************************************)
(* Safety of what the server command is built from: the certificate loader *)
(* and the realm that makes the server reachable.                          *)
(***************************************************************************)
EXTENDS CertLoader, RealmRuntime, RealmSetup, TLAPS

-----------------------------------------------------------------------------
(***************************************************************************)
(* The certificate loader, for any number of handshakes and of renewals of *)
(* the two files.                                                          *)
(***************************************************************************)

Loading == {"makeStatCert", "makeStatKey", "readCert", "readKey", "parse"}
InLock(p) == clAt[p] \in {"recheck"} \cup Loading

\* A file is away, or is the last one written.
DiskInv == \A f \in Files : clFile[f] = Away \/ clFile[f] = clWritten[f]

\* What a cache holds was written no earlier than its modification time says.
CacheOK(c) ==
    c # NoCache =>
        \A f \in Files : /\ 0 <= c.modTime[f] /\ c.modTime[f] <= c.pair[f]
                         /\ c.pair[f] <= clWritten[f]

CachesInv == CacheOK(clCache) /\ \A p \in Loaders : CacheOK(clSeen[p])

\* The lock is held by the goroutine that is between taking and releasing it.
LockInv == \A p \in Loaders : InLock(p) <=> clLock = p

\* No call begins before InitializeCache has stored a cache.
BootInv ==
    /\ clAt[Boot] \in {"lock", "done"} \cup Loading /\ clSeen[Boot] = NoCache
    /\ clResult[Boot] = "certificate" => clAt[Boot] = "done" /\ clCache # NoCache
    /\ clResult[Boot] # "certificate" =>
         clCache = NoCache /\ \A p \in Calls : clAt[p] = "idle"

\* A call in progress has a cache to fall back to.
CallInv ==
    \A p \in Calls : /\ clAt[p] # "done" /\ clResult[p] # "error"
                     /\ clAt[p] # "idle" => clSeen[p] # NoCache

\* What was read of a file is as new as its modification time says, and as the
\* cache that is to be replaced.
ReadOK(p, f) ==
    \/ clRead[p][f] = Away
    \/ /\ clStat[p][f] <= clRead[p][f] /\ clRead[p][f] <= clWritten[f]
       /\ clSeen[p] # NoCache => clSeen[p].pair[f] <= clRead[p][f]

LoadsWell(p) ==
    /\ clAt[p] \in Loading => clCache = clSeen[p]
    /\ \A f \in Files : clStat[p][f] <= clWritten[f]
    /\ clAt[p] \in Loading \ {"makeStatCert"} => clStat[p]["cert"] # Away
    /\ clAt[p] \in {"readCert", "readKey", "parse"} => clStat[p]["key"] # Away
    /\ clAt[p] \in {"readKey", "parse"} => ReadOK(p, "cert")
    /\ clAt[p] = "parse" => ReadOK(p, "key")

LoadInv == \A p \in Loaders : LoadsWell(p)

SafeInv ==
    CertLoaderTypeOK /\ DiskInv /\ CachesInv /\ LockInv /\ BootInv /\ CallInv /\ LoadInv

-----------------------------------------------------------------------------
Current == clCache # NoCache /\ \A f \in Files : clCache.pair[f] = MaxWrites

\* After the last renewal, once a call began alone: every call in progress began
\* after the renewal, and a cache stored since it began is the renewed one.
SettledCall(p) ==
    /\ clAt[p] \in {"statKey", "compare"} \cup (Loading \ {"makeStatCert"})
         => clStat[p]["cert"] = MaxWrites
    /\ clAt[p] \in {"compare", "readCert", "readKey", "parse"} => clStat[p]["key"] = MaxWrites
    /\ clAt[p] \in {"readKey", "parse"} => clRead[p]["cert"] = MaxWrites
    /\ clAt[p] = "parse" => clRead[p]["key"] = MaxWrites
    /\ clAt[p] # "idle" /\ clSeen[p] # clCache => Current

SettledInv ==
    clSettled =>
        /\ Renewed /\ clResult[Boot] = "certificate" /\ \A p \in Calls : SettledCall(p)
        /\ Current \/ \E p \in Calls : clAt[p] # "idle"
-----------------------------------------------------------------------------
(* Proofs that every step preserves the invariants. *)

\* A return keeps the types.
LEMMA ReturnsType ==
    ASSUME CertLoaderTypeOK, NEW p \in Loaders, NEW what \in {"certificate", "error"},
           Returns(p, what)
    PROVE  /\ clAt' \in [Loaders -> Places] /\ clLock' \in Loaders \cup {"free"}
           /\ clResult' \in [Loaders -> {"none", "certificate", "error"}]
           /\ clSeen' \in [Loaders -> Cache \cup {NoCache}]
           /\ clStat' \in [Loaders -> Pair] /\ clRead' \in [Loaders -> Pair]
  <1>1. NoPair \in Pair
    BY Zenon DEF NoPair, Pair, Stats
  <1>2. {"idle", "done"} \subseteq Places
    BY Zenon DEF Places
  <1> QED BY <1>1, <1>2, Zenon DEF Returns, GoTo, CertLoaderTypeOK

\* A step of one loader leaves the files and the other loaders alone.
OthersKept(p) ==
    /\ UNCHANGED clDisk
    /\ \A q \in Loaders \ {p} :
         /\ clAt'[q] = clAt[q] /\ clSeen'[q] = clSeen[q] /\ clStat'[q] = clStat[q]
         /\ clRead'[q] = clRead[q] /\ clResult'[q] = clResult[q]

LEMMA LoaderFrame ==
    ASSUME CertLoaderTypeOK, NEW p \in Loaders, CallStep(p)
    PROVE  OthersKept(p)
  <1> USE DEF OthersKept, CertLoaderTypeOK, clDisk, GoTo
  <1>1. ASSUME NEW what, Returns(p, what), UNCHANGED clDisk PROVE OthersKept(p)
    BY <1>1, Zenon DEF Returns
  <1>2. CASE LoadCache(p)
    BY <1>2, Zenon DEF LoadCache
  <1>3. ASSUME NEW f, NEW from, NEW to, Stat(p, f, from, to) PROVE OthersKept(p)
    BY <1>1, <1>3, Zenon DEF Stat, Unusable
  <1>4. CASE CompareModTime(p)
    BY <1>1, <1>4, Zenon DEF CompareModTime
  <1>5. CASE AcquireLock(p)
    BY <1>1, <1>5, Zenon DEF AcquireLock
  <1>6. CASE Recheck(p)
    BY <1>1, <1>6, Zenon DEF Recheck
  <1>7. ASSUME NEW f, NEW from, NEW to, ReadFile(p, f, from, to) PROVE OthersKept(p)
    BY <1>7, Zenon DEF ReadFile
  <1>8. CASE StoreCache(p)
    BY <1>1, <1>8, Zenon DEF StoreCache, Unusable
  <1> HIDE DEF OthersKept
  <1> QED BY <1>2, <1>3, <1>4, <1>5, <1>6, <1>7, <1>8, Zenon DEF CallStep, LoaderStep

\* What a return leaves of the call.
LEMMA ReturnedIs ==
    ASSUME CertLoaderTypeOK, NEW p \in Loaders, NEW what, Returns(p, what)
    PROVE  /\ clAt'[p] = (IF p = Boot THEN "done" ELSE "idle") /\ clResult'[p] = what
           /\ clSeen'[p] = NoCache /\ clStat'[p] = NoPair /\ clRead'[p] = NoPair
           /\ clLock' = IF clLock = p THEN "free" ELSE clLock
  BY Zenon DEF Returns, GoTo, CertLoaderTypeOK

\* What the others loaded stays good.
LEMMA LoadFrame ==
    ASSUME LoadInv, NEW p \in Loaders, OthersKept(p), LoadsWell(p)',
           clCache' = clCache \/ \A q \in Loaders \ {p} : clAt[q] \notin Loading
    PROVE  LoadInv'
  <1> SUFFICES ASSUME NEW q \in Loaders \ {p} PROVE LoadsWell(q)'
    BY Zenon DEF LoadInv
  <1>1. clWritten' = clWritten /\ LoadsWell(q)
    BY Zenon DEF OthersKept, clDisk, LoadInv
  <1>2. /\ clAt'[q] = clAt[q] /\ clSeen'[q] = clSeen[q] /\ clStat'[q] = clStat[q]
        /\ clRead'[q] = clRead[q]
    BY Zenon DEF OthersKept
  <1> QED BY <1>1, <1>2, Zenon DEF LoadsWell, ReadOK

\* A call that returns has nothing loaded.
LEMMA ReturnLoads ==
    ASSUME CertLoaderTypeOK, NEW p \in Loaders, NEW what, Returns(p, what), UNCHANGED clWritten
    PROVE  LoadsWell(p)'
  <1>1. clAt'[p] \in {"idle", "done"} /\ clStat'[p] = NoPair
    BY ReturnedIs, Zenon
  <1>2. \A f \in Files : clStat'[p][f] <= clWritten'[f]
    BY <1>1, MaxWritesAssumption DEF NoPair, Away, Files, CertLoaderTypeOK, Writes
  <1> QED BY <1>1, <1>2, Zenon DEF LoadsWell, Loading

\* The files are renewed or taken away.
LEMMA DiskStep ==
    ASSUME SafeInv, NEW f \in Files, Renew(f) \/ Unlink(f)
    PROVE  SafeInv'
  <1> USE MaxWritesAssumption, BootAssumption, NoCacheAssumption
      DEF SafeInv, Loaders, Files, clDisk, GoTo, InLock, Loading
  <1>1. CertLoaderTypeOK'
    BY DEF CertLoaderTypeOK, Stats, Writes, Renew, Unlink
  <1>2. DiskInv'
    BY DEF DiskInv, CertLoaderTypeOK, Renew, Unlink
  <1>3. CachesInv'
    BY DEF CachesInv, CacheOK, CertLoaderTypeOK, Cache, Pair, Stats, Writes, Away, Renew,
       Unlink
  <1>4. LockInv'
    BY Zenon DEF LockInv, Renew, Unlink
  <1>5. BootInv'
    BY Zenon DEF BootInv, Renew, Unlink
  <1>6. CallInv'
    BY Zenon DEF CallInv, Renew, Unlink
  <1>7. LoadInv'
    <2>1. \A g \in Files :
             /\ clWritten[g] \in Int /\ clWritten'[g] \in Int
             /\ clWritten[g] <= clWritten'[g]
      BY DEF CertLoaderTypeOK, Writes, Renew, Unlink
    <2>2. UNCHANGED <<clCache, clAt, clSeen, clStat, clRead>>
      BY Zenon DEF Renew, Unlink
    <2>3. \A q \in Loaders : \A g \in Files : clStat[q][g] \in Int /\ clRead[q][g] \in Int
      BY DEF CertLoaderTypeOK, Pair, Stats, Writes, Away
    <2>4. ASSUME NEW q \in Loaders, NEW g \in Files, ReadOK(q, g) PROVE ReadOK(q, g)'
      BY <2>1, <2>2, <2>3, <2>4 DEF ReadOK
    <2>5. \A q \in Loaders : \A g \in Files :
             clStat[q][g] <= clWritten[g] => clStat'[q][g] <= clWritten'[g]
      BY <2>1, <2>2, <2>3
    <2> QED BY <2>2, <2>4, <2>5, Zenon DEF LoadInv, LoadsWell
  <1> QED BY <1>1, <1>2, <1>3, <1>4, <1>5, <1>6, <1>7, Zenon

\* A call begins.
LEMMA LoadCacheStep ==
    ASSUME SafeInv, NEW p \in Loaders, LoadCache(p)
    PROVE  SafeInv'
  <1> USE MaxWritesAssumption, BootAssumption, NoCacheAssumption
      DEF SafeInv, Loaders, Files, clDisk, GoTo, InLock, Loading
  <1>1. CertLoaderTypeOK'
    BY Zenon DEF CertLoaderTypeOK, Places, LoadCache
  <1>2. DiskInv'
    BY Zenon DEF DiskInv, CertLoaderTypeOK, LoadCache
  <1>3. CachesInv'
    BY DEF CachesInv, CacheOK, LoadCache
  <1>4. LockInv'
    BY DEF LockInv, LoadCache
  <1>5. BootInv'
    BY DEF BootInv, LoadCache
  <1>6. CallInv'
    BY Zenon DEF CallInv, BootInv, CertLoaderTypeOK, LoadCache
  <1>7. LoadInv'
    <2>0. OthersKept(p) /\ clCache' = clCache /\ UNCHANGED <<clWritten>> /\ LoadsWell(p)
      BY LoaderFrame, Zenon DEF CallStep, LoaderStep, LoadCache, LoadInv
    <2>1. LoadsWell(p)'
      BY <2>0, Zenon DEF LoadCache, LoadsWell, CertLoaderTypeOK
    <2> QED BY <2>0, <2>1, LoadFrame, Zenon
  <1> QED BY <1>1, <1>2, <1>3, <1>4, <1>5, <1>6, <1>7, Zenon

\* The modification times are read.
LEMMA StatStep ==
    ASSUME SafeInv, NEW p \in Loaders,
           \/ Stat(p, "cert", "statCert", "statKey") \/ Stat(p, "key", "statKey", "compare")
           \/ Stat(p, "cert", "makeStatCert", "makeStatKey")
           \/ Stat(p, "key", "makeStatKey", "readCert")
    PROVE  SafeInv'
  <1> USE MaxWritesAssumption, BootAssumption, NoCacheAssumption
      DEF SafeInv, Loaders, Files, clDisk, GoTo, InLock, Loading
  <1>1. CertLoaderTypeOK'
    <2>1. PICK g \in Files, from, to \in Places : Stat(p, g, from, to)
      BY Zenon DEF Places
    <2>2. CASE clFile[g] = Away
      BY <2>1, <2>2, ReturnsType, Zenon DEF CertLoaderTypeOK, Stat, Unusable
    <2>3. CASE clFile[g] # Away
      <3>1. [clStat[p] EXCEPT ![g] = clFile[g]] \in Pair
        BY Zenon DEF CertLoaderTypeOK, Pair
      <3>2. clStat' \in [Loaders -> Pair]
        BY <2>1, <2>3, <3>1 DEF CertLoaderTypeOK, Stat
      <3> QED BY <2>1, <2>3, <3>2 DEF CertLoaderTypeOK, Stat
    <2> QED BY <2>2, <2>3, Zenon
  <1>2. DiskInv'
    BY Zenon DEF DiskInv, Stat
  <1>3. CachesInv'
    BY DEF CachesInv, CacheOK, CertLoaderTypeOK, Stat, Returns, Unusable
  <1>4. LockInv'
    BY DEF LockInv, CertLoaderTypeOK, Stat, Returns, Unusable
  <1>5. BootInv'
    BY DEF BootInv, CertLoaderTypeOK, Stat, Returns, Unusable
  <1>6. CallInv'
    BY DEF CallInv, CertLoaderTypeOK, Stat, Returns, Unusable
  <1>7. LoadInv'
    <2>0. OthersKept(p) /\ clCache' = clCache /\ UNCHANGED <<clWritten>> /\ LoadsWell(p)
      BY LoaderFrame, Zenon DEF CallStep, LoaderStep, Stat, LoadInv
    <2>1. PICK g \in Files, from, to \in Places :
             /\ Stat(p, g, from, to)
             /\ \/ from = "statCert" /\ to = "statKey" /\ g = "cert"
                \/ from = "statKey" /\ to = "compare" /\ g = "key"
                \/ from = "makeStatCert" /\ to = "makeStatKey" /\ g = "cert"
                \/ from = "makeStatKey" /\ to = "readCert" /\ g = "key"
      BY Zenon DEF Places
    <2>2. CASE clFile[g] = Away
      <3>1. LoadsWell(p)'
        BY <2>0, <2>1, <2>2, ReturnLoads, Zenon DEF Stat, Unusable
      <3> QED BY <2>0, <3>1, LoadFrame, Zenon
    <2>3. CASE clFile[g] # Away
      <3>1. clStat' = [clStat EXCEPT ![p][g] = clFile[g]] /\ UNCHANGED <<clSeen, clRead>>
        BY <2>1, <2>3, Zenon DEF Stat
      <3>2. clFile[g] = clWritten[g] /\ clFile[g] \in Nat
        BY <2>3 DEF DiskInv, CertLoaderTypeOK, Writes, Away
      <3>3. clStat'[p][g] = clFile[g] /\ \A f \in Files : f # g => clStat'[p][f] = clStat[p][f]
        BY <3>1, Zenon DEF CertLoaderTypeOK, Pair
      <3>4. \A f \in Files : clStat'[p][f] <= clWritten'[f]
        BY <2>0, <3>2, <3>3 DEF LoadsWell
      <3>5. clAt[p] = from /\ clAt'[p] = to
        BY <2>1, <2>3, Zenon DEF CertLoaderTypeOK, Stat
      <3>6. LoadsWell(p)'
        BY <2>0, <2>1, <2>3, <3>1, <3>3, <3>4, <3>5, Zenon DEF LoadsWell
      <3> QED BY <2>0, <3>6, LoadFrame, Zenon
    <2> QED BY <2>2, <2>3, Zenon
  <1> QED BY <1>1, <1>2, <1>3, <1>4, <1>5, <1>6, <1>7, Zenon

\* The modification times are compared with those of the cache.
LEMMA CompareStep ==
    ASSUME SafeInv, NEW p \in Loaders, CompareModTime(p)
    PROVE  SafeInv'
  <1> USE MaxWritesAssumption, BootAssumption, NoCacheAssumption
      DEF SafeInv, Loaders, Files, clDisk, GoTo, InLock, Loading
  <1>1. CertLoaderTypeOK'
    <2>1. CASE UpToDate(clSeen[p], clStat[p])
      BY <2>1, ReturnsType, Zenon DEF CertLoaderTypeOK, CompareModTime
    <2>2. CASE ~UpToDate(clSeen[p], clStat[p])
      <3>1. NoPair \in Pair /\ "lock" \in Places
        BY Zenon DEF NoPair, Pair, Stats, Places
      <3> QED BY <2>2, <3>1 DEF CertLoaderTypeOK, CompareModTime
    <2> QED BY <2>1, <2>2, Zenon
  <1>2. DiskInv'
    BY Zenon DEF DiskInv, CompareModTime
  <1>3. CachesInv'
    BY DEF CachesInv, CacheOK, LoadInv, ReadOK, CertLoaderTypeOK, Cache, Pair, Stats,
       Writes, Away, CompareModTime, Returns, UpToDate
  <1>4. LockInv'
    BY DEF LockInv, CertLoaderTypeOK, CompareModTime, Returns
  <1>5. BootInv'
    BY Zenon DEF BootInv, CertLoaderTypeOK, CompareModTime, Returns
  <1>6. CallInv'
    BY DEF CallInv, CertLoaderTypeOK, CompareModTime, Returns
  <1>7. LoadInv'
    <2>0. OthersKept(p) /\ clCache' = clCache /\ UNCHANGED <<clWritten>> /\ LoadsWell(p)
      BY LoaderFrame, Zenon DEF CallStep, LoaderStep, CompareModTime, LoadInv
    <2>1. CASE Returns(p, "certificate")
      BY <2>0, <2>1, ReturnLoads, LoadFrame, Zenon
    <2>2. CASE ~Returns(p, "certificate")
      <3>1. clAt'[p] = "lock" /\ clStat'[p] = NoPair
        BY <2>2, Zenon DEF CompareModTime, CertLoaderTypeOK
      <3>2. \A f \in Files : clStat'[p][f] <= clWritten'[f]
        BY <2>0, <3>1 DEF NoPair, Away, CertLoaderTypeOK, Writes
      <3>3. LoadsWell(p)'
        BY <3>1, <3>2, Zenon DEF LoadsWell
      <3> QED BY <2>0, <3>3, LoadFrame, Zenon
    <2> QED BY <2>1, <2>2, Zenon
  <1> QED BY <1>1, <1>2, <1>3, <1>4, <1>5, <1>6, <1>7, Zenon

\* The lock is taken, or is not free.
LEMMA AcquireStep ==
    ASSUME SafeInv, NEW p \in Loaders, AcquireLock(p)
    PROVE  SafeInv'
  <1> USE MaxWritesAssumption, BootAssumption, NoCacheAssumption
      DEF SafeInv, Loaders, Files, clDisk, GoTo, InLock, Loading
  <1>1. CertLoaderTypeOK'
    BY ReturnsType DEF CertLoaderTypeOK, Places, AcquireLock
  <1>2. DiskInv'
    BY Zenon DEF DiskInv, AcquireLock
  <1>3. CachesInv'
    BY DEF CachesInv, CacheOK, CertLoaderTypeOK, AcquireLock, Returns
  <1>4. LockInv'
    BY DEF LockInv, CertLoaderTypeOK, AcquireLock, Returns, Locked
  <1>5. BootInv'
    BY Zenon DEF BootInv, CertLoaderTypeOK, AcquireLock, Returns
  <1>6. CallInv'
    BY DEF CallInv, CertLoaderTypeOK, AcquireLock, Returns
  <1>7. LoadInv'
    <2>0. OthersKept(p) /\ clCache' = clCache /\ UNCHANGED <<clWritten>> /\ LoadsWell(p)
      BY LoaderFrame, Zenon DEF CallStep, LoaderStep, AcquireLock, LoadInv
    <2>1. CASE Returns(p, "certificate")
      BY <2>0, <2>1, ReturnLoads, LoadFrame, Zenon
    <2>2. CASE ~Returns(p, "certificate")
      <3>1. /\ clAt'[p] = (IF p = Boot THEN "makeStatCert" ELSE "recheck")
            /\ clAt[p] = "lock" /\ UNCHANGED <<clSeen, clStat, clRead>>
        BY <2>2, Zenon DEF AcquireLock, CertLoaderTypeOK
      <3>2. p = Boot => clCache = clSeen[p]
        BY <3>1, Zenon DEF BootInv
      <3>3. LoadsWell(p)'
        BY <2>0, <3>1, <3>2, Zenon DEF LoadsWell
      <3> QED BY <2>0, <3>3, LoadFrame, Zenon
    <2> QED BY <2>1, <2>2, Zenon
  <1> QED BY <1>1, <1>2, <1>3, <1>4, <1>5, <1>6, <1>7, Zenon

\* The cache is looked at again under the lock.
LEMMA RecheckStep ==
    ASSUME SafeInv, NEW p \in Loaders, Recheck(p)
    PROVE  SafeInv'
  <1> USE MaxWritesAssumption, BootAssumption, NoCacheAssumption
      DEF SafeInv, Loaders, Files, clDisk, GoTo, InLock, Loading
  <1>1. CertLoaderTypeOK'
    BY ReturnsType DEF CertLoaderTypeOK, Places, Recheck
  <1>2. DiskInv'
    BY Zenon DEF DiskInv, Recheck
  <1>3. CachesInv'
    BY DEF CachesInv, CacheOK, CertLoaderTypeOK, Recheck, Returns
  <1>4. LockInv'
    BY DEF LockInv, CertLoaderTypeOK, Recheck, Returns
  <1>5. BootInv'
    BY Zenon DEF BootInv, CertLoaderTypeOK, Recheck, Returns
  <1>6. CallInv'
    BY DEF CallInv, CertLoaderTypeOK, Recheck, Returns
  <1>7. LoadInv'
    <2>0. OthersKept(p) /\ clCache' = clCache /\ UNCHANGED <<clWritten>> /\ LoadsWell(p)
      BY LoaderFrame, Zenon DEF CallStep, LoaderStep, Recheck, LoadInv
    <2>1. CASE Returns(p, "certificate")
      BY <2>0, <2>1, ReturnLoads, LoadFrame, Zenon
    <2>2. CASE ~Returns(p, "certificate")
      <3>1. /\ clAt'[p] = "makeStatCert" /\ clCache = clSeen[p]
            /\ UNCHANGED <<clSeen, clStat, clRead>>
        BY <2>2, Zenon DEF Recheck, CertLoaderTypeOK
      <3>2. LoadsWell(p)'
        BY <2>0, <3>1, Zenon DEF LoadsWell
      <3> QED BY <2>0, <3>2, LoadFrame, Zenon
    <2> QED BY <2>1, <2>2, Zenon
  <1> QED BY <1>1, <1>2, <1>3, <1>4, <1>5, <1>6, <1>7, Zenon

\* The files are read.
LEMMA ReadStep ==
    ASSUME SafeInv, NEW p \in Loaders,
           ReadFile(p, "cert", "readCert", "readKey") \/ ReadFile(p, "key", "readKey", "parse")
    PROVE  SafeInv'
  <1> USE MaxWritesAssumption, BootAssumption, NoCacheAssumption
      DEF SafeInv, Loaders, Files, clDisk, GoTo, InLock, Loading
  <1>1. CertLoaderTypeOK'
    <2>1. PICK g \in Files, from, to \in Places : ReadFile(p, g, from, to)
      BY Zenon DEF Places
    <2>2. [clRead[p] EXCEPT ![g] = clFile[g]] \in Pair
      BY Zenon DEF CertLoaderTypeOK, Pair
    <2>3. clRead' \in [Loaders -> Pair]
      BY <2>1, <2>2 DEF CertLoaderTypeOK, ReadFile
    <2> QED BY <2>1, <2>3, Zenon DEF CertLoaderTypeOK, ReadFile
  <1>2. DiskInv'
    BY Zenon DEF DiskInv, CertLoaderTypeOK, ReadFile
  <1>3. CachesInv'
    BY Zenon DEF CachesInv, CacheOK, ReadFile
  <1>4. LockInv'
    BY DEF LockInv, CertLoaderTypeOK, ReadFile
  <1>5. BootInv'
    BY Zenon DEF BootInv, CertLoaderTypeOK, ReadFile
  <1>6. CallInv'
    BY DEF CallInv, CertLoaderTypeOK, ReadFile
  <1>7. LoadInv'
    <2>0. OthersKept(p) /\ clCache' = clCache /\ UNCHANGED <<clWritten>> /\ LoadsWell(p)
      BY LoaderFrame, Zenon DEF CallStep, LoaderStep, ReadFile, LoadInv
    <2>1. PICK g \in Files, from, to \in Places :
             /\ ReadFile(p, g, from, to)
             /\ \/ from = "readCert" /\ to = "readKey" /\ g = "cert"
                \/ from = "readKey" /\ to = "parse" /\ g = "key"
      BY Zenon DEF Places
    <2>2. /\ clAt[p] = from /\ clAt'[p] = to /\ UNCHANGED <<clSeen, clStat>>
          /\ clRead'[p][g] = clFile[g]
          /\ \A f \in Files : f # g => clRead'[p][f] = clRead[p][f]
      BY <2>1, Zenon DEF ReadFile, CertLoaderTypeOK, Pair
    <2>3. clStat[p][g] <= clWritten[g] /\ (clFile[g] = Away \/ clFile[g] = clWritten[g])
      BY <2>0, Zenon DEF LoadsWell, DiskInv
    <2>4. clSeen[p] # NoCache => clSeen[p].pair[g] <= clWritten[g]
      BY Zenon DEF CachesInv, CacheOK
    <2>5. clWritten[g] \in Int
      BY DEF CertLoaderTypeOK, Writes
    <2>6. ReadOK(p, g)'
      BY <2>0, <2>2, <2>3, <2>4, <2>5 DEF ReadOK
    <2>7. ReadOK(p, "cert") /\ g = "key" => ReadOK(p, "cert")'
      BY <2>0, <2>2, Zenon DEF ReadOK
    <2>8. LoadsWell(p)'
      BY <2>0, <2>1, <2>2, <2>6, <2>7, Zenon DEF LoadsWell
    <2> QED BY <2>0, <2>8, LoadFrame, Zenon
  <1> QED BY <1>1, <1>2, <1>3, <1>4, <1>5, <1>6, <1>7, Zenon

\* A cache that is made is not the nil cache.
LEMMA NewCache ==
    ASSUME CertLoaderTypeOK, NEW p \in Loaders
    PROVE  [pair |-> clRead[p], modTime |-> clStat[p]] # NoCache
  BY NoCacheAssumption DEF CertLoaderTypeOK, Cache

\* The new cache is stored, if the files hold a certificate and its key.
LEMMA StoreStep ==
    ASSUME SafeInv, NEW p \in Loaders, StoreCache(p)
    PROVE  SafeInv'
  <1> USE MaxWritesAssumption, BootAssumption, NoCacheAssumption
      DEF SafeInv, Loaders, Files, clDisk, GoTo, InLock, Loading
  <1>1. CertLoaderTypeOK'
    <2>1. [pair |-> clRead[p], modTime |-> clStat[p]] \in Cache
      BY Zenon DEF CertLoaderTypeOK, Cache
    <2>2. clCache' \in Cache \cup {NoCache} /\ UNCHANGED <<clFile, clWritten, clSettled>>
      BY <2>1, Zenon DEF CertLoaderTypeOK, StoreCache, MadeModTime
    <2>3. PICK what \in {"certificate", "error"} : Returns(p, what)
      BY Zenon DEF StoreCache, Unusable
    <2>4. /\ clAt' \in [Loaders -> Places] /\ clLock' \in Loaders \cup {"free"}
          /\ clResult' \in [Loaders -> {"none", "certificate", "error"}]
          /\ clSeen' \in [Loaders -> Cache \cup {NoCache}]
          /\ clStat' \in [Loaders -> Pair] /\ clRead' \in [Loaders -> Pair]
      BY <2>3, ReturnsType, Zenon
    <2> QED BY <2>2, <2>4, Zenon DEF CertLoaderTypeOK
  <1>2. DiskInv'
    BY Zenon DEF DiskInv, StoreCache
  <1>3. CachesInv'
    <2>1. clWritten' = clWritten /\ CacheOK(clCache) /\ \A q \in Loaders : CacheOK(clSeen[q])
      BY Zenon DEF StoreCache, CachesInv
    <2>2. \A q \in Loaders : clSeen'[q] = clSeen[q] \/ clSeen'[q] = NoCache
      BY Zenon DEF StoreCache, Unusable, Returns, CertLoaderTypeOK
    <2>3. CASE ~Loads(clRead[p])
      <3>1. clCache' = clCache
        BY <2>3, Zenon DEF StoreCache
      <3> QED BY <2>1, <2>2, <3>1, Zenon DEF CachesInv, CacheOK
    <2>4. CASE Loads(clRead[p])
      <3>1. clCache' = [pair |-> clRead[p], modTime |-> clStat[p]]
        BY <2>4, Zenon DEF StoreCache, MadeModTime
      <3>2. LoadsWell(p) /\ clAt[p] = "parse"
        BY Zenon DEF LoadInv, StoreCache
      <3>3. \A f \in Files : /\ clStat[p][f] # Away /\ clStat[p][f] <= clRead[p][f]
                             /\ clRead[p][f] <= clWritten[f]
        BY <2>4, <3>2, Zenon DEF LoadsWell, ReadOK, Loads
      <3>4. \A f \in Files : clStat[p][f] \in Stats
        BY Zenon DEF CertLoaderTypeOK, Pair
      <3>5. \A f \in Files : 0 <= clStat[p][f]
        BY <3>3, <3>4 DEF Stats, Writes, Away
      <3> QED BY <2>1, <2>2, <3>1, <3>3, <3>5, Zenon DEF CachesInv, CacheOK
    <2> QED BY <2>3, <2>4, Zenon
  <1>4. LockInv'
    BY DEF LockInv, CertLoaderTypeOK, StoreCache, Returns, Unusable
  <1>5. BootInv'
    BY NewCache DEF BootInv, CertLoaderTypeOK, StoreCache, Returns, Unusable, MadeModTime
  <1>6. CallInv'
    BY DEF CallInv, CertLoaderTypeOK, StoreCache, Returns, Unusable
  <1>7. LoadInv'
    <2>1. OthersKept(p) /\ UNCHANGED <<clWritten>>
      BY LoaderFrame, Zenon DEF CallStep, LoaderStep, StoreCache
    <2>2. LoadsWell(p)'
      BY <2>1, ReturnLoads, Zenon DEF StoreCache, Unusable
    <2>3. \A q \in Loaders \ {p} : clAt[q] \notin Loading
      <3>1. InLock(p) /\ \A q \in Loaders : InLock(q) => clLock = q
        BY Zenon DEF LockInv, StoreCache
      <3>2. clLock = p
        BY <3>1, Zenon
      <3> QED BY <3>1, <3>2, Zenon
    <2> QED BY <2>1, <2>2, <2>3, LoadFrame, Zenon
  <1> QED BY <1>1, <1>2, <1>3, <1>4, <1>5, <1>6, <1>7, Zenon

\* Every step preserves the invariant.
LEMMA SafeStep == SafeInv /\ [CertLoaderNext]_clVars => SafeInv'
  <1> SUFFICES ASSUME SafeInv, [CertLoaderNext]_clVars
               PROVE  SafeInv'
    OBVIOUS
  <1>1. ASSUME NEW f \in Files, Renew(f) \/ Unlink(f) PROVE SafeInv'
    BY <1>1, DiskStep, Zenon
  <1>2. ASSUME NEW p \in Loaders, CallStep(p) PROVE SafeInv'
    BY <1>2, LoadCacheStep, StatStep, CompareStep, AcquireStep, RecheckStep, ReadStep,
       StoreStep, Zenon DEF CallStep, LoaderStep
  <1>3. CASE UNCHANGED clVars
    BY <1>3, Zenon DEF clVars, SafeInv, CertLoaderTypeOK, DiskInv, CachesInv, CacheOK, LockInv,
       InLock, BootInv, CallInv, LoadInv, LoadsWell, ReadOK
  <1> QED BY <1>1, <1>2, <1>3, Zenon DEF CertLoaderNext

\* The initial state satisfies it.
LEMMA SafeInit == CertLoaderInit => SafeInv
  <1> SUFFICES ASSUME CertLoaderInit PROVE SafeInv
    OBVIOUS
  <1> USE MaxWritesAssumption, BootAssumption DEF CertLoaderInit, Loaders, Files
  <1>1. CertLoaderTypeOK
    <2>1. NoPair \in Pair /\ 0 \in Writes /\ 0 \in Stats
      BY DEF NoPair, Pair, Stats, Writes
    <2>2. clAt \in [Loaders -> Places]
      BY Zenon DEF Places
    <2> QED BY <2>1, <2>2, Zenon DEF CertLoaderTypeOK
  <1>2. DiskInv /\ CachesInv
    BY Zenon DEF DiskInv, CachesInv, CacheOK
  <1>3. LockInv
    BY Zenon DEF LockInv, InLock, Loading
  <1>4. BootInv /\ CallInv
    BY Zenon DEF BootInv, CallInv
  <1>5. LoadInv
    BY DEF LoadInv, LoadsWell, Loading, NoPair, Away
  <1> QED BY <1>1, <1>2, <1>3, <1>4, <1>5, Zenon DEF SafeInv

-----------------------------------------------------------------------------
(* The renewal: once settled, nothing is written and every call is a new one. *)

\* Files that were renewed for the last time stay.
LEMMA DiskSettled ==
    ASSUME SafeInv, SettledInv, NEW f \in Files, Renew(f) \/ Unlink(f)
    PROVE  SettledInv'
  <1>1. ~clSettled
    BY MaxWritesAssumption DEF SafeInv, DiskInv, SettledInv, Renewed, Renew, Unlink, Away
  <1> QED BY <1>1, Zenon DEF SettledInv, Renew, Unlink

\* A call begins; if it is alone, its cache is the one there is.
LEMMA LoadCacheSettled ==
    ASSUME SafeInv, SettledInv, NEW p \in Loaders, LoadCache(p)
    PROVE  SettledInv'
  <1> USE BootAssumption
      DEF SafeInv, CertLoaderTypeOK, LoadCache, Loaders, Files, clDisk, GoTo, Loading, CallInv
  <1>1. CASE clSettled
    BY <1>1, Zenon DEF SettledInv, SettledCall, Renewed, Current
  <1>2. CASE ~clSettled
    BY <1>2, Zenon DEF SettledInv, SettledCall, Renewed, Idle
  <1> QED BY <1>1, <1>2, Zenon

\* A call in progress does not disturb what holds of the others.
LEMMA SettledFrame ==
    ASSUME SettledInv, clSettled, NEW p \in Calls, OthersKept(p), UNCHANGED clSettled,
           clCache' = clCache \/ Current', SettledCall(p)',
           \/ clAt'[p] # "idle" \/ Current'
           \/ \E q \in Calls : q # p /\ clAt[q] # "idle"
    PROVE  SettledInv'
  <1>1. /\ Renewed /\ clResult[Boot] = "certificate" /\ \A q \in Calls : SettledCall(q)
        /\ Calls \subseteq Loaders /\ Boot \in Loaders \ {p}
    BY BootAssumption, Zenon DEF SettledInv, Loaders
  <1>2. \A q \in Loaders : q # p =>
          /\ clAt'[q] = clAt[q] /\ clSeen'[q] = clSeen[q] /\ clStat'[q] = clStat[q]
          /\ clRead'[q] = clRead[q] /\ clResult'[q] = clResult[q]
    BY Zenon DEF OthersKept
  <1>3. Renewed' /\ clResult'[Boot] = "certificate"
    BY <1>1, <1>2, Zenon DEF OthersKept, clDisk, Renewed
  <1>4. ASSUME NEW q \in Calls, q # p PROVE SettledCall(q)'
    <2>1. SettledCall(q) /\ q \in Loaders
      BY <1>1, Zenon
    <2> QED BY <1>2, <1>4, <2>1, Zenon DEF SettledCall, Current
  <1>5. Current' \/ \E q \in Calls : clAt'[q] # "idle"
    BY <1>1, <1>2, Zenon
  <1> QED BY <1>3, <1>4, <1>5, Zenon DEF SettledInv

\* A call that returns has nothing to keep.
LEMMA ReturnSettled ==
    ASSUME CertLoaderTypeOK, NEW p \in Calls, NEW what, Returns(p, what)
    PROVE  SettledCall(p)' /\ clAt'[p] = "idle"
  <1>1. clAt'[p] = "idle"
    BY ReturnedIs, BootAssumption, Zenon DEF Loaders
  <1> QED BY <1>1, Zenon DEF SettledCall, Loading

\* A step of a call that the settled files are kept by.
LEMMA SettledStart ==
    ASSUME SafeInv, SettledInv, NEW p \in Loaders, LoaderStep(p), clSettled
    PROVE  /\ p \in Calls /\ CertLoaderTypeOK /\ OthersKept(p) /\ UNCHANGED clSettled
           /\ SettledCall(p) /\ Renewed /\ \A f \in Files : clFile[f] # Away
  <1>1. clAt[Boot] = "done"
    BY Zenon DEF SafeInv, BootInv, SettledInv
  <1>2. p # Boot
    BY <1>1, Zenon DEF LoaderStep, Stat, CompareModTime, AcquireLock, Recheck, ReadFile, StoreCache
  <1>3. \A f \in Files : clFile[f] # Away
    BY MaxWritesAssumption DEF SettledInv, Renewed, Away
  <1>4. UNCHANGED clSettled
    BY Zenon DEF LoaderStep, Stat, CompareModTime, AcquireLock, Recheck, ReadFile, StoreCache
  <1> QED BY <1>2, <1>3, <1>4, LoaderFrame, Zenon DEF Loaders, SafeInv, SettledInv, CallStep

\* The modification times that are read are the last.
LEMMA StatSettled ==
    ASSUME SafeInv, SettledInv, NEW p \in Loaders,
           \/ Stat(p, "cert", "statCert", "statKey") \/ Stat(p, "key", "statKey", "compare")
           \/ Stat(p, "cert", "makeStatCert", "makeStatKey")
           \/ Stat(p, "key", "makeStatKey", "readCert")
    PROVE  SettledInv'
  <1> SUFFICES ASSUME clSettled PROVE SettledInv'
    BY Zenon DEF SettledInv, Stat
  <1>1. /\ p \in Calls /\ CertLoaderTypeOK /\ OthersKept(p) /\ UNCHANGED clSettled
        /\ SettledCall(p) /\ Renewed /\ \A f \in Files : clFile[f] # Away
    BY SettledStart, Zenon DEF LoaderStep
  <1>2. PICK g \in Files, from, to \in Places :
           /\ Stat(p, g, from, to)
           /\ \/ from = "statCert" /\ to = "statKey" /\ g = "cert"
              \/ from = "statKey" /\ to = "compare" /\ g = "key"
              \/ from = "makeStatCert" /\ to = "makeStatKey" /\ g = "cert"
              \/ from = "makeStatKey" /\ to = "readCert" /\ g = "key"
    BY Zenon DEF Places, Files
  <1>3. clFile[g] # Away /\ clFile[g] = MaxWrites
    BY <1>1, Zenon DEF Renewed
  <1>4. /\ clAt[p] = from /\ clAt'[p] = to /\ UNCHANGED <<clCache, clSeen, clRead>>
        /\ clStat'[p][g] = MaxWrites
        /\ \A f \in Files : f # g => clStat'[p][f] = clStat[p][f]
    <2>1. /\ clAt[p] = from /\ GoTo(p, to) /\ UNCHANGED <<clCache, clSeen, clRead>>
          /\ clStat' = [clStat EXCEPT ![p][g] = clFile[g]]
      BY <1>2, <1>3, Zenon DEF Stat
    <2> QED BY <1>1, <1>3, <2>1, Zenon DEF GoTo, CertLoaderTypeOK, Pair, Files
  <1>5. SettledCall(p)' /\ clAt'[p] # "idle"
    BY <1>1, <1>2, <1>4, Zenon DEF SettledCall, Loading, Current, Files
  <1> QED BY <1>1, <1>4, <1>5, SettledFrame, Zenon

\* A cache with the last modification times is the renewed one.
LEMMA CompareSettled ==
    ASSUME SafeInv, SettledInv, NEW p \in Loaders, CompareModTime(p)
    PROVE  SettledInv'
  <1> SUFFICES ASSUME clSettled PROVE SettledInv'
    BY Zenon DEF SettledInv, CompareModTime
  <1>1. /\ p \in Calls /\ CertLoaderTypeOK /\ OthersKept(p) /\ UNCHANGED clSettled
        /\ SettledCall(p) /\ Renewed /\ \A f \in Files : clFile[f] # Away
    BY SettledStart, Zenon DEF LoaderStep
  <1>2. clAt[p] = "compare" /\ clCache' = clCache
    BY Zenon DEF CompareModTime
  <1>3. CASE UpToDate(clSeen[p], clStat[p])
    <2>1. clSeen[p] # NoCache /\ clSeen[p].modTime = clStat[p]
      BY <1>3, Zenon DEF UpToDate
    <2>2. \A f \in Files : clStat[p][f] = MaxWrites
      BY <1>1, <1>2, Zenon DEF SettledCall, Files
    <2>3. \A f \in Files : MaxWrites <= clSeen[p].pair[f] /\ clSeen[p].pair[f] <= clWritten[f]
      BY <2>1, <2>2, Zenon DEF SafeInv, CachesInv, CacheOK
    <2>4. \A f \in Files : clWritten[f] = MaxWrites
      BY <1>1, Zenon DEF SafeInv, DiskInv, Renewed
    <2>5. \A f \in Files : clSeen[p].pair[f] \in Int
      <3>1. clSeen[p] \in Cache
        BY <1>1, <2>1, Zenon DEF CertLoaderTypeOK
      <3>2. clSeen[p].pair \in Pair
        BY <3>1 DEF Cache
      <3> QED BY <3>2, MaxWritesAssumption DEF Pair, Files, Stats, Writes, Away
    <2>6. \A f \in Files : clSeen[p].pair[f] = MaxWrites
      BY <2>3, <2>4, <2>5, MaxWritesAssumption
    <2>7. Current
      BY <1>1, <1>2, <2>1, <2>6, Zenon DEF SettledCall, Current
    <2>8. Current'
      BY <1>2, <2>7, Zenon DEF Current
    <2>9. SettledCall(p)'
      BY <1>1, <1>3, ReturnSettled, Zenon DEF CompareModTime
    <2> QED BY <1>1, <1>2, <2>8, <2>9, SettledFrame, Zenon
  <1>4. CASE ~UpToDate(clSeen[p], clStat[p])
    <2>1. clAt'[p] = "lock" /\ UNCHANGED clSeen
      BY <1>1, <1>4, Zenon DEF CompareModTime, GoTo, CertLoaderTypeOK
    <2>2. SettledCall(p)'
      BY <1>1, <1>2, <2>1, Zenon DEF SettledCall, Loading, Current
    <2> QED BY <1>1, <1>2, <2>1, <2>2, SettledFrame, Zenon
  <1> QED BY <1>3, <1>4, Zenon

\* A call that does not get the lock leaves its holder at work.
LEMMA AcquireSettled ==
    ASSUME SafeInv, SettledInv, NEW p \in Loaders, AcquireLock(p)
    PROVE  SettledInv'
  <1> SUFFICES ASSUME clSettled PROVE SettledInv'
    BY Zenon DEF SettledInv, AcquireLock
  <1>1. /\ p \in Calls /\ CertLoaderTypeOK /\ OthersKept(p) /\ UNCHANGED clSettled
        /\ SettledCall(p) /\ Renewed /\ \A f \in Files : clFile[f] # Away
    BY SettledStart, Zenon DEF LoaderStep
  <1>2. clAt[p] = "lock" /\ clCache' = clCache
    BY Zenon DEF AcquireLock
  <1>3. CASE Locked /\ Returns(p, "certificate")
    <2>1. PICK q \in Loaders : clLock = q /\ InLock(q)
      BY <1>3, Zenon DEF SafeInv, CertLoaderTypeOK, LockInv, Locked
    <2>2. q \in Calls /\ q # p /\ clAt[q] # "idle"
      BY <1>2, <2>1, Zenon DEF SafeInv, BootInv, SettledInv, InLock, Loading, Loaders
    <2>3. SettledCall(p)'
      BY <1>1, <1>3, ReturnSettled, Zenon
    <2> QED BY <1>1, <1>2, <2>2, <2>3, SettledFrame, Zenon
  <1>4. CASE ~(Locked /\ Returns(p, "certificate"))
    <2>1. clAt'[p] = "recheck" /\ UNCHANGED clSeen
      BY <1>1, <1>4, BootAssumption, Zenon DEF AcquireLock, GoTo, CertLoaderTypeOK
    <2>2. SettledCall(p)'
      BY <1>1, <1>2, <2>1, Zenon DEF SettledCall, Loading, Current
    <2> QED BY <1>1, <1>2, <2>1, <2>2, SettledFrame, Zenon
  <1> QED BY <1>3, <1>4, Zenon

\* A cache stored since the call began is the renewed one.
LEMMA RecheckSettled ==
    ASSUME SafeInv, SettledInv, NEW p \in Loaders, Recheck(p)
    PROVE  SettledInv'
  <1> SUFFICES ASSUME clSettled PROVE SettledInv'
    BY Zenon DEF SettledInv, Recheck
  <1>1. /\ p \in Calls /\ CertLoaderTypeOK /\ OthersKept(p) /\ UNCHANGED clSettled
        /\ SettledCall(p) /\ Renewed /\ \A f \in Files : clFile[f] # Away
    BY SettledStart, Zenon DEF LoaderStep
  <1>2. clAt[p] = "recheck" /\ clCache' = clCache
    BY Zenon DEF Recheck
  <1>3. CASE clCache # clSeen[p]
    <2>1. Current /\ SettledCall(p)'
      BY <1>1, <1>2, <1>3, ReturnSettled, Zenon DEF Recheck, SettledCall
    <2>2. Current'
      BY <1>2, <2>1, Zenon DEF Current
    <2> QED BY <1>1, <1>2, <2>1, <2>2, SettledFrame, Zenon
  <1>4. CASE clCache = clSeen[p]
    <2>1. clAt'[p] = "makeStatCert" /\ UNCHANGED clSeen
      BY <1>1, <1>4, Zenon DEF Recheck, GoTo, CertLoaderTypeOK
    <2>2. SettledCall(p)'
      BY <1>2, <1>4, <2>1, Zenon DEF SettledCall, Loading
    <2> QED BY <1>1, <1>2, <2>1, <2>2, SettledFrame, Zenon
  <1> QED BY <1>3, <1>4, Zenon

\* What is read are the last writes.
LEMMA ReadSettled ==
    ASSUME SafeInv, SettledInv, NEW p \in Loaders,
           ReadFile(p, "cert", "readCert", "readKey") \/ ReadFile(p, "key", "readKey", "parse")
    PROVE  SettledInv'
  <1> SUFFICES ASSUME clSettled PROVE SettledInv'
    BY Zenon DEF SettledInv, ReadFile
  <1>1. /\ p \in Calls /\ CertLoaderTypeOK /\ OthersKept(p) /\ UNCHANGED clSettled
        /\ SettledCall(p) /\ Renewed /\ \A f \in Files : clFile[f] # Away
    BY SettledStart, Zenon DEF LoaderStep
  <1>2. PICK g \in Files, from, to \in Places :
           /\ ReadFile(p, g, from, to)
           /\ \/ from = "readCert" /\ to = "readKey" /\ g = "cert"
              \/ from = "readKey" /\ to = "parse" /\ g = "key"
    BY Zenon DEF Places, Files
  <1>3. clFile[g] = MaxWrites
    BY <1>1, Zenon DEF Renewed
  <1>4. /\ clAt[p] = from /\ clAt'[p] = to /\ UNCHANGED <<clCache, clSeen, clStat>>
        /\ clRead'[p][g] = MaxWrites
        /\ \A f \in Files : f # g => clRead'[p][f] = clRead[p][f]
    <2>1. /\ clAt[p] = from /\ GoTo(p, to) /\ UNCHANGED <<clCache, clSeen, clStat>>
          /\ clRead' = [clRead EXCEPT ![p][g] = clFile[g]]
      BY <1>2, Zenon DEF ReadFile
    <2> QED BY <1>1, <1>3, <2>1, Zenon DEF GoTo, CertLoaderTypeOK, Pair, Files
  <1>5. SettledCall(p)' /\ clAt'[p] # "idle"
    BY <1>1, <1>2, <1>4, Zenon DEF SettledCall, Loading, Current, Files
  <1> QED BY <1>1, <1>4, <1>5, SettledFrame, Zenon

\* What is stored is the renewed certificate.
LEMMA StoreSettled ==
    ASSUME SafeInv, SettledInv, NEW p \in Loaders, StoreCache(p)
    PROVE  SettledInv'
  <1> SUFFICES ASSUME clSettled PROVE SettledInv'
    BY Zenon DEF SettledInv, StoreCache
  <1>1. /\ p \in Calls /\ CertLoaderTypeOK /\ OthersKept(p) /\ UNCHANGED clSettled
        /\ SettledCall(p) /\ Renewed /\ \A f \in Files : clFile[f] # Away
    BY SettledStart, Zenon DEF LoaderStep
  <1>2. clRead[p]["cert"] = MaxWrites /\ clRead[p]["key"] = MaxWrites
    BY <1>1, Zenon DEF SettledCall, StoreCache, Loading
  <1>3. MaxWrites # Away
    BY MaxWritesAssumption DEF Away
  <1>4. Loads(clRead[p])
    BY <1>2, <1>3 DEF Loads
  <1>5. clCache' = [pair |-> clRead[p], modTime |-> clStat[p]] /\ Returns(p, "certificate")
    BY <1>4, Zenon DEF StoreCache, MadeModTime
  <1>6. Current'
    BY <1>1, <1>2, <1>5, NewCache, Zenon DEF Current, Files
  <1>7. SettledCall(p)'
    BY <1>1, <1>5, ReturnSettled, Zenon
  <1> QED BY <1>1, <1>6, <1>7, SettledFrame, Zenon

\* Every step preserves the second invariant.
LEMMA SettledStep == SafeInv /\ SettledInv /\ [CertLoaderNext]_clVars => SettledInv'
  <1> SUFFICES ASSUME SafeInv, SettledInv, [CertLoaderNext]_clVars
               PROVE  SettledInv'
    OBVIOUS
  <1>1. ASSUME NEW f \in Files, Renew(f) \/ Unlink(f) PROVE SettledInv'
    BY <1>1, DiskSettled, Zenon
  <1>2. ASSUME NEW p \in Loaders, CallStep(p) PROVE SettledInv'
    BY <1>2, LoadCacheSettled, StatSettled, CompareSettled, AcquireSettled, RecheckSettled,
       ReadSettled, StoreSettled, Zenon DEF CallStep, LoaderStep
  <1>3. CASE UNCHANGED clVars
    BY <1>3, Zenon DEF clVars, SettledInv, SettledCall, Renewed, Current
  <1> QED BY <1>1, <1>2, <1>3, Zenon DEF CertLoaderNext

-----------------------------------------------------------------------------
\* Every behaviour of the loader satisfies the invariants.
LEMMA Invariance == CertLoaderSpec => [](SafeInv /\ SettledInv)
  <1>1. CertLoaderInit => SettledInv
    BY Zenon DEF CertLoaderInit, SettledInv
  <1> QED BY <1>1, SafeInit, SafeStep, SettledStep, PTL DEF CertLoaderSpec

\* The state of the loader has its type, for any number of calls and renewals.
THEOREM CertLoaderTypeCorrect == CertLoaderSpec => []CertLoaderTypeOK
  <1>1. SafeInv => CertLoaderTypeOK
    BY Zenon DEF SafeInv
  <1> QED BY <1>1, Invariance, PTL

\* A cache whose modification times are those of the files holds what the files
\* hold, so that getCertificateWithCache may return it unread.
THEOREM UpToDateAlwaysCurrent == CertLoaderSpec => []UpToDateIsCurrent
  <1>1. SafeInv => UpToDateIsCurrent
    <2> SUFFICES ASSUME SafeInv, clCache # NoCache, NEW f \in Files,
                        clCache.modTime[f] = clFile[f]
                 PROVE  clCache.pair[f] = clFile[f]
      BY Zenon DEF UpToDateIsCurrent
    <2>1. clCache.pair[f] \in Int /\ clWritten[f] \in Int
      BY MaxWritesAssumption DEF SafeInv, CertLoaderTypeOK, Cache, Pair, Stats, Writes,
         Away, Files
    <2>2. /\ 0 <= clFile[f] /\ clFile[f] <= clCache.pair[f]
          /\ clCache.pair[f] <= clWritten[f]
      BY Zenon DEF SafeInv, CachesInv, CacheOK
    <2>3. clFile[f] = clWritten[f]
      BY <2>2 DEF SafeInv, DiskInv, Away
    <2> QED BY <2>1, <2>2, <2>3, SMTT(30)
  <1> QED BY <1>1, Invariance, PTL

\* No handshake fails for the state of the files once InitializeCache succeeded.
THEOREM HandshakesNeverFail == CertLoaderSpec => []NoHandshakeFails
  <1>1. SafeInv => NoHandshakeFails
    BY Zenon DEF SafeInv, CallInv, NoHandshakeFails
  <1> QED BY <1>1, Invariance, PTL

\* The loader never goes back to an older certificate or key.
THEOREM CacheNeverGoesBack == CertLoaderSpec => CacheAdvances
  <1>1. SafeInv /\ [CertLoaderNext]_clVars =>
          [clCache # NoCache =>
             clCache' # NoCache /\ \A f \in Files : clCache'.pair[f] >= clCache.pair[f]]_clVars
    <2> SUFFICES ASSUME SafeInv, CertLoaderNext, clCache # NoCache, clCache' # clCache
                 PROVE  clCache' # NoCache /\ \A f \in Files : clCache'.pair[f] >= clCache.pair[f]
      BY DEF SafeInv, CertLoaderTypeOK, Cache, Pair, Stats, Writes, Away, Files
    <2>1. PICK p \in Loaders : StoreCache(p) /\ Loads(clRead[p])
      BY Zenon DEF CertLoaderNext, Renew, Unlink, CallStep, LoaderStep, LoadCache, Stat,
         CompareModTime, AcquireLock, Recheck, ReadFile, StoreCache
    <2>2. clCache' = [pair |-> clRead[p], modTime |-> clStat[p]] /\ clSeen[p] = clCache
      BY <2>1, Zenon DEF StoreCache, MadeModTime, SafeInv, LoadInv, LoadsWell, Loading
    <2> QED BY <2>1, <2>2, NewCache, Zenon DEF SafeInv, LoadInv, LoadsWell, ReadOK, Loads, StoreCache,
           Files
  <1> QED BY <1>1, Invariance, PTL DEF CertLoaderSpec, CacheAdvances

\* When the files are renewed for good the loader comes to hold them.
THEOREM RenewalAlwaysServed == CertLoaderSpec => []RenewalServed
  <1>1. SafeInv /\ SettledInv => RenewalServed
    BY Zenon DEF SafeInv, CallInv, SettledInv, SettledCall, RenewalServed, Current, Idle, Loaders
  <1> QED BY <1>1, Invariance, PTL

-----------------------------------------------------------------------------
(***************************************************************************)
(* The realm runtime, for any number of registrations and of addresses.    *)
(***************************************************************************)

RtTypes ==
    /\ heartbeatPC \in [Sessions -> {"none", "select", "update", "keep", "end"}]
    /\ rzNext \in Nat \ {0} /\ regReply \in Nat
    /\ runPC \in {"session", "refresh", "register", "reply", "end"}
    /\ closePC \in {"no", "deregister", "ok", "failed"}

\* run cancels a session before it registers another, and a session that has no
\* loops yet is not the current one.
RunInv ==
    /\ runPC # "session" => session \in cancelled \/ ctxDone
    /\ runPC = "reply" => regReply \in Sessions
    /\ OneSessionRuns

\* Once Close has begun no registration begins, and after its request only a
\* reply that was already on its way can still change the session.
CloseInv ==
    /\ closePC # "no" => ctxDone
    /\ closePC = "ok" /\ ~raced => session \notin rzLive /\ runPC # "reply"

RtInv == RtTypes /\ RunInv /\ CloseInv

\* The runtime starts with the session that the first registration returned.
LEMMA RtInitInv == RuntimeInit => RtInv
  BY DEF RuntimeInit, RtInv, RtTypes, RunInv, CloseInv, OneSessionRuns, Done

\* Every step of run, of a session's loops, of Close and of the rendezvous keeps
\* RtInv.
LEMMA RtStep == RtInv /\ [RuntimeNext]_rtVars => RtInv'
  <1> SUFFICES ASSUME RtInv, [RuntimeNext]_rtVars PROVE RtInv'
    OBVIOUS
  <1> USE RealmRuntimeAssumption DEF RtInv, RtTypes, RunInv, CloseInv, OneSessionRuns, Done,
          world, main, loops, rtHistory
  <1>1. ASSUME NEW a \in RealmAddrs, AddrMoves(a) PROVE RtInv'
    BY <1>1, Zenon DEF AddrMoves
  <1>2. CASE SessionEnds
    BY <1>2, Zenon DEF SessionEnds, Cancel
  <1>3. CASE RunRefresh
    BY <1>3, Zenon DEF RunRefresh
  <1>4. CASE RegisterArrives
    BY <1>4 DEF RegisterArrives, Sessions
  <1>5. CASE RegisterFatal \/ RegisterFails
    BY <1>5 DEF RegisterFatal, RegisterFails
  <1>6. CASE RegisterOK
    <2>1. regReply \in Sessions /\ (session \in cancelled \/ ctxDone) /\ ~(closePC = "ok" /\ ~raced)
      BY <1>6, Zenon DEF RegisterOK
    <2>2. CASE ctxDone
      BY <1>6, <2>1, <2>2, Zenon DEF RegisterOK, NewSession
    <2>3. CASE ~ctxDone
      BY <1>6, <2>1, <2>3, Zenon DEF RegisterOK, NewSession
    <2> QED BY <2>2, <2>3, Zenon
  <1>7. CASE RuntimeClose
    BY <1>7, Zenon DEF RuntimeClose
  <1>8. CASE Deregister
    BY <1>8, Zenon DEF Deregister, DeregisterTarget
  <1>9. ASSUME NEW s \in Sessions, SessionExpires(s) PROVE RtInv'
    BY <1>9, Zenon DEF SessionExpires
  <1>10. ASSUME NEW s \in Sessions, HeartbeatStep(s) PROVE RtInv'
    BY <1>10 DEF HeartbeatStep, HeartbeatTick, HeartbeatOK, HeartbeatInvalid, LoopEnds
  <1>11. ASSUME NEW s \in Sessions, HeartbeatFails(s) \/ HeartbeatDone(s) PROVE RtInv'
    BY <1>11, Zenon DEF HeartbeatFails, HeartbeatDone, LoopEnds
  <1>12. ASSUME NEW s \in Sessions,
                \/ EventsConnect(s) \/ EventsInvalid(s) \/ EventsLost(s) \/ EventsDrop(s)
                \/ EventsDone(s) \/ RespondRefresh(s)
         PROVE  RtInv'
    BY <1>12, Zenon DEF EventsConnect, EventsInvalid, EventsLost, EventsDrop, EventsDone, RespondRefresh
  <1>13. CASE UNCHANGED rtVars
    BY <1>13, Zenon DEF rtVars
  <1> QED BY <1>1, <1>2, <1>3, <1>4, <1>5, <1>6, <1>7, <1>8, <1>9, <1>10, <1>11, <1>12, <1>13, Zenon
             DEF RuntimeNext, RunStep, LoopStops

\* The heartbeat of every session but the current one has been told to stop, and
\* a Close that succeeded leaves no registration behind, unless one was on its
\* way when Close deregistered.
THEOREM RealmIsKept == RuntimeInit /\ [][RuntimeNext]_rtVars => []RealmKept
  <1>1. RtInv => RealmKept
    BY Zenon DEF RtInv, RunInv, CloseInv, RealmKept, ClosedIsGone
  <1> QED BY <1>1, RtInitInv, RtStep, PTL

-----------------------------------------------------------------------------
(***************************************************************************)
(* STUN discovery, for any number of calls and of servers, and the mapping of *)
(* the realm's port, for any lifetime.                                     *)
(***************************************************************************)

\* What a call has asked and not been answered, and what it was answered.
StunInv ==
    /\ stunPC \in [Discoverers -> {"idle", "wait", "ok", "error"}]
    /\ DOMAIN transactions = Discoverers /\ DOMAIN stunSent = Discoverers
    /\ DOMAIN stunResults = Discoverers
    /\ \A d \in Discoverers :
         /\ stunResults[d] \in Seq(stunSent[d])
         /\ transactions[d] \subseteq stunSent[d]
         /\ stunPC[d] = "idle" => stunResults[d] = <<>>
    /\ OwnAnswersOnce

\* Nothing is asked or answered at first.
LEMMA StunInitInv == StunInit => StunInv
  BY DEF StunInit, StunInv, OwnAnswersOnce

\* Steps that change no more than where a call is.
LEMMA StunFrame ==
    ASSUME StunInv, UNCHANGED <<transactions, stunSent, stunResults>>,
           stunPC' \in [Discoverers -> {"idle", "wait", "ok", "error"}],
           \A d \in Discoverers :
             /\ stunPC'[d] = "idle" => stunPC[d] = "idle"
             /\ stunPC'[d] = "ok" => stunPC[d] = "ok" \/ stunResults[d] # <<>>
    PROVE  StunInv'
  <1>1. stunResults' = stunResults /\ stunSent' = stunSent /\ transactions' = transactions
    OBVIOUS
  <1>2. \A d \in Discoverers :
          /\ \A i, j \in DOMAIN stunResults[d] : i # j => stunResults[d][i] # stunResults[d][j]
          /\ {stunResults[d][i] : i \in DOMAIN stunResults[d]} = stunSent[d] \ transactions[d]
          /\ stunPC'[d] = "ok" => stunResults[d] # <<>>
    BY Zenon DEF StunInv, OwnAnswersOnce
  <1>3. OwnAnswersOnce'
    BY <1>1, <1>2 DEF OwnAnswersOnce
  <1> QED BY <1>3, Zenon DEF StunInv

\* A sequence with one more element.
LEMMA Appended ==
    ASSUME NEW S, NEW q \in Seq(S), NEW x \in S
    PROVE  /\ DOMAIN Append(q, x) = 1 .. (Len(q) + 1) /\ DOMAIN q = 1 .. Len(q) /\ Len(q) \in Nat
           /\ \A i \in 1 .. Len(q) : Append(q, x)[i] = q[i]
           /\ Append(q, x)[Len(q) + 1] = x /\ Append(q, x) \in Seq(S)
  OBVIOUS

\* An answer that is accepted is not one of those accepted before.
LEMMA StunTakeStep == ASSUME StunInv, NEW d \in Discoverers, StunTake(d) PROVE StunInv'
  <1> USE DEF StunInv
  <1>1. CASE ~OwnTransaction(d, Head(stunChan))
    BY <1>1, StunFrame, Zenon DEF StunTake, StunInv
  <1>2. CASE OwnTransaction(d, Head(stunChan))
    <2> DEFINE t == Head(stunChan)
               r == stunResults[d]
    <2>1. /\ transactions' = [transactions EXCEPT ![d] = @ \ {t}]
          /\ stunResults' = [stunResults EXCEPT ![d] = Append(@, t)]
          /\ UNCHANGED <<stunPC, stunSent>> /\ stunPC[d] = "wait" /\ t \in transactions[d]
      BY <1>2, Zenon DEF StunTake, OwnTransaction
    <2>2. t \in stunSent[d] /\ t \notin {r[i] : i \in DOMAIN r} /\ r \in Seq(stunSent[d])
      BY <2>1, Zenon DEF OwnAnswersOnce
    <2> HIDE DEF t
    <2>3. /\ stunResults'[d] = Append(r, t) /\ transactions'[d] = transactions[d] \ {t}
          /\ \A e \in Discoverers : e # d => stunResults'[e] = stunResults[e]
                                             /\ transactions'[e] = transactions[e]
          /\ DOMAIN transactions' = Discoverers /\ DOMAIN stunResults' = Discoverers
      BY <2>1, Zenon
    <2>4. /\ DOMAIN Append(r, t) = 1 .. (Len(r) + 1) /\ DOMAIN r = 1 .. Len(r) /\ Len(r) \in Nat
          /\ \A i \in 1 .. Len(r) : Append(r, t)[i] = r[i]
          /\ Append(r, t)[Len(r) + 1] = t /\ Append(r, t) \in Seq(stunSent[d])
      BY <2>2, Appended, Zenon
    <2>5. \A i, j \in DOMAIN Append(r, t) : i # j => Append(r, t)[i] # Append(r, t)[j]
      <3> SUFFICES ASSUME NEW i \in 1 .. (Len(r) + 1), NEW j \in 1 .. (Len(r) + 1), i # j
                   PROVE  Append(r, t)[i] # Append(r, t)[j]
        BY <2>4, Zenon
      <3>1. CASE i \in 1 .. Len(r) /\ j \in 1 .. Len(r)
        BY <2>4, <3>1 DEF OwnAnswersOnce
      <3>2. CASE i = Len(r) + 1
        BY <2>2, <2>4, <3>2
      <3>3. CASE j = Len(r) + 1
        BY <2>2, <2>4, <3>3
      <3> QED BY <2>4, <3>1, <3>2, <3>3
    <2>6. {Append(r, t)[i] : i \in DOMAIN Append(r, t)} = {r[i] : i \in DOMAIN r} \cup {t}
      BY <2>4
    <2>7. {r[i] : i \in DOMAIN r} = stunSent[d] \ transactions[d]
      BY Zenon DEF OwnAnswersOnce
    <2>8. Append(r, t) # <<>>
      BY <2>4
    <2>9. OwnAnswersOnce'
      <3> SUFFICES ASSUME NEW e \in Discoverers
                   PROVE  /\ \A i, j \in DOMAIN stunResults'[e] :
                               i # j => stunResults'[e][i] # stunResults'[e][j]
                          /\ {stunResults'[e][i] : i \in DOMAIN stunResults'[e]} =
                               stunSent'[e] \ transactions'[e]
                          /\ stunPC'[e] = "ok" => stunResults'[e] # <<>>
        BY Zenon DEF OwnAnswersOnce
      <3>1. CASE e = d
        <4>1. {stunResults'[d][i] : i \in DOMAIN stunResults'[d]} = stunSent'[d] \ transactions'[d]
          <5>1. {stunResults'[d][i] : i \in DOMAIN stunResults'[d]} = {r[i] : i \in DOMAIN r} \cup {t}
            BY <2>3, <2>6, Zenon
          <5>2. stunSent'[d] = stunSent[d] /\ transactions'[d] = transactions[d] \ {t}
            BY <2>1, <2>3, Zenon
          <5> QED BY <2>2, <2>7, <5>1, <5>2, Zenon
        <4>2. \A i, j \in DOMAIN stunResults'[d] : i # j => stunResults'[d][i] # stunResults'[d][j]
          BY <2>3, <2>5, Zenon
        <4>3. stunResults'[d] # <<>>
          BY <2>3, <2>8, Zenon
        <4> QED BY <3>1, <4>1, <4>2, <4>3, Zenon
      <3>2. CASE e # d
        BY <2>1, <2>3, <3>2 DEF OwnAnswersOnce
      <3> QED BY <3>1, <3>2, Zenon
    <2> QED BY <2>1, <2>3, <2>4, <2>9, Zenon
  <1> QED BY <1>1, <1>2, Zenon

\* Every step of a discovery and of the network keeps StunInv.
LEMMA StunStep == StunInv /\ [StunNext]_stunVars => StunInv'
  <1> SUFFICES ASSUME StunInv, [StunNext]_stunVars PROVE StunInv'
    OBVIOUS
  <1>1. ASSUME NEW d \in Discoverers, NEW servers \in SUBSET StunServers, StunSend(d, servers)
        PROVE  StunInv'
    <2>1. PICK ids : /\ stunPC[d] = "idle" /\ stunResults' = stunResults
                     /\ stunPC' = [stunPC EXCEPT ![d] = IF ids = {} THEN "error" ELSE "wait"]
                     /\ transactions' = [transactions EXCEPT ![d] = ids]
                     /\ stunSent' = [stunSent EXCEPT ![d] = ids]
      BY <1>1, Zenon DEF StunSend
    <2>2. /\ stunPC' \in [Discoverers -> {"idle", "wait", "ok", "error"}] /\ stunPC'[d] # "ok"
          /\ stunPC'[d] # "idle"
          /\ DOMAIN transactions' = Discoverers /\ DOMAIN stunSent' = Discoverers
          /\ transactions'[d] = ids /\ stunSent'[d] = ids /\ stunResults[d] = <<>>
          /\ \A e \in Discoverers : e # d => /\ stunPC'[e] = stunPC[e] /\ stunSent'[e] = stunSent[e]
                                              /\ transactions'[e] = transactions[e]
      BY <2>1, Zenon DEF StunInv
    <2>3. stunResults[d] \in Seq(ids) /\ {stunResults[d][i] : i \in DOMAIN stunResults[d]} = {}
          /\ DOMAIN stunResults[d] = {}
      BY <2>2
    <2>4. OwnAnswersOnce'
      BY <2>1, <2>2, <2>3 DEF StunInv, OwnAnswersOnce
    <2> QED BY <2>1, <2>2, <2>3, <2>4, Zenon DEF StunInv
  <1>2. ASSUME NEW d \in Discoverers, StunFinish(d) PROVE StunInv'
    <2>1. /\ stunPC' \in [Discoverers -> {"idle", "wait", "ok", "error"}]
          /\ stunPC'[d] = StunOutcome(d) /\ \A e \in Discoverers : e # d => stunPC'[e] = stunPC[e]
      BY <1>2, Zenon DEF StunFinish, StunOutcome, StunInv
    <2>2. stunPC'[d] # "idle" /\ (stunPC'[d] = "ok" => stunResults[d] # <<>>)
      BY <2>1, Zenon DEF StunOutcome
    <2> QED BY <1>2, <2>1, <2>2, StunFrame, Zenon DEF StunFinish
  <1>3. ASSUME NEW t \in stunNet, StunArrives(t) PROVE StunInv'
    BY <1>3, StunFrame, Zenon DEF StunArrives, StunInv
  <1>4. CASE UNCHANGED stunVars
    BY <1>4, StunFrame, Zenon DEF stunVars, StunInv
  <1> QED BY <1>1, <1>2, <1>3, <1>4, StunTakeStep, Zenon DEF StunNext

-----------------------------------------------------------------------------
\* The mapping is renewed when half of its lifetime is left; and while the
\* setup is running it is as old as new.
SetupInv ==
    /\ lease \in Nat /\ renewIn \in Nat /\ renewFailed \in BOOLEAN
    /\ baseConn \in {"none", "open", "closed"}
    /\ mapper \in {"off", "none", "held", "closed"}
    /\ setup \in {"running", "ok", "failed", "closed"}
    /\ setup = "running" =>
         /\ mapLoop = "none"
         /\ mapper = "held" => lease = Lifetime
         /\ mapper # "held" /\ lease > 0 => mapper = "off" /\ renewFailed
    /\ FailedLeavesNothing
    /\ setup = "failed" => mapLoop = "none"
    /\ mapLoop = "select" /\ ~renewFailed => lease >= renewIn + (Lifetime - RenewEvery)

\* A renewal is due strictly before the mapping expires.
LEMMA Halved == RenewEvery \in Nat /\ RenewEvery < Lifetime
  BY RealmSetupAssumption DEF RenewEvery

\* Nothing is held at first.
LEMMA SetupInitInv == SetupInit => SetupInv
  <1> SUFFICES ASSUME SetupInit PROVE SetupInv
    OBVIOUS
  <1>1. lease = 0 /\ renewIn = 0 /\ renewFailed = FALSE /\ setup = "running" /\ mapLoop = "none"
        /\ mapper \in {"off", "none"} /\ baseConn = "none"
    BY Zenon DEF SetupInit
  <1>2. ~(lease > 0) /\ mapper # "held"
    BY <1>1
  <1> QED BY <1>1, <1>2, Zenon DEF SetupInv, FailedLeavesNothing

\* Every step of the setup and of the mapping's loop keeps SetupInv.
LEMMA SetupKept == SetupInv /\ [SetupNext]_setupVars => SetupInv'
  <1> SUFFICES ASSUME SetupInv, [SetupNext]_setupVars PROVE SetupInv'
    OBVIOUS
  <1> USE RealmSetupAssumption, Halved DEF SetupInv, FailedLeavesNothing, MapperCloses
  <1>1. CASE SetupStepOK
    BY <1>1, Zenon DEF SetupStepOK
  <1>2. CASE SetupMap
    BY <1>2, Zenon DEF SetupMap
  <1>3. CASE SetupFails
    BY <1>3 DEF SetupFails
  <1>4. CASE SetupDone
    BY <1>4 DEF SetupDone
  <1>5. CASE SetupTick
    BY <1>5 DEF SetupTick
  <1>6. CASE MapRenew
    <2>1. CASE lease' = Lifetime /\ renewFailed' = FALSE
      <3>1. lease' >= renewIn' + (Lifetime - RenewEvery)
        BY <1>6, <2>1 DEF MapRenew
      <3> QED BY <1>6, <2>1, <3>1, Zenon DEF MapRenew
    <2>2. CASE UNCHANGED lease /\ renewFailed' = TRUE
      BY <1>6, <2>2, Zenon DEF MapRenew
    <2> QED BY <1>6, <2>1, <2>2, Zenon DEF MapRenew
  <1>7. CASE SetupClose
    BY <1>7, Zenon DEF SetupClose
  <1>8. CASE MapLoopEnds
    BY <1>8 DEF MapLoopEnds
  <1>9. CASE UNCHANGED setupVars
    BY <1>9, Zenon DEF setupVars
  <1> QED BY <1>1, <1>2, <1>3, <1>4, <1>5, <1>6, <1>7, <1>8, <1>9, Zenon DEF SetupNext

\* A setup that fails leaves neither socket nor mapping, a mapping is held as long
\* as its renewals succeed, and a discovery counts each of its own answers once.
THEOREM SetupIsSafe ==
    SetupInit /\ StunInit /\ [][SetupNext]_setupVars /\ [][StunNext]_stunVars => []SetupSafe
  <1>1. SetupInv /\ StunInv => SetupSafe
    BY RealmSetupAssumption, Halved DEF SetupInv, StunInv, SetupSafe, MappingHeld
  <1> QED BY <1>1, SetupInitInv, SetupKept, StunInitInv, StunStep, PTL
=============================================================================
