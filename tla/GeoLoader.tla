------------------------------ MODULE GeoLoader ------------------------------
(***************************************************************************)
(* GeoLoader (app/internal/utils/geoloader.go): a geo database loaded when *)
(* the first rule needs it, from a configured file or from one that is     *)
(* downloaded and refreshed.  LoadGeoIP and LoadGeoSite differ only in the *)
(* format of the file.  The process may be killed at any step and started  *)
(* again; processes that share the directory may both be at it.  A file    *)
(* that is there can be examined: Stat fails only for want of a file.      *)
(***************************************************************************)
EXTENDS Integers

CONSTANTS
    GeoProcs,       \* the processes that share the directory
    MaxGeoRuns      \* bound on the loads of each

\* A file: "none", "empty", "broken" (not loadable), or a loadable database
\* that is past the update interval or not.
Contents == {"none", "empty", "broken", "old", "fresh"}
Loadable == {"empty", "old", "fresh"}

VARIABLES
    geoAuto,        \* whether the filename is left empty: automatic download
    geoTarget,      \* the database file
    geoTemp,        \* the temporary file of each process
    geoAt,          \* where each process is
    geoResult,      \* what its load returned: "none", "map" or "error"
    geoMap,         \* geoipMap: what was loaded, or "none"
    geoFailed,      \* whether downloadAndCheck returned an error
    geoRuns

geoVars == <<geoAuto, geoTarget, geoTemp, geoAt, geoResult, geoMap, geoFailed, geoRuns>>

GeoLoaderInit ==
    /\ geoAuto \in BOOLEAN
    /\ geoTarget \in Contents
    /\ geoTemp = [p \in GeoProcs |-> "none"]
    /\ geoAt = [p \in GeoProcs |-> "idle"]
    /\ geoResult = [p \in GeoProcs |-> "none"]
    /\ geoMap = [p \in GeoProcs |-> "none"]
    /\ geoFailed = [p \in GeoProcs |-> FALSE]
    /\ geoRuns = [p \in GeoProcs |-> 0]

GeoGoto(p, at) == geoAt' = [geoAt EXCEPT ![p] = at]

shouldDownload == geoTarget \in {"none", "empty", "old"}

GeoReturn(p, what) ==
    /\ GeoGoto(p, "idle")
    /\ geoResult' = [geoResult EXCEPT ![p] = what]

\* LoadGeoIP begins.
GeoLoad(p) ==
    /\ geoAt[p] = "idle" /\ geoRuns[p] < MaxGeoRuns
    /\ geoRuns' = [geoRuns EXCEPT ![p] = @ + 1]
    /\ geoFailed' = [geoFailed EXCEPT ![p] = FALSE]
    /\ \/ geoMap[p] # "none" /\ GeoReturn(p, "map")
       \/ /\ geoMap[p] = "none"
          /\ GeoGoto(p, CASE ~geoAuto -> "load"
                          [] geoAuto /\ shouldDownload -> "get"
                          [] OTHER -> "try")
          /\ geoResult' = [geoResult EXCEPT ![p] = "none"]
    /\ UNCHANGED <<geoAuto, geoTarget, geoTemp, geoMap>>

\* The load of a file that need not be downloaded, and the one at the end.
GeoLoadFile(p) ==
    /\ geoAt[p] \in {"try", "load"}
    /\ \/ /\ geoTarget \in Loadable
          /\ geoMap' = [geoMap EXCEPT ![p] = geoTarget]
          /\ GeoReturn(p, "map")
       \/ /\ geoTarget \notin Loadable /\ geoAt[p] = "load"
          /\ GeoReturn(p, "error") /\ UNCHANGED geoMap
       \/ /\ geoTarget \notin Loadable /\ geoAt[p] = "try"
          /\ GeoGoto(p, "get") /\ UNCHANGED <<geoResult, geoMap>>
    /\ UNCHANGED <<geoAuto, geoTarget, geoTemp, geoFailed, geoRuns>>

(* downloadAndCheck: any step may fail, and the temporary file goes either way. *)
DownloadFails(p) ==
    /\ geoAt[p] \in {"get", "create", "copy", "rename"}
    /\ geoFailed' = [geoFailed EXCEPT ![p] = TRUE]
    /\ geoTemp' = [geoTemp EXCEPT ![p] = "none"]
    /\ GeoGoto(p, "fallback")
    /\ UNCHANGED <<geoAuto, geoTarget, geoResult, geoMap, geoRuns>>

HTTPGet(p) ==
    /\ geoAt[p] = "get"
    /\ GeoGoto(p, "create")
    /\ UNCHANGED <<geoAuto, geoTarget, geoTemp, geoResult, geoMap, geoFailed, geoRuns>>

CreateTemp(p) ==
    /\ geoAt[p] = "create"
    /\ geoTemp' = [geoTemp EXCEPT ![p] = "empty"]
    /\ GeoGoto(p, "copy")
    /\ UNCHANGED <<geoAuto, geoTarget, geoResult, geoMap, geoFailed, geoRuns>>

\* The response is copied: a database, or something else.
CopyBody(p) ==
    /\ geoAt[p] = "copy"
    /\ \E body \in {"empty", "broken", "fresh"} : geoTemp' = [geoTemp EXCEPT ![p] = body]
    /\ GeoGoto(p, "check")
    /\ UNCHANGED <<geoAuto, geoTarget, geoResult, geoMap, geoFailed, geoRuns>>

\* Mutant of PassesCheck: the download is not checked.
PassesUnchecked(p) == TRUE

\* checkFunc: whether what was downloaded loads.
PassesCheck(p) == geoTemp[p] \in Loadable

IntegrityCheck(p) ==
    /\ geoAt[p] = "check"
    /\ \/ PassesCheck(p) /\ GeoGoto(p, "rename") /\ UNCHANGED <<geoTemp, geoFailed>>
       \/ /\ ~PassesCheck(p) /\ GeoGoto(p, "fallback")
          /\ geoTemp' = [geoTemp EXCEPT ![p] = "none"]
          /\ geoFailed' = [geoFailed EXCEPT ![p] = TRUE]
    /\ UNCHANGED <<geoAuto, geoTarget, geoResult, geoMap, geoRuns>>

RenameTemp(p) ==
    /\ geoAt[p] = "rename"
    /\ geoTarget' = geoTemp[p]
    /\ geoTemp' = [geoTemp EXCEPT ![p] = "none"]
    /\ GeoGoto(p, "fallback")
    /\ UNCHANGED <<geoAuto, geoResult, geoMap, geoFailed, geoRuns>>

\* After the download: an error counts only if there is no file at all.
Fallback(p) ==
    /\ geoAt[p] = "fallback"
    /\ \/ geoFailed[p] /\ geoTarget = "none" /\ GeoReturn(p, "error")
       \/ ~(geoFailed[p] /\ geoTarget = "none") /\ GeoGoto(p, "load") /\ UNCHANGED geoResult
    /\ UNCHANGED <<geoAuto, geoTarget, geoTemp, geoMap, geoFailed, geoRuns>>

\* The process is killed; its temporary file stays, and the next run has another.
GeoKill(p) ==
    /\ geoAt[p] # "idle"
    /\ GeoGoto(p, "idle")
    /\ geoTemp' = [geoTemp EXCEPT ![p] = "none"]
    /\ geoMap' = [geoMap EXCEPT ![p] = "none"]
    /\ geoResult' = [geoResult EXCEPT ![p] = "none"]
    /\ UNCHANGED <<geoAuto, geoTarget, geoFailed, geoRuns>>

\* The update interval passes.
GeoAges ==
    /\ geoTarget = "fresh" /\ geoTarget' = "old"
    /\ UNCHANGED <<geoAuto, geoTemp, geoAt, geoResult, geoMap, geoFailed, geoRuns>>

GeoLoaderNext ==
    \/ GeoAges
    \/ \E p \in GeoProcs :
         \/ GeoLoad(p) \/ GeoLoadFile(p) \/ DownloadFails(p) \/ HTTPGet(p) \/ CreateTemp(p)
         \/ CopyBody(p) \/ IntegrityCheck(p) \/ RenameTemp(p) \/ Fallback(p) \/ GeoKill(p)

-----------------------------------------------------------------------------
\* A database that loads is never replaced by a file that does not, by a failed
\* or truncated download or a process killed in the middle of one
\* (app/internal/utils/geoloader.go:58-96).
LoadableKept == [][(geoTarget \in Loadable) => (geoTarget' \in Loadable)]_geoVars

\* A load fails only while there is no loadable file: a failed refresh falls
\* back to the previous download (geoloader.go:121-126).
GeoErrorMeansNoFile ==
    [][\A p \in GeoProcs :
         geoResult'[p] = "error" /\ geoResult[p] # "error" => geoTarget \notin Loadable]_geoVars

\* A database that could be loaded stays one, and only without it is there an
\* error.
DatabaseStaysLoadable == LoadableKept /\ GeoErrorMeansNoFile
=============================================================================
