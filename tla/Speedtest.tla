----------------------------- MODULE Speedtest -----------------------------
(***************************************************************************)
(* The speed test of extras/outbounds/speedtest: the client's Download and *)
(* Upload, by size or by time, its progress reporter, and the server       *)
(* behind the pseudo connection that speedtestHandler returns.  The        *)
(* connection delivers bytes in order, in pieces of any length.            *)
(***************************************************************************)
EXTENDS Integers, Sequences

CONSTANTS
    MaxUint32,  \* the size a test by time asks for
    chunkSize,
    Sizes,      \* sizes of tests by size
    MaxTicks    \* ticks of the progress reporter

ASSUME SpeedtestAssumption ==
    MaxUint32 \in Nat /\ Sizes \subseteq 0 .. MaxUint32 /\ chunkSize \in Nat \ {0} /\ MaxTicks \in Nat

VARIABLES
    stUp, stTimed, dataSize,   \* the test
    stPC,       \* the client: "request", "response", "data", "summary", "ok", "error"
    totalBytes, remaining,     \* the client's
    svPC,       \* the server: "request", "data", "summary", "closed"
    svTotal, svRemaining,      \* what it has sent or received; what is left
    inFlight,   \* data bytes under way
    summary,    \* the length in the upload summary, -1 before it is sent
    connUp,     \* the connection has not broken
    counter, reporting, ticks, \* startProgressReporter
    calls       \* the bytes of interval callbacks, and the totals callbacks

stVars == <<stUp, stTimed, dataSize, stPC, totalBytes, remaining, svPC, svTotal,
            svRemaining, inFlight, summary, connUp, counter, reporting, ticks, calls>>

test == <<stUp, stTimed, dataSize>>
client == <<stPC, totalBytes, remaining, counter, reporting, ticks, calls>>
server == <<svPC, svTotal, svRemaining, summary>>

SpeedtestInit ==
    /\ stUp \in BOOLEAN /\ stTimed \in BOOLEAN /\ dataSize \in Sizes
    /\ stPC = "request" /\ totalBytes = 0 /\ remaining = dataSize
    /\ svPC = "request" /\ svTotal = 0 /\ svRemaining = 0
    /\ inFlight = 0 /\ summary = -1 /\ connUp = TRUE
    /\ counter = 0 /\ reporting = FALSE /\ ticks = 0
    /\ calls = [interval |-> 0, done |-> <<>>]

\* The length of the next read or write.
Chunk(left) == IF left < chunkSize THEN left ELSE chunkSize

-----------------------------------------------------------------------------
(***************************************************************************)
(* The server                                                              *)
(***************************************************************************)

\* server, readDownloadRequest or readUploadRequest, and the response.
ServerStarts ==
    /\ svPC = "request" /\ stPC = "response" /\ connUp
    /\ svRemaining' = IF stTimed THEN MaxUint32 ELSE dataSize
    /\ svPC' = "data"
    /\ UNCHANGED <<test, client, svTotal, inFlight, summary, connUp>>

\* One iteration of handleDownload; when all is sent, conn is closed.
DownloadWrites ==
    /\ svPC = "data" /\ ~stUp /\ connUp
    /\ IF svRemaining > 0
       THEN LET n == Chunk(svRemaining)
            IN  /\ svRemaining' = svRemaining - n
                /\ svTotal' = svTotal + n /\ inFlight' = inFlight + n
                /\ UNCHANGED svPC
       ELSE svPC' = "closed" /\ UNCHANGED <<svRemaining, svTotal, inFlight>>
    /\ UNCHANGED <<test, client, summary, connUp>>

Received == svRemaining = 0

\* One iteration of handleUpload, whose Read may return less than it asks for;
\* when all is received, the summary.
UploadReads ==
    /\ svPC = "data" /\ stUp /\ connUp
    /\ IF ~Received
       THEN \E n \in 1 .. Chunk(svRemaining) :
              /\ n <= inFlight /\ svRemaining' = svRemaining - n
              /\ svTotal' = svTotal + n /\ inFlight' = inFlight - n
              /\ UNCHANGED <<svPC, summary>>
       ELSE /\ summary' = IF stTimed THEN MaxUint32 ELSE dataSize
            /\ svPC' = "closed"
            /\ UNCHANGED <<svRemaining, svTotal, inFlight>>
    /\ UNCHANGED <<test, client, connUp>>

\* The connection breaks: whoever reads or writes gets an error.
SpeedConnLost ==
    /\ connUp /\ connUp' = FALSE
    /\ svPC' = "closed"
    /\ UNCHANGED <<test, client, svTotal, svRemaining, inFlight, summary>>

-----------------------------------------------------------------------------
(***************************************************************************)
(* The client                                                              *)
(***************************************************************************)

\* writeDownloadRequest or writeUploadRequest.
WriteSpeedRequest ==
    /\ stPC = "request"
    /\ stPC' = IF connUp THEN "response" ELSE "error"
    /\ UNCHANGED <<test, totalBytes, remaining, counter, reporting, ticks, calls,
                   server, inFlight, connUp>>

\* The response is read and startProgressReporter called.
ReadSpeedResponse ==
    /\ stPC = "response" /\ (~connUp \/ svPC # "request")
    /\ stPC' = IF connUp THEN "data" ELSE "error"
    /\ reporting' = connUp
    /\ UNCHANGED <<test, totalBytes, remaining, counter, ticks, calls, server,
                   inFlight, connUp>>

More == stTimed \/ remaining > 0

\* n bytes were read or written: totalBytes, addBytes and remaining.
Count(n) ==
    /\ totalBytes' = totalBytes + n /\ counter' = counter + n
    /\ remaining' = IF stTimed THEN remaining ELSE remaining - n

\* The test is over: the deferred stop, with or without the last callback.
Ends(ok, total) ==
    /\ stPC' = IF ok THEN "ok" ELSE "error"
    /\ calls' = IF ok THEN [calls EXCEPT !.done = Append(@, total)] ELSE calls
    /\ reporting' = FALSE

ClientChunk == IF stTimed THEN chunkSize ELSE Chunk(remaining)

\* Download's Read returns data.
DownloadReads ==
    /\ stPC = "data" /\ ~stUp /\ connUp /\ More
    /\ \E n \in 1 .. ClientChunk :
         n <= inFlight /\ Count(n) /\ inFlight' = inFlight - n
    /\ UNCHANGED <<test, stPC, reporting, ticks, calls, server, connUp>>

\* Upload's Write takes data.
UploadWrites ==
    /\ stPC = "data" /\ stUp /\ connUp /\ More /\ totalBytes < MaxUint32
    /\ Count(ClientChunk) /\ inFlight' = inFlight + ClientChunk
    /\ UNCHANGED <<test, stPC, reporting, ticks, calls, server, connUp>>

\* Read or Write returns an error: the end of the data, or a broken connection.
\* The error is returned.
DataFails ==
    /\ stPC = "data" /\ More
    /\ ~connUp \/ (svPC = "closed" /\ inFlight = 0)
    /\ Ends(FALSE, 0)
    /\ UNCHANGED <<test, totalBytes, remaining, counter, ticks, server, inFlight, connUp>>

\* The deadline of a test by time: a timeout, which ends it.
Deadline ==
    /\ stPC = "data" /\ stTimed /\ connUp
    /\ Ends(TRUE, totalBytes)
    /\ UNCHANGED <<test, totalBytes, remaining, counter, ticks, server, inFlight, connUp>>

\* The loop ends when all of a test by size is done; Upload waits for the summary.
AllDone ==
    /\ stPC = "data" /\ ~More
    /\ IF stUp THEN stPC' = "summary" /\ UNCHANGED <<calls, reporting>>
               ELSE Ends(TRUE, totalBytes)
    /\ UNCHANGED <<test, totalBytes, remaining, counter, ticks, server, inFlight, connUp>>

ReadSummary ==
    /\ stPC = "summary" /\ (~connUp \/ summary >= 0)
    /\ Ends(connUp, summary)
    /\ UNCHANGED <<test, totalBytes, remaining, counter, ticks, server, inFlight, connUp>>

\* Mutant of Taken: the counter is read and not reset.
TakenNot == counter

\* What atomic.SwapUint64 leaves.
Taken == 0

\* A tick of the reporter: the bytes since the last one.
SpeedTick ==
    /\ reporting /\ ticks < MaxTicks
    /\ calls' = [calls EXCEPT !.interval = @ + counter]
    /\ counter' = Taken /\ ticks' = ticks + 1
    /\ UNCHANGED <<test, stPC, totalBytes, remaining, reporting, server, inFlight, connUp>>

SpeedtestNext ==
    \/ ServerStarts \/ DownloadWrites \/ UploadReads \/ SpeedConnLost
    \/ WriteSpeedRequest \/ ReadSpeedResponse \/ DownloadReads \/ UploadWrites
    \/ DataFails \/ Deadline \/ AllDone \/ ReadSummary \/ SpeedTick

\* What runs by itself; the deadline passes at last.
SpeedtestStep ==
    \/ ServerStarts \/ DownloadWrites \/ UploadReads
    \/ WriteSpeedRequest \/ ReadSpeedResponse \/ DownloadReads \/ UploadWrites
    \/ DataFails \/ AllDone \/ ReadSummary \/ Deadline

SpeedtestSpec ==
    SpeedtestInit /\ [][SpeedtestNext]_stVars /\ WF_stVars(SpeedtestStep)

-----------------------------------------------------------------------------
(***************************************************************************)
(* Properties                                                              *)
(***************************************************************************)

\* A test by size that succeeds has moved exactly the size asked for, both as
\* the client counts it and as the server does, and reports that total once; a
\* test that fails reports no total (client.go:21-141, server.go:42-99).
SizeExact ==
    /\ Len(calls.done) = IF stPC = "ok" THEN 1 ELSE 0
    /\ stPC = "ok" =>
         calls.done = <<IF stTimed THEN totalBytes ELSE dataSize>>
    /\ stPC = "ok" /\ ~stTimed => svTotal = dataSize /\ totalBytes = dataSize

\* No byte is lost by the progress reporter or reported twice.
IntervalsExact == calls.interval + counter = totalBytes

\* Every test that is begun ends, whichever side or the connection fails first.
TestEnds == stPC # "request" ~> (stPC \in {"ok", "error"})

\* A test moves and reports exactly the bytes it was asked for, and the reports of
\* its intervals add up to its total.
TestsExact == SizeExact /\ IntervalsExact
=============================================================================
