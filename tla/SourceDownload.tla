--------------------------- MODULE SourceDownload ---------------------------
(***************************************************************************)
(* One source model on its way into the run directory: downloadModel of    *)
(* src/src/api-client.js inside downloadModelWithRetry of                  *)
(* src/src/worker.js.                                                      *)
(*                                                                         *)
(* The model's content is its size and whether every byte that arrived is  *)
(* the right one; the file is how much of what arrived it holds, in order. *)
(***************************************************************************)
EXTENDS Naturals

CONSTANTS ExpectedSize,       \* sizeBytes of the immutable snapshot
          MaximumModelBytes,  \* the worker's own limit
          MaxChunk,           \* bound: bytes of one chunk of the stream
          NoFile,             \* file when there is none
          ShortWrites         \* whether a write may put down less than asked

ASSUME SizesAssumption ==
    /\ ExpectedSize \in Nat /\ MaximumModelBytes \in Nat /\ MaxChunk \in Nat \ {0}
    /\ NoFile \notin Nat /\ ShortWrites \in BOOLEAN

VARIABLES
    pc,        \* checking, request, stream, failed, sleep or done
    attempt,   \* downloadModelWithRetry's attempt
    received,  \* bytes that arrived in this attempt
    right,     \* all of them are the model's
    file,      \* bytes in the target file, or NoFile
    whole,     \* the file is exactly what arrived
    error,     \* the error of the attempt
    aborted,   \* the job's signal
    result     \* how the call ended

downloadVars == <<pc, attempt, received, right, file, whole, error, aborted, result>>
fileVars == <<file, whole>>

MaxAttempts == 3

DownloadTypeOK ==
    /\ pc \in {"checking", "request", "stream", "failed", "sleep", "done"}
    /\ attempt \in 1..MaxAttempts
    /\ received \in 0..ExpectedSize
    /\ right \in BOOLEAN /\ whole \in BOOLEAN /\ aborted \in BOOLEAN
    /\ file = NoFile \/ file \in 0..received
    /\ error \in {"none", "retryable", "fatal"}
    /\ result \in {"none", "returned", "thrown"}
    /\ result # "none" <=> pc = "done"

DownloadInit ==
    /\ pc = "checking" /\ attempt = 1
    /\ received = 0 /\ right = TRUE
    /\ file = NoFile /\ whole = TRUE
    /\ error = "none" /\ aborted = FALSE /\ result = "none"

Fail(class) == pc' = "failed" /\ error' = class /\ UNCHANGED <<attempt, aborted, result>>

Throw == pc' = "done" /\ result' = "thrown" /\ error' = "none"

-----------------------------------------------------------------------------
(* downloadModel.                                                          *)

\* The snapshot's size, and the form of its checksum, are tested before
\* anything is sent.
CheckEvidence ==
    /\ pc = "checking"
    /\ \/ Fail("fatal")
       \/ /\ ExpectedSize > 0 /\ ExpectedSize <= MaximumModelBytes
          /\ pc' = "request" /\ UNCHANGED <<attempt, error, aborted, result>>
    /\ UNCHANGED <<received, right, fileVars>>

\* fs.open(targetPath, 'wx'): fails on a file that is already there.
Open == file = NoFile /\ file' = 0

\* Unreachable or aborted; an error status; or evidence in the headers that
\* is not the snapshot's.
RequestFails ==
    /\ pc = "request"
    /\ \E class \in {"retryable", "fatal"} : Fail(class)
    /\ UNCHANGED <<received, right, fileVars>>

\* The headers promise the right size and checksum.
RequestAnswered ==
    /\ pc = "request" /\ ~aborted
    /\ \/ /\ Open /\ whole' = TRUE
          /\ pc' = "stream" /\ received' = 0 /\ right' = TRUE
          /\ UNCHANGED <<attempt, error, aborted, result>>
       \/ Fail("fatal") /\ UNCHANGED <<received, right, fileVars>>  \* fs.open

TooMuch(size) == received + size > ExpectedSize \/ received + size > MaximumModelBytes

\* The error paths of the stream close the file and remove it; an error of
\* fs.rm takes the place of the first.
FailAndDiscard(class) ==
    /\ \/ Fail(class) /\ file' = NoFile
       \/ Fail("fatal") /\ UNCHANGED file
    /\ UNCHANGED whole

\* A chunk arrives and is hashed; the whole of it should reach the file.
Chunk ==
    /\ pc = "stream"
    /\ \E size \in 1..MaxChunk, good \in BOOLEAN :
         IF TooMuch(size)
         THEN FailAndDiscard("fatal") /\ UNCHANGED <<received, right>>
         ELSE /\ received' = received + size
              /\ right' = (right /\ good)
              /\ \E written \in IF ShortWrites THEN 1..size ELSE {size} :
                   /\ file' = file + written
                   /\ whole' = (whole /\ written = size)
              /\ UNCHANGED <<pc, attempt, error, aborted, result>>

\* The connection breaks, times out or is aborted, or the disk is full.
Interrupted ==
    /\ pc = "stream"
    /\ FailAndDiscard("retryable")
    /\ UNCHANGED <<received, right>>

\* Mutant: only the number of bytes is compared.
VerifiedBySize == received = ExpectedSize

Verified == received = ExpectedSize /\ right

StreamEnds ==
    /\ pc = "stream"
    /\ IF Verified
       THEN /\ pc' = "done" /\ result' = "returned"
            /\ UNCHANGED <<attempt, error, aborted, fileVars>>
       ELSE FailAndDiscard("fatal")
    /\ UNCHANGED <<received, right>>

-----------------------------------------------------------------------------
(* downloadModelWithRetry.                                                 *)

Remove == file' = NoFile /\ UNCHANGED whole

Again == error = "retryable" /\ attempt < MaxAttempts

\* fs.rm, which may itself throw; then the last error, or a pause.
AttemptFailed ==
    /\ pc = "failed"
    /\ \/ /\ Remove
          /\ IF Again THEN pc' = "sleep" /\ UNCHANGED <<result, error>> ELSE Throw
       \/ file # NoFile /\ UNCHANGED fileVars /\ Throw
    /\ UNCHANGED <<attempt, received, right, aborted>>

\* Mutant: the attempts are not counted.
SleepEndsUncounted ==
    /\ pc = "sleep"
    /\ \/ ~aborted /\ pc' = "request" /\ error' = "none" /\ UNCHANGED <<attempt, result>>
       \/ aborted /\ Throw /\ UNCHANGED attempt
    /\ UNCHANGED <<received, right, fileVars, aborted>>

\* The pause between attempts, which the job's signal interrupts.
SleepEnds ==
    /\ pc = "sleep"
    /\ \/ ~aborted /\ pc' = "request" /\ attempt' = attempt + 1
          /\ error' = "none" /\ UNCHANGED result
       \/ aborted /\ Throw /\ UNCHANGED attempt
    /\ UNCHANGED <<received, right, fileVars, aborted>>

Abort ==
    /\ ~aborted /\ pc # "done"
    /\ aborted' = TRUE
    /\ UNCHANGED <<pc, attempt, received, right, fileVars, error, result>>

Download == \/ CheckEvidence \/ RequestFails \/ RequestAnswered \/ Chunk \/ Interrupted
            \/ StreamEnds \/ AttemptFailed \/ SleepEnds

DownloadNext == Download \/ Abort

DownloadSpec == DownloadInit /\ [][DownloadNext]_downloadVars

\* The request and its stream are bounded by jobTimeoutMs, the rest is local.
FairDownload == DownloadSpec /\ WF_downloadVars(Download)

-----------------------------------------------------------------------------
\* The worker "verifies size and SHA-256 before use": when the call returns,
\* the file holds the model and nothing but the model.
ReturnedIsTheModel ==
    result = "returned" => file = ExpectedSize /\ whole /\ right

\* The call ends, within three attempts.
DownloadEnds == <>(pc = "done")
=============================================================================
