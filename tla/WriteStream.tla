----------------------------- MODULE WriteStream -----------------------------
(***************************************************************************)
(* createWriteStream (upload/stream.ts): a WritableStream whose sink cuts  *)
(* what is written into parts, uploads them Concurrency at a time, and     *)
(* finishes the large file when the stream is closed.                      *)
(*                                                                         *)
(* Client is the single stream.  The WritableStream in front of the sink   *)
(* (external) runs one sink method at a time.  It calls none once a write  *)
(* has rejected, and calls abort after the write in progress.  The digest  *)
(* of a part is the number of bytes in it: the bytes are cut off in order, *)
(* so the part number tells which ones they are.                           *)
(***************************************************************************)
EXTENDS B2LargeFiles, FiniteSets

CONSTANTS w,            \* the stream, the only client
          PartSize,
          MaxBytes,     \* bound: bytes written to the stream
          Concurrency

ASSUME StreamAssumption ==
    /\ Client = {w} /\ PartSize \in Nat \ {0} /\ MaxBytes \in Nat
    /\ Concurrency \in Nat \ {0}
    /\ Digest = 1..PartSize /\ N * PartSize >= MaxBytes

VARIABLES stream,       \* the WritableStream: is it still taking calls
          sink,         \* the sink method running, and where it is
          written,      \* bytes the sink has accepted
          pendingBytes, \* accepted, and not yet in a part
          nextPartNumber,
          size,         \* bytes of each part dispatched
          task,         \* the task uploading each part
          partSha1s,
          start,        \* startPromise
          largeFileId,
          errored,
          aborted,      \* abortScope.signal.aborted
          callerAborted,\* options.signal.aborted
          background,   \* cancelStartedLargeFile
          outcome,      \* how done settled
          reported      \* reasons passed to onCleanupFailure

bufferVars == <<written, pendingBytes>>
partVars   == <<nextPartNumber, size, task, partSha1s>>
startVars  == <<start, largeFileId, background>>
abortVars  == <<errored, aborted, callerAborted>>
endVars    == <<outcome, reported>>
vars == <<netVars, stream, sink, bufferVars, partVars, startVars, abortVars, endVars>>

PartRequest(p)   == [op |-> "part", u |-> w, f |-> largeFileId, p |-> p, a |-> 0, d |-> size[p]]
FinishRequest    == [op |-> "finish", u |-> w, f |-> largeFileId, digests |-> partSha1s]

SinkState == {"idle", "writing", "closing", "dispatching", "settling", "finishing",
              "closeFailed", "closeCancelling", "aborting", "abortCancelling", "done"}
TaskState == {"none", "starting", "uploading", "done", "failed"}

TypeOK ==
    /\ LargeFilesTypeOK /\ NetworkTypeOK
    /\ stream \in {"writable", "abortRequested", "errored", "closed"}
    /\ sink \in SinkState
    /\ written \in 0..MaxBytes /\ pendingBytes \in 0..MaxBytes
    /\ nextPartNumber \in 1..N + 1
    /\ size \in [Part -> 0..PartSize]
    /\ task \in [Part -> TaskState]
    /\ partSha1s \in [Part -> Digest \cup {NoDigest}]
    /\ start \in {"none", "pending", "started", "failed"}
    /\ largeFileId \in FileId \cup {NoFile}
    /\ errored \in BOOLEAN /\ aborted \in BOOLEAN /\ callerAborted \in BOOLEAN
    /\ background \in {"none", "cancelling", "closed"}
    /\ outcome \in [Client -> {"none", "ok", "failed", "ambiguous"}]
    /\ reported \subseteq {"cancel-failed", "finish-ambiguous"}

Init ==
    /\ largeFiles = [f \in FileId |-> NoFileYet] /\ requests = {} /\ replies = {}
    /\ stream = "writable" /\ sink = "idle"
    /\ written = 0 /\ pendingBytes = 0
    /\ nextPartNumber = 1
    /\ size = [p \in Part |-> 0] /\ task = [p \in Part |-> "none"]
    /\ partSha1s = NoParts
    /\ start = "none" /\ largeFileId = NoFile /\ background = "none"
    /\ errored = FALSE /\ aborted = FALSE /\ callerAborted = FALSE
    /\ outcome = [c \in Client |-> "none"] /\ reported = {}

SettleDone(o) == outcome' = [outcome EXCEPT ![w] = o]

-----------------------------------------------------------------------------
(* The tasks of the parts.                                                 *)

Running == {p \in Part : task[p] \in {"starting", "uploading"}}
TasksSettled == Running = {}

\* Mutant: a task keeps the slot it was given.
LeakedSlots == nextPartNumber <= Concurrency
SlotFree == Cardinality(Running) < Concurrency

\* startPartWithAcquiredSlot: the first part calls b2_start_large_file.
StartPart(n) ==
    /\ nextPartNumber' = nextPartNumber + 1
    /\ size' = [size EXCEPT ![nextPartNumber] = n]
    /\ task' = [task EXCEPT ![nextPartNumber] = "starting"]
    /\ start' = IF start = "none" THEN "pending" ELSE start
    /\ requests' = IF start = "none" THEN requests \cup {StartRequest(w)} ELSE requests
    /\ UNCHANGED <<largeFiles, replies, partSha1s, largeFileId, background>>

\* rawStart resolves: a stream that failed meanwhile cancels the file.
StartResolved ==
    /\ start = "pending"
    /\ \E r \in replies :
         /\ r.to = StartRequest(w) /\ r.status = "ok"
         /\ largeFileId' = r.f
         /\ \/ /\ aborted \/ errored
               /\ Send(CancelRequest(w, r.f)) /\ background' = "cancelling"
            \/ /\ ~aborted /\ ~errored
               /\ UNCHANGED <<requests, background>>
    /\ start' = "started"
    /\ UNCHANGED <<largeFiles, replies, stream, sink, bufferVars, partVars, abortVars, endVars>>

StartRejected ==
    /\ start = "pending"
    /\ start' = "failed"
    /\ UNCHANGED <<netVars, stream, sink, bufferVars, partVars, largeFileId, background,
                   abortVars, endVars>>

UploadPart(p) ==
    /\ task[p] = "starting" /\ start = "started" /\ ~errored /\ ~aborted
    /\ Send(PartRequest(p))
    /\ task' = [task EXCEPT ![p] = "uploading"]
    /\ UNCHANGED <<largeFiles, replies, stream, sink, bufferVars, nextPartNumber, size,
                   partSha1s, startVars, abortVars, endVars>>

PartStored(p) ==
    /\ task[p] = "uploading" /\ Answered(PartRequest(p), "ok")
    /\ partSha1s' = [partSha1s EXCEPT ![p] = size[p]]
    /\ task' = [task EXCEPT ![p] = "done"]
    /\ UNCHANGED <<netVars, stream, sink, bufferVars, nextPartNumber, size, startVars,
                   abortVars, endVars>>

\* shipPart throws: markErrored.  Waiting for the start ends with its failure or
\* an abort; an upload fails by itself too.
PartFails(p) ==
    /\ \/ task[p] = "starting" /\ (start = "failed" \/ errored \/ aborted)
       \/ task[p] = "uploading"
    /\ task' = [task EXCEPT ![p] = "failed"]
    /\ errored' = TRUE /\ aborted' = TRUE
    /\ UNCHANGED <<netVars, stream, sink, bufferVars, nextPartNumber, size, partSha1s,
                   startVars, callerAborted, endVars>>

BackgroundEnds ==
    /\ background = "cancelling"
    /\ background' = "closed"
    /\ \/ Answered(CancelRequest(w, largeFileId), "ok") /\ UNCHANGED reported
       \/ reported' = reported \cup {"cancel-failed"}
    /\ UNCHANGED <<netVars, stream, sink, bufferVars, partVars, start, largeFileId,
                   abortVars, outcome>>

-----------------------------------------------------------------------------
(* sink.write                                                              *)

\* sink.abort: markErrored, and cancel a file that is known.
AbortSink ==
    /\ errored' = TRUE /\ aborted' = TRUE
    /\ pendingBytes' = 0
    /\ stream' = "errored"
    /\ \/ largeFileId # NoFile /\ sink' = "aborting" /\ UNCHANGED outcome
       \/ largeFileId = NoFile /\ sink' = "done" /\ SettleDone("failed")
    /\ UNCHANGED <<netVars, written, partVars, startVars, callerAborted, reported>>

\* A write rejects: the stream is errored and calls the sink no more, unless
\* writer.abort() was called before.
RejectWrite ==
    \/ stream = "abortRequested" /\ AbortSink
    \/ /\ stream = "writable"
       /\ stream' = "errored" /\ sink' = "done"
       /\ UNCHANGED <<netVars, bufferVars, partVars, startVars, abortVars, endVars>>

Write(n) ==
    /\ stream = "writable" /\ sink = "idle" /\ written + n <= MaxBytes
    /\ \/ (errored \/ aborted) /\ RejectWrite
       \/ /\ ~errored /\ ~aborted
          /\ written' = written + n /\ pendingBytes' = pendingBytes + n
          /\ sink' = "writing"
          /\ UNCHANGED <<netVars, stream, partVars, startVars, abortVars, endVars>>

\* carveExact: exactly one part off the front.
Carve == PartSize

WritePart ==
    /\ sink = "writing" /\ pendingBytes >= PartSize /\ SlotFree
    /\ \/ (errored \/ aborted) /\ RejectWrite
       \/ /\ ~errored /\ ~aborted
          /\ StartPart(Carve)
          /\ pendingBytes' = pendingBytes - Carve
          /\ UNCHANGED <<stream, sink, written, abortVars, endVars>>

WriteResolves ==
    /\ sink = "writing" /\ pendingBytes < PartSize
    /\ \/ stream = "abortRequested" /\ AbortSink
       \/ /\ stream = "writable"
          /\ sink' = "idle"
          /\ UNCHANGED <<netVars, stream, bufferVars, partVars, startVars, abortVars, endVars>>

-----------------------------------------------------------------------------
(* sink.close                                                              *)

Close ==
    /\ stream = "writable" /\ sink = "idle"
    /\ stream' = "closed" /\ sink' = "closing"
    /\ UNCHANGED <<netVars, bufferVars, partVars, startVars, abortVars, endVars>>

\* The catch block.  A start that has not resolved is not waited for.
CloseFails ==
    /\ errored' = TRUE /\ aborted' = TRUE
    /\ \/ start # "none" /\ largeFileId = NoFile /\ sink' = "done" /\ SettleDone("failed")
       \/ ~(start # "none" /\ largeFileId = NoFile) /\ sink' = "closeFailed"
          /\ UNCHANGED outcome
    /\ UNCHANGED <<netVars, stream, bufferVars, partVars, startVars, callerAborted, reported>>

CloseBegins ==
    /\ sink = "closing"
    /\ \/ (errored \/ aborted) /\ CloseFails
       \/ /\ ~errored /\ ~aborted
          /\ \/ pendingBytes > 0 /\ sink' = "dispatching"
             \/ pendingBytes = 0 /\ sink' = "settling"
          /\ UNCHANGED <<netVars, stream, bufferVars, partVars, startVars, abortVars, endVars>>

\* dispatchPart: the rest is the last part.
DispatchLast ==
    /\ sink = "dispatching" /\ SlotFree
    /\ \/ (errored \/ aborted) /\ CloseFails
       \/ /\ ~errored /\ ~aborted
          /\ StartPart(pendingBytes)
          /\ pendingBytes' = 0
          /\ sink' = "settling"
          /\ UNCHANGED <<stream, written, abortVars, endVars>>

\* settleInflightForClose throws: the signal aborts while the file is being started.
StartAbandoned ==
    /\ sink = "settling" /\ aborted /\ start = "pending"
    /\ CloseFails

\* Mutant: close does not wait for the parts.
NoWait == partSha1s # NoParts
\* Every task has settled.
Settled == TasksSettled

SendFinish ==
    /\ sink = "settling" /\ Settled /\ ~errored /\ ~aborted /\ largeFileId # NoFile
    /\ Send(FinishRequest)
    /\ sink' = "finishing"
    /\ UNCHANGED <<largeFiles, replies, stream, bufferVars, partVars, startVars, abortVars,
                   endVars>>

\* A part failed, the signal aborted, or nothing was ever written.
SettledBadly ==
    /\ sink = "settling" /\ TasksSettled
    /\ errored \/ aborted \/ largeFileId = NoFile
    /\ CloseFails

FinishReplied ==
    /\ sink = "finishing" /\ Answered(FinishRequest, "ok")
    /\ SettleDone("ok") /\ sink' = "done"
    /\ UNCHANGED <<netVars, stream, bufferVars, partVars, startVars, abortVars, reported>>

\* Mutant: a finish without an answer is an ordinary failure.
FinishFailureCancels == sink = "finishing" /\ CloseFails

FinishRejected ==
    /\ sink = "finishing"
    /\ Answered(FinishRequest, "rejected") \/ Answered(FinishRequest, "refused")
    /\ CloseFails

\* finishLargeFileWithAbortReconciliation: no answer, or an abort after dispatch.
FinishAmbiguous ==
    /\ sink = "finishing"
    /\ errored' = TRUE /\ aborted' = TRUE
    /\ SettleDone("ambiguous") /\ sink' = "done"
    /\ reported' = reported \cup {"finish-ambiguous"}
    /\ UNCHANGED <<netVars, stream, bufferVars, partVars, startVars, callerAborted>>

\* Mutant: close leaves the file to itself.
CloseForgets ==
    /\ sink = "closeFailed" /\ TasksSettled
    /\ sink' = "done" /\ SettleDone("failed")
    /\ UNCHANGED <<netVars, stream, bufferVars, partVars, startVars, abortVars, reported>>

\* await Promise.allSettled(inflight), then cancel a file that is known.
CloseCleansUp ==
    /\ sink = "closeFailed" /\ TasksSettled
    /\ \/ /\ largeFileId # NoFile
          /\ Send(CancelRequest(w, largeFileId)) /\ sink' = "closeCancelling"
          /\ UNCHANGED outcome
       \/ /\ largeFileId = NoFile
          /\ sink' = "done" /\ SettleDone("failed")
          /\ UNCHANGED requests
    /\ UNCHANGED <<largeFiles, replies, stream, bufferVars, partVars, startVars, abortVars,
                   reported>>

\* The parts have settled, or 30 s have passed.
AbortCancels ==
    /\ sink = "aborting"
    /\ Send(CancelRequest(w, largeFileId)) /\ sink' = "abortCancelling"
    /\ UNCHANGED <<largeFiles, replies, stream, bufferVars, partVars, startVars, abortVars,
                   endVars>>

\* cancelLargeFileBestEffort ends: answered, failed or timed out.
CancelEnds ==
    /\ sink \in {"closeCancelling", "abortCancelling"}
    /\ \/ Answered(CancelRequest(w, largeFileId), "ok") /\ UNCHANGED reported
       \/ reported' = reported \cup {"cancel-failed"}
    /\ sink' = "done" /\ SettleDone("failed")
    /\ UNCHANGED <<netVars, stream, bufferVars, partVars, startVars, abortVars>>

-----------------------------------------------------------------------------
(* The owner of the stream.                                                *)

\* writer.abort(): sink.abort runs at once, or after the write in progress.
Abort ==
    /\ stream = "writable"
    /\ \/ sink = "idle" /\ AbortSink
       \/ /\ sink = "writing" /\ stream' = "abortRequested"
          /\ UNCHANGED <<netVars, sink, bufferVars, partVars, startVars, abortVars, endVars>>

\* options.signal
SignalAborts ==
    /\ ~callerAborted /\ sink # "done"
    /\ callerAborted' = TRUE /\ aborted' = TRUE
    /\ UNCHANGED <<netVars, stream, sink, bufferVars, partVars, startVars, errored, endVars>>

OwnerStep == (\E n \in 1..MaxBytes : Write(n)) \/ Close \/ Abort \/ SignalAborts

SinkStep ==
    \/ WritePart \/ WriteResolves
    \/ CloseBegins \/ DispatchLast \/ StartAbandoned
    \/ SendFinish \/ SettledBadly \/ FinishReplied \/ FinishRejected \/ FinishAmbiguous
    \/ CloseCleansUp \/ AbortCancels \/ CancelEnds

UploadStep ==
    \/ StartResolved \/ StartRejected \/ BackgroundEnds
    \/ \E p \in Part : UploadPart(p) \/ PartStored(p) \/ PartFails(p)

ServerStep ==
    /\ \E m \in requests : Handle(m) \/ Refuse(m)
    /\ UNCHANGED <<stream, sink, bufferVars, partVars, startVars, abortVars, endVars>>

Next == OwnerStep \/ SinkStep \/ UploadStep \/ ServerStep

Spec == Init /\ [][Next]_vars

\* The event loop runs what is ready, and every transport call ends.
FairSpec == Spec /\ WF_vars(SinkStep) /\ WF_vars(UploadStep)

-----------------------------------------------------------------------------
(* Properties.                                                             *)

\* done only resolves for a finished file whose parts are everything written, cut
\* into whole parts and a rest.
DoneMeansEverything ==
    outcome[w] = "ok" =>
        \E f \in FileId :
          /\ largeFiles[f].state = "finished"
          /\ \A p \in Part : LET rest == written - (p - 1) * PartSize
                             IN largeFiles[f].parts[p] = IF rest <= 0 THEN NoDigest
                                                         ELSE IF rest < PartSize THEN rest
                                                         ELSE PartSize

\* A done that rejects leaves no unfinished file the stream knows of, once nothing
\* runs in the background, unless onCleanupFailure was told.
RejectionCleansUp ==
    /\ outcome[w] = "failed" /\ start # "pending" /\ background # "cancelling"
    /\ largeFileId # NoFile /\ Unfinished(largeFileId)
    => "cancel-failed" \in reported

\* The file is published exactly as the owner was told (LargeFileContract).
published == [c \in Client |-> \E f \in FileId : largeFiles[f].finishedBy = c]
Contract == INSTANCE LargeFileContract
ContractSpec == Contract!Spec

\* Once close or abort reaches the sink, done settles.
ClosingSettles ==
    sink \in SinkState \ {"idle", "writing", "done"} ~> outcome[w] # "none"

\* createWriteStream: a done that fails rejects, and "any later await done still sees
\* the rejection".  Said of a stream whose write rejected.
ErrorReachesDone == (stream = "errored") ~> (outcome[w] # "none")
=============================================================================
