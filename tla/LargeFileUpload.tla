--------------------------- MODULE LargeFileUpload ---------------------------
(***************************************************************************)
(* uploadLargeFile (upload/large.ts): the multipart upload orchestrator,   *)
(* with the finish policy of upload/finish.ts, the cleanup policy of       *)
(* upload/cancel.ts and the abort scope of upload/abort-scope.ts, against  *)
(* the large files of B2LargeFiles.                                        *)
(*                                                                         *)
(* Several uploads run at once, of one process or of several, and use the  *)
(* same large files when they resume.                                      *)
(***************************************************************************)
EXTENDS B2LargeFiles, FiniteSets

CONSTANTS Setting,      \* [mode, prior]: how each upload gets its large file, and
                        \* the files an earlier process left unfinished
          Content,      \* Content[u][p]: digest of part p of u's source
          Concurrency   \* options.concurrency

UploadMode == {"fresh", "auto", "explicit", "forward"}
ASSUME SettingAssumption ==
    \A s \in Setting : s.mode \in [Client -> UploadMode] /\ s.prior \subseteq FileId
ASSUME ContentAssumption == Content \in [Client -> [Part -> Digest]]
ASSUME LimitAssumption == Concurrency \in Nat \ {0}

VARIABLES mode,          \* how each upload gets its large file
          pc,            \* where uploadLargeFile is, per upload
          aborted,       \* abortScope.signal.aborted
          callerAborted, \* options.signal.aborted
          largeFileId,   \* the file being uploaded into
          createdLargeFile,
          preUploaded,   \* digests the server listed for an explicit resume
          task,          \* state of the task of each part
          attempt,       \* attempts made for each part
          partSha1s,
          outcome,       \* what the caller was told
          reported,      \* reasons passed to onCleanupFailure
          straggler      \* cancelLargeFileAfterStart, left in the background

callVars  == <<largeFileId, createdLargeFile, preUploaded>>
taskVars  == <<task, attempt, partSha1s>>
abortVars == <<mode, aborted, callerAborted>>
endVars   == <<outcome, reported, straggler>>
vars == <<netVars, pc, abortVars, callVars, taskVars, endVars>>

-----------------------------------------------------------------------------
(* The requests of an upload.                                              *)

PartRequest(u, p, a) == [op |-> "part", u |-> u, f |-> largeFileId[u], p |-> p,
                         a |-> a, d |-> Content[u][p]]
FinishRequest(u)     == [op |-> "finish", u |-> u, f |-> largeFileId[u],
                         digests |-> partSha1s[u]]

-----------------------------------------------------------------------------
(* The phases of a call.                                                   *)

Phase == {"idle", "listing", "listingParts", "starting", "parts",
          "finishing", "cancelling", "settled", "crashed"}
TaskState == {"none", "queued", "reading", "uploading", "done", "failed"}
Active(u) == pc[u] \notin {"idle", "settled", "crashed"}

TypeOK ==
    /\ LargeFilesTypeOK
    /\ NetworkTypeOK
    /\ mode \in [Client -> UploadMode]
    /\ pc \in [Client -> Phase]
    /\ aborted \in [Client -> BOOLEAN]
    /\ callerAborted \in [Client -> BOOLEAN]
    /\ largeFileId \in [Client -> FileId \cup {NoFile}]
    /\ createdLargeFile \in [Client -> BOOLEAN]
    /\ preUploaded \in [Client -> [Part -> Digest \cup {NoDigest}]]
    /\ task \in [Client -> [Part -> TaskState]]
    /\ attempt \in [Client -> [Part -> 0..MaxRetries]]
    /\ partSha1s \in [Client -> [Part -> Digest \cup {NoDigest}]]
    /\ outcome \in [Client -> {"none", "ok", "failed", "ambiguous"}]
    /\ reported \in [Client -> SUBSET {"cancel-failed", "finish-ambiguous"}]
    /\ straggler \in [Client -> {"none", "watching", "cancelling", "closed"}]

PriorFile(parts) == [state |-> "unfinished", startedBy |-> Nobody,
                     finishedBy |-> Nobody, parts |-> parts]

Init ==
    /\ \E s \in Setting : \E parts \in [s.prior -> [Part -> Digest \cup {NoDigest}]] :
         /\ mode = s.mode
         /\ largeFiles = [f \in FileId |-> IF f \in s.prior THEN PriorFile(parts[f])
                                                            ELSE NoFileYet]
    /\ requests = {}
    /\ replies = {}
    /\ pc = [u \in Client |-> "idle"]
    /\ aborted = [u \in Client |-> FALSE]
    /\ callerAborted = [u \in Client |-> FALSE]
    /\ largeFileId = [u \in Client |-> NoFile]
    /\ createdLargeFile = [u \in Client |-> FALSE]
    /\ preUploaded = [u \in Client |-> NoParts]
    /\ task = [u \in Client |-> [p \in Part |-> "none"]]
    /\ attempt = [u \in Client |-> [p \in Part |-> 0]]
    /\ partSha1s = [u \in Client |-> NoParts]
    /\ outcome = [u \in Client |-> "none"]
    /\ reported = [u \in Client |-> {}]
    /\ straggler = [u \in Client |-> "none"]

Goto(u, phase) == pc' = [pc EXCEPT ![u] = phase]

\* The promise settles: uploadLargeFile returns or throws.
Settle(u, o) == Goto(u, "settled") /\ outcome' = [outcome EXCEPT ![u] = o]

\* abortScope.abort(reason)
AbortScope(u) == aborted' = [aborted EXCEPT ![u] = TRUE]

-----------------------------------------------------------------------------
(* The caller, and the process.                                            *)

CallerAborts(u) ==
    /\ ~callerAborted[u] /\ pc[u] \notin {"settled", "crashed"}
    /\ callerAborted' = [callerAborted EXCEPT ![u] = TRUE]
    /\ AbortScope(u)
    /\ UNCHANGED <<netVars, mode, pc, callVars, taskVars, endVars>>

\* The process dies: nothing of the call runs again, requests stay on their way.
Crash(u) ==
    /\ Active(u)
    /\ Goto(u, "crashed")
    /\ UNCHANGED <<netVars, abortVars, callVars, taskVars, endVars>>

-----------------------------------------------------------------------------
(* Obtaining a large file.                                                 *)

BeginAborted(u) ==
    /\ pc[u] = "idle" /\ aborted[u]
    /\ Settle(u, "failed")
    /\ UNCHANGED <<netVars, abortVars, callVars, taskVars, reported, straggler>>

SendStart(u) == Send(StartRequest(u)) /\ Goto(u, "starting")

Begin(u) ==
    /\ pc[u] = "idle" /\ ~aborted[u]
    /\ \/ mode[u] \in {"fresh", "forward"} /\ SendStart(u)
       \/ mode[u] \in {"auto", "explicit"} /\ Goto(u, "listing") /\ UNCHANGED requests
    /\ UNCHANGED <<largeFiles, replies, abortVars, callVars, taskVars, endVars>>

\* parts.map(async ...): every task exists from here on.
StartTasks(u) ==
    /\ Goto(u, "parts")
    /\ task' = [task EXCEPT ![u] = [p \in Part |-> "queued"]]
    /\ UNCHANGED <<attempt, partSha1s>>

\* A metadata-compatible unfinished file is listed; its parts are listed next.
ListCandidate(u) ==
    /\ pc[u] = "listing" /\ ~aborted[u]
    /\ \E f \in FileId : /\ Unfinished(f)
                         /\ largeFileId' = [largeFileId EXCEPT ![u] = f]
    /\ Goto(u, "listingParts")
    /\ UNCHANGED <<netVars, abortVars, createdLargeFile, preUploaded, taskVars, endVars>>

\* No candidate passes: automatic resume starts a fresh file, an explicit
\* resumeFileId is refused with ResumeFileIdMismatchError.
NoCandidate(u) ==
    /\ pc[u] \in {"listing", "listingParts"} /\ ~aborted[u]
    /\ largeFileId' = [largeFileId EXCEPT ![u] = NoFile]
    /\ \/ mode[u] = "auto" /\ SendStart(u) /\ UNCHANGED outcome
       \/ mode[u] = "explicit" /\ Settle(u, "failed") /\ UNCHANGED requests
    /\ UNCHANGED <<largeFiles, replies, abortVars, createdLargeFile, preUploaded,
                   taskVars, reported, straggler>>

\* b2_list_parts answers for the candidate: only an explicit resume keeps it.
AdoptCandidate(u) ==
    /\ pc[u] = "listingParts" /\ ~aborted[u] /\ Unfinished(largeFileId[u])
    /\ preUploaded' = [preUploaded EXCEPT
                         ![u] = IF mode[u] = "explicit"
                                THEN largeFiles[largeFileId[u]].parts ELSE NoParts]
    /\ StartTasks(u)
    /\ UNCHANGED <<netVars, abortVars, largeFileId, createdLargeFile, endVars>>

\* Discovery throws: an abort, a failed call, or a candidate gone meanwhile.
DiscoveryFails(u) ==
    /\ pc[u] \in {"listing", "listingParts"}
    /\ largeFileId' = [largeFileId EXCEPT ![u] = NoFile]
    /\ Settle(u, "failed") /\ AbortScope(u)
    /\ UNCHANGED <<netVars, mode, callerAborted, createdLargeFile, preUploaded, taskVars,
                   reported, straggler>>

StartReplied(u) ==
    /\ pc[u] = "starting"
    /\ \E r \in replies :
         /\ r.to = StartRequest(u) /\ r.status = "ok"
         /\ largeFileId' = [largeFileId EXCEPT ![u] = r.f]
    /\ createdLargeFile' = [createdLargeFile EXCEPT ![u] = TRUE]
    /\ preUploaded' = [preUploaded EXCEPT ![u] = NoParts]
    /\ StartTasks(u)
    /\ UNCHANGED <<netVars, abortVars, endVars>>

\* b2_start_large_file is never replayed: an error or a lost answer ends the call.
StartFails(u) ==
    /\ pc[u] = "starting" /\ ~aborted[u]
    /\ Settle(u, "failed") /\ AbortScope(u)
    /\ UNCHANGED <<netVars, mode, callerAborted, callVars, taskVars, reported, straggler>>

\* raceWithAbort stops waiting; cancelLargeFileAfterStart goes on.
StartAborted(u) ==
    /\ pc[u] = "starting" /\ aborted[u]
    /\ Settle(u, "failed")
    /\ straggler' = [straggler EXCEPT ![u] = "watching"]
    /\ UNCHANGED <<netVars, abortVars, callVars, taskVars, reported>>

\* The start resolves after all, with a transport that ignores the signal.
StragglerStarted(u) ==
    /\ straggler[u] = "watching"
    /\ \E r \in replies :
         /\ r.to = StartRequest(u) /\ r.status = "ok"
         /\ Send(CancelRequest(u, r.f))
    /\ straggler' = [straggler EXCEPT ![u] = "cancelling"]
    /\ UNCHANGED <<largeFiles, replies, pc, abortVars, callVars, taskVars,
                   outcome, reported>>

\* The start rejects: it failed, or the transport honours the signal (FetchTransport).
StragglerFailed(u) ==
    /\ straggler[u] = "watching"
    /\ straggler' = [straggler EXCEPT ![u] = "none"]
    /\ UNCHANGED <<netVars, pc, abortVars, callVars, taskVars, outcome, reported>>

-----------------------------------------------------------------------------
(* The tasks of the parts.                                                 *)

SlotLimit(u) == IF mode[u] = "forward" THEN 1 ELSE Concurrency
\* Mutant: a task that throws keeps its slot.
LeakedSlots(u) == {p \in Part : task[u][p] \in {"reading", "uploading", "failed"}}
Holding(u)   == {p \in Part : task[u][p] \in {"reading", "uploading"}}

SetTask(u, p, s) == task' = [task EXCEPT ![u][p] = s]

Record(u, p, d) ==
    /\ partSha1s' = [partSha1s EXCEPT ![u][p] = d]
    /\ SetTask(u, p, "done")

\* The semaphore serves its queue in order; a forward-only source is read one
\* part at a time, and not past a part that failed.
MayAcquire(u, p) ==
    /\ Cardinality(Holding(u)) < SlotLimit(u)
    /\ \A q \in Part : q < p => /\ task[u][q] # "queued"
                                /\ mode[u] = "forward" => task[u][q] = "done"

AcquireSlot(u, p) ==
    /\ pc[u] # "crashed" /\ task[u][p] = "queued" /\ MayAcquire(u, p)
    /\ SetTask(u, p, "reading")
    /\ UNCHANGED <<netVars, pc, abortVars, callVars, attempt, partSha1s, endVars>>

\* Mutant: any part the server listed is trusted.
TrustAnyPart(u, p) == preUploaded[u][p] # NoDigest

\* An explicit resume skips a part the server already stored with the same digest.
Reusable(u, p) == preUploaded[u][p] = Content[u][p]

ReusePart(u, p) ==
    /\ pc[u] # "crashed" /\ task[u][p] = "reading" /\ ~aborted[u]
    /\ Reusable(u, p)
    /\ Record(u, p, preUploaded[u][p])
    /\ UNCHANGED <<netVars, pc, abortVars, callVars, attempt, endVars>>

SendPart(u, p) ==
    /\ pc[u] # "crashed" /\ task[u][p] = "reading" /\ ~aborted[u]
    /\ ~Reusable(u, p)
    /\ Send(PartRequest(u, p, 0))
    /\ SetTask(u, p, "uploading")
    /\ UNCHANGED <<largeFiles, replies, pc, abortVars, callVars, attempt, partSha1s, endVars>>

PartStored(u, p) ==
    /\ pc[u] # "crashed" /\ task[u][p] = "uploading"
    /\ \E r \in replies : /\ r.to = PartRequest(u, p, attempt[u][p])
                          /\ r.status = "ok"
                          /\ Record(u, p, r.to.d)
    /\ UNCHANGED <<netVars, pc, abortVars, callVars, attempt, endVars>>

\* A 503, or no answer that can be read: a fresh upload URL and a new attempt.
RetryPart(u, p) ==
    /\ pc[u] # "crashed" /\ task[u][p] = "uploading" /\ ~aborted[u]
    /\ attempt[u][p] < MaxRetries
    /\ attempt' = [attempt EXCEPT ![u][p] = @ + 1]
    /\ Send(PartRequest(u, p, attempt[u][p] + 1))
    /\ UNCHANGED <<largeFiles, replies, pc, abortVars, callVars, task, partSha1s, endVars>>

\* The task rejects: reading its bytes failed, the server rejected the part, the
\* retries are spent, or the scope was aborted.  The others are aborted with it.
TaskFails(u, p) ==
    /\ pc[u] # "crashed"
    /\ \/ task[u][p] = "reading"
       \/ /\ task[u][p] = "uploading"
          /\ \/ aborted[u]
             \/ Answered(PartRequest(u, p, attempt[u][p]), "rejected")
             \/ attempt[u][p] = MaxRetries
    /\ SetTask(u, p, "failed")
    /\ AbortScope(u)
    /\ UNCHANGED <<netVars, pc, mode, callerAborted, callVars, attempt, partSha1s, endVars>>

AnyFailed(u) == \E p \in Part : task[u][p] = "failed"
AllDone(u)   == \A p \in Part : task[u][p] = "done"

\* Mutant: Promise.all, which settles with the first task that rejects.
FirstRejection(u) == AllDone(u) \/ AnyFailed(u)

\* Promise.allSettled(tasks); the sequential loop stops at its first failure.
TasksSettled(u) ==
    IF mode[u] = "forward" THEN AllDone(u) \/ AnyFailed(u)
    ELSE \A p \in Part : task[u][p] \in {"done", "failed"}

-----------------------------------------------------------------------------
(* Finishing, and cleaning up after an error.                              *)

SendFinish(u) ==
    /\ pc[u] = "parts" /\ TasksSettled(u) /\ ~AnyFailed(u) /\ ~aborted[u]
    /\ Send(FinishRequest(u))
    /\ Goto(u, "finishing")
    /\ UNCHANGED <<largeFiles, replies, abortVars, callVars, taskVars, endVars>>

\* Mutant: the catch block cancels no file.
CancelNever(u) ==
    /\ AbortScope(u) /\ Settle(u, "failed")
    /\ UNCHANGED <<netVars, mode, callerAborted, callVars, taskVars, reported, straggler>>

\* The catch block: abort the scope, cancel a file this call created.
CleanUp(u) ==
    /\ AbortScope(u)
    /\ \/ /\ createdLargeFile[u]
          /\ Send(CancelRequest(u, largeFileId[u]))
          /\ Goto(u, "cancelling")
          /\ UNCHANGED outcome
       \/ /\ ~createdLargeFile[u]
          /\ Settle(u, "failed")
          /\ UNCHANGED requests
    /\ UNCHANGED <<largeFiles, replies, mode, callerAborted, callVars, taskVars, reported, straggler>>

\* A task failed, the scope is aborted, or a forward-only source has extra bytes.
PartsFail(u) ==
    /\ pc[u] = "parts" /\ TasksSettled(u)
    /\ AnyFailed(u) \/ aborted[u] \/ mode[u] = "forward"
    /\ CleanUp(u)

FinishReplied(u) ==
    /\ pc[u] = "finishing" /\ Answered(FinishRequest(u), "ok")
    /\ Settle(u, "ok")
    /\ UNCHANGED <<netVars, abortVars, callVars, taskVars, reported, straggler>>

\* Mutant: a finish with no readable answer is an ordinary failure.
FinishFailureCancels(u) == pc[u] = "finishing" /\ CleanUp(u)

\* A B2Error answers the finish: nothing was committed.  (After an abort the
\* transport mostly throws the abort reason in its place: FinishAmbiguous.)
FinishRejected(u) ==
    /\ pc[u] = "finishing"
    /\ Answered(FinishRequest(u), "rejected") \/ Answered(FinishRequest(u), "refused")
    /\ CleanUp(u)

\* No answer, an unreadable one, or an abort after dispatch: never cancelled.
FinishAmbiguous(u) ==
    /\ pc[u] = "finishing"
    /\ Settle(u, "ambiguous")
    /\ AbortScope(u)
    /\ reported' = [reported EXCEPT ![u] = @ \cup {"finish-ambiguous"}]
    /\ UNCHANGED <<netVars, mode, callerAborted, callVars, taskVars, straggler>>

CancelReplied(u) ==
    /\ pc[u] = "cancelling" /\ Answered(CancelRequest(u, largeFileId[u]), "ok")
    /\ Settle(u, "failed")
    /\ UNCHANGED <<netVars, abortVars, callVars, taskVars, reported, straggler>>

\* An error, the 30 s cleanup timeout, or the caller's abort during the cleanup.
CancelFails(u) ==
    /\ pc[u] = "cancelling"
    /\ Settle(u, "failed")
    /\ reported' = [reported EXCEPT ![u] = @ \cup {"cancel-failed"}]
    /\ UNCHANGED <<netVars, abortVars, callVars, taskVars, straggler>>

StragglerCancelled(u) ==
    /\ straggler[u] = "cancelling" /\ \E f \in FileId : Answered(CancelRequest(u, f), "ok")
    /\ straggler' = [straggler EXCEPT ![u] = "closed"]
    /\ UNCHANGED <<netVars, pc, abortVars, callVars, taskVars, outcome, reported>>

StragglerCancelFails(u) ==
    /\ straggler[u] = "cancelling"
    /\ straggler' = [straggler EXCEPT ![u] = "closed"]
    /\ reported' = [reported EXCEPT ![u] = @ \cup {"cancel-failed"}]
    /\ UNCHANGED <<netVars, pc, abortVars, callVars, taskVars, outcome>>

-----------------------------------------------------------------------------
(* The server and the network.                                             *)

ServerServes(m) == Handle(m) /\ UNCHANGED <<pc, abortVars, callVars, taskVars, endVars>>

ServerRefuses(m) == Refuse(m) /\ UNCHANGED <<pc, abortVars, callVars, taskVars, endVars>>

-----------------------------------------------------------------------------

TaskStep(u, p) ==
    \/ AcquireSlot(u, p) \/ ReusePart(u, p) \/ SendPart(u, p)
    \/ PartStored(u, p) \/ RetryPart(u, p) \/ TaskFails(u, p)

\* What the event loop does for a call that has begun.
CallStep(u) ==
    \/ ListCandidate(u) \/ NoCandidate(u) \/ AdoptCandidate(u) \/ DiscoveryFails(u)
    \/ StartReplied(u) \/ StartFails(u) \/ StartAborted(u)
    \/ \E p \in Part : TaskStep(u, p)
    \/ SendFinish(u) \/ PartsFail(u)
    \/ FinishReplied(u) \/ FinishRejected(u) \/ FinishAmbiguous(u)
    \/ CancelReplied(u) \/ CancelFails(u)

StragglerStep(u) ==
    \/ StragglerStarted(u) \/ StragglerFailed(u)
    \/ StragglerCancelled(u) \/ StragglerCancelFails(u)

EnvironmentStep(u) == CallerAborts(u) \/ Crash(u) \/ BeginAborted(u) \/ Begin(u)

NetworkStep == \E m \in requests : ServerServes(m) \/ ServerRefuses(m)

Next == \/ \E u \in Client : CallStep(u) \/ StragglerStep(u) \/ EnvironmentStep(u)
        \/ NetworkStep

Spec == Init /\ [][Next]_vars

\* The event loop runs what is ready, and every transport call ends: with an
\* answer, an error, or the request timeout of FetchTransport.
FairSpec == Spec /\ \A u \in Client : WF_vars(CallStep(u))

-----------------------------------------------------------------------------
(* Properties.                                                             *)

\* An upload reported "ok" left a finished file whose every part has the bytes of
\* the caller's own source, whoever else uploaded into the same large file.
OkMeansStored ==
    \A u \in Client : outcome[u] = "ok" =>
        \E f \in FileId : /\ largeFiles[f].state = "finished"
                          /\ largeFiles[f].finishedBy = u
                          /\ largeFiles[f].parts = Content[u]

\* b2_cancel_large_file is only sent for a file the same upload started: a
\* resumed file, which may be another uploader's, is never cancelled.
OnlyOwnFileCancelled ==
    \A m \in requests : m.op = "cancel" => largeFiles[m.f].startedBy = m.u

\* A cancel never races a finish of the same upload: a finish that may still be
\* on its way to the server is never followed by a cancel of its file.
CancelNeverRacesFinish ==
    \A c, m \in requests : ~(c.op = "cancel" /\ m.op = "finish" /\ c.u = m.u)

\* A call that failed leaves no unfinished file of its own behind unless it told
\* onCleanupFailure, or never learned the file's id from b2_start_large_file.
NoSilentOrphan ==
    \A u \in Client, f \in FileId :
        /\ pc[u] = "settled" /\ outcome[u] = "failed" /\ Unfinished(f)
        /\ \/ createdLargeFile[u] /\ largeFileId[u] = f
           \/ /\ straggler[u] = "closed"
              /\ [to |-> StartRequest(u), status |-> "ok", f |-> f] \in replies
        => "cancel-failed" \in reported[u]

\* Nothing outlives the call: once uploadLargeFile finishes, cleans up or settles,
\* no task of it waits for a slot, reads the source or uploads a part.
NothingOutlivesTheCall ==
    \A u \in Client : pc[u] \in {"finishing", "cancelling", "settled"} =>
        /\ Holding(u) = {}
        /\ mode[u] # "forward" => \A p \in Part : task[u][p] # "queued"

\* Every upload that begins settles (or its process dies).
Settles == \A u \in Client : Active(u) ~> pc[u] \in {"settled", "crashed"}

\* The file is published exactly as the caller was told (LargeFileContract).
published == [u \in Client |-> \E f \in FileId : largeFiles[f].finishedBy = u]
Contract == INSTANCE LargeFileContract
ContractSpec == Contract!Spec

-----------------------------------------------------------------------------
(* The inductive invariant behind the safety properties.                   *)

\* A call settles exactly when it reports an outcome.
OutcomeInv == \A u \in Client : (outcome[u] # "none") <=> (pc[u] = "settled")

\* The digest recorded for a part that is done is that of the source's bytes.
DigestInv == \A u \in Client, p \in Part :
                task[u][p] = "done" => partSha1s[u][p] = Content[u][p]

\* Tasks only exist once the file is known.
PhaseInv == \A u \in Client :
    /\ pc[u] \in {"idle", "listing", "listingParts", "starting"} =>
         ~createdLargeFile[u] /\ \A p \in Part : task[u][p] = "none"
    /\ (\E p \in Part : task[u][p] # "none") => largeFileId[u] \in FileId
    /\ pc[u] \in {"parts", "finishing", "cancelling", "listingParts"} => largeFileId[u] \in FileId

\* Calls that have sent b2_finish_large_file and have not seen it refused.
Undecided(u) == \/ pc[u] \in {"finishing", "crashed"}
                \/ pc[u] = "settled" /\ outcome[u] \in {"ok", "ambiguous"}

\* A finish on its way is the only one of its call, and nothing has answered it.
FinishRequestInv == \A m \in requests : m.op = "finish" =>
    /\ m = FinishRequest(m.u) /\ AllDone(m.u)
    /\ Undecided(m.u) /\ outcome[m.u] # "ok"
    /\ ~published[m.u]
    /\ \A r \in replies : r.to.op = "finish" => r.to.u # m.u

FinishReplyInv == \A r \in replies : r.to.op = "finish" =>
    /\ r.to = FinishRequest(r.to.u) /\ AllDone(r.to.u)
    /\ pc[r.to.u] \in {"finishing", "cancelling", "settled", "crashed"}
    /\ IF r.status = "ok" THEN published[r.to.u] ELSE ~published[r.to.u]

\* A committed finish stored the bytes of the source, for an upload that has not
\* given up on it.
PublishedInv == \A u \in Client, f \in FileId : largeFiles[f].finishedBy = u =>
    /\ largeFiles[f].state = "finished" /\ largeFiles[f].parts = Content[u]
    /\ Undecided(u)

OkInv == \A u \in Client : outcome[u] = "ok" => published[u]

\* Ownership: files reported as created, and files being cancelled.
StartReplyInv == \A r \in replies : r.to.op = "start" /\ r.status = "ok" =>
    r.f \in FileId /\ largeFiles[r.f].startedBy = r.to.u /\ largeFiles[r.f].state # "none"

OwnerInv ==
    /\ \A u \in Client : createdLargeFile[u] =>
         /\ largeFileId[u] \in FileId
         /\ largeFiles[largeFileId[u]].startedBy = u
         /\ largeFiles[largeFileId[u]].state # "none"
    /\ \A m \in requests : m.op = "cancel" =>
         largeFiles[m.f].startedBy = m.u /\ largeFiles[m.f].state # "none"

\* Cancels come after the parts, and a straggler only after a failed call.
CancelInv ==
    /\ \A u \in Client : straggler[u] # "none" => outcome[u] = "failed"
    /\ \A m \in requests : m.op = "cancel" => pc[m.u] \in {"cancelling", "settled", "crashed"}

\* A call asks for one large file: while the request is on its way there is none.
StartOnceInv == \A u \in Client :
    /\ StartRequest(u) \in requests =>
         /\ pc[u] \notin {"idle", "listing", "listingParts"}
         /\ \A f \in FileId : largeFiles[f].startedBy # u
    /\ \A f \in FileId : largeFiles[f].startedBy = u =>
         /\ pc[u] \notin {"idle", "listing", "listingParts"} /\ largeFiles[f].state # "none"
         /\ \A g \in FileId : largeFiles[g].startedBy = u => g = f
    /\ straggler[u] \in {"cancelling", "closed"} => \E f \in FileId : largeFiles[f].startedBy = u

\* A cancel that was answered ok cancelled a file of its own upload.
CancelReplyInv == \A r \in replies : r.to.op = "cancel" /\ r.status = "ok" =>
    largeFiles[r.to.f].state = "cancelled" /\ largeFiles[r.to.f].startedBy = r.to.u

\* A forward-only source is read part after part, and not past one that failed.
ForwardInv == \A u \in Client : mode[u] = "forward" =>
    /\ \A p, q \in Part : q < p /\ task[u][p] \notin {"none", "queued"} => task[u][q] = "done"
    /\ pc[u] \in {"finishing", "cancelling", "settled"} /\ (\E p \in Part : task[u][p] = "queued")
         => AnyFailed(u)

IInv == /\ TypeOK
        /\ OutcomeInv /\ DigestInv /\ PhaseInv
        /\ FinishRequestInv /\ FinishReplyInv /\ PublishedInv /\ OkInv
        /\ StartReplyInv /\ OwnerInv /\ CancelInv /\ CancelNeverRacesFinish

\* What a call leaves behind; inductive together with IInv.
EndInv == /\ StartOnceInv /\ CancelReplyInv /\ ForwardInv
          /\ NothingOutlivesTheCall /\ NoSilentOrphan
=============================================================================
