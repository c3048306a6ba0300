------------------------ MODULE LargeFileUploadProofs ------------------------
(***************************************************************************)
(* IInv is inductive: one lemma per conjunct (TypeStep, OutcomeStep, ...)  *)
(* shows that a step of the specification preserves it, one case per       *)
(* action or group of actions.  Invariance puts them together, and the     *)
(* theorems after it read the safety properties off the invariant.  The    *)
(* last one shows that the upload implements LargeFileContract.            *)
(***************************************************************************)
EXTENDS LargeFileUpload, TLAPS

\* The requests of a well-typed state are requests.
LEMMA RequestTypes ==
    ASSUME TypeOK, NEW u \in Client
    PROVE  /\ StartRequest(u) \in Request
           /\ largeFileId[u] \in FileId => FinishRequest(u) \in Request
           /\ \A f \in FileId : CancelRequest(u, f) \in Request
           /\ \A p \in Part, a \in 0..MaxRetries :
                largeFileId[u] \in FileId => PartRequest(u, p, a) \in Request
<1> USE DEF TypeOK, NetworkTypeOK, Request
<1>1. StartRequest(u) \in Request
  BY DEF StartRequest
<1>2. largeFileId[u] \in FileId => FinishRequest(u) \in Request
  BY DEF FinishRequest
<1>3. \A f \in FileId : CancelRequest(u, f) \in Request
  BY DEF CancelRequest
<1>4. \A p \in Part, a \in 0..MaxRetries :
        largeFileId[u] \in FileId => PartRequest(u, p, a) \in Request
  BY ContentAssumption DEF PartRequest
<1> QED
  BY <1>1, <1>2, <1>3, <1>4

\* Every operation of the server leaves its files well typed.
LEMMA ServerTypes ==
    ASSUME LargeFilesTypeOK, NEW f \in FileId
    PROVE  /\ \A c \in Client : StartLargeFile(f, c) => LargeFilesTypeOK'
           /\ \A p \in Part, d \in Digest : StorePart(f, p, d) => LargeFilesTypeOK'
           /\ \A ds, c : c \in Client /\ FinishLargeFile(f, ds, c) => LargeFilesTypeOK'
           /\ CancelLargeFile(f) => LargeFilesTypeOK'
<1>types. largeFiles \in [FileId -> LargeFile]
  BY DEF LargeFilesTypeOK
<1>1. ASSUME NEW r \in LargeFile, largeFiles' = [largeFiles EXCEPT ![f] = r]
      PROVE LargeFilesTypeOK'
  BY <1>1, <1>types DEF LargeFilesTypeOK
<1>2. ASSUME NEW c \in Client, StartLargeFile(f, c) PROVE LargeFilesTypeOK'
  <2>1. [state |-> "unfinished", startedBy |-> c, finishedBy |-> Nobody,
         parts |-> NoParts] \in LargeFile
    BY DEF LargeFile, FileState, NoParts
  <2> QED
    BY <1>2, <2>1, <1>1 DEF StartLargeFile
<1>3. ASSUME NEW p \in Part, NEW d \in Digest, StorePart(f, p, d) PROVE LargeFilesTypeOK'
  <2>1. [largeFiles[f] EXCEPT !.parts[p] = d] \in LargeFile
    BY <1>types DEF LargeFile
  <2> QED
    BY <1>3, <2>1, <1>1 DEF StorePart
<1>4. ASSUME NEW ds, NEW c \in Client, FinishLargeFile(f, ds, c) PROVE LargeFilesTypeOK'
  <2>1. [largeFiles[f] EXCEPT !.state = "finished", !.finishedBy = c] \in LargeFile
    BY <1>types DEF LargeFile, FileState
  <2> QED
    BY <1>4, <2>1, <1>1 DEF FinishLargeFile
<1>5. ASSUME CancelLargeFile(f) PROVE LargeFilesTypeOK'
  <2>1. [largeFiles[f] EXCEPT !.state = "cancelled"] \in LargeFile
    BY <1>types DEF LargeFile, FileState
  <2> QED
    BY <1>5, <2>1, <1>1 DEF CancelLargeFile
<1> QED
  BY <1>2, <1>3, <1>4, <1>5

\* Adding a report to the reports of one call.
LEMMA ReportTypes ==
    ASSUME NEW S, NEW f \in [Client -> SUBSET S], NEW u \in Client, NEW x \in S
    PROVE  [f EXCEPT ![u] = @ \cup {x}] \in [Client -> SUBSET S]
<1>1. f[u] \cup {x} \in SUBSET S
  OBVIOUS
<1> QED
  BY <1>1

\* Only the server changes the files and answers requests.
LEMMA ClientFrame ==
    ASSUME NEW u \in Client, CallStep(u) \/ StragglerStep(u) \/ EnvironmentStep(u)
    PROVE  UNCHANGED <<largeFiles, replies>>
<1> USE DEF netVars
<1>1. ASSUME CallStep(u) PROVE UNCHANGED <<largeFiles, replies>>
  BY <1>1
  DEF CallStep, ListCandidate, NoCandidate, AdoptCandidate, DiscoveryFails, StartReplied,
      StartFails, StartAborted, TaskStep, AcquireSlot, ReusePart, SendPart, PartStored,
      RetryPart, TaskFails, SendFinish, PartsFail, FinishReplied, FinishRejected,
      FinishAmbiguous, CancelReplied, CancelFails, CleanUp
<1>2. ASSUME StragglerStep(u) PROVE UNCHANGED <<largeFiles, replies>>
  BY <1>2
  DEF StragglerStep, StragglerStarted, StragglerFailed, StragglerCancelled,
      StragglerCancelFails
<1>3. ASSUME EnvironmentStep(u) PROVE UNCHANGED <<largeFiles, replies>>
  BY <1>3 DEF EnvironmentStep, CallerAborts, Crash, BeginAborted, Begin
<1> QED
  BY <1>1, <1>2, <1>3

\* Every action leaves the state well typed.
LEMMA TypeStep == ASSUME IInv, [Next]_vars PROVE TypeOK'
<1> USE DEF TypeOK, NetworkTypeOK, netVars, abortVars, callVars, taskVars, endVars,
           LargeFilesTypeOK,
            Goto, Phase, Settle, AbortScope, SetTask, TaskState
<1>1. TypeOK /\ PhaseInv /\ StartReplyInv
  BY DEF IInv
<1>2. ASSUME NEW u \in Client, CallerAborts(u) PROVE TypeOK'
  BY <1>2, <1>1 DEF CallerAborts
<1>3. ASSUME NEW u \in Client, Crash(u) PROVE TypeOK'
  BY <1>3, <1>1 DEF Crash
<1>4. ASSUME NEW u \in Client, BeginAborted(u) PROVE TypeOK'
  BY <1>4, <1>1 DEF BeginAborted
<1>5. ASSUME NEW u \in Client, Begin(u) PROVE TypeOK'
  BY <1>5, <1>1, RequestTypes DEF Begin, SendStart, Send
<1>6. ASSUME NEW u \in Client, ListCandidate(u) PROVE TypeOK'
  BY <1>6, <1>1 DEF ListCandidate
<1>7. ASSUME NEW u \in Client, NoCandidate(u) PROVE TypeOK'
  BY <1>7, <1>1, RequestTypes DEF NoCandidate, SendStart, Send
<1>8. ASSUME NEW u \in Client, AdoptCandidate(u) PROVE TypeOK'
  BY <1>8, <1>1 DEF AdoptCandidate, StartTasks, PhaseInv, LargeFile, NoParts
<1>9. ASSUME NEW u \in Client, DiscoveryFails(u) PROVE TypeOK'
  BY <1>9, <1>1 DEF DiscoveryFails
<1>10. ASSUME NEW u \in Client, StartReplied(u) PROVE TypeOK'
  BY <1>10, <1>1 DEF StartReplied, StartTasks, StartReplyInv, StartRequest, NoParts
<1>11. ASSUME NEW u \in Client, StartFails(u) PROVE TypeOK'
  BY <1>11, <1>1 DEF StartFails
<1>12. ASSUME NEW u \in Client, StartAborted(u) PROVE TypeOK'
  BY <1>12, <1>1 DEF StartAborted
<1>13. ASSUME NEW u \in Client, StragglerStarted(u) PROVE TypeOK'
  BY <1>13, <1>1, RequestTypes DEF StragglerStarted, Send, StartReplyInv, StartRequest
<1>14. ASSUME NEW u \in Client,
              StragglerFailed(u) \/ StragglerCancelled(u) \/ StragglerCancelFails(u)
       PROVE TypeOK'
  <2>1. reported' \in [Client -> SUBSET {"cancel-failed", "finish-ambiguous"}]
    BY <1>14, <1>1, ReportTypes DEF StragglerFailed, StragglerCancelled, StragglerCancelFails
  <2> QED
    BY <1>14, <1>1, <2>1 DEF StragglerFailed, StragglerCancelled, StragglerCancelFails
<1>15. ASSUME NEW u \in Client, NEW p \in Part, AcquireSlot(u, p) PROVE TypeOK'
  BY <1>15, <1>1 DEF AcquireSlot
<1>16. ASSUME NEW u \in Client, NEW p \in Part, ReusePart(u, p) PROVE TypeOK'
  BY <1>16, <1>1 DEF ReusePart, Record
<1>17. ASSUME NEW u \in Client, NEW p \in Part, SendPart(u, p) PROVE TypeOK'
  BY <1>17, <1>1, RequestTypes, RetryAssumption DEF SendPart, PhaseInv, Send
<1>18. ASSUME NEW u \in Client, NEW p \in Part, RetryPart(u, p) PROVE TypeOK'
  <2>1. attempt[u][p] + 1 \in 0..MaxRetries
    BY <1>18, <1>1, RetryAssumption DEF RetryPart
  <2>2. requests' \subseteq Request
    BY <1>18, <1>1, <2>1, RequestTypes DEF RetryPart, PhaseInv, Send
  <2>3. attempt' \in [Client -> [Part -> 0..MaxRetries]]
    BY <1>18, <1>1, <2>1 DEF RetryPart
  <2> QED
    BY <1>18, <1>1, <2>2, <2>3 DEF RetryPart
<1>19. ASSUME NEW u \in Client, NEW p \in Part, PartStored(u, p) PROVE TypeOK'
  BY <1>19, <1>1, ContentAssumption DEF PartStored, PhaseInv, PartRequest, Record
<1>20. ASSUME NEW u \in Client, NEW p \in Part, TaskFails(u, p) PROVE TypeOK'
  BY <1>20, <1>1 DEF TaskFails
<1>21. ASSUME NEW u \in Client, CleanUp(u), pc[u] \in {"parts", "finishing"} PROVE TypeOK'
  <2>1. largeFileId[u] \in FileId
    BY <1>21, <1>1 DEF PhaseInv
  <2>2. CASE createdLargeFile[u]
    <3>1. CancelRequest(u, largeFileId[u]) \in Request
      BY <1>1, <2>1, RequestTypes
    <3>2. requests' \subseteq Request
      BY <1>21, <1>1, <2>2, <3>1 DEF CleanUp, Send
    <3>3. pc' \in [Client -> Phase] /\ aborted' \in [Client -> BOOLEAN] /\ outcome' = outcome
      BY <1>21, <1>1, <2>2 DEF CleanUp
    <3> QED
      BY <1>21, <1>1, <3>2, <3>3 DEF CleanUp
  <2>3. CASE ~createdLargeFile[u]
    BY <1>21, <1>1, <2>3 DEF CleanUp
  <2> QED
    BY <2>2, <2>3
<1>22. ASSUME NEW u \in Client, PartsFail(u) \/ FinishRejected(u) PROVE TypeOK'
  BY <1>22, <1>21 DEF PartsFail, FinishRejected
<1>23. ASSUME NEW u \in Client, SendFinish(u) PROVE TypeOK'
  BY <1>23, <1>1, RequestTypes DEF SendFinish, PhaseInv, Send
<1>24. ASSUME NEW u \in Client, FinishReplied(u) \/ CancelReplied(u) PROVE TypeOK'
  BY <1>24, <1>1 DEF FinishReplied, CancelReplied
<1>25. ASSUME NEW u \in Client, FinishAmbiguous(u) \/ CancelFails(u) PROVE TypeOK'
  <2>1. reported' \in [Client -> SUBSET {"cancel-failed", "finish-ambiguous"}]
    <3>1. CASE FinishAmbiguous(u)
      BY <3>1, <1>1, ReportTypes DEF FinishAmbiguous
    <3>2. CASE CancelFails(u)
      BY <3>2, <1>1, ReportTypes DEF CancelFails
    <3> QED
      BY <1>25, <3>1, <3>2
  <2> QED
    BY <1>25, <1>1, <2>1 DEF FinishAmbiguous, CancelFails
<1>26. ASSUME NEW m \in requests, ServerServes(m) PROVE TypeOK'
  <2>1. m \in Request
    BY <1>26, <1>1
  <2>2. replies' \subseteq Reply
    BY <1>26, <1>1, <2>1 DEF ServerServes, Handle, Serve, Answer, Reply, Status
  <2>3. largeFiles' \in [FileId -> LargeFile]
    BY <1>26, <1>1, <2>1, ServerTypes DEF ServerServes, Handle, Serve, Request
  <2> QED
    BY <1>26, <1>1, <2>2, <2>3 DEF ServerServes, Handle
<1>27. ASSUME NEW m \in requests, ServerRefuses(m) PROVE TypeOK'
  BY <1>27, <1>1 DEF ServerRefuses, Refuse, Answer, Reply, Status
<1>28. CASE UNCHANGED vars
  BY <1>28, <1>1 DEF vars
<1> QED
  BY <1>2, <1>3, <1>4, <1>5, <1>6, <1>7, <1>8, <1>9, <1>10, <1>11, <1>12, <1>13, <1>14, <1>15,
<1>16, <1>17, <1>18, <1>19, <1>20, <1>22, <1>23, <1>24, <1>25, <1>26, <1>27, <1>28
  DEF Next, CallStep, StragglerStep, EnvironmentStep, NetworkStep, TaskStep

\* Every action that settles a call reports an outcome, and no other one does.
LEMMA OutcomeStep == ASSUME IInv, [Next]_vars PROVE OutcomeInv'
<1> USE DEF netVars, abortVars, callVars, taskVars, endVars, Goto, Settle
<1>types. /\ OutcomeInv /\ pc \in [Client -> Phase]
          /\ outcome \in [Client -> {"none", "ok", "failed", "ambiguous"}]
  BY DEF IInv, TypeOK, NetworkTypeOK
<1>1. ASSUME NEW u \in Client, CallStep(u) PROVE OutcomeInv'
  BY <1>1, <1>types
  DEF CallStep, OutcomeInv, ListCandidate, NoCandidate, AdoptCandidate, DiscoveryFails,
      StartReplied, StartFails, StartAborted, TaskStep, AcquireSlot, ReusePart, SendPart,
      PartStored, RetryPart, TaskFails, SendFinish, PartsFail, FinishReplied, FinishRejected,
      FinishAmbiguous, CancelReplied, CancelFails, StartTasks, SendStart, CleanUp, Phase
<1>2. ASSUME NEW u \in Client, StragglerStep(u) PROVE OutcomeInv'
  BY <1>2, <1>types
  DEF OutcomeInv, StragglerStep, StragglerStarted, StragglerFailed, StragglerCancelled,
      StragglerCancelFails
<1>3. ASSUME NEW u \in Client, EnvironmentStep(u) PROVE OutcomeInv'
  BY <1>3, <1>types
  DEF OutcomeInv, EnvironmentStep, CallerAborts, Crash, BeginAborted, Begin, SendStart,
      Active, Phase
<1>4. CASE NetworkStep
  BY <1>4, <1>types DEF NetworkStep, ServerServes, Handle, ServerRefuses, Refuse, OutcomeInv
<1> QED
  BY <1>1, <1>2, <1>3, <1>4, <1>types DEF Next, vars, OutcomeInv

\* Only ReusePart and PartStored finish a task, and both record the digest of the
\* source (part.sha1 in uploadLargeFile).
LEMMA DigestStep == ASSUME IInv, [Next]_vars PROVE DigestInv'
<1> USE DEF netVars, abortVars, callVars, taskVars, endVars, SetTask
<1>types. /\ DigestInv /\ task \in [Client -> [Part -> TaskState]]
          /\ partSha1s \in [Client -> [Part -> Digest \cup {NoDigest}]]
  BY DEF IInv, TypeOK, NetworkTypeOK
<1>1. ASSUME NEW u \in Client, CallStep(u), ~\E p \in Part : TaskStep(u, p) PROVE DigestInv'
  <2>1. CASE UNCHANGED <<task, partSha1s>>
    BY <2>1, <1>types DEF DigestInv
  <2>2. CASE StartTasks(u)
    BY <2>2, <1>types DEF DigestInv, StartTasks, TaskState
  <2>3. UNCHANGED <<task, partSha1s>> \/ StartTasks(u)
    BY <1>1
    DEF CallStep, ListCandidate, NoCandidate, AdoptCandidate, DiscoveryFails, StartReplied,
        StartFails, StartAborted, SendFinish, PartsFail, FinishReplied, FinishRejected,
        FinishAmbiguous, CancelReplied, CancelFails, CleanUp
  <2> QED
    BY <2>1, <2>2, <2>3
<1>2. ASSUME NEW u \in Client, NEW p \in Part, TaskStep(u, p) PROVE DigestInv'
  BY <1>2, <1>types
  DEF TaskStep, AcquireSlot, ReusePart, SendPart, PartStored, RetryPart, TaskFails, DigestInv,
      Record, Reusable, PartRequest
<1>3. ASSUME NEW u \in Client, StragglerStep(u) PROVE DigestInv'
  BY <1>3, <1>types
  DEF DigestInv, StragglerStep, StragglerStarted, StragglerFailed, StragglerCancelled,
      StragglerCancelFails
<1>4. ASSUME NEW u \in Client, EnvironmentStep(u) PROVE DigestInv'
  BY <1>4, <1>types DEF DigestInv, EnvironmentStep, CallerAborts, Crash, BeginAborted, Begin
<1>5. CASE NetworkStep
  BY <1>5, <1>types DEF NetworkStep, ServerServes, Handle, ServerRefuses, Refuse, DigestInv
<1> QED
  BY <1>1, <1>2, <1>3, <1>4, <1>5, <1>types DEF Next, vars, DigestInv

\* Tasks appear together with the file (StartTasks).
LEMMA PhaseStep == ASSUME IInv, [Next]_vars PROVE PhaseInv'
<1> USE DEF netVars, abortVars, callVars, taskVars, endVars, SetTask, Goto, Settle
<1>types. /\ PhaseInv /\ StartReplyInv /\ task \in [Client -> [Part -> TaskState]]
          /\ pc \in [Client -> Phase]
          /\ largeFileId \in [Client -> FileId \cup {NoFile}]
          /\ createdLargeFile \in [Client -> BOOLEAN]
  BY DEF IInv, TypeOK, NetworkTypeOK
<1>1. ASSUME NEW u \in Client, CallStep(u), ~\E p \in Part : TaskStep(u, p) PROVE PhaseInv'
  <2>1. CASE ListCandidate(u) \/ NoCandidate(u) \/ AdoptCandidate(u) \/ DiscoveryFails(u)
    BY <2>1, <1>types
    DEF PhaseInv, ListCandidate, NoCandidate, AdoptCandidate, DiscoveryFails, StartTasks,
        SendStart, Phase
  <2>2. CASE StartReplied(u) \/ StartFails(u) \/ StartAborted(u)
    BY <2>2, <1>types
    DEF PhaseInv, StartReplied, StartFails, StartAborted, StartTasks, Phase, StartReplyInv,
        StartRequest
  <2>3. CASE \/ SendFinish(u) \/ PartsFail(u) \/ FinishReplied(u) \/ FinishRejected(u)
            \/ FinishAmbiguous(u) \/ CancelReplied(u) \/ CancelFails(u)
    BY <2>3, <1>types
    DEF PhaseInv, SendFinish, PartsFail, FinishReplied, FinishRejected, FinishAmbiguous,
        CancelReplied, CancelFails, CleanUp, Phase
  <2> QED
    BY <1>1, <2>1, <2>2, <2>3 DEF CallStep
<1>2. ASSUME NEW u \in Client, NEW p \in Part, TaskStep(u, p) PROVE PhaseInv'
  BY <1>2, <1>types
  DEF TaskStep, AcquireSlot, ReusePart, SendPart, PartStored, RetryPart, TaskFails, PhaseInv,
      Record
<1>3. ASSUME NEW u \in Client, StragglerStep(u) PROVE PhaseInv'
  BY <1>3, <1>types
  DEF PhaseInv, StragglerStep, StragglerStarted, StragglerFailed, StragglerCancelled,
      StragglerCancelFails
<1>4. ASSUME NEW u \in Client, EnvironmentStep(u) PROVE PhaseInv'
  BY <1>4, <1>types
  DEF PhaseInv, EnvironmentStep, CallerAborts, Crash, BeginAborted, Begin, SendStart, Phase,
      Active
<1>5. CASE NetworkStep
  BY <1>5, <1>types DEF NetworkStep, ServerServes, Handle, ServerRefuses, Refuse, PhaseInv
<1> QED
  BY <1>1, <1>2, <1>3, <1>4, <1>5, <1>types DEF Next, vars, PhaseInv

\* The server never forgets who started a file, and never touches a finished one.
LEMMA ServerKeeps ==
    ASSUME IInv, [Next]_vars, NEW f \in FileId
    PROVE  /\ largeFiles[f].state # "none" =>
                /\ largeFiles'[f].state # "none"
                /\ largeFiles'[f].startedBy = largeFiles[f].startedBy
           /\ largeFiles[f].state = "finished" => largeFiles'[f] = largeFiles[f]
<1>types. largeFiles \in [FileId -> LargeFile] /\ requests \subseteq Request
  BY DEF IInv, TypeOK, NetworkTypeOK, LargeFilesTypeOK
<1>1. ASSUME NEW m \in requests, ServerServes(m)
      PROVE  /\ largeFiles[f].state # "none" =>
                /\ largeFiles'[f].state # "none"
                /\ largeFiles'[f].startedBy = largeFiles[f].startedBy
             /\ largeFiles[f].state = "finished" => largeFiles'[f] = largeFiles[f]
  BY <1>1, <1>types
  DEF ServerServes, Handle, Serve, StartLargeFile, StorePart, FinishLargeFile, FinishAccepted,
      CancelLargeFile, Unfinished, LargeFile
<1>2. ASSUME NEW u \in Client, CallStep(u) PROVE UNCHANGED largeFiles
  BY <1>2, ClientFrame
<1>3. ASSUME NEW u \in Client, StragglerStep(u) \/ EnvironmentStep(u) PROVE UNCHANGED largeFiles
  BY <1>3, ClientFrame
<1>4. ASSUME NEW m \in requests, ServerRefuses(m) PROVE UNCHANGED largeFiles
  BY <1>4 DEF ServerRefuses, Refuse
<1> QED
  BY <1>1, <1>2, <1>3, <1>4 DEF Next, NetworkStep, vars, netVars

\* b2_start_large_file answers with a file it created for the sender.
LEMMA StartReplyStep == ASSUME IInv, [Next]_vars PROVE StartReplyInv'
<1> USE DEF netVars
<1>types. /\ StartReplyInv /\ largeFiles \in [FileId -> LargeFile] /\ requests \subseteq Request
          /\ replies \subseteq Reply
  BY DEF IInv, TypeOK, NetworkTypeOK, LargeFilesTypeOK
<1>kept. ASSUME NEW r \in replies, r.to.op = "start", r.status = "ok"
      PROVE  /\ r.f \in FileId /\ largeFiles'[r.f].startedBy = r.to.u
             /\ largeFiles'[r.f].state # "none"
  BY <1>kept, <1>types, ServerKeeps DEF StartReplyInv
<1>1. ASSUME NEW u \in Client, CallStep(u) PROVE UNCHANGED replies
  BY <1>1, ClientFrame
<1>2. ASSUME NEW u \in Client, StragglerStep(u) \/ EnvironmentStep(u) PROVE UNCHANGED replies
  BY <1>2, ClientFrame
<1>3. ASSUME NEW m \in requests, ServerServes(m) PROVE StartReplyInv'
  <2>1. CASE m.op = "start"
    <3>1. PICK f \in FileId : StartLargeFile(f, m.u) /\ Answer(m, "ok", f)
      BY <1>3, <2>1 DEF ServerServes, Handle, Serve
    <3>2. largeFiles'[f].startedBy = m.u /\ largeFiles'[f].state # "none"
      BY <3>1, <1>types DEF StartLargeFile
    <3> QED
      BY <1>kept, <3>1, <3>2 DEF StartReplyInv, Answer
  <2>2. CASE m.op # "start"
    BY <1>3, <2>2, <1>kept DEF StartReplyInv, Answer, ServerServes, Handle, Serve
  <2> QED
    BY <2>1, <2>2
<1>4. ASSUME NEW m \in requests, ServerRefuses(m) PROVE StartReplyInv'
  BY <1>4, <1>kept DEF ServerRefuses, Refuse, Answer, StartReplyInv
<1>5. CASE UNCHANGED replies
  BY <1>5, <1>kept DEF StartReplyInv
<1> QED
  BY <1>1, <1>2, <1>3, <1>4, <1>5 DEF Next, NetworkStep, vars

\* createdLargeFile is only set from the answer to the call's own start, and only the
\* catch block and cancelLargeFileAfterStart send a cancel.
LEMMA OwnerStep == ASSUME IInv, [Next]_vars PROVE OwnerInv'
<1> USE DEF netVars, callVars, SetTask, Goto, Settle
<1>types. /\ OwnerInv /\ StartReplyInv /\ PhaseInv /\ requests \subseteq Request
          /\ largeFileId \in [Client -> FileId \cup {NoFile}]
          /\ createdLargeFile \in [Client -> BOOLEAN]
  BY DEF IInv, TypeOK, NetworkTypeOK
<1>created. ASSUME NEW u \in Client, createdLargeFile[u]
      PROVE  /\ largeFileId[u] \in FileId /\ largeFiles[largeFileId[u]].startedBy = u
             /\ largeFiles[largeFileId[u]].state # "none"
             /\ largeFiles'[largeFileId[u]].startedBy = u
             /\ largeFiles'[largeFileId[u]].state # "none"
  BY <1>created, <1>types, ServerKeeps DEF OwnerInv
<1>cancels. ASSUME NEW m \in requests, m.op = "cancel"
      PROVE largeFiles'[m.f].startedBy = m.u /\ largeFiles'[m.f].state # "none"
  <2>1. m.f \in FileId
    BY <1>cancels, <1>types DEF Request
  <2> QED
    BY <1>cancels, <1>types, <2>1, ServerKeeps DEF OwnerInv
<1>started. ASSUME NEW r \in replies, r.to.op = "start", r.status = "ok"
      PROVE  /\ r.f \in FileId /\ largeFiles'[r.f].startedBy = r.to.u
             /\ largeFiles'[r.f].state # "none"
  BY <1>started, <1>types, ServerKeeps DEF StartReplyInv
<1>1. ASSUME NEW u \in Client, CallStep(u), ~\E p \in Part : TaskStep(u, p) PROVE OwnerInv'
  <2>1. CASE ListCandidate(u) \/ NoCandidate(u) \/ AdoptCandidate(u) \/ DiscoveryFails(u)
    BY <2>1, <1>types, <1>created, <1>cancels
    DEF PhaseInv, OwnerInv, ListCandidate, NoCandidate, AdoptCandidate, DiscoveryFails,
        SendStart, Send, StartRequest
  <2>2. CASE StartReplied(u)
    BY <2>2, <1>types, <1>created, <1>cancels, <1>started
    DEF OwnerInv, StartReplied, StartRequest
  <2>3. CASE \/ StartFails(u) \/ StartAborted(u) \/ SendFinish(u) \/ FinishReplied(u)
            \/ FinishAmbiguous(u) \/ CancelReplied(u) \/ CancelFails(u)
    BY <2>3, <1>types, <1>created, <1>cancels
    DEF OwnerInv, StartFails, StartAborted, SendFinish, FinishReplied, FinishAmbiguous,
        CancelReplied, CancelFails, Send, FinishRequest
  <2>4. CASE PartsFail(u) \/ FinishRejected(u)
    BY <2>4, <1>types, <1>created, <1>cancels
    DEF OwnerInv, PartsFail, FinishRejected, CleanUp, Send, CancelRequest
  <2> QED
    BY <1>1, <2>1, <2>2, <2>3, <2>4 DEF CallStep
<1>2. ASSUME NEW u \in Client, NEW p \in Part, TaskStep(u, p) PROVE OwnerInv'
  BY <1>2, <1>types, <1>created, <1>cancels
  DEF TaskStep, AcquireSlot, ReusePart, SendPart, PartStored, RetryPart, TaskFails, OwnerInv,
      Send, PartRequest
<1>3. ASSUME NEW u \in Client, StragglerStep(u) PROVE OwnerInv'
  BY <1>3, <1>types, <1>created, <1>cancels, <1>started
  DEF OwnerInv, StragglerStep, StragglerStarted, StragglerFailed, StragglerCancelled,
      StragglerCancelFails, Send, CancelRequest, StartRequest
<1>4. ASSUME NEW u \in Client, EnvironmentStep(u) PROVE OwnerInv'
  BY <1>4, <1>types, <1>created, <1>cancels
  DEF OwnerInv, EnvironmentStep, CallerAborts, Crash, BeginAborted, Begin, SendStart, Send,
      StartRequest
<1>5. CASE NetworkStep
  BY <1>5, <1>types, <1>created, <1>cancels
  DEF NetworkStep, ServerServes, Handle, ServerRefuses, Refuse, OwnerInv
<1>6. CASE UNCHANGED vars
  BY <1>6, <1>types, <1>created, <1>cancels DEF vars, OwnerInv
<1> QED
  BY <1>1, <1>2, <1>3, <1>4, <1>5, <1>6 DEF Next

\* Only a committed finish publishes, and it publishes its sender's upload.
LEMMA PublishedFrame ==
    ASSUME IInv, [Next]_vars,
           \A m \in requests : ServerServes(m) => m.op # "finish"
    PROVE  /\ published' = published
           /\ \A f \in FileId, u \in Client :
                largeFiles'[f].finishedBy = u <=> largeFiles[f].finishedBy = u
<1>types. PublishedInv /\ largeFiles \in [FileId -> LargeFile] /\ requests \subseteq Request
  BY DEF IInv, TypeOK, NetworkTypeOK, LargeFilesTypeOK
<1>1. ASSUME NEW m \in requests, ServerServes(m), NEW f \in FileId, NEW u \in Client
      PROVE largeFiles'[f].finishedBy = u <=> largeFiles[f].finishedBy = u
  <2>1. CASE m.op = "start"
    BY <1>1, <2>1, <1>types, NobodyAssumption
    DEF ServerServes, Handle, Serve, StartLargeFile, PublishedInv
  <2>2. CASE m.op = "part"
    BY <1>1, <2>2, <1>types DEF ServerServes, Handle, Serve, StorePart, LargeFile
  <2>3. CASE m.op = "cancel"
    BY <1>1, <2>3, <1>types DEF ServerServes, Handle, Serve, CancelLargeFile, LargeFile
  <2> QED
    BY <1>1, <1>types, <2>1, <2>2, <2>3 DEF Request
<1>2. ASSUME NEW u \in Client, CallStep(u) PROVE UNCHANGED largeFiles
  BY <1>2, ClientFrame
<1>3. ASSUME NEW u \in Client, StragglerStep(u) \/ EnvironmentStep(u) PROVE UNCHANGED largeFiles
  BY <1>3, ClientFrame
<1>4. ASSUME NEW m \in requests, ServerRefuses(m) PROVE UNCHANGED largeFiles
  BY <1>4 DEF ServerRefuses, Refuse
<1>5. \A f \in FileId, u \in Client :
        largeFiles'[f].finishedBy = u <=> largeFiles[f].finishedBy = u
  BY <1>1, <1>2, <1>3, <1>4 DEF Next, NetworkStep, vars, netVars
<1> QED
  BY <1>5 DEF published

\* What the server does with a finish on its way: it commits the source of its sender,
\* or rejects it and changes nothing.
LEMMA FinishServed ==
    ASSUME IInv, NEW m \in requests, m.op = "finish", ServerServes(m)
    PROVE  /\ m = FinishRequest(m.u) /\ m.u \in Client /\ m.f \in FileId
           /\ \/ /\ published' = [published EXCEPT ![m.u] = TRUE]
                 /\ replies' = replies \cup {[to |-> m, status |-> "ok", f |-> NoFile]}
                 /\ largeFiles'[m.f].state = "finished"
                 /\ largeFiles'[m.f].parts = Content[m.u]
                 /\ \A f \in FileId : largeFiles'[f].finishedBy = m.u => f = m.f
                 /\ \A f \in FileId : f # m.f => largeFiles'[f] = largeFiles[f]
                 /\ largeFiles'[m.f].finishedBy = m.u
              \/ /\ UNCHANGED largeFiles
                 /\ published' = published
                 /\ replies' = replies \cup {[to |-> m, status |-> "rejected", f |-> NoFile]}
<1>types. /\ largeFiles \in [FileId -> LargeFile] /\ requests \subseteq Request
          /\ replies \subseteq Reply
          /\ partSha1s \in [Client -> [Part -> Digest \cup {NoDigest}]]
          /\ FinishRequestInv /\ DigestInv /\ PublishedInv
  BY DEF IInv, TypeOK, NetworkTypeOK, LargeFilesTypeOK
<1>1. m.u \in Client /\ m.f \in FileId
  BY <1>types DEF Request
<1>2. /\ m = FinishRequest(m.u) /\ AllDone(m.u) /\ ~published[m.u]
  BY <1>types DEF FinishRequestInv
<1>3. m.digests = partSha1s[m.u]
  BY <1>2 DEF FinishRequest
<1>4. m.digests = Content[m.u]
  BY <1>1, <1>2, <1>3, <1>types, ContentAssumption DEF AllDone, DigestInv
<1>5. CASE FinishLargeFile(m.f, m.digests, m.u) /\ Answer(m, "ok", NoFile)
  <2>1. largeFiles[m.f].parts = Content[m.u]
    BY <1>5, <1>4, <1>1, <1>types, ContentAssumption
    DEF FinishLargeFile, FinishAccepted, LargeFile
  <2>2. \A f \in FileId : largeFiles[f].finishedBy # m.u
    BY <1>1, <1>2 DEF published
  <2>3. /\ largeFiles'[m.f].state = "finished" /\ largeFiles'[m.f].finishedBy = m.u
        /\ largeFiles'[m.f].parts = Content[m.u]
        /\ \A f \in FileId : f # m.f => largeFiles'[f] = largeFiles[f]
    BY <1>5, <1>1, <1>types, <2>1 DEF FinishLargeFile, LargeFile
  <2>4. largeFiles[m.f].finishedBy \notin Client
    BY <1>5, <1>1, <1>types DEF FinishLargeFile, FinishAccepted, Unfinished, PublishedInv
  <2>5. \A u \in Client : published'[u] = IF u = m.u THEN TRUE ELSE published[u]
    BY <1>1, <2>3, <2>4 DEF published
  <2>6. published' = [published EXCEPT ![m.u] = TRUE]
    BY <1>1, <2>5 DEF published
  <2> QED
    BY <1>5, <1>1, <1>2, <2>2, <2>3, <2>6 DEF Answer
<1>6. CASE Answer(m, "rejected", NoFile) /\ UNCHANGED largeFiles
  BY <1>6, <1>1, <1>2 DEF Answer, published
<1> QED
  BY <1>5, <1>6 DEF ServerServes, Handle, Serve

\* Once its finish may be under way, a call changes nothing the finish carries.
LEMMA DispatchedFrame ==
    ASSUME IInv, [Next]_vars, NEW u \in Client, AllDone(u),
           pc[u] \in {"finishing", "cancelling", "settled", "crashed"}
    PROVE  /\ AllDone(u)' /\ FinishRequest(u)' = FinishRequest(u)
           /\ pc'[u] \in {"finishing", "cancelling", "settled", "crashed"}
<1> USE DEF netVars, abortVars, callVars, taskVars, endVars, SetTask, Goto, Settle
<1> DEFINE Frame == /\ task'[u] = task[u] /\ partSha1s'[u] = partSha1s[u]
                    /\ largeFileId'[u] = largeFileId[u]
                    /\ pc'[u] \in {"finishing", "cancelling", "settled", "crashed"}
<1>types. /\ task \in [Client -> [Part -> TaskState]]
          /\ pc \in [Client -> Phase]
          /\ largeFileId \in [Client -> FileId \cup {NoFile}]
          /\ partSha1s \in [Client -> [Part -> Digest \cup {NoDigest}]]
  BY DEF IInv, TypeOK, NetworkTypeOK
<1>1. ASSUME NEW v \in Client, CallStep(v), ~\E p \in Part : TaskStep(v, p) PROVE Frame
  BY <1>1, <1>types
  DEF CallStep, ListCandidate, NoCandidate, AdoptCandidate, DiscoveryFails, StartReplied,
      StartFails, StartAborted, StartTasks, SendStart, SendFinish, PartsFail, FinishReplied,
      FinishRejected, FinishAmbiguous, CancelReplied, CancelFails, CleanUp
<1>2. ASSUME NEW v \in Client, NEW p \in Part, TaskStep(v, p) PROVE Frame
  BY <1>2, <1>types
  DEF TaskStep, AcquireSlot, ReusePart, SendPart, PartStored, RetryPart, TaskFails, Record,
      AllDone
<1>3. ASSUME NEW v \in Client, StragglerStep(v) PROVE Frame
  BY <1>3, <1>types
  DEF StragglerStep, StragglerStarted, StragglerFailed, StragglerCancelled,
      StragglerCancelFails
<1>4. ASSUME NEW v \in Client, EnvironmentStep(v) PROVE Frame
  BY <1>4, <1>types DEF EnvironmentStep, CallerAborts, Crash, BeginAborted, Begin, SendStart
<1>5. ASSUME NetworkStep PROVE Frame
  BY <1>5, <1>types DEF NetworkStep, ServerServes, Handle, ServerRefuses, Refuse
<1>6. ASSUME UNCHANGED vars PROVE Frame
  BY <1>6 DEF vars
<1>7. Frame
  BY <1>1, <1>2, <1>3, <1>4, <1>5, <1>6 DEF Next
<1> QED
  BY <1>7 DEF AllDone, FinishRequest

\* A call gives up a finish only when the server has answered that it refused it.
LEMMA UndecidedFrame ==
    ASSUME IInv, [Next]_vars, NEW u \in Client, Undecided(u),
           pc[u] = "finishing" =>
             ~\E r \in replies : r.to = FinishRequest(u) /\ r.status \in {"rejected", "refused"}
    PROVE  /\ Undecided(u)'
           /\ outcome'[u] = "ok" =>
                \/ outcome[u] = "ok"
                \/ pc[u] = "finishing" /\ Answered(FinishRequest(u), "ok")
<1> USE DEF netVars, abortVars, callVars, taskVars, endVars, SetTask, Goto, Settle
<1> DEFINE Goal == /\ Undecided(u)'
                   /\ outcome'[u] = "ok" =>
                        \/ outcome[u] = "ok"
                        \/ pc[u] = "finishing" /\ Answered(FinishRequest(u), "ok")
<1>types. /\ pc \in [Client -> Phase]
          /\ outcome \in [Client -> {"none", "ok", "failed", "ambiguous"}]
          /\ OutcomeInv
  BY DEF IInv, TypeOK, NetworkTypeOK
<1>1. ASSUME NEW v \in Client, CallStep(v), ~\E p \in Part : TaskStep(v, p) PROVE Goal
  BY <1>1, <1>types
  DEF Undecided, Answered, CallStep, ListCandidate, NoCandidate, AdoptCandidate,
      DiscoveryFails, StartReplied, StartFails, StartAborted, StartTasks, SendStart,
      SendFinish, PartsFail, FinishReplied, FinishRejected, FinishAmbiguous, CancelReplied,
      CancelFails, CleanUp
<1>2. ASSUME NEW v \in Client, NEW p \in Part, TaskStep(v, p) PROVE Goal
  BY <1>2, <1>types
  DEF Undecided, TaskStep, AcquireSlot, ReusePart, SendPart, PartStored, RetryPart, TaskFails
<1>3. ASSUME NEW v \in Client, StragglerStep(v) PROVE Goal
  BY <1>3, <1>types
  DEF Undecided, StragglerStep, StragglerStarted, StragglerFailed, StragglerCancelled,
      StragglerCancelFails
<1>4. ASSUME NEW v \in Client, EnvironmentStep(v) PROVE Goal
  BY <1>4, <1>types
  DEF Undecided, EnvironmentStep, CallerAborts, Crash, BeginAborted, Begin, SendStart
<1>5. CASE NetworkStep
  BY <1>5, <1>types DEF Undecided, NetworkStep, ServerServes, Handle, ServerRefuses, Refuse
<1>6. CASE UNCHANGED vars
  BY <1>6 DEF Undecided, vars
<1> QED
  BY <1>1, <1>2, <1>3, <1>4, <1>5, <1>6 DEF Next

\* What is published stays published.
LEMMA PublishedStays ==
    ASSUME IInv, [Next]_vars, NEW u \in Client, published[u]
    PROVE  published'[u]
<1>1. CASE \E m \in requests : ServerServes(m) /\ m.op = "finish"
  BY <1>1, FinishServed DEF published
<1>2. CASE \A m \in requests : ServerServes(m) => m.op # "finish"
  BY <1>2, PublishedFrame
<1> QED
  BY <1>1, <1>2

\* A call is published by its own finish only, and that finish has had no answer.
LEMMA PublishedByOwn ==
    ASSUME IInv, [Next]_vars, NEW u \in Client, published'[u], ~published[u]
    PROVE  \E m \in requests : /\ m.op = "finish" /\ m.u = u /\ ServerServes(m)
                               /\ m = FinishRequest(u)
                               /\ replies' = replies \cup
                                    {[to |-> m, status |-> "ok", f |-> NoFile]}
<1>1. PICK m \in requests : ServerServes(m) /\ m.op = "finish"
  BY PublishedFrame
<1>2. m.u = u
  BY <1>1, FinishServed DEF published
<1> QED
  BY <1>1, <1>2, FinishServed

\* "ok" is only reported on the answer of a committed finish.
LEMMA OkStep == ASSUME IInv, [Next]_vars PROVE OkInv'
<1> SUFFICES ASSUME NEW u \in Client, outcome'[u] = "ok" PROVE published[u]
  BY PublishedStays DEF OkInv
<1> USE DEF netVars, abortVars, callVars, taskVars, endVars, Goto, Settle
<1>types. /\ OkInv /\ FinishReplyInv /\ replies \subseteq Reply
          /\ outcome \in [Client -> {"none", "ok", "failed", "ambiguous"}]
  BY DEF IInv, TypeOK, NetworkTypeOK
<1>1. CASE outcome[u] = "ok"
  BY <1>1, <1>types DEF OkInv
<1>2. ASSUME outcome[u] # "ok" PROVE FinishReplied(u)
  <2>1. ASSUME NEW v \in Client, CallStep(v), ~\E p \in Part : TaskStep(v, p)
        PROVE FinishReplied(u)
    BY <2>1, <1>2, <1>types
    DEF CallStep, ListCandidate, NoCandidate, AdoptCandidate, DiscoveryFails, StartReplied,
        StartFails, StartAborted, SendFinish, PartsFail, FinishReplied, FinishRejected,
        FinishAmbiguous, CancelReplied, CancelFails, CleanUp
  <2>2. ASSUME NEW v \in Client, NEW p \in Part, TaskStep(v, p) PROVE FinishReplied(u)
    BY <2>2, <1>2
    DEF TaskStep, AcquireSlot, ReusePart, SendPart, PartStored, RetryPart, TaskFails
  <2>3. ASSUME NEW v \in Client, StragglerStep(v) PROVE FinishReplied(u)
    BY <2>3, <1>2
    DEF StragglerStep, StragglerStarted, StragglerFailed, StragglerCancelled,
        StragglerCancelFails
  <2>4. ASSUME NEW v \in Client, EnvironmentStep(v) PROVE FinishReplied(u)
    BY <2>4, <1>2, <1>types DEF EnvironmentStep, CallerAborts, Crash, BeginAborted, Begin
  <2>5. ASSUME NetworkStep PROVE FinishReplied(u)
    BY <2>5, <1>2 DEF NetworkStep, ServerServes, Handle, ServerRefuses, Refuse
  <2>6. ASSUME UNCHANGED vars PROVE FinishReplied(u)
    BY <2>6, <1>2 DEF vars
  <2> QED
    BY <2>1, <2>2, <2>3, <2>4, <2>5, <2>6 DEF Next
<1>3. CASE FinishReplied(u)
  BY <1>3, <1>types DEF FinishReplied, Answered, FinishReplyInv, FinishRequest
<1> QED
  BY <1>1, <1>2, <1>3

\* A file is finished by one upload with the bytes of its source, and that upload has
\* not reported failure and will not.
LEMMA PublishedStep == ASSUME IInv, [Next]_vars PROVE PublishedInv'
<1> SUFFICES ASSUME NEW u \in Client, NEW f \in FileId, largeFiles'[f].finishedBy = u
             PROVE  /\ largeFiles'[f].state = "finished" /\ largeFiles'[f].parts = Content[u]
                    /\ Undecided(u)'
  BY DEF PublishedInv
<1>types. PublishedInv /\ FinishReplyInv /\ FinishRequestInv /\ requests \subseteq Request
  BY DEF IInv, TypeOK, NetworkTypeOK
<1>1. CASE largeFiles[f].finishedBy = u
  <2>1. largeFiles[f].state = "finished" /\ largeFiles[f].parts = Content[u] /\ Undecided(u)
    BY <1>1, <1>types DEF PublishedInv
  <2>2. largeFiles'[f] = largeFiles[f]
    BY <2>1, ServerKeeps
  <2>3. published[u]
    BY <1>1 DEF published
  <2>4. ~\E r \in replies : r.to = FinishRequest(u) /\ r.status \in {"rejected", "refused"}
    BY <2>3, <1>types DEF FinishReplyInv, FinishRequest
  <2> QED
    BY <2>1, <2>2, <2>4, UndecidedFrame
<1>2. CASE largeFiles[f].finishedBy # u
  <2>1. PICK m \in requests : ServerServes(m) /\ m.op = "finish"
    BY <1>2, PublishedFrame
  <2>2. m.u \in Client /\ Undecided(m.u)
    BY <2>1, <1>types DEF FinishRequestInv, Request
  <2>3. /\ largeFiles'[f].state = "finished" /\ largeFiles'[f].parts = Content[u]
        /\ m.u = u
    BY <1>2, <2>1, FinishServed
  <2> QED
    BY <2>1, <2>2, <2>3 DEF ServerServes, Handle, Undecided, endVars
<1> QED
  BY <1>1, <1>2

\* The answer to a finish tells whether it was committed.
LEMMA FinishReplyStep == ASSUME IInv, [Next]_vars PROVE FinishReplyInv'
<1> DEFINE Late == {"finishing", "cancelling", "settled", "crashed"}
<1>types. /\ FinishReplyInv /\ FinishRequestInv
          /\ requests \subseteq Request /\ replies \subseteq Reply
  BY DEF IInv, TypeOK, NetworkTypeOK
<1>1. ASSUME NEW r \in replies, r.to.op = "finish"
      PROVE  /\ r.to = FinishRequest(r.to.u)' /\ AllDone(r.to.u)' /\ pc'[r.to.u] \in Late
             /\ IF r.status = "ok" THEN published'[r.to.u] ELSE ~published'[r.to.u]
  <2>1. /\ r.to.u \in Client /\ r.to = FinishRequest(r.to.u) /\ AllDone(r.to.u)
        /\ pc[r.to.u] \in Late
        /\ IF r.status = "ok" THEN published[r.to.u] ELSE ~published[r.to.u]
    BY <1>1, <1>types DEF FinishReplyInv, Reply, Request
  <2>2. /\ r.to = FinishRequest(r.to.u)' /\ AllDone(r.to.u)' /\ pc'[r.to.u] \in Late
    BY <2>1, DispatchedFrame
  <2>3. published[r.to.u] => published'[r.to.u]
    BY <2>1, PublishedStays
  <2>4. published'[r.to.u] => published[r.to.u]
    <3> SUFFICES ASSUME published'[r.to.u], ~published[r.to.u] PROVE FALSE
      BY <2>1 DEF published
    <3>1. PICK m \in requests : m.op = "finish" /\ m.u = r.to.u
      BY <2>1, PublishedByOwn
    <3> QED
      BY <1>1, <1>types, <3>1 DEF FinishRequestInv
  <2> QED
    BY <2>1, <2>2, <2>3, <2>4
<1>2. ASSUME NEW m \in requests, m.op = "finish", ServerServes(m) \/ ServerRefuses(m)
      PROVE  /\ m = FinishRequest(m.u)' /\ AllDone(m.u)' /\ pc'[m.u] \in Late
  <2>1. m.u \in Client /\ m = FinishRequest(m.u) /\ AllDone(m.u) /\ pc[m.u] \in Late
    BY <1>2, <1>types DEF FinishRequestInv, Undecided, Request
  <2> QED
    BY <2>1, DispatchedFrame
<1>3. ASSUME NEW m \in requests, ServerServes(m) PROVE FinishReplyInv'
  <2>1. CASE m.op = "finish"
    <3>1. PICK s \in {"ok", "rejected"} :
            /\ replies' = replies \cup {[to |-> m, status |-> s, f |-> NoFile]}
            /\ IF s = "ok" THEN published'[m.u] ELSE ~published'[m.u]
      <4>1. m.u \in Client /\ ~published[m.u]
        BY <2>1, <1>types DEF FinishRequestInv, Request
      <4>2. published \in [Client -> BOOLEAN]
        BY DEF published
      <4> QED
        BY <1>3, <2>1, <4>1, <4>2, FinishServed
    <3> QED
      BY <1>1, <1>2, <1>3, <2>1, <3>1 DEF FinishReplyInv
  <2>2. CASE m.op # "finish"
    <3>1. PICK s, g : replies' = replies \cup {[to |-> m, status |-> s, f |-> g]}
      BY <1>3 DEF ServerServes, Handle, Serve, Answer
    <3> QED
      BY <1>1, <2>2, <3>1 DEF FinishReplyInv
  <2> QED
    BY <2>1, <2>2
<1>4. ASSUME NEW m \in requests, ServerRefuses(m) PROVE FinishReplyInv'
  <2>1. PICK s \in {"rejected", "refused"} :
          replies' = replies \cup {[to |-> m, status |-> s, f |-> NoFile]}
    BY <1>4 DEF ServerRefuses, Refuse, Answer
  <2>2. m.op = "finish" => ~published'[m.u]
    BY <1>4, <1>types DEF ServerRefuses, Refuse, published, FinishRequestInv
  <2> QED
    BY <1>1, <1>2, <1>4, <2>1, <2>2 DEF FinishReplyInv
<1>5. ASSUME NEW u \in Client, CallStep(u) PROVE UNCHANGED replies
  BY <1>5, ClientFrame
<1>6. ASSUME NEW u \in Client, StragglerStep(u) \/ EnvironmentStep(u) PROVE UNCHANGED replies
  BY <1>6, ClientFrame
<1>7. CASE UNCHANGED replies
  BY <1>1, <1>7 DEF FinishReplyInv
<1> QED
  BY <1>3, <1>4, <1>5, <1>6, <1>7 DEF Next, NetworkStep, vars, netVars

\* A call sends one finish, when its parts are done, and nothing answers it before it is
\* served.
LEMMA FinishRequestStep == ASSUME IInv, [Next]_vars PROVE FinishRequestInv'
<1> DEFINE Fine(m) == /\ m = FinishRequest(m.u) /\ AllDone(m.u)
                      /\ Undecided(m.u) /\ outcome[m.u] # "ok"
                      /\ ~published[m.u]
                      /\ \A r \in replies : r.to.op = "finish" => r.to.u # m.u
<1>types. /\ FinishReplyInv /\ FinishRequestInv /\ PublishedInv /\ OutcomeInv
          /\ requests \subseteq Request /\ replies \subseteq Reply
          /\ pc \in [Client -> Phase]
  BY DEF IInv, TypeOK, NetworkTypeOK
<1>1. ASSUME NEW m \in requests, m \in requests', m.op = "finish" PROVE Fine(m)'
  <2>1. Fine(m) /\ m.u \in Client
    BY <1>1, <1>types DEF FinishRequestInv, Request
  <2>2. m = FinishRequest(m.u)' /\ AllDone(m.u)'
    BY <2>1, DispatchedFrame DEF Undecided
  <2>3. Undecided(m.u)' /\ outcome'[m.u] # "ok"
    <3>1. ~\E r \in replies : r.to = FinishRequest(m.u)
      BY <2>1 DEF FinishRequest
    <3> QED
      BY <2>1, <3>1, UndecidedFrame DEF Answered
  <2>4. ~published'[m.u]
    <3> SUFFICES ASSUME published'[m.u] PROVE FALSE
      OBVIOUS
    <3>1. PICK n \in requests : n.op = "finish" /\ n = FinishRequest(m.u) /\ ServerServes(n)
      BY <2>1, PublishedByOwn
    <3> QED
      BY <1>1, <2>1, <3>1 DEF ServerServes, Handle
  <2>5. \A r \in replies' : r.to.op = "finish" => r.to.u # m.u
    <3>1. ASSUME NEW n \in requests, n.op = "finish", n.u = m.u PROVE n = m
      BY <2>1, <3>1, <1>types DEF FinishRequestInv
    <3>2. ASSUME NEW n \in requests, ServerServes(n) \/ ServerRefuses(n) PROVE n # m
      BY <1>1, <3>2 DEF ServerServes, Handle, ServerRefuses, Refuse
    <3>3. ASSUME NEW n \in requests, ServerServes(n) \/ ServerRefuses(n),
                 NEW r \in replies', r \notin replies
          PROVE  r.to = n
      BY <3>3 DEF ServerServes, Handle, ServerRefuses, Refuse, Serve, Answer
    <3>4. ASSUME NEW u \in Client, CallStep(u) PROVE UNCHANGED replies
      BY <3>4, ClientFrame
    <3>5. ASSUME NEW u \in Client, StragglerStep(u) \/ EnvironmentStep(u)
          PROVE UNCHANGED replies
      BY <3>5, ClientFrame
    <3>6. CASE UNCHANGED replies
      BY <3>6, <2>1
    <3>7. CASE \E n \in requests : ServerServes(n) \/ ServerRefuses(n)
      <4>1. PICK n \in requests : ServerServes(n) \/ ServerRefuses(n)
        BY <3>7
      <4> QED
        BY <4>1, <2>1, <3>1, <3>2, <3>3
    <3> QED
      BY <3>4, <3>5, <3>6, <3>7 DEF Next, NetworkStep, vars, netVars
  <2> QED
    BY <2>2, <2>3, <2>4, <2>5
<1>2. ASSUME NEW u \in Client, SendFinish(u), NEW m \in requests', m \notin requests
      PROVE  Fine(m)'
  <2>1. m = FinishRequest(u) /\ m.u = u
    BY <1>2 DEF SendFinish, Send, FinishRequest
  <2>2. m = FinishRequest(u)' /\ AllDone(u)'
    BY <1>2, <2>1
    DEF SendFinish, FinishRequest, TasksSettled, AllDone, AnyFailed, taskVars, callVars
  <2>3. pc[u] = "parts" /\ outcome[u] = "none"
    BY <1>2, <1>types DEF SendFinish, OutcomeInv
  <2>4. Undecided(u)' /\ outcome'[u] # "ok"
    BY <1>2, <2>3, <1>types DEF SendFinish, Undecided, Goto, endVars
  <2>5. ~published'[u]
    BY <1>2, <2>3, <1>types DEF SendFinish, PublishedInv, published, Undecided
  <2>6. \A r \in replies' : r.to.op = "finish" => r.to.u # u
    BY <1>2, <2>3, <1>types DEF SendFinish, FinishReplyInv
  <2> QED
    BY <2>1, <2>2, <2>4, <2>5, <2>6
<1>3. ASSUME NEW m \in requests', m \notin requests, m.op = "finish"
      PROVE  \E u \in Client : SendFinish(u)
  <2>1. ASSUME NEW u \in Client, CallStep(u) PROVE SendFinish(u)
    <3>1. ASSUME NEW p \in Part, TaskStep(u, p) PROVE FALSE
      BY <1>3, <3>1
      DEF netVars, TaskStep, AcquireSlot, ReusePart, SendPart, PartStored, RetryPart,
          TaskFails, Send, PartRequest
    <3>2. ASSUME CleanUp(u) PROVE FALSE
      BY <1>3, <3>2 DEF CleanUp, Send, CancelRequest
    <3>3. ASSUME NoCandidate(u) PROVE FALSE
      BY <1>3, <3>3 DEF NoCandidate, SendStart, Send, StartRequest
    <3> QED
      BY <1>3, <2>1, <3>1, <3>2, <3>3
      DEF netVars, CallStep, ListCandidate, AdoptCandidate, DiscoveryFails, StartReplied,
          StartFails, StartAborted, PartsFail, FinishReplied, FinishRejected, FinishAmbiguous,
          CancelReplied, CancelFails
  <2>2. ASSUME NEW u \in Client, StragglerStep(u) \/ EnvironmentStep(u) PROVE FALSE
    BY <1>3, <2>2
    DEF netVars, StragglerStep, StragglerStarted, StragglerFailed, StragglerCancelled,
        StragglerCancelFails, EnvironmentStep, CallerAborts, Crash, BeginAborted, Begin,
        SendStart, Send, StartRequest, CancelRequest
  <2> QED
    BY <1>3, <2>1, <2>2
    DEF Next, NetworkStep, ServerServes, Handle, ServerRefuses, Refuse, vars, netVars
<1> QED
  BY <1>1, <1>2, <1>3 DEF FinishRequestInv

\* A cancel is sent by the catch block of a call, or after the call failed.
LEMMA CancelStep == ASSUME IInv, [Next]_vars PROVE CancelInv'
<1> USE DEF netVars, abortVars, callVars, taskVars, endVars, Goto, Settle, CancelInv
<1>types. /\ CancelInv /\ OutcomeInv /\ requests \subseteq Request
          /\ pc \in [Client -> Phase]
          /\ outcome \in [Client -> {"none", "ok", "failed", "ambiguous"}]
          /\ straggler \in [Client -> {"none", "watching", "cancelling", "closed"}]
  BY DEF IInv, TypeOK, NetworkTypeOK
<1>clients. \A m \in requests : m.u \in Client
  BY <1>types DEF Request
<1>1. ASSUME NEW u \in Client, CallStep(u), ~\E p \in Part : TaskStep(u, p) PROVE CancelInv'
  <2>1. CASE NoCandidate(u) \/ SendFinish(u)
    BY <2>1, <1>types, <1>clients
    DEF OutcomeInv, NoCandidate, SendFinish, SendStart, Send, StartRequest, FinishRequest
  <2>2. CASE PartsFail(u) \/ FinishRejected(u)
    BY <2>2, <1>types, <1>clients
    DEF OutcomeInv, PartsFail, FinishRejected, CleanUp, Send, CancelRequest
  <2>3. CASE StartReplied(u) \/ StartFails(u) \/ StartAborted(u)
    BY <2>3, <1>types, <1>clients
    DEF OutcomeInv, StartReplied, StartTasks, StartFails, StartAborted
  <2>4. CASE ListCandidate(u) \/ AdoptCandidate(u) \/ DiscoveryFails(u)
    BY <2>4, <1>types, <1>clients
    DEF OutcomeInv, ListCandidate, AdoptCandidate, StartTasks, DiscoveryFails
  <2>5. CASE \/ FinishReplied(u) \/ FinishAmbiguous(u) \/ CancelReplied(u) \/ CancelFails(u)
    BY <2>5, <1>types, <1>clients
    DEF OutcomeInv, FinishReplied, FinishAmbiguous, CancelReplied, CancelFails
  <2> QED
    BY <1>1, <2>1, <2>2, <2>3, <2>4, <2>5 DEF CallStep
<1>2. ASSUME NEW u \in Client, NEW p \in Part, TaskStep(u, p) PROVE CancelInv'
  BY <1>2, <1>types
  DEF TaskStep, AcquireSlot, ReusePart, SendPart, PartStored, RetryPart, TaskFails, Send,
      PartRequest
<1>3. ASSUME NEW u \in Client, StragglerStep(u) PROVE CancelInv'
  BY <1>3, <1>types, <1>clients
  DEF OutcomeInv, StragglerStep, StragglerStarted, StragglerFailed, StragglerCancelled,
      StragglerCancelFails, Send, CancelRequest
<1>4. ASSUME NEW u \in Client, EnvironmentStep(u) PROVE CancelInv'
  BY <1>4, <1>types, <1>clients
  DEF OutcomeInv, EnvironmentStep, CallerAborts, Crash, Active, BeginAborted, Begin,
      SendStart, Send, StartRequest
<1>5. CASE NetworkStep
  BY <1>5, <1>types DEF NetworkStep, ServerServes, Handle, ServerRefuses, Refuse
<1>6. CASE UNCHANGED vars
  BY <1>6, <1>types DEF vars
<1> QED
  BY <1>1, <1>2, <1>3, <1>4, <1>5, <1>6 DEF Next

\* When a cancel is sent, no finish of the call is on its way: the parts failed before
\* one was sent, or the server has refused it.
LEMMA RaceStep == ASSUME IInv, [Next]_vars PROVE CancelNeverRacesFinish'
<1> USE DEF netVars, CancelNeverRacesFinish
<1>types. /\ CancelNeverRacesFinish /\ CancelInv /\ FinishRequestInv /\ OutcomeInv
          /\ requests \subseteq Request
  BY DEF IInv, TypeOK, NetworkTypeOK
<1>1. ASSUME NEW u \in Client, SendFinish(u) PROVE CancelNeverRacesFinish'
  <2>1. ASSUME NEW c \in requests, c.op = "cancel" PROVE c.u # u
    BY <1>1, <2>1, <1>types DEF SendFinish, CancelInv
  <2> QED
    BY <1>1, <1>types, <2>1 DEF SendFinish, Send, FinishRequest
\* A cancel is sent while no finish of its call is on its way.
<1>2. ASSUME NEW u \in Client, NEW f, requests' = requests \cup {CancelRequest(u, f)},
             \A m \in requests : m.op = "finish" => m.u # u
      PROVE  CancelNeverRacesFinish'
  BY <1>2, <1>types DEF CancelRequest
<1>3. ASSUME NEW u \in Client, PartsFail(u) \/ FinishRejected(u) PROVE CancelNeverRacesFinish'
  <2>1. ASSUME PartsFail(u), NEW m \in requests, m.op = "finish" PROVE m.u # u
    BY <1>3, <2>1, <1>types DEF PartsFail, FinishRequestInv, Undecided
  <2>2. ASSUME FinishRejected(u), NEW m \in requests, m.op = "finish" PROVE m.u # u
    BY <1>3, <2>2, <1>types DEF FinishRejected, FinishRequestInv, Answered, FinishRequest
  <2>3. requests' = requests \/ requests' = requests \cup {CancelRequest(u, largeFileId[u])}
    BY <1>3 DEF PartsFail, FinishRejected, CleanUp, Send
  <2> QED
    BY <1>2, <1>3, <1>types, <2>1, <2>2, <2>3
<1>4. ASSUME NEW u \in Client, StragglerStarted(u) PROVE CancelNeverRacesFinish'
  <2>1. ASSUME NEW m \in requests, m.op = "finish" PROVE m.u # u
    BY <1>4, <2>1, <1>types
    DEF StragglerStarted, CancelInv, FinishRequestInv, Undecided, OutcomeInv
  <2> QED
    BY <1>2, <1>4, <2>1 DEF StragglerStarted, Send
<1>5. ASSUME NEW u \in Client, NEW p \in Part, TaskStep(u, p) PROVE CancelNeverRacesFinish'
  BY <1>5, <1>types
  DEF TaskStep, AcquireSlot, ReusePart, SendPart, PartStored, RetryPart, TaskFails, Send,
      PartRequest
<1>6. ASSUME NEW u \in Client, NoCandidate(u) \/ EnvironmentStep(u)
      PROVE CancelNeverRacesFinish'
  BY <1>6, <1>types
  DEF NoCandidate, EnvironmentStep, CallerAborts, Crash, BeginAborted, Begin, SendStart, Send,
      StartRequest
<1>7. ASSUME NEW u \in Client, CallStep(u), ~\E p \in Part : TaskStep(u, p),
             ~(SendFinish(u) \/ PartsFail(u) \/ FinishRejected(u) \/ NoCandidate(u))
      PROVE  UNCHANGED requests
  BY <1>7
  DEF CallStep, ListCandidate, AdoptCandidate, DiscoveryFails, StartReplied, StartFails,
      StartAborted, FinishReplied, FinishAmbiguous, CancelReplied, CancelFails
<1>8. ASSUME NEW u \in Client, StragglerStep(u), ~StragglerStarted(u) PROVE UNCHANGED requests
  BY <1>8 DEF StragglerStep, StragglerFailed, StragglerCancelled, StragglerCancelFails
<1>9. CASE NetworkStep
  BY <1>9, <1>types DEF NetworkStep, ServerServes, Handle, ServerRefuses, Refuse
<1>10. CASE UNCHANGED requests
  BY <1>10, <1>types
<1> QED
  BY <1>1, <1>3, <1>4, <1>5, <1>6, <1>7, <1>8, <1>9, <1>10 DEF Next, vars

-----------------------------------------------------------------------------

\* The initial states, with whatever parts earlier processes left, satisfy IInv.
LEMMA InitIInv == ASSUME Init PROVE IInv
<1>1. /\ largeFiles \in [FileId -> LargeFile]
      /\ \A f \in FileId : largeFiles[f].finishedBy = Nobody
  BY DEF Init, LargeFile, FileState, PriorFile, NoFileYet, NoParts
<1>a. mode \in [Client -> UploadMode]
  BY SettingAssumption DEF Init
<1>2. TypeOK
  BY <1>1, <1>a, RetryAssumption
  DEF Init, TypeOK, NetworkTypeOK, LargeFilesTypeOK, Phase, TaskState, NoParts
<1>3. OutcomeInv /\ DigestInv /\ PhaseInv /\ FinishRequestInv /\ FinishReplyInv /\ OkInv
      /\ StartReplyInv /\ OwnerInv /\ CancelInv /\ CancelNeverRacesFinish
  BY
  DEF Init, OutcomeInv, DigestInv, PhaseInv, FinishRequestInv, FinishReplyInv, OkInv,
      StartReplyInv, OwnerInv, CancelInv, CancelNeverRacesFinish
<1>4. PublishedInv
  BY <1>1, NobodyAssumption DEF PublishedInv
<1> QED
  BY <1>2, <1>3, <1>4 DEF IInv

\* The inductive invariant holds in every reachable state.
THEOREM Invariance == Spec => []IInv
<1>1. ASSUME IInv, [Next]_vars PROVE IInv'
  BY <1>1, TypeStep, OutcomeStep, DigestStep, PhaseStep, FinishRequestStep, FinishReplyStep,
     PublishedStep, OkStep, StartReplyStep, OwnerStep, CancelStep, RaceStep
  DEF IInv
<1> QED
  BY InitIInv, <1>1, PTL DEF Spec

\* Every variable keeps its type (the interfaces of upload/large.ts and the simulator).
THEOREM TypeCorrect == Spec => []TypeOK
<1>1. ASSUME IInv PROVE TypeOK
  BY <1>1 DEF IInv
<1> QED
  BY <1>1, Invariance, PTL

\* uploadLargeFile resolves only when its own finish was committed with the bytes of
\* its own source, whoever else uploaded parts into the same large file.
THEOREM OkStored == Spec => []OkMeansStored
<1>1. ASSUME IInv PROVE OkMeansStored
  BY <1>1 DEF IInv, OkInv, PublishedInv, OkMeansStored, published
<1> QED
  BY <1>1, Invariance, PTL

\* b2_cancel_large_file is only ever sent for a file the same call started
\* (createdLargeFile in the catch block of uploadLargeFile).
THEOREM OwnCancelled == Spec => []OnlyOwnFileCancelled
<1>1. ASSUME IInv PROVE OnlyOwnFileCancelled
  BY <1>1 DEF IInv, OwnerInv, OnlyOwnFileCancelled
<1> QED
  BY <1>1, Invariance, PTL

\* A finish that may still reach the server is never followed by a cancel of the same
\* call (finishLargeFileWithAbortReconciliation).
THEOREM NoCancelRace == Spec => []CancelNeverRacesFinish
<1>1. ASSUME IInv PROVE CancelNeverRacesFinish
  BY <1>1 DEF IInv
<1> QED
  BY <1>1, Invariance, PTL

\* No file is published in an initial state.
LEMMA ContractInit == ASSUME Init PROVE Contract!Init
<1>1. \A f \in FileId : largeFiles[f].finishedBy \notin Client
  BY InitIInv DEF IInv, PublishedInv, Undecided, Init
<1> QED
  BY <1>1 DEF Init, Contract!Init, published

\* What a step of the implementation may do to an outcome.
LEMMA OutcomeFrame ==
    ASSUME IInv, [Next]_vars
    PROVE  \/ outcome' = outcome
           \/ /\ published' = published
              /\ \E u \in Client, o \in {"ok", "failed", "ambiguous"} :
                   /\ outcome[u] = "none" /\ outcome' = [outcome EXCEPT ![u] = o]
<1> USE DEF netVars, abortVars, callVars, taskVars, endVars, Goto, Settle
<1>types. /\ OutcomeInv /\ outcome \in [Client -> {"none", "ok", "failed", "ambiguous"}]
  BY DEF IInv, TypeOK, NetworkTypeOK
<1> DEFINE Reports == \E u \in Client, o \in {"ok", "failed", "ambiguous"} :
                   /\ outcome[u] = "none" /\ outcome' = [outcome EXCEPT ![u] = o]
<1>1. ASSUME NEW u \in Client, CallStep(u) PROVE outcome' = outcome \/ Reports
  <2>1. ASSUME CleanUp(u), pc[u] # "settled" PROVE outcome' = outcome \/ Reports
    BY <1>types, <2>1 DEF CleanUp, OutcomeInv
  <2>2. ASSUME NEW p \in Part, TaskStep(u, p) PROVE outcome' = outcome
    BY <2>2 DEF TaskStep, AcquireSlot, ReusePart, SendPart, PartStored, RetryPart, TaskFails
  <2> QED
    BY <1>1, <1>types, <2>1, <2>2
    DEF OutcomeInv, CallStep, ListCandidate, NoCandidate, AdoptCandidate, DiscoveryFails,
        StartReplied, StartFails, StartAborted, SendFinish, PartsFail, FinishReplied,
        FinishRejected, FinishAmbiguous, CancelReplied, CancelFails
<1>2. ASSUME NEW u \in Client, EnvironmentStep(u) PROVE outcome' = outcome \/ Reports
  BY <1>2, <1>types DEF OutcomeInv, EnvironmentStep, CallerAborts, Crash, BeginAborted, Begin
<1>3. ASSUME NEW u \in Client, StragglerStep(u) PROVE outcome' = outcome
  BY <1>3
  DEF StragglerStep, StragglerStarted, StragglerFailed, StragglerCancelled,
      StragglerCancelFails
<1>4. ASSUME NetworkStep PROVE outcome' = outcome
  BY <1>4 DEF NetworkStep, ServerServes, Handle, ServerRefuses, Refuse
<1>5. ASSUME NEW u \in Client, CallStep(u) \/ StragglerStep(u) \/ EnvironmentStep(u)
      PROVE  published' = published
  <2>1. ASSUME CallStep(u) PROVE UNCHANGED largeFiles
    BY <2>1, ClientFrame
  <2>2. ASSUME StragglerStep(u) \/ EnvironmentStep(u) PROVE UNCHANGED largeFiles
    BY <2>2, ClientFrame
  <2> QED
    BY <1>5, <2>1, <2>2 DEF published
<1> QED
  BY <1>1, <1>2, <1>3, <1>4, <1>5 DEF Next, vars

\* Every step publishes one upload, reports one outcome, or changes neither.
LEMMA ContractStep == ASSUME IInv, IInv', [Next]_vars PROVE [Contract!Next]_Contract!vars
<1>types. /\ OutcomeInv /\ FinishRequestInv /\ PublishedInv
          /\ OkInv' /\ PublishedInv' /\ OutcomeInv'
          /\ requests \subseteq Request
          /\ outcome \in [Client -> {"none", "ok", "failed", "ambiguous"}]
  BY DEF IInv, TypeOK, NetworkTypeOK
<1>1. CASE outcome' = outcome
  <2>1. CASE \A m \in requests : ServerServes(m) => m.op # "finish"
    BY <1>1, <2>1, PublishedFrame DEF Contract!vars
  <2>2. CASE \E m \in requests : ServerServes(m) /\ m.op = "finish"
    <3>1. PICK m \in requests : ServerServes(m) /\ m.op = "finish"
      BY <2>2
    <3>2. /\ m.u \in Client /\ ~published[m.u]
          /\ outcome[m.u] \in {"none", "ambiguous"}
      BY <1>types, <3>1 DEF FinishRequestInv, Undecided, OutcomeInv, Request
    <3>3. published' = published \/ published' = [published EXCEPT ![m.u] = TRUE]
      BY <3>1, FinishServed
    <3> QED
      BY <1>1, <3>2, <3>3 DEF Contract!vars, Contract!Next, Contract!Publish
  <2> QED
    BY <2>1, <2>2
<1>2. ASSUME published' = published, NEW u \in Client, NEW o \in {"ok", "failed", "ambiguous"},
             outcome[u] = "none", outcome' = [outcome EXCEPT ![u] = o]
      PROVE  Contract!Report(u, o)
  <2>1. outcome'[u] = o
    BY <1>2, <1>types
  <2>2. o = "ok" => published[u]
    BY <1>2, <2>1, <1>types DEF OkInv
  <2>3. o = "failed" => ~published[u]
    <3> SUFFICES ASSUME o = "failed", published'[u] PROVE FALSE
      BY <1>2
    <3>1. Undecided(u)'
      BY <1>types DEF PublishedInv, published
    <3> QED
      BY <2>1, <3>1, <1>types DEF Undecided, OutcomeInv
  <2> QED
    BY <1>2, <2>2, <2>3 DEF Contract!Report
<1> QED
  BY <1>1, <1>2, OutcomeFrame DEF Contract!Next

\* Whatever the network does, the caller is told the truth about the file: the upload
\* implements LargeFileContract.
THEOREM ContractRefinement == Spec => ContractSpec
<1>1. IInv /\ IInv' /\ [Next]_vars => [Contract!Next]_Contract!vars
  BY ContractStep
<1> QED
  BY ContractInit, <1>1, Invariance, PTL DEF Spec, ContractSpec, Contract!Spec
-----------------------------------------------------------------------------
(* EndInv: what a call leaves behind.                                      *)

\* The phases in which a call has not asked for a file of its own.
Early == {"idle", "listing", "listingParts"}

\* A call that has left its early phases never returns to them.
LEMMA LateStays ==
    ASSUME IInv, [Next]_vars, NEW v \in Client, pc[v] \notin Early
    PROVE  pc'[v] \notin Early
<1> USE DEF abortVars, callVars, taskVars, endVars, Goto, Settle, Early
<1>types. pc \in [Client -> Phase]
  BY DEF IInv, TypeOK
<1>1. ASSUME NEW u \in Client, CallStep(u), ~\E p \in Part : TaskStep(u, p)
      PROVE  pc'[v] \notin Early
  BY <1>1, <1>types
  DEF CallStep, ListCandidate, NoCandidate, AdoptCandidate, DiscoveryFails, StartReplied,
      StartFails, StartAborted, SendFinish, PartsFail, FinishReplied, FinishRejected,
      FinishAmbiguous, CancelReplied, CancelFails, StartTasks, SendStart, CleanUp, Phase
<1>2. ASSUME NEW u \in Client, NEW p \in Part, TaskStep(u, p) PROVE pc'[v] \notin Early
  BY <1>2
  DEF TaskStep, AcquireSlot, ReusePart, SendPart, PartStored, RetryPart, TaskFails
<1>3. ASSUME NEW u \in Client, StragglerStep(u) PROVE pc'[v] \notin Early
  BY <1>3
  DEF StragglerStep, StragglerStarted, StragglerFailed, StragglerCancelled,
      StragglerCancelFails
<1>4. ASSUME NEW u \in Client, EnvironmentStep(u) PROVE pc'[v] \notin Early
  BY <1>4, <1>types
  DEF EnvironmentStep, CallerAborts, Crash, BeginAborted, Begin, SendStart, Active, Phase
<1>5. CASE NetworkStep
  BY <1>5 DEF NetworkStep, ServerServes, ServerRefuses
<1> QED
  BY <1>1, <1>2, <1>3, <1>4, <1>5 DEF Next, vars

\* b2_start_large_file is sent on the way out of the early phases.
LEMMA StartSent ==
    ASSUME IInv, [Next]_vars, NEW v \in Client,
           StartRequest(v) \in requests', StartRequest(v) \notin requests
    PROVE  pc[v] \in Early /\ pc'[v] \notin Early /\ largeFiles' = largeFiles
<1> USE DEF netVars, Goto, Early
<1>types. pc \in [Client -> Phase]
  BY DEF IInv, TypeOK
<1>1. ASSUME NEW u \in Client, NoCandidate(u) \/ Begin(u)
      PROVE  pc[v] \in Early /\ pc'[v] \notin Early /\ largeFiles' = largeFiles
  BY <1>1, <1>types DEF NoCandidate, Begin, SendStart, Send, StartRequest
<1>2. ASSUME NEW u \in Client, CallStep(u), ~\E p \in Part : TaskStep(u, p), ~NoCandidate(u)
      PROVE  StartRequest(v) \notin requests'
  BY <1>2
  DEF CallStep, ListCandidate, AdoptCandidate, DiscoveryFails, StartReplied,
      StartFails, StartAborted, SendFinish, PartsFail, FinishReplied, FinishRejected,
      FinishAmbiguous, CancelReplied, CancelFails, CleanUp, Send, StartRequest, FinishRequest,
      CancelRequest
<1>3. ASSUME NEW u \in Client, NEW p \in Part, TaskStep(u, p)
      PROVE  StartRequest(v) \notin requests'
  BY <1>3
  DEF TaskStep, AcquireSlot, ReusePart, SendPart, PartStored, RetryPart, TaskFails, Send,
      StartRequest, PartRequest
<1>4. ASSUME NEW u \in Client, StragglerStep(u) PROVE StartRequest(v) \notin requests'
  BY <1>4
  DEF StragglerStep, StragglerStarted, StragglerFailed, StragglerCancelled,
      StragglerCancelFails, Send, StartRequest, CancelRequest
<1>5. ASSUME NEW u \in Client, EnvironmentStep(u), ~Begin(u)
      PROVE  StartRequest(v) \notin requests'
  BY <1>5 DEF EnvironmentStep, CallerAborts, Crash, BeginAborted
<1>6. ASSUME NetworkStep PROVE StartRequest(v) \notin requests'
  BY <1>6 DEF NetworkStep, ServerServes, Handle, ServerRefuses, Refuse
<1> QED
  BY <1>1, <1>2, <1>3, <1>4, <1>5, <1>6 DEF Next, vars

\* A file gets its owner when b2_start_large_file is served, and from no other step.
LEMMA StartServed ==
    ASSUME IInv, [Next]_vars, NEW f \in FileId,
           largeFiles'[f].startedBy # largeFiles[f].startedBy
    PROVE  \E v \in Client :
             /\ StartRequest(v) \in requests /\ requests' = requests \ {StartRequest(v)}
             /\ largeFiles'[f].startedBy = v /\ largeFiles'[f].state = "unfinished"
             /\ \A g \in FileId : g # f => largeFiles'[g] = largeFiles[g]
             /\ pc' = pc /\ straggler' = straggler
<1>types. largeFiles \in [FileId -> LargeFile] /\ requests \subseteq Request
  BY DEF IInv, TypeOK, NetworkTypeOK, LargeFilesTypeOK
<1>1. ASSUME NEW u \in Client, CallStep(u) \/ StragglerStep(u) \/ EnvironmentStep(u)
      PROVE  FALSE
  BY <1>1, ClientFrame
<1>2. ASSUME NEW m \in requests, ServerRefuses(m) PROVE FALSE
  BY <1>2 DEF ServerRefuses, Refuse
<1>3. PICK m \in requests : ServerServes(m)
  BY <1>1, <1>2 DEF Next, NetworkStep, vars, netVars
<1>4. m.op = "start"
  <2>1. CASE m.op = "part"
    BY <2>1, <1>3, <1>types DEF ServerServes, Handle, Serve, StorePart, LargeFile, Request
  <2>2. CASE m.op = "finish"
    BY <2>2, <1>3, <1>types DEF ServerServes, Handle, Serve, FinishLargeFile, LargeFile, Request
  <2>3. CASE m.op = "cancel"
    BY <2>3, <1>3, <1>types DEF ServerServes, Handle, Serve, CancelLargeFile, LargeFile, Request
  <2> QED
    BY <1>types, <2>1, <2>2, <2>3 DEF Request
<1>5. m.u \in Client /\ m = StartRequest(m.u)
  BY <1>4, <1>types DEF Request, StartRequest
<1>6. PICK g \in FileId : StartLargeFile(g, m.u)
  BY <1>3, <1>4 DEF ServerServes, Handle, Serve
<1>7. g = f /\ largeFiles'[f].startedBy = m.u /\ largeFiles'[f].state = "unfinished"
      /\ \A h \in FileId : h # f => largeFiles'[h] = largeFiles[h]
  BY <1>6, <1>types DEF StartLargeFile
<1>8. requests' = requests \ {m} /\ pc' = pc /\ straggler' = straggler
  BY <1>3 DEF ServerServes, Handle, endVars
<1> QED
  BY <1>5, <1>7, <1>8

\* The background cancel of a straggler begins with the answer to its start.
LEMMA StragglerMoves ==
    ASSUME IInv, [Next]_vars, NEW v \in Client,
           straggler'[v] \in {"cancelling", "closed"},
           straggler[v] \notin {"cancelling", "closed"}
    PROVE  \E f \in FileId : largeFiles[f].startedBy = v
<1> USE DEF endVars
<1>types. straggler \in [Client -> {"none", "watching", "cancelling", "closed"}]
          /\ StartReplyInv
  BY DEF IInv, TypeOK
<1>1. ASSUME NEW u \in Client, CallStep(u), ~\E p \in Part : TaskStep(u, p) PROVE FALSE
  BY <1>1, <1>types
  DEF CallStep, ListCandidate, NoCandidate, AdoptCandidate, DiscoveryFails, StartReplied,
      StartFails, StartAborted, SendFinish, PartsFail, FinishReplied, FinishRejected,
      FinishAmbiguous, CancelReplied, CancelFails, CleanUp
<1>2. ASSUME NEW u \in Client, NEW p \in Part, TaskStep(u, p) PROVE FALSE
  BY <1>2
  DEF TaskStep, AcquireSlot, ReusePart, SendPart, PartStored, RetryPart, TaskFails
<1>3. ASSUME NEW u \in Client, StragglerStarted(u)
      PROVE  \E f \in FileId : largeFiles[f].startedBy = v
  BY <1>3, <1>types DEF StragglerStarted, StartReplyInv, StartRequest
<1>4. ASSUME NEW u \in Client,
             StragglerFailed(u) \/ StragglerCancelled(u) \/ StragglerCancelFails(u)
      PROVE  FALSE
  BY <1>4, <1>types DEF StragglerFailed, StragglerCancelled, StragglerCancelFails
<1>5. ASSUME NEW u \in Client, EnvironmentStep(u) PROVE FALSE
  BY <1>5 DEF EnvironmentStep, CallerAborts, Crash, BeginAborted, Begin
<1>6. ASSUME NetworkStep PROVE FALSE
  BY <1>6 DEF NetworkStep, ServerServes, ServerRefuses
<1> QED
  BY <1>1, <1>2, <1>3, <1>4, <1>5, <1>6 DEF Next, StragglerStep, vars

LEMMA StartOnceStep == ASSUME IInv, StartOnceInv, [Next]_vars PROVE StartOnceInv'
<1> USE DEF StartOnceInv, Early
\* The request and the file exclude each other.
<1>1. ASSUME NEW v \in Client, StartRequest(v) \in requests'
      PROVE  pc'[v] \notin Early /\ \A f \in FileId : largeFiles'[f].startedBy # v
  <2>1. CASE StartRequest(v) \notin requests
    <3>1. pc[v] \in Early /\ pc'[v] \notin Early /\ largeFiles' = largeFiles
      BY <1>1, <2>1, StartSent
    <3> QED
      BY <3>1
  <2>2. CASE StartRequest(v) \in requests
    <3>1. pc'[v] \notin Early
      BY <2>2, LateStays
    <3>2. ASSUME NEW f \in FileId, largeFiles'[f].startedBy = v PROVE FALSE
      <4>1. largeFiles'[f].startedBy # largeFiles[f].startedBy
        BY <2>2, <3>2
      <4> QED
        BY <1>1, <3>2, <4>1, StartServed
    <3> QED
      BY <3>1, <3>2
  <2> QED
    BY <2>1, <2>2
\* A second file would need a second request.
<1>2. ASSUME NEW v \in Client, NEW f \in FileId, largeFiles'[f].startedBy = v
      PROVE  /\ pc'[v] \notin Early /\ largeFiles'[f].state # "none"
             /\ \A g \in FileId : largeFiles'[g].startedBy = v => g = f
  <2>1. CASE largeFiles[f].startedBy = v
    <3>1. pc'[v] \notin Early /\ largeFiles'[f].state # "none"
      BY <2>1, LateStays, ServerKeeps
    <3>2. ASSUME NEW g \in FileId, largeFiles'[g].startedBy = v PROVE g = f
      <4>1. CASE largeFiles[g].startedBy = v
        BY <2>1, <4>1
      <4>2. CASE largeFiles[g].startedBy # v
        BY <2>1, <3>2, <4>2, StartServed
      <4> QED
        BY <4>1, <4>2
    <3> QED
      BY <3>1, <3>2
  <2>2. CASE largeFiles[f].startedBy # v
    <3>1. /\ StartRequest(v) \in requests /\ largeFiles'[f].state = "unfinished"
          /\ \A g \in FileId : g # f => largeFiles'[g] = largeFiles[g]
      BY <1>2, <2>2, StartServed
    <3>2. pc'[v] \notin Early
      BY <3>1, LateStays
    <3> QED
      BY <3>1, <3>2
  <2> QED
    BY <2>1, <2>2
<1>3. ASSUME NEW v \in Client, straggler'[v] \in {"cancelling", "closed"}
      PROVE  \E f \in FileId : largeFiles'[f].startedBy = v
  <2>1. PICK f \in FileId : largeFiles[f].startedBy = v
    BY <1>3, StragglerMoves
  <2>2. largeFiles'[f].startedBy = v
    BY <2>1, ServerKeeps
  <2> QED
    BY <2>2
<1> QED
  BY <1>1, <1>2, <1>3

\* A cancelled file stays cancelled: every handler needs an unfinished one.
LEMMA CancelledStays ==
    ASSUME IInv, [Next]_vars, NEW f \in FileId, largeFiles[f].state = "cancelled"
    PROVE  largeFiles'[f] = largeFiles[f]
<1>types. largeFiles \in [FileId -> LargeFile] /\ requests \subseteq Request
  BY DEF IInv, TypeOK, NetworkTypeOK, LargeFilesTypeOK
<1>1. ASSUME NEW m \in requests, ServerServes(m) PROVE largeFiles'[f] = largeFiles[f]
  BY <1>1, <1>types
  DEF ServerServes, Handle, Serve, StartLargeFile, StorePart, FinishLargeFile, FinishAccepted,
      CancelLargeFile, Unfinished, LargeFile
<1>2. ASSUME NEW u \in Client, CallStep(u) \/ StragglerStep(u) \/ EnvironmentStep(u)
      PROVE  UNCHANGED largeFiles
  BY <1>2, ClientFrame
<1>3. ASSUME NEW m \in requests, ServerRefuses(m) PROVE UNCHANGED largeFiles
  BY <1>3 DEF ServerRefuses, Refuse
<1> QED
  BY <1>1, <1>2, <1>3 DEF Next, NetworkStep, vars, netVars

\* b2_cancel_large_file answers ok for the file it cancelled.
LEMMA CancelReplyStep == ASSUME IInv, CancelReplyInv, [Next]_vars PROVE CancelReplyInv'
<1>types. /\ largeFiles \in [FileId -> LargeFile] /\ requests \subseteq Request
          /\ replies \subseteq Reply /\ OwnerInv
  BY DEF IInv, TypeOK, NetworkTypeOK, LargeFilesTypeOK
<1>kept. ASSUME NEW r \in replies, r.to.op = "cancel", r.status = "ok"
      PROVE  largeFiles'[r.to.f].state = "cancelled" /\ largeFiles'[r.to.f].startedBy = r.to.u
  <2>1. r.to.f \in FileId
    BY <1>kept, <1>types DEF Reply, Request
  <2> QED
    BY <1>kept, <2>1, CancelledStays DEF CancelReplyInv
<1>1. ASSUME NEW u \in Client, CallStep(u) \/ StragglerStep(u) \/ EnvironmentStep(u)
      PROVE  UNCHANGED replies
  BY <1>1, ClientFrame
<1>2. ASSUME NEW m \in requests, ServerServes(m) PROVE CancelReplyInv'
  <2>1. CASE m.op = "cancel"
    <3>1. m.f \in FileId /\ largeFiles[m.f].startedBy = m.u
      BY <2>1, <1>types DEF Request, OwnerInv
    <3>2. CASE CancelLargeFile(m.f) /\ Answer(m, "ok", NoFile)
      <4>1. largeFiles'[m.f].state = "cancelled" /\ largeFiles'[m.f].startedBy = m.u
        BY <3>1, <3>2, <1>types DEF CancelLargeFile, LargeFile
      <4> QED
        BY <3>2, <4>1, <1>kept DEF Answer, CancelReplyInv
    <3>3. CASE Answer(m, "rejected", NoFile)
      BY <3>3, <1>kept DEF Answer, CancelReplyInv
    <3> QED
      BY <1>2, <2>1, <3>2, <3>3 DEF ServerServes, Handle, Serve
  <2>2. CASE m.op # "cancel"
    BY <1>2, <2>2, <1>kept DEF CancelReplyInv, Answer, ServerServes, Handle, Serve
  <2> QED
    BY <2>1, <2>2
<1>3. ASSUME NEW m \in requests, ServerRefuses(m) PROVE CancelReplyInv'
  BY <1>3, <1>kept DEF ServerRefuses, Refuse, Answer, CancelReplyInv
<1>4. CASE UNCHANGED replies
  BY <1>4, <1>kept DEF CancelReplyInv
<1> QED
  BY <1>1, <1>2, <1>3, <1>4 DEF Next, NetworkStep, vars, netVars

\* The steps that leave the tasks of the call u alone.
LEMMA TaskFrame ==
    ASSUME [Next]_vars, NEW u \in Client, IInv
    PROVE  /\ mode' = mode
           /\ \/ task'[u] = task[u]
              \/ StartTasks(u) /\ pc[u] \in {"listingParts", "starting"}
              \/ \E p \in Part : TaskStep(u, p) /\ pc'[u] = pc[u]
<1> USE DEF abortVars, callVars, taskVars, endVars
<1>types. task \in [Client -> [Part -> TaskState]]
  BY DEF IInv, TypeOK
<1>1. ASSUME NEW v \in Client, CallStep(v), ~\E p \in Part : TaskStep(v, p)
      PROVE  /\ mode' = mode
             /\ \/ task'[u] = task[u]
                \/ StartTasks(u) /\ pc[u] \in {"listingParts", "starting"}
  <2>1. ASSUME AdoptCandidate(v) \/ StartReplied(v)
        PROVE  mode' = mode /\ StartTasks(v) /\ pc[v] \in {"listingParts", "starting"}
    BY <2>1 DEF AdoptCandidate, StartReplied
  <2>2. StartTasks(v) => (u # v => task'[u] = task[u])
    BY <1>types DEF StartTasks
  <2>3. ASSUME ListCandidate(v) \/ NoCandidate(v) \/ DiscoveryFails(v) \/ StartFails(v)
                 \/ StartAborted(v)
        PROVE  mode' = mode /\ task' = task
    BY <2>3 DEF ListCandidate, NoCandidate, DiscoveryFails, StartFails, StartAborted
  <2>4. ASSUME \/ SendFinish(v) \/ PartsFail(v) \/ FinishReplied(v) \/ FinishRejected(v)
               \/ FinishAmbiguous(v) \/ CancelReplied(v) \/ CancelFails(v)
        PROVE  mode' = mode /\ task' = task
    BY <2>4
    DEF SendFinish, PartsFail, FinishReplied, FinishRejected, FinishAmbiguous, CancelReplied,
        CancelFails, CleanUp
  <2>5. StartTasks(v) /\ u = v => StartTasks(u)
    BY DEF StartTasks
  <2> QED
    BY <1>1, <2>1, <2>2, <2>3, <2>4, <2>5 DEF CallStep
<1>2. ASSUME NEW v \in Client, NEW p \in Part, TaskStep(v, p)
      PROVE  /\ mode' = mode /\ pc' = pc
             /\ u # v => task'[u] = task[u]
  BY <1>2, <1>types
  DEF TaskStep, AcquireSlot, ReusePart, SendPart, PartStored, RetryPart, TaskFails, Record,
      SetTask
<1>3. ASSUME NEW v \in Client, StragglerStep(v) PROVE mode' = mode /\ task' = task
  BY <1>3
  DEF StragglerStep, StragglerStarted, StragglerFailed, StragglerCancelled,
      StragglerCancelFails
<1>4. ASSUME NEW v \in Client, EnvironmentStep(v) PROVE mode' = mode /\ task' = task
  BY <1>4 DEF EnvironmentStep, CallerAborts, Crash, BeginAborted, Begin
<1>5. ASSUME NetworkStep PROVE mode' = mode /\ task' = task
  BY <1>5 DEF NetworkStep, ServerServes, ServerRefuses
<1> QED
  BY <1>1, <1>2, <1>3, <1>4, <1>5 DEF Next, vars

\* What one step of the task p does: it takes a slot, goes on, ends, or stays.
LEMMA OneTaskMoves ==
    ASSUME IInv, NEW u \in Client, NEW p \in Part, TaskStep(u, p)
    PROVE  /\ \A q \in Part : q # p => task'[u][q] = task[u][q]
           /\ \/ task[u][p] = "queued" /\ task'[u][p] = "reading" /\ MayAcquire(u, p)
              \/ task[u][p] \in {"reading", "uploading"}
                 /\ task'[u][p] \in {"uploading", "done", "failed"}
           /\ pc[u] # "crashed"
<1>types. task \in [Client -> [Part -> TaskState]]
  BY DEF IInv, TypeOK
<1> QED
  BY <1>types
  DEF TaskStep, AcquireSlot, ReusePart, SendPart, PartStored, RetryPart, TaskFails, Record,
      SetTask, TaskState, taskVars

\* A call leaves its parts only when they have settled, and settles before it only
\* while no task exists.
LEMMA EndsAfterParts ==
    ASSUME [Next]_vars, NEW u \in Client, IInv,
           pc'[u] \in {"finishing", "cancelling", "settled"},
           pc[u] \notin {"finishing", "cancelling", "settled"}
    PROVE  /\ task'[u] = task[u]
           /\ \/ TasksSettled(u)
              \/ \A p \in Part : task[u][p] = "none"
<1> USE DEF abortVars, callVars, taskVars, endVars, Goto, Settle
<1>types. pc \in [Client -> Phase] /\ PhaseInv
  BY DEF IInv, TypeOK
<1>1. ASSUME NEW v \in Client, CallStep(v), ~\E p \in Part : TaskStep(v, p)
      PROVE  /\ task'[u] = task[u]
             /\ TasksSettled(u) \/ \A p \in Part : task[u][p] = "none"
  <2>1. CASE \/ ListCandidate(v) \/ NoCandidate(v) \/ DiscoveryFails(v) \/ StartFails(v)
             \/ StartAborted(v)
    BY <2>1, <1>types
    DEF PhaseInv, ListCandidate, NoCandidate, DiscoveryFails, StartFails, StartAborted,
        SendStart
  <2>2. CASE AdoptCandidate(v) \/ StartReplied(v)
    BY <2>2, <1>types DEF AdoptCandidate, StartReplied, StartTasks
  <2>3. CASE SendFinish(v) \/ PartsFail(v)
    BY <2>3, <1>types DEF SendFinish, PartsFail, CleanUp
  <2>4. CASE FinishReplied(v) \/ FinishRejected(v) \/ FinishAmbiguous(v) \/ CancelReplied(v)
             \/ CancelFails(v)
    BY <2>4, <1>types
    DEF FinishReplied, FinishRejected, FinishAmbiguous, CancelReplied, CancelFails, CleanUp
  <2> QED
    BY <1>1, <2>1, <2>2, <2>3, <2>4 DEF CallStep
<1>2. ASSUME NEW v \in Client, NEW p \in Part, TaskStep(v, p) PROVE FALSE
  BY <1>2
  DEF TaskStep, AcquireSlot, ReusePart, SendPart, PartStored, RetryPart, TaskFails
<1>3. ASSUME NEW v \in Client, StragglerStep(v) PROVE FALSE
  BY <1>3
  DEF StragglerStep, StragglerStarted, StragglerFailed, StragglerCancelled,
      StragglerCancelFails
<1>4. ASSUME NEW v \in Client, EnvironmentStep(v)
      PROVE  task'[u] = task[u] /\ \A p \in Part : task[u][p] = "none"
  BY <1>4, <1>types
  DEF PhaseInv, EnvironmentStep, CallerAborts, Crash, BeginAborted, Begin, SendStart
<1>5. ASSUME NetworkStep PROVE FALSE
  BY <1>5 DEF NetworkStep, ServerServes, ServerRefuses
<1> QED
  BY <1>1, <1>2, <1>3, <1>4, <1>5 DEF Next, vars

\* Tasks start in order from a forward-only source: none goes on behind a failed one.
LEMMA ForwardStep == ASSUME IInv, ForwardInv, [Next]_vars PROVE ForwardInv'
<1> SUFFICES ASSUME NEW u \in Client, mode[u] = "forward"
             PROVE  /\ \A p, q \in Part : q < p /\ task'[u][p] \notin {"none", "queued"}
                         => task'[u][q] = "done"
                    /\ pc'[u] \in {"finishing", "cancelling", "settled"}
                         /\ (\E p \in Part : task'[u][p] = "queued")
                         => \E p \in Part : task'[u][p] = "failed"
  BY TaskFrame DEF ForwardInv, AnyFailed
<1>order. \A p, q \in Part : q < p /\ task[u][p] \notin {"none", "queued"} => task[u][q] = "done"
  BY DEF ForwardInv
<1>types. task \in [Client -> [Part -> TaskState]]
  BY DEF IInv, TypeOK
<1>1. CASE task'[u] = task[u]
  <2>1. ASSUME pc'[u] \in {"finishing", "cancelling", "settled"},
               NEW p \in Part, task[u][p] = "queued"
        PROVE  \E q \in Part : task[u][q] = "failed"
    <3>1. CASE pc[u] \in {"finishing", "cancelling", "settled"}
      BY <2>1, <3>1 DEF ForwardInv, AnyFailed
    <3>2. CASE pc[u] \notin {"finishing", "cancelling", "settled"}
      BY <2>1, <3>2, EndsAfterParts DEF TasksSettled, AllDone, AnyFailed
    <3> QED
      BY <3>1, <3>2
  <2> QED
    BY <1>1, <1>order, <2>1
<1>2. CASE StartTasks(u)
  BY <1>2, <1>types DEF StartTasks, Goto, IInv, TypeOK
<1>3. ASSUME NEW p \in Part, TaskStep(u, p), pc'[u] = pc[u]
      PROVE  /\ \A b, a \in Part : a < b /\ task'[u][b] \notin {"none", "queued"}
                  => task'[u][a] = "done"
             /\ pc'[u] \in {"finishing", "cancelling", "settled"}
                  /\ (\E q \in Part : task'[u][q] = "queued")
                  => \E q \in Part : task'[u][q] = "failed"
  <2>1. /\ \A q \in Part : q # p => task'[u][q] = task[u][q]
        /\ \/ task[u][p] = "queued" /\ task'[u][p] = "reading" /\ MayAcquire(u, p)
           \/ task[u][p] \in {"reading", "uploading"}
              /\ task'[u][p] \in {"uploading", "done", "failed"}
    BY <1>3, OneTaskMoves
  <2>2. ASSUME NEW b \in Part, NEW a \in Part, a < b, task'[u][b] \notin {"none", "queued"}
        PROVE  task'[u][a] = "done"
    <3>1. task[u][a] = "done"
      <4>1. CASE b = p /\ task[u][p] = "queued"
        BY <2>1, <2>2, <4>1 DEF MayAcquire
      <4>2. CASE ~(b = p /\ task[u][p] = "queued")
        BY <1>order, <2>1, <2>2, <4>2
      <4> QED
        BY <4>1, <4>2
    <3> QED
      BY <2>1, <3>1
  <2>3. ASSUME pc'[u] \in {"finishing", "cancelling", "settled"},
               NEW q \in Part, task'[u][q] = "queued"
        PROVE  \E r \in Part : task'[u][r] = "failed"
    <3>1. PICK r \in Part : task[u][r] = "failed"
      BY <1>3, <2>1, <2>3 DEF ForwardInv, AnyFailed
    <3> QED
      BY <2>1, <3>1
  <2> QED
    BY <2>2, <2>3
<1> QED
  BY <1>1, <1>2, <1>3, TaskFrame

\* Once the call ends its parts nothing can take a slot any more.
LEMMA OutlivesStep ==
    ASSUME IInv, ForwardInv, NothingOutlivesTheCall, [Next]_vars
    PROVE  NothingOutlivesTheCall'
<1> SUFFICES ASSUME NEW u \in Client, pc'[u] \in {"finishing", "cancelling", "settled"},
                    NEW p \in Part
             PROVE  /\ task'[u][p] \notin {"reading", "uploading"}
                    /\ mode[u] # "forward" => task'[u][p] # "queued"
  BY TaskFrame DEF NothingOutlivesTheCall, Holding
<1>order. mode[u] = "forward" => \A b, a \in Part :
             a < b /\ task[u][b] \notin {"none", "queued"} => task[u][a] = "done"
  BY DEF ForwardInv
<1>failed. ASSUME mode[u] = "forward", NEW f \in Part, task[u][f] = "failed"
           PROVE  task[u][p] \notin {"reading", "uploading"}
  <2>1. f < p \/ p < f \/ p = f
    BY PartCountAssumption DEF Part
  <2> QED
    BY <1>failed, <1>order, <2>1
<1>1. CASE task'[u] = task[u] /\ pc[u] \in {"finishing", "cancelling", "settled"}
  BY <1>1 DEF NothingOutlivesTheCall, Holding
<1>2. CASE task'[u] = task[u] /\ pc[u] \notin {"finishing", "cancelling", "settled"}
  <2>1. TasksSettled(u) \/ task[u][p] = "none"
    BY <1>2, EndsAfterParts
  <2>2. CASE mode[u] = "forward"
    BY <1>2, <1>failed, <2>1, <2>2 DEF TasksSettled, AllDone, AnyFailed
  <2>3. CASE mode[u] # "forward"
    BY <1>2, <2>1, <2>3 DEF TasksSettled
  <2> QED
    BY <2>2, <2>3
<1>3. CASE StartTasks(u) /\ pc[u] \in {"listingParts", "starting"}
  BY <1>3 DEF StartTasks, Goto, IInv, TypeOK
<1>4. ASSUME NEW q \in Part, TaskStep(u, q), pc'[u] = pc[u] PROVE FALSE
  <2>1. \/ task[u][q] = "queued" /\ MayAcquire(u, q)
        \/ task[u][q] \in {"reading", "uploading"}
    BY <1>4, OneTaskMoves
  <2>2. /\ task[u][q] \notin {"reading", "uploading"}
        /\ mode[u] # "forward" => task[u][q] # "queued"
    BY <1>4 DEF NothingOutlivesTheCall, Holding
  <2>3. mode[u] = "forward" /\ task[u][q] = "queued" /\ MayAcquire(u, q)
    BY <2>1, <2>2
  <2>4. PICK f \in Part : task[u][f] = "failed"
    BY <1>4, <2>3 DEF ForwardInv, AnyFailed
  <2>5. f < q \/ q < f \/ q = f
    BY PartCountAssumption DEF Part
  <2>6. f < q => task[u][f] = "done"
    BY <2>3 DEF MayAcquire
  <2>7. q < f => task[u][q] = "done"
    BY <1>order, <2>3, <2>4
  <2> QED
    BY <2>3, <2>4, <2>5, <2>6, <2>7
<1> QED
  BY <1>1, <1>2, <1>3, <1>4, TaskFrame

\* What a settled call has, and what it told, it keeps.
LEMMA SettledStays ==
    ASSUME IInv, [Next]_vars, NEW v \in Client
    PROVE  /\ reported[v] \subseteq reported'[v]
           /\ pc[v] = "settled" =>
                /\ createdLargeFile'[v] = createdLargeFile[v]
                /\ largeFileId'[v] = largeFileId[v]
                /\ outcome'[v] = outcome[v]
<1> USE DEF abortVars, callVars, taskVars, endVars, Goto, Settle
<1>types. /\ pc \in [Client -> Phase] /\ largeFileId \in [Client -> FileId \cup {NoFile}]
          /\ createdLargeFile \in [Client -> BOOLEAN]
          /\ outcome \in [Client -> {"none", "ok", "failed", "ambiguous"}]
          /\ reported \in [Client -> SUBSET {"cancel-failed", "finish-ambiguous"}]
  BY DEF IInv, TypeOK
<1>1. ASSUME NEW u \in Client, CallStep(u), ~\E p \in Part : TaskStep(u, p)
      PROVE  /\ reported[v] \subseteq reported'[v]
             /\ pc[v] = "settled" =>
                  /\ createdLargeFile'[v] = createdLargeFile[v]
                  /\ largeFileId'[v] = largeFileId[v]
                  /\ outcome'[v] = outcome[v]
  <2>1. CASE ListCandidate(u) \/ NoCandidate(u) \/ AdoptCandidate(u) \/ DiscoveryFails(u)
    BY <2>1, <1>types
    DEF ListCandidate, NoCandidate, AdoptCandidate, DiscoveryFails, StartTasks, SendStart
  <2>2. CASE StartReplied(u) \/ StartFails(u) \/ StartAborted(u)
    BY <2>2, <1>types DEF StartReplied, StartFails, StartAborted, StartTasks
  <2>3. CASE SendFinish(u) \/ PartsFail(u) \/ FinishReplied(u) \/ FinishRejected(u)
             \/ CancelReplied(u)
    BY <2>3, <1>types
    DEF SendFinish, PartsFail, FinishReplied, FinishRejected, CancelReplied, CleanUp
  <2>4. CASE FinishAmbiguous(u) \/ CancelFails(u)
    BY <2>4, <1>types DEF FinishAmbiguous, CancelFails
  <2> QED
    BY <1>1, <2>1, <2>2, <2>3, <2>4 DEF CallStep
<1>2. ASSUME NEW u \in Client, NEW p \in Part, TaskStep(u, p)
      PROVE  UNCHANGED <<pc, createdLargeFile, largeFileId, outcome, reported>>
  BY <1>2
  DEF TaskStep, AcquireSlot, ReusePart, SendPart, PartStored, RetryPart, TaskFails
<1>3. ASSUME NEW u \in Client, StragglerStep(u)
      PROVE  /\ reported[v] \subseteq reported'[v]
             /\ UNCHANGED <<createdLargeFile, largeFileId, outcome>>
  BY <1>3, <1>types
  DEF StragglerStep, StragglerStarted, StragglerFailed, StragglerCancelled,
      StragglerCancelFails
<1>4. ASSUME NEW u \in Client, EnvironmentStep(u)
      PROVE  /\ UNCHANGED <<createdLargeFile, largeFileId, reported>>
             /\ pc[v] = "settled" => outcome'[v] = outcome[v]
  BY <1>4, <1>types DEF EnvironmentStep, CallerAborts, Crash, BeginAborted, Begin
<1>5. ASSUME NetworkStep PROVE UNCHANGED <<createdLargeFile, largeFileId, outcome, reported>>
  BY <1>5 DEF NetworkStep, ServerServes, ServerRefuses
<1> QED
  BY <1>1, <1>2, <1>3, <1>4, <1>5 DEF Next, vars

\* A call that settles as failed has told of its file, cancelled it, or has none.
LEMMA FailsTold ==
    ASSUME IInv, CancelReplyInv, [Next]_vars, NEW v \in Client,
           pc[v] # "settled", pc'[v] = "settled", outcome'[v] = "failed",
           createdLargeFile'[v]
    PROVE  /\ largeFiles' = largeFiles
           /\ \/ "cancel-failed" \in reported'[v]
              \/ largeFiles[largeFileId'[v]].state = "cancelled"
<1> USE DEF abortVars, callVars, taskVars, endVars, Goto, Settle
<1>types. /\ pc \in [Client -> Phase] /\ PhaseInv /\ largeFileId \in [Client -> FileId \cup {NoFile}]
          /\ outcome \in [Client -> {"none", "ok", "failed", "ambiguous"}]
          /\ reported \in [Client -> SUBSET {"cancel-failed", "finish-ambiguous"}]
  BY DEF IInv, TypeOK
<1>1. ASSUME NEW u \in Client, CallStep(u), ~\E p \in Part : TaskStep(u, p)
      PROVE  \/ "cancel-failed" \in reported'[v]
             \/ largeFiles[largeFileId'[v]].state = "cancelled"
  <2>1. CASE \/ ListCandidate(u) \/ NoCandidate(u) \/ AdoptCandidate(u) \/ DiscoveryFails(u)
             \/ StartReplied(u) \/ StartFails(u) \/ StartAborted(u)
    BY <2>1, <1>types
    DEF PhaseInv, ListCandidate, NoCandidate, AdoptCandidate, DiscoveryFails, StartReplied,
        StartFails, StartAborted, StartTasks, SendStart
  <2>2. CASE SendFinish(u) \/ PartsFail(u) \/ FinishReplied(u) \/ FinishRejected(u)
             \/ FinishAmbiguous(u)
    BY <2>2, <1>types
    DEF SendFinish, PartsFail, FinishReplied, FinishRejected, FinishAmbiguous, CleanUp
  <2>3. CASE CancelFails(u)
    BY <2>3, <1>types DEF CancelFails
  <2>4. CASE CancelReplied(u)
    <3>1. u = v /\ largeFileId' = largeFileId
      BY <2>4, <1>types DEF CancelReplied
    <3>2. PICK r \in replies : r.to = CancelRequest(u, largeFileId[u]) /\ r.status = "ok"
      BY <2>4 DEF CancelReplied, Answered
    <3>3. r.to.op = "cancel" /\ r.to.f = largeFileId[u]
      BY <3>2 DEF CancelRequest
    <3> QED
      BY <3>1, <3>2, <3>3 DEF CancelReplyInv
  <2> QED
    BY <1>1, <2>1, <2>2, <2>3, <2>4 DEF CallStep
<1>2. ASSUME NEW u \in Client, NEW p \in Part, TaskStep(u, p) PROVE FALSE
  BY <1>2
  DEF TaskStep, AcquireSlot, ReusePart, SendPart, PartStored, RetryPart, TaskFails
<1>3. ASSUME NEW u \in Client, StragglerStep(u) PROVE FALSE
  BY <1>3
  DEF StragglerStep, StragglerStarted, StragglerFailed, StragglerCancelled,
      StragglerCancelFails
<1>4. ASSUME NEW u \in Client, EnvironmentStep(u) PROVE FALSE
  BY <1>4, <1>types
  DEF PhaseInv, EnvironmentStep, CallerAborts, Crash, BeginAborted, Begin, SendStart
<1>5. ASSUME NetworkStep PROVE FALSE
  BY <1>5 DEF NetworkStep, ServerServes, ServerRefuses
<1>6. ASSUME UNCHANGED vars PROVE FALSE
  BY <1>6 DEF vars
<1>7. PICK u \in Client : CallStep(u) /\ ~\E p \in Part : TaskStep(u, p)
  BY <1>2, <1>3, <1>4, <1>5, <1>6 DEF Next
<1> QED
  BY <1>1, <1>7, ClientFrame

\* The background cancel closes with an answer for the call's only file, or tells.
LEMMA StragglerCloses ==
    ASSUME IInv, StartOnceInv, CancelReplyInv, [Next]_vars, NEW v \in Client,
           straggler[v] # "closed", straggler'[v] = "closed", NEW f \in FileId,
           largeFiles[f].startedBy = v
    PROVE  /\ UNCHANGED <<largeFiles, replies>>
           /\ "cancel-failed" \in reported'[v] \/ largeFiles[f].state = "cancelled"
<1> USE DEF endVars
<1>types. /\ straggler \in [Client -> {"none", "watching", "cancelling", "closed"}]
          /\ reported \in [Client -> SUBSET {"cancel-failed", "finish-ambiguous"}]
  BY DEF IInv, TypeOK
<1>1. ASSUME NEW u \in Client, CallStep(u), ~\E p \in Part : TaskStep(u, p) PROVE FALSE
  BY <1>1, <1>types
  DEF CallStep, ListCandidate, NoCandidate, AdoptCandidate, DiscoveryFails, StartReplied,
      StartFails, StartAborted, SendFinish, PartsFail, FinishReplied, FinishRejected,
      FinishAmbiguous, CancelReplied, CancelFails, CleanUp
<1>2. ASSUME NEW u \in Client, NEW p \in Part, TaskStep(u, p) PROVE FALSE
  BY <1>2
  DEF TaskStep, AcquireSlot, ReusePart, SendPart, PartStored, RetryPart, TaskFails
<1>3. ASSUME NEW u \in Client, StragglerCancelled(u) PROVE largeFiles[f].state = "cancelled"
  <2>1. u = v
    BY <1>3, <1>types DEF StragglerCancelled
  <2>2. PICK g \in FileId, r \in replies : r.to = CancelRequest(v, g) /\ r.status = "ok"
    BY <1>3, <2>1 DEF StragglerCancelled, Answered
  <2>3. r.to.op = "cancel" /\ r.to.f = g /\ r.to.u = v
    BY <2>2 DEF CancelRequest
  <2>4. largeFiles[g].state = "cancelled" /\ largeFiles[g].startedBy = v
    BY <2>2, <2>3 DEF CancelReplyInv
  <2> QED
    BY <2>4 DEF StartOnceInv
<1>4. ASSUME NEW u \in Client, StragglerCancelFails(u) PROVE "cancel-failed" \in reported'[v]
  BY <1>4, <1>types DEF StragglerCancelFails
<1>5. ASSUME NEW u \in Client, StragglerStarted(u) \/ StragglerFailed(u) PROVE FALSE
  BY <1>5, <1>types DEF StragglerStarted, StragglerFailed
<1>6. ASSUME NEW u \in Client, EnvironmentStep(u) PROVE FALSE
  BY <1>6 DEF EnvironmentStep, CallerAborts, Crash, BeginAborted, Begin
<1>7. ASSUME NetworkStep \/ UNCHANGED vars PROVE FALSE
  BY <1>7 DEF NetworkStep, ServerServes, ServerRefuses, vars
<1>8. PICK u \in Client : StragglerCancelled(u) \/ StragglerCancelFails(u)
  BY <1>1, <1>2, <1>5, <1>6, <1>7 DEF Next, StragglerStep
<1> QED
  BY <1>3, <1>4, <1>8, ClientFrame DEF StragglerStep

\* A new answer to b2_start_large_file needs a request that was on its way.
LEMMA StartAnswered ==
    ASSUME IInv, [Next]_vars, NEW v \in Client, NEW f \in FileId, NEW r \in replies',
           r = [to |-> StartRequest(v), status |-> "ok", f |-> f], r \notin replies
    PROVE  StartRequest(v) \in requests
<1>1. ASSUME NEW u \in Client, CallStep(u) \/ StragglerStep(u) \/ EnvironmentStep(u)
      PROVE  UNCHANGED replies
  BY <1>1, ClientFrame
<1>2. PICK m \in requests : ServerServes(m) \/ ServerRefuses(m)
  BY <1>1 DEF Next, NetworkStep, vars, netVars
<1>3. r.to = m
  BY <1>2 DEF ServerServes, Handle, Serve, Answer, ServerRefuses, Refuse
<1> QED
  BY <1>3

LEMMA OrphanStep ==
    ASSUME IInv, IInv', StartOnceInv, CancelReplyInv, NoSilentOrphan, [Next]_vars
    PROVE  NoSilentOrphan'
<1> SUFFICES ASSUME NEW u \in Client, NEW f \in FileId,
                    pc'[u] = "settled", outcome'[u] = "failed", Unfinished(f)',
                    \/ createdLargeFile'[u] /\ largeFileId'[u] = f
                    \/ /\ straggler'[u] = "closed"
                       /\ [to |-> StartRequest(u), status |-> "ok", f |-> f] \in replies'
             PROVE  "cancel-failed" \in reported'[u]
  BY DEF NoSilentOrphan, StartRequest
<1> DEFINE started == [to |-> StartRequest(u), status |-> "ok", f |-> f]
<1>reply. started.to.op = "start" /\ started.to.u = u /\ started.status = "ok" /\ started.f = f
  BY DEF StartRequest
\* The file existed before this step, and was not ended.
<1>open. ASSUME largeFiles[f].state # "none" PROVE Unfinished(f)
  <2>1. largeFiles[f].state \in FileState /\ largeFiles'[f].state = "unfinished"
    BY DEF IInv, TypeOK, LargeFilesTypeOK, LargeFile, Unfinished
  <2>2. largeFiles[f].state # "finished" /\ largeFiles[f].state # "cancelled"
    BY <2>1, ServerKeeps, CancelledStays
  <2> QED
    BY <1>open, <2>1, <2>2 DEF FileState, Unfinished
<1>1. CASE createdLargeFile'[u] /\ largeFileId'[u] = f
  <2>1. CASE pc[u] = "settled"
    <3>1. createdLargeFile[u] /\ largeFileId[u] = f /\ outcome[u] = "failed"
      BY <1>1, <2>1, SettledStays
    <3>2. largeFiles[f].state # "none"
      BY <3>1 DEF IInv, OwnerInv
    <3> QED
      BY <1>open, <2>1, <3>1, <3>2, SettledStays DEF NoSilentOrphan
  <2>2. CASE pc[u] # "settled"
    <3>1. /\ largeFiles' = largeFiles
          /\ "cancel-failed" \in reported'[u] \/ largeFiles[f].state = "cancelled"
      BY <1>1, <2>2, FailsTold
    <3> QED
      BY <3>1 DEF Unfinished
  <2> QED
    BY <2>1, <2>2
<1>2. CASE straggler'[u] = "closed" /\ started \in replies'
  <2>1. CASE straggler[u] = "closed"
    <3>1. StartRequest(u) \notin requests
      BY <2>1 DEF StartOnceInv
    <3>2. started \in replies
      BY <1>2, <3>1, StartAnswered
    <3>3. largeFiles[f].state # "none"
      BY <1>reply, <3>2 DEF IInv, StartReplyInv
    <3>4. outcome[u] = "failed" /\ pc[u] = "settled"
      BY <2>1 DEF IInv, CancelInv, OutcomeInv
    <3> QED
      BY <1>open, <2>1, <3>2, <3>3, <3>4, SettledStays DEF NoSilentOrphan
  <2>2. CASE straggler[u] # "closed"
    <3>1. CASE largeFiles[f].startedBy = u
      <4>1. /\ largeFiles' = largeFiles
            /\ "cancel-failed" \in reported'[u] \/ largeFiles[f].state = "cancelled"
        BY <1>2, <2>2, <3>1, StragglerCloses
      <4> QED
        BY <4>1 DEF Unfinished
    <3>2. CASE largeFiles[f].startedBy # u
      <4>1. largeFiles'[f].startedBy = u
        BY <1>2, <1>reply DEF IInv, StartReplyInv
      <4>2. straggler' = straggler
        BY <3>2, <4>1, StartServed
      <4> QED
        BY <1>2, <2>2, <4>2
    <3> QED
      BY <3>1, <3>2
  <2> QED
    BY <2>1, <2>2
<1> QED
  BY <1>1, <1>2

LEMMA InitEnd == ASSUME Init PROVE EndInv
<1>1. \A f \in FileId : largeFiles[f].startedBy = Nobody
  <2>1. PICK s \in Setting : \E parts \in [s.prior -> [Part -> Digest \cup {NoDigest}]] :
           largeFiles = [f \in FileId |-> IF f \in s.prior THEN PriorFile(parts[f])
                                                           ELSE NoFileYet]
    BY Zenon DEF Init
  <2>2. PICK parts \in [s.prior -> [Part -> Digest \cup {NoDigest}]] :
           largeFiles = [f \in FileId |-> IF f \in s.prior THEN PriorFile(parts[f])
                                                           ELSE NoFileYet]
    BY <2>1
  <2> QED
    BY <2>2 DEF PriorFile, NoFileYet
<1>2. StartOnceInv
  BY <1>1, NobodyAssumption DEF Init, StartOnceInv
<1>3. CancelReplyInv /\ ForwardInv /\ NothingOutlivesTheCall /\ NoSilentOrphan
  BY DEF Init, CancelReplyInv, ForwardInv, NothingOutlivesTheCall, Holding, NoSilentOrphan
<1> QED
  BY <1>2, <1>3 DEF EndInv

\* What a call leaves behind, as one inductive invariant next to IInv.
THEOREM EndInvariance == Spec => []EndInv
<1>1. ASSUME IInv, IInv', EndInv, [Next]_vars PROVE EndInv'
  BY <1>1, StartOnceStep, CancelReplyStep, ForwardStep, OutlivesStep, OrphanStep DEF EndInv
<1> QED
  BY InitEnd, <1>1, Invariance, PTL DEF Spec

\* When uploadLargeFile finishes, cleans up or settles, no task of it holds a slot,
\* reads the source or uploads a part, in any mode and with any concurrency.
THEOREM TasksEnd == Spec => []NothingOutlivesTheCall
<1>1. ASSUME EndInv PROVE NothingOutlivesTheCall
  BY <1>1 DEF EndInv
<1> QED
  BY <1>1, EndInvariance, PTL

\* A failed call leaves no unfinished file it knows of without telling
\* onCleanupFailure (resolveLargeFileErrorAfterCleanup, cancelLargeFileAfterStart).
THEOREM OrphansTold == Spec => []NoSilentOrphan
<1>1. ASSUME EndInv PROVE NoSilentOrphan
  BY <1>1 DEF EndInv
<1> QED
  BY <1>1, EndInvariance, PTL
=============================================================================
