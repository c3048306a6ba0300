--------------------------- MODULE WriteStreamProofs ---------------------------
(***************************************************************************)
(* IInv is inductive.  CutInv and PartInv follow the bytes from the write   *)
(* to the digests of the parts, FinishInv from the one finish request to    *)
(* the file, so that a done that resolves stands for all of them; OutcomeInv*)
(* says which steps of the sink are past a finish that may still commit, and*)
(* CleanInv who cancels a file that is started late.                        *)
(***************************************************************************)
EXTENDS WriteStream, TLAPS

\* The file the stream knows of is the one it started.
StartInv ==
    /\ largeFileId = NoFile <=> start # "started"
    /\ start = "started" => largeFiles[largeFileId].state # "none"
    /\ start # "started" => background = "none"
    /\ \A r \in replies : r.to.op = "start" /\ r.status = "ok" =>
           r.f \in FileId /\ largeFiles[r.f].state # "none"
    /\ \A r \in replies : r.to.op = "cancel" /\ r.status = "ok" =>
           largeFiles[r.to.f].state \notin {"none", "unfinished"}

\* The parts dispatched are the first ones, none is empty, and a digest is that of a
\* part that is done.
PartInv ==
    \A p \in Part :
        /\ task[p] = "none" <=> p >= nextPartNumber
        /\ task[p] # "none" => size[p] \in 1..PartSize
        /\ partSha1s[p] = IF task[p] = "done" THEN size[p] ELSE NoDigest
        /\ task[p] = "failed" => errored

\* As long as nothing failed the parts are what was written, in whole parts, up to the
\* last one, and what is pending.
CutInv == ~errored =>
    /\ nextPartNumber = 1 => written = pendingBytes
    /\ nextPartNumber > 1 =>
           written = (nextPartNumber - 2) * PartSize + size[nextPartNumber - 1] + pendingBytes
    /\ \A p \in Part : p + 1 < nextPartNumber => size[p] = PartSize
    /\ sink \in {"idle", "writing", "closing", "dispatching"} =>
           /\ \A p \in Part : p < nextPartNumber => size[p] = PartSize
           /\ sink # "writing" => pendingBytes < PartSize
           /\ sink = "dispatching" => pendingBytes > 0
    /\ sink \in {"settling", "finishing"} => pendingBytes = 0
    /\ sink \notin {"aborting", "abortCancelling"}

\* The bytes of part p among all the bytes written.
PartOf(p) ==
    LET rest == written - (p - 1) * PartSize IN
    IF rest <= 0 THEN NoDigest ELSE IF rest < PartSize THEN rest ELSE PartSize
Whole(digests) == \A p \in Part : digests[p] = PartOf(p)

\* The sink methods after a finish may have been sent.
Past == {"finishing", "closeFailed", "closeCancelling", "done"}

\* The finish is sent once, for everything written, and is answered as it was served.
FinishInv ==
    /\ \A m \in requests : m.op = "finish" =>
           /\ sink \in Past /\ Whole(m.digests)
           /\ \A n \in requests : n.op = "finish" => m = n
           /\ \A r \in replies : r.to.op # "finish"
           /\ \A f \in FileId : largeFiles[f].state # "finished"
    /\ \A r \in replies : r.to.op = "finish" =>
           /\ sink \in Past
           /\ r.status = "ok" => largeFiles[r.to.f].state = "finished"
           /\ r.status # "ok" => \A f \in FileId : largeFiles[f].state # "finished"
    /\ \A f \in FileId :
           /\ largeFiles[f].state = "finished" =>
                  sink \in Past /\ Whole(largeFiles[f].parts)
           /\ largeFiles[f].finishedBy = IF largeFiles[f].state = "finished" THEN w ELSE Nobody

\* What the owner was told.
OutcomeInv ==
    /\ outcome[w] # "none" => sink = "done"
    /\ sink \in {"aborting", "abortCancelling", "closeCancelling"} => largeFileId # NoFile
    /\ outcome[w] = "ok" => \E f \in FileId : largeFiles[f].state = "finished"
    /\ sink \in {"closeFailed", "closeCancelling"} \/ outcome[w] = "failed" =>
           /\ errored
           /\ \A m \in requests : m.op # "finish"
           /\ \A f \in FileId : largeFiles[f].state # "finished"

\* What became of the file when done rejected.
CleanInv ==
    /\ background = "closed" /\ Unfinished(largeFileId) => "cancel-failed" \in reported
    /\ outcome[w] = "failed" /\ background = "none" /\ largeFileId # NoFile /\ Unfinished(largeFileId)
       => "cancel-failed" \in reported

IInv == TypeOK /\ StartInv /\ PartInv /\ CutInv /\ FinishInv /\ OutcomeInv /\ CleanInv

-----------------------------------------------------------------------------
(* The server.                                                             *)

LEMMA StreamFacts ==
    /\ w \in Client /\ \A c \in Client : c = w
    /\ Nobody # w /\ NoDigest \notin 1..PartSize /\ Digest = 1..PartSize
    /\ N \in Nat \ {0} /\ PartSize \in Nat \ {0} /\ MaxBytes \in Nat /\ NoFile \notin FileId
BY StreamAssumption, NobodyAssumption, NoDigestAssumption, PartCountAssumption, NoFileAssumption

\* The requests of a well-typed state are requests.
LEMMA RequestTypes ==
    ASSUME TypeOK
    PROVE  /\ StartRequest(w) \in Request
           /\ largeFileId \in FileId => FinishRequest \in Request
           /\ \A f \in FileId : CancelRequest(w, f) \in Request
           /\ \A p \in Part : largeFileId \in FileId /\ size[p] \in 1..PartSize
                                => PartRequest(p) \in Request
<1> USE StreamFacts DEF TypeOK, Request
<1>1. StartRequest(w) \in Request
  BY DEF StartRequest
<1>2. largeFileId \in FileId => FinishRequest \in Request
  BY DEF FinishRequest
<1>3. \A f \in FileId : CancelRequest(w, f) \in Request
  BY DEF CancelRequest
<1>4. \A p \in Part : largeFileId \in FileId /\ size[p] \in 1..PartSize => PartRequest(p) \in Request
  <2>1. 0 \in 0..MaxRetries
    BY RetryAssumption
  <2> QED
    BY <2>1 DEF PartRequest
<1> QED
  BY <1>1, <1>2, <1>3, <1>4

\* What the server changes in a file: a start makes one, a finish or a cancel ends it,
\* and an ended file stays as it is.
FileStep(m, f) ==
    \/ largeFiles'[f] = largeFiles[f]
    \/ /\ m.op = "start" /\ largeFiles[f].state = "none"
       /\ largeFiles'[f].state = "unfinished" /\ largeFiles'[f].finishedBy = Nobody
    \/ /\ m.op = "part" /\ Unfinished(f)
       /\ largeFiles'[f].state = "unfinished"
       /\ largeFiles'[f].finishedBy = largeFiles[f].finishedBy
    \/ /\ m.op = "finish" /\ m.f = f /\ Unfinished(f) /\ m.digests = largeFiles[f].parts
       /\ largeFiles'[f].state = "finished" /\ largeFiles'[f].finishedBy = m.u
       /\ largeFiles'[f].parts = largeFiles[f].parts
    \/ /\ m.op = "cancel" /\ m.f = f /\ Unfinished(f)
       /\ largeFiles'[f].state = "cancelled"
       /\ largeFiles'[f].finishedBy = largeFiles[f].finishedBy

\* What the answer says of the file.
ReplyStep(m, s, g) ==
    /\ m.op = "start" /\ s = "ok" => g \in FileId /\ largeFiles'[g].state = "unfinished"
    /\ m.op = "cancel" /\ s = "ok" => largeFiles'[m.f].state = "cancelled"
    /\ m.op = "finish" /\ s = "ok" => largeFiles'[m.f].state = "finished"
    /\ m.op = "finish" /\ s # "ok" => largeFiles' = largeFiles

LEMMA ServerEffect ==
    ASSUME TypeOK, NEW m \in requests, Handle(m) \/ Refuse(m)
    PROVE  /\ requests' = requests \ {m}
           /\ \A f \in FileId : FileStep(m, f)
           /\ \E s \in Status, g \in FileId \cup {NoFile} :
                  Answer(m, s, g) /\ ReplyStep(m, s, g)
           /\ LargeFilesTypeOK'
<1>1. m \in Request /\ requests \subseteq Request /\ largeFiles \in [FileId -> LargeFile]
  BY DEF TypeOK, NetworkTypeOK, LargeFilesTypeOK
<1>2. requests' = requests \ {m}
  BY DEF Handle, Refuse
<1>3. m.op \in {"start", "part", "finish", "cancel"} /\ m.u \in Client
      /\ (m.op # "start" => m.f \in FileId)
      /\ (m.op = "part" => m.p \in Part /\ m.d \in Digest)
  BY <1>1 DEF Request
<1> DEFINE Goal == /\ \A f \in FileId : FileStep(m, f)
                   /\ \E s \in Status, g \in FileId \cup {NoFile} :
                          Answer(m, s, g) /\ ReplyStep(m, s, g)
                   /\ LargeFilesTypeOK'
<1>4. ASSUME largeFiles' = largeFiles, NEW s \in Status, NEW g \in FileId \cup {NoFile},
             Answer(m, s, g), m.op # "part" => s # "ok"
      PROVE  Goal
  <2>1. ReplyStep(m, s, g) /\ LargeFilesTypeOK'
    BY <1>1, <1>4 DEF ReplyStep, LargeFilesTypeOK
  <2> QED
    BY <1>4, <2>1 DEF FileStep
<1>5. ASSUME Refuse(m) PROVE Goal
  <2>1. PICK s \in {"rejected", "refused"} : Answer(m, s, NoFile)
    BY <1>5 DEF Refuse
  <2> QED
    BY <1>4, <1>5, <2>1 DEF Refuse, Status
<1>6. ASSUME NEW f \in FileId, NEW new \in LargeFile, largeFiles' = [largeFiles EXCEPT ![f] = new]
      PROVE  /\ LargeFilesTypeOK' /\ largeFiles'[f] = new
             /\ \A g \in FileId : g # f => largeFiles'[g] = largeFiles[g]
  BY <1>1, <1>6 DEF LargeFilesTypeOK
<1>7. ASSUME m.op = "start", NEW f \in FileId, StartLargeFile(f, m.u), Answer(m, "ok", f) PROVE Goal
  <2> DEFINE new == [state |-> "unfinished", startedBy |-> m.u, finishedBy |-> Nobody, parts |-> NoParts]
  <2>1. new \in LargeFile /\ new.state = "unfinished" /\ new.finishedBy = Nobody
    BY <1>3 DEF LargeFile, FileState, NoParts
  <2>2. largeFiles' = [largeFiles EXCEPT ![f] = new] /\ largeFiles[f].state = "none"
    BY <1>7 DEF StartLargeFile
  <2> HIDE DEF new
  <2>3. LargeFilesTypeOK' /\ ReplyStep(m, "ok", f) /\ \A g \in FileId : FileStep(m, g)
    BY <1>6, <1>7, <2>1, <2>2 DEF ReplyStep, FileStep
  <2> QED
    BY <1>7, <2>3 DEF Status
<1>8. ASSUME m.op = "part", StorePart(m.f, m.p, m.d), Answer(m, "ok", NoFile) PROVE Goal
  <2> DEFINE new == [largeFiles[m.f] EXCEPT !.parts[m.p] = m.d]
  <2>1. largeFiles[m.f] \in LargeFile
    BY <1>1, <1>3, <1>8
  <2>2. new \in LargeFile /\ new.state = largeFiles[m.f].state /\ new.finishedBy = largeFiles[m.f].finishedBy
    BY <1>3, <1>8, <2>1 DEF LargeFile
  <2>3. largeFiles' = [largeFiles EXCEPT ![m.f] = new] /\ Unfinished(m.f)
    BY <1>8 DEF StorePart
  <2> HIDE DEF new
  <2>4. LargeFilesTypeOK' /\ ReplyStep(m, "ok", NoFile) /\ \A g \in FileId : FileStep(m, g)
    BY <1>3, <1>6, <1>8, <2>2, <2>3 DEF ReplyStep, FileStep, Unfinished
  <2> QED
    BY <1>8, <2>4 DEF Status
<1>9. ASSUME m.op = "finish", FinishLargeFile(m.f, m.digests, m.u), Answer(m, "ok", NoFile) PROVE Goal
  <2> DEFINE new == [largeFiles[m.f] EXCEPT !.state = "finished", !.finishedBy = m.u]
  <2>1. largeFiles[m.f] \in LargeFile
    BY <1>1, <1>3, <1>9
  <2>2. new \in LargeFile /\ new.state = "finished" /\ new.finishedBy = m.u /\ new.parts = largeFiles[m.f].parts
    BY <1>3, <2>1 DEF LargeFile, FileState
  <2>3. /\ largeFiles' = [largeFiles EXCEPT ![m.f] = new] /\ Unfinished(m.f)
        /\ m.digests = largeFiles[m.f].parts
    BY <1>9 DEF FinishLargeFile, FinishAccepted
  <2> HIDE DEF new
  <2>4. LargeFilesTypeOK' /\ ReplyStep(m, "ok", NoFile) /\ \A g \in FileId : FileStep(m, g)
    BY <1>3, <1>6, <1>9, <2>2, <2>3 DEF ReplyStep, FileStep
  <2> QED
    BY <1>9, <2>4 DEF Status
<1>10. ASSUME m.op = "cancel", CancelLargeFile(m.f), Answer(m, "ok", NoFile) PROVE Goal
  <2> DEFINE new == [largeFiles[m.f] EXCEPT !.state = "cancelled"]
  <2>1. largeFiles[m.f] \in LargeFile
    BY <1>1, <1>3, <1>10
  <2>2. new \in LargeFile /\ new.state = "cancelled" /\ new.finishedBy = largeFiles[m.f].finishedBy
    BY <2>1 DEF LargeFile, FileState
  <2>3. largeFiles' = [largeFiles EXCEPT ![m.f] = new] /\ Unfinished(m.f)
    BY <1>10 DEF CancelLargeFile
  <2> HIDE DEF new
  <2>4. LargeFilesTypeOK' /\ ReplyStep(m, "ok", NoFile) /\ \A g \in FileId : FileStep(m, g)
    BY <1>3, <1>6, <1>10, <2>2, <2>3 DEF ReplyStep, FileStep
  <2> QED
    BY <1>10, <2>4 DEF Status
<1>11. ASSUME Handle(m) PROVE Goal
  <2> HIDE DEF Goal
  <2>1. ASSUME NEW s \in {"ok", "rejected"}, Answer(m, s, NoFile), UNCHANGED largeFiles,
               m.op # "part" => s = "rejected"
        PROVE  Goal
    BY <1>4, <2>1 DEF Status
  <2> QED
    BY <1>7, <1>8, <1>9, <1>10, <1>11, <2>1 DEF Handle, Serve
<1> QED
  BY <1>2, <1>5, <1>11

-----------------------------------------------------------------------------
(* The parts.                                                              *)

LEMMA Products ==
    ASSUME NEW a \in Nat, NEW b \in Nat, NEW s \in Nat
    PROVE  /\ a * s \in Nat /\ (a + 1) * s = a * s + s
           /\ a <= b => a * s <= b * s
<1>1. a * s \in Nat /\ (a + 1) * s = a * s + s
  OBVIOUS
<1>2. ASSUME a <= b PROVE a * s <= b * s
  <2>1. PICK d \in Nat : b = a + d
    <3>1. b - a \in Nat /\ b = a + (b - a)
      BY <1>2
    <3> QED
      BY <3>1
  <2>2. b * s = a * s + d * s /\ d * s \in Nat
    BY <2>1
  <2> QED
    BY <1>1, <2>2
<1> QED
  BY <1>1, <1>2

\* The plan has a part for every part that is cut.
LEMMA RoomForPart ==
    ASSUME IInv, ~errored, sink \in {"writing", "dispatching"},
           sink = "writing" => pendingBytes >= PartSize
    PROVE  /\ nextPartNumber \in Part
           /\ sink = "dispatching" => pendingBytes \in 1..PartSize
<1> USE StreamFacts
<1> DEFINE n == nextPartNumber - 1
<1>1. nextPartNumber \in 1..N + 1 /\ n \in Nat /\ written \in 0..MaxBytes /\ pendingBytes \in 0..MaxBytes
  BY DEF IInv, TypeOK
<1>2. /\ \A p \in Part : p < nextPartNumber => size[p] = PartSize
      /\ sink # "writing" => pendingBytes < PartSize
      /\ pendingBytes > 0
  BY <1>1 DEF IInv, CutInv
<1>3. written = n * PartSize + pendingBytes
  <2>1. CASE nextPartNumber = 1
    BY <1>1, <2>1 DEF IInv, CutInv
  <2>2. CASE nextPartNumber > 1
    <3>1. n \in Part /\ size[n] = PartSize /\ nextPartNumber - 2 \in Nat /\ n = (nextPartNumber - 2) + 1
      BY <1>1, <1>2, <2>2 DEF Part
    <3>2. n * PartSize = (nextPartNumber - 2) * PartSize + PartSize
      BY <3>1, Products
    <3>3. written = (nextPartNumber - 2) * PartSize + size[n] + pendingBytes
      BY <2>2 DEF IInv, CutInv
    <3>4. (nextPartNumber - 2) * PartSize \in Nat
      BY <3>1, Products
    <3> QED
      BY <1>1, <3>1, <3>2, <3>3, <3>4
  <2> QED
    BY <1>1, <2>1, <2>2
<1>4. n < N
  <2> SUFFICES ASSUME N <= n PROVE FALSE
    BY <1>1
  <2>1. N * PartSize <= n * PartSize /\ n * PartSize \in Nat /\ N * PartSize \in Nat
    BY <1>1, Products
  <2>2. N * PartSize >= MaxBytes
    BY StreamAssumption
  <2> QED
    BY <1>1, <1>2, <1>3, <2>1, <2>2
<1> QED
  BY <1>1, <1>2, <1>4 DEF Part

\* What is pending has been written.
LEMMA PendingIsWritten == ASSUME IInv, ~errored PROVE pendingBytes <= written
<1> USE StreamFacts DEF IInv, CutInv
<1>1. /\ nextPartNumber \in 1..N + 1 /\ written \in 0..MaxBytes /\ pendingBytes \in 0..MaxBytes
      /\ size \in [Part -> 0..PartSize]
  BY DEF TypeOK
<1>2. CASE nextPartNumber > 1
  <2>1. nextPartNumber - 2 \in Nat /\ nextPartNumber - 1 \in Part
    BY <1>1, <1>2 DEF Part
  <2>2. size[nextPartNumber - 1] \in Nat /\ (nextPartNumber - 2) * PartSize \in Nat
    BY <1>1, <2>1, Products
  <2> QED
    BY <1>1, <1>2, <2>2
<1> QED
  BY <1>1, <1>2

LEMMA TypeStep == IInv /\ [Next]_vars => TypeOK'
<1> SUFFICES ASSUME IInv, [Next]_vars PROVE TypeOK'
  OBVIOUS
<1> USE DEF netVars, bufferVars, partVars, startVars, abortVars, endVars, SettleDone
<1>types. TypeOK /\ requests \subseteq Request /\ replies \subseteq Reply
          /\ (largeFileId # NoFile => largeFileId \in FileId)
  BY DEF IInv, TypeOK, NetworkTypeOK
<1>1. ASSUME UNCHANGED <<netVars, partVars, startVars>>,
             stream' \in {"writable", "abortRequested", "errored", "closed"}, sink' \in SinkState,
             written' \in 0..MaxBytes, pendingBytes' \in 0..MaxBytes,
             errored' \in BOOLEAN, aborted' \in BOOLEAN, callerAborted' \in BOOLEAN,
             outcome' = outcome \/ \E o \in {"ok", "failed", "ambiguous"} : SettleDone(o),
             reported' \subseteq {"cancel-failed", "finish-ambiguous"}
      PROVE  TypeOK'
  BY <1>types, <1>1 DEF TypeOK, LargeFilesTypeOK, NetworkTypeOK
<1>2. 0 \in 0..MaxBytes
  BY StreamFacts
<1>3. ASSUME RejectWrite PROVE TypeOK'
  BY <1>types, <1>1, <1>2, <1>3 DEF RejectWrite, AbortSink, TypeOK, SinkState
<1>4. ASSUME CloseFails PROVE TypeOK'
  BY <1>types, <1>1, <1>4 DEF CloseFails, TypeOK, SinkState
<1>5. ASSUME NEW k \in 1..MaxBytes, Write(k) PROVE TypeOK'
  <2>1. CASE RejectWrite
    BY <1>3, <2>1
  <2>2. CASE ~RejectWrite
    <3>1. written + k \in 0..MaxBytes /\ pendingBytes + k \in 0..MaxBytes
      BY <1>types, <1>5, <2>2, PendingIsWritten, StreamFacts DEF Write, TypeOK
    <3> QED
      BY <1>types, <1>1, <1>5, <2>2, <3>1 DEF Write, TypeOK, SinkState
  <2> QED
    BY <2>1, <2>2
<1>6. ASSUME ~errored, sink \in {"writing", "dispatching"},
             sink = "writing" => pendingBytes >= PartSize,
             NEW k \in 1..PartSize, StartPart(k)
      PROVE  /\ LargeFilesTypeOK' /\ NetworkTypeOK' /\ nextPartNumber' \in 1..N + 1
             /\ size' \in [Part -> 0..PartSize] /\ task' \in [Part -> TaskState]
             /\ partSha1s' \in [Part -> Digest \cup {NoDigest}]
             /\ start' \in {"none", "pending", "started", "failed"}
             /\ largeFileId' \in FileId \cup {NoFile} /\ background' \in {"none", "cancelling", "closed"}
  <2>1. nextPartNumber \in Part
    BY <1>6, RoomForPart
  <2>2. requests' \subseteq Request
    BY <1>types, <1>6, RequestTypes DEF StartPart
  <2>3. nextPartNumber + 1 \in 1..N + 1 /\ k \in 0..PartSize
    BY <2>1, StreamFacts DEF Part
  <2> QED
    BY <1>types, <1>6, <2>1, <2>2, <2>3
       DEF StartPart, TypeOK, LargeFilesTypeOK, NetworkTypeOK, TaskState
<1>7. CASE WritePart
  <2>1. CASE RejectWrite
    BY <1>3, <2>1
  <2>2. CASE ~RejectWrite
    <3>1. StartPart(PartSize) /\ PartSize \in 1..PartSize /\ pendingBytes - PartSize \in 0..MaxBytes
      BY <1>types, <1>7, <2>2, StreamFacts DEF WritePart, Carve, TypeOK
    <3>2. /\ pendingBytes' = pendingBytes - PartSize
          /\ UNCHANGED <<stream, sink, written, abortVars, endVars>>
          /\ ~errored /\ sink = "writing" /\ pendingBytes >= PartSize
      BY <1>7, <2>2 DEF WritePart, Carve
    <3> QED
      BY <1>types, <1>6, <3>1, <3>2 DEF TypeOK
  <2> QED
    BY <2>1, <2>2
<1>8. CASE DispatchLast
  <2>1. CASE CloseFails
    BY <1>4, <2>1
  <2>2. CASE ~CloseFails
    <3>1. /\ StartPart(pendingBytes) /\ pendingBytes' = 0 /\ sink' = "settling"
          /\ UNCHANGED <<stream, written, abortVars, endVars>>
          /\ ~errored /\ sink = "dispatching"
      BY <1>8, <2>2 DEF DispatchLast
    <3>2. pendingBytes \in 1..PartSize
      BY <3>1, RoomForPart
    <3> QED
      BY <1>types, <1>2, <1>6, <3>1, <3>2 DEF TypeOK, SinkState
  <2> QED
    BY <2>1, <2>2
<1>9. CASE WriteResolves
  BY <1>types, <1>1, <1>2, <1>9 DEF WriteResolves, AbortSink, TypeOK, SinkState
<1>10. CASE Close \/ Abort \/ SignalAborts
  BY <1>types, <1>1, <1>2, <1>10 DEF Close, Abort, SignalAborts, AbortSink, TypeOK, SinkState
<1>11. CASE CloseBegins \/ StartAbandoned \/ SettledBadly \/ FinishRejected
  BY <1>types, <1>1, <1>4, <1>11
     DEF CloseBegins, StartAbandoned, SettledBadly, FinishRejected, TypeOK, SinkState
<1>12. CASE FinishReplied \/ FinishAmbiguous \/ CancelEnds
  BY <1>types, <1>1, <1>12 DEF FinishReplied, FinishAmbiguous, CancelEnds, TypeOK, SinkState
<1>13. CASE SendFinish \/ CloseCleansUp \/ AbortCancels
  <2>1. largeFileId \in FileId => CancelRequest(w, largeFileId) \in Request /\ FinishRequest \in Request
    BY <1>types, RequestTypes
  <2>2. sink = "aborting" => largeFileId # NoFile
    BY DEF IInv, OutcomeInv
  <2>3. requests' \subseteq Request
    BY <1>types, <1>13, <2>1, <2>2 DEF SendFinish, CloseCleansUp, AbortCancels, Send
  <2>4. UNCHANGED <<largeFiles, replies, stream, bufferVars, partVars, startVars, abortVars, reported>>
    BY <1>13 DEF SendFinish, CloseCleansUp, AbortCancels
  <2>5. sink' \in SinkState /\ (outcome' = outcome \/ SettleDone("failed"))
    BY <1>13 DEF SendFinish, CloseCleansUp, AbortCancels, SinkState
  <2> QED
    BY <1>types, <2>3, <2>4, <2>5 DEF TypeOK, LargeFilesTypeOK, NetworkTypeOK
<1>14. CASE StartResolved
  <2>1. largeFileId' \in FileId
    BY <1>14 DEF StartResolved, IInv, StartInv, StartRequest
  <2>2. requests' \subseteq Request
    BY <1>types, <1>14, <2>1, RequestTypes DEF StartResolved, Send
  <2> QED
    BY <1>types, <1>14, <2>1, <2>2 DEF StartResolved, TypeOK, LargeFilesTypeOK, NetworkTypeOK
<1>15. CASE StartRejected \/ BackgroundEnds
  BY <1>types, <1>15 DEF StartRejected, BackgroundEnds, TypeOK, LargeFilesTypeOK, NetworkTypeOK
<1>16. ASSUME NEW p \in Part, UploadPart(p) PROVE TypeOK'
  <2>1. largeFileId \in FileId /\ size[p] \in 1..PartSize
    BY <1>types, <1>16 DEF UploadPart, IInv, StartInv, PartInv
  <2>2. requests' \subseteq Request
    BY <1>types, <1>16, <2>1, RequestTypes DEF UploadPart, Send
  <2> QED
    BY <1>types, <1>16, <2>2 DEF UploadPart, TypeOK, LargeFilesTypeOK, NetworkTypeOK, TaskState
<1>17. ASSUME NEW p \in Part, PartStored(p) \/ PartFails(p) PROVE TypeOK'
  <2>1. task[p] # "none" => size[p] \in Digest
    BY StreamFacts DEF IInv, PartInv
  <2> QED
    BY <1>types, <1>17, <2>1
       DEF PartStored, PartFails, TypeOK, LargeFilesTypeOK, NetworkTypeOK, TaskState
<1>18. CASE ServerStep
  <2>1. PICK m \in requests : Handle(m) \/ Refuse(m)
    BY <1>18 DEF ServerStep
  <2>2. LargeFilesTypeOK' /\ requests' \subseteq Request
    BY <1>types, <2>1, ServerEffect
  <2>3. PICK s \in Status, g \in FileId \cup {NoFile} : Answer(m, s, g)
    BY <1>types, <2>1, ServerEffect
  <2>4. replies' \subseteq Reply
    BY <1>types, <2>3 DEF Answer, Reply
  <2> QED
    BY <1>types, <1>18, <2>2, <2>4 DEF ServerStep, TypeOK, NetworkTypeOK
<1>19. CASE UNCHANGED vars
  BY <1>types, <1>19 DEF vars, TypeOK, LargeFilesTypeOK, NetworkTypeOK
<1> QED
  BY <1>5, <1>7, <1>8, <1>9, <1>10, <1>11, <1>12, <1>13, <1>14, <1>15, <1>16, <1>17, <1>18, <1>19
     DEF Next, OwnerStep, SinkStep, UploadStep

-----------------------------------------------------------------------------
(* One lemma for each part of the invariant.                               *)

\* Only the server changes files and answers.
LEMMA StreamFrame ==
    ASSUME OwnerStep \/ SinkStep \/ UploadStep \/ UNCHANGED vars
    PROVE  UNCHANGED <<largeFiles, replies>>
<1> USE DEF netVars, vars
<1>1. ASSUME RejectWrite \/ CloseFails PROVE UNCHANGED <<largeFiles, replies>>
  BY <1>1 DEF RejectWrite, AbortSink, CloseFails
<1>2. ASSUME NEW k, StartPart(k) PROVE UNCHANGED <<largeFiles, replies>>
  BY <1>2 DEF StartPart
<1>3. CASE OwnerStep
  BY <1>1, <1>3 DEF OwnerStep, Write, Close, Abort, SignalAborts, AbortSink
<1>4. CASE SinkStep
  BY <1>1, <1>2, <1>4
     DEF SinkStep, WritePart, WriteResolves, AbortSink, CloseBegins, DispatchLast, StartAbandoned,
         SendFinish, SettledBadly, FinishReplied, FinishRejected, FinishAmbiguous,
         CloseCleansUp, AbortCancels, CancelEnds
<1>5. CASE UploadStep
  BY <1>5 DEF UploadStep, StartResolved, StartRejected, BackgroundEnds, UploadPart, PartStored, PartFails
<1> QED
  BY <1>3, <1>4, <1>5

LEMMA StartStep == IInv /\ [Next]_vars => StartInv'
<1> SUFFICES ASSUME IInv, [Next]_vars PROVE StartInv'
  OBVIOUS
<1> USE DEF IInv, StartInv
<1>1. CASE OwnerStep \/ SinkStep \/ UploadStep \/ UNCHANGED vars
  <2>1. UNCHANGED <<largeFiles, replies>>
    BY <1>1, StreamFrame
  <2>2. CASE UNCHANGED <<start, largeFileId, background>>
    BY <2>1, <2>2
  <2>3. ASSUME NEW k, StartPart(k) PROVE StartInv'
    BY <2>1, <2>3 DEF StartPart
  <2>4. CASE StartResolved
    <3>1. PICK r \in replies : r.to = StartRequest(w) /\ r.status = "ok" /\ largeFileId' = r.f
      BY <2>4 DEF StartResolved
    <3>2. r.f \in FileId /\ largeFiles[r.f].state # "none"
      BY <3>1 DEF StartRequest
    <3> QED
      BY <2>1, <2>4, <3>1, <3>2, StreamFacts DEF StartResolved
  <2>5. CASE StartRejected \/ BackgroundEnds
    BY <2>1, <2>5 DEF StartRejected, BackgroundEnds
  <2>6. ASSUME RejectWrite \/ CloseFails PROVE UNCHANGED <<start, largeFileId, background>>
    BY <2>6 DEF RejectWrite, AbortSink, CloseFails, startVars
  <2>7. CASE OwnerStep
    BY <2>2, <2>6, <2>7 DEF OwnerStep, Write, Close, Abort, AbortSink, SignalAborts, startVars
  <2>8. CASE SinkStep
    BY <2>2, <2>3, <2>6, <2>8
       DEF SinkStep, WritePart, WriteResolves, AbortSink, CloseBegins, DispatchLast, StartAbandoned,
           SendFinish, SettledBadly, FinishReplied, FinishRejected, FinishAmbiguous,
           CloseCleansUp, AbortCancels, CancelEnds, startVars
  <2>9. CASE UploadStep
    BY <2>2, <2>4, <2>5, <2>9 DEF UploadStep, UploadPart, PartStored, PartFails, startVars
  <2>10. CASE UNCHANGED vars
    BY <2>2, <2>10 DEF vars, startVars
  <2> QED
    BY <1>1, <2>7, <2>8, <2>9, <2>10
<1>2. CASE ServerStep
  <2>1. PICK m \in requests : Handle(m) \/ Refuse(m)
    BY <1>2 DEF ServerStep
  <2>2. PICK s \in Status, g \in FileId \cup {NoFile} : Answer(m, s, g) /\ ReplyStep(m, s, g)
    BY <2>1, ServerEffect
  <2>3. \A f \in FileId :
          /\ largeFiles[f].state # "none" => largeFiles'[f].state # "none"
          /\ largeFiles[f].state \notin {"none", "unfinished"} => largeFiles'[f].state = largeFiles[f].state
    BY <2>1, ServerEffect DEF FileStep, Unfinished
  <2>4. UNCHANGED <<start, largeFileId, background>>
    BY <1>2 DEF ServerStep, startVars
  <2>5. start = "started" => largeFileId \in FileId
    BY DEF TypeOK
  <2>6. \A r \in replies : r.to.op = "cancel" => r.to.f \in FileId
    BY DEF TypeOK, NetworkTypeOK, Reply, Request
  <2>7. ASSUME NEW r \in replies', r.status = "ok"
        PROVE  /\ r.to.op = "start" => r.f \in FileId /\ largeFiles'[r.f].state # "none"
               /\ r.to.op = "cancel" => largeFiles'[r.to.f].state \notin {"none", "unfinished"}
    <3>1. CASE r \in replies
      BY <2>3, <2>6, <2>7, <3>1
    <3>2. CASE r = [to |-> m, status |-> s, f |-> g]
      BY <2>2, <2>7, <3>2 DEF ReplyStep
    <3> QED
      BY <2>2, <2>7, <3>1, <3>2 DEF Answer
  <2> QED
    BY <2>3, <2>4, <2>5, <2>7
<1> QED
  BY <1>1, <1>2 DEF Next

LEMMA PartStep == IInv /\ [Next]_vars => PartInv'
<1> SUFFICES ASSUME IInv, [Next]_vars PROVE PartInv'
  OBVIOUS
<1> USE DEF PartInv
<1>types. /\ PartInv /\ nextPartNumber \in 1..N + 1
          /\ size \in [Part -> 0..PartSize] /\ task \in [Part -> TaskState]
          /\ partSha1s \in [Part -> Digest \cup {NoDigest}]
  BY DEF IInv, TypeOK
<1>1. CASE UNCHANGED partVars /\ (errored => errored')
  BY <1>types, <1>1 DEF partVars
<1>2. ASSUME nextPartNumber \in Part, NEW k \in 1..PartSize, StartPart(k), errored' = errored PROVE PartInv'
  <2>1. nextPartNumber \in 1..N /\ N \in Nat
    BY <1>2, StreamFacts DEF Part
  <2> SUFFICES ASSUME NEW p \in Part
               PROVE  /\ task'[p] = "none" <=> p >= nextPartNumber'
                      /\ task'[p] # "none" => size'[p] \in 1..PartSize
                      /\ partSha1s'[p] = IF task'[p] = "done" THEN size'[p] ELSE NoDigest
                      /\ task'[p] = "failed" => errored'
    OBVIOUS
  <2>2. p \in Nat /\ nextPartNumber' = nextPartNumber + 1 /\ partSha1s' = partSha1s
    BY <1>2 DEF Part, StartPart
  <2>3. CASE p = nextPartNumber
    <3>1. task'[p] = "starting" /\ size'[p] = k /\ task[p] = "none"
      BY <1>types, <1>2, <2>1, <2>3 DEF StartPart
    <3> QED
      BY <1>types, <1>2, <2>1, <2>2, <2>3, <3>1
  <2>4. CASE p # nextPartNumber
    <3>1. task'[p] = task[p] /\ size'[p] = size[p]
      BY <1>types, <1>2, <2>4 DEF StartPart
    <3> QED
      BY <1>types, <1>2, <2>1, <2>2, <2>4, <3>1
  <2> QED
    BY <2>3, <2>4
<1>3. ASSUME RejectWrite \/ CloseFails PROVE UNCHANGED partVars /\ (errored => errored')
  BY <1>3 DEF RejectWrite, AbortSink, CloseFails, abortVars
<1>4. CASE OwnerStep
  BY <1>1, <1>3, <1>4 DEF OwnerStep, Write, Close, Abort, AbortSink, SignalAborts, abortVars
<1>5. CASE WritePart
  <2>1. CASE ~RejectWrite
    <3>1. StartPart(PartSize) /\ nextPartNumber \in Part /\ errored' = errored
      BY <1>5, <2>1, RoomForPart DEF WritePart, Carve, abortVars
    <3> QED
      BY <1>2, <3>1, StreamFacts
  <2> QED
    BY <1>1, <1>3, <2>1
<1>6. CASE DispatchLast
  <2>1. CASE ~CloseFails
    <3>1. /\ StartPart(pendingBytes) /\ nextPartNumber \in Part /\ errored' = errored
          /\ pendingBytes \in 1..PartSize
      BY <1>6, <2>1, RoomForPart DEF DispatchLast, abortVars
    <3> QED
      BY <1>2, <3>1
  <2> QED
    BY <1>1, <1>3, <2>1
<1>7. CASE \/ WriteResolves \/ CloseBegins \/ StartAbandoned \/ SendFinish \/ SettledBadly
           \/ FinishReplied \/ FinishRejected \/ FinishAmbiguous \/ CloseCleansUp \/ AbortCancels \/ CancelEnds
  BY <1>1, <1>3, <1>7
     DEF WriteResolves, AbortSink, CloseBegins, StartAbandoned, SendFinish, SettledBadly,
         FinishReplied, FinishRejected, FinishAmbiguous, CloseCleansUp, AbortCancels, CancelEnds, abortVars
<1>8. CASE StartResolved \/ StartRejected \/ BackgroundEnds
  BY <1>1, <1>8 DEF StartResolved, StartRejected, BackgroundEnds, abortVars
<1>9. ASSUME NEW q \in Part, UploadPart(q) \/ PartStored(q) \/ PartFails(q) PROVE PartInv'
  <2> SUFFICES ASSUME NEW p \in Part
               PROVE  /\ task'[p] = "none" <=> p >= nextPartNumber'
                      /\ task'[p] # "none" => size'[p] \in 1..PartSize
                      /\ partSha1s'[p] = IF task'[p] = "done" THEN size'[p] ELSE NoDigest
                      /\ task'[p] = "failed" => errored'
    OBVIOUS
  <2>1. CASE p = q
    BY <1>types, <1>9, <2>1 DEF UploadPart, PartStored, PartFails, abortVars
  <2>2. CASE p # q
    BY <1>types, <1>9, <2>2 DEF UploadPart, PartStored, PartFails, abortVars
  <2> QED
    BY <2>1, <2>2
<1>10. CASE ServerStep \/ UNCHANGED vars
  BY <1>1, <1>10 DEF ServerStep, vars, abortVars
<1> QED
  BY <1>4, <1>5, <1>6, <1>7, <1>8, <1>9, <1>10 DEF Next, SinkStep, UploadStep

\* A part more, cut off what is pending.
LEMMA CutPart ==
    ASSUME IInv, ~errored, sink \in {"writing", "dispatching"},
           sink = "writing" => pendingBytes >= PartSize,
           NEW k \in 1..PartSize, k <= pendingBytes, StartPart(k),
           written' = written, pendingBytes' = pendingBytes - k
    PROVE  /\ nextPartNumber' > 1
           /\ written' = (nextPartNumber' - 2) * PartSize + size'[nextPartNumber' - 1] + pendingBytes'
           /\ \A p \in Part : p < nextPartNumber => size'[p] = PartSize
           /\ size'[nextPartNumber] = k /\ nextPartNumber' = nextPartNumber + 1
<1> USE StreamFacts
<1> DEFINE n == nextPartNumber
<1>1. /\ n \in Part /\ n \in 1..N /\ written \in 0..MaxBytes /\ pendingBytes \in 0..MaxBytes
      /\ size \in [Part -> 0..PartSize]
  BY RoomForPart DEF IInv, TypeOK, Part
<1>2. /\ n' = n + 1 /\ size'[n] = k /\ \A p \in Part : p # n => size'[p] = size[p]
  BY <1>1 DEF StartPart
<1>3. \A p \in Part : p < n => size[p] = PartSize
  BY DEF IInv, CutInv
<1>4. written = (n - 1) * PartSize + pendingBytes
  <2>1. CASE n = 1
    BY <1>1, <2>1 DEF IInv, CutInv
  <2>2. CASE n > 1
    <3>1. n - 1 \in Part /\ n - 2 \in Nat /\ n - 1 = (n - 2) + 1
      BY <1>1, <2>2 DEF Part
    <3>2. (n - 1) * PartSize = (n - 2) * PartSize + PartSize /\ (n - 2) * PartSize \in Nat
      BY <3>1, Products
    <3>3. written = (n - 2) * PartSize + size[n - 1] + pendingBytes /\ size[n - 1] = PartSize
      BY <1>1, <1>3, <2>2, <3>1 DEF IInv, CutInv
    <3> QED
      BY <1>1, <3>2, <3>3
  <2> QED
    BY <1>1, <2>1, <2>2
<1>5. (n - 1) * PartSize \in Nat
  BY <1>1, Products
<1>6. n' - 2 = n - 1 /\ n' - 1 = n /\ n' > 1
  BY <1>1, <1>2
<1>7. written' = (n' - 2) * PartSize + size'[n' - 1] + pendingBytes'
  <2>1. (n' - 2) * PartSize = (n - 1) * PartSize /\ size'[n' - 1] = k
    BY <1>2, <1>6
  <2> HIDE DEF n
  <2> QED
    BY <1>1, <1>4, <1>5, <2>1
<1>8. \A p \in Part : p < n => size'[p] = PartSize
  BY <1>1, <1>2, <1>3 DEF Part
<1> QED
  BY <1>2, <1>6, <1>7, <1>8

LEMMA CutStep == IInv /\ [Next]_vars => CutInv'
<1> SUFFICES ASSUME IInv, [Next]_vars PROVE CutInv'
  OBVIOUS
<1> USE DEF netVars, bufferVars, partVars, startVars, abortVars, endVars
<1>types. /\ CutInv /\ nextPartNumber \in 1..N + 1 /\ PartSize \in Nat \ {0}
          /\ written \in 0..MaxBytes /\ pendingBytes \in 0..MaxBytes
          /\ size \in [Part -> 0..PartSize] /\ N \in Nat /\ MaxBytes \in Nat
          /\ (sink \in {"closeFailed", "closeCancelling"} => errored)
  BY StreamFacts DEF IInv, TypeOK, OutcomeInv
<1>1. ASSUME errored' PROVE CutInv'
  BY <1>1 DEF CutInv
<1>2. ASSUME UNCHANGED <<nextPartNumber, size, written, pendingBytes, errored>>,
             \/ sink' = sink \/ sink' = "done"
             \/ sink' = "idle" /\ sink = "writing" /\ pendingBytes < PartSize
             \/ sink' = "closing" /\ sink = "idle"
             \/ sink' = "dispatching" /\ sink = "closing" /\ pendingBytes > 0
             \/ sink' = "settling" /\ sink = "closing" /\ pendingBytes = 0
             \/ sink' = "finishing" /\ sink = "settling"
      PROVE  CutInv'
  BY <1>types, <1>2 DEF CutInv
<1>3. ASSUME RejectWrite \/ AbortSink \/ CloseFails PROVE CutInv'
  BY <1>1, <1>2, <1>3 DEF RejectWrite, AbortSink, CloseFails
<1>4. ASSUME NEW k \in 1..MaxBytes, Write(k) PROVE CutInv'
  <2>1. CASE RejectWrite
    BY <1>3, <2>1
  <2>2. CASE ~RejectWrite
    <3>1. /\ written' = written + k /\ pendingBytes' = pendingBytes + k /\ sink' = "writing"
          /\ sink = "idle" /\ UNCHANGED <<nextPartNumber, size, errored>> /\ ~errored
      BY <1>4, <2>2 DEF Write
    <3>2. nextPartNumber > 1 =>
            (nextPartNumber - 2) * PartSize \in Nat /\ size[nextPartNumber - 1] \in Nat
      <4>1. nextPartNumber > 1 => nextPartNumber - 2 \in Nat /\ nextPartNumber - 1 \in Part
        BY <1>types DEF Part
      <4> QED
        BY <1>types, <4>1, Products
    <3>3. nextPartNumber > 1 => written' =
             (nextPartNumber - 2) * PartSize + size[nextPartNumber - 1] + pendingBytes'
      BY <1>types, <3>1, <3>2 DEF CutInv
    <3>4. nextPartNumber = 1 => written' = pendingBytes'
      BY <1>types, <3>1 DEF CutInv
    <3> QED
      BY <1>types, <3>1, <3>3, <3>4 DEF CutInv
  <2> QED
    BY <2>1, <2>2
<1>5. CASE WritePart
  <2>1. CASE RejectWrite
    BY <1>3, <2>1
  <2>2. CASE ~RejectWrite
    <3>1. /\ StartPart(PartSize) /\ pendingBytes' = pendingBytes - PartSize /\ written' = written
          /\ ~errored /\ sink = "writing" /\ sink' = "writing" /\ pendingBytes >= PartSize
      BY <1>5, <2>2 DEF WritePart, Carve
    <3>2. /\ nextPartNumber' > 1
          /\ written' = (nextPartNumber' - 2) * PartSize + size'[nextPartNumber' - 1] + pendingBytes'
          /\ \A p \in Part : p < nextPartNumber => size'[p] = PartSize
          /\ size'[nextPartNumber] = PartSize /\ nextPartNumber' = nextPartNumber + 1
      <4>1. PartSize \in 1..PartSize /\ PartSize <= pendingBytes
        BY <1>types, <3>1
      <4> QED
        BY <3>1, <4>1, CutPart
    <3>3. \A p \in Part : p < nextPartNumber' => size'[p] = PartSize
      BY <1>types, <3>2 DEF Part
    <3>4. \A p \in Part : p + 1 < nextPartNumber' => p < nextPartNumber'
      BY <1>types, <3>2 DEF Part
    <3> QED
      BY <1>types, <3>1, <3>2, <3>3, <3>4 DEF CutInv
  <2> QED
    BY <2>1, <2>2
<1>6. CASE DispatchLast
  <2>1. CASE CloseFails
    BY <1>3, <2>1
  <2>2. CASE ~CloseFails
    <3>1. /\ StartPart(pendingBytes) /\ pendingBytes' = 0 /\ written' = written
          /\ ~errored /\ sink = "dispatching" /\ sink' = "settling"
      BY <1>6, <2>2 DEF DispatchLast
    <3>2. /\ nextPartNumber' > 1
          /\ written' = (nextPartNumber' - 2) * PartSize + size'[nextPartNumber' - 1] + pendingBytes'
          /\ \A p \in Part : p < nextPartNumber => size'[p] = PartSize
          /\ nextPartNumber' = nextPartNumber + 1
      <4>1. pendingBytes \in 1..PartSize
        BY <3>1, RoomForPart
      <4>2. pendingBytes <= pendingBytes /\ pendingBytes' = pendingBytes - pendingBytes
        BY <1>types, <3>1
      <4> QED
        BY <3>1, <4>1, <4>2, CutPart
    <3>3. \A p \in Part : p + 1 < nextPartNumber' => p < nextPartNumber
      BY <1>types, <3>2 DEF Part
    <3> QED
      BY <1>types, <3>1, <3>2, <3>3 DEF CutInv
  <2> QED
    BY <2>1, <2>2
<1>7. CASE Close \/ Abort \/ SignalAborts \/ WriteResolves
  BY <1>2, <1>3, <1>7 DEF Close, Abort, SignalAborts, WriteResolves
<1>8. CASE CloseBegins
  BY <1>2, <1>3, <1>8 DEF CloseBegins
<1>9. CASE StartAbandoned \/ SettledBadly \/ FinishRejected \/ FinishAmbiguous
  BY <1>1, <1>3, <1>9 DEF StartAbandoned, SettledBadly, FinishRejected, FinishAmbiguous
<1>10. CASE SendFinish \/ FinishReplied \/ CancelEnds
  BY <1>2, <1>10 DEF SendFinish, FinishReplied, CancelEnds
<1>11. CASE CloseCleansUp \/ AbortCancels
  <2>1. errored
    BY <1>types, <1>11 DEF CloseCleansUp, AbortCancels, CutInv
  <2> QED
    BY <1>1, <1>11, <2>1 DEF CloseCleansUp, AbortCancels
<1>12. CASE StartResolved \/ StartRejected \/ BackgroundEnds \/ ServerStep \/ UNCHANGED vars
  BY <1>2, <1>12 DEF StartResolved, StartRejected, BackgroundEnds, ServerStep, vars
<1>13. ASSUME NEW q \in Part, UploadPart(q) \/ PartStored(q) \/ PartFails(q) PROVE CutInv'
  BY <1>1, <1>2, <1>13 DEF UploadPart, PartStored, PartFails
<1> QED
  BY <1>4, <1>5, <1>6, <1>7, <1>8, <1>9, <1>10, <1>11, <1>12, <1>13
     DEF Next, OwnerStep, SinkStep, UploadStep

\* The digests close sends are those of everything written.
LEMMA WholeAtFinish ==
    ASSUME IInv, sink = "settling", ~errored, TasksSettled
    PROVE  Whole(partSha1s)
<1> USE StreamFacts
<1> DEFINE n == nextPartNumber
<1>1. /\ n \in 1..N + 1 /\ written \in 0..MaxBytes /\ size \in [Part -> 0..PartSize]
      /\ task \in [Part -> TaskState]
  BY DEF IInv, TypeOK
<1>2. /\ pendingBytes = 0 /\ (n = 1 => written = 0)
      /\ n > 1 => written = (n - 2) * PartSize + size[n - 1]
      /\ \A p \in Part : p + 1 < n => size[p] = PartSize
  <2>1. pendingBytes = 0
    BY DEF IInv, CutInv
  <2>2. n > 1 => n - 1 \in Part /\ n - 2 \in Nat
    BY <1>1 DEF Part
  <2>3. n > 1 => size[n - 1] \in Nat /\ (n - 2) * PartSize \in Nat
    BY <1>1, <2>2, Products
  <2> QED
    BY <1>1, <2>1, <2>3 DEF IInv, CutInv
<1>3. \A p \in Part : /\ p >= n => partSha1s[p] = NoDigest
                      /\ p < n => partSha1s[p] = size[p] /\ size[p] \in 1..PartSize
  <2> TAKE p \in Part
  <2>1. task[p] \in {"none", "done"}
    BY <1>1 DEF TasksSettled, Running, IInv, PartInv, TaskState
  <2>2. p \in Nat
    BY DEF Part
  <2> QED
    BY <1>1, <2>1, <2>2 DEF IInv, PartInv
<1> SUFFICES ASSUME NEW p \in Part PROVE partSha1s[p] = PartOf(p)
  BY DEF Whole
<1> DEFINE low == (p - 1) * PartSize
<1>4. p \in Nat /\ p - 1 \in Nat /\ low \in Nat
  BY Products DEF Part
<1>5. CASE p + 1 < n
  <2>1. (p - 1) + 1 <= n - 2 /\ n - 2 \in Nat /\ (p - 1) + 1 \in Nat
    BY <1>1, <1>4, <1>5
  <2>2. low + PartSize <= (n - 2) * PartSize /\ (n - 2) * PartSize \in Nat
    <3>1. ((p - 1) + 1) * PartSize = low + PartSize
      BY <1>4, Products
    <3>2. ((p - 1) + 1) * PartSize <= (n - 2) * PartSize
      BY <2>1, Products
    <3>3. (n - 2) * PartSize \in Nat
      BY <2>1, Products
    <3> QED
      BY <3>1, <3>2, <3>3
  <2>3. n - 1 \in Part /\ n - 1 < n /\ p < n /\ n > 1
    BY <1>1, <1>4, <1>5 DEF Part
  <2>4. size[n - 1] \in 1..PartSize /\ partSha1s[p] = PartSize
    BY <1>2, <1>3, <1>5, <2>3
  <2>5. written = (n - 2) * PartSize + size[n - 1]
    BY <1>2, <2>3
  <2> HIDE DEF low
  <2>6. written - low > 0 /\ ~(written - low < PartSize)
    BY <1>1, <1>4, <2>2, <2>4, <2>5
  <2>7. ~(written - low <= 0)
    BY <1>1, <1>4, <2>6
  <2> QED
    BY <2>4, <2>6, <2>7 DEF PartOf, low
<1>6. CASE p + 1 = n
  <2>1. n - 2 = p - 1 /\ n - 1 = p /\ n > 1 /\ p < n
    BY <1>1, <1>4, <1>6
  <2>2. written = low + size[p] /\ size[p] \in 1..PartSize /\ partSha1s[p] = size[p]
    BY <1>2, <1>3, <2>1
  <2> HIDE DEF low
  <2>3. written - low = size[p] /\ ~(size[p] <= 0) /\ (~(size[p] < PartSize) => size[p] = PartSize)
    BY <1>1, <1>4, <2>2
  <2> QED
    BY <2>2, <2>3 DEF PartOf, low
<1>7. CASE p >= n
  <2>1. written <= low
    <3>1. CASE n = 1
      BY <1>2, <1>4, <3>1
    <3>2. CASE n > 1
      <4>1. n - 1 <= p - 1 /\ n - 1 \in Nat /\ n - 2 \in Nat /\ n - 1 = (n - 2) + 1 /\ n - 1 \in Part
        BY <1>1, <1>4, <1>7, <3>2 DEF Part
      <4>2. (n - 1) * PartSize <= low
        BY <1>4, <4>1, Products
      <4>3. (n - 1) * PartSize = (n - 2) * PartSize + PartSize /\ (n - 2) * PartSize \in Nat
        BY <4>1, Products
      <4>4. size[n - 1] \in 0..PartSize
        BY <1>1, <4>1
      <4>5. written = (n - 2) * PartSize + size[n - 1]
        BY <1>2, <3>2
      <4> HIDE DEF low
      <4> QED
        BY <1>4, <4>2, <4>3, <4>4, <4>5
    <3> QED
      BY <1>1, <3>1, <3>2
  <2>2. written - low <= 0
    <3> HIDE DEF low
    <3> QED
      BY <1>1, <1>4, <2>1
  <2> QED
    BY <1>3, <1>7, <2>2 DEF PartOf
<1> QED
  BY <1>1, <1>4, <1>5, <1>6, <1>7

\* What a step of the stream does to the finish: nothing, unless it sends it.
LEMMA FinishFrame ==
    ASSUME IInv, OwnerStep \/ SinkStep \/ UploadStep \/ UNCHANGED vars, ~SendFinish
    PROVE  /\ \A m \in requests' : m.op = "finish" => m \in requests
           /\ sink \in Past => sink' \in Past /\ written' = written
<1> USE DEF netVars, bufferVars, partVars, startVars, abortVars, endVars, Past
<1> DEFINE Goal == /\ \A m \in requests' : m.op = "finish" => m \in requests
                   /\ sink \in Past => sink' \in Past /\ written' = written
<1>1. ASSUME NEW f, requests' = requests \/ requests' = requests \cup {CancelRequest(w, f)}
      PROVE  \A m \in requests' : m.op = "finish" => m \in requests
  BY <1>1 DEF CancelRequest
<1>2. ASSUME RejectWrite \/ AbortSink, sink \in {"idle", "writing"} PROVE Goal
  BY <1>2 DEF RejectWrite, AbortSink
<1>3. ASSUME CloseFails PROVE Goal
  BY <1>3 DEF CloseFails
<1>4. ASSUME NEW k, StartPart(k) PROVE \A m \in requests' : m.op = "finish" => m \in requests
  BY <1>4 DEF StartPart, StartRequest
<1>5. CASE OwnerStep
  BY <1>2, <1>5 DEF OwnerStep, Write, Close, Abort, SignalAborts
<1>6. CASE WritePart \/ WriteResolves
  BY <1>2, <1>4, <1>6 DEF WritePart, WriteResolves
<1>7. CASE CloseBegins \/ DispatchLast \/ StartAbandoned \/ SettledBadly \/ FinishRejected
  BY <1>3, <1>4, <1>7 DEF CloseBegins, DispatchLast, StartAbandoned, SettledBadly, FinishRejected
<1>8. CASE FinishReplied \/ FinishAmbiguous \/ CancelEnds
  BY <1>8 DEF FinishReplied, FinishAmbiguous, CancelEnds
<1>9. CASE CloseCleansUp \/ AbortCancels
  <2>1. requests' = requests \/ requests' = requests \cup {CancelRequest(w, largeFileId)}
    BY <1>9 DEF CloseCleansUp, AbortCancels, Send
  <2>2. sink \in Past => sink' \in Past /\ written' = written
    BY <1>9 DEF CloseCleansUp, AbortCancels
  <2> QED
    BY <1>1, <2>1, <2>2
<1>10. CASE StartResolved
  <2>1. \E f : requests' = requests \/ requests' = requests \cup {CancelRequest(w, f)}
    BY <1>10 DEF StartResolved, Send
  <2>2. sink' = sink /\ written' = written
    BY <1>10 DEF StartResolved
  <2> QED
    BY <1>1, <2>1, <2>2
<1>11. CASE StartRejected \/ BackgroundEnds \/ UNCHANGED vars
  BY <1>11 DEF StartRejected, BackgroundEnds, vars
<1>12. ASSUME NEW p \in Part, UploadPart(p) \/ PartStored(p) \/ PartFails(p) PROVE Goal
  BY <1>12 DEF UploadPart, PartStored, PartFails, Send, PartRequest
<1> QED
  BY <1>5, <1>6, <1>7, <1>8, <1>9, <1>10, <1>11, <1>12 DEF SinkStep, UploadStep

LEMMA FinishStep == IInv /\ [Next]_vars => FinishInv'
<1> SUFFICES ASSUME IInv, [Next]_vars PROVE FinishInv'
  OBVIOUS
<1>types. /\ TypeOK /\ FinishInv /\ requests \subseteq Request /\ replies \subseteq Reply
          /\ \A m \in requests : m.op = "finish" => m.f \in FileId /\ m.u = w
          /\ \A r \in replies : r.to.op = "finish" => r.to.f \in FileId
  BY StreamFacts DEF IInv, TypeOK, NetworkTypeOK, Request, Reply
<1>1. CASE (OwnerStep \/ SinkStep \/ UploadStep \/ UNCHANGED vars) /\ ~SendFinish
  <2>1. UNCHANGED <<largeFiles, replies>>
    BY <1>1, StreamFrame
  <2>2. /\ \A m \in requests' : m.op = "finish" => m \in requests
        /\ sink \in Past => sink' \in Past /\ written' = written
    BY <1>1, FinishFrame
  <2>3. CASE sink \in Past
    <3>1. sink' \in Past /\ \A d : Whole(d) => Whole(d)'
      BY <2>2, <2>3 DEF Whole, PartOf
    <3> QED
      BY <1>types, <2>1, <2>2, <3>1 DEF FinishInv, Whole, PartOf
  <2>4. CASE sink \notin Past
    BY <1>types, <2>1, <2>2, <2>4 DEF FinishInv
  <2> QED
    BY <2>3, <2>4
<1>2. CASE SendFinish
  <2>1. /\ requests' = requests \cup {FinishRequest} /\ UNCHANGED <<largeFiles, replies, written>>
        /\ sink \notin Past /\ sink' \in Past
    BY <1>2 DEF SendFinish, Send, Past, bufferVars
  <2>2. Whole(partSha1s)'
    BY <1>2, WholeAtFinish DEF SendFinish, Settled, Whole, PartOf, bufferVars, partVars
  <2>3. \A p \in Part : partSha1s[p] = PartOf(p)'
    BY <1>2, <2>2 DEF SendFinish, partVars, Whole
  <2>4. FinishRequest.op = "finish" /\ \A p \in Part : FinishRequest.digests[p] = PartOf(p)'
    BY <2>3 DEF FinishRequest
  <2>5. /\ \A m \in requests : m.op # "finish"
        /\ \A r \in replies : r.to.op # "finish"
        /\ \A f \in FileId : largeFiles[f].state # "finished" /\ largeFiles[f].finishedBy = Nobody
    BY <1>types, <2>1 DEF FinishInv
  <2>6. \A m \in requests' : m.op = "finish" => m = FinishRequest
    BY <2>1, <2>5
  <2>7. \A m \in requests' : m.op = "finish" => Whole(m.digests)'
    BY <2>4, <2>6 DEF Whole
  <2> QED
    BY <2>1, <2>5, <2>6, <2>7 DEF FinishInv
<1>3. CASE ServerStep
  <2>1. PICK m \in requests : Handle(m) \/ Refuse(m)
    BY <1>3 DEF ServerStep
  <2>2. requests' = requests \ {m} /\ \A f \in FileId : FileStep(m, f)
    BY <1>types, <2>1, ServerEffect
  <2>3. PICK s \in Status, g \in FileId \cup {NoFile} : Answer(m, s, g) /\ ReplyStep(m, s, g)
    BY <1>types, <2>1, ServerEffect
  <2>4. sink' = sink /\ \A p \in Part : PartOf(p)' = PartOf(p)
    BY <1>3 DEF ServerStep, bufferVars, PartOf
  <2>5. CASE m.op # "finish"
    <3>1. \A f \in FileId : /\ largeFiles'[f].state = "finished" <=> largeFiles[f].state = "finished"
                            /\ largeFiles[f].state = "finished" => largeFiles'[f] = largeFiles[f]
                            /\ largeFiles'[f].finishedBy = largeFiles[f].finishedBy \/ largeFiles'[f].finishedBy = Nobody
      BY <2>2, <2>5 DEF FileStep, Unfinished
    <3>2. \A f \in FileId : largeFiles'[f].finishedBy =
             IF largeFiles'[f].state = "finished" THEN w ELSE Nobody
      BY <1>types, <3>1 DEF FinishInv
    <3>3. \A r \in replies' : r.to.op = "finish" => r \in replies
      BY <2>3, <2>5 DEF Answer
    <3>4. \A f \in FileId : largeFiles'[f].state = "finished" =>
             /\ sink' \in Past /\ largeFiles'[f].parts = largeFiles[f].parts
             /\ \A p \in Part : largeFiles[f].parts[p] = PartOf(p)
      BY <1>types, <2>4, <3>1 DEF FinishInv, Whole
    <3>5. \A f \in FileId : largeFiles'[f].state = "finished" => sink' \in Past /\ Whole(largeFiles[f].parts)'
      BY <2>4, <3>4 DEF Whole
    <3>6. \A n \in requests' : n \in requests
      BY <2>2
    <3>7. \A n \in requests : n.op = "finish" => Whole(n.digests)'
      BY <1>types, <2>4 DEF FinishInv, Whole
    <3> QED
      BY <1>types, <2>4, <3>1, <3>2, <3>3, <3>5, <3>6, <3>7 DEF FinishInv
  <2>6. CASE m.op = "finish"
    <3>1. /\ m.f \in FileId /\ m.u = w /\ sink \in Past /\ Whole(m.digests)
          /\ \A n \in requests' : n.op # "finish"
          /\ \A r \in replies : r.to.op # "finish"
          /\ \A f \in FileId : largeFiles[f].state # "finished"
      BY <1>types, <2>2, <2>6 DEF FinishInv
    <3>2. \A f \in FileId :
            \/ largeFiles'[f] = largeFiles[f]
            \/ /\ largeFiles'[f].state = "finished" /\ largeFiles'[f].finishedBy = w
               /\ largeFiles'[f].parts = m.digests
      BY <2>2, <2>6, <3>1 DEF FileStep
    <3>3. \A f \in FileId :
            /\ largeFiles'[f].state = "finished" => Whole(largeFiles[f].parts)'
            /\ largeFiles'[f].finishedBy = IF largeFiles'[f].state = "finished" THEN w ELSE Nobody
      <4> TAKE f \in FileId
      <4>1. largeFiles'[f].finishedBy = IF largeFiles'[f].state = "finished" THEN w ELSE Nobody
        BY <1>types, <3>1, <3>2 DEF FinishInv
      <4>2. largeFiles'[f].state = "finished" => \A p \in Part : largeFiles'[f].parts[p] = PartOf(p)
        BY <3>1, <3>2 DEF Whole
      <4> QED
        BY <2>4, <4>1, <4>2 DEF Whole
    <3>4. \A r \in replies' : r.to.op = "finish" => r.to = m /\ r.status = s
      BY <2>3, <3>1 DEF Answer
    <3>5. /\ s = "ok" => largeFiles'[m.f].state = "finished"
          /\ s # "ok" => \A f \in FileId : largeFiles'[f].state # "finished"
      BY <2>3, <2>6, <3>1 DEF ReplyStep
    <3> QED
      BY <2>4, <3>1, <3>3, <3>4, <3>5 DEF FinishInv
  <2> QED
    BY <2>5, <2>6
<1> QED
  BY <1>1, <1>2, <1>3 DEF Next

\* Before a finish is sent, and once it was refused, nothing can publish the file.
LEMMA NoFinish ==
    ASSUME IInv, \/ sink \notin Past
                 \/ sink = "finishing" /\ \E s \in {"rejected", "refused"} : Answered(FinishRequest, s)
                 \/ sink \in {"closeFailed", "closeCancelling"}
    PROVE  /\ \A m \in requests : m.op # "finish"
           /\ \A f \in FileId : largeFiles[f].state # "finished"
<1>1. CASE sink \notin Past
  BY <1>1 DEF IInv, FinishInv
<1>2. ASSUME NEW s \in {"rejected", "refused"}, Answered(FinishRequest, s)
      PROVE  /\ \A m \in requests : m.op # "finish"
             /\ \A f \in FileId : largeFiles[f].state # "finished"
  <2>1. PICK r \in replies : r.to.op = "finish" /\ r.status # "ok"
    BY <1>2 DEF Answered, FinishRequest
  <2> QED
    BY <2>1 DEF IInv, FinishInv
<1>3. CASE sink \in {"closeFailed", "closeCancelling"}
  BY <1>3 DEF IInv, OutcomeInv
<1> QED
  BY <1>1, <1>2, <1>3

LEMMA OutcomeStep == IInv /\ [Next]_vars => OutcomeInv'
<1> SUFFICES ASSUME IInv, [Next]_vars PROVE OutcomeInv'
  OBVIOUS
<1> USE DEF bufferVars, partVars, startVars, abortVars, endVars
<1> DEFINE Clean == /\ \A m \in requests : m.op # "finish"
                    /\ \A f \in FileId : largeFiles[f].state # "finished"
           Quiet == /\ UNCHANGED largeFiles /\ (errored => errored')
                    /\ \A m \in requests' : m.op = "finish" => m \in requests
                    /\ (largeFileId # NoFile => largeFileId' # NoFile)
<1>types. /\ OutcomeInv /\ outcome \in [Client -> {"none", "ok", "failed", "ambiguous"}]
          /\ w \in Client /\ (sink # "done" => outcome[w] = "none")
  BY StreamFacts DEF IInv, TypeOK, OutcomeInv
<1>known. largeFileId # NoFile => start = "started"
  BY DEF IInv, StartInv
<1>1. ASSUME Quiet, outcome' = outcome,
             \/ sink' = sink
             \/ /\ sink # "done"
                /\ sink' \in {"idle", "writing", "closing", "dispatching", "settling", "finishing", "done"}
      PROVE  OutcomeInv'
  BY <1>types, <1>1 DEF OutcomeInv
<1>2. ASSUME Quiet, Clean, errored', outcome[w] = "none",
             \/ sink' = "done" /\ SettleDone("failed")
             \/ sink' = "closeFailed" /\ outcome' = outcome
             \/ sink' \in {"aborting", "abortCancelling", "closeCancelling"} /\ outcome' = outcome
                /\ largeFileId' # NoFile
      PROVE  OutcomeInv'
  BY <1>types, <1>2 DEF OutcomeInv, SettleDone
<1>quiet. ASSUME OwnerStep \/ SinkStep \/ UploadStep \/ UNCHANGED vars, ~SendFinish,
                 errored => errored', largeFileId # NoFile => largeFileId' # NoFile
          PROVE  Quiet
  BY <1>quiet, StreamFrame, FinishFrame
<1>clean. sink \in {"idle", "writing", "closing", "dispatching", "settling", "aborting", "abortCancelling"} => Clean
  BY NoFinish DEF Past
<1>3. ASSUME OwnerStep \/ SinkStep, RejectWrite \/ AbortSink \/ CloseFails, ~SendFinish,
             \/ sink \in {"idle", "writing", "closing", "dispatching", "settling"}
             \/ sink = "finishing" /\ Clean
      PROVE  OutcomeInv'
  <2>1. /\ errored => errored'
        /\ largeFileId' = largeFileId
        /\ Clean /\ outcome[w] = "none" /\ sink # "done"
    BY <1>3, <1>clean, <1>types DEF RejectWrite, AbortSink, CloseFails
  <2>2. Quiet
    BY <1>3, <1>quiet, <2>1
  <2> HIDE DEF Quiet, Clean
  <2>3. ASSUME AbortSink PROVE OutcomeInv'
    BY <1>2, <2>1, <2>2, <2>3 DEF AbortSink
  <2>4. ASSUME CloseFails PROVE OutcomeInv'
    BY <1>2, <2>1, <2>2, <2>4 DEF CloseFails
  <2>5. ASSUME RejectWrite, ~AbortSink PROVE OutcomeInv'
    BY <1>1, <2>1, <2>2, <2>5 DEF RejectWrite
  <2> QED
    BY <1>3, <2>3, <2>4, <2>5
<1> HIDE DEF Quiet, Clean
<1>4. CASE OwnerStep
  <2>1. CASE RejectWrite \/ AbortSink
    <3>1. ~SendFinish /\ sink \in {"idle", "writing"}
      BY <1>4, <2>1 DEF OwnerStep, Write, Close, Abort, SignalAborts, SendFinish, AbortSink, RejectWrite
    <3> QED
      BY <1>3, <1>4, <2>1, <3>1
  <2>2. CASE ~RejectWrite /\ ~AbortSink
    <3>1. /\ errored' = errored /\ largeFileId' = largeFileId /\ outcome' = outcome
          /\ \/ sink' = sink
             \/ sink # "done" /\ sink' \in {"writing", "closing"}
      BY <1>4, <2>2 DEF OwnerStep, Write, Close, Abort, SignalAborts
    <3>2. ~SendFinish
      BY <3>1 DEF SendFinish
    <3>3. Quiet
      BY <1>4, <1>quiet, <3>1, <3>2
    <3> QED
      BY <1>1, <3>1, <3>3
  <2> QED
    BY <2>1, <2>2
<1>5. CASE WritePart \/ WriteResolves
  <2>1. ~SendFinish /\ SinkStep /\ sink = "writing"
    BY <1>5 DEF SendFinish, WritePart, WriteResolves, SinkStep
  <2>2. CASE RejectWrite \/ AbortSink
    BY <1>3, <2>1, <2>2
  <2>3. CASE ~RejectWrite /\ ~AbortSink
    <3>1. /\ errored' = errored /\ largeFileId' = largeFileId /\ outcome' = outcome
          /\ sink' \in {"writing", "idle"}
      BY <1>5, <2>1, <2>3 DEF WritePart, WriteResolves, StartPart
    <3> QED
      BY <1>1, <1>quiet, <2>1, <3>1
  <2> QED
    BY <2>2, <2>3
<1>6. CASE CloseBegins \/ DispatchLast \/ StartAbandoned \/ SettledBadly
  <2>1. SinkStep /\ sink \in {"closing", "dispatching", "settling"} /\ (sink = "settling" => CloseFails)
    BY <1>6 DEF CloseBegins, DispatchLast, StartAbandoned, SettledBadly, SinkStep
  <2>2. CASE CloseFails
    <3>1. ~SendFinish
      BY <2>2 DEF CloseFails, SendFinish
    <3> QED
      BY <1>3, <2>1, <2>2, <3>1
  <2>3. CASE ~CloseFails
    <3>1. /\ errored' = errored /\ largeFileId' = largeFileId /\ outcome' = outcome
          /\ sink' \in {"dispatching", "settling"} /\ ~SendFinish
      BY <1>6, <2>1, <2>3 DEF CloseBegins, DispatchLast, StartAbandoned, SettledBadly, SendFinish, StartPart
    <3> QED
      BY <1>1, <1>quiet, <2>1, <3>1
  <2> QED
    BY <2>2, <2>3
<1>7. CASE SendFinish
  <2>1. /\ sink' = "finishing" /\ outcome' = outcome /\ outcome[w] = "none"
    BY <1>7, <1>types DEF SendFinish
  <2> QED
    BY <2>1 DEF OutcomeInv
<1>8. CASE FinishRejected
  <2>1. SinkStep /\ CloseFails /\ ~SendFinish /\ sink = "finishing"
    BY <1>8 DEF FinishRejected, SinkStep, SendFinish, CloseFails
  <2>2. Clean
    BY <1>8, NoFinish DEF FinishRejected, Clean
  <2> QED
    BY <1>3, <2>1, <2>2
<1>9. CASE FinishReplied \/ FinishAmbiguous
  <2>1. /\ sink' = "done" /\ sink = "finishing"
        /\ \/ FinishReplied /\ outcome'[w] = "ok"
           \/ outcome'[w] = "ambiguous"
    BY <1>9, <1>types DEF FinishReplied, FinishAmbiguous, SettleDone
  <2>2. FinishReplied => \E f \in FileId : largeFiles[f].state = "finished"
    <3>1. ASSUME FinishReplied PROVE \E f \in FileId : largeFiles[f].state = "finished"
      <4>1. PICK r \in replies : r.to = FinishRequest /\ r.status = "ok"
        BY <3>1 DEF FinishReplied, Answered
      <4>2. r.to.op = "finish" /\ r.to.f \in FileId
        BY <4>1 DEF FinishRequest, IInv, TypeOK, NetworkTypeOK, Reply, Request
      <4> QED
        BY <4>1, <4>2 DEF IInv, FinishInv
    <3> QED
      BY <3>1
  <2>3. largeFiles' = largeFiles
    BY <1>9 DEF FinishReplied, FinishAmbiguous, netVars
  <2> QED
    BY <2>1, <2>2, <2>3 DEF OutcomeInv
<1>10. CASE CloseCleansUp
  <2>1. Quiet /\ outcome[w] = "none" /\ sink = "closeFailed" /\ Clean /\ errored' /\ errored
    <3>1. ~SendFinish /\ SinkStep /\ errored' = errored /\ largeFileId' = largeFileId /\ sink = "closeFailed"
      BY <1>10 DEF SendFinish, CloseCleansUp, SinkStep
    <3>2. errored
      BY <1>types, <3>1 DEF OutcomeInv
    <3> QED
      BY <1>quiet, <1>types, <3>1, <3>2, NoFinish DEF Clean
  <2>2. \/ sink' = "done" /\ SettleDone("failed")
        \/ sink' = "closeCancelling" /\ outcome' = outcome /\ largeFileId' # NoFile
    BY <1>10 DEF CloseCleansUp
  <2> QED
    BY <1>2, <2>1, <2>2
<1>11. CASE AbortCancels
  <2>1. /\ ~SendFinish /\ SinkStep /\ UNCHANGED <<errored, largeFileId, outcome>>
        /\ sink = "aborting" /\ sink' = "abortCancelling" /\ errored
    BY <1>11 DEF SendFinish, AbortCancels, SinkStep, IInv, CutInv
  <2>2. largeFileId # NoFile
    BY <1>types, <2>1 DEF OutcomeInv
  <2> QED
    BY <1>2, <1>clean, <1>quiet, <1>types, <2>1, <2>2
<1>12. CASE CancelEnds
  <2>1. /\ ~SendFinish /\ SinkStep /\ UNCHANGED <<errored, largeFileId>>
        /\ sink \in {"closeCancelling", "abortCancelling"} /\ sink' = "done" /\ SettleDone("failed")
    BY <1>12 DEF SendFinish, CancelEnds, SinkStep
  <2>2. errored
    BY <1>types, <2>1 DEF OutcomeInv, IInv, CutInv
  <2>3. Clean
    BY <1>clean, <2>1, NoFinish DEF Clean
  <2> QED
    BY <1>2, <1>quiet, <1>types, <2>1, <2>2, <2>3
<1>13. CASE UploadStep
  <2>1. /\ errored => errored'
        /\ largeFileId # NoFile => largeFileId' # NoFile
        /\ UNCHANGED <<sink, outcome>>
    BY <1>13, <1>known
       DEF UploadStep, StartResolved, StartRejected, BackgroundEnds, UploadPart, PartStored, PartFails
  <2>2. CASE ~SendFinish
    <3>1. Quiet
      BY <1>13, <1>quiet, <2>1, <2>2
    <3> QED
      BY <1>1, <2>1, <3>1
  <2>3. CASE SendFinish
    BY <1>7, <2>3
  <2> QED
    BY <2>2, <2>3
<1>14. CASE UNCHANGED vars
  <2>1. UNCHANGED <<errored, largeFileId, outcome, sink>>
    BY <1>14 DEF vars
  <2>2. ~SendFinish
    BY <2>1 DEF SendFinish
  <2>3. Quiet
    BY <1>14, <1>quiet, <2>1, <2>2
  <2> QED
    BY <1>1, <2>1, <2>3
<1>15. CASE ServerStep
  <2>1. PICK m \in requests : Handle(m) \/ Refuse(m)
    BY <1>15 DEF ServerStep
  <2>2. requests' = requests \ {m} /\ \A f \in FileId : FileStep(m, f)
    BY <2>1, ServerEffect DEF IInv
  <2>3. UNCHANGED <<sink, outcome, errored, largeFileId>>
    BY <1>15 DEF ServerStep
  <2>4. \A f \in FileId :
          /\ largeFiles[f].state = "finished" => largeFiles'[f].state = "finished"
          /\ m.op # "finish" /\ largeFiles[f].state # "finished" => largeFiles'[f].state # "finished"
    BY <2>2 DEF FileStep, Unfinished
  <2> QED
    BY <1>types, <2>2, <2>3, <2>4 DEF OutcomeInv
<1> QED
  BY <1>4, <1>5, <1>6, <1>7, <1>8, <1>9, <1>10, <1>11, <1>12, <1>13, <1>14, <1>15 DEF Next, SinkStep

\* A file whose cancel was answered, or was given up on, is cleaned up or told of.
LEMMA CancelledOrTold ==
    ASSUME IInv, \/ Answered(CancelRequest(w, largeFileId), "ok")
                 \/ reported' = reported \cup {"cancel-failed"}
    PROVE  ~Unfinished(largeFileId) \/ "cancel-failed" \in reported'
<1>1. CASE Answered(CancelRequest(w, largeFileId), "ok")
  <2>1. PICK r \in replies : r.to = CancelRequest(w, largeFileId) /\ r.status = "ok"
    BY <1>1 DEF Answered
  <2>2. r.to.op = "cancel" /\ r.to.f = largeFileId
    BY <2>1 DEF CancelRequest
  <2> QED
    BY <2>1, <2>2 DEF IInv, StartInv, Unfinished
<1> QED
  BY <1>1

LEMMA CleanStep == IInv /\ [Next]_vars => CleanInv'
<1> SUFFICES ASSUME IInv, [Next]_vars PROVE CleanInv'
  OBVIOUS
<1> USE DEF bufferVars, partVars, startVars, abortVars, endVars
<1>types. /\ CleanInv /\ outcome \in [Client -> {"none", "ok", "failed", "ambiguous"}] /\ w \in Client
          /\ largeFileId # NoFile <=> start = "started"
          /\ start = "started" => largeFileId \in FileId /\ largeFiles[largeFileId].state # "none"
          /\ start # "started" => background = "none"
  BY StreamFacts DEF IInv, TypeOK, StartInv
<1> DEFINE Told == ~Unfinished(largeFileId) \/ "cancel-failed" \in reported'
<1>1. ASSUME UNCHANGED <<largeFiles, background, largeFileId>>, reported \subseteq reported',
             outcome'[w] = "failed" => outcome[w] = "failed" \/ largeFileId = NoFile \/ Told
      PROVE  CleanInv'
  BY <1>1, <1>types DEF CleanInv, Unfinished
<1>2. ASSUME RejectWrite \/ AbortSink \/ CloseFails
      PROVE  /\ UNCHANGED <<background, largeFileId, reported>>
             /\ outcome'[w] = "failed" => outcome[w] = "failed" \/ largeFileId = NoFile
  BY <1>2, <1>types DEF RejectWrite, AbortSink, CloseFails, SettleDone
<1>3. CASE OwnerStep \/ SinkStep
  <2>1. largeFiles' = largeFiles
    BY <1>3, StreamFrame
  <2>2. CASE RejectWrite \/ AbortSink \/ CloseFails
    BY <1>1, <1>2, <2>1, <2>2
  <2>3. CASE CancelEnds
    <3>1. Told
      BY <2>3, CancelledOrTold DEF CancelEnds
    <3>2. UNCHANGED <<background, largeFileId>> /\ reported \subseteq reported'
      BY <2>3 DEF CancelEnds
    <3> QED
      BY <1>1, <2>1, <3>1, <3>2
  <2>4. CASE CloseCleansUp
    <3>1. /\ UNCHANGED <<background, largeFileId, reported>>
          /\ outcome' = outcome \/ largeFileId = NoFile
      BY <2>4 DEF CloseCleansUp
    <3> QED
      BY <1>1, <2>1, <3>1
  <2>5. CASE FinishReplied \/ FinishAmbiguous
    <3>1. /\ UNCHANGED <<background, largeFileId>> /\ reported \subseteq reported'
          /\ outcome'[w] # "failed"
      BY <2>5, <1>types DEF FinishReplied, FinishAmbiguous, SettleDone
    <3> QED
      BY <1>1, <2>1, <3>1
  <2>6. CASE /\ ~(RejectWrite \/ AbortSink \/ CloseFails)
             /\ ~(CancelEnds \/ CloseCleansUp \/ FinishReplied \/ FinishAmbiguous)
    <3>1. UNCHANGED <<background, largeFileId, reported, outcome>>
      BY <1>3, <2>6
         DEF OwnerStep, Write, Close, Abort, SignalAborts, SinkStep, WritePart, WriteResolves, StartPart,
             CloseBegins, DispatchLast, StartAbandoned, SendFinish, SettledBadly, FinishRejected, AbortCancels
    <3> QED
      BY <1>1, <2>1, <3>1
  <2> QED
    BY <2>2, <2>3, <2>4, <2>5, <2>6
<1>4. CASE UploadStep
  <2>1. largeFiles' = largeFiles
    BY <1>4, StreamFrame
  <2>2. CASE StartResolved
    <3>1. /\ background' = "cancelling" \/ (background' = "none" /\ ~errored)
          /\ outcome' = outcome
      BY <1>types, <2>2 DEF StartResolved
    <3>2. outcome[w] = "failed" => errored
      BY DEF IInv, OutcomeInv
    <3>3. background' # "closed" /\ (background' = "none" => outcome'[w] # "failed")
      BY <3>1, <3>2
    <3> QED
      BY <3>3 DEF CleanInv
  <2>3. CASE BackgroundEnds
    <3>1. Told /\ background' = "closed" /\ largeFileId' = largeFileId
      BY <2>3, CancelledOrTold DEF BackgroundEnds
    <3> QED
      BY <2>1, <3>1 DEF CleanInv, Unfinished
  <2>4. CASE ~StartResolved /\ ~BackgroundEnds
    <3>1. UNCHANGED <<background, largeFileId, reported, outcome>>
      BY <1>4, <2>4 DEF UploadStep, StartRejected, UploadPart, PartStored, PartFails
    <3> QED
      BY <1>1, <2>1, <3>1
  <2> QED
    BY <2>2, <2>3, <2>4
<1>5. CASE ServerStep
  <2>1. PICK m \in requests : Handle(m) \/ Refuse(m)
    BY <1>5 DEF ServerStep
  <2>2. \A f \in FileId : largeFiles[f].state # "none" /\ largeFiles'[f].state = "unfinished"
            => largeFiles[f].state = "unfinished"
    BY <2>1, ServerEffect DEF FileStep, Unfinished, IInv
  <2>3. UNCHANGED <<background, largeFileId, reported, outcome>>
    BY <1>5 DEF ServerStep
  <2> QED
    BY <1>types, <2>2, <2>3 DEF CleanInv, Unfinished
<1>6. CASE UNCHANGED vars
  BY <1>1, <1>6 DEF vars, netVars
<1> QED
  BY <1>3, <1>4, <1>5, <1>6 DEF Next

-----------------------------------------------------------------------------
(* The theorems.                                                           *)

LEMMA InitIInv == Init => IInv
<1> SUFFICES ASSUME Init PROVE IInv
  OBVIOUS
<1> USE StreamFacts
<1>1. TypeOK
  <2>1. LargeFilesTypeOK
    BY DEF Init, LargeFilesTypeOK, LargeFile, FileState, NoFileYet, NoParts
  <2>2. 0 \in 0..MaxBytes /\ 1 \in 1..N + 1 /\ 0 \in 0..PartSize
    OBVIOUS
  <2> QED
    BY <2>1, <2>2 DEF Init, TypeOK, NetworkTypeOK, SinkState, TaskState, NoParts
<1>2. StartInv /\ CleanInv
  BY DEF Init, StartInv, CleanInv
<1>3. PartInv
  BY DEF Init, PartInv, NoParts, Part
<1>4. CutInv
  BY DEF Init, CutInv, Part
<1>5. FinishInv /\ OutcomeInv
  BY DEF Init, FinishInv, OutcomeInv, NoFileYet
<1> QED
  BY <1>1, <1>2, <1>3, <1>4, <1>5 DEF IInv

\* IInv is an invariant of the stream.
THEOREM Invariance == Spec => []IInv
<1>1. IInv /\ [Next]_vars => IInv'
  BY TypeStep, StartStep, PartStep, CutStep, FinishStep, OutcomeStep, CleanStep DEF IInv
<1> QED
  BY InitIInv, <1>1, PTL DEF Spec

\* Every variable of the stream, of the server and of the network keeps its type; no part
\* is cut beyond the N of the plan.
THEOREM TypeCorrect == Spec => []TypeOK
<1>1. IInv => TypeOK
  BY DEF IInv
<1> QED
  BY <1>1, Invariance, PTL

\* done only resolves for a published file that holds every byte written, in order
\* (createWriteStream's close).
THEOREM Done == Spec => []DoneMeansEverything
<1>1. ASSUME IInv PROVE DoneMeansEverything
  BY <1>1 DEF IInv, OutcomeInv, FinishInv, Whole, PartOf, DoneMeansEverything
<1> QED
  BY <1>1, Invariance, PTL

\* A done that rejects leaves no file behind that nobody is told of, a file whose start
\* was answered after the stream had failed included (cancelStartedLargeFile).
THEOREM Cleanup == Spec => []RejectionCleansUp
<1>1. ASSUME IInv PROVE RejectionCleansUp
  <2>1. background \in {"none", "cancelling", "closed"}
    BY <1>1 DEF IInv, TypeOK
  <2> QED
    BY <1>1, <2>1 DEF IInv, CleanInv, RejectionCleansUp
<1> QED
  BY <1>1, Invariance, PTL

\* An outcome is settled once.
LEMMA OutcomeFrame ==
    ASSUME IInv, OwnerStep \/ SinkStep \/ UploadStep \/ UNCHANGED vars
    PROVE  \/ outcome' = outcome
           \/ outcome[w] = "none" /\ \E o \in {"ok", "failed", "ambiguous"} : SettleDone(o)
<1> USE DEF abortVars, endVars
<1> DEFINE Goal == \/ outcome' = outcome
                   \/ outcome[w] = "none" /\ \E o \in {"ok", "failed", "ambiguous"} : SettleDone(o)
<1>types. sink # "done" => outcome[w] = "none"
  BY StreamFacts DEF IInv, TypeOK, OutcomeInv
<1>1. ASSUME RejectWrite \/ AbortSink \/ CloseFails, sink # "done" PROVE Goal
  BY <1>1, <1>types DEF RejectWrite, AbortSink, CloseFails
<1>2. CASE OwnerStep
  BY <1>1, <1>2 DEF OwnerStep, Write, Close, Abort, SignalAborts
<1>3. CASE SinkStep
  BY <1>1, <1>3, <1>types
     DEF SinkStep, WritePart, WriteResolves, CloseBegins, DispatchLast, StartAbandoned, SendFinish,
         SettledBadly, FinishReplied, FinishRejected, FinishAmbiguous, CloseCleansUp, AbortCancels,
         CancelEnds
<1>4. CASE UploadStep \/ UNCHANGED vars
  BY <1>4 DEF UploadStep, StartResolved, StartRejected, BackgroundEnds, UploadPart, PartStored, PartFails, vars
<1> QED
  BY <1>2, <1>3, <1>4

\* The file is published when the server has finished it.
LEMMA PublishedIsFinished ==
    ASSUME FinishInv
    PROVE  published = [c \in Client |-> \E f \in FileId : largeFiles[f].state = "finished"]
BY StreamFacts DEF FinishInv, published

LEMMA ContractStep == ASSUME IInv, IInv', [Next]_vars PROVE [Contract!Next]_Contract!vars
<1> DEFINE Finished == \E f \in FileId : largeFiles[f].state = "finished"
<1>types. /\ outcome \in [Client -> {"none", "ok", "failed", "ambiguous"}] /\ w \in Client
          /\ Client = {w}
  BY StreamFacts, StreamAssumption DEF IInv, TypeOK
<1>1. published = [c \in Client |-> Finished] /\ published' = [c \in Client |-> Finished']
  <2>1. FinishInv /\ FinishInv'
    BY DEF IInv
  <2>2. published = [c \in Client |-> Finished]
    BY <2>1, PublishedIsFinished
  <2>3. published' = [c \in Client |-> Finished']
    BY <2>1, StreamFacts DEF FinishInv, published
  <2> QED
    BY <2>2, <2>3
<1>2. CASE OwnerStep \/ SinkStep \/ UploadStep \/ UNCHANGED vars
  <2>1. largeFiles' = largeFiles
    BY <1>2, StreamFrame
  <2>2. published' = published
    BY <1>1, <2>1
  <2>3. ASSUME outcome[w] = "none", NEW o \in {"ok", "failed", "ambiguous"}, SettleDone(o)
        PROVE  Contract!Report(w, o)
    <3>1. outcome'[w] = o /\ outcome' = [outcome EXCEPT ![w] = o]
      BY <1>types, <2>3 DEF SettleDone
    <3>2. o = "ok" => Finished
      BY <2>1, <3>1 DEF IInv, OutcomeInv
    <3>3. o = "failed" => ~Finished
      BY <2>1, <3>1 DEF IInv, OutcomeInv
    <3>4. published[w] = Finished
      BY <1>1, <1>types
    <3> HIDE DEF Finished
    <3> QED
      BY <2>2, <2>3, <3>1, <3>2, <3>3, <3>4 DEF Contract!Report
  <2> QED
    BY <1>2, <1>types, <2>2, <2>3, OutcomeFrame DEF Contract!Next, Contract!vars
<1>3. CASE ServerStep
  <2>1. PICK m \in requests : Handle(m) \/ Refuse(m)
    BY <1>3 DEF ServerStep
  <2>2. \A f \in FileId : FileStep(m, f)
    BY <2>1, ServerEffect DEF IInv
  <2>3. outcome' = outcome
    BY <1>3 DEF ServerStep, endVars
  <2>4. CASE Finished' = Finished
    <3> HIDE DEF Finished
    <3> QED
      BY <1>1, <2>3, <2>4 DEF Contract!vars
  <2>5. CASE Finished' # Finished
    <3>1. Finished => Finished'
      BY <2>2 DEF FileStep, Unfinished
    <3>2. m.op = "finish"
      BY <2>2, <2>5, <3>1 DEF FileStep, Unfinished
    <3>3. ~Finished /\ outcome[w] \in {"none", "ambiguous"}
      BY <1>types, <2>1, <3>2 DEF IInv, FinishInv, OutcomeInv
    <3>4. published[w] = FALSE /\ published' = [published EXCEPT ![w] = TRUE]
      <4>1. Finished = FALSE /\ Finished' = TRUE
        BY <2>5, <3>1, <3>3
      <4> HIDE DEF Finished
      <4>2. published = [c \in Client |-> FALSE] /\ published' = [c \in Client |-> TRUE]
        BY <1>1, <4>1
      <4> QED
        BY <1>types, <4>2
    <3> HIDE DEF Finished
    <3>5. Contract!Publish(w)
      BY <2>3, <3>3, <3>4 DEF Contract!Publish
    <3> QED
      BY <1>types, <3>5 DEF Contract!Next
  <2> QED
    BY <2>4, <2>5
<1> QED
  BY <1>2, <1>3 DEF Next

\* The owner of the stream is told the truth about the file: the stream implements
\* LargeFileContract.
THEOREM ContractRefinement == Spec => ContractSpec
<1>1. Init => Contract!Init
  BY StreamAssumption, NobodyAssumption DEF Init, Contract!Init, published, NoFileYet
<1>2. IInv /\ IInv' /\ [Next]_vars => [Contract!Next]_Contract!vars
  BY ContractStep
<1> QED
  BY <1>1, <1>2, Invariance, PTL DEF Spec, ContractSpec, Contract!Spec
=============================================================================
