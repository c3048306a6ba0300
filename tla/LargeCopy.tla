------------------------------- MODULE LargeCopy -------------------------------
(***************************************************************************)
(* copyLargeFile (copy/large.ts) against the files of FileContents: the size *)
(* of the source decides between one request and a large file whose parts    *)
(* are copied a few at a time, and an error or an abort cancels the large    *)
(* file unless its finish may have been committed.                           *)
(*                                                                         *)
(* A request of the call is with a handler of the simulator, whose slot the  *)
(* call remembers, or on its way; the call may give up on it at any moment,   *)
(* and it is served all the same.  A plan says what is asked for: calls,      *)
(* [partSize, concurrency, source, destination] with the two encryptions.    *)
(***************************************************************************)
EXTENDS FileContents

\* copyLargeFile raises the size of a part to the service's minimum.
ASSUME CallAssumption == \A p \in Plan : \A ask \in p.calls : ask.partSize \in Nat \ {0}

VARIABLE call

NoCall == [phase |-> "idle"]
NoFile == File(None, None, None)

\* sent: the slot of each part's request; sha1s: what came back, by part.  result is history.
NewCall(t, f, b, name, ask) ==
    [phase |-> "sizing", token |-> t, source |-> f, bucket |-> b, name |-> name, ask |-> ask,
     size |-> 0, file |-> NoFile, slot |-> None, sent |-> <<>>, sha1s |-> <<>>, aborted |-> FALSE,
     onWay |-> {}, straggler |-> "none", outcome |-> "none", result |-> None, reported |-> {}]

\* The call settles.
Ended(c, outcome) == [c EXCEPT !.phase = "settled", !.outcome = outcome]

\* The catch block: what is left of the parts is aborted, and the large file is cancelled.
CleaningUp(c) == [c EXCEPT !.phase = "cancelling", !.sent = <<>>, !.onWay = @ \cup {"cancel"}]

\* The slot that the request of this step took.
SlotTaken == CHOOSE s \in Slot : waiting'[s] # waiting[s]

SameFiles == UNCHANGED <<storageVars, contentVars>>

-----------------------------------------------------------------------------
(* The plan of parts.                                                      *)

\* Mutant: the last range ends where a full one would, the others one byte late.
RangesOverlap(size, partSize, n) == Closed((n - 1) * partSize, Least(n * partSize, size - 1))

\* planRanges, byteRangeHeader
RangeOf(size, partSize, n) == Closed((n - 1) * partSize, Least(n * partSize, size) - 1)

PartNumbers == 1..((call.size + call.ask.partSize - 1) \div call.ask.partSize)

PartCopy(n) == [source |-> call.ask.source, destination |-> call.ask.destination,
                range |-> RangeOf(call.size, call.ask.partSize, n)]

-----------------------------------------------------------------------------
(* Requests.                                                               *)

CopyLargeFile(t, f, b, name, ask) ==
    /\ May("copyLarge") /\ call = NoCall
    /\ call' = NewCall(t, f, b, name, ask)
    /\ SameFiles

\* The answer of getFileInfo, which is given no signal.
SizeKnown ==
    /\ call.phase = "sizing"
    /\ call' = IF call.source \notin stored THEN Ended(call, "failed")
               ELSE LET size == Len(contents[call.source.id].data)
                    IN  [call EXCEPT !.size = size,
                                     !.phase = IF size <= call.ask.partSize THEN "single" ELSE "starting"]
    /\ SameFiles

\* An abort, or an error the service answers before a handler waits.
NotSent ==
    /\ \/ call.phase \in {"single", "starting"} /\ call.slot = None /\ call.aborted
       \/ call.phase = "single" /\ call.slot = None /\ call.source \notin stored
    /\ call' = Ended(call, "failed") /\ SameFiles

SendCopy ==
    /\ call.phase = "single" /\ call.slot = None /\ ~ call.aborted /\ call.source \in stored
    /\ CopyContents(call.token, call.source, call.bucket, call.name,
                    [source |-> call.ask.source, destination |-> call.ask.destination, range |-> Whole])
    /\ call' = [call EXCEPT !.slot = SlotTaken]

SendStart ==
    /\ call.phase = "starting" /\ call.slot = None /\ ~ call.aborted
    /\ StartLargeContents(call.token, call.bucket, call.name,
                          [setting |-> call.ask.destination, retained |-> FALSE, info |-> None])
    /\ call' = [call EXCEPT !.slot = SlotTaken]

\* The tasks take the semaphore in the order of their parts.
NextPart(n) ==
    /\ call.phase = "parts" /\ Cardinality(DOMAIN call.sent) < call.ask.concurrency
    /\ n \in PartNumbers \ (DOMAIN call.sent \cup DOMAIN call.sha1s)
    /\ \A m \in 1..(n - 1) : m \in DOMAIN call.sent \cup DOMAIN call.sha1s

SendPart(n) ==
    /\ NextPart(n)
    /\ IF call.source \in stored /\ call.file \in unfinished
       THEN /\ CopyPart(call.token, call.source, call.file, n, PartCopy(n))
            /\ call' = [call EXCEPT !.sent = With(@, n, SlotTaken)]
       ELSE call' = CleaningUp(call) /\ SameFiles

-----------------------------------------------------------------------------
(* Answers.  A handler that leaves its slot has answered.                   *)

\* The last part's answer sends the finish.
PartCopied(n, sha1) ==
    LET c == [call EXCEPT !.sent = [i \in DOMAIN call.sent \ {n} |-> call.sent[i]], !.sha1s = With(@, n, sha1)]
    IN  IF DOMAIN c.sha1s = PartNumbers THEN [c EXCEPT !.phase = "finishing", !.onWay = {"finish"}] ELSE c

\* A file that was started after the call stopped waiting is cancelled: cancelLargeFileAfterStart.
StartedLate(file) == [call EXCEPT !.file = file, !.straggler = "cancelling", !.onWay = {"cancel"}]

CallAfter ==
    LET left == {s \in Slot : waiting[s] # NoHandler /\ waiting'[s] = NoHandler}
        slot == CHOOSE s \in left : TRUE
        fits == arriving[slot].ok
    IN  CASE left = {} \/ call.phase = "idle" -> call
          [] left # {} /\ call.phase = "single" /\ call.slot = slot ->
                 IF fits THEN [Ended(call, "ok") EXCEPT !.result = nextId] ELSE Ended(call, "failed")
          [] left # {} /\ call.phase = "starting" /\ call.slot = slot ->
                 IF fits THEN [call EXCEPT !.file = waiting[slot].file, !.phase = "parts"] ELSE Ended(call, "failed")
          [] left # {} /\ call.phase = "settled" /\ call.straggler = "watching" /\ call.slot = slot ->
                 IF fits THEN StartedLate(waiting[slot].file) ELSE [call EXCEPT !.straggler = "closed"]
          [] left # {} /\ call.phase = "parts" /\ (\E n \in DOMAIN call.sent : call.sent[n] = slot) ->
                 IF fits THEN PartCopied(waiting[slot].number, arriving[slot].content.sha1) ELSE CleaningUp(call)
          [] OTHER -> call

\* finishLargeFile is served, or refused.
FinishServed ==
    /\ call.phase # "idle" /\ "finish" \in call.onWay
    /\ LET answered == [call EXCEPT !.onWay = @ \ {"finish"}]
           waits == call.phase = "finishing"
       IN  IF call.file \in unfinished /\ call.sha1s = DigestsOf(OrderedParts(largeFiles[call.file.id]))
           THEN /\ FinishContents(call.token, call.file, call.sha1s)
                /\ call' = IF waits THEN [Ended(answered, "ok") EXCEPT !.result = nextId] ELSE answered
           ELSE call' = (IF waits THEN CleaningUp(answered) ELSE answered) /\ SameFiles

\* cancelLargeFile is served, or refused: the file was finished or cancelled meanwhile.
CancelServed ==
    /\ call.phase # "idle" /\ "cancel" \in call.onWay
    /\ LET done == [call EXCEPT !.onWay = @ \ {"cancel"},
                                !.phase = "settled", !.outcome = "failed",
                                !.straggler = IF @ = "cancelling" THEN "closed" ELSE @]
       IN  IF call.file \in unfinished
           THEN CancelLargeFile(call.token, call.file) /\ UNCHANGED contentVars /\ call' = done
           ELSE call' = [done EXCEPT !.reported = @ \cup {"cancel-failed"}] /\ SameFiles

-----------------------------------------------------------------------------
(* Giving up.                                                              *)

\* A finish without an answer may have been committed: FinishLargeFileResponseBodyError.
FinishUnknown(c) == [Ended(c, "ambiguous") EXCEPT !.reported = @ \cup {"finish-ambiguous"}]

\* An error of the network while a request is out, or the 30 s of a cleanup.
RequestFails ==
    /\ \/ call.phase \in {"sizing", "finishing", "cancelling"}
       \/ call.phase \in {"single", "starting"} /\ call.slot # None
       \/ call.phase = "parts" /\ DOMAIN call.sent # {}
    /\ call' = CASE call.phase = "parts" -> CleaningUp(call)
                 [] call.phase = "finishing" -> FinishUnknown(call)
                 [] call.phase = "cancelling" -> [Ended(call, "failed") EXCEPT !.reported = @ \cup {"cancel-failed"}]
                 [] OTHER -> Ended(call, "failed")
    /\ SameFiles

\* options.signal; a cleanup heeds a signal that was not aborted when it began.
CallerAborts ==
    /\ call.phase \notin {"idle", "settled"} /\ ~ call.aborted
    /\ LET c == [call EXCEPT !.aborted = TRUE]
       IN  call' = CASE call.phase = "sizing" \/ (call.phase \in {"single", "starting"} /\ call.slot = None) -> c
                     [] call.phase = "single" /\ call.slot # None -> Ended(c, "failed")
                     [] call.phase = "starting" /\ call.slot # None -> [Ended(c, "failed") EXCEPT !.straggler = "watching"]
                     [] call.phase = "parts" -> CleaningUp(c)
                     [] call.phase = "finishing" -> FinishUnknown(c)
                     [] call.phase = "cancelling" -> [Ended(c, "failed") EXCEPT !.reported = @ \cup {"cancel-failed"}]
    /\ SameFiles

CopyNext ==
    \/ \E t \in tokens, f \in stored, b \in Live, name \in Name, ask \in plan.calls : CopyLargeFile(t, f, b, name, ask)
    \/ SizeKnown \/ NotSent \/ SendCopy \/ SendStart
    \/ call.phase = "parts" /\ \E n \in PartNumbers : SendPart(n)
    \/ FinishServed \/ CancelServed \/ RequestFails \/ CallerAborts

-----------------------------------------------------------------------------
\* Some part is not what its digest is of: a digest given as "unverified:" is stored as it is.
MerelyClaimed(large) == \E n \in DOMAIN large.parts : large.parts[n].data # large.parts[n].sha1.of

\* Whoever else writes to, finishes or cancels the large file, and whether the source is deleted
\* under the copy: a copy that returns has the bytes of its source, unless another's part has
\* merely claimed its digest; and one that failed leaves no unfinished file, unless it said so
\* or never learned the id of the file it started.
CopyIsWhole ==
    call.phase = "settled" =>
        /\ call.outcome = "ok" =>
              \/ contents[call.result].data = contents[call.source.id].data
              \/ call.file # NoFile /\ MerelyClaimed(largeFiles[call.file.id])
        /\ call.outcome = "failed" /\ call.file # NoFile /\ call.reported = {} /\ call.straggler # "cancelling"
               => call.file \notin unfinished
=============================================================================
