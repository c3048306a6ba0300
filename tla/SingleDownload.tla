---------------------------- MODULE SingleDownload ----------------------------
(***************************************************************************)
(* One download of a client that reads a file in a single request           *)
(* (download/single.ts, download/checksum.ts, streams/progress.ts): what    *)
(* the server answers, the stream that checks the digest, the progress that *)
(* is told about it, and the headers the caller gets.  Chunks have one byte. *)
(* A listener may throw whenever it is called.                              *)
(***************************************************************************)
EXTENDS FileContents

VARIABLE reader

NoReader == [phase |-> "idle"]

-----------------------------------------------------------------------------
(* ProgressTracker.  told is the last snapshot the listener got; timer, an emission that   *)
(* is put off; error, what the listener threw at a timer; throws, what a call throws.      *)

Untold == [bytes |-> None, parts |-> None]
Silent == [on |-> FALSE, bytes |-> 0, parts |-> 0, told |-> Untold, begun |-> FALSE,
           timer |-> FALSE, error |-> FALSE, throws |-> FALSE]
Fresh == [Silent EXCEPT !.on = TRUE]

\* emitNow
Emissions(p) ==
    {[p EXCEPT !.timer = FALSE, !.begun = TRUE, !.told = [bytes |-> p.bytes, parts |-> p.parts], !.throws = t] :
        t \in BOOLEAN}

\* throwPendingListenerError
Thrown(p) == [p EXCEPT !.error = FALSE, !.throws = TRUE]

\* addBytes: the first emission is immediate, later ones may be put off.
AfterByte(p) ==
    LET q == [p EXCEPT !.bytes = @ + 1]
    IN  CASE ~ p.on -> {p}
          [] p.on /\ p.error -> {Thrown(p)}
          [] OTHER -> Emissions(q) \cup (IF p.begun THEN {[q EXCEPT !.timer = TRUE]} ELSE {})

\* completePart: what was put off is emitted first.
AfterPart(p) ==
    CASE ~ p.on -> {p}
      [] p.on /\ p.error -> {Thrown(p)}
      [] OTHER -> UNION {IF q.throws THEN {q} ELSE Emissions([q EXCEPT !.parts = @ + 1]) :
                           q \in IF p.timer THEN Emissions(p) ELSE {p}}

\* Mutant: what was put off stays.
ErrorForgotten(p) == [p EXCEPT !.error = FALSE]

\* dispose
Disposed(p) == [p EXCEPT !.timer = FALSE, !.error = FALSE]

-----------------------------------------------------------------------------
(* The request and its answer.                                             *)

\* parseDownloadServerSideEncryption, parseDownloadFileRetention, parseDownloadLegalHold:
\* what the caller is told, "hidden" where a marker says so.
ParsedHeaders(r) ==
    [encryption |-> r.encryption,
     retention |-> IF "retention" \in r.markers THEN "hidden" ELSE IF r.retained THEN "yes" ELSE "no",
     hold |-> IF "hold" \in r.markers THEN "hidden" ELSE r.hold,
     markers |-> r.markers]

\* prepareDownloadBody, verifyDownloadStream: whole bodies with a digest.
Verified(method, range, sha1) == method = "GET" /\ range = Whole /\ sha1.known

\* What the raw client makes of an answer: an error, headers only, or headers and a stream.
Answered(f, capabilities, method, range, progress) ==
    LET content == contents[f.id]
        r == Response(content, capabilities, range)
    IN  [phase |-> CASE r.status = 416 -> "refused"
                     [] r.status # 416 /\ method = "HEAD" -> "closed"
                     [] OTHER -> "open",
         file |-> f.id, was |-> content, method |-> method, range |-> range, capabilities |-> capabilities,
         wire |-> IF method = "HEAD" THEN <<>> ELSE r.body, got |-> <<>>,
         view |-> ParsedHeaders(r), verify |-> Verified(method, range, r.sha1), sha1 |-> r.sha1,
         queued |-> FALSE, complete |-> FALSE, progress |-> progress]

\* downloadById, downloadByName, headById, headByName: the server answers in one turn.
Answer(f, capabilities, method, range, headers) ==
    /\ DownloadAccepted(contents[f.id].sse, headers)
    /\ \E progress \in IF method = "HEAD" THEN {Silent} ELSE {Silent, Fresh} :
          reader' = Answered(f, capabilities, method, range, progress)
    /\ opened' = opened \cup {[file |-> f.id, key |-> headers.key]}
    /\ UNCHANGED <<storageVars, defaults, arriving, contents, largeFiles>>

\* A reader with the token of an account, by id or by name.
ReadWithToken(t, f, method, range, headers) ==
    /\ May("read") /\ reader = NoReader
    /\ f.bucket \in Live /\ MayRead(t, f)
    /\ Answer(f, t.caps, method, range, headers)

\* A reader with a download authorization, by name: it has no capabilities.
ReadWithAuthorization(d, name, method, range, headers) ==
    /\ May("read") /\ reader = NoReader
    /\ \E f \in Current(d.bucket, name) :
          /\ AuthorizationCovers(d, f)
          /\ Answer(f, {}, method, range, headers)

-----------------------------------------------------------------------------
(* The stream.  A pull is pending while nothing is queued.                 *)

Pulling == reader.phase = "open" /\ ~ reader.queued

SameService == UNCHANGED <<storageVars, contentVars>>

\* A byte arrives, perhaps not as it was sent.
Chunk ==
    /\ Pulling /\ reader.wire # <<>>
    /\ \E byte \in {0, Head(reader.wire)}, p \in AfterByte(reader.progress) :
          reader' = IF p.throws THEN [reader EXCEPT !.phase = "failed", !.progress = Disposed(p)]
                    ELSE [reader EXCEPT !.wire = Tail(@), !.got = Append(@, byte), !.queued = TRUE, !.progress = p]
    /\ SameService

Consume ==
    /\ reader.phase = "open" /\ reader.queued
    /\ reader' = [reader EXCEPT !.queued = FALSE]
    /\ SameService

\* The body ends, perhaps too early: the digest first, then the last emission.
Intact == reader.verify => reader.got = reader.sha1.of

EndOfBody ==
    /\ Pulling
    /\ reader' \in IF Intact
                   THEN {[reader EXCEPT !.phase = IF p.throws THEN "failed" ELSE "closed", !.complete = TRUE,
                                        !.progress = Disposed(p)] : p \in AfterPart(reader.progress)}
                   ELSE {[reader EXCEPT !.phase = "failed", !.progress = Disposed(@)]}
    /\ SameService

ConnectionBreaks ==
    /\ Pulling
    /\ reader' = [reader EXCEPT !.phase = "failed", !.progress = Disposed(@)]
    /\ SameService

\* cancel, with a chunk in the queue and no read pending.
CancelReading ==
    /\ reader.phase = "open" /\ reader.queued
    /\ reader' = [reader EXCEPT !.phase = "cancelled", !.progress = Disposed(@)]
    /\ SameService

\* cancel, with a read pending: it ends as if the body did, unchecked, and the part is told to be
\* complete.
CancelPendingRead ==
    /\ Pulling
    /\ reader' \in {[reader EXCEPT !.phase = "dropped", !.progress = Disposed(p)] : p \in AfterPart(Disposed(reader.progress))}
    /\ SameService

\* The timer of an emission that was put off.
TimerFires ==
    /\ reader # NoReader /\ reader.progress.timer
    /\ \E p \in Emissions(reader.progress) :
          reader' = [reader EXCEPT !.progress = [p EXCEPT !.error = p.throws, !.throws = FALSE]]
    /\ SameService

StreamNext ==
    reader # NoReader /\ (Chunk \/ Consume \/ EndOfBody \/ ConnectionBreaks \/ CancelReading \/ CancelPendingRead \/ TimerFires)

ReadNext ==
    \/ \E method \in {"GET", "HEAD"}, range \in plan.ranges, headers \in plan.headers :
          \/ \E t \in tokens, f \in stored : ReadWithToken(t, f, method, range, headers)
          \/ \E d \in granted, name \in Name : ReadWithAuthorization(d, name, method, range, headers)
    \/ StreamNext

-----------------------------------------------------------------------------
\* A whole download of a file whose digest is known ends without an error only with the bytes
\* its uploader sent, whatever happened to them on the way in, in a copy or on the way out.
ReadsAreWhatWasSent ==
    reader # NoReader =>
        (reader.phase = "closed" /\ reader.method = "GET" /\ reader.range = Whole /\ reader.sha1.known
           => reader.got = reader.was.meant)

\* Nobody has read or copied a file encrypted with a customer's key without that key.
OnlyKeyHolders ==
    \A o \in opened : contents[o.file].sse.mode = "SSE-C" => o.key = contents[o.file].sse.key

\* What a caller is told of encryption and locks is what the file had, or says that it is
\* hidden: a value a caller does not see is never shown as absent, and none is shown to a
\* caller without the capability for it.
TruthfulView ==
    reader # NoReader /\ reader.phase # "refused" =>
        LET v == reader.view was == reader.was
        IN  /\ v.encryption = was.sse.mode \/ "encryption" \in v.markers
            /\ v.retention = (IF was.lock.retained THEN "yes" ELSE "no") \/ v.retention = "hidden"
            /\ v.hold = was.lock.hold \/ v.hold = "hidden"
            /\ v.encryption # "none" => "readBucketEncryption" \in reader.capabilities
            /\ v.retention = "yes" => "readFileRetentions" \in reader.capabilities
            /\ v.hold \in {"on", "off"} => "readFileLegalHolds" \in reader.capabilities

\* Whoever reads a file holds its key, and is told the truth of what it may know of it.
ReadersSeeWhatTheyMay == OnlyKeyHolders /\ TruthfulView

\* Once a download has ended, however it did, no emission is still to come; a whole body has been
\* told to the last byte and as complete.  A part that is told to be complete was told with every
\* byte that came; and its body ended and was checked, unless the reader cancelled at a moment when
\* a read was pending.  (The documentation knows no such exception: UnreadIsNeverComplete.)
ProgressEndsWithTheBody ==
    reader # NoReader =>
        /\ reader.phase # "open" => ~ reader.progress.timer
        /\ reader.progress.told.parts = 1 =>
              /\ reader.progress.told.bytes = Len(reader.got)
              /\ (reader.complete /\ Intact) \/ reader.phase = "dropped"
        /\ reader.phase = "closed" /\ reader.progress.on
             => reader.progress.told = [bytes |-> Len(reader.got), parts |-> 1]

\* What DownloadCommonOptions.onProgress is documented to promise: a body that was not read to
\* completion is never told to be complete, and "that is intentional".
UnreadIsNeverComplete ==
    reader # NoReader => (reader.progress.told.parts = 1 => reader.complete)
=============================================================================
