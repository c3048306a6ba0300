--------------------------- MODULE ParallelDownload ---------------------------
(***************************************************************************)
(* createParallelDownloadStream (download/parallel.ts): a ReadableStream   *)
(* that fetches the ranges of a file in a sliding window, several at once, *)
(* and hands them to its reader in order, checked against the SHA-1 that   *)
(* every range response carries.                                           *)
(*                                                                         *)
(* A range response is a record: the range its bytes belong to, whether    *)
(* they are the file's bytes, and its X-Bz-Content-Sha1.  The retries of   *)
(* one range are part of its fetch.  The ReadableStream (external) calls   *)
(* pull when its queue, of one chunk, is empty and no pull is running.     *)
(***************************************************************************)
EXTENDS Integers, Sequences, FiniteSets

CONSTANTS MaxRanges,   \* bound: ranges of a file
          Concurrency, \* options.concurrency
          NoResult     \* no entry in the buffer

ASSUME RangesAssumption == MaxRanges \in Nat
ASSUME LimitAssumption == Concurrency \in Nat \ {0}

VARIABLES ranges,       \* ranges.length
          nextToSchedule,
          nextToEmit,
          inflight,     \* ranges being fetched
          buffer,       \* fetched ranges that wait for their turn
          expectedSha1,
          firstError,   \* has a range failed
          aborted,      \* internalAbort
          pull,         \* where pull is
          chunk,        \* the result pull has taken out of the buffer
          stream,
          queue,        \* chunks the reader has not read
          delivered     \* every chunk enqueued

windowVars == <<ranges, nextToSchedule, nextToEmit, inflight, buffer>>
pullVars   == <<expectedSha1, pull, chunk>>
streamVars == <<stream, queue, delivered>>
vars == <<windowVars, firstError, aborted, pullVars, streamVars>>

Index == 0..(MaxRanges - 1)
\* "file" is the SHA-1 of the file, "null" one that is missing or unverifiable.
Sha    == {"file", "other", "null"}
Result == [range: Index, intact: BOOLEAN, sha: Sha]
ASSUME NoResultAssumption == NoResult \notin Result

TypeOK ==
    /\ ranges \in 0..MaxRanges
    /\ nextToSchedule \in 0..ranges
    /\ nextToEmit \in 0..ranges
    /\ inflight \in SUBSET Index
    /\ buffer \in [Index -> Result \cup {NoResult}]
    /\ expectedSha1 \in Sha \cup {"undefined"}
    /\ firstError \in BOOLEAN
    /\ aborted \in BOOLEAN
    /\ pull \in {"idle", "waiting", "racing", "hashing", "digesting"}
    /\ chunk \in Result \cup {NoResult}
    /\ stream \in {"open", "closed", "errored", "cancelled"}
    /\ queue \in 0..1
    /\ delivered \in Seq(Result)

Buffered(buf) == {i \in Index : buf[i] # NoResult}

-----------------------------------------------------------------------------
(* The window.                                                             *)

\* windowSize - inflight.size - buffer.size
Room(inf, buf) == 2 * Concurrency - Cardinality(inf) - Cardinality(Buffered(buf))

\* nextToSchedule after scheduleNext, which stops after an abort or an error.
ScheduledUpTo(inf, buf) ==
    IF aborted \/ firstError \/ Room(inf, buf) <= 0 THEN nextToSchedule
    ELSE IF nextToSchedule + Room(inf, buf) < ranges THEN nextToSchedule + Room(inf, buf)
    ELSE ranges

ScheduleNext(buf) ==
    /\ nextToSchedule' = ScheduledUpTo(inflight, buf)
    /\ inflight' = inflight \cup (nextToSchedule..(nextToSchedule' - 1))

\* The constructor: start() schedules the first window, or errors the stream when
\* the caller's signal is aborted already.
Init ==
    /\ ranges \in 0..MaxRanges
    /\ nextToEmit = 0
    /\ buffer = [i \in Index |-> NoResult]
    /\ expectedSha1 = "undefined" /\ firstError = FALSE
    /\ pull = "idle" /\ chunk = NoResult
    /\ queue = 0 /\ delivered = <<>>
    /\ \/ /\ aborted = TRUE /\ stream = "errored"
          /\ nextToSchedule = 0 /\ inflight = {}
       \/ /\ aborted = FALSE /\ stream = "open"
          /\ nextToSchedule = IF 2 * Concurrency < ranges THEN 2 * Concurrency ELSE ranges
          /\ inflight = 0..(nextToSchedule - 1)

-----------------------------------------------------------------------------
(* The fetch of a range.                                                   *)

\* Mutant: the response is taken as it comes.
AnyResponse(i, r) == TRUE

\* validateRangeResponse
ValidResponse(i, r) == r.range = i

\* Promise.race(inflight.values()) settles with the first of them.
WakePull == pull' = IF pull = "racing" THEN "waiting" ELSE pull

RangeArrives(i) ==
    /\ i \in inflight
    /\ \E r \in Result : ValidResponse(i, r) /\ buffer' = [buffer EXCEPT ![i] = r]
    /\ inflight' = inflight \ {i}
    /\ WakePull
    /\ UNCHANGED <<ranges, nextToSchedule, nextToEmit, firstError, aborted, expectedSha1, chunk,
                   streamVars>>

\* The first error aborts the other fetches; pull learns of it.
RangeFails(i) ==
    /\ i \in inflight
    /\ inflight' = inflight \ {i}
    /\ firstError' = TRUE
    /\ aborted' = TRUE
    /\ WakePull
    /\ UNCHANGED <<ranges, nextToSchedule, nextToEmit, buffer, expectedSha1, chunk, streamVars>>

-----------------------------------------------------------------------------
(* pull                                                                    *)

Pull ==
    /\ stream = "open" /\ pull = "idle" /\ queue = 0
    /\ pull' = "waiting"
    /\ UNCHANGED <<windowVars, firstError, aborted, expectedSha1, chunk, streamVars>>

\* The catch block: abort the fetches and error the stream, unless it has ended.
Throw ==
    /\ aborted' = TRUE
    /\ pull' = "idle" /\ chunk' = NoResult
    /\ stream' = IF stream = "open" THEN "errored" ELSE stream
    /\ queue' = 0
    /\ UNCHANGED <<nextToSchedule, inflight, delivered>>

\* Everything has been emitted.  A known SHA-1 is checked before the stream closes.
AllEmitted(n, buf) == n >= ranges /\ Buffered(buf) = {} /\ inflight' = {} /\ ~firstError

CloseIfDone(sha, n, buf) ==
    \/ ~AllEmitted(n, buf) /\ pull' = "idle" /\ UNCHANGED stream
    \/ /\ AllEmitted(n, buf)
       /\ pull'   = IF sha = "null" THEN "idle" ELSE "digesting"
       /\ stream' = IF sha = "null" THEN "closed" ELSE stream

\* controller.enqueue(result.data), scheduleNext and the check for the end.
Enqueue(r, sha, n, buf) ==
    \/ /\ stream = "open"
       /\ delivered' = Append(delivered, r)
       /\ queue' = 1
       /\ ScheduleNext(buf)
       /\ CloseIfDone(sha, n, buf)
       /\ chunk' = NoResult
       /\ UNCHANGED aborted
    \* enqueue throws: the reader has cancelled the stream.
    \/ stream # "open" /\ Throw

Agrees(sha) == expectedSha1 \in {"undefined", sha}

\* The next chunk is there.  With a SHA-1 to check it is hashed before it is enqueued.
TakeChunk ==
    /\ pull = "waiting" /\ nextToEmit \in Buffered(buffer)
    /\ LET r   == buffer[nextToEmit]
           buf == [buffer EXCEPT ![nextToEmit] = NoResult]
       IN /\ buffer' = buf
          /\ nextToEmit' = nextToEmit + 1
          /\ \/ /\ ~Agrees(r.sha) /\ Throw /\ UNCHANGED expectedSha1
             \/ /\ Agrees(r.sha) /\ expectedSha1' = r.sha
                /\ \/ r.sha = "null" /\ Enqueue(r, "null", nextToEmit + 1, buf)
                   \/ /\ r.sha # "null" /\ pull' = "hashing" /\ chunk' = r
                      /\ UNCHANGED <<nextToSchedule, inflight, aborted, streamVars>>
    /\ UNCHANGED <<ranges, firstError>>

\* The hash has taken the chunk in.
Hashed ==
    /\ pull = "hashing"
    /\ Enqueue(chunk, expectedSha1, nextToEmit, buffer)
    /\ UNCHANGED <<ranges, nextToEmit, buffer, firstError, expectedSha1>>

\* Mutant: errors are only looked at while something is in flight.
ThrowsInFlight ==
    /\ pull = "waiting" /\ nextToEmit \notin Buffered(buffer)
    /\ aborted \/ firstError
    /\ inflight # {}
    /\ Throw
    /\ UNCHANGED <<ranges, nextToEmit, buffer, firstError, expectedSha1>>

\* abort.throwIfAborted(), and the error of a range.
PullThrows ==
    /\ pull = "waiting" /\ nextToEmit \notin Buffered(buffer)
    /\ aborted \/ firstError
    /\ Throw
    /\ UNCHANGED <<ranges, nextToEmit, buffer, firstError, expectedSha1>>

PullRaces ==
    /\ pull = "waiting" /\ nextToEmit \notin Buffered(buffer)
    /\ ~aborted /\ ~firstError /\ inflight # {}
    /\ pull' = "racing"
    /\ UNCHANGED <<windowVars, firstError, aborted, expectedSha1, chunk, streamVars>>

\* Nothing is in flight: the end of an empty file.
PullCloses ==
    /\ pull = "waiting" /\ nextToEmit \notin Buffered(buffer)
    /\ ~aborted /\ ~firstError /\ inflight = {}
    /\ stream' = "closed" /\ pull' = "idle"
    /\ UNCHANGED <<windowVars, firstError, aborted, expectedSha1, chunk, queue, delivered>>

\* Mutant: the digest is not compared.
AnyDigest == TRUE

\* assertDownloadSha1: the SHA-1 of everything hashed is the expected one.
DigestMatches ==
    /\ expectedSha1 = "file"
    /\ \A i \in DOMAIN delivered : delivered[i].intact

Digested ==
    /\ pull = "digesting"
    /\ \/ /\ DigestMatches /\ stream = "open"
          /\ stream' = "closed" /\ pull' = "idle"
          /\ UNCHANGED <<nextToSchedule, inflight, aborted, chunk, queue, delivered>>
       \/ ~(DigestMatches /\ stream = "open") /\ Throw
    /\ UNCHANGED <<ranges, nextToEmit, buffer, firstError, expectedSha1>>

-----------------------------------------------------------------------------
(* The reader and the caller.                                              *)

Read ==
    /\ queue = 1 /\ queue' = 0
    /\ UNCHANGED <<windowVars, firstError, aborted, pullVars, stream, delivered>>

\* reader.cancel(): abort the fetches, drop what is buffered.
Cancel ==
    /\ stream = "open"
    /\ stream' = "cancelled" /\ queue' = 0
    /\ aborted' = TRUE
    /\ buffer' = [i \in Index |-> NoResult]
    /\ UNCHANGED <<ranges, nextToSchedule, nextToEmit, inflight, firstError, pullVars, delivered>>

\* options.signal; its listener is removed when the stream ends.
CallerAborts ==
    /\ stream = "open" /\ ~aborted
    /\ aborted' = TRUE
    /\ UNCHANGED <<windowVars, firstError, pullVars, streamVars>>

-----------------------------------------------------------------------------

PullStep == Pull \/ TakeChunk \/ Hashed \/ PullThrows \/ PullRaces \/ PullCloses \/ Digested
FetchStep(i) == RangeArrives(i) \/ RangeFails(i)

Next == \/ PullStep \/ Read \/ Cancel \/ CallerAborts
        \/ \E i \in Index : FetchStep(i)

Spec == Init /\ [][Next]_vars

\* The event loop runs what is ready and every fetch ends; the reader and the
\* caller do what they like.
FairSpec == Spec /\ WF_vars(PullStep) /\ \A i \in Index : WF_vars(FetchStep(i))

-----------------------------------------------------------------------------
(* Properties.                                                             *)

\* The reader gets the ranges in order, each once, and the stream is only closed
\* after the last (ByteStream), however the ranges arrive, fail or are aborted.
Bytes == INSTANCE ByteStream
           WITH chunks <- [i \in 1..Len(delivered) |-> delivered[i].range],
                status <- stream, size <- ranges
InOrder == Bytes!Spec

\* A stream that closes has delivered the bytes of the file, if the server said
\* what their SHA-1 is.
ClosedMeansIntact ==
    stream = "closed" /\ (\E i \in DOMAIN delivered : delivered[i].sha # "null") =>
        /\ \A i \in DOMAIN delivered : delivered[i].intact
        /\ \A i \in DOMAIN delivered : delivered[i].sha = "file"

\* What is fetched and not yet handed over stays within twice the concurrency, the
\* bound the doc gives for memory, whichever range is slow.
WindowBound == Cardinality(inflight) + Cardinality(Buffered(buffer)) <= 2 * Concurrency

\* When the stream has ended no fetch goes on that has not been aborted.
NothingOutlivesTheStream == stream # "open" => aborted \/ inflight = {}

\* A reader that waits gets a chunk or the end.
ReaderIsServed == (stream = "open" /\ queue = 0) ~> (queue = 1 \/ stream # "open")

-----------------------------------------------------------------------------
(* The inductive invariant of ParallelDownloadProofs.                      *)

\* Nothing is scheduled or buffered outside the window, and nothing twice.
WindowInv ==
    /\ nextToEmit <= nextToSchedule
    /\ \A i \in inflight : nextToEmit <= i /\ i < nextToSchedule
    /\ \A i \in Buffered(buffer) :
         /\ nextToEmit <= i /\ i < nextToSchedule /\ i \notin inflight
         /\ buffer[i].range = i

\* An open stream loses no range of the window, and pull never waits for nothing.
ProgressInv ==
    /\ firstError => aborted
    /\ stream = "open" /\ ~aborted =>
         /\ \A i \in nextToEmit..(nextToSchedule - 1) : i \in inflight \cup Buffered(buffer)
         /\ pull \in {"idle", "waiting", "racing"} => ranges = 0 \/ nextToEmit < nextToSchedule

\* What has been enqueued is what has been emitted, but for the chunk being hashed.
DeliveryInv ==
    /\ \A k \in DOMAIN delivered : delivered[k].range = k - 1
    /\ pull = "hashing" => chunk \in Result /\ chunk.range = nextToEmit - 1
    /\ stream = "open" =>
         Len(delivered) = IF pull = "hashing" THEN nextToEmit - 1 ELSE nextToEmit
    /\ stream = "closed" => Len(delivered) = ranges /\ inflight = {}
    /\ pull = "digesting" => Len(delivered) = ranges /\ nextToEmit = ranges

\* One SHA-1 for all chunks, which a closed stream has checked.
ShaInv ==
    /\ \A k \in DOMAIN delivered : delivered[k].sha = expectedSha1
    /\ pull = "hashing" => chunk.sha = expectedSha1
    /\ stream = "closed" /\ delivered # <<>> /\ expectedSha1 # "null" =>
         /\ expectedSha1 = "file"
         /\ \A k \in DOMAIN delivered : delivered[k].intact

\* pull has returned when the stream closes; it may still run when the stream ends
\* otherwise, with the fetches aborted.
StreamInv ==
    /\ stream = "closed" => pull = "idle"
    /\ stream \in {"errored", "cancelled"} => aborted

IInv == /\ TypeOK /\ WindowInv /\ ProgressInv /\ DeliveryInv /\ ShaInv /\ StreamInv
        /\ WindowBound
=============================================================================
