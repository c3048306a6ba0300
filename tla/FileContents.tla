----------------------------- MODULE FileContents -----------------------------
(***************************************************************************)
(* What the files of the simulator hold and who may read it                 *)
(* (simulator/index.ts): uploads, parts and copies carry bytes, a checksum   *)
(* and encryption, files get locks, and downloads get bytes and headers.     *)
(* Each action is one of StorageService with what it does to the contents;   *)
(* what a handler stores is settled before it waits, from what it captured.  *)
(* A digest is the bytes it is of.  A plan says what is put, copied and asked *)
(* for: puts, copies, starts.                                               *)
(***************************************************************************)
EXTENDS StorageService, Encryption, SequencesExt

\* Files are read in plans that look into them, and bytes are put with digests in the ways there are.
ASSUME PlanAssumption ==
    \A p \in Plan :
        /\ p.ops \cap {"read", "resume", "copyLarge"} # {} => "contents" \in p.ops
        /\ p.handlers \in Nat
        /\ \A copy \in p.copies : copy.range.first \in Nat /\ copy.range.last \in Nat
        /\ \A put \in p.puts : put.data \in Seq(Nat) /\ put.mode \in {"none", "unverified", "hex", "at_end"}

VARIABLES defaults,     \* the buckets with SSE-B2 as the default encryption
          arriving,     \* what the handler of each slot will store, and whether it may
          contents,     \* by file id
          largeFiles,   \* by id: how many were added before, encryption and locks as contents, its
                        \* metadata, the parts by number
          opened        \* history: the files read or copied, with the key that was given

contentVars == <<defaults, arriving, contents, largeFiles, opened>>

\* A checksum as it is stored: "none", or a digest.
NoSha1 == [known |-> FALSE, of |-> <<>>]
Sha1(data) == [known |-> TRUE, of |-> data]

\* A hold is null, on or off.
NoLock == [retained |-> FALSE, hold |-> "null"]

\* meant is history: what the uploader sent, or what the server had of it when it copied a range.
Content(data, sha1, sse, meant, lock) ==
    [data |-> data, sha1 |-> sha1, sse |-> sse, meant |-> meant, lock |-> lock, hidden |-> FALSE]

HideMarker == [Content(<<>>, NoSha1, Plain, <<>>, NoLock) EXCEPT !.hidden = TRUE]

\* info is what a large file is started with: its content type and file info.
NoArrival == [ok |-> FALSE, content |-> HideMarker, from |-> None, key |-> Absent, info |-> None]

ContentInit ==
    /\ defaults = {} /\ contents = <<>> /\ largeFiles = <<>> /\ opened = {}
    /\ arriving = [s \in Slot |-> NoArrival]

\* Bytes are flipped on the way, to a byte no uploader sends, or the last are missing.
Damaged(data) == IF data = <<>> THEN data ELSE [data EXCEPT ![1] = 0]
Cut(data) == IF data = <<>> THEN data ELSE SubSeq(data, 1, Len(data) - 1)
Delivered(data) == {data, Damaged(data), Cut(data)}

Default(b) == IF b \in defaults THEN Managed ELSE Plain

With(f, id, value) == [i \in DOMAIN f \cup {id} |-> IF i = id THEN value ELSE f[i]]

\* What the handler that just took a slot will store, if it fits.
Arrive(arrival) ==
    arriving' = [s \in Slot |-> IF waiting'[s] = waiting[s] THEN arriving[s]
                                ELSE IF arrival.ok THEN arrival ELSE NoArrival]
Arrived(s) == arriving' = [arriving EXCEPT ![s] = NoArrival]

-----------------------------------------------------------------------------
(* Checksums and ranges.                                                   *)

\* Mutant: the digest an uploader sends is not looked at.
DigestIgnored(mode, claim, data) == TRUE

\* resolveUploadSha1: a digest in the header or at the end of the body is compared.
DigestFits(mode, claim, data) == mode \in {"hex", "at_end"} => claim = data

\* ... and an unverified one is stored as it is.
ResolvedSha1(mode, claim, data) ==
    CASE mode = "none" -> NoSha1
      [] mode = "unverified" -> Sha1(claim)
      [] OTHER -> Sha1(data)

Least(a, b) == IF a < b THEN a ELSE b
Whole == [kind |-> "whole", first |-> 0, last |-> 0]
Closed(first, last) == [kind |-> "closed", first |-> first, last |-> last]

\* parseRangeHeader: closed, open-ended and suffix ranges, 0-based; an open-ended range from
\* the end of the file or later starts after it ends, and counts as malformed.
ParsedRange(r, size) ==
    LET start == CASE r.kind = "suffix" -> IF size > r.last THEN size - r.last ELSE 0
                   [] OTHER -> r.first
        end == IF r.kind = "closed" THEN r.last ELSE size - 1
    IN  CASE r.kind = "malformed" -> [kind |-> "malformed", start |-> 0, end |-> 0]
          [] r.kind # "malformed" /\ size = 0 -> [kind |-> "unsatisfiable", start |-> 0, end |-> 0]
          [] r.kind # "malformed" /\ size # 0 /\ (start > end \/ (r.kind = "suffix" /\ r.last = 0))
               -> [kind |-> "malformed", start |-> 0, end |-> 0]
          [] r.kind = "closed" /\ size # 0 /\ start <= end /\ start >= size
               -> [kind |-> "unsatisfiable", start |-> 0, end |-> 0]
          [] OTHER -> [kind |-> "ok", start |-> start, end |-> Least(end, size - 1)]

Slice(data, parsed) == IF parsed.kind = "ok" THEN SubSeq(data, parsed.start + 1, parsed.end + 1) ELSE <<>>

-----------------------------------------------------------------------------
(* Uploads and copies.                                                     *)

\* readUploadBody, validateContentLength: a length, if there is one, must be that of the body.
LengthFits(put, data) == put.announced => Len(data) = Len(put.data)

\* A put: the bytes sent, whether their length is, how their digest is, the encryption headers.
PutFile(u, name, put) ==
    /\ UploadFile(u, name)
    /\ \E data \in Delivered(put.data) :
          LET sse == UploadEncryption(put.headers, Default(u.bucket))
          IN  Arrive([ok |-> LengthFits(put, data) /\ DigestFits(put.mode, put.data, data) /\ sse # Refused,
                      content |-> Content(data, ResolvedSha1(put.mode, put.data, data), sse, put.data, NoLock),
                      from |-> None, key |-> Absent, info |-> None])
    /\ UNCHANGED <<defaults, contents, largeFiles, opened>>

\* A copy of a range is another file: it has a digest of its own.
Copied(source, range, sse) ==
    LET parsed == ParsedRange(range, Len(source.data))
    IN  IF range = Whole THEN Content(source.data, source.sha1, sse, source.meant, NoLock)
        ELSE LET slice == Slice(source.data, parsed) IN Content(slice, Sha1(slice), sse, slice, NoLock)

RangeAccepted(source, range) == range = Whole \/ ParsedRange(range, Len(source.data)).kind = "ok"

\* copyFile: a request names the source's encryption and may name the copy's.
CopyContents(t, f, b, name, copy) ==
    LET source == contents[f.id]
        sse == CopyEncryption(copy.destination, Default(b))
    IN  /\ CopyFile(t, f, b, name)
        /\ Arrive([ok |-> SourceAccepted(source.sse, copy.source) /\ sse # Refused
                            /\ RangeAccepted(source, copy.range),
                   content |-> Copied(source, copy.range, sse), from |-> f.id, key |-> copy.source.key, info |-> None])
        /\ UNCHANGED <<defaults, contents, largeFiles, opened>>

\* A copy has been made from here.
OpenedBy(arrival) ==
    IF arrival.from = None THEN opened ELSE opened \cup {[file |-> arrival.from, key |-> arrival.key]}

StoreContents(s) ==
    /\ waiting[s].op = "store" /\ arriving[s].ok
    /\ contents' = With(contents, nextId, arriving[s].content)
    /\ opened' = OpenedBy(arriving[s])
    /\ StoreFile(s) /\ Arrived(s)
    /\ UNCHANGED <<defaults, largeFiles>>

\* Refused after the wait: a digest, a range or an encryption that does not fit.
RefuseArrival(s) ==
    /\ waiting[s].op \in {"store", "start", "part"} /\ ~ arriving[s].ok
    /\ Leave(s) /\ Arrived(s)
    /\ UNCHANGED <<plan, now, nextId, bucketVars, keyVars, urlVars, readVars, hookVars>>
    /\ UNCHANGED <<defaults, contents, largeFiles, opened>>

HideContents(t, b, name) ==
    /\ HideFile(t, b, name)
    /\ contents' = With(contents, nextId, HideMarker)
    /\ UNCHANGED <<defaults, arriving, largeFiles, opened>>

-----------------------------------------------------------------------------
(* Large files.                                                            *)

\* startLargeFile: the request's encryption and retention, or the bucket's.
StartLargeContents(t, b, name, start) ==
    LET sse == CopyEncryption(start.setting, Default(b))
    IN  /\ StartLargeFile(t, b, name)
        /\ Arrive([ok |-> sse # Refused,
                   content |-> Content(<<>>, NoSha1, sse, <<>>,
                                       [NoLock EXCEPT !.retained = start.retained \/ buckets[b].retention]),
                   from |-> None, key |-> Absent, info |-> start.info])
        /\ UNCHANGED <<defaults, contents, largeFiles, opened>>

AddLargeContents(s) ==
    /\ waiting[s].op = "start" /\ arriving[s].ok
    /\ largeFiles' = With(largeFiles, waiting[s].file.id,
                          [since |-> Cardinality(DOMAIN largeFiles), content |-> arriving[s].content,
                           info |-> arriving[s].info, parts |-> <<>>])
    /\ AddLargeFile(s) /\ Arrived(s)
    /\ UNCHANGED <<defaults, contents, opened>>

SameStorage == UNCHANGED <<plan, now, nextId, bucketVars, keyVars, urlVars, readVars, hookVars>>

\* handleUploadPart, over an upload URL of the large file.
PutPart(f, number, put) ==
    /\ May("parts")
    /\ Enter([op |-> "part", file |-> f, number |-> number])
    /\ \E data \in Delivered(put.data) :
          Arrive([ok |-> PartAccepted(largeFiles[f.id].content.sse, put.headers)
                           /\ LengthFits(put, data) /\ DigestFits(put.mode, put.data, data),
                  content |-> Content(data, ResolvedSha1(put.mode, put.data, data), Plain, put.data, NoLock),
                  from |-> None, key |-> Absent, info |-> None])
    /\ SameStorage /\ UNCHANGED <<defaults, contents, largeFiles, opened>>

\* copyPart
CopyPart(t, source, f, number, copy) ==
    LET from == contents[source.id]
    IN  /\ May("parts")
        /\ Authorized(t, "writeFiles", {source.bucket, f.bucket}, {source.name, f.name})
        /\ Enter([op |-> "part", file |-> f, number |-> number])
        /\ Arrive([ok |-> /\ SourceAccepted(from.sse, copy.source)
                          /\ PartDestinationAccepted(largeFiles[f.id].content.sse, copy.destination)
                          /\ RangeAccepted(from, copy.range),
                   content |-> LET c == Copied(from, copy.range, Plain)
                               IN  [c EXCEPT !.sha1 = Sha1(c.data), !.meant = c.data],
                   from |-> source.id, key |-> copy.source.key, info |-> None])
        /\ SameStorage /\ UNCHANGED <<defaults, contents, largeFiles, opened>>

\* The part of a large file that was finished or cancelled meanwhile goes to a record nobody reads.
StorePart(s) ==
    /\ waiting[s].op = "part" /\ arriving[s].ok
    /\ LET f == waiting[s].file
       IN  largeFiles' = IF f \in unfinished
                         THEN [largeFiles EXCEPT ![f.id].parts = With(@, waiting[s].number, arriving[s].content)]
                         ELSE largeFiles
    /\ opened' = OpenedBy(arriving[s])
    /\ Leave(s) /\ Arrived(s)
    /\ SameStorage /\ UNCHANGED <<defaults, contents>>

\* The number that has i - 1 of the others below it.
InOrder(numbers, i) == CHOOSE n \in numbers : Cardinality({m \in numbers : m < n}) = i - 1

\* The parts of a large file in the order of their numbers.
OrderedParts(large) ==
    [i \in 1..Cardinality(DOMAIN large.parts) |-> large.parts[InOrder(DOMAIN large.parts, i)]]

DigestsOf(parts) == [i \in DOMAIN parts |-> parts[i].sha1]
DataOf(parts) == FlattenSeq([i \in DOMAIN parts |-> parts[i].data])
MeantBy(parts) == FlattenSeq([i \in DOMAIN parts |-> parts[i].meant])

\* finishLargeFile: the digests listed are those of the parts that are there, and all but the
\* last have the minimum size; the file has no digest of its own.
FinishContents(t, f, listed) ==
    LET parts == OrderedParts(largeFiles[f.id])
    IN  /\ listed = DigestsOf(parts)
        /\ \A i \in 1..(Len(parts) - 1) : Len(parts[i].data) >= plan.minimum
        /\ contents' = With(contents, nextId, [largeFiles[f.id].content EXCEPT
                                                 !.data = DataOf(parts), !.meant = MeantBy(parts)])
        /\ FinishLargeFile(t, f)
        /\ UNCHANGED <<defaults, arriving, largeFiles, opened>>

\* An uploader that lists what it sent.
Listed(f) == LET parts == OrderedParts(largeFiles[f.id]) IN [i \in DOMAIN parts |-> Sha1(parts[i].meant)]

-----------------------------------------------------------------------------
(* Locks and settings.                                                     *)

\* updateFileRetention and updateFileLegalHold, in buckets with file lock.
Retain(t, f) ==
    /\ May("locks") /\ f.bucket \in Live /\ buckets[f.bucket].locked
    /\ Authorized(t, "writeFileRetentions", {f.bucket}, {f.name})
    /\ contents' = [contents EXCEPT ![f.id].lock.retained = TRUE]
    /\ UNCHANGED <<storageVars, defaults, arriving, largeFiles, opened>>

SetHold(t, f, hold) ==
    /\ May("locks") /\ f.bucket \in Live /\ buckets[f.bucket].locked
    /\ Authorized(t, "writeFileLegalHolds", {f.bucket}, {f.name})
    /\ contents' = [contents EXCEPT ![f.id].lock.hold = hold]
    /\ UNCHANGED <<storageVars, defaults, arriving, largeFiles, opened>>

\* deleteFileVersion, unless the file is held or retained.
DeleteContents(t, f) ==
    /\ ~ contents[f.id].lock.retained /\ contents[f.id].lock.hold # "on"
    /\ DeleteFileVersion(t, f)
    /\ UNCHANGED contentVars

\* updateBucket with a default encryption; the handlers that wait keep the bucket they found.
SetDefaultEncryption(t, b) ==
    /\ May("defaults") /\ b \notin defaults /\ UpdateBucket(t, b, None, "keep", "keep")
    /\ defaults' = defaults \cup {b}
    /\ UNCHANGED <<arriving, contents, largeFiles, opened>>

-----------------------------------------------------------------------------
(* What is asked, when the files are looked into.                          *)

Numbers == 1..plan.parts

ContentNext ==
    \/ \E u \in signed, name \in Name, put \in plan.puts : PutFile(u, name, put)
    \/ \E t \in tokens :
         \/ \E b \in Live : \/ SetDefaultEncryption(t, b)
                            \/ \E name \in Name : HideContents(t, b, name)
                            \/ \E name \in Name, start \in plan.starts : StartLargeContents(t, b, name, start)
         \/ \E f \in stored : \/ Retain(t, f)
                              \/ \E hold \in {"on", "off"} : SetHold(t, f, hold)
                              \/ DeleteContents(t, f)
                              \/ \E b \in Live, name \in Name, copy \in plan.copies : CopyContents(t, f, b, name, copy)
                              \/ \E large \in unfinished, number \in Numbers, copy \in plan.copies :
                                    CopyPart(t, f, large, number, copy)
         \/ \E f \in unfinished : \/ FinishContents(t, f, Listed(f))
                                  \/ CancelLargeFile(t, f) /\ UNCHANGED contentVars
    \/ \E f \in unfinished, number \in Numbers, put \in plan.puts : PutPart(f, number, put)
    \/ \E s \in Slot : StoreContents(s) \/ AddLargeContents(s) \/ StorePart(s) \/ RefuseArrival(s)

-----------------------------------------------------------------------------
(* Downloads.                                                              *)

\* authorizeDownloadRequest: an account's token, or an authorization for names and by name.
MayRead(t, f) == Authorized(t, "readFiles", {f.bucket}, {f.name})

AuthorizationCovers(d, f) ==
    /\ d \in downloadTokens /\ now < d.expires
    /\ f.bucket = d.bucket /\ f.name \in d.names

\* downloadByName: the version stored last, unless it hides the name.
Current(b, name) == {f \in stored : /\ f.bucket = b /\ f.name = name /\ ~ contents[f.id].hidden
                                    /\ \A g \in stored : g.bucket = b /\ g.name = name => g.id <= f.id}

\* Mutant: what may not be read is left out without a marker.
MarkersDropped(content, capabilities) == {}

\* addDownloadEncryptionHeaders, addDownloadObjectLockHeaders: the headers a reader may not see.
Unreadable(content, capabilities) ==
    {m \in {"encryption", "retention", "hold"} :
        \/ m = "encryption" /\ content.sse.mode # "none" /\ "readBucketEncryption" \notin capabilities
        \/ m = "retention" /\ content.lock.retained /\ "readFileRetentions" \notin capabilities
        \/ m = "hold" /\ content.lock.hold # "null" /\ "readFileLegalHolds" \notin capabilities}

\* serveFile: the file, or the range that can be served of it, with its headers.
Response(content, capabilities, range) ==
    LET parsed == ParsedRange(range, Len(content.data))
        hidden == Unreadable(content, capabilities)
    IN  [status |-> CASE range = Whole -> 200
                      [] range # Whole /\ parsed.kind = "malformed" -> 200
                      [] range # Whole /\ parsed.kind = "unsatisfiable" -> 416
                      [] OTHER -> 206,
         body |-> IF range = Whole \/ parsed.kind = "malformed" THEN content.data ELSE Slice(content.data, parsed),
         sha1 |-> content.sha1,
         encryption |-> IF "encryption" \in hidden THEN "none" ELSE content.sse.mode,
         retained |-> content.lock.retained /\ "retention" \notin hidden,
         hold |-> IF "hold" \in hidden THEN "null" ELSE content.lock.hold,
         markers |-> hidden]
=============================================================================
