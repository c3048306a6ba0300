# A TLA+ verification of the B2 SDK for TypeScript

The modules here model the parts of `@backblaze-labs/b2-sdk` (`src/src/`) whose
correctness depends on the order in which things happen, or on two pieces of code that
must agree: uploads, copies and downloads that run several requests at once, requests
that are lost, late or retried, aborts at any moment, tokens and URLs that expire, files
two processes share, and the simulator of the service with its gates and checks. TLC
checks them on small instances (`MC*.cfg`); TLAPS proves every invariant,
action property and refinement the runs check for every value of the constants; what is left
to TLC alone is liveness. `PROJECT.json` lists runs, mutants, findings,
hazards and theorems, and maps every definition to the lines it models.

## 1. Inventory

The SDK is one process with one event loop. "Concurrent" below means: between two
`await`s of one call, any other call may run. Other processes share the server's state,
the token file of `auth/file.ts`, and the directories that sync reads and writes.

| component | state | operations | what is hard | what makes it correct |
|---|---|---|---|---|
| `upload/large.ts` with `finish.ts`, `cancel.ts`, `abort-scope.ts`, `concurrency.ts` | the call's file id, its part tasks, the semaphore, the abort scope, a background continuation of a late start | `uploadLargeFile` | parts in parallel, a finish without an answer, an abort during start, a crash, two uploads in one file | a reported success is the caller's bytes; a failure leaves no file behind silently; a cancel never meets a finish that may still commit; the call settles |
| `upload/stream.ts` | pending bytes, part tasks, start promise, `errored`, `done` | the sink's `write`, `close`, `abort` | background parts fail between two calls of the sink, close and abort overtake the start | `done` tells the truth and settles |
| `upload/resume.ts` | none between calls | `findResumeCandidate`, `collectResumePartInfo` | the listings are pages of something that changes, and have limits | the newest file whose parts fit is adopted, with the digests that were read |
| `copy/large.ts` | like `upload/large.ts` | `copyLargeFile` | the source may go while parts are copied, the start may be answered after an abort | a copy that returns has its source's bytes; a failed one leaves nothing unsaid |
| `simulator/index.ts`: accounts, buckets, URLs | keys, tokens, buckets, upload URLs and the memory of spent ones, download authorizations, webhooks | one handler per endpoint | handlers wait between their checks and their change; memories are pruned | grants are exact; only a deleted bucket loses a file |
| `simulator/index.ts`: large files | unfinished files and their parts | start, part, copy part, finish, cancel | a part stored after the file went away | the server side of the uploads |
| `simulator/index.ts`: versions | file versions, their retention and holds | upload, hide, copy, delete, lock, list | a sequence of lock changes | locked versions stay; listings agree with downloads |
| `simulator/index.ts`: contents | bytes, digests, encryption, locks | upload, copy, download | damage, digests nobody verified, customers' keys, callers who may not see all | what is read is what was sent, by who holds the key, and nothing hidden looks absent |
| `simulator/index.ts`, `capabilities.ts`: the gate | none | one scope per endpoint | a request names several files and buckets | nothing out of a token's reach |
| `simulator/index.ts`, `simulator/validation.ts`, `bucket-validation.ts`, `raw/index.ts`: settings | the settings of buckets with a revision | create, update, the rule helpers | keys and buckets a setting rests on are deleted; two codes check the same values | rules name keys that serve them; the two checks agree |
| `http/transport.ts`, `http/retry.ts` | per `send`: attempt, `didReauth`, headers | `RetryTransport.send` | what may be replayed, and when | unsafe requests reach the server's state once; every send settles |
| `http/transport.ts`, `http/url-guard.ts` | the allowed suffixes; per request a timer, a listener on the caller's signal, a body | `FetchTransport.send`, the reads of its answer, `check` | timer, abort, chunk, cancel and redirect interleave; the guard is locked under a request | nothing outlives its exchange; who ended it is who is blamed; nothing leaves the realm |
| `auth/reauth-coalescer.ts`, `client.ts` | the in-flight refresh and its waiters, the stored token | `run`, `start`, `authorize` | waiters come and go while the refresh runs, microtask windows | one refresh at a time, newer tokens only, a leaving waiter harms nobody |
| `auth/upload-url-pool.ts`, `upload/retry.ts`, `upload/single.ts` | stacks of upload URLs | `checkout`, `checkin`, `evict`, `clear`, `withFreshUploadUrlRetry` | URLs expire while pooled or held; `setAuth` clears under running uploads | a URL serves one upload, a stale one costs one attempt and never the upload |
| `auth/file.ts` | the client's authorization, a queue of writes, a JSON file | `load`, `setAuth`, `clear`, `flush` | a crash during the write, two flushes, two processes | the file is whole, holds what a flush waited for, and nobody uses another's authorization |
| `download/parallel.ts`, `download/checksum.ts` | window, buffer, digest, stream | `start`, `pull`, `cancel`, range fetches | ranges arrive in any order, fail, or disagree; abort while hashing | in order, complete when closed, verified, bounded |
| `download/single.ts`, `streams/progress.ts` | one response body, its digest, a timer | the stream's `pull`, `cancel`; the tracker | an error after bytes were handed over, an emission that is still to come | verified at the end; a listener hears the truth and nothing afterwards |
| `sync/synchronizer.ts`, `pairing.ts`, `policies/`, `actions/`, `scanners/` | two sorted scans, pairs, actions, queued events | `synchronize` | the directory and the bucket change under the run; it is aborted, closed or dies | nothing is removed the source had, nothing unseen is lost, every outcome is told |
| `sync/download-staging.ts`, `local-file-io.ts` | a managed directory with markers, the files being staged | create, reap, clean up, publish | other processes reap and clean up; deaths in between | an active entry stays, a root is never left unusable, scans see the user's files only |
| `util/paginator.ts`, `bucket.ts`, `object.ts` | a cursor, a tally | listings, `deleteAll`, `deleteMany`, `unhideFile`, rule helpers | listing while it changes, lost answers, reads written back | nothing that stays is missed; the tally is what happened |
| `simulator/partner.ts`, `partner/`, `backup/` | groups, members, addresses, trials, computers | one handler per endpoint, paged listings | three maps of addresses, cursors of deleted rows | the maps agree; listings miss nobody |
| `raw/` | none | one method per endpoint | the shape of a request in several API versions | see gate and settings |
| `errors/`, `s3/sigv4.ts`, `notifications/` | none | judge or build one message | none | not modelled |

How they meet: the uploads call `upload/retry.ts`, which takes URLs from the pool and
goes through `RetryTransport`; `RetryTransport` asks the coalescer for a token, whose
refresh calls `setAuth`, which clears the pool and, with a `FileAccountInfo`, writes the
file. The modules cut this stack at the transport: `LargeFileUpload` and `WriteStream`
see requests that are served, refused or lost, `RetryTransport` sees dispatches of opaque
requests, `UploadUrls` sees uploads whose attempts end somehow and a `setAuth` at any
time. Sync sits on top of the bucket's methods, and sees them as requests that are
accepted, refused or lose their answer. `Service` is the other end: the simulator, with
clients that read, search, copy and edit in it.

## 2. Modules

| module | models | used by |
|---|---|---|
| `B2LargeFiles` | the server's unfinished files (as the simulator keeps them) and the network in front: requests served in any order, refused or lost | `LargeFileUpload`, `WriteStream` |
| `LargeFileContract` | what an upload promises: "ok" only if published, "failed" only if it never is, anything else "ambiguous" | refined by both |
| `LargeFileUpload` | `uploadLargeFile`, several uploads at once | |
| `WriteStream` | `createWriteStream` | |
| `ReauthCoalescer`, `RetryTransport` | the shared refresh, and the sends that use it | |
| `UploadUrls` | the pool and `withFreshUploadUrlRetry` | |
| `ByteStream` | what a download promises its reader | refined by `ParallelDownload` |
| `ParallelDownload` | `createParallelDownloadStream` | |
| `AccountStore` | `FileAccountInfo`: several processes on one token file | `FetchTransport` |
| `FetchTransport` | a client with its store, its URL guard and one request through `FetchTransport.send` | |
| `FileVersions` | the versions of a bucket, their locks, the listings | `BucketCalls` |
| `BucketCalls` | the methods of `Bucket` that take several requests, and the revision of its settings | |
| `SyncPolicy` | what one pair of scanned files calls for | `SyncStores` |
| `SyncStores` | the directory and the folders of the bucket | `Synchronizer` |
| `Synchronizer` | the run from its scans to its last event, with its actions | |
| `DownloadStaging` | the managed directory of staged downloads, its reaper and its cleanup | |
| `StorageService` | the storage side of the simulator: accounts, buckets, grants, handlers that wait | `FileContents`, `BucketSettings`, `PartnerService` |
| `Encryption` | what a request says of encryption and who may read under it | `FileContents` |
| `FileContents` | the handlers of `StorageService` with what the files hold | `SingleDownload`, `LargeCopy`, `ResumeDiscovery` |
| `SingleDownload` | a download in one request, its digest and its progress | `Service` |
| `ResumeDiscovery` | the search for a large file to resume | `Service` |
| `LargeCopy` | `copyLargeFile` | `Service` |
| `ApiRequests` | the raw client's requests and the gate they pass | `Service` |
| `BucketRules`, `RequestRules` | the checks of settings and requests, the client's and the simulator's | `BucketSettings` |
| `BucketSettings` | settings of buckets, the keys they rest on, and the helpers that edit them | `Service` |
| `PartnerService` | the partner side, on the ids, keys and buckets of `StorageService` | `Service` |
| `Service` | all of the simulator and a client of each kind | |
| `*Proofs` | theorems of `LargeFileUpload`, `WriteStream`, `UploadUrls` with `ParallelDownload` (`TransferProofs`), `RetryTransport` and `AccountStore` with `FetchTransport` (`TransportProofs`), `BucketCalls`, `Synchronizer` with `DownloadStaging` (`SyncProofs`), `Service`, and of it `ResumeDiscovery` and `LargeCopy` (`SearchAndCopyProofs`) | |
| `MC*` | the constants of the runs | |

### LargeFileUpload on B2LargeFiles

`pc[u]` is where a call of `uploadLargeFile` waits; each action is the code from one
`await` to the next. `mode[u]` is how it gets a file: "fresh", "auto" (automatic
resume), "explicit" (`resumeFileId`), "forward" (a source that can only be read once,
uploaded sequentially). `task[u][p]` is the async function of part p: queued at the
semaphore, reading its bytes, uploading, done or failed. `straggler[u]` is
`cancelLargeFileAfterStart`, which lives on after the call. `aborted` is the abort
scope, `callerAborted` the caller's signal.

Abstractions: a digest stands for the bytes of a part. The parts of one `u` all come
from `Content[u]`. A 401 of start or finish that `RetryTransport` replays after a
reauthorization is the same request served later. The search of the automatic resume is
one step that may return any file of the bucket whose parts fit: `ResumeDiscovery` shows
what it really returns. A server that answers a request with an error has not applied
it, as in the simulator; the source does not say whether that is so for a 5xx of the
real service. Repeated cancels of a file by one sender are one message. `startedBy` and
`finishedBy` are history variables. `onCleanupFailure` is the set `reported`.

### WriteStream on B2LargeFiles

The same server, with one client. The `WritableStream` that calls the sink is external:
it runs one method at a time, none after a write rejected, and abort after the write in
progress. The retries of one part are inside its upload ("uploading" ends stored or
failed), and a digest is the number of bytes of the part, which is enough to see a
wrong cut.

### RetryTransport on ReauthCoalescer

`phase[r]` is where `send` waits. A dispatch is one call of the inner transport; the
server may answer it, lose it, or apply it after the client gave up. The kinds stand for
the classifiers: "safe", "large" (start and finish), "upload", "mutation"
(`idempotent: false`). Refresh `i` obtains token `i`. Every action is one turn of the
microtask queue. A refresh that has ended or was aborted keeps its slot until the
`finally` of `start()` has run; other requests take turns in between, but no network
event does, because the microtask queue is drained first (`Draining`). A request that
joins in such a turn fails with another request's abort (outcome "othersAbort"),
although the comment at `reauth-coalescer.ts:18` says the slot is cleared for the next
call. 401 and 429 answers are never given to a request that was applied. A user's own
call of `authorize()` is not modelled.

### UploadUrls

One pool key (one bucket, or one large file). The i-th URL the server hands out is
`i`. `valid` shrinks at any time. `SetAuth` empties the pool under running uploads, which
check their URLs in afterwards. 429s that `RetryTransport` retries in place are part
of the attempt.

### ParallelDownload

`pull` is where the stream's `pull` method waits: for the race of the fetches, for the
hash of the chunk it has taken, for the final digest. A response carries the range its
bytes belong to, whether they are the file's, and its SHA-1 header; `ValidResponse` is
`validateRangeResponse`. The stream's queue holds one chunk (the default high-water
mark). A fetch may still succeed after an abort, as a transport that ignores the signal
allows. `ranges` is chosen in `Init`, so that the empty file is one of the cases. What is
fetched ahead is up to twice the concurrency, for delivered and in-flight ranges are
counted apart; `parallel.ts:25` calls the concurrency the maximum fetched in parallel.

### AccountStore

An authorization is a record of the key and realm it was issued for and a serial number.
`FileAccountInfo`'s queue of writes is a sequence per process; a write goes to a private
file that is renamed over the shared one, and the process may die between any two file
operations. `Init` lets the file hold what any earlier client or version may have left,
unreadable text included. `OwnAuthOnly` assumes one client per `FileAccountInfo`: the code
lets a second client rebind one (`auth/file.ts:324-334`), after which each may load the
other's authorization. The upload URL pools that the class inherits are in `UploadUrls`.

### FetchTransport on AccountStore

`ClientSpec` adds to the account store what a `B2Client` has on top of it: `guard[p][c]`,
the suffixes it lets through (none at all for a client that was constructed before `load`
until it authorizes), and one `exchange`, a request with its timeout scope. Nothing in an
exchange changes the store, and of the store's steps only `authorize` changes what an
exchange reads, the guard; so the store rests once there is an exchange (`Send` wants its
queue drained), but for an authorization. `reason` says why fetch's signal is aborted,
`expired` is `timedOut`, `arrived` is what the pending `read()` resolved with until the
microtasks of the `pull` have run. A host is a sequence of labels, so that a suffix is a
prefix. What a URL is (a name, an address, malformed) is given, not parsed. Two outcomes
are the code's own. A chunk that arrives in the turn in which the reader cancels re-arms
the timer after `dispose()`: `reset()` asks for the signal, not for `disposed`
(`transport.ts:230-234`). It is unref'd and aborts nothing anyone waits for; the property
states it (`late`). And the timer runs while the reader pauses between chunks.

### BucketCalls on FileVersions

Names are numbers in the order of the strings; a folder is what is left of a name cut
after the delimiter. One action per page, per acquisition of the semaphore, per deletion;
others upload, hide, copy, lock and delete in between. A request whose answer is lost is
sent again by the transport. `addLifecycleRule` and its like read the settings and write
them whole without `ifRevisionIs`, and of two at once the later drops the rule of the
earlier; the model does that too, and the property is about the guarded update.
`bucket.ts:1468` says that two lifecycle rules with one prefix are rejected; the
simulator accepts them. The docs disagree on the cap of part listings (100 in
`util/paginator.ts:34`, 1000 in the doc of `paginateParts`, 10,000 in the simulator).

### Synchronizer on SyncStores and SyncPolicy

`phase` is where the generator stands, `job[p]` the action of path p. A file or version
is told from any other by the tick of the clock that made it, which stands for device,
inode, size and times. The local actions take one step per file operation, because a user
may act between any two; a user may also act between the last look at a file and its
`unlink` (`local-file-io.ts:642-649`), the one exception `KeepsUnseenFiles` states. A
scan is one step, although the one of a bucket is paged (`scanners/b2.ts:93-207`). A hide
is always accepted. Skips on the destination's side, and filters, are left out; so is the
skip reason "filesystem-error", which no built-in scanner gives. Symbolic links that are
passed over do not count as an incomplete inventory, as in the code. With one action per
pair the check at `synchronizer.ts:504` is never reached. `clean` is a history variable: that
no request of an earlier run was on its way when this one began. Such a request can land on
top of what the new run has put in place, so `TransferLands` is stated of the other runs.

### DownloadStaging

Each file operation another process can disturb is a step; `isManaged` reads twice and
takes two. `day` is the clock of the reaper's age limit. A suspended process, a process
that dies, and a cleanup by a process that cannot see another's creations are steps of
their own. `rm -r` is one step, the user never replaces the directory itself, and the
idle timeout of a download is finite. Two outcomes are the code's own and stated: a
cleanup that removes the root between a creation's marker and its entry leaves an
unmarked root (`pulled`), and a creation between the last look for active ones (226) and
the `rmdir` fails with ENOENT (`CreateFails`).

### Service

`StorageService` is the simulator with `strictAuth`: every action is a turn of the event
loop, a handler that awaits between its checks and its change holds a slot in `waiting`
with what it captured, and a request the code refuses is an action only where it changes
something. The state variable `plan` says which requests an instance makes, and bounds
them; each passing plan is a question of its own (section 3). On top of it:

* `FileContents` repeats each handler of files as the one of `StorageService` with what it
  does to the contents: bytes, digest, encryption, lock. A digest is the bytes it is of, a
  customer's key a model value that stands for its MD5 as well. Damage is a step of the
  network on the way in, in a copy and on the way out.
* `SingleDownload` is the client's stream over such an answer. Since the answer holds what
  it serves, nothing later concerns it: once there is a reader only its stream goes on.
* `ResumeDiscovery` is a client that pages through unfinished files and parts.
* `LargeCopy` is a call of `copyLargeFile`: each request is with a handler whose slot the
  call remembers, the call may give up on it at any moment, and it is served all the
  same. Metadata, content type and file info are left out; a retry is a failure
  (`RequestFails`), which allows more than the code; others only write part 1.
* `ApiRequests` sends what each method of the raw client names, with what is deleted or
  never was, through the scope the simulator reads off it, and holds it against what the
  handler would touch.
* `BucketRules` and `RequestRules` are the two sides of the checks as operators on values:
  a value says what it is, a string is what it spells, its length (which stands for its
  UTF-8 bytes too) and the marks a check looks for. `BucketSettings` sends them: the
  helpers read and write back, keys and buckets are deleted in between.
* `PartnerService` shares ids, clock, keys and buckets with the storage side.

What the code does and a reader might not expect, and the properties therefore state as
exceptions or leave out: a bucket that is deleted while a handler waits takes the file
with it although the answer is 200 (`NothingLost`); `createBucket` does not ask whether a
replication source key may read the new bucket, and expired keys pass that check
(`RulesAreGranted`); after its source key is deleted, the replication helpers are
refused until `setReplication` clears the configuration; a default retention of mode
"none" is reported with nulls the service would not take back (`ChecksAgree`); an orphan
whose start is never answered and whose copy was not aborted has no id to report
(`CopyIsWhole`), and a part whose digest was sent as "unverified:" may hold other bytes than a
copy that finishes the file with it takes them for (`MerelyClaimed`); a reader that cancels while a read is pending is told that the part is complete (run
`service_unread`), and one whose listener throws releases the body without cancelling it
(`ProgressEndsWithTheBody`); the notification rules of a deleted bucket stay, and its id is
still held against their prefixes;
`updateBucket` replaces the stored bucket, so handlers that wait keep the old default
encryption; a download by name serves the version stored last while listings sort by
upload timestamp; the listing of unfinished files starts over when its cursor is gone; a
range `bytes=N-` past the end counts as malformed and the whole file is served, although
the comment at `simulator/index.ts:190-197` calls it unsatisfiable; `handleUploadFile`
heeds neither retention headers nor the bucket's default retention, which only
`startLargeFile` applies, also in a bucket without file lock; webhooks heed neither a
rule's prefix nor its suspension; a key that is deleted while its upload URL is issued
leaves a URL that works until it expires (`index.ts:2495`).

## 3. Runs

Every property of a passing run has a mutant of the code that breaks it (`PROJECT.json`,
"mutants").

| run | instance | shows |
|---|---|---|
| `upload_parallel` | 1 upload, 3 parts, 2 slots, 1 retry; faults, lost answers, an abort, a crash | it settles (`Settles`); nothing runs after it (`NothingOutlivesTheCall`); no silent orphan (`NoSilentOrphan`) |
| `upload_shared` | 2 uploads of sources that share the first of 2 parts, 1 slot: one creates a file and the other resumes it by id; or one streams forward-only and the other adopts what it finds, also a file an earlier process left with any parts | success means own bytes (`OkMeansStored`); both implement `LargeFileContract` (`ContractSpec`) |
| `stream_write` | up to 5 bytes in writes of any length, 2-byte parts, 2 slots | `done` means everything; a rejection cleans up; close and abort settle `done`; implements `LargeFileContract` |
| `transport` | 2 requests (safe and large; upload and mutation), 1 retry | unsafe requests are applied once; neither the stored token nor that of a replay falls back (`TokensAdvance`); every send settles |
| `transfers` | either 2 uploads, up to 2 URLs in the pool, 1 retry; or a download of 0 to 4 ranges, concurrency 1 (window 2) | stale URLs never fail an upload; the download implements `ByteStream` (`InOrder`), is verified when closed, and serves a waiting reader |
| `account_file` | 2 processes with different clients on one file, 2 authorizations, a third client's leftovers; one request (GET or POST, timed or not) of one of them to 4 URLs, 2 redirects | only own authorizations are used; what `flushed()` waited for is in the file, whole; the request ends truly (`ExchangesEndTruly`) |
| `bucket_calls` | three plans: one call on a file, a hidden file and a folder among 2 requests of others; 3 edits by 2 callers; 3 requests on a locked version | listings miss nothing; reports are what happened (`AnswersAreTrue`); locked versions stay |
| `sync` | 2 paths, every direction, compare and keep modes, skips, digests that are verified, claimed, false or missing; one edit, or one fault and one abort or close; a crash and a second run, the same or the other way | what a run removes, sends or calls the same is right (`OutcomesAreTrue`); every outcome is told; no file is lost (`FilesSurvive`); every run ends |
| `staging` | 3 downloads of 2 runs in one or two processes, over 2 days, with a relic or a directory of the user's | active entries stay; scans see the user's files only; a root stays usable |
| `service` | twenty-three plans, below | eleven invariants of the simulator and its clients |

The plans of `service` (`MCService`), and the properties each is there for:

| plans | requests | properties |
|---|---|---|
| `Files` | two handlers wait while buckets and files come and go | `NothingLost` |
| `Keys`, `Urls`, `Shares`, `Hooks` | keys, upload URLs and download authorizations expire, are spent, deleted, pruned and purged; webhooks | `GrantsAreExact` |
| `Group`, `Backup` | members, trials and computers, and pages of them | `MembersAgree` |
| `Sealed`, `Parts`, `Marked` | files under customers' keys, made of one request, parts or copies, damaged, read; locks seen by callers who may not see them | `ReadsAreWhatWasSent`, `ReadersSeeWhatTheyMay`, `ProgressEndsWithTheBody` |
| `Copies`, `Claimed` | one `copyLargeFile` of 3 bytes in 1 or 2 parts while the source is deleted and others use the new file; and of 2 bytes while others put parts there whose digests nobody has verified | `CopyIsWhole` |
| `Resume`, `Overtaken` | three searches, with limits of one and of two pages; and one among files that are added in another order than that of their ids | `ResumeFindsTheNewest` |
| `Api`, `ApiLarge`, `ApiRules` | every request of the raw client against two tokens, with the ids of buckets and files there are, of those that were deleted, finished or cancelled, and of none; with notification rules of a bucket, also after it is gone | `NothingOutOfReach` |
| `Replicated`, `Ruled` | keys and buckets deleted and made under replication; a helper that edits the rules | `RulesAreGranted` |
| `Checks`, `Edits`, `Notified`, `Settled` | settings, names, pages, timestamps, key grants at their limits and malformed; the lifecycle helpers; notification rules; file lock turned on | `ChecksAgree` |

Two runs refute what the code's documentation says (`PROJECT.json`, "findings").

`stream_done`: `stream.ts:133` promises that a later `await done` "still sees the
rejection"; after a failed part and a rejected write `close` and `abort` no longer reach
the sink, and `done` never settles.

`service_unread` (the plan `Unread`): `download/single.ts:73-75` promises of `onProgress` that
`completePart()` does not fire if the caller does not read the body to completion, and calls
that intentional. When the stream is cancelled while its read of the body is pending,
`reader.cancel` ends that read with `done`, and `pull` completes the part
(`CancelPendingRead`); no test looks at what the listener hears then.
`ProgressEndsWithTheBody` therefore names this reader, whose phase is "dropped", and no other,
as one that may be told the part without having the whole body.

**Bounds, and why they are enough.** Three parts with two slots is the smallest instance
in which a part waits for a slot, two run, and one can fail while the others are at any
stage. Two uploads cover the pairs (creator, resumer) the ownership rules are about. In
`transport` each request reauthorizes at most once, so two refreshes are all there can
be for two requests: `MaxRefresh` cuts nothing off. In `transfers` two stale URLs in
the pool are one more than an upload with one retry can afford to meet, and
four ranges with a window of two refill the window twice. One retry shows a first, a
middle and a last attempt. In `account_file` two authorizations let a write queue behind one that
runs, and the guard of a client that was open be locked under its request. In `bucket_calls` a page holds one row, so every listing has
cursors, and two requests of others can delete the cursor's row and add one before it;
`MaxRevision` is more than the edits can reach. In `sync` two paths let one be acted on while
the other's outcome waits, and one edit is enough for every race with a step; the two
runs of a crash are the one that dies and the one that finds what it left. In `staging`
the second day is the one on which entries of the first are stale. In `service` the
counters `ids`, `time`, `tokens`, `handlers`, `buckets`, `urls`, `updates` of a plan bound
what would go on for ever; each plan reaches the case it names (its mutants are found
in it), and coverage shows every action taken and every disjunct enabled. Values in
`Checks` lie on both sides of each limit.

What the bounds leave out: `upload_shared` has no retry (with one, TLC does not finish), so
a part that is retried while its first attempt may still be stored happens in
`upload_parallel`, and that it leaves `OkMeansStored` and `ContractSpec` true is shown by the
theorems only. In `staging` the download of a process that is awake has written when a day
passes (`DayPasses`), for one whose body stalls fails after `downloadIdleTimeoutMillis`, 60
seconds by default (`sync/local-file-io.ts:314`): left out is a caller who sets it to more
than a day or to `Infinity`.

Deadlock is not checked: every system here may stop, with all calls settled.

**Fairness.** Weak fairness of each call's own steps stands for the event loop, which
runs what is ready, and for the transport, where every request ends with an answer, an
error or the request timeout of `FetchTransport` (15 minutes by default). Nothing is
assumed of the server, the network, the caller or the reader: `ReaderIsServed` is about a
reader that waits, `ClosingSettles` about a stream whose close or abort reached the sink,
and `RunEnds` about a generator whose consumer goes on asking or closes it.

## 4. Theorems

TLC checks an instance; these hold for all constants. Each proof is an inductive
invariant, one lemma per conjunct and one case per action. Assumptions are the named
ASSUMEs of the modules: sets where sets are meant, positive counts, markers outside the
sets they mark, plans of `Service` that keep the contents of what they read or copy
(`PlanAssumption`), searches of at least one page and copies in parts of at least one byte
(`SearchAssumption`, `CallAssumption`), settings and requests of the types the client gives
them (`SettingsAssumption`, `TrialAssumption`: a list is a sequence, a name has a length, a
helper is given a lifecycle rule, an answer of an earlier API tells of one bucket), and
scenarios of `Synchronizer` that are possible (`ScenarioAssumption`): nobody edits in a quiet
one, a digest called verified is that of the bytes, and a local scan passes over a file for its
name only (any other reason to skip is one of bucket versions); a path starts with at most
three versions, because the initial ids are numbered so.

**LargeFileUploadProofs.** `OkMeansStored` is not inductive: that a reported success
is the caller's bytes depends on what the finish request carried, on the recorded
digests, and on nobody changing a finished file. `IInv` adds: the recorded digest of a
part that is done is that of the source (`DigestInv`); a finish on its way is the only
one of its call and nothing has answered it (`FinishRequestInv`); an answer tells
whether it was committed (`FinishReplyInv`); a committed file has the finisher's parts
and its call is not one that reported failure (`PublishedInv`); ownership follows from
the answers to start (`StartReplyInv`, `OwnerInv`); a cancel only exists once the
parts are over (`CancelInv`) and never meets a finish that may still be committed
(`CancelNeverRacesFinish`). From it: `TypeCorrect`, `OkStored`, `OwnCancelled`,
`NoCancelRace`, and `ContractRefinement`, where every step is shown to be a step of
`LargeFileContract` or to leave it alone. They hold for any number of clients, in any
modes, with any contents, so also where two sources have some parts in common. What a
call leaves behind has an invariant of its own, `EndInv`: a call starts one file, a cancel
that was answered ok cancelled a file of its own upload, and a forward-only source is not
read past a part that failed (`StartOnceInv`, `CancelReplyInv`, `ForwardInv`). From it: `TasksEnd` and `OrphansTold`.

**WriteStreamProofs.** `IInv` follows the bytes: as long as nothing failed, the parts cut,
whole ones up to the last, and what is pending add up to what was written (`CutInv`); the
parts dispatched are the first ones and a digest is that of a part that is done
(`PartInv`); the finish is sent once, for everything written (`FinishInv`), and `done`
agrees with it (`OutcomeInv`); the file the stream knows of is the one it started
(`StartInv`), and when `done` rejects it is gone or reported (`CleanInv`). From these: `TypeCorrect`, `Done`, `Cleanup` and
`ContractRefinement`, for any part size, length and concurrency.

**TransferProofs** holds the proofs of two modules that do not meet. Of `UploadUrls`
(`PoolIInv`): a URL is held by one upload or kept in the pool once, and comes from
the server (`ExclusiveEntry`, `HandedOut`); a pooled one is only posted to by a first
attempt (`Posting`), so its failure always leaves an attempt with a fresh one. From these:
`PoolTypeCorrect`, `Exclusive`, `PoolHarmless`.

Of `ParallelDownload` (`IInv`): the window invariant (`WindowInv`: nothing fetched or
buffered outside it, nothing twice) gives the order; that the stream is complete when
it closes needs `ProgressInv`: while nothing was aborted every scheduled range is in
flight or buffered, and a `pull` that waits has something to wait for unless the file is
empty. `DeliveryInv` counts what was enqueued, also while a chunk is being hashed;
`ShaInv` says all chunks agree on the SHA-1, and that a stream only closes after the
digest was compared; `StreamInv` that whatever else ends it has aborted the fetches.
From these: `TypeCorrect`, `WindowBounded`, `ClosedIntact`, `FetchesEnd`, and `Ordered`,
the refinement of `ByteStream`, for any number of ranges and any concurrency.

**TransportProofs** holds the proofs of two modules that do not meet. Of `RetryTransport`,
`IInv`: `AppliedAtMostOnce` needs to know what may still happen:
`Potential` counts the applications a request has had and the dispatches that may yet
become one, and `EffectInv` keeps it at one for unsafe requests, at zero whenever one is
about to be sent again, and at zero after a 401 or 429 answer to the last dispatch.
`CountInv` ties the dispatches to `attempt` and `didReauth`, which bounds them. The
coalescer has its own invariant, preserved by each of its operations: refreshes start
in order and one that could still store its token holds the slot (`OrderInv`), so the
stored token never goes back (`TokenInv`); the waiter count is the number of waiters
(`WaiterInv`), so an aborted refresh has none. `FreshInv` says that no request has seen
the token of the refresh in the slot expire; it rests on `Draining`. From these:
`RetryTypeCorrect`, `AppliedOnce`, `OneRefresh`, `TokensAdvancing` (of `AuthMonotone` and
`FreshReplay`) and `LastAborts`, for any number of requests of any kinds, retries and
refreshes.

Of `AccountStore`, `SafeInv` follows a write from the head of its queue to the private
file and the disk, up to an empty queue, when the disk holds what was set last unless
another process wrote over it (`WriteInv`). From it: `DiskWhole`, that the shared file is never half written, and
`FlushPersists`. `OwnInv` adds that whatever is labelled with a key was issued for it,
wherever it is (`OwnLabels`), and that what waits to be written was issued to the client
that is bound (`QueueOfClient`); the two are `AccountInv`, and give `OwnAuth` where every process has one client.
A step of `FetchTransport` is a step of `AccountStore` or leaves it alone (`ClientIsStore`), so
all of this holds of a client with a request under way. `ExchangesEnd` rests on `ClientInv`:
an exchange's timer runs only while nothing aborted it, and the body goes with the signal
(`ScopeInv`, `BodyInv`); one that is over listens to nobody and said why it ended (`OverInv`);
only a GET is sent again, never past the guard (`FetchInv`); and where the store has what was
set in this process, the guard is locked to its realm (`LockedInv`).

**BucketCallsProofs.** `IInv` is about identities: an ID is that of one version and grows
with time (`VersionsInv`), so what was deleted does not come back; a call's tally holds
IDs that are gone, and each target of `deleteMany` is in one place (`DeletedOk`); as long as
the revision is the one an edit with `ifRevisionIs` has read, so are the settings (`EditOk`). From it: `Deleted`, `GuardedUpdate`, `Answers`; `First`, that the first
version listed is the one downloads serve; and `Locked`, an action property.
`NothingIsMissed` takes a second invariant, `ListingInv`: a cursor is before every row of a
version that was there all the time and is not told yet (`VersionsTold`, `NamesTold`,
`AllTried`), and is not the row of a version yet to be made (`CursorOk`), which is why whoever
comes or goes does not push one of them back (`StillLater`). The cursor is the CHOOSE of a
first row; that there is one (`LeastRow`) is not an induction of ours but the library's: the
strict subsets of a finite set are well-founded, here the sets of rows each row comes after.

**SyncProofs** holds the proofs of two modules of `sync/`. Of `DownloadStaging`,
`StagingInv`: a download has an entry only from its creation on, and a
partial file only in a marked one (`MarkedBeforeOpen`), so a scan sees the directory for
what it is. An entry is of today while its download is under way and its process awake
(`FreshEntries`), hence what a reaper saw as stale is nobody's, or of one who slept, and
stays so, because a creation never comes back to "idle" (`StaleSightings`). Who finds the
directory without its marker is followed by a creation that will mark it or a cleanup that
removes it or restores the marker (`SomebodyMarks`); a run cleans up after its own downloads
(`RunsWait`), and a directory of the user's is only looked at (`UsersDirectory`). From
these: `ActiveEntriesAreSafe`, `ScansSkipOnlyStaging`, `StagingIsLeftUsable`, for any
downloads, runs, processes and entries left behind.

Of `Synchronizer`, `CoreInv` is what all three properties need (`SyncCore`): the types; that an
id is that of one file or version, whose content never changes (`IdsInv`), so that every
step of any action, edit or late request adds at most one new file or version and only moves
or removes others (`StoreTurn`); that the source of every pair and job is still what the scan
saw, or gone (`SourcesInv`); and that what is prepared is the stretch of pairs that starts at
`next` (`BatchInv`). On it rest:

* `NoFileIsLost`. `FilesInv`: a file set aside whose identity was verified is the one that was
  compared, so what is dropped is never a file the user put there; and where nobody edits, the
  new file is linked before the old one is dropped.
* `EveryOutcomeTold`. `OutcomesInv`: each pair before `next` is yielded, queued or running,
  one that could not be prepared is queued with its batch, and a failed job is counted;
  `GeneratorInv`: nothing runs and no scan failed where the generator may complete.
* `RunsAreTruthful`, conjunct by conjunct. `RemovedMeansAbsent`: the merge of the two ordered
  scans passes no path over (`MergeInv`), so a pair without a source has none in the scan, and
  the scan found all the source had or the run knows that it is incomplete (`HadInv`), in which
  case nothing is removed. `UploadIsScanned`: what is captured and then validated by
  identity has the content the scan saw (`HeldInv`). `SameMeansSame`: no entry claims a
  verified digest that is not that of its bytes (`HonestInv`). `TransferLands`: a path has one
  job (`FutureInv`), and what may still land on it was sent by a job that failed (`LateInv`).

They hold for any paths, folders, contents, options, batch sizes, concurrency and numbers of
runs, edits, faults, aborts and crashes. No induction over data is needed: a scan is any
ordered sequence of the entries, and the merge of the two is one step per pair.

**ServiceProofs.** The simulator with its clients has some seventy actions. The proof first
says what any of them is to one part of the state (`Turn` for the grants and the slots,
`FilesStand` and `FileTurn` for the files, `PartnerTurn` for what the partner side does to
the storage), and then treats the few that change that part.

* `GrantsStayExact`. `UrlInv`: an upload URL has an id of its own, also while the handler
  that issues it waits (`IssueInv`), and what is remembered of it is what its token says
  and what was done to it, or it has expired (`MemoryInv`). `ShareInv`: a download
  authorization that was given is known until it expires.
* `NothingIsLost`. A file that was answered for goes with its own deletion or its bucket's,
  and buckets go by deletion only (`FilesStand`).
* `MembersAlwaysAgree`. `PartnerInv`: every account has an id of its own (`AccountsInv`),
  addresses and the index agree with the members, and who was there from the first page of a
  listing on was told or is in a row still to come (`ListingInv`). A page is the lowest of
  the rows that are left (`LeastRow`, `PageKeepsPartner`).
* `ProgressEndsThere`. `CountInv`: while a body comes its bytes are counted and nobody was
  told that the part is over; when it is over, no emission waits for a timer, and who was told
  of the part was told of all bytes, of a body read to its end and checked, or cancelled while
  a read was pending.
* `ReadsAreHonest`, `ReadersAreToldTheTruth`. `FilesInv`: a digest that is known is of what
  the uploader sent (`ContentsInv`), a large file has none of its own (`LargeInv`), a handler
  that waits brings the like (`ArrivingInv`), and whoever opened a file had its key, which
  never changes (`OpenedInv`, `SealsStay`). `TellingInv`: a reader has what was answered for its
  capabilities, and a body that ended well and was to be verified is what the digest is of.
* `RequestsStayInReach`. What the gate compares with the token is what the handler touches:
  each kind of request names all it touches or has it looked up (`Covered`, `RequestCovered`).
  An id that is of nothing adds nothing to either, and the names of the rules stored for a
  bucket are on both sides. It needs that an id is that of one file (`FileIdsInv`), or the gate
  would ask about another file than the handler finds.
* `RulesStayGranted`. `RulesInv`: the keys and buckets a configuration names have been there
  (`NamedOnce`), so a key or a bucket made later is never the one a rule waits for, and of
  the keys with an id all are deleted or none (`KeysTurn`). It is stated of any keys, buckets
  and settings (`RulesIn`), since the steps that write settings and those that delete keys
  are treated apart (`RulesWritten`, `KeysComeAndGo`).

* `ChecksAlwaysAgree`. `ChecksInv`: whatever a bucket reports would be accepted again
  (`SettingsFit`), and so would what a helper has read (`HelperFits`). Hence what the helper
  writes: the rules it keeps are rules it read, none of the name or prefix of the new one, and
  no two of one name (`WithoutKeeps`, by the first step at which a rule would be lost). What
  the client's own checks let through passes the service's (`CheckedFits`, `NamesAgree`,
  `TimestampsAgree`), and each form of an answer tells the grant that was asked for
  (`FormsTell`, `GrantTold`).

**SearchAndCopyProofs.** Two clients of the simulator that work on large files over several
requests.

* `SearchesFindTheNewest`. What the search rests on: large files are remembered, an id is that
  of one, and one that is started comes last (`RememberedInv`, `ComingInv`); a step leaves
  those there are as they were started (`LargeTurn`). `SearchInv`: a large file nobody has
  changed since the search began was listed or is still to come, for the listing is in the
  order in which files were added and its cursor is among them or starts over (`ScanInv`); when
  the listing is over, every one that could be resumed is a row that is left (`ChoosingInv`) or
  the candidate, newer than those, whose digests were read up to a number (`PartsInv`). So
  the one found is the newest, with all of its parts (`FoundInv`). A page ends at the greatest
  of finitely many rows (`GreatestOf`).
* `CopiesAreWhole`. `CarriedInv`: what is stored and what handlers bring are bytes. `World` is
  all a step of the service may do to a copy that is under way: files keep their bytes, a large
  file that is finished or cancelled its parts, and of the handlers that wait at most one
  leaves. `CallIs` follows the call: what it asked for, how long the source is (`Sized`),
  which handlers it waits for and what they bring (`WaitsFor`), the digests that came back,
  which are those of the source's pieces (`Sums`), and what is true when it has ended (`Ends`).
  A file that is finished with those digests has the source's bytes unless a part merely
  claims its digest, because the pieces put together are the source: the flattening of a
  sequence of sequences is a recursive function, whose value is compared with an
  accumulation defined for it, at the first place where they would differ.

**Without induction.** The library's induction theorems take an operator as a parameter and
cannot be used; where a list is walked, the proofs argue by the least counterexample
(`FirstOf`, `LeastOf`), which is a fact about finite sets.

**Model-checked only.** All liveness (`Settles` of both modules, `ClosingSettles`,
`ReaderIsServed`, `RunEnds`): the provers have neither fairness nor ENABLED. Every invariant,
action property and refinement that a run checks is stated by a theorem. **Proved only**, as no run of its own is needed: `TypeOK`
of the modules up to `AccountStore`, `OnlyOwnFileCancelled`, `CancelNeverRacesFinish`,
`ExclusiveEntry`, `DiskIsWhole`, `OneLiveRefresh`, `LastWaiterAborts`, `WindowBound`,
`NothingOutlivesTheStream`, `FirstIsLatest`.

## 5. Not modelled

* `errors/`, `notifications/webhook.ts`, `s3/sigv4.ts`, encodings and
  parsers in `raw/`: they judge or build one message and keep no state; unit tests
  reach all there is.
* `FetchTransport` under `RetryTransport` (one sees the other's outcomes: answered, lost,
  late), the length of delays, and the formatting of events, errors and logs.
* `mapConcurrent`, the sources of uploads (`streams/source.ts`), hashing, and the inside of a
  range fetch of the parallel download.
* Of the simulator: event logs, the S3 facade, list requests that no modelled client makes,
  lifecycle rules in effect (it never applies them), the replication status of files
  (computed when a large file starts, although the rules in force at its finish decide),
  response overrides of downloads, part URLs by kind, file-info, download-authorization and
  bucket-type checks, unvalidated tokens, account standing and caps of the partner side.
* Older wire forms of a key's grant are modelled for at most one bucket.
* The scan of a bucket by sync as pages, filters, and the checks of path components
  (`path-safety.ts`).

What would come next: the pages of the bucket scan, `DownloadStaging` composed with the local
actions of `Synchronizer`, and `FetchTransport` composed with `RetryTransport`.
