---------------------------- MODULE Synchronizer ----------------------------
(***************************************************************************)
(* src/sync/synchronizer.ts and the local side of its actions,             *)
(* src/sync/local-file-io.ts: a run scans both folders, pairs the scans,   *)
(* plans an action per pair and executes the actions, some at a time,      *)
(* while a user edits the directory, another client uploads, requests lose *)
(* their answers, the caller aborts or closes the iterator, and the        *)
(* process dies and a later run finds what it left.                        *)
(***************************************************************************)
EXTENDS SyncStores

CONSTANTS Concurrency, \* options.concurrency
          Plan         \* the scenarios (see PlanRecord)

\* A scenario: the runs made one after the other, what both sides hold, the
\* paths a source scan skips and why, and how often things may happen.
PlanRecord == [runs   : Seq(RunOptions),
               disk   : [Path -> Data \cup {None}],
               remote : [Folder -> [Path -> Seq(Data \X Sha)]],
               skips  : [Path -> {"none", "unsafe-name", "local-unsafe-name",
                                  "relative-path-collision"}],
               edits  : Nat,   \* by the user and the other client
               quiet  : BOOLEAN, \* edits was 0 from the start
               faults : Nat,   \* failing reads, refused or unanswered requests
               aborts : Nat,   \* aborts, closes of the iterator
               crashes : Nat]  \* deaths of the process

ASSUME PlanAssumption == Plan \subseteq PlanRecord

\* There is a run, nobody edits in a quiet scenario, a local scan passes over a file for
\* its name only, and a verified digest is that of the bytes; the clock has counted the
\* versions there are at the start.
ASSUME ScenarioAssumption ==
    \A s \in Plan :
        /\ s.runs # <<>>
        /\ s.quiet => s.edits = 0
        /\ (\E i \in DOMAIN s.runs : s.runs[i].direction = "local-to-b2")
              => \A p \in Path : s.skips[p] \in {"none", "unsafe-name"}
        /\ \A f \in Folder, p \in Path :
              /\ Len(s.remote[f][p]) <= 3
              /\ \A i \in DOMAIN s.remote[f][p] :
                    s.remote[f][p][i][2].kind = "verified" =>
                        s.remote[f][p][i][2].value = s.remote[f][p][i][1]

ASSUME ConcurrencyAssumption == Concurrency \in Nat \ {0}

VARIABLES plan,       \* what is left of the scenario
          phase,      \* where the generator stands
          stop,       \* actionAbortController.signal.aborted
          signal,     \* options.signal.aborted
          now,        \* nowMillis of the run
          clean,      \* history: no request of an earlier run was on its way when this one began
          scanned,    \* the sides whose scan is over
          found,      \* found[side]: the entries it returned, in order
          had,        \* the paths the source really held when it was scanned
          incomplete, \* sourceInventoryIncompleteMessage is set
          scanError,  \* scanHadError
          at,         \* zipFolders' cursors into the two scans
          pairs,      \* the pairs collected
          next,       \* the pair whose compare event comes next
          ready,      \* what is left of the current batch of prepared pairs
          job,        \* the action of each path
          queued,     \* queuedEvents: the paths they are about
          yielded,    \* paths whose outcome the consumer has seen
          failed,     \* failedPathSet
          aggregate,  \* the closing error event was yielded
          completed,  \* completed
          late        \* requests whose caller is gone, not carried out yet

begun == <<now, clean>>
scanVars == <<scanned, found, had, incomplete, scanError>>
pairVars == <<at, pairs>>
runVars  == <<next, ready, queued, yielded, failed, aggregate, completed>>
vars == <<storeVars, plan, phase, stop, signal, begun, scanVars, pairVars, runVars, job, late>>

opt == Head(plan.runs)

NoJob == [kind |-> "none", at |-> "off", src |-> None, dst |-> None,
          held |-> None, moved |-> None]

\* Where an action under way may stand.
Steps == {"start", "captured", "validated", "sent", "staged", "checked", "moved",
          "verified", "linked", "restoring", "doomed"}
\* Mutant: an action that failed keeps its place among the running ones.
LeakedRunning == {p \in Path : job[p].at \in Steps \cup {"failed"}}
Running == {p \in Path : job[p].at \in Steps}

\* The generator is between its first step and its last.
Active == phase \notin {"idle", "done"}

Spend(what) == plan[what] > 0 /\ plan' = [plan EXCEPT ![what] = @ - 1]

-----------------------------------------------------------------------------
\* Scans.

LocalEntries == {[path |-> p, id |-> disk[p].id, data |-> disk[p].data, sha |-> Pending] :
                    p \in {q \in Path : disk[q] # None}}
B2Entries(f) == {[path |-> p, id |-> Served(f, p).id, data |-> Served(f, p).data,
                  sha |-> Served(f, p).sha] : p \in {q \in Path : Served(f, q) # None}}

SourceIsLocal == opt.direction = "local-to-b2"
DestIsLocal   == opt.direction = "b2-to-local"
DestFolder    == IF opt.direction = "b2-to-b2" THEN ToFolder ELSE FromFolder

SourceEntries == IF SourceIsLocal THEN LocalEntries ELSE B2Entries(FromFolder)
DestEntries   == IF DestIsLocal THEN LocalEntries ELSE B2Entries(DestFolder)

\* The names a source scan passes over, and why.  A local scan reports a file set
\* aside by a download that never ended as "stale-download-partial".
Passed == {e \in SourceEntries : plan.skips[e.path] # "none"}
SkipReasons ==
    {plan.skips[e.path] : e \in Passed} \cup
    (IF SourceIsLocal /\ \E p \in Path : aside[p] # {} THEN {"stale-download-partial"} ELSE {})

\* sourceSkipMakesInventoryIncomplete.
IncompleteReasons ==
    IF SourceIsLocal THEN {"unsafe-name", "stale-download-partial"}
    ELSE {"unsafe-name", "local-unsafe-name", "relative-path-collision"}

\* What the source holds, whatever its scan will return.
SourceHolds ==
    {e.path : e \in SourceEntries} \cup
    (IF SourceIsLocal THEN {p \in Path : aside[p] # {}} ELSE {})

\* Entries in the order of their paths.
Ordered(s) == \A i, j \in DOMAIN s : i < j => s[i].path < s[j].path
IsScanOf(s, entries) == Ordered(s) /\ \A e \in entries : \E i \in DOMAIN s : s[i] = e
ScansOf(entries) == {s \in [1 .. Cardinality(entries) -> entries] : IsScanOf(s, entries)}

\* A scan of one side returns its entries; a local one may fail on a child, which
\* it reports and leaves out.
Scan(side, entries, local) ==
    /\ phase = "scan" /\ side \notin scanned
    /\ scanned' = scanned \cup {side}
    /\ \/ /\ \E s \in ScansOf(entries) : found' = [found EXCEPT ![side] = s]
          /\ UNCHANGED <<scanError, plan>>
       \/ /\ local /\ Spend("faults")
          /\ \E e \in entries : \E s \in ScansOf(entries \ {e}) :
                found' = [found EXCEPT ![side] = s]
          /\ scanError' = TRUE

ScanSource ==
    /\ Scan("src", SourceEntries \ Passed, SourceIsLocal)
    /\ had' = SourceHolds
    /\ incomplete' = (SkipReasons \cap IncompleteReasons # {})
    /\ phase' = IF scanned' = {"src", "dst"} THEN "pair" ELSE "scan"
    /\ UNCHANGED <<storeVars, stop, signal, begun, pairVars, runVars, job, late>>

ScanDest ==
    /\ Scan("dst", DestEntries, DestIsLocal)
    /\ phase' = IF scanned' = {"src", "dst"} THEN "pair" ELSE "scan"
    /\ UNCHANGED <<storeVars, stop, signal, begun, had, incomplete, pairVars, runVars, job, late>>

\* A scan throws: a listing that fails is reported first, a scan over its limit
\* is not, and then the generator rethrows.
ScanThrows ==
    /\ phase = "scan" /\ Spend("faults")
    /\ \E reported \in BOOLEAN :
          /\ scanError' = (scanError \/ reported)
          /\ phase' = IF signal THEN "abort" ELSE IF scanError' THEN "report" ELSE "close"
    /\ stop' = (stop \/ phase' = "close")
    /\ UNCHANGED <<storeVars, signal, begun, scanned, found, had, incomplete, pairVars, runVars,
                   job, late>>

-----------------------------------------------------------------------------
\* zipFolders and collectPairs.

HeadOf(side) == IF at[side] \in DOMAIN found[side] THEN found[side][at[side]] ELSE None

\* The next pair: the smaller of the two paths, or both when they are one.
NextPair ==
    LET s == HeadOf("src")
        d == HeadOf("dst")
    IN IF s = None THEN [src |-> None, dst |-> d]
       ELSE IF d = None THEN [src |-> s, dst |-> None]
       ELSE IF s.path < d.path THEN [src |-> s, dst |-> None]
       ELSE IF d.path < s.path THEN [src |-> None, dst |-> d]
       ELSE [src |-> s, dst |-> d]

PathOf(pair) == IF pair.src # None THEN pair.src.path ELSE pair.dst.path

\* A side advances when the pair took its entry.
Advance(pair) == [src |-> IF pair.src = None THEN at.src ELSE at.src + 1,
                  dst |-> IF pair.dst = None THEN at.dst ELSE at.dst + 1]

Exhausted == HeadOf("src") = None /\ HeadOf("dst") = None

CollectPair ==
    /\ phase = "pair" /\ ~ signal /\ ~ Exhausted
    /\ pairs' = Append(pairs, NextPair)
    /\ at' = Advance(NextPair)
    /\ UNCHANGED <<storeVars, plan, phase, stop, signal, begun, scanVars, runVars, job, late>>

\* After the pairs: nothing is planned for an aborted run, nor when a scan failed.
PairsCollected ==
    /\ phase = "pair" /\ (signal \/ Exhausted)
    /\ phase' = IF signal THEN "abort" ELSE IF scanError THEN "report" ELSE "batch"
    /\ UNCHANGED <<storeVars, plan, stop, signal, begun, scanVars, pairVars, runVars, job, late>>

-----------------------------------------------------------------------------
\* Batches, events and the scheduling of actions.

Flush == yielded' = yielded \cup queued /\ queued' = {}
NothingQueued == UNCHANGED <<queued, yielded>>

BatchEnd == IF next + Concurrency - 1 < Len(pairs) THEN next + Concurrency - 1 ELSE Len(pairs)
Batch == SubSeq(pairs, next, BatchEnd)

\* A batch of pairs that need no preparation is planned at once; in "sha1" mode
\* every action that runs ends first, and then the pairs are prepared.
StartBatch ==
    /\ phase = "batch" /\ next <= Len(pairs)
    /\ \/ /\ opt.compareMode # "sha1"
          /\ ready' = [k \in DOMAIN Batch |-> Ready(Batch[k].src, Batch[k].dst)]
          /\ phase' = "emit" /\ NothingQueued
       \/ /\ opt.compareMode = "sha1" /\ Running = {}
          /\ ready' = <<>> /\ phase' = "prepare" /\ Flush
    /\ UNCHANGED <<storeVars, plan, stop, signal, begun, scanVars, pairVars, next, failed,
                   aggregate, completed, job, late>>

\* The local file of a pair is the one that was scanned.
Unchanged(pair) ==
    \A e \in {pair.src, pair.dst} \ {None} :
        IsLocal(e) => disk[e.path] # None /\ disk[e.path].id = e.id

\* preparePairForCompare on one pair of the batch; the reads of B2 may fail.
PreparePair ==
    /\ phase = "prepare" /\ ~ signal /\ Len(ready) < Len(Batch)
    /\ LET pair == Batch[Len(ready) + 1]
           Prepared(readable) == PreparePairForCompare(pair.src, pair.dst, opt,
                                                       Unchanged(pair), readable)
       IN \/ ready' = Append(ready, Prepared(TRUE)) /\ UNCHANGED plan
          \/ /\ Spend("faults")
             /\ ready' = Append(ready, Prepared(FALSE))
    /\ UNCHANGED <<storeVars, phase, stop, signal, begun, scanVars, pairVars, next, queued,
                   yielded, failed, aggregate, completed, job, late>>

\* planPreparedPair, for the batch: what went wrong is queued, and counted if it
\* was an error.
PathsWith(results) ==
    {PathOf(ready[k]) : k \in {i \in DOMAIN ready : ready[i].result \in results}}
PlanBatch ==
    /\ phase = "prepare" /\ (signal \/ Len(ready) = Len(Batch))
    /\ phase' = IF signal THEN "abort" ELSE "emit"
    /\ queued' = queued \cup (IF signal THEN {} ELSE PathsWith({"skipped", "error"}))
    /\ failed' = failed \cup (IF signal THEN {} ELSE PathsWith({"error"}))
    /\ UNCHANGED <<storeVars, plan, stop, signal, begun, scanVars, pairVars, next, ready, yielded,
                   aggregate, completed, job, late>>

\* The compare event of the next pair: the generator waits for its consumer.
YieldCompare ==
    /\ phase = "emit" /\ phase' = "yielded" /\ Flush
    /\ UNCHANGED <<storeVars, plan, stop, signal, begun, scanVars, pairVars, next, ready, failed,
                   aggregate, completed, job, late>>

\* Mutant: a path the scan passed over counts as absent.
ActionAnyway(pair) == GenerateActions(pair.src, pair.dst, opt, now)

\* A pair whose source is absent loses its destination only when the scans were
\* complete.
ActionFor(pair) ==
    IF pair.src = None /\ pair.dst # None /\ (scanError \/ incomplete) THEN "kept"
    ELSE GenerateActions(pair.src, pair.dst, opt, now)

\* scheduleAction and the synchronous part of executeAction: a skip and a dry run
\* have nothing to do.
Scheduled(pair, kind) ==
    [NoJob EXCEPT !.kind = kind, !.src = pair.src, !.dst = pair.dst,
                  !.at = IF kind \in Skips \/ opt.dryRun THEN "done" ELSE "start"]

\* The consumer asks for more: unless the run was aborted, the pair's action starts.
Resume ==
    /\ phase = "yielded"
    /\ phase' = IF signal THEN "abort" ELSE "slots"
    /\ LET pair == Head(ready)
           kind == ActionFor(pair)
           starts == ~ signal /\ pair.result = "ready"
           p == PathOf(pair)
       IN /\ job' = IF starts THEN [job EXCEPT ![p] = Scheduled(pair, kind)] ELSE job
          /\ yielded' = yielded \cup queued
          /\ queued' = IF starts /\ (kind \in Skips \/ opt.dryRun) THEN {p} ELSE {}
    /\ UNCHANGED <<storeVars, plan, stop, signal, begun, scanVars, pairVars, next, ready, failed,
                   aggregate, completed, late>>

\* With all slots taken the generator waits for one of the actions.
NextItem ==
    /\ phase = "slots" /\ Cardinality(Running) < Concurrency
    /\ Flush
    /\ next' = next + 1 /\ ready' = Tail(ready)
    /\ phase' = IF Len(ready) = 1 THEN "batch" ELSE "emit"
    /\ UNCHANGED <<storeVars, plan, stop, signal, begun, scanVars, pairVars, failed, aggregate,
                   completed, job, late>>

\* Mutant: the last outcomes are not passed on.
FinishQuietly ==
    /\ phase = "batch" /\ next > Len(pairs) /\ Running = {}
    /\ aggregate' = (failed # {}) /\ completed' = TRUE /\ phase' = "done"
    /\ UNCHANGED <<storeVars, plan, stop, signal, begun, scanVars, pairVars, next, ready, failed,
                   queued, yielded, job, late>>

\* The end of the list: the actions still running are awaited.
Finish ==
    /\ phase = "batch" /\ next > Len(pairs) /\ Running = {}
    /\ Flush
    /\ aggregate' = (failed # {}) /\ completed' = TRUE /\ phase' = "done"
    /\ UNCHANGED <<storeVars, plan, stop, signal, begun, scanVars, pairVars, next, ready, failed,
                   job, late>>

\* A scan failed: no action at all, and the closing error event.
Report ==
    /\ phase = "report"
    /\ Flush
    /\ aggregate' = TRUE /\ completed' = TRUE /\ phase' = "done"
    /\ UNCHANGED <<storeVars, plan, stop, signal, begun, scanVars, pairVars, next, ready, failed,
                   job, late>>

\* finishAfterAbort, and what the generator's finally block does when the run did
\* not complete: every action ends before the generator does.
EndUnfinished ==
    /\ phase \in {"abort", "close"} /\ Running = {}
    /\ IF phase = "abort" THEN Flush ELSE NothingQueued
    /\ stop' = TRUE /\ phase' = "done"
    /\ UNCHANGED <<storeVars, plan, signal, begun, scanVars, pairVars, next, ready, failed,
                   aggregate, completed, job, late>>

\* The caller aborts options.signal; the actions see it at once.
AbortRun ==
    /\ Active /\ ~ signal /\ Spend("aborts")
    /\ signal' = TRUE /\ stop' = TRUE
    /\ UNCHANGED <<storeVars, phase, begun, scanVars, pairVars, runVars, job, late>>

\* The generator is suspended in a yield: of a pair, of outcomes, or of the closing error.
Suspended ==
    \/ phase \in {"yielded", "report"}
    \/ phase = "emit" /\ queued # {}
    \/ phase = "slots" /\ queued # {} /\ Cardinality(Running) < Concurrency
    \/ phase = "batch" /\ queued # {} /\ Running = {} /\ opt.compareMode = "sha1"
    \/ phase = "batch" /\ queued \cup failed # {} /\ Running = {} /\ next > Len(pairs)

\* The consumer closes the iterator while it is suspended in a yield.
CloseIterator ==
    /\ Suspended /\ Spend("aborts")
    /\ phase' = "close" /\ stop' = TRUE
    /\ UNCHANGED <<storeVars, signal, begun, scanVars, pairVars, runVars, job, late>>

-----------------------------------------------------------------------------
\* Actions.  Each step is one await of the action's closure.

unchangedByActions == <<phase, stop, signal, begun, scanVars, pairVars, next, ready, yielded,
                        aggregate, completed>>

At(p, kind, step) == job[p].kind = kind /\ job[p].at = step
Goto(p, step)     == /\ job' = [job EXCEPT ![p].at = step]
                     /\ UNCHANGED <<queued, failed>>

\* executeAction: the outcome is queued, a failure is recorded too.
Done(p) == /\ job' = [job EXCEPT ![p].at = "done"]
           /\ queued' = queued \cup {p} /\ UNCHANGED failed
Fail(p) == /\ job' = [job EXCEPT ![p].at = "failed"]
           /\ queued' = queued \cup {p} /\ failed' = failed \cup {p}

IsFile(p, e) == disk[p] # None /\ disk[p].id = e.id

\* Upload: the identity of the file is captured (FileSource.fromPath) ...
CaptureSource(p) ==
    /\ At(p, "upload", "start")
    /\ IF stop \/ disk[p] = None THEN Fail(p)
       ELSE /\ job' = [job EXCEPT ![p].at = "captured", ![p].held = disk[p]]
            /\ UNCHANGED <<queued, failed>>
    /\ UNCHANGED <<storeVars, plan, late, unchangedByActions>>

\* Mutant: any file that can be read later is good.
ValidateNothing(p) ==
    /\ At(p, "upload", "captured")
    /\ IF stop THEN Fail(p) ELSE Goto(p, "validated")
    /\ UNCHANGED <<storeVars, plan, late, unchangedByActions>>

\* ... the file must be the one the scan saw (validateScannedLocalFile) ...
ValidateSource(p) ==
    /\ At(p, "upload", "captured")
    /\ IF stop \/ ~ IsFile(p, job[p].src) THEN Fail(p) ELSE Goto(p, "validated")
    /\ UNCHANGED <<storeVars, plan, late, unchangedByActions>>

\* ... and a read succeeds only on the file that was captured.
ReadSource(p) ==
    /\ At(p, "upload", "validated")
    /\ IF stop \/ ~ IsFile(p, job[p].held) THEN Fail(p) ELSE Goto(p, "sent")
    /\ UNCHANGED <<storeVars, plan, late, unchangedByActions>>

Remotes == {"copy", "hide", "deleteRemote"}
SendRequest(p) ==
    /\ \E kind \in Remotes : At(p, kind, "start")
    /\ IF stop THEN Fail(p) ELSE Goto(p, "sent")
    /\ UNCHANGED <<storeVars, plan, late, unchangedByActions>>

\* Mutant: the destination's prefix is the source's.
RequestAtSource(p) == [kind |-> job[p].kind, path |-> p, folder |-> FromFolder,
                       src |-> job[p].src, dst |-> job[p].dst, held |-> job[p].held]

\* What the server does for a request, and when it can.
Request(p) == [kind |-> job[p].kind, path |-> p, folder |-> DestFolder,
               src |-> job[p].src, dst |-> job[p].dst, held |-> job[p].held]

Acceptable(r) ==
    CASE r.kind \in {"upload", "hide"} -> TRUE
      [] r.kind = "copy"         -> HasVersion(FromFolder, r.path, r.src.id)
      [] r.kind = "deleteRemote" -> HasVersion(r.folder, r.path, r.dst.id)

Effect(r) ==
    /\ CASE r.kind = "upload" -> LET d == r.held.data
                                 IN Push(r.folder, r.path, Uploaded(d, Verified(d)))
         [] r.kind = "copy"   -> LET v == VersionOf(FromFolder, r.path, r.src.id)
                                 IN Push(r.folder, r.path, Uploaded(v.data, v.sha))
         [] r.kind = "hide"   -> Push(r.folder, r.path, HideMarker)
         [] r.kind = "deleteRemote" -> DeleteVersion(r.folder, r.path, r.dst.id)
    /\ Tick /\ UNCHANGED <<disk, aside>>

\* The server carries the request out, and its answer arrives or is lost.
Answered(p) ==
    /\ job[p].at = "sent" /\ Acceptable(Request(p))
    /\ Effect(Request(p)) /\ Done(p)
    /\ UNCHANGED <<plan, late, unchangedByActions>>

Unanswered(p) ==
    /\ job[p].at = "sent" /\ Acceptable(Request(p)) /\ Spend("faults")
    /\ Effect(Request(p)) /\ Fail(p)
    /\ UNCHANGED <<late, unchangedByActions>>

Refused(p) ==
    /\ job[p].at = "sent"
    /\ \/ ~ Acceptable(Request(p)) /\ UNCHANGED plan
       \/ Spend("faults")
    /\ Fail(p)
    /\ UNCHANGED <<storeVars, late, unchangedByActions>>

\* An aborted request may still be carried out, at any later time.
Abandoned(p) ==
    /\ job[p].at = "sent" /\ stop
    /\ Fail(p)
    /\ late' = late \cup {Request(p)}
    /\ UNCHANGED <<storeVars, plan, unchangedByActions>>

LateEffect(r) ==
    /\ Acceptable(r) /\ Effect(r)
    /\ late' = late \ {r}
    /\ UNCHANGED <<plan, job, queued, failed, unchangedByActions>>

\* Download: the version that was scanned is streamed to a private file ...
Stage(p) ==
    /\ At(p, "download", "start")
    /\ \/ /\ ~ stop /\ HasVersion(FromFolder, p, job[p].src.id)
          /\ job' = [job EXCEPT ![p].at = "staged",
                                ![p].held = VersionOf(FromFolder, p, job[p].src.id)]
          /\ UNCHANGED <<plan, queued, failed>>
       \/ /\ \/ (stop \/ ~ HasVersion(FromFolder, p, job[p].src.id)) /\ UNCHANGED plan
             \/ Spend("faults")
          /\ Fail(p)
    /\ UNCHANGED <<storeVars, late, unchangedByActions>>

\* ... and published when the destination is as scanned (publishDownload).
CheckDestination(p) ==
    /\ At(p, "download", "staged")
    /\ IF IF job[p].dst = None THEN disk[p] = None ELSE IsFile(p, job[p].dst)
       THEN Goto(p, "checked") ELSE Fail(p)
    /\ UNCHANGED <<storeVars, plan, late, unchangedByActions>>

Published(p) == [id |-> clock, data |-> job[p].held.data]
LinkStaged(p) == disk' = [disk EXCEPT ![p] = Published(p)] /\ Tick

\* A new file is linked, never over another.
LinkNew(p) ==
    /\ At(p, "download", "checked") /\ job[p].dst = None
    /\ IF disk[p] = None THEN LinkStaged(p) /\ Done(p)
       ELSE Fail(p) /\ UNCHANGED <<disk, clock>>
    /\ UNCHANGED <<aside, remote, plan, late, unchangedByActions>>

\* Mutant: the old file is removed instead.
RemoveOld(p) ==
    /\ At(p, "download", "checked") /\ job[p].dst # None
    /\ disk' = [disk EXCEPT ![p] = None]
    /\ job' = [job EXCEPT ![p].at = "moved", ![p].moved = job[p].dst]
    /\ UNCHANGED <<queued, failed, aside, remote, clock, plan, late, unchangedByActions>>

\* A file to replace is renamed to a reserved name ...
MoveAside(p) ==
    /\ At(p, "download", "checked") /\ job[p].dst # None
    /\ IF disk[p] = None
       THEN Fail(p) /\ UNCHANGED <<disk, aside>>
       ELSE /\ disk' = [disk EXCEPT ![p] = None]
            /\ aside' = [aside EXCEPT ![p] = @ \cup {disk[p]}]
            /\ job' = [job EXCEPT ![p].at = "moved", ![p].moved = disk[p]]
            /\ UNCHANGED <<queued, failed>>
    /\ UNCHANGED <<remote, clock, plan, late, unchangedByActions>>

\* Mutant: whatever was moved is dropped.
VerifyNothing(p) ==
    /\ At(p, "download", "moved") /\ Goto(p, "verified")
    /\ UNCHANGED <<storeVars, plan, late, unchangedByActions>>

\* ... must be the one that was scanned ...
VerifyAside(p) ==
    /\ At(p, "download", "moved")
    /\ Goto(p, IF job[p].moved.id = job[p].dst.id THEN "verified" ELSE "restoring")
    /\ UNCHANGED <<storeVars, plan, late, unchangedByActions>>

\* ... the new one is linked in its place ...
LinkOver(p) ==
    /\ At(p, "download", "verified")
    /\ IF disk[p] = None THEN LinkStaged(p) /\ Goto(p, "linked")
       ELSE Goto(p, "restoring") /\ UNCHANGED <<disk, clock>>
    /\ UNCHANGED <<aside, remote, plan, late, unchangedByActions>>

\* ... and the old one is dropped.  A failure to remove it is ignored: it stays under
\* its reserved name.
DropAside(p) ==
    /\ At(p, "download", "linked")
    /\ \/ /\ aside' = [aside EXCEPT ![p] = @ \ {job[p].moved}]
          /\ UNCHANGED plan
       \/ Spend("faults") /\ UNCHANGED aside
    /\ Done(p)
    /\ UNCHANGED <<disk, remote, clock, late, unchangedByActions>>

\* restoreBackupWithoutOverwrite: back in its place, or left under the reserved name.
Restore(p) ==
    /\ At(p, "download", "restoring")
    /\ IF disk[p] = None
       THEN /\ disk' = [disk EXCEPT ![p] = job[p].moved]
            /\ aside' = [aside EXCEPT ![p] = @ \ {job[p].moved}]
       ELSE UNCHANGED <<disk, aside>>
    /\ Fail(p)
    /\ UNCHANGED <<remote, clock, plan, late, unchangedByActions>>

\* deleteLocalFileInsideRoot: the leaf is compared with the scan, then unlinked.
CheckDoomed(p) ==
    /\ At(p, "deleteLocal", "start")
    /\ IF stop \/ ~ IsFile(p, job[p].dst) THEN Fail(p) ELSE Goto(p, "doomed")
    /\ UNCHANGED <<storeVars, plan, late, unchangedByActions>>

Unlink(p) ==
    /\ At(p, "deleteLocal", "doomed")
    /\ disk' = [disk EXCEPT ![p] = None]
    /\ IF disk[p] = None THEN Fail(p) ELSE Done(p)
    /\ UNCHANGED <<aside, remote, clock, plan, late, unchangedByActions>>

ActionStep(p) ==
    \/ CaptureSource(p) \/ ValidateSource(p) \/ ReadSource(p) \/ SendRequest(p)
    \/ Answered(p) \/ Unanswered(p) \/ Refused(p) \/ Abandoned(p)
    \/ Stage(p) \/ CheckDestination(p) \/ LinkNew(p) \/ MoveAside(p) \/ VerifyAside(p)
    \/ LinkOver(p) \/ DropAside(p) \/ Restore(p) \/ CheckDoomed(p) \/ Unlink(p)

-----------------------------------------------------------------------------
\* Runs, the death of the process, and the others.

StartRun ==
    /\ \/ phase = "idle" /\ UNCHANGED plan
       \/ /\ phase = "done" /\ Len(plan.runs) > 1
          /\ plan' = [plan EXCEPT !.runs = Tail(@)]
    /\ phase' = "scan" /\ stop' = FALSE /\ signal' = FALSE /\ now' = clock /\ clean' = (late = {})
    /\ scanned' = {} /\ found' = [src |-> <<>>, dst |-> <<>>] /\ had' = {}
    /\ incomplete' = FALSE /\ scanError' = FALSE
    /\ at' = [src |-> 1, dst |-> 1] /\ pairs' = <<>> /\ next' = 1 /\ ready' = <<>>
    /\ job' = [p \in Path |-> NoJob]
    /\ queued' = {} /\ yielded' = {} /\ failed' = {} /\ aggregate' = FALSE /\ completed' = FALSE
    /\ UNCHANGED <<storeVars, late>>

\* What was staged is lost, what was set aside stays, requests may still arrive.
Crash ==
    /\ Active /\ Spend("crashes")
    /\ phase' = "done"
    /\ late' = late \cup {Request(p) : p \in {q \in Path : job[q].at = "sent"}}
    /\ job' = [p \in Path |-> NoJob]
    /\ UNCHANGED <<storeVars, stop, signal, begun, scanVars, pairVars, runVars>>

Others ==
    /\ Spend("edits")
    /\ \E p \in Path : \/ \E d \in Data : EditFile(p, d)
                       \/ RemoveFile(p)
                       \/ \E f \in Folder, d \in Data : UploadElsewhere(f, p, d)
                       \/ \E f \in Folder : DeleteElsewhere(f, p)
    /\ UNCHANGED <<phase, stop, signal, begun, scanVars, pairVars, runVars, job, late>>

GeneratorStep ==
    \/ ScanSource \/ ScanDest \/ CollectPair \/ PairsCollected
    \/ StartBatch \/ PreparePair \/ PlanBatch \/ YieldCompare \/ Resume \/ NextItem
    \/ Finish \/ Report \/ EndUnfinished

\* A version a scenario starts with: newest first, as uploaded one after the other.
InitialFile(p, d) == [id |-> p, data |-> d]
InitialVersions(p, s) ==
    [i \in DOMAIN s |-> [id |-> N + p + (Len(s) - i) * N, action |-> "upload",
                         data |-> s[i][1], sha |-> s[i][2]]]

Init ==
    /\ plan \in Plan
    /\ disk = [p \in Path |-> IF plan.disk[p] = None THEN None ELSE InitialFile(p, plan.disk[p])]
    /\ aside = [p \in Path |-> {}]
    /\ remote = [f \in Folder |-> [p \in Path |-> InitialVersions(p, plan.remote[f][p])]]
    /\ clock = 4 * N + 1
    /\ phase = "idle" /\ stop = FALSE /\ signal = FALSE /\ now = 0 /\ clean = TRUE
    /\ scanned = {} /\ found = [src |-> <<>>, dst |-> <<>>] /\ had = {}
    /\ incomplete = FALSE /\ scanError = FALSE
    /\ at = [src |-> 1, dst |-> 1] /\ pairs = <<>> /\ next = 1 /\ ready = <<>>
    /\ job = [p \in Path |-> NoJob]
    /\ queued = {} /\ yielded = {} /\ failed = {} /\ aggregate = FALSE /\ completed = FALSE
    /\ late = {}

Next ==
    \/ StartRun \/ ScanThrows \/ GeneratorStep \/ AbortRun \/ CloseIterator
    \/ \E p \in Path : ActionStep(p)
    \/ \E r \in late : LateEffect(r)
    \/ Crash \/ Others

Spec == Init /\ [][Next]_vars

\* The event loop runs the generator and the actions; the consumer asks for more.
FairSpec == /\ Spec /\ WF_vars(GeneratorStep)
            /\ \A p \in Path : WF_vars(ActionStep(p))

-----------------------------------------------------------------------------
\* Correctness.

\* A destination loses a path only when the source really did not hold it at the
\* time of its scan: not when the scan passed the name over, failed on it, was cut
\* short, or when a download that died had set the file aside.
RemovedMeansAbsent ==
    \A p \in Path : job[p].kind \in Removals => p \notin had

\* What is uploaded for a path is what the scan saw and the comparison judged,
\* whatever the user does to the file meanwhile.
UploadIsScanned ==
    \A p \in Path : At(p, "upload", "sent") => job[p].held.data = job[p].src.data

\* In "sha1" mode a pair passes for equal only when its bytes are: no digest that
\* an uploader merely claimed suppresses a transfer.
SameMeansSame ==
    \A p \in Path : job[p].kind = "same" /\ opt.compareMode = "sha1"
                        => job[p].src.data = job[p].dst.data

\* A run that completed told its consumer the outcome of every pair, and closed
\* with an error event exactly when something failed.
EveryOutcomeYielded ==
    phase = "done" /\ completed =>
        /\ ~ scanError => \A k \in DOMAIN pairs : PathOf(pairs[k]) \in yielded
        /\ aggregate = (scanError \/ failed # {})
        /\ \A p \in Path : job[p].at = "failed" => p \in failed

\* A transfer that succeeded, with nobody else writing and no request of an earlier
\* run still on its way when this one began, put the content of the source in place.
Destination(p) == IF DestIsLocal THEN disk[p] ELSE Served(DestFolder, p)
TransferLands ==
    \A p \in Path :
        (job[p].kind \in Transfers /\ job[p].at = "done" /\ ~ opt.dryRun
           /\ plan.quiet /\ clean)
        => Destination(p) # None /\ Destination(p).data = job[p].src.data

\* What a run says of a path is so: it was removed because the source had nothing there,
\* is the same because the bytes are, or was sent because that is what the scan had seen.
OutcomesAreTrue == RemovedMeansAbsent /\ UploadIsScanned /\ SameMeansSame /\ TransferLands

\* Whatever a step takes from the directory was seen by the scan of the run, or was
\* taken by the user, or goes in the window between the last look at a file and
\* its unlink.
ByOthers == plan'.edits < plan.edits
KeepsUnseenFiles ==
    [][ByOthers \/ \A p \in Path : \A f \in FilesOf(p) \ FilesOf(p)' :
          job[p].at = "doomed" \/ (job[p].dst # None /\ f.id = job[p].dst.id)]_vars

\* While a file is replaced, and no user touches it, the old or the new one is
\* always there: a process that dies at any step loses neither.
OldOrNew ==
    [][plan.quiet => \A p \in Path :
          FilesOf(p) # {} /\ job[p].kind # "deleteLocal" => FilesOf(p)' # {}]_vars

\* No file of the directory is lost to a run: neither one it never saw, nor, whenever the
\* process dies, both the file it replaces and its replacement.
FilesSurvive == KeepsUnseenFiles /\ OldOrNew

\* Every run ends.
RunEnds == Active ~> ~ Active
=============================================================================
