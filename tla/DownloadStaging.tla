---------------------------- MODULE DownloadStaging ----------------------------
(***************************************************************************)
(* The managed directory in which downloads of a sync are staged            *)
(* (sync/download-staging.ts, and its use in sync/local-file-io.ts and      *)
(* sync/synchronizer.ts): its marker, one entry with a marker of its own    *)
(* for each download, the reaper of entries that others abandoned, and the  *)
(* cleanup at the end of a run.  Several processes may sync into one root   *)
(* and die at any moment.  Each file operation that can be disturbed is a   *)
(* step; reads of one directory that only lead to an early return are one.  *)
(***************************************************************************)
EXTENDS Integers, FiniteSets

CONSTANTS Download, Run, Process,
          Relic,        \* entries of processes that died earlier
          MaxDay,       \* STALE_DOWNLOAD_STAGING_AGE_MS is one day
          MaxWrites,    \* writes of one download
          Layout        \* [runOf, processOf, relics, users]: who belongs to whom, the entries left
                        \* behind, and whether the name is taken by a directory of the user

EntryState == [there : BOOLEAN, marker : BOOLEAN, partial : BOOLEAN, day : Nat, writes : Nat]

\* The entries others left behind: a partial file was only ever opened in a marked one.
ASSUME RelicAssumption == Download \cap Relic = {}
ASSUME LayoutAssumption ==
    \A l \in Layout :
        /\ l.runOf \in [Download -> Run] /\ l.processOf \in [Run -> Process]
        /\ DOMAIN l.relics \subseteq Relic /\ l.users \in BOOLEAN
        /\ \A x \in DOMAIN l.relics :
              l.relics[x] \in EntryState /\ (l.relics[x].partial => l.relics[x].marker)
        /\ l.users => DOMAIN l.relics = {}

VARIABLES layout, day,
          root,         \* the managed directory: there, its marker, content of the user
          entry,        \* the .download entries
          place, reap,  \* downloads, and the reaping one of them does
          run,          \* runs of the synchronizer
          active,       \* activeManagedDirectoryCreations, per process
          reaper,       \* reapedManagedDirectories: who reaps, per process
          dead,         \* processes that died
          slept,        \* history: processes that were suspended for a day
          pulled        \* history: a cleanup removed the directory from under a creation

stagingVars == <<layout, day, root, entry, place, reap, run, active, reaper, dead, slept, pulled>>

Entry == Download \cup Relic
ProcessOf(d) == layout.processOf[layout.runOf[d]]

NoEntry == [there |-> FALSE, marker |-> FALSE, partial |-> FALSE, day |-> 0, writes |-> 0]
NewEntry == [there |-> TRUE, marker |-> FALSE, partial |-> FALSE, day |-> day, writes |-> 0]
Absent == [there |-> FALSE, marker |-> FALSE, users |-> FALSE]

NoReap == [now |-> 0, seen |-> {}, doomed |-> {}, todo |-> {}]

StagingInit ==
    /\ layout \in Layout
    /\ day = 1
    /\ root = IF layout.users THEN [there |-> TRUE, marker |-> FALSE, users |-> TRUE]
              ELSE IF DOMAIN layout.relics = {} THEN Absent
              ELSE [there |-> TRUE, marker |-> TRUE, users |-> FALSE]
    /\ entry = [e \in Entry |-> IF e \in DOMAIN layout.relics THEN layout.relics[e] ELSE NoEntry]
    /\ place = [d \in Download |-> "idle"]
    /\ reap = [d \in Download |-> NoReap]
    /\ run = [r \in Run |-> "syncing"]
    /\ active = [p \in Process |-> 0]
    /\ reaper = [p \in Process |-> {}]
    /\ dead = {} /\ slept = {} /\ pulled = FALSE

Proceed(d, label) == place' = [place EXCEPT ![d] = label]

Entries == {e \in Entry : entry[e].there}

\* isManagedDownloadStagingRoot: its own marker, then those of its entries.
Marked == root.there /\ root.marker
EntryMarked == root.there /\ \E e \in Entries : entry[e].marker

Managed == Marked \/ EntryMarked

-----------------------------------------------------------------------------
(* createDownloadStagingDirectory                                          *)

\* retainDownloadStagingRootCreation
BeginCreate(d) ==
    /\ place[d] = "idle" /\ run[layout.runOf[d]] = "syncing"
    /\ active' = [active EXCEPT ![ProcessOf(d)] = @ + 1]
    /\ Proceed(d, "mkdir")
    /\ UNCHANGED <<layout, day, root, entry, reap, run, reaper, dead, slept, pulled>>

\* The finally clause: the creation is released, well or not.
Release(d) == active' = [active EXCEPT ![ProcessOf(d)] = @ - 1]

CreateFails(d) == Proceed(d, "ended") /\ Release(d) /\ UNCHANGED root

MakeRoot(d) ==
    /\ place[d] = "mkdir"
    /\ root' = IF root.there THEN root ELSE [Absent EXCEPT !.there = TRUE]
    /\ Proceed(d, "look")
    /\ UNCHANGED <<layout, day, entry, reap, run, active, reaper, dead, slept, pulled>>

\* The first call of isManagedDownloadStagingRoot, or the second; a directory that is gone
\* is not managed, and is missed by the steps that follow.
LookForMarker(d) ==
    /\ place[d] \in {"look", "lookAgain"}
    /\ Proceed(d, IF Marked THEN "mark" ELSE IF place[d] = "look" THEN "scan" ELSE "scanAgain")
    /\ UNCHANGED <<layout, day, root, entry, reap, run, active, reaper, dead, slept, pulled>>

ScanEntries(d) ==
    /\ place[d] \in {"scan", "scanAgain"}
    /\ \/ EntryMarked /\ Proceed(d, "mark") /\ UNCHANGED <<root, active>>
       \/ ~ EntryMarked /\ place[d] = "scan" /\ Proceed(d, "list") /\ UNCHANGED <<root, active>>
       \/ ~ EntryMarked /\ place[d] = "scanAgain" /\ CreateFails(d)
    /\ UNCHANGED <<layout, day, entry, reap, run, reaper, dead, slept, pulled>>

\* Mutant: a directory under the reserved name is taken over, whatever is in it.
ListAnything(d) == root.there /\ Proceed(d, "mark") /\ UNCHANGED <<root, active>>

\* An empty directory may be taken over; another must be managed after all.
ListRoot(d) ==
    \/ ~ root.there /\ CreateFails(d)
    \/ /\ root.there
       /\ Proceed(d, IF Entries = {} /\ ~ root.users /\ ~ root.marker THEN "mark" ELSE "lookAgain")
       /\ UNCHANGED <<root, active>>

CheckRoot(d) ==
    /\ place[d] = "list" /\ ListRoot(d)
    /\ UNCHANGED <<layout, day, entry, reap, run, reaper, dead, slept, pulled>>

\* writeStagingMarker: a marker that is there already will do.
MarkRoot(d) ==
    /\ place[d] = "mark"
    /\ \/ ~ root.there /\ CreateFails(d)
       \/ /\ root.there /\ root' = [root EXCEPT !.marker = TRUE]
          /\ Proceed(d, "reap") /\ UNCHANGED active
    /\ UNCHANGED <<layout, day, entry, reap, run, reaper, dead, slept, pulled>>

MakeEntry(d) ==
    /\ place[d] = "entry"
    /\ \/ ~ root.there /\ CreateFails(d) /\ UNCHANGED entry
       \/ /\ root.there /\ entry' = [entry EXCEPT ![d] = NewEntry]
          /\ Proceed(d, "markEntry") /\ UNCHANGED <<root, active>>
    /\ UNCHANGED <<layout, day, reap, run, reaper, dead, slept, pulled>>

\* Mutant: the entry has no marker of its own.
Unmarked(d) == entry

EntryWithMarker(d) == [entry EXCEPT ![d].marker = TRUE]

MarkEntry(d) ==
    /\ place[d] = "markEntry"
    /\ entry' = EntryWithMarker(d)
    /\ Proceed(d, "open") /\ Release(d)
    /\ UNCHANGED <<layout, day, root, reap, run, reaper, dead, slept, pulled>>

-----------------------------------------------------------------------------
(* The reaper.  It compares with the time it began.                         *)

\* readManagedStagingEntryActivity: the last activity, and a signature of it.
Activity(e) == [day |-> entry[e].day, writes |-> entry[e].writes]

Reapable(e, now) == entry[e].there /\ entry[e].marker /\ now - Activity(e).day >= 1

\* reapStaleDownloadStagingDirectoriesOnce: one at a time in a process, the others wait for it.
BeginReap(d) ==
    /\ place[d] = "reap"
    /\ IF reaper[ProcessOf(d)] = {}
       THEN /\ reaper' = [reaper EXCEPT ![ProcessOf(d)] = {d}]
            /\ reap' = [reap EXCEPT ![d].now = day]
            /\ Proceed(d, "readdir")
       ELSE Proceed(d, "await") /\ UNCHANGED <<reaper, reap>>
    /\ UNCHANGED <<layout, day, root, entry, run, active, dead, slept, pulled>>

ListEntries(d) ==
    /\ place[d] = "readdir"
    /\ reap' = [reap EXCEPT ![d].todo = Entries]
    /\ Proceed(d, "reaping")
    /\ UNCHANGED <<layout, day, root, entry, run, active, reaper, dead, slept, pulled>>

Skip(d, e) == reap' = [reap EXCEPT ![d].todo = @ \ {e}]

SeenBy(d, e) == {s \in reap[d].seen : s.entry = e}

ReadActivity(d, e) ==
    /\ e \in reap[d].todo /\ SeenBy(d, e) = {}
    /\ IF Reapable(e, reap[d].now)
       THEN reap' = [reap EXCEPT ![d].seen = @ \cup {[entry |-> e, activity |-> Activity(e)]}]
       ELSE Skip(d, e)
    /\ UNCHANGED <<layout, day, root, entry, place, run, active, reaper, dead, slept, pulled>>

\* Mutant: what was stale once is removed.
StaleOnce(d, seen) == TRUE

\* The second reading must show what the first did.
StillStale(d, seen) == Reapable(seen.entry, reap[d].now) /\ Activity(seen.entry) = seen.activity

ReadAgain(d, e) ==
    /\ e \in reap[d].todo /\ \A s \in reap[d].doomed : s.entry # e
    /\ \E seen \in SeenBy(d, e) :
          IF StillStale(d, seen)
          THEN reap' = [reap EXCEPT ![d].doomed = @ \cup {[entry |-> e, activity |-> Activity(e)]}]
          ELSE Skip(d, e)
    /\ UNCHANGED <<layout, day, root, entry, place, run, active, reaper, dead, slept, pulled>>

\* rm of the entry; what is written between the second reading and this is lost.
Reap(d, e) ==
    /\ e \in reap[d].todo /\ \E s \in reap[d].doomed : s.entry = e
    /\ entry' = [entry EXCEPT ![e] = NoEntry]
    /\ Skip(d, e)
    /\ UNCHANGED <<layout, day, root, place, run, active, reaper, dead, slept, pulled>>

EndReap(d) ==
    /\ place[d] = "reaping" /\ reap[d].todo = {}
    /\ place' = [x \in Download |->
                    IF x = d \/ (place[x] = "await" /\ ProcessOf(x) = ProcessOf(d))
                    THEN "entry" ELSE place[x]]
    /\ reap' = [reap EXCEPT ![d] = NoReap]
    /\ reaper' = [reaper EXCEPT ![ProcessOf(d)] = {}]
    /\ UNCHANGED <<layout, day, root, entry, run, active, dead, slept, pulled>>

-----------------------------------------------------------------------------
(* The download (writeDownloadStream).                                      *)

\* open of the partial file, O_EXCL in the entry.
OpenPartial(d) ==
    /\ place[d] = "open"
    /\ IF entry[d].there
       THEN entry' = [entry EXCEPT ![d].partial = TRUE, ![d].day = day] /\ Proceed(d, "write")
       ELSE UNCHANGED entry /\ Proceed(d, "remove")
    /\ UNCHANGED <<layout, day, root, reap, run, active, reaper, dead, slept, pulled>>

WriteBody(d) ==
    /\ place[d] = "write" /\ entry[d].there /\ entry[d].writes < MaxWrites
    /\ entry' = [entry EXCEPT ![d].writes = @ + 1, ![d].day = day]
    /\ UNCHANGED <<layout, day, root, place, reap, run, active, reaper, dead, slept, pulled>>

\* publishDownload moves the partial file to its place; or the download fails.
EndBody(d) ==
    /\ place[d] = "write"
    /\ entry' = [entry EXCEPT ![d].partial = FALSE]
    /\ Proceed(d, "remove")
    /\ UNCHANGED <<layout, day, root, reap, run, active, reaper, dead, slept, pulled>>

RemoveEntry(d) ==
    /\ place[d] = "remove"
    /\ entry' = [entry EXCEPT ![d] = NoEntry]
    /\ Proceed(d, "ended")
    /\ UNCHANGED <<layout, day, root, reap, run, active, reaper, dead, slept, pulled>>

-----------------------------------------------------------------------------
(* removeDownloadStagingRootMarkerAndDirectory, at the end of a run.        *)

Creating(r) == active[layout.processOf[r]] > 0

Clean(r, label) == run' = [run EXCEPT ![r] = label]

\* Its actions have ended; those it did not start never will.
BeginCleanup(r) ==
    /\ run[r] = "syncing"
    /\ \A d \in Download : layout.runOf[d] = r => place[d] \in {"idle", "ended"}
    /\ Clean(r, IF ~ Creating(r) /\ root.there THEN "stat" ELSE "done")
    /\ UNCHANGED <<layout, day, root, entry, place, reap, active, reaper, dead, slept, pulled>>

StatMarker(r) ==
    /\ run[r] = "stat" /\ Clean(r, IF Marked THEN "list" ELSE "done")
    /\ UNCHANGED <<layout, day, root, entry, place, reap, active, reaper, dead, slept, pulled>>

OnlyMarker == Marked /\ Entries = {} /\ ~ root.users

ListForCleanup(r) ==
    /\ run[r] = "list" /\ Clean(r, IF OnlyMarker THEN "recheck" ELSE "done")
    /\ UNCHANGED <<layout, day, root, entry, place, reap, active, reaper, dead, slept, pulled>>

RecheckActive(r) ==
    /\ run[r] = "recheck" /\ Clean(r, IF root.there /\ ~ Creating(r) THEN "unlink" ELSE "done")
    /\ UNCHANGED <<layout, day, root, entry, place, reap, active, reaper, dead, slept, pulled>>

UnlinkMarker(r) ==
    /\ run[r] = "unlink"
    /\ Clean(r, IF Marked THEN "rmdir" ELSE "done")
    /\ root' = [root EXCEPT !.marker = FALSE]
    /\ UNCHANGED <<layout, day, entry, place, reap, active, reaper, dead, slept, pulled>>

\* A creation that has marked the directory and has no entry in it yet.
MarkedFirst == {"reap", "await", "readdir", "reaping", "entry"}

\* rmdir only removes what is empty.
RemoveRoot(r) ==
    /\ run[r] = "rmdir"
    /\ \/ ~ root.there /\ Clean(r, "done") /\ UNCHANGED root
       \/ /\ root.there /\ Entries = {} /\ ~ root.marker /\ ~ root.users
          /\ root' = Absent /\ Clean(r, "done")
       \/ /\ root.there /\ (Entries # {} \/ root.marker \/ root.users)
          /\ Clean(r, "restore") /\ UNCHANGED root
    /\ pulled' = (pulled \/ (~ root'.there /\ \E d \in Download : place[d] \in MarkedFirst))
    /\ UNCHANGED <<layout, day, entry, place, reap, active, reaper, dead, slept>>

\* Mutant: the marker is not restored.
LeftUnmarked == root

\* restoreDownloadStagingRootMarker
Restored == IF root.there THEN [root EXCEPT !.marker = TRUE] ELSE root

RestoreMarker(r) ==
    /\ run[r] = "restore" /\ root' = Restored /\ Clean(r, "done")
    /\ UNCHANGED <<layout, day, entry, place, reap, active, reaper, dead, slept, pulled>>

-----------------------------------------------------------------------------
(* The environment.                                                         *)

UnderWay(d) == place[d] \notin {"idle", "ended"} /\ ProcessOf(d) \notin dead

\* A day passes.  Processes may sleep through it; the downloads of the others have written
\* within downloadIdleTimeoutMillis.
DayPasses ==
    /\ day < MaxDay /\ day' = day + 1
    /\ \E asleep \in SUBSET Process :
          /\ slept' = slept \cup asleep
          /\ entry' = [e \in Entry |->
                         IF /\ entry[e].there /\ e \in Download
                            /\ UnderWay(e) /\ ProcessOf(e) \notin asleep
                         THEN [entry[e] EXCEPT !.day = day'] ELSE entry[e]]
    /\ UNCHANGED <<layout, root, place, reap, run, active, reaper, dead, pulled>>

\* A process dies: what it did on the disk stays.
ProcessDies(p) ==
    /\ p \notin dead /\ dead' = dead \cup {p}
    /\ place' = [d \in Download |-> IF ProcessOf(d) = p THEN "ended" ELSE place[d]]
    /\ reap' = [d \in Download |-> IF ProcessOf(d) = p THEN NoReap ELSE reap[d]]
    /\ run' = [r \in Run |-> IF layout.processOf[r] = p THEN "done" ELSE run[r]]
    /\ active' = [active EXCEPT ![p] = 0] /\ reaper' = [reaper EXCEPT ![p] = {}]
    /\ UNCHANGED <<layout, day, root, entry, slept, pulled>>

StagingNext ==
    \/ \E d \in Download :
         \/ BeginCreate(d) \/ MakeRoot(d) \/ LookForMarker(d) \/ ScanEntries(d)
         \/ CheckRoot(d) \/ MarkRoot(d)
         \/ MakeEntry(d) \/ MarkEntry(d) \/ BeginReap(d) \/ ListEntries(d) \/ EndReap(d)
         \/ OpenPartial(d) \/ WriteBody(d) \/ EndBody(d) \/ RemoveEntry(d)
         \/ \E e \in Entry : ReadActivity(d, e) \/ ReadAgain(d, e) \/ Reap(d, e)
    \/ \E r \in Run :
         \/ BeginCleanup(r) \/ StatMarker(r) \/ ListForCleanup(r) \/ RecheckActive(r)
         \/ UnlinkMarker(r) \/ RemoveRoot(r) \/ RestoreMarker(r)
    \/ DayPasses
    \/ \E p \in Process : ProcessDies(p)

StagingSpec == StagingInit /\ [][StagingNext]_stagingVars

-----------------------------------------------------------------------------
\* The reaping and the cleanup of others never take the entry of a download that is under
\* way in a process that was not suspended; and of one that was, only if it wrote nothing
\* until the second reading ("only when marker and partial-file activity is old and
\* unchanged immediately before removal, so active partial downloads are not removed by
\* another setup", CHANGELOG.md:175).
ActiveEntriesStay ==
    [][\A d \in Download :
          entry[d].there /\ ~ entry'[d].there /\ place[d] # "remove" /\ UnderWay(d) =>
             /\ ProcessOf(d) \in slept
             /\ \A x \in Download : \A s \in reap[x].doomed :
                   s.entry = d => s.activity.day < reap[x].now]_stagingVars

\* A scan passes over the managed directory, by its marker or that of an entry, whenever a
\* partial file is in it; and never over a directory of the user that has the same name.
ScansSeeUsersFilesOnly ==
    /\ (\E e \in Entries : entry[e].partial) => Managed
    /\ layout.users => ~ Managed

\* When every run has ended and no process died, the directory is gone or has its marker, so
\* that a later run can use and remove it, although cleanups and creations overlap.  (Unless
\* a cleanup removed it between the marker and the entry of a creation: the entry is then
\* made in a new directory that another creation has not marked yet.)
StagingStaysUsable ==
    (\A r \in Run : run[r] = "done") /\ dead = {} /\ ~ pulled /\ ~ layout.users =>
        Marked \/ ~ root.there
=============================================================================
