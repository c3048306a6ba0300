------------------------------ MODULE SyncProofs ------------------------------
(***************************************************************************)
(* Two components of a synchronization, in two parts.                      *)
(*                                                                         *)
(* The staging directory.  StagingInv of DownloadStaging is inductive.  An *)
(* entry is fresh while its download is under way, so that whatever a      *)
(* reaper sees as stale belongs to nobody or to a process that slept; and  *)
(* whoever finds the directory without its marker is followed by a         *)
(* creation that marks it or a cleanup that removes it.                    *)
(*                                                                         *)
(* The synchronizer.  CoreInv says what is true of a run whatever it says: *)
(* types, files and versions that are who their ids say, sources that are  *)
(* what the scan saw, and a batch that is a stretch of the pairs.  On it   *)
(* rest, one after the other, that no file is lost, that every pair has    *)
(* its outcome, and that the outcomes are true.                            *)
(*                                                                         *)
(* The actions follow one by one; each step of a proof is about one part   *)
(* of an invariant.                                                        *)
(***************************************************************************)
EXTENDS Synchronizer, DownloadStaging, FiniteSetTheorems, TLAPS

-----------------------------------------------------------------------------
(* The managed directory.                                                  *)

Arriving == {"idle", "mkdir", "look", "scan", "list", "lookAgain", "scanAgain"}
Places == Arriving \cup MarkedFirst \cup {"mark", "markEntry", "open", "write", "remove", "ended"}

RunPhases == {"syncing", "stat", "list", "recheck", "unlink", "rmdir", "restore", "done"}

Sighting == [entry : Entry, activity : [day : Nat, writes : Nat]]

ReapState == [now : Nat, seen : SUBSET Sighting, doomed : SUBSET Sighting, todo : SUBSET Entry]

StagingTypes ==
    /\ layout \in Layout /\ day \in Nat
    /\ root \in [there : BOOLEAN, marker : BOOLEAN, users : BOOLEAN]
    /\ entry \in [Entry -> EntryState]
    /\ place \in [Download -> Places]
    /\ reap \in [Download -> ReapState]
    /\ run \in [Run -> RunPhases]
    /\ slept \subseteq Process /\ pulled \in BOOLEAN

\* A download has an entry only after its creation made one, and opens its partial file only
\* when the entry is marked.
MarkedBeforeOpen ==
    /\ \A d \in Download :
          /\ place[d] \in Arriving \cup MarkedFirst \cup {"mark"} => ~ entry[d].there
          /\ place[d] \in {"open", "write"} /\ entry[d].there => entry[d].marker
    /\ \A e \in Entry : entry[e].there /\ entry[e].partial => entry[e].marker

\* A download under way writes every day, unless its process sleeps.
FreshEntries ==
    \A d \in Download :
        entry[d].there /\ UnderWay(d) /\ ProcessOf(d) \notin slept => entry[d].day = day

\* What a reaper has seen was stale, and it belongs to nobody or to one who slept.
StaleSightings ==
    \A x \in Download :
        /\ reap[x].now <= day
        /\ \A s \in reap[x].seen \cup reap[x].doomed :
              /\ s.activity.day < reap[x].now
              /\ s.entry \in Download =>
                    /\ place[s.entry] # "idle"
                    /\ UnderWay(s.entry) => ProcessOf(s.entry) \in slept

\* Nobody gets further in a directory of the user than to look at it.
UsersDirectory ==
    /\ root.users = layout.users
    /\ layout.users =>
          /\ root.there /\ ~ root.marker /\ Entries = {}
          /\ \A d \in Download : place[d] \in Arriving \cup {"ended"}
          /\ \A r \in Run : run[r] \in {"syncing", "stat", "done"}

\* A run cleans up after its downloads.
RunsWait ==
    \A d \in Download : run[layout.runOf[d]] # "syncing" => place[d] \in {"idle", "ended"}

Cleaning == \E r \in Run : run[r] \in {"rmdir", "restore"}

\* Whoever finds the directory without its marker is followed by a creation that will mark it
\* or a cleanup that removes it or restores the marker; creations that have marked it and
\* entries are only ever left to a cleanup.
SomebodyMarks ==
    /\ root.marker \/ Entries # {} => root.there
    /\ ~ pulled /\ dead = {} /\ ~ layout.users =>
          /\ (\E d \in Download : place[d] \in MarkedFirst) \/ Entries # {} =>
                root.there /\ (root.marker \/ Cleaning)
          /\ root.there /\ ~ root.marker =>
                Cleaning \/ \E d \in Download : place[d] \in {"look", "scan", "list", "mark"}

StagingInv ==
    /\ StagingTypes /\ MarkedBeforeOpen /\ FreshEntries /\ StaleSightings
    /\ UsersDirectory /\ RunsWait /\ SomebodyMarks

\* An entry, or what a reaper knows, changes at one place.
LEMMA OneEntryChanges ==
    ASSUME StagingTypes, NEW e \in Entry, NEW v \in EntryState, entry' = [entry EXCEPT ![e] = v]
    PROVE  entry' \in [Entry -> EntryState] /\ entry'[e] = v /\ \A x \in Entry : x # e
        => entry'[x] = entry[x]
BY DEF StagingTypes

LEMMA OneReapChanges ==
    ASSUME StagingTypes, NEW d \in Download, NEW v \in ReapState, reap' = [reap EXCEPT ![d] = v]
    PROVE  reap' \in [Download -> ReapState] /\ reap'[d] = v /\ \A x \in Download : x # d
        => reap'[x] = reap[x]
BY DEF StagingTypes

LEMMA MakeEntryChanges ==
    ASSUME StagingTypes, NEW d \in Download, MakeEntry(d)
    PROVE  \/ entry' = entry
           \/ \E v \in EntryState : entry' = [entry EXCEPT ![d] = v] /\ v.day = day
                 /\ ~ v.partial
<1>1. NewEntry \in EntryState /\ NewEntry.day = day /\ ~ NewEntry.partial
  BY DEF StagingTypes, NewEntry, EntryState
<1> QED
  BY <1>1 DEF MakeEntry, CreateFails

LEMMA MarkEntryChanges ==
    ASSUME StagingTypes, NEW d \in Download, MarkEntry(d)
    PROVE  \E v \in EntryState : entry' = [entry EXCEPT ![d] = v] /\ v.marker
<1> DEFINE new == [entry[d] EXCEPT !.marker = TRUE]
<1>1. entry[d] \in EntryState /\ d \in Entry
  BY DEF StagingTypes, Entry
<1>2. new \in EntryState /\ new.marker
  BY <1>1 DEF EntryState
<1>3. entry' = [entry EXCEPT ![d] = new]
  BY DEF MarkEntry, EntryWithMarker
<1> QED
  BY <1>2, <1>3

LEMMA OpenPartialChanges ==
    ASSUME StagingTypes, NEW d \in Download, OpenPartial(d)
    PROVE  \/ entry' = entry
           \/ \E v \in EntryState : entry' = [entry EXCEPT ![d] = v] /\ v.there = entry[d].there
                                     /\ v.marker = entry[d].marker /\ v.day = day
<1> DEFINE new == [entry[d] EXCEPT !.partial = TRUE, !.day = day]
<1>1. entry[d] \in EntryState /\ d \in Entry
  BY DEF StagingTypes, Entry
<1>2. new \in EntryState /\ new.there = entry[d].there /\ new.marker = entry[d].marker
          /\ new.day = day
  BY <1>1 DEF EntryState, StagingTypes
<1>3. entry' = [entry EXCEPT ![d] = new] \/ entry' = entry
  BY <1>1 DEF OpenPartial, StagingTypes, EntryState
<1> QED
  BY <1>2, <1>3

LEMMA ReadActivityChanges ==
    ASSUME StagingTypes, NEW d \in Download, NEW e \in Entry, ReadActivity(d, e)
    PROVE  \E v \in ReapState : reap' = [reap EXCEPT ![d] = v] /\ v.now = reap[d].now
              /\ v.doomed = reap[d].doomed
              /\ \/ v.seen = reap[d].seen
                 \/ /\ Reapable(e, reap[d].now)
                    /\ v.seen = reap[d].seen \cup {[entry |-> e, activity |-> Activity(e)]}
<1>1. reap[d] \in ReapState /\ Activity(e) \in [day : Nat, writes : Nat]
  BY DEF StagingTypes, Activity, EntryState
<1>2. CASE Reapable(e, reap[d].now)
  <2> DEFINE new == [reap[d] EXCEPT !.seen = @ \cup {[entry |-> e, activity |-> Activity(e)]}]
  <2>1. new \in ReapState /\ new.now = reap[d].now /\ new.doomed = reap[d].doomed
        /\ new.seen = reap[d].seen \cup {[entry |-> e, activity |-> Activity(e)]}
    BY <1>1 DEF ReapState, Sighting
  <2>2. reap' = [reap EXCEPT ![d] = new]
    BY <1>2 DEF ReadActivity
  <2> QED
    BY <2>1, <2>2, <1>2
<1>3. CASE ~ Reapable(e, reap[d].now)
  <2> DEFINE new == [reap[d] EXCEPT !.todo = @ \ {e}]
  <2>1. new \in ReapState /\ new.now = reap[d].now /\ new.doomed = reap[d].doomed
            /\ new.seen = reap[d].seen
    BY <1>1 DEF ReapState
  <2>2. reap' = [reap EXCEPT ![d] = new]
    BY <1>3 DEF ReadActivity, Skip
  <2> QED
    BY <2>1, <2>2
<1> QED
  BY <1>2, <1>3

LEMMA WritingChanges ==
    ASSUME StagingTypes, NEW d \in Download, WriteBody(d) \/ EndBody(d)
    PROVE  entry' \in [Entry -> EntryState]
<1>1. entry[d] \in EntryState /\ d \in Entry
  BY DEF StagingTypes, Entry
<1>2. CASE WriteBody(d)
  <2> DEFINE new == [entry[d] EXCEPT !.writes = @ + 1, !.day = day]
  <2>0. PICK n \in Nat : n = entry[d].writes + 1
    BY <1>1 DEF EntryState
  <2>1. new = [entry[d] EXCEPT !.writes = n, !.day = day] /\ new \in EntryState
    BY <1>1, <2>0 DEF EntryState, StagingTypes
  <2>2. entry' = [entry EXCEPT ![d].writes = @ + 1, ![d].day = day]
    BY <1>2 DEF WriteBody
  <2>3. \A x \in Entry : entry'[x] = IF x = d THEN new ELSE entry[x]
    BY <1>1, <2>2 DEF StagingTypes, EntryState
  <2>4. entry' = [x \in Entry |-> entry'[x]]
    BY <2>2 DEF StagingTypes
  <2> QED
    BY <1>1, <2>1, <2>3, <2>4 DEF StagingTypes
<1>3. CASE EndBody(d)
  <2> DEFINE new == [entry[d] EXCEPT !.partial = FALSE]
  <2>1. new \in EntryState
    BY <1>1 DEF EntryState
  <2>2. entry' = [entry EXCEPT ![d] = new]
    BY <1>3 DEF EndBody
  <2> QED
    BY <1>1, <2>1, <2>2, OneEntryChanges
<1> QED
  BY <1>2, <1>3

LEMMA BeginReapChanges ==
    ASSUME StagingTypes, NEW d \in Download, BeginReap(d)
    PROVE  \/ reap' = reap
           \/ \E v \in ReapState : reap' = [reap EXCEPT ![d] = v] /\ v.now = day
                                    /\ v.seen = reap[d].seen /\ v.doomed = reap[d].doomed
<1> DEFINE new == [reap[d] EXCEPT !.now = day]
<1>1. new \in ReapState /\ new.now = day /\ new.seen = reap[d].seen
          /\ new.doomed = reap[d].doomed
  BY DEF StagingTypes, ReapState
<1>2. reap' = [reap EXCEPT ![d] = new] \/ reap' = reap
  BY DEF BeginReap
<1> QED
  BY <1>1, <1>2

LEMMA ListEntriesChanges ==
    ASSUME StagingTypes, NEW d \in Download, ListEntries(d)
    PROVE  reap' \in [Download -> ReapState]
<1> DEFINE new == [reap[d] EXCEPT !.todo = Entries]
<1>1. new \in ReapState
  BY DEF StagingTypes, ReapState, Entries
<1>2. reap' = [reap EXCEPT ![d] = new]
  BY DEF ListEntries
<1> QED
  BY <1>1, <1>2, OneReapChanges

LEMMA ReadAgainChanges ==
    ASSUME StagingTypes, NEW d \in Download, NEW e \in Entry, ReadAgain(d, e)
    PROVE  \E v \in ReapState : reap' = [reap EXCEPT ![d] = v] /\ v.now = reap[d].now
              /\ v.seen = reap[d].seen
              /\ \/ v.doomed = reap[d].doomed
                 \/ /\ Reapable(e, reap[d].now)
                    /\ v.doomed = reap[d].doomed \cup {[entry |-> e, activity |-> Activity(e)]}
<1>1. reap[d] \in ReapState /\ Activity(e) \in [day : Nat, writes : Nat]
  BY DEF StagingTypes, Activity, EntryState
<1>2. PICK seen \in SeenBy(d, e) :
          IF StillStale(d, seen)
          THEN reap' = [reap EXCEPT ![d].doomed = @ \cup {[entry |-> e,
              activity |-> Activity(e)]}]
          ELSE Skip(d, e)
  BY DEF ReadAgain
<1>3. CASE StillStale(d, seen)
  <2> DEFINE new == [reap[d] EXCEPT !.doomed = @ \cup {[entry |-> e, activity |-> Activity(e)]}]
  <2>1. new \in ReapState /\ new.now = reap[d].now /\ new.seen = reap[d].seen
        /\ new.doomed = reap[d].doomed \cup {[entry |-> e, activity |-> Activity(e)]}
    BY <1>1 DEF ReapState, Sighting
  <2>2. reap' = [reap EXCEPT ![d] = new]
    BY <1>2, <1>3
  <2>3. Reapable(e, reap[d].now)
    BY <1>2, <1>3 DEF StillStale, SeenBy
  <2> QED
    BY <2>1, <2>2, <2>3
<1>4. CASE ~ StillStale(d, seen)
  <2> DEFINE new == [reap[d] EXCEPT !.todo = @ \ {e}]
  <2>1. new \in ReapState /\ new.now = reap[d].now /\ new.doomed = reap[d].doomed
            /\ new.seen = reap[d].seen
    BY <1>1 DEF ReapState
  <2>2. reap' = [reap EXCEPT ![d] = new]
    BY <1>2, <1>4 DEF Skip
  <2> QED
    BY <2>1, <2>2
<1> QED
  BY <1>3, <1>4

LEMMA ReapChanges ==
    ASSUME StagingTypes, NEW d \in Download, NEW e \in Entry, Reap(d, e)
    PROVE  /\ NoEntry \in EntryState /\ ~ NoEntry.there
        /\ entry' = [entry EXCEPT ![e] = NoEntry]
           /\ \E v \in ReapState : reap' = [reap EXCEPT ![d] = v] /\ v.now = reap[d].now
                 /\ v.seen = reap[d].seen /\ v.doomed = reap[d].doomed
<1> DEFINE new == [reap[d] EXCEPT !.todo = @ \ {e}]
<1>1. new \in ReapState /\ new.now = reap[d].now /\ new.doomed = reap[d].doomed
          /\ new.seen = reap[d].seen
  BY DEF ReapState, StagingTypes
<1>2. reap' = [reap EXCEPT ![d] = new]
  BY DEF Reap, Skip
<1> QED
  BY <1>1, <1>2 DEF Reap, NoEntry, EntryState

\* What looks stale in the activity of an entry is either nobody's or that of a sleeper.
ReapsOnlyStale(e, today) ==
    /\ entry[e].day < today
    /\ e \in Download => place[e] # "idle" /\ (UnderWay(e) => ProcessOf(e) \in slept)

LEMMA DownloadsAreFresh ==
    ASSUME StagingInv, NEW e \in Entry, NEW x \in Download, Reapable(e, reap[x].now)
    PROVE  ReapsOnlyStale(e, reap[x].now)
<1>1. entry[e].there /\ reap[x].now - entry[e].day >= 1
  BY DEF Reapable, Activity
<1>2. reap[x].now \in Nat /\ entry[e].day \in Nat /\ day \in Nat /\ reap[x].now <= day
  BY DEF StagingInv, StagingTypes, ReapState, EntryState, StaleSightings
<1>3. entry[e].day < reap[x].now /\ entry[e].day # day
  BY <1>1, <1>2
<1> QED
  BY <1>1, <1>3 DEF ReapsOnlyStale, StagingInv, MarkedBeforeOpen, FreshEntries, Arriving

LEMMA BeginCreateKeeps ==
    ASSUME StagingInv, NEW d \in Download, BeginCreate(d)
    PROVE  StagingInv'
<1> USE LayoutAssumption, RelicAssumption DEF StagingInv, StagingTypes, RunPhases, EntryState,
     Entry,
     Places, Arriving, MarkedFirst, BeginCreate, Proceed
<1>1. StagingTypes'
  BY DEF Entries, ReapState, Sighting
<1>2. MarkedBeforeOpen'
  BY DEF MarkedBeforeOpen
<1>3. FreshEntries'
  BY DEF MarkedBeforeOpen, FreshEntries, UnderWay, ProcessOf
<1>4. StaleSightings'
  BY DEF Sighting, ReapState, MarkedBeforeOpen, FreshEntries, StaleSightings, UnderWay,
     ProcessOf
<1>5. UsersDirectory'
  BY DEF UsersDirectory, Entries, Marked, EntryMarked
<1>6. RunsWait'
  BY DEF RunsWait
<1>7. SomebodyMarks'
  BY DEF UsersDirectory, SomebodyMarks, Cleaning, Entries, Marked, EntryMarked
<1> QED
  BY <1>1, <1>2, <1>3, <1>4, <1>5, <1>6, <1>7

LEMMA MakeRootKeeps ==
    ASSUME StagingInv, NEW d \in Download, MakeRoot(d)
    PROVE  StagingInv'
<1>5. UsersDirectory'
  <2> DEFINE new == [Absent EXCEPT !.there = TRUE]
  <2>1. new.marker = FALSE /\ new.users = FALSE
    BY DEF Absent
  <2>2. /\ root' = root \/ (~ root.there /\ root' = new)
        /\ UNCHANGED <<layout, entry, run>>
    BY DEF MakeRoot
  <2> HIDE DEF new
  <2>3. root'.users = root.users /\ (layout.users => ~ root'.marker)
    BY <2>1, <2>2 DEF StagingInv, StagingTypes, UsersDirectory
  <2>4. \A x \in Download : place'[x] = place[x] \/ place'[x] = "look"
    BY DEF MakeRoot, Proceed, StagingInv, StagingTypes
  <2> QED
    BY <2>2, <2>3, <2>4 DEF StagingInv, UsersDirectory, Arriving, Entries
<1> USE LayoutAssumption, RelicAssumption DEF StagingInv, StagingTypes, RunPhases, EntryState,
     Entry,
     Places, Arriving, MarkedFirst, MakeRoot, Proceed, Absent
<1>1. StagingTypes'
  BY DEF Entries, ReapState, Sighting
<1>2. MarkedBeforeOpen'
  BY DEF MarkedBeforeOpen
<1>3. FreshEntries'
  BY DEF MarkedBeforeOpen, FreshEntries, UnderWay, ProcessOf
<1>4. StaleSightings'
  BY DEF Sighting, ReapState, MarkedBeforeOpen, FreshEntries, StaleSightings, UnderWay,
     ProcessOf
<1>6. RunsWait'
  BY DEF RunsWait
<1>7. SomebodyMarks'
  BY DEF UsersDirectory, SomebodyMarks, Cleaning, Entries, Marked, EntryMarked
<1> QED
  BY <1>1, <1>2, <1>3, <1>4, <1>5, <1>6, <1>7

LEMMA LookForMarkerKeeps ==
    ASSUME StagingInv, NEW d \in Download, LookForMarker(d)
    PROVE  StagingInv'
<1> USE LayoutAssumption, RelicAssumption DEF StagingInv, StagingTypes, RunPhases, EntryState,
     Entry,
     Places, Arriving, MarkedFirst, LookForMarker, Proceed
<1>1. StagingTypes'
  BY DEF Entries, ReapState, Sighting
<1>2. MarkedBeforeOpen'
  BY DEF MarkedBeforeOpen
<1>3. FreshEntries'
  BY DEF MarkedBeforeOpen, FreshEntries, UnderWay, ProcessOf
<1>4. StaleSightings'
  BY DEF Sighting, ReapState, MarkedBeforeOpen, FreshEntries, StaleSightings, UnderWay,
     ProcessOf
<1>5. UsersDirectory'
  BY DEF UsersDirectory, Entries, Marked, EntryMarked
<1>6. RunsWait'
  BY DEF RunsWait
<1>7. SomebodyMarks'
  BY DEF UsersDirectory, SomebodyMarks, Cleaning, Entries, Marked, EntryMarked
<1> QED
  BY <1>1, <1>2, <1>3, <1>4, <1>5, <1>6, <1>7

LEMMA ScanEntriesKeeps ==
    ASSUME StagingInv, NEW d \in Download, ScanEntries(d)
    PROVE  StagingInv'
<1> USE LayoutAssumption, RelicAssumption DEF StagingInv, StagingTypes, RunPhases, EntryState,
     Entry,
     Places, Arriving, MarkedFirst, ScanEntries, Proceed, CreateFails
<1>1. StagingTypes'
  BY DEF Entries, ReapState, Sighting
<1>2. MarkedBeforeOpen'
  BY DEF MarkedBeforeOpen
<1>3. FreshEntries'
  BY DEF MarkedBeforeOpen, FreshEntries, UnderWay, ProcessOf
<1>4. StaleSightings'
  BY DEF Sighting, ReapState, MarkedBeforeOpen, FreshEntries, StaleSightings, UnderWay,
     ProcessOf
<1>5. UsersDirectory'
  BY DEF UsersDirectory, Entries, Marked, EntryMarked
<1>6. RunsWait'
  BY DEF RunsWait
<1>7. SomebodyMarks'
  BY DEF UsersDirectory, SomebodyMarks, Cleaning, Entries, Marked, EntryMarked
<1> QED
  BY <1>1, <1>2, <1>3, <1>4, <1>5, <1>6, <1>7

LEMMA CheckRootKeeps ==
    ASSUME StagingInv, NEW d \in Download, CheckRoot(d)
    PROVE  StagingInv'
<1> USE LayoutAssumption, RelicAssumption DEF StagingInv, StagingTypes, RunPhases, EntryState,
     Entry,
     Places, Arriving, MarkedFirst, CheckRoot, Proceed, CreateFails, ListRoot
<1>1. StagingTypes'
  BY DEF Entries, ReapState, Sighting
<1>2. MarkedBeforeOpen'
  BY DEF MarkedBeforeOpen
<1>3. FreshEntries'
  BY DEF MarkedBeforeOpen, FreshEntries, UnderWay, ProcessOf
<1>4. StaleSightings'
  BY DEF Sighting, ReapState, MarkedBeforeOpen, FreshEntries, StaleSightings, UnderWay,
     ProcessOf
<1>5. UsersDirectory'
  BY DEF UsersDirectory, Entries, Marked, EntryMarked
<1>6. RunsWait'
  BY DEF RunsWait
<1>7. SomebodyMarks'
  BY DEF UsersDirectory, SomebodyMarks, Cleaning, Entries, Marked, EntryMarked
<1> QED
  BY <1>1, <1>2, <1>3, <1>4, <1>5, <1>6, <1>7

LEMMA MarkRootKeeps ==
    ASSUME StagingInv, NEW d \in Download, MarkRoot(d)
    PROVE  StagingInv'
<1> USE LayoutAssumption, RelicAssumption DEF StagingInv, StagingTypes, RunPhases, EntryState,
     Entry,
     Places, Arriving, MarkedFirst, MarkRoot, Proceed, CreateFails
<1>1. StagingTypes'
  <2>1. root' \in [there : BOOLEAN, marker : BOOLEAN, users : BOOLEAN]
    OBVIOUS
  <2>2. place' \in [Download -> Places]
    OBVIOUS
  <2> QED
    BY <2>1, <2>2
<1>2. MarkedBeforeOpen'
  BY DEF MarkedBeforeOpen
<1>3. FreshEntries'
  BY DEF MarkedBeforeOpen, FreshEntries, UnderWay, ProcessOf
<1>4. StaleSightings'
  BY DEF Sighting, ReapState, MarkedBeforeOpen, FreshEntries, StaleSightings, UnderWay,
     ProcessOf
<1>5. UsersDirectory'
  BY DEF UsersDirectory, Entries, Marked, EntryMarked
<1>6. RunsWait'
  BY DEF RunsWait
<1>7. SomebodyMarks'
  BY DEF UsersDirectory, SomebodyMarks, Cleaning, Entries, Marked, EntryMarked
<1> QED
  BY <1>1, <1>2, <1>3, <1>4, <1>5, <1>6, <1>7

LEMMA MakeEntryKeeps ==
    ASSUME StagingInv, NEW d \in Download, MakeEntry(d)
    PROVE  StagingInv'
<1>1. StagingTypes'
  <2>1. entry' \in [Entry -> EntryState]
    BY MakeEntryChanges, OneEntryChanges DEF StagingInv, Entry, StagingTypes
  <2> QED
    BY <2>1 DEF StagingInv, StagingTypes, Places, Arriving, MarkedFirst, MakeEntry, Proceed,
       CreateFails, NewEntry
<1>2. MarkedBeforeOpen'
  <2>1. \A x \in Entry : entry'[x] = entry[x] \/ ~ entry'[x].partial
    BY MakeEntryChanges, OneEntryChanges DEF StagingInv, Entry
  <2> QED
    BY <2>1 DEF StagingInv, StagingTypes, MarkedBeforeOpen, Arriving, MarkedFirst, Entry,
       MakeEntry, Proceed, CreateFails
<1> USE LayoutAssumption, RelicAssumption DEF StagingInv, StagingTypes, RunPhases, EntryState,
     Entry,
     Places, Arriving, MarkedFirst, MakeEntry, Proceed, CreateFails, NewEntry
<1>3. FreshEntries'
  <2>1. \A x \in Download : x # d => entry'[x] = entry[x] /\ place'[x] = place[x]
    OBVIOUS
  <2>2. entry'[d].there => entry'[d].day = day'
    BY DEF MarkedBeforeOpen
  <2> QED
    BY <2>1, <2>2 DEF FreshEntries, UnderWay, ProcessOf
<1>4. StaleSightings'
  BY DEF Sighting, ReapState, MarkedBeforeOpen, FreshEntries, StaleSightings, UnderWay,
     ProcessOf
<1>5. UsersDirectory'
  BY DEF UsersDirectory, Entries, Marked, EntryMarked
<1>6. RunsWait'
  BY DEF RunsWait
<1>7. SomebodyMarks'
  BY DEF UsersDirectory, SomebodyMarks, Cleaning, Entries, Marked, EntryMarked
<1> QED
  BY <1>1, <1>2, <1>3, <1>4, <1>5, <1>6, <1>7

LEMMA MarkEntryKeeps ==
    ASSUME StagingInv, NEW d \in Download, MarkEntry(d)
    PROVE  StagingInv'
<1>1. StagingTypes'
  <2>1. entry' \in [Entry -> EntryState]
    BY MarkEntryChanges, OneEntryChanges DEF StagingInv, Entry, StagingTypes
  <2> QED
    BY <2>1 DEF StagingInv, StagingTypes, Places, Arriving, MarkedFirst, MarkEntry, Proceed,
       EntryWithMarker
<1> USE LayoutAssumption, RelicAssumption DEF StagingInv, StagingTypes, RunPhases, EntryState,
     Entry,
     Places, Arriving, MarkedFirst, MarkEntry, Proceed, EntryWithMarker
<1>2. MarkedBeforeOpen'
  BY DEF MarkedBeforeOpen
<1>3. FreshEntries'
  BY DEF MarkedBeforeOpen, FreshEntries, UnderWay, ProcessOf
<1>4. StaleSightings'
  BY DEF Sighting, ReapState, MarkedBeforeOpen, FreshEntries, StaleSightings, UnderWay,
     ProcessOf
<1>5. UsersDirectory'
  BY DEF UsersDirectory, Entries, Marked, EntryMarked
<1>6. RunsWait'
  BY DEF RunsWait
<1>7. SomebodyMarks'
  BY DEF UsersDirectory, SomebodyMarks, Cleaning, Entries, Marked, EntryMarked
<1> QED
  BY <1>1, <1>2, <1>3, <1>4, <1>5, <1>6, <1>7

LEMMA BeginReapKeeps ==
    ASSUME StagingInv, NEW d \in Download, BeginReap(d)
    PROVE  StagingInv'
<1>1. StagingTypes'
  <2>1. reap' \in [Download -> ReapState]
    BY BeginReapChanges, OneReapChanges DEF StagingInv, StagingTypes
  <2> QED
    BY <2>1 DEF StagingInv, StagingTypes, Places, Arriving, MarkedFirst, BeginReap, Proceed
<1>4. StaleSightings'
  <2>1. \A x \in Download : /\ reap'[x].now <= day /\ reap'[x].now >= reap[x].now
                            /\ reap'[x].seen = reap[x].seen /\ reap'[x].doomed = reap[x].doomed
    BY BeginReapChanges, OneReapChanges DEF StagingInv, StagingTypes, StaleSightings, ReapState
  <2>2. \A x \in Download : reap[x] \in ReapState /\ reap'[x] \in ReapState
    BY <1>1 DEF StagingInv, StagingTypes
  <2>3. \A x \in Download : /\ place[x] # "idle" => place'[x] # "idle"
                            /\ UnderWay(x)' => UnderWay(x)
    BY DEF UnderWay, ProcessOf, BeginReap, Proceed, StagingInv, StagingTypes
  <2>4. day' = day /\ slept' = slept /\ \A x \in Download : ProcessOf(x)' = ProcessOf(x)
    BY DEF BeginReap, ProcessOf
  <2>5. \A x \in Download, s \in Sighting :
            s.activity.day < reap[x].now => s.activity.day < reap'[x].now
    BY <2>1, <2>2 DEF Sighting, ReapState
  <2>6. \A x \in Download : reap[x].seen \cup reap[x].doomed \subseteq Sighting
    BY <2>2 DEF ReapState
  <2> QED
    BY <2>1, <2>3, <2>4, <2>5, <2>6 DEF StagingInv, StaleSightings
<1> USE LayoutAssumption, RelicAssumption DEF StagingInv, StagingTypes, RunPhases, EntryState,
     Entry,
     Places, Arriving, MarkedFirst, BeginReap, Proceed
<1>2. MarkedBeforeOpen'
  BY DEF MarkedBeforeOpen
<1>3. FreshEntries'
  BY DEF MarkedBeforeOpen, FreshEntries, UnderWay, ProcessOf
<1>5. UsersDirectory'
  BY DEF UsersDirectory, Entries, Marked, EntryMarked
<1>6. RunsWait'
  BY DEF RunsWait
<1>7. SomebodyMarks'
  BY DEF UsersDirectory, SomebodyMarks, Cleaning, Entries, Marked, EntryMarked
<1> QED
  BY <1>1, <1>2, <1>3, <1>4, <1>5, <1>6, <1>7

LEMMA ListEntriesKeeps ==
    ASSUME StagingInv, NEW d \in Download, ListEntries(d)
    PROVE  StagingInv'
<1>1. StagingTypes'
  <2>1. reap' \in [Download -> ReapState]
    BY ListEntriesChanges DEF StagingInv
  <2> QED
    BY <2>1 DEF StagingInv, StagingTypes, Places, Arriving, MarkedFirst, ListEntries, Proceed
<1> USE LayoutAssumption, RelicAssumption DEF StagingInv, StagingTypes, RunPhases, EntryState,
     Entry,
     Places, Arriving, MarkedFirst, ListEntries, Proceed
<1>2. MarkedBeforeOpen'
  BY DEF MarkedBeforeOpen
<1>3. FreshEntries'
  BY DEF MarkedBeforeOpen, FreshEntries, UnderWay, ProcessOf
<1>4. StaleSightings'
  BY DEF Sighting, ReapState, MarkedBeforeOpen, FreshEntries, StaleSightings, UnderWay,
     ProcessOf
<1>5. UsersDirectory'
  BY DEF UsersDirectory, Entries, Marked, EntryMarked
<1>6. RunsWait'
  BY DEF RunsWait
<1>7. SomebodyMarks'
  BY DEF UsersDirectory, SomebodyMarks, Cleaning, Entries, Marked, EntryMarked
<1> QED
  BY <1>1, <1>2, <1>3, <1>4, <1>5, <1>6, <1>7

LEMMA EndReapKeeps ==
    ASSUME StagingInv, NEW d \in Download, EndReap(d)
    PROVE  StagingInv'
<1> USE LayoutAssumption, RelicAssumption DEF StagingInv, StagingTypes, RunPhases, EntryState,
     Entry,
     Places, Arriving, MarkedFirst, EndReap, NoReap
<1>1. StagingTypes'
  BY DEF Entries, ReapState, Sighting
<1>2. MarkedBeforeOpen'
  BY DEF MarkedBeforeOpen
<1>3. FreshEntries'
  BY DEF MarkedBeforeOpen, FreshEntries, UnderWay, ProcessOf
<1>4. StaleSightings'
  BY DEF Sighting, ReapState, MarkedBeforeOpen, FreshEntries, StaleSightings, UnderWay,
     ProcessOf
<1>5. UsersDirectory'
  BY DEF UsersDirectory, Entries, Marked, EntryMarked
<1>6. RunsWait'
  BY DEF RunsWait
<1>7. SomebodyMarks'
  BY DEF UsersDirectory, SomebodyMarks, Cleaning, Entries, Marked, EntryMarked
<1> QED
  BY <1>1, <1>2, <1>3, <1>4, <1>5, <1>6, <1>7

LEMMA OpenPartialKeeps ==
    ASSUME StagingInv, NEW d \in Download, OpenPartial(d)
    PROVE  StagingInv'
<1>1. StagingTypes'
  <2>1. entry' \in [Entry -> EntryState]
    BY OpenPartialChanges, OneEntryChanges DEF StagingInv, Entry, StagingTypes
  <2> QED
    BY <2>1 DEF StagingInv, StagingTypes, Places, Arriving, MarkedFirst, OpenPartial, Proceed
<1>2. MarkedBeforeOpen'
  <2>1. \A x \in Entry : \/ entry'[x] = entry[x]
                         \/ /\ x = d /\ entry'[d].there = entry[d].there
                               /\ entry'[d].marker = entry[d].marker
    BY OpenPartialChanges, OneEntryChanges DEF StagingInv, Entry
  <2>2. place[d] = "open" /\ \A x \in Download : place'[x] = place[x] \/ (x = d
            /\ place'[d] \in {"write", "remove"})
    BY DEF OpenPartial, Proceed, StagingInv, StagingTypes
  <2> QED
    BY <2>1, <2>2 DEF StagingInv, MarkedBeforeOpen, Arriving, MarkedFirst, Entry
<1> USE LayoutAssumption, RelicAssumption DEF StagingInv, StagingTypes, RunPhases, EntryState,
     Entry,
     Places, Arriving, MarkedFirst, OpenPartial, Proceed
<1>3. FreshEntries'
  BY DEF MarkedBeforeOpen, FreshEntries, UnderWay, ProcessOf
<1>4. StaleSightings'
  BY DEF Sighting, ReapState, MarkedBeforeOpen, FreshEntries, StaleSightings, UnderWay,
     ProcessOf
<1>5. UsersDirectory'
  BY DEF UsersDirectory, Entries, Marked, EntryMarked
<1>6. RunsWait'
  BY DEF RunsWait
<1>7. SomebodyMarks'
  BY DEF UsersDirectory, SomebodyMarks, Cleaning, Entries, Marked, EntryMarked
<1> QED
  BY <1>1, <1>2, <1>3, <1>4, <1>5, <1>6, <1>7

LEMMA WriteBodyKeeps ==
    ASSUME StagingInv, NEW d \in Download, WriteBody(d)
    PROVE  StagingInv'
<1>1. StagingTypes'
  <2>1. entry' \in [Entry -> EntryState]
    BY WritingChanges DEF StagingInv
  <2> QED
    BY <2>1 DEF StagingInv, StagingTypes, Places, Arriving, MarkedFirst, WriteBody
<1> USE LayoutAssumption, RelicAssumption DEF StagingInv, StagingTypes, RunPhases, EntryState,
     Entry,
     Places, Arriving, MarkedFirst, WriteBody
<1>2. MarkedBeforeOpen'
  BY DEF MarkedBeforeOpen
<1>3. FreshEntries'
  BY DEF MarkedBeforeOpen, FreshEntries, UnderWay, ProcessOf
<1>4. StaleSightings'
  BY DEF Sighting, ReapState, MarkedBeforeOpen, FreshEntries, StaleSightings, UnderWay,
     ProcessOf
<1>5. UsersDirectory'
  BY DEF UsersDirectory, Entries, Marked, EntryMarked
<1>6. RunsWait'
  BY DEF RunsWait
<1>7. SomebodyMarks'
  BY DEF UsersDirectory, SomebodyMarks, Cleaning, Entries, Marked, EntryMarked
<1> QED
  BY <1>1, <1>2, <1>3, <1>4, <1>5, <1>6, <1>7

LEMMA EndBodyKeeps ==
    ASSUME StagingInv, NEW d \in Download, EndBody(d)
    PROVE  StagingInv'
<1>1. StagingTypes'
  <2>1. entry' \in [Entry -> EntryState]
    BY WritingChanges DEF StagingInv
  <2> QED
    BY <2>1 DEF StagingInv, StagingTypes, Places, Arriving, MarkedFirst, EndBody, Proceed
<1> USE LayoutAssumption, RelicAssumption DEF StagingInv, StagingTypes, RunPhases, EntryState,
     Entry,
     Places, Arriving, MarkedFirst, EndBody, Proceed
<1>2. MarkedBeforeOpen'
  BY DEF MarkedBeforeOpen
<1>3. FreshEntries'
  BY DEF MarkedBeforeOpen, FreshEntries, UnderWay, ProcessOf
<1>4. StaleSightings'
  BY DEF Sighting, ReapState, MarkedBeforeOpen, FreshEntries, StaleSightings, UnderWay,
     ProcessOf
<1>5. UsersDirectory'
  BY DEF UsersDirectory, Entries, Marked, EntryMarked
<1>6. RunsWait'
  BY DEF RunsWait
<1>7. SomebodyMarks'
  BY DEF UsersDirectory, SomebodyMarks, Cleaning, Entries, Marked, EntryMarked
<1> QED
  BY <1>1, <1>2, <1>3, <1>4, <1>5, <1>6, <1>7

LEMMA RemoveEntryKeeps ==
    ASSUME StagingInv, NEW d \in Download, RemoveEntry(d)
    PROVE  StagingInv'
<1> USE LayoutAssumption, RelicAssumption DEF StagingInv, StagingTypes, RunPhases, EntryState,
     Entry,
     Places, Arriving, MarkedFirst, RemoveEntry, Proceed, NoEntry
<1>1. StagingTypes'
  BY DEF Entries, ReapState, Sighting
<1>2. MarkedBeforeOpen'
  BY DEF MarkedBeforeOpen
<1>3. FreshEntries'
  BY DEF MarkedBeforeOpen, FreshEntries, UnderWay, ProcessOf
<1>4. StaleSightings'
  BY DEF Sighting, ReapState, MarkedBeforeOpen, FreshEntries, StaleSightings, UnderWay,
     ProcessOf
<1>5. UsersDirectory'
  BY DEF UsersDirectory, Entries, Marked, EntryMarked
<1>6. RunsWait'
  BY DEF RunsWait
<1>7. SomebodyMarks'
  BY DEF UsersDirectory, SomebodyMarks, Cleaning, Entries, Marked, EntryMarked
<1> QED
  BY <1>1, <1>2, <1>3, <1>4, <1>5, <1>6, <1>7

LEMMA ReadActivityKeeps ==
    ASSUME StagingInv, NEW d \in Download, NEW e \in Entry, ReadActivity(d, e)
    PROVE  StagingInv'
<1>1. StagingTypes'
  <2>1. reap' \in [Download -> ReapState]
    BY ReadActivityChanges, OneReapChanges DEF StagingInv, StagingTypes
  <2> QED
    BY <2>1 DEF StagingInv, StagingTypes, Places, Arriving, MarkedFirst, ReadActivity,
       Reapable, Activity, Skip
<1>4. StaleSightings'
  <2>1. PICK v \in ReapState : /\ reap' = [reap EXCEPT ![d] = v] /\ v.now = reap[d].now
            /\ v.doomed = reap[d].doomed
                               /\ \/ v.seen = reap[d].seen
                                  \/ /\ Reapable(e, reap[d].now)
                                     /\ v.seen = reap[d].seen \cup {[entry |-> e,
                                           activity |-> Activity(e)]}
    BY ReadActivityChanges DEF StagingInv
  <2>2. /\ UNCHANGED <<day, slept, entry, place>>
        /\ \A x \in Download : (UnderWay(x)' <=> UnderWay(x)) /\ ProcessOf(x)' = ProcessOf(x)
    BY DEF ReadActivity, UnderWay, ProcessOf
  <2>3. Reapable(e, reap[d].now) => ReapsOnlyStale(e, reap[d].now)
    BY DownloadsAreFresh DEF StagingInv, StagingTypes, ReapState
  <2>4. \A x \in Download : reap'[x] = IF x = d THEN v ELSE reap[x]
    BY <2>1 DEF StagingInv, StagingTypes
  <2>5. ASSUME NEW x \in Download, NEW s \in reap'[x].seen \cup reap'[x].doomed
        PROVE  \/ s \in reap[x].seen \cup reap[x].doomed
               \/ /\ x = d /\ s.entry = e /\ s.activity.day = entry[e].day /\ Reapable(e,
                     reap[d].now)
    BY <2>1, <2>4 DEF Activity
  <2> QED
    BY <2>1, <2>2, <2>3, <2>4, <2>5 DEF StagingInv, StaleSightings, ReapsOnlyStale
<1> USE LayoutAssumption, RelicAssumption DEF StagingInv, StagingTypes, RunPhases, EntryState,
     Entry,
     Places, Arriving, MarkedFirst, ReadActivity, Reapable, Activity, Skip
<1>2. MarkedBeforeOpen'
  BY DEF MarkedBeforeOpen
<1>3. FreshEntries'
  BY DEF MarkedBeforeOpen, FreshEntries, UnderWay, ProcessOf
<1>5. UsersDirectory'
  BY DEF UsersDirectory, Entries, Marked, EntryMarked
<1>6. RunsWait'
  BY DEF RunsWait
<1>7. SomebodyMarks'
  BY DEF UsersDirectory, SomebodyMarks, Cleaning, Entries, Marked, EntryMarked
<1> QED
  BY <1>1, <1>2, <1>3, <1>4, <1>5, <1>6, <1>7

LEMMA ReadAgainKeeps ==
    ASSUME StagingInv, NEW d \in Download, NEW e \in Entry, ReadAgain(d, e)
    PROVE  StagingInv'
<1>1. StagingTypes'
  <2>1. reap' \in [Download -> ReapState]
    BY ReadAgainChanges, OneReapChanges DEF StagingInv, StagingTypes
  <2> QED
    BY <2>1 DEF StagingInv, StagingTypes, Places, Arriving, MarkedFirst, ReadAgain, StillStale,
       Reapable, Activity, Skip, SeenBy
<1>4. StaleSightings'
  <2>1. PICK v \in ReapState : /\ reap' = [reap EXCEPT ![d] = v] /\ v.now = reap[d].now
            /\ v.seen = reap[d].seen
                               /\ \/ v.doomed = reap[d].doomed
                                  \/ /\ Reapable(e, reap[d].now)
                                     /\ v.doomed = reap[d].doomed \cup {[entry |-> e,
                                           activity |-> Activity(e)]}
    BY ReadAgainChanges DEF StagingInv
  <2>2. /\ UNCHANGED <<day, slept, entry, place>>
        /\ \A x \in Download : (UnderWay(x)' <=> UnderWay(x)) /\ ProcessOf(x)' = ProcessOf(x)
    BY DEF ReadAgain, UnderWay, ProcessOf
  <2>3. Reapable(e, reap[d].now) => ReapsOnlyStale(e, reap[d].now)
    BY DownloadsAreFresh DEF StagingInv, StagingTypes, ReapState
  <2>4. \A x \in Download : reap'[x] = IF x = d THEN v ELSE reap[x]
    BY <2>1 DEF StagingInv, StagingTypes
  <2>5. ASSUME NEW x \in Download, NEW s \in reap'[x].seen \cup reap'[x].doomed
        PROVE  \/ s \in reap[x].seen \cup reap[x].doomed
               \/ /\ x = d /\ s.entry = e /\ s.activity.day = entry[e].day /\ Reapable(e,
                     reap[d].now)
    BY <2>1, <2>4 DEF Activity
  <2> QED
    BY <2>1, <2>2, <2>3, <2>4, <2>5 DEF StagingInv, StaleSightings, ReapsOnlyStale
<1> USE LayoutAssumption, RelicAssumption DEF StagingInv, StagingTypes, RunPhases, EntryState,
     Entry,
     Places, Arriving, MarkedFirst, ReadAgain, StillStale, Reapable, Activity, Skip, SeenBy
<1>2. MarkedBeforeOpen'
  BY DEF MarkedBeforeOpen
<1>3. FreshEntries'
  BY DEF MarkedBeforeOpen, FreshEntries, UnderWay, ProcessOf
<1>5. UsersDirectory'
  BY DEF UsersDirectory, Entries, Marked, EntryMarked
<1>6. RunsWait'
  BY DEF RunsWait
<1>7. SomebodyMarks'
  BY DEF UsersDirectory, SomebodyMarks, Cleaning, Entries, Marked, EntryMarked
<1> QED
  BY <1>1, <1>2, <1>3, <1>4, <1>5, <1>6, <1>7

LEMMA ReapKeeps ==
    ASSUME StagingInv, NEW d \in Download, NEW e \in Entry, Reap(d, e)
    PROVE  StagingInv'
<1>1. StagingTypes'
  <2>1. entry' \in [Entry -> EntryState] /\ reap' \in [Download -> ReapState]
    BY ReapChanges, OneReapChanges, OneEntryChanges DEF StagingInv
  <2> QED
    BY <2>1 DEF StagingInv, StagingTypes, Places, Arriving, MarkedFirst, Reap, NoEntry, Skip
<1> USE LayoutAssumption, RelicAssumption DEF StagingInv, StagingTypes, RunPhases, EntryState,
     Entry,
     Places, Arriving, MarkedFirst, Reap, NoEntry, Skip
<1>2. MarkedBeforeOpen'
  BY DEF MarkedBeforeOpen
<1>3. FreshEntries'
  BY DEF MarkedBeforeOpen, FreshEntries, UnderWay, ProcessOf
<1>4. StaleSightings'
  BY DEF Sighting, ReapState, MarkedBeforeOpen, FreshEntries, StaleSightings, UnderWay,
     ProcessOf
<1>5. UsersDirectory'
  BY DEF UsersDirectory, Entries, Marked, EntryMarked
<1>6. RunsWait'
  BY DEF RunsWait
<1>7. SomebodyMarks'
  BY DEF UsersDirectory, SomebodyMarks, Cleaning, Entries, Marked, EntryMarked
<1> QED
  BY <1>1, <1>2, <1>3, <1>4, <1>5, <1>6, <1>7

LEMMA BeginCleanupKeeps ==
    ASSUME StagingInv, NEW r \in Run, BeginCleanup(r)
    PROVE  StagingInv'
<1> USE LayoutAssumption, RelicAssumption DEF StagingInv, StagingTypes, RunPhases, EntryState,
     Entry,
     Places, Arriving, MarkedFirst, BeginCleanup, Clean
<1>1. StagingTypes'
  BY DEF Entries, ReapState, Sighting
<1>2. MarkedBeforeOpen'
  BY DEF MarkedBeforeOpen
<1>3. FreshEntries'
  BY DEF MarkedBeforeOpen, FreshEntries, UnderWay, ProcessOf
<1>4. StaleSightings'
  BY DEF Sighting, ReapState, MarkedBeforeOpen, FreshEntries, StaleSightings, UnderWay,
     ProcessOf
<1>5. UsersDirectory'
  BY DEF UsersDirectory, Entries, Marked, EntryMarked
<1>6. RunsWait'
  BY DEF RunsWait
<1>7. SomebodyMarks'
  BY DEF UsersDirectory, SomebodyMarks, Cleaning, Entries, Marked, EntryMarked
<1> QED
  BY <1>1, <1>2, <1>3, <1>4, <1>5, <1>6, <1>7

LEMMA StatMarkerKeeps ==
    ASSUME StagingInv, NEW r \in Run, StatMarker(r)
    PROVE  StagingInv'
<1> USE LayoutAssumption, RelicAssumption DEF StagingInv, StagingTypes, RunPhases, EntryState,
     Entry,
     Places, Arriving, MarkedFirst, StatMarker, Clean, Marked
<1>1. StagingTypes'
  BY DEF Entries, ReapState, Sighting
<1>2. MarkedBeforeOpen'
  BY DEF MarkedBeforeOpen
<1>3. FreshEntries'
  BY DEF MarkedBeforeOpen, FreshEntries, UnderWay, ProcessOf
<1>4. StaleSightings'
  BY DEF Sighting, ReapState, MarkedBeforeOpen, FreshEntries, StaleSightings, UnderWay,
     ProcessOf
<1>5. UsersDirectory'
  BY DEF UsersDirectory, Entries, Marked, EntryMarked
<1>6. RunsWait'
  BY DEF RunsWait
<1>7. SomebodyMarks'
  BY DEF UsersDirectory, SomebodyMarks, Cleaning, Entries, Marked, EntryMarked
<1> QED
  BY <1>1, <1>2, <1>3, <1>4, <1>5, <1>6, <1>7

LEMMA ListForCleanupKeeps ==
    ASSUME StagingInv, NEW r \in Run, ListForCleanup(r)
    PROVE  StagingInv'
<1> USE LayoutAssumption, RelicAssumption DEF StagingInv, StagingTypes, RunPhases, EntryState,
     Entry,
     Places, Arriving, MarkedFirst, ListForCleanup, Clean, OnlyMarker, Marked
<1>1. StagingTypes'
  BY DEF Entries, ReapState, Sighting
<1>2. MarkedBeforeOpen'
  BY DEF MarkedBeforeOpen
<1>3. FreshEntries'
  BY DEF MarkedBeforeOpen, FreshEntries, UnderWay, ProcessOf
<1>4. StaleSightings'
  BY DEF Sighting, ReapState, MarkedBeforeOpen, FreshEntries, StaleSightings, UnderWay,
     ProcessOf
<1>5. UsersDirectory'
  BY DEF UsersDirectory, Entries, Marked, EntryMarked
<1>6. RunsWait'
  BY DEF RunsWait
<1>7. SomebodyMarks'
  BY DEF UsersDirectory, SomebodyMarks, Cleaning, Entries, Marked, EntryMarked
<1> QED
  BY <1>1, <1>2, <1>3, <1>4, <1>5, <1>6, <1>7

LEMMA RecheckActiveKeeps ==
    ASSUME StagingInv, NEW r \in Run, RecheckActive(r)
    PROVE  StagingInv'
<1> USE LayoutAssumption, RelicAssumption DEF StagingInv, StagingTypes, RunPhases, EntryState,
     Entry,
     Places, Arriving, MarkedFirst, RecheckActive, Clean
<1>1. StagingTypes'
  BY DEF Entries, ReapState, Sighting
<1>2. MarkedBeforeOpen'
  BY DEF MarkedBeforeOpen
<1>3. FreshEntries'
  BY DEF MarkedBeforeOpen, FreshEntries, UnderWay, ProcessOf
<1>4. StaleSightings'
  BY DEF Sighting, ReapState, MarkedBeforeOpen, FreshEntries, StaleSightings, UnderWay,
     ProcessOf
<1>5. UsersDirectory'
  BY DEF UsersDirectory, Entries, Marked, EntryMarked
<1>6. RunsWait'
  BY DEF RunsWait
<1>7. SomebodyMarks'
  BY DEF UsersDirectory, SomebodyMarks, Cleaning, Entries, Marked, EntryMarked
<1> QED
  BY <1>1, <1>2, <1>3, <1>4, <1>5, <1>6, <1>7

LEMMA UnlinkMarkerKeeps ==
    ASSUME StagingInv, NEW r \in Run, UnlinkMarker(r)
    PROVE  StagingInv'
<1> USE LayoutAssumption, RelicAssumption DEF StagingInv, StagingTypes, RunPhases, EntryState,
     Entry,
     Places, Arriving, MarkedFirst, UnlinkMarker, Clean, Marked
<1>1. StagingTypes'
  BY DEF Entries, ReapState, Sighting
<1>2. MarkedBeforeOpen'
  BY DEF MarkedBeforeOpen
<1>3. FreshEntries'
  BY DEF MarkedBeforeOpen, FreshEntries, UnderWay, ProcessOf
<1>4. StaleSightings'
  BY DEF Sighting, ReapState, MarkedBeforeOpen, FreshEntries, StaleSightings, UnderWay,
     ProcessOf
<1>5. UsersDirectory'
  BY DEF UsersDirectory, Entries, Marked, EntryMarked
<1>6. RunsWait'
  BY DEF RunsWait
<1>7. SomebodyMarks'
  BY DEF UsersDirectory, SomebodyMarks, Cleaning, Entries, Marked, EntryMarked
<1> QED
  BY <1>1, <1>2, <1>3, <1>4, <1>5, <1>6, <1>7

LEMMA RemoveRootKeeps ==
    ASSUME StagingInv, NEW r \in Run, RemoveRoot(r)
    PROVE  StagingInv'
<1>1. StagingTypes'
  <2>1. root' = root \/ root' = Absent
    BY DEF RemoveRoot
  <2>a. Absent \in [there : BOOLEAN, marker : BOOLEAN, users : BOOLEAN]
    BY DEF Absent
  <2>2. root' \in [there : BOOLEAN, marker : BOOLEAN, users : BOOLEAN]
    BY <2>1, <2>a DEF StagingInv, StagingTypes
  <2>3. pulled' \in BOOLEAN
    BY DEF RemoveRoot, StagingInv, StagingTypes
  <2>4. /\ run' \in [Run -> RunPhases]
        /\ UNCHANGED <<layout, day, entry, place, reap, slept>>
    BY DEF RemoveRoot, Clean, StagingInv, StagingTypes, RunPhases
  <2> QED
    BY <2>2, <2>3, <2>4 DEF StagingInv, StagingTypes
<1>5. UsersDirectory'
  <2>1. ~ layout.users
    BY DEF StagingInv, UsersDirectory, RemoveRoot
  <2>2. root' = root \/ (root' = Absent /\ ~ root.users)
    <3>1. CASE ~ root.there
      BY <3>1 DEF RemoveRoot
    <3>2. CASE root.there
      BY <3>2 DEF RemoveRoot, StagingInv, UsersDirectory
    <3> QED
      BY <3>1, <3>2
  <2>3. Absent.users = FALSE /\ layout' = layout /\ root.users \in BOOLEAN
    BY DEF Absent, RemoveRoot, StagingInv, StagingTypes
  <2> QED
    BY <2>1, <2>2, <2>3 DEF StagingInv, UsersDirectory
<1> USE LayoutAssumption, RelicAssumption DEF StagingInv, StagingTypes, RunPhases, EntryState,
     Entry,
     Places, Arriving, MarkedFirst, RemoveRoot, Clean, Absent
<1>2. MarkedBeforeOpen'
  BY DEF MarkedBeforeOpen
<1>3. FreshEntries'
  BY DEF MarkedBeforeOpen, FreshEntries, UnderWay, ProcessOf
<1>4. StaleSightings'
  BY DEF Sighting, ReapState, MarkedBeforeOpen, FreshEntries, StaleSightings, UnderWay,
     ProcessOf
<1>6. RunsWait'
  BY DEF RunsWait
<1>7. SomebodyMarks'
  BY DEF UsersDirectory, SomebodyMarks, Cleaning, Entries, Marked, EntryMarked
<1> QED
  BY <1>1, <1>2, <1>3, <1>4, <1>5, <1>6, <1>7

LEMMA RestoreMarkerKeeps ==
    ASSUME StagingInv, NEW r \in Run, RestoreMarker(r)
    PROVE  StagingInv'
<1> USE LayoutAssumption, RelicAssumption DEF StagingInv, StagingTypes, RunPhases, EntryState,
     Entry,
     Places, Arriving, MarkedFirst, RestoreMarker, Clean, Restored
<1>1. StagingTypes'
  BY DEF Entries, ReapState, Sighting
<1>2. MarkedBeforeOpen'
  BY DEF MarkedBeforeOpen
<1>3. FreshEntries'
  BY DEF MarkedBeforeOpen, FreshEntries, UnderWay, ProcessOf
<1>4. StaleSightings'
  BY DEF Sighting, ReapState, MarkedBeforeOpen, FreshEntries, StaleSightings, UnderWay,
     ProcessOf
<1>5. UsersDirectory'
  BY DEF UsersDirectory, Entries, Marked, EntryMarked
<1>6. RunsWait'
  BY DEF RunsWait
<1>7. SomebodyMarks'
  BY DEF UsersDirectory, SomebodyMarks, Cleaning, Entries, Marked, EntryMarked
<1> QED
  BY <1>1, <1>2, <1>3, <1>4, <1>5, <1>6, <1>7

LEMMA DayPassesKeeps == ASSUME StagingInv, DayPasses PROVE StagingInv'
<1>0. PICK asleep \in SUBSET Process :
          /\ slept' = slept \cup asleep
          /\ entry' = [e \in Entry |->
                         IF entry[e].there /\ e \in Download /\ UnderWay(e)
                             /\ ProcessOf(e) \notin asleep
                         THEN [entry[e] EXCEPT !.day = day'] ELSE entry[e]]
  BY DEF DayPasses
<1>a. day' = day + 1 /\ day \in Nat /\ UNCHANGED <<layout, root, place, reap, run, active,
          reaper, dead, pulled>>
  BY DEF DayPasses, StagingInv, StagingTypes
<1>b. ASSUME NEW e \in Entry
      PROVE  /\ entry'[e] \in EntryState /\ entry'[e].there = entry[e].there
             /\ entry'[e].marker = entry[e].marker /\ entry'[e].partial = entry[e].partial
             /\ entry'[e].day = IF entry[e].there /\ e \in Download /\ UnderWay(e)
                   /\ ProcessOf(e) \notin asleep
                                THEN day' ELSE entry[e].day
  BY <1>0, <1>a DEF StagingInv, StagingTypes, EntryState
<1>c. \A d \in Download : d \in Entry /\ (UnderWay(d)' <=> UnderWay(d))
          /\ ProcessOf(d)' = ProcessOf(d)
  BY <1>a DEF UnderWay, ProcessOf, Entry
<1>1. StagingTypes'
  BY <1>0, <1>a, <1>b DEF StagingInv, StagingTypes
<1>2. MarkedBeforeOpen'
  BY <1>a, <1>b, <1>c DEF StagingInv, MarkedBeforeOpen
<1>3. FreshEntries'
  BY <1>0, <1>a, <1>b, <1>c DEF StagingInv, FreshEntries
<1>4. StaleSightings'
  BY <1>0, <1>a, <1>c DEF StagingInv, StagingTypes, ReapState, StaleSightings
<1>5. UsersDirectory'
  BY <1>a, <1>b DEF StagingInv, UsersDirectory, Entries
<1>6. RunsWait'
  BY <1>a DEF StagingInv, RunsWait
<1>7. SomebodyMarks'
  BY <1>a, <1>b DEF StagingInv, SomebodyMarks, Entries, Cleaning
<1> QED
  BY <1>1, <1>2, <1>3, <1>4, <1>5, <1>6, <1>7 DEF StagingInv

LEMMA ProcessDiesKeeps == ASSUME StagingInv, NEW p \in Process, ProcessDies(p) PROVE StagingInv'
<1>a. NoReap \in ReapState /\ NoReap.now = 0 /\ NoReap.seen = {} /\ NoReap.doomed = {}
  BY DEF NoReap, ReapState
<1>1. StagingTypes'
  BY <1>a DEF ProcessDies, StagingInv, StagingTypes, RunPhases, Places
<1>2. MarkedBeforeOpen'
  BY DEF ProcessDies, StagingInv, StagingTypes, MarkedBeforeOpen, Arriving, MarkedFirst
<1>b. \A d \in Download : /\ UnderWay(d)' => UnderWay(d)
                          /\ ProcessOf(d)' = ProcessOf(d)
                          /\ place'[d] = "idle" <=> place[d] = "idle" /\ ProcessOf(d) # p
  BY DEF UnderWay, ProcessOf, ProcessDies
<1>c. UNCHANGED <<day, entry, slept>>
          /\ \A x \in Download : reap'[x] = NoReap \/ reap'[x] = reap[x]
  BY DEF ProcessDies
<1>3. FreshEntries'
  <2> SUFFICES ASSUME NEW x \in Download, entry[x].there, UnderWay(x)',
          ProcessOf(x)' \notin slept
               PROVE  entry[x].day = day
    BY <1>c DEF FreshEntries
  <2> QED
    BY <1>b DEF StagingInv, FreshEntries
<1>4. StaleSightings'
  <2>1. ASSUME NEW x \in Download, NEW s \in reap'[x].seen \cup reap'[x].doomed
        PROVE  reap'[x] = reap[x] /\ s \in reap[x].seen \cup reap[x].doomed
    BY <1>a, <1>c
  <2>2. \A x \in Download : reap'[x].now <= day
    BY <1>a, <1>c DEF StagingInv, StagingTypes, StaleSightings
  <2> QED
    BY <1>b, <1>c, <2>1, <2>2 DEF StagingInv, StaleSightings
<1>5. UsersDirectory'
  BY DEF ProcessDies, StagingInv, UsersDirectory, Entries, Arriving, MarkedFirst
<1>6. RunsWait'
  BY LayoutAssumption DEF ProcessDies, ProcessOf, StagingInv, StagingTypes, RunsWait
<1>7. SomebodyMarks'
  <2>1. UNCHANGED <<root, entry>> /\ dead' # {}
    BY DEF ProcessDies
  <2> QED
    BY <2>1 DEF StagingInv, SomebodyMarks, Entries
<1> QED
  BY <1>1, <1>2, <1>3, <1>4, <1>5, <1>6, <1>7 DEF StagingInv

LEMMA StagingInitInv == StagingInit => StagingInv
<1> SUFFICES ASSUME StagingInit PROVE StagingInv
  OBVIOUS
<1>0. NoEntry \in EntryState /\ ~ NoEntry.there /\ NoReap \in ReapState /\ NoReap.now = 0
          /\ NoReap.seen = {} /\ NoReap.doomed = {}
  BY DEF NoEntry, EntryState, NoReap, ReapState
<1>1. StagingTypes
  BY <1>0, LayoutAssumption DEF StagingInit, StagingTypes, RunPhases, Places, Arriving, Absent,
     Entry
<1>2. MarkedBeforeOpen
  BY <1>0, LayoutAssumption, RelicAssumption DEF StagingInit, MarkedBeforeOpen, Entry
<1>3. FreshEntries /\ StaleSightings /\ RunsWait
  BY <1>0 DEF StagingInit, FreshEntries, UnderWay, StaleSightings, RunsWait
<1>4. UsersDirectory
  BY <1>0, LayoutAssumption DEF StagingInit, UsersDirectory, Arriving, Absent, Entries
<1>5. SomebodyMarks
  BY <1>0, LayoutAssumption DEF StagingInit, SomebodyMarks, Absent, Entries, MarkedFirst
<1> QED
  BY <1>1, <1>2, <1>3, <1>4, <1>5 DEF StagingInv

\* Every step of StagingSpec keeps the invariant.
LEMMA StagingStep == ASSUME StagingInv, [StagingNext]_stagingVars PROVE StagingInv'
<1>1. ASSUME NEW d \in Download,
          BeginCreate(d) \/ MakeRoot(d) \/ LookForMarker(d) \/ ScanEntries(d) \/ CheckRoot(d)
      PROVE  StagingInv'
  BY <1>1, BeginCreateKeeps, MakeRootKeeps, LookForMarkerKeeps, ScanEntriesKeeps, CheckRootKeeps
<1>2. ASSUME NEW d \in Download, MarkRoot(d) \/ MakeEntry(d) \/ MarkEntry(d)
      PROVE  StagingInv'
  BY <1>2, MarkRootKeeps, MakeEntryKeeps, MarkEntryKeeps
<1>3. ASSUME NEW d \in Download, BeginReap(d) \/ ListEntries(d) \/ EndReap(d)
      PROVE  StagingInv'
  BY <1>3, BeginReapKeeps, ListEntriesKeeps, EndReapKeeps
<1>4. ASSUME NEW d \in Download, OpenPartial(d) \/ WriteBody(d) \/ EndBody(d) \/ RemoveEntry(d)
      PROVE  StagingInv'
  BY <1>4, OpenPartialKeeps, WriteBodyKeeps, EndBodyKeeps, RemoveEntryKeeps
<1>5. ASSUME NEW d \in Download, NEW e \in Entry, ReadActivity(d, e) \/ ReadAgain(d,
          e) \/ Reap(d, e)
      PROVE  StagingInv'
  BY <1>5, ReadActivityKeeps, ReadAgainKeeps, ReapKeeps
<1>6. ASSUME NEW r \in Run,
              \/ BeginCleanup(r) \/ StatMarker(r) \/ ListForCleanup(r) \/ RecheckActive(r)
                            \/ UnlinkMarker(r) \/ RemoveRoot(r) \/ RestoreMarker(r)
      PROVE  StagingInv'
  BY <1>6, BeginCleanupKeeps, StatMarkerKeeps, ListForCleanupKeeps, RecheckActiveKeeps,
     UnlinkMarkerKeeps,
     RemoveRootKeeps, RestoreMarkerKeeps
<1>7. CASE UNCHANGED stagingVars
  BY <1>7 DEF stagingVars, StagingInv, StagingTypes, MarkedBeforeOpen, FreshEntries,
     StaleSightings, UsersDirectory,
     RunsWait, SomebodyMarks, UnderWay, ProcessOf, Entries, Cleaning
<1> QED
  BY <1>1, <1>2, <1>3, <1>4, <1>5, <1>6, <1>7, DayPassesKeeps, ProcessDiesKeeps DEF StagingNext

\* The invariant of the managed directory holds in every state.
THEOREM StagingInvariance == StagingSpec => []StagingInv
<1> QED
  BY StagingInitInv, StagingStep, PTL DEF StagingSpec

\* The only step that takes the entry of a download that is under way is that of a reaper
\* that has seen it stale twice: then its process was suspended.
LEMMA OnlyReapersTake ==
    ASSUME StagingInv, StagingNext, NEW d \in Download,
           entry[d].there, ~ entry'[d].there, place[d] # "remove"
    PROVE  \E x \in Download : \E s \in reap[x].doomed : s.entry = d
<1>0. entry \in [Entry -> EntryState] /\ d \in Entry
  BY DEF StagingInv, StagingTypes, Entry
<1>1. ASSUME NEW x \in Download,
          BeginCreate(x) \/ MakeRoot(x) \/ LookForMarker(x) \/ ScanEntries(x) \/ CheckRoot(x)
      PROVE  FALSE
  BY <1>1 DEF BeginCreate, MakeRoot, LookForMarker, ScanEntries, CheckRoot
<1>2. ASSUME NEW x \in Download, MarkRoot(x) \/ BeginReap(x) \/ ListEntries(x) \/ EndReap(x)
      PROVE  FALSE
  BY <1>2 DEF MarkRoot, BeginReap, ListEntries, EndReap
<1>3. ASSUME NEW x \in Download, MakeEntry(x) PROVE FALSE
  BY <1>0, <1>3 DEF MakeEntry, NewEntry, EntryState
<1>4. ASSUME NEW x \in Download, MarkEntry(x) \/ OpenPartial(x) PROVE FALSE
  BY <1>0, <1>4 DEF MarkEntry, EntryWithMarker, OpenPartial, EntryState
<1>5. ASSUME NEW x \in Download, WriteBody(x) \/ EndBody(x) PROVE FALSE
  BY <1>0, <1>5 DEF WriteBody, EndBody, EntryState
<1>6. ASSUME NEW x \in Download, RemoveEntry(x) PROVE FALSE
  BY <1>0, <1>6 DEF RemoveEntry
<1>7. ASSUME NEW x \in Download, NEW e \in Entry, ReadActivity(x, e) \/ ReadAgain(x,
          e) PROVE FALSE
  BY <1>7 DEF ReadActivity, ReadAgain
<1>8. ASSUME NEW x \in Download, NEW e \in Entry, Reap(x,
          e) PROVE \E s \in reap[x].doomed : s.entry = d
  BY <1>0, <1>8 DEF Reap
<1>9. ASSUME NEW r \in Run,
              \/ BeginCleanup(r) \/ StatMarker(r) \/ ListForCleanup(r) \/ RecheckActive(r)
                            \/ UnlinkMarker(r) \/ RemoveRoot(r) \/ RestoreMarker(r)
      PROVE  FALSE
  BY <1>9 DEF BeginCleanup, StatMarker, ListForCleanup, RecheckActive, UnlinkMarker,
     RemoveRoot, RestoreMarker
<1>10. ASSUME DayPasses PROVE FALSE
  BY <1>0, <1>10 DEF DayPasses, EntryState
<1>11. ASSUME NEW p \in Process, ProcessDies(p) PROVE FALSE
  BY <1>11 DEF ProcessDies
<1> QED
  BY <1>1, <1>2, <1>3, <1>4, <1>5, <1>6, <1>7, <1>8, <1>9, <1>10, <1>11 DEF StagingNext

\* No reaping and no cleanup takes the entry of a download under way whose process was not
\* suspended, nor one that had written since the first look at it.
THEOREM ActiveEntriesAreSafe == StagingSpec => ActiveEntriesStay
<1>1. ASSUME StagingInv, StagingNext, NEW d \in Download,
             entry[d].there, ~ entry'[d].there, place[d] # "remove", UnderWay(d)
      PROVE  /\ ProcessOf(d) \in slept
             /\ \A x \in Download : \A s \in reap[x].doomed :
                   s.entry = d => s.activity.day < reap[x].now
  BY <1>1, OnlyReapersTake DEF StagingInv, StaleSightings
<1>2. ASSUME StagingInv, [StagingNext]_stagingVars
      PROVE  [\A d \in Download :
                 entry[d].there /\ ~ entry'[d].there /\ place[d] # "remove" /\ UnderWay(d) =>
                    /\ ProcessOf(d) \in slept
                    /\ \A x \in Download : \A s \in reap[x].doomed :
                          s.entry = d => s.activity.day < reap[x].now]_stagingVars
  BY <1>1, <1>2
<1> QED
  BY <1>2, StagingInvariance, PTL DEF StagingSpec, ActiveEntriesStay

\* A scan passes over the directory whenever a partial file is in it, and never over one of
\* the user.
THEOREM ScansSkipOnlyStaging == StagingSpec => []ScansSeeUsersFilesOnly
<1>1. ASSUME StagingInv PROVE ScansSeeUsersFilesOnly
  <2>1. ASSUME NEW e \in Entries, entry[e].partial PROVE Managed
    BY <1>1, <2>1 DEF StagingInv, MarkedBeforeOpen, SomebodyMarks, Managed, EntryMarked, Entries
  <2>2. layout.users => ~ Managed
    BY <1>1 DEF StagingInv, UsersDirectory, Managed, Marked, EntryMarked
  <2> QED
    BY <2>1, <2>2 DEF ScansSeeUsersFilesOnly
<1> QED
  BY <1>1, StagingInvariance, PTL

\* When all runs have ended well, the directory is gone or can be recognised.
THEOREM StagingIsLeftUsable == StagingSpec => []StagingStaysUsable
<1>1. ASSUME StagingInv PROVE StagingStaysUsable
  <2> SUFFICES ASSUME \A r \in Run : run[r] = "done", dead = {}, ~ pulled, ~ layout.users,
          root.there, ~ root.marker
               PROVE  FALSE
    BY DEF StagingStaysUsable, Marked
  <2>1. ~ Cleaning
    BY DEF Cleaning
  <2>2. \A d \in Download : place[d] \in {"idle", "ended"}
    BY <1>1, LayoutAssumption DEF StagingInv, StagingTypes, RunsWait
  <2> QED
    BY <1>1, <2>1, <2>2 DEF StagingInv, SomebodyMarks
<1> QED
  BY <1>1, StagingInvariance, PTL

-----------------------------------------------------------------------------
(* The synchronizer: what the variables of a run hold.                     *)

MaybeEntry  == EntryRecord \cup {None}
PairRecord  == [src : MaybeEntry, dst : MaybeEntry]
ReadyRecord == [result : {"ready", "skipped", "error"}, src : MaybeEntry, dst : MaybeEntry]
KindSet     == Removals \cup Transfers \cup Skips \cup {"none"}
HeldRecord  == FileRecord \cup VersionRecord \cup {None}
Standing    == Steps \cup {"off", "done", "failed"}

JobRecord == [kind : KindSet, at : Standing, src : MaybeEntry, dst : MaybeEntry,
              held : HeldRecord, moved : FileRecord \cup {None}]
RequestRecord == [kind : {"upload"} \cup Remotes, path : Path, folder : Folder,
                  src : MaybeEntry, dst : MaybeEntry, held : HeldRecord]

SyncPhases == {"idle", "scan", "pair", "batch", "prepare", "emit", "yielded", "slots",
               "report", "abort", "close", "done"}

\* A version that is not a hide marker has content.
UploadsHaveData(s) == \A i \in DOMAIN s : s[i].action = "upload" => s[i].data \in Data

StoreTypes ==
    /\ disk \in [Path -> FileRecord \cup {None}]
    /\ aside \in [Path -> SUBSET FileRecord]
    /\ remote \in [Folder -> [Path -> Seq(VersionRecord)]]
    /\ \A f \in Folder, p \in Path : UploadsHaveData(remote[f][p])
    /\ clock \in Nat

RunTypes ==
    /\ plan \in PlanRecord /\ plan.runs # <<>>
    /\ phase \in SyncPhases /\ now \in Nat /\ clean \in BOOLEAN
    /\ stop \in BOOLEAN /\ signal \in BOOLEAN
    /\ scanned \subseteq {"src", "dst"}
    /\ found \in [{"src", "dst"} -> Seq(EntryRecord)]
    /\ had \subseteq Path
    /\ at \in [src : Nat \ {0}, dst : Nat \ {0}]
    /\ pairs \in Seq(PairRecord)
    /\ \A k \in DOMAIN pairs : ~ (pairs[k].src = None /\ pairs[k].dst = None)
    /\ ready \in Seq(ReadyRecord)
    /\ \A k \in DOMAIN ready : ~ (ready[k].src = None /\ ready[k].dst = None)
    /\ next \in Nat \ {0}
    /\ yielded \subseteq Path /\ queued \subseteq Path /\ failed \subseteq Path
    /\ aggregate \in BOOLEAN /\ completed \in BOOLEAN
    /\ scanError \in BOOLEAN /\ incomplete \in BOOLEAN

Replacing == {"moved", "verified", "linked", "restoring"}
Fetched   == {"staged", "checked"} \cup Replacing

\* A transfer has a source, a removal has a destination, what is the same has both; each step
\* has what the ones before it have found.
Meant(j) ==
    /\ j.kind \in Transfers => j.src # None
    /\ j.kind \in Removals => j.dst # None
    /\ j.kind = "same" => j.src # None /\ j.dst # None
    /\ j.at \in Steps => j.kind \in Transfers \cup Removals
    /\ j.at = "sent" => j.kind \in {"upload"} \cup Remotes
    /\ j.kind = "upload" /\ j.at \in {"captured", "validated", "sent"} => j.held \in FileRecord
    /\ j.at \in Fetched =>
          j.kind = "download" /\ j.held \in VersionRecord /\ j.held.data \in Data
    /\ j.at \in Replacing => j.moved \in FileRecord /\ j.dst # None

Sendable(r) ==
    /\ r.kind \in {"upload", "copy"} => r.src # None
    /\ r.kind = "deleteRemote" => r.dst # None
    /\ r.kind = "upload" => r.held \in FileRecord

JobTypes ==
    /\ job \in [Path -> JobRecord] /\ \A p \in Path : Meant(job[p])
    /\ late \subseteq RequestRecord /\ \A r \in late : Sendable(r)

SyncTypes == StoreTypes /\ RunTypes /\ JobTypes

-----------------------------------------------------------------------------
(* Identities.                                                             *)

\* A verified digest is that of the bytes.
TrueSha(v) == v.sha.kind = "verified" => v.sha.value = v.data

\* Every file and version has been given its identity, and versions of one identity are the
\* same.
IdsInv ==
    /\ \A p \in Path : disk[p] # None => disk[p].id < clock
    /\ \A p \in Path : \A x \in aside[p] : x.id < clock
    /\ \A f \in Folder, p \in Path : \A i \in DOMAIN remote[f][p] :
          /\ remote[f][p][i].id < clock /\ TrueSha(remote[f][p][i])
          /\ \A j \in DOMAIN remote[f][p] :
                remote[f][p][i].id = remote[f][p][j].id => remote[f][p][i] = remote[f][p][j]

StoresInv == StoreTypes /\ IdsInv

\* What a file or a version of an entry's identity holds is what the entry says.
LocalTrue(e) == disk[e.path] # None /\ disk[e.path].id = e.id => disk[e.path].data = e.data
FromTrue(e)  ==
    \A i \in DOMAIN remote[FromFolder][e.path] :
        remote[FromFolder][e.path][i].id = e.id =>
            /\ remote[FromFolder][e.path][i].action = "upload"
            /\ remote[FromFolder][e.path][i].data = e.data
SourceTrue(e) == e.id < clock /\ IF SourceIsLocal THEN LocalTrue(e) ELSE FromTrue(e)

SourcesInv ==
    /\ \A i \in DOMAIN found["src"] : SourceTrue(found["src"][i])
    /\ \A k \in DOMAIN pairs : pairs[k].src # None => SourceTrue(pairs[k].src)
    /\ \A k \in DOMAIN ready : ready[k].src # None => SourceTrue(ready[k].src)
    /\ \A p \in Path : job[p].src # None => SourceTrue(job[p].src) /\ job[p].src.path = p
    /\ \A p \in Path : job[p].kind \in Transfers => job[p].kind = Transfer(opt)
    /\ \A p \in Path : job[p].at \in Replacing => job[p].moved \in aside[p]
    /\ \A r \in late : r.kind = "copy" =>
          r.src.path = r.path /\ r.src.id < clock /\ FromTrue(r.src)

\* What any step is to the two sides: what is new there has the identity of the clock.
OneNew(v) ==
    \A f \in Folder, p \in Path : \A i \in DOMAIN remote'[f][p] :
        \/ \E k \in DOMAIN remote[f][p] : remote'[f][p][i] = remote[f][p][k]
        \/ remote'[f][p][i] = v /\ clock' = clock + 1

DiskTurn ==
    \A p \in Path : \/ disk'[p] = disk[p]
                    \/ disk'[p] = None
                    \/ disk'[p].id = clock /\ clock' = clock + 1
                    \/ job[p].at = "restoring" /\ disk'[p] = job[p].moved

AsideTurn ==
    \A p \in Path : aside'[p] \subseteq aside[p] \cup (IF disk[p] = None THEN {} ELSE {disk[p]})

StoreTurn ==
    /\ clock' \in {clock, clock + 1}
    /\ DiskTurn /\ AsideTurn
    /\ \E v : v.id = clock /\ TrueSha(v) /\ OneNew(v)

-----------------------------------------------------------------------------
(* Small steps.                                                            *)

Budget == {"edits", "faults", "aborts", "crashes"}

\* What is left of a scenario shrinks where it is spent, and its runs stay.
LEMMA SpendSpends ==
    ASSUME plan \in PlanRecord, NEW what \in Budget, Spend(what)
    PROVE  /\ plan' \in PlanRecord /\ plan'.runs = plan.runs
           /\ plan'.quiet = plan.quiet /\ plan'.skips = plan.skips
           /\ plan'.edits <= plan.edits
           /\ what = "edits" => plan'.edits < plan.edits /\ plan.edits > 0
           /\ what # "edits" => plan'.edits = plan.edits
<1> USE DEF Spend, PlanRecord, Budget
<1>1. CASE what = "edits"
  <2>1. plan["edits"] = plan.edits /\ plan.edits \in Nat /\ plan.edits > 0
    BY <1>1
  <2>2. plan' = [plan EXCEPT !["edits"] = plan["edits"] - 1]
    BY <1>1
  <2>3. plan' = [plan EXCEPT !.edits = plan.edits - 1]
    BY <2>1, <2>2
  <2>4. plan.edits - 1 \in Nat
    BY <2>1
  <2>5. plan' \in PlanRecord
    BY <2>3, <2>4
  <2>6. plan'.runs = plan.runs /\ plan'.quiet = plan.quiet /\ plan'.skips = plan.skips
    BY <2>3
  <2>7. plan'.edits = plan.edits - 1 /\ plan.edits \in Nat
    BY <2>3
  <2>8. plan'.edits <= plan.edits
    BY <2>7
  <2>9. /\ what = "edits" => plan'.edits < plan.edits /\ plan.edits > 0
        /\ what # "edits" => plan'.edits = plan.edits
    BY <1>1, <2>1, <2>7
  <2> QED
    BY <2>5, <2>6, <2>8, <2>9
<1>2. CASE what = "faults"
  <2>1. plan["faults"] = plan.faults /\ plan.faults \in Nat /\ plan.faults > 0
    BY <1>2
  <2>2. plan' = [plan EXCEPT !["faults"] = plan["faults"] - 1]
    BY <1>2
  <2>3. plan' = [plan EXCEPT !.faults = plan.faults - 1]
    BY <2>1, <2>2
  <2>4. plan.faults - 1 \in Nat
    BY <2>1
  <2>5. plan' \in PlanRecord
    BY <2>3, <2>4
  <2>6. plan'.runs = plan.runs /\ plan'.quiet = plan.quiet /\ plan'.skips = plan.skips
    BY <2>3
  <2>7. plan'.edits = plan.edits /\ plan.edits \in Nat
    BY <2>3
  <2>8. plan'.edits <= plan.edits
    BY <2>7
  <2>9. /\ what = "edits" => plan'.edits < plan.edits /\ plan.edits > 0
        /\ what # "edits" => plan'.edits = plan.edits
    BY <1>2, <2>1, <2>7
  <2> QED
    BY <2>5, <2>6, <2>8, <2>9
<1>3. CASE what = "aborts"
  <2>1. plan["aborts"] = plan.aborts /\ plan.aborts \in Nat /\ plan.aborts > 0
    BY <1>3
  <2>2. plan' = [plan EXCEPT !["aborts"] = plan["aborts"] - 1]
    BY <1>3
  <2>3. plan' = [plan EXCEPT !.aborts = plan.aborts - 1]
    BY <2>1, <2>2
  <2>4. plan.aborts - 1 \in Nat
    BY <2>1
  <2>5. plan' \in PlanRecord
    BY <2>3, <2>4
  <2>6. plan'.runs = plan.runs /\ plan'.quiet = plan.quiet /\ plan'.skips = plan.skips
    BY <2>3
  <2>7. plan'.edits = plan.edits /\ plan.edits \in Nat
    BY <2>3
  <2>8. plan'.edits <= plan.edits
    BY <2>7
  <2>9. /\ what = "edits" => plan'.edits < plan.edits /\ plan.edits > 0
        /\ what # "edits" => plan'.edits = plan.edits
    BY <1>3, <2>1, <2>7
  <2> QED
    BY <2>5, <2>6, <2>8, <2>9
<1>4. CASE what = "crashes"
  <2>1. plan["crashes"] = plan.crashes /\ plan.crashes \in Nat /\ plan.crashes > 0
    BY <1>4
  <2>2. plan' = [plan EXCEPT !["crashes"] = plan["crashes"] - 1]
    BY <1>4
  <2>3. plan' = [plan EXCEPT !.crashes = plan.crashes - 1]
    BY <2>1, <2>2
  <2>4. plan.crashes - 1 \in Nat
    BY <2>1
  <2>5. plan' \in PlanRecord
    BY <2>3, <2>4
  <2>6. plan'.runs = plan.runs /\ plan'.quiet = plan.quiet /\ plan'.skips = plan.skips
    BY <2>3
  <2>7. plan'.edits = plan.edits /\ plan.edits \in Nat
    BY <2>3
  <2>8. plan'.edits <= plan.edits
    BY <2>7
  <2>9. /\ what = "edits" => plan'.edits < plan.edits /\ plan.edits > 0
        /\ what # "edits" => plan'.edits = plan.edits
    BY <1>4, <2>1, <2>7
  <2> QED
    BY <2>5, <2>6, <2>8, <2>9
<1> QED
  BY <1>1, <1>2, <1>3, <1>4

\* A version on top, or one of the list taken out.
LEMMA PushTypes ==
    ASSUME StoreTypes, NEW f \in Folder, NEW p \in Path, NEW v \in VersionRecord,
           v.action = "upload" => v.data \in Data, Push(f, p, v)
    PROVE  /\ remote' \in [Folder -> [Path -> Seq(VersionRecord)]]
           /\ \A g \in Folder, q \in Path : UploadsHaveData(remote'[g][q])
           /\ remote'[f][p] = <<v>> \o remote[f][p]
           /\ \A g \in Folder, q \in Path : g # f \/ q # p => remote'[g][q] = remote[g][q]
<1> DEFINE s == <<v>> \o remote[f][p]
<1>1. remote[f] \in [Path -> Seq(VersionRecord)] /\ remote[f][p] \in Seq(VersionRecord)
  BY DEF StoreTypes
<1>2. s \in Seq(VersionRecord) /\ Len(s) = Len(remote[f][p]) + 1 /\ s[1] = v
      /\ \A i \in 2 .. Len(s) : s[i] = remote[f][p][i - 1]
  BY <1>1
<1>3. UploadsHaveData(s)
  <2> SUFFICES ASSUME NEW i \in DOMAIN s, s[i].action = "upload" PROVE s[i].data \in Data
    BY DEF UploadsHaveData
  <2>1. CASE i = 1
    BY <1>2, <2>1
  <2>2. CASE i # 1
    <3>1. i - 1 \in DOMAIN remote[f][p] /\ s[i] = remote[f][p][i - 1]
      BY <1>1, <1>2, <2>2
    <3>2. UploadsHaveData(remote[f][p])
      BY DEF StoreTypes
    <3> QED
      BY <3>1, <3>2 DEF UploadsHaveData
  <2> QED
    BY <2>1, <2>2
<1>4. remote' = [remote EXCEPT ![f] = [remote[f] EXCEPT ![p] = s]]
  BY DEF Push, StoreTypes
<1> HIDE DEF s
<1>5. \A g \in Folder : g # f => remote'[g] = remote[g]
  BY <1>4 DEF StoreTypes
<1>6. remote'[f] = [remote[f] EXCEPT ![p] = s]
  BY <1>4 DEF StoreTypes
<1>7. remote'[f] \in [Path -> Seq(VersionRecord)] /\ remote'[f][p] = s
      /\ \A q \in Path : q # p => remote'[f][q] = remote[f][q]
  BY <1>1, <1>2, <1>6
<1>8. remote' \in [Folder -> [Path -> Seq(VersionRecord)]]
  BY <1>2, <1>4, <1>1 DEF StoreTypes
<1>9. \A g \in Folder, q \in Path : g # f \/ q # p => remote'[g][q] = remote[g][q]
  BY <1>5, <1>7
<1>10. \A g \in Folder, q \in Path : UploadsHaveData(remote'[g][q])
  <2> TAKE g \in Folder, q \in Path
  <2>1. CASE g = f /\ q = p
    BY <1>3, <1>7, <2>1
  <2>2. CASE g # f \/ q # p
    BY <1>9, <2>2 DEF StoreTypes
  <2> QED
    BY <2>1, <2>2
<1> QED
  BY <1>7, <1>8, <1>9, <1>10 DEF s

\* What a concatenation is.
LEMMA JoinIs ==
    ASSUME NEW S, NEW a \in Seq(S), NEW b \in Seq(S)
    PROVE  /\ a \o b \in Seq(S) /\ Len(a \o b) = Len(a) + Len(b)
           /\ \A k \in 1 .. Len(a) : (a \o b)[k] = a[k]
           /\ \A k \in 1 .. (Len(a) + Len(b)) : k > Len(a) => (a \o b)[k] = b[k - Len(a)]
<1>1. a \o b \in Seq(S) /\ Len(a \o b) = Len(a) + Len(b)
  OBVIOUS
<1>2. \A k \in 1 .. Len(a) : (a \o b)[k] = a[k]
  OBVIOUS
<1>3. \A k \in 1 .. (Len(a) + Len(b)) : k > Len(a) => (a \o b)[k] = b[k - Len(a)]
  OBVIOUS
<1> QED
  BY <1>1, <1>2, <1>3

\* DELETE of a version leaves what it does not name, and only versions that were there.
LEMMA DeleteTypes ==
    ASSUME StoreTypes, NEW f \in Folder, NEW p \in Path, NEW id, DeleteVersion(f, p, id)
    PROVE  /\ remote' \in [Folder -> [Path -> Seq(VersionRecord)]]
           /\ \A g \in Folder, q \in Path : UploadsHaveData(remote'[g][q])
           /\ \A i \in DOMAIN remote'[f][p] : \E k \in DOMAIN remote[f][p] :
                 remote'[f][p][i] = remote[f][p][k]
           /\ \A g \in Folder, q \in Path : g # f \/ q # p => remote'[g][q] = remote[g][q]
<1> DEFINE r == remote[f][p]
<1>1. remote[f] \in [Path -> Seq(VersionRecord)] /\ r \in Seq(VersionRecord) /\ UploadsHaveData(r)
  BY DEF StoreTypes
<1>2. PICK i \in DOMAIN r :
         remote' = [remote EXCEPT ![f] = [remote[f] EXCEPT
                                     ![p] = SubSeq(r, 1, i - 1) \o SubSeq(r, i + 1, Len(r))]]
  BY DEF DeleteVersion, StoreTypes
<1> DEFINE a == SubSeq(r, 1, i - 1)
           b == SubSeq(r, i + 1, Len(r))
           s == a \o b
<1>3. i \in 1 .. Len(r) /\ Len(r) \in Nat
  BY <1>1
<1> HIDE DEF r
<1>4. a \in Seq(VersionRecord) /\ Len(a) = i - 1 /\ \A k \in 1 .. (i - 1) : a[k] = r[k]
  BY <1>1, <1>3
<1>5. /\ b \in Seq(VersionRecord) /\ Len(b) = Len(r) - i
     /\ \A k \in 1 .. (Len(r) - i) : b[k] = r[i + k]
  BY <1>1, <1>3, SMTT(30)
<1> HIDE DEF a, b
<1>6. s \in Seq(VersionRecord) /\ Len(s) = Len(r) - 1
      /\ \A k \in 1 .. Len(s) : s[k] = IF k <= i - 1 THEN a[k] ELSE b[k - (i - 1)]
  <2>1. /\ s \in Seq(VersionRecord) /\ Len(s) = Len(a) + Len(b)
        /\ \A k \in 1 .. Len(a) : s[k] = a[k]
        /\ \A k \in 1 .. (Len(a) + Len(b)) : k > Len(a) => s[k] = b[k - Len(a)]
    BY <1>4, <1>5, JoinIs
  <2> HIDE DEF s
  <2>2. Len(a) = i - 1 /\ Len(b) = Len(r) - i
    BY <1>4, <1>5
  <2> QED
    BY <1>3, <2>1, <2>2, SMTT(30)
<1>7. \A k \in DOMAIN s : \E m \in DOMAIN r : s[k] = r[m]
  <2> SUFFICES ASSUME NEW k \in DOMAIN s PROVE \E m \in DOMAIN r : s[k] = r[m]
    OBVIOUS
  <2>1. k \in 1 .. Len(s) /\ DOMAIN r = 1 .. Len(r)
    BY <1>1, <1>6
  <2>2. CASE k <= i - 1
    <3>1. s[k] = r[k] /\ k \in DOMAIN r
      BY <1>3, <1>4, <1>6, <2>1, <2>2
    <3> QED
      BY <3>1
  <2>3. CASE ~ (k <= i - 1)
    <3>1. k - (i - 1) \in 1 .. (Len(r) - i)
      BY <1>3, <1>6, <2>1, <2>3, SMTT(30)
    <3>2. s[k] = r[i + (k - (i - 1))] /\ i + (k - (i - 1)) \in DOMAIN r
      BY <1>3, <1>5, <1>6, <2>1, <2>3, <3>1, SMTT(30)
    <3> QED
      BY <3>2
  <2> QED
    BY <2>2, <2>3
<1>8. UploadsHaveData(s)
  BY <1>1, <1>7 DEF UploadsHaveData
<1>9. remote' = [remote EXCEPT ![f] = [remote[f] EXCEPT ![p] = s]]
  BY <1>2 DEF a, b
<1> HIDE DEF s
<1>10. /\ remote'[f] = [remote[f] EXCEPT ![p] = s]
       /\ \A g \in Folder : g # f => remote'[g] = remote[g]
  BY <1>9 DEF StoreTypes
<1>11. remote'[f] \in [Path -> Seq(VersionRecord)] /\ remote'[f][p] = s
       /\ \A q \in Path : q # p => remote'[f][q] = remote[f][q]
  BY <1>1, <1>6, <1>10
<1>12. remote' \in [Folder -> [Path -> Seq(VersionRecord)]]
  BY <1>9, <1>11, <1>10 DEF StoreTypes
<1>13. \A g \in Folder, q \in Path : g # f \/ q # p => remote'[g][q] = remote[g][q]
  BY <1>10, <1>11
<1>14. \A g \in Folder, q \in Path : UploadsHaveData(remote'[g][q])
  <2> TAKE g \in Folder, q \in Path
  <2>1. CASE g = f /\ q = p
    BY <1>8, <1>11, <2>1
  <2>2. CASE g # f \/ q # p
    BY <1>13, <2>2 DEF StoreTypes
  <2> QED
    BY <2>1, <2>2
<1> QED
  BY <1>7, <1>11, <1>12, <1>13, <1>14 DEF r

\* One job changes.
LEMMA OneJobChanges ==
    ASSUME job \in [Path -> JobRecord], NEW p \in Path, NEW v \in JobRecord,
           job' = [job EXCEPT ![p] = v]
    PROVE  /\ job' \in [Path -> JobRecord] /\ job'[p] = v
           /\ \A q \in Path : q # p => job'[q] = job[q]
OBVIOUS

\* ... to another step: what it knows stays.
LEMMA OneJobMoves ==
    ASSUME job \in [Path -> JobRecord], NEW p \in Path, NEW step \in Standing,
           job' = [job EXCEPT ![p].at = step]
    PROVE  /\ job' \in [Path -> JobRecord] /\ job'[p].at = step
           /\ job'[p].kind = job[p].kind /\ job'[p].src = job[p].src /\ job'[p].dst = job[p].dst
           /\ job'[p].held = job[p].held /\ job'[p].moved = job[p].moved
           /\ \A q \in Path : q # p => job'[q] = job[q]
<1> DEFINE v == [job[p] EXCEPT !.at = step]
<1>1. job[p] \in JobRecord /\ job' = [job EXCEPT ![p] = v]
  OBVIOUS
<1>2. v \in JobRecord /\ v.at = step /\ v.kind = job[p].kind /\ v.src = job[p].src
      /\ v.dst = job[p].dst /\ v.held = job[p].held /\ v.moved = job[p].moved
  BY <1>1 DEF JobRecord
<1> HIDE DEF v
<1> QED
  BY <1>1, <1>2, OneJobChanges

-----------------------------------------------------------------------------
(* What any step of an action is to its job.                               *)

JobTurn(p) ==
    /\ job' \in [Path -> JobRecord] /\ \A q \in Path : q # p => job'[q] = job[q]
    /\ job'[p].kind = job[p].kind /\ job'[p].src = job[p].src /\ job'[p].dst = job[p].dst
    /\ \/ job'[p].at \in Steps /\ queued' = queued /\ failed' = failed
       \/ job'[p].at = "done" /\ queued' = queued \cup {p} /\ failed' = failed
       \/ job'[p].at = "failed" /\ queued' = queued \cup {p} /\ failed' = failed \cup {p}

\* Going on to a step changes nothing of the job but where it is.
LEMMA GotoTurn ==
    ASSUME JobTypes, NEW p \in Path, NEW step \in Steps, Goto(p, step)
    PROVE  /\ JobTurn(p) /\ job'[p].at = step
           /\ job'[p].held = job[p].held /\ job'[p].moved = job[p].moved
<1>1. step \in Standing
  BY DEF Standing
<1>2. job' = [job EXCEPT ![p].at = step] /\ queued' = queued /\ failed' = failed
  BY DEF Goto
<1> QED
  BY <1>1, <1>2, OneJobMoves DEF JobTurn, JobTypes

\* An action that ends well keeps what it held.
LEMMA DoneTurn ==
    ASSUME JobTypes, NEW p \in Path, Done(p)
    PROVE  /\ JobTurn(p) /\ job'[p].at = "done"
           /\ job'[p].held = job[p].held /\ job'[p].moved = job[p].moved
<1>1. "done" \in Standing
  BY DEF Standing
<1>2. job' = [job EXCEPT ![p].at = "done"] /\ queued' = queued \cup {p} /\ failed' = failed
  BY DEF Done
<1> QED
  BY <1>1, <1>2, OneJobMoves DEF JobTurn, JobTypes

\* An action that fails keeps what it held.
LEMMA FailTurn ==
    ASSUME JobTypes, NEW p \in Path, Fail(p)
    PROVE  /\ JobTurn(p) /\ job'[p].at = "failed"
           /\ job'[p].held = job[p].held /\ job'[p].moved = job[p].moved
<1>1. "failed" \in Standing
  BY DEF Standing
<1>2. /\ job' = [job EXCEPT ![p].at = "failed"]
      /\ queued' = queued \cup {p} /\ failed' = failed \cup {p}
  BY DEF Fail
<1> QED
  BY <1>1, <1>2, OneJobMoves DEF JobTurn, JobTypes

\* A step that learns something.
LEMMA LearnTurn ==
    ASSUME JobTypes, NEW p \in Path, NEW v \in JobRecord, job' = [job EXCEPT ![p] = v],
           v.kind = job[p].kind, v.src = job[p].src, v.dst = job[p].dst, v.at \in Steps,
           UNCHANGED <<queued, failed>>
    PROVE  JobTurn(p) /\ job'[p] = v
BY OneJobChanges DEF JobTurn, JobTypes

\* The version of an id is one of the list.
LEMMA VersionOfIs ==
    ASSUME NEW f, NEW p, NEW id, HasVersion(f, p, id)
    PROVE  \E i \in DOMAIN remote[f][p] :
              VersionOf(f, p, id) = remote[f][p][i] /\ remote[f][p][i].id = id
<1> DEFINE S == {remote[f][p][i] : i \in DOMAIN remote[f][p]}
<1>1. \E v \in S : v.id = id
  BY DEF HasVersion
<1>2. VersionOf(f, p, id) \in S /\ VersionOf(f, p, id).id = id
  BY <1>1 DEF VersionOf
<1> QED
  BY <1>2

\* The version of an id is one of the versions of the name, with that id.
LEMMA VersionOfTypes ==
    ASSUME StoreTypes, NEW f \in Folder, NEW p \in Path, NEW id, HasVersion(f, p, id)
    PROVE  VersionOf(f, p, id) \in VersionRecord /\ VersionOf(f, p, id).id = id
<1>1. remote[f][p] \in Seq(VersionRecord)
  BY DEF StoreTypes
<1> QED
  BY <1>1, VersionOfIs

\* An upload captures the file that is on disk, or fails.
LEMMA CaptureTurn ==
    ASSUME StoreTypes, JobTypes, NEW p \in Path, CaptureSource(p)
    PROVE  /\ JobTurn(p) /\ job'[p].moved = job[p].moved
           /\ \/ job'[p].at = "failed" /\ job'[p].held = job[p].held
              \/ job'[p].at = "captured" /\ disk[p] # None /\ job'[p].held = disk[p]
<1>1. CASE stop \/ disk[p] = None
  BY <1>1, FailTurn DEF CaptureSource
<1>2. CASE ~ (stop \/ disk[p] = None)
  <2> DEFINE v == [job[p] EXCEPT !.at = "captured", !.held = disk[p]]
  <2>1. disk[p] \in FileRecord /\ job[p] \in JobRecord
    BY <1>2 DEF StoreTypes, JobTypes
  <2>2. /\ v \in JobRecord /\ v.kind = job[p].kind /\ v.src = job[p].src /\ v.dst = job[p].dst
        /\ v.at = "captured" /\ v.held = disk[p] /\ v.moved = job[p].moved
    BY <2>1 DEF JobRecord, HeldRecord, Standing, Steps
  <2>3. job' = [job EXCEPT ![p] = v] /\ UNCHANGED <<queued, failed>>
    BY <1>2 DEF CaptureSource, JobTypes
  <2>4. "captured" \in Steps
    BY DEF Steps
  <2> HIDE DEF v
  <2>5. v.at \in Steps
    BY <2>2, <2>4
  <2>6. JobTurn(p) /\ job'[p] = v
    BY <2>2, <2>3, <2>5, LearnTurn
  <2> QED
    BY <1>2, <2>2, <2>6
<1> QED
  BY <1>1, <1>2

\* A download stages the version it was planned for, or fails.
LEMMA StageTurn ==
    ASSUME StoreTypes, JobTypes, NEW p \in Path, Stage(p)
    PROVE  /\ JobTurn(p) /\ job'[p].moved = job[p].moved
           /\ \/ job'[p].at = "failed" /\ job'[p].held = job[p].held
              \/ /\ job'[p].at = "staged" /\ HasVersion(FromFolder, p, job[p].src.id)
                 /\ job'[p].held = VersionOf(FromFolder, p, job[p].src.id)
<1>1. CASE Fail(p)
  BY <1>1, FailTurn
<1>2. CASE /\ HasVersion(FromFolder, p, job[p].src.id)
           /\ job' = [job EXCEPT ![p].at = "staged",
                                 ![p].held = VersionOf(FromFolder, p, job[p].src.id)]
           /\ UNCHANGED <<queued, failed>>
  <2> DEFINE w == VersionOf(FromFolder, p, job[p].src.id)
             v == [job[p] EXCEPT !.at = "staged", !.held = w]
  <2>1. w \in VersionRecord /\ job[p] \in JobRecord
    BY <1>2, VersionOfTypes, FolderAssumption DEF JobTypes
  <2>3. job' = [job EXCEPT ![p] = v] /\ UNCHANGED <<queued, failed>>
    BY <1>2 DEF JobTypes
  <2> HIDE DEF w
  <2>2. /\ v \in JobRecord /\ v.kind = job[p].kind /\ v.src = job[p].src /\ v.dst = job[p].dst
        /\ v.at = "staged" /\ v.held = w /\ v.moved = job[p].moved
    BY <2>1 DEF JobRecord, HeldRecord, Standing, Steps
  <2>4. "staged" \in Steps
    BY DEF Steps
  <2> HIDE DEF v
  <2>5. v.at \in Steps
    BY <2>2, <2>4
  <2>6. JobTurn(p) /\ job'[p] = v
    BY <2>2, <2>3, <2>5, LearnTurn
  <2> QED
    BY <1>2, <2>2, <2>6 DEF w
<1> QED
  BY <1>1, <1>2 DEF Stage

\* A replaced file is set aside whole, or the action fails with the disk as it was.
LEMMA MoveTurn ==
    ASSUME StoreTypes, JobTypes, NEW p \in Path, MoveAside(p)
    PROVE  /\ JobTurn(p) /\ job'[p].held = job[p].held
           /\ \/ /\ job'[p].at = "failed" /\ job'[p].moved = job[p].moved
                 /\ UNCHANGED <<disk, aside>>
              \/ /\ job'[p].at = "moved" /\ disk[p] # None /\ job'[p].moved = disk[p]
                 /\ disk' = [disk EXCEPT ![p] = None]
                 /\ aside' = [aside EXCEPT ![p] = aside[p] \cup {disk[p]}]
<1>1. CASE disk[p] = None
  BY <1>1, FailTurn DEF MoveAside
<1>2. CASE disk[p] # None
  <2> DEFINE v == [job[p] EXCEPT !.at = "moved", !.moved = disk[p]]
  <2>1. disk[p] \in FileRecord /\ job[p] \in JobRecord
    BY <1>2 DEF StoreTypes, JobTypes
  <2>2. /\ v \in JobRecord /\ v.kind = job[p].kind /\ v.src = job[p].src /\ v.dst = job[p].dst
        /\ v.at = "moved" /\ v.moved = disk[p] /\ v.held = job[p].held
    BY <2>1 DEF JobRecord, Standing, Steps
  <2>3. job' = [job EXCEPT ![p] = v] /\ UNCHANGED <<queued, failed>>
    BY <1>2 DEF MoveAside, JobTypes
  <2>4. "moved" \in Steps
    BY DEF Steps
  <2> HIDE DEF v
  <2>5. v.at \in Steps
    BY <2>2, <2>4
  <2>6. JobTurn(p) /\ job'[p] = v
    BY <2>2, <2>3, <2>5, LearnTurn
  <2>7. /\ disk' = [disk EXCEPT ![p] = None]
        /\ aside' = [aside EXCEPT ![p] = aside[p] \cup {disk[p]}]
    BY <1>2 DEF MoveAside, StoreTypes
  <2> QED
    BY <1>2, <2>2, <2>6, <2>7
<1> QED
  BY <1>1, <1>2

PlanStays ==
    /\ plan' \in PlanRecord /\ plan'.runs = plan.runs
    /\ plan'.quiet = plan.quiet /\ plan'.skips = plan.skips /\ plan'.edits <= plan.edits

LateTurn(p) ==
    \/ late' = late
    \/ late' = late \cup {Request(p)} /\ job[p].at = "sent" /\ job'[p].at = "failed"

\* Every step of an action is one of a job under way, and leaves the generator alone.
LEMMA ActionTurn ==
    ASSUME SyncTypes, NEW p \in Path, ActionStep(p)
    PROVE  /\ JobTurn(p) /\ job[p].at \in Steps /\ PlanStays /\ LateTurn(p)
           /\ UNCHANGED unchangedByActions /\ plan'.edits = plan.edits
<1> USE DEF SyncTypes
<1>0. /\ plan \in PlanRecord
      /\ plan' = plan => PlanStays /\ plan'.edits = plan.edits
      /\ Spend("faults") => PlanStays /\ plan'.edits = plan.edits
  <2>1. plan \in PlanRecord /\ "faults" \in Budget
    BY DEF RunTypes, Budget
  <2>2. plan' = plan => PlanStays /\ plan'.edits = plan.edits
    <3>1. plan.edits \in Nat
      BY <2>1 DEF PlanRecord
    <3> QED
      BY <2>1, <3>1 DEF PlanStays
  <2>3. Spend("faults") => PlanStays /\ plan'.edits = plan.edits
    BY <2>1, SpendSpends DEF PlanStays
  <2> QED
    BY <2>1, <2>2, <2>3
<1>1. CASE CaptureSource(p)
  <2>1. job[p].at \in Steps /\ plan' = plan /\ late' = late /\ UNCHANGED unchangedByActions
    BY <1>1 DEF CaptureSource, At, Steps
  <2> QED
    BY <1>0, <1>1, <2>1, CaptureTurn DEF LateTurn
<1>2. CASE ValidateSource(p) \/ ReadSource(p) \/ SendRequest(p) \/ CheckDestination(p)
             \/ VerifyAside(p) \/ CheckDoomed(p)
  <2>1. job[p].at \in Steps /\ plan' = plan /\ late' = late /\ UNCHANGED unchangedByActions
    BY <1>2 DEF ValidateSource, ReadSource, SendRequest, CheckDestination, VerifyAside, CheckDoomed,
                At, Steps
  <2>2. Fail(p) \/ \E step \in Steps : Goto(p, step)
    BY <1>2 DEF ValidateSource, ReadSource, SendRequest, CheckDestination, VerifyAside, CheckDoomed,
                Steps
  <2>3. JobTurn(p)
    BY <2>2, GotoTurn, FailTurn
  <2> QED
    BY <1>0, <2>1, <2>3 DEF LateTurn
<1>3. CASE Answered(p) \/ Unanswered(p) \/ Refused(p)
  <2>1. job[p].at \in Steps /\ late' = late /\ UNCHANGED unchangedByActions
    BY <1>3 DEF Answered, Unanswered, Refused, Steps
  <2>2. Fail(p) \/ Done(p)
    BY <1>3 DEF Answered, Unanswered, Refused
  <2>3. plan' = plan \/ Spend("faults")
    BY <1>3 DEF Answered, Unanswered, Refused
  <2> QED
    BY <1>0, <2>1, <2>2, <2>3, DoneTurn, FailTurn DEF LateTurn
<1>4. CASE Abandoned(p)
  <2>1. /\ job[p].at \in Steps /\ job[p].at = "sent" /\ plan' = plan /\ UNCHANGED unchangedByActions
        /\ late' = late \cup {Request(p)} /\ Fail(p)
    BY <1>4 DEF Abandoned, Steps
  <2> QED
    BY <1>0, <2>1, FailTurn DEF LateTurn
<1>5. CASE Stage(p)
  <2>1. job[p].at \in Steps /\ late' = late /\ UNCHANGED unchangedByActions
    BY <1>5 DEF Stage, At, Steps
  <2>2. plan' = plan \/ Spend("faults")
    BY <1>5 DEF Stage
  <2> QED
    BY <1>0, <1>5, <2>1, <2>2, StageTurn DEF LateTurn
<1>6. CASE MoveAside(p)
  <2>1. job[p].at \in Steps /\ plan' = plan /\ late' = late /\ UNCHANGED unchangedByActions
    BY <1>6 DEF MoveAside, At, Steps
  <2> QED
    BY <1>0, <1>6, <2>1, MoveTurn DEF LateTurn
<1>7. CASE LinkNew(p) \/ LinkOver(p) \/ Restore(p) \/ Unlink(p) \/ DropAside(p)
  <2>1. job[p].at \in Steps /\ late' = late /\ UNCHANGED unchangedByActions
    BY <1>7 DEF LinkNew, LinkOver, Restore, Unlink, DropAside, At, Steps
  <2>2. Fail(p) \/ Done(p) \/ \E step \in Steps : Goto(p, step)
    BY <1>7 DEF LinkNew, LinkOver, Restore, Unlink, DropAside, Steps
  <2>3. plan' = plan \/ Spend("faults")
    BY <1>7 DEF LinkNew, LinkOver, Restore, Unlink, DropAside
  <2> QED
    BY <1>0, <2>1, <2>2, <2>3, GotoTurn, DoneTurn, FailTurn DEF LateTurn
<1> QED
  BY <1>1, <1>2, <1>3, <1>4, <1>5, <1>6, <1>7 DEF ActionStep

-----------------------------------------------------------------------------
(* The two sides.                                                          *)

\* After any step every identity is one of the clock's, and versions of one agree.
LEMMA IdsStay ==
    ASSUME StoresInv, StoreTypes', StoreTurn,
           \A p \in Path : job[p].at \in Replacing => job[p].moved \in aside[p]
    PROVE  IdsInv'
<1> USE DEF StoresInv
<1>0. clock \in Nat /\ clock' \in Nat /\ clock <= clock'
  BY DEF StoreTypes, StoreTurn
<1>1. ASSUME NEW p \in Path, disk'[p] # None PROVE disk'[p].id < clock'
  <2>1. CASE disk'[p] = disk[p]
    <3>1. disk[p].id < clock /\ disk[p] \in FileRecord
      BY <1>1, <2>1 DEF IdsInv, StoreTypes
    <3> QED
      BY <1>0, <2>1, <3>1 DEF FileRecord
  <2>2. CASE disk'[p].id = clock /\ clock' = clock + 1
    BY <1>0, <2>2
  <2>3. CASE job[p].at = "restoring" /\ disk'[p] = job[p].moved
    <3>1. disk'[p] \in aside[p]
      BY <2>3 DEF Replacing
    <3>2. disk'[p].id < clock /\ disk'[p] \in FileRecord
      BY <1>1, <3>1 DEF IdsInv, StoreTypes
    <3> QED
      BY <1>0, <3>2 DEF FileRecord
  <2> QED
    BY <1>1, <2>1, <2>2, <2>3 DEF StoreTurn, DiskTurn
<1>2. ASSUME NEW p \in Path, NEW x \in aside'[p] PROVE x.id < clock'
  <2>1. x \in aside[p] \/ (disk[p] # None /\ x = disk[p])
    BY <1>2 DEF StoreTurn, AsideTurn
  <2>2. x.id < clock /\ x \in FileRecord
    BY <2>1 DEF IdsInv, StoreTypes
  <2> QED
    BY <1>0, <2>2 DEF FileRecord
<1>3. PICK v : v.id = clock /\ TrueSha(v) /\ OneNew(v)
  BY DEF StoreTurn
<1>4. ASSUME NEW f \in Folder, NEW p \in Path, NEW i \in DOMAIN remote'[f][p]
      PROVE  /\ remote'[f][p][i].id < clock' /\ TrueSha(remote'[f][p][i])
             /\ \/ \E k \in DOMAIN remote[f][p] : remote'[f][p][i] = remote[f][p][k]
                \/ remote'[f][p][i] = v
  <2>1. CASE \E k \in DOMAIN remote[f][p] : remote'[f][p][i] = remote[f][p][k]
    <3>1. PICK k \in DOMAIN remote[f][p] : remote'[f][p][i] = remote[f][p][k]
      BY <2>1
    <3>2. remote[f][p] \in Seq(VersionRecord)
      BY DEF StoreTypes
    <3>4. remote[f][p][k] \in VersionRecord
      BY <3>2
    <3>5. remote[f][p][k].id < clock /\ TrueSha(remote[f][p][k])
      BY DEF IdsInv
    <3>3. remote[f][p][k].id < clock /\ TrueSha(remote[f][p][k]) /\ remote[f][p][k].id \in Nat
      BY <3>4, <3>5 DEF VersionRecord
    <3> QED
      BY <1>0, <3>1, <3>3
  <2>2. CASE remote'[f][p][i] = v /\ clock' = clock + 1
    BY <1>0, <1>3, <2>2
  <2> QED
    BY <1>3, <2>1, <2>2 DEF OneNew
<1>5. ASSUME NEW f \in Folder, NEW p \in Path, NEW i \in DOMAIN remote'[f][p],
             NEW j \in DOMAIN remote'[f][p], remote'[f][p][i].id = remote'[f][p][j].id
      PROVE  remote'[f][p][i] = remote'[f][p][j]
  <2>0. remote[f][p] \in Seq(VersionRecord)
    BY DEF StoreTypes
  <2>5. \A k \in DOMAIN remote[f][p] : remote[f][p][k].id < clock
    BY DEF IdsInv
  <2>6. \A k \in DOMAIN remote[f][p] : remote[f][p][k] \in VersionRecord
    BY <2>0
  <2>1. \A k \in DOMAIN remote[f][p] : remote[f][p][k].id < clock /\ remote[f][p][k].id \in Nat
    BY <2>5, <2>6 DEF VersionRecord
  <2>2. CASE remote'[f][p][i] = v
    <3>1. ~ \E k \in DOMAIN remote[f][p] : remote'[f][p][j] = remote[f][p][k]
      BY <1>0, <1>3, <1>5, <2>1, <2>2
    <3> QED
      BY <1>4, <2>2, <3>1
  <2>3. CASE remote'[f][p][j] = v
    <3>1. ~ \E k \in DOMAIN remote[f][p] : remote'[f][p][i] = remote[f][p][k]
      BY <1>0, <1>3, <1>5, <2>1, <2>3
    <3> QED
      BY <1>4, <2>3, <3>1
  <2>4. CASE /\ \E k \in DOMAIN remote[f][p] : remote'[f][p][i] = remote[f][p][k]
             /\ \E k \in DOMAIN remote[f][p] : remote'[f][p][j] = remote[f][p][k]
    BY <1>5, <2>4 DEF IdsInv
  <2> QED
    BY <1>4, <2>2, <2>3, <2>4
<1> QED
  BY <1>1, <1>2, <1>4, <1>5 DEF IdsInv

\* What is true of an entry stays true.
LEMMA FromTrueStays ==
    ASSUME StoresInv, StoreTurn, NEW e, e.path \in Path, e.id \in Nat, e.id < clock, FromTrue(e)
    PROVE  e.id < clock' /\ FromTrue(e)'
<1>0. clock \in Nat /\ clock' \in Nat /\ clock <= clock'
  BY DEF StoresInv, StoreTypes, StoreTurn
<1>1. PICK v : v.id = clock /\ OneNew(v)
  BY DEF StoreTurn
<1>2. ASSUME NEW i \in DOMAIN remote'[FromFolder][e.path],
             remote'[FromFolder][e.path][i].id = e.id
      PROVE  /\ remote'[FromFolder][e.path][i].action = "upload"
             /\ remote'[FromFolder][e.path][i].data = e.data
  <2>1. remote'[FromFolder][e.path][i] # v
    BY <1>0, <1>1, <1>2
  <2>2. PICK k \in DOMAIN remote[FromFolder][e.path] :
           remote'[FromFolder][e.path][i] = remote[FromFolder][e.path][k]
    BY <1>1, <2>1, FolderAssumption DEF OneNew
  <2> QED
    BY <1>2, <2>2 DEF FromTrue
<1> QED
  BY <1>0, <1>2 DEF FromTrue

\* A scanned local file that is still there stays true of the disk, unless a replaced file is
\* put back.
LEMMA LocalTrueStays ==
    ASSUME StoresInv, StoreTurn, NEW e, e.path \in Path, e.id \in Nat, e.id < clock, LocalTrue(e),
           job[e.path].at # "restoring"
    PROVE  e.id < clock' /\ LocalTrue(e)'
<1>0. clock \in Nat /\ clock' \in Nat /\ clock <= clock'
  BY DEF StoresInv, StoreTypes, StoreTurn
<1>1. \/ disk'[e.path] = disk[e.path] \/ disk'[e.path] = None
      \/ disk'[e.path].id = clock
  BY DEF StoreTurn, DiskTurn
<1> QED
  BY <1>0, <1>1 DEF LocalTrue

-----------------------------------------------------------------------------
(* What the steps do to the two sides.                                     *)

\* A step that leaves the stores alone is a turn of the stores.
LEMMA StoreStays ==
    ASSUME StoreTypes, UNCHANGED storeVars
    PROVE  StoreTypes' /\ StoreTurn
<1>1. StoreTypes'
  BY DEF StoreTypes, storeVars
<1> DEFINE v == [id |-> clock, sha |-> Unavailable]
<1>2. v.id = clock /\ v.sha = Unavailable
  OBVIOUS
<1> HIDE DEF v
<1>3. v.id = clock /\ TrueSha(v)
  BY <1>2 DEF TrueSha, Unavailable
<1>4. OneNew(v) /\ DiskTurn /\ AsideTurn /\ clock' = clock
  BY DEF OneNew, DiskTurn, AsideTurn, storeVars
<1> QED
  BY <1>1, <1>3, <1>4 DEF StoreTurn

\* A new version of the clock's identity.
LEMMA PushTurn ==
    ASSUME StoreTypes, NEW f \in Folder, NEW p \in Path, NEW v \in VersionRecord,
           v.action = "upload" => v.data \in Data, v.id = clock, TrueSha(v),
           Push(f, p, v), Tick, UNCHANGED <<disk, aside>>
    PROVE  StoreTypes' /\ StoreTurn
<1>0. clock \in Nat /\ clock' = clock + 1
  BY DEF StoreTypes, Tick
<1>1. /\ remote' \in [Folder -> [Path -> Seq(VersionRecord)]]
      /\ \A g \in Folder, q \in Path : UploadsHaveData(remote'[g][q])
      /\ remote'[f][p] = <<v>> \o remote[f][p]
      /\ \A g \in Folder, q \in Path : g # f \/ q # p => remote'[g][q] = remote[g][q]
  BY PushTypes
<1>2. StoreTypes'
  BY <1>0, <1>1 DEF StoreTypes
<1>3. ASSUME NEW i \in DOMAIN remote'[f][p]
      PROVE  \/ \E k \in DOMAIN remote[f][p] : remote'[f][p][i] = remote[f][p][k]
             \/ remote'[f][p][i] = v
  <2> DEFINE s == remote[f][p]
             t == <<v>> \o s
  <2>1. s \in Seq(VersionRecord)
    BY DEF StoreTypes
  <2>2. remote'[f][p] = t
    BY <1>1
  <2> HIDE DEF s
  <2>3. i = 1 \/ (i - 1 \in DOMAIN s /\ t[i] = s[i - 1])
    BY <1>3, <2>1, <2>2
  <2>4. i = 1 => t[i] = v
    BY <2>1
  <2> QED
    BY <2>2, <2>3, <2>4 DEF s
<1>4. OneNew(v)
  BY <1>0, <1>1, <1>3 DEF OneNew
<1>5. DiskTurn /\ AsideTurn
  BY DEF DiskTurn, AsideTurn
<1> QED
  BY <1>0, <1>2, <1>4, <1>5 DEF StoreTurn

\* A version less.
LEMMA DeleteTurn ==
    ASSUME StoreTypes, NEW f \in Folder, NEW p \in Path, NEW id, DeleteVersion(f, p, id),
           clock' \in {clock, clock + 1}, UNCHANGED <<disk, aside>>
    PROVE  StoreTypes' /\ StoreTurn
<1>0. clock \in Nat /\ clock' \in Nat
  BY DEF StoreTypes
<1>1. /\ remote' \in [Folder -> [Path -> Seq(VersionRecord)]]
      /\ \A g \in Folder, q \in Path : UploadsHaveData(remote'[g][q])
      /\ \A i \in DOMAIN remote'[f][p] : \E k \in DOMAIN remote[f][p] :
            remote'[f][p][i] = remote[f][p][k]
      /\ \A g \in Folder, q \in Path : g # f \/ q # p => remote'[g][q] = remote[g][q]
  BY DeleteTypes
<1>2. StoreTypes'
  BY <1>0, <1>1 DEF StoreTypes
<1> DEFINE v == [id |-> clock, sha |-> Unavailable]
<1>3. v.id = clock /\ v.sha = Unavailable
  OBVIOUS
<1> HIDE DEF v
<1>4. v.id = clock /\ TrueSha(v)
  BY <1>3 DEF TrueSha, Unavailable
<1>5. OneNew(v)
  <2>1. ASSUME NEW g \in Folder, NEW q \in Path, NEW i \in DOMAIN remote'[g][q]
        PROVE  \E k \in DOMAIN remote[g][q] : remote'[g][q][i] = remote[g][q][k]
    <3>1. CASE g = f /\ q = p
      BY <1>1, <2>1, <3>1
    <3>2. CASE g # f \/ q # p
      <4>1. remote'[g][q] = remote[g][q]
        BY <1>1, <3>2
      <4> QED
        BY <2>1, <4>1
    <3> QED
      BY <3>1, <3>2
  <2> QED
    BY <2>1 DEF OneNew
<1>6. DiskTurn /\ AsideTurn
  BY DEF DiskTurn, AsideTurn
<1> QED
  BY <1>2, <1>4, <1>5, <1>6 DEF StoreTurn

\* A version as an upload makes it.
LEMMA UploadedIs ==
    ASSUME StoreTypes, NEW d \in Data, NEW sha \in Sha, sha.kind = "verified" => sha.value = d,
           NEW v, v = Uploaded(d, sha)
    PROVE  /\ v \in VersionRecord /\ v.id = clock /\ TrueSha(v)
           /\ v.action = "upload" /\ v.data = d
BY DEF StoreTypes, Uploaded, VersionRecord, TrueSha

\* A verified digest is a digest, and that of its bytes.
LEMMA VerifiedIs ==
    ASSUME NEW d \in Data
    PROVE  Verified(d) \in Sha /\ Verified(d).value = d
BY DEF Verified, Sha

\* What the service does with an accepted request is a turn of the stores.
LEMMA EffectTurn ==
    ASSUME StoresInv, NEW r \in RequestRecord, Sendable(r), Acceptable(r), Effect(r),
           r.kind = "copy" => r.src.path = r.path /\ FromTrue(r.src)
    PROVE  StoreTypes' /\ StoreTurn
<1> USE DEF StoresInv
<1>0. /\ r.kind \in {"upload"} \cup Remotes /\ r.path \in Path /\ r.folder \in Folder
      /\ Tick /\ UNCHANGED <<disk, aside>>
  BY DEF RequestRecord, Effect
<1>1. CASE r.kind = "upload"
  <2>1. r.held \in FileRecord
    BY <1>1 DEF Sendable
  <2>2. r.held.data \in Data
    BY <2>1 DEF FileRecord
  <2>3. PICK v : v = Uploaded(r.held.data, Verified(r.held.data))
    OBVIOUS
  <2>4. Push(r.folder, r.path, v)
    BY <1>1, <2>3 DEF Effect, Push
  <2>5. /\ v \in VersionRecord /\ v.id = clock /\ TrueSha(v)
        /\ v.action = "upload" /\ v.data = r.held.data
    BY <2>2, <2>3, UploadedIs, VerifiedIs
  <2> QED
    BY <1>0, <2>2, <2>4, <2>5, PushTurn
<1>2. CASE r.kind = "hide"
  <2>1. PICK v : v = HideMarker
    OBVIOUS
  <2>2. Push(r.folder, r.path, v)
    BY <1>2, <2>1 DEF Effect, Push
  <2>3. v \in VersionRecord /\ v.id = clock /\ TrueSha(v) /\ v.action # "upload"
    BY <2>1 DEF HideMarker, VersionRecord, TrueSha, Unavailable, Sha, StoreTypes
  <2> QED
    BY <1>0, <2>2, <2>3, PushTurn
<1>3. CASE r.kind = "deleteRemote"
  <2>1. DeleteVersion(r.folder, r.path, r.dst.id)
    BY <1>3 DEF Effect
  <2> QED
    BY <1>0, <2>1, DeleteTurn DEF Tick
<1>4. CASE r.kind = "copy"
  <2>1. HasVersion(FromFolder, r.path, r.src.id)
    BY <1>4 DEF Acceptable
  <2>2. PICK i \in DOMAIN remote[FromFolder][r.path] :
           /\ VersionOf(FromFolder, r.path, r.src.id) = remote[FromFolder][r.path][i]
           /\ remote[FromFolder][r.path][i].id = r.src.id
    BY <2>1, VersionOfIs
  <2>3. PICK w : w = remote[FromFolder][r.path][i]
    OBVIOUS
  <2>4. w.action = "upload" /\ TrueSha(w)
    BY <1>0, <1>4, <2>2, <2>3, FolderAssumption DEF FromTrue, IdsInv
  <2>5. remote[FromFolder][r.path] \in Seq(VersionRecord)
    BY <1>0, FolderAssumption DEF StoreTypes
  <2>6. w \in VersionRecord
    BY <2>3, <2>5
  <2>7. w.data \in Data /\ w.sha \in Sha
    <3>1. UploadsHaveData(remote[FromFolder][r.path])
      BY <1>0, FolderAssumption DEF StoreTypes
    <3> QED
      BY <2>3, <2>4, <2>6, <3>1 DEF UploadsHaveData, VersionRecord
  <2>8. PICK v : v = Uploaded(w.data, w.sha)
    OBVIOUS
  <2>9. Push(r.folder, r.path, v)
    BY <1>4, <2>2, <2>3, <2>8 DEF Effect, Push
  <2>10. /\ v \in VersionRecord /\ v.id = clock /\ TrueSha(v)
         /\ v.action = "upload" /\ v.data = w.data
    BY <2>4, <2>7, <2>8, UploadedIs DEF TrueSha
  <2> QED
    BY <1>0, <2>7, <2>9, <2>10, PushTurn
<1> QED
  BY <1>0, <1>1, <1>2, <1>3, <1>4 DEF Remotes

\* A change of the directory at one path.
LEMMA DiskTurns ==
    ASSUME StoreTypes, NEW p \in Path, NEW x \in FileRecord \cup {None},
           disk' = [disk EXCEPT ![p] = x],
           x = disk[p] \/ x = None \/ (x.id = clock /\ clock' = clock + 1)
             \/ (job[p].at = "restoring" /\ x = job[p].moved),
           NEW A \in SUBSET FileRecord, aside' = [aside EXCEPT ![p] = A],
           A \subseteq aside[p] \cup (IF disk[p] = None THEN {} ELSE {disk[p]}),
           clock' \in {clock, clock + 1}, UNCHANGED remote
    PROVE  StoreTypes' /\ StoreTurn
<1>0. clock \in Nat /\ clock' \in Nat
  BY DEF StoreTypes
<1>1. disk' \in [Path -> FileRecord \cup {None}] /\ disk'[p] = x
      /\ \A q \in Path : q # p => disk'[q] = disk[q]
  BY DEF StoreTypes
<1>2. aside' \in [Path -> SUBSET FileRecord] /\ aside'[p] = A
      /\ \A q \in Path : q # p => aside'[q] = aside[q]
  BY DEF StoreTypes
<1>3. StoreTypes'
  BY <1>0, <1>1, <1>2 DEF StoreTypes
<1>4. DiskTurn
  BY <1>1 DEF DiskTurn
<1>5. AsideTurn
  BY <1>2 DEF AsideTurn
<1> DEFINE v == [id |-> clock, sha |-> Unavailable]
<1>6. v.id = clock /\ v.sha = Unavailable
  OBVIOUS
<1> HIDE DEF v
<1>7. v.id = clock /\ TrueSha(v) /\ OneNew(v)
  BY <1>6 DEF TrueSha, Unavailable, OneNew
<1> QED
  BY <1>3, <1>4, <1>5, <1>7 DEF StoreTurn

\* The request of an action is well formed and names the path of its job.
LEMMA RequestTypes ==
    ASSUME JobTypes, NEW p \in Path, job[p].at = "sent"
    PROVE  /\ Request(p) \in RequestRecord /\ Sendable(Request(p))
           /\ Request(p).kind = job[p].kind /\ Request(p).path = p /\ Request(p).src = job[p].src
           /\ Request(p).dst = job[p].dst /\ Request(p).held = job[p].held
           /\ Request(p).folder = DestFolder
<1> DEFINE r == Request(p)
<1>1. /\ r.kind = job[p].kind /\ r.path = p /\ r.src = job[p].src
      /\ r.dst = job[p].dst /\ r.held = job[p].held /\ r.folder = DestFolder
  BY DEF Request
<1>2. job[p] \in JobRecord /\ Meant(job[p])
  BY DEF JobTypes
<1>3. job[p].kind \in {"upload"} \cup Remotes /\ DestFolder \in Folder
  BY <1>2, FolderAssumption DEF Meant, DestFolder
<1>4. r \in RequestRecord
  BY <1>2, <1>3 DEF Request, RequestRecord, JobRecord
<1>5. Sendable(r)
  BY <1>1, <1>2, <1>3 DEF Sendable, Meant, Transfers, Removals
<1> QED
  BY <1>1, <1>4, <1>5

\* The file a download publishes.
LEMMA PublishedIs ==
    ASSUME StoreTypes, JobTypes, NEW p \in Path, job[p].at \in Fetched
    PROVE  Published(p) \in FileRecord /\ Published(p).id = clock
             /\ Published(p).data = job[p].held.data
<1>1. Meant(job[p]) /\ clock \in Nat
  BY DEF StoreTypes, JobTypes
<1>2. job[p].held.data \in Data
  BY <1>1 DEF Meant
<1> QED
  BY <1>1, <1>2 DEF Published, FileRecord

\* A step of an action is a turn of the stores.
LEMMA ActionStores ==
    ASSUME SyncTypes, StoresInv, SourcesInv, NEW p \in Path, ActionStep(p)
    PROVE  StoreTypes' /\ StoreTurn
<1> USE DEF SyncTypes
<1>0. StoreTypes /\ clock \in Nat /\ disk[p] \in FileRecord \cup {None}
      /\ aside[p] \in SUBSET FileRecord /\ JobTypes /\ Meant(job[p])
      /\ aside = [aside EXCEPT ![p] = aside[p]] /\ disk = [disk EXCEPT ![p] = disk[p]]
  BY DEF StoreTypes, JobTypes
<1>1. CASE \/ CaptureSource(p) \/ ValidateSource(p) \/ ReadSource(p) \/ SendRequest(p)
           \/ Refused(p) \/ Abandoned(p) \/ Stage(p) \/ CheckDestination(p) \/ VerifyAside(p)
           \/ CheckDoomed(p)
  <2>1. UNCHANGED storeVars
    BY <1>1 DEF CaptureSource, ValidateSource, ReadSource, SendRequest, Refused, Abandoned, Stage,
                CheckDestination, VerifyAside, CheckDoomed
  <2> QED
    BY <1>0, <2>1, StoreStays
<1>2. CASE Answered(p) \/ Unanswered(p)
  <2>1. job[p].at = "sent"
    BY <1>2 DEF Answered, Unanswered
  <2>2. PICK r : r = Request(p)
    OBVIOUS
  <2>3. r \in RequestRecord /\ Sendable(r) /\ r.kind = job[p].kind /\ r.path = p
        /\ r.src = job[p].src
    BY <1>0, <2>1, <2>2, RequestTypes
  <2>4. Acceptable(r) /\ Effect(r)
    BY <1>2, <2>2 DEF Answered, Unanswered
  <2>5. r.kind = "copy" => r.src.path = r.path /\ FromTrue(r.src)
    <3> SUFFICES ASSUME r.kind = "copy" PROVE r.src.path = r.path /\ FromTrue(r.src)
      OBVIOUS
    <3>1. job[p].kind = "copy" /\ job[p].src # None /\ "copy" \in Transfers
      BY <1>0, <2>3 DEF Meant, Transfers
    <3>2. job[p].src.path = p /\ SourceTrue(job[p].src) /\ Transfer(opt) = "copy"
      BY <3>1 DEF SourcesInv
    <3>3. opt.direction # "local-to-b2"
      BY <3>2 DEF Transfer
    <3>4. FromTrue(job[p].src)
      BY <3>2, <3>3 DEF SourceTrue, SourceIsLocal
    <3> QED
      BY <2>3, <3>2, <3>4 DEF FromTrue
  <2> QED
    BY <2>3, <2>4, <2>5, EffectTurn
<1>3. CASE LinkNew(p) \/ LinkOver(p)
  <2>1. aside' = aside /\ remote' = remote /\ job[p].at \in Fetched
    BY <1>3 DEF LinkNew, LinkOver, At, Fetched, Replacing
  <2>2. CASE disk' = disk /\ clock' = clock
    BY <1>0, <2>1, <2>2, StoreStays DEF storeVars
  <2>3. CASE disk' = [disk EXCEPT ![p] = Published(p)] /\ clock' = clock + 1
    <3>1. PICK x : x = Published(p)
      OBVIOUS
    <3>2. x \in FileRecord /\ x.id = clock
      BY <1>0, <2>1, <3>1, PublishedIs
    <3>3. PICK A : A = aside[p]
      OBVIOUS
    <3> QED
      BY <1>0, <2>1, <2>3, <3>1, <3>2, <3>3, DiskTurns
  <2> QED
    BY <1>3, <2>2, <2>3 DEF LinkNew, LinkOver, LinkStaged, Tick
<1>4. CASE MoveAside(p)
  <2>1. clock' = clock /\ remote' = remote
    BY <1>4 DEF MoveAside
  <2>2. CASE UNCHANGED <<disk, aside>>
    BY <1>0, <2>1, <2>2, StoreStays DEF storeVars
  <2>3. CASE /\ disk[p] # None /\ disk' = [disk EXCEPT ![p] = None]
             /\ aside' = [aside EXCEPT ![p] = aside[p] \cup {disk[p]}]
    <3>1. PICK A : A = aside[p] \cup {disk[p]}
      OBVIOUS
    <3>2. A \in SUBSET FileRecord
      BY <1>0, <2>3, <3>1
    <3> QED
      BY <1>0, <2>1, <2>3, <3>1, <3>2, DiskTurns
  <2> QED
    BY <1>0, <1>4, <2>2, <2>3, MoveTurn
<1>5. CASE DropAside(p)
  <2>1. clock' = clock /\ remote' = remote /\ disk' = disk
    BY <1>5 DEF DropAside
  <2>2. PICK A \in SUBSET aside[p] : aside' = [aside EXCEPT ![p] = A]
    <3>1. CASE aside' = aside
      BY <1>0, <3>1
    <3>2. CASE aside' = [aside EXCEPT ![p] = @ \ {job[p].moved}]
      BY <1>0, <3>2
    <3> QED
      BY <1>5, <3>1, <3>2 DEF DropAside
  <2>3. A \in SUBSET FileRecord
    BY <1>0
  <2>4. PICK x : x = disk[p]
    OBVIOUS
  <2> QED
    BY <1>0, <2>1, <2>2, <2>3, <2>4, DiskTurns
<1>6. CASE Restore(p)
  <2>1. clock' = clock /\ remote' = remote /\ job[p].at = "restoring"
    BY <1>6 DEF Restore, At
  <2>2. CASE UNCHANGED <<disk, aside>>
    BY <1>0, <2>1, <2>2, StoreStays DEF storeVars
  <2>3. CASE /\ disk' = [disk EXCEPT ![p] = job[p].moved]
             /\ aside' = [aside EXCEPT ![p] = aside[p] \ {job[p].moved}]
    <3>1. PICK x, A : x = job[p].moved /\ A = aside[p] \ {job[p].moved}
      OBVIOUS
    <3>2. A \in SUBSET FileRecord /\ A \subseteq aside[p]
      BY <1>0, <3>1
    <3>3. x \in FileRecord
      BY <1>0, <2>1, <3>1 DEF Meant, Replacing
    <3> QED
      BY <1>0, <2>1, <2>3, <3>1, <3>2, <3>3, DiskTurns
  <2> QED
    BY <1>6, <2>2, <2>3 DEF Restore
<1>7. CASE Unlink(p)
  <2>1. /\ clock' = clock /\ remote' = remote /\ aside' = aside
        /\ disk' = [disk EXCEPT ![p] = None]
    BY <1>7 DEF Unlink
  <2>2. PICK A : A = aside[p]
    OBVIOUS
  <2> QED
    BY <1>0, <2>1, <2>2, DiskTurns
<1> QED
  BY <1>1, <1>2, <1>3, <1>4, <1>5, <1>6, <1>7 DEF ActionStep

\* The user and the other client.
LEMMA OthersStores ==
    ASSUME SyncTypes, Others
    PROVE  StoreTypes' /\ StoreTurn
<1> USE DEF SyncTypes
<1>0. StoreTypes /\ clock \in Nat
  BY DEF StoreTypes
<1>1. PICK p \in Path : \/ \E d \in Data : EditFile(p, d)
                        \/ RemoveFile(p)
                        \/ \E f \in Folder, d \in Data : UploadElsewhere(f, p, d)
                        \/ \E f \in Folder : DeleteElsewhere(f, p)
  BY DEF Others
<1>2. PICK A : A = aside[p]
  OBVIOUS
<1>3. A \in SUBSET FileRecord /\ aside = [aside EXCEPT ![p] = A] /\ A \subseteq aside[p]
  BY <1>2 DEF StoreTypes
<1>4. CASE \E d \in Data : EditFile(p, d)
  <2>1. PICK d \in Data : EditFile(p, d)
    BY <1>4
  <2>2. PICK x : x = [id |-> clock, data |-> d]
    OBVIOUS
  <2>3. x \in FileRecord /\ x.id = clock
    BY <1>0, <2>2 DEF FileRecord
  <2>4. /\ disk' = [disk EXCEPT ![p] = x] /\ clock' = clock + 1
        /\ aside' = [aside EXCEPT ![p] = A] /\ remote' = remote
    BY <1>3, <2>1, <2>2 DEF EditFile, Tick
  <2> QED
    BY <1>0, <1>3, <2>3, <2>4, DiskTurns
<1>5. CASE RemoveFile(p)
  <2>1. /\ disk' = [disk EXCEPT ![p] = None] /\ clock' = clock
        /\ aside' = [aside EXCEPT ![p] = A] /\ remote' = remote
    BY <1>3, <1>5 DEF RemoveFile
  <2> QED
    BY <1>0, <1>3, <2>1, DiskTurns
<1>6. CASE \E f \in Folder, d \in Data : UploadElsewhere(f, p, d)
  <2>1. PICK f \in Folder, d \in Data : UploadElsewhere(f, p, d)
    BY <1>6
  <2>2. PICK v : v = Uploaded(d, Verified(d))
    OBVIOUS
  <2>3. Push(f, p, v) /\ Tick /\ UNCHANGED <<disk, aside>>
    BY <2>1, <2>2 DEF UploadElsewhere, Push
  <2>4. /\ v \in VersionRecord /\ v.id = clock /\ TrueSha(v)
        /\ v.action = "upload" /\ v.data = d
    BY <1>0, <2>2, UploadedIs, VerifiedIs
  <2> QED
    BY <1>0, <2>3, <2>4, PushTurn
<1>7. CASE \E f \in Folder : DeleteElsewhere(f, p)
  <2>1. PICK f \in Folder : DeleteElsewhere(f, p)
    BY <1>7
  <2>2. PICK id : id = Head(remote[f][p]).id
    OBVIOUS
  <2>3. DeleteVersion(f, p, id) /\ UNCHANGED <<disk, aside, clock>>
    BY <2>1, <2>2 DEF DeleteElsewhere, DeleteVersion
  <2> QED
    BY <1>0, <2>3, DeleteTurn
<1> QED
  BY <1>1, <1>4, <1>5, <1>6, <1>7

\* A step of the generator, of the caller or of a death leaves the two sides alone.
LEMMA OtherStepsKeepStores ==
    ASSUME StartRun \/ ScanThrows \/ GeneratorStep \/ AbortRun \/ CloseIterator \/ Crash
             \/ UNCHANGED vars
    PROVE  UNCHANGED storeVars
<1>1. CASE StartRun \/ ScanThrows \/ AbortRun \/ CloseIterator \/ Crash \/ UNCHANGED vars
  BY <1>1 DEF StartRun, ScanThrows, AbortRun, CloseIterator, Crash, vars
<1>2. CASE GeneratorStep
  <2>1. CASE ScanSource \/ ScanDest \/ CollectPair \/ PairsCollected
    BY <2>1 DEF ScanSource, ScanDest, CollectPair, PairsCollected
  <2>2. CASE StartBatch \/ PreparePair \/ PlanBatch \/ YieldCompare \/ Resume \/ NextItem
    BY <2>2 DEF StartBatch, PreparePair, PlanBatch, YieldCompare, Resume, NextItem
  <2>3. CASE Finish \/ Report \/ EndUnfinished
    BY <2>3 DEF Finish, Report, EndUnfinished
  <2> QED
    BY <1>2, <2>1, <2>2, <2>3 DEF GeneratorStep
<1> QED
  BY <1>1, <1>2

\* Every step is a turn of the stores: ids are new, versions keep their content.
LEMMA NextStores ==
    ASSUME SyncTypes, StoresInv, SourcesInv, [Next]_vars
    PROVE  StoreTypes' /\ StoreTurn
<1>1. CASE StartRun \/ ScanThrows \/ GeneratorStep \/ AbortRun \/ CloseIterator \/ Crash
             \/ UNCHANGED vars
  BY <1>1, OtherStepsKeepStores, StoreStays DEF SyncTypes
<1>2. CASE \E p \in Path : ActionStep(p)
  BY <1>2, ActionStores
<1>3. CASE \E r \in late : LateEffect(r)
  <2>1. PICK r \in late : LateEffect(r)
    BY <1>3
  <2>2. r \in RequestRecord /\ Sendable(r) /\ Acceptable(r) /\ Effect(r)
    BY <2>1 DEF SyncTypes, JobTypes, LateEffect
  <2>3. r.kind = "copy" => r.src.path = r.path /\ FromTrue(r.src)
    BY DEF SourcesInv
  <2> QED
    BY <2>2, <2>3, EffectTurn
<1>4. CASE Others
  BY <1>4, OthersStores
<1> QED
  BY <1>1, <1>2, <1>3, <1>4 DEF Next
-----------------------------------------------------------------------------
(* What a scan returns.                                                    *)

\* A path has one entry, so there are finitely many.
LEMMA EntriesAreFinite ==
    ASSUME NEW E \in SUBSET EntryRecord, \A a, b \in E : a.path = b.path => a = b
    PROVE  IsFiniteSet(E)
<1> DEFINE f == [e \in E |-> e.path]
<1>1. \A e \in E : e.path \in Path
  BY DEF EntryRecord
<1>2. f \in Injection(E, Path)
  BY <1>1 DEF Injection, IsInjective
<1>3. IsFiniteSet(Path)
  BY PathAssumption, FS_Interval DEF Path
<1> HIDE DEF f
<1> QED
  BY <1>2, <1>3, FS_Injection

\* A scan of a set of entries is an ordered sequence of all of them and of nothing else.
LEMMA ScansAre ==
    ASSUME NEW E \in SUBSET EntryRecord, IsFiniteSet(E), NEW s \in ScansOf(E)
    PROVE  /\ s \in Seq(EntryRecord) /\ Ordered(s)
           /\ \A i \in DOMAIN s : s[i] \in E
           /\ \A e \in E : \E i \in DOMAIN s : s[i] = e
<1>1. Cardinality(E) \in Nat
  BY FS_CardinalityType
<1>2. s \in [1 .. Cardinality(E) -> E] /\ IsScanOf(s, E)
  BY DEF ScansOf
<1>3. s \in Seq(E)
  BY <1>1, <1>2
<1>4. s \in Seq(EntryRecord) /\ \A i \in DOMAIN s : s[i] \in E
  BY <1>3
<1> QED
  BY <1>2, <1>4 DEF IsScanOf

\* The entries of a directory.
LEMMA LocalEntriesAre ==
    ASSUME StoresInv
    PROVE  /\ LocalEntries \in SUBSET EntryRecord
           /\ \A e \in LocalEntries : /\ e.id < clock /\ LocalTrue(e) /\ TrueSha(e)
                                      /\ disk[e.path] # None
           /\ \A a, b \in LocalEntries : a.path = b.path => a = b
<1>1. ASSUME NEW e \in LocalEntries
      PROVE  /\ e \in EntryRecord /\ e.id < clock /\ LocalTrue(e) /\ TrueSha(e)
             /\ disk[e.path] # None
             /\ e = [path |-> e.path, id |-> disk[e.path].id, data |-> disk[e.path].data,
                     sha |-> Pending]
  <2>1. PICK p \in Path :
           /\ disk[p] # None
           /\ e = [path |-> p, id |-> disk[p].id, data |-> disk[p].data, sha |-> Pending]
    BY DEF LocalEntries
  <2>2. disk[p] \in FileRecord /\ disk[p].id < clock
    BY <2>1 DEF StoresInv, StoreTypes, IdsInv
  <2>3. disk[p].id \in Nat /\ disk[p].data \in Data /\ Pending \in Sha
    BY <2>2 DEF FileRecord, Sha
  <2>4. e.path = p /\ e.id = disk[p].id /\ e.data = disk[p].data /\ e.sha = Pending
    BY <2>1
  <2>5. e \in EntryRecord
    BY <2>1, <2>3 DEF EntryRecord
  <2> QED
    BY <2>1, <2>2, <2>4, <2>5 DEF LocalTrue, TrueSha, Pending
<1> QED
  BY <1>1

\* The entries of a folder of the bucket.
LEMMA B2EntriesAre ==
    ASSUME StoresInv, NEW f \in Folder
    PROVE  /\ B2Entries(f) \in SUBSET EntryRecord
           /\ \A e \in B2Entries(f) : /\ e.id < clock /\ TrueSha(e)
                                      /\ f = FromFolder => FromTrue(e)
           /\ \A a, b \in B2Entries(f) : a.path = b.path => a = b
<1>1. ASSUME NEW e \in B2Entries(f)
      PROVE  /\ e \in EntryRecord /\ e.id < clock /\ TrueSha(e)
             /\ f = FromFolder => FromTrue(e)
             /\ e = [path |-> e.path, id |-> Served(f, e.path).id,
                     data |-> Served(f, e.path).data, sha |-> Served(f, e.path).sha]
  <2>1. PICK p \in Path :
           /\ Served(f, p) # None
           /\ e = [path |-> p, id |-> Served(f, p).id, data |-> Served(f, p).data,
                   sha |-> Served(f, p).sha]
    BY DEF B2Entries
  <2>2. /\ remote[f][p] # <<>> /\ Head(remote[f][p]).action = "upload"
        /\ Served(f, p) = Head(remote[f][p])
    BY <2>1 DEF Served
  <2>3. remote[f][p] \in Seq(VersionRecord) /\ UploadsHaveData(remote[f][p])
    BY DEF StoresInv, StoreTypes
  <2>4. PICK v : v = Served(f, p)
    OBVIOUS
  <2>5. 1 \in DOMAIN remote[f][p] /\ v = remote[f][p][1] /\ v.action = "upload"
    BY <2>2, <2>3, <2>4
  <2>6. v \in VersionRecord /\ v.data \in Data
    BY <2>3, <2>5 DEF UploadsHaveData
  <2>7. v.id < clock /\ TrueSha(v)
        /\ \A j \in DOMAIN remote[f][p] : v.id = remote[f][p][j].id => v = remote[f][p][j]
    BY <2>5 DEF StoresInv, IdsInv
  <2>8. e = [path |-> p, id |-> v.id, data |-> v.data, sha |-> v.sha]
    BY <2>1, <2>4
  <2>9. e.path = p /\ e.id = v.id /\ e.data = v.data /\ e.sha = v.sha
    BY <2>8
  <2>10. e \in EntryRecord
    BY <2>6, <2>8 DEF EntryRecord, VersionRecord
  <2>11. f = FromFolder => FromTrue(e)
    BY <2>5, <2>7, <2>9 DEF FromTrue
  <2>12. TrueSha(e)
    BY <2>7, <2>9 DEF TrueSha
  <2> QED
    BY <2>1, <2>7, <2>9, <2>10, <2>11, <2>12
<1> QED
  BY <1>1

\* What either scan of a run goes through.
LEMMA SideEntriesAre ==
    ASSUME StoresInv
    PROVE  /\ SourceEntries \in SUBSET EntryRecord /\ DestEntries \in SUBSET EntryRecord
           /\ \A e \in SourceEntries : SourceTrue(e) /\ TrueSha(e)
           /\ \A e \in DestEntries : e.id < clock /\ TrueSha(e)
           /\ \A a, b \in SourceEntries : a.path = b.path => a = b
           /\ \A a, b \in DestEntries : a.path = b.path => a = b
<1>1. FromFolder \in Folder /\ DestFolder \in Folder
  BY FolderAssumption DEF DestFolder
<1>2. /\ SourceEntries \in SUBSET EntryRecord
      /\ \A e \in SourceEntries : SourceTrue(e) /\ TrueSha(e)
      /\ \A a, b \in SourceEntries : a.path = b.path => a = b
  <2>1. CASE SourceIsLocal
    BY <2>1, LocalEntriesAre DEF SourceEntries, SourceTrue
  <2>2. CASE ~ SourceIsLocal
    BY <1>1, <2>2, B2EntriesAre DEF SourceEntries, SourceTrue
  <2> QED
    BY <2>1, <2>2
<1>3. /\ DestEntries \in SUBSET EntryRecord
      /\ \A e \in DestEntries : e.id < clock /\ TrueSha(e)
      /\ \A a, b \in DestEntries : a.path = b.path => a = b
  BY <1>1, LocalEntriesAre, B2EntriesAre DEF DestEntries
<1> QED
  BY <1>2, <1>3

\* A scan fills its side, leaves the other side alone, and never takes an error back.
LEMMA ScanTurn ==
    ASSUME RunTypes, NEW side \in {"src", "dst"}, NEW E \in SUBSET EntryRecord,
           \A a, b \in E : a.path = b.path => a = b, NEW local, Scan(side, E, local)
    PROVE  /\ found' \in [{"src", "dst"} -> Seq(EntryRecord)] /\ PlanStays
           /\ plan'.edits = plan.edits
           /\ scanned' = scanned \cup {side} /\ scanned' \subseteq {"src", "dst"}
           /\ \A o \in {"src", "dst"} : o # side => found'[o] = found[o]
           /\ Ordered(found'[side]) /\ \A i \in DOMAIN found'[side] : found'[side][i] \in E
           /\ scanError' \in BOOLEAN /\ (scanError => scanError')
           /\ scanError' \/ \A e \in E : \E i \in DOMAIN found'[side] : found'[side][i] = e
<1>0. /\ found \in [{"src", "dst"} -> Seq(EntryRecord)] /\ scanError \in BOOLEAN
      /\ plan \in PlanRecord /\ scanned \subseteq {"src", "dst"} /\ scanned' = scanned \cup {side}
  BY DEF RunTypes, Scan
<1>1. CASE /\ \E s \in ScansOf(E) : found' = [found EXCEPT ![side] = s]
           /\ UNCHANGED <<scanError, plan>>
  <2>1. PICK s \in ScansOf(E) : found' = [found EXCEPT ![side] = s]
    BY <1>1
  <2>2. /\ s \in Seq(EntryRecord) /\ Ordered(s)
        /\ \A i \in DOMAIN s : s[i] \in E
        /\ \A e \in E : \E i \in DOMAIN s : s[i] = e
    BY EntriesAreFinite, ScansAre
  <2>3. /\ found' \in [{"src", "dst"} -> Seq(EntryRecord)] /\ found'[side] = s
        /\ \A o \in {"src", "dst"} : o # side => found'[o] = found[o]
    BY <1>0, <2>1, <2>2
  <2>4. PlanStays /\ plan'.edits = plan.edits
    BY <1>0, <1>1 DEF PlanStays, PlanRecord
  <2> QED
    BY <1>0, <1>1, <2>2, <2>3, <2>4
<1>2. CASE /\ Spend("faults")
           /\ \E e \in E : \E s \in ScansOf(E \ {e}) : found' = [found EXCEPT ![side] = s]
           /\ scanError' = TRUE
  <2>1. PICK e \in E : \E s \in ScansOf(E \ {e}) : found' = [found EXCEPT ![side] = s]
    BY <1>2
  <2>2. PICK F \in SUBSET E : \E s \in ScansOf(F) : found' = [found EXCEPT ![side] = s]
    BY <2>1
  <2>3. PICK s \in ScansOf(F) : found' = [found EXCEPT ![side] = s]
    BY <2>2
  <2>4. /\ s \in Seq(EntryRecord) /\ Ordered(s) /\ \A i \in DOMAIN s : s[i] \in F
    BY EntriesAreFinite, ScansAre
  <2>5. /\ found' \in [{"src", "dst"} -> Seq(EntryRecord)] /\ found'[side] = s
        /\ \A o \in {"src", "dst"} : o # side => found'[o] = found[o]
    BY <1>0, <2>3, <2>4
  <2>6. PlanStays /\ plan'.edits = plan.edits
    BY <1>0, <1>2, SpendSpends DEF PlanStays, Budget
  <2> QED
    BY <1>0, <1>2, <2>4, <2>5, <2>6
<1> QED
  BY <1>1, <1>2 DEF Scan

-----------------------------------------------------------------------------
(* Pairs.                                                                  *)

\* The head of a side is the entry the merge has come to, or nothing.
LEMMA HeadOfIs ==
    ASSUME RunTypes, NEW side \in {"src", "dst"}
    PROVE  /\ HeadOf(side) \in MaybeEntry
           /\ HeadOf(side) # None <=> at[side] \in DOMAIN found[side]
           /\ HeadOf(side) # None => HeadOf(side) = found[side][at[side]]
           /\ HeadOf(side) # None => HeadOf(side).path \in Nat
<1>1. found[side] \in Seq(EntryRecord)
  BY DEF RunTypes
<1>2. at[side] \in DOMAIN found[side] => found[side][at[side]] \in EntryRecord
  BY <1>1
<1>3. None \notin EntryRecord /\ \A e \in EntryRecord : e.path \in Nat
  BY RecordAssumption, PathAssumption DEF EntryRecord, Path
<1> QED
  BY <1>2, <1>3 DEF HeadOf, MaybeEntry

\* A pair takes the smaller of what is next, or both.
LEMMA NextPairIs ==
    ASSUME RunTypes, ~ Exhausted
    PROVE  /\ NextPair \in PairRecord
           /\ \/ /\ NextPair.src = HeadOf("src") /\ NextPair.dst = None /\ HeadOf("src") # None
                 /\ HeadOf("dst") = None \/ HeadOf("src").path < HeadOf("dst").path
              \/ /\ NextPair.dst = HeadOf("dst") /\ NextPair.src = None /\ HeadOf("dst") # None
                 /\ HeadOf("src") = None \/ HeadOf("dst").path < HeadOf("src").path
              \/ /\ NextPair.src = HeadOf("src") /\ NextPair.dst = HeadOf("dst")
                 /\ HeadOf("src") # None /\ HeadOf("dst") # None
                 /\ HeadOf("src").path = HeadOf("dst").path
<1> DEFINE s == HeadOf("src")
           d == HeadOf("dst")
<1>1. /\ s \in MaybeEntry /\ d \in MaybeEntry
      /\ s # None => s.path \in Nat
      /\ d # None => d.path \in Nat
      /\ s # None \/ d # None
  BY HeadOfIs DEF Exhausted
<1>2. NextPair = IF s = None THEN [src |-> None, dst |-> d]
                 ELSE IF d = None THEN [src |-> s, dst |-> None]
                 ELSE IF s.path < d.path THEN [src |-> s, dst |-> None]
                 ELSE IF d.path < s.path THEN [src |-> None, dst |-> d]
                 ELSE [src |-> s, dst |-> d]
  BY DEF NextPair
<1> HIDE DEF s, d
<1>3. None \in MaybeEntry
  BY DEF MaybeEntry
<1>4. NextPair \in PairRecord
  BY <1>1, <1>2, <1>3 DEF PairRecord
<1>5. \/ /\ NextPair.src = s /\ NextPair.dst = None /\ s # None
         /\ d = None \/ s.path < d.path
      \/ /\ NextPair.dst = d /\ NextPair.src = None /\ d # None
         /\ s = None \/ d.path < s.path
      \/ /\ NextPair.src = s /\ NextPair.dst = d /\ s # None /\ d # None
         /\ s.path = d.path
  BY <1>1, <1>2
<1> QED
  BY <1>4, <1>5 DEF s, d

\* Collecting a pair moves on, on the sides the pair is from, by one.
LEMMA AdvanceIs ==
    ASSUME RunTypes, NEW pair, NEW a, a = Advance(pair)
    PROVE  /\ a \in [src : Nat \ {0}, dst : Nat \ {0}]
           /\ a.src = (IF pair.src = None THEN at.src ELSE at.src + 1)
           /\ a.dst = (IF pair.dst = None THEN at.dst ELSE at.dst + 1)
           /\ a["src"] = a.src /\ a["dst"] = a.dst /\ at["src"] = at.src /\ at["dst"] = at.dst
<1>1. at \in [src : Nat \ {0}, dst : Nat \ {0}]
  BY DEF RunTypes
<1>2. at.src \in Nat \ {0} /\ at.dst \in Nat \ {0}
  BY <1>1
<1>3. /\ a \in [src : Nat \ {0}, dst : Nat \ {0}]
      /\ a.src = (IF pair.src = None THEN at.src ELSE at.src + 1)
      /\ a.dst = (IF pair.dst = None THEN at.dst ELSE at.dst + 1)
  BY <1>2 DEF Advance
<1> QED
  BY <1>1, <1>3

\* The batch is a stretch of the pairs that starts at the next item.
LEMMA BatchIs ==
    ASSUME RunTypes
    PROVE  /\ Batch \in Seq(PairRecord)
           /\ \A k \in DOMAIN Batch : /\ next + k - 1 \in DOMAIN pairs
                                      /\ Batch[k] = pairs[next + k - 1]
                                      /\ ~ (Batch[k].src = None /\ Batch[k].dst = None)
           /\ next <= Len(pairs) => Len(Batch) > 0
<1>1. /\ pairs \in Seq(PairRecord) /\ next \in Nat \ {0} /\ Concurrency \in Nat \ {0}
      /\ \A k \in DOMAIN pairs : ~ (pairs[k].src = None /\ pairs[k].dst = None)
  BY ConcurrencyAssumption DEF RunTypes
<1>2. BatchEnd \in Int /\ BatchEnd <= Len(pairs) /\ (next <= Len(pairs) => next <= BatchEnd)
      /\ Batch = SubSeq(pairs, next, BatchEnd) /\ Len(pairs) \in Nat
  BY <1>1 DEF Batch, BatchEnd
<1> HIDE DEF BatchEnd, Batch
<1>3. CASE next <= BatchEnd
  <2>1. Batch \in Seq(PairRecord) /\ Len(Batch) = BatchEnd - next + 1
        /\ \A k \in 1 .. Len(Batch) : Batch[k] = pairs[next + k - 1]
    BY <1>1, <1>2, <1>3
  <2> QED
    BY <1>1, <1>2, <1>3, <2>1
<1>4. CASE ~ next <= BatchEnd
  <2>1. Batch = <<>>
    BY <1>1, <1>2, <1>4
  <2> QED
    BY <1>1, <1>2, <1>4, <2>1
<1> QED
  BY <1>3, <1>4
-----------------------------------------------------------------------------
(* Preparation and planning.                                               *)

\* An entry after its preparation is the entry of the scan, but for its digest.
SameEntry(e, o) ==
    /\ e = None <=> o = None
    /\ e # None => e.path = o.path /\ e.id = o.id /\ e.data = o.data

HonestEntry(e) == e # None => TrueSha(e)

\* Hashing a file for the comparison changes its digest only, and truly.
LEMMA HashedIs ==
    ASSUME NEW e \in EntryRecord, NEW z, z = Hashed(e) \/ z = Reread(e)
    PROVE  /\ z \in EntryRecord /\ z.path = e.path /\ z.id = e.id /\ z.data = e.data
           /\ HonestEntry(e) => HonestEntry(z)
<1>1. e.data \in Data /\ e # None
  BY RecordAssumption DEF EntryRecord
<1>2. Verified(e.data) \in Sha /\ Verified(e.data).value = e.data
  BY <1>1, VerifiedIs
<1> DEFINE w == [e EXCEPT !.sha = Verified(e.data)]
<1>3. /\ w \in EntryRecord /\ w.path = e.path /\ w.id = e.id /\ w.data = e.data
      /\ w.sha = Verified(e.data)
  BY <1>2 DEF EntryRecord
<1>4. z = e \/ z = w
  BY DEF Hashed, Reread
<1> HIDE DEF w
<1>5. TrueSha(w)
  BY <1>2, <1>3 DEF TrueSha
<1>6. z \in EntryRecord /\ z.path = e.path /\ z.id = e.id /\ z.data = e.data
  BY <1>3, <1>4
<1>7. HonestEntry(e) => HonestEntry(z)
  BY <1>1, <1>4, <1>5 DEF HonestEntry
<1> QED
  BY <1>6, <1>7

\* A prepared pair is the same two entries, with digests that are as honest.
LEMMA PreparedIs ==
    ASSUME NEW s \in MaybeEntry, NEW d \in MaybeEntry, ~ (s = None /\ d = None),
           NEW o, NEW u, NEW readable, NEW z, z = PreparePairForCompare(s, d, o, u, readable)
    PROVE  /\ z \in ReadyRecord /\ SameEntry(z.src, s) /\ SameEntry(z.dst, d)
           /\ HonestEntry(s) => HonestEntry(z.src)
           /\ HonestEntry(d) => HonestEntry(z.dst)
<1>1. CASE z \in {Ready(s, d), Skipped(s, d), Broken(s, d)}
  <2>1. z.src = s /\ z.dst = d /\ z \in ReadyRecord
    BY <1>1 DEF Ready, Skipped, Broken, ReadyRecord
  <2> QED
    BY <2>1 DEF SameEntry
<1>2. CASE /\ NeedsPreparation(s, d)
           /\ z = Verification(Hashed(s), Hashed(d), o, readable)
  <2>1. s \in EntryRecord /\ d \in EntryRecord /\ None \notin EntryRecord
    BY <1>2, RecordAssumption DEF NeedsPreparation, MaybeEntry
  <2>2. PICK hs, hd : hs = Hashed(s) /\ hd = Hashed(d)
    OBVIOUS
  <2>3. /\ hs \in EntryRecord /\ hs.path = s.path /\ hs.id = s.id /\ hs.data = s.data
        /\ hd \in EntryRecord /\ hd.path = d.path /\ hd.id = d.id /\ hd.data = d.data
        /\ HonestEntry(s) => HonestEntry(hs)
        /\ HonestEntry(d) => HonestEntry(hd)
    BY <2>1, <2>2, HashedIs
  <2>4. PICK rs, rd : rs = Reread(hs) /\ rd = Reread(hd)
    OBVIOUS
  <2>5. /\ rs \in EntryRecord /\ rs.path = hs.path /\ rs.id = hs.id /\ rs.data = hs.data
        /\ rd \in EntryRecord /\ rd.path = hd.path /\ rd.id = hd.id /\ rd.data = hd.data
        /\ HonestEntry(hs) => HonestEntry(rs)
        /\ HonestEntry(hd) => HonestEntry(rd)
    BY <2>3, <2>4, HashedIs
  <2>6. z \in {Ready(rs, rd), Skipped(hs, hd), Ready(hs, hd)}
    BY <1>2, <2>2, <2>4 DEF Verification
  <2>7. \/ z.src = rs /\ z.dst = rd /\ z \in ReadyRecord
        \/ z.src = hs /\ z.dst = hd /\ z \in ReadyRecord
    BY <2>3, <2>5, <2>6 DEF Ready, Skipped, ReadyRecord, MaybeEntry
  <2> QED
    BY <2>1, <2>3, <2>5, <2>7 DEF SameEntry
<1> QED
  BY <1>1, <1>2 DEF PreparePairForCompare

\* What a pair calls for can be done with it.
LEMMA KindIs ==
    ASSUME RunTypes, NEW s \in MaybeEntry, NEW d \in MaybeEntry, ~ (s = None /\ d = None),
           NEW pair \in ReadyRecord, pair.src = s, pair.dst = d, NEW kind, kind = ActionFor(pair)
    PROVE  /\ kind \in KindSet \ {"none"}
           /\ kind \in Transfers => s # None /\ kind = Transfer(opt)
           /\ kind \in Removals => d # None /\ s = None /\ ~ scanError /\ ~ incomplete
           /\ kind = "same" => s # None /\ d # None /\ ~ FilesAreDifferent(s, d, opt)
<1>1. opt \in RunOptions
  BY DEF RunTypes, opt, PlanRecord
<1>2. opt.direction \in Directions
  BY <1>1 DEF RunOptions
<1>3. Transfer(opt) \in Transfers
  BY <1>2 DEF Transfer, Transfers, Directions
<1>4. s # None /\ d = None => kind = Transfer(opt)
  BY DEF ActionFor, GenerateActions
<1>5. s # None /\ d # None =>
         kind = IF FilesAreDifferent(s, d, opt) THEN Transfer(opt) ELSE "same"
  BY DEF ActionFor, GenerateActions
<1>6. s = None => kind = "kept" \/ (kind \in Removals /\ ~ scanError /\ ~ incomplete)
  BY DEF ActionFor, GenerateActions, ActionsForDestOnly, RemoveOrphan, Removals
<1>7. /\ Transfers \cap Removals = {} /\ "kept" \notin Transfers \cup Removals
      /\ "same" \notin Transfers \cup Removals /\ {"kept", "same"} = Skips
  BY DEF Transfers, Removals, Skips
<1>8. "none" \notin Transfers \cup Removals \cup Skips /\ "kept" # "same"
  BY DEF Transfers, Removals, Skips
<1>9. CASE s = None
  BY <1>6, <1>7, <1>8, <1>9 DEF KindSet
<1>10. CASE s # None /\ d = None
  BY <1>3, <1>4, <1>7, <1>8, <1>10 DEF KindSet
<1>11. CASE s # None /\ d # None
  BY <1>3, <1>5, <1>7, <1>8, <1>11 DEF KindSet
<1> QED
  BY <1>9, <1>10, <1>11

\* A scheduled job carries out the kind that was planned, on the pair it was planned for.
LEMMA ScheduledIs ==
    ASSUME RunTypes, NEW pair \in ReadyRecord, ~ (pair.src = None /\ pair.dst = None),
           NEW kind, kind = ActionFor(pair), NEW j, j = Scheduled(pair, kind)
    PROVE  /\ j \in JobRecord /\ Meant(j) /\ j.kind = kind /\ j.src = pair.src /\ j.dst = pair.dst
           /\ j.at = IF kind \in Skips \/ opt.dryRun THEN "done" ELSE "start"
<1>1. pair.src \in MaybeEntry /\ pair.dst \in MaybeEntry
  BY DEF ReadyRecord
<1>2. /\ kind \in KindSet \ {"none"}
      /\ kind \in Transfers => pair.src # None
      /\ kind \in Removals => pair.dst # None
      /\ kind = "same" => pair.src # None /\ pair.dst # None
  BY <1>1, KindIs
<1>3. /\ j = [kind |-> kind, at |-> IF kind \in Skips \/ opt.dryRun THEN "done" ELSE "start",
              src |-> pair.src, dst |-> pair.dst, held |-> None, moved |-> None]
  BY DEF Scheduled, NoJob
<1>4. /\ j.kind = kind /\ j.src = pair.src /\ j.dst = pair.dst /\ j.held = None /\ j.moved = None
      /\ j.at = IF kind \in Skips \/ opt.dryRun THEN "done" ELSE "start"
  BY <1>3
<1>5. j \in JobRecord
  BY <1>1, <1>2, <1>3 DEF JobRecord, Standing, Steps, HeldRecord
<1>6. j.at = "done" \/ (j.at = "start" /\ kind \in Transfers \cup Removals)
  BY <1>2, <1>4 DEF KindSet
<1>7. Meant(j)
  BY <1>2, <1>4, <1>6 DEF Meant, Steps, Fetched, Replacing
<1> QED
  BY <1>4, <1>5, <1>7
-----------------------------------------------------------------------------
(* The types of a run, step by step.                                       *)

\* A pair with a side has a path.
LEMMA PathOfIs ==
    ASSUME NEW pair, pair.src \in MaybeEntry, pair.dst \in MaybeEntry,
           ~ (pair.src = None /\ pair.dst = None)
    PROVE  PathOf(pair) \in Path
BY RecordAssumption DEF PathOf, MaybeEntry, EntryRecord

\* Every pair, and every prepared pair, has a path.
LEMMA PairsHavePaths ==
    ASSUME RunTypes
    PROVE  /\ \A k \in DOMAIN pairs : PathOf(pairs[k]) \in Path
           /\ \A k \in DOMAIN ready : PathOf(ready[k]) \in Path
<1>1. ASSUME NEW k \in DOMAIN pairs PROVE PathOf(pairs[k]) \in Path
  <2>1. PICK pair : pair = pairs[k]
    OBVIOUS
  <2>2. pair \in PairRecord /\ ~ (pair.src = None /\ pair.dst = None)
    BY <2>1 DEF RunTypes
  <2>3. PathOf(pair) \in Path
    BY <2>2, PathOfIs DEF PairRecord
  <2> QED
    BY <2>1, <2>3
<1>2. ASSUME NEW k \in DOMAIN ready PROVE PathOf(ready[k]) \in Path
  <2>1. PICK pair : pair = ready[k]
    OBVIOUS
  <2>2. pair \in ReadyRecord /\ ~ (pair.src = None /\ pair.dst = None)
    BY <2>1 DEF RunTypes
  <2>3. PathOf(pair) \in Path
    BY <2>2, PathOfIs DEF ReadyRecord
  <2> QED
    BY <2>1, <2>3
<1> QED
  BY <1>1, <1>2

\* The steps that touch neither the entries nor the actions.
LEMMA QuietTypes ==
    ASSUME SyncTypes, StoreTypes',
           ScanThrows \/ PairsCollected \/ YieldCompare \/ Finish \/ Report \/ EndUnfinished
             \/ AbortRun \/ CloseIterator \/ UNCHANGED vars
    PROVE  RunTypes' /\ JobTypes' /\ PlanStays /\ plan'.edits = plan.edits
<1> USE DEF SyncTypes
<1>0. plan \in PlanRecord /\ plan.edits \in Nat /\ plan.runs # <<>>
  BY DEF RunTypes, PlanRecord
<1>1. plan' = plan \/ Spend("faults") \/ Spend("aborts")
  BY DEF ScanThrows, PairsCollected, YieldCompare, Finish, Report, EndUnfinished, AbortRun,
         CloseIterator, vars
<1>2. plan' \in PlanRecord /\ plan'.runs = plan.runs /\ PlanStays /\ plan'.edits = plan.edits
  <2>1. "faults" \in Budget /\ "aborts" \in Budget /\ "faults" # "edits" /\ "aborts" # "edits"
    BY DEF Budget
  <2> QED
    BY <1>0, <1>1, <2>1, SpendSpends DEF PlanStays
<1>3. /\ UNCHANGED <<begun, scanned, found, had, incomplete, at, pairs, next, ready, failed>>
      /\ UNCHANGED <<job, late>> /\ scanError' \in BOOLEAN /\ phase' \in SyncPhases
      /\ stop' \in BOOLEAN /\ signal' \in BOOLEAN
  <2> USE DEF RunTypes, scanVars, pairVars, runVars, SyncPhases
  <2>1. CASE ScanThrows
    BY <2>1 DEF ScanThrows
  <2>2. CASE PairsCollected
    BY <2>2 DEF PairsCollected
  <2>3. CASE YieldCompare \/ Finish \/ Report \/ EndUnfinished
    BY <2>3 DEF YieldCompare, Finish, Report, EndUnfinished
  <2>4. CASE AbortRun \/ CloseIterator \/ UNCHANGED vars
    BY <2>4 DEF AbortRun, CloseIterator, vars
  <2> QED
    BY <2>1, <2>2, <2>3, <2>4
<1>4. /\ queued' \in {queued, {}} /\ yielded' \in {yielded, yielded \cup queued}
      /\ aggregate' \in {aggregate, TRUE, failed # {}} /\ completed' \in {completed, TRUE}
  BY DEF ScanThrows, PairsCollected, YieldCompare, Finish, Report, EndUnfinished, AbortRun,
         CloseIterator, vars, runVars, Flush, NothingQueued
<1>5. JobTypes'
  BY <1>3 DEF JobTypes
<1>6. RunTypes'
  BY <1>0, <1>2, <1>3, <1>4 DEF RunTypes, begun
<1> QED
  BY <1>2, <1>5, <1>6

\* The two scans keep the types of the run and of the jobs.
LEMMA ScanTypes ==
    ASSUME SyncTypes, StoresInv, ScanSource \/ ScanDest
    PROVE  RunTypes' /\ JobTypes' /\ PlanStays /\ plan'.edits = plan.edits
<1> USE DEF SyncTypes
<1>1. PICK side, E, local :
         /\ Scan(side, E, local) /\ side \in {"src", "dst"} /\ E \in SUBSET EntryRecord
         /\ \A a, b \in E : a.path = b.path => a = b
  <2>1. CASE ScanSource
    <3>1. PICK E, local : E = SourceEntries \ Passed /\ local = SourceIsLocal
      OBVIOUS
    <3>2. Scan("src", E, local)
      BY <2>1, <3>1 DEF ScanSource, Scan
    <3> QED
      BY <3>1, <3>2, SideEntriesAre
  <2>2. CASE ScanDest
    <3>1. PICK E, local : E = DestEntries /\ local = DestIsLocal
      OBVIOUS
    <3>2. Scan("dst", E, local)
      BY <2>2, <3>1 DEF ScanDest, Scan
    <3> QED
      BY <3>1, <3>2, SideEntriesAre
  <2> QED
    BY <2>1, <2>2
<1>2. /\ found' \in [{"src", "dst"} -> Seq(EntryRecord)] /\ PlanStays
      /\ plan'.edits = plan.edits /\ scanned' \subseteq {"src", "dst"} /\ scanError' \in BOOLEAN
  BY <1>1, ScanTurn
<1>3. /\ UNCHANGED <<begun, stop, signal, pairVars, runVars, job, late>> /\ phase' \in SyncPhases
      /\ incomplete' \in BOOLEAN
  BY DEF ScanSource, ScanDest, SyncPhases, RunTypes
<1>4. had' \subseteq Path
  <2>1. CASE had' = had
    BY <2>1 DEF RunTypes
  <2>2. CASE had' = SourceHolds
    BY <2>2, SideEntriesAre DEF SourceHolds, EntryRecord
  <2> QED
    BY <2>1, <2>2 DEF ScanSource, ScanDest
<1>5. JobTypes'
  BY <1>3 DEF JobTypes
<1>6. RunTypes'
  BY <1>2, <1>3, <1>4 DEF RunTypes, begun, pairVars, runVars, PlanStays
<1> QED
  BY <1>2, <1>5, <1>6

\* CollectPair appends the next pair of the merge.
LEMMA CollectTypes ==
    ASSUME SyncTypes, CollectPair
    PROVE  /\ RunTypes' /\ JobTypes' /\ NextPair \in PairRecord
           /\ pairs' = Append(pairs, NextPair) /\ Len(pairs') = Len(pairs) + 1
           /\ pairs'[Len(pairs) + 1] = NextPair /\ Len(pairs) \in Nat
           /\ \A k \in DOMAIN pairs : k \in DOMAIN pairs' /\ pairs'[k] = pairs[k]
<1> USE DEF SyncTypes
<1>1. /\ NextPair \in PairRecord /\ ~ (NextPair.src = None /\ NextPair.dst = None)
  BY NextPairIs DEF CollectPair
<1>2. PICK n : n = NextPair
  OBVIOUS
<1>3. /\ pairs' = Append(pairs, n) /\ at' = Advance(n) /\ ~ Exhausted
      /\ UNCHANGED <<plan, phase, stop, signal, begun, scanVars, runVars, job, late>>
  BY <1>2 DEF CollectPair
<1>4. pairs \in Seq(PairRecord)
  BY DEF RunTypes
<1>5. /\ pairs' \in Seq(PairRecord) /\ Len(pairs') = Len(pairs) + 1 /\ Len(pairs) \in Nat
      /\ pairs'[Len(pairs) + 1] = n
      /\ \A k \in DOMAIN pairs : k \in DOMAIN pairs' /\ pairs'[k] = pairs[k]
  BY <1>1, <1>2, <1>3, <1>4
<1>6. \A k \in DOMAIN pairs' : k \in DOMAIN pairs \/ k = Len(pairs) + 1
  BY <1>4, <1>5
<1>7. \A k \in DOMAIN pairs' : ~ (pairs'[k].src = None /\ pairs'[k].dst = None)
  BY <1>1, <1>2, <1>5, <1>6 DEF RunTypes
<1>8. at' \in [src : Nat \ {0}, dst : Nat \ {0}]
  BY <1>3, AdvanceIs
<1>9. JobTypes'
  BY <1>3 DEF JobTypes
<1>10. RunTypes'
  BY <1>3, <1>5, <1>7, <1>8 DEF RunTypes, begun, scanVars, runVars
<1> QED
  BY <1>1, <1>2, <1>3, <1>5, <1>9, <1>10

\* A batch is ready at once, or prepared pair by pair.
LEMMA StartBatchTypes ==
    ASSUME SyncTypes, StartBatch
    PROVE  /\ RunTypes' /\ JobTypes'
           /\ \A k \in DOMAIN ready' :
                 /\ next + k - 1 \in DOMAIN pairs
                 /\ ready'[k].src = pairs[next + k - 1].src
                 /\ ready'[k].dst = pairs[next + k - 1].dst
                 /\ ready'[k].result = "ready"
           /\ phase' = "emit" => ready' # <<>>
<1> USE DEF SyncTypes
<1>1. /\ Batch \in Seq(PairRecord) /\ Len(Batch) > 0
      /\ \A k \in DOMAIN Batch : /\ next + k - 1 \in DOMAIN pairs
                                 /\ Batch[k] = pairs[next + k - 1]
                                 /\ ~ (Batch[k].src = None /\ Batch[k].dst = None)
  BY BatchIs DEF StartBatch
<1>2. /\ UNCHANGED <<plan, stop, signal, begun, scanVars, pairVars, next, failed, aggregate,
                     completed, job, late>>
      /\ phase' \in {"emit", "prepare"}
      /\ queued' \in {queued, {}} /\ yielded' \in {yielded, yielded \cup queued}
  BY DEF StartBatch, Flush, NothingQueued
<1>3. PICK B : B = Batch
  OBVIOUS
<1>4. \/ ready' = [k \in DOMAIN B |-> Ready(B[k].src, B[k].dst)]
      \/ ready' = <<>> /\ phase' = "prepare"
  BY <1>3 DEF StartBatch
<1>5. CASE ready' = [k \in DOMAIN B |-> Ready(B[k].src, B[k].dst)]
  <2>1. ASSUME NEW k \in DOMAIN B
        PROVE  /\ Ready(B[k].src, B[k].dst) \in ReadyRecord
               /\ Ready(B[k].src, B[k].dst).src = B[k].src
               /\ Ready(B[k].src, B[k].dst).dst = B[k].dst
               /\ Ready(B[k].src, B[k].dst).result = "ready"
    <3>1. B[k] \in PairRecord
      BY <1>1, <1>3
    <3> QED
      BY <3>1 DEF Ready, ReadyRecord, PairRecord
  <2>2. DOMAIN B = 1 .. Len(B) /\ Len(B) \in Nat /\ Len(B) > 0
    BY <1>1, <1>3
  <2>3. ready' \in Seq(ReadyRecord) /\ DOMAIN ready' = DOMAIN B /\ ready' # <<>>
    BY <1>5, <2>1, <2>2
  <2>4. \A k \in DOMAIN ready' : /\ ready'[k].src = B[k].src /\ ready'[k].dst = B[k].dst
                                 /\ ready'[k].result = "ready"
    BY <1>5, <2>1, <2>3
  <2>5. \A k \in DOMAIN ready' : ~ (ready'[k].src = None /\ ready'[k].dst = None)
    BY <1>1, <1>3, <2>3, <2>4
  <2>6. RunTypes'
    BY <1>2, <2>3, <2>5 DEF RunTypes, begun, scanVars, pairVars, SyncPhases
  <2> QED
    BY <1>1, <1>2, <1>3, <2>3, <2>4, <2>6 DEF JobTypes
<1>6. CASE ready' = <<>> /\ phase' = "prepare"
  <2>1. ready' \in Seq(ReadyRecord) /\ DOMAIN ready' = {}
    BY <1>6
  <2>2. RunTypes'
    BY <1>2, <2>1 DEF RunTypes, begun, scanVars, pairVars, SyncPhases
  <2> QED
    BY <1>2, <1>6, <2>1, <2>2 DEF JobTypes
<1> QED
  BY <1>4, <1>5, <1>6

\* PreparePair appends the prepared form of the pair it has come to.
LEMMA PrepareTypes ==
    ASSUME SyncTypes, PreparePair
    PROVE  /\ RunTypes' /\ JobTypes' /\ PlanStays /\ plan'.edits = plan.edits
           /\ Len(ready) \in Nat /\ next + Len(ready) \in DOMAIN pairs
           /\ \E z : /\ ready' = Append(ready, z) /\ z \in ReadyRecord
                     /\ SameEntry(z.src, pairs[next + Len(ready)].src)
                     /\ SameEntry(z.dst, pairs[next + Len(ready)].dst)
                     /\ HonestEntry(pairs[next + Len(ready)].src) => HonestEntry(z.src)
                     /\ HonestEntry(pairs[next + Len(ready)].dst) => HonestEntry(z.dst)
<1> USE DEF SyncTypes
<1>1. /\ plan \in PlanRecord /\ plan.edits \in Nat /\ plan.runs # <<>>
      /\ ready \in Seq(ReadyRecord) /\ next \in Nat \ {0} /\ pairs \in Seq(PairRecord)
  BY DEF RunTypes, PlanRecord
<1>2. /\ Batch \in Seq(PairRecord)
      /\ \A k \in DOMAIN Batch : /\ next + k - 1 \in DOMAIN pairs
                                 /\ Batch[k] = pairs[next + k - 1]
                                 /\ ~ (Batch[k].src = None /\ Batch[k].dst = None)
  BY BatchIs
<1>3. Len(ready) \in Nat /\ Len(ready) + 1 \in DOMAIN Batch
  BY <1>1, <1>2 DEF PreparePair
<1>4. PICK pair : pair = Batch[Len(ready) + 1]
  OBVIOUS
<1>5. next + (Len(ready) + 1) - 1 = next + Len(ready)
  BY <1>1, <1>3
<1>6. /\ pair \in PairRecord /\ ~ (pair.src = None /\ pair.dst = None)
      /\ next + Len(ready) \in DOMAIN pairs /\ pair = pairs[next + Len(ready)]
  BY <1>2, <1>3, <1>4, <1>5
<1>7. PICK u, readable, z :
         /\ z = PreparePairForCompare(pair.src, pair.dst, opt, u, readable)
         /\ ready' = Append(ready, z) /\ (plan' = plan \/ Spend("faults"))
  BY <1>4 DEF PreparePair
<1>8. /\ z \in ReadyRecord /\ SameEntry(z.src, pair.src) /\ SameEntry(z.dst, pair.dst)
      /\ HonestEntry(pair.src) => HonestEntry(z.src)
      /\ HonestEntry(pair.dst) => HonestEntry(z.dst)
  <2>1. pair.src \in MaybeEntry /\ pair.dst \in MaybeEntry
    BY <1>6 DEF PairRecord
  <2> QED
    BY <1>6, <1>7, <2>1, PreparedIs
<1>9. ~ (z.src = None /\ z.dst = None)
  BY <1>6, <1>8 DEF SameEntry
<1>10. plan' \in PlanRecord /\ plan'.runs = plan.runs /\ PlanStays /\ plan'.edits = plan.edits
  <2>1. "faults" \in Budget /\ "faults" # "edits"
    BY DEF Budget
  <2> QED
    BY <1>1, <1>7, <2>1, SpendSpends DEF PlanStays
<1>11. /\ ready' \in Seq(ReadyRecord)
       /\ \A k \in DOMAIN ready' : (k \in DOMAIN ready /\ ready'[k] = ready[k]) \/ ready'[k] = z
  BY <1>1, <1>7, <1>8
<1>12. \A k \in DOMAIN ready' : ~ (ready'[k].src = None /\ ready'[k].dst = None)
  BY <1>9, <1>11 DEF RunTypes
<1>13. UNCHANGED <<phase, stop, signal, begun, scanVars, pairVars, next, queued, yielded, failed,
                   aggregate, completed, job, late>>
  BY DEF PreparePair
<1>14. RunTypes'
  BY <1>1, <1>10, <1>11, <1>12, <1>13 DEF RunTypes, begun, scanVars, pairVars
<1> QED
  BY <1>3, <1>6, <1>7, <1>8, <1>10, <1>13, <1>14 DEF JobTypes

\* PlanBatch keeps the types.
LEMMA PlanBatchTypes ==
    ASSUME SyncTypes, PlanBatch
    PROVE  RunTypes' /\ JobTypes'
<1> USE DEF SyncTypes
<1>1. \A results : PathsWith(results) \subseteq Path
  BY PairsHavePaths DEF PathsWith
<1>2. UNCHANGED <<plan, stop, signal, begun, scanVars, pairVars, next, ready, yielded, aggregate,
                  completed, job, late>> /\ phase' \in {"abort", "emit"}
  BY DEF PlanBatch
<1>3. queued' \subseteq Path /\ failed' \subseteq Path
  BY <1>1 DEF PlanBatch, RunTypes
<1> QED
  BY <1>2, <1>3 DEF RunTypes, JobTypes, begun, scanVars, pairVars, SyncPhases

\* NextItem drops the first prepared pair and moves on by one.
LEMMA NextItemTypes ==
    ASSUME SyncTypes, NextItem, ready # <<>>
    PROVE  /\ RunTypes' /\ JobTypes' /\ next' = next + 1 /\ Len(ready') = Len(ready) - 1
           /\ \A k \in DOMAIN ready' : k + 1 \in DOMAIN ready /\ ready'[k] = ready[k + 1]
<1> USE DEF SyncTypes
<1>1. ready \in Seq(ReadyRecord) /\ ready' = Tail(ready) /\ next' = next + 1
  BY DEF RunTypes, NextItem
<1>2. /\ ready' \in Seq(ReadyRecord) /\ Len(ready') = Len(ready) - 1
      /\ \A k \in DOMAIN ready' : k + 1 \in DOMAIN ready /\ ready'[k] = ready[k + 1]
  BY <1>1
<1>3. \A k \in DOMAIN ready' : ~ (ready'[k].src = None /\ ready'[k].dst = None)
  BY <1>2 DEF RunTypes
<1>4. /\ UNCHANGED <<plan, stop, signal, begun, scanVars, pairVars, failed, aggregate, completed,
                     job, late>>
      /\ phase' \in {"batch", "emit"} /\ queued' = {} /\ yielded' = yielded \cup queued
  BY DEF NextItem, Flush
<1>5. next' \in Nat \ {0}
  BY <1>1 DEF RunTypes
<1>6. RunTypes'
  BY <1>2, <1>3, <1>4, <1>5 DEF RunTypes, begun, scanVars, pairVars, SyncPhases
<1> QED
  BY <1>1, <1>2, <1>4, <1>6 DEF JobTypes
\* What is ready are the next pairs, and one is while an event is due.
ReadyPairs ==
    \A k \in DOMAIN ready :
        /\ next + k - 1 \in DOMAIN pairs
        /\ SameEntry(ready[k].src, pairs[next + k - 1].src)
        /\ SameEntry(ready[k].dst, pairs[next + k - 1].dst)

Batching == {"prepare", "emit", "yielded", "slots"}

BatchInv ==
    /\ phase = "prepare" => next <= Len(pairs)
    /\ phase \in Batching \ {"prepare"} => ready # <<>>
    /\ phase \in Batching => ReadyPairs
    /\ phase \in {"idle", "scan", "pair"} => next = 1

\* The first prepared pair is the next pair of the merge.
LEMMA FirstReadyIs ==
    ASSUME RunTypes, BatchInv, phase \in Batching \ {"prepare"}
    PROVE  /\ 1 \in DOMAIN ready /\ Head(ready) = ready[1] /\ ready[1] \in ReadyRecord
           /\ next \in DOMAIN pairs /\ PathOf(ready[1]) = PathOf(pairs[next])
           /\ PathOf(ready[1]) \in Path /\ ~ (ready[1].src = None /\ ready[1].dst = None)
<1>1. ready \in Seq(ReadyRecord) /\ next \in Nat \ {0} /\ ready # <<>> /\ ReadyPairs
  BY DEF RunTypes, BatchInv
<1>2. 1 \in DOMAIN ready /\ Head(ready) = ready[1] /\ ready[1] \in ReadyRecord
  BY <1>1
<1>3. next + 1 - 1 = next
  BY <1>1
<1>4. /\ next \in DOMAIN pairs /\ SameEntry(ready[1].src, pairs[next].src)
      /\ SameEntry(ready[1].dst, pairs[next].dst)
  BY <1>1, <1>2, <1>3 DEF ReadyPairs
<1>5. ~ (ready[1].src = None /\ ready[1].dst = None)
  BY <1>2 DEF RunTypes
<1>6. PathOf(ready[1]) = PathOf(pairs[next])
  BY <1>4, <1>5 DEF SameEntry, PathOf
<1>7. PathOf(ready[1]) \in Path
  BY <1>2, PairsHavePaths
<1> QED
  BY <1>2, <1>4, <1>5, <1>6, <1>7

\* The action of a pair starts, or nothing happens for a pair that is not ready.
ResumeTurn(p, pair, kind) ==
    /\ p \in Path /\ pair = ready[1] /\ p = PathOf(pair) /\ kind = ActionFor(pair)
    /\ IF ~ signal /\ pair.result = "ready"
       THEN /\ job'[p] = Scheduled(pair, kind)
            /\ \A q \in Path : q # p => job'[q] = job[q]
            /\ queued' = IF kind \in Skips \/ opt.dryRun THEN {p} ELSE {}
       ELSE job' = job /\ queued' = {}

\* Resume keeps the types, and is a turn for the path of the first prepared pair.
LEMMA ResumeTypes ==
    ASSUME SyncTypes, BatchInv, Resume
    PROVE  /\ RunTypes' /\ JobTypes'
           /\ \E p, pair, kind : ResumeTurn(p, pair, kind)
<1> USE DEF SyncTypes
<1>1. phase = "yielded" /\ phase \in Batching \ {"prepare"}
  BY DEF Resume, Batching
<1>2. /\ Head(ready) = ready[1] /\ ready[1] \in ReadyRecord /\ PathOf(ready[1]) \in Path
      /\ ~ (ready[1].src = None /\ ready[1].dst = None)
  BY <1>1, FirstReadyIs
<1>3. PICK pair : pair = Head(ready)
  OBVIOUS
<1>4. PICK kind, p : kind = ActionFor(pair) /\ p = PathOf(pair)
  OBVIOUS
<1>5. p \in Path /\ pair \in ReadyRecord /\ ~ (pair.src = None /\ pair.dst = None)
  BY <1>2, <1>3, <1>4
<1>6. PICK j : j = Scheduled(pair, kind)
  OBVIOUS
<1>7. j \in JobRecord /\ Meant(j)
  BY <1>4, <1>5, <1>6, ScheduledIs
<1>8. job \in [Path -> JobRecord] /\ \A q \in Path : Meant(job[q])
  BY DEF JobTypes
<1>9. /\ yielded' = yielded \cup queued /\ phase' \in {"abort", "slots"}
      /\ UNCHANGED <<storeVars, plan, stop, signal, begun, scanVars, pairVars, next, ready, failed,
                     aggregate, completed, late>>
  BY DEF Resume
<1>10. CASE ~ signal /\ pair.result = "ready"
  <2>1. /\ job' = [job EXCEPT ![p] = j]
        /\ queued' = IF kind \in Skips \/ opt.dryRun THEN {p} ELSE {}
    BY <1>3, <1>4, <1>6, <1>10 DEF Resume
  <2>2. job' \in [Path -> JobRecord] /\ job'[p] = j /\ \A q \in Path : q # p => job'[q] = job[q]
    BY <1>5, <1>7, <1>8, <2>1
  <2>3. JobTypes'
    BY <1>7, <1>8, <1>9, <2>2 DEF JobTypes
  <2>4. queued' \subseteq Path
    BY <1>5, <2>1
  <2>5. RunTypes'
    BY <1>9, <2>4 DEF RunTypes, begun, scanVars, pairVars, SyncPhases
  <2>6. ResumeTurn(p, pair, kind)
    BY <1>2, <1>3, <1>4, <1>5, <1>6, <1>10, <2>1, <2>2 DEF ResumeTurn
  <2> QED
    BY <2>3, <2>5, <2>6
<1>11. CASE ~ (~ signal /\ pair.result = "ready")
  <2>1. job' = job /\ queued' = {}
    BY <1>3, <1>4, <1>11 DEF Resume
  <2>2. JobTypes'
    BY <1>9, <2>1 DEF JobTypes
  <2>3. RunTypes'
    BY <1>9, <2>1 DEF RunTypes, begun, scanVars, pairVars, SyncPhases
  <2>4. ResumeTurn(p, pair, kind)
    BY <1>2, <1>3, <1>4, <1>5, <1>11, <2>1 DEF ResumeTurn
  <2> QED
    BY <2>2, <2>3, <2>4
<1> QED
  BY <1>10, <1>11

\* A path with no job has an empty job.
LEMMA NoJobIs ==
    /\ NoJob \in JobRecord /\ Meant(NoJob) /\ NoJob.at = "off" /\ NoJob.kind = "none"
    /\ NoJob.src = None /\ NoJob.dst = None /\ NoJob.moved = None
<1>1. NoJob = [kind |-> "none", at |-> "off", src |-> None, dst |-> None,
               held |-> None, moved |-> None]
  BY DEF NoJob
<1>2. NoJob.kind = "none" /\ NoJob.at = "off"
  BY <1>1
<1>3. NoJob \in JobRecord
  BY <1>1 DEF JobRecord, KindSet, Standing, MaybeEntry, HeldRecord
<1>4. Meant(NoJob)
  BY <1>2 DEF Meant, Transfers, Removals, Steps, Fetched, Replacing
<1> QED
  BY <1>1, <1>3, <1>4

\* At the start of a run nothing has been found.
LEMMA NothingFound ==
    ASSUME NEW f, f = [src |-> <<>>, dst |-> <<>>]
    PROVE  f \in [{"src", "dst"} -> Seq(EntryRecord)] /\ f["src"] = <<>> /\ f["dst"] = <<>>
<1>1. DOMAIN f = {"src", "dst"}
  OBVIOUS
<1>2. f = [x \in {"src", "dst"} |-> f[x]]
  BY <1>1
<1>3. f["src"] = <<>> /\ f["dst"] = <<>> /\ <<>> \in Seq(EntryRecord)
  OBVIOUS
<1>4. \A x \in {"src", "dst"} : f[x] \in Seq(EntryRecord)
  BY <1>3
<1> QED
  BY <1>2, <1>3, <1>4

\* StartRun keeps the types, and takes the next run of the plan or none.
LEMMA StartRunTypes ==
    ASSUME SyncTypes, StartRun
    PROVE  /\ RunTypes' /\ JobTypes' /\ plan' \in PlanRecord /\ plan'.quiet = plan.quiet
           /\ plan'.skips = plan.skips /\ plan'.edits = plan.edits
           /\ plan'.runs = plan.runs \/ plan'.runs = Tail(plan.runs)
<1> USE DEF SyncTypes
<1>1. /\ plan \in PlanRecord /\ plan.runs # <<>> /\ plan.runs \in Seq(RunOptions)
      /\ clock \in Nat
  BY DEF StoreTypes, RunTypes, PlanRecord
<1>2. /\ plan' \in PlanRecord /\ plan'.runs # <<>> /\ plan'.quiet = plan.quiet
      /\ plan'.skips = plan.skips /\ plan'.edits = plan.edits
      /\ plan'.runs = plan.runs \/ plan'.runs = Tail(plan.runs)
  <2>1. CASE plan' = plan
    BY <1>1, <2>1
  <2>2. CASE Len(plan.runs) > 1 /\ plan' = [plan EXCEPT !.runs = Tail(@)]
    <3>1. Tail(plan.runs) \in Seq(RunOptions) /\ Tail(plan.runs) # <<>>
      BY <1>1, <2>2
    <3> QED
      BY <1>1, <2>2, <3>1 DEF PlanRecord
  <2> QED
    BY <2>1, <2>2 DEF StartRun
<1>3. JobTypes'
  <2>1. job' = [p \in Path |-> NoJob] /\ late' = late
    BY DEF StartRun
  <2> QED
    BY <2>1, NoJobIs DEF JobTypes
<1>4. /\ phase' = "scan" /\ stop' = FALSE /\ signal' = FALSE /\ now' \in Nat /\ clean' \in BOOLEAN
      /\ scanned' = {} /\ had' = {} /\ incomplete' = FALSE /\ scanError' = FALSE
      /\ next' = 1 /\ queued' = {} /\ yielded' = {} /\ failed' = {}
      /\ aggregate' = FALSE /\ completed' = FALSE
  BY <1>1 DEF StartRun
<1>5. /\ found' \in [{"src", "dst"} -> Seq(EntryRecord)]
      /\ at' \in [src : Nat \ {0}, dst : Nat \ {0}]
  <2>1. /\ found' = [src |-> <<>>, dst |-> <<>>] /\ <<>> \in Seq(EntryRecord)
        /\ at' = [src |-> 1, dst |-> 1] /\ 1 \in Nat \ {0}
    BY DEF StartRun
  <2>2. at' \in [src : Nat \ {0}, dst : Nat \ {0}]
    BY <2>1
  <2>3. found' \in [{"src", "dst"} -> Seq(EntryRecord)]
    BY <2>1, NothingFound
  <2> QED
    BY <2>2, <2>3
<1>6. /\ pairs' \in Seq(PairRecord) /\ DOMAIN pairs' = {}
      /\ ready' \in Seq(ReadyRecord) /\ DOMAIN ready' = {}
  BY DEF StartRun
<1>7. RunTypes'
  <2>1. phase' \in SyncPhases /\ 1 \in Nat \ {0}
    BY <1>4 DEF SyncPhases
  <2> QED
    BY <1>2, <1>4, <1>5, <1>6, <2>1 DEF RunTypes
<1> QED
  BY <1>2, <1>3, <1>7

\* A crash drops every job; the requests that were sent may still arrive.
LEMMA CrashTypes ==
    ASSUME SyncTypes, Crash
    PROVE  /\ RunTypes' /\ JobTypes' /\ PlanStays /\ plan'.edits = plan.edits
           /\ \A p \in Path : job'[p] = NoJob
           /\ \A r \in late' : r \in late \/ \E p \in Path : job[p].at = "sent" /\ r = Request(p)
<1> USE DEF SyncTypes
<1>1. plan \in PlanRecord /\ plan.runs # <<>>
  BY DEF RunTypes
<1>2. Spend("crashes") /\ "crashes" \in Budget /\ "crashes" # "edits"
  BY DEF Crash, Budget
<1>3. plan' \in PlanRecord /\ PlanStays /\ plan'.edits = plan.edits
  BY <1>1, <1>2, SpendSpends DEF PlanStays
<1>4. /\ job' = [p \in Path |-> NoJob] /\ phase' = "done"
      /\ late' = late \cup {Request(p) : p \in {q \in Path : job[q].at = "sent"}}
      /\ UNCHANGED <<storeVars, stop, signal, begun, scanVars, pairVars, runVars>>
  BY DEF Crash
<1>5. \A r \in late' : r \in late \/ \E p \in Path : job[p].at = "sent" /\ r = Request(p)
  BY <1>4
<1>6. \A r \in late' : r \in RequestRecord /\ Sendable(r)
  BY <1>5, RequestTypes DEF JobTypes
<1>7. JobTypes'
  BY <1>4, <1>6, NoJobIs DEF JobTypes
<1>8. RunTypes'
  BY <1>1, <1>3, <1>4 DEF RunTypes, begun, scanVars, pairVars, runVars, SyncPhases, PlanStays
<1> QED
  BY <1>3, <1>4, <1>5, <1>7, <1>8
-----------------------------------------------------------------------------
(* The types of a run while its actions go on.                             *)

\* The version a download is of has content.
LEMMA StagedIs ==
    ASSUME SyncTypes, StoresInv, SourcesInv, NEW p \in Path, At(p, "download", "start"),
           HasVersion(FromFolder, p, job[p].src.id)
    PROVE  LET v == VersionOf(FromFolder, p, job[p].src.id)
           IN  v \in VersionRecord /\ v.data \in Data /\ v.data = job[p].src.data
<1> USE DEF SyncTypes
<1>1. /\ job[p].kind = "download" /\ job[p].src # None
      /\ FromFolder \in Folder
  BY FolderAssumption DEF JobTypes, Meant, At, Transfers
<1>2. SourceTrue(job[p].src) /\ job[p].src.path = p /\ Transfer(opt) = "download"
  BY <1>1 DEF SourcesInv, Transfers
<1>3. opt.direction # "local-to-b2"
  BY <1>2 DEF Transfer
<1>4. FromTrue(job[p].src)
  BY <1>2, <1>3 DEF SourceTrue, SourceIsLocal
<1>5. PICK i \in DOMAIN remote[FromFolder][p] :
         /\ VersionOf(FromFolder, p, job[p].src.id) = remote[FromFolder][p][i]
         /\ remote[FromFolder][p][i].id = job[p].src.id
  BY VersionOfIs
<1>6. remote[FromFolder][p] \in Seq(VersionRecord) /\ UploadsHaveData(remote[FromFolder][p])
  BY <1>1 DEF StoreTypes
<1>7. /\ remote[FromFolder][p][i].action = "upload"
      /\ remote[FromFolder][p][i].data = job[p].src.data
  BY <1>2, <1>4, <1>5 DEF FromTrue
<1>8. remote[FromFolder][p][i] \in VersionRecord /\ remote[FromFolder][p][i].data \in Data
  BY <1>6, <1>7 DEF UploadsHaveData
<1> QED
  BY <1>5, <1>7, <1>8

\* What stays meant when a job moves on.
LEMMA MeantStays ==
    ASSUME NEW i, NEW j, Meant(i), j.kind = i.kind, j.src = i.src, j.dst = i.dst,
           i.at \in Steps,
           \/ j.at \in {"done", "failed"}
           \/ /\ j.at \in Steps
              /\ j.at = "sent" => j.kind \in {"upload"} \cup Remotes
              /\ j.kind = "upload" /\ j.at \in {"captured", "validated", "sent"}
                    => j.held \in FileRecord
              /\ j.at \in Fetched =>
                    j.kind = "download" /\ j.held \in VersionRecord /\ j.held.data \in Data
              /\ j.at \in Replacing => j.moved \in FileRecord /\ j.dst # None
    PROVE  Meant(j)
BY DEF Meant, Steps, Fetched, Replacing

\* A step of an action keeps the job one that its kind means.
LEMMA ActionMeant ==
    ASSUME SyncTypes, StoresInv, SourcesInv, NEW p \in Path, ActionStep(p)
    PROVE  Meant(job'[p])
<1> USE DEF SyncTypes
<1>0. /\ job[p].at \in Steps /\ JobTurn(p) /\ Meant(job[p]) /\ JobTypes /\ StoreTypes
      /\ job'[p].kind = job[p].kind /\ job'[p].src = job[p].src /\ job'[p].dst = job[p].dst
  BY ActionTurn DEF JobTypes, JobTurn
<1>1. PICK i, j : i = job[p] /\ j = job'[p]
  OBVIOUS
<1>2. /\ Meant(i) /\ i.at \in Steps /\ j.kind = i.kind /\ j.src = i.src /\ j.dst = i.dst
  BY <1>0, <1>1
<1>3. SUFFICES Meant(j)
  BY <1>1
<1>4. CASE job'[p].at \in {"done", "failed"}
  BY <1>1, <1>2, <1>4, MeantStays
<1>5. CASE job'[p].at \in Steps
  <2>0. j.at \in Steps /\ job'[p].at # "failed" /\ job'[p].at # "done"
    BY <1>1, <1>5 DEF Steps
  <2>1. CASE CaptureSource(p)
    <3>1. j.at = "captured" /\ j.held = disk[p] /\ disk[p] # None /\ j.kind = "upload"
      BY <1>0, <1>1, <2>0, <2>1, CaptureTurn DEF CaptureSource, At
    <3>2. j.held \in FileRecord
      BY <3>1, <1>0 DEF StoreTypes
    <3> QED
      BY <1>2, <2>0, <3>1, <3>2, MeantStays DEF Fetched, Replacing
  <2>2. CASE ValidateSource(p) \/ ReadSource(p)
    <3>1. /\ i.kind = "upload" /\ i.at \in {"captured", "validated"}
          /\ j.at \in {"validated", "sent"} /\ j.held = i.held
      BY <1>0, <1>1, <2>0, <2>2, GotoTurn, FailTurn DEF ValidateSource, ReadSource, At, Steps
    <3>2. i.held \in FileRecord
      BY <1>2, <3>1 DEF Meant
    <3> QED
      BY <1>2, <2>0, <3>1, <3>2, MeantStays DEF Fetched, Replacing
  <2>3. CASE SendRequest(p) \/ CheckDoomed(p)
    <3>1. \/ i.kind \in Remotes /\ j.at = "sent"
          \/ j.at = "doomed"
      BY <1>0, <1>1, <2>0, <2>3, GotoTurn, FailTurn DEF SendRequest, CheckDoomed, At, Steps
    <3> QED
      BY <1>2, <2>0, <3>1, MeantStays DEF Fetched, Replacing, Remotes
  <2>4. CASE Answered(p) \/ Unanswered(p) \/ Refused(p) \/ Abandoned(p)
    BY <1>0, <2>0, <2>4, DoneTurn, FailTurn DEF Answered, Unanswered, Refused, Abandoned
  <2>5. CASE Stage(p)
    <3>1. /\ j.at = "staged" /\ HasVersion(FromFolder, p, job[p].src.id)
          /\ j.held = VersionOf(FromFolder, p, job[p].src.id) /\ j.kind = "download"
      BY <1>0, <1>1, <2>0, <2>5, StageTurn DEF Stage, At
    <3>2. j.held \in VersionRecord /\ j.held.data \in Data
      BY <2>5, <3>1, StagedIs DEF Stage
    <3> QED
      BY <1>2, <2>0, <3>1, <3>2, MeantStays DEF Fetched, Replacing
  <2>6. CASE CheckDestination(p) \/ VerifyAside(p) \/ LinkOver(p)
    <3>1. /\ \/ i.at = "staged" /\ j.at = "checked"
             \/ i.at \in Replacing /\ j.at \in Replacing
          /\ j.held = i.held /\ j.moved = i.moved
      <4>1. CASE CheckDestination(p)
        <5>1. (Goto(p, "checked") \/ Fail(p)) /\ job[p].at = "staged" /\ "checked" \in Steps
          BY <4>1 DEF CheckDestination, At, Steps
        <5>2. Goto(p, "checked")
          BY <1>0, <2>0, <5>1, FailTurn
        <5>3. /\ job'[p].at = "checked" /\ job'[p].held = job[p].held
              /\ job'[p].moved = job[p].moved
          BY <1>0, <5>1, <5>2, GotoTurn
        <5> QED
          BY <1>1, <5>1, <5>3
      <4>2. CASE VerifyAside(p)
        <5>1. \E step \in {"verified", "restoring"} : Goto(p, step)
          BY <4>2 DEF VerifyAside
        <5>2. PICK step \in {"verified", "restoring"} : Goto(p, step)
          BY <5>1
        <5>3. step \in Steps
          BY DEF Steps
        <5>4. job'[p].at = step /\ job'[p].held = job[p].held /\ job'[p].moved = job[p].moved
          BY <1>0, <5>2, <5>3, GotoTurn
        <5> QED
          BY <1>1, <4>2, <5>4 DEF VerifyAside, At, Replacing
      <4>3. CASE LinkOver(p)
        <5>1. PICK step \in {"linked", "restoring"} : Goto(p, step)
          BY <4>3 DEF LinkOver
        <5>3. step \in Steps
          BY DEF Steps
        <5>4. job'[p].at = step /\ job'[p].held = job[p].held /\ job'[p].moved = job[p].moved
          BY <1>0, <5>1, <5>3, GotoTurn
        <5> QED
          BY <1>1, <4>3, <5>4 DEF LinkOver, At, Replacing
      <4> QED
        BY <2>6, <4>1, <4>2, <4>3
    <3>2. i.at \in Fetched /\ (j.at \in Replacing => i.at \in Replacing)
      BY <3>1 DEF Fetched, Replacing
    <3>3. /\ i.kind = "download" /\ i.held \in VersionRecord /\ i.held.data \in Data
          /\ j.at \in Replacing => i.moved \in FileRecord /\ i.dst # None
      BY <1>2, <3>2 DEF Meant
    <3> QED
      BY <1>2, <2>0, <3>1, <3>3, MeantStays DEF Replacing
  <2>7. CASE LinkNew(p) \/ DropAside(p) \/ Restore(p) \/ Unlink(p)
    BY <1>0, <2>0, <2>7, DoneTurn, FailTurn DEF LinkNew, DropAside, Restore, Unlink
  <2>8. CASE MoveAside(p)
    <3>1. /\ j.at = "moved" /\ disk[p] # None /\ j.moved = disk[p] /\ j.held = i.held
          /\ i.kind = "download" /\ i.at = "checked" /\ i.dst # None
      BY <1>0, <1>1, <2>0, <2>8, MoveTurn DEF MoveAside, At
    <3>2. j.moved \in FileRecord
      BY <1>0, <3>1 DEF StoreTypes
    <3>3. i.held \in VersionRecord /\ i.held.data \in Data
      BY <1>2, <3>1 DEF Meant, Fetched
    <3> QED
      BY <1>2, <2>0, <3>1, <3>2, <3>3, MeantStays
  <2> QED
    BY <2>1, <2>2, <2>3, <2>4, <2>5, <2>6, <2>7, <2>8 DEF ActionStep
<1> QED
  BY <1>0, <1>4, <1>5 DEF JobTurn

\* A step of an action keeps the types of the run and of the jobs.
LEMMA ActionTypes ==
    ASSUME SyncTypes, StoresInv, SourcesInv, NEW p \in Path, ActionStep(p)
    PROVE  RunTypes' /\ JobTypes'
<1> USE DEF SyncTypes
<1>1. /\ JobTurn(p) /\ PlanStays /\ LateTurn(p) /\ Meant(job'[p])
      /\ UNCHANGED unchangedByActions /\ job[p].at \in Steps
  BY ActionTurn, ActionMeant
<1>2. \A r \in late' : r \in RequestRecord /\ Sendable(r)
  BY <1>1, RequestTypes DEF LateTurn, JobTypes
<1>3. \A q \in Path : Meant(job'[q])
  BY <1>1 DEF JobTurn, JobTypes
<1>4. JobTypes'
  BY <1>1, <1>2, <1>3 DEF JobTurn, JobTypes
<1>5. queued' \subseteq Path /\ failed' \subseteq Path
  BY <1>1 DEF JobTurn, RunTypes
<1>6. RunTypes'
  BY <1>1, <1>5 DEF RunTypes, unchangedByActions, begun, scanVars, pairVars, PlanStays
<1> QED
  BY <1>4, <1>6

\* An edit elsewhere, or a late request, changes nothing of the run.
LEMMA ElsewhereTypes ==
    ASSUME SyncTypes, Others \/ \E r \in late : LateEffect(r)
    PROVE  /\ RunTypes' /\ JobTypes' /\ PlanStays /\ job' = job /\ late' \subseteq late
           /\ UNCHANGED <<phase, stop, signal, begun, scanVars, pairVars, runVars>>
           /\ Others \/ plan' = plan
<1> USE DEF SyncTypes
<1>1. plan \in PlanRecord /\ plan.runs # <<>> /\ plan.edits \in Nat
  BY DEF RunTypes, PlanRecord
<1>2. /\ UNCHANGED <<phase, stop, signal, begun, scanVars, pairVars, runVars>>
      /\ job' = job /\ late' \subseteq late /\ (Others \/ plan' = plan)
  BY DEF Others, LateEffect, unchangedByActions, runVars
<1>3. plan' \in PlanRecord /\ PlanStays
  <2>1. CASE plan' = plan
    BY <1>1, <2>1 DEF PlanStays
  <2>2. CASE Others
    <3>1. Spend("edits") /\ "edits" \in Budget
      BY <2>2 DEF Others, Budget
    <3> QED
      BY <1>1, <3>1, SpendSpends DEF PlanStays
  <2> QED
    BY <1>2, <2>1, <2>2
<1>4. JobTypes'
  BY <1>2 DEF JobTypes
<1>5. RunTypes'
  BY <1>1, <1>2, <1>3 DEF RunTypes, begun, scanVars, pairVars, runVars, PlanStays
<1> QED
  BY <1>2, <1>3, <1>4, <1>5
-----------------------------------------------------------------------------
(* The batch at hand.                                                      *)

\* An entry is the same entry as itself.
LEMMA SameSelf == ASSUME NEW e PROVE SameEntry(e, e)
BY DEF SameEntry

\* Every step preserves BatchInv: what is prepared is the batch that starts at the next item.
LEMMA BatchStep ==
    ASSUME SyncTypes, BatchInv, [Next]_vars
    PROVE  BatchInv'
<1> USE DEF SyncTypes
<1>1. CASE (\E p \in Path : ActionStep(p)) \/ Others
             \/ (\E r \in late : LateEffect(r)) \/ AbortRun \/ UNCHANGED vars
  <2>1. UNCHANGED <<phase, next, ready, pairs>>
    <3>1. CASE \E p \in Path : ActionStep(p)
      BY <3>1, ActionTurn DEF unchangedByActions, pairVars
    <3>2. CASE Others \/ (\E r \in late : LateEffect(r))
      BY <3>2, ElsewhereTypes DEF pairVars, runVars
    <3>3. CASE AbortRun \/ UNCHANGED vars
      BY <3>3 DEF AbortRun, vars, pairVars, runVars
    <3> QED
      BY <1>1, <3>1, <3>2, <3>3
  <2> QED
    BY <2>1 DEF BatchInv, ReadyPairs
<1>2. CASE StartRun
  BY <1>2 DEF StartRun, BatchInv, Batching
<1>3. CASE ScanThrows \/ Finish \/ Report \/ EndUnfinished \/ Crash \/ CloseIterator
  <2>1. phase' \in {"abort", "report", "close", "done"}
    BY <1>3 DEF ScanThrows, Finish, Report, EndUnfinished, Crash, CloseIterator
  <2> QED
    BY <2>1 DEF BatchInv, Batching
<1>4. CASE ScanSource \/ ScanDest \/ CollectPair \/ PairsCollected
  <2>1. \/ (phase' \in {"scan", "pair"} /\ next' = next /\ phase \in {"scan", "pair"})
        \/ phase' \in {"abort", "report", "batch"}
    BY <1>4 DEF ScanSource, ScanDest, Scan, CollectPair, PairsCollected, runVars
  <2> QED
    BY <2>1 DEF BatchInv, Batching
<1>5. CASE StartBatch
  <2>1. /\ \A k \in DOMAIN ready' : /\ next + k - 1 \in DOMAIN pairs
                                    /\ ready'[k].src = pairs[next + k - 1].src
                                    /\ ready'[k].dst = pairs[next + k - 1].dst
        /\ phase' = "emit" => ready' # <<>>
    BY <1>5, StartBatchTypes
  <2>2. next' = next /\ pairs' = pairs /\ next <= Len(pairs) /\ phase' \in {"emit", "prepare"}
    BY <1>5 DEF StartBatch, pairVars
  <2>3. ReadyPairs'
    BY <2>1, <2>2, SameSelf DEF ReadyPairs
  <2> QED
    BY <2>1, <2>2, <2>3 DEF BatchInv, Batching
<1>6. CASE PreparePair
  <2>1. /\ Len(ready) \in Nat /\ next + Len(ready) \in DOMAIN pairs
        /\ \E z : /\ ready' = Append(ready, z) /\ z \in ReadyRecord
                  /\ SameEntry(z.src, pairs[next + Len(ready)].src)
                  /\ SameEntry(z.dst, pairs[next + Len(ready)].dst)
    BY <1>6, PrepareTypes
  <2>2. PICK z : /\ ready' = Append(ready, z) /\ z \in ReadyRecord
                 /\ SameEntry(z.src, pairs[next + Len(ready)].src)
                 /\ SameEntry(z.dst, pairs[next + Len(ready)].dst)
    BY <2>1
  <2>3. UNCHANGED <<phase, next, pairs>> /\ phase = "prepare"
    BY <1>6 DEF PreparePair, pairVars
  <2>4. ready \in Seq(ReadyRecord) /\ next \in Nat
    BY DEF RunTypes
  <2>5. \A k \in DOMAIN ready' : \/ k \in DOMAIN ready /\ ready'[k] = ready[k]
                                 \/ ready'[k] = z /\ next + k - 1 = next + Len(ready)
    BY <2>1, <2>2, <2>4
  <2>6. ReadyPairs /\ next <= Len(pairs)
    BY <2>3 DEF BatchInv, Batching
  <2>7. ReadyPairs'
    BY <2>1, <2>2, <2>3, <2>5, <2>6 DEF ReadyPairs
  <2> QED
    BY <2>3, <2>6, <2>7 DEF BatchInv, Batching
<1>7. CASE PlanBatch
  <2>1. UNCHANGED <<ready, next, pairs>> /\ phase = "prepare"
        /\ phase' \in {"abort", "emit"} /\ (phase' = "emit" => Len(ready) = Len(Batch))
    BY <1>7 DEF PlanBatch, pairVars
  <2>2. ReadyPairs /\ next <= Len(pairs)
    BY <2>1 DEF BatchInv, Batching
  <2>3. phase' = "emit" => ready # <<>>
    BY <2>1, <2>2, BatchIs
  <2> QED
    BY <2>1, <2>2, <2>3 DEF BatchInv, Batching, ReadyPairs
<1>8. CASE YieldCompare \/ Resume
  <2>1. /\ UNCHANGED <<ready, next, pairs>> /\ phase \in Batching \ {"prepare"}
        /\ phase' \in {"abort", "slots", "yielded"}
    BY <1>8 DEF YieldCompare, Resume, pairVars, Batching
  <2> QED
    BY <2>1 DEF BatchInv, Batching, ReadyPairs
<1>9. CASE NextItem
  <2>1. phase = "slots" /\ phase \in Batching \ {"prepare"} /\ pairs' = pairs
        /\ phase' = IF Len(ready) = 1 THEN "batch" ELSE "emit"
    BY <1>9 DEF NextItem, Batching, pairVars
  <2>2. ready # <<>> /\ ReadyPairs
    BY <2>1 DEF BatchInv, Batching
  <2>3. /\ next' = next + 1 /\ Len(ready') = Len(ready) - 1
        /\ \A k \in DOMAIN ready' : k + 1 \in DOMAIN ready /\ ready'[k] = ready[k + 1]
    BY <1>9, <2>2, NextItemTypes
  <2>4. ready \in Seq(ReadyRecord) /\ next \in Nat
    BY DEF RunTypes
  <2>5. \A k \in DOMAIN ready' : k \in Int
    BY <2>3, <2>4
  <2>6. \A k \in DOMAIN ready' : next' + k - 1 = next + (k + 1) - 1
    BY <2>3, <2>4, <2>5
  <2>7. ReadyPairs'
    BY <2>1, <2>2, <2>3, <2>6 DEF ReadyPairs
  <2>8. phase' = "emit" => ready' # <<>>
    BY <2>1, <2>2, <2>3, <2>4
  <2> QED
    BY <2>1, <2>7, <2>8 DEF BatchInv, Batching
<1> QED
  BY <1>1, <1>2, <1>3, <1>4, <1>5, <1>6, <1>7, <1>8, <1>9 DEF Next, GeneratorStep
-----------------------------------------------------------------------------
(* What the run knows of the source stays true.                            *)

\* An entry that was scanned truly stays true while the run goes on.
LEMMA EntriesStayTrue ==
    ASSUME SyncTypes, StoresInv, SourcesInv, StoreTurn, plan'.runs = plan.runs
    PROVE  \A e \in EntryRecord : SourceTrue(e) => SourceTrue(e)'
<1> USE DEF SyncTypes
<1>1. SourceIsLocal' <=> SourceIsLocal
  BY DEF SourceIsLocal, opt
<1>2. ASSUME NEW e \in EntryRecord, SourceTrue(e) PROVE SourceTrue(e)'
  <2>1. e.path \in Path /\ e.id \in Nat /\ e.id < clock
    BY <1>2 DEF EntryRecord, SourceTrue
  <2>2. CASE SourceIsLocal
    <3>1. Transfer(opt) = "upload"
      BY <2>2 DEF Transfer, SourceIsLocal
    <3>2. job[e.path].at # "restoring"
      BY <2>1, <3>1 DEF SourcesInv, JobTypes, Meant, Fetched, Replacing, Transfers
    <3>3. LocalTrue(e)
      BY <1>2, <2>2 DEF SourceTrue
    <3>4. e.id < clock' /\ LocalTrue(e)'
      BY <2>1, <3>2, <3>3, LocalTrueStays
    <3> QED
      BY <1>1, <2>2, <3>4 DEF SourceTrue
  <2>3. CASE ~ SourceIsLocal
    <3>1. FromTrue(e)
      BY <1>2, <2>3 DEF SourceTrue
    <3>2. e.id < clock' /\ FromTrue(e)'
      BY <2>1, <3>1, FromTrueStays
    <3> QED
      BY <1>1, <2>3, <3>2 DEF SourceTrue
  <2> QED
    BY <2>2, <2>3
<1> QED
  BY <1>2

LateCopies ==
    \A r \in late : r.kind = "copy" =>
        r.src.path = r.path /\ r.src.id < clock /\ FromTrue(r.src)

\* The source of a copy that is still on its way stays what it was.
LEMMA CopiesStayTrue ==
    ASSUME SyncTypes, StoresInv, SourcesInv, StoreTurn, NEW r \in late, r.kind = "copy"
    PROVE  r.src.path = r.path /\ r.src.id < clock' /\ FromTrue(r.src)'
<1>1. r.src \in EntryRecord /\ r.src.path = r.path /\ r.src.id < clock /\ FromTrue(r.src)
  BY DEF SyncTypes, JobTypes, Sendable, RequestRecord, MaybeEntry, SourcesInv
<1>2. \A e : e \in EntryRecord /\ e.id < clock /\ FromTrue(e) => e.id < clock' /\ FromTrue(e)'
  <2> SUFFICES ASSUME NEW e, e \in EntryRecord, e.id < clock, FromTrue(e)
               PROVE  e.id < clock' /\ FromTrue(e)'
    OBVIOUS
  <2>1. e.path \in Path /\ e.id \in Nat
    BY DEF EntryRecord
  <2> QED
    BY <2>1, FromTrueStays
<1> QED
  BY <1>1, <1>2 DEF FromTrue
\* The steps that leave alone what the generator collects.
KeepsFound ==
    \/ CollectPair \/ PairsCollected \/ StartBatch \/ PreparePair \/ PlanBatch \/ YieldCompare
    \/ Resume \/ NextItem \/ Finish \/ Report \/ EndUnfinished \/ ScanThrows \/ AbortRun
    \/ CloseIterator \/ (\E p \in Path : ActionStep(p)) \/ (\E r \in late : LateEffect(r))
    \/ Crash \/ Others \/ UNCHANGED vars

\* Besides StartRun and the scans, every step keeps what the scans found.
LEMMA StepsAre ==
    ASSUME [Next]_vars
    PROVE  StartRun \/ ScanSource \/ ScanDest \/ KeepsFound
BY DEF Next, GeneratorStep, KeepsFound

\* Within a run its options stay, and what may go wrong gets less.
LEMMA PlanStep ==
    ASSUME SyncTypes, StoresInv, StoreTypes', [Next]_vars
    PROVE  /\ plan' \in PlanRecord /\ plan'.quiet = plan.quiet /\ plan'.skips = plan.skips
           /\ StartRun \/ PlanStays
           /\ StartRun \/ opt' = opt
<1> USE DEF SyncTypes
<1>1. CASE StartRun
  BY <1>1, StartRunTypes
<1>2. CASE PlanStays
  BY <1>2 DEF PlanStays, opt
<1>3. CASE plan' = plan
  <2>1. plan \in PlanRecord /\ plan.edits \in Nat
    BY DEF RunTypes, PlanRecord
  <2> QED
    BY <1>3, <2>1 DEF PlanStays, opt
<1>4. CASE ScanSource \/ ScanDest
  BY <1>2, <1>4, ScanTypes
<1>5. CASE KeepsFound
  <2>1. CASE CollectPair \/ StartBatch \/ PlanBatch \/ Resume \/ NextItem
    BY <1>3, <2>1 DEF CollectPair, StartBatch, PlanBatch, Resume, NextItem
  <2>2. CASE PreparePair
    BY <1>2, <2>2, PrepareTypes
  <2>3. CASE ScanThrows \/ PairsCollected \/ YieldCompare \/ Finish \/ Report \/ EndUnfinished
               \/ AbortRun \/ CloseIterator \/ UNCHANGED vars
    BY <1>2, <2>3, QuietTypes
  <2>4. CASE \E p \in Path : ActionStep(p)
    BY <1>2, <2>4, ActionTurn
  <2>5. CASE Others \/ \E r \in late : LateEffect(r)
    BY <1>2, <2>5, ElsewhereTypes
  <2>6. CASE Crash
    BY <1>2, <2>6, CrashTypes
  <2> QED
    BY <1>5, <2>1, <2>2, <2>3, <2>4, <2>5, <2>6 DEF KeepsFound
<1> QED
  BY <1>1, <1>4, <1>5, StepsAre

\* The steps that keep what was found keep what the scans reported of it.
LEMMA FoundKept ==
    ASSUME SyncTypes, KeepsFound
    PROVE  UNCHANGED <<scanned, found, had, incomplete>>
<1>1. CASE CollectPair \/ PairsCollected \/ StartBatch \/ PreparePair \/ PlanBatch \/ YieldCompare
  BY <1>1 DEF CollectPair, PairsCollected, StartBatch, PreparePair, PlanBatch, YieldCompare,
              scanVars
<1>2. CASE Resume \/ NextItem \/ Finish \/ Report \/ EndUnfinished \/ ScanThrows \/ AbortRun
             \/ CloseIterator
  BY <1>2 DEF Resume, NextItem, Finish, Report, EndUnfinished, ScanThrows, AbortRun, CloseIterator,
              scanVars
<1>3. CASE \E p \in Path : ActionStep(p)
  BY <1>3, ActionTurn DEF unchangedByActions, scanVars
<1>4. CASE Others \/ \E r \in late : LateEffect(r)
  BY <1>4, ElsewhereTypes DEF scanVars
<1>5. CASE Crash \/ UNCHANGED vars
  BY <1>5 DEF Crash, vars, scanVars
<1> QED
  BY <1>1, <1>2, <1>3, <1>4, <1>5 DEF KeepsFound

\* What the source scan has returned.
LEMMA FoundStep ==
    ASSUME SyncTypes, StoresInv, SourcesInv, StoreTypes', StoreTurn, [Next]_vars
    PROVE  (\A i \in DOMAIN found["src"] : SourceTrue(found["src"][i]))'
<1> USE DEF SyncTypes
<1>0. found["src"] \in Seq(EntryRecord) /\ found["dst"] \in Seq(EntryRecord)
      /\ \A i \in DOMAIN found["src"] : SourceTrue(found["src"][i])
  BY DEF RunTypes, SourcesInv
<1>1. CASE StartRun
  <2>1. found'["src"] = <<>>
    BY <1>1, NothingFound DEF StartRun
  <2> QED
    BY <2>1
<1>2. CASE ScanSource
  <2>1. PICK E, local : E = SourceEntries \ Passed /\ local = SourceIsLocal
    OBVIOUS
  <2>2. Scan("src", E, local)
    BY <1>2, <2>1 DEF ScanSource, Scan
  <2>3. /\ E \in SUBSET EntryRecord /\ \A a, b \in E : a.path = b.path => a = b
        /\ \A e \in E : SourceTrue(e)
    BY <2>1, SideEntriesAre
  <2>4. PlanStays /\ \A i \in DOMAIN found'["src"] : found'["src"][i] \in E
    BY <2>2, <2>3, ScanTurn
  <2>5. plan'.runs = plan.runs
    BY <2>4 DEF PlanStays
  <2>6. \A e \in EntryRecord : SourceTrue(e) => SourceTrue(e)'
    BY <2>5, EntriesStayTrue
  <2> QED
    BY <2>3, <2>4, <2>6 DEF SourceTrue, LocalTrue, FromTrue
<1>3. CASE ScanDest
  <2>1. PICK E, local : E = DestEntries /\ local = DestIsLocal
    OBVIOUS
  <2>2. Scan("dst", E, local)
    BY <1>3, <2>1 DEF ScanDest, Scan
  <2>3. E \in SUBSET EntryRecord /\ \A a, b \in E : a.path = b.path => a = b
    BY <2>1, SideEntriesAre
  <2>4. PlanStays /\ found'["src"] = found["src"]
    BY <2>2, <2>3, ScanTurn
  <2>5. plan'.runs = plan.runs
    BY <2>4 DEF PlanStays
  <2>6. \A e \in EntryRecord : SourceTrue(e) => SourceTrue(e)'
    BY <2>5, EntriesStayTrue
  <2>7. \A i \in DOMAIN found["src"] : found["src"][i] \in EntryRecord
    BY <1>0
  <2>8. ASSUME NEW i \in DOMAIN found'["src"] PROVE SourceTrue(found["src"][i])'
    <3>1. PICK e \in EntryRecord : e = found["src"][i] /\ e = found'["src"][i] /\ SourceTrue(e)
      BY <1>0, <2>4, <2>7
    <3>2. SourceTrue(e)'
      BY <2>6, <3>1
    <3>3. e.id < clock' /\ IF SourceIsLocal' THEN LocalTrue(e)' ELSE FromTrue(e)'
      BY <3>2 DEF SourceTrue
    <3>4. LocalTrue(e)' => LocalTrue(found["src"][i])'
      BY <3>1 DEF LocalTrue
    <3>5. FromTrue(e)' => FromTrue(found["src"][i])'
      <4>1. (found["src"][i])' = e
        BY <3>1
      <4> QED
        BY ONLY <4>1, Zenon DEF FromTrue
    <3> QED
      BY <3>1, <3>3, <3>4, <3>5 DEF SourceTrue
  <2> QED
    BY <2>8
<1>4. CASE KeepsFound
  <2>1. found' = found
    BY <1>4, FoundKept
  <2>2. StartRun \/ plan'.runs = plan.runs
    BY PlanStep DEF PlanStays
  <2>3. SUFFICES ASSUME plan'.runs = plan.runs
                 PROVE  (\A i \in DOMAIN found["src"] : SourceTrue(found["src"][i]))'
    BY <1>1, <2>2
  <2>6. \A e \in EntryRecord : SourceTrue(e) => SourceTrue(e)'
    BY <2>3, EntriesStayTrue
  <2>7. \A i \in DOMAIN found["src"] : found["src"][i] \in EntryRecord
    BY <1>0
  <2>8. ASSUME NEW i \in DOMAIN found["src"] PROVE SourceTrue(found["src"][i])'
    <3>1. PICK e \in EntryRecord : e = found["src"][i] /\ e = found'["src"][i] /\ SourceTrue(e)
      BY <1>0, <2>1, <2>7
    <3>2. SourceTrue(e)'
      BY <2>6, <3>1
    <3>3. e.id < clock' /\ IF SourceIsLocal' THEN LocalTrue(e)' ELSE FromTrue(e)'
      BY <3>2 DEF SourceTrue
    <3>4. LocalTrue(e)' => LocalTrue(found["src"][i])'
      BY <3>1 DEF LocalTrue
    <3>5. FromTrue(e)' => FromTrue(found["src"][i])'
      <4>1. (found["src"][i])' = e
        BY <3>1
      <4> QED
        BY ONLY <4>1, Zenon DEF FromTrue
    <3> QED
      BY <3>1, <3>3, <3>4, <3>5 DEF SourceTrue
  <2> QED
    BY <2>1, <2>8
<1> QED
  BY <1>1, <1>2, <1>3, <1>4, StepsAre

\* Only StartRun and CollectPair change the pairs.
LEMMA PairsKept ==
    ASSUME SyncTypes, [Next]_vars, ~ StartRun, ~ CollectPair
    PROVE  UNCHANGED <<at, pairs>>
<1>1. CASE ScanSource \/ ScanDest \/ PairsCollected \/ StartBatch \/ PreparePair \/ PlanBatch
             \/ YieldCompare
  BY <1>1 DEF ScanSource, ScanDest, PairsCollected, StartBatch, PreparePair, PlanBatch,
              YieldCompare, pairVars
<1>2. CASE Resume \/ NextItem \/ Finish \/ Report \/ EndUnfinished \/ ScanThrows \/ AbortRun
             \/ CloseIterator
  BY <1>2 DEF Resume, NextItem, Finish, Report, EndUnfinished, ScanThrows, AbortRun, CloseIterator,
              pairVars
<1>3. CASE \E p \in Path : ActionStep(p)
  BY <1>3, ActionTurn DEF unchangedByActions, pairVars
<1>4. CASE Others \/ \E r \in late : LateEffect(r)
  BY <1>4, ElsewhereTypes DEF pairVars
<1>5. CASE Crash \/ UNCHANGED vars
  BY <1>5 DEF Crash, vars, pairVars
<1> QED
  BY <1>1, <1>2, <1>3, <1>4, <1>5, StepsAre DEF KeepsFound

\* A run starts with no pair.
LEMMA NothingCollected ==
    ASSUME StartRun
    PROVE  pairs' = <<>> /\ ready' = <<>> /\ DOMAIN pairs' = {} /\ DOMAIN ready' = {}
BY DEF StartRun

\* The source of every pair stays true.
LEMMA PairsStep ==
    ASSUME SyncTypes, StoresInv, SourcesInv, StoreTypes', StoreTurn, [Next]_vars
    PROVE  (\A k \in DOMAIN pairs : pairs[k].src # None => SourceTrue(pairs[k].src))'
<1> USE DEF SyncTypes
<1>0. /\ \A k \in DOMAIN pairs : pairs[k].src # None => SourceTrue(pairs[k].src)
      /\ \A k \in DOMAIN pairs : pairs[k].src # None => pairs[k].src \in EntryRecord
  <2>1. \A k \in DOMAIN pairs : pairs[k] \in PairRecord
    BY DEF RunTypes
  <2> QED
    BY <2>1 DEF SourcesInv, PairRecord, MaybeEntry
<1>1. CASE StartRun
  BY <1>1, NothingCollected
<1>2. CASE ~ StartRun
  <2>1. plan'.runs = plan.runs
    BY <1>2, PlanStep DEF PlanStays
  <2>2. \A e \in EntryRecord : SourceTrue(e) => SourceTrue(e)'
    BY <2>1, EntriesStayTrue
  <2>3. ASSUME NEW k \in DOMAIN pairs, pairs'[k] = pairs[k], pairs'[k].src # None
        PROVE  SourceTrue(pairs[k].src)'
    <3>1. PICK e \in EntryRecord : e = pairs[k].src /\ e = pairs'[k].src /\ SourceTrue(e)
      BY <1>0, <2>3
    <3>2. SourceTrue(e)'
      BY <2>2, <3>1
    <3> QED
      BY <3>1, <3>2 DEF SourceTrue, LocalTrue, FromTrue
  <2>4. CASE CollectPair
    <3>1. /\ pairs' = Append(pairs, NextPair) /\ Len(pairs') = Len(pairs) + 1
          /\ pairs'[Len(pairs) + 1] = NextPair /\ Len(pairs) \in Nat
          /\ \A k \in DOMAIN pairs : k \in DOMAIN pairs' /\ pairs'[k] = pairs[k]
          /\ RunTypes'
      BY <2>4, CollectTypes
    <3>2. pairs \in Seq(PairRecord) /\ pairs' \in Seq(PairRecord)
      BY <3>1 DEF RunTypes
    <3>3. \A k \in DOMAIN pairs' : k \in DOMAIN pairs \/ k = Len(pairs) + 1
      BY <3>1, <3>2
    <3>4. ASSUME NEW n, n = Len(pairs) + 1, NextPair.src # None
          PROVE  SourceTrue(pairs[n].src)'
      <4>1. NextPair.src = HeadOf("src") /\ HeadOf("src") # None
        BY <2>4, <3>4, NextPairIs DEF CollectPair
      <4>2. at["src"] \in DOMAIN found["src"] /\ HeadOf("src") = found["src"][at["src"]]
            /\ HeadOf("src") \in EntryRecord
        BY <4>1, HeadOfIs DEF MaybeEntry
      <4>3. PICK e \in EntryRecord : e = NextPair.src /\ SourceTrue(e)
        BY <4>1, <4>2 DEF SourcesInv
      <4>4. SourceTrue(e)'
        BY <2>2, <4>3
      <4>5. e = pairs'[n].src
        BY <3>1, <3>4, <4>3
      <4> QED
        BY <4>4, <4>5 DEF SourceTrue, LocalTrue, FromTrue
    <3> QED
      BY <2>3, <3>1, <3>3, <3>4
  <2>5. CASE ~ CollectPair
    BY <1>2, <2>3, <2>5, PairsKept
  <2> QED
    BY <2>4, <2>5
<1> QED
  BY <1>1, <1>2
\* What is ready was ready before, or is a pair after its preparation.
ReadyOf(z, pair) ==
    /\ SameEntry(z.src, pair.src) /\ SameEntry(z.dst, pair.dst)
    /\ HonestEntry(pair.src) => HonestEntry(z.src)
    /\ HonestEntry(pair.dst) => HonestEntry(z.dst)

\* A prepared pair was prepared before, or is the prepared form of a pair.
LEMMA ReadyComes ==
    ASSUME SyncTypes, BatchInv, [Next]_vars, ~ StartRun
    PROVE  \A k \in DOMAIN ready' : \/ \E m \in DOMAIN ready : ready'[k] = ready[m]
                                    \/ \E m \in DOMAIN pairs : ReadyOf(ready'[k], pairs[m])
<1> USE DEF SyncTypes
<1>0. ready \in Seq(ReadyRecord) /\ next \in Nat \ {0}
  BY DEF RunTypes
<1>1. CASE StartBatch
  <2>1. \A k \in DOMAIN ready' : /\ next + k - 1 \in DOMAIN pairs
                                 /\ ready'[k].src = pairs[next + k - 1].src
                                 /\ ready'[k].dst = pairs[next + k - 1].dst
    BY <1>1, StartBatchTypes
  <2> QED
    BY <2>1, SameSelf DEF ReadyOf
<1>2. CASE PreparePair
  <2>1. /\ Len(ready) \in Nat /\ next + Len(ready) \in DOMAIN pairs
        /\ \E z : /\ ready' = Append(ready, z) /\ z \in ReadyRecord
                  /\ ReadyOf(z, pairs[next + Len(ready)])
    BY <1>2, PrepareTypes DEF ReadyOf
  <2>2. PICK z : /\ ready' = Append(ready, z) /\ z \in ReadyRecord
                 /\ ReadyOf(z, pairs[next + Len(ready)])
    BY <2>1
  <2>3. \A k \in DOMAIN ready' : (k \in DOMAIN ready /\ ready'[k] = ready[k]) \/ ready'[k] = z
    BY <1>0, <2>1, <2>2
  <2> QED
    BY <2>1, <2>2, <2>3
<1>3. CASE NextItem
  <2>1. ready # <<>>
    BY <1>3 DEF BatchInv, Batching, NextItem
  <2> QED
    BY <1>3, <2>1, NextItemTypes
<1>4. CASE ~ StartBatch /\ ~ PreparePair /\ ~ NextItem
  <2>1. ready' = ready
    <3>1. CASE ScanSource \/ ScanDest \/ CollectPair \/ PairsCollected \/ PlanBatch
                 \/ YieldCompare
      BY <3>1 DEF ScanSource, ScanDest, CollectPair, PairsCollected, PlanBatch, YieldCompare,
                  runVars
    <3>2. CASE Resume \/ Finish \/ Report \/ EndUnfinished \/ ScanThrows \/ AbortRun
                 \/ CloseIterator
      BY <3>2 DEF Resume, Finish, Report, EndUnfinished, ScanThrows, AbortRun, CloseIterator,
                  runVars
    <3>3. CASE \E p \in Path : ActionStep(p)
      BY <3>3, ActionTurn DEF unchangedByActions
    <3>4. CASE Others \/ \E r \in late : LateEffect(r)
      BY <3>4, ElsewhereTypes DEF runVars
    <3>5. CASE Crash \/ UNCHANGED vars
      BY <3>5 DEF Crash, vars, runVars
    <3> QED
      BY <1>4, <3>1, <3>2, <3>3, <3>4, <3>5, StepsAre DEF KeepsFound
  <2> QED
    BY <2>1
<1> QED
  BY <1>1, <1>2, <1>3, <1>4

\* The source of every prepared pair stays true.
LEMMA ReadyStep ==
    ASSUME SyncTypes, StoresInv, SourcesInv, BatchInv, StoreTypes', StoreTurn, [Next]_vars
    PROVE  (\A k \in DOMAIN ready : ready[k].src # None => SourceTrue(ready[k].src))'
<1> USE DEF SyncTypes
<1>1. CASE StartRun
  BY <1>1, NothingCollected
<1>2. CASE ~ StartRun
  <2>1. plan'.runs = plan.runs
    BY <1>2, PlanStep DEF PlanStays
  <2>2. \A e \in EntryRecord : SourceTrue(e) => SourceTrue(e)'
    BY <2>1, EntriesStayTrue
  <2>3. ASSUME NEW k \in DOMAIN ready', ready'[k].src # None
        PROVE  SourceTrue(ready[k].src)'
    <3>1. \E e \in EntryRecord : SameEntry(ready'[k].src, e) /\ SourceTrue(e)
      <4>1. CASE \E m \in DOMAIN ready : ready'[k] = ready[m]
        <5>1. PICK m \in DOMAIN ready : ready'[k] = ready[m]
          BY <4>1
        <5>2. ready[m] \in ReadyRecord /\ ready[m].src # None
          BY <2>3, <5>1 DEF RunTypes
        <5>3. ready[m].src \in EntryRecord /\ SourceTrue(ready[m].src)
          BY <5>2 DEF ReadyRecord, MaybeEntry, SourcesInv
        <5> QED
          BY <5>1, <5>3, SameSelf
      <4>2. CASE \E m \in DOMAIN pairs : ReadyOf(ready'[k], pairs[m])
        <5>1. PICK m \in DOMAIN pairs : ReadyOf(ready'[k], pairs[m])
          BY <4>2
        <5>2. pairs[m] \in PairRecord /\ pairs[m].src # None
              /\ SameEntry(ready'[k].src, pairs[m].src)
          BY <2>3, <5>1 DEF RunTypes, ReadyOf, SameEntry
        <5>3. pairs[m].src \in EntryRecord /\ SourceTrue(pairs[m].src)
          BY <5>2 DEF PairRecord, MaybeEntry, SourcesInv
        <5> QED
          BY <5>2, <5>3
      <4> QED
        BY <1>2, <4>1, <4>2, ReadyComes
    <3>2. PICK e \in EntryRecord : SameEntry(ready'[k].src, e) /\ SourceTrue(e)
      BY <3>1
    <3>3. SourceTrue(e)'
      BY <2>2, <3>2
    <3>4. ready'[k].src.path = e.path /\ ready'[k].src.id = e.id /\ ready'[k].src.data = e.data
      BY <2>3, <3>2 DEF SameEntry
    <3> QED
      BY <3>3, <3>4 DEF SourceTrue, LocalTrue, FromTrue
  <2> QED
    BY <2>3
<1> QED
  BY <1>1, <1>2
-----------------------------------------------------------------------------
(* What a job comes from.                                                  *)

Planned(q) ==
    \E pair, kind : /\ ResumeTurn(q, pair, kind) /\ ~ signal /\ pair.result = "ready"
                    /\ phase = "yielded"

\* A job is as it was, was dropped, was just planned, or took a step of its action.
LEMMA JobComes ==
    ASSUME SyncTypes, BatchInv, [Next]_vars, NEW q \in Path
    PROVE  \/ job'[q] = job[q]
           \/ job'[q] = NoJob /\ (StartRun \/ Crash)
           \/ Resume /\ Planned(q)
           \/ ActionStep(q)
<1> USE DEF SyncTypes
<1>1. CASE StartRun
  <2>1. job' = [p \in Path |-> NoJob]
    BY <1>1 DEF StartRun
  <2> QED
    BY <1>1, <2>1
<1>2. CASE Crash
  BY <1>2, CrashTypes
<1>3. CASE Resume
  <2>1. PICK p, pair, kind : ResumeTurn(p, pair, kind)
    BY <1>3, ResumeTypes
  <2> QED
    BY <1>3, <2>1 DEF ResumeTurn, Planned, Resume
<1>4. CASE \E p \in Path : ActionStep(p)
  BY <1>4, ActionTurn DEF JobTurn
<1>5. CASE ~ StartRun /\ ~ Crash /\ ~ Resume /\ ~ \E p \in Path : ActionStep(p)
  <2>1. CASE ScanSource \/ ScanDest \/ CollectPair \/ PairsCollected \/ StartBatch \/ PreparePair
    BY <2>1 DEF ScanSource, ScanDest, CollectPair, PairsCollected, StartBatch, PreparePair
  <2>2. CASE PlanBatch \/ YieldCompare \/ NextItem \/ Finish \/ Report \/ EndUnfinished
               \/ ScanThrows \/ AbortRun \/ CloseIterator
    BY <2>2 DEF PlanBatch, YieldCompare, NextItem, Finish, Report, EndUnfinished, ScanThrows,
                AbortRun, CloseIterator
  <2>3. CASE Others \/ \E r \in late : LateEffect(r)
    BY <2>3, ElsewhereTypes
  <2>4. CASE UNCHANGED vars
    BY <2>4 DEF vars
  <2> QED
    BY <1>5, <2>1, <2>2, <2>3, <2>4, StepsAre DEF KeepsFound
<1> QED
  BY <1>1, <1>2, <1>3, <1>4, <1>5

\* A planned job is of its path, and of the pair at hand.
LEMMA PlannedIs ==
    ASSUME SyncTypes, BatchInv, NEW q \in Path, Planned(q)
    PROVE  \E pair : /\ pair = ready[1] /\ pair \in ReadyRecord /\ q = PathOf(pair)
                     /\ pair.result = "ready" /\ 1 \in DOMAIN ready
                     /\ ~ (pair.src = None /\ pair.dst = None)
                     /\ next \in DOMAIN pairs /\ q = PathOf(pairs[next])
                     /\ job'[q].src = pair.src /\ job'[q].dst = pair.dst
                     /\ job'[q].kind = ActionFor(pair) /\ job'[q].moved = None
                     /\ job'[q].at = IF ActionFor(pair) \in Skips \/ opt.dryRun
                                     THEN "done" ELSE "start"
<1> USE DEF SyncTypes
<1>1. PICK pair, kind : ResumeTurn(q, pair, kind) /\ ~ signal /\ pair.result = "ready"
                          /\ phase = "yielded"
  BY DEF Planned
<1>2. phase \in Batching \ {"prepare"}
  BY <1>1 DEF Batching
<1>3. /\ 1 \in DOMAIN ready /\ ready[1] \in ReadyRecord
      /\ next \in DOMAIN pairs /\ PathOf(ready[1]) = PathOf(pairs[next])
      /\ ~ (ready[1].src = None /\ ready[1].dst = None)
  BY <1>2, FirstReadyIs
<1>4. pair = ready[1] /\ q = PathOf(pair) /\ kind = ActionFor(pair)
      /\ job'[q] = Scheduled(pair, kind)
  BY <1>1 DEF ResumeTurn
<1>5. PICK j : j = Scheduled(pair, kind)
  OBVIOUS
<1>6. /\ j.kind = kind /\ j.src = pair.src /\ j.dst = pair.dst
      /\ j.at = IF kind \in Skips \/ opt.dryRun THEN "done" ELSE "start"
  BY <1>3, <1>4, <1>5, ScheduledIs
<1>7. j.moved = None
  BY <1>5 DEF Scheduled, NoJob
<1> QED
  BY <1>1, <1>3, <1>4, <1>5, <1>6, <1>7

\* The source of every job stays true, and its transfer is that of the direction.
LEMMA JobsStep ==
    ASSUME SyncTypes, StoresInv, SourcesInv, BatchInv, StoreTypes', StoreTurn, [Next]_vars
    PROVE  (\A p \in Path :
              /\ job[p].src # None => SourceTrue(job[p].src) /\ job[p].src.path = p
              /\ job[p].kind \in Transfers => job[p].kind = Transfer(opt))'
<1> USE DEF SyncTypes
<1>1. SUFFICES ASSUME NEW p \in Path
               PROVE  /\ job'[p].src # None => SourceTrue(job[p].src)' /\ job'[p].src.path = p
                      /\ job'[p].kind \in Transfers => job'[p].kind = Transfer(opt)'
  OBVIOUS
<1>2. CASE job'[p] = NoJob
  <2>1. job'[p].src = None /\ job'[p].kind \notin Transfers
    BY <1>2, NoJobIs DEF Transfers
  <2> QED
    BY <2>1
<1>3. CASE job'[p] # NoJob /\ StartRun
  <2>1. job' = [q \in Path |-> NoJob]
    BY <1>3 DEF StartRun
  <2> QED
    BY <1>3, <2>1
<1>4. CASE job'[p] # NoJob /\ ~ StartRun
  <2>1. plan'.runs = plan.runs /\ opt' = opt
    BY <1>4, PlanStep DEF PlanStays
  <2>2. \A e \in EntryRecord : SourceTrue(e) => SourceTrue(e)'
    BY <2>1, EntriesStayTrue
  <2>3. CASE job'[p] = job[p] \/ ActionStep(p)
    <3>1. job'[p].src = job[p].src /\ job'[p].kind = job[p].kind
      BY <2>3, ActionTurn DEF JobTurn
    <3>2. ASSUME job'[p].src # None PROVE SourceTrue(job[p].src)' /\ job'[p].src.path = p
      <4>1. job[p].src \in EntryRecord
        BY <3>1, <3>2 DEF JobTypes, JobRecord, MaybeEntry
      <4>2. PICK e \in EntryRecord :
               e = job[p].src /\ e = job'[p].src /\ SourceTrue(e) /\ e.path = p
        BY <3>1, <3>2, <4>1 DEF SourcesInv
      <4>3. SourceTrue(e)'
        BY <2>2, <4>2
      <4> QED
        BY <4>2, <4>3 DEF SourceTrue, LocalTrue, FromTrue
    <3>3. job'[p].kind \in Transfers => job'[p].kind = Transfer(opt)'
      BY <2>1, <3>1 DEF SourcesInv, Transfer
    <3> QED
      BY <3>2, <3>3
  <2>4. CASE Planned(p)
    <3>1. PICK pair :
             /\ pair = ready[1] /\ pair \in ReadyRecord /\ p = PathOf(pair) /\ 1 \in DOMAIN ready
             /\ ~ (pair.src = None /\ pair.dst = None)
             /\ job'[p].src = pair.src /\ job'[p].kind = ActionFor(pair)
      BY <2>4, PlannedIs
    <3>2. ASSUME job'[p].src # None PROVE SourceTrue(job[p].src)' /\ job'[p].src.path = p
      <4>1. pair.src \in EntryRecord /\ SourceTrue(pair.src)
        BY <3>1, <3>2 DEF ReadyRecord, MaybeEntry, SourcesInv
      <4>2. PICK e \in EntryRecord : e = pair.src /\ SourceTrue(e) /\ e = job'[p].src
        BY <3>1, <4>1
      <4>3. SourceTrue(e)'
        BY <2>2, <4>2
      <4>4. job'[p].src.path = p
        BY <3>1, <3>2 DEF PathOf
      <4> QED
        BY <4>2, <4>3, <4>4 DEF SourceTrue, LocalTrue, FromTrue
    <3>3. job'[p].kind \in Transfers => job'[p].kind = Transfer(opt)
      BY <3>1, KindIs DEF ReadyRecord
    <3> QED
      BY <2>1, <3>2, <3>3 DEF Transfer
  <2> QED
    BY <1>4, <2>3, <2>4, JobComes
<1> QED
  BY <1>2, <1>3, <1>4
-----------------------------------------------------------------------------
(* What an action does to the files of its path.                           *)

FilesStay(p) == disk'[p] = disk[p] /\ aside'[p] = aside[p]

LinkedNew(p) ==
    /\ job[p].at = "checked" /\ job'[p].at = "done" /\ disk[p] = None
    /\ disk'[p] = Published(p) /\ aside'[p] = aside[p]

SetAside(p) ==
    /\ job[p].at = "checked" /\ job'[p].at = "moved" /\ disk[p] # None /\ disk'[p] = None
    /\ aside'[p] = aside[p] \cup {disk[p]} /\ job'[p].moved = disk[p]

LinkedOver(p) ==
    /\ job[p].at = "verified" /\ job'[p].at = "linked" /\ disk[p] = None
    /\ disk'[p] = Published(p) /\ aside'[p] = aside[p] /\ job'[p].moved = job[p].moved

Dropped(p) ==
    /\ job[p].at = "linked" /\ job'[p].at = "done" /\ disk'[p] = disk[p]
    /\ aside'[p] = aside[p] \ {job[p].moved}

PutBack(p) ==
    /\ job[p].at = "restoring" /\ job'[p].at = "failed" /\ disk[p] = None
    /\ disk'[p] = job[p].moved /\ aside'[p] = aside[p] \ {job[p].moved}

Unlinked(p) ==
    /\ job[p].at = "doomed" /\ job[p].kind = "deleteLocal" /\ job'[p].at \in {"done", "failed"}
    /\ disk'[p] = None /\ aside'[p] = aside[p]

\* Among the steps that leave the files alone are those of a replacement.
Proceeds(p) ==
    /\ FilesStay(p)
    /\ job'[p].at \in Replacing => job[p].at \in Replacing /\ job'[p].moved = job[p].moved
    /\ job'[p].at = "verified" => job[p].moved.id = job[p].dst.id
    /\ job'[p].at # "linked"
    /\ job'[p].at = "done" => job[p].at \in {"sent", "linked"}

\* A step of an action leaves the files of other paths alone, and does one of seven things to
\* its own.
LEMMA ActionFiles ==
    ASSUME SyncTypes, NEW p \in Path, ActionStep(p)
    PROVE  /\ \A q \in Path : q # p => FilesStay(q)
           /\ \/ Proceeds(p) \/ LinkedNew(p) \/ SetAside(p) \/ LinkedOver(p) \/ Dropped(p)
              \/ PutBack(p) \/ Unlinked(p)
<1> USE DEF SyncTypes
<1>0. JobTypes /\ StoreTypes /\ disk \in [Path -> FileRecord \cup {None}]
      /\ aside \in [Path -> SUBSET FileRecord]
  BY DEF StoreTypes
<1>1. CASE CaptureSource(p) \/ Stage(p)
  <2>1. UNCHANGED <<disk, aside>>
    BY <1>1 DEF CaptureSource, Stage, storeVars
  <2>2. job'[p].at \in {"failed", "captured", "staged"}
    BY <1>0, <1>1, CaptureTurn, StageTurn
  <2> QED
    BY <2>1, <2>2 DEF Proceeds, FilesStay, Replacing
<1>2. CASE ValidateSource(p) \/ ReadSource(p) \/ SendRequest(p) \/ CheckDestination(p)
             \/ CheckDoomed(p)
  <2>1. UNCHANGED <<disk, aside>>
    BY <1>2 DEF ValidateSource, ReadSource, SendRequest, CheckDestination, CheckDoomed, storeVars
  <2>2. Fail(p) \/ \E step \in {"validated", "sent", "checked", "doomed"} : Goto(p, step)
    BY <1>2 DEF ValidateSource, ReadSource, SendRequest, CheckDestination, CheckDoomed
  <2>3. {"validated", "sent", "checked", "doomed"} \subseteq Steps
    BY DEF Steps
  <2>4. job'[p].at \in {"failed", "validated", "sent", "checked", "doomed"}
    BY <1>0, <2>2, <2>3, GotoTurn, FailTurn
  <2> QED
    BY <2>1, <2>4 DEF Proceeds, FilesStay, Replacing
<1>3. CASE Answered(p) \/ Unanswered(p) \/ Refused(p) \/ Abandoned(p)
  <2>1. UNCHANGED <<disk, aside>> /\ (Done(p) \/ Fail(p)) /\ job[p].at = "sent"
    BY <1>3 DEF Answered, Unanswered, Refused, Abandoned, Effect, storeVars
  <2>2. job'[p].at \in {"done", "failed"}
    BY <1>0, <2>1, DoneTurn, FailTurn
  <2> QED
    BY <2>1, <2>2 DEF Proceeds, FilesStay, Replacing
<1>4. CASE VerifyAside(p)
  <2>1. PICK step : /\ step = IF job[p].moved.id = job[p].dst.id THEN "verified" ELSE "restoring"
                    /\ Goto(p, step)
    BY <1>4 DEF VerifyAside, Goto
  <2>2. step \in Steps
    BY <2>1 DEF Steps
  <2>3. job'[p].at = step /\ job'[p].moved = job[p].moved
    BY <1>0, <2>1, <2>2, GotoTurn
  <2>4. UNCHANGED <<disk, aside>> /\ job[p].at = "moved"
    BY <1>4 DEF VerifyAside, storeVars, At
  <2> QED
    BY <2>1, <2>3, <2>4 DEF Proceeds, FilesStay, Replacing
<1>5. CASE LinkNew(p)
  <2>1. aside' = aside /\ job[p].at = "checked"
    BY <1>5 DEF LinkNew, At
  <2>2. CASE disk[p] = None
    <3>1. Done(p) /\ disk' = [disk EXCEPT ![p] = Published(p)]
      BY <1>5, <2>2 DEF LinkNew, LinkStaged
    <3> QED
      BY <1>0, <2>1, <2>2, <3>1, DoneTurn DEF LinkedNew, FilesStay
  <2>3. CASE disk[p] # None
    <3>1. Fail(p) /\ disk' = disk
      BY <1>5, <2>3 DEF LinkNew
    <3> QED
      BY <1>0, <2>1, <3>1, FailTurn DEF Proceeds, FilesStay, Replacing
  <2> QED
    BY <2>2, <2>3
<1>6. CASE MoveAside(p)
  <2>1. job[p].at = "checked"
    BY <1>6 DEF MoveAside, At
  <2>2. CASE job'[p].at = "failed" /\ UNCHANGED <<disk, aside>>
    BY <2>2 DEF Proceeds, FilesStay, Replacing
  <2>3. CASE /\ job'[p].at = "moved" /\ disk[p] # None /\ job'[p].moved = disk[p]
             /\ disk' = [disk EXCEPT ![p] = None]
             /\ aside' = [aside EXCEPT ![p] = aside[p] \cup {disk[p]}]
    BY <1>0, <2>1, <2>3 DEF SetAside, FilesStay
  <2> QED
    BY <1>0, <1>6, <2>2, <2>3, MoveTurn
<1>7. CASE LinkOver(p)
  <2>1. aside' = aside /\ job[p].at = "verified" /\ "linked" \in Steps /\ "restoring" \in Steps
    BY <1>7 DEF LinkOver, At, Steps
  <2>2. CASE disk[p] = None
    <3>1. Goto(p, "linked") /\ disk' = [disk EXCEPT ![p] = Published(p)]
      BY <1>7, <2>2 DEF LinkOver, LinkStaged
    <3> QED
      BY <1>0, <2>1, <2>2, <3>1, GotoTurn DEF LinkedOver, FilesStay
  <2>3. CASE disk[p] # None
    <3>1. Goto(p, "restoring") /\ disk' = disk
      BY <1>7, <2>3 DEF LinkOver
    <3>2. job'[p].at = "restoring" /\ job'[p].moved = job[p].moved
      BY <1>0, <2>1, <3>1, GotoTurn
    <3> QED
      BY <2>1, <3>1, <3>2 DEF Proceeds, FilesStay, Replacing
  <2> QED
    BY <2>2, <2>3
<1>8. CASE DropAside(p)
  <2>1. disk' = disk /\ job[p].at = "linked" /\ Done(p)
    BY <1>8 DEF DropAside, At
  <2>2. job'[p].at = "done"
    BY <1>0, <2>1, DoneTurn
  <2>3. CASE aside' = aside
    BY <2>1, <2>2, <2>3 DEF Proceeds, FilesStay, Replacing
  <2>4. CASE aside' = [aside EXCEPT ![p] = @ \ {job[p].moved}]
    BY <1>0, <2>1, <2>2, <2>4 DEF Dropped, FilesStay
  <2> QED
    BY <1>8, <2>3, <2>4 DEF DropAside
<1>9. CASE Restore(p)
  <2>1. job[p].at = "restoring" /\ Fail(p)
    BY <1>9 DEF Restore, At
  <2>2. job'[p].at = "failed"
    BY <1>0, <2>1, FailTurn
  <2>3. CASE disk[p] = None
    <3>1. /\ disk' = [disk EXCEPT ![p] = job[p].moved]
          /\ aside' = [aside EXCEPT ![p] = @ \ {job[p].moved}]
      BY <1>9, <2>3 DEF Restore
    <3> QED
      BY <1>0, <2>1, <2>2, <2>3, <3>1 DEF PutBack, FilesStay
  <2>4. CASE disk[p] # None
    <3>1. UNCHANGED <<disk, aside>>
      BY <1>9, <2>4 DEF Restore
    <3> QED
      BY <2>2, <3>1 DEF Proceeds, FilesStay, Replacing
  <2> QED
    BY <2>3, <2>4
<1>10. CASE Unlink(p)
  <2>1. /\ job[p].at = "doomed" /\ job[p].kind = "deleteLocal" /\ aside' = aside
        /\ disk' = [disk EXCEPT ![p] = None] /\ (Fail(p) \/ Done(p))
    BY <1>10 DEF Unlink, At
  <2>2. job'[p].at \in {"done", "failed"}
    BY <1>0, <2>1, DoneTurn, FailTurn
  <2> QED
    BY <1>0, <2>1, <2>2 DEF Unlinked, FilesStay
<1> QED
  BY <1>1, <1>2, <1>3, <1>4, <1>5, <1>6, <1>7, <1>8, <1>9, <1>10 DEF ActionStep

\* Nobody but an action and those who edit touch the files.
LEMMA FilesKept ==
    ASSUME SyncTypes, [Next]_vars, ~ Others, ~ \E p \in Path : ActionStep(p)
    PROVE  UNCHANGED <<disk, aside>>
<1>1. CASE \E r \in late : LateEffect(r)
  BY <1>1 DEF LateEffect, Effect
<1>2. CASE ~ \E r \in late : LateEffect(r)
  BY <1>2, OtherStepsKeepStores DEF Next, storeVars
<1> QED
  BY <1>1, <1>2

\* A file that an action has set aside stays aside until the action has ended.
LEMMA AsideStep ==
    ASSUME SyncTypes, SourcesInv, BatchInv, [Next]_vars
    PROVE  \A p \in Path : job'[p].at \in Replacing => job'[p].moved \in aside'[p]
<1> USE DEF SyncTypes
<1>1. ASSUME NEW p \in Path, job'[p].at \in Replacing PROVE job'[p].moved \in aside'[p]
  <2>0. job[p].at \in Replacing => job[p].moved \in aside[p]
    BY DEF SourcesInv
  <2>1. CASE ActionStep(p)
    <3>1. \/ Proceeds(p) \/ SetAside(p) \/ LinkedOver(p)
      BY <1>1, <2>1, ActionFiles DEF LinkedNew, Dropped, PutBack, Unlinked, Replacing
    <3>2. CASE Proceeds(p)
      BY <1>1, <2>0, <3>2 DEF Proceeds, FilesStay
    <3>3. CASE SetAside(p)
      BY <3>3 DEF SetAside
    <3>4. CASE LinkedOver(p)
      BY <2>0, <3>4 DEF LinkedOver, Replacing
    <3> QED
      BY <3>1, <3>2, <3>3, <3>4
  <2>2. CASE ~ ActionStep(p)
    <3>1. job'[p].at \notin Replacing \/ job'[p] = job[p]
      <4>1. Planned(p) => job'[p].at \in {"done", "start"}
        BY PlannedIs
      <4>2. NoJob.at \notin Replacing /\ "done" \notin Replacing /\ "start" \notin Replacing
        BY NoJobIs DEF Replacing
      <4> QED
        BY <2>2, <4>1, <4>2, JobComes
    <3>2. aside'[p] = aside[p]
      <4>1. CASE Others
        BY <4>1 DEF Others, EditFile, RemoveFile, UploadElsewhere, DeleteElsewhere
      <4>2. CASE \E q \in Path : ActionStep(q)
        BY <2>2, <4>2, ActionFiles DEF FilesStay
      <4>3. CASE ~ Others /\ ~ \E q \in Path : ActionStep(q)
        BY <4>3, FilesKept
      <4> QED
        BY <4>1, <4>2, <4>3
    <3> QED
      BY <1>1, <2>0, <3>1, <3>2
  <2> QED
    BY <2>1, <2>2
<1> QED
  BY <1>1

\* Every copy on its way stays a copy of the version it was planned for.
LEMMA CopiesStep ==
    ASSUME SyncTypes, StoresInv, SourcesInv, StoreTurn, [Next]_vars
    PROVE  LateCopies'
<1> USE DEF SyncTypes
<1>1. ASSUME NEW r \in late', r.kind = "copy"
      PROVE  r.src.path = r.path /\ r.src.id < clock' /\ FromTrue(r.src)'
  <2>1. CASE r \in late
    BY <1>1, <2>1, CopiesStayTrue
  <2>2. CASE \E p \in Path : job[p].at = "sent" /\ r = Request(p)
    <3>1. PICK p \in Path : job[p].at = "sent" /\ r = Request(p)
      BY <2>2
    <3>2. r.kind = job[p].kind /\ r.path = p /\ r.src = job[p].src
      BY <3>1, RequestTypes
    <3>3. job[p].src # None /\ job[p].kind \in Transfers
      BY <1>1, <3>2 DEF JobTypes, Meant, Transfers
    <3>4. SourceTrue(r.src) /\ r.src.path = p /\ Transfer(opt) = "copy"
      BY <1>1, <3>2, <3>3 DEF SourcesInv
    <3>5. r.src \in EntryRecord
      BY <3>2, <3>3 DEF JobTypes, JobRecord, MaybeEntry
    <3>6. FromTrue(r.src) /\ r.src.id < clock
      BY <3>4 DEF SourceTrue, SourceIsLocal, Transfer
    <3>7. PICK e \in EntryRecord : e = r.src
      BY <3>5
    <3>8. e.id < clock' /\ FromTrue(e)'
      <4>1. e.path \in Path /\ e.id \in Nat
        BY DEF EntryRecord
      <4> QED
        BY <3>6, <3>7, <4>1, FromTrueStays
    <3> QED
      BY <3>2, <3>4, <3>7, <3>8
  <2>3. r \in late \/ \E p \in Path : job[p].at = "sent" /\ r = Request(p)
    <3>1. CASE \E p \in Path : ActionStep(p)
      BY <1>1, <3>1, ActionTurn DEF LateTurn
    <3>2. CASE Others \/ \E s \in late : LateEffect(s)
      BY <1>1, <3>2, ElsewhereTypes
    <3>3. CASE Crash
      BY <1>1, <3>3, CrashTypes
    <3>4. CASE StartRun \/ UNCHANGED vars
      BY <1>1, <3>4 DEF StartRun, vars
    <3>5. CASE ScanSource \/ ScanDest \/ CollectPair \/ PairsCollected \/ StartBatch
                 \/ PreparePair \/ PlanBatch
      BY <1>1, <3>5 DEF ScanSource, ScanDest, CollectPair, PairsCollected, StartBatch,
                        PreparePair, PlanBatch
    <3>6. CASE YieldCompare \/ Resume \/ NextItem \/ Finish \/ Report \/ EndUnfinished
                 \/ ScanThrows \/ AbortRun \/ CloseIterator
      BY <1>1, <3>6 DEF YieldCompare, Resume, NextItem, Finish, Report, EndUnfinished,
                        ScanThrows, AbortRun, CloseIterator
    <3> QED
      BY <3>1, <3>2, <3>3, <3>4, <3>5, <3>6, StepsAre DEF KeepsFound
  <2> QED
    BY <2>1, <2>2, <2>3
<1> QED
  BY <1>1 DEF LateCopies

\* Every step preserves SourcesInv.
LEMMA SourcesStep ==
    ASSUME SyncTypes, StoresInv, SourcesInv, BatchInv, StoreTypes', StoreTurn, [Next]_vars
    PROVE  SourcesInv'
<1>1. (\A i \in DOMAIN found["src"] : SourceTrue(found["src"][i]))'
  BY FoundStep
<1>2. (\A k \in DOMAIN pairs : pairs[k].src # None => SourceTrue(pairs[k].src))'
  BY PairsStep
<1>3. (\A k \in DOMAIN ready : ready[k].src # None => SourceTrue(ready[k].src))'
  BY ReadyStep
<1>4. (\A p \in Path : /\ job[p].src # None => SourceTrue(job[p].src) /\ job[p].src.path = p
                       /\ job[p].kind \in Transfers => job[p].kind = Transfer(opt))'
  BY JobsStep
<1>5. \A p \in Path : job'[p].at \in Replacing => job'[p].moved \in aside'[p]
  BY AsideStep
<1>6. LateCopies'
  BY CopiesStep
<1> QED
  BY <1>1, <1>2, <1>3, <1>4, <1>5, <1>6 DEF SourcesInv, LateCopies

-----------------------------------------------------------------------------
(* The core of the invariant.                                              *)

CoreInv == SyncTypes /\ IdsInv /\ SourcesInv /\ BatchInv

\* The steps of the generator keep the types.
LEMMA GeneratorTypes ==
    ASSUME SyncTypes, StoresInv, BatchInv, StoreTypes', GeneratorStep
    PROVE  RunTypes' /\ JobTypes'
<1>1. CASE NextItem
  <2>1. ready # <<>>
    BY <1>1 DEF BatchInv, Batching, NextItem
  <2> QED
    BY <1>1, <2>1, NextItemTypes
<1>2. CASE ~ NextItem
  BY <1>2, ScanTypes, CollectTypes, QuietTypes, StartBatchTypes, PrepareTypes, PlanBatchTypes,
     ResumeTypes DEF GeneratorStep
<1> QED
  BY <1>1, <1>2

\* Every step preserves CoreInv, and is a turn of the stores.
LEMMA CoreStep ==
    ASSUME CoreInv, [Next]_vars
    PROVE  CoreInv' /\ StoreTurn /\ StoreTypes' /\ StoresInv
<1>1. SyncTypes /\ StoresInv /\ SourcesInv /\ BatchInv
  BY DEF CoreInv, SyncTypes, StoresInv
<1>2. StoreTypes' /\ StoreTurn
  BY <1>1, NextStores
<1>3. RunTypes' /\ JobTypes'
  <2>1. CASE GeneratorStep
    BY <1>1, <1>2, <2>1, GeneratorTypes
  <2>2. CASE StartRun \/ Crash
    BY <1>1, <2>2, StartRunTypes, CrashTypes
  <2>3. CASE \E p \in Path : ActionStep(p)
    BY <1>1, <2>3, ActionTypes
  <2>4. CASE Others \/ \E r \in late : LateEffect(r)
    BY <1>1, <2>4, ElsewhereTypes
  <2>5. CASE ScanThrows \/ AbortRun \/ CloseIterator \/ UNCHANGED vars
    BY <1>1, <1>2, <2>5, QuietTypes
  <2> QED
    BY <2>1, <2>2, <2>3, <2>4, <2>5 DEF Next
<1>4. IdsInv'
  BY <1>1, <1>2, IdsStay DEF SourcesInv
<1>5. SourcesInv'
  BY <1>1, <1>2, SourcesStep
<1>6. BatchInv'
  BY <1>1, BatchStep
<1> QED
  BY <1>1, <1>2, <1>3, <1>4, <1>5, <1>6 DEF CoreInv, SyncTypes
-----------------------------------------------------------------------------
(* The start.                                                              *)

\* The versions a scenario starts with have ids of their own and digests that are true.
LEMMA InitialVersionsAre ==
    ASSUME NEW p \in Path, NEW s \in Seq(Data \X Sha), Len(s) <= 3,
           \A i \in DOMAIN s : s[i][2].kind = "verified" => s[i][2].value = s[i][1],
           NEW w, w = InitialVersions(p, s)
    PROVE  /\ w \in Seq(VersionRecord) /\ DOMAIN w = DOMAIN s
           /\ \A i \in DOMAIN w : /\ w[i].id < 4 * N + 1 /\ TrueSha(w[i])
                                  /\ w[i].data \in Data /\ w[i].action = "upload"
           /\ \A i, j \in DOMAIN w : w[i].id = w[j].id => w[i] = w[j]
<1>0. N \in Nat /\ p \in Nat /\ 1 <= p /\ p <= N
  BY PathAssumption DEF Path
<1> DEFINE id(i) == N + p + (Len(s) - i) * N
<1>1. DOMAIN w = 1 .. Len(s) /\ DOMAIN s = 1 .. Len(s) /\ Len(s) \in 0 .. 3
  <2>1. DOMAIN s = 1 .. Len(s) /\ Len(s) \in Nat
    OBVIOUS
  <2>2. DOMAIN w = DOMAIN s
    BY DEF InitialVersions
  <2>3. Len(s) \in 0 .. 3
    BY <2>1
  <2> QED
    BY <2>1, <2>2, <2>3
<1>2. \A i \in DOMAIN w : w[i] = [id |-> id(i), action |-> "upload",
                                  data |-> s[i][1], sha |-> s[i][2]]
  BY DEF InitialVersions
<1>3. \A i \in DOMAIN w : /\ Len(s) - i \in {0, 1, 2}
                          /\ (Len(s) - i = 0 => id(i) = N + p)
                          /\ (Len(s) - i = 1 => id(i) = N + p + N)
                          /\ (Len(s) - i = 2 => id(i) = N + p + 2 * N)
  <2> SUFFICES ASSUME NEW i \in DOMAIN w
               PROVE  /\ Len(s) - i \in {0, 1, 2}
                      /\ (Len(s) - i = 0 => id(i) = N + p)
                      /\ (Len(s) - i = 1 => id(i) = N + p + N)
                      /\ (Len(s) - i = 2 => id(i) = N + p + 2 * N)
    OBVIOUS
  <2>1. Len(s) - i \in {0, 1, 2}
    BY <1>1
  <2>2. 0 * N = 0 /\ 1 * N = N
    BY <1>0
  <2> QED
    BY <1>0, <2>1, <2>2
<1>4. \A i \in DOMAIN w : s[i][1] \in Data /\ s[i][2] \in Sha
  BY <1>1
<1> HIDE DEF id
<1>5. \A i \in DOMAIN w : w[i].id = id(i) /\ w[i].action = "upload" /\ w[i].data = s[i][1]
                          /\ w[i].sha = s[i][2]
  BY <1>2
<1>6. \A i \in DOMAIN w : id(i) \in Nat /\ id(i) < 4 * N + 1
  BY <1>0, <1>3
<1>7. \A i \in DOMAIN w : w[i] \in VersionRecord
  BY <1>2, <1>4, <1>6 DEF VersionRecord
<1>8. w \in Seq(VersionRecord)
  <2>1. w = [i \in 1 .. Len(s) |-> w[i]]
    BY <1>1 DEF InitialVersions
  <2> QED
    BY <1>1, <1>7, <2>1
<1>9. \A i, j \in DOMAIN w : id(i) = id(j) => i = j
  <2> SUFFICES ASSUME NEW i \in DOMAIN w, NEW j \in DOMAIN w, id(i) = id(j) PROVE i = j
    OBVIOUS
  <2>1. i \in Nat /\ j \in Nat /\ Len(s) \in Nat
    BY <1>1
  <2>2. Len(s) - i = Len(s) - j
    BY <1>0, <1>3, <2>1
  <2> QED
    BY <2>1, <2>2
<1>10. \A i \in DOMAIN w : TrueSha(w[i])
  BY <1>1, <1>5 DEF TrueSha
<1> QED
  BY <1>1, <1>4, <1>5, <1>6, <1>8, <1>9, <1>10

\* At the start the stores are well formed.
LEMMA StoresStart ==
    ASSUME Init
    PROVE  StoreTypes /\ IdsInv
<1>0. /\ plan \in Plan /\ plan \in PlanRecord /\ N \in Nat /\ clock = 4 * N + 1
      /\ \A p \in Path : p \in Nat /\ p < 4 * N + 1
  BY PlanAssumption, PathAssumption DEF Init, Path
<1>1. ASSUME NEW p \in Path
      PROVE  /\ disk[p] \in FileRecord \cup {None}
             /\ disk[p] # None => disk[p].id < clock
  <2>1. plan.disk[p] \in Data \cup {None}
    BY <1>0 DEF PlanRecord
  <2>2. disk[p] = IF plan.disk[p] = None THEN None ELSE [id |-> p, data |-> plan.disk[p]]
    BY DEF Init, InitialFile
  <2> QED
    BY <1>0, <2>1, <2>2 DEF FileRecord
<1>2. disk \in [Path -> FileRecord \cup {None}]
  BY <1>1 DEF Init
<1>3. aside = [p \in Path |-> {}] /\ aside \in [Path -> SUBSET FileRecord]
  BY DEF Init
<1>4. ASSUME NEW f \in Folder, NEW p \in Path
      PROVE  /\ remote[f][p] \in Seq(VersionRecord)
             /\ \A i \in DOMAIN remote[f][p] :
                   /\ remote[f][p][i].id < clock /\ TrueSha(remote[f][p][i])
                   /\ remote[f][p][i].data \in Data /\ remote[f][p][i].action = "upload"
             /\ \A i, j \in DOMAIN remote[f][p] :
                   remote[f][p][i].id = remote[f][p][j].id => remote[f][p][i] = remote[f][p][j]
  <2>1. PICK s : s = plan.remote[f][p]
    OBVIOUS
  <2>2. s \in Seq(Data \X Sha)
    BY <1>0, <2>1 DEF PlanRecord
  <2>3. /\ Len(s) <= 3
        /\ \A i \in DOMAIN s : s[i][2].kind = "verified" => s[i][2].value = s[i][1]
    BY <1>0, <2>1, ScenarioAssumption
  <2>4. remote[f][p] = InitialVersions(p, s)
    BY <2>1 DEF Init
  <2> QED
    BY <1>0, <2>2, <2>3, <2>4, InitialVersionsAre
<1>5. remote \in [Folder -> [Path -> Seq(VersionRecord)]]
  BY <1>4 DEF Init
<1>6. StoreTypes
  BY <1>0, <1>2, <1>3, <1>4, <1>5 DEF StoreTypes, UploadsHaveData
<1>7. IdsInv
  BY <1>1, <1>3, <1>4 DEF IdsInv
<1> QED
  BY <1>6, <1>7

\* CoreInv holds at the start.
LEMMA CoreStart ==
    ASSUME Init
    PROVE  CoreInv
<1>1. StoreTypes /\ IdsInv
  BY StoresStart
<1>2. /\ plan \in PlanRecord /\ plan.runs # <<>>
  BY PlanAssumption, ScenarioAssumption DEF Init
<1>3. job = [p \in Path |-> NoJob] /\ late = {} /\ pairs = <<>> /\ ready = <<>>
      /\ found = [src |-> <<>>, dst |-> <<>>]
  BY DEF Init
<1>4. found \in [{"src", "dst"} -> Seq(EntryRecord)] /\ found["src"] = <<>>
  BY <1>3, NothingFound
<1>5. /\ pairs \in Seq(PairRecord) /\ DOMAIN pairs = {}
      /\ ready \in Seq(ReadyRecord) /\ DOMAIN ready = {} /\ DOMAIN found["src"] = {}
  BY <1>3, <1>4
<1>6. at \in [src : Nat \ {0}, dst : Nat \ {0}]
  BY DEF Init
<1>7. RunTypes
  <2>1. /\ phase = "idle" /\ stop = FALSE /\ signal = FALSE /\ now = 0 /\ clean = TRUE
        /\ scanned = {} /\ had = {} /\ incomplete = FALSE /\ scanError = FALSE
        /\ next = 1 /\ queued = {} /\ yielded = {} /\ failed = {} /\ aggregate = FALSE
        /\ completed = FALSE
    BY DEF Init
  <2>2. "idle" \in SyncPhases
    BY DEF SyncPhases
  <2>3. /\ phase \in SyncPhases /\ now \in Nat /\ clean \in BOOLEAN
        /\ stop \in BOOLEAN /\ signal \in BOOLEAN /\ next \in Nat \ {0}
        /\ aggregate \in BOOLEAN /\ completed \in BOOLEAN
        /\ scanError \in BOOLEAN /\ incomplete \in BOOLEAN
    <3>1. phase \in SyncPhases /\ now \in Nat /\ next \in Nat \ {0}
      BY <2>1, <2>2
    <3>2. /\ clean \in BOOLEAN /\ stop \in BOOLEAN /\ signal \in BOOLEAN
          /\ aggregate \in BOOLEAN /\ completed \in BOOLEAN
          /\ scanError \in BOOLEAN /\ incomplete \in BOOLEAN
      BY <2>1, Zenon
    <3> QED
      BY <3>1, <3>2
  <2>4. /\ scanned \subseteq {"src", "dst"} /\ had \subseteq Path
        /\ yielded \subseteq Path /\ queued \subseteq Path /\ failed \subseteq Path
    BY <2>1
  <2>5. /\ \A k \in DOMAIN pairs : ~ (pairs[k].src = None /\ pairs[k].dst = None)
        /\ \A k \in DOMAIN ready : ~ (ready[k].src = None /\ ready[k].dst = None)
    BY <1>5
  <2> QED
    BY <1>2, <1>4, <1>5, <1>6, <2>3, <2>4, <2>5 DEF RunTypes
<1>8. JobTypes
  BY <1>3, NoJobIs DEF JobTypes
<1>9. SourcesInv
  <2>1. \A p \in Path : /\ job[p].src = None /\ job[p].kind \notin Transfers
                        /\ job[p].at \notin Replacing
    BY <1>3, NoJobIs DEF Transfers, Replacing
  <2> QED
    BY <1>3, <1>5, <2>1 DEF SourcesInv
<1>10. BatchInv
  BY DEF Init, BatchInv, Batching
<1> QED
  BY <1>1, <1>7, <1>8, <1>9, <1>10 DEF CoreInv, SyncTypes
-----------------------------------------------------------------------------
(* No file is lost.                                                        *)

\* The types, the identities of files and versions, the sources of what is planned and the shape
\* of the batch hold throughout every sequence of runs, crashes and edits.
THEOREM SyncCore == Spec => []CoreInv
<1>1. Init => CoreInv
  BY CoreStart
<1>2. CoreInv /\ [Next]_vars => CoreInv'
  BY CoreStep
<1> QED
  BY <1>1, <1>2, PTL DEF Spec

\* What is dropped was the scanned file, and when nobody edits, the file that took its place
\* is there by then.
FilesInv ==
    /\ plan.quiet => plan.edits = 0
    /\ \A p \in Path :
          /\ job[p].at \in {"verified", "linked"} => job[p].moved.id = job[p].dst.id
          /\ plan.quiet /\ job[p].at = "linked" => disk[p] # None

\* Those who edit are counted, and nobody edits in a quiet scenario.
LEMMA EditsStep ==
    ASSUME CoreInv, [Next]_vars
    PROVE  /\ plan'.quiet = plan.quiet /\ plan'.edits <= plan.edits /\ plan'.edits \in Nat
           /\ plan.edits \in Nat
           /\ Others => ByOthers /\ plan.edits > 0
<1>1. /\ SyncTypes /\ StoresInv /\ StoreTypes' /\ plan \in PlanRecord /\ plan' \in PlanRecord
      /\ CoreInv'
  BY CoreStep DEF CoreInv, SyncTypes, RunTypes
<1>2. plan.edits \in Nat /\ plan'.edits \in Nat
  BY <1>1 DEF PlanRecord
<1>3. CASE StartRun
  <2>1. ~ Others
    BY <1>3, <1>1 DEF StartRun, Others
  <2> QED
    BY <1>1, <1>2, <1>3, <2>1, StartRunTypes
<1>4. CASE ~ StartRun
  <2>1. plan'.quiet = plan.quiet /\ plan'.edits <= plan.edits
    BY <1>1, <1>4, PlanStep DEF PlanStays
  <2>2. Others => ByOthers /\ plan.edits > 0
    BY <1>1, SpendSpends DEF Others, ByOthers, Budget
  <2> QED
    BY <1>2, <2>1, <2>2
<1> QED
  BY <1>3, <1>4

\* FilesInv holds at the start.
LEMMA FilesInvStart ==
    ASSUME Init
    PROVE  FilesInv
<1>1. plan \in Plan /\ plan.quiet => plan.edits = 0
  BY ScenarioAssumption
<1>2. \A p \in Path : job[p].at = "off"
  BY NoJobIs DEF Init
<1> QED
  BY <1>1, <1>2 DEF Init, FilesInv

\* Every step preserves FilesInv.
LEMMA FilesInvStep ==
    ASSUME CoreInv, FilesInv, [Next]_vars
    PROVE  FilesInv'
<1>0. /\ SyncTypes /\ StoresInv /\ SourcesInv /\ BatchInv /\ StoreTypes /\ JobTypes
  BY DEF CoreInv, SyncTypes, StoresInv
<1>1. plan'.quiet = plan.quiet /\ (plan'.quiet => plan'.edits = 0)
  BY EditsStep DEF FilesInv
<1>2. ASSUME NEW p \in Path, ActionStep(p)
      PROVE  /\ job'[p].at \in {"verified", "linked"} => job'[p].moved.id = job'[p].dst.id
             /\ plan'.quiet /\ job'[p].at = "linked" => disk'[p] # None
  <2>1. JobTurn(p) /\ job'[p].dst = job[p].dst
    BY <1>0, <1>2, ActionTurn DEF JobTurn
  <2>2. Published(p) # None \/ job[p].at # "verified"
    BY <1>0, PublishedIs, RecordAssumption DEF Fetched, Replacing
  <2>3. CASE Proceeds(p)
    <3>1. job'[p].at = "verified" => job'[p].moved = job[p].moved
      BY <2>3 DEF Proceeds, Replacing
    <3> QED
      BY <2>1, <2>3, <3>1 DEF Proceeds
  <2>4. CASE LinkedOver(p)
    <3>1. job[p].moved.id = job[p].dst.id
      BY <2>4 DEF LinkedOver, FilesInv
    <3> QED
      BY <2>1, <2>2, <2>4, <3>1 DEF LinkedOver
  <2>5. CASE LinkedNew(p) \/ SetAside(p) \/ Dropped(p) \/ PutBack(p) \/ Unlinked(p)
    BY <2>5 DEF LinkedNew, SetAside, Dropped, PutBack, Unlinked
  <2> QED
    BY <1>0, <1>2, <2>3, <2>4, <2>5, ActionFiles
<1>3. ASSUME NEW p \in Path, NEW q \in Path, p # q, ActionStep(q)
      PROVE  job'[p] = job[p] /\ disk'[p] = disk[p]
  BY <1>0, <1>3, ActionTurn, ActionFiles DEF JobTurn, FilesStay
<1>4. ASSUME NEW p \in Path, ~ \E q \in Path : ActionStep(q)
      PROVE  job'[p] = job[p] \/ job'[p].at \notin {"verified", "linked"}
  <2>1. Planned(p) => job'[p].at \in {"done", "start"}
    BY <1>0, PlannedIs
  <2> QED
    BY <1>0, <1>4, <2>1, JobComes, NoJobIs
<1>5. ASSUME ~ \E q \in Path : ActionStep(q)
      PROVE  disk' = disk \/ ~ plan'.quiet
  <2>1. CASE Others
    BY <1>1, <2>1, EditsStep DEF FilesInv
  <2>2. CASE ~ Others
    BY <1>0, <1>5, <2>2, FilesKept
  <2> QED
    BY <2>1, <2>2
<1>6. ASSUME NEW p \in Path
      PROVE  /\ job'[p].at \in {"verified", "linked"} => job'[p].moved.id = job'[p].dst.id
             /\ plan'.quiet /\ job'[p].at = "linked" => disk'[p] # None
  BY <1>1, <1>2, <1>3, <1>4, <1>5 DEF FilesInv
<1> QED
  BY <1>1, <1>6 DEF FilesInv

\* What a step does to the files of a path, when it is of nobody outside.
LEMMA FilesTurn ==
    ASSUME CoreInv, FilesInv, [Next]_vars, ~ Others, NEW p \in Path
    PROVE  /\ \A f \in FilesOf(p) \ FilesOf(p)' :
                 job[p].at = "doomed" \/ (job[p].dst # None /\ f.id = job[p].dst.id)
           /\ plan.quiet /\ FilesOf(p) # {} /\ job[p].kind # "deleteLocal" => FilesOf(p)' # {}
<1>0. /\ SyncTypes /\ StoresInv /\ SourcesInv /\ BatchInv /\ StoreTypes /\ JobTypes
  BY DEF CoreInv, SyncTypes, StoresInv
<1>1. FilesOf(p)' = aside'[p] \cup ({disk'[p]} \ {None})
  BY DEF FilesOf
<1>2. CASE disk'[p] = disk[p] /\ aside'[p] = aside[p]
  BY <1>1, <1>2 DEF FilesOf
<1>3. CASE ActionStep(p)
  <2>1. Meant(job[p]) /\ job[p] \in JobRecord /\ disk[p] \in FileRecord \cup {None}
    BY <1>0 DEF JobTypes, StoreTypes
  <2>2. job[p].at \in Fetched => Published(p) # None
    BY <1>0, PublishedIs, RecordAssumption
  <2>3. job[p].at \in Replacing => job[p].moved # None /\ job[p].dst # None
    BY <2>1, RecordAssumption DEF Meant
  <2>4. CASE Proceeds(p)
    BY <1>2, <2>4 DEF Proceeds, FilesStay
  <2>5. CASE LinkedNew(p)
    BY <1>1, <2>2, <2>5 DEF LinkedNew, FilesOf, Fetched
  <2>6. CASE SetAside(p)
    BY <1>1, <2>6 DEF SetAside, FilesOf
  <2>7. CASE LinkedOver(p)
    BY <1>1, <2>2, <2>7 DEF LinkedOver, FilesOf, Fetched, Replacing
  <2>8. CASE Dropped(p)
    <3>1. job[p].dst # None /\ job[p].moved.id = job[p].dst.id
      BY <2>3, <2>8 DEF Dropped, Replacing, FilesInv
    <3>2. plan.quiet => disk[p] # None
      BY <2>8 DEF Dropped, FilesInv
    <3> QED
      BY <1>1, <2>8, <3>1, <3>2 DEF Dropped, FilesOf
  <2>9. CASE PutBack(p)
    BY <1>1, <2>3, <2>9 DEF PutBack, FilesOf, Replacing
  <2>10. CASE Unlinked(p)
    BY <1>1, <2>10 DEF Unlinked, FilesOf
  <2> QED
    BY <1>0, <1>3, <2>4, <2>5, <2>6, <2>7, <2>8, <2>9, <2>10, ActionFiles
<1>4. CASE ~ ActionStep(p)
  <2>1. CASE \E q \in Path : ActionStep(q)
    BY <1>0, <1>2, <1>4, <2>1, ActionFiles DEF FilesStay
  <2>2. CASE ~ \E q \in Path : ActionStep(q)
    BY <1>0, <1>2, <2>2, FilesKept
  <2> QED
    BY <2>1, <2>2
<1> QED
  BY <1>3, <1>4

\* No file of the directory is lost to a run: neither one its scan never saw, nor, whenever
\* the process dies, both the file it replaces and its replacement (publishDownload,
\* deleteLocalFileInsideRoot).
THEOREM NoFileIsLost == Spec => FilesSurvive
<1>1. Init => FilesInv
  BY FilesInvStart
<1>2. CoreInv /\ FilesInv /\ [Next]_vars => FilesInv'
  BY FilesInvStep
<1>3. CoreInv /\ FilesInv /\ [Next]_vars =>
         [ByOthers \/ \A p \in Path : \A f \in FilesOf(p) \ FilesOf(p)' :
             job[p].at = "doomed" \/ (job[p].dst # None /\ f.id = job[p].dst.id)]_vars
  <2> SUFFICES ASSUME CoreInv, FilesInv, [Next]_vars
               PROVE  ByOthers \/ \A p \in Path : \A f \in FilesOf(p) \ FilesOf(p)' :
                         job[p].at = "doomed" \/ (job[p].dst # None /\ f.id = job[p].dst.id)
    OBVIOUS
  <2>1. CASE Others
    BY <2>1, EditsStep
  <2>2. CASE ~ Others
    BY <2>2, FilesTurn
  <2> QED
    BY <2>1, <2>2
<1>4. CoreInv /\ FilesInv /\ [Next]_vars =>
         [plan.quiet => \A p \in Path :
             FilesOf(p) # {} /\ job[p].kind # "deleteLocal" => FilesOf(p)' # {}]_vars
  <2> SUFFICES ASSUME CoreInv, FilesInv, [Next]_vars
               PROVE  plan.quiet => \A p \in Path :
                         FilesOf(p) # {} /\ job[p].kind # "deleteLocal" => FilesOf(p)' # {}
    OBVIOUS
  <2>1. plan.quiet => ~ Others
    <3>1. /\ plan.quiet => plan.edits = 0
          /\ Others => plan.edits > 0
      BY EditsStep DEF FilesInv
    <3> QED
      BY <3>1
  <2> QED
    BY <2>1, FilesTurn
<1> QED
  BY <1>1, <1>2, <1>3, <1>4, SyncCore, PTL DEF Spec, FilesSurvive, KeepsUnseenFiles, OldOrNew
-----------------------------------------------------------------------------
(* Every pair has an outcome.                                              *)

Waiting == {"idle", "scan", "pair", "report", "done"}
Going   == Batching \cup {"batch"}

\* When the generator is not at its batches, nothing runs; a failed scan is reported, and no
\* action is planned then.
GeneratorInv ==
    /\ next <= Len(pairs) + 1
    /\ phase \in Waiting => Running = {}
    /\ completed => phase = "done"
    /\ phase = "report" => scanError
    /\ phase \in Going => ~ scanError

\* The pairs the generator has passed have an outcome, or an action that runs.
Told == yielded \cup queued \cup Running
Handled(k) == PathOf(pairs[k]) \in Told

OutcomesInv ==
    /\ phase \in Going => \A k \in DOMAIN pairs : k < next => Handled(k)
    /\ phase = "slots" => Handled(next)
    /\ phase \in {"emit", "yielded", "slots"} =>
          \A k \in DOMAIN ready :
              ready[k].result # "ready" => PathOf(ready[k]) \in yielded \cup queued
    /\ \A p \in Path : job[p].at = "failed" => p \in failed
    /\ completed =>
          /\ ~ scanError => \A k \in DOMAIN pairs : PathOf(pairs[k]) \in yielded
          /\ aggregate = (scanError \/ failed # {})

\* The steps that are not of a job.
Jobless ==
    \/ ScanSource \/ ScanDest \/ CollectPair \/ PairsCollected
    \/ StartBatch \/ PreparePair \/ PlanBatch \/ YieldCompare \/ NextItem
    \/ Finish \/ Report \/ EndUnfinished \/ ScanThrows \/ AbortRun \/ CloseIterator
    \/ (\E r \in late : LateEffect(r)) \/ Others \/ UNCHANGED vars

\* Jobs change when a run starts, crashes, resumes or an action steps, and otherwise never.
LEMMA JoblessSteps ==
    ASSUME [Next]_vars
    PROVE  Jobless \/ StartRun \/ Crash \/ Resume \/ \E p \in Path : ActionStep(p)
BY DEF Next, GeneratorStep, Jobless

\* What was told stays told, or waits to be.
LEMMA JoblessTold ==
    ASSUME Jobless
    PROVE  /\ job' = job /\ yielded \cup queued \subseteq yielded' \cup queued'
           /\ yielded \subseteq yielded' /\ failed \subseteq failed'
<1> USE DEF Flush, NothingQueued, runVars
<1>1. CASE ScanSource \/ ScanDest
  BY <1>1 DEF ScanSource, ScanDest
<1>2. CASE CollectPair \/ PairsCollected
  BY <1>2 DEF CollectPair, PairsCollected
<1>3. CASE StartBatch \/ PreparePair
  BY <1>3 DEF StartBatch, PreparePair
<1>4. CASE PlanBatch \/ YieldCompare \/ NextItem
  BY <1>4 DEF PlanBatch, YieldCompare, NextItem
<1>5. CASE Finish \/ Report \/ EndUnfinished
  BY <1>5 DEF Finish, Report, EndUnfinished
<1>6. CASE ScanThrows \/ AbortRun \/ CloseIterator
  BY <1>6 DEF ScanThrows, AbortRun, CloseIterator
<1>7. CASE Others \/ UNCHANGED vars
  BY <1>7 DEF Others, vars
<1>8. CASE \E r \in late : LateEffect(r)
  BY <1>8 DEF LateEffect, unchangedByActions
<1> QED
  BY <1>1, <1>2, <1>3, <1>4, <1>5, <1>6, <1>7, <1>8 DEF Jobless

\* A step of an action tells outcomes and takes none back.
LEMMA ActionTold ==
    ASSUME SyncTypes, NEW p \in Path, ActionStep(p)
    PROVE  /\ job[p].at \in Steps /\ Told \subseteq Told' /\ queued \subseteq queued'
           /\ UNCHANGED <<phase, scanError, pairs, next, ready, yielded, aggregate, completed>>
           /\ \A q \in Path : (job[q].at = "failed" => q \in failed)
                  => (job'[q].at = "failed" => q \in failed')
<1>1. /\ JobTurn(p) /\ job[p].at \in Steps /\ UNCHANGED unchangedByActions
  BY ActionTurn
<1>2. UNCHANGED <<phase, scanError, pairs, next, ready, yielded, aggregate, completed>>
  BY <1>1 DEF unchangedByActions, scanVars, pairVars
<1>3. queued \subseteq queued' /\ failed \subseteq failed'
  BY <1>1 DEF JobTurn
<1>4. ASSUME NEW q \in Path
      PROVE  /\ q \in Running => q \in Running' \/ q \in queued'
             /\ (job[q].at = "failed" => q \in failed)
                    => (job'[q].at = "failed" => q \in failed')
  <2>1. job'[q].at = "failed" => job'[q].at \notin Steps
    BY DEF Steps
  <2> QED
    BY <1>1, <1>3, <2>1 DEF JobTurn, Running
<1>5. Running \subseteq Running' \cup queued'
  BY <1>4 DEF Running
<1>6. Told' = yielded' \cup queued' \cup Running'
  BY DEF Told
<1> QED
  BY <1>1, <1>2, <1>3, <1>4, <1>5, <1>6 DEF Told

\* The pair at hand is told of, or its action has begun.
LEMMA ResumeTold ==
    ASSUME SyncTypes, BatchInv, Resume
    PROVE  /\ Told \subseteq Told' /\ yielded' = yielded \cup queued
           /\ ready[1].result = "ready" /\ ~ signal => PathOf(ready[1]) \in Told'
           /\ phase = "yielded" /\ phase' = IF signal THEN "abort" ELSE "slots"
           /\ UNCHANGED <<scanError, pairs, next, ready, failed, aggregate, completed>>
           /\ \A q \in Path : job'[q] = job[q] \/ job'[q].at # "failed"
<1>1. /\ yielded' = yielded \cup queued
      /\ phase = "yielded" /\ phase' = IF signal THEN "abort" ELSE "slots"
      /\ UNCHANGED <<scanError, pairs, next, ready, failed, aggregate, completed>>
  BY DEF Resume, scanVars, pairVars
<1>2. PICK p, pair, kind : ResumeTurn(p, pair, kind)
  BY ResumeTypes
<1>3. ~ signal /\ pair.result = "ready" =>
          /\ job'[p].at \in {"done", "start"}
          /\ p \in Running' \/ p \in queued'
  <2> SUFFICES ASSUME ~ signal, pair.result = "ready"
               PROVE  job'[p].at \in {"done", "start"} /\ (p \in Running' \/ p \in queued')
    OBVIOUS
  <2>1. job'[p] = Scheduled(pair, kind)
        /\ queued' = IF kind \in Skips \/ opt.dryRun THEN {p} ELSE {}
    BY <1>2 DEF ResumeTurn
  <2>2. Scheduled(pair, kind).at = IF kind \in Skips \/ opt.dryRun THEN "done" ELSE "start"
    <3>1. /\ pair = ready[1] /\ kind = ActionFor(pair) /\ pair \in ReadyRecord /\ RunTypes
          /\ ~ (pair.src = None /\ pair.dst = None)
      BY <1>1, <1>2, FirstReadyIs DEF ResumeTurn, Batching, SyncTypes
    <3> QED
      BY <3>1, ScheduledIs
  <2>3. p \in Path
    BY <1>2 DEF ResumeTurn
  <2> QED
    BY <2>1, <2>2, <2>3 DEF Running, Steps
<1>4. ASSUME NEW q \in Running
      PROVE  q \in Running' \/ q \in queued'
  <2>1. q = p \/ job'[q] = job[q]
    BY <1>2 DEF ResumeTurn, Running
  <2>2. q = p /\ ~ (~ signal /\ pair.result = "ready") => job'[q] = job[q]
    BY <1>2 DEF ResumeTurn
  <2> QED
    BY <1>3, <2>1, <2>2 DEF Running
<1>5. Told' = yielded' \cup queued' \cup Running'
  BY DEF Told
<1>6. Told \subseteq Told'
  BY <1>1, <1>4, <1>5 DEF Told
<1>7. ready[1].result = "ready" /\ ~ signal => PathOf(ready[1]) \in Told'
  BY <1>2, <1>3, <1>5 DEF ResumeTurn
<1>8. \A q \in Path : job'[q] = job[q] \/ job'[q].at # "failed"
  BY <1>2, <1>3 DEF ResumeTurn
<1> QED
  BY <1>1, <1>6, <1>7, <1>8

\* Every step preserves GeneratorInv.
LEMMA GeneratorInvStep ==
    ASSUME CoreInv, GeneratorInv, [Next]_vars
    PROVE  GeneratorInv'
<1>0. /\ SyncTypes /\ BatchInv /\ RunTypes /\ next \in Nat \ {0} /\ pairs \in Seq(PairRecord)
      /\ Len(pairs) \in Nat
  BY DEF CoreInv, SyncTypes, RunTypes
<1> DEFINE Good == /\ next' <= Len(pairs') + 1
                   /\ phase' \in Waiting => Running' = {}
                   /\ completed' => phase' = "done"
                   /\ phase' = "report" => scanError'
                   /\ phase' \in Going => ~ scanError'
<1>1. job' = job => Running' = Running
  BY DEF Running
<1>2. CASE \E p \in Path : ActionStep(p)
  <2>1. PICK p \in Path : ActionStep(p)
    BY <1>2
  <2>2. /\ job[p].at \in Steps
        /\ UNCHANGED <<phase, scanError, pairs, next, completed>>
    BY <1>0, <2>1, ActionTold
  <2>3. phase \notin Waiting
    BY <2>2 DEF GeneratorInv, Running
  <2> QED
    BY <2>2, <2>3 DEF GeneratorInv
<1>3. CASE Resume
  BY <1>0, <1>3, ResumeTold DEF GeneratorInv, Waiting, Going, Batching
<1>4. CASE StartRun \/ Crash
  <2>1. \A p \in Path : job'[p] = NoJob
    BY <1>4 DEF StartRun, Crash
  <2>2. Running' = {}
    BY <2>1, NoJobIs DEF Running, Steps
  <2>3. CASE StartRun
    <3>1. /\ phase' = "scan" /\ completed' = FALSE /\ next' = 1 /\ pairs' = <<>>
      BY <2>3 DEF StartRun
    <3>2. Len(pairs') = 0
      BY <3>1
    <3> QED
      BY <2>2, <3>1, <3>2 DEF Going, Batching, GeneratorInv
  <2>4. CASE Crash
    BY <2>2, <2>4 DEF Crash, Going, Batching, pairVars, runVars, GeneratorInv
  <2> QED
    BY <1>4, <2>3, <2>4 DEF GeneratorInv
<1>5. CASE Jobless
  <2>0. job' = job /\ Running' = Running
    BY <1>1, <1>5, JoblessTold
  <2> USE DEF Waiting, Going, Batching, GeneratorInv, runVars, pairVars, scanVars
  <2>1. CASE ScanSource \/ ScanDest
    <3>1. /\ phase = "scan" /\ phase' \in {"scan", "pair"}
          /\ UNCHANGED <<next, pairs, completed>>
      BY <2>1 DEF ScanSource, ScanDest, Scan
    <3> QED
      BY <2>0, <3>1
  <2>2. CASE CollectPair
    <3>1. /\ phase = "pair" /\ UNCHANGED <<phase, next, completed, scanError>>
          /\ pairs' = Append(pairs, NextPair)
      BY <2>2 DEF CollectPair
    <3>2. Len(pairs') = Len(pairs) + 1
      BY <1>0, <3>1
    <3> QED
      BY <1>0, <2>0, <3>1, <3>2
  <2>3. CASE PairsCollected
    BY <2>0, <2>3 DEF PairsCollected
  <2>4. CASE StartBatch
    BY <2>0, <2>4 DEF StartBatch
  <2>5. CASE PreparePair
    BY <2>0, <2>5 DEF PreparePair
  <2>6. CASE PlanBatch
    BY <2>0, <2>6 DEF PlanBatch
  <2>7. CASE YieldCompare
    BY <2>0, <2>7 DEF YieldCompare
  <2>8. CASE NextItem
    <3>1. /\ phase = "slots" /\ next' = next + 1 /\ phase' \in {"batch", "emit"}
          /\ UNCHANGED <<pairs, completed, scanError>>
      BY <2>8 DEF NextItem
    <3>2. next \in DOMAIN pairs
      BY <1>0, <3>1, FirstReadyIs
    <3>3. next + 1 <= Len(pairs) + 1
      BY <1>0, <3>2
    <3> QED
      BY <2>0, <3>1, <3>3
  <2>9. CASE Finish \/ EndUnfinished \/ Report
    BY <2>0, <2>9 DEF Finish, EndUnfinished, Report
  <2>10. CASE ScanThrows
    BY <2>0, <2>10 DEF ScanThrows
  <2>11. CASE AbortRun \/ CloseIterator
    BY <2>0, <2>11 DEF AbortRun, CloseIterator, Suspended
  <2>12. CASE Others \/ UNCHANGED vars
    BY <2>0, <2>12 DEF Others, vars
  <2>13. CASE \E r \in late : LateEffect(r)
    BY <2>0, <2>13 DEF LateEffect, unchangedByActions
  <2> QED
    BY <1>5, <2>1, <2>2, <2>3, <2>4, <2>5, <2>6, <2>7, <2>8, <2>9, <2>10, <2>11, <2>12, <2>13
    DEF Jobless
<1> QED
  BY <1>2, <1>3, <1>4, <1>5, JoblessSteps DEF GeneratorInv

\* GeneratorInv and OutcomesInv hold at the start.
LEMMA GeneratorInvStart ==
    ASSUME Init
    PROVE  GeneratorInv /\ OutcomesInv
<1>1. \A p \in Path : job[p].at = "off"
  BY NoJobIs DEF Init
<1>2. Running = {}
  BY <1>1 DEF Running, Steps
<1>3. /\ pairs = <<>> /\ next = 1 /\ phase = "idle" /\ completed = FALSE
  BY DEF Init
<1>4. Len(pairs) = 0
  BY <1>3
<1>5. GeneratorInv
  BY <1>2, <1>3, <1>4 DEF GeneratorInv, Going, Batching
<1>6. OutcomesInv
  BY <1>1, <1>3 DEF OutcomesInv, Going, Batching
<1> QED
  BY <1>5, <1>6

\* What a generator at its batches comes from.
LEMMA GoingStep ==
    ASSUME CoreInv, [Next]_vars
    PROVE  /\ phase' \in Going =>
                 \/ PairsCollected /\ next' = 1
                 \/ phase \in Going /\ pairs' = pairs /\ (next' = next \/ NextItem)
           /\ phase' = "slots" =>
                 \/ phase = "slots" /\ pairs' = pairs /\ next' = next
                 \/ Resume
           /\ phase' \in {"emit", "yielded", "slots"} =>
                 \/ phase \in {"emit", "yielded", "slots"} /\ ready' = ready
                 \/ StartBatch \/ PlanBatch \/ NextItem
           /\ completed' =>
                 \/ Finish \/ Report
                 \/ /\ completed
                    /\ \/ phase # "done" \/ Running # {}
                       \/ UNCHANGED <<scanError, pairs, yielded, aggregate, failed>>
<1>0. SyncTypes /\ BatchInv
  BY DEF CoreInv
<1> USE DEF Going, Batching
<1>1. CASE \E p \in Path : ActionStep(p)
  <2>1. PICK p \in Path : ActionStep(p)
    BY <1>1
  <2>2. /\ job[p].at \in Steps
        /\ UNCHANGED <<phase, pairs, next, ready, completed>>
    BY <1>0, <2>1, ActionTold
  <2>3. Running # {}
    BY <2>2 DEF Running
  <2> QED
    BY <2>2, <2>3
<1>2. CASE Resume
  BY <1>0, <1>2, ResumeTold
<1>3. CASE StartRun \/ Crash
  BY <1>3 DEF StartRun, Crash, Active, runVars
<1>4. CASE Jobless
  <2> USE DEF runVars, pairVars, scanVars
  <2>1. CASE ScanSource \/ ScanDest
    BY <2>1 DEF ScanSource, ScanDest, Scan
  <2>2. CASE CollectPair
    BY <2>2 DEF CollectPair
  <2>3. CASE PairsCollected
    BY <1>0, <2>3 DEF PairsCollected, BatchInv
  <2>4. CASE StartBatch
    BY <2>4 DEF StartBatch
  <2>5. CASE PreparePair
    BY <2>5 DEF PreparePair
  <2>6. CASE PlanBatch
    BY <2>6 DEF PlanBatch
  <2>7. CASE YieldCompare
    BY <2>7 DEF YieldCompare
  <2>8. CASE NextItem
    BY <2>8 DEF NextItem
  <2>9. CASE Finish \/ EndUnfinished \/ Report
    BY <2>9 DEF Finish, EndUnfinished, Report
  <2>10. CASE ScanThrows
    BY <2>10 DEF ScanThrows
  <2>11. CASE AbortRun \/ CloseIterator
    BY <2>11 DEF AbortRun, CloseIterator, Active
  <2>12. CASE Others \/ UNCHANGED vars
    BY <2>12 DEF Others, vars
  <2>13. CASE \E r \in late : LateEffect(r)
    BY <2>13 DEF LateEffect, unchangedByActions
  <2> QED
    BY <1>4, <2>1, <2>2, <2>3, <2>4, <2>5, <2>6, <2>7, <2>8, <2>9, <2>10, <2>11, <2>12, <2>13
    DEF Jobless
<1> QED
  BY <1>1, <1>2, <1>3, <1>4, JoblessSteps

\* What has been told of is told of, within a run.
LEMMA ToldStep ==
    ASSUME CoreInv, [Next]_vars, ~ StartRun, ~ Crash
    PROVE  /\ Told \subseteq Told' /\ failed \subseteq failed'
           /\ yielded \cup queued \subseteq yielded' \cup queued'
           /\ \A q \in Path : (job[q].at = "failed" => q \in failed)
                  => (job'[q].at = "failed" => q \in failed')
<1>0. SyncTypes /\ BatchInv
  BY DEF CoreInv
<1>1. CASE \E p \in Path : ActionStep(p)
  <2>1. PICK p \in Path : ActionStep(p)
    BY <1>1
  <2>2. failed \subseteq failed'
    BY <1>0, <2>1, ActionTurn DEF JobTurn
  <2> QED
    BY <1>0, <2>1, <2>2, ActionTold
<1>2. CASE Resume
  BY <1>0, <1>2, ResumeTold
<1>3. CASE Jobless
  <2>1. Told' = yielded' \cup queued' \cup Running'
    BY DEF Told
  <2>2. job' = job /\ Running' = Running
    BY <1>3, JoblessTold DEF Running
  <2> QED
    BY <1>3, <2>1, <2>2, JoblessTold DEF Told
<1> QED
  BY <1>1, <1>2, <1>3, JoblessSteps

\* A pair that could not be prepared is yielded or queued before the batch goes on.
LEMMA UnreadyTold ==
    ASSUME CoreInv, OutcomesInv, [Next]_vars,
           phase' \in {"emit", "yielded", "slots"},
           NEW k \in DOMAIN ready', ready'[k].result # "ready"
    PROVE  PathOf(ready'[k]) \in yielded' \cup queued'
<1>0. SyncTypes /\ BatchInv /\ RunTypes
  BY DEF CoreInv, SyncTypes
<1>1. CASE phase \in {"emit", "yielded", "slots"} /\ ready' = ready
  <2>1. PathOf(ready[k]) \in yielded \cup queued
    BY <1>1 DEF OutcomesInv
  <2>2. ~ StartRun /\ ~ Crash
    BY DEF StartRun, Crash
  <2> QED
    BY <1>1, <2>1, <2>2, ToldStep
<1>2. CASE StartBatch
  BY <1>0, <1>2, StartBatchTypes
<1>3. CASE PlanBatch
  <2>1. /\ ready' = ready /\ ~ signal
        /\ queued' = queued \cup PathsWith({"skipped", "error"})
    BY <1>3 DEF PlanBatch
  <2>2. ready[k].result \in {"skipped", "error"}
    <3>1. k \in DOMAIN ready /\ ready \in Seq(ReadyRecord) /\ ready[k].result # "ready"
      BY <1>0, <2>1 DEF RunTypes
    <3>2. ready[k] \in ReadyRecord
      BY <3>1
    <3> QED
      BY <3>1, <3>2 DEF ReadyRecord
  <2>3. PathOf(ready[k]) \in PathsWith({"skipped", "error"})
    BY <2>1, <2>2 DEF PathsWith
  <2> QED
    BY <2>1, <2>3
<1>4. CASE NextItem
  <2>1. phase = "slots" /\ ready # <<>>
    BY <1>0, <1>4 DEF NextItem, BatchInv, Batching
  <2>2. k + 1 \in DOMAIN ready /\ ready'[k] = ready[k + 1]
    BY <1>0, <1>4, <2>1, NextItemTypes
  <2>3. PathOf(ready[k + 1]) \in yielded \cup queued
    BY <2>1, <2>2 DEF OutcomesInv
  <2>4. ~ StartRun /\ ~ Crash
    BY DEF StartRun, Crash
  <2> QED
    BY <2>2, <2>3, <2>4, ToldStep
<1> QED
  BY <1>1, <1>2, <1>3, <1>4, GoingStep

\* Every pair the generator has passed has its outcome told.
LEMMA PassedTold ==
    ASSUME CoreInv, OutcomesInv, [Next]_vars, phase' \in Going,
           NEW k \in DOMAIN pairs', k < next'
    PROVE  PathOf(pairs'[k]) \in Told'
<1>0. SyncTypes /\ BatchInv /\ RunTypes /\ next \in Nat \ {0} /\ pairs' \in Seq(PairRecord)
  BY CoreStep DEF CoreInv, SyncTypes, RunTypes
<1>1. k \in Nat \ {0}
  BY <1>0
<1>2. phase \in Going /\ pairs' = pairs /\ (next' = next \/ NextItem)
  BY <1>1, GoingStep
<1>3. PathOf(pairs[k]) \in Told
  <2>1. CASE next' = next
    BY <1>2, <2>1 DEF OutcomesInv, Handled
  <2>2. CASE NextItem
    <3>1. phase = "slots" /\ next' = next + 1
      BY <2>2 DEF NextItem
    <3>2. k < next \/ k = next
      BY <1>0, <1>1, <3>1
    <3> QED
      BY <1>2, <3>1, <3>2 DEF OutcomesInv, Handled
  <2> QED
    BY <1>2, <2>1, <2>2
<1>4. ~ StartRun /\ ~ Crash
  BY DEF StartRun, Crash, Going, Batching
<1> QED
  BY <1>2, <1>3, <1>4, ToldStep

\* The generator leaves an item when its outcome is told.
LEMMA SlotsTold ==
    ASSUME CoreInv, OutcomesInv, [Next]_vars, phase' = "slots"
    PROVE  PathOf(pairs'[next']) \in Told'
<1>0. SyncTypes /\ BatchInv /\ RunTypes
  BY DEF CoreInv, SyncTypes
<1>1. ~ StartRun /\ ~ Crash
  BY DEF StartRun, Crash
<1>2. CASE phase = "slots" /\ pairs' = pairs /\ next' = next
  BY <1>1, <1>2, ToldStep DEF OutcomesInv, Handled
<1>3. CASE Resume
  <2>1. /\ phase = "yielded" /\ ~ signal /\ pairs' = pairs /\ next' = next
        /\ yielded' = yielded \cup queued
        /\ ready[1].result = "ready" => PathOf(ready[1]) \in Told'
    BY <1>0, <1>3, ResumeTold
  <2>2. 1 \in DOMAIN ready /\ PathOf(ready[1]) = PathOf(pairs[next])
    BY <1>0, <2>1, FirstReadyIs DEF Batching
  <2>3. ready[1].result # "ready" => PathOf(ready[1]) \in yielded'
    BY <2>1, <2>2 DEF OutcomesInv
  <2>4. Told' = yielded' \cup queued' \cup Running'
    BY DEF Told
  <2> QED
    BY <2>1, <2>2, <2>3, <2>4
<1> QED
  BY <1>2, <1>3, GoingStep

\* A run that completes without a scan error has yielded every pair, and throws when one failed.
LEMMA CompletedTold ==
    ASSUME CoreInv, GeneratorInv, OutcomesInv, [Next]_vars, completed'
    PROVE  /\ ~ scanError' => \A k \in DOMAIN pairs' : PathOf(pairs'[k]) \in yielded'
           /\ aggregate' = (scanError' \/ failed' # {})
<1>0. RunTypes /\ next \in Nat \ {0} /\ pairs \in Seq(PairRecord)
  BY DEF CoreInv, SyncTypes, RunTypes
<1>1. CASE completed /\ UNCHANGED <<scanError, pairs, yielded, aggregate, failed>>
  BY <1>1 DEF OutcomesInv
<1>2. CASE Finish
  <2>1. /\ phase = "batch" /\ next > Len(pairs) /\ Running = {}
        /\ yielded' = yielded \cup queued /\ aggregate' = (failed # {})
        /\ UNCHANGED <<scanError, pairs, failed>>
    BY <1>2 DEF Finish, Flush, scanVars, pairVars
  <2>2. ~ scanError
    BY <2>1 DEF GeneratorInv, Going
  <2>3. \A k \in DOMAIN pairs : k < next
    BY <1>0, <2>1
  <2>4. \A k \in DOMAIN pairs : PathOf(pairs[k]) \in Told
    BY <2>1, <2>3 DEF OutcomesInv, Handled, Going
  <2> QED
    BY <2>1, <2>2, <2>4 DEF Told
<1>3. CASE Report
  <2>1. phase = "report" /\ aggregate' = TRUE /\ scanError' = scanError
    BY <1>3 DEF Report, scanVars
  <2>2. scanError
    BY <2>1 DEF GeneratorInv
  <2> QED
    BY <2>1, <2>2
<1>4. \/ Finish \/ Report
      \/ completed /\ UNCHANGED <<scanError, pairs, yielded, aggregate, failed>>
  <2>1. completed => phase = "done" /\ Running = {}
    BY DEF GeneratorInv, Waiting
  <2>2. \/ Finish \/ Report
        \/ /\ completed
           /\ \/ phase # "done" \/ Running # {}
              \/ UNCHANGED <<scanError, pairs, yielded, aggregate, failed>>
    BY GoingStep
  <2> QED
    BY <2>1, <2>2
<1> QED
  BY <1>1, <1>2, <1>3, <1>4

\* Every step preserves OutcomesInv.
LEMMA OutcomesStep ==
    ASSUME CoreInv, GeneratorInv, OutcomesInv, [Next]_vars
    PROVE  OutcomesInv'
<1>1. phase' \in Going => \A k \in DOMAIN pairs' : k < next' => PathOf(pairs'[k]) \in Told'
  BY PassedTold
<1>2. phase' = "slots" => PathOf(pairs'[next']) \in Told'
  BY SlotsTold
<1>3. phase' \in {"emit", "yielded", "slots"} =>
          \A k \in DOMAIN ready' :
              ready'[k].result # "ready" => PathOf(ready'[k]) \in yielded' \cup queued'
  BY UnreadyTold
<1>4. \A p \in Path : job'[p].at = "failed" => p \in failed'
  <2>1. CASE StartRun \/ Crash
    BY <2>1, NoJobIs DEF StartRun, Crash
  <2>2. CASE ~ StartRun /\ ~ Crash
    BY <2>2, ToldStep DEF OutcomesInv
  <2> QED
    BY <2>1, <2>2
<1>5. completed' =>
          /\ ~ scanError' => \A k \in DOMAIN pairs' : PathOf(pairs'[k]) \in yielded'
          /\ aggregate' = (scanError' \/ failed' # {})
  BY CompletedTold
<1> QED
  BY <1>1, <1>2, <1>3, <1>4, <1>5 DEF OutcomesInv, Handled, PathOf

\* A run that completed told its consumer the outcome of every pair, and closed with an error
\* event exactly when something failed (drainQueuedEvents, waitForRunning, the closing of
\* synchronize).
THEOREM EveryOutcomeTold == Spec => []EveryOutcomeYielded
<1>1. Init => GeneratorInv /\ OutcomesInv
  BY GeneratorInvStart
<1>2. CoreInv /\ GeneratorInv /\ OutcomesInv /\ [Next]_vars => GeneratorInv' /\ OutcomesInv'
  BY GeneratorInvStep, OutcomesStep
<1>3. OutcomesInv => EveryOutcomeYielded
  BY DEF OutcomesInv, EveryOutcomeYielded
<1> QED
  BY <1>1, <1>2, <1>3, SyncCore, PTL DEF Spec
-----------------------------------------------------------------------------
(* Digests.                                                                *)

\* No entry a run works with claims a verified digest that is not that of its bytes.
HonestInv ==
    /\ \A i \in DOMAIN found["src"] : TrueSha(found["src"][i])
    /\ \A i \in DOMAIN found["dst"] : TrueSha(found["dst"][i])
    /\ \A k \in DOMAIN pairs : HonestEntry(pairs[k].src) /\ HonestEntry(pairs[k].dst)
    /\ \A k \in DOMAIN ready : HonestEntry(ready[k].src) /\ HonestEntry(ready[k].dst)

\* What a step may do to the scans.
LEMMA ScansComes ==
    ASSUME CoreInv, [Next]_vars
    PROVE  \/ StartRun /\ found'["src"] = <<>> /\ found'["dst"] = <<>>
           \/ /\ ScanSource /\ found'["dst"] = found["dst"] /\ Ordered(found'["src"])
              /\ \A i \in DOMAIN found'["src"] : found'["src"][i] \in SourceEntries
              /\ scanError' \/ \A e \in SourceEntries \ Passed :
                                  \E i \in DOMAIN found'["src"] : found'["src"][i] = e
           \/ /\ ScanDest /\ found'["src"] = found["src"] /\ Ordered(found'["dst"])
              /\ \A i \in DOMAIN found'["dst"] : found'["dst"][i] \in DestEntries
              /\ scanError => scanError'
           \/ KeepsFound /\ found' = found
<1>0. SyncTypes /\ RunTypes /\ StoresInv
  BY DEF CoreInv, SyncTypes, StoresInv
<1>1. CASE StartRun
  <2>1. found'["src"] = <<>> /\ found'["dst"] = <<>>
    BY <1>1, NothingFound DEF StartRun
  <2> QED
    BY <1>1, <2>1
<1>2. CASE ScanSource
  <2>1. PICK E, local : E = SourceEntries \ Passed /\ local = SourceIsLocal
    OBVIOUS
  <2>2. Scan("src", E, local)
    BY <1>2, <2>1 DEF ScanSource, Scan
  <2>3. /\ E \in SUBSET EntryRecord /\ \A a, b \in E : a.path = b.path => a = b
    BY <1>0, <2>1, SideEntriesAre
  <2>4. /\ Ordered(found'["src"]) /\ \A i \in DOMAIN found'["src"] : found'["src"][i] \in E
        /\ found'["dst"] = found["dst"]
        /\ scanError' \/ \A e \in E : \E i \in DOMAIN found'["src"] : found'["src"][i] = e
    BY <1>0, <2>2, <2>3, ScanTurn
  <2> QED
    BY <1>2, <2>1, <2>4
<1>3. CASE ScanDest
  <2>1. PICK E, local : E = DestEntries /\ local = DestIsLocal
    OBVIOUS
  <2>2. Scan("dst", E, local)
    BY <1>3, <2>1 DEF ScanDest, Scan
  <2>3. /\ E \in SUBSET EntryRecord /\ \A a, b \in E : a.path = b.path => a = b
    BY <1>0, <2>1, SideEntriesAre
  <2>4. /\ Ordered(found'["dst"]) /\ \A i \in DOMAIN found'["dst"] : found'["dst"][i] \in E
        /\ found'["src"] = found["src"] /\ (scanError => scanError')
    BY <1>0, <2>2, <2>3, ScanTurn
  <2> QED
    BY <1>3, <2>1, <2>4
<1>4. CASE KeepsFound
  BY <1>0, <1>4, FoundKept
<1> QED
  BY <1>1, <1>2, <1>3, <1>4, StepsAre

\* A pair that was collected, or the one at the heads of the scans.
LEMMA PairComes ==
    ASSUME CoreInv, [Next]_vars, ~ StartRun
    PROVE  \A k \in DOMAIN pairs' :
              \/ k \in DOMAIN pairs /\ pairs'[k] = pairs[k]
              \/ CollectPair /\ k = Len(pairs) + 1 /\ pairs'[k] = NextPair
<1>0. SyncTypes /\ RunTypes
  BY DEF CoreInv, SyncTypes
<1>1. CASE CollectPair
  <2>1. /\ pairs' = Append(pairs, NextPair) /\ Len(pairs') = Len(pairs) + 1
        /\ pairs'[Len(pairs) + 1] = NextPair /\ Len(pairs) \in Nat
        /\ \A k \in DOMAIN pairs : k \in DOMAIN pairs' /\ pairs'[k] = pairs[k]
        /\ RunTypes'
    BY <1>0, <1>1, CollectTypes
  <2>2. pairs \in Seq(PairRecord) /\ pairs' \in Seq(PairRecord)
    BY <1>0, <2>1 DEF RunTypes
  <2>3. \A k \in DOMAIN pairs' : k \in DOMAIN pairs \/ k = Len(pairs) + 1
    BY <2>1, <2>2
  <2> QED
    BY <1>1, <2>1, <2>3
<1>2. CASE ~ CollectPair
  BY <1>0, <1>2, PairsKept
<1> QED
  BY <1>1, <1>2

\* Either side of the next pair is at the head of its scan.
LEMMA NextPairFound ==
    ASSUME RunTypes, CollectPair
    PROVE  /\ NextPair.src # None => /\ at["src"] \in DOMAIN found["src"]
                                     /\ NextPair.src = found["src"][at["src"]]
           /\ NextPair.dst # None => /\ at["dst"] \in DOMAIN found["dst"]
                                     /\ NextPair.dst = found["dst"][at["dst"]]
<1>1. ~ Exhausted
  BY DEF CollectPair
<1>2. NextPair.src # None => NextPair.src = HeadOf("src") /\ HeadOf("src") # None
  BY <1>1, NextPairIs
<1>3. NextPair.dst # None => NextPair.dst = HeadOf("dst") /\ HeadOf("dst") # None
  BY <1>1, NextPairIs
<1> QED
  BY <1>2, <1>3, HeadOfIs

\* HonestInv holds at the start.
LEMMA HonestStart ==
    ASSUME Init
    PROVE  HonestInv
<1>1. found["src"] = <<>> /\ found["dst"] = <<>>
  BY NothingFound DEF Init
<1>2. pairs = <<>> /\ ready = <<>>
  BY DEF Init
<1> QED
  BY <1>1, <1>2 DEF HonestInv

\* Every step preserves HonestInv: what was compared has the digest it claims.
LEMMA HonestStep ==
    ASSUME CoreInv, HonestInv, [Next]_vars
    PROVE  HonestInv'
<1>0. SyncTypes /\ RunTypes /\ StoresInv /\ BatchInv
  BY DEF CoreInv, SyncTypes, StoresInv
<1>1. /\ \A i \in DOMAIN found'["src"] : TrueSha(found'["src"][i])
      /\ \A i \in DOMAIN found'["dst"] : TrueSha(found'["dst"][i])
  <2>1. /\ \A e \in SourceEntries : TrueSha(e)
        /\ \A e \in DestEntries : TrueSha(e)
    BY <1>0, SideEntriesAre
  <2> QED
    BY <2>1, ScansComes DEF HonestInv
<1>2. CASE StartRun
  BY <1>1, <1>2, NothingCollected DEF HonestInv
<1>3. CASE ~ StartRun
  <2>1. ASSUME NEW k \in DOMAIN pairs'
        PROVE  HonestEntry(pairs'[k].src) /\ HonestEntry(pairs'[k].dst)
    <3>1. CASE k \in DOMAIN pairs /\ pairs'[k] = pairs[k]
      BY <3>1 DEF HonestInv
    <3>2. CASE CollectPair /\ pairs'[k] = NextPair
      BY <1>0, <3>2, NextPairFound DEF HonestInv, HonestEntry
    <3> QED
      BY <1>3, <3>1, <3>2, PairComes
  <2>2. ASSUME NEW k \in DOMAIN ready'
        PROVE  HonestEntry(ready'[k].src) /\ HonestEntry(ready'[k].dst)
    <3>1. CASE \E m \in DOMAIN ready : ready'[k] = ready[m]
      BY <3>1 DEF HonestInv
    <3>2. CASE \E m \in DOMAIN pairs : ReadyOf(ready'[k], pairs[m])
      BY <3>2 DEF HonestInv, ReadyOf
    <3> QED
      BY <1>0, <1>3, <3>1, <3>2, ReadyComes
  <2> QED
    BY <1>1, <2>1, <2>2 DEF HonestInv
<1> QED
  BY <1>2, <1>3

\* A path is told up to date only when the compared contents were the same.
LEMMA SameStep ==
    ASSUME CoreInv, HonestInv, SameMeansSame, [Next]_vars
    PROVE  SameMeansSame'
<1>0. SyncTypes /\ RunTypes /\ StoresInv /\ BatchInv /\ StoreTypes'
  BY CoreStep DEF CoreInv, SyncTypes, StoresInv
<1> SUFFICES ASSUME NEW p \in Path, job'[p].kind = "same", opt'.compareMode = "sha1"
             PROVE  job'[p].src.data = job'[p].dst.data
  BY DEF SameMeansSame
<1>1. job'[p] # NoJob /\ ~ StartRun
  <2>1. StartRun => job'[p] = NoJob
    BY DEF StartRun
  <2> QED
    BY <2>1, NoJobIs
<1>2. opt' = opt
  BY <1>0, <1>1, PlanStep
<1>3. CASE job'[p] = job[p] \/ ActionStep(p)
  <2>1. job'[p].src = job[p].src /\ job'[p].dst = job[p].dst /\ job'[p].kind = job[p].kind
    BY <1>0, <1>3, ActionTurn DEF JobTurn
  <2> QED
    BY <1>2, <2>1 DEF SameMeansSame
<1>4. CASE Planned(p)
  <2>1. PICK pair :
           /\ pair = ready[1] /\ pair \in ReadyRecord /\ 1 \in DOMAIN ready
           /\ ~ (pair.src = None /\ pair.dst = None)
           /\ job'[p].src = pair.src /\ job'[p].dst = pair.dst /\ job'[p].kind = ActionFor(pair)
    BY <1>0, <1>4, PlannedIs
  <2>2. /\ pair.src # None /\ pair.dst # None
        /\ ~ FilesAreDifferent(pair.src, pair.dst, opt)
    BY <1>0, <2>1, KindIs DEF ReadyRecord
  <2>3. TrueSha(pair.src) /\ TrueSha(pair.dst)
    BY <2>1, <2>2 DEF HonestInv, HonestEntry
  <2>4. ProvenEqual(pair.src.sha, pair.dst.sha)
    BY <1>2, <2>2 DEF FilesAreDifferent
  <2> QED
    BY <2>1, <2>3, <2>4 DEF ProvenEqual, TrueSha
<1> QED
  BY <1>0, <1>1, <1>3, <1>4, JobComes
-----------------------------------------------------------------------------
(* What an action carries.                                                 *)

\* An upload carries what the scan saw, or will find that it does not; so does a download.
HeldInv ==
    \A p \in Path :
        /\ At(p, "upload", "captured") =>
              IF job[p].held.id = job[p].src.id THEN job[p].held.data = job[p].src.data
              ELSE ~ IsFile(p, job[p].src)
        /\ At(p, "upload", "validated") => job[p].held.data = job[p].src.data
        /\ At(p, "upload", "sent") => job[p].held.data = job[p].src.data
        /\ job[p].at \in Fetched => job[p].held.data = job[p].src.data
        /\ plan.quiet /\ job[p].at = "linked" => disk[p].data = job[p].src.data

\* The steps of an action that learn what it carries, or go on with it.
Captured(p) ==
    /\ At(p, "upload", "start") /\ job'[p].at = "captured" /\ disk'[p] = disk[p]
    /\ disk[p] # None /\ job'[p].held = disk[p]
Validated(p) ==
    /\ At(p, "upload", "captured") /\ job'[p].at = "validated" /\ IsFile(p, job[p].src)
    /\ job'[p].held = job[p].held
ReadBack(p) ==
    /\ At(p, "upload", "validated") /\ job'[p].at = "sent" /\ job'[p].held = job[p].held
Fetches(p) ==
    /\ At(p, "download", "start") /\ job'[p].at = "staged"
    /\ HasVersion(FromFolder, p, job[p].src.id)
    /\ job'[p].held = VersionOf(FromFolder, p, job[p].src.id)
GoesOn(p) ==
    /\ job[p].kind = "download" /\ job[p].at \in Fetched /\ job'[p].at \in Fetched
    /\ job'[p].held = job[p].held
    /\ job'[p].at = "linked" => disk'[p] = Published(p)
OfNoTransfer(p) ==
    job[p].kind \in Remotes \cup {"deleteLocal"} /\ job'[p].at \in {"sent", "doomed"}

\* A step of an action ends it, changes what it holds in one of four ways, or goes on.
LEMMA HeldTurn ==
    ASSUME SyncTypes, NEW p \in Path, ActionStep(p)
    PROVE  \/ job'[p].at \in {"done", "failed"}
           \/ Captured(p) \/ Validated(p) \/ ReadBack(p) \/ Fetches(p) \/ GoesOn(p)
           \/ OfNoTransfer(p)
<1> USE DEF SyncTypes
<1>0. /\ JobTypes /\ StoreTypes /\ JobTurn(p) /\ job[p].at \in Steps
      /\ disk \in [Path -> FileRecord \cup {None}]
  BY ActionTurn DEF StoreTypes
<1>1. CASE CaptureSource(p)
  <2>1. disk' = disk /\ At(p, "upload", "start")
    BY <1>1 DEF CaptureSource, storeVars
  <2> QED
    BY <1>0, <1>1, <2>1, CaptureTurn DEF Captured
<1>2. CASE ValidateSource(p)
  <2>1. /\ At(p, "upload", "captured") /\ "validated" \in Steps
        /\ Fail(p) \/ (IsFile(p, job[p].src) /\ Goto(p, "validated"))
    BY <1>2 DEF ValidateSource, Steps
  <2> QED
    BY <1>0, <2>1, FailTurn, GotoTurn DEF Validated
<1>3. CASE ReadSource(p)
  <2>1. At(p, "upload", "validated") /\ "sent" \in Steps /\ (Fail(p) \/ Goto(p, "sent"))
    BY <1>3 DEF ReadSource, Steps
  <2> QED
    BY <1>0, <2>1, FailTurn, GotoTurn DEF ReadBack
<1>4. CASE SendRequest(p)
  <2>1. job[p].kind \in Remotes /\ "sent" \in Steps /\ (Fail(p) \/ Goto(p, "sent"))
    BY <1>4 DEF SendRequest, At, Steps
  <2> QED
    BY <1>0, <2>1, FailTurn, GotoTurn DEF OfNoTransfer
<1>5. CASE Answered(p) \/ Unanswered(p) \/ Refused(p) \/ Abandoned(p)
  <2>1. Done(p) \/ Fail(p)
    BY <1>5 DEF Answered, Unanswered, Refused, Abandoned
  <2> QED
    BY <1>0, <2>1, FailTurn, DoneTurn
<1>6. CASE Stage(p)
  BY <1>0, <1>6, StageTurn DEF Stage, Fetches
<1>7. CASE CheckDestination(p)
  <2>1. At(p, "download", "staged") /\ "checked" \in Steps /\ (Fail(p) \/ Goto(p, "checked"))
    BY <1>7 DEF CheckDestination, Steps
  <2> QED
    BY <1>0, <2>1, FailTurn, GotoTurn DEF GoesOn, At, Fetched, Replacing
<1>8. CASE LinkNew(p) \/ DropAside(p) \/ Restore(p) \/ Unlink(p)
  <2>1. Done(p) \/ Fail(p)
    BY <1>8 DEF LinkNew, DropAside, Restore, Unlink
  <2> QED
    BY <1>0, <2>1, FailTurn, DoneTurn
<1>9. CASE MoveAside(p)
  <2>1. At(p, "download", "checked")
    BY <1>9 DEF MoveAside
  <2> QED
    BY <1>0, <1>9, <2>1, MoveTurn DEF GoesOn, At, Fetched, Replacing
<1>10. CASE VerifyAside(p)
  <2>1. PICK step \in {"verified", "restoring"} : Goto(p, step)
    BY <1>10 DEF VerifyAside
  <2>2. step \in Steps /\ At(p, "download", "moved")
    BY <1>10 DEF VerifyAside, Steps
  <2>3. job'[p].at = step /\ job'[p].held = job[p].held
    BY <1>0, <2>1, <2>2, GotoTurn
  <2> QED
    BY <2>1, <2>2, <2>3 DEF GoesOn, At, Fetched, Replacing
<1>11. CASE LinkOver(p)
  <2>1. PICK step \in {"linked", "restoring"} :
           Goto(p, step) /\ (step = "linked" => disk' = [disk EXCEPT ![p] = Published(p)])
    BY <1>11 DEF LinkOver, LinkStaged
  <2>2. step \in Steps /\ At(p, "download", "verified")
    BY <1>11 DEF LinkOver, Steps
  <2>3. job'[p].at = step /\ job'[p].held = job[p].held
    BY <1>0, <2>1, <2>2, GotoTurn
  <2>4. step = "linked" => disk'[p] = Published(p)
    BY <1>0, <2>1
  <2> QED
    BY <2>1, <2>2, <2>3, <2>4 DEF GoesOn, At, Fetched, Replacing
<1>12. CASE CheckDoomed(p)
  <2>1. At(p, "deleteLocal", "start") /\ "doomed" \in Steps /\ (Fail(p) \/ Goto(p, "doomed"))
    BY <1>12 DEF CheckDoomed, Steps
  <2> QED
    BY <1>0, <2>1, FailTurn, GotoTurn DEF OfNoTransfer, At
<1> QED
  BY <1>1, <1>2, <1>3, <1>4, <1>5, <1>6, <1>7, <1>8, <1>9, <1>10, <1>11, <1>12 DEF ActionStep

\* The options of a run are options, of one of the three directions.
LEMMA OptIs ==
    ASSUME RunTypes
    PROVE  opt \in RunOptions /\ opt.direction \in Directions
<1>1. plan.runs \in Seq(RunOptions) /\ plan.runs # <<>>
  BY DEF RunTypes, PlanRecord
<1>2. opt \in RunOptions
  BY <1>1 DEF opt
<1> QED
  BY <1>2 DEF RunOptions

\* What an upload has is what its scan saw when the file is still that one.
LEMMA LocalSource ==
    ASSUME CoreInv, NEW p \in Path, job[p].kind = "upload", job[p].at \in Steps
    PROVE  /\ job[p].src # None /\ job[p].src.id < clock /\ job[p].src.id \in Nat
           /\ IsFile(p, job[p].src) => disk[p].data = job[p].src.data
<1>1. Meant(job[p]) /\ job[p] \in JobRecord
  BY DEF CoreInv, SyncTypes, JobTypes
<1>2. job[p].src # None /\ job[p].src \in EntryRecord
  BY <1>1 DEF Meant, Transfers, JobRecord, MaybeEntry
<1>3. SourceTrue(job[p].src) /\ job[p].src.path = p /\ Transfer(opt) = "upload"
  BY <1>2 DEF CoreInv, SourcesInv, Transfers
<1>4. SourceIsLocal
  <2>1. opt.direction \in Directions
    BY OptIs DEF CoreInv, SyncTypes
  <2> QED
    BY <1>3, <2>1 DEF Transfer, Directions, SourceIsLocal
<1> QED
  BY <1>2, <1>3, <1>4 DEF SourceTrue, LocalTrue, IsFile, EntryRecord

\* Every step preserves HeldInv: what a transfer holds is the content of its source.
LEMMA HeldStep ==
    ASSUME CoreInv, FilesInv, HeldInv, [Next]_vars
    PROVE  HeldInv'
<1>0. /\ SyncTypes /\ StoresInv /\ SourcesInv /\ BatchInv /\ StoreTypes /\ JobTypes /\ StoreTurn
      /\ FilesInv' /\ CoreInv'
  BY CoreStep, FilesInvStep DEF CoreInv, SyncTypes, StoresInv
<1>1. plan'.quiet = plan.quiet /\ (plan.quiet => ~ Others)
  <2>1. /\ plan'.quiet = plan.quiet /\ (Others => plan.edits > 0)
        /\ plan.quiet => plan.edits = 0
    BY EditsStep DEF FilesInv
  <2> QED
    BY <2>1
<1> DEFINE Good(p) ==
        /\ job'[p].kind = "upload" /\ job'[p].at = "captured" =>
              IF job'[p].held.id = job'[p].src.id THEN job'[p].held.data = job'[p].src.data
              ELSE ~ (disk'[p] # None /\ disk'[p].id = job'[p].src.id)
        /\ job'[p].kind = "upload" /\ job'[p].at = "validated" =>
              job'[p].held.data = job'[p].src.data
        /\ job'[p].kind = "upload" /\ job'[p].at = "sent" => job'[p].held.data = job'[p].src.data
        /\ job'[p].at \in Fetched => job'[p].held.data = job'[p].src.data
        /\ plan'.quiet /\ job'[p].at = "linked" => disk'[p].data = job'[p].src.data
<1>2. ASSUME NEW p \in Path, ActionStep(p) PROVE Good(p)
  <2>0. job'[p].kind = job[p].kind /\ job'[p].src = job[p].src /\ job[p].at \in Steps
    BY <1>0, <1>2, ActionTurn DEF JobTurn
  <2>1. CASE job'[p].at \in {"done", "failed"}
    BY <2>1 DEF Fetched, Replacing
  <2>2. CASE Captured(p)
    <3>1. At(p, "upload", "start") /\ disk'[p] = disk[p] /\ job'[p].held = disk[p]
          /\ job'[p].at = "captured"
      BY <2>2 DEF Captured
    <3>2. IsFile(p, job[p].src) => disk[p].data = job[p].src.data
      BY <2>0, <3>1, LocalSource DEF At
    <3>3. disk[p] # None
      BY <2>2 DEF Captured
    <3> QED
      BY <2>0, <3>1, <3>2, <3>3 DEF Fetched, Replacing, IsFile
  <2>3. CASE Validated(p)
    <3>1. job[p].held.data = job[p].src.data
      BY <2>3 DEF Validated, HeldInv
    <3> QED
      BY <2>0, <2>3, <3>1 DEF Validated, Fetched, Replacing
  <2>4. CASE ReadBack(p)
    <3>1. job[p].held.data = job[p].src.data
      BY <2>4 DEF ReadBack, HeldInv
    <3> QED
      BY <2>0, <2>4, <3>1 DEF ReadBack, Fetched, Replacing
  <2>5. CASE Fetches(p)
    <3>1. job'[p].held.data = job[p].src.data
      BY <1>0, <2>5, StagedIs DEF Fetches
    <3> QED
      BY <2>0, <2>5, <3>1 DEF Fetches, At, Fetched, Replacing
  <2>6. CASE GoesOn(p)
    <3>1. job[p].held.data = job[p].src.data
      BY <2>6 DEF GoesOn, HeldInv
    <3>2. Published(p).data = job[p].held.data
      BY <1>0, <2>6, PublishedIs DEF GoesOn
    <3> QED
      BY <2>0, <2>6, <3>1, <3>2 DEF GoesOn, Fetched, Replacing
  <2>7. CASE OfNoTransfer(p)
    BY <2>0, <2>7 DEF OfNoTransfer, Remotes, Fetched, Replacing
  <2> QED
    BY <1>0, <1>2, <2>1, <2>2, <2>3, <2>4, <2>5, <2>6, <2>7, HeldTurn
<1>3. ASSUME NEW p \in Path, job'[p] = job[p], ~ ActionStep(p) PROVE Good(p)
  <2>1. ASSUME At(p, "upload", "captured"), disk'[p] # None, disk'[p].id = job[p].src.id
        PROVE  disk[p] # None /\ disk[p].id = job[p].src.id
    <3>1. job[p].src.id < clock /\ job[p].src.id \in Nat /\ clock \in Nat
      BY <1>0, <2>1, LocalSource DEF At, StoreTypes, Steps
    <3>2. disk'[p].id # clock
      BY <2>1, <3>1
    <3>3. disk'[p] = disk[p]
      BY <1>0, <2>1, <3>2 DEF StoreTurn, DiskTurn, At
    <3> QED
      BY <2>1, <3>3
  <2>2. ASSUME plan.quiet PROVE disk'[p] = disk[p]
    <3>1. CASE \E q \in Path : ActionStep(q)
      BY <1>0, <1>3, <3>1, ActionFiles DEF FilesStay
    <3>2. CASE ~ \E q \in Path : ActionStep(q)
      BY <1>0, <1>1, <2>2, <3>2, FilesKept
    <3> QED
      BY <3>1, <3>2
  <2> QED
    BY <1>1, <1>3, <2>1, <2>2 DEF HeldInv, At, IsFile
<1>4. ASSUME NEW p \in Path, Planned(p) PROVE Good(p)
  <2>1. job'[p].at \in {"done", "start"}
    BY <1>0, <1>4, PlannedIs
  <2> QED
    BY <2>1 DEF Fetched, Replacing
<1>5. ASSUME NEW p \in Path, job'[p] = NoJob PROVE Good(p)
  BY <1>5, NoJobIs DEF Fetched, Replacing
<1>6. ASSUME NEW p \in Path PROVE Good(p)
  BY <1>0, <1>2, <1>3, <1>4, <1>5, JobComes
<1> QED
  BY <1>6 DEF HeldInv, At, IsFile

\* HeldInv holds at the start.
LEMMA HeldStart ==
    ASSUME Init
    PROVE  HeldInv
<1>1. \A p \in Path : job[p].at = "off"
  BY NoJobIs DEF Init
<1> QED
  BY <1>1 DEF HeldInv, At, Fetched, Replacing
-----------------------------------------------------------------------------
(* The merge of the two scans.                                             *)

\* What S gave before a is below what is left of D from b; and what is left of S is above p.
Below(S, a, D, b) == \A i \in DOMAIN S, j \in DOMAIN D : i < a /\ j >= b => S[i].path < D[j].path
Above(S, a, p)    == \A i \in DOMAIN S : i >= a => p < S[i].path

\* The paths of a sequence of entries are numbers.
LEMMA EntryPaths ==
    ASSUME NEW S \in Seq(EntryRecord)
    PROVE  \A i \in DOMAIN S : i \in Nat /\ S[i].path \in Nat
<1>1. \A i \in DOMAIN S : i \in Nat /\ S[i] \in EntryRecord
  OBVIOUS
<1>2. \A e \in EntryRecord : e.path \in Nat
  BY PathAssumption DEF EntryRecord, Path
<1> QED
  BY <1>1, <1>2

\* A side takes part in the next pair, of path p, or is beyond it.
LEMMA Merged ==
    ASSUME NEW S \in Seq(EntryRecord), Ordered(S), NEW D \in Seq(EntryRecord), Ordered(D),
           NEW a \in Nat \ {0}, NEW b \in Nat \ {0}, Below(S, a, D, b), NEW p \in Nat, NEW c,
           \/ a \in DOMAIN S /\ p = S[a].path /\ c = a + 1
           \/ /\ b \in DOMAIN D /\ p = D[b].path /\ c = a
              /\ a \in DOMAIN S => p < S[a].path
    PROVE  /\ \A i \in DOMAIN S : i < c => S[i].path <= p
           /\ Above(S, c, p) /\ c >= a
           /\ c = a => \A i \in DOMAIN S : S[i].path # p
<1>1. \A i \in DOMAIN S : i \in Nat /\ S[i].path \in Nat
  BY EntryPaths
<1>2. CASE a \in DOMAIN S /\ p = S[a].path /\ c = a + 1
  <2>1. \A i \in DOMAIN S : i < a => S[i].path < p
    BY <1>2 DEF Ordered
  <2>2. \A i \in DOMAIN S : i > a => p < S[i].path
    BY <1>2 DEF Ordered
  <2>3. \A i \in DOMAIN S : (i < c <=> i < a \/ i = a) /\ (i >= c <=> i > a)
    BY <1>1, <1>2
  <2> QED
    BY <1>1, <1>2, <2>1, <2>2, <2>3 DEF Above
<1>3. CASE /\ b \in DOMAIN D /\ p = D[b].path /\ c = a
           /\ a \in DOMAIN S => p < S[a].path
  <2>1. \A i \in DOMAIN S : i < a => S[i].path < p
    BY <1>3 DEF Below
  <2>2. ASSUME NEW i \in DOMAIN S, i >= a
        PROVE  p < S[i].path
    <3>1. a \in DOMAIN S
      BY <1>1, <2>2
    <3>2. S[a].path <= S[i].path
      BY <1>1, <2>2, <3>1 DEF Ordered
    <3> QED
      BY <1>1, <1>3, <3>1, <3>2
  <2> QED
    BY <1>1, <1>3, <2>1, <2>2 DEF Above
<1> QED
  BY <1>2, <1>3

Increasing(s) == \A i, j \in DOMAIN s : i < j => PathOf(s[i]) < PathOf(s[j])

MergeInv ==
    /\ Ordered(found["src"]) /\ Ordered(found["dst"])
    /\ Below(found["src"], at["src"], found["dst"], at["dst"])
    /\ Below(found["dst"], at["dst"], found["src"], at["src"])
    /\ \A k \in DOMAIN pairs : /\ Above(found["src"], at["src"], PathOf(pairs[k]))
                               /\ Above(found["dst"], at["dst"], PathOf(pairs[k]))
    /\ Increasing(pairs)
    /\ \A k \in DOMAIN pairs : pairs[k].src = None =>
          \A i \in DOMAIN found["src"] : found["src"][i].path # PathOf(pairs[k])
    /\ phase \in {"idle", "scan"} => pairs = <<>> /\ at["src"] = 1 /\ at["dst"] = 1

\* A pair more.
LEMMA MergeCollect ==
    ASSUME CoreInv, MergeInv, CollectPair
    PROVE  MergeInv'
<1>0. /\ SyncTypes /\ RunTypes /\ found["src"] \in Seq(EntryRecord)
      /\ found["dst"] \in Seq(EntryRecord) /\ at["src"] \in Nat \ {0} /\ at["dst"] \in Nat \ {0}
      /\ phase = "pair" /\ phase' = "pair" /\ ~ Exhausted /\ found' = found
      /\ at' = Advance(NextPair) /\ pairs \in Seq(PairRecord)
  BY DEF CoreInv, SyncTypes, RunTypes, CollectPair, scanVars
<1>1. PICK S, D, a, b : S = found["src"] /\ D = found["dst"] /\ a = at["src"] /\ b = at["dst"]
  OBVIOUS
<1>2. PICK c, e : c = at'["src"] /\ e = at'["dst"]
  OBVIOUS
<1>3. PICK x : x = NextPair
  OBVIOUS
<1>4. /\ x.src # None => a \in DOMAIN S /\ x.src = S[a]
      /\ x.dst # None => b \in DOMAIN D /\ x.dst = D[b]
  BY <1>0, <1>1, <1>3, NextPairFound
<1>5. c = (IF x.src = None THEN a ELSE a + 1) /\ e = (IF x.dst = None THEN b ELSE b + 1)
  <2>1. PICK z : z = Advance(x)
    OBVIOUS
  <2>2. /\ z["src"] = (IF x.src = None THEN at["src"] ELSE at["src"] + 1)
        /\ z["dst"] = (IF x.dst = None THEN at["dst"] ELSE at["dst"] + 1)
    BY <1>0, <2>1, AdvanceIs
  <2> QED
    BY <1>0, <1>1, <1>2, <1>3, <2>1, <2>2
<1>6. PICK p : p = PathOf(x)
  OBVIOUS
<1>7. /\ p \in Nat
      /\ \/ a \in DOMAIN S /\ p = S[a].path /\ c = a + 1
         \/ b \in DOMAIN D /\ p = D[b].path /\ c = a /\ (a \in DOMAIN S => p < S[a].path)
      /\ \/ b \in DOMAIN D /\ p = D[b].path /\ e = b + 1
         \/ a \in DOMAIN S /\ p = S[a].path /\ e = b /\ (b \in DOMAIN D => p < D[b].path)
      /\ x.src = None => c = a
      /\ c = a \/ e = b \/ c = a + 1
  <2>1. HeadOf("src") # None <=> a \in DOMAIN S
    BY <1>0, <1>1, HeadOfIs
  <2>2. HeadOf("dst") # None <=> b \in DOMAIN D
    BY <1>0, <1>1, HeadOfIs
  <2>3. HeadOf("src") # None => HeadOf("src") = S[a] /\ HeadOf("src").path \in Nat
    BY <1>0, <1>1, HeadOfIs
  <2>4. HeadOf("dst") # None => HeadOf("dst") = D[b] /\ HeadOf("dst").path \in Nat
    BY <1>0, <1>1, HeadOfIs
  <2>5. \/ /\ x.src = HeadOf("src") /\ x.dst = None /\ HeadOf("src") # None
           /\ HeadOf("dst") = None \/ HeadOf("src").path < HeadOf("dst").path
        \/ /\ x.dst = HeadOf("dst") /\ x.src = None /\ HeadOf("dst") # None
           /\ HeadOf("src") = None \/ HeadOf("dst").path < HeadOf("src").path
        \/ /\ x.src = HeadOf("src") /\ x.dst = HeadOf("dst")
           /\ HeadOf("src") # None /\ HeadOf("dst") # None
           /\ HeadOf("src").path = HeadOf("dst").path
    BY <1>0, <1>3, NextPairIs
  <2> QED
    BY <1>5, <1>6, <2>1, <2>2, <2>3, <2>4, <2>5 DEF PathOf
<1>8. /\ S \in Seq(EntryRecord) /\ Ordered(S) /\ D \in Seq(EntryRecord) /\ Ordered(D)
      /\ a \in Nat \ {0} /\ b \in Nat \ {0} /\ Below(S, a, D, b) /\ Below(D, b, S, a)
      /\ \A k \in DOMAIN pairs : Above(S, a, PathOf(pairs[k])) /\ Above(D, b, PathOf(pairs[k]))
  BY <1>0, <1>1 DEF MergeInv
<1>9. /\ \A i \in DOMAIN S : i < c => S[i].path <= p
      /\ Above(S, c, p) /\ c >= a
      /\ c = a => \A i \in DOMAIN S : S[i].path # p
  BY <1>7, <1>8, Merged
<1>10. /\ \A j \in DOMAIN D : j < e => D[j].path <= p
       /\ Above(D, e, p) /\ e >= b
  BY <1>7, <1>8, Merged
<1>11. /\ \A i \in DOMAIN S : i \in Nat /\ S[i].path \in Nat
       /\ \A j \in DOMAIN D : j \in Nat /\ D[j].path \in Nat
       /\ c \in Nat /\ e \in Nat
  BY <1>5, <1>8, EntryPaths
<1>12. Below(S, c, D, e) /\ Below(D, e, S, c)
  BY <1>7, <1>9, <1>10, <1>11 DEF Below, Above
<1>13. \A k \in DOMAIN pairs : /\ Above(S, c, PathOf(pairs[k])) /\ Above(D, e, PathOf(pairs[k]))
                               /\ PathOf(pairs[k]) < p
  <2>1. \A i \in Nat : (i >= c => i >= a) /\ (i >= e => i >= b)
    BY <1>8, <1>9, <1>10, <1>11
  <2> QED
    BY <1>7, <1>8, <1>11, <2>1 DEF Above
<1>14. /\ \A k \in DOMAIN pairs : k \in DOMAIN pairs' /\ pairs'[k] = pairs[k]
       /\ \A k \in DOMAIN pairs' : k \in DOMAIN pairs \/ (k = Len(pairs) + 1 /\ pairs'[k] = x)
       /\ \A k \in DOMAIN pairs : k \in Nat /\ k < Len(pairs) + 1
       /\ Len(pairs) \in Nat
  <2>1. ~ StartRun
    BY <1>0 DEF StartRun
  <2>2. [Next]_vars
    BY DEF Next, GeneratorStep
  <2>3. \A k \in DOMAIN pairs : k \in DOMAIN pairs' /\ pairs'[k] = pairs[k]
    BY <1>0, CollectTypes
  <2> QED
    BY <1>0, <1>3, <2>1, <2>2, <2>3, PairComes
<1>15. \A k \in DOMAIN pairs' : /\ Above(S, c, PathOf(pairs'[k])) /\ Above(D, e, PathOf(pairs'[k]))
  BY <1>6, <1>9, <1>10, <1>13, <1>14
<1>16. \A k, m \in DOMAIN pairs' : k < m => PathOf(pairs'[k]) < PathOf(pairs'[m])
  <2> SUFFICES ASSUME NEW k \in DOMAIN pairs', NEW m \in DOMAIN pairs', k < m
               PROVE  PathOf(pairs'[k]) < PathOf(pairs'[m])
    OBVIOUS
  <2>1. k \in DOMAIN pairs
    BY <1>14
  <2>2. CASE m \in DOMAIN pairs
    BY <1>14, <2>1, <2>2 DEF MergeInv, Increasing
  <2>3. CASE pairs'[m] = x
    BY <1>6, <1>13, <1>14, <2>1, <2>3
  <2> QED
    BY <1>14, <2>2, <2>3
<1>17. \A k \in DOMAIN pairs' : pairs'[k].src = None =>
           \A i \in DOMAIN S : S[i].path # PathOf(pairs'[k])
  BY <1>1, <1>6, <1>7, <1>9, <1>14 DEF MergeInv
<1>18. S = found'["src"] /\ D = found'["dst"]
  BY <1>0, <1>1
<1> QED
  BY <1>0, <1>2, <1>8, <1>12, <1>15, <1>16, <1>17, <1>18 DEF MergeInv, Increasing, PathOf, Above

\* How the generator comes to its first phases, and what it knows of its scans.
LEMMA EarlyStep ==
    ASSUME CoreInv, [Next]_vars, ~ StartRun
    PROVE  /\ phase' \in {"idle", "scan"} => phase' = phase
           /\ phase' = "pair" => phase = "pair" \/ scanned' = {"src", "dst"}
           /\ phase' \in {"idle", "scan", "pair"} => phase \in {"idle", "scan", "pair"}
           /\ phase' \in Going => phase \in Going \cup {"pair"}
           /\ scanError => scanError'
<1>0. SyncTypes /\ BatchInv
  BY DEF CoreInv
<1> USE DEF Going, Batching
<1>1. CASE \E p \in Path : ActionStep(p)
  <2>1. UNCHANGED <<phase, scanError>>
    BY <1>0, <1>1, ActionTold
  <2> QED
    BY <2>1
<1>2. CASE Resume
  BY <1>0, <1>2, ResumeTold
<1>3. CASE Crash
  BY <1>3 DEF Crash, scanVars
<1>4. CASE Jobless
  <2> USE DEF scanVars
  <2>1. CASE ScanSource
    <3>1. /\ phase = "scan" /\ (scanError => scanError')
          /\ phase' = IF scanned' = {"src", "dst"} THEN "pair" ELSE "scan"
      BY <2>1 DEF ScanSource, Scan
    <3> QED
      BY <3>1
  <2>2. CASE ScanDest
    <3>1. /\ phase = "scan" /\ (scanError => scanError')
          /\ phase' = IF scanned' = {"src", "dst"} THEN "pair" ELSE "scan"
      BY <2>2 DEF ScanDest, Scan
    <3> QED
      BY <3>1
  <2>3. CASE CollectPair \/ PairsCollected
    BY <2>3 DEF CollectPair, PairsCollected
  <2>4. CASE StartBatch \/ PreparePair \/ PlanBatch \/ YieldCompare \/ NextItem
    <3>1. phase \in {"batch", "prepare", "emit", "slots"} /\ scanError' = scanError
      BY <2>4 DEF StartBatch, PreparePair, PlanBatch, YieldCompare, NextItem
    <3>2. phase' \in {"abort", "batch", "prepare", "emit", "yielded"}
      BY <2>4 DEF StartBatch, PreparePair, PlanBatch, YieldCompare, NextItem
    <3> QED
      BY <3>1, <3>2
  <2>5. CASE Finish \/ EndUnfinished \/ Report
    BY <2>5 DEF Finish, EndUnfinished, Report
  <2>6. CASE ScanThrows
    BY <2>6 DEF ScanThrows
  <2>7. CASE AbortRun \/ CloseIterator
    BY <2>7 DEF AbortRun, CloseIterator
  <2>8. CASE Others \/ UNCHANGED vars
    BY <2>8 DEF Others, vars
  <2>9. CASE \E r \in late : LateEffect(r)
    BY <2>9 DEF LateEffect, unchangedByActions
  <2> QED
    BY <1>4, <2>1, <2>2, <2>3, <2>4, <2>5, <2>6, <2>7, <2>8, <2>9 DEF Jobless
<1> QED
  BY <1>1, <1>2, <1>3, <1>4, JoblessSteps

\* MergeInv holds at the start.
LEMMA MergeStart ==
    ASSUME Init
    PROVE  MergeInv
<1>1. found["src"] = <<>> /\ found["dst"] = <<>>
  BY NothingFound DEF Init
<1>2. pairs = <<>> /\ at = [src |-> 1, dst |-> 1]
  BY DEF Init
<1>3. at["src"] = 1 /\ at["dst"] = 1
  BY <1>2
<1> QED
  BY <1>1, <1>2, <1>3 DEF MergeInv, Ordered, Below, Above, Increasing

\* Every step preserves MergeInv: the merge passes no entry over.
LEMMA MergeStep ==
    ASSUME CoreInv, MergeInv, [Next]_vars
    PROVE  MergeInv'
<1>0. /\ SyncTypes /\ RunTypes
      /\ found'["src"] \in Seq(EntryRecord) /\ found'["dst"] \in Seq(EntryRecord)
  BY CoreStep DEF CoreInv, SyncTypes, RunTypes
<1>1. CASE StartRun
  <2>1. found'["src"] = <<>> /\ found'["dst"] = <<>>
    BY <1>1, NothingFound DEF StartRun
  <2>2. pairs' = <<>> /\ at' = [src |-> 1, dst |-> 1]
    BY <1>1 DEF StartRun
  <2>3. at'["src"] = 1 /\ at'["dst"] = 1
    BY <2>2
  <2> QED
    BY <2>1, <2>2, <2>3 DEF MergeInv, Ordered, Below, Above, Increasing
<1>2. CASE CollectPair
  BY <1>2, MergeCollect
<1>3. CASE ScanSource \/ ScanDest
  <2>1. phase = "scan" /\ pairs = <<>> /\ at["src"] = 1 /\ at["dst"] = 1
    BY <1>3 DEF ScanSource, ScanDest, Scan, MergeInv
  <2>2. ~ StartRun /\ ~ CollectPair
    BY <2>1 DEF StartRun, CollectPair
  <2>3. pairs' = <<>> /\ at'["src"] = 1 /\ at'["dst"] = 1
    BY <1>0, <2>1, <2>2, PairsKept
  <2>4. Ordered(found'["src"]) /\ Ordered(found'["dst"])
    BY <2>2, ScansComes DEF MergeInv, KeepsFound
  <2>5. /\ \A i \in DOMAIN found'["src"] : ~ (i < 1)
        /\ \A i \in DOMAIN found'["dst"] : ~ (i < 1)
    BY <1>0
  <2> QED
    BY <2>3, <2>4, <2>5 DEF MergeInv, Ordered, Below, Above, Increasing
<1>4. CASE ~ StartRun /\ ~ CollectPair /\ ~ ScanSource /\ ~ ScanDest
  <2>1. found' = found
    BY <1>4, ScansComes
  <2>2. UNCHANGED <<at, pairs>>
    BY <1>0, <1>4, PairsKept
  <2>3. phase' \in {"idle", "scan"} => phase' = phase
    BY <1>4, EarlyStep
  <2> QED
    BY <2>1, <2>2, <2>3 DEF MergeInv, Ordered, Below, Above, Increasing, PathOf
<1> QED
  BY <1>1, <1>2, <1>3, <1>4

-----------------------------------------------------------------------------
(* What the source held.                                                   *)

\* A local scan passes over a file for its name only.
PlanInv ==
    (\E i \in DOMAIN plan.runs : plan.runs[i].direction = "local-to-b2")
        => \A p \in Path : plan.skips[p] \in {"none", "unsafe-name"}

\* Every step preserves PlanInv.
LEMMA PlanInvStep ==
    ASSUME CoreInv, PlanInv, [Next]_vars
    PROVE  PlanInv'
<1>0. SyncTypes /\ StoresInv /\ StoreTypes' /\ RunTypes /\ plan.runs \in Seq(RunOptions)
  BY CoreStep DEF CoreInv, SyncTypes, StoresInv, RunTypes, PlanRecord
<1>1. plan'.skips = plan.skips
  BY <1>0, PlanStep
<1>2. CASE plan'.runs = plan.runs
  BY <1>1, <1>2 DEF PlanInv
<1>3. CASE plan'.runs = Tail(plan.runs)
  <2>1. plan.runs # <<>>
    BY <1>0 DEF RunTypes
  <2>2. \A i \in DOMAIN plan'.runs : i + 1 \in DOMAIN plan.runs /\ plan'.runs[i] = plan.runs[i + 1]
    BY <1>0, <1>3, <2>1
  <2> QED
    BY <1>1, <2>2 DEF PlanInv
<1>4. plan'.runs = plan.runs \/ plan'.runs = Tail(plan.runs)
  BY <1>0, PlanStep, StartRunTypes DEF PlanStays
<1> QED
  BY <1>2, <1>3, <1>4

\* What the source held was found by its scan, unless the run knows that it is incomplete.
HadInv ==
    /\ phase \in Going \cup {"pair"} => "src" \in scanned
    /\ "src" \in scanned => \/ incomplete \/ scanError
                            \/ \A p \in had : \E i \in DOMAIN found["src"] :
                                  found["src"][i].path = p
    /\ phase \in {"idle", "scan", "pair"} => \A p \in Path : job[p] = NoJob

\* A scan of the source finds all that was there, or says that it did not.
LEMMA ScanSourceHad ==
    ASSUME CoreInv, PlanInv, ScanSource, [Next]_vars
    PROVE  \/ incomplete' \/ scanError'
           \/ \A p \in had' : \E i \in DOMAIN found'["src"] : found'["src"][i].path = p
<1>0. SyncTypes /\ RunTypes /\ plan \in PlanRecord
  BY DEF CoreInv, SyncTypes, RunTypes
<1> SUFFICES ASSUME ~ incomplete', ~ scanError', NEW p \in had'
             PROVE  \E i \in DOMAIN found'["src"] : found'["src"][i].path = p
  OBVIOUS
<1>1. /\ had' = SourceHolds /\ incomplete' = (SkipReasons \cap IncompleteReasons # {})
      /\ phase = "scan"
  BY DEF ScanSource, Scan
<1>2. \A x : x \in SkipReasons => x \notin IncompleteReasons
  BY <1>1
<1>3. \A e \in SourceEntries \ Passed : \E i \in DOMAIN found'["src"] : found'["src"][i] = e
  <2>1. "src" \notin scanned /\ "src" \in scanned'
    BY DEF ScanSource, Scan
  <2>2. ~ StartRun
    BY <1>1 DEF StartRun
  <2>3. ~ ScanDest
    BY <2>1 DEF ScanDest, Scan
  <2>4. ~ KeepsFound
    BY <1>0, <2>1, FoundKept
  <2> QED
    BY <2>2, <2>3, <2>4, ScansComes
<1>4. SourceIsLocal => \A q \in Path : plan.skips[q] \in {"none", "unsafe-name"}
  <2>1. 1 \in DOMAIN plan.runs /\ opt = plan.runs[1]
    <3>1. plan.runs \in Seq(RunOptions) /\ plan.runs # <<>>
      BY <1>0 DEF RunTypes, PlanRecord
    <3> QED
      BY <3>1 DEF opt
  <2> QED
    BY <2>1 DEF SourceIsLocal, PlanInv
<1>5. \A q \in Path : plan.skips[q] \in {"none", "unsafe-name", "local-unsafe-name",
                                         "relative-path-collision"}
  BY <1>0 DEF PlanRecord
<1>6. ASSUME NEW e \in Passed PROVE FALSE
  <2>1. e \in SourceEntries /\ plan.skips[e.path] # "none" /\ plan.skips[e.path] \in SkipReasons
    BY DEF Passed, SkipReasons
  <2>2. e.path \in Path
    BY <2>1, SideEntriesAre DEF EntryRecord, CoreInv, SyncTypes, StoresInv
  <2>3. plan.skips[e.path] \in IncompleteReasons
    BY <1>4, <1>5, <2>1, <2>2 DEF IncompleteReasons
  <2> QED
    BY <1>2, <2>1, <2>3
<1>7. ASSUME SourceIsLocal, NEW q \in Path, aside[q] # {} PROVE FALSE
  <2>1. "stale-download-partial" \in SkipReasons
    BY <1>7 DEF SkipReasons
  <2>2. "stale-download-partial" \in IncompleteReasons
    BY <1>7 DEF IncompleteReasons
  <2> QED
    BY <1>2, <2>1, <2>2
<1>8. \E e \in SourceEntries : p = e.path
  BY <1>1, <1>7 DEF SourceHolds
<1> QED
  BY <1>3, <1>6, <1>8

\* HadInv holds at the start.
LEMMA HadStart ==
    ASSUME Init
    PROVE  HadInv /\ PlanInv /\ RemovedMeansAbsent
<1>1. /\ plan \in Plan /\ phase = "idle" /\ scanned = {} /\ job = [p \in Path |-> NoJob]
  BY DEF Init
<1>2. HadInv
  BY <1>1 DEF HadInv, Going, Batching
<1>3. PlanInv
  BY <1>1, ScenarioAssumption DEF PlanInv
<1>4. RemovedMeansAbsent
  BY <1>1, NoJobIs DEF RemovedMeansAbsent, Removals
<1> QED
  BY <1>2, <1>3, <1>4

\* Every step preserves HadInv.
LEMMA HadStep ==
    ASSUME CoreInv, PlanInv, HadInv, [Next]_vars
    PROVE  HadInv'
<1>0. SyncTypes /\ RunTypes /\ BatchInv
  BY DEF CoreInv, SyncTypes
<1>1. CASE StartRun
  <2>1. phase' = "scan" /\ scanned' = {} /\ job' = [p \in Path |-> NoJob]
    BY <1>1 DEF StartRun
  <2> QED
    BY <2>1 DEF HadInv, Going, Batching
<1>2. CASE ~ StartRun
  <2>1. CASE ScanSource
    <3>1. "src" \in scanned' /\ phase = "scan" /\ job' = job
      BY <2>1 DEF ScanSource, Scan
    <3>2. \A p \in Path : job'[p] = NoJob
      BY <3>1 DEF HadInv
    <3>3. \/ incomplete' \/ scanError'
          \/ \A p \in had' : \E i \in DOMAIN found'["src"] : found'["src"][i].path = p
      BY <2>1, ScanSourceHad
    <3> QED
      BY <3>1, <3>2, <3>3 DEF HadInv
  <2>2. CASE ~ ScanSource
    <3>1. /\ found'["src"] = found["src"] /\ UNCHANGED <<had, incomplete>>
          /\ scanned \subseteq scanned' /\ ("src" \in scanned' => "src" \in scanned)
      <4>1. CASE ScanDest
        <5>1. UNCHANGED <<had, incomplete>> /\ scanned' = scanned \cup {"dst"}
          BY <4>1 DEF ScanDest, Scan
        <5>2. ~ KeepsFound
          <6>1. "dst" \notin scanned
            BY <4>1 DEF ScanDest, Scan
          <6> QED
            BY <1>0, <5>1, <6>1, FoundKept
        <5>3. found'["src"] = found["src"]
          BY <1>2, <2>2, <5>2, ScansComes
        <5> QED
          BY <5>1, <5>3
      <4>2. CASE KeepsFound
        BY <1>0, <4>2, FoundKept
      <4> QED
        BY <1>2, <2>2, <4>1, <4>2, StepsAre
    <3>2. scanError => scanError'
      BY <1>2, EarlyStep
    <3>3. phase' \in Going \cup {"pair"} => "src" \in scanned'
      BY <1>2, <3>1, EarlyStep DEF HadInv
    <3>4. "src" \in scanned' =>
              \/ incomplete' \/ scanError'
              \/ \A p \in had' : \E i \in DOMAIN found'["src"] : found'["src"][i].path = p
      BY <3>1, <3>2 DEF HadInv
    <3>5. ASSUME phase' \in {"idle", "scan", "pair"}, NEW p \in Path PROVE job'[p] = NoJob
      <4>1. phase \in {"idle", "scan", "pair"}
        BY <1>2, <3>5, EarlyStep
      <4>2. job[p] = NoJob
        BY <4>1 DEF HadInv
      <4>3. ~ ActionStep(p)
        BY <1>0, <4>2, ActionTurn, NoJobIs DEF Steps
      <4>4. ~ Resume
        BY <4>1 DEF Resume
      <4> QED
        BY <1>0, <4>2, <4>3, <4>4, JobComes
    <3> QED
      BY <3>3, <3>4, <3>5 DEF HadInv
  <2> QED
    BY <2>1, <2>2
<1> QED
  BY <1>1, <1>2

\* A path is removed only when the source did not have it.
LEMMA RemovedStep ==
    ASSUME CoreInv, MergeInv, HadInv, RemovedMeansAbsent, [Next]_vars
    PROVE  RemovedMeansAbsent'
<1>0. SyncTypes /\ RunTypes /\ BatchInv
  BY DEF CoreInv, SyncTypes
<1> SUFFICES ASSUME NEW q \in Path, job'[q].kind \in Removals PROVE q \notin had'
  BY DEF RemovedMeansAbsent
<1>1. job'[q] # NoJob
  BY NoJobIs DEF Removals
<1>2. ~ StartRun
  BY <1>1 DEF StartRun
<1>3. ~ ScanSource
  BY <1>1 DEF ScanSource, Scan, HadInv
<1>4. had' = had
  <2>1. CASE ScanDest
    BY <2>1 DEF ScanDest
  <2>2. CASE KeepsFound
    BY <1>0, <2>2, FoundKept
  <2> QED
    BY <1>2, <1>3, <2>1, <2>2, StepsAre
<1>5. CASE job'[q] = job[q] \/ ActionStep(q)
  <2>1. job'[q].kind = job[q].kind
    BY <1>0, <1>5, ActionTurn DEF JobTurn
  <2> QED
    BY <1>4, <2>1 DEF RemovedMeansAbsent
<1>6. CASE Resume /\ Planned(q)
  <2>1. PICK pair :
           /\ pair = ready[1] /\ pair \in ReadyRecord /\ 1 \in DOMAIN ready
           /\ ~ (pair.src = None /\ pair.dst = None)
           /\ next \in DOMAIN pairs /\ q = PathOf(pairs[next])
           /\ job'[q].kind = ActionFor(pair)
    BY <1>0, <1>6, PlannedIs
  <2>2. pair.src = None /\ ~ scanError /\ ~ incomplete
    BY <1>0, <2>1, KindIs DEF ReadyRecord
  <2>3. phase = "yielded" /\ next \in Nat
    BY <1>0, <1>6 DEF Resume, RunTypes
  <2>4. next + 1 - 1 = next
    BY <2>3
  <2>5. SameEntry(ready[1].src, pairs[next].src)
    BY <1>0, <2>1, <2>3, <2>4 DEF BatchInv, Batching, ReadyPairs
  <2>6. pairs[next].src = None
    BY <2>1, <2>2, <2>5 DEF SameEntry
  <2>7. \A i \in DOMAIN found["src"] : found["src"][i].path # q
    BY <2>1, <2>6 DEF MergeInv
  <2>8. \A p \in had : \E i \in DOMAIN found["src"] : found["src"][i].path = p
    BY <2>2, <2>3 DEF HadInv, Going, Batching
  <2> QED
    BY <1>4, <2>7, <2>8
<1> QED
  BY <1>0, <1>1, <1>5, <1>6, JobComes

-----------------------------------------------------------------------------
(* The pairs to come.                                                      *)

\* The paths of the pairs to come have no action yet.
FutureInv ==
    phase \in Going =>
        \A k \in DOMAIN pairs :
            k >= next /\ (phase = "slots" => k > next) => job[PathOf(pairs[k])] = NoJob

\* The generator leaves the slots of an item for the next item.
LEMMA SlotsLeft ==
    ASSUME CoreInv, [Next]_vars, phase = "slots", phase' \in Going
    PROVE  phase' = "slots" \/ NextItem
<1>0. SyncTypes /\ BatchInv
  BY DEF CoreInv
<1> USE DEF Going, Batching
<1>1. CASE \E p \in Path : ActionStep(p)
  BY <1>0, <1>1, ActionTold
<1>2. CASE Resume \/ StartRun \/ Crash
  BY <1>2 DEF Resume, StartRun, Crash
<1>3. CASE Jobless
  <2>1. CASE ScanSource \/ ScanDest \/ CollectPair \/ PairsCollected
    BY <2>1 DEF ScanSource, ScanDest, Scan, CollectPair, PairsCollected
  <2>2. CASE StartBatch \/ PreparePair \/ PlanBatch \/ YieldCompare
    BY <2>2 DEF StartBatch, PreparePair, PlanBatch, YieldCompare
  <2>3. CASE Finish \/ EndUnfinished \/ Report \/ ScanThrows \/ AbortRun \/ CloseIterator
    BY <2>3 DEF Finish, EndUnfinished, Report, ScanThrows, AbortRun, CloseIterator
  <2>4. CASE Others \/ UNCHANGED vars
    BY <2>4 DEF Others, vars
  <2>5. CASE \E r \in late : LateEffect(r)
    BY <2>5 DEF LateEffect, unchangedByActions
  <2> QED
    BY <1>3, <2>1, <2>2, <2>3, <2>4, <2>5 DEF Jobless
<1> QED
  BY <1>1, <1>2, <1>3, JoblessSteps

\* Every step preserves FutureInv.
LEMMA FutureStep ==
    ASSUME CoreInv, MergeInv, HadInv, FutureInv, [Next]_vars
    PROVE  FutureInv'
<1>0. SyncTypes /\ RunTypes /\ BatchInv /\ next \in Nat \ {0} /\ pairs \in Seq(PairRecord)
  BY DEF CoreInv, SyncTypes, RunTypes
<1> SUFFICES ASSUME phase' \in Going, NEW k \in DOMAIN pairs', k >= next',
                    phase' = "slots" => k > next', NEW q, q = PathOf(pairs'[k])
             PROVE  job'[q] = NoJob
  BY DEF FutureInv, PathOf
<1>1. CASE PairsCollected
  <2>1. phase = "pair" /\ job' = job /\ pairs' = pairs
    BY <1>1 DEF PairsCollected, pairVars
  <2>2. q \in Path
    BY <1>0, <2>1, PairsHavePaths
  <2> QED
    BY <2>1, <2>2 DEF HadInv
<1>2. CASE phase \in Going /\ pairs' = pairs /\ (next' = next \/ NextItem)
  <2>0. q \in Path /\ k \in Nat /\ k \in DOMAIN pairs /\ q = PathOf(pairs[k])
    BY <1>0, <1>2, PairsHavePaths
  <2>1. k >= next /\ (phase = "slots" => k > next)
    <3>1. CASE NextItem
      <4>1. next' = next + 1 /\ phase = "slots"
        BY <3>1 DEF NextItem
      <4> QED
        BY <1>0, <2>0, <4>1
    <3>2. CASE ~ NextItem
      BY <1>2, <3>2, SlotsLeft
    <3> QED
      BY <3>1, <3>2
  <2>2. job[q] = NoJob
    BY <1>2, <2>0, <2>1 DEF FutureInv
  <2>3. ~ ActionStep(q)
    BY <1>0, <2>0, <2>2, ActionTurn, NoJobIs DEF Steps
  <2>4. ASSUME Resume, Planned(q) PROVE FALSE
    <3>1. next \in DOMAIN pairs /\ q = PathOf(pairs[next])
      BY <1>0, <2>0, <2>4, PlannedIs
    <3>2. phase' = "slots" /\ next' = next
      BY <1>0, <2>4, ResumeTold DEF Going, Batching
    <3>3. PathOf(pairs[next]) < PathOf(pairs[k])
      BY <2>0, <3>1, <3>2 DEF MergeInv, Increasing
    <3>4. q \in Nat
      BY <2>0 DEF Path
    <3> QED
      BY <2>0, <3>1, <3>3, <3>4
  <2> QED
    BY <1>0, <2>0, <2>2, <2>3, <2>4, JobComes
<1> QED
  BY <1>1, <1>2, GoingStep

\* FutureInv holds at the start.
LEMMA FutureStart ==
    ASSUME Init
    PROVE  FutureInv
BY DEF Init, FutureInv, Going, Batching

-----------------------------------------------------------------------------
(* Transfers land.                                                         *)

\* A request of this run that is still on its way belongs to an action that has failed, or to
\* a process that died.
LateInv ==
    clean => \A r \in late : \/ job[r.path].at = "failed"
                             \/ phase = "done" /\ job[r.path] = NoJob

\* Steps without a job send no request.
LEMMA JoblessLate ==
    ASSUME Jobless
    PROVE  clean' = clean /\ late' \subseteq late /\ (phase = "done" => phase' = "done")
<1> USE DEF begun
<1>1. CASE ScanSource \/ ScanDest \/ CollectPair \/ PairsCollected
  BY <1>1 DEF ScanSource, ScanDest, Scan, CollectPair, PairsCollected
<1>2. CASE StartBatch \/ PreparePair \/ PlanBatch \/ YieldCompare \/ NextItem
  BY <1>2 DEF StartBatch, PreparePair, PlanBatch, YieldCompare, NextItem
<1>3. CASE Finish \/ Report \/ EndUnfinished
  BY <1>3 DEF Finish, Report, EndUnfinished
<1>4. CASE ScanThrows \/ AbortRun \/ CloseIterator
  BY <1>4 DEF ScanThrows, AbortRun, CloseIterator, Suspended
<1>5. CASE Others \/ UNCHANGED vars
  BY <1>5 DEF Others, vars
<1>6. CASE \E r \in late : LateEffect(r)
  BY <1>6 DEF LateEffect, unchangedByActions
<1> QED
  BY <1>1, <1>2, <1>3, <1>4, <1>5, <1>6 DEF Jobless

\* Nothing of this run is known at a path whose pair is at hand.
LEMMA PlannedNew ==
    ASSUME CoreInv, FutureInv, Resume, NEW q \in Path, Planned(q)
    PROVE  job[q] = NoJob /\ phase = "yielded"
<1>1. SyncTypes /\ BatchInv /\ RunTypes /\ next \in Nat
  BY DEF CoreInv, SyncTypes, RunTypes
<1>2. next \in DOMAIN pairs /\ q = PathOf(pairs[next])
  BY <1>1, PlannedIs
<1>3. phase = "yielded"
  BY DEF Resume
<1> QED
  BY <1>1, <1>2, <1>3 DEF FutureInv, Going, Batching

\* Every step preserves LateInv.
LEMMA LateStep ==
    ASSUME CoreInv, FutureInv, LateInv, [Next]_vars
    PROVE  LateInv'
<1>0. /\ SyncTypes /\ BatchInv /\ JobTypes /\ late \subseteq RequestRecord
      /\ late' \subseteq RequestRecord /\ \A r \in RequestRecord : r.path \in Path
  BY CoreStep DEF CoreInv, SyncTypes, JobTypes, RequestRecord
<1> SUFFICES ASSUME clean', NEW r \in late', NEW p \in Path, p = r.path
             PROVE  job'[p].at = "failed" \/ (phase' = "done" /\ job'[p] = NoJob)
  BY <1>0 DEF LateInv
<1>1. CASE StartRun
  BY <1>1 DEF StartRun
<1>2. CASE Crash
  BY <1>0, <1>2, CrashTypes DEF Crash
<1>3. CASE \E q \in Path : ActionStep(q)
  <2>1. PICK q \in Path : ActionStep(q)
    BY <1>3
  <2>2. /\ JobTurn(q) /\ job[q].at \in Steps /\ LateTurn(q) /\ clean' = clean /\ phase' = phase
    BY <1>0, <2>1, ActionTurn DEF unchangedByActions, begun
  <2>3. CASE r \in late
    <3>1. job[p].at = "failed" \/ (phase = "done" /\ job[p] = NoJob)
      BY <2>2, <2>3 DEF LateInv
    <3>2. p # q
      BY <2>2, <3>1, NoJobIs DEF Steps
    <3> QED
      BY <2>2, <3>1, <3>2 DEF JobTurn
  <2>4. CASE r = Request(q) /\ job[q].at = "sent" /\ job'[q].at = "failed"
    BY <1>0, <2>4, RequestTypes
  <2> QED
    BY <2>2, <2>3, <2>4 DEF LateTurn
<1>4. CASE Resume
  <2>1. r \in late /\ clean
    BY <1>4 DEF Resume, begun
  <2>2. job[p].at = "failed" \/ (phase = "done" /\ job[p] = NoJob)
    BY <2>1 DEF LateInv
  <2>3. phase = "yielded"
    BY <1>4 DEF Resume
  <2>4. ~ Planned(p)
    BY <1>4, <2>2, <2>3, PlannedNew, NoJobIs
  <2>5. ~ ActionStep(p)
    BY <1>0, <2>2, <2>3, ActionTurn DEF Steps
  <2>6. ~ StartRun /\ ~ Crash
    <3>1. phase' \in {"abort", "slots"}
      BY <1>4 DEF Resume
    <3> QED
      BY <3>1 DEF StartRun, Crash
  <2> QED
    BY <1>0, <2>2, <2>3, <2>4, <2>5, <2>6, JobComes
<1>5. CASE Jobless
  <2>1. clean /\ r \in late /\ job' = job /\ (phase = "done" => phase' = "done")
    BY <1>5, JoblessLate, JoblessTold
  <2> QED
    BY <2>1 DEF LateInv
<1> QED
  BY <1>1, <1>2, <1>3, <1>4, <1>5, JoblessSteps

\* LateInv holds at the start.
LEMMA LateStart ==
    ASSUME Init
    PROVE  LateInv /\ TransferLands
<1>1. late = {} /\ \A p \in Path : job[p].at = "off"
  BY NoJobIs DEF Init
<1> QED
  BY <1>1 DEF LateInv, TransferLands

\* A request writes at its path only.
LEMMA EffectPlace ==
    ASSUME StoreTypes, NEW r \in RequestRecord, Acceptable(r), Effect(r)
    PROVE  \A f \in Folder, p \in Path : p # r.path => remote'[f][p] = remote[f][p]
<1>0. /\ remote \in [Folder -> [Path -> Seq(VersionRecord)]]
      /\ r.folder \in Folder /\ r.path \in Path /\ r.kind \in {"upload"} \cup Remotes
  BY DEF StoreTypes, RequestRecord
<1>1. ASSUME NEW v, Push(r.folder, r.path, v)
      PROVE  \A f \in Folder, p \in Path : p # r.path => remote'[f][p] = remote[f][p]
  BY <1>0, <1>1 DEF Push
<1>2. ASSUME NEW id, DeleteVersion(r.folder, r.path, id)
      PROVE  \A f \in Folder, p \in Path : p # r.path => remote'[f][p] = remote[f][p]
  BY <1>0, <1>2 DEF DeleteVersion
<1>3. CASE r.kind = "upload"
  BY <1>1, <1>3 DEF Effect
<1>4. CASE r.kind = "copy"
  BY <1>1, <1>4 DEF Effect
<1>5. CASE r.kind = "hide"
  BY <1>1, <1>5 DEF Effect
<1>6. CASE r.kind = "deleteRemote"
  BY <1>2, <1>6 DEF Effect
<1> QED
  BY <1>0, <1>3, <1>4, <1>5, <1>6 DEF Remotes

\* An action changes the versions of its own path only.
LEMMA ActionPlace ==
    ASSUME SyncTypes, NEW q \in Path, ActionStep(q)
    PROVE  \A f \in Folder, p \in Path : p # q => remote'[f][p] = remote[f][p]
<1>1. CASE Answered(q) \/ Unanswered(q)
  <2>1. /\ Acceptable(Request(q)) /\ Effect(Request(q)) /\ job[q].at = "sent"
        /\ StoreTypes /\ JobTypes
    BY <1>1 DEF Answered, Unanswered, SyncTypes
  <2>2. PICK r : r = Request(q)
    OBVIOUS
  <2>3. r \in RequestRecord /\ r.path = q
    BY <2>1, <2>2, RequestTypes
  <2> QED
    BY <2>1, <2>2, <2>3, EffectPlace
<1>2. CASE Refused(q) \/ Abandoned(q) \/ CaptureSource(q) \/ ValidateSource(q) \/ ReadSource(q)
             \/ SendRequest(q) \/ Stage(q) \/ CheckDestination(q) \/ VerifyAside(q)
             \/ CheckDoomed(q)
  BY <1>2 DEF Refused, Abandoned, CaptureSource, ValidateSource, ReadSource, SendRequest, Stage,
              CheckDestination, VerifyAside, CheckDoomed, storeVars
<1>3. CASE LinkNew(q) \/ MoveAside(q) \/ LinkOver(q) \/ DropAside(q) \/ Restore(q) \/ Unlink(q)
  BY <1>3 DEF LinkNew, MoveAside, LinkOver, DropAside, Restore, Unlink
<1> QED
  BY <1>1, <1>2, <1>3 DEF ActionStep

\* How a transfer comes to its end.
LEMMA LandsTurn ==
    ASSUME SyncTypes, NEW p \in Path, ActionStep(p), job'[p].at = "done", job[p].kind \in Transfers
    PROVE  Answered(p) \/ LinkedNew(p) \/ (job[p].at = "linked" /\ disk'[p] = disk[p])
<1>0. JobTypes
  BY DEF SyncTypes
<1>1. CASE job[p].at = "sent"
  <2>1. Answered(p) \/ Unanswered(p) \/ Refused(p) \/ Abandoned(p)
    <3>1. ~ (CaptureSource(p) \/ ValidateSource(p) \/ ReadSource(p) \/ SendRequest(p))
      BY <1>1 DEF CaptureSource, ValidateSource, ReadSource, SendRequest, At
    <3>2. ~ (Stage(p) \/ CheckDestination(p) \/ LinkNew(p) \/ MoveAside(p) \/ VerifyAside(p))
      BY <1>1 DEF Stage, CheckDestination, LinkNew, MoveAside, VerifyAside, At
    <3>3. ~ (LinkOver(p) \/ DropAside(p) \/ Restore(p) \/ CheckDoomed(p) \/ Unlink(p))
      BY <1>1 DEF LinkOver, DropAside, Restore, CheckDoomed, Unlink, At
    <3> QED
      BY <3>1, <3>2, <3>3 DEF ActionStep
  <2>2. ~ Fail(p)
    BY <1>0, FailTurn
  <2> QED
    BY <2>1, <2>2 DEF Unanswered, Refused, Abandoned
<1>2. CASE job[p].at # "sent"
  <2>1. \/ Proceeds(p) \/ LinkedNew(p) \/ SetAside(p) \/ LinkedOver(p) \/ Dropped(p)
        \/ PutBack(p) \/ Unlinked(p)
    BY ActionFiles
  <2>2. CASE Proceeds(p)
    BY <1>2, <2>2 DEF Proceeds, FilesStay
  <2>3. CASE SetAside(p) \/ LinkedOver(p) \/ Dropped(p) \/ PutBack(p) \/ Unlinked(p)
    BY <2>3 DEF SetAside, LinkedOver, Dropped, PutBack, Unlinked, Transfers
  <2> QED
    BY <2>1, <2>2, <2>3
<1> QED
  BY <1>1, <1>2

\* A transfer goes the way of the run.
LEMMA TransferIs ==
    ASSUME CoreInv, NEW p \in Path, job[p].kind \in Transfers
    PROVE  /\ job[p].kind = "download" <=> DestIsLocal
           /\ job[p].kind = "copy" => ~ SourceIsLocal
           /\ DestFolder \in Folder /\ FromFolder \in Folder
           /\ job[p].src \in EntryRecord /\ job[p].src.path = p /\ SourceTrue(job[p].src)
<1>1. RunTypes /\ Meant(job[p]) /\ job[p] \in JobRecord
  BY DEF CoreInv, SyncTypes, JobTypes
<1>2. job[p].src \in EntryRecord /\ job[p].src # None
  BY <1>1 DEF Meant, JobRecord, MaybeEntry
<1>3. job[p].kind = Transfer(opt) /\ job[p].src.path = p /\ SourceTrue(job[p].src)
  BY <1>2 DEF CoreInv, SourcesInv
<1>4. opt.direction \in Directions
  BY <1>1, OptIs
<1>5. DestFolder \in Folder /\ FromFolder \in Folder
  BY FolderAssumption DEF DestFolder
<1> QED
  BY <1>2, <1>3, <1>4, <1>5 DEF Transfer, Directions, DestIsLocal, SourceIsLocal

\* What the server stores for a request that is answered is what the scan saw.
LEMMA AnsweredLands ==
    ASSUME CoreInv, HeldInv, NEW p \in Path, Answered(p), job[p].kind \in Transfers
    PROVE  /\ ~ DestIsLocal
           /\ \E v \in VersionRecord :
                 /\ v.action = "upload" /\ v.data = job[p].src.data
                 /\ remote'[DestFolder][p] = <<v>> \o remote[DestFolder][p]
<1>0. /\ StoreTypes /\ JobTypes /\ job[p].at = "sent" /\ Meant(job[p])
      /\ Acceptable(Request(p)) /\ Effect(Request(p))
  BY DEF CoreInv, SyncTypes, JobTypes, Answered
<1>1. PICK r : r = Request(p)
  OBVIOUS
<1>2. /\ r.kind = job[p].kind /\ r.path = p /\ r.src = job[p].src /\ r.held = job[p].held
      /\ r.folder = DestFolder
  BY <1>0, <1>1, RequestTypes
<1>3. job[p].kind \in {"upload", "copy"}
  BY <1>0 DEF Meant, Transfers, Remotes
<1>4. /\ ~ DestIsLocal /\ DestFolder \in Folder /\ FromFolder \in Folder
      /\ job[p].kind = "copy" => ~ SourceIsLocal
      /\ job[p].src \in EntryRecord /\ job[p].src.path = p /\ SourceTrue(job[p].src)
  BY <1>3, TransferIs
<1>5. CASE job[p].kind = "upload"
  <2>1. job[p].held \in FileRecord /\ job[p].held.data = job[p].src.data
    BY <1>0, <1>5 DEF Meant, HeldInv, At
  <2>2. PICK d \in Data : d = r.held.data /\ d = job[p].src.data
    BY <1>2, <2>1 DEF FileRecord
  <2>3. PICK v : v = Uploaded(d, Verified(d))
    OBVIOUS
  <2>4. v \in VersionRecord /\ v.action = "upload" /\ v.data = d
    BY <1>0, <2>3, UploadedIs, VerifiedIs
  <2>5. Push(DestFolder, p, v)
    BY <1>0, <1>1, <1>2, <1>5, <2>2, <2>3 DEF Effect
  <2>6. remote'[DestFolder][p] = <<v>> \o remote[DestFolder][p]
    BY <1>0, <1>4, <2>2, <2>4, <2>5, PushTypes
  <2> QED
    BY <1>4, <2>2, <2>4, <2>6
<1>6. CASE job[p].kind = "copy"
  <2>1. HasVersion(FromFolder, p, job[p].src.id)
    BY <1>0, <1>1, <1>2, <1>6 DEF Acceptable
  <2>2. PICK w : w = VersionOf(FromFolder, p, job[p].src.id)
    OBVIOUS
  <2>3. w \in VersionRecord /\ w.data = job[p].src.data
    <3>1. PICK i \in DOMAIN remote[FromFolder][p] :
             w = remote[FromFolder][p][i] /\ remote[FromFolder][p][i].id = job[p].src.id
      BY <2>1, <2>2, VersionOfIs
    <3>2. FromTrue(job[p].src)
      BY <1>4, <1>6 DEF SourceTrue
    <3>3. w \in VersionRecord
      BY <1>0, <1>4, <2>1, <2>2, VersionOfTypes
    <3> QED
      BY <1>4, <3>1, <3>2, <3>3 DEF FromTrue
  <2>4. w.data \in Data /\ w.sha \in Sha /\ TrueSha(w)
    <3>1. job[p].src.data \in Data /\ w.sha \in Sha
      BY <1>4, <2>3 DEF EntryRecord, VersionRecord
    <3>2. TrueSha(w)
      <4>1. \A i \in DOMAIN remote[FromFolder][p] : TrueSha(remote[FromFolder][p][i])
        BY <1>4 DEF CoreInv, IdsInv
      <4> QED
        BY <2>1, <2>2, <4>1, VersionOfIs
    <3> QED
      BY <2>3, <3>1, <3>2
  <2>5. PICK v : v = Uploaded(w.data, w.sha)
    OBVIOUS
  <2>6. v \in VersionRecord /\ v.action = "upload" /\ v.data = w.data
    BY <1>0, <2>4, <2>5, UploadedIs DEF TrueSha
  <2>7. Push(DestFolder, p, v)
    BY <1>0, <1>1, <1>2, <1>6, <2>2, <2>5 DEF Effect
  <2>8. remote'[DestFolder][p] = <<v>> \o remote[DestFolder][p]
    BY <1>0, <1>4, <2>4, <2>6, <2>7, PushTypes
  <2> QED
    BY <1>4, <2>3, <2>6, <2>8
<1> QED
  BY <1>3, <1>5, <1>6

\* A transfer that has succeeded stays where it is.
LEMMA LandedStays ==
    ASSUME CoreInv, LateInv, clean, [Next]_vars, ~ Others,
           NEW p \in Path, job[p].at = "done", job[p] # NoJob
    PROVE  disk'[p] = disk[p] /\ \A f \in Folder : remote'[f][p] = remote[f][p]
<1>0. SyncTypes /\ StoreTypes /\ JobTypes
  BY DEF CoreInv, SyncTypes
<1>1. ~ ActionStep(p)
  BY <1>0, ActionTurn DEF Steps
<1>2. CASE \E q \in Path : ActionStep(q)
  BY <1>0, <1>1, <1>2, ActionPlace, ActionFiles DEF FilesStay
<1>3. CASE \E r \in late : LateEffect(r)
  <2>1. PICK r \in late : LateEffect(r)
    BY <1>3
  <2>2. r.path # p
    BY <2>1 DEF LateInv
  <2>3. r \in RequestRecord /\ Acceptable(r) /\ Effect(r) /\ disk' = disk
    BY <1>0, <2>1 DEF JobTypes, LateEffect, Effect
  <2> QED
    BY <1>0, <2>2, <2>3, EffectPlace
<1>4. CASE ~ (\E q \in Path : ActionStep(q)) /\ ~ \E r \in late : LateEffect(r)
  BY <1>4, OtherStepsKeepStores DEF Next, storeVars
<1> QED
  BY <1>2, <1>3, <1>4

\* What a successful transfer put in place stays in place while nobody else writes.
LEMMA LandsStep ==
    ASSUME CoreInv, FilesInv, HeldInv, LateInv, TransferLands, [Next]_vars
    PROVE  TransferLands'
<1>0. /\ SyncTypes /\ StoresInv /\ BatchInv /\ StoreTypes /\ JobTypes /\ StoreTypes'
  BY CoreStep DEF CoreInv, SyncTypes, StoresInv
<1> SUFFICES ASSUME NEW p \in Path, job'[p].kind \in Transfers, job'[p].at = "done",
                    ~ opt'.dryRun, plan'.quiet, clean'
             PROVE  Destination(p)' # None /\ Destination(p)'.data = job'[p].src.data
  BY DEF TransferLands
<1>1. job'[p] # NoJob /\ ~ StartRun
  <2>1. job'[p] # NoJob
    BY NoJobIs
  <2> QED
    BY <2>1 DEF StartRun
<1>2. opt' = opt
  BY <1>0, <1>1, PlanStep
<1>3. plan.quiet /\ ~ Others
  <2>1. /\ plan'.quiet = plan.quiet /\ (Others => plan.edits > 0)
        /\ plan.quiet => plan.edits = 0
    BY EditsStep DEF FilesInv
  <2> QED
    BY <2>1
<1>4. clean
  <2>1. CASE \E q \in Path : ActionStep(q)
    BY <1>0, <2>1, ActionTurn DEF unchangedByActions, begun
  <2>2. CASE Resume \/ Crash
    BY <2>2 DEF Resume, Crash, begun
  <2>3. CASE Jobless
    BY <2>3, JoblessLate
  <2> QED
    BY <1>1, <2>1, <2>2, <2>3, JoblessSteps
<1>5. PICK f, b : f = DestFolder /\ b = DestIsLocal
  OBVIOUS
<1>6. DestFolder' = f /\ DestIsLocal' = b
  BY <1>2, <1>5 DEF DestFolder, DestIsLocal
<1> DEFINE there == remote'[f][p]
<1>7. Destination(p)' = IF b THEN disk'[p]
                        ELSE IF there # <<>> /\ Head(there).action = "upload"
                             THEN Head(there) ELSE None
  BY <1>6 DEF Destination, Served
<1>8. ASSUME job'[p] = job[p], ~ ActionStep(p)
      PROVE  Destination(p)' # None /\ Destination(p)'.data = job'[p].src.data
  <2>1. Destination(p) # None /\ Destination(p).data = job[p].src.data
    BY <1>2, <1>3, <1>4, <1>8 DEF TransferLands
  <2>2. f \in Folder
    BY <1>5, FolderAssumption DEF DestFolder
  <2>3. disk'[p] = disk[p] /\ remote'[f][p] = remote[f][p]
    BY <1>1, <1>3, <1>4, <1>8, <2>2, LandedStays
  <2>4. Destination(p)' = Destination(p)
    BY <1>5, <1>7, <2>3 DEF Destination, Served
  <2> QED
    BY <1>8, <2>1, <2>4
<1>9. ASSUME Planned(p) PROVE FALSE
  <2>1. PICK pair : /\ job'[p].kind = ActionFor(pair)
                    /\ job'[p].at = IF ActionFor(pair) \in Skips \/ opt.dryRun
                                    THEN "done" ELSE "start"
    BY <1>0, <1>9, PlannedIs
  <2>2. ActionFor(pair) \notin Skips
    BY <2>1 DEF Transfers, Skips
  <2> QED
    BY <1>2, <2>1, <2>2
<1>10. ASSUME ActionStep(p)
       PROVE  Destination(p)' # None /\ Destination(p)'.data = job'[p].src.data
  <2>0. job'[p].kind = job[p].kind /\ job'[p].src = job[p].src
    BY <1>0, <1>10, ActionTurn DEF JobTurn
  <2>1. /\ job[p].kind = "download" <=> DestIsLocal
        /\ job[p] \in JobRecord /\ Meant(job[p])
    BY <1>0, <2>0, TransferIs DEF JobTypes
  <2>2. CASE Answered(p)
    <3>1. ~ b /\ \E v \in VersionRecord : /\ v.action = "upload" /\ v.data = job[p].src.data
                                          /\ remote'[f][p] = <<v>> \o remote[f][p]
      BY <1>5, <2>0, <2>2, AnsweredLands
    <3>2. PICK v \in VersionRecord : /\ v.action = "upload" /\ v.data = job[p].src.data
                                     /\ there = <<v>> \o remote[f][p]
      BY <3>1
    <3>3. remote[f][p] \in Seq(VersionRecord)
      BY <1>0, <1>5, FolderAssumption DEF StoreTypes, DestFolder
    <3>4. there # <<>> /\ Head(there) = v
      BY <3>2, <3>3
    <3>5. Destination(p)' = v
      BY <1>7, <3>1, <3>2, <3>4
    <3> QED
      BY <2>0, <3>2, <3>5, RecordAssumption
  <2>3. CASE LinkedNew(p)
    <3>1. job[p].at \in Fetched /\ disk'[p] = Published(p)
      BY <2>3 DEF LinkedNew, Fetched
    <3>2. job[p].kind = "download" /\ job[p].held.data = job[p].src.data
      BY <2>1, <3>1 DEF Meant, HeldInv
    <3>3. Published(p) \in FileRecord /\ Published(p).data = job[p].held.data
      BY <1>0, <3>1, PublishedIs
    <3>4. Destination(p)' = Published(p)
      BY <1>5, <1>7, <2>1, <3>1, <3>2
    <3> QED
      BY <2>0, <3>2, <3>3, <3>4, RecordAssumption
  <2>4. CASE job[p].at = "linked" /\ disk'[p] = disk[p]
    <3>1. disk[p] # None
      BY <1>3, <2>4 DEF FilesInv
    <3>2. disk[p].data = job[p].src.data
      BY <1>3, <2>4 DEF HeldInv
    <3>3. job[p].kind = "download"
      BY <2>1, <2>4 DEF Meant, Fetched, Replacing
    <3>4. Destination(p)' = disk[p]
      BY <1>5, <1>7, <2>1, <2>4, <3>3
    <3> QED
      BY <2>0, <3>1, <3>2, <3>4
  <2> QED
    BY <1>0, <1>10, <2>0, <2>2, <2>3, <2>4, LandsTurn
<1> QED
  BY <1>0, <1>1, <1>8, <1>9, <1>10, JobComes

-----------------------------------------------------------------------------
(* What a run says of its paths.                                           *)

TruthInv ==
    /\ FilesInv /\ HonestInv /\ HeldInv /\ MergeInv /\ PlanInv /\ HadInv /\ FutureInv /\ LateInv
    /\ RemovedMeansAbsent /\ SameMeansSame /\ TransferLands

\* What a run says of a path is so: it was removed because the source had nothing there, is
\* the same because the bytes are, was sent because that is what the scan had seen, and is in
\* place when the transfer succeeded (the actions of synchronizer.ts and local-file-io.ts).
THEOREM RunsAreTruthful == Spec => []OutcomesAreTrue
<1>1. Init => TruthInv
  <2> SUFFICES ASSUME Init PROVE TruthInv
    OBVIOUS
  <2>1. FilesInv /\ HonestInv /\ HeldInv /\ MergeInv
    BY FilesInvStart, HonestStart, HeldStart, MergeStart
  <2>2. PlanInv /\ HadInv /\ RemovedMeansAbsent /\ FutureInv /\ LateInv /\ TransferLands
    BY HadStart, FutureStart, LateStart
  <2>3. SameMeansSame
    BY NoJobIs DEF Init, SameMeansSame
  <2> QED
    BY <2>1, <2>2, <2>3 DEF TruthInv
<1>2. CoreInv /\ TruthInv /\ [Next]_vars => TruthInv'
  <2> SUFFICES ASSUME CoreInv, TruthInv, [Next]_vars PROVE TruthInv'
    OBVIOUS
  <2>0. /\ FilesInv /\ HonestInv /\ HeldInv /\ MergeInv /\ PlanInv /\ HadInv /\ FutureInv
        /\ LateInv /\ RemovedMeansAbsent /\ SameMeansSame /\ TransferLands
    BY DEF TruthInv
  <2>1. FilesInv' /\ HonestInv' /\ HeldInv' /\ MergeInv'
    BY <2>0, FilesInvStep, HonestStep, HeldStep, MergeStep
  <2>2. PlanInv' /\ HadInv' /\ FutureInv' /\ LateInv'
    BY <2>0, PlanInvStep, HadStep, FutureStep, LateStep
  <2>3. RemovedMeansAbsent' /\ SameMeansSame' /\ TransferLands'
    BY <2>0, RemovedStep, SameStep, LandsStep
  <2> QED
    BY <2>1, <2>2, <2>3 DEF TruthInv
<1>3. CoreInv /\ TruthInv => OutcomesAreTrue
  BY DEF TruthInv, OutcomesAreTrue, UploadIsScanned, HeldInv
<1> QED
  BY <1>1, <1>2, <1>3, SyncCore, PTL DEF Spec

====
