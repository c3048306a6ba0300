----------------------------- MODULE FileVersions -----------------------------
(***************************************************************************)
(* The file versions of one bucket with file lock, as the server            *)
(* (simulator/index.ts) keeps, lists and deletes them.  Names are numbers   *)
(* in the order of the strings; FolderOf[n] is what is left of n when it is *)
(* cut after the delimiter.  The versions of a name are kept in the order   *)
(* of their IDs.                                                            *)
(***************************************************************************)
EXTENDS Naturals, FiniteSets

CONSTANTS FileName,     \* names, numbers other than 0
          FolderOf,     \* the folder of each name, 0 if it has no delimiter
          MaxId, MaxTime \* bounds: versions ever made, the clock

ASSUME BoundsAssumption == MaxId \in Nat /\ MaxTime \in Nat
ASSUME NamesAssumption  == FileName \subseteq Nat \ {0} /\ FolderOf \in [FileName -> Nat \ FileName]

VARIABLES versions, nextId, lastTimestamp, now

serverVars == <<versions, nextId, lastTimestamp, now>>

NoRetention == [mode |-> "none", until |-> 0]
Retention == [mode : {"governance", "compliance"}, until : 1..MaxTime + 1] \cup {NoRetention}
Version == [id : 1..MaxId, name : FileName, action : {"upload", "copy", "hide"},
            stamp : Nat, hold : BOOLEAN, retention : Retention]

FilesTypeOK ==
    /\ versions \subseteq Version
    /\ nextId \in 1..MaxId + 1
    /\ lastTimestamp \in Nat
    /\ now \in 0..MaxTime

Ids(vs) == {v.id : v \in vs}

-----------------------------------------------------------------------------
(* Making versions.                                                        *)

\* monotonicTimestamp: what is stamped next, however coarse the clock.
Stamp == IF now <= lastTimestamp THEN lastTimestamp + 1 ELSE now

\* makeFileVersion, pushed to the versions of its name.
NewVersion(name, action, stamp) ==
    [id |-> nextId, name |-> name, action |-> action, stamp |-> stamp,
     hold |-> FALSE, retention |-> NoRetention]

Push(name, action) ==
    /\ nextId <= MaxId
    /\ versions' = versions \cup {NewVersion(name, action, Stamp)}
    /\ lastTimestamp' = Stamp
    /\ nextId' = nextId + 1 /\ UNCHANGED now

UploadFile(name) == Push(name, "upload")

\* parseCustomUploadTimestamp: a time up to now, of an account that may choose.
UploadWithTimestamp(name, stamp) ==
    /\ nextId <= MaxId /\ stamp <= now
    /\ versions' = versions \cup {NewVersion(name, "upload", stamp)}
    /\ nextId' = nextId + 1
    /\ UNCHANGED <<lastTimestamp, now>>

\* Hides also what is hidden, and what does not exist.
HideFile(name) == Push(name, "hide")

\* copyFile without a range: any version, a hide marker too, is copied.
CopyFile(id, name) == id \in Ids(versions) /\ Push(name, "copy")

-----------------------------------------------------------------------------
(* File lock.                                                              *)

Active(retention, mode) == retention.mode = mode /\ retention.until > now

\* The guards of deleteFileVersion.  bypass: asked for, with the capability.
Deletable(v, bypass) ==
    /\ ~v.hold
    /\ ~Active(v.retention, "compliance")
    /\ Active(v.retention, "governance") => bypass

\* deleteFileVersion: the version goes, or the request fails.
Without(vs, id) == {v \in vs : v.id # id}
DeleteOk(id, bypass) == \E v \in versions : v.id = id /\ Deletable(v, bypass)

DeleteFileVersion(id, bypass) ==
    /\ DeleteOk(id, bypass)
    /\ versions' = Without(versions, id)
    /\ UNCHANGED <<nextId, lastTimestamp, now>>

\* Mutant: only the time counts, not the mode.
ShorterOnly(current, next) == next.until < current.until

\* isRetentionWeakened
Weakened(current, next) ==
    /\ current.mode # "none"
    /\ \/ next.mode = "none"
       \/ current.mode = "compliance" /\ next.mode # "compliance"
       \/ next.until < current.until

\* The guards of updateFileRetention and requiresGovernanceBypass; a new time is ahead.
RetentionAllowed(current, next, bypass) ==
    /\ next.mode # "none" => next.until > now
    /\ current.mode = "compliance" => ~Weakened(current, next)
    /\ current.mode = "governance" /\ (next.mode = "compliance" \/ Weakened(current, next)) => bypass

UpdateFileRetention(v, retention, bypass) ==
    /\ v \in versions /\ RetentionAllowed(v.retention, retention, bypass)
    /\ versions' = (versions \ {v}) \cup {[v EXCEPT !.retention = retention]}
    /\ UNCHANGED <<nextId, lastTimestamp, now>>

UpdateFileLegalHold(v, on) ==
    /\ v \in versions /\ v.hold # on
    /\ versions' = (versions \ {v}) \cup {[v EXCEPT !.hold = on]}
    /\ UNCHANGED <<nextId, lastTimestamp, now>>

Tick == now < MaxTime /\ now' = now + 1 /\ UNCHANGED <<versions, nextId, lastTimestamp>>

-----------------------------------------------------------------------------
(* Listings: pages of rows from a cursor on.  A cursor is the name and the  *)
(* ID of a row; a folder has no ID, and a page of names gives none.         *)

NoCursor == [name |-> 0, id |-> 0]

\* The order of file versions: by name, the newest timestamp first.
Precedes(r, s) ==
    \/ r.name < s.name
    \/ r.name = s.name /\ r.stamp > s.stamp
    \/ r.name = s.name /\ r.stamp = s.stamp /\ r.id < s.id

\* What downloadByName serves and listFileNames shows: the version pushed last.
Latest(vs) == {v \in vs : \A w \in vs : w.name = v.name => w.id <= v.id}
Visible(vs) == {v \in Latest(vs) : v.action # "hide"}

\* applyListDelimiter: a file, or the folder it is in.
Row(v, delimited) ==
    IF delimited /\ FolderOf[v.name] # 0 THEN [name |-> FolderOf[v.name], id |-> 0, stamp |-> 0]
    ELSE [name |-> v.name, id |-> v.id, stamp |-> v.stamp]
Rows(vs, delimited) == {Row(v, delimited) : v \in vs}

\* Mutant: the version of the cursor is gone, and so are the others of its name.
SkipName(rows, cursor) ==
    LET exact == {r \in rows : r.name >= cursor.name /\ cursor.id # 0 /\ r.id = cursor.id} IN
    IF exact # {} THEN {r \in rows : \E e \in exact : r = e \/ Precedes(e, r)}
    ELSE {r \in rows : IF cursor.id = 0 THEN r.name >= cursor.name ELSE r.name > cursor.name}

\* The row of the cursor, or all of its name if that version was deleted.
From(rows, cursor) ==
    LET exact == {r \in rows : r.name >= cursor.name /\ cursor.id # 0 /\ r.id = cursor.id} IN
    IF exact # {} THEN {r \in rows : \E e \in exact : r = e \/ Precedes(e, r)}
    ELSE {r \in rows : r.name >= cursor.name}

Page(rows, max) == {r \in rows : Cardinality({q \in rows : Precedes(q, r)}) < max}

\* nextFileName and nextFileId: the first row after the page.
NextCursor(rows, max) ==
    LET rest == rows \ Page(rows, max) IN
    IF rest = {} THEN NoCursor
    ELSE LET first == CHOOSE r \in rest : \A q \in rest : q = r \/ Precedes(r, q) IN
         [name |-> first.name, id |-> first.id]
=============================================================================
