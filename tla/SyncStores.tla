----------------------------- MODULE SyncStores -----------------------------
(***************************************************************************)
(* The two sides a synchronizer works on: a local directory (disk, and     *)
(* beside each path the files set aside under a reserved name) and folders *)
(* of a bucket, each path with its versions, newest first.  A file or      *)
(* version is told from any other by the tick of the clock that made it:   *)
(* it stands for device, inode, size and times, and for a version's id.    *)
(***************************************************************************)
EXTENDS SyncPolicy, Sequences, FiniteSets

CONSTANTS N,          \* sync paths are 1 .. N, in the order of their names
          Folder,     \* prefixes of the bucket
          FromFolder, \* the folder a run reads from B2, and the one it
          ToFolder    \* copies to (uploads go to FromFolder)

ASSUME PathAssumption == N \in Nat
ASSUME FolderAssumption == {FromFolder, ToFolder} \subseteq Folder
ASSUME SizeAssumption == Size \in [Data -> Nat]

Path == 1 .. N

\* A local file, a version of a file name in the bucket, and an entry of a scan.
FileRecord    == [id : Nat, data : Data]
VersionRecord == [id : Nat, action : {"upload", "hide"}, data : Data \cup {None}, sha : Sha]
EntryRecord   == [path : Path, id : Nat, data : Data, sha : Sha]

ASSUME RecordAssumption ==
    None \notin FileRecord /\ None \notin VersionRecord /\ None \notin EntryRecord

VARIABLES disk,     \* disk[p]: the file [id, data] at p, None when there is none
          aside,    \* aside[p]: files renamed to a reserved name beside p
          remote,   \* remote[f][p]: the versions [id, action, data, sha] of p under prefix f
          clock     \* the next identity

storeVars == <<disk, aside, remote, clock>>

\* The newest version, when it is not a hide marker.
Served(f, p) == IF remote[f][p] # <<>> /\ Head(remote[f][p]).action = "upload"
                THEN Head(remote[f][p]) ELSE None

HasVersion(f, p, id) == \E i \in DOMAIN remote[f][p] : remote[f][p][i].id = id
VersionOf(f, p, id)  == CHOOSE v \in {remote[f][p][i] : i \in DOMAIN remote[f][p]} : v.id = id

\* A new version on top of p.
Push(f, p, v) == remote' = [remote EXCEPT ![f][p] = <<v>> \o @]

Uploaded(data, sha) == [id |-> clock, action |-> "upload", data |-> data, sha |-> sha]
HideMarker == [id |-> clock, action |-> "hide", data |-> None, sha |-> Unavailable]

\* b2_delete_file_version.
DeleteVersion(f, p, id) ==
    \E i \in DOMAIN remote[f][p] :
        /\ remote[f][p][i].id = id
        /\ remote' = [remote EXCEPT ![f][p] = SubSeq(@, 1, i - 1) \o SubSeq(@, i + 1, Len(@))]

\* Every local file under p, wherever it is.
FilesOf(p) == aside[p] \cup ({disk[p]} \ {None})

-----------------------------------------------------------------------------
\* Others who write on the two sides.

Tick == clock' = clock + 1

\* A user replaces the file at p, or removes it.
EditFile(p, d) ==
    /\ disk' = [disk EXCEPT ![p] = [id |-> clock, data |-> d]]
    /\ Tick
    /\ UNCHANGED <<aside, remote>>

RemoveFile(p) ==
    /\ disk[p] # None
    /\ disk' = [disk EXCEPT ![p] = None]
    /\ UNCHANGED <<aside, remote, clock>>

\* Another client of the bucket uploads a version.
UploadElsewhere(f, p, d) ==
    /\ Push(f, p, Uploaded(d, Verified(d)))
    /\ Tick
    /\ UNCHANGED <<disk, aside>>

\* ... or deletes the newest one.
DeleteElsewhere(f, p) ==
    /\ remote[f][p] # <<>>
    /\ DeleteVersion(f, p, Head(remote[f][p]).id)
    /\ UNCHANGED <<disk, aside, clock>>
=============================================================================
