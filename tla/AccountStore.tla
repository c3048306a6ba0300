----------------------------- MODULE AccountStore -----------------------------
(***************************************************************************)
(* FileAccountInfo (auth/file.ts): the authorization of a B2Client kept in *)
(* a JSON file that other processes may share, so that a restarted process *)
(* can go on without authorizing.                                          *)
(*                                                                         *)
(* An authorization is a record of the key and realm it was issued for (the*)
(* realm its endpoints belong to) and a serial number.  A file that load   *)
(* can read holds an authorization and the labels of its _b2sdk entry;     *)
(* Unreadable is any other text: "", not JSON, or of another version.      *)
(* lastSet, lost and lastWriter are history variables.                     *)
(***************************************************************************)
EXTENDS Naturals, Sequences

CONSTANTS Process, Client,
          ClientsOf,   \* the clients a process constructs on its FileAccountInfo
          KeyOf, RealmOf, \* applicationKeyId and realmUrl of a client
          Production,  \* BUILT_IN_PRODUCTION_REALM_URL
          MaxAuths,    \* bound: authorizations issued
          NoAuth,      \* null
          Unlabelled,  \* no realmUrl, or no applicationKeyId
          Unreadable, Missing, Torn

ASSUME MaxAuthsAssumption == MaxAuths \in Nat
ASSUME ClientsAssumption == ClientsOf \in [Process -> SUBSET Client]

Key   == {KeyOf[c] : c \in Client}
Realm == {RealmOf[c] : c \in Client}
Auth  == [key : Key, realm : Realm, serial : 0..MaxAuths]
Cache == [auth : Auth, realm : Realm \cup {Unlabelled}, key : Key \cup {Unlabelled}]

MarkersApart ==
    /\ NoAuth \notin Auth
    /\ {Unreadable, Missing, Torn} \cap Cache = {}
    /\ Unlabelled \notin Key \cup Realm
    /\ Torn \notin {Unreadable, Missing}
ASSUME MarkersAssumption == MarkersApart

VARIABLES disk,       \* what the path holds
          temp,       \* the temporary file of each process
          running,    \* is the process up
          loaded,     \* load() is over
          held,       \* the authorization in memory, and the labels it was loaded with
          client,     \* the client it is bound to, a set of at most one
          writeQueue, \* authorizations that wait to be written
          writing,    \* where the write at the head of the queue is
          contents,   \* what it writes
          issued,     \* serial number of the last authorization
          lastSet, lost, lastWriter

memVars  == <<running, loaded, held, client>>
diskVars == <<disk, temp>>
queueVars == <<writeQueue, writing, contents>>
history  == <<lastSet, lost, lastWriter>>
vars     == <<diskVars, memVars, queueVars, issued, history>>

Nothing == [auth |-> NoAuth, realm |-> Unlabelled, key |-> Unlabelled]

TypeOK ==
    /\ disk \in Cache \cup {Unreadable, Missing, Torn}
    /\ temp \in [Process -> Cache \cup {Unreadable, Missing, Torn}]
    /\ running \in [Process -> BOOLEAN]
    /\ loaded \in [Process -> BOOLEAN]
    /\ held \in [Process -> Cache \cup {Nothing}]
    /\ client \in [Process -> SUBSET Client]
    /\ writeQueue \in [Process -> Seq(Auth \cup {NoAuth})]
    /\ writing \in [Process -> {"idle", "writing", "written", "renamed"}]
    /\ contents \in [Process -> Cache \cup {Unreadable}]
    /\ issued \in 0..MaxAuths
    /\ lastSet \in [Process -> Auth \cup {NoAuth}]
    /\ lost \in [Process -> BOOLEAN]
    /\ lastWriter \in SUBSET Process

\* What earlier runs of any client, or of an older version, may have left: a cache of
\* an older version has no labels, or no key.
InitialCache ==
    LET own(c) == [key |-> KeyOf[c], realm |-> RealmOf[c], serial |-> 0] IN
    UNION {{[auth |-> own(c), realm |-> RealmOf[c], key |-> KeyOf[c]],
            [auth |-> own(c), realm |-> RealmOf[c], key |-> Unlabelled],
            [auth |-> own(c), realm |-> Unlabelled, key |-> Unlabelled]} : c \in Client}

Init ==
    /\ disk \in InitialCache \cup {Unreadable, Missing}
    /\ temp = [p \in Process |-> Missing]
    /\ running = [p \in Process |-> FALSE]
    /\ loaded = [p \in Process |-> FALSE]
    /\ held = [p \in Process |-> Nothing]
    /\ client = [p \in Process |-> {}]
    /\ writeQueue = [p \in Process |-> <<>>]
    /\ writing = [p \in Process |-> "idle"]
    /\ contents = [p \in Process |-> Unreadable]
    /\ issued = 0
    /\ lastSet = [p \in Process |-> NoAuth]
    /\ lost = [p \in Process |-> FALSE]
    /\ lastWriter = {}

-----------------------------------------------------------------------------
(* The memory of a process.                                                *)

\* authEndpointsMatchRealm: the endpoints of the response are hosts of the realm.
EndpointsMatch(auth, realm) == auth.realm = realm

\* realmMatches: the label, or the endpoints of an unlabelled production cache.
RealmMatches(cache, realm) ==
    \/ cache.realm = realm
    \/ cache.realm = Unlabelled /\ realm = Production /\ cache.auth.realm = Production

\* Mutant: a cache that does not say which key wrote it is trusted.
TrustsUnlabelled(cache, c) ==
    /\ RealmMatches(cache, RealmOf[c])
    /\ cache.key \in {KeyOf[c], Unlabelled}
    /\ EndpointsMatch(cache.auth, RealmOf[c])

\* mismatchReason is null.
Usable(cache, c) ==
    /\ RealmMatches(cache, RealmOf[c])
    /\ cache.key = KeyOf[c]
    /\ EndpointsMatch(cache.auth, RealmOf[c])

\* discardMismatchedAuth, for the clients (none or one) the store is bound to.
Kept(cache, bound) ==
    IF cache # Nothing /\ \E c \in bound : ~Usable(cache, c) THEN Nothing ELSE cache

Start(p) ==
    /\ ~running[p]
    /\ running' = [running EXCEPT ![p] = TRUE]
    /\ UNCHANGED <<diskVars, loaded, held, client, queueVars, issued, history>>

\* load, awaited before the first authorization; before or after the client is made.
\* readFile sees one file, however often the path is renamed over.
Load(p) ==
    /\ running[p] /\ ~loaded[p]
    /\ loaded' = [loaded EXCEPT ![p] = TRUE]
    /\ held' = [held EXCEPT ![p] = IF disk \in {Unreadable, Missing, Torn} THEN Nothing
                                   ELSE Kept(disk, client[p])]
    /\ UNCHANGED <<diskVars, running, client, queueVars, issued, history>>

\* bindAccountInfoAuthContext: setApplicationKeyId, setRealmUrl.  A write that need not
\* wait has begun in the microtask after setAuth.
Bind(p, c) ==
    /\ running[p] /\ c \notin client[p]
    /\ writing[p] = "idle" => writeQueue[p] = <<>>
    /\ client' = [client EXCEPT ![p] = {c}]
    /\ held' = [held EXCEPT ![p] = Kept(held[p], {c})]
    /\ UNCHANGED <<diskVars, running, loaded, queueVars, issued, history>>

\* flush takes the authorization along; the write happens later.
Flush(p, auth) ==
    /\ writeQueue' = [writeQueue EXCEPT ![p] = Append(writeQueue[p], auth)]
    /\ lastSet' = [lastSet EXCEPT ![p] = auth]
    /\ UNCHANGED <<lost, lastWriter>>

\* B2Client.authorize is answered: setAuth.  load is not called after the first one.
Authorize(p, c) ==
    /\ running[p] /\ client[p] = {c} /\ issued < MaxAuths
    /\ issued' = issued + 1 /\ loaded' = [loaded EXCEPT ![p] = TRUE]
    /\ LET auth == [key |-> KeyOf[c], realm |-> RealmOf[c], serial |-> issued'] IN
         /\ held' = [held EXCEPT ![p] = [auth |-> auth, realm |-> RealmOf[c], key |-> KeyOf[c]]]
         /\ Flush(p, auth)
    /\ UNCHANGED <<diskVars, running, client, writing, contents>>

\* Bound: only what is held is cleared.
Clear(p) ==
    /\ running[p] /\ held[p] # Nothing
    /\ held' = [held EXCEPT ![p] = Nothing]
    /\ Flush(p, NoAuth)
    /\ UNCHANGED <<diskVars, running, loaded, client, writing, contents, issued>>

-----------------------------------------------------------------------------
(* The write queue: writePrivateFileAtomically, one write at a time.       *)

At(p, step)   == running[p] /\ writing[p] = step
Goto(p, step) == writing' = [writing EXCEPT ![p] = step]

\* Mutant: the write goes to the path itself.
InPlace(p, text) == disk' = text /\ UNCHANGED temp

WriteFile(p, text) == temp' = [temp EXCEPT ![p] = text] /\ UNCHANGED disk

\* The labels are those of the client that is bound when the write begins.
Contents(p) ==
    LET auth == Head(writeQueue[p]) IN
    IF auth = NoAuth THEN Unreadable
    ELSE [auth  |-> auth,
          realm |-> IF client[p] = {} THEN Unlabelled ELSE RealmOf[CHOOSE c \in client[p] : TRUE],
          key   |-> IF client[p] = {} THEN Unlabelled ELSE KeyOf[CHOOSE c \in client[p] : TRUE]]

\* A Torn file is being written.
BeginWrite(p) ==
    /\ At(p, "idle") /\ writeQueue[p] # <<>>
    /\ contents' = [contents EXCEPT ![p] = Contents(p)]
    /\ WriteFile(p, Torn) /\ Goto(p, "writing")
    /\ UNCHANGED <<memVars, writeQueue, issued, history>>

\* writeFile ends; chmod.
EndWrite(p) ==
    /\ At(p, "writing")
    /\ WriteFile(p, contents[p]) /\ Goto(p, "written")
    /\ UNCHANGED <<memVars, writeQueue, contents, issued, history>>

Rename(p) ==
    /\ At(p, "written")
    /\ disk' = temp[p] /\ temp' = [temp EXCEPT ![p] = Missing]
    /\ Goto(p, "renamed") /\ lastWriter' = {p}
    /\ UNCHANGED <<memVars, writeQueue, contents, issued, lastSet, lost>>

\* Mutant: the newest write of the queue goes first.
PopNewest(p) == writeQueue' = [writeQueue EXCEPT ![p] = SubSeq(writeQueue[p], 1, Len(writeQueue[p]) - 1)]

\* The promise of the write settles, and writeQueue goes on to the next.
Dequeued(p) == writeQueue' = [writeQueue EXCEPT ![p] = Tail(writeQueue[p])]

\* chmod of the path.
EndFlush(p) ==
    /\ At(p, "renamed")
    /\ Dequeued(p) /\ Goto(p, "idle")
    /\ lost' = [lost EXCEPT ![p] = FALSE]
    /\ UNCHANGED <<diskVars, memVars, contents, issued, lastSet, lastWriter>>

\* writeQueue = next.catch(...)
SettleFailed(p) == Dequeued(p) /\ Goto(p, "idle")

\* Any step of the write throws; the temporary file is removed.  Reported to
\* onWriteError, or (a clear) swallowed.
WriteFails(p) ==
    /\ running[p] /\ writing[p] # "idle"
    /\ temp' = [temp EXCEPT ![p] = Missing]
    /\ SettleFailed(p)
    /\ lost' = [lost EXCEPT ![p] = writing[p] # "renamed"]
    /\ UNCHANGED <<disk, memVars, contents, issued, lastSet, lastWriter>>

\* The process ends at any moment; its temporary file stays, under a name of its own.
Crash(p) ==
    /\ running[p]
    /\ running' = [running EXCEPT ![p] = FALSE]
    /\ loaded' = [loaded EXCEPT ![p] = FALSE]
    /\ held' = [held EXCEPT ![p] = Nothing]
    /\ client' = [client EXCEPT ![p] = {}]
    /\ writeQueue' = [writeQueue EXCEPT ![p] = <<>>]
    /\ writing' = [writing EXCEPT ![p] = "idle"]
    /\ contents' = [contents EXCEPT ![p] = Unreadable]
    /\ temp' = [temp EXCEPT ![p] = Missing]
    /\ lastSet' = [lastSet EXCEPT ![p] = NoAuth]
    /\ lost' = [lost EXCEPT ![p] = FALSE]
    /\ lastWriter' = lastWriter \ {p}
    /\ UNCHANGED <<disk, issued>>

-----------------------------------------------------------------------------

WriteStep(p) == BeginWrite(p) \/ EndWrite(p) \/ Rename(p) \/ EndFlush(p) \/ WriteFails(p)

Next == \E p \in Process :
          \/ Start(p) \/ Load(p) \/ Clear(p) \/ Crash(p) \/ WriteStep(p)
          \/ \E c \in ClientsOf[p] : Bind(p, c) \/ Authorize(p, c)

Spec == Init /\ [][Next]_vars

-----------------------------------------------------------------------------
(* Properties.                                                             *)

\* "stale auth produced by another key is discarded before it can be used", and so is
\* that of another realm: whatever older versions, crashes and other processes left in
\* the file, a client only ever holds an authorization of its own key and realm.
OwnAuthOnly ==
    \A p \in Process : \A c \in client[p] :
        held[p] # Nothing => held[p].auth.key = KeyOf[c] /\ held[p].auth.realm = RealmOf[c]

\* A crash in the middle of a write, or two processes writing at once, never leave half
\* a file.
DiskIsWhole == disk # Torn

\* flushed(): once the queue has drained, the file has the last authorization set (or
\* none, if it was cleared), unless another process wrote since or the write failed.
FlushedIsPersisted ==
    \A p \in Process :
        writeQueue[p] = <<>> /\ p \in lastWriter /\ ~lost[p] =>
            IF lastSet[p] = NoAuth THEN disk = Unreadable
            ELSE disk \notin {Unreadable, Missing, Torn} /\ disk.auth = lastSet[p]
=============================================================================
