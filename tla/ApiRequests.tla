---------------------------- MODULE ApiRequests ----------------------------
(***************************************************************************)
(* The requests of the raw client (raw/index.ts) and the gate they pass in   *)
(* the simulator with strictAuth: the scope that is read off a request       *)
(* before its handler runs (simulator/index.ts, simulator/capabilities.ts).  *)
(* A prefix is the set of names it covers; the empty prefix covers a name no  *)
(* grant has.                                                              *)
(***************************************************************************)
EXTENDS StorageService

\* What a request's body names: a bucket by its id or its name, a stored file, a large file,
\* other buckets, and names.  A bucket's name stands for its id.
Body == [bucket |-> None, named |-> None, file |-> None, large |-> None, to |-> {}, names |-> {}]
Request(endpoint, body) == [endpoint |-> endpoint, body |-> body]

OnBucket(b) == [Body EXCEPT !.bucket = b]
OnNames(b, names) == [Body EXCEPT !.bucket = b, !.names = names]
OnFile(id) == [Body EXCEPT !.file = id]
OnLargeFile(id) == [Body EXCEPT !.large = id]
OnReplicated(b, to) == [OnBucket(b) EXCEPT !.to = to]
OnVersion(id, n) == [OnFile(id) EXCEPT !.names = {n}]
OnCopy(id, to, n) == [OnVersion(id, n) EXCEPT !.to = to]
OnPart(id, large) == [OnFile(id) EXCEPT !.large = large]

\* The ids that are not of keys and tokens: of what is there, of what was deleted since, and the
\* next one, which nothing has yet.
Ids == (1..nextId) \ (KeyIds \cup {t.id : t \in tokens})

-----------------------------------------------------------------------------
(* The raw client's methods.                                               *)

\* Without a replication, or with one to a bucket.
Replications == {{}} \cup {{b} : b \in Ids}

OnBuckets(endpoint) == {Request(endpoint, OnBucket(b)) : b \in Ids}
OnPrefixes(endpoint) == {Request(endpoint, OnNames(b, names)) : b \in Ids, names \in NamePrefixes}
OnNamesOf(endpoint) == {Request(endpoint, OnNames(b, {n})) : b \in Ids, n \in Name}
OnFiles(endpoint) == {Request(endpoint, OnVersion(id, n)) : id \in Ids, n \in Name}
OnLargeFiles(endpoint) == {Request(endpoint, OnLargeFile(id)) : id \in Ids}

\* createBucket, updateBucket; listBuckets, by name or of all.
CreateBucketRequests == {Request("b2_create_bucket", [Body EXCEPT !.to = to]) : to \in Replications}
UpdateBucketRequests == {Request("b2_update_bucket", OnReplicated(b, to)) : b \in Ids, to \in Replications}
ListBucketsRequests == {Request("b2_list_buckets", [Body EXCEPT !.named = b]) : b \in {None} \cup Ids}

\* deleteBucket, listBuckets, getUploadUrl
BucketRequests ==
    UNION {CreateBucketRequests, UpdateBucketRequests, ListBucketsRequests, OnBuckets("b2_list_buckets"),
           OnBuckets("b2_delete_bucket"), OnBuckets("b2_get_upload_url")}

\* listFileNames, listFileVersions
ListRequests == OnPrefixes("b2_list_file_names") \cup OnPrefixes("b2_list_file_versions")

\* getFileInfo, hideFile, deleteFileVersion
FileRequests ==
    {Request("b2_get_file_info", OnFile(id)) : id \in Ids}
        \cup OnNamesOf("b2_hide_file") \cup OnFiles("b2_delete_file_version")

\* copyFile, with a destination bucket or without
CopyFileRequests == {Request("b2_copy_file", OnCopy(id, to, n)) : id \in Ids, to \in Replications, n \in Name}

\* copyPart
CopyPartRequests == {Request("b2_copy_part", OnPart(id, large)) : id \in Ids, large \in Ids}

\* startLargeFile, getUploadPartUrl
StartRequests == OnNamesOf("b2_start_large_file") \cup OnLargeFiles("b2_get_upload_part_url")

\* finishLargeFile, cancelLargeFile, listUnfinishedLargeFiles, listParts
LargeFileRequests ==
    OnLargeFiles("b2_finish_large_file") \cup OnLargeFiles("b2_cancel_large_file")
        \cup OnPrefixes("b2_list_unfinished_large_files") \cup OnLargeFiles("b2_list_parts")

\* getDownloadAuthorization
ShareRequests == OnPrefixes("b2_get_download_authorization")

\* createKey, listKeys, deleteKey
KeyRequests == {Request(e, Body) : e \in {"b2_create_key", "b2_list_keys", "b2_delete_key"}}

\* updateFileRetention, updateFileLegalHold
LockRequests == OnFiles("b2_update_file_retention") \cup OnFiles("b2_update_file_legal_hold")

\* getBucketNotificationRules, setBucketNotificationRules: no rules, or one with a prefix.
RuleRequests ==
    OnBuckets("b2_get_bucket_notification_rules") \cup OnBuckets("b2_set_bucket_notification_rules")
        \cup OnPrefixes("b2_set_bucket_notification_rules")

Requests ==
    UNION {BucketRequests, ListRequests, FileRequests, CopyFileRequests, CopyPartRequests, StartRequests,
           LargeFileRequests, ShareRequests, KeyRequests, LockRequests, RuleRequests}

\* postJson
Method == "POST"

-----------------------------------------------------------------------------
(* The gate.                                                               *)

\* JSON_ENDPOINTS: the simulator also takes requests as queries, and some as queries only.
Methods(endpoint) ==
    CASE endpoint = "b2_authorize_account" -> {"GET"}
      [] endpoint \in {"b2_get_upload_url", "b2_list_file_names", "b2_list_file_versions", "b2_get_file_info",
                       "b2_copy_file", "b2_get_upload_part_url", "b2_list_unfinished_large_files",
                       "b2_list_parts", "b2_copy_part", "b2_get_download_authorization", "b2_list_keys",
                       "b2_get_bucket_notification_rules"} -> {"GET", "POST"}
      [] OTHER -> {"POST"}

\* ENDPOINT_CAPABILITIES
Required(endpoint) ==
    CASE endpoint \in {"b2_create_bucket", "b2_update_bucket"} -> "writeBuckets"
      [] endpoint = "b2_delete_bucket" -> "deleteBuckets"
      [] endpoint = "b2_list_buckets" -> "listBuckets"
      [] endpoint \in {"b2_list_file_names", "b2_list_file_versions", "b2_list_unfinished_large_files",
                       "b2_list_parts"} -> "listFiles"
      [] endpoint = "b2_get_file_info" -> "readFiles"
      [] endpoint = "b2_delete_file_version" -> "deleteFiles"
      [] endpoint = "b2_update_file_retention" -> "writeFileRetentions"
      [] endpoint = "b2_update_file_legal_hold" -> "writeFileLegalHolds"
      [] endpoint = "b2_create_key" -> "writeKeys"
      [] endpoint = "b2_list_keys" -> "listKeys"
      [] endpoint = "b2_delete_key" -> "deleteKeys"
      [] endpoint = "b2_get_download_authorization" -> "shareFiles"
      [] endpoint = "b2_get_bucket_notification_rules" -> "readBucketNotifications"
      [] endpoint = "b2_set_bucket_notification_rules" -> "writeBucketNotifications"
      [] OTHER -> "writeFiles"

Scope(bs, names, needed) == [buckets |-> bs, names |-> names, needed |-> needed, account |-> FALSE]

Named(b) == {b} \ {None}

\* fileIdScope, largeFileScope: the bucket and the name of what the id is of.
Found(files, id) == {f \in files : f.id = id}
BucketsOf(files) == {f.bucket : f \in files}
NamesOf(files) == {f.name : f \in files}

FileScope(files) == Scope(BucketsOf(files), NamesOf(files), TRUE)

\* updateBucketScope and that of listings: the bucket named and the buckets it replicates to.
BucketScope(body) == Scope(Named(body.bucket) \cup body.to, body.names, TRUE)

\* createBucketScope
CreateBucketScope(body) == [BucketScope(body) EXCEPT !.account = TRUE]

\* listBucketsScope: a name that no bucket has names none.
ListBucketsScope(body) == Scope(Named(body.bucket) \cup (Named(body.named) \cap Live), {}, TRUE)

\* fileVersionScope: for an id that is not known, the name that comes with it.
FileVersionScope(body) ==
    LET files == Found(stored, body.file)
    IN  IF files = {} THEN Scope({}, body.names, TRUE) ELSE FileScope(files)

\* copyFileScope
CopyFileScope(body) ==
    Scope(BucketsOf(Found(stored, body.file)) \cup body.to, NamesOf(Found(stored, body.file)) \cup body.names, TRUE)

\* copyPartScope
CopyPartScope(body) == FileScope(Found(stored, body.file) \cup Found(unfinished, body.large))

\* Mutant: only the rules of the request count.
RequestRulesScope(body) == Scope(Named(body.bucket), body.names, TRUE)

\* notificationRulesScope: the names of the rules the bucket's id has, and of those of the request.
NotificationRulesScope(body) ==
    Scope(Named(body.bucket), RuleNames(RulesFor(body.bucket)) \cup body.names, TRUE)

\* defaultRequestScope
DefaultScope(body) == Scope(Named(body.bucket), body.names, body.bucket # None)

OfFileVersions == {"b2_delete_file_version", "b2_update_file_retention", "b2_update_file_legal_hold"}
OfLargeFiles == {"b2_get_upload_part_url", "b2_finish_large_file", "b2_cancel_large_file", "b2_list_parts"}
OfBuckets == {"b2_update_bucket", "b2_list_file_names", "b2_list_file_versions",
              "b2_list_unfinished_large_files", "b2_get_download_authorization"}
OfRules == {"b2_get_bucket_notification_rules", "b2_set_bucket_notification_rules"}

\* requestScope
RequestScope(r) ==
    CASE r.endpoint = "b2_create_bucket" -> CreateBucketScope(r.body)
      [] r.endpoint = "b2_list_buckets" -> ListBucketsScope(r.body)
      [] r.endpoint = "b2_get_file_info" -> FileScope(Found(stored, r.body.file))
      [] r.endpoint \in OfFileVersions -> FileVersionScope(r.body)
      [] r.endpoint \in OfLargeFiles -> FileScope(Found(unfinished, r.body.large))
      [] r.endpoint = "b2_copy_file" -> CopyFileScope(r.body)
      [] r.endpoint = "b2_copy_part" -> CopyPartScope(r.body)
      [] r.endpoint \in OfRules -> NotificationRulesScope(r.body)
      [] r.endpoint \in OfBuckets -> BucketScope(r.body)
      [] OTHER -> DefaultScope(r.body)

\* authorizeScopeGrant
ScopeGranted(scope, t) ==
    /\ t.buckets # Everything => /\ ~ scope.account
                                 /\ scope.needed => scope.buckets # {}
                                 /\ scope.buckets \subseteq t.buckets
    /\ t.names # Everything => scope.names \subseteq t.names

\* authorizeRequest, and handleRequest before it calls a handler.
Accepted(t, r) ==
    /\ Method \in Methods(r.endpoint)
    /\ LiveToken(t) /\ Required(r.endpoint) \in t.caps /\ ScopeGranted(RequestScope(r), t)

-----------------------------------------------------------------------------
(* What a handler looks at or changes: the files its body finds, the buckets it names that are  *)
(* there, and names; without a destination, a copy goes where its source is.                   *)

TouchedFiles(r) == Found(stored, r.body.file) \cup Found(unfinished, r.body.large)

ListsAll(r) == r.endpoint = "b2_list_buckets" /\ r.body.bucket = None /\ r.body.named = None

TouchedBuckets(r) ==
    IF ListsAll(r) THEN Live
    ELSE BucketsOf(TouchedFiles(r)) \cup (Live \cap ({r.body.bucket, r.body.named} \cup r.body.to))

\* The rules getBucketNotificationRules returns and setBucketNotificationRules replaces.
TouchedRules(r) == IF r.endpoint \in OfRules /\ r.body.bucket \in Live THEN RulesFor(r.body.bucket) ELSE {}

\* A file version is found by its id, and the name that comes with it only compared.
TouchedNames(r) ==
    NamesOf(TouchedFiles(r)) \cup RuleNames(TouchedRules(r))
        \cup (IF r.endpoint \in OfFileVersions THEN {} ELSE r.body.names)

\* Whatever the buckets, files and rules are, and whatever was deleted since a token was given,
\* a request that passes the gate touches no bucket, file or rule outside the token's buckets
\* and names; and a token without restrictions is refused only for what it may not do.
NothingOutOfReach ==
    May("api") =>
        \A t \in tokens, r \in Requests :
            /\ Accepted(t, r) => Within(TouchedBuckets(r), t.buckets) /\ Within(TouchedNames(r), t.names)
            /\ LiveToken(t) /\ Required(r.endpoint) \in t.caps /\ t.buckets = Everything /\ t.names = Everything
                 => Accepted(t, r)
=============================================================================
