---------------------------- MODULE StorageService ----------------------------
(***************************************************************************)
(* The storage side of the simulator (simulator/index.ts) with strictAuth:  *)
(* buckets, keys and the tokens made from them, upload URLs, and the        *)
(* handlers that wait between their checks and the change they make.  Every *)
(* action is a turn of the event loop; a request the code refuses is an     *)
(* action only where it changes something.  Ids come from one counter.  The  *)
(* parts of large files, file lock and listings are in B2LargeFiles and      *)
(* FileVersions.                                                            *)
(***************************************************************************)
EXTENDS Integers, FiniteSets

CONSTANTS Name,         \* file names; a name prefix is the set of names it covers
          Capability,   \* what keys can be allowed to do
          Ttl,          \* how long tokens, upload URLs and download authorizations live
          PurgeBatch,   \* how many expired download authorizations one request purges
          Plan          \* instances [ops, ids, time, tokens, handlers, shares, buckets, urls,
                        \* grants, prefixes, lives, locks]: the requests made; the bounds: the
                        \* last id, the last moment, tokens made, handlers at once, download
                        \* authorizations, buckets made, upload URLs; the sets of capabilities, the
                        \* name prefixes and the lifetimes keys are made with; the lock settings
                        \* buckets are made with

ASSUME ServiceAssumption == Ttl \in Nat /\ PurgeBatch \in Nat

VARIABLES plan, now, nextId,
          buckets,      \* the settings of each bucket, by id
          stored,       \* file versions
          unfinished,   \* large files
          keys, tokens,
          signed,       \* the upload URLs handed out: their tokens carry what they grant
          urls,         \* uploadTokens: what the simulator remembers of them
          downloadTokens, expiryHeap,
          waiting,      \* handlers between their checks and their change
          hooks,        \* pendingHooks: webhook calls that have not settled
          flush,        \* a call of flushHooks
          notificationRules,  \* by bucket, also by one that was deleted
          acked, late,  \* history: what was answered 200; what came after its bucket went
          revoked,      \* history: the upload URLs that were expired or invalidated
          granted       \* history: the download authorizations given

bucketVars == <<buckets, stored, unfinished, acked, late>>
keyVars    == <<keys, tokens>>
urlVars    == <<signed, urls, revoked>>
readVars   == <<downloadTokens, expiryHeap, granted>>
hookVars   == <<hooks, flush, notificationRules>>
storageVars == <<plan, now, nextId, bucketVars, keyVars, urlVars, readVars, hookVars, waiting>>

None == 0
Everything == {None}          \* a grant without restriction: bucketIds, namePrefix null
NoKey == None                 \* the key of the implicit master credentials

Slot == 1..plan.handlers
NoHandler == [op |-> "none"]
NoFlush == [phase |-> "idle", waits |-> {}]

ServiceInit ==
    /\ plan \in Plan
    /\ now = 1 /\ nextId = 1
    /\ buckets = <<>> /\ stored = {} /\ unfinished = {} /\ acked = {} /\ late = {}
    /\ keys = {} /\ tokens = {}
    /\ signed = {} /\ urls = <<>> /\ revoked = {}
    /\ downloadTokens = {} /\ expiryHeap = {} /\ granted = {}
    /\ hooks = {} /\ flush = NoFlush /\ notificationRules = <<>>
    /\ waiting = [s \in Slot |-> NoHandler]

May(op) == op \in plan.ops

\* genId: the ids a request takes, in order.
Take(n) == nextId + n - 1 <= plan.ids /\ nextId' = nextId + n

-----------------------------------------------------------------------------
(* Keys and tokens.                                                        *)

Within(scope, grant) == grant = Everything \/ scope \subseteq grant

KeyIds == {k.id : k \in keys}
Expired(k) == k.expires # None /\ k.expires <= now

\* authorizeRequest: the token lives, and so does its key.
LiveToken(t) == /\ now <= t.expires
                /\ t.key # NoKey => \E k \in keys : k.id = t.key /\ ~ Expired(k)

\* authorizeScopeGrant, for requests that name their buckets.
InScope(t, bs, names) == Within(bs, t.buckets) /\ Within(names, t.names)

Authorized(t, capability, bs, names) ==
    LiveToken(t) /\ capability \in t.caps /\ InScope(t, bs, names)

\* createBucket is for tokens of the whole account.
AccountLevel(t) == t.buckets = Everything

MasterKey == [id |-> NoKey, caps |-> Capability, buckets |-> Everything,
              names |-> Everything, expires |-> None]

\* authorize with the master credentials, or with a stored key: findAuthorizationGrant.
Authorize ==
    /\ May("authorize") /\ Cardinality(tokens) < plan.tokens
    /\ \E k \in keys \cup {MasterKey} :
          /\ ~ Expired(k)
          /\ Take(1)
          /\ tokens' = tokens \cup {[id |-> nextId, key |-> k.id, caps |-> k.caps, buckets |-> k.buckets,
                                     names |-> k.names, expires |-> now + Ttl]}
    /\ UNCHANGED <<plan, now, bucketVars, keys, urlVars, readVars, hookVars, waiting>>

\* hasKeyManagementCapability
ManagesKeys(caps) == caps \cap {"listKeys", "writeKeys", "deleteKeys"} # {}

\* createKey: no capability the creator lacks, and keys that manage keys are unrestricted.
CreateKey(t, caps, bs, names, expires) ==
    /\ May("createKey") /\ Authorized(t, "writeKeys", {}, {})
    /\ t.key # NoKey => caps \subseteq t.caps
    /\ ManagesKeys(caps) => bs = Everything /\ names = Everything
    /\ Take(2)
    /\ keys' = keys \cup {[id |-> nextId, caps |-> caps, buckets |-> bs, names |-> names, expires |-> expires]}
    /\ UNCHANGED <<plan, now, bucketVars, tokens, urlVars, readVars, hookVars, waiting>>

\* deleteKey: the upload URLs made with the key are spent.
UrlsWithout(k) == [u \in DOMAIN urls |-> [urls[u] EXCEPT !.invalid = @ \/ urls[u].key = k]]

DeleteKey(t, k) ==
    /\ May("deleteKey") /\ Authorized(t, "deleteKeys", {}, {}) /\ k \in KeyIds
    /\ keys' = {x \in keys : x.id # k}
    /\ tokens' = {x \in tokens : x.key # k}
    /\ urls' = UrlsWithout(k)
    /\ revoked' = revoked \cup {u.id : u \in {x \in signed : x.key = k}}
    /\ UNCHANGED <<plan, now, nextId, bucketVars, signed, readVars, hookVars, waiting>>

AdvanceTime ==
    /\ May("time") /\ now < plan.time /\ now' = now + 1
    /\ UNCHANGED <<plan, nextId, bucketVars, keyVars, urlVars, readVars, hookVars, waiting>>

-----------------------------------------------------------------------------
(* Buckets.                                                                *)

Live == DOMAIN buckets

\* nextObjectLockEnabled: file lock is switched on, never off.
LockAllowed(current, requested) == ~ (current /\ requested = "off")
NextLock(current, requested) == current \/ requested = "on"

\* A default retention needs file lock.
RetentionAllowed(requested, locked) == requested = "on" => locked

\* createBucket
NewBucket(lock, retention) ==
    [revision |-> 1, locked |-> NextLock(FALSE, lock), retention |-> retention = "on"]

AddBucket(id, lock, retention) ==
    buckets' = [b \in Live \cup {id} |-> IF b = id THEN NewBucket(lock, retention) ELSE buckets[b]]

CreateBucket(t, lock, retention) ==
    /\ May("createBucket") /\ Authorized(t, "writeBuckets", {}, {}) /\ AccountLevel(t)
    /\ Cardinality(DOMAIN buckets) < plan.buckets
    /\ RetentionAllowed(retention, NextLock(FALSE, lock))
    /\ Take(1) /\ AddBucket(nextId, lock, retention)
    /\ UNCHANGED <<plan, now, stored, unfinished, acked, late, keyVars, urlVars, readVars, hookVars, waiting>>

\* The request's fields, and for the others what the bucket has.
NewSettings(b, lock, retention) ==
    [buckets[b] EXCEPT !.revision = @ + 1,
                       !.locked = NextLock(@, lock),
                       !.retention = IF retention = "keep" THEN @ ELSE retention = "on"]

\* updateBucket: guarded by a revision or not.
UpdateBucket(t, b, guard, lock, retention) ==
    /\ b \in Live /\ Authorized(t, "writeBuckets", {b}, {})
    /\ guard # None => guard = buckets[b].revision
    /\ LockAllowed(buckets[b].locked, lock)
    /\ RetentionAllowed(retention, NextLock(buckets[b].locked, lock))
    /\ buckets[b].revision < plan.ids
    /\ buckets' = [buckets EXCEPT ![b] = NewSettings(b, lock, retention)]
    /\ UNCHANGED <<plan, now, nextId, stored, unfinished, acked, late, keyVars, urlVars, readVars,
                   hookVars, waiting>>

\* Rules are sets of [on, names]: whether a rule is called for uploads, and the names of its prefix.
EveryName == Name \cup {"any other name"}
NamePrefixes == {EveryName} \cup {{n} : n \in Name}

RuleNames(rules) == UNION {rule.names : rule \in rules}

\* What the map has for a bucket's id: deleteBucket leaves it there.
RulesFor(b) == IF b \in DOMAIN notificationRules THEN notificationRules[b] ELSE {}

\* setBucketNotificationRules: a token needs the names of the old rules and of the new ones.
SetNotificationRules(t, b, rules) ==
    /\ May("rules") /\ b \in Live
    /\ Authorized(t, "writeBucketNotifications", {b}, RuleNames(RulesFor(b)) \cup RuleNames(rules))
    /\ notificationRules' = [x \in DOMAIN notificationRules \cup {b} |->
                                IF x = b THEN rules ELSE notificationRules[x]]
    /\ UNCHANGED <<plan, now, nextId, bucketVars, keyVars, urlVars, readVars, hooks, flush, waiting>>

\* Mutant: a bucket with unfinished large files counts as empty.
NoVersions(b) == \E f \in stored : f.bucket = b

\* bucketHasContents
HasContents(b) == \E f \in stored \cup unfinished : f.bucket = b

\* The files of a bucket are in its record: they go with it.
DeleteBucket(t, b) ==
    /\ May("deleteBucket") /\ b \in Live /\ Authorized(t, "deleteBuckets", {b}, {})
    /\ ~ HasContents(b)
    /\ buckets' = [x \in Live \ {b} |-> buckets[x]]
    /\ stored' = {f \in stored : f.bucket # b}
    /\ UNCHANGED <<plan, now, nextId, unfinished, acked, late, keyVars, urlVars, readVars, hookVars, waiting>>

-----------------------------------------------------------------------------
(* Upload URLs.                                                            *)

\* Mutant: an entry goes when its token expires, and the signed token is read again.
UnexpiredUrls == [u \in {x \in DOMAIN urls : now < urls[x].expires} |-> urls[u]]

\* pruneExpiredUploadTokens: an entry stays until the token it overrides would have expired.
KeptUrls == [u \in {x \in DOMAIN urls : now < urls[x].cleanup} |-> urls[u]]

\* uploadTokenState: what is remembered of a token, or what the token itself says.
UrlState(u) == IF u.id \in DOMAIN urls THEN urls[u.id]
               ELSE [key |-> u.key, expires |-> u.expires, cleanup |-> u.expires, invalid |-> FALSE]

\* validateUploadAuthorization
UrlAccepted(u) == LET s == UrlState(u) IN now < s.expires /\ ~ s.invalid

\* A handler checks its request and waits in a free slot.
Enter(handler) ==
    \E slot \in Slot :
        /\ waiting[slot] = NoHandler
        /\ \A x \in Slot : waiting[x] = NoHandler => slot <= x
        /\ waiting' = [waiting EXCEPT ![slot] = handler]

Leave(s) == waiting' = [waiting EXCEPT ![s] = NoHandler]

\* getUploadUrl, to the await of issueUploadAuthorization.
GetUploadUrl(t, b) ==
    /\ May("uploadUrl") /\ b \in Live /\ Authorized(t, "writeFiles", {b}, {}) /\ Cardinality(signed) < plan.urls
    /\ Take(1)
    /\ urls' = KeptUrls
    /\ Enter([op |-> "issue", url |-> [id |-> nextId, bucket |-> b, names |-> t.names, key |-> t.key,
                                       expires |-> now + Ttl]])
    /\ UNCHANGED <<plan, now, bucketVars, keyVars, signed, revoked, readVars, hookVars>>

IssueUploadUrl(s) ==
    /\ waiting[s].op = "issue"
    /\ LET u == waiting[s].url
       IN  /\ signed' = signed \cup {u}
           /\ urls' = [x \in DOMAIN urls \cup {u.id} |->
                          IF x = u.id THEN [key |-> u.key, expires |-> u.expires,
                                            cleanup |-> u.expires, invalid |-> FALSE]
                          ELSE urls[x]]
    /\ Leave(s)
    /\ UNCHANGED <<plan, now, nextId, bucketVars, keyVars, revoked, readVars, hookVars>>

\* expireUploadToken and invalidateUploadToken, which tests call.
ExpireUploadToken(u) ==
    /\ May("spendUrl") /\ u.id \in DOMAIN urls /\ now < urls[u.id].cleanup
    /\ urls' = [urls EXCEPT ![u.id].expires = now - 1]
    /\ revoked' = revoked \cup {u.id}
    /\ UNCHANGED <<plan, now, nextId, bucketVars, keyVars, signed, readVars, hookVars, waiting>>

InvalidateUploadToken(u) ==
    /\ May("spendUrl") /\ u.id \in DOMAIN urls /\ now < urls[u.id].cleanup
    /\ urls' = [x \in DOMAIN KeptUrls |-> [urls[x] EXCEPT !.invalid = @ \/ x = u.id]]
    /\ revoked' = revoked \cup {u.id}
    /\ UNCHANGED <<plan, now, nextId, bucketVars, keyVars, signed, readVars, hookVars, waiting>>

-----------------------------------------------------------------------------
(* Files.                                                                  *)

\* firePostUploadHooks: for a bucket that is still there, whatever the prefixes of its rules.
HooksAfter(file) ==
    IF file.bucket \in Live /\ \E rule \in RulesFor(file.bucket) : rule.on THEN hooks \cup {file.id} ELSE hooks

File(id, b, name) == [id |-> id, bucket |-> b, name |-> name]

\* What came after its bucket was deleted: the handler pushes it to a record nobody reads.
LateAfter(file) == IF file.bucket \in Live THEN late ELSE late \cup {file.id}

\* handleUpload: the URL is checked, the bucket is read, and the bytes are awaited.
UploadFile(u, name) ==
    /\ May("upload") /\ UrlAccepted(u) /\ Within({name}, u.names) /\ u.bucket \in Live
    /\ urls' = KeptUrls
    /\ Enter([op |-> "store", bucket |-> u.bucket, name |-> name])
    /\ UNCHANGED <<plan, now, nextId, bucketVars, keyVars, signed, revoked, readVars, hookVars>>

\* validateUploadAuthorization prunes before it refuses, too.
RefuseUpload(u) ==
    /\ May("upload") /\ ~ UrlAccepted(u)
    /\ urls' = KeptUrls
    /\ UNCHANGED <<plan, now, nextId, bucketVars, keyVars, signed, revoked, readVars, hookVars, waiting>>

\* copyFile, to the awaits of its encryption checks.
CopyFile(t, f, b, name) ==
    /\ May("copy") /\ b \in Live /\ Authorized(t, "writeFiles", {f.bucket, b}, {f.name, name})
    /\ Enter([op |-> "store", bucket |-> b, name |-> name])
    /\ UNCHANGED <<plan, now, nextId, bucketVars, keyVars, urlVars, readVars, hookVars>>

\* The end of handleUploadFile and of copyFile.
StoreFile(s) ==
    /\ waiting[s].op = "store"
    /\ Take(1)
    /\ LET file == File(nextId, waiting[s].bucket, waiting[s].name)
       IN  /\ stored' = IF file.bucket \in Live THEN stored \cup {file} ELSE stored
           /\ acked' = acked \cup {file}
           /\ late' = LateAfter(file)
           /\ hooks' = HooksAfter(file)
    /\ Leave(s)
    /\ UNCHANGED <<plan, now, buckets, unfinished, keyVars, urlVars, readVars, flush, notificationRules>>

\* startLargeFile: the id is taken before the await, the file is there after it.
StartLargeFile(t, b, name) ==
    /\ May("large") /\ b \in Live /\ Authorized(t, "writeFiles", {b}, {name})
    /\ Take(1)
    /\ Enter([op |-> "start", file |-> File(nextId, b, name)])
    /\ UNCHANGED <<plan, now, bucketVars, keyVars, urlVars, readVars, hookVars>>

AddLargeFile(s) ==
    /\ waiting[s].op = "start"
    /\ LET file == waiting[s].file
       IN  /\ unfinished' = unfinished \cup {file}
           /\ acked' = acked \cup {file}
           /\ late' = LateAfter(file)
    /\ Leave(s)
    /\ UNCHANGED <<plan, now, nextId, buckets, stored, keyVars, urlVars, readVars, hookVars>>

\* finishLargeFile: a version with an id of its own replaces the large file.
FinishLargeFile(t, f) ==
    /\ May("large") /\ f.bucket \in Live /\ Authorized(t, "writeFiles", {f.bucket}, {f.name})
    /\ Take(1)
    /\ LET file == File(nextId, f.bucket, f.name)
       IN  /\ stored' = stored \cup {file}
           /\ acked' = (acked \ {f}) \cup {file}
           /\ hooks' = HooksAfter(file)
    /\ unfinished' = unfinished \ {f}
    /\ UNCHANGED <<plan, now, buckets, late, keyVars, urlVars, readVars, flush, notificationRules, waiting>>

CancelLargeFile(t, f) ==
    /\ May("large") /\ Authorized(t, "writeFiles", {f.bucket}, {f.name})
    /\ unfinished' = unfinished \ {f} /\ acked' = acked \ {f}
    /\ UNCHANGED <<plan, now, nextId, buckets, stored, late, keyVars, urlVars, readVars, hookVars, waiting>>

\* hideFile: the hide marker is a version too.
HideFile(t, b, name) ==
    /\ May("hide") /\ b \in Live /\ Authorized(t, "writeFiles", {b}, {name})
    /\ Take(1)
    /\ stored' = stored \cup {File(nextId, b, name)}
    /\ acked' = acked \cup {File(nextId, b, name)}
    /\ UNCHANGED <<plan, now, buckets, unfinished, late, keyVars, urlVars, readVars, hookVars, waiting>>

DeleteFileVersion(t, f) ==
    /\ May("deleteFile") /\ Authorized(t, "deleteFiles", {f.bucket}, {f.name})
    /\ stored' = stored \ {f} /\ acked' = acked \ {f}
    /\ UNCHANGED <<plan, now, nextId, buckets, unfinished, late, keyVars, urlVars, readVars, hookVars, waiting>>

-----------------------------------------------------------------------------
(* Download authorizations.                                                *)

DueBy(moment) == {d \in expiryHeap : d.expires <= moment}

\* Mutant: whatever is at the top of the heap is purged.
TopOfHeap == {batch \in SUBSET expiryHeap :
                /\ Cardinality(batch) <= PurgeBatch
                /\ Cardinality(batch) < PurgeBatch => batch = expiryHeap
                /\ \A d \in batch, e \in expiryHeap \ batch : d.expires <= e.expires}

\* purgeExpiredDownloadAuthorizationTokens: the first to expire, as many as one request purges.
PurgeBatches == {batch \in SUBSET DueBy(now) :
                   /\ Cardinality(batch) <= PurgeBatch
                   /\ Cardinality(batch) < PurgeBatch => batch = DueBy(now)
                   /\ \A d \in batch, e \in DueBy(now) \ batch : d.expires <= e.expires}

GetDownloadAuthorization(t, b, names, life) ==
    /\ May("share") /\ b \in Live /\ Authorized(t, "shareFiles", {b}, names)
    /\ Cardinality(granted) < plan.shares
    /\ LET d == [id |-> Cardinality(granted) + 1, bucket |-> b, names |-> names, expires |-> now + life]
       IN  \E batch \in PurgeBatches :
             /\ downloadTokens' = (downloadTokens \ batch) \cup {d}
             /\ expiryHeap' = (expiryHeap \ batch) \cup {d}
             /\ granted' = granted \cup {d}
    /\ UNCHANGED <<plan, now, nextId, bucketVars, keyVars, urlVars, hookVars, waiting>>

\* authorizeDownloadRequest with an authorization that does not count any more.
RefuseDownload(d) ==
    /\ May("share") /\ (d \in downloadTokens => d.expires <= now)
    /\ \E batch \in PurgeBatches :
          /\ downloadTokens' = downloadTokens \ (batch \cup {d})
          /\ expiryHeap' = expiryHeap \ batch
    /\ UNCHANGED <<plan, now, nextId, bucketVars, keyVars, urlVars, granted, hookVars, waiting>>

-----------------------------------------------------------------------------
(* Webhooks.                                                               *)

HookSettles(h) ==
    /\ hooks' = hooks \ {h}
    /\ UNCHANGED <<plan, now, nextId, bucketVars, keyVars, urlVars, readVars, flush, notificationRules, waiting>>

FlushHooks ==
    /\ May("flush") /\ flush.phase = "idle"
    /\ flush' = IF hooks = {} THEN [phase |-> "done", waits |-> {}] ELSE [phase |-> "waiting", waits |-> hooks]
    /\ UNCHANGED <<plan, now, nextId, bucketVars, keyVars, urlVars, readVars, hooks, notificationRules, waiting>>

\* The loop of flushHooks: hooks fired during a round are waited for in the next.
NextRound == IF hooks = {} THEN [phase |-> "done", waits |-> {}] ELSE [phase |-> "waiting", waits |-> hooks]

FlushRound ==
    /\ flush.phase = "waiting" /\ flush.waits \cap hooks = {}
    /\ flush' = NextRound
    /\ UNCHANGED <<plan, now, nextId, bucketVars, keyVars, urlVars, readVars, hooks, notificationRules, waiting>>

-----------------------------------------------------------------------------
Restrictions(all) == {Everything} \cup {{x} : x \in all}

Settings == {"keep", "on", "off"}

\* No rules or one.
RuleLists == {{}} \cup {{[on |-> on, names |-> names]} : on \in BOOLEAN, names \in NamePrefixes}

\* What is asked of the account and its buckets.
AccountNext ==
    \/ Authorize \/ AdvanceTime \/ FlushHooks \/ FlushRound
    \/ \E t \in tokens :
         \/ \E caps \in plan.grants, bs \in Restrictions(Live), names \in plan.prefixes, life \in plan.lives :
               CreateKey(t, caps, bs, names, IF life = None THEN None ELSE now + life)
         \/ \E k \in KeyIds : DeleteKey(t, k)
         \/ \E lock, retention \in plan.locks : CreateBucket(t, lock, retention)
         \/ \E b \in Live : \/ DeleteBucket(t, b)
                            \/ GetUploadUrl(t, b)
                            \/ \E rules \in RuleLists : SetNotificationRules(t, b, rules)
                            \/ \E guard \in {None, 1}, lock, retention \in Settings :
                                  May("updateBucket") /\ UpdateBucket(t, b, guard, lock, retention)
                            \/ \E names \in {Name} \cup {{n} : n \in Name}, life \in 1..Ttl :
                                  GetDownloadAuthorization(t, b, names, life)
    \/ \E u \in signed : ExpireUploadToken(u) \/ InvalidateUploadToken(u) \/ RefuseUpload(u)
    \/ \E s \in Slot : IssueUploadUrl(s)
    \/ \E d \in granted : RefuseDownload(d)
    \/ \E h \in hooks : HookSettles(h)

\* What is asked about files, when nobody looks into them.
FileNext ==
    \/ \E t \in tokens :
         \/ \E b \in Live, name \in Name : StartLargeFile(t, b, name) \/ HideFile(t, b, name)
         \/ \E f \in stored : \/ DeleteFileVersion(t, f)
                              \/ \E b \in Live, name \in Name : CopyFile(t, f, b, name)
         \/ \E f \in unfinished : FinishLargeFile(t, f) \/ CancelLargeFile(t, f)
    \/ \E u \in signed, name \in Name : UploadFile(u, name)
    \/ \E s \in Slot : StoreFile(s) \/ AddLargeFile(s)

-----------------------------------------------------------------------------
\* What was answered 200 is there until it is deleted, cancelled or finished, in a bucket
\* that is there too; unless its bucket was deleted while the handler waited (deleteBucket
\* between the checks of handleUploadFile, copyFile or startLargeFile and their change).
NothingLost ==
    \A f \in acked : f.id \in late \/ (f \in stored \cup unfinished /\ f.bucket \in Live)

\* An upload URL is accepted until it expires, its key is deleted or it is spent, and never
\* again, although its token can be read without the simulator's memory of it; and a
\* download authorization is known until it expires, whatever is purged meanwhile.
GrantsAreExact ==
    /\ \A u \in signed : UrlAccepted(u) <=> now < u.expires /\ u.id \notin revoked
    /\ \A d \in granted : now < d.expires => d \in downloadTokens
=============================================================================
