------------------------------- MODULE MCService -------------------------------
EXTENDS Service

CONSTANTS n1, k1, k2

AllCapabilities == {"writeKeys", "deleteKeys", "writeBuckets", "deleteBuckets", "writeFiles",
                    "deleteFiles", "shareFiles", "writeBucketNotifications", "readFiles",
                    "writeFileRetentions", "writeFileLegalHolds", "readBucketEncryption",
                    "readFileRetentions", "readFileLegalHolds", "listFiles", "listBuckets", "listKeys",
                    "readBucketNotifications", "readBucketReplications"}

FileGrant == {"writeFiles", "deleteFiles"}

Instance(ops, ids, time, tokenCount, handlers) ==
    [ops |-> ops, ids |-> ids, time |-> time, tokens |-> tokenCount, handlers |-> handlers, shares |-> 1,
     buckets |-> ids, urls |-> ids,
     grants |-> {{"writeFiles"}, {"writeKeys", "writeFiles"}},
     puts |-> {}, copies |-> {}, starts |-> {}, locks |-> {"keep"}, ranges |-> {}, headers |-> {}, parts |-> 1, minimum |-> 1, wants |-> {},
     prefixes |-> Restrictions(Name), lives |-> {None, Ttl},
     updates |-> 2, trials |-> {}, notifications |-> {}, lifecycles |-> {},
     calls |-> {}]

Start == {"authorize", "createBucket"}

\* Two handlers wait while buckets and files come and go.
Files == Instance(Start \cup {"deleteBucket", "uploadUrl", "upload", "copy", "large", "deleteFile", "hide"},
                  5, 1, 1, 2)

\* A key is made, used for an upload URL and deleted.
Keys == Instance(Start \cup {"createKey", "deleteKey", "uploadUrl", "upload", "time"}, 6, 2, 2, 1)

\* Upload URLs are spent, expire and are pruned.
Urls == Instance(Start \cup {"uploadUrl", "upload", "spendUrl", "time"}, 4, 3, 1, 1)

Hooks == Instance(Start \cup {"rules", "uploadUrl", "upload", "flush"}, 5, 1, 1, 1)

Shares == [Instance(Start \cup {"share", "time"}, 2, 3, 1, 1) EXCEPT !.shares = 2]

Settled == [Instance(Start \cup {"updateBucket"}, 3, 1, 1, 1) EXCEPT !.locks = {"keep", "on"}]

Group == Instance({"partner", "members", "trial"}, 14, 1, 1, 1)

Backup == Instance({"partner", "computers", "time"}, 6, 4, 3, 1)

Put(data, announced, mode, headers) == [data |-> data, announced |-> announced, mode |-> mode, headers |-> headers]
Copy(source, destination, range) == [source |-> source, destination |-> destination, range |-> range]
CustomersHeaders(k) == EncryptionHeaders(Setting("SSE-C", Aes256, k, k))
Customers(k) == Setting("SSE-C", Aes256, k, k)
SseB2 == Setting("SSE-B2", Aes256, Absent, Absent)

\* Files under a customer's key are put, copied and read, with the key and with another.
Sealed == [Instance(Start \cup {"contents", "uploadUrl", "upload", "copy", "read"}, 5, 1, 1, 1) EXCEPT
             !.puts = {Put(<<1, 2>>, TRUE, "hex", CustomersHeaders(k1)),
                       Put(<<1, 2>>, FALSE, "unverified", NoHeaders)},
             !.copies = {Copy(Customers(k1), NotSet, Whole), Copy(Customers(k2), Customers(k2), Closed(1, 1))},
             !.ranges = {Whole, Closed(1, 2)},
             !.headers = {CustomersHeaders(k1), CustomersHeaders(k2)}]

\* A file is read once, without a key.
Unread == [Instance(Start \cup {"contents", "uploadUrl", "upload", "read"}, 5, 1, 1, 1) EXCEPT
             !.buckets = 1, !.urls = 1, !.puts = {Put(<<1, 2>>, TRUE, "hex", NoHeaders)}, !.ranges = {Whole}, !.headers = {NoHeaders}]
UnreadPlans == {Unread}

\* Files are locked, in buckets with and without a default encryption, and read by who may not see all.
Marked == [Instance(Start \cup {"contents", "defaults", "uploadUrl", "upload", "locks", "hide",
                                "deleteFile", "share", "read"}, 4, 1, 1, 1) EXCEPT
             !.locks = {"on"},
             !.puts = {Put(<<1>>, TRUE, "none", NoHeaders), Put(<<1>>, FALSE, "at_end", EncryptionHeaders(SseB2))},
             !.ranges = {Whole}, !.headers = {NoHeaders}]

\* Large files are made of parts that are sent and copied.
Parts == [Instance(Start \cup {"contents", "large", "parts", "read"}, 5, 1, 1, 1) EXCEPT
            !.puts = {Put(<<1>>, TRUE, "hex", CustomersHeaders(k1))},
            !.copies = {Copy(Customers(k1), Customers(k1), Whole)},
            !.starts = {[setting |-> Customers(k1), retained |-> FALSE, info |-> 1],
                          [setting |-> NotSet, retained |-> TRUE, info |-> 1]}, !.parts = 2,
            !.ranges = {Whole}, !.headers = {CustomersHeaders(k1)}]

\* A file is copied, in one request or part by part, while others write to the copy, finish or
\* cancel it, and delete the source.
Copies == [Instance(Start \cup {"contents", "uploadUrl", "upload", "copy", "large", "parts", "deleteFile", "copyLarge"},
                    5, 1, 1, 2) EXCEPT
             !.buckets = 1, !.urls = 1, !.puts = {Put(<<1, 2, 3>>, TRUE, "hex", NoHeaders)},
             !.calls = {[partSize |-> n, concurrency |-> 2, source |-> NotSet, destination |-> NotSet] : n \in {2, 3}}]

\* ... and put parts there whose digests nobody has verified.
Claimed == [Instance(Start \cup {"contents", "uploadUrl", "upload", "copy", "large", "parts", "copyLarge"}, 6, 1, 1, 1) EXCEPT
              !.buckets = 1, !.urls = 1,
              !.puts = {Put(<<1, 2>>, TRUE, "hex", NoHeaders), Put(<<1>>, TRUE, "unverified", NoHeaders)},
              !.calls = {[partSize |-> 1, concurrency |-> 1, source |-> NotSet, destination |-> NotSet]}]

Want(info, encryption, lengths, explicit) ==
    [info |-> info, encryption |-> encryption, retention |-> "no", lengths |-> lengths, explicit |-> explicit,
     maxPages |-> 2, maxPartPages |-> 2, maxCandidates |-> 2]

\* An upload looks for a large file to resume among those of others.
Resume == [Instance(Start \cup {"contents", "large", "parts", "resume"}, 4, 1, 1, 1) EXCEPT
             !.starts = {[setting |-> NotSet, retained |-> FALSE, info |-> 1], [setting |-> SseB2, retained |-> FALSE, info |-> 1]},
             !.puts = {Put(<<1>>, TRUE, "hex", NoHeaders)},
             !.parts = 2,
             !.wants = {Want(1, "unset", <<1, 2>>, None), Want(1, "none", <<1, 1>>, 3),
                        [Want(1, "SSE-B2", <<1, 1>>, None) EXCEPT !.maxPages = 1, !.maxPartPages = 1]}]

\* Large files are added in another order than that of their ids while a search goes through them.
Overtaken == [Instance(Start \cup {"contents", "large", "resume"}, 6, 1, 1, 2) EXCEPT
                !.buckets = 1, !.starts = {[setting |-> NotSet, retained |-> FALSE, info |-> 1]},
                !.wants = {Want(1, "unset", <<1>>, None)}]

\* Keys for names that may do whatever such a key may.
Restricted(instance) ==
    [instance EXCEPT !.grants = {AllCapabilities \ {"listKeys", "writeKeys", "deleteKeys"}}, !.lives = {None},
                        !.prefixes = {{n} : n \in Name}]

\* The requests of the raw client, against buckets and files that come and go,
Api == Restricted(Instance(Start \cup {"createKey", "deleteBucket", "hide", "api"}, 7, 1, 2, 1))

\* ... large files,
ApiLarge == Restricted(Instance(Start \cup {"createKey", "large", "api"}, 6, 1, 2, 1))

\* ... and notification rules, also of a bucket that is gone.
ApiRules == [Restricted(Instance(Start \cup {"createKey", "deleteBucket", "rules", "api"}, 5, 1, 2, 1)) EXCEPT !.buckets = 1]

\* Keys and buckets come and go under the replication of two buckets.
Replicated == [Instance(Start \cup {"configure", "replicate", "createKey", "deleteKey"}, 7, 1, 1, 1) EXCEPT
                 !.grants = {{"readFiles", "listFiles"}, {"writeFiles"}}, !.prefixes = {Everything}, !.lives = {None},
                 !.updates = 3]

\* A helper edits the replication rules of a bucket whose keys come and go.
Ruled == [Instance(Start \cup {"replicate", "helper", "createKey", "deleteKey"}, 4, 1, 1, 1) EXCEPT
            !.grants = {{"readFiles", "listFiles", "writeFiles"}}, !.prefixes = {Everything}, !.lives = {None},
            !.updates = 4]

\* A value in the place of each field of an object, and a field nobody knows.
Junk == {Missing, Null, Fraction, Number(-1), Number(0), Number(1), Flag(TRUE), List(<<>>), List(<<Null>>), Text("", 0, {})}

Varied(object, f, values) == {Object([object.fields EXCEPT ![f] = v]) : v \in values}
Variants(object) == UNION {Varied(object, f, Junk) : f \in DOMAIN object.fields}
                        \cup {Object([f \in DOMAIN object.fields \cup {"surplus"} |-> Field(object, f)])}

Word(length) == Text("word", length, {})

CorsRule == Object([corsRuleName |-> Word(6), allowedOrigins |-> List(<<Word(1)>>),
                    allowedOperations |-> List(<<Text("s3_get", 6, {})>>),
                    allowedHeaders |-> Null, exposeHeaders |-> Null, maxAgeSeconds |-> Number(0)])

CorsRules ==
    Variants(CorsRule)
        \cup Varied(CorsRule, "corsRuleName", {Word(5), Word(63), Word(64), Text("word", 6, {"odd"}), Text("word", 6, {"reserved"})})
        \cup Varied(CorsRule, "maxAgeSeconds", {Number(86400), Number(86401)})
        \cup Varied(CorsRule, "allowedOperations", {List(<<Text("s3_post", 7, {})>>), List(<<Word(1)>>)})
        \cup Varied(CorsRule, "allowedHeaders", {List(<<Word(900), Word(86)>>), List(<<Word(900), Word(87)>>)})

Cors ==
    {List(<<rule>>) : rule \in CorsRules}
        \cup {List([i \in 1..n |-> Object([CorsRule.fields EXCEPT !.corsRuleName = Text(i, 6, {})])]) : n \in {0, 100, 101}}
        \cup {Null, List(<<CorsRule, CorsRule>>)}

Entries(items) == [is |-> "entries", items |-> items]
Infos ==
    {Null} \cup {Entries(<<<<key, value>>>>) : key \in {Word(0), Word(1), Word(50), Word(51), Text("word", 1, {"odd"}), Text("word", 5, {"reserved"})},
                                          value \in {Word(1), Null}}
        \cup {Entries(<<<<Word(1), Word(9000)>>, <<Text("other", 1, {}), Word(n)>>>>) : n \in {1000, 1001}}

Lifecycle(prefix) == Object([daysFromHidingToDeleting |-> Number(1), daysFromUploadingToHiding |-> Null,
                             daysFromStartingToCancelingUnfinishedLargeFiles |-> Null, fileNamePrefix |-> Text(prefix, 1, {})])

Periods == {Object([duration |-> Number(n), unit |-> Text(unit, 4, {})]) :
              n \in {0, 1, 8, 9, 3000, 3001}, unit \in {"days", "years", "weeks"}}
Retention(mode, period) == Object([mode |-> Text(mode, 4, {}), period |-> period])
Retentions == {Retention(mode, period) : mode \in {"none", "governance", "forever"}, period \in Periods \cup {Null}}
                  \cup Variants(Retention("compliance", Object([duration |-> Number(1), unit |-> Text("days", 4, {})])))

Rule1 == ReplicationRule("r1", 2)
Configs ==
    {Object([asReplicationSource |-> SourceFrom(Id(1), <<rule>>)]) : rule \in Variants(Rule1)}
        \cup {Object([asReplicationSource |-> SourceFrom(Id(1), rules)]) : rules \in {<<>>, <<Rule1, Rule1>>}}
        \cup {Object([asReplicationSource |-> source]) : source \in Variants(SourceFrom(Id(1), <<>>))}
        \cup {Object([asReplicationDestination |-> m]) : m \in Variants(Mapping(1, 1)) \cup {Mapping(0, 1)}}
        \cup Variants(Object([asReplicationSource |-> Null, asReplicationDestination |-> Null])) \cup {Null, Object(<<>>)}

Names == {[of |-> of, name |-> Text("name", n, marks)] :
            of \in {"bucket", "file"}, n \in {0, 2, 5, 6, 63, 64, 1024, 1025},
            marks \in {{}} \cup {{m} : m \in {"odd", "reserved", "control", "ipv4", "slash", "dot"}}}

Pages == {[of |-> "page", method |-> method, size |-> size] :
            method \in DOMAIN Listings, size \in {Missing, Fraction, Number(0), Number(100), Number(101), Number(10001)}}
         \cup {[of |-> "parts", planned |-> planned, known |-> known] : planned \in {1, 99, 100}, known \in {0, 1, 101}}

Timestamps == {[of |-> of, value |-> value] :
                 of \in {"upload", "large"}, value \in {Missing, Fraction, Unsafe, Number(-1), Number(0), Number(2), Number(3)}}

FirstBucket == Text("b1", 1, {})
TwoBuckets == List(<<FirstBucket, Text("b2", 1, {})>>)
KeyTrial(form, one, many, prefix, caps, length) ==
    [of |-> "key", form |-> form,
     request |-> [keyName |-> Word(length), bucketId |-> one, bucketIds |-> many, namePrefix |-> prefix,
                  capabilities |-> List([i \in DOMAIN caps |-> Text(caps[i], 9, {})])]]
PrefixesAsked == {Missing, Word(0), Word(1)}
Grants == {<<>>, <<"writeFiles">>, <<"writeFiles", "listKeys">>, <<"fly">>}
KeyTrials ==
    {KeyTrial(form, one, many, prefix, caps, 1) :
        form \in Forms, one \in {Missing, FirstBucket}, many \in {Missing, Null, List(<<FirstBucket>>)}, prefix \in PrefixesAsked, caps \in Grants}
    \cup {KeyTrial("v4", Missing, many, Missing, <<"writeFiles">>, n) : many \in {List(<<>>), TwoBuckets}, n \in {0, 100, 101}}

Trials == Names \cup Pages \cup Timestamps \cup KeyTrials

\* The settings of buckets, at their limits and malformed, and requests.
Checks == [Instance(Start \cup {"try"}, 2, 1, 1, 1) EXCEPT
             !.locks = {"keep", "on"}, !.buckets = 1,
             !.trials = {[cors |-> v] : v \in Cors} \cup {[info |-> v] : v \in Infos}
                           \cup {[lifecycle |-> List(<<v>>)] : v \in Variants(Lifecycle("a"))}
                           \cup {[retention |-> v] : v \in Retentions} \cup {[replication |-> v] : v \in Configs}]

Edits == [Instance(Start \cup {"helper"}, 2, 1, 1, 1) EXCEPT
            !.updates = 4, !.lifecycles = {Lifecycle("a"), Lifecycle("b")},
            !.trials = {[lifecycle |-> List(<<Lifecycle("a"), Lifecycle("a")>>)]}]

Target == Object([targetType |-> Text("webhook", 7, {}), url |-> Text("https", 5, {}), customHeaders |-> Missing])
Notification(target) ==
    Object([eventTypes |-> List(<<Text("b2:ObjectCreated:*", 18, {})>>), isEnabled |-> Flag(TRUE), name |-> Word(1),
            maxEventsPerBatch |-> Missing, targetConfiguration |-> target])
Header(name, value) == Object([name |-> name, value |-> value])
HeaderLists ==
    {<<h>> : h \in Variants(Header(Word(1), Word(1))) \cup {Header(Text("word", 1, {"reserved"}), Word(1)), Header(Word(1), Text("word", 1, {"control"}))}}
        \cup {<<Header(Word(1), Word(n))>> : n \in {2044, 2045}}
        \cup {[i \in 1..n |-> Header(Text(i, 1, {}), Word(1))] : n \in {0, 10, 11}}

\* Notification rules, at their limits and malformed.
Notified == [Instance(Start \cup {"rules"}, 2, 1, 1, 1) EXCEPT
               !.notifications = {List(<<rule>>) : rule \in Variants(Notification(Target))
                                                     \cup {Notification(t) : t \in Variants(Target)}
                                                     \cup {Notification(t) : t \in Varied(Target, "customHeaders", {List(h) : h \in HeaderLists})}}
                                    \cup {Null, List(<<>>), List(<<Notification(Target), Notification(Target)>>),
                                          List(<<Object([Notification(Target).fields EXCEPT !.isEnabled = Flag(FALSE)])>>)}]

Plans == {Files, Keys, Urls, Hooks, Shares, Settled, Group, Backup, Sealed, Marked, Parts, Copies, Claimed, Resume, Overtaken, Api, ApiLarge,
          ApiRules, Replicated, Ruled, Checks, Edits, Notified}
=============================================================================
