------------------------------ MODULE BucketRules ------------------------------
(***************************************************************************)
(* The checks a bucket's settings and names pass: the client's               *)
(* (bucket-validation.ts, s3/validation.ts) and the simulator's              *)
(* (simulator/validation.ts), which are written apart and must agree.        *)
(*                                                                         *)
(* A value of a request body says what it is.  A string is known by what it  *)
(* spells, its length, which stands for its UTF-8 bytes as well, and the      *)
(* marks a check looks for: "odd" characters, a "reserved" prefix, "control"  *)
(* characters, "ipv4" shape, a "slash" pattern, a "dot" segment, "lone"       *)
(* surrogates.  A field that is not there has no value.                      *)
(***************************************************************************)
EXTENDS Integers, SequencesExt

Missing == [is |-> "undefined"]
Null == [is |-> "null"]
Fraction == [is |-> "fraction"]
Number(n) == [is |-> "number", value |-> n]
Flag(b) == [is |-> "boolean", value |-> b]
Text(spelling, length, marks) == [is |-> "string", text |-> spelling, length |-> length, marks |-> marks]
List(items) == [is |-> "array", items |-> items]
Object(fields) == [is |-> "object", fields |-> fields]

Field(v, f) == IF f \in DOMAIN v.fields THEN v.fields[f] ELSE Missing

Nullable(v) == v \in {Missing, Null}
IsText(v) == v.is = "string"
NonEmptyText(v) == v.is = "string" /\ v.length > 0

\* isRecord and validateKnownFields
HasOnly(v, fields) == v.is = "object" /\ DOMAIN v.fields \subseteq fields

\* validateNonNegativeInteger with validateIntegerAtMost, validatePositiveInteger
Between(v, low, high) == v.is = "number" /\ v.value >= low /\ v.value <= high
Positive(v) == v.is = "number" /\ v.value >= 1

\* validateStringArray
IsTexts(v) == v.is = "array" /\ \A i \in DOMAIN v.items : IsText(v.items[i])
NonEmptyTexts(v) == IsTexts(v) /\ v.items # <<>>

\* An array, if it is one, is a sequence.
IsList(v) == v.is = "array" => v.items \in Seq(ToSet(v.items))

\* validateUniqueName
Distinct(values) == \A i, j \in DOMAIN values : i # j => values[i].text # values[j].text

FieldsOf(objects, f) == [i \in DOMAIN objects |-> Field(objects[i], f)]

TotalLength(v) == IF v.is = "array" THEN FoldLeft(LAMBDA n, x : n + x.length, 0, v.items) ELSE 0

-----------------------------------------------------------------------------
(* Information and CORS rules: the client's checks, which the simulator      *)
(* makes too, and its own.                                                 *)

\* assertValidBucketInfo; the entries are pairs of a key and a value.
InfoEntryFits(key, value) ==
    key.length >= 1 /\ key.length <= 50 /\ key.marks = {} /\ IsText(value)

\* What all the values may add up to, in bytes.
InfoValuesMaxBytes == 10000

ClientTakesInfo(info) ==
    /\ info.is = "entries"
    /\ \A i \in DOMAIN info.items : InfoEntryFits(info.items[i][1], info.items[i][2])
    /\ FoldLeft(LAMBDA n, x : n + x[2].length, 0, info.items) <= InfoValuesMaxBytes

AllowedOperations == {"b2_download_file_by_name", "b2_download_file_by_id", "b2_upload_file",
                      "b2_upload_part", "s3_get", "s3_put", "s3_head", "s3_delete"}

\* The simulator knows an operation more than the client allows.
KnownOperations == AllowedOperations \cup {"s3_post"}

NullableTexts(v) == Nullable(v) \/ IsTexts(v)

RuleLength(rule) ==
    Field(rule, "corsRuleName").length + TotalLength(Field(rule, "allowedOrigins"))
        + TotalLength(Field(rule, "allowedOperations")) + TotalLength(Field(rule, "allowedHeaders"))
        + TotalLength(Field(rule, "exposeHeaders"))

\* assertValidCorsRules
ClientTakesCorsRule(rule) ==
    /\ rule.is = "object"
    /\ LET name == Field(rule, "corsRuleName")
       IN  IsText(name) /\ name.length >= 6 /\ name.length <= 63 /\ name.marks = {}
    /\ NonEmptyTexts(Field(rule, "allowedOrigins"))
    /\ LET operations == Field(rule, "allowedOperations")
       IN  NonEmptyTexts(operations) /\ \A i \in DOMAIN operations.items : operations.items[i].text \in AllowedOperations
    /\ NullableTexts(Field(rule, "allowedHeaders")) /\ NullableTexts(Field(rule, "exposeHeaders"))
    /\ Between(Field(rule, "maxAgeSeconds"), 0, 86400)
    /\ RuleLength(rule) < 1000

ClientTakesCors(rules) ==
    /\ rules.is = "array" /\ Len(rules.items) <= 100
    /\ \A i \in DOMAIN rules.items : ClientTakesCorsRule(rules.items[i])
    /\ Distinct(FieldsOf(rules.items, "corsRuleName"))

CorsFields == {"allowedHeaders", "allowedOperations", "allowedOrigins", "corsRuleName", "exposeHeaders",
               "maxAgeSeconds"}

\* Mutant: the simulator's list of headers may be null but not left out.
HeadersGiven(v) == v = Null \/ IsTexts(v)

\* validateStringArray with allowNull
HeadersFit(v) == Nullable(v) \/ IsTexts(v)

\* The body of validateCorsRules' loop.
CorsRuleFits(rule) ==
    /\ HasOnly(rule, CorsFields)
    /\ NonEmptyText(Field(rule, "corsRuleName"))
    /\ NonEmptyTexts(Field(rule, "allowedOrigins"))
    /\ LET operations == Field(rule, "allowedOperations")
       IN  NonEmptyTexts(operations) /\ \A i \in DOMAIN operations.items : operations.items[i].text \in KnownOperations
    /\ HeadersFit(Field(rule, "allowedHeaders")) /\ HeadersFit(Field(rule, "exposeHeaders"))
    /\ Between(Field(rule, "maxAgeSeconds"), 0, 86400)

\* validateBucketInfo, validateCorsRules: what the client's check refuses, these refuse.
InfoFits(info) == ClientTakesInfo(info)

CorsFits(rules) ==
    /\ ClientTakesCors(rules)
    /\ \A i \in DOMAIN rules.items : CorsRuleFits(rules.items[i])
    /\ Distinct(FieldsOf(rules.items, "corsRuleName"))

-----------------------------------------------------------------------------
(* Lifecycle rules, default retention.                                     *)

LifecycleActions == {"daysFromHidingToDeleting", "daysFromUploadingToHiding",
                     "daysFromStartingToCancelingUnfinishedLargeFiles"}

LifecycleRuleFits(rule) ==
    /\ HasOnly(rule, LifecycleActions \cup {"fileNamePrefix"})
    /\ \A f \in LifecycleActions : Nullable(Field(rule, f)) \/ Positive(Field(rule, f))
    /\ \E f \in LifecycleActions : ~ Nullable(Field(rule, f))
    /\ IsText(Field(rule, "fileNamePrefix"))

\* validateLifecycleRules: two rules for one prefix pass.
LifecycleFits(rules) == rules.is = "array" /\ \A i \in DOMAIN rules.items : LifecycleRuleFits(rules.items[i])

Days(period) == Field(period, "duration").value * (IF Field(period, "unit").text = "days" THEN 1 ELSE 365)

PeriodFits(period) ==
    /\ HasOnly(period, {"duration", "unit"})
    /\ Positive(Field(period, "duration"))
    /\ IsText(Field(period, "unit")) /\ Field(period, "unit").text \in {"days", "years"}
    /\ Days(period) <= 3000

\* validateDefaultRetention
DefaultRetentionFits(policy) ==
    /\ HasOnly(policy, {"mode", "period"})
    /\ LET mode == Field(policy, "mode")
           period == Field(policy, "period")
       IN  /\ IsText(mode) /\ mode.text \in {"compliance", "governance", "none"}
           /\ IF mode.text = "none" THEN period = Null ELSE PeriodFits(period)

-----------------------------------------------------------------------------
(* Replication.  An application key or a bucket is spelled as its id; the     *)
(* mapping's fields are the ids of source keys, the empty one 0.             *)

\* validateReplicationRule
ReplicationRuleFits(rule) ==
    /\ HasOnly(rule, {"destinationBucketId", "fileNamePrefix", "includeExistingFiles", "isEnabled",
                      "priority", "replicationRuleName"})
    /\ NonEmptyText(Field(rule, "destinationBucketId"))
    /\ IsText(Field(rule, "fileNamePrefix"))
    /\ Field(rule, "includeExistingFiles").is = "boolean" /\ Field(rule, "isEnabled").is = "boolean"
    /\ Positive(Field(rule, "priority"))
    /\ NonEmptyText(Field(rule, "replicationRuleName"))

\* validateReplicationSource
SourceFits(source) ==
    /\ HasOnly(source, {"replicationRules", "sourceApplicationKeyId"})
    /\ NonEmptyText(Field(source, "sourceApplicationKeyId"))
    /\ LET rules == Field(source, "replicationRules")
       IN  /\ rules.is = "array"
           /\ \A i \in DOMAIN rules.items : ReplicationRuleFits(rules.items[i])
           /\ Distinct(FieldsOf(rules.items, "replicationRuleName"))

\* validateReplicationDestination
DestinationFits(destination) ==
    /\ HasOnly(destination, {"sourceToDestinationKeyMapping"})
    /\ LET mapping == Field(destination, "sourceToDestinationKeyMapping")
       IN  /\ mapping.is = "object"
           /\ \A k \in DOMAIN mapping.fields : k # 0 /\ NonEmptyText(mapping.fields[k])

ReplicationFields == {"asReplicationSource", "asReplicationDestination"}

\* validateReplicationConfiguration
ReplicationFits(config) ==
    /\ HasOnly(config, ReplicationFields) /\ DOMAIN config.fields # {}
    /\ LET source == Field(config, "asReplicationSource")
           destination == Field(config, "asReplicationDestination")
       IN  /\ Nullable(source) \/ SourceFits(source)
           /\ Nullable(destination) \/ DestinationFits(destination)

-----------------------------------------------------------------------------
(* Event notification rules.                                               *)

\* encodedHeaderBytes: nothing of it needs encoding, and ":\r\n" is counted.
HeaderLength(header) == Field(header, "name").length + Field(header, "value").length + 3

CustomHeaderFits(header) ==
    /\ HasOnly(header, {"name", "value"})
    /\ NonEmptyText(Field(header, "name")) /\ Field(header, "name").marks = {}
    /\ IsText(Field(header, "value")) /\ Field(header, "value").marks \cap {"control", "lone"} = {}

\* validateNotificationCustomHeaders; names are spelled in lower case.
CustomHeadersFit(headers) ==
    \/ headers = Missing
    \/ /\ headers.is = "array" /\ Len(headers.items) <= 10
       /\ \A i \in DOMAIN headers.items : CustomHeaderFits(headers.items[i])
       /\ Distinct(FieldsOf(headers.items, "name"))
       /\ FoldLeft(LAMBDA n, x : n + HeaderLength(x), 0, headers.items) <= 2048

TargetFits(target) ==
    /\ HasOnly(target, {"customHeaders", "hmacSha256SigningSecret", "targetType", "url"})
    /\ IsText(Field(target, "targetType")) /\ Field(target, "targetType").text = "webhook"
    /\ IsText(Field(target, "url")) /\ Field(target, "url").text = "https"
    /\ CustomHeadersFit(Field(target, "customHeaders"))

EventTypes == {"b2:ObjectCreated:*", "b2:ObjectCreated:Upload", "b2:ObjectCreated:MultipartUpload",
               "b2:ObjectCreated:Copy", "b2:ObjectCreated:Replica", "b2:ObjectCreated:Hide",
               "b2:ObjectDeleted:*", "b2:ObjectDeleted:Delete", "b2:ObjectDeleted:LifecycleRule"}

NotificationRuleFits(rule) ==
    /\ HasOnly(rule, {"eventTypes", "isEnabled", "isSuspended", "maxEventsPerBatch", "name",
                      "objectNamePrefix", "suspensionReason", "targetConfiguration"})
    /\ Field(rule, "isEnabled").is = "boolean"
    /\ Field(rule, "maxEventsPerBatch") = Missing \/ Positive(Field(rule, "maxEventsPerBatch"))
    /\ NonEmptyText(Field(rule, "name"))
    /\ LET types == Field(rule, "eventTypes")
       IN  NonEmptyTexts(types) /\ \A i \in DOMAIN types.items : types.items[i].text \in EventTypes
    /\ TargetFits(Field(rule, "targetConfiguration"))

\* validateNotificationRules
NotificationsFit(rules) ==
    /\ rules.is = "array"
    /\ \A i \in DOMAIN rules.items : NotificationRuleFits(rules.items[i])
    /\ Distinct(FieldsOf(rules.items, "name"))

\* eventTypeMatches, for the events of uploads.
MatchesUpload(pattern) == pattern.text \in {"b2:ObjectCreated:*", "b2:ObjectCreated:Upload"}

\* firePostUploadHooks: whether a rule is called for an upload, whatever its prefix.
FiresForUploads(rule) ==
    /\ Field(rule, "isEnabled").value
    /\ \E i \in DOMAIN Field(rule, "eventTypes").items : MatchesUpload(Field(rule, "eventTypes").items[i])

-----------------------------------------------------------------------------
(* Names: the simulator's checks, and those of the S3 client.               *)

\* hasValidB2BucketNameShape
WellShaped(name) == name.marks \cap {"odd", "control", "slash", "dot", "ipv4"} = {}

\* validateBucketName
BucketNameFits(name) ==
    /\ IsText(name) /\ name.length >= 6 /\ name.length <= 63
    /\ "ipv4" \notin name.marks /\ WellShaped(name) /\ "reserved" \notin name.marks

\* assertSafeBucketName
ClientTakesBucketName(name) ==
    /\ NonEmptyText(name) /\ name.marks \cap {"control", "dot", "slash"} = {}
    /\ name.length >= 6 /\ name.length <= 63
    /\ "ipv4" \notin name.marks /\ WellShaped(name) /\ "reserved" \notin name.marks

\* validateFileName: a "dot" is a segment . or .., which is refused when it is the whole name.
FileNameFits(name) ==
    /\ NonEmptyText(name) /\ name.length <= 1024
    /\ "control" \notin name.marks /\ ~ ("dot" \in name.marks /\ name.length <= 2)
    /\ "slash" \notin name.marks

\* assertB2FileNameCore, assertValidB2FileName
SignableFileName(name) ==
    NonEmptyText(name) /\ name.length <= 1024 /\ name.marks \cap {"control", "dot"} = {}

\* assertNativeDownloadFileName
ClientTakesFileName(name) == SignableFileName(name) /\ "slash" \notin name.marks
=============================================================================
