----------------------------- MODULE BucketSettings -----------------------------
(***************************************************************************)
(* The settings of buckets: what the raw client and the simulator's checks   *)
(* let through (raw/index.ts, simulator/index.ts), the keys and buckets a     *)
(* replication rests on, which other requests delete, and the helpers that    *)
(* read a bucket's rules and write them back with one more or one less        *)
(* (bucket.ts).  Each action is one of StorageService with what it does to    *)
(* the settings.  A plan bounds the updates of a bucket and says what is      *)
(* tried: the settings of trials, lifecycle rules and notifications.          *)
(***************************************************************************)
EXTENDS StorageService, RequestRules

CONSTANT Trial  \* requests without settings that are tried, records of Outcome

VARIABLES settings,     \* of the buckets that were configured, by id
          helper,       \* a helper between its reading and its writing
          answer        \* history: what became of the last request

settingsVars == <<settings, helper, answer>>

NoHelper == [op |-> "none"]

\* Whether the client vouched for a request, and whether its fields passed the simulator's checks.
Verdict(vouched, fields) == [vouched |-> vouched, fields |-> fields]
NoAnswer == Verdict(FALSE, FALSE)

\* What a bucket reports that was created without settings.  placed is history: the replication
\* was written when the bucket was created.
Unconfigured == [info |-> [is |-> "entries", items |-> <<>>], cors |-> List(<<>>), lifecycle |-> List(<<>>),
                 retention |-> Object([mode |-> Null, period |-> Null]), replication |-> Null, placed |-> FALSE]

Configured(b) == IF b \in DOMAIN settings THEN settings[b] ELSE Unconfigured

SettingsInit == settings = <<>> /\ helper = NoHelper /\ answer = NoAnswer

-----------------------------------------------------------------------------
(* Replication.                                                            *)

Part(config, side) == IF config.is = "object" THEN Field(config, side) ELSE Missing

SourceOf(config) == Part(config, "asReplicationSource")
DestinationOf(config) == Part(config, "asReplicationDestination")

RulesOf(config) == IF SourceOf(config).is = "object" THEN ToSet(Field(SourceOf(config), "replicationRules").items)
                   ELSE {}

MappingOf(config) ==
    IF DestinationOf(config).is = "object" THEN Field(DestinationOf(config), "sourceToDestinationKeyMapping").fields
    ELSE <<>>

\* replicationDestinationBucketIds
DestinationsOf(config) == {Field(rule, "destinationBucketId").text : rule \in RulesOf(config)}

\* validateReplicationApplicationKey: the key is there, whether it has expired or not.
KeyServes(id, caps, bs) == \E k \in keys : k.id = id /\ caps \subseteq k.caps /\ Within(bs, k.buckets)

Reading == {"readFiles", "listFiles"}
Writing == {"writeFiles"}

\* The key the destination has for a source key, or None.
KeyAt(b, source) ==
    LET mapping == MappingOf(Configured(b).replication)
    IN  IF b \in Live /\ source \in DOMAIN mapping THEN mapping[source].text ELSE None

\* Mutant: any key the destination has for the source will do.
SomeKeyAt(source, b) == KeyAt(b, source) # None

\* validateReplicationDestinationBuckets
DestinationServes(source, b) == KeyAt(b, source) # None /\ KeyServes(KeyAt(b, source), Writing, {b})

\* validateReplicationApplicationKeys; where is empty for a bucket that is being created.
KeysServe(config, where) ==
    /\ SourceOf(config).is = "object" =>
          LET source == Field(SourceOf(config), "sourceApplicationKeyId").text
          IN  KeyServes(source, Reading, where) /\ \A b \in DestinationsOf(config) : DestinationServes(source, b)
    /\ \A source \in DOMAIN MappingOf(config) :
          KeyServes(source, Reading, {}) /\ KeyServes(MappingOf(config)[source].text, Writing, where)

\* normalizeReplicationConfiguration, wrapReplicationConfiguration
Wrapped(config) ==
    LET side(f) == IF Field(config, f) = Missing THEN Null ELSE Field(config, f)
        both == [f \in ReplicationFields |-> side(f)]
    IN  IF \A f \in ReplicationFields : both[f] = Null THEN Null ELSE Object(both)

-----------------------------------------------------------------------------
(* Requests: a function of the settings they name.                          *)

Asks(request, f) == f \in DOMAIN request

\* What the types of the client say: a name has a length, and lists are sequences.
TypedSettings(request) ==
    /\ Asks(request, "cors") /\ request.cors.is = "array" =>
          \A i \in DOMAIN request.cors.items :
              request.cors.items[i].is = "object" =>
                  LET name == Field(request.cors.items[i], "corsRuleName") IN IsText(name) => name.length \in Nat
    /\ Asks(request, "lifecycle") => IsList(request.lifecycle)
    /\ Asks(request, "replication") /\ SourceOf(request.replication).is = "object" =>
          IsList(Field(SourceOf(request.replication), "replicationRules"))

\* A helper is given a rule.
ASSUME SettingsAssumption ==
    \A p \in Plan : /\ \A request \in p.trials : TypedSettings(request)
                    /\ \A rule \in p.lifecycles : LifecycleRuleFits(rule)

\* assertValidBucketConfiguration
ClientTakes(request) ==
    /\ Asks(request, "info") => ClientTakesInfo(request.info)
    /\ Asks(request, "cors") => ClientTakesCors(request.cors)

\* validateBucketConfigurationFields; whether file lock allows the retention is RetentionAllowed.
FieldsFit(request) ==
    /\ Asks(request, "info") => InfoFits(request.info)
    /\ Asks(request, "cors") => CorsFits(request.cors)
    /\ Asks(request, "lifecycle") => LifecycleFits(request.lifecycle)
    /\ Asks(request, "replication") => ReplicationFits(request.replication)
    /\ Asks(request, "retention") => DefaultRetentionFits(request.retention)

\* bucketDefaultRetentionForResponse
Reported(policy) == IF Field(policy, "mode").text = "none" THEN Unconfigured.retention ELSE policy

RetentionAsked(request) ==
    IF ~ Asks(request, "retention") THEN "keep"
    ELSE IF Field(request.retention, "mode").text = "none" THEN "off" ELSE "on"

Stored(old, request, created) ==
    [f \in DOMAIN old |->
        CASE f = "placed" -> IF Asks(request, "replication") THEN created ELSE old.placed
          [] f # "placed" /\ ~ Asks(request, f) -> old[f]
          [] f = "replication" /\ Asks(request, f) -> Wrapped(request.replication)
          [] f = "retention" /\ Asks(request, f) -> Reported(request.retention)
          [] OTHER -> request[f]]

Settle(b, request, created) ==
    settings' = [x \in DOMAIN settings \cup {b} |->
                    IF x = b THEN Stored(Configured(b), request, created) ELSE settings[x]]

KeysServeFor(request, where) == Asks(request, "replication") => KeysServe(request.replication, where)

\* The requests that pass both.
Fitting(requests) == {request \in requests : ClientTakes(request) /\ FieldsFit(request)}

\* createBucket, of a fitting request
CreateConfigured(t, lock, request) ==
    /\ May("configure") /\ KeysServeFor(request, {})
    /\ CreateBucket(t, lock, RetentionAsked(request))
    /\ Settle(nextId, request, TRUE)
    /\ UNCHANGED <<helper, answer>>

\* updateBucketScope
InReach(t, request) ==
    Asks(request, "replication") /\ ReplicationFits(request.replication)
        => InScope(t, DestinationsOf(request.replication), {})

\* The fields the client checks, in rules without fields that the service does not know.
Checked(request) ==
    /\ DOMAIN request \subseteq {"info", "cors"}
    /\ Asks(request, "cors") /\ ClientTakesCors(request.cors) =>
          \A i \in DOMAIN request.cors.items : HasOnly(request.cors.items[i], CorsFields)

\* updateBucket of the client: its check, the request, the simulator's checks and the change.
Update(byHelper, t, b, request) ==
    /\ b \in Live /\ buckets[b].revision < plan.updates
    /\ answer' = Verdict(ClientTakes(request) /\ (byHelper \/ Checked(request)), FieldsFit(request))
    /\ IF ClientTakes(request) /\ FieldsFit(request) /\ KeysServeFor(request, {b}) /\ InReach(t, request)
       THEN UpdateBucket(t, b, None, "keep", RetentionAsked(request)) /\ Settle(b, request, FALSE)
       ELSE UNCHANGED <<storageVars, settings>>

Try(t, b, request) == Update(FALSE, t, b, request) /\ UNCHANGED helper

NotLater(value) == value = Missing \/ value.value <= 2

\* What the client lets through or chooses by itself, and what becomes of it: a name in its URLs,
\* a page, the timestamp of an upload or of a large file, and the grant of a key.
Outcome(trial) ==
    CASE trial.of = "bucket" -> Verdict(ClientTakesBucketName(trial.name), BucketNameFits(trial.name))
      [] trial.of = "file" -> Verdict(ClientTakesFileName(trial.name), FileNameFits(trial.name))
      [] trial.of = "page" -> Verdict(trial.size = Missing \/ ~ Listings[trial.method].free,
                                      CountFits(CountAsked(trial.method, trial.size), Listings[trial.method].endpoint))
      [] trial.of = "parts" -> Verdict(TRUE, CountFits(PartCountAsked(trial.planned, trial.known), "parts"))
      [] trial.of = "upload" -> Verdict(ClientTakesTimestamp(trial.value) /\ NotLater(trial.value),
                                        TimestampFits(HeaderTimestamp(trial.value)))
      [] trial.of = "large" -> Verdict(RawTimestampFits(HeaderTimestamp(trial.value)) /\ NotLater(trial.value),
                                       TimestampFits(HeaderTimestamp(trial.value)))
      [] trial.of = "key" -> Verdict(ClientTakesKey(trial.request) /\ KeyFits(KeyRequest(trial.request), Capability),
                                     GrantIsTold(trial.request, trial.form))

\* And of other requests.  An answer of an earlier API tells of one bucket.
ASSUME TrialAssumption ==
    \A trial \in Trial :
        \/ trial.of \in {"bucket", "file", "upload", "large"}
        \/ trial.of = "page" /\ trial.method \in DOMAIN Listings
        \/ trial.of = "parts" /\ {trial.planned, trial.known} \subseteq Nat
        \/ trial.of = "key" /\ trial.form \in Forms /\ KeyTyped(trial.request, trial.form)

TryRequest(trial) == answer' = Outcome(trial) /\ UNCHANGED <<storageVars, settings, helper>>

\* notificationRulePrefixes: a prefix that is not a text is empty.
PrefixOf(rule) ==
    LET prefix == Field(rule, "objectNamePrefix")
    IN  IF IsText(prefix) /\ prefix.text \in Name THEN {prefix.text} ELSE EveryName

\* setBucketNotificationRules
NotifyOf(t, b, rules) ==
    /\ NotificationsFit(rules)
    /\ SetNotificationRules(t, b, {[on |-> FiresForUploads(rule), names |-> PrefixOf(rule)] : rule \in ToSet(rules.items)})
    /\ UNCHANGED settingsVars

-----------------------------------------------------------------------------
(* The helpers.                                                            *)

\* refresh, and readableReplicationConfigurationOrEmpty for a reader who may see it.  An edit is
\* [op, rule, key]; the key is the one addReplicationRule is given, or missing.
Refresh(t, b, edit) ==
    /\ May("helper") /\ helper = NoHelper /\ b \in Live /\ Authorized(t, "listBuckets", {b}, {})
    /\ edit.op \in {"addReplicationRule", "removeReplicationRule"} => "readBucketReplications" \in t.caps
    /\ helper' = [op |-> edit.op, token |-> t, bucket |-> b, edit |-> edit, read |-> Configured(b)]
    /\ UNCHANGED <<storageVars, settings, answer>>

NullIfMissing(v) == IF v = Missing THEN Null ELSE v

SourceFrom(key, rules) ==
    Object([sourceApplicationKeyId |-> key, replicationRules |-> List(rules)])

RulesRead == IF SourceOf(helper.read.replication).is = "object"
             THEN Field(SourceOf(helper.read.replication), "replicationRules").items ELSE <<>>

\* The rules without those of this rule's name, or for its prefix.
Without(rules, rule, f) ==
    LET kept[i \in 0..Len(rules)] ==
            IF i = 0 THEN <<>>
            ELSE IF Field(rules[i], f).text = Field(rule, f).text THEN kept[i - 1]
            ELSE Append(kept[i - 1], rules[i])
    IN  kept[Len(rules)]

WithRule(rules, rule, f) == Append(Without(rules, rule, f), rule)

\* addReplicationRule, removeReplicationRule
ReplicationWritten ==
    LET source == SourceOf(helper.read.replication)
        key == IF helper.edit.key # Missing THEN helper.edit.key
               ELSE IF source.is = "object" THEN Field(source, "sourceApplicationKeyId") ELSE Missing
        new == CASE helper.op = "addReplicationRule" ->
                      SourceFrom(key, WithRule(RulesRead, helper.edit.rule, "replicationRuleName"))
                 [] helper.op = "removeReplicationRule" /\ source.is = "object" ->
                      SourceFrom(Field(source, "sourceApplicationKeyId"),
                                 Without(RulesRead, helper.edit.rule, "replicationRuleName"))
                 [] OTHER -> Null
    IN  Object([asReplicationSource |-> new,
                asReplicationDestination |-> NullIfMissing(DestinationOf(helper.read.replication))])

\* addLifecycleRule, removeLifecycleRule
LifecycleWritten ==
    LET rules == helper.read.lifecycle.items
    IN  List(IF helper.op = "addLifecycleRule" THEN WithRule(rules, helper.edit.rule, "fileNamePrefix")
             ELSE Without(rules, helper.edit.rule, "fileNamePrefix"))

HelperRequest ==
    IF helper.op \in {"addReplicationRule", "removeReplicationRule"} THEN [replication |-> ReplicationWritten]
    ELSE [lifecycle |-> LifecycleWritten]

\* addReplicationRule throws without a source key.
HelperThrows ==
    /\ helper.op = "addReplicationRule" /\ helper.edit.key = Missing
    /\ SourceOf(helper.read.replication).is # "object"

HelperWrites ==
    /\ helper # NoHelper
    /\ IF HelperThrows \/ helper.bucket \notin Live \/ buckets[helper.bucket].revision >= plan.updates
       THEN UNCHANGED <<storageVars, settings, answer>>
       ELSE Update(TRUE, helper.token, helper.bucket, HelperRequest)
    /\ helper' = NoHelper

-----------------------------------------------------------------------------
(* What is asked for, with the keys and buckets there are.                  *)

Id(id) == Text(id, 1, {})

ReplicationRule(name, to) ==
    Object([destinationBucketId |-> Id(to), fileNamePrefix |-> Text("", 0, {}), includeExistingFiles |-> Flag(FALSE),
            isEnabled |-> Flag(TRUE), priority |-> Number(1), replicationRuleName |-> Text(name, 2, {})])

Mapping(source, key) ==
    Object([sourceToDestinationKeyMapping |-> Object([k \in {source} |-> Id(key)])])

Sources == {SourceFrom(Id(k), <<ReplicationRule("r1", b)>>) : k \in KeyIds, b \in Live}
Mappings == {Mapping(source, key) : source, key \in KeyIds}

ReplicationRequests ==
    IF ~ May("replicate") THEN {}
    ELSE {[replication |-> Object([asReplicationSource |-> source])] : source \in Sources}
         \cup {[replication |-> Object([asReplicationDestination |-> m])] : m \in Mappings}

RuleEdits ==
    IF ~ May("replicate") THEN {}
    ELSE {[op |-> "addReplicationRule", rule |-> ReplicationRule(name, b), key |-> key] :
             name \in {"r1", "r2"}, b \in Live, key \in {Missing} \cup {Id(k) : k \in KeyIds}}
         \cup {[op |-> "removeReplicationRule", rule |-> ReplicationRule("r1", b), key |-> Missing] : b \in Live}

LifecycleEdits ==
    {[op |-> op, rule |-> rule, key |-> Missing] : op \in {"addLifecycleRule", "removeLifecycleRule"}, rule \in plan.lifecycles}

SettingsNext ==
    \/ \E t \in tokens :
         \/ \E lock \in plan.locks, request \in Fitting(ReplicationRequests \cup plan.trials) : CreateConfigured(t, lock, request)
         \/ \E b \in Live : \/ \E request \in ReplicationRequests \cup plan.trials : Try(t, b, request)
                            \/ \E rules \in plan.notifications : NotifyOf(t, b, rules)
                            \/ \E edit \in RuleEdits \cup LifecycleEdits : Refresh(t, b, edit)
    \/ May("try") /\ \E trial \in Trial : TryRequest(trial)
    \/ HelperWrites

-----------------------------------------------------------------------------
\* Whatever keys and buckets were deleted and configured in whatever order: while the keys of a
\* replication rule are there, its source key may read the bucket, and the key its destination
\* has for it may write there.  createBucket does not ask whether the source key may read the
\* bucket it makes, for the bucket has no id yet.
RulesAreGranted ==
    \A b \in Live \cap DOMAIN settings :
        LET config == settings[b].replication
        IN  SourceOf(config).is = "object" =>
                LET source == Field(SourceOf(config), "sourceApplicationKeyId").text
                IN  /\ source \in KeyIds /\ ~ settings[b].placed => KeyServes(source, Reading, {b})
                    /\ \A to \in DestinationsOf(config) :
                          KeyAt(to, source) \in KeyIds => KeyServes(KeyAt(to, source), Writing, {to})

\* The checks agree: what the client lets through is refused only for a field it does not know,
\* a helper never writes rules the service refuses for their form, what the client asks for
\* unasked is accepted, a key's holder is told the grant the key was asked for in whichever form
\* of the answer, and what a bucket reports would be accepted again, but for a retention it does
\* not have.
ChecksAgree ==
    /\ answer.vouched => answer.fields
    /\ \A b \in Live \cap DOMAIN settings :
          LET s == settings[b]
          IN  /\ ClientTakesInfo(s.info) /\ CorsFits(s.cors) /\ LifecycleFits(s.lifecycle)
              /\ s.replication # Null => ReplicationFits(s.replication)
              /\ s.retention # Unconfigured.retention => DefaultRetentionFits(s.retention)
=============================================================================
