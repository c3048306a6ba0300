------------------------------ MODULE RequestRules ------------------------------
(***************************************************************************)
(* Requests that carry no settings: the pages the client asks for, upload    *)
(* timestamps, and the grant of a key on its way from createKey through the   *)
(* simulator and an answer of authorizeAccount, in the form of today or of    *)
(* an earlier API, to what the account info tells its caller.                 *)
(***************************************************************************)
EXTENDS BucketRules

-----------------------------------------------------------------------------
(* Pages.                                                                  *)

\* LIST_ENDPOINT_CAPS
CountCaps == [names |-> 10000, versions |-> 10000, unfinished |-> 100, keys |-> 10000, parts |-> 10000]

\* validateMaxCount
CountFits(requested, endpoint) == requested = Missing \/ Between(requested, 1, CountCaps[endpoint])

Listing(endpoint, size, free) == [endpoint |-> endpoint, size |-> size, free |-> free]

DefaultPageSize == Number(1000)

\* What each method asks for if it is not told, and whether a caller may tell it.
Listings ==
    [listFileNames |-> Listing("names", Missing, TRUE),
     listFileVersions |-> Listing("versions", Missing, TRUE),
     listUnfinishedLargeFiles |-> Listing("unfinished", Missing, TRUE),
     listKeys |-> Listing("keys", Missing, TRUE),
     paginateFileNames |-> Listing("names", DefaultPageSize, TRUE),
     paginateFileVersions |-> Listing("versions", DefaultPageSize, TRUE),
     paginateUnfinishedLargeFiles |-> Listing("unfinished", Number(100), TRUE),
     paginateParts |-> Listing("parts", DefaultPageSize, TRUE),
     paginateKeys |-> Listing("keys", DefaultPageSize, TRUE),
     deleteAll |-> Listing("versions", DefaultPageSize, TRUE),
     getFileInfoByName |-> Listing("names", Number(1), FALSE),
     unhideFile |-> Listing("versions", Number(100), FALSE),
     resume |-> Listing("unfinished", Number(100), FALSE),
     resumeExplicitly |-> Listing("unfinished", Number(1), FALSE)]

CountAsked(method, size) ==
    IF size # Missing /\ Listings[method].free THEN size ELSE Listings[method].size

\* listAllParts asks for one part more than the plan has, and for a hundred at most.
PartCountAsked(planned, known) ==
    CASE planned - known + 1 > 100 -> Number(100)
      [] planned - known + 1 < 1 -> Number(1)
      [] OTHER -> Number(planned - known + 1)

-----------------------------------------------------------------------------
(* Upload timestamps.  The simulator's clock says 2.                        *)

Unsafe == [is |-> "unsafe"]    \* a number no integer type of the client holds
Digits(n) == [is |-> "string", text |-> "digits", value |-> n, length |-> 1, marks |-> {}]

\* assertCustomUploadTimestamp and String
HeaderTimestamp(value) == IF value = Missing THEN Missing ELSE Digits(value)
ClientTakesTimestamp(value) == value = Missing \/ (value.is = "number" /\ value.value >= 0)

SpellsTimestamp(value) == IsText(value) /\ value.text = "digits" /\ value.value.is = "number" /\ value.value.value >= 0

\* assertRawCustomUploadTimestamp
RawTimestampFits(value) == Nullable(value) \/ SpellsTimestamp(value)

\* parseCustomUploadTimestamp, of an account that may set timestamps
TimestampFits(value) == Nullable(value) \/ (SpellsTimestamp(value) /\ value.value.value <= 2)

-----------------------------------------------------------------------------
(* Keys.  A request is [bucketId, bucketIds, namePrefix, capabilities], the  *)
(* first two with a text or a list, or Missing or Null.                      *)

\* normalizeCreateKeyRequest refuses one with both.
ClientTakesKey(request) == request.bucketId = Missing \/ request.bucketIds = Missing

\* A request for a key whose holder is answered in a form that can tell its scope.
KeyTyped(request, form) ==
    /\ {"keyName", "bucketId", "bucketIds", "namePrefix", "capabilities"} \subseteq DOMAIN request
    /\ request.bucketId = Missing \/ IsText(request.bucketId)
    /\ LET ids == request.bucketIds
       IN  \/ Nullable(ids)
           \/ /\ ids = List(ids.items) /\ IsTexts(ids) /\ IsList(ids)
              /\ form # "v4" => Len(ids.items) = 1

\* Mutant: the deprecated field is left out and nothing put in its place.
BucketIdDropped(request) == [request EXCEPT !.bucketId = Missing]

\* normalizeCreateKeyRequest
KeyRequest(request) ==
    IF request.bucketId = Missing THEN request
    ELSE [request EXCEPT !.bucketId = Missing, !.bucketIds = List(<<request.bucketId>>)]

\* validateCreateKeyName, validateCreateKeyCapabilities
KeyNameFits(name) == IsText(name) /\ name.length >= 1 /\ name.length <= 100
CapabilitiesFit(value, known) ==
    NonEmptyTexts(value) /\ \A i \in DOMAIN value.items : value.items[i].text \in known

\* normalizeKeyBucketIds: a v4 request has no bucketId; and an empty prefix is none.
KeyScope(request) == IF Nullable(request.bucketIds) THEN Null ELSE request.bucketIds
KeyPrefix(request) == IF request.namePrefix = Missing \/ request.namePrefix.length = 0 THEN Null ELSE request.namePrefix

\* createKey: keys that manage keys are not restricted.
KeyFits(request, known) ==
    /\ request.bucketId = Missing
    /\ KeyNameFits(request.keyName) /\ CapabilitiesFit(request.capabilities, known)
    /\ {request.capabilities.items[i].text : i \in DOMAIN request.capabilities.items}
          \cap {"listKeys", "writeKeys", "deleteKeys"} # {}
       => KeyScope(request) = Null /\ KeyPrefix(request) = Null

\* singleBucketId
SingleOf(scope) == IF scope # Null /\ Len(scope.items) = 1 THEN scope.items[1] ELSE Null

\* authorizeAccount of the simulator: buckets and, for one, the field of before.
AnsweredV4(scope, prefix, caps) ==
    [allowed |-> TRUE, buckets |-> scope, allowedId |-> SingleOf(scope), flatId |-> SingleOf(scope),
     allowedPrefix |-> prefix, flatPrefix |-> prefix, allowedCaps |-> caps, flatCaps |-> Missing]

\* The forms of an earlier API: without allowed.buckets, and without allowed.  They tell of one
\* bucket at most.
AnsweredV3(scope, prefix, caps) ==
    [AnsweredV4(scope, prefix, caps) EXCEPT !.buckets = Missing, !.flatId = Missing, !.flatPrefix = Missing]
AnsweredFlat(scope, prefix, caps) ==
    [allowed |-> FALSE, buckets |-> Missing, allowedId |-> Missing, flatId |-> SingleOf(scope),
     allowedPrefix |-> Missing, flatPrefix |-> prefix, allowedCaps |-> Missing, flatCaps |-> caps]

Forms == {"v4", "v3", "flat"}
InForm(form, scope, prefix, caps) ==
    CASE form = "v4" -> AnsweredV4(scope, prefix, caps)
      [] form = "v3" -> AnsweredV3(scope, prefix, caps)
      [] form = "flat" -> AnsweredFlat(scope, prefix, caps)

\* a ?? b
Else(a, b) == IF Nullable(a) THEN b ELSE a

\* normalizeAllowedBuckets
AllowedBuckets(answer) ==
    IF answer.buckets # Missing THEN answer.buckets
    ELSE LET id == Else(Else(answer.allowedId, answer.flatId), Null)
         IN  IF id = Null THEN Null ELSE List(<<id>>)

\* normalizeAuthorizeAccountResponse
Normalized(answer) ==
    LET bs == AllowedBuckets(answer)
        id == SingleOf(bs)
        prefix == Else(Else(answer.allowedPrefix, answer.flatPrefix), Null)
        caps == Else(Else(answer.allowedCaps, answer.flatCaps), List(<<>>))
    IN  [allowed |-> TRUE, buckets |-> bs, allowedId |-> id, flatId |-> id, allowedPrefix |-> prefix,
         flatPrefix |-> prefix, allowedCaps |-> caps, flatCaps |-> Missing]

\* getAllowedBucketIds, of an account info that may hold an answer from before
AllowedIds(auth) ==
    IF auth.buckets = Missing THEN (IF Nullable(auth.allowedId) THEN Null ELSE List(<<auth.allowedId>>))
    ELSE auth.buckets

\* getAllowedBucketId throws unless there is exactly one, or no restriction.
AllowedIdThrows(auth) == auth.buckets \notin {Missing, Null} /\ Len(auth.buckets.items) # 1
AllowedId(auth) == IF auth.buckets = Missing THEN Else(auth.allowedId, Null) ELSE SingleOf(auth.buckets)

\* hasCapabilities
MissingCapabilities(auth, needed) == needed \ {c.text : c \in ToSet(auth.allowedCaps.items)}

\* What a caller is told of a key is what the key was asked for.
GrantIsTold(request, form) ==
    LET asked == Else(IF request.bucketId = Missing THEN request.bucketIds ELSE List(<<request.bucketId>>), Null)
        made == KeyRequest(request)
        auth == Normalized(InForm(form, KeyScope(made), KeyPrefix(made), made.capabilities))
        granted == {made.capabilities.items[i].text : i \in DOMAIN made.capabilities.items}
    IN  /\ AllowedIds(auth) = asked
        /\ IF AllowedIdThrows(auth) THEN asked # Null /\ Len(asked.items) # 1
           ELSE AllowedId(auth) = SingleOf(asked)
        /\ auth.allowedPrefix = KeyPrefix(request)
        /\ \A c \in granted \cup {"none"} : MissingCapabilities(auth, {c}) = {} <=> c \in granted
=============================================================================
