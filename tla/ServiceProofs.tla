----------------------------- MODULE ServiceProofs -----------------------------
(***************************************************************************)
(* Theorems of the simulator as one system: the grants it gives, the files  *)
(* it has answered for, the members of a group, what its files hold, what a  *)
(* reader is told, what a request may touch, the keys replication rests on,   *)
(* and the checks of settings.  Each part says first what a step is to its own *)
(* state (Turn, CalmUrls, FilesStand, CalmFiles, StartsTurn, KeysTurn, ...),   *)
(* and then that each of the few steps that touch it keeps its invariant.    *)
(***************************************************************************)
EXTENDS Service, FiniteSetTheorems, TLAPS

\* The handlers that wait are in the slots of the plan.
SlotsInv == waiting = [s \in Slot |-> waiting[s]]

\* What entering and leaving a slot do to the handlers that wait.
LEMMA EnterFrame ==
    ASSUME SlotsInv, plan' = plan, NEW handler, Enter(handler)
    PROVE  /\ SlotsInv'
           /\ \E slot \in Slot : /\ waiting[slot] = NoHandler /\ waiting'[slot] = handler
                                 /\ \A s \in Slot : s # slot => waiting'[s] = waiting[s]
<1>1. PICK slot \in Slot : waiting[slot] = NoHandler /\ waiting' = [waiting EXCEPT ![slot] = handler]
  BY DEF Enter
<1>2. Slot' = Slot
  BY DEF Slot
<1>3. waiting' = [s \in Slot |-> IF s = slot THEN handler ELSE waiting[s]]
  BY <1>1 DEF SlotsInv
<1>4. SlotsInv'
  BY <1>2, <1>3 DEF SlotsInv
<1> QED
  BY <1>1, <1>3, <1>4

LEMMA LeaveFrame ==
    ASSUME SlotsInv, plan' = plan, NEW s \in Slot, Leave(s)
    PROVE  /\ SlotsInv'
           /\ waiting' = [x \in Slot |-> IF x = s THEN NoHandler ELSE waiting[x]]
<1>1. waiting' = [x \in Slot |-> IF x = s THEN NoHandler ELSE waiting[x]]
  BY DEF Leave, SlotsInv
<1> QED
  BY <1>1 DEF SlotsInv, Slot

-----------------------------------------------------------------------------
(* The turns of the storage side.                                          *)

\* What a step of the service is to the storage side, whoever asked for it.
Turn ==
    \/ Authorize \/ AdvanceTime \/ FlushHooks \/ FlushRound
    \/ \E t, caps, bs, names, expires : CreateKey(t, caps, bs, names, expires)
    \/ \E t, k : DeleteKey(t, k)
    \/ \E t, lock, retention : CreateBucket(t, lock, retention)
    \/ \E t, b, guard, lock, retention : UpdateBucket(t, b, guard, lock, retention)
    \/ \E t, b, rules : SetNotificationRules(t, b, rules)
    \/ \E t, b : DeleteBucket(t, b) \/ GetUploadUrl(t, b)
    \/ \E t, b, names : \E life \in 1..Ttl : GetDownloadAuthorization(t, b, names, life)
    \/ \E u \in signed : ExpireUploadToken(u) \/ InvalidateUploadToken(u) \/ RefuseUpload(u)
    \/ \E d : RefuseDownload(d)
    \/ \E h : HookSettles(h)
    \/ \E u, name : UploadFile(u, name)
    \/ \E t, f, b, name : CopyFile(t, f, b, name)
    \/ \E t, b, name : StartLargeFile(t, b, name) \/ HideFile(t, b, name)
    \/ \E t, f : FinishLargeFile(t, f) \/ CancelLargeFile(t, f) \/ DeleteFileVersion(t, f)
    \/ \E s \in Slot : IssueUploadUrl(s) \/ StoreFile(s) \/ AddLargeFile(s) \/ (Leave(s) /\ SameStorage)
    \/ \E handler : handler.op = "part" /\ Enter(handler) /\ SameStorage
    \/ PartnerNext
    \/ UNCHANGED storageVars

\* Each turn about the contents of files is one of the storage side.
LEMMA ContentTurn == ContentNext => Turn
<1> SUFFICES ASSUME ContentNext PROVE Turn
  OBVIOUS
<1>1. ASSUME NEW u, NEW name, NEW put, PutFile(u, name, put) PROVE Turn
  BY <1>1 DEF PutFile, Turn
<1>2. ASSUME NEW t, NEW b, SetDefaultEncryption(t, b) PROVE Turn
  BY <1>2 DEF SetDefaultEncryption, Turn
<1>3. ASSUME NEW t, NEW b, NEW name, HideContents(t, b, name) PROVE Turn
  BY <1>3 DEF HideContents, Turn
<1>4. ASSUME NEW t, NEW b, NEW name, NEW start, StartLargeContents(t, b, name, start) PROVE Turn
  BY <1>4 DEF StartLargeContents, Turn
<1>5. ASSUME NEW t, NEW f, NEW hold, Retain(t, f) \/ SetHold(t, f, hold) PROVE Turn
  BY <1>5 DEF Retain, SetHold, Turn
<1>6. ASSUME NEW t, NEW f, DeleteContents(t, f) PROVE Turn
  BY <1>6 DEF DeleteContents, Turn
<1>7. ASSUME NEW t, NEW f, NEW b, NEW name, NEW copy, CopyContents(t, f, b, name, copy) PROVE Turn
  BY <1>7 DEF CopyContents, Turn
<1>8. ASSUME NEW t, NEW source, NEW f, NEW n, NEW copy, CopyPart(t, source, f, n, copy) PROVE Turn
  BY <1>8 DEF CopyPart, Turn
<1>9. ASSUME NEW t, NEW f, NEW listed, FinishContents(t, f, listed) PROVE Turn
  BY <1>9 DEF FinishContents, Turn
<1>10. ASSUME NEW f, NEW n, NEW put, PutPart(f, n, put) PROVE Turn
  BY <1>10 DEF PutPart, Turn
<1>11. ASSUME NEW s \in Slot, StoreContents(s) PROVE Turn
  BY <1>11 DEF StoreContents, Turn
<1>12. ASSUME NEW s \in Slot, AddLargeContents(s) PROVE Turn
  BY <1>12 DEF AddLargeContents, Turn
<1>13. ASSUME NEW s \in Slot, StorePart(s) PROVE Turn
  BY <1>13 DEF StorePart, Turn
<1>14. ASSUME NEW s \in Slot, RefuseArrival(s) PROVE Turn
  BY <1>14 DEF RefuseArrival, SameStorage, Turn
<1>15. ASSUME NEW t, NEW f, CancelLargeFile(t, f) PROVE Turn
  BY <1>15 DEF Turn
<1> QED
  BY <1>1, <1>2, <1>3, <1>4, <1>5, <1>6, <1>7, <1>8, <1>9, <1>10, <1>11, <1>12, <1>13, <1>14, <1>15
     DEF ContentNext

\* So is each of a large copy, of the settings, ...
LEMMA CopyTurn == CopyNext => Turn
<1> SUFFICES ASSUME CopyNext PROVE Turn
  OBVIOUS
<1>1. ASSUME SendCopy PROVE Turn
  BY <1>1 DEF SendCopy, CopyContents, Turn
<1>2. ASSUME SendStart PROVE Turn
  BY <1>2 DEF SendStart, StartLargeContents, Turn
<1>3. ASSUME NEW n, SendPart(n) PROVE Turn
  BY <1>3 DEF SendPart, CopyPart, SameFiles, Turn
<1>4. ASSUME FinishServed PROVE Turn
  BY <1>4 DEF FinishServed, FinishContents, SameFiles, Turn
<1>5. ASSUME CancelServed PROVE Turn
  BY <1>5 DEF CancelServed, SameFiles, Turn
<1>6. ASSUME NEW t, NEW f, NEW b, NEW name, NEW ask, CopyLargeFile(t, f, b, name, ask) PROVE Turn
  BY <1>6 DEF CopyLargeFile, SameFiles, Turn
<1>7. ASSUME SizeKnown \/ NotSent \/ RequestFails \/ CallerAborts PROVE Turn
  BY <1>7 DEF SizeKnown, NotSent, RequestFails, CallerAborts, SameFiles, Turn
<1> QED
  BY <1>1, <1>2, <1>3, <1>4, <1>5, <1>6, <1>7 DEF CopyNext

LEMMA SettingsTurn == SettingsNext => Turn
<1> SUFFICES ASSUME SettingsNext PROVE Turn
  OBVIOUS
<1>1. ASSUME NEW t, NEW lock, NEW request, CreateConfigured(t, lock, request) PROVE Turn
  BY <1>1 DEF CreateConfigured, Turn
<1>2. ASSUME NEW byHelper, NEW t, NEW b, NEW request, Update(byHelper, t, b, request) PROVE Turn
  BY <1>2 DEF Update, Turn
<1>3. ASSUME NEW t, NEW b, NEW rules, NotifyOf(t, b, rules) PROVE Turn
  BY <1>3 DEF NotifyOf, Turn
<1>4. ASSUME NEW t, NEW b, NEW edit, Refresh(t, b, edit) PROVE Turn
  BY <1>4 DEF Refresh, Turn
<1>5. ASSUME NEW trial, TryRequest(trial) PROVE Turn
  BY <1>5 DEF TryRequest, Turn
<1>6. ASSUME HelperWrites PROVE Turn
  BY <1>2, <1>6 DEF HelperWrites, Turn
<1> QED
  BY <1>1, <1>2, <1>3, <1>4, <1>5, <1>6 DEF SettingsNext, Try

\* Readers and searches only look at the storage.
LEMMA LookingOn == ReadNext \/ SearchNext => UNCHANGED storageVars
BY DEF ReadNext, ReadWithToken, ReadWithAuthorization, Answer, StreamNext, Chunk, Consume, EndOfBody,
       ConnectionBreaks, CancelReading, CancelPendingRead, TimerFires, SameService, SearchNext, BeginSearch, ListPage,
       Choose, ListPartsPage, SearchFails

\* ... and every step of the service is a turn.
LEMMA TurnStep == [Next]_vars => Turn
<1>1. AccountNext => Turn
  <2>1. \A t : (\E caps \in plan.grants, bs \in Restrictions(Live), names \in plan.prefixes, life \in plan.lives :
                   CreateKey(t, caps, bs, names, IF life = None THEN None ELSE now + life)) => Turn
    BY DEF Turn
  <2>2. \A t, b : (\E guard \in {None, 1}, lock, retention \in Settings :
                      May("updateBucket") /\ UpdateBucket(t, b, guard, lock, retention)) => Turn
    BY DEF Turn
  <2>3. \A t : (\E lock, retention \in plan.locks : CreateBucket(t, lock, retention)) => Turn
    BY DEF Turn
  <2>4. \A t, b : (\E names \in {Name} \cup {{n} : n \in Name}, life \in 1..Ttl :
                      GetDownloadAuthorization(t, b, names, life)) => Turn
    BY DEF Turn
  <2>5. \A t, b : DeleteBucket(t, b) \/ GetUploadUrl(t, b) \/ (\E rules \in RuleLists : SetNotificationRules(t, b, rules)) => Turn
    BY DEF Turn
  <2>6. \A t : (\E k \in KeyIds : DeleteKey(t, k)) => Turn
    BY DEF Turn
  <2>7. /\ Authorize \/ AdvanceTime \/ FlushHooks \/ FlushRound => Turn
        /\ (\E u \in signed : ExpireUploadToken(u) \/ InvalidateUploadToken(u) \/ RefuseUpload(u)) => Turn
        /\ (\E s \in Slot : IssueUploadUrl(s)) => Turn
        /\ (\E d \in granted : RefuseDownload(d)) => Turn
        /\ (\E h \in hooks : HookSettles(h)) => Turn
    BY DEF Turn
  <2> QED
    BY <2>1, <2>2, <2>3, <2>4, <2>5, <2>6, <2>7 DEF AccountNext
<1>2. FileNext => Turn
  BY DEF FileNext, Turn
<1>3. PartnerNext \/ UNCHANGED storageVars => Turn
  BY DEF Turn
<1>4. UNCHANGED vars => Turn
  BY <1>3 DEF vars
<1>5. ReadNext \/ SearchNext => Turn
  BY <1>3, LookingOn
<1> QED
  BY <1>1, <1>2, <1>3, <1>4, <1>5, ContentTurn, CopyTurn, SettingsTurn DEF Next

\* What the partner side does to the storage: it takes ids, and makes keys and buckets.
LEMMA PartnerTurn ==
    ASSUME nextId \in Nat, PartnerNext
    PROVE  /\ UNCHANGED <<plan, now, stored, unfinished, acked, late, tokens, signed, urls, revoked,
                          downloadTokens, expiryHeap, granted, waiting>>
           /\ nextId' \in Nat /\ nextId <= nextId' /\ Live \subseteq Live'
<1> USE PartnerAssumption DEF OtherwiseSame, urlVars, readVars, Take, Live
<1>1. CASE PartnerAuthorize
  BY <1>1 DEF PartnerAuthorize
<1>2. ASSUME NEW p, ListGroups(p) PROVE nextId' \in Nat /\ nextId <= nextId'
  BY <1>2 DEF ListGroups
<1>3. ASSUME NEW p, ProvisionComputers(p) PROVE nextId' \in Nat /\ nextId <= nextId'
  BY <1>3 DEF ProvisionComputers
<1>5. ASSUME NEW p, NEW email, ReserveTrial(p, email)
      PROVE  nextId' \in Nat /\ nextId <= nextId' /\ Live \subseteq Live'
  BY <1>5 DEF ReserveTrial, AddBucket
<1>6. ASSUME NEW p, NEW g, NEW email, CreateGroupMember(p, g, email) PROVE nextId' \in Nat /\ nextId <= nextId'
  BY <1>6 DEF CreateGroupMember
<1> HIDE DEF Take, Live
<1>7. PartnerNext =>
         \/ PartnerAuthorize
         \/ \E p : \/ ListGroups(p) \/ ProvisionComputers(p)
                   \/ \E email : ReserveTrial(p, email) \/ \E g : CreateGroupMember(p, g, email)
         \/ UNCHANGED <<nextId, buckets>>
  <2>1. ASSUME NEW p, NEW c, DeleteComputer(p, c) PROVE UNCHANGED <<nextId, buckets>>
    BY <2>1 DEF DeleteComputer
  <2>2. ASSUME NEW p, NEW g, NEW m, NEW email, EjectGroupMember(p, g, m, email)
        PROVE  UNCHANGED <<nextId, buckets>>
    BY <2>2 DEF EjectGroupMember
  <2>3. ASSUME NEW kind, NEW g, BeginListing(kind, g) PROVE UNCHANGED <<nextId, buckets>>
    BY <2>3 DEF BeginListing
  <2>4. ASSUME NEW size, FetchPage(size) PROVE UNCHANGED <<nextId, buckets>>
    BY <2>4 DEF FetchPage
  <2>5. CursorDeleted => UNCHANGED <<nextId, buckets>>
    BY DEF CursorDeleted
  <2> HIDE DEF OtherwiseSame
  <2> QED
    BY <2>1, <2>2, <2>3, <2>4, <2>5 DEF PartnerNext
<1> HIDE DEF OtherwiseSame
<1>8. \E others : OtherwiseSame(others)
  <2>1. \A p : ListGroups(p) \/ ProvisionComputers(p) => \E others : OtherwiseSame(others)
    BY DEF ListGroups, ProvisionComputers
  <2>2. \A p, c : DeleteComputer(p, c) => \E others : OtherwiseSame(others)
    BY DEF DeleteComputer
  <2>3. \A p, email : ReserveTrial(p, email) => \E others : OtherwiseSame(others)
    BY DEF ReserveTrial
  <2>4. \A p, g, email : CreateGroupMember(p, g, email) => \E others : OtherwiseSame(others)
    BY DEF CreateGroupMember
  <2>5. \A p, g, m, email : EjectGroupMember(p, g, m, email) => \E others : OtherwiseSame(others)
    BY DEF EjectGroupMember
  <2>6. \A kind, g : BeginListing(kind, g) => \E others : OtherwiseSame(others)
    BY DEF BeginListing
  <2>7. \A size : FetchPage(size) => \E others : OtherwiseSame(others)
    BY DEF FetchPage
  <2>8. PartnerAuthorize \/ CursorDeleted => \E others : OtherwiseSame(others)
    BY DEF PartnerAuthorize, CursorDeleted
  <2> QED
    BY <2>1, <2>2, <2>3, <2>4, <2>5, <2>6, <2>7, <2>8 DEF PartnerNext
<1>10. (\E others : OtherwiseSame(others)) =>
         UNCHANGED <<plan, now, stored, unfinished, acked, late, tokens, urlVars, readVars, hookVars, waiting>>
  BY DEF OtherwiseSame
<1>9. (\E p : ListGroups(p) \/ ProvisionComputers(p) \/ \E email, g : CreateGroupMember(p, g, email)) => buckets' = buckets
  BY DEF ListGroups, ProvisionComputers, CreateGroupMember, OtherwiseSame
<1> QED
  BY <1>1, <1>2, <1>3, <1>5, <1>6, <1>7, <1>8, <1>9, <1>10 DEF Live

-----------------------------------------------------------------------------
(* Upload URLs.                                                            *)

\* What a step does to upload URLs unless it is about them: it forgets those that have expired.
NoNewIssue == SlotsInv' /\ \A s \in Slot : waiting'[s].op = "issue" => waiting'[s] = waiting[s]

CalmUrls ==
    /\ plan' = plan /\ now' = now /\ nextId' \in Nat /\ nextId <= nextId'
    /\ UNCHANGED <<signed, revoked>> /\ urls' \in {urls, KeptUrls}
    /\ NoNewIssue

\* No URL is about to be issued that was not before.
LEMMA SameWaiting == ASSUME SlotsInv, plan' = plan, waiting' = waiting PROVE NoNewIssue
BY DEF NoNewIssue, SlotsInv, Slot

LEMMA OtherHandler ==
    ASSUME SlotsInv, plan' = plan, NEW handler, handler.op # "issue", Enter(handler) PROVE NoNewIssue
<1>1. SlotsInv' /\ Slot' = Slot
  BY EnterFrame DEF Slot
<1>2. PICK slot : /\ slot \in Slot => waiting'[slot] = handler
                  /\ \A s \in Slot : s # slot => waiting'[s] = waiting[s]
  BY EnterFrame
<1> QED
  BY <1>1, <1>2 DEF NoNewIssue

LEMMA HandlerGone == ASSUME SlotsInv, plan' = plan, NEW s \in Slot, Leave(s) PROVE NoNewIssue
BY LeaveFrame DEF NoNewIssue, NoHandler

LEMMA Taken == ASSUME nextId \in Nat, NEW n \in Nat, Take(n) PROVE nextId' \in Nat /\ nextId <= nextId'
BY DEF Take

\* Only six actions do more to upload URLs than forget the expired ones.
LEMMA CalmTurn ==
    ASSUME SlotsInv, nextId \in Nat, Turn
    PROVE  \/ CalmUrls
           \/ AdvanceTime
           \/ \E t, k : DeleteKey(t, k)
           \/ \E t, b : GetUploadUrl(t, b)
           \/ \E s \in Slot : IssueUploadUrl(s)
           \/ \E u \in signed : ExpireUploadToken(u) \/ InvalidateUploadToken(u)
<1> USE DEF bucketVars, keyVars, urlVars, readVars, hookVars
<1>1. ASSUME Authorize \/ FlushHooks \/ FlushRound \/ \E h : HookSettles(h) PROVE CalmUrls
  BY <1>1, SameWaiting, Taken DEF CalmUrls, Authorize, FlushHooks, FlushRound, HookSettles
<1>2. ASSUME NEW t, NEW caps, NEW bs, NEW names, NEW expires, CreateKey(t, caps, bs, names, expires)
      PROVE  CalmUrls
  BY <1>2, SameWaiting, Taken DEF CalmUrls, CreateKey
<1>3. ASSUME NEW t, NEW lock, NEW retention, CreateBucket(t, lock, retention) PROVE CalmUrls
  BY <1>3, SameWaiting, Taken DEF CalmUrls, CreateBucket
<1>4. ASSUME NEW t, NEW b, DeleteBucket(t, b) PROVE CalmUrls
  BY <1>4, SameWaiting DEF CalmUrls, DeleteBucket
<1>5. ASSUME NEW t, NEW b, NEW rules, SetNotificationRules(t, b, rules) PROVE CalmUrls
  BY <1>5, SameWaiting DEF CalmUrls, SetNotificationRules
<1>6. ASSUME NEW t, NEW b, NEW guard, NEW lock, NEW retention, UpdateBucket(t, b, guard, lock, retention)
      PROVE  CalmUrls
  BY <1>6, SameWaiting DEF CalmUrls, UpdateBucket
<1>7. ASSUME NEW t, NEW b, NEW names, NEW life, GetDownloadAuthorization(t, b, names, life) PROVE CalmUrls
  BY <1>7, SameWaiting DEF CalmUrls, GetDownloadAuthorization
<1>8. ASSUME NEW u, RefuseUpload(u) PROVE CalmUrls
  BY <1>8, SameWaiting DEF CalmUrls, RefuseUpload
<1>9. ASSUME NEW d, RefuseDownload(d) PROVE CalmUrls
  BY <1>9, SameWaiting DEF CalmUrls, RefuseDownload
<1>10. ASSUME NEW u, NEW name, UploadFile(u, name) PROVE CalmUrls
  BY <1>10, OtherHandler DEF CalmUrls, UploadFile
<1>11. ASSUME NEW t, NEW f, NEW b, NEW name, CopyFile(t, f, b, name) PROVE CalmUrls
  BY <1>11, OtherHandler DEF CalmUrls, CopyFile
<1>12. ASSUME NEW t, NEW b, NEW name, StartLargeFile(t, b, name) PROVE CalmUrls
  BY <1>12, OtherHandler, Taken DEF CalmUrls, StartLargeFile
<1>13. ASSUME NEW t, NEW b, NEW name, HideFile(t, b, name) PROVE CalmUrls
  BY <1>13, SameWaiting, Taken DEF CalmUrls, HideFile
<1>14. ASSUME NEW t, NEW f, FinishLargeFile(t, f) PROVE CalmUrls
  BY <1>14, SameWaiting, Taken DEF CalmUrls, FinishLargeFile
<1>15. ASSUME NEW t, NEW f, CancelLargeFile(t, f) \/ DeleteFileVersion(t, f) PROVE CalmUrls
  BY <1>15, SameWaiting DEF CalmUrls, CancelLargeFile, DeleteFileVersion
<1>16. ASSUME NEW s \in Slot, StoreFile(s) PROVE CalmUrls
  BY <1>16, HandlerGone, Taken DEF CalmUrls, StoreFile
<1>17. ASSUME NEW s \in Slot, AddLargeFile(s) PROVE CalmUrls
  BY <1>17, HandlerGone DEF CalmUrls, AddLargeFile
<1>18. ASSUME NEW s \in Slot, Leave(s), SameStorage PROVE CalmUrls
  BY <1>18, HandlerGone DEF CalmUrls, SameStorage
<1>19. ASSUME NEW handler, handler.op = "part", Enter(handler), SameStorage PROVE CalmUrls
  BY <1>19, OtherHandler DEF CalmUrls, SameStorage
<1>20. ASSUME PartnerNext PROVE CalmUrls
  BY <1>20, PartnerTurn, SameWaiting DEF CalmUrls
<1>21. ASSUME UNCHANGED storageVars PROVE CalmUrls
  BY <1>21, SameWaiting DEF CalmUrls, storageVars
<1> QED
  BY <1>1, <1>2, <1>3, <1>4, <1>5, <1>6, <1>7, <1>8, <1>9, <1>10, <1>11, <1>12, <1>13, <1>14, <1>15, <1>16, <1>17,
     <1>18, <1>19, <1>20, <1>21 DEF Turn

\* What is remembered of an upload URL: its token, whatever was done to it, until the token expires.
Entry(e) ==
    /\ e = [key |-> e.key, expires |-> e.expires, cleanup |-> e.cleanup, invalid |-> e.invalid]
    /\ e.expires \in Int /\ e.cleanup \in Nat /\ e.invalid \in BOOLEAN

\* What the simulator remembers of a URL is what its token says and what was done to it.
Remembered(u) ==
    LET e == urls[u.id]
    IN  IF u.id \in DOMAIN urls
        THEN /\ e.key = u.key /\ e.cleanup = u.expires
             /\ IF u.id \in revoked THEN e.invalid \/ e.expires <= now
                ELSE e.expires = u.expires /\ ~ e.invalid
        ELSE u.expires <= now

\* A URL is issued once, under an id nothing else has.
FreshUrl(u) == u.id \in Nat /\ u.id < nextId /\ u.expires \in Nat

ClockInv == now \in Nat /\ nextId \in Nat

\* The URLs that were issued and those that are about to be.
IssueInv ==
    /\ \A u \in signed : FreshUrl(u)
    /\ \A u, v \in signed : u.id = v.id => u = v
    /\ \A s \in Slot : waiting[s].op = "issue" =>
           FreshUrl(waiting[s].url) /\ \A u \in signed : u.id # waiting[s].url.id
    /\ \A s, x \in Slot :
           waiting[s].op = "issue" /\ waiting[x].op = "issue" /\ s # x => waiting[s].url.id # waiting[x].url.id
    /\ revoked \subseteq {u.id : u \in signed}

\* What is remembered of them.
MemoryInv ==
    /\ urls = [i \in DOMAIN urls |-> urls[i]]
    /\ \A i \in DOMAIN urls : Entry(urls[i])
    /\ \A u \in signed : Remembered(u)

\* The invariant of upload URLs.
UrlInv == ClockInv /\ SlotsInv /\ IssueInv /\ MemoryInv

\* Forgetting the URLs whose token has expired changes nothing about the others.
LEMMA KeptAreRemembered ==
    ASSUME ClockInv, \A u \in signed : FreshUrl(u), MemoryInv, now' = now, signed' = signed, revoked' = revoked,
           urls' = KeptUrls
    PROVE  MemoryInv'
<1>1. urls' = [i \in DOMAIN urls' |-> urls'[i]]
  BY DEF KeptUrls
<1>2. \A i \in DOMAIN urls' : i \in DOMAIN urls /\ urls'[i] = urls[i] /\ now < urls[i].cleanup
  BY DEF KeptUrls
<1>3. \A i \in DOMAIN urls' : Entry(urls'[i])
  BY <1>2 DEF MemoryInv
<1>4. ASSUME NEW u \in signed PROVE Remembered(u)'
  <2>1. Remembered(u) /\ u.expires \in Nat /\ now \in Nat
    BY DEF MemoryInv, ClockInv, FreshUrl
  <2>2. CASE u.id \in DOMAIN urls'
    BY <1>2, <2>1, <2>2 DEF Remembered
  <2>3. CASE u.id \in DOMAIN urls /\ u.id \notin DOMAIN urls'
    <3>1. ~ (now < urls[u.id].cleanup)
      BY <2>3 DEF KeptUrls
    <3> QED
      BY <2>1, <2>3, <3>1 DEF Remembered
  <2>4. CASE u.id \notin DOMAIN urls
    BY <1>2, <2>1, <2>4 DEF Remembered
  <2> QED
    BY <2>2, <2>3, <2>4
<1> QED
  BY <1>1, <1>3, <1>4 DEF MemoryInv

\* What is remembered stays when nothing is done to it.
LEMMA SameMemory ==
    ASSUME MemoryInv, now' = now, UNCHANGED <<signed, urls, revoked>> PROVE MemoryInv'
BY DEF MemoryInv, Remembered

\* The steps that are not about upload URLs keep the invariant; the six others do, one by one.
LEMMA CalmKeepsUrlInv == ASSUME UrlInv, CalmUrls PROVE UrlInv'
<1>1. ClockInv' /\ SlotsInv'
  BY DEF UrlInv, ClockInv, CalmUrls, NoNewIssue
<1>2. IssueInv'
  <2>1. /\ Slot' = Slot /\ nextId <= nextId' /\ nextId \in Nat /\ nextId' \in Nat /\ UNCHANGED <<signed, revoked>>
        /\ \A s \in Slot : waiting'[s].op = "issue" => waiting'[s] = waiting[s]
    BY DEF UrlInv, ClockInv, CalmUrls, NoNewIssue, Slot
  <2>2. \A u : FreshUrl(u) => FreshUrl(u)'
    BY <2>1 DEF FreshUrl
  <2> QED
    BY <2>1, <2>2 DEF UrlInv, IssueInv
<1>3. MemoryInv'
  BY KeptAreRemembered, SameMemory DEF UrlInv, IssueInv, CalmUrls
<1> QED
  BY <1>1, <1>2, <1>3 DEF UrlInv

LEMMA TickKeepsUrlInv == ASSUME UrlInv, AdvanceTime PROVE UrlInv'
<1>1. now' = now + 1 /\ UNCHANGED <<plan, nextId, signed, urls, revoked, waiting>>
  BY DEF AdvanceTime, urlVars
<1>4. ClockInv' /\ SlotsInv' /\ Slot' = Slot
  BY <1>1 DEF UrlInv, ClockInv, SlotsInv, Slot
<1>2. IssueInv'
  <2>1. \A u : FreshUrl(u)' <=> FreshUrl(u)
    BY <1>1 DEF FreshUrl
  <2> QED
    BY <1>1, <1>4, <2>1 DEF UrlInv, IssueInv
<1>3. ASSUME NEW u \in signed PROVE Remembered(u)'
  <2>1. Remembered(u) /\ u.expires \in Nat /\ now \in Nat /\ (u.id \in DOMAIN urls => urls[u.id].expires \in Int)
    BY DEF UrlInv, MemoryInv, ClockInv, IssueInv, FreshUrl, Entry
  <2> QED
    BY <1>1, <2>1 DEF Remembered
<1> QED
  BY <1>1, <1>2, <1>3, <1>4 DEF UrlInv, MemoryInv

LEMMA DeleteKeyKeepsUrlInv == ASSUME UrlInv, NEW t, NEW k, DeleteKey(t, k) PROVE UrlInv'
<1>1. /\ UNCHANGED <<plan, now, nextId, signed, waiting>> /\ urls' = UrlsWithout(k)
      /\ revoked' = revoked \cup {u.id : u \in {x \in signed : x.key = k}}
  BY DEF DeleteKey
<1>2. ClockInv' /\ SlotsInv' /\ IssueInv'
  <2>1. revoked' \subseteq {u.id : u \in signed'}
    BY <1>1 DEF UrlInv, IssueInv
  <2> QED
    BY <1>1, <2>1 DEF UrlInv, ClockInv, SlotsInv, IssueInv, Slot, FreshUrl
<1>3. DOMAIN urls' = DOMAIN urls /\ urls' = [i \in DOMAIN urls' |-> urls'[i]]
  BY <1>1 DEF UrlsWithout
<1>4. ASSUME NEW i \in DOMAIN urls
      PROVE  /\ urls'[i].key = urls[i].key /\ urls'[i].cleanup = urls[i].cleanup
             /\ urls'[i].expires = urls[i].expires /\ urls'[i].invalid = (urls[i].invalid \/ urls[i].key = k)
             /\ Entry(urls'[i])
  <2>1. Entry(urls[i])
    BY DEF UrlInv, MemoryInv
  <2>2. urls'[i] = [urls[i] EXCEPT !.invalid = @ \/ urls[i].key = k]
    BY <1>1 DEF UrlsWithout
  <2>3. urls'[i] = [key |-> urls[i].key, expires |-> urls[i].expires, cleanup |-> urls[i].cleanup,
                    invalid |-> urls[i].invalid \/ urls[i].key = k]
    BY <2>1, <2>2 DEF Entry
  <2> QED
    BY <2>1, <2>3 DEF Entry
<1>5. ASSUME NEW u \in signed PROVE Remembered(u)'
  <2>1. Remembered(u) /\ (u.id \in revoked' <=> u.id \in revoked \/ u.key = k)
    BY <1>1 DEF UrlInv, MemoryInv, IssueInv
  <2> QED
    BY <1>1, <1>3, <1>4, <2>1 DEF Remembered
<1> QED
  BY <1>1, <1>2, <1>3, <1>4, <1>5 DEF UrlInv, MemoryInv

\* A URL is spent: its entry says so.
LEMMA SpentKeepsUrlInv ==
    ASSUME UrlInv, NEW u \in signed, ExpireUploadToken(u) \/ InvalidateUploadToken(u) PROVE UrlInv'
<1>1. /\ UNCHANGED <<plan, now, nextId, signed, waiting>> /\ revoked' = revoked \cup {u.id}
      /\ u.id \in DOMAIN urls /\ now < urls[u.id].cleanup
  BY DEF ExpireUploadToken, InvalidateUploadToken
<1>2. ClockInv' /\ SlotsInv' /\ IssueInv'
  BY <1>1 DEF UrlInv, ClockInv, SlotsInv, IssueInv, Slot, FreshUrl
<1>3. CASE ExpireUploadToken(u)
  <2>1. urls' = [urls EXCEPT ![u.id].expires = now - 1]
    BY <1>3 DEF ExpireUploadToken
  <2>2. DOMAIN urls' = DOMAIN urls /\ urls' = [i \in DOMAIN urls' |-> urls'[i]]
    BY <2>1 DEF UrlInv, MemoryInv
  <2>3. \A i \in DOMAIN urls : i # u.id => urls'[i] = urls[i]
    BY <2>1 DEF UrlInv, MemoryInv
  <2>4. /\ Entry(urls[u.id])
        /\ urls'[u.id] = [key |-> urls[u.id].key, expires |-> now - 1, cleanup |-> urls[u.id].cleanup,
                          invalid |-> urls[u.id].invalid]
    <3>1. Entry(urls[u.id])
      BY <1>1 DEF UrlInv, MemoryInv
    <3>2. urls'[u.id] = [urls[u.id] EXCEPT !.expires = now - 1]
      BY <1>1, <2>1 DEF UrlInv, MemoryInv
    <3> QED
      BY <3>1, <3>2 DEF Entry
  <2>5. now \in Nat
    BY DEF UrlInv, ClockInv
  <2>6. ASSUME NEW i \in DOMAIN urls PROVE Entry(urls'[i])
    BY <2>3, <2>4, <2>5 DEF UrlInv, MemoryInv, Entry
  <2>7. ASSUME NEW v \in signed PROVE Remembered(v)'
    <3>1. Remembered(v)
      BY DEF UrlInv, MemoryInv
    <3>2. CASE v.id = u.id
      BY <1>1, <2>2, <2>4, <2>5, <3>1, <3>2 DEF Remembered
    <3>3. CASE v.id # u.id
      BY <1>1, <2>2, <2>3, <3>1, <3>3 DEF Remembered
    <3> QED
      BY <3>2, <3>3
  <2> QED
    BY <1>1, <1>2, <2>2, <2>6, <2>7 DEF UrlInv, MemoryInv
<1>4. CASE InvalidateUploadToken(u)
  <2>1. urls' = [i \in DOMAIN KeptUrls |-> [urls[i] EXCEPT !.invalid = @ \/ i = u.id]]
    BY <1>4 DEF InvalidateUploadToken
  <2>2. /\ DOMAIN urls' = {i \in DOMAIN urls : now < urls[i].cleanup}
        /\ urls' = [i \in DOMAIN urls' |-> urls'[i]]
    BY <2>1 DEF KeptUrls
  <2>3. ASSUME NEW i \in DOMAIN urls'
        PROVE  /\ Entry(urls'[i]) /\ urls'[i].key = urls[i].key /\ urls'[i].cleanup = urls[i].cleanup
               /\ urls'[i].expires = urls[i].expires /\ urls'[i].invalid = (urls[i].invalid \/ i = u.id)
    <3>1. Entry(urls[i])
      BY <2>2 DEF UrlInv, MemoryInv
    <3>2. urls'[i] = [urls[i] EXCEPT !.invalid = @ \/ i = u.id]
      BY <2>1
    <3>3. urls'[i] = [key |-> urls[i].key, expires |-> urls[i].expires, cleanup |-> urls[i].cleanup,
                      invalid |-> urls[i].invalid \/ i = u.id]
      BY <3>1, <3>2 DEF Entry
    <3> QED
      BY <3>1, <3>3 DEF Entry
  <2>4. ASSUME NEW v \in signed PROVE Remembered(v)'
    <3>1. Remembered(v) /\ v.expires \in Nat /\ now \in Nat
      BY DEF UrlInv, MemoryInv, ClockInv, IssueInv, FreshUrl
    <3>2. CASE v.id \in DOMAIN urls'
      BY <1>1, <2>2, <2>3, <3>1, <3>2 DEF Remembered
    <3>3. CASE v.id \in DOMAIN urls /\ v.id \notin DOMAIN urls'
      BY <1>1, <2>2, <3>1, <3>3 DEF Remembered
    <3>4. CASE v.id \notin DOMAIN urls
      BY <1>1, <2>2, <3>1, <3>4 DEF Remembered
    <3> QED
      BY <3>2, <3>3, <3>4
  <2> QED
    BY <1>1, <1>2, <2>2, <2>3, <2>4 DEF UrlInv, MemoryInv
<1> QED
  BY <1>3, <1>4

\* getUploadUrl takes an id nobody has, and nobody but its handler has the URL.
LEMMA GetKeepsUrlInv == ASSUME UrlInv, NEW t, NEW b, GetUploadUrl(t, b) PROVE UrlInv'
<1>0. PICK url : url = [id |-> nextId, bucket |-> b, names |-> t.names, key |-> t.key, expires |-> now + Ttl]
  OBVIOUS
<1>10. PICK handler : handler = [op |-> "issue", url |-> url]
  OBVIOUS
<1>1. /\ UNCHANGED <<plan, now, signed, revoked>> /\ urls' = KeptUrls /\ nextId' = nextId + 1
      /\ Enter(handler)
  BY <1>0, <1>10 DEF GetUploadUrl, Take, ClockInv, UrlInv
<1>2. ClockInv' /\ Slot' = Slot
  BY <1>1 DEF UrlInv, ClockInv, Slot
<1>3. url.id = nextId /\ url.expires \in Nat /\ handler.url = url
  BY <1>0, <1>10, ServiceAssumption DEF UrlInv, ClockInv
<1>4. PICK slot : /\ slot \in Slot => waiting'[slot] = handler
                  /\ \A s \in Slot : s # slot => waiting'[s] = waiting[s]
  BY <1>1, EnterFrame DEF UrlInv
<1>5. SlotsInv'
  BY <1>1, EnterFrame DEF UrlInv
<1>6. \A u : FreshUrl(u) => FreshUrl(u)' /\ u.id # url.id
  BY <1>1, <1>3 DEF FreshUrl, UrlInv, ClockInv
<1>7. FreshUrl(url)'
  BY <1>1, <1>3 DEF FreshUrl, UrlInv, ClockInv
<1>8. IssueInv'
  <2>1. \A u \in signed' : FreshUrl(u)'
    BY <1>1, <1>6 DEF UrlInv, IssueInv
  <2>2. ASSUME NEW s \in Slot, waiting'[s].op = "issue"
        PROVE  FreshUrl(waiting[s].url)' /\ \A u \in signed : u.id # waiting'[s].url.id
    <3>1. /\ \A u \in signed : FreshUrl(u)
          /\ \A x \in Slot : waiting[x].op = "issue" =>
                FreshUrl(waiting[x].url) /\ \A u \in signed : u.id # waiting[x].url.id
      BY DEF UrlInv, IssueInv
    <3>2. CASE s = slot
      <4>1. waiting'[s].url = url
        BY <1>3, <1>4, <3>2
      <4> QED
        BY <1>6, <1>7, <3>1, <4>1 DEF FreshUrl
    <3>3. CASE s # slot
      <4>1. waiting'[s] = waiting[s]
        BY <1>4, <3>3
      <4> QED
        BY <1>6, <2>2, <3>1, <4>1 DEF FreshUrl
    <3> QED
      BY <3>2, <3>3
  <2>3. ASSUME NEW s \in Slot, NEW x \in Slot, waiting'[s].op = "issue", waiting'[x].op = "issue", s # x
        PROVE  waiting'[s].url.id # waiting'[x].url.id
    <3>1. \A y \in Slot : y # slot /\ waiting'[y].op = "issue" =>
              FreshUrl(waiting[y].url) /\ waiting'[y] = waiting[y]
      BY <1>4 DEF UrlInv, IssueInv
    <3>2. \A y \in Slot : y = slot => waiting'[y].url = url
      BY <1>3, <1>4
    <3>3. CASE s = slot
      BY <1>6, <2>3, <3>1, <3>2, <3>3
    <3>4. CASE x = slot
      BY <1>6, <2>3, <3>1, <3>2, <3>4
    <3>5. CASE s # slot /\ x # slot
      BY <2>3, <3>1, <3>5 DEF UrlInv, IssueInv
    <3> QED
      BY <3>3, <3>4, <3>5
  <2>4. \A u, v \in signed : u.id = v.id => u = v
    BY DEF UrlInv, IssueInv
  <2>5. revoked' \subseteq {u.id : u \in signed'}
    BY <1>1 DEF UrlInv, IssueInv
  <2> QED
    BY <1>1, <1>2, <2>1, <2>2, <2>3, <2>4, <2>5 DEF IssueInv
<1>9. MemoryInv'
  BY <1>1, KeptAreRemembered DEF UrlInv, IssueInv
<1> QED
  BY <1>2, <1>5, <1>8, <1>9 DEF UrlInv

LEMMA IssueKeepsUrlInv == ASSUME UrlInv, NEW s \in Slot, IssueUploadUrl(s) PROVE UrlInv'
<1>0. PICK url : url = waiting[s].url
  OBVIOUS
<1>7. PICK entry : entry = [key |-> url.key, expires |-> url.expires, cleanup |-> url.expires, invalid |-> FALSE]
  OBVIOUS
<1>1. /\ UNCHANGED <<plan, now, nextId, revoked>> /\ signed' = signed \cup {url}
      /\ urls' = [i \in DOMAIN urls \cup {url.id} |-> IF i = url.id THEN entry ELSE urls[i]]
      /\ Leave(s) /\ waiting[s].op = "issue"
  BY <1>0, <1>7 DEF IssueUploadUrl
<1>2. ClockInv' /\ Slot' = Slot
  BY <1>1 DEF UrlInv, ClockInv, Slot
<1>3. FreshUrl(url) /\ (\A u \in signed : u.id # url.id) /\ url.id \notin revoked
  BY <1>0, <1>1 DEF UrlInv, IssueInv
<1>4. /\ SlotsInv' /\ waiting' = [x \in Slot |-> IF x = s THEN NoHandler ELSE waiting[x]]
  BY <1>1, LeaveFrame DEF UrlInv
<1>5. IssueInv'
  <2>1. \A x \in Slot : waiting'[x].op = "issue" => x # s /\ waiting'[x] = waiting[x]
    BY <1>4 DEF NoHandler
  <2>2. \A u : FreshUrl(u)' <=> FreshUrl(u)
    BY <1>1 DEF FreshUrl
  <2>3. \A x \in Slot : waiting'[x].op = "issue" => waiting[x].url.id # url.id
    BY <1>0, <1>1, <2>1 DEF UrlInv, IssueInv
  <2> QED
    BY <1>1, <1>2, <1>3, <2>1, <2>2, <2>3 DEF UrlInv, IssueInv
<1>6. MemoryInv'
  <2>1. Entry(entry) /\ entry.key = url.key /\ entry.cleanup = url.expires /\ entry.expires = url.expires
        /\ ~ entry.invalid
    BY <1>3, <1>7 DEF Entry, FreshUrl
  <2>2. \A i \in DOMAIN urls' : Entry(urls'[i])
    BY <1>1, <2>1 DEF UrlInv, MemoryInv
  <2>3. Remembered(url)'
    BY <1>1, <1>3, <2>1 DEF Remembered
  <2>4. ASSUME NEW u \in signed PROVE Remembered(u)'
    <3>1. u.id # url.id /\ Remembered(u)
      BY <1>3 DEF UrlInv, MemoryInv
    <3> QED
      BY <1>1, <3>1 DEF Remembered
  <2> QED
    BY <1>1, <2>2, <2>3, <2>4 DEF MemoryInv
<1> QED
  BY <1>2, <1>4, <1>5, <1>6 DEF UrlInv

\* Every turn keeps it.
LEMMA UrlStep == ASSUME UrlInv, Turn PROVE UrlInv'
<1>1. SlotsInv /\ nextId \in Nat
  BY DEF UrlInv, ClockInv
<1> QED
  BY <1>1, CalmTurn, CalmKeepsUrlInv, TickKeepsUrlInv, DeleteKeyKeepsUrlInv, GetKeepsUrlInv,
     IssueKeepsUrlInv, SpentKeepsUrlInv

-----------------------------------------------------------------------------
(* Download authorizations.                                                *)

\* A download authorization that is given is known, and in the heap, until it expires.
ShareInv ==
    /\ \A d \in granted : d.expires \in Int
    /\ \A d \in granted : now < d.expires => d \in downloadTokens

\* Only what has expired is purged.
LEMMA PurgedAreDue == ASSUME NEW batch \in PurgeBatches PROVE \A d \in batch : d.expires <= now
BY DEF PurgeBatches, DueBy

\* Whatever else is done, the download authorizations and the clock stay.
LEMMA ShareTurn ==
    ASSUME nextId \in Nat, Turn
    PROVE  \/ UNCHANGED <<now, downloadTokens, granted>>
           \/ AdvanceTime
           \/ \E t, b, names : \E life \in 1..Ttl : GetDownloadAuthorization(t, b, names, life)
           \/ \E d : RefuseDownload(d)
<1>1. PartnerNext => UNCHANGED <<now, downloadTokens, granted>>
  BY PartnerTurn
<1> HIDE DEF PartnerNext
<1> QED
  BY <1>1, ZenonT(60) DEF Turn, readVars, SameStorage, storageVars, Authorize, FlushHooks, FlushRound, CreateKey, DeleteKey,
     CreateBucket, UpdateBucket, SetNotificationRules, DeleteBucket, GetUploadUrl, ExpireUploadToken,
     InvalidateUploadToken, RefuseUpload, HookSettles, UploadFile, CopyFile, StartLargeFile, HideFile,
     FinishLargeFile, CancelLargeFile, DeleteFileVersion, IssueUploadUrl, StoreFile, AddLargeFile

\* Every turn keeps the download authorizations.
LEMMA ShareStep == ASSUME ClockInv, ShareInv, Turn PROVE ShareInv'
<1>1. ASSUME NEW t, NEW b, NEW names, NEW life \in 1..Ttl, GetDownloadAuthorization(t, b, names, life) PROVE ShareInv'
  <2>1. PICK batch, d :
          /\ batch \in PurgeBatches
          /\ d.expires = now + life /\ now' = now
          /\ downloadTokens' = (downloadTokens \ batch) \cup {d} /\ granted' = granted \cup {d}
    BY <1>1 DEF GetDownloadAuthorization
  <2> QED
    BY <2>1, PurgedAreDue, ServiceAssumption DEF ShareInv, ClockInv
<1>2. ASSUME NEW d, RefuseDownload(d) PROVE ShareInv'
  <2>1. PICK batch \in PurgeBatches :
          downloadTokens' = downloadTokens \ (batch \cup {d}) /\ granted' = granted /\ now' = now
    BY <1>2 DEF RefuseDownload
  <2> QED
    BY <1>2, <2>1, PurgedAreDue DEF RefuseDownload, ShareInv, ClockInv
<1>3. CASE AdvanceTime
  BY <1>3 DEF AdvanceTime, ShareInv, ClockInv, readVars
<1>4. CASE UNCHANGED <<now, downloadTokens, granted>>
  BY <1>4 DEF ShareInv
<1> QED
  BY <1>1, <1>2, <1>3, <1>4, ShareTurn DEF ClockInv

\* At the start nothing was handed out.
LEMMA GrantsInit == Init => UrlInv /\ ShareInv
<1> SUFFICES ASSUME Init PROVE UrlInv /\ ShareInv
  OBVIOUS
<1>1. /\ now = 1 /\ nextId = 1 /\ signed = {} /\ urls = <<>> /\ revoked = {} /\ granted = {}
      /\ waiting = [s \in Slot |-> NoHandler]
  BY DEF Init, ServiceInit
<1>2. DOMAIN urls = {}
  BY <1>1
<1>3. SlotsInv /\ \A s \in Slot : waiting[s].op # "issue"
  BY <1>1 DEF SlotsInv, NoHandler
<1> QED
  BY <1>1, <1>2, <1>3 DEF UrlInv, ClockInv, IssueInv, MemoryInv, ShareInv

\* What is remembered of a URL decides about it as its token and history would.
LEMMA RememberedIsExact ==
    ASSUME UrlInv, NEW u \in signed PROVE UrlAccepted(u) <=> now < u.expires /\ u.id \notin revoked
<1>1. Remembered(u) /\ now \in Nat /\ u.expires \in Nat
  BY DEF UrlInv, MemoryInv, ClockInv, IssueInv, FreshUrl
<1>2. CASE u.id \in DOMAIN urls
  <2>1. Entry(urls[u.id])
    BY <1>2 DEF UrlInv, MemoryInv
  <2> QED
    BY <1>1, <1>2, <2>1 DEF Remembered, UrlAccepted, UrlState, Entry
<1>3. CASE u.id \notin DOMAIN urls
  BY <1>1, <1>3 DEF Remembered, UrlAccepted, UrlState
<1> QED
  BY <1>2, <1>3

\* Upload URLs are accepted exactly until they expire or are revoked, whatever the simulator has
\* forgotten of them, and no download authorization is purged early (uploadTokenState,
\* pruneExpiredUploadTokens and purgeExpiredDownloadAuthorizationTokens in simulator/index.ts).
THEOREM GrantsStayExact == Spec => []GrantsAreExact
<1>1. UrlInv /\ ShareInv /\ [Next]_vars => UrlInv' /\ ShareInv'
  BY TurnStep, UrlStep, ShareStep DEF UrlInv
<1>2. UrlInv /\ ShareInv => GrantsAreExact
  BY RememberedIsExact DEF GrantsAreExact, ShareInv
<1> QED
  BY <1>1, <1>2, GrantsInit, PTL DEF Spec

-----------------------------------------------------------------------------
(* What was answered 200.                                                  *)

\* What leaves the files and their buckets alone, but for more buckets.
FilesStand == UNCHANGED <<stored, unfinished, acked, late>> /\ Live \subseteq Live'

\* Six actions do something to files or take a bucket away.
LEMMA StandingTurn ==
    ASSUME nextId \in Nat, Turn
    PROVE  \/ FilesStand
           \/ \E t, b : DeleteBucket(t, b)
           \/ \E t, b, name : HideFile(t, b, name)
           \/ \E t, f : FinishLargeFile(t, f) \/ CancelLargeFile(t, f) \/ DeleteFileVersion(t, f)
           \/ \E s \in Slot : StoreFile(s) \/ AddLargeFile(s)
<1>1. PartnerNext => FilesStand
  BY PartnerTurn DEF FilesStand
<1>2. ASSUME NEW t, NEW lock, NEW retention, CreateBucket(t, lock, retention) PROVE FilesStand
  BY <1>2 DEF CreateBucket, AddBucket, FilesStand, Live
<1>3. ASSUME NEW t, NEW b, NEW guard, NEW lock, NEW retention, UpdateBucket(t, b, guard, lock, retention)
      PROVE  FilesStand
  BY <1>3 DEF UpdateBucket, FilesStand, Live
<1>4. ASSUME NEW t, NEW b, NEW rules, SetNotificationRules(t, b, rules) PROVE FilesStand
  BY <1>4 DEF SetNotificationRules, FilesStand, Live, bucketVars
<1>5. bucketVars' = bucketVars => FilesStand
  BY DEF bucketVars, FilesStand, Live
<1> HIDE DEF PartnerNext
<1>6. ASSUME \/ Authorize \/ AdvanceTime \/ FlushHooks \/ FlushRound
             \/ \E t, caps, bs, names, expires : CreateKey(t, caps, bs, names, expires)
             \/ \E t, k : DeleteKey(t, k)
             \/ \E t, b : GetUploadUrl(t, b)
             \/ \E t, b, names, life : GetDownloadAuthorization(t, b, names, life)
             \/ \E u : ExpireUploadToken(u) \/ InvalidateUploadToken(u) \/ RefuseUpload(u)
             \/ \E d : RefuseDownload(d)
             \/ \E h : HookSettles(h)
             \/ \E u, name : UploadFile(u, name)
             \/ \E t, f, b, name : CopyFile(t, f, b, name)
             \/ \E t, b, name : StartLargeFile(t, b, name)
             \/ \E s : IssueUploadUrl(s)
             \/ SameStorage \/ UNCHANGED storageVars
      PROVE  bucketVars' = bucketVars
  BY <1>6 DEF SameStorage, storageVars, Authorize, AdvanceTime, FlushHooks, FlushRound, CreateKey, DeleteKey,
     GetUploadUrl, ExpireUploadToken, GetDownloadAuthorization, RefuseDownload,
     InvalidateUploadToken, RefuseUpload, HookSettles, UploadFile, CopyFile, StartLargeFile, IssueUploadUrl
<1> QED
  BY <1>1, <1>2, <1>3, <1>4, <1>5, <1>6 DEF Turn

\* Each of them keeps what was answered.
LEMMA KeptStep == ASSUME nextId \in Nat, NothingLost, Turn PROVE NothingLost'
<1>1. ASSUME NEW t, NEW b, DeleteBucket(t, b) PROVE NothingLost'
  <2>1. /\ UNCHANGED <<unfinished, acked, late>> /\ Live' = Live \ {b}
        /\ stored' = {f \in stored : f.bucket # b} /\ \A f \in stored \cup unfinished : f.bucket # b
    BY <1>1 DEF DeleteBucket, HasContents, Live
  <2> QED
    BY <2>1 DEF NothingLost
<1>2. ASSUME NEW t, NEW b, NEW name, HideFile(t, b, name) PROVE NothingLost'
  BY <1>2 DEF HideFile, File, NothingLost, Live
<1>3. ASSUME NEW t, NEW f, FinishLargeFile(t, f) PROVE NothingLost'
  <2>1. PICK file : file = File(nextId, f.bucket, f.name)
    OBVIOUS
  <2>2. /\ stored' = stored \cup {file} /\ acked' = (acked \ {f}) \cup {file} /\ unfinished' = unfinished \ {f}
        /\ late' = late /\ Live' = Live /\ file.bucket \in Live
    BY <1>3, <2>1 DEF FinishLargeFile, File, Live
  <2> QED
    BY <2>2 DEF NothingLost
<1>4. ASSUME NEW t, NEW f, CancelLargeFile(t, f) \/ DeleteFileVersion(t, f) PROVE NothingLost'
  BY <1>4 DEF CancelLargeFile, DeleteFileVersion, NothingLost, Live
<1>5. ASSUME NEW s \in Slot, StoreFile(s) PROVE NothingLost'
  <2>1. PICK file : file = File(nextId, waiting[s].bucket, waiting[s].name)
    OBVIOUS
  <2>2. /\ stored' = IF file.bucket \in Live THEN stored \cup {file} ELSE stored
        /\ acked' = acked \cup {file} /\ late' = (IF file.bucket \in Live THEN late ELSE late \cup {file.id})
        /\ unfinished' = unfinished /\ Live' = Live
    BY <1>5, <2>1 DEF StoreFile, LateAfter, Live
  <2> QED
    BY <2>2 DEF NothingLost
<1>6. ASSUME NEW s \in Slot, AddLargeFile(s) PROVE NothingLost'
  <2>1. PICK file : file = waiting[s].file
    OBVIOUS
  <2>2. /\ unfinished' = unfinished \cup {file}
        /\ acked' = acked \cup {file} /\ late' = (IF file.bucket \in Live THEN late ELSE late \cup {file.id})
        /\ stored' = stored /\ Live' = Live
    BY <1>6, <2>1 DEF AddLargeFile, LateAfter, Live
  <2> QED
    BY <2>2 DEF NothingLost
<1>7. CASE FilesStand
  BY <1>7 DEF FilesStand, NothingLost
<1> QED
  BY <1>1, <1>2, <1>3, <1>4, <1>5, <1>6, <1>7, StandingTurn

\* What was answered 200 is there until it is deleted, cancelled or finished, in a bucket that is
\* there too, unless the bucket went while its handler waited (deleteBucket, handleUploadFile,
\* copyFile, startLargeFile and finishLargeFile in simulator/index.ts).
THEOREM NothingIsLost == Spec => []NothingLost
<1>1. Init => NothingLost /\ UrlInv
  BY GrantsInit DEF Init, ServiceInit, NothingLost
<1>2. NothingLost /\ UrlInv /\ [Next]_vars => NothingLost' /\ UrlInv'
  BY TurnStep, KeptStep, UrlStep DEF UrlInv, ClockInv
<1> QED
  BY <1>1, <1>2, PTL DEF Spec

-----------------------------------------------------------------------------
(* The partner side.                                                       *)

\* Every account has an id of its own.
AccountsInv ==
    /\ IsFiniteSet(members)
    /\ \A m \in members :
          /\ m = [account |-> m.account, email |-> m.email, group |-> m.group, key |-> m.key, ejected |-> m.ejected]
          /\ m.account \in Nat /\ m.account < nextId /\ m.email.address \in Nat
    /\ \A m, n \in members : m.account = n.account => m = n
    /\ \A a \in trials : a.account \in Nat /\ a.account < nextId /\ \A m \in members : a.account # m.account

\* The computers of the account.
ComputersInv ==
    /\ IsFiniteSet(computers)
    /\ \A c \in computers : c = [id |-> c.id, deleted |-> c.deleted] /\ c.id \in Nat
    /\ \A c, d \in computers : c.id = d.id => c = d

\* Who is to be listed was, or is in a row that is still to come.
ListingInv ==
    LET l == client.listing
    IN  /\ client = [auth |-> client.auth, listing |-> l]
        /\ l = [kind |-> l.kind, phase |-> l.phase, group |-> l.group, cursor |-> l.cursor, seen |-> l.seen,
                stay |-> l.stay]
        /\ l.phase = "paging" =>
              \A x \in l.stay : x \in l.seen \/ \E r \in ListedRows(l) : r.item = x /\ l.cursor <= r.rank

\* The invariant of the partner side.
PartnerInv == AccountsInv /\ AccountsAgree /\ ComputersInv /\ ListingInv /\ ListingMissesNobody

\* The rows a row comes after.
Before(r, rows) == {x \in rows : x.rank < r.rank}

\* Some row of a finite set has the smallest rank.
LEMMA LeastRow ==
    ASSUME NEW rows, IsFiniteSet(rows), rows # {}, \A r \in rows : r.rank \in Nat
    PROVE  \E least \in rows : \A r \in rows : least.rank <= r.rank
<1>1. PICK T : T = {Before(r, rows) : r \in rows}
  OBVIOUS
<1>2. T # {} /\ \A D \in T : D \subseteq rows
  BY <1>1 DEF Before
<1>3. T \subseteq FiniteSubsetsOf(rows)
  BY <1>2, FS_FiniteSubsetsOfFinite
<1>4. PICK D \in T : \A E \in T : <<E, D>> \notin StrictSubsetOrdering(rows)
  BY <1>2, <1>3, WFMin, FS_StrictSubsetOrderingWellFounded
<1>5. PICK least \in rows : D = Before(least, rows)
  BY <1>1
<1>6. ASSUME NEW r \in rows, r.rank < least.rank PROVE FALSE
  <2>1. PICK E : E = Before(r, rows)
    OBVIOUS
  <2>2. r \in D /\ r \notin E /\ E \subseteq D
    BY <1>5, <1>6, <2>1 DEF Before
  <2>3. <<E, D>> \in (SUBSET rows) \X (SUBSET rows)
    BY <1>1, <1>2, <2>1
  <2>4. <<E, D>> \in StrictSubsetOrdering(rows)
    BY <2>2, <2>3 DEF StrictSubsetOrdering
  <2> QED
    BY <1>1, <1>4, <2>1, <2>4
<1> QED
  BY <1>6

\* Of finitely many things one has the least of the numbers they are given.
LEMMA LeastOf ==
    ASSUME NEW S, IsFiniteSet(S), S # {}, NEW g, \A x \in S : g[x] \in Nat
    PROVE  \E x \in S : \A y \in S : g[x] <= g[y]
<1> PICK rows : rows = {[rank |-> g[x], item |-> x] : x \in S}
  OBVIOUS
<1> PICK f : f = [x \in S |-> [rank |-> g[x], item |-> x]]
  OBVIOUS
<1>1. f \in Surjection(S, rows)
  BY DEF Surjection
<1>2. IsFiniteSet(rows)
  BY <1>1, FS_Surjection
<1>3. rows # {} /\ \A r \in rows : r.rank \in Nat
  OBVIOUS
<1>4. PICK least \in rows : \A r \in rows : least.rank <= r.rank
  BY <1>2, <1>3, LeastRow
<1>5. PICK x \in S : least = [rank |-> g[x], item |-> x]
  OBVIOUS
<1>6. \A y \in S : [rank |-> g[y], item |-> y] \in rows
  OBVIOUS
<1> QED
  BY <1>4, <1>5, <1>6

\* The first n rows are those with fewer than n before them.
LEMMA InFirst == ASSUME NEW n, NEW rows, NEW r PROVE r \in First(n, rows) <=> r \in rows /\ Cardinality(Before(r, rows)) < n
<1> DEFINE P(x) == Cardinality(Before(x, rows)) < n
<1>1. First(n, rows) = {x \in rows : P(x)}
  BY DEF First, Before
<1> HIDE DEF P
<1>2. r \in First(n, rows) <=> r \in rows /\ P(r)
  BY <1>1
<1> QED
  BY <1>2 DEF P

\* The first of a finite set of rows has the smallest rank of all.
LEMMA FirstRow ==
    ASSUME NEW rows, IsFiniteSet(rows), rows # {}, \A r \in rows : r.rank \in Nat
    PROVE  \A r \in rows : (CHOOSE x \in First(1, rows) : TRUE).rank <= r.rank
<1>1. PICK least \in rows : \A r \in rows : least.rank <= r.rank
  BY LeastRow
<1>2. Before(least, rows) = {}
  BY <1>1 DEF Before
<1>3. least \in First(1, rows)
  BY <1>2, InFirst, FS_EmptySet
<1>4. PICK first : first = CHOOSE x \in First(1, rows) : TRUE
  OBVIOUS
<1>5. first \in rows /\ Cardinality(Before(first, rows)) < 1
  BY <1>3, <1>4, InFirst
<1>6. Before(first, rows) = {}
  <2>1. IsFiniteSet(Before(first, rows))
    BY FS_Subset DEF Before
  <2> QED
    BY <1>5, <2>1, FS_CardinalityType, FS_EmptySet
<1>7. \A r \in rows : first.rank <= r.rank
  BY <1>5, <1>6 DEF Before
<1> QED
  BY <1>4, <1>7

\* Both kinds of rows can be listed page by page: they are finite, and ranked.
LEMMA RowsListed ==
    ASSUME AccountsInv, ComputersInv, NEW listing
    PROVE  IsFiniteSet(ListedRows(listing)) /\ \A r \in ListedRows(listing) : r.rank \in Nat
<1>1. IsFiniteSet(MemberRows(listing.group)) /\ \A r \in MemberRows(listing.group) : r.rank \in Nat
  <2>1. IsFiniteSet(ActiveMembers(listing.group))
    BY FS_Subset DEF ActiveMembers, AccountsInv
  <2>2. IsFiniteSet(MemberRows(listing.group))
    <3>1. PICK f : f = [m \in ActiveMembers(listing.group) |-> [rank |-> normalizeEmail(m.email), item |-> m.account]]
      OBVIOUS
    <3>2. f \in Surjection(ActiveMembers(listing.group), MemberRows(listing.group))
      BY <3>1 DEF MemberRows, Surjection
    <3> QED
      BY <2>1, <3>2, FS_Surjection
  <2>3. \A r \in MemberRows(listing.group) : r.rank \in Nat
    BY DEF MemberRows, ActiveMembers, AccountsInv, normalizeEmail
  <2> QED
    BY <2>2, <2>3
<1>2. IsFiniteSet(ComputerRows) /\ \A r \in ComputerRows : r.rank \in Nat
  <2>1. IsFiniteSet({x \in computers : ~ x.deleted})
    BY FS_Subset DEF ComputersInv
  <2>2. IsFiniteSet(ComputerRows)
    <3>1. PICK f : f = [c \in {x \in computers : ~ x.deleted} |-> [rank |-> c.id, item |-> c.id]]
      OBVIOUS
    <3>2. f \in Surjection({x \in computers : ~ x.deleted}, ComputerRows)
      BY <3>1 DEF ComputerRows, Surjection
    <3> QED
      BY <2>1, <3>2, FS_Surjection
  <2>3. \A r \in ComputerRows : r.rank \in Nat
    BY DEF ComputerRows, ComputersInv
  <2> QED
    BY <2>2, <2>3
<1> QED
  BY <1>1, <1>2 DEF ListedRows

\* Who a group lists.
LEMMA ActiveAre ==
    ASSUME NEW ms, NEW g, \A m, n \in ms : m.account = n.account => m = n,
           NEW index, index = {[group |-> m.group, address |-> normalizeEmail(m.email), account |-> m.account] :
                                 m \in {x \in ms : ~ x.ejected}}
    PROVE  {m \in ms : ~ m.ejected /\ \E e \in index : e.group = g /\ e.account = m.account}
             = {m \in ms : ~ m.ejected /\ m.group = g}
<1>1. ASSUME NEW m \in ms, ~ m.ejected, NEW e \in index, e.group = g, e.account = m.account PROVE m.group = g
  BY <1>1
<1>2. ASSUME NEW m \in ms, ~ m.ejected, m.group = g PROVE \E e \in index : e.group = g /\ e.account = m.account
  <2>1. [group |-> m.group, address |-> normalizeEmail(m.email), account |-> m.account] \in index
    BY <1>2
  <2> QED
    BY <1>2, <2>1
<1> QED
  BY <1>1, <1>2

\* The rows of a group, by its members.
RowsOf(ms, g) == {[rank |-> normalizeEmail(m.email), item |-> m.account] : m \in {x \in ms : ~ x.ejected /\ x.group = g}}

\* What a group's maps list is its members, before a step and after it.
LEMMA RowsAre == ASSUME AccountsInv, AccountsAgree, NEW g PROVE MemberRows(g) = RowsOf(members, g)
<1>1. ActiveMembers(g) = {m \in members : ~ m.ejected /\ m.group = g}
  <2>1. \A m, n \in members : m.account = n.account => m = n
    BY DEF AccountsInv
  <2>2. memberIndex = {[group |-> m.group, address |-> normalizeEmail(m.email), account |-> m.account] :
                         m \in {x \in members : ~ x.ejected}}
    BY DEF AccountsAgree, EntriesAreMembers
  <2>3. {m \in members : ~ m.ejected /\ \E e \in memberIndex : e.group = g /\ e.account = m.account}
          = {m \in members : ~ m.ejected /\ m.group = g}
    BY <2>1, <2>2, ActiveAre
  <2> QED
    BY <2>3 DEF ActiveMembers
<1> QED
  BY <1>1 DEF MemberRows, RowsOf

LEMMA RowsAreThen == ASSUME AccountsInv', AccountsAgree', NEW g PROVE MemberRows(g)' = RowsOf(members', g)
<1>1. ActiveMembers(g)' = {m \in members' : ~ m.ejected /\ m.group = g}
  <2>1. \A m, n \in members' : m.account = n.account => m = n
    BY DEF AccountsInv
  <2>2. memberIndex' = {[group |-> m.group, address |-> normalizeEmail(m.email), account |-> m.account] :
                          m \in {x \in members' : ~ x.ejected}}
    BY DEF AccountsAgree, EntriesAreMembers
  <2>3. {m \in members' : ~ m.ejected /\ \E e \in memberIndex' : e.group = g /\ e.account = m.account}
          = {m \in members' : ~ m.ejected /\ m.group = g}
    BY <2>1, <2>2, ActiveAre
  <2> QED
    BY <2>3 DEF ActiveMembers
<1> QED
  BY <1>1 DEF MemberRows, RowsOf

\* A listing whose rows stay misses nobody.
LEMMA RowsKept ==
    ASSUME ListingInv, ListingMissesNobody, NEW stay \in SUBSET client.listing.stay,
           client' = [auth |-> client'.auth, listing |-> client'.listing],
           client'.listing = [client.listing EXCEPT !.stay = stay],
           \A g, x, rank : x \in stay =>
               /\ [rank |-> rank, item |-> x] \in MemberRows(g) => [rank |-> rank, item |-> x] \in MemberRows(g)'
               /\ [rank |-> rank, item |-> x] \in ComputerRows => [rank |-> rank, item |-> x] \in ComputerRows'
    PROVE  ListingInv' /\ ListingMissesNobody'
<1>1. PICK l : l = client.listing
  OBVIOUS
<1>2. PICK m : m = client'.listing
  OBVIOUS
<1>3. /\ m = [kind |-> l.kind, phase |-> l.phase, group |-> l.group, cursor |-> l.cursor, seen |-> l.seen, stay |-> stay]
  BY <1>1, <1>2 DEF ListingInv
<1>4. \A r \in ListedRows(l) : r = [rank |-> r.rank, item |-> r.item]
  BY DEF ListedRows, MemberRows, ComputerRows
<1>5. \A r \in ListedRows(l) : r.item \in stay => r \in ListedRows(m)'
  BY <1>3, <1>4 DEF ListedRows
<1>6. ListingMissesNobody'
  BY <1>1, <1>2, <1>3 DEF ListingMissesNobody
<1>7. m.phase = "paging" => \A x \in m.stay : x \in m.seen \/ \E r \in ListedRows(m)' : r.item = x /\ m.cursor <= r.rank
  BY <1>1, <1>3, <1>5 DEF ListingInv
<1>8. ListingInv'
  BY <1>2, <1>3, <1>7 DEF ListingInv
<1> QED
  BY <1>6, <1>8

\* A client that does nothing, among rows that stay, misses nobody.
LEMMA SameListing ==
    ASSUME ListingInv, ListingMissesNobody, client' = [auth |-> client'.auth, listing |-> client'.listing],
           client'.listing = client.listing,
           \A g : MemberRows(g) \subseteq MemberRows(g)', ComputerRows \subseteq ComputerRows'
    PROVE  ListingInv' /\ ListingMissesNobody'
<1>1. client'.listing = [client.listing EXCEPT !.stay = client.listing.stay]
  BY DEF ListingInv
<1> QED
  BY <1>1, RowsKept

\* What does nothing to the partner side keeps its invariant.
LEMMA SamePartner ==
    ASSUME nextId \in Nat, nextId' \in Nat, nextId <= nextId', PartnerInv, UNCHANGED partnerVars PROVE PartnerInv'
<1> USE DEF partnerVars
<1>1. AccountsInv'
  BY DEF PartnerInv, AccountsInv
<1>2. AccountsAgree' /\ ComputersInv' /\ ListingMissesNobody'
  BY DEF PartnerInv, AccountsAgree, OneAccountPerEmail, EntriesAreMembers, ComputersInv, ListingMissesNobody
<1>3. ListingInv'
  BY DEF PartnerInv, ListingInv, ListedRows, MemberRows, ComputerRows, ActiveMembers
<1> QED
  BY <1>1, <1>2, <1>3 DEF PartnerInv

\* createGroupMember with a new id and an address that nobody has.
LEMMA CreateKeepsPartner ==
    ASSUME nextId \in Nat, PartnerInv, NEW p, NEW g, NEW email \in Email, CreateGroupMember(p, g, email)
    PROVE  PartnerInv'
<1>1. PICK new : new = [account |-> nextId, email |-> email, group |-> g, key |-> nextId + 1, ejected |-> FALSE]
  OBVIOUS
<1>2. PICK entry : entry = [group |-> g, address |-> email.address, account |-> nextId]
  OBVIOUS
<1>3. /\ members' = members \cup {new} /\ nextId' = nextId + 3
      /\ memberIndex' = {e \in memberIndex : ~ (e.group = g /\ e.address = email.address)} \cup {entry}
      /\ email.address \notin knownEmails /\ knownEmails' = knownEmails \cup {email.address}
      /\ UNCHANGED <<trials, computers, client>> /\ email.address \in Nat
  BY <1>1, <1>2, PartnerAssumption DEF CreateGroupMember, OtherwiseSame, Known, normalizeEmail, Take, Email
<1>4. AccountsInv'
  <2>1. IsFiniteSet(members')
    BY <1>3, FS_AddElement DEF PartnerInv, AccountsInv
  <2>2. \A m \in members : m.account # new.account
    BY <1>1 DEF PartnerInv, AccountsInv
  <2>3. \A a \in trials : a.account # new.account
    BY <1>1 DEF PartnerInv, AccountsInv
  <2>4. /\ new.account \in Nat /\ new.account < nextId' /\ new.email.address \in Nat
        /\ new = [account |-> new.account, email |-> new.email, group |-> new.group, key |-> new.key,
                  ejected |-> new.ejected]
    BY <1>1, <1>3
  <2>5. \A m \in members' : /\ m.account \in Nat /\ m.account < nextId' /\ m.email.address \in Nat
                            /\ m = [account |-> m.account, email |-> m.email, group |-> m.group, key |-> m.key,
                                    ejected |-> m.ejected]
    BY <1>3, <2>4 DEF PartnerInv, AccountsInv
  <2>6. \A m, n \in members' : m.account = n.account => m = n
    BY <1>3, <2>2 DEF PartnerInv, AccountsInv
  <2>7. \A a \in trials' : a.account \in Nat /\ a.account < nextId' /\ \A m \in members' : a.account # m.account
    BY <1>3, <2>3 DEF PartnerInv, AccountsInv
  <2> QED
    BY <2>1, <2>5, <2>6, <2>7 DEF AccountsInv
<1>5. OneAccountPerEmail'
  <2>1. \A a \in members \cup trials : normalizeEmail(a.email) # email.address
    BY <1>3 DEF PartnerInv, AccountsAgree, OneAccountPerEmail
  <2>2. normalizeEmail(new.email) = email.address
    BY <1>1 DEF normalizeEmail
  <2>3. knownEmails' = {normalizeEmail(a.email) : a \in members' \cup trials'}
    BY <1>3, <2>2 DEF PartnerInv, AccountsAgree, OneAccountPerEmail
  <2>4. \A a, b \in members' \cup trials' : normalizeEmail(a.email) = normalizeEmail(b.email) => a.account = b.account
    BY <1>3, <2>1, <2>2 DEF PartnerInv, AccountsAgree, OneAccountPerEmail
  <2> QED
    BY <2>3, <2>4 DEF OneAccountPerEmail
<1>6. EntriesAreMembers'
  <2>1. \A e \in memberIndex : e.address # email.address
    BY <1>3 DEF PartnerInv, AccountsAgree, OneAccountPerEmail, EntriesAreMembers
  <2>2. memberIndex' = memberIndex \cup {entry}
    BY <1>3, <2>1
  <2>3. /\ entry = [group |-> new.group, address |-> normalizeEmail(new.email), account |-> new.account]
        /\ ~ new.ejected
    BY <1>1, <1>2 DEF normalizeEmail
  <2>4. {x \in members' : ~ x.ejected} = {x \in members : ~ x.ejected} \cup {new}
    BY <1>3, <2>3
  <2> QED
    BY <2>2, <2>3, <2>4 DEF PartnerInv, AccountsAgree, EntriesAreMembers
<1>7. AccountsAgree'
  BY <1>5, <1>6 DEF AccountsAgree
<1>8. ListingInv' /\ ListingMissesNobody'
  <2>1. \A x : MemberRows(x) \subseteq MemberRows(x)'
    BY <1>3, <1>4, <1>7, RowsAre, RowsAreThen DEF RowsOf, PartnerInv
  <2>2. ComputerRows' = ComputerRows
    BY <1>3 DEF ComputerRows
  <2> QED
    BY <1>3, <2>1, <2>2, SameListing DEF PartnerInv, ListingInv
<1>9. ComputersInv'
  BY <1>3 DEF PartnerInv, ComputersInv
<1> QED
  BY <1>4, <1>7, <1>8, <1>9 DEF PartnerInv

\* ejectGroupMember, with or without another address.
LEMMA EjectKeepsPartner ==
    ASSUME nextId \in Nat, PartnerInv, NEW p, NEW g, NEW m \in members, NEW email \in Email,
           EjectGroupMember(p, g, m, email)
    PROVE  PartnerInv'
<1>1. PICK new : new = [m EXCEPT !.email = email, !.ejected = TRUE]
  OBVIOUS
<1>2. /\ members' = (members \ {m}) \cup {new} /\ ~ m.ejected
      /\ memberIndex' = {e \in memberIndex : ~ (e.group = m.group /\ e.address = m.email.address)}
      /\ email.address # m.email.address => email.address \notin knownEmails
      /\ knownEmails' = (knownEmails \ {m.email.address}) \cup {email.address}
      /\ client' = [client EXCEPT !.listing.stay = @ \ {m.account}]
      /\ UNCHANGED <<nextId, trials, computers>> /\ email.address \in Nat
  BY <1>1, PartnerAssumption DEF EjectGroupMember, EntryGone, OtherwiseSame, Known, normalizeEmail, Email
<1>3. new = [account |-> m.account, email |-> email, group |-> m.group, key |-> m.key, ejected |-> TRUE]
  <2>1. m = [account |-> m.account, email |-> m.email, group |-> m.group, key |-> m.key, ejected |-> m.ejected]
    BY DEF PartnerInv, AccountsInv
  <2> QED
    BY <1>1, <2>1
<1>4. AccountsInv'
  <2>1. IsFiniteSet(members')
    <3>1. IsFiniteSet(members \ {m})
      BY FS_RemoveElement DEF PartnerInv, AccountsInv
    <3> QED
      BY <1>2, <3>1, FS_AddElement
  <2>2. \A x \in members \ {m} : x.account # new.account
    BY <1>3 DEF PartnerInv, AccountsInv
  <2>3. /\ new.account \in Nat /\ new.account < nextId' /\ new.email.address \in Nat
        /\ new = [account |-> new.account, email |-> new.email, group |-> new.group, key |-> new.key,
                  ejected |-> new.ejected]
    BY <1>2, <1>3 DEF PartnerInv, AccountsInv
  <2>4. \A x \in members' : /\ x.account \in Nat /\ x.account < nextId' /\ x.email.address \in Nat
                            /\ x = [account |-> x.account, email |-> x.email, group |-> x.group, key |-> x.key,
                                    ejected |-> x.ejected]
    BY <1>2, <2>3 DEF PartnerInv, AccountsInv
  <2>5. \A x, y \in members' : x.account = y.account => x = y
    BY <1>2, <2>2 DEF PartnerInv, AccountsInv
  <2>6. \A a \in trials' : a.account \in Nat /\ a.account < nextId' /\ \A x \in members' : a.account # x.account
    BY <1>2, <1>3 DEF PartnerInv, AccountsInv
  <2> QED
    BY <2>1, <2>4, <2>5, <2>6 DEF AccountsInv
<1>5. PICK others : others = (members \ {m}) \cup trials
  OBVIOUS
<1>6. \A a \in others : a.account # m.account
  BY <1>5 DEF PartnerInv, AccountsInv
<1>7. \A a \in others : normalizeEmail(a.email) # m.email.address
  BY <1>5, <1>6 DEF PartnerInv, AccountsAgree, OneAccountPerEmail, normalizeEmail
<1>8. \A a \in others : normalizeEmail(a.email) # email.address
  BY <1>2, <1>5, <1>7 DEF PartnerInv, AccountsAgree, OneAccountPerEmail
<1>9. members' \cup trials' = others \cup {new} /\ members \cup trials = others \cup {m}
  BY <1>2, <1>5
<1>10. normalizeEmail(new.email) = email.address
  BY <1>3 DEF normalizeEmail
<1>11. OneAccountPerEmail'
  <2>1. knownEmails = {normalizeEmail(a.email) : a \in others} \cup {m.email.address}
    BY <1>9 DEF PartnerInv, AccountsAgree, OneAccountPerEmail, normalizeEmail
  <2>2. knownEmails' = {normalizeEmail(a.email) : a \in others} \cup {email.address}
    BY <1>2, <1>7, <2>1
  <2>3. knownEmails' = {normalizeEmail(a.email) : a \in members' \cup trials'}
    BY <1>9, <1>10, <2>2
  <2>4. \A a, b \in others \cup {new} : normalizeEmail(a.email) = normalizeEmail(b.email) => a.account = b.account
    BY <1>8, <1>9, <1>10 DEF PartnerInv, AccountsAgree, OneAccountPerEmail
  <2> QED
    BY <1>9, <2>3, <2>4 DEF OneAccountPerEmail
<1>12. EntriesAreMembers'
  <2>1. {x \in members' : ~ x.ejected} = {x \in members : ~ x.ejected} \ {m}
    BY <1>2, <1>3
  <2>2. \A x \in members : x # m => x.email.address # m.email.address
    BY <1>5, <1>7 DEF normalizeEmail
  <2>3. memberIndex = {[group |-> x.group, address |-> x.email.address, account |-> x.account] :
                         x \in {y \in members : ~ y.ejected}}
    BY DEF PartnerInv, AccountsAgree, EntriesAreMembers, normalizeEmail
  <2>4. memberIndex' = {[group |-> x.group, address |-> x.email.address, account |-> x.account] :
                          x \in {y \in members : ~ y.ejected} \ {m}}
    BY <1>2, <2>2, <2>3
  <2> QED
    BY <2>1, <2>4 DEF EntriesAreMembers, normalizeEmail
<1>13. AccountsAgree'
  BY <1>11, <1>12 DEF AccountsAgree
<1>14. ListingInv' /\ ListingMissesNobody'
  <2>1. PICK stay : stay = client.listing.stay \ {m.account}
    OBVIOUS
  <2>2. client' = [auth |-> client.auth, listing |-> [client.listing EXCEPT !.stay = stay]]
    BY <1>2, <2>1 DEF PartnerInv, ListingInv
  <2>3. ASSUME NEW x, NEW item, NEW rank, item \in stay, [rank |-> rank, item |-> item] \in MemberRows(x)
        PROVE  [rank |-> rank, item |-> item] \in MemberRows(x)'
    <3>1. [rank |-> rank, item |-> item] \in RowsOf(members, x)
      BY <2>3, RowsAre DEF PartnerInv
    <3>2. PICK y \in members : ~ y.ejected /\ y.group = x /\ rank = normalizeEmail(y.email) /\ item = y.account
      BY <3>1 DEF RowsOf
    <3>3. y \in members'
      BY <1>2, <2>1, <2>3, <3>2
    <3>4. [rank |-> rank, item |-> item] \in RowsOf(members', x)
      BY <3>2, <3>3 DEF RowsOf
    <3> QED
      BY <1>4, <1>13, <3>4, RowsAreThen
  <2>4. ComputerRows' = ComputerRows
    BY <1>2 DEF ComputerRows
  <2> QED
    BY <2>1, <2>2, <2>3, <2>4, RowsKept DEF PartnerInv
<1>15. ComputersInv'
  BY <1>2 DEF PartnerInv, ComputersInv
<1> QED
  BY <1>4, <1>13, <1>14, <1>15 DEF PartnerInv

\* reserveTrialCreateAccount
LEMMA TrialKeepsPartner ==
    ASSUME nextId \in Nat, PartnerInv, NEW p, NEW email \in Email, ReserveTrial(p, email) PROVE PartnerInv'
<1>1. PICK new : new = [account |-> nextId, email |-> email]
  OBVIOUS
<1>2. /\ trials' = trials \cup {new} /\ nextId' = nextId + 5
      /\ email.address \notin knownEmails /\ knownEmails' = knownEmails \cup {email.address}
      /\ UNCHANGED <<members, memberIndex, computers, client>>
  BY <1>1 DEF ReserveTrial, OtherwiseSame, Known, normalizeEmail, Take
<1>3. AccountsInv'
  <2>1. \A m \in members : m.account # new.account
    BY <1>1 DEF PartnerInv, AccountsInv
  <2>2. new.account \in Nat /\ new.account < nextId'
    BY <1>1, <1>2
  <2>3. \A a \in trials' : a.account \in Nat /\ a.account < nextId' /\ \A m \in members' : a.account # m.account
    BY <1>2, <2>1, <2>2 DEF PartnerInv, AccountsInv
  <2>4. \A m \in members' : m.account < nextId'
    BY <1>2 DEF PartnerInv, AccountsInv
  <2> QED
    BY <1>2, <2>3, <2>4 DEF PartnerInv, AccountsInv
<1>4. AccountsAgree'
  <2>1. \A a \in members \cup trials : normalizeEmail(a.email) # email.address
    BY <1>2 DEF PartnerInv, AccountsAgree, OneAccountPerEmail
  <2>2. normalizeEmail(new.email) = email.address
    BY <1>1 DEF normalizeEmail
  <2>3. knownEmails' = {normalizeEmail(a.email) : a \in members' \cup trials'}
    BY <1>2, <2>2 DEF PartnerInv, AccountsAgree, OneAccountPerEmail
  <2>4. \A a, b \in members' \cup trials' : normalizeEmail(a.email) = normalizeEmail(b.email) => a.account = b.account
    BY <1>2, <2>1, <2>2 DEF PartnerInv, AccountsAgree, OneAccountPerEmail
  <2>5. EntriesAreMembers'
    BY <1>2 DEF PartnerInv, AccountsAgree, EntriesAreMembers
  <2> QED
    BY <2>3, <2>4, <2>5 DEF AccountsAgree, OneAccountPerEmail
<1>5. ListingInv' /\ ListingMissesNobody' /\ ComputersInv'
  BY <1>2 DEF PartnerInv, ListingInv, ListingMissesNobody, ComputersInv, ListedRows, MemberRows, ComputerRows, ActiveMembers
<1> QED
  BY <1>3, <1>4, <1>5 DEF PartnerInv

\* listComputers provisions the computers once.
LEMMA ProvisionKeepsPartner ==
    ASSUME nextId \in Nat, PartnerInv, NEW p, ProvisionComputers(p) PROVE PartnerInv'
<1>1. PICK ids : ids = nextId..(nextId + ComputerCount - 1)
  OBVIOUS
<1>2. /\ computers' = {[id |-> c, deleted |-> FALSE] : c \in ids} /\ computers = {}
      /\ nextId' \in Nat /\ nextId <= nextId' /\ ids \subseteq Nat
      /\ UNCHANGED <<members, memberIndex, knownEmails, trials, client>>
  BY <1>1, PartnerAssumption DEF ProvisionComputers, OtherwiseSame, Take
<1>3. AccountsInv' /\ AccountsAgree'
  <2>1. AccountsInv'
    BY <1>2 DEF PartnerInv, AccountsInv
  <2> QED
    BY <1>2, <2>1 DEF PartnerInv, AccountsAgree, OneAccountPerEmail, EntriesAreMembers
<1>4. IsFiniteSet(computers')
  <2>1. PICK f : f = [c \in ids |-> [id |-> c, deleted |-> FALSE]]
    OBVIOUS
  <2>2. f \in Surjection(ids, computers')
    BY <1>2, <2>1 DEF Surjection
  <2>3. IsFiniteSet(ids)
    BY <1>1, PartnerAssumption, FS_Interval
  <2> QED
    BY <2>2, <2>3, FS_Surjection
<1>5. ComputersInv'
  <2>1. \A c \in computers' : c = [id |-> c.id, deleted |-> c.deleted] /\ c.id \in Nat /\ c.deleted = FALSE
    BY <1>2
  <2> QED
    BY <1>4, <2>1 DEF ComputersInv
<1>6. ListingInv' /\ ListingMissesNobody'
  <2>1. \A g : MemberRows(g)' = MemberRows(g)
    BY <1>2 DEF MemberRows, ActiveMembers
  <2>2. ComputerRows = {}
    BY <1>2 DEF ComputerRows
  <2> QED
    BY <1>2, <2>1, <2>2, SameListing DEF PartnerInv, ListingInv
<1> QED
  BY <1>3, <1>5, <1>6 DEF PartnerInv

\* A computer is deleted.
LEMMA DeleteKeepsPartner ==
    ASSUME nextId \in Nat, PartnerInv, NEW p, NEW c \in computers, DeleteComputer(p, c) PROVE PartnerInv'
<1>1. PICK new : new = [c EXCEPT !.deleted = TRUE]
  OBVIOUS
<1>2. /\ computers' = (computers \ {c}) \cup {new} /\ ~ c.deleted
      /\ client' = [client EXCEPT !.listing.stay = @ \ {c.id}]
      /\ UNCHANGED <<nextId, members, memberIndex, knownEmails, trials>>
  BY <1>1 DEF DeleteComputer, OtherwiseSame
<1>3. new = [id |-> c.id, deleted |-> TRUE]
  <2>1. c = [id |-> c.id, deleted |-> c.deleted]
    BY DEF PartnerInv, ComputersInv
  <2> QED
    BY <1>1, <2>1
<1>4. AccountsInv' /\ AccountsAgree'
  BY <1>2 DEF PartnerInv, AccountsInv, AccountsAgree, OneAccountPerEmail, EntriesAreMembers
<1>5. ComputersInv'
  <2>1. IsFiniteSet(computers')
    <3>1. IsFiniteSet(computers \ {c})
      BY FS_RemoveElement DEF PartnerInv, ComputersInv
    <3> QED
      BY <1>2, <3>1, FS_AddElement
  <2>2. \A x \in computers' : x = [id |-> x.id, deleted |-> x.deleted] /\ x.id \in Nat
    BY <1>2, <1>3 DEF PartnerInv, ComputersInv
  <2>3. \A x \in computers \ {c} : x.id # new.id
    BY <1>3 DEF PartnerInv, ComputersInv
  <2>4. \A x, y \in computers' : x.id = y.id => x = y
    BY <1>2, <2>3 DEF PartnerInv, ComputersInv
  <2> QED
    BY <2>1, <2>2, <2>4 DEF ComputersInv
<1>6. ListingInv' /\ ListingMissesNobody'
  <2>1. PICK stay : stay = client.listing.stay \ {c.id}
    OBVIOUS
  <2>2. client' = [auth |-> client.auth, listing |-> [client.listing EXCEPT !.stay = stay]]
    BY <1>2, <2>1 DEF PartnerInv, ListingInv
  <2>3. \A g : MemberRows(g)' = MemberRows(g)
    BY <1>2 DEF MemberRows, ActiveMembers
  <2>4. ASSUME NEW item, NEW rank, item \in stay, [rank |-> rank, item |-> item] \in ComputerRows
        PROVE  [rank |-> rank, item |-> item] \in ComputerRows'
    <3>1. PICK x \in computers : ~ x.deleted /\ rank = x.id /\ item = x.id
      BY <2>4 DEF ComputerRows
    <3>2. x \in computers'
      BY <1>2, <2>1, <2>4, <3>1
    <3> QED
      BY <3>1, <3>2 DEF ComputerRows
  <2> QED
    BY <2>1, <2>2, <2>3, <2>4, RowsKept DEF PartnerInv
<1> QED
  BY <1>4, <1>5, <1>6 DEF PartnerInv

\* Nothing but the client's own step: accounts and computers stay.
LEMMA OnlyClient ==
    ASSUME PartnerInv, UNCHANGED <<nextId, members, memberIndex, knownEmails, trials, computers>>,
           ListingInv', ListingMissesNobody'
    PROVE  PartnerInv'
BY DEF PartnerInv, AccountsInv, AccountsAgree, OneAccountPerEmail, EntriesAreMembers, ComputersInv

\* Rows that stay are listed as they were.
LEMMA SameRows ==
    ASSUME UNCHANGED <<members, memberIndex, computers>>, NEW l PROVE ListedRows(l)' = ListedRows(l)
BY DEF ListedRows, MemberRows, ComputerRows, ActiveMembers

\* A listing begins.
LEMMA BeginKeepsPartner == ASSUME PartnerInv, NEW kind, NEW g, BeginListing(kind, g) PROVE PartnerInv'
<1>1. PICK m : m = client'.listing
  OBVIOUS
<1>2. /\ m.phase = "paging" /\ m.cursor = NoCursor /\ m.seen = {} /\ m.stay = {r.item : r \in ListedRows(m)}
      /\ m = [kind |-> m.kind, phase |-> m.phase, group |-> m.group, cursor |-> m.cursor, seen |-> m.seen, stay |-> m.stay]
      /\ client' = [auth |-> client'.auth, listing |-> m]
      /\ UNCHANGED <<nextId, members, memberIndex, knownEmails, trials, computers>>
  BY <1>1 DEF BeginListing, OtherwiseSame, PartnerInv, ListingInv, ListedRows
<1>3. \A r \in ListedRows(m) : NoCursor <= r.rank
  BY RowsListed DEF PartnerInv, NoCursor, None
<1>4. \A x \in m.stay : \E r \in ListedRows(m) : r.item = x /\ m.cursor <= r.rank
  BY <1>2, <1>3
<1>5. ListedRows(m)' = ListedRows(m)
  BY <1>2, SameRows
<1>6. ListingInv' /\ ListingMissesNobody'
  BY <1>1, <1>2, <1>4, <1>5 DEF ListingInv, ListingMissesNobody
<1> QED
  BY <1>2, <1>6, OnlyClient

\* A page is fetched: whoever was there all the time is on it, was before or comes after.
LEMMA PageKeepsPartner == ASSUME PartnerInv, NEW size, FetchPage(size) PROVE PartnerInv'
<1>1. PICK l, m : l = client.listing /\ m = client'.listing
  OBVIOUS
<1>2. PICK rows, page, rest : /\ rows = RowsFrom(ListedRows(l), l.cursor) /\ page = First(size, rows)
                              /\ rest = rows \ page
  OBVIOUS
<1>3. PICK first : first = CHOOSE r \in First(1, rest) : TRUE
  OBVIOUS
<1>4. /\ l.phase = "paging"
      /\ client' = [client EXCEPT !.listing.seen = @ \cup {r.item : r \in page},
                                  !.listing.phase = IF rest = {} THEN "done" ELSE @,
                                  !.listing.cursor = IF rest = {} THEN NoCursor ELSE first.rank]
      /\ UNCHANGED <<nextId, members, memberIndex, knownEmails, trials, computers>>
  BY <1>1, <1>2, <1>3 DEF FetchPage, OtherwiseSame
<1>5. /\ client' = [auth |-> client.auth, listing |-> m]
      /\ m = [kind |-> l.kind, phase |-> IF rest = {} THEN "done" ELSE l.phase, group |-> l.group,
              cursor |-> IF rest = {} THEN NoCursor ELSE first.rank, seen |-> l.seen \cup {r.item : r \in page},
              stay |-> l.stay]
  <2>1. client = [auth |-> client.auth, listing |-> l]
    BY <1>1 DEF PartnerInv, ListingInv
  <2>2. l = [kind |-> l.kind, phase |-> l.phase, group |-> l.group, cursor |-> l.cursor, seen |-> l.seen,
             stay |-> l.stay]
    BY <1>1 DEF PartnerInv, ListingInv
  <2>3. PICK seen, phase, cursor :
          /\ seen = l.seen \cup {r.item : r \in page} /\ phase = (IF rest = {} THEN "done" ELSE l.phase)
          /\ cursor = IF rest = {} THEN NoCursor ELSE first.rank
    OBVIOUS
  <2>4. client' = [client EXCEPT !.listing.seen = seen, !.listing.phase = phase, !.listing.cursor = cursor]
    BY <1>1, <1>4, <2>3
  <2>5. client' = [auth |-> client.auth, listing |-> [l EXCEPT !.seen = seen, !.phase = phase, !.cursor = cursor]]
    <3>1. PICK c1 : c1 = [client EXCEPT !.listing.seen = seen]
      OBVIOUS
    <3>2. PICK c2 : c2 = [c1 EXCEPT !.listing.phase = phase]
      OBVIOUS
    <3>3. client' = [c2 EXCEPT !.listing.cursor = cursor]
      BY <2>4, <3>1, <3>2
    <3>4. c1 = [auth |-> client.auth, listing |-> [l EXCEPT !.seen = seen]]
      BY <2>1, <3>1
    <3>5. c2 = [auth |-> client.auth, listing |-> [l EXCEPT !.seen = seen, !.phase = phase]]
      BY <3>2, <3>4
    <3> QED
      BY <3>3, <3>5
  <2>6. m = [l EXCEPT !.seen = seen, !.phase = phase, !.cursor = cursor]
    BY <1>1, <2>5
  <2>7. m = [kind |-> l.kind, phase |-> phase, group |-> l.group, cursor |-> cursor, seen |-> seen, stay |-> l.stay]
    BY <2>2, <2>6
  <2> QED
    BY <2>3, <2>5, <2>6, <2>7
<1>6. ListedRows(l)' = ListedRows(l)
  BY <1>4, SameRows
<1>7. ListedRows(m)' = ListedRows(l)
  BY <1>5, <1>6 DEF ListedRows
<1>8. rows \subseteq ListedRows(l) /\ IsFiniteSet(rest) /\ \A r \in rest : r.rank \in Nat /\ r \in ListedRows(l)
  <2>1. rows \subseteq ListedRows(l)
    BY <1>2 DEF RowsFrom
  <2>2. IsFiniteSet(ListedRows(l)) /\ \A r \in ListedRows(l) : r.rank \in Nat
    BY RowsListed DEF PartnerInv
  <2>3. rest \subseteq ListedRows(l)
    BY <1>2, <2>1
  <2> QED
    BY <2>1, <2>2, <2>3, FS_Subset
<1>9. \A x \in l.stay : x \in m.seen \/ \E r \in rest : r.item = x
  <2>1. ASSUME NEW x \in l.stay, x \notin l.seen PROVE x \in m.seen \/ \E r \in rest : r.item = x
    <3>1. PICK r \in ListedRows(l) : r.item = x /\ l.cursor <= r.rank
      BY <1>1, <1>4, <2>1 DEF PartnerInv, ListingInv
    <3>2. r \in rows
      BY <1>2, <3>1 DEF RowsFrom
    <3>3. CASE r \in page
      BY <1>5, <3>1, <3>3
    <3>4. CASE r \in rest
      BY <3>1, <3>4
    <3> QED
      BY <1>2, <3>2, <3>3, <3>4
  <2> QED
    BY <1>5, <2>1
<1>10. CASE rest = {}
  <2>2. m.phase = "done" /\ m.stay \subseteq m.seen
    BY <1>5, <1>9, <1>10
  <2>1. ListingInv' /\ ListingMissesNobody'
    BY <1>1, <1>5, <2>2 DEF ListingInv, ListingMissesNobody
  <2> QED
    BY <1>4, <2>1, OnlyClient
<1>11. CASE rest # {}
  <2>1. \A r \in rest : first.rank <= r.rank
    BY <1>3, <1>8, <1>11, FirstRow
  <2>2. m.phase = "paging" /\ m.cursor = first.rank
    BY <1>4, <1>5, <1>11
  <2>3. \A x \in m.stay : x \in m.seen \/ \E r \in ListedRows(m)' : r.item = x /\ m.cursor <= r.rank
    <3> SUFFICES ASSUME NEW x \in l.stay, x \notin m.seen
                 PROVE  \E r \in ListedRows(l) : r.item = x /\ first.rank <= r.rank
      BY <1>5, <1>7, <2>2
    <3> QED
      BY <1>8, <1>9, <2>1
  <2>4. ListingInv' /\ ListingMissesNobody'
    BY <1>1, <1>5, <2>2, <2>3 DEF ListingInv, ListingMissesNobody
  <2> QED
    BY <1>4, <2>4, OnlyClient
<1> QED
  BY <1>10, <1>11

\* A cursor is refused.
LEMMA FailKeepsPartner == ASSUME PartnerInv, CursorDeleted PROVE PartnerInv'
<1>1. /\ client' = [client EXCEPT !.listing.phase = "failed"]
      /\ UNCHANGED <<nextId, members, memberIndex, knownEmails, trials, computers>>
  BY DEF CursorDeleted, OtherwiseSame
<1>2. client'.listing.phase = "failed" /\ ListingInv' /\ ListingMissesNobody'
  BY <1>1 DEF PartnerInv, ListingInv, ListingMissesNobody
<1> QED
  BY <1>1, <1>2, OnlyClient

\* Every partner request keeps the invariant.
LEMMA PartnerStep == ASSUME nextId \in Nat, PartnerInv, PartnerNext PROVE PartnerInv'
<1>1. ASSUME PartnerAuthorize PROVE PartnerInv'
  <2>1. /\ \E p : client' = [client EXCEPT !.auth = p] /\ nextId' = nextId + 1
        /\ UNCHANGED <<members, memberIndex, knownEmails, trials, computers>>
    BY <1>1 DEF PartnerAuthorize, OtherwiseSame, Take
  <2>2. client' = [auth |-> client'.auth, listing |-> client'.listing] /\ client'.listing = client.listing
    BY <2>1 DEF PartnerInv, ListingInv
  <2>3. ListingInv' /\ ListingMissesNobody'
    BY <2>1, <2>2, SameListing DEF PartnerInv, MemberRows, ComputerRows, ActiveMembers
  <2>4. AccountsInv'
    BY <2>1 DEF PartnerInv, AccountsInv
  <2> QED
    BY <2>1, <2>3, <2>4 DEF PartnerInv, AccountsAgree, OneAccountPerEmail, EntriesAreMembers, ComputersInv
<1>2. ASSUME NEW p, ListGroups(p) PROVE PartnerInv'
  <2>1. /\ nextId' \in Nat /\ nextId <= nextId'
        /\ UNCHANGED <<members, memberIndex, knownEmails, trials, computers, client>>
    BY <1>2, PartnerAssumption DEF ListGroups, OtherwiseSame, Take
  <2>2. ListingInv' /\ ListingMissesNobody'
    BY <2>1 DEF PartnerInv, ListingInv, ListingMissesNobody, ListedRows, MemberRows, ComputerRows, ActiveMembers
  <2>3. AccountsInv'
    BY <2>1 DEF PartnerInv, AccountsInv
  <2> QED
    BY <2>1, <2>2, <2>3 DEF PartnerInv, AccountsAgree, OneAccountPerEmail, EntriesAreMembers, ComputersInv
<1> QED
  BY <1>1, <1>2, ProvisionKeepsPartner, DeleteKeepsPartner, TrialKeepsPartner, CreateKeepsPartner,
     EjectKeepsPartner, BeginKeepsPartner, PageKeepsPartner, FailKeepsPartner DEF PartnerNext

\* Ids only grow.
LEMMA IdsGrow == ASSUME UrlInv, Turn PROVE nextId' \in Nat /\ nextId <= nextId'
<1>1. SlotsInv /\ nextId \in Nat
  BY DEF UrlInv, ClockInv
<1>2. \A t, k : DeleteKey(t, k) => nextId' = nextId
  BY DEF DeleteKey
<1>3. \A t, b : GetUploadUrl(t, b) => nextId' = nextId + 1
  BY <1>1 DEF GetUploadUrl, Take
<1>4. AdvanceTime => nextId' = nextId
  BY DEF AdvanceTime
<1>5. \A s : IssueUploadUrl(s) => nextId' = nextId
  BY DEF IssueUploadUrl
<1>6. \A u : ExpireUploadToken(u) \/ InvalidateUploadToken(u) => nextId' = nextId
  BY DEF ExpireUploadToken, InvalidateUploadToken
<1> QED
  BY <1>1, <1>2, <1>3, <1>4, <1>5, <1>6, CalmTurn DEF CalmUrls

\* The maps of a group agree, and a listing that ends has listed whoever was there all the time
\* (groupMembers, groupMembersByAccountId, paginateRows in simulator/partner.ts; partner/client.ts).
THEOREM MembersAlwaysAgree == Spec => []MembersAgree
<1>1. Init => UrlInv /\ PartnerInv
  <2>1. Init => PartnerInv
    BY FS_EmptySet DEF Init, PartnerInit, PartnerInv, AccountsInv, AccountsAgree, OneAccountPerEmail,
       EntriesAreMembers, ComputersInv, ListingInv, ListingMissesNobody, NoListing, NoAuth
  <2> QED
    BY <2>1, GrantsInit
<1>2. UrlInv /\ PartnerInv /\ [Next]_vars => UrlInv' /\ PartnerInv'
  <2> SUFFICES ASSUME UrlInv, PartnerInv, [Next]_vars PROVE UrlInv' /\ PartnerInv'
    OBVIOUS
  <2>1. Turn /\ nextId \in Nat
    BY TurnStep DEF UrlInv, ClockInv
  <2>2. PartnerNext \/ UNCHANGED partnerVars
    BY DEF Next, vars
  <2> QED
    BY <2>1, <2>2, UrlStep, IdsGrow, PartnerStep, SamePartner
<1>3. PartnerInv => MembersAgree
  BY DEF PartnerInv, MembersAgree
<1> QED
  BY <1>1, <1>2, <1>3, PTL DEF Spec

-----------------------------------------------------------------------------
(* The progress of a download.                                             *)

\* What a listener is told at one moment.
Snapshot(s) == s = [bytes |-> s.bytes, parts |-> s.parts] /\ s.bytes \in Nat /\ s.parts \in Nat

\* What a ProgressTracker holds.
Tracker(p) ==
    /\ p = [on |-> p.on, bytes |-> p.bytes, parts |-> p.parts, told |-> p.told, begun |-> p.begun,
            timer |-> p.timer, error |-> p.error, throws |-> p.throws]
    /\ p.bytes \in Nat /\ p.parts \in Nat /\ Snapshot(p.told)
    /\ p.on \in BOOLEAN /\ p.begun \in BOOLEAN /\ p.timer \in BOOLEAN /\ p.error \in BOOLEAN /\ p.throws \in BOOLEAN

\* The part is not over: nobody was told that it is.
Going(p) == Tracker(p) /\ ~ p.throws /\ p.parts = 0 /\ p.told.parts = 0

\* The fields of a reader.
ReaderShape(r) ==
    r = [phase |-> r.phase, file |-> r.file, was |-> r.was, method |-> r.method, range |-> r.range,
         capabilities |-> r.capabilities, wire |-> r.wire, got |-> r.got, view |-> r.view,
         verify |-> r.verify, sha1 |-> r.sha1, queued |-> r.queued, complete |-> r.complete,
         progress |-> r.progress]

\* What came of a body, as a sequence of something.
Bytes(got) == \E A : got \in Seq(A)

\* While a body comes its bytes are counted, and nothing is put off when it is over.
Counting(r) ==
    /\ ReaderShape(r) /\ r.phase \in {"refused", "open", "closed", "failed", "cancelled", "dropped"}
    /\ Bytes(r.got)
    /\ Tracker(r.progress)
    /\ r.phase = "open" => Going(r.progress) /\ (r.progress.on => r.progress.bytes = Len(r.got))
    /\ r.phase # "open" => ~ r.progress.timer
    /\ r.progress.told.parts = 1 =>
          /\ r.progress.told.bytes = Len(r.got)
          /\ (r.complete /\ (r.verify => r.got = r.sha1.of)) \/ r.phase = "dropped"
    /\ r.phase = "closed" /\ r.progress.on => r.progress.told = [bytes |-> Len(r.got), parts |-> 1]

CountInv == reader # NoReader => Counting(reader)

\* One more byte.
LEMMA MoreBytes ==
    ASSUME NEW got, NEW byte, Bytes(got)
    PROVE  Bytes(Append(got, byte)) /\ Len(Append(got, byte)) = Len(got) + 1 /\ Len(got) \in Nat
<1>1. PICK A : got \in Seq(A)
  BY DEF Bytes
<1>2. got \in Seq(A \cup {byte})
  BY <1>1
<1> QED
  BY <1>1, <1>2 DEF Bytes

\* An emission tells what is counted.
LEMMA Emitted ==
    ASSUME NEW p, Tracker(p), NEW q \in Emissions(p)
    PROVE  /\ Tracker(q) /\ ~ q.timer /\ q.told = [bytes |-> p.bytes, parts |-> p.parts]
           /\ q.on = p.on /\ q.bytes = p.bytes /\ q.parts = p.parts
<1>1. PICK t \in BOOLEAN :
         q = [p EXCEPT !.timer = FALSE, !.begun = TRUE, !.told = [bytes |-> p.bytes, parts |-> p.parts], !.throws = t]
  BY DEF Emissions
<1>2. PICK told : told = [bytes |-> p.bytes, parts |-> p.parts]
  OBVIOUS
<1>3. Snapshot(told)
  BY <1>2 DEF Snapshot, Tracker
<1>4. q = [on |-> p.on, bytes |-> p.bytes, parts |-> p.parts, told |-> told, begun |-> TRUE,
           timer |-> FALSE, error |-> p.error, throws |-> t]
  BY <1>1, <1>2 DEF Tracker
<1> QED
  BY <1>2, <1>3, <1>4 DEF Tracker

\* What dispose and an error that is thrown do to a tracker.
LEMMA DisposedFrame ==
    ASSUME NEW p, Tracker(p)
    PROVE  /\ Tracker(Disposed(p)) /\ ~ Disposed(p).timer /\ Disposed(p).told = p.told /\ Disposed(p).on = p.on
           /\ Disposed(p).parts = p.parts /\ Disposed(p).bytes = p.bytes /\ Disposed(p).throws = p.throws
<1>0. PICK q : q = [p EXCEPT !.timer = FALSE, !.error = FALSE]
  OBVIOUS
<1>1. q = [on |-> p.on, bytes |-> p.bytes, parts |-> p.parts, told |-> p.told, begun |-> p.begun,
           timer |-> FALSE, error |-> FALSE, throws |-> p.throws]
  BY <1>0 DEF Tracker
<1>2. Disposed(p) = q
  BY <1>0 DEF Disposed
<1> QED
  BY <1>1, <1>2 DEF Tracker

LEMMA ThrownFrame ==
    ASSUME NEW p, Tracker(p) PROVE Tracker(Thrown(p)) /\ Thrown(p).throws /\ Thrown(p).told = p.told /\ Thrown(p).parts = p.parts
<1>0. PICK q : q = [p EXCEPT !.error = FALSE, !.throws = TRUE]
  OBVIOUS
<1>1. q = [on |-> p.on, bytes |-> p.bytes, parts |-> p.parts, told |-> p.told, begun |-> p.begun,
           timer |-> p.timer, error |-> FALSE, throws |-> TRUE]
  BY <1>0 DEF Tracker
<1>2. Thrown(p) = q
  BY <1>0 DEF Thrown
<1> QED
  BY <1>1, <1>2 DEF Tracker

\* A byte is counted, and the part.
LEMMA ByteCounted ==
    ASSUME NEW p, Going(p), NEW q \in AfterByte(p)
    PROVE  /\ Tracker(q) /\ q.told.parts = 0 /\ q.on = p.on
           /\ ~ q.throws => Going(q) /\ (p.on => q.bytes = p.bytes + 1)
<1>1. CASE ~ p.on
  BY <1>1 DEF AfterByte, Going
<1>2. CASE p.on /\ p.error
  <2>1. q = Thrown(p)
    BY <1>2 DEF AfterByte
  <2> QED
    BY <2>1, <1>2, ThrownFrame DEF Going, Thrown, Tracker
<1>3. CASE p.on /\ ~ p.error
  <2>1. PICK m : m = [p EXCEPT !.bytes = @ + 1]
    OBVIOUS
  <2>2. /\ Tracker(m) /\ m.bytes = p.bytes + 1 /\ m.on = p.on /\ m.parts = 0 /\ m.told = p.told
        /\ ~ m.throws
    BY <2>1 DEF Going, Tracker
  <2>3. q \in Emissions(m) \/ q = [m EXCEPT !.timer = TRUE]
    BY <1>3, <2>1 DEF AfterByte, Going, Tracker
  <2>4. CASE q \in Emissions(m)
    <3>1. /\ Tracker(q) /\ q.told = [bytes |-> m.bytes, parts |-> m.parts]
          /\ q.on = m.on /\ q.bytes = m.bytes /\ q.parts = m.parts
      BY <2>2, <2>4, Emitted
    <3> QED
      BY <2>2, <3>1 DEF Going
  <2>5. CASE q = [m EXCEPT !.timer = TRUE]
    BY <2>2, <2>5 DEF Going, Tracker
  <2> QED
    BY <2>3, <2>4, <2>5
<1> QED
  BY <1>1, <1>2, <1>3 DEF Going, Tracker

LEMMA PartCounted ==
    ASSUME NEW p, Going(p), NEW q \in AfterPart(p)
    PROVE  /\ Tracker(q) /\ q.on = p.on
           /\ ~ q.throws /\ p.on => q.told = [bytes |-> p.bytes, parts |-> 1]
           /\ q.told.parts = 1 => p.on /\ q.told.bytes = p.bytes
<1>1. CASE ~ p.on
  BY <1>1 DEF AfterPart, Going
<1>2. CASE p.on /\ p.error
  <2>1. q = Thrown(p)
    BY <1>2 DEF AfterPart
  <2>2. Tracker(q) /\ q.throws /\ q.told.parts = 0
    BY <2>1, ThrownFrame DEF Going
  <2>3. q.on = p.on
    BY <2>1 DEF Going, Thrown, Tracker
  <2> QED
    BY <1>2, <2>2, <2>3
<1>3. CASE p.on /\ ~ p.error
  <2>1. PICK m \in (IF p.timer THEN Emissions(p) ELSE {p}) :
           q \in IF m.throws THEN {m} ELSE Emissions([m EXCEPT !.parts = @ + 1])
    BY <1>3 DEF AfterPart, Going, Tracker
  <2>2. Tracker(m) /\ m.on = p.on /\ m.bytes = p.bytes /\ m.parts = 0 /\ m.told.parts = 0
    <3>1. CASE m = p
      BY <3>1 DEF Going
    <3>2. CASE m \in Emissions(p)
      <4>1. /\ Tracker(m) /\ m.on = p.on /\ m.bytes = p.bytes /\ m.parts = p.parts
            /\ m.told = [bytes |-> p.bytes, parts |-> p.parts]
        BY <3>2, Emitted DEF Going
      <4> QED
        BY <4>1 DEF Going
    <3> QED
      BY <2>1, <3>1, <3>2
  <2>3. PICK n : n = [m EXCEPT !.parts = @ + 1]
    OBVIOUS
  <2>4. Tracker(n) /\ n.on = p.on /\ n.bytes = p.bytes /\ n.parts = 1
    BY <2>2, <2>3 DEF Tracker
  <2>5. CASE m.throws
    BY <2>1, <2>2, <2>5
  <2>6. CASE ~ m.throws
    <3>1. q \in Emissions(n)
      BY <2>1, <2>3, <2>6
    <3>2. Tracker(q) /\ q.on = n.on /\ q.told = [bytes |-> n.bytes, parts |-> n.parts]
      BY <2>4, <3>1, Emitted
    <3>3. q.told.bytes = n.bytes /\ q.told.parts = n.parts
      BY <3>2
    <3> QED
      BY <1>3, <2>4, <3>2, <3>3
  <2> QED
    BY <2>5, <2>6
<1> QED
  BY <1>1, <1>2, <1>3 DEF Going, Tracker

\* The reader is what its own steps make of it.
LEMMA ReaderTurn ==
    [Next]_vars => \/ reader' = reader \/ StreamNext
                   \/ /\ May("read") /\ reader = NoReader
                      /\ \E caps, range, headers : \E f \in stored, method \in {"GET", "HEAD"} :
                             Answer(f, caps, method, range, headers)
<1>1. ReadNext => \/ StreamNext
                  \/ /\ May("read") /\ reader = NoReader
                     /\ \E caps, range, headers : \E f \in stored, method \in {"GET", "HEAD"} :
                            Answer(f, caps, method, range, headers)
  BY DEF ReadNext, ReadWithToken, ReadWithAuthorization, Current
<1> QED
  BY <1>1 DEF Next, vars, fileVars

\* A reader begins with nothing counted.
LEMMA AnswerCounts ==
    ASSUME NEW f, NEW caps, NEW range, NEW headers, NEW method \in {"GET", "HEAD"},
           Answer(f, caps, method, range, headers)
    PROVE  Counting(reader')
<1>1. PICK progress \in (IF method = "HEAD" THEN {Silent} ELSE {Silent, Fresh}) :
         reader' = Answered(f, caps, method, range, progress)
  BY DEF Answer
<1>2. PICK told : told = [bytes |-> 0, parts |-> 0]
  OBVIOUS
<1>3. PICK silent, fresh : silent = Silent /\ fresh = Fresh
  OBVIOUS
<1>8. silent = [on |-> FALSE, bytes |-> 0, parts |-> 0, told |-> told, begun |-> FALSE,
                timer |-> FALSE, error |-> FALSE, throws |-> FALSE]
  BY <1>2, <1>3 DEF Silent, Untold, None
<1>9. fresh = [silent EXCEPT !.on = TRUE]
  BY <1>3 DEF Fresh
<1>10. fresh = [on |-> TRUE, bytes |-> 0, parts |-> 0, told |-> told, begun |-> FALSE,
                timer |-> FALSE, error |-> FALSE, throws |-> FALSE]
  BY <1>8, <1>9
<1>4. Going(progress) /\ progress.bytes = 0 /\ ~ progress.timer /\ (method = "HEAD" => ~ progress.on)
  <2>1. progress = silent \/ (progress = fresh /\ method # "HEAD")
    BY <1>1, <1>3
  <2>2. CASE progress = silent
    BY <1>2, <1>8, <2>2 DEF Going, Tracker, Snapshot
  <2>3. CASE progress = fresh /\ method # "HEAD"
    BY <1>2, <1>10, <2>3 DEF Going, Tracker, Snapshot
  <2> QED
    BY <2>1, <2>2, <2>3
<1>5. PICK phase, was, wire, view, verify, sha1 :
         /\ reader' = [phase |-> phase, file |-> f.id, was |-> was, method |-> method, range |-> range,
                       capabilities |-> caps, wire |-> wire, got |-> <<>>, view |-> view, verify |-> verify,
                       sha1 |-> sha1, queued |-> FALSE, complete |-> FALSE, progress |-> progress]
         /\ phase \in {"refused", "open", "closed"} /\ (phase = "closed" => method = "HEAD")
  <2>1. PICK r, content : r = Response(content, caps, range) /\ content = contents[f.id]
    OBVIOUS
  <2>2. PICK phase : phase = (CASE r.status = 416 -> "refused"
                                [] r.status # 416 /\ method = "HEAD" -> "closed"
                                [] OTHER -> "open")
    OBVIOUS
  <2>3. phase \in {"refused", "open", "closed"} /\ (phase = "closed" => method = "HEAD")
    BY <2>2
  <2>4. reader' = [phase |-> phase, file |-> f.id, was |-> content, method |-> method, range |-> range,
                   capabilities |-> caps, wire |-> IF method = "HEAD" THEN <<>> ELSE r.body, got |-> <<>>,
                   view |-> ParsedHeaders(r), verify |-> Verified(method, range, r.sha1), sha1 |-> r.sha1,
                   queued |-> FALSE, complete |-> FALSE, progress |-> progress]
    BY <1>1, <2>1, <2>2 DEF Answered
  <2> QED
    BY <2>3, <2>4
<1>6. Bytes(<<>>) /\ Len(<<>>) = 0
  <2>1. <<>> \in Seq({})
    OBVIOUS
  <2> QED
    BY <2>1 DEF Bytes
<1>7. ReaderShape(reader')
  BY <1>5 DEF ReaderShape
<1> QED
  BY <1>4, <1>5, <1>6, <1>7 DEF Counting, Going

\* A stream after one of its steps: what was answered stays.
On(r, phase, wire, got, queued, complete, progress) ==
    [phase |-> phase, file |-> r.file, was |-> r.was, method |-> r.method, range |-> r.range,
     capabilities |-> r.capabilities, wire |-> wire, got |-> got, view |-> r.view,
     verify |-> r.verify, sha1 |-> r.sha1, queued |-> queued, complete |-> complete, progress |-> progress]

\* What a step of a stream does to its phase, its body and its progress.
Moved(r, phase, got, complete, p) ==
    \/ /\ r.phase = "open" /\ phase = "failed" /\ got = r.got /\ complete = r.complete
       /\ \E q \in AfterByte(r.progress) : p = Disposed(q)
    \/ /\ r.phase = "open" /\ phase = "open" /\ complete = r.complete
       /\ \E byte : got = Append(r.got, byte)
       /\ p \in AfterByte(r.progress) /\ ~ p.throws
    \/ phase = r.phase /\ got = r.got /\ complete = r.complete /\ p = r.progress
    \/ /\ r.phase = "open" /\ (r.verify => r.got = r.sha1.of) /\ got = r.got /\ complete
       /\ \E q \in AfterPart(r.progress) : phase = (IF q.throws THEN "failed" ELSE "closed") /\ p = Disposed(q)
    \/ /\ r.phase = "open" /\ phase \in {"failed", "cancelled"} /\ got = r.got /\ complete = r.complete
       /\ p = Disposed(r.progress)
    \/ /\ r.phase = "open" /\ phase = "dropped" /\ got = r.got /\ complete = r.complete
       /\ \E q \in AfterPart(Disposed(r.progress)) : p = Disposed(q)
    \/ /\ r.progress.timer /\ phase = r.phase /\ got = r.got /\ complete = r.complete
       /\ \E q \in Emissions(r.progress) : p = [q EXCEPT !.error = q.throws, !.throws = FALSE]

\* Each step of a stream is such a move.
LEMMA StreamTurn ==
    ASSUME ReaderShape(reader), StreamNext
    PROVE  \E phase, wire, got, queued, complete, p :
              reader' = On(reader, phase, wire, got, queued, complete, p) /\ Moved(reader, phase, got, complete, p)
<1> PICK r : r = reader
  OBVIOUS
<1>0. r = [phase |-> r.phase, file |-> r.file, was |-> r.was, method |-> r.method, range |-> r.range,
           capabilities |-> r.capabilities, wire |-> r.wire, got |-> r.got, view |-> r.view,
           verify |-> r.verify, sha1 |-> r.sha1, queued |-> r.queued, complete |-> r.complete,
           progress |-> r.progress]
  BY DEF ReaderShape
<1>1. CASE Chunk
  <2>0. PICK byte \in {0, Head(reader.wire)}, p \in AfterByte(reader.progress) :
          reader' = IF p.throws THEN [reader EXCEPT !.phase = "failed", !.progress = Disposed(p)]
                    ELSE [reader EXCEPT !.wire = Tail(@), !.got = Append(@, byte), !.queued = TRUE, !.progress = p]
    BY <1>1 DEF Chunk
  <2>1. /\ p \in AfterByte(r.progress)
        /\ reader' = IF p.throws THEN [r EXCEPT !.phase = "failed", !.progress = Disposed(p)]
                     ELSE [r EXCEPT !.wire = Tail(@), !.got = Append(@, byte), !.queued = TRUE, !.progress = p]
    BY <2>0
  <2>2. r.phase = "open"
    BY <1>1 DEF Chunk, Pulling
  <2>3. CASE p.throws
    <3>1. PICK d : d = Disposed(p)
      OBVIOUS
    <3>2. reader' = On(r, "failed", r.wire, r.got, r.queued, r.complete, d)
      BY <1>0, <2>1, <2>3, <3>1 DEF On
    <3>3. Moved(r, "failed", r.got, r.complete, d)
      BY <2>1, <2>2, <3>1 DEF Moved
    <3> QED
      BY <3>2, <3>3
  <2>4. CASE ~ p.throws
    <3>1. PICK wire, got : wire = Tail(r.wire) /\ got = Append(r.got, byte)
      OBVIOUS
    <3>2. reader' = On(r, r.phase, wire, got, TRUE, r.complete, p)
      BY <1>0, <2>1, <2>4, <3>1 DEF On
    <3>3. Moved(r, r.phase, got, r.complete, p)
      BY <2>1, <2>2, <2>4, <3>1 DEF Moved
    <3> QED
      BY <3>2, <3>3
  <2> QED
    BY <2>3, <2>4
<1>2. CASE Consume
  <2>1. reader' = On(r, r.phase, r.wire, r.got, FALSE, r.complete, r.progress)
    BY <1>0, <1>2 DEF Consume, On
  <2> QED
    BY <2>1 DEF Moved
<1>3. ASSUME r.phase = "open", NEW ended \in {"failed", "cancelled"},
             reader' = [r EXCEPT !.phase = ended, !.progress = Disposed(@)]
      PROVE  \E phase, wire, got, queued, complete, p :
                reader' = On(r, phase, wire, got, queued, complete, p) /\ Moved(r, phase, got, complete, p)
  <2>1. PICK d : d = Disposed(r.progress)
    OBVIOUS
  <2>2. reader' = On(r, ended, r.wire, r.got, r.queued, r.complete, d)
    BY <1>0, <1>3, <2>1 DEF On
  <2>3. Moved(r, ended, r.got, r.complete, d)
    BY <1>3, <2>1 DEF Moved
  <2> QED
    BY <2>2, <2>3
<1>4. CASE EndOfBody
  <2>1. r.phase = "open"
    BY <1>4 DEF EndOfBody, Pulling
  <2>2. CASE ~ Intact
    BY <1>3, <1>4, <2>1, <2>2 DEF EndOfBody
  <2>3. CASE Intact
    <3>1. PICK q \in AfterPart(r.progress) :
            reader' = [r EXCEPT !.phase = IF q.throws THEN "failed" ELSE "closed", !.complete = TRUE, !.progress = Disposed(q)]
      BY <1>4, <2>3 DEF EndOfBody
    <3>2. PICK phase, d : phase = (IF q.throws THEN "failed" ELSE "closed") /\ d = Disposed(q)
      OBVIOUS
    <3>3. reader' = On(r, phase, r.wire, r.got, r.queued, TRUE, d)
      BY <1>0, <3>1, <3>2 DEF On
    <3>4. Moved(r, phase, r.got, TRUE, d)
      BY <2>1, <2>3, <3>1, <3>2 DEF Moved, Intact
    <3> QED
      BY <3>3, <3>4
  <2> QED
    BY <2>2, <2>3
<1>5. CASE ConnectionBreaks
  BY <1>3, <1>5 DEF ConnectionBreaks, Pulling
<1>6. CASE CancelReading
  BY <1>3, <1>6 DEF CancelReading
<1>8. CASE CancelPendingRead
  <2>1. PICK q \in AfterPart(Disposed(r.progress)) : reader' = [r EXCEPT !.phase = "dropped", !.progress = Disposed(q)]
    BY <1>8 DEF CancelPendingRead
  <2>2. PICK d : d = Disposed(q)
    OBVIOUS
  <2>3. reader' = On(r, "dropped", r.wire, r.got, r.queued, r.complete, d)
    BY <1>0, <2>1, <2>2 DEF On
  <2>4. r.phase = "open" /\ \E x \in AfterPart(Disposed(r.progress)) : d = Disposed(x)
    BY <1>8, <2>1, <2>2 DEF CancelPendingRead, Pulling
  <2>5. Moved(r, "dropped", r.got, r.complete, d)
    BY <2>4 DEF Moved
  <2> QED
    BY <2>3, <2>5
<1>7. CASE TimerFires
  <2>1. PICK q \in Emissions(r.progress) : reader' = [r EXCEPT !.progress = [q EXCEPT !.error = q.throws, !.throws = FALSE]]
    BY <1>7 DEF TimerFires
  <2>2. PICK d : d = [q EXCEPT !.error = q.throws, !.throws = FALSE]
    OBVIOUS
  <2>3. reader' = On(r, r.phase, r.wire, r.got, r.queued, r.complete, d)
    BY <1>0, <2>1, <2>2 DEF On
  <2>4. Moved(r, r.phase, r.got, r.complete, d)
    BY <1>7, <2>1, <2>2 DEF Moved, TimerFires
  <2> QED
    BY <2>3, <2>4
<1> QED
  BY <1>1, <1>2, <1>4, <1>5, <1>6, <1>7, <1>8 DEF StreamNext

\* Each of them keeps the count.
LEMMA MovedCounts ==
    ASSUME NEW r, Counting(r), NEW phase, NEW wire, NEW got, NEW queued, NEW complete, NEW p,
           Moved(r, phase, got, complete, p)
    PROVE  Counting(On(r, phase, wire, got, queued, complete, p))
<1> PICK n : n = On(r, phase, wire, got, queued, complete, p)
  OBVIOUS
<1>1. /\ ReaderShape(n) /\ n.phase = phase /\ n.got = got /\ n.complete = complete /\ n.progress = p
      /\ n.verify = r.verify /\ n.sha1 = r.sha1
  BY DEF On, ReaderShape
<1>2. r.phase = "open" => Going(r.progress) /\ (r.progress.on => r.progress.bytes = Len(r.got))
  BY DEF Counting
<1>3. ASSUME r.phase = "open", NEW q, Tracker(q), q.told.parts # 1, p = Disposed(q),
             phase \in {"failed", "cancelled"}, got = r.got
      PROVE  Counting(n)
  <2>1. Tracker(p) /\ ~ p.timer /\ p.told.parts # 1
    BY <1>3, DisposedFrame
  <2> QED
    BY <1>1, <1>3, <2>1 DEF Counting
<1>4. CASE /\ r.phase = "open" /\ phase = "failed" /\ got = r.got /\ complete = r.complete
           /\ \E q \in AfterByte(r.progress) : p = Disposed(q)
  <2>1. PICK q \in AfterByte(r.progress) : p = Disposed(q)
    BY <1>4
  <2>2. Tracker(q) /\ q.told.parts = 0
    BY <1>2, <1>4, ByteCounted
  <2> QED
    BY <1>3, <1>4, <2>1, <2>2
<1>5. CASE /\ r.phase = "open" /\ phase = "open" /\ complete = r.complete
           /\ \E byte : got = Append(r.got, byte)
           /\ p \in AfterByte(r.progress) /\ ~ p.throws
  <2>1. PICK byte : got = Append(r.got, byte)
    BY <1>5
  <2>2. Bytes(got) /\ Len(got) = Len(r.got) + 1
    BY <2>1, MoreBytes DEF Counting
  <2>3. Going(p) /\ p.on = r.progress.on /\ (p.on => p.bytes = r.progress.bytes + 1)
    BY <1>2, <1>5, ByteCounted
  <2>4. Tracker(p) /\ p.told.parts = 0
    BY <2>3 DEF Going
  <2>5. p.on => p.bytes = Len(got)
    BY <1>2, <1>5, <2>2, <2>3
  <2> QED
    BY <1>1, <1>5, <2>2, <2>3, <2>4, <2>5 DEF Counting
<1>6. CASE phase = r.phase /\ got = r.got /\ complete = r.complete /\ p = r.progress
  BY <1>1, <1>6 DEF Counting
<1>7. CASE /\ r.phase = "open" /\ (r.verify => r.got = r.sha1.of) /\ got = r.got /\ complete
           /\ \E q \in AfterPart(r.progress) : phase = (IF q.throws THEN "failed" ELSE "closed") /\ p = Disposed(q)
  <2>1. PICK q \in AfterPart(r.progress) : phase = (IF q.throws THEN "failed" ELSE "closed") /\ p = Disposed(q)
    BY <1>7
  <2>2. /\ Tracker(q) /\ q.on = r.progress.on
        /\ ~ q.throws /\ r.progress.on => q.told = [bytes |-> r.progress.bytes, parts |-> 1]
        /\ q.told.parts = 1 => q.told.bytes = Len(got)
    BY <1>2, <1>7, PartCounted
  <2>3. Tracker(p) /\ ~ p.timer /\ p.told = q.told /\ p.on = q.on
    BY <2>1, <2>2, DisposedFrame
  <2>4. phase = "closed" /\ p.on => p.told = [bytes |-> Len(got), parts |-> 1]
    BY <1>2, <1>7, <2>1, <2>2, <2>3
  <2> QED
    BY <1>1, <1>7, <2>1, <2>2, <2>3, <2>4 DEF Counting
<1>8. CASE /\ r.phase = "open" /\ phase \in {"failed", "cancelled"} /\ got = r.got /\ complete = r.complete
           /\ p = Disposed(r.progress)
  BY <1>2, <1>3, <1>8 DEF Going
<1>9. CASE /\ r.phase = "open" /\ phase = "dropped" /\ got = r.got /\ complete = r.complete
           /\ \E q \in AfterPart(Disposed(r.progress)) : p = Disposed(q)
  <2>1. PICK d, q : d = Disposed(r.progress) /\ q \in AfterPart(d) /\ p = Disposed(q)
    BY <1>9
  <2>2. Going(d) /\ d.on = r.progress.on /\ d.bytes = r.progress.bytes
    BY <1>2, <1>9, <2>1, DisposedFrame DEF Going
  <2>3. Tracker(q) /\ (q.told.parts = 1 => d.on /\ q.told.bytes = d.bytes)
    BY <2>1, <2>2, PartCounted
  <2>4. Tracker(p) /\ ~ p.timer /\ p.told = q.told
    BY <2>1, <2>3, DisposedFrame
  <2>5. p.told.parts = 1 => p.told.bytes = Len(got)
    BY <1>2, <1>9, <2>2, <2>3, <2>4
  <2> QED
    BY <1>1, <1>9, <2>4, <2>5 DEF Counting
<1>10. CASE /\ r.progress.timer /\ phase = r.phase /\ got = r.got /\ complete = r.complete
            /\ \E q \in Emissions(r.progress) : p = [q EXCEPT !.error = q.throws, !.throws = FALSE]
  <2>1. PICK q \in Emissions(r.progress) : p = [q EXCEPT !.error = q.throws, !.throws = FALSE]
    BY <1>10
  <2>2. r.phase = "open" /\ Tracker(r.progress)
    BY <1>10 DEF Counting
  <2>3. /\ Tracker(q) /\ ~ q.timer /\ q.told = [bytes |-> r.progress.bytes, parts |-> r.progress.parts]
        /\ q.on = r.progress.on /\ q.bytes = r.progress.bytes /\ q.parts = r.progress.parts
    BY <2>2, Emitted
  <2>4. p = [on |-> q.on, bytes |-> q.bytes, parts |-> q.parts, told |-> q.told, begun |-> q.begun,
             timer |-> q.timer, error |-> q.throws, throws |-> FALSE]
    BY <2>1, <2>3 DEF Tracker
  <2>5. Tracker(p) /\ p.told = q.told /\ p.on = q.on /\ p.bytes = q.bytes /\ p.parts = q.parts /\ ~ p.throws
    BY <2>3, <2>4 DEF Tracker
  <2>6. Going(p) /\ (p.on => p.bytes = Len(got))
    BY <1>2, <1>10, <2>2, <2>3, <2>5 DEF Going
  <2> QED
    BY <1>1, <1>10, <2>2, <2>5, <2>6 DEF Counting, Going
<1> QED
  BY <1>4, <1>5, <1>6, <1>7, <1>8, <1>9, <1>10 DEF Moved

\* And so does every step of the service.
LEMMA CountStep == CountInv /\ [Next]_vars => CountInv'
<1> SUFFICES ASSUME CountInv, [Next]_vars PROVE CountInv'
  OBVIOUS
<1>1. CASE reader' = reader
  BY <1>1 DEF CountInv
<1>2. CASE StreamNext
  <2>1. Counting(reader)
    BY <1>2 DEF CountInv, StreamNext
  <2>2. PICK phase, wire, got, queued, complete, p :
          reader' = On(reader, phase, wire, got, queued, complete, p) /\ Moved(reader, phase, got, complete, p)
    BY <1>2, <2>1, StreamTurn DEF Counting
  <2>3. Counting(reader')
    BY <2>1, <2>2, MovedCounts
  <2> QED
    BY <2>3 DEF CountInv
<1>3. ASSUME NEW f, NEW caps, NEW range, NEW headers, NEW method \in {"GET", "HEAD"}, Answer(f, caps, method, range, headers)
      PROVE  CountInv'
  BY <1>3, AnswerCounts DEF CountInv
<1> QED
  BY <1>1, <1>2, <1>3, ReaderTurn

\* Nothing is put off of a download that has ended, however it did.  A part that is told to be
\* complete was told with every byte that came, and its body was read to the end and checked, or its
\* reader cancelled while a read was pending; and every body read to its end is told to the last
\* byte (streams/progress.ts, download/checksum.ts, download/single.ts).
THEOREM ProgressEndsThere == Spec => []ProgressEndsWithTheBody
<1>1. Init => CountInv
  BY DEF Init, CountInv
<1>2. CountInv => ProgressEndsWithTheBody
  BY DEF CountInv, Counting, ProgressEndsWithTheBody, Intact
<1> QED
  BY <1>1, <1>2, CountStep, PTL DEF Spec

-----------------------------------------------------------------------------
(* What the files hold.                                                    *)

\* No large file is started in a step, and nothing is added to the files.
NoNewStart == SlotsInv' /\ \A s \in Slot : waiting'[s].op = "start" => waiting'[s] = waiting[s]

\* The handlers that make upload URLs come and go, and the others stay.
OnlyIssues ==
    /\ SlotsInv'
    /\ \A s \in Slot : waiting'[s] = waiting[s] \/ {waiting[s].op, waiting'[s].op} \subseteq {"none", "issue"}

\* What leaves alone what the files hold, though files may go.
CalmFiles ==
    /\ UNCHANGED <<plan, arriving, contents, largeFiles, opened>>
    /\ stored' \subseteq stored /\ unfinished' \subseteq unfinished
    /\ nextId' \in Nat /\ nextId <= nextId'
    /\ NoNewStart /\ OnlyIssues

\* The three ways in which no large file is started.
LEMMA StillNoStart == ASSUME SlotsInv, plan' = plan, waiting' = waiting PROVE NoNewStart /\ OnlyIssues
BY DEF NoNewStart, OnlyIssues, SlotsInv, Slot

LEMMA OtherThanStart ==
    ASSUME SlotsInv, plan' = plan, NEW handler, handler.op # "start", Enter(handler) PROVE NoNewStart
<1>1. SlotsInv' /\ Slot' = Slot
  BY EnterFrame DEF Slot
<1>2. PICK slot : /\ slot \in Slot => waiting'[slot] = handler
                  /\ \A s \in Slot : s # slot => waiting'[s] = waiting[s]
  BY EnterFrame
<1> QED
  BY <1>1, <1>2 DEF NoNewStart

LEMMA NoStartLeft == ASSUME SlotsInv, plan' = plan, NEW s \in Slot, Leave(s) PROVE NoNewStart
BY LeaveFrame DEF NoNewStart, NoHandler

\* A handler that makes an upload URL comes, or goes.
LEMMA IssueEntered ==
    ASSUME SlotsInv, plan' = plan, NEW handler, handler.op = "issue", Enter(handler) PROVE OnlyIssues
<1>1. NoHandler.op = "none"
  BY DEF NoHandler
<1>2. PICK slot \in Slot : /\ SlotsInv' /\ waiting[slot] = NoHandler /\ waiting'[slot] = handler
                           /\ \A s \in Slot : s # slot => waiting'[s] = waiting[s]
  BY EnterFrame
<1> QED
  BY <1>1, <1>2 DEF OnlyIssues

LEMMA IssueLeft ==
    ASSUME SlotsInv, plan' = plan, NEW s \in Slot, waiting[s].op = "issue", Leave(s) PROVE OnlyIssues
<1>1. NoHandler.op = "none"
  BY DEF NoHandler
<1> QED
  BY <1>1, LeaveFrame DEF OnlyIssues

\* The account and its buckets do nothing to what files hold.
LEMMA AccountCalm ==
    ASSUME SlotsInv, nextId \in Nat, AccountNext, UNCHANGED contentVars
    PROVE  CalmFiles
<1> USE DEF bucketVars, keyVars, urlVars, readVars, hookVars, contentVars
<1>1. ASSUME Authorize \/ AdvanceTime \/ FlushHooks \/ FlushRound PROVE CalmFiles
  BY <1>1, StillNoStart, Taken DEF CalmFiles, Authorize, AdvanceTime, FlushHooks, FlushRound
<1>2. ASSUME NEW t, NEW caps, NEW bs, NEW names, NEW expires, CreateKey(t, caps, bs, names, expires)
      PROVE  CalmFiles
  BY <1>2, StillNoStart, Taken DEF CalmFiles, CreateKey
<1>3. ASSUME NEW t, NEW k, DeleteKey(t, k) PROVE CalmFiles
  BY <1>3, StillNoStart DEF CalmFiles, DeleteKey
<1>4. ASSUME NEW t, NEW lock, NEW retention, CreateBucket(t, lock, retention) PROVE CalmFiles
  BY <1>4, StillNoStart, Taken DEF CalmFiles, CreateBucket
<1>5. ASSUME NEW t, NEW b, DeleteBucket(t, b) PROVE CalmFiles
  BY <1>5, StillNoStart DEF CalmFiles, DeleteBucket
<1>6. ASSUME NEW t, NEW b, GetUploadUrl(t, b) PROVE CalmFiles
  <2>1. PICK handler : handler.op = "issue" /\ Enter(handler)
    BY <1>6 DEF GetUploadUrl
  <2> QED
    BY <1>6, <2>1, OtherThanStart, IssueEntered, Taken DEF CalmFiles, GetUploadUrl
<1>7. ASSUME NEW t, NEW b, NEW rules, SetNotificationRules(t, b, rules) PROVE CalmFiles
  BY <1>7, StillNoStart DEF CalmFiles, SetNotificationRules
<1>8. ASSUME NEW t, NEW b, NEW guard, NEW lock, NEW retention, UpdateBucket(t, b, guard, lock, retention)
      PROVE  CalmFiles
  BY <1>8, StillNoStart DEF CalmFiles, UpdateBucket
<1>9. ASSUME NEW t, NEW b, NEW names, NEW life, GetDownloadAuthorization(t, b, names, life) PROVE CalmFiles
  BY <1>9, StillNoStart DEF CalmFiles, GetDownloadAuthorization
<1>10. ASSUME NEW u, ExpireUploadToken(u) \/ InvalidateUploadToken(u) \/ RefuseUpload(u) PROVE CalmFiles
  BY <1>10, StillNoStart DEF CalmFiles, ExpireUploadToken, InvalidateUploadToken, RefuseUpload
<1>11. ASSUME NEW s \in Slot, IssueUploadUrl(s) PROVE CalmFiles
  BY <1>11, NoStartLeft, IssueLeft DEF CalmFiles, IssueUploadUrl
<1>12. ASSUME NEW d, RefuseDownload(d) PROVE CalmFiles
  BY <1>12, StillNoStart DEF CalmFiles, RefuseDownload
<1>13. ASSUME NEW h, HookSettles(h) PROVE CalmFiles
  BY <1>13, StillNoStart DEF CalmFiles, HookSettles
<1> QED
  BY <1>1, <1>2, <1>3, <1>4, <1>5, <1>6, <1>7, <1>8, <1>9, <1>10, <1>11, <1>12, <1>13 DEF AccountNext

\* Nor do its settings and the partner side.
LEMMA SettingsCalm ==
    ASSUME SlotsInv, nextId \in Nat, SettingsNext, UNCHANGED contentVars
    PROVE  CalmFiles
<1> USE DEF bucketVars, keyVars, urlVars, readVars, hookVars, contentVars
<1>1. ASSUME NEW t, NEW lock, NEW request, CreateConfigured(t, lock, request) PROVE CalmFiles
  BY <1>1, StillNoStart, Taken DEF CalmFiles, CreateConfigured, CreateBucket
<1>7. ASSUME NEW t, NEW b, NEW guard, NEW lock, NEW retention, UpdateBucket(t, b, guard, lock, retention)
      PROVE  CalmFiles
  BY <1>7, StillNoStart DEF CalmFiles, UpdateBucket
<1>2. ASSUME NEW byHelper, NEW t, NEW b, NEW request, Update(byHelper, t, b, request) PROVE CalmFiles
  <2>1. CASE UNCHANGED storageVars
    BY <2>1, StillNoStart DEF CalmFiles, storageVars
  <2>2. UNCHANGED storageVars \/ UpdateBucket(t, b, None, "keep", RetentionAsked(request))
    BY <1>2 DEF Update
  <2> QED
    BY <1>7, <2>1, <2>2
<1>3. ASSUME NEW t, NEW b, NEW rules, NotifyOf(t, b, rules) PROVE CalmFiles
  BY <1>3, StillNoStart DEF CalmFiles, NotifyOf, SetNotificationRules
<1>4. ASSUME NEW t, NEW b, NEW edit, Refresh(t, b, edit) PROVE CalmFiles
  BY <1>4, StillNoStart DEF CalmFiles, Refresh, storageVars
<1>5. ASSUME NEW trial, TryRequest(trial) PROVE CalmFiles
  BY <1>5, StillNoStart DEF CalmFiles, TryRequest, storageVars
<1>6. ASSUME HelperWrites PROVE CalmFiles
  <2>1. CASE UNCHANGED storageVars
    BY <2>1, StillNoStart DEF CalmFiles, storageVars
  <2>2. UNCHANGED storageVars \/ Update(TRUE, helper.token, helper.bucket, HelperRequest)
    BY <1>6 DEF HelperWrites
  <2> QED
    BY <1>2, <2>1, <2>2
<1> QED
  BY <1>1, <1>2, <1>3, <1>4, <1>5, <1>6 DEF SettingsNext, Try

\* A step without the storage, and the partner side, are calm too.
LEMMA NothingCalm ==
    ASSUME SlotsInv, nextId \in Nat, UNCHANGED storageVars, UNCHANGED <<arriving, contents, largeFiles, opened>>
    PROVE  CalmFiles
BY StillNoStart DEF CalmFiles, storageVars, bucketVars

LEMMA PartnerCalm ==
    ASSUME SlotsInv, nextId \in Nat, PartnerNext, UNCHANGED contentVars
    PROVE  CalmFiles
BY PartnerTurn, StillNoStart DEF CalmFiles, contentVars

\* What a step is to what the files hold, when somebody looks into them.
FileTurn ==
    \/ CalmFiles
    \/ \E u, name : \E put \in plan.puts : PutFile(u, name, put)
    \/ \E t, b, name, start : StartLargeContents(t, b, name, start)
    \/ \E t, b, name : HideContents(t, b, name)
    \/ \E t, hold : \E f \in stored : Retain(t, f) \/ SetHold(t, f, hold)
    \/ \E t, b, name, copy : \E f \in stored : CopyContents(t, f, b, name, copy)
    \/ \E t, copy : \E n \in Nat \ {0}, source \in stored, f \in unfinished : CopyPart(t, source, f, n, copy)
    \/ \E t, listed : \E f \in unfinished : FinishContents(t, f, listed)
    \/ \E n \in Nat \ {0}, f \in unfinished, put \in plan.puts : PutPart(f, n, put)
    \/ \E s \in Slot : StoreContents(s) \/ AddLargeContents(s) \/ StorePart(s) \/ RefuseArrival(s)
    \/ \E caps, method, range, headers : \E f \in stored : Answer(f, caps, method, range, headers)

\* Whoever looks into the files: a request about them, a large copy, a reader or a search.
LEMMA ContentFileTurn == ASSUME SlotsInv, nextId \in Nat, ContentNext PROVE FileTurn
<1>1. ASSUME NEW t, NEW b, SetDefaultEncryption(t, b) PROVE CalmFiles
  BY <1>1, StillNoStart DEF SetDefaultEncryption, UpdateBucket, CalmFiles
<1>2. ASSUME NEW t, NEW f, DeleteContents(t, f) \/ (CancelLargeFile(t, f) /\ UNCHANGED contentVars) PROVE CalmFiles
  BY <1>2, StillNoStart DEF DeleteContents, DeleteFileVersion, CancelLargeFile, contentVars, CalmFiles
<1>3. (\E u \in signed, name \in Name, put \in plan.puts : PutFile(u, name, put)) => FileTurn
  BY DEF FileTurn
<1>4. ASSUME NEW t,
             \E b \in Live : \/ SetDefaultEncryption(t, b)
                             \/ \E name \in Name : HideContents(t, b, name)
                             \/ \E name \in Name, start \in plan.starts : StartLargeContents(t, b, name, start)
      PROVE  FileTurn
  BY <1>1, <1>4 DEF FileTurn
<1>5. ASSUME NEW t, NEW f \in stored,
             \/ Retain(t, f)
             \/ \E hold \in {"on", "off"} : SetHold(t, f, hold)
             \/ DeleteContents(t, f)
             \/ \E b \in Live, name \in Name, copy \in plan.copies : CopyContents(t, f, b, name, copy)
             \/ \E large \in unfinished, number \in Numbers, copy \in plan.copies : CopyPart(t, f, large, number, copy)
      PROVE  FileTurn
  BY <1>2, <1>5 DEF FileTurn, Numbers
<1>6. ASSUME NEW t, NEW f \in unfinished,
             FinishContents(t, f, Listed(f)) \/ (CancelLargeFile(t, f) /\ UNCHANGED contentVars)
      PROVE  FileTurn
  BY <1>2, <1>6 DEF FileTurn
<1>7. ASSUME \/ \E f \in unfinished, number \in Numbers, put \in plan.puts : PutPart(f, number, put)
             \/ \E s \in Slot : StoreContents(s) \/ AddLargeContents(s) \/ StorePart(s) \/ RefuseArrival(s)
      PROVE  FileTurn
  BY <1>7 DEF FileTurn, Numbers
<1> QED
  BY <1>3, <1>4, <1>5, <1>6, <1>7 DEF ContentNext

LEMMA CopyFileTurn == ASSUME SlotsInv, nextId \in Nat, CopyNext PROVE FileTurn
<1>1. ASSUME SameFiles PROVE FileTurn
  BY <1>1, NothingCalm DEF SameFiles, contentVars, FileTurn
<1>2. ASSUME SendCopy PROVE FileTurn
  BY <1>2 DEF SendCopy, FileTurn
<1>3. ASSUME SendStart PROVE FileTurn
  BY <1>3 DEF SendStart, FileTurn
<1>4. ASSUME NEW n, SendPart(n) PROVE FileTurn
  BY <1>1, <1>4 DEF SendPart, NextPart, PartNumbers, FileTurn
<1>5. ASSUME FinishServed PROVE FileTurn
  BY <1>1, <1>5 DEF FinishServed, FileTurn
<1>6. ASSUME CancelServed PROVE FileTurn
  <2>1. ASSUME NEW t, NEW f, CancelLargeFile(t, f), UNCHANGED contentVars PROVE CalmFiles
    BY <2>1, StillNoStart DEF CancelLargeFile, contentVars, CalmFiles
  <2> QED
    BY <1>1, <1>6, <2>1 DEF CancelServed, FileTurn
<1>7. ASSUME NEW t, NEW f, NEW b, NEW name, NEW ask, CopyLargeFile(t, f, b, name, ask) PROVE FileTurn
  BY <1>1, <1>7 DEF CopyLargeFile
<1>8. ASSUME SizeKnown \/ NotSent \/ RequestFails \/ CallerAborts PROVE FileTurn
  BY <1>1, <1>8 DEF SizeKnown, NotSent, RequestFails, CallerAborts
<1> QED
  BY <1>2, <1>3, <1>4, <1>5, <1>6, <1>7, <1>8 DEF CopyNext

LEMMA ReadFileTurn == ASSUME SlotsInv, nextId \in Nat, ReadNext \/ SearchNext PROVE FileTurn
<1>1. ASSUME NEW t, NEW f \in stored, NEW method, NEW range, NEW headers, ReadWithToken(t, f, method, range, headers)
      PROVE  FileTurn
  BY <1>1 DEF ReadWithToken, FileTurn
<1>2. ASSUME NEW d, NEW name, NEW method, NEW range, NEW headers, ReadWithAuthorization(d, name, method, range, headers)
      PROVE  FileTurn
  BY <1>2 DEF ReadWithAuthorization, Current, FileTurn
<1>3. ASSUME UNCHANGED <<storageVars, contentVars>> PROVE FileTurn
  BY <1>3, NothingCalm DEF contentVars, FileTurn
<1>4. StreamNext \/ SearchNext => UNCHANGED <<storageVars, contentVars>>
  BY DEF StreamNext, Chunk, Consume, EndOfBody, ConnectionBreaks, CancelReading, CancelPendingRead, TimerFires, SameService,
         SearchNext, BeginSearch, ListPage, Choose, ListPartsPage, SearchFails
<1> QED
  BY <1>1, <1>2, <1>3, <1>4 DEF ReadNext

\* Every step is one of these.
LEMMA FileStep == ASSUME SlotsInv, nextId \in Nat, May("contents"), [Next]_vars PROVE FileTurn
<1>1. UNCHANGED fileVars => UNCHANGED contentVars
  BY DEF fileVars
<1>2. CASE UNCHANGED vars
  BY <1>2, NothingCalm DEF vars, fileVars, contentVars, FileTurn
<1>3. ASSUME CalmFiles PROVE FileTurn
  BY <1>3 DEF FileTurn
<1> QED
  BY <1>1, <1>2, <1>3, AccountCalm, SettingsCalm, PartnerCalm, ContentFileTurn, CopyFileTurn, ReadFileTurn DEF Next

\* What is kept of a file, and of a large file.
Sealing(c) == c = [data |-> c.data, sha1 |-> c.sha1, sse |-> c.sse, meant |-> c.meant, lock |-> c.lock, hidden |-> c.hidden]

\* A digest that is known is of what the uploader sent.
Honest(c) == Sealing(c) /\ (c.sha1.known => c.sha1.of = c.meant)

\* A large file has no digest of its own.
Unfinished(l) ==
    /\ l = [since |-> l.since, content |-> l.content, info |-> l.info, parts |-> l.parts]
    /\ Sealing(l.content) /\ ~ l.content.sha1.known

\* Whoever has the key.
HasTheKey(c, key) == c.sse.mode = "SSE-C" => key = c.sse.key

\* What a handler of that kind may bring.
Welcome(a, op) ==
    /\ Honest(a.content) /\ (op = "start" => ~ a.content.sha1.known)
    /\ a.from # None => a.from \in DOMAIN contents /\ HasTheKey(contents[a.from], a.key)

\* Every file has its content, and a large file, a handler and a reader have theirs.
ContentsInv ==
    /\ contents = [i \in DOMAIN contents |-> contents[i]]
    /\ \A i \in DOMAIN contents : i \in Nat /\ i < nextId /\ Honest(contents[i])
    /\ \A f \in stored : f.id \in DOMAIN contents

LargeInv ==
    /\ largeFiles = [i \in DOMAIN largeFiles |-> largeFiles[i]]
    /\ \A i \in DOMAIN largeFiles : Unfinished(largeFiles[i])
    /\ \A f \in unfinished : f.id \in DOMAIN largeFiles

ArrivingInv ==
    /\ arriving = [s \in Slot |-> arriving[s]]
    /\ \A s \in Slot : Welcome(arriving[s], waiting[s].op)

OpenedInv == \A o \in opened : o.file \in DOMAIN contents /\ HasTheKey(contents[o.file], o.key)

\* The invariant of what the files hold.
FilesInv ==
    /\ plan \in Plan
    /\ IF May("contents") THEN ContentsInv /\ LargeInv /\ ArrivingInv /\ OpenedInv
       ELSE opened = {} /\ reader = NoReader /\ call = NoCall

\* Files stay under the encryption they have.
SealsStay == \A i \in DOMAIN contents : i \in DOMAIN contents' /\ contents'[i].sse = contents[i].sse

\* Who had the key has it.
LEMMA KeysStay ==
    ASSUME SealsStay
    PROVE  /\ OpenedInv /\ opened' = opened => OpenedInv'
           /\ \A a, op : Welcome(a, op) => Welcome(a, op)'
BY DEF SealsStay, OpenedInv, Welcome, HasTheKey

\* An empty slot, and a hide marker, bring nothing.
LEMMA NothingArrives == ASSUME NEW op PROVE Welcome(NoArrival, op) /\ Honest(HideMarker)
<1>1. PICK m : m = HideMarker
  OBVIOUS
<1>2. m = [data |-> <<>>, sha1 |-> NoSha1, sse |-> Plain, meant |-> <<>>, lock |-> NoLock, hidden |-> TRUE]
  BY <1>1 DEF HideMarker, Content
<1>3. Honest(m) /\ ~ m.sha1.known
  BY <1>2 DEF Honest, Sealing, NoSha1
<1> QED
  BY <1>1, <1>3 DEF Welcome, NoArrival

\* A handler comes with what it will store, leaves, or stays.
LEMMA ArriveKeeps ==
    ASSUME SlotsInv, ArrivingInv, plan' = plan, contents' = contents, NEW handler, Enter(handler),
           NEW arrival, Arrive(arrival), arrival.ok => Welcome(arrival, handler.op)
    PROVE  ArrivingInv'
<1>1. PICK slot : /\ slot \in Slot => waiting'[slot] = handler
                  /\ \A s \in Slot : s # slot => waiting'[s] = waiting[s]
  BY EnterFrame
<1>2. Slot' = Slot
  BY DEF Slot
<1>3. arriving' = [s \in Slot |-> IF waiting'[s] = waiting[s] THEN arriving[s]
                                  ELSE IF arrival.ok THEN arrival ELSE NoArrival]
  BY DEF Arrive
<1>4. ASSUME NEW s \in Slot PROVE Welcome(arriving'[s], waiting'[s].op)
  <2>1. CASE waiting'[s] = waiting[s]
    BY <1>3, <2>1 DEF ArrivingInv
  <2>2. CASE waiting'[s] # waiting[s]
    <3>1. s = slot /\ waiting'[s] = handler
      BY <1>1, <2>2
    <3>2. arriving'[s] = IF arrival.ok THEN arrival ELSE NoArrival
      BY <1>3, <2>2
    <3> QED
      BY <3>1, <3>2, NothingArrives
  <2> QED
    BY <2>1, <2>2
<1> QED
  BY <1>2, <1>3, <1>4 DEF ArrivingInv, Welcome

LEMMA ArrivedKeeps ==
    ASSUME SlotsInv, ArrivingInv, plan' = plan, SealsStay, NEW s \in Slot, Leave(s), Arrived(s)
    PROVE  ArrivingInv'
<1>1. waiting' = [x \in Slot |-> IF x = s THEN NoHandler ELSE waiting[x]]
  BY LeaveFrame
<1>2. arriving' = [x \in Slot |-> IF x = s THEN NoArrival ELSE arriving[x]] /\ Slot' = Slot
  BY DEF Arrived, ArrivingInv, Slot
<1>3. \A x \in Slot : Welcome(arriving'[x], waiting'[x].op)
  BY <1>1, <1>2, NothingArrives DEF ArrivingInv
<1> QED
  BY <1>2, <1>3, KeysStay DEF ArrivingInv

LEMMA SameArrivals ==
    ASSUME ArrivingInv, SealsStay, plan' = plan, arriving' = arriving, NoNewStart PROVE ArrivingInv'
<1>1. Slot' = Slot
  BY DEF Slot
<1>2. \A s \in Slot : Welcome(arriving[s], waiting'[s].op)
  BY DEF ArrivingInv, NoNewStart, Welcome
<1> QED
  BY <1>1, <1>2, KeysStay DEF ArrivingInv

\* A file with what it holds.
LEMMA ContentAdded ==
    ASSUME nextId \in Nat, ContentsInv, NEW c, Honest(c), contents' = With(contents, nextId, c), nextId' = nextId + 1,
           NEW file, file.id = nextId, stored' \subseteq stored \cup {file}
    PROVE  ContentsInv' /\ SealsStay
<1>1. /\ contents' = [i \in DOMAIN contents \cup {nextId} |-> IF i = nextId THEN c ELSE contents[i]]
      /\ nextId \notin DOMAIN contents
  BY DEF With, ContentsInv
<1>2. contents' = [i \in DOMAIN contents' |-> contents'[i]] /\ DOMAIN contents' = DOMAIN contents \cup {nextId}
  BY <1>1
<1>3. \A i \in DOMAIN contents' : i \in Nat /\ i < nextId' /\ Honest(contents'[i])
  BY <1>1 DEF ContentsInv
<1>4. \A f \in stored' : f.id \in DOMAIN contents'
  BY <1>2 DEF ContentsInv
<1> QED
  BY <1>1, <1>2, <1>3, <1>4 DEF ContentsInv, SealsStay

\* A lock is set.
LEMMA LockSet ==
    ASSUME ContentsInv, NEW i \in DOMAIN contents, NEW v, contents' = [contents EXCEPT ![i] = [contents[i] EXCEPT !.lock = v]],
           nextId' = nextId, stored' = stored
    PROVE  ContentsInv' /\ SealsStay
<1>1. PICK old, new : old = contents[i] /\ new = [old EXCEPT !.lock = v]
  OBVIOUS
<1>2. Honest(old)
  BY <1>1 DEF ContentsInv
<1>3. new = [data |-> old.data, sha1 |-> old.sha1, sse |-> old.sse, meant |-> old.meant, lock |-> v, hidden |-> old.hidden]
  BY <1>1, <1>2 DEF Honest, Sealing
<1>4. Honest(new) /\ new.sse = old.sse
  BY <1>2, <1>3 DEF Honest, Sealing
<1>5. contents' = [x \in DOMAIN contents |-> IF x = i THEN new ELSE contents[x]]
  BY <1>1 DEF ContentsInv
<1> QED
  BY <1>1, <1>4, <1>5 DEF ContentsInv, SealsStay

\* What an uploader sends is put as it is, or refused.
LEMMA PutsAreHonest ==
    ASSUME NEW put, put.mode \in {"none", "unverified", "hex", "at_end"}, NEW data, NEW sse, NEW lock,
           DigestFits(put.mode, put.data, data)
    PROVE  Honest(Content(data, ResolvedSha1(put.mode, put.data, data), sse, put.data, lock))
<1>1. PICK sha1 : sha1 = ResolvedSha1(put.mode, put.data, data)
  OBVIOUS
<1>2. sha1 = NoSha1 \/ sha1 = Sha1(put.data)
  BY <1>1 DEF ResolvedSha1, DigestFits
<1>3. sha1.known => sha1.of = put.data
  BY <1>2 DEF NoSha1, Sha1
<1>4. Content(data, sha1, sse, put.data, lock) =
         [data |-> data, sha1 |-> sha1, sse |-> sse, meant |-> put.data, lock |-> lock, hidden |-> FALSE]
  BY DEF Content
<1> QED
  BY <1>1, <1>3, <1>4 DEF Honest, Sealing

\* So is a copy: a whole one has the digest of its source, a part of it another.
LEMMA CopiesAreHonest ==
    ASSUME NEW source, Honest(source), NEW range, NEW sse PROVE Honest(Copied(source, range, sse))
<1>1. CASE range = Whole
  <2>1. Copied(source, range, sse) = [data |-> source.data, sha1 |-> source.sha1, sse |-> sse, meant |-> source.meant,
                                      lock |-> NoLock, hidden |-> FALSE]
    BY <1>1 DEF Copied, Content
  <2> QED
    BY <2>1 DEF Honest, Sealing
<1>2. CASE range # Whole
  <2>1. PICK slice : Copied(source, range, sse) = Content(slice, Sha1(slice), sse, slice, NoLock)
    BY <1>2 DEF Copied
  <2>2. Copied(source, range, sse) = [data |-> slice, sha1 |-> Sha1(slice), sse |-> sse, meant |-> slice,
                                      lock |-> NoLock, hidden |-> FALSE]
    BY <2>1 DEF Content
  <2> QED
    BY <2>2 DEF Honest, Sealing, Sha1
<1> QED
  BY <1>1, <1>2

\* A source is only read with its key.
LEMMA SourceNeedsKey ==
    ASSUME NEW e, NEW s, SourceAccepted(e, s) PROVE e.mode = "SSE-C" => s.key = e.key
<1> SUFFICES ASSUME e.mode = "SSE-C" PROVE s.key = e.key
  OBVIOUS
<1>1. e = StoredEncryption(s) /\ s.mode = "SSE-C"
  BY DEF SourceAccepted, SameEncryption
<1>2. e = Customer(s.key)
  BY <1>1 DEF StoredEncryption, Refused
<1> QED
  BY <1>2 DEF Customer

\* And so is a file.
LEMMA ReaderNeedsKey ==
    ASSUME NEW e, NEW h, DownloadAccepted(e, h) PROVE e.mode = "SSE-C" => h.key = e.key
BY DEF DownloadAccepted, SameEncryption, Customer

\* A copied part has the digest of its own bytes.
LEMMA ByTheirPart == ASSUME NEW c, Honest(c), NEW d PROVE Honest([c EXCEPT !.sha1 = Sha1(d), !.meant = d])
<1>1. PICK n : n = [c EXCEPT !.sha1 = Sha1(d), !.meant = d]
  OBVIOUS
<1>2. PICK sha1 : sha1 = Sha1(d)
  OBVIOUS
<1>3. n = [data |-> c.data, sha1 |-> sha1, sse |-> c.sse, meant |-> d, lock |-> c.lock, hidden |-> c.hidden]
  BY <1>1, <1>2 DEF Honest, Sealing
<1> QED
  BY <1>1, <1>2, <1>3 DEF Honest, Sealing, Sha1

\* Whoever has copied a file had its key.
LEMMA OpenedWithKeys ==
    ASSUME ArrivingInv, OpenedInv, NEW s \in Slot, opened' = OpenedBy(arriving[s]), SealsStay PROVE OpenedInv'
<1>1. ASSUME NEW o \in opened' PROVE o.file \in DOMAIN contents /\ HasTheKey(contents[o.file], o.key)
  <2>1. o \in opened \/ (arriving[s].from # None /\ o = [file |-> arriving[s].from, key |-> arriving[s].key])
    BY DEF OpenedBy
  <2> QED
    BY <2>1 DEF OpenedInv, ArrivingInv, Welcome
<1> QED
  BY <1>1 DEF SealsStay, OpenedInv, HasTheKey

\* What is known of the files when somebody looks into them.
LookedInto == ContentsInv /\ LargeInv /\ ArrivingInv /\ OpenedInv

\* Files that go take nothing with them.
LEMMA SameContents ==
    ASSUME ContentsInv, contents' = contents, stored' \subseteq stored, nextId \in Nat, nextId' \in Nat, nextId <= nextId'
    PROVE  ContentsInv' /\ SealsStay
BY DEF ContentsInv, SealsStay

LEMMA SameLarge ==
    ASSUME LargeInv, largeFiles' = largeFiles, unfinished' \subseteq unfinished PROVE LargeInv'
BY DEF LargeInv

\* A handler is entered with what it will store: the rest stays.
LEMMA EnteredLooked ==
    ASSUME SlotsInv, nextId \in Nat, LookedInto, UNCHANGED <<plan, contents, largeFiles, opened, stored, unfinished>>,
           nextId' \in Nat, nextId <= nextId',
           NEW handler, Enter(handler), NEW arrival, Arrive(arrival), arrival.ok => Welcome(arrival, handler.op)
    PROVE  LookedInto'
<1>1. ContentsInv' /\ SealsStay
  BY SameContents DEF LookedInto
<1>2. LargeInv'
  BY SameLarge DEF LookedInto
<1>3. ArrivingInv'
  BY ArriveKeeps DEF LookedInto
<1>4. OpenedInv'
  BY <1>1, KeysStay DEF LookedInto
<1> QED
  BY <1>1, <1>2, <1>3, <1>4 DEF LookedInto

\* What each request does to the files: it enters a handler ...
LEMMA PutLooked ==
    ASSUME SlotsInv, nextId \in Nat, plan \in Plan, LookedInto, NEW u, NEW name, NEW put \in plan.puts, PutFile(u, name, put)
    PROVE  LookedInto'
<1>1. put.mode \in {"none", "unverified", "hex", "at_end"}
  BY PlanAssumption
<1>2. PICK data, sse :
         Arrive([ok |-> LengthFits(put, data) /\ DigestFits(put.mode, put.data, data) /\ sse # Refused,
                 content |-> Content(data, ResolvedSha1(put.mode, put.data, data), sse, put.data, NoLock),
                 from |-> None, key |-> Absent, info |-> None])
  BY DEF PutFile
<1>3. PICK arrival : arrival = [ok |-> LengthFits(put, data) /\ DigestFits(put.mode, put.data, data) /\ sse # Refused,
                                content |-> Content(data, ResolvedSha1(put.mode, put.data, data), sse, put.data, NoLock),
                                from |-> None, key |-> Absent, info |-> None]
  OBVIOUS
<1>4. arrival.ok => Welcome(arrival, "store")
  <2> SUFFICES ASSUME arrival.ok PROVE Welcome(arrival, "store")
    OBVIOUS
  <2>1. DigestFits(put.mode, put.data, data)
    BY <1>3
  <2>2. Honest(Content(data, ResolvedSha1(put.mode, put.data, data), sse, put.data, NoLock))
    BY <1>1, <2>1, PutsAreHonest
  <2> QED
    BY <1>3, <2>2 DEF Welcome
<1>5. PICK handler : handler.op = "store" /\ Enter(handler)
  BY DEF PutFile, UploadFile
<1>6. UNCHANGED <<plan, contents, largeFiles, opened, stored, unfinished, nextId>>
  BY DEF PutFile, UploadFile, bucketVars
<1> QED
  BY <1>2, <1>3, <1>4, <1>5, <1>6, EnteredLooked

LEMMA CopyLooked ==
    ASSUME SlotsInv, nextId \in Nat, LookedInto, NEW t, NEW f \in stored, NEW b, NEW name, NEW copy,
           CopyContents(t, f, b, name, copy)
    PROVE  LookedInto'
<1> PICK source : source = contents[f.id]
  OBVIOUS
<1>1. f.id \in DOMAIN contents /\ Honest(source)
  BY DEF LookedInto, ContentsInv
<1>2. PICK sse, arrival :
         /\ arrival = [ok |-> SourceAccepted(source.sse, copy.source) /\ sse # Refused /\ RangeAccepted(source, copy.range),
                       content |-> Copied(source, copy.range, sse), from |-> f.id, key |-> copy.source.key, info |-> None]
         /\ Arrive(arrival)
  BY DEF CopyContents
<1>3. Honest(arrival.content) /\ arrival.from = f.id /\ (arrival.ok => HasTheKey(source, arrival.key))
  BY <1>1, <1>2, CopiesAreHonest, SourceNeedsKey DEF HasTheKey
<1>4. arrival.ok => Welcome(arrival, "store")
  BY <1>1, <1>3 DEF Welcome
<1>5. PICK handler : handler.op = "store" /\ Enter(handler)
  BY DEF CopyContents, CopyFile
<1>6. UNCHANGED <<plan, contents, largeFiles, opened, stored, unfinished, nextId>>
  BY DEF CopyContents, CopyFile, bucketVars
<1> QED
  BY <1>2, <1>4, <1>5, <1>6, EnteredLooked

LEMMA StartLooked ==
    ASSUME SlotsInv, nextId \in Nat, LookedInto, NEW t, NEW b, NEW name, NEW start, StartLargeContents(t, b, name, start)
    PROVE  LookedInto'
<1>1. PICK sse, lock, arrival :
         /\ arrival = [ok |-> sse # Refused, content |-> Content(<<>>, NoSha1, sse, <<>>, lock),
                       from |-> None, key |-> Absent, info |-> start.info]
         /\ Arrive(arrival)
  BY DEF StartLargeContents
<1>2. Content(<<>>, NoSha1, sse, <<>>, lock) =
         [data |-> <<>>, sha1 |-> NoSha1, sse |-> sse, meant |-> <<>>, lock |-> lock, hidden |-> FALSE]
  BY DEF Content
<1>3. Honest(arrival.content) /\ ~ arrival.content.sha1.known /\ arrival.from = None
  BY <1>1, <1>2 DEF Honest, Sealing, NoSha1
<1>4. Welcome(arrival, "start")
  BY <1>3 DEF Welcome
<1>5. PICK handler : handler.op = "start" /\ Enter(handler)
  BY DEF StartLargeContents, StartLargeFile
<1>6. UNCHANGED <<plan, contents, largeFiles, opened, stored, unfinished>> /\ nextId' \in Nat /\ nextId <= nextId'
  BY Taken DEF StartLargeContents, StartLargeFile, bucketVars
<1> QED
  BY <1>1, <1>4, <1>5, <1>6, EnteredLooked

LEMMA PutPartLooked ==
    ASSUME SlotsInv, nextId \in Nat, plan \in Plan, LookedInto, NEW f, NEW n, NEW put \in plan.puts, PutPart(f, n, put)
    PROVE  LookedInto'
<1>1. put.mode \in {"none", "unverified", "hex", "at_end"}
  BY PlanAssumption
<1>2. PICK data, arrival :
         /\ arrival = [ok |-> PartAccepted(largeFiles[f.id].content.sse, put.headers)
                                /\ LengthFits(put, data) /\ DigestFits(put.mode, put.data, data),
                       content |-> Content(data, ResolvedSha1(put.mode, put.data, data), Plain, put.data, NoLock),
                       from |-> None, key |-> Absent, info |-> None]
         /\ Arrive(arrival)
  BY DEF PutPart
<1>3. arrival.ok => Welcome(arrival, "part")
  <2> SUFFICES ASSUME arrival.ok PROVE Welcome(arrival, "part")
    OBVIOUS
  <2>1. DigestFits(put.mode, put.data, data)
    BY <1>2
  <2>2. Honest(Content(data, ResolvedSha1(put.mode, put.data, data), Plain, put.data, NoLock))
    BY <1>1, <2>1, PutsAreHonest
  <2> QED
    BY <1>2, <2>2 DEF Welcome
<1>4. PICK handler : handler.op = "part" /\ Enter(handler)
  BY DEF PutPart
<1>5. UNCHANGED <<plan, contents, largeFiles, opened, stored, unfinished, nextId>>
  BY DEF PutPart, SameStorage, bucketVars
<1> QED
  BY <1>2, <1>3, <1>4, <1>5, EnteredLooked

LEMMA CopyPartLooked ==
    ASSUME SlotsInv, nextId \in Nat, LookedInto, NEW t, NEW source \in stored, NEW f, NEW n, NEW copy,
           CopyPart(t, source, f, n, copy)
    PROVE  LookedInto'
<1> PICK from, c : from = contents[source.id] /\ c = Copied(from, copy.range, Plain)
  OBVIOUS
<1>1. source.id \in DOMAIN contents /\ Honest(from)
  BY DEF LookedInto, ContentsInv
<1>2. PICK content : content = [c EXCEPT !.sha1 = Sha1(c.data), !.meant = c.data]
  OBVIOUS
<1>3. Honest(content)
  BY <1>1, <1>2, CopiesAreHonest, ByTheirPart
<1>4. PICK arrival :
         /\ arrival = [ok |-> /\ SourceAccepted(from.sse, copy.source)
                              /\ PartDestinationAccepted(largeFiles[f.id].content.sse, copy.destination)
                              /\ RangeAccepted(from, copy.range),
                       content |-> content, from |-> source.id, key |-> copy.source.key, info |-> None]
         /\ Arrive(arrival)
  BY <1>2 DEF CopyPart
<1>5. arrival.ok => Welcome(arrival, "part")
  BY <1>1, <1>3, <1>4, SourceNeedsKey DEF Welcome, HasTheKey
<1>6. PICK handler : handler.op = "part" /\ Enter(handler)
  BY DEF CopyPart
<1>7. UNCHANGED <<plan, contents, largeFiles, opened, stored, unfinished, nextId>>
  BY DEF CopyPart, SameStorage, bucketVars
<1> QED
  BY <1>4, <1>5, <1>6, <1>7, EnteredLooked

\* A file has the id it was given.
LEMMA NewId == ASSUME NEW id, NEW b, NEW name PROVE File(id, b, name).id = id
BY DEF File

\* ... or leaves them alone, changes them at once, or is a handler that leaves.
LEMMA CalmLooked == ASSUME nextId \in Nat, LookedInto, CalmFiles PROVE LookedInto'
<1>1. ContentsInv' /\ SealsStay
  BY SameContents DEF LookedInto, CalmFiles
<1>2. LargeInv'
  BY SameLarge DEF LookedInto, CalmFiles
<1>3. ArrivingInv'
  BY <1>1, SameArrivals DEF LookedInto, CalmFiles
<1>4. OpenedInv'
  BY <1>1, KeysStay DEF LookedInto, CalmFiles
<1> QED
  BY <1>1, <1>2, <1>3, <1>4 DEF LookedInto

LEMMA HideLooked ==
    ASSUME SlotsInv, nextId \in Nat, LookedInto, NEW t, NEW b, NEW name, HideContents(t, b, name) PROVE LookedInto'
<1>1. ContentsInv' /\ SealsStay
  <2>1. nextId' = nextId + 1 /\ stored' = stored \cup {File(nextId, b, name)} /\ contents' = With(contents, nextId, HideMarker)
    BY DEF HideContents, HideFile, Take
  <2>2. PICK file, c : file = File(nextId, b, name) /\ c = HideMarker
    OBVIOUS
  <2>3. file.id = nextId /\ Honest(c)
    BY <2>2, NewId, NothingArrives
  <2> QED
    BY <2>1, <2>2, <2>3, ContentAdded DEF LookedInto
<1>2. UNCHANGED <<plan, arriving, largeFiles, opened, unfinished, waiting>>
  BY DEF HideContents, HideFile
<1>3. ArrivingInv'
  BY <1>1, <1>2, SameArrivals, StillNoStart DEF LookedInto
<1> QED
  BY <1>1, <1>2, <1>3, SameLarge, KeysStay DEF LookedInto

LEMMA LockLooked ==
    ASSUME SlotsInv, LookedInto, NEW t, NEW f \in stored, NEW hold, Retain(t, f) \/ SetHold(t, f, hold) PROVE LookedInto'
<1>1. f.id \in DOMAIN contents
  BY DEF LookedInto, ContentsInv
<1>2. UNCHANGED <<plan, nextId, stored, unfinished, waiting, arriving, largeFiles, opened>>
  BY DEF Retain, SetHold, storageVars, bucketVars
<1>3. \E v : contents' = [contents EXCEPT ![f.id] = [contents[f.id] EXCEPT !.lock = v]]
  BY <1>1 DEF Retain, SetHold
<1>4. ContentsInv' /\ SealsStay
  BY <1>1, <1>2, <1>3, LockSet DEF LookedInto
<1>5. ArrivingInv'
  BY <1>2, <1>4, SameArrivals, StillNoStart DEF LookedInto
<1> QED
  BY <1>2, <1>4, <1>5, SameLarge, KeysStay DEF LookedInto

LEMMA FinishLooked ==
    ASSUME SlotsInv, nextId \in Nat, LookedInto, NEW t, NEW f \in unfinished, NEW listed, FinishContents(t, f, listed)
    PROVE  LookedInto'
<1>1. ContentsInv' /\ SealsStay
  <2>1. PICK old, data, meant, c :
           /\ old = largeFiles[f.id].content /\ c = [old EXCEPT !.data = data, !.meant = meant]
           /\ contents' = With(contents, nextId, c)
    BY DEF FinishContents
  <2>2. Sealing(old) /\ ~ old.sha1.known
    BY <2>1 DEF LookedInto, LargeInv, Unfinished
  <2>3. c = [data |-> data, sha1 |-> old.sha1, sse |-> old.sse, meant |-> meant, lock |-> old.lock, hidden |-> old.hidden]
    BY <2>1, <2>2 DEF Sealing
  <2>4. Honest(c)
    BY <2>2, <2>3 DEF Honest, Sealing
  <2>5. PICK file : file = File(nextId, f.bucket, f.name)
    OBVIOUS
  <2>7. file.id = nextId
    BY <2>5, NewId
  <2>6. nextId' = nextId + 1 /\ stored' = stored \cup {file}
    BY <2>5 DEF FinishContents, FinishLargeFile, Take
  <2> QED
    BY <2>1, <2>4, <2>6, <2>7, ContentAdded DEF LookedInto
<1>2. UNCHANGED <<plan, arriving, largeFiles, opened, waiting>> /\ unfinished' \subseteq unfinished
  BY DEF FinishContents, FinishLargeFile
<1>3. ArrivingInv'
  BY <1>1, <1>2, SameArrivals, StillNoStart DEF LookedInto
<1> QED
  BY <1>1, <1>2, <1>3, SameLarge, KeysStay DEF LookedInto

LEMMA StoreLooked ==
    ASSUME SlotsInv, nextId \in Nat, LookedInto, NEW s \in Slot, StoreContents(s) PROVE LookedInto'
<1>1. ContentsInv' /\ SealsStay
  <2>1. PICK file : file = File(nextId, waiting[s].bucket, waiting[s].name)
    OBVIOUS
  <2>4. file.id = nextId
    BY <2>1, NewId
  <2>2. nextId' = nextId + 1 /\ stored' \subseteq stored \cup {file} /\ contents' = With(contents, nextId, arriving[s].content)
    BY <2>1 DEF StoreContents, StoreFile, Take
  <2>3. Honest(arriving[s].content)
    BY DEF LookedInto, ArrivingInv, Welcome
  <2> QED
    BY <2>2, <2>3, <2>4, ContentAdded DEF LookedInto
<1>2. UNCHANGED <<plan, largeFiles, unfinished>>
  BY DEF StoreContents, StoreFile
<1>3. Leave(s) /\ Arrived(s) /\ opened' = OpenedBy(arriving[s])
  BY DEF StoreContents, StoreFile
<1>4. ArrivingInv' /\ OpenedInv'
  BY <1>1, <1>2, <1>3, ArrivedKeeps, OpenedWithKeys DEF LookedInto
<1> QED
  BY <1>1, <1>2, <1>4, SameLarge DEF LookedInto

\* A handler leaves and nothing becomes of the files that are there.
LEMMA LeftLooked ==
    ASSUME SlotsInv, nextId \in Nat, LookedInto, UNCHANGED <<plan, contents, nextId, stored>>, NEW s \in Slot,
           Leave(s), Arrived(s), opened' \in {opened, OpenedBy(arriving[s])}, LargeInv'
    PROVE  LookedInto'
<1>1. ContentsInv' /\ SealsStay
  BY SameContents DEF LookedInto
<1>2. ArrivingInv'
  BY <1>1, ArrivedKeeps DEF LookedInto
<1>3. OpenedInv'
  BY <1>1, KeysStay, OpenedWithKeys DEF LookedInto
<1> QED
  BY <1>1, <1>2, <1>3 DEF LookedInto

LEMMA AddLooked ==
    ASSUME SlotsInv, nextId \in Nat, LookedInto, NEW s \in Slot, AddLargeContents(s) PROVE LookedInto'
<1>1. PICK l, file :
         /\ l = [since |-> Cardinality(DOMAIN largeFiles), content |-> arriving[s].content,
                  info |-> arriving[s].info, parts |-> <<>>]
         /\ file = waiting[s].file
         /\ largeFiles' = With(largeFiles, file.id, l)
         /\ unfinished' = unfinished \cup {file}
  BY DEF AddLargeContents, AddLargeFile
<1>2. Honest(arriving[s].content) /\ ~ arriving[s].content.sha1.known
  BY DEF AddLargeContents, LookedInto, ArrivingInv, Welcome
<1>3. Unfinished(l)
  BY <1>1, <1>2 DEF Unfinished, Honest
<1>4. largeFiles' = [i \in DOMAIN largeFiles \cup {file.id} |-> IF i = file.id THEN l ELSE largeFiles[i]]
  BY <1>1 DEF With
<1>5. LargeInv'
  BY <1>1, <1>3, <1>4 DEF LookedInto, LargeInv
<1>6. UNCHANGED <<plan, contents, nextId, stored, opened>> /\ Leave(s) /\ Arrived(s)
  BY DEF AddLargeContents, AddLargeFile
<1> QED
  BY <1>5, <1>6, LeftLooked

LEMMA StorePartLooked ==
    ASSUME SlotsInv, nextId \in Nat, LookedInto, NEW s \in Slot, StorePart(s) PROVE LookedInto'
<1>1. UNCHANGED <<plan, contents, nextId, stored, unfinished>> /\ Leave(s) /\ Arrived(s) /\ opened' = OpenedBy(arriving[s])
  BY DEF StorePart, SameStorage, bucketVars
<1>2. LargeInv'
  <2> PICK f : f = waiting[s].file
    OBVIOUS
  <2>1. CASE f \notin unfinished
    BY <1>1, <2>1 DEF StorePart, LookedInto, LargeInv
  <2>2. CASE f \in unfinished
    <3>1. PICK old, parts, new :
             /\ old = largeFiles[f.id] /\ new = [old EXCEPT !.parts = parts]
             /\ largeFiles' = [largeFiles EXCEPT ![f.id] = new]
      BY <2>2 DEF StorePart
    <3>2. f.id \in DOMAIN largeFiles /\ Unfinished(old)
      BY <2>2, <3>1 DEF LookedInto, LargeInv
    <3>3. new = [since |-> old.since, content |-> old.content, info |-> old.info, parts |-> parts]
      BY <3>1, <3>2 DEF Unfinished
    <3>4. Unfinished(new)
      BY <3>2, <3>3 DEF Unfinished
    <3>5. largeFiles' = [i \in DOMAIN largeFiles |-> IF i = f.id THEN new ELSE largeFiles[i]]
      BY <3>1 DEF LookedInto, LargeInv
    <3> QED
      BY <1>1, <3>4, <3>5 DEF LookedInto, LargeInv
  <2> QED
    BY <2>1, <2>2
<1> QED
  BY <1>1, <1>2, LeftLooked

LEMMA RefuseLooked ==
    ASSUME SlotsInv, nextId \in Nat, LookedInto, NEW s \in Slot, RefuseArrival(s) PROVE LookedInto'
<1>1. UNCHANGED <<plan, contents, largeFiles, nextId, stored, unfinished, opened>> /\ Leave(s) /\ Arrived(s)
  BY DEF RefuseArrival, bucketVars
<1> QED
  BY <1>1, SameLarge, LeftLooked DEF LookedInto

LEMMA AnswerLooked ==
    ASSUME SlotsInv, nextId \in Nat, LookedInto, NEW f \in stored, NEW caps, NEW method, NEW range, NEW headers,
           Answer(f, caps, method, range, headers)
    PROVE  LookedInto'
<1>1. UNCHANGED <<plan, nextId, stored, unfinished, waiting, arriving, contents, largeFiles>>
  BY DEF Answer, storageVars, bucketVars
<1>2. ContentsInv' /\ SealsStay
  BY <1>1, SameContents DEF LookedInto
<1>3. ArrivingInv'
  BY <1>1, <1>2, SameArrivals, StillNoStart DEF LookedInto
<1>4. OpenedInv'
  <2>1. f.id \in DOMAIN contents /\ HasTheKey(contents[f.id], headers.key)
    BY ReaderNeedsKey DEF Answer, LookedInto, ContentsInv, HasTheKey
  <2>2. opened' = opened \cup {[file |-> f.id, key |-> headers.key]}
    BY DEF Answer
  <2> QED
    BY <1>1, <2>1, <2>2 DEF LookedInto, OpenedInv, HasTheKey
<1> QED
  BY <1>1, <1>2, <1>3, <1>4, SameLarge DEF LookedInto

\* Nobody reads in a plan that does not look into the files.
LEMMA NobodyReads ==
    ASSUME plan \in Plan, ~ May("contents"), opened = {}, reader = NoReader, call = NoCall, [Next]_vars
    PROVE  opened' = {} /\ reader' = NoReader /\ call' = NoCall
<1>1. ~ May("read") /\ ~ May("copyLarge")
  BY PlanAssumption DEF May
<1>2. ~ ReadNext
  BY <1>1 DEF ReadNext, ReadWithToken, ReadWithAuthorization, StreamNext
<1>3. ~ CopyNext
  <2>1. call.phase = "idle"
    BY DEF NoCall
  <2> QED
    BY <1>1, <2>1 DEF CopyNext, CopyLargeFile, SizeKnown, NotSent, SendCopy, SendStart, FinishServed,
       CancelServed, RequestFails, CallerAborts
<1>4. SearchNext => UNCHANGED contentVars
  BY DEF SearchNext, BeginSearch, ListPage, Choose, ListPartsPage, SearchFails
<1> QED
  BY <1>2, <1>3, <1>4 DEF Next, vars, fileVars, contentVars

\* A plan stays.
LEMMA PlanStays == [Next]_vars /\ SlotsInv /\ nextId \in Nat => plan' = plan
<1> SUFFICES ASSUME [Next]_vars, SlotsInv, nextId \in Nat PROVE plan' = plan
  OBVIOUS
<1>1. CalmUrls => plan' = plan
  BY DEF CalmUrls
<1> QED
  BY <1>1, TurnStep, CalmTurn DEF AdvanceTime, DeleteKey, GetUploadUrl, IssueUploadUrl, ExpireUploadToken, InvalidateUploadToken

\* Every step keeps what the files hold.
LEMMA FilesStep == ASSUME UrlInv, FilesInv, [Next]_vars PROVE FilesInv'
<1>1. SlotsInv /\ nextId \in Nat
  BY DEF UrlInv, ClockInv
<1>2. plan' = plan /\ plan \in Plan
  BY <1>1, PlanStays DEF FilesInv
<1>3. CASE May("contents")
  <2>1. LookedInto
    BY <1>3 DEF FilesInv, LookedInto
  <2>2. FileTurn
    BY <1>1, <1>3, FileStep
  <2>3. LookedInto'
    BY <1>1, <1>2, <2>1, <2>2, CalmLooked, PutLooked, StartLooked, HideLooked, LockLooked, CopyLooked, CopyPartLooked,
       FinishLooked, PutPartLooked, StoreLooked, AddLooked, StorePartLooked, RefuseLooked, AnswerLooked
       DEF FileTurn
  <2> QED
    BY <1>2, <1>3, <2>3 DEF FilesInv, LookedInto, May
<1>4. CASE ~ May("contents")
  BY <1>2, <1>4, NobodyReads DEF FilesInv, May
<1> QED
  BY <1>3, <1>4

LEMMA FilesInit == Init => FilesInv
<1> SUFFICES ASSUME Init PROVE FilesInv
  OBVIOUS
<1>1. /\ plan \in Plan /\ nextId = 1 /\ stored = {} /\ unfinished = {} /\ contents = <<>> /\ largeFiles = <<>>
      /\ opened = {} /\ arriving = [s \in Slot |-> NoArrival] /\ reader = NoReader /\ call = NoCall
  BY DEF Init, ServiceInit, ContentInit
<1>2. ArrivingInv
  BY <1>1, NothingArrives DEF ArrivingInv
<1>3. ContentsInv /\ LargeInv /\ OpenedInv
  BY <1>1 DEF ContentsInv, LargeInv, OpenedInv
<1> QED
  BY <1>1, <1>2, <1>3 DEF FilesInv

-----------------------------------------------------------------------------
(* What a reader gets.                                                     *)

\* A reader has what was answered, and a body that was checked as far as it can be.
Telling(r) ==
    /\ ReaderShape(r) /\ Honest(r.was) /\ r.sha1 = r.was.sha1
    /\ r.verify = Verified(r.method, r.range, r.sha1)
    /\ r.view = ParsedHeaders(Response(r.was, r.capabilities, r.range))
    /\ r.phase = "closed" /\ r.method = "GET" /\ r.verify => r.got = r.sha1.of

TellingInv == reader # NoReader => Telling(reader)

\* An answer tells what the file has; a move of the stream does not change that.
LEMMA AnswerTells ==
    ASSUME NEW f, Honest(contents[f.id]), NEW caps, NEW range, NEW headers, NEW method \in {"GET", "HEAD"},
           Answer(f, caps, method, range, headers)
    PROVE  Telling(reader')
<1>1. PICK content, r, progress :
         /\ content = contents[f.id] /\ r = Response(content, caps, range)
         /\ reader' = Answered(f, caps, method, range, progress)
  BY DEF Answer
<1>2. PICK phase, wire, view, verify :
         /\ phase = (CASE r.status = 416 -> "refused"
                       [] r.status # 416 /\ method = "HEAD" -> "closed"
                       [] OTHER -> "open")
         /\ wire = (IF method = "HEAD" THEN <<>> ELSE r.body)
         /\ view = ParsedHeaders(r) /\ verify = Verified(method, range, r.sha1)
  OBVIOUS
<1>3. r.sha1 = content.sha1
  BY <1>1 DEF Response
<1>4. reader' = [phase |-> phase, file |-> f.id, was |-> content, method |-> method, range |-> range,
                 capabilities |-> caps, wire |-> wire, got |-> <<>>, view |-> view, verify |-> verify,
                 sha1 |-> r.sha1, queued |-> FALSE, complete |-> FALSE, progress |-> progress]
  BY <1>1, <1>2 DEF Answered
<1>5. phase = "closed" => method = "HEAD"
  BY <1>2
<1>6. ReaderShape(reader')
  BY <1>4 DEF ReaderShape
<1> QED
  BY <1>1, <1>2, <1>3, <1>4, <1>5, <1>6 DEF Telling

LEMMA MovedTells ==
    ASSUME NEW r, Telling(r), NEW phase, NEW wire, NEW got, NEW queued, NEW complete, NEW p,
           Moved(r, phase, got, complete, p)
    PROVE  Telling(On(r, phase, wire, got, queued, complete, p))
<1> PICK n : n = On(r, phase, wire, got, queued, complete, p)
  OBVIOUS
<1>1. /\ ReaderShape(n) /\ n.phase = phase /\ n.got = got
      /\ n.verify = r.verify /\ n.sha1 = r.sha1 /\ n.was = r.was /\ n.view = r.view /\ n.method = r.method
      /\ n.range = r.range /\ n.capabilities = r.capabilities
  BY DEF On, ReaderShape
<1>2. phase = "closed" /\ r.method = "GET" /\ r.verify => got = r.sha1.of
  BY DEF Moved, Telling
<1> QED
  BY <1>1, <1>2 DEF Telling

\* Every step keeps what a reader has been told.
LEMMA TellingStep == TellingInv /\ FilesInv /\ [Next]_vars => TellingInv'
<1> SUFFICES ASSUME TellingInv, FilesInv, [Next]_vars PROVE TellingInv'
  OBVIOUS
<1>1. CASE reader' = reader
  BY <1>1 DEF TellingInv
<1>2. CASE StreamNext
  <2>1. Telling(reader)
    BY <1>2 DEF TellingInv, StreamNext
  <2>2. PICK phase, wire, got, queued, complete, p :
          reader' = On(reader, phase, wire, got, queued, complete, p) /\ Moved(reader, phase, got, complete, p)
    BY <1>2, <2>1, StreamTurn DEF Telling
  <2>3. Telling(reader')
    BY <2>1, <2>2, MovedTells
  <2> QED
    BY <2>3 DEF TellingInv
<1>3. ASSUME May("read"), NEW f \in stored, NEW caps, NEW range, NEW headers, NEW method \in {"GET", "HEAD"},
             Answer(f, caps, method, range, headers)
      PROVE  TellingInv'
  <2>1. May("contents")
    BY <1>3, PlanAssumption DEF FilesInv, May
  <2>2. Honest(contents[f.id])
    BY <2>1 DEF FilesInv, ContentsInv
  <2> QED
    BY <1>3, <2>2, AnswerTells DEF TellingInv
<1> QED
  BY <1>1, <1>2, <1>3, ReaderTurn

\* What the headers of a file say to whoever has these capabilities is true.
LEMMA HeadersAreTrue ==
    ASSUME NEW was, NEW caps, NEW range
    PROVE  LET v == ParsedHeaders(Response(was, caps, range))
           IN  /\ v.encryption = was.sse.mode \/ "encryption" \in v.markers
               /\ v.retention = (IF was.lock.retained THEN "yes" ELSE "no") \/ v.retention = "hidden"
               /\ v.hold = was.lock.hold \/ v.hold = "hidden"
               /\ v.encryption # "none" => "readBucketEncryption" \in caps
               /\ v.retention = "yes" => "readFileRetentions" \in caps
               /\ v.hold \in {"on", "off"} => "readFileLegalHolds" \in caps
<1>1. PICK r, hidden, v :
         /\ hidden = Unreadable(was, caps) /\ r = Response(was, caps, range) /\ v = ParsedHeaders(r)
  OBVIOUS
<1>2. /\ r.encryption = IF "encryption" \in hidden THEN "none" ELSE was.sse.mode
      /\ r.retained = (was.lock.retained /\ "retention" \notin hidden)
      /\ r.hold = IF "hold" \in hidden THEN "null" ELSE was.lock.hold
      /\ r.markers = hidden
  BY <1>1 DEF Response
<1>3. /\ v.encryption = r.encryption /\ v.markers = r.markers
      /\ v.retention = IF "retention" \in r.markers THEN "hidden" ELSE IF r.retained THEN "yes" ELSE "no"
      /\ v.hold = IF "hold" \in r.markers THEN "hidden" ELSE r.hold
  BY <1>1 DEF ParsedHeaders
<1>4. /\ "encryption" \in hidden <=> was.sse.mode # "none" /\ "readBucketEncryption" \notin caps
      /\ "retention" \in hidden <=> was.lock.retained /\ "readFileRetentions" \notin caps
      /\ "hold" \in hidden <=> was.lock.hold # "null" /\ "readFileLegalHolds" \notin caps
  BY <1>1 DEF Unreadable
<1> QED
  BY <1>1, <1>2, <1>3, <1>4

\* A whole download whose digest is known ends without an error only with the bytes the uploader
\* sent (resolveUploadSha1 and copyFile in simulator/index.ts, download/checksum.ts).
THEOREM ReadsAreHonest == Spec => []ReadsAreWhatWasSent
<1> DEFINE Inv == UrlInv /\ FilesInv /\ TellingInv
<1>1. Init => Inv
  BY GrantsInit, FilesInit DEF Init, TellingInv
<1>2. Inv /\ [Next]_vars => Inv'
  BY TurnStep, UrlStep, FilesStep, TellingStep
<1>3. Inv => ReadsAreWhatWasSent
  BY DEF TellingInv, Telling, Honest, Verified, ReadsAreWhatWasSent
<1> QED
  BY <1>1, <1>2, <1>3, PTL DEF Spec

\* Whoever has read or copied a file under a customer's key gave that key, and a reader is told the
\* truth of what it may know, or that it is hidden (validateDownloadEncryption and the download
\* headers in simulator/index.ts, types/encryption.ts).
THEOREM ReadersAreToldTheTruth == Spec => []ReadersSeeWhatTheyMay
<1> DEFINE Inv == UrlInv /\ FilesInv /\ TellingInv
<1>1. Init => Inv
  BY GrantsInit, FilesInit DEF Init, TellingInv
<1>2. Inv /\ [Next]_vars => Inv'
  BY TurnStep, UrlStep, FilesStep, TellingStep
<1>3. FilesInv => OnlyKeyHolders
  BY DEF FilesInv, OpenedInv, HasTheKey, OnlyKeyHolders
<1>4. TellingInv => TruthfulView
  <2> SUFFICES ASSUME Telling(reader) PROVE TruthfulView
    BY DEF TellingInv, TruthfulView
  <2>1. reader.view = ParsedHeaders(Response(reader.was, reader.capabilities, reader.range))
    BY DEF Telling
  <2> QED
    BY <2>1, HeadersAreTrue DEF TruthfulView
<1> QED
  BY <1>1, <1>2, <1>3, <1>4, PTL DEF Spec, ReadersSeeWhatTheyMay

-----------------------------------------------------------------------------
(* The keys and the buckets there are.                                     *)

\* An id that was taken.
Made(id) == id \in 1..nextId - 1

\* What a step does to the keys and the buckets there are: new ones have new ids, and of the keys
\* with an id all are deleted or none.
KeysTurn ==
    /\ nextId' \in Nat /\ nextId <= nextId'
    /\ \A id \in KeyIds' : id \in KeyIds \/ id \in nextId..nextId' - 1
    /\ \A b \in Live' : b \in Live \/ b \in nextId..nextId' - 1
    /\ \A k \in keys : k.id \in KeyIds' => k \in keys'

\* What the partner side does to them.
LEMMA PartnerKeys ==
    ASSUME nextId \in Nat, 0 < nextId, PartnerNext
    PROVE  /\ \/ keys' = keys
              \/ \E key : keys' = keys \cup {key} /\ key.id \in nextId..nextId' - 1
           /\ \A b \in Live' : b \in Live \/ b \in nextId..nextId' - 1
<1>1. ASSUME UNCHANGED <<buckets, keys>>
      PROVE  keys' = keys /\ \A b \in Live' : b \in Live \/ b \in nextId..nextId' - 1
  BY <1>1 DEF Live
<1>2. ASSUME NEW p, NEW email, ReserveTrial(p, email)
      PROVE  /\ \E key : keys' = keys \cup {key} /\ key.id \in nextId..nextId' - 1
             /\ \A b \in Live' : b \in Live \/ b \in nextId..nextId' - 1
  <2>1. nextId' = nextId + 5
    BY <1>2 DEF ReserveTrial, Take
  <2>2. PICK key : key = [id |-> nextId + 3, caps |-> PartnerGrant, buckets |-> {nextId + 2},
                          names |-> Everything, expires |-> None]
    OBVIOUS
  <2>3. keys' = keys \cup {key} /\ Live' = Live \cup {nextId + 2}
    BY <1>2, <2>2 DEF ReserveTrial, AddBucket, Live
  <2>4. key.id \in nextId..nextId' - 1
    BY <2>1, <2>2
  <2>5. \A b \in Live' : b \in Live \/ b \in nextId..nextId' - 1
    BY <2>1, <2>3
  <2> QED
    BY <2>3, <2>4, <2>5
<1>3. ASSUME NEW p, NEW g, NEW email, CreateGroupMember(p, g, email)
      PROVE  /\ \E key : keys' = keys \cup {key} /\ key.id \in nextId..nextId' - 1
             /\ \A b \in Live' : b \in Live \/ b \in nextId..nextId' - 1
  <2>1. nextId' = nextId + 3 /\ buckets' = buckets
    BY <1>3 DEF CreateGroupMember, Take, OtherwiseSame
  <2>2. PICK key : key = [id |-> nextId + 1, caps |-> PartnerGrant, buckets |-> Everything,
                          names |-> Everything, expires |-> None]
    OBVIOUS
  <2>3. keys' = keys \cup {key}
    BY <1>3, <2>2 DEF CreateGroupMember
  <2> QED
    BY <2>1, <2>2, <2>3 DEF Live
<1>4. ASSUME \/ PartnerAuthorize \/ CursorDeleted
             \/ \E p : ListGroups(p) \/ ProvisionComputers(p) \/ \E c : DeleteComputer(p, c)
             \/ \E p, g, m, email : EjectGroupMember(p, g, m, email)
             \/ \E kind, g : BeginListing(kind, g)
             \/ \E size : FetchPage(size)
      PROVE  UNCHANGED <<buckets, keys>>
  BY <1>4 DEF PartnerAuthorize, CursorDeleted, ListGroups, ProvisionComputers, DeleteComputer, EjectGroupMember,
     BeginListing, FetchPage, OtherwiseSame
<1> QED
  BY <1>1, <1>2, <1>3, <1>4 DEF PartnerNext

\* What any step does to them.
LEMMA TurnKeys ==
    ASSUME UrlInv, 0 < nextId, \A id \in KeyIds : Made(id), Turn
    PROVE  KeysTurn
<1>1. nextId \in Nat /\ nextId' \in Nat /\ nextId <= nextId'
  BY IdsGrow DEF UrlInv, ClockInv
<1>2. ASSUME keys' = keys, \A b \in Live' : b \in Live \/ b \in nextId..nextId' - 1 PROVE KeysTurn
  BY <1>1, <1>2 DEF KeysTurn, KeyIds
<1>3. ASSUME NEW key, keys' = keys \cup {key}, key.id \in nextId..nextId' - 1,
             \A b \in Live' : b \in Live \/ b \in nextId..nextId' - 1
      PROVE  KeysTurn
  BY <1>1, <1>3 DEF KeysTurn, KeyIds
<1>4. ASSUME NEW t, NEW caps, NEW bs, NEW names, NEW expires, CreateKey(t, caps, bs, names, expires)
      PROVE  KeysTurn
  <2>1. PICK key : key = [id |-> nextId, caps |-> caps, buckets |-> bs, names |-> names, expires |-> expires]
    OBVIOUS
  <2>2. keys' = keys \cup {key} /\ nextId' = nextId + 2 /\ Live' = Live
    BY <1>4, <2>1 DEF CreateKey, Take, bucketVars, Live
  <2> QED
    BY <1>1, <1>3, <2>1, <2>2
<1>5. ASSUME NEW t, NEW k, DeleteKey(t, k) PROVE KeysTurn
  <2>1. keys' = {x \in keys : x.id # k} /\ Live' = Live
    BY <1>5 DEF DeleteKey, bucketVars, Live
  <2> QED
    BY <1>1, <2>1 DEF KeysTurn, KeyIds
<1>6. ASSUME NEW t, NEW lock, NEW retention, CreateBucket(t, lock, retention) PROVE KeysTurn
  <2>1. Live' = Live \cup {nextId} /\ keys' = keys /\ nextId' = nextId + 1
    BY <1>6 DEF CreateBucket, AddBucket, Take, keyVars, Live
  <2> QED
    BY <1>1, <1>2, <2>1
<1>7. ASSUME NEW t, NEW b, DeleteBucket(t, b) PROVE KeysTurn
  <2>1. Live' = Live \ {b} /\ keys' = keys
    BY <1>7 DEF DeleteBucket, keyVars, Live
  <2> QED
    BY <1>2, <2>1
<1>8. ASSUME \/ \E t, b, guard, lock, retention : UpdateBucket(t, b, guard, lock, retention)
             \/ \E t, b, rules : SetNotificationRules(t, b, rules)
      PROVE  keys' = keys /\ Live' = Live
  <2>1. CASE \E t, b, guard, lock, retention : UpdateBucket(t, b, guard, lock, retention)
    BY <2>1 DEF UpdateBucket, keyVars, Live
  <2>2. CASE \E t, b, rules : SetNotificationRules(t, b, rules)
    BY <2>2 DEF SetNotificationRules, bucketVars, keyVars, Live
  <2> QED
    BY <1>8, <2>1, <2>2
<1>9. ASSUME \/ Authorize \/ AdvanceTime \/ FlushHooks \/ FlushRound
             \/ \E t, b : GetUploadUrl(t, b)
             \/ \E t, b, names, life : GetDownloadAuthorization(t, b, names, life)
             \/ \E u : ExpireUploadToken(u) \/ InvalidateUploadToken(u) \/ RefuseUpload(u)
             \/ \E d : RefuseDownload(d)
             \/ \E h : HookSettles(h)
             \/ \E u, name : UploadFile(u, name)
             \/ \E t, f, b, name : CopyFile(t, f, b, name)
      PROVE  keys' = keys /\ Live' = Live
  BY <1>9 DEF Authorize, AdvanceTime, FlushHooks, FlushRound, GetUploadUrl, GetDownloadAuthorization,
     ExpireUploadToken, InvalidateUploadToken, RefuseUpload, RefuseDownload, HookSettles, UploadFile, CopyFile,
     bucketVars, keyVars, Live
<1>10. ASSUME \/ \E t, b, name : StartLargeFile(t, b, name) \/ HideFile(t, b, name)
              \/ \E t, f : FinishLargeFile(t, f) \/ CancelLargeFile(t, f) \/ DeleteFileVersion(t, f)
              \/ \E s : IssueUploadUrl(s) \/ StoreFile(s) \/ AddLargeFile(s)
              \/ SameStorage \/ UNCHANGED storageVars
       PROVE  keys' = keys /\ Live' = Live
  BY <1>10 DEF StartLargeFile, HideFile, FinishLargeFile, CancelLargeFile, DeleteFileVersion, IssueUploadUrl,
     StoreFile, AddLargeFile, SameStorage, storageVars, bucketVars, keyVars, Live
<1>11. ASSUME PartnerNext PROVE KeysTurn
  BY <1>1, <1>2, <1>3, <1>11, PartnerKeys
<1> HIDE DEF PartnerNext
<1> QED
  BY <1>2, <1>4, <1>5, <1>6, <1>7, <1>8, <1>9, <1>10, <1>11 DEF Turn

-----------------------------------------------------------------------------
(* The gate the requests of the raw client pass.                           *)

\* A step starts no large file, or starts one with an id of its own.
LEMMA StartsTurn ==
    ASSUME SlotsInv, nextId \in Nat, Turn
    PROVE  NoNewStart \/ \E t, b, name : StartLargeFile(t, b, name)
<1> USE DEF bucketVars, keyVars, urlVars, readVars, hookVars
<1>1. ASSUME \/ Authorize \/ AdvanceTime \/ FlushHooks \/ FlushRound
             \/ \E t, caps, bs, names, expires : CreateKey(t, caps, bs, names, expires)
             \/ \E t, k : DeleteKey(t, k)
             \/ \E t, lock, retention : CreateBucket(t, lock, retention)
             \/ \E t, b, guard, lock, retention : UpdateBucket(t, b, guard, lock, retention)
             \/ \E t, b, rules : SetNotificationRules(t, b, rules)
             \/ \E t, b : DeleteBucket(t, b)
      PROVE  NoNewStart
  BY <1>1, StillNoStart DEF Authorize, AdvanceTime, FlushHooks, FlushRound, CreateKey, DeleteKey, CreateBucket,
     UpdateBucket, SetNotificationRules, DeleteBucket
<1>2. ASSUME \/ \E t, b, names, life : GetDownloadAuthorization(t, b, names, life)
             \/ \E u : ExpireUploadToken(u) \/ InvalidateUploadToken(u) \/ RefuseUpload(u)
             \/ \E d : RefuseDownload(d)
             \/ \E h : HookSettles(h)
             \/ \E t, b, name : HideFile(t, b, name)
             \/ \E t, f : FinishLargeFile(t, f) \/ CancelLargeFile(t, f) \/ DeleteFileVersion(t, f)
             \/ UNCHANGED storageVars
      PROVE  NoNewStart
  BY <1>2, StillNoStart DEF GetDownloadAuthorization, ExpireUploadToken, InvalidateUploadToken, RefuseUpload,
     RefuseDownload, HookSettles, HideFile, FinishLargeFile, CancelLargeFile, DeleteFileVersion, storageVars
<1>3. ASSUME NEW s \in Slot, IssueUploadUrl(s) \/ StoreFile(s) \/ AddLargeFile(s) \/ (Leave(s) /\ SameStorage)
      PROVE  NoNewStart
  BY <1>3, NoStartLeft DEF IssueUploadUrl, StoreFile, AddLargeFile, SameStorage
<1>4. ASSUME NEW t, NEW b, GetUploadUrl(t, b) PROVE NoNewStart
  <2>1. PICK handler : handler.op = "issue" /\ Enter(handler)
    BY <1>4 DEF GetUploadUrl
  <2> QED
    BY <1>4, <2>1, OtherThanStart DEF GetUploadUrl
<1>5. ASSUME NEW u, NEW name, UploadFile(u, name) PROVE NoNewStart
  BY <1>5, OtherThanStart DEF UploadFile
<1>6. ASSUME NEW t, NEW f, NEW b, NEW name, CopyFile(t, f, b, name) PROVE NoNewStart
  BY <1>6, OtherThanStart DEF CopyFile
<1>7. ASSUME NEW handler, handler.op = "part", Enter(handler), SameStorage PROVE NoNewStart
  BY <1>7, OtherThanStart DEF SameStorage
<1>8. ASSUME PartnerNext PROVE NoNewStart
  BY <1>8, PartnerTurn, StillNoStart
<1> QED
  BY <1>1, <1>2, <1>3, <1>4, <1>5, <1>6, <1>7, <1>8 DEF Turn

\* No file and no bucket has the id that stands for none.
FileIdsInv ==
    /\ 0 < nextId
    /\ None \notin Live /\ \A id \in KeyIds : Made(id)
    /\ \A f \in stored \cup unfinished : f.id # None
    /\ \A s \in Slot : waiting[s].op = "start" => waiting[s].file.id # None

LEMMA FileIdsInit == Init => FileIdsInv
BY DEF Init, ServiceInit, FileIdsInv, NoHandler, Live, KeyIds, None

LEMMA FileIdsStep == ASSUME UrlInv, FileIdsInv, [Next]_vars PROVE FileIdsInv'
<1>1. /\ Turn /\ SlotsInv /\ nextId \in Nat /\ nextId # None /\ 0 < nextId' /\ plan' = plan
  BY TurnStep, PlanStays, IdsGrow DEF UrlInv, ClockInv, FileIdsInv, None
<1>2. \A b, name : File(nextId, b, name).id # None
  BY <1>1 DEF File
<1>5. None \notin Live' /\ \A id \in KeyIds' : Made(id)'
  <2>1. KeysTurn
    BY <1>1, TurnKeys DEF FileIdsInv
  <2> QED
    BY <1>1, <2>1 DEF KeysTurn, FileIdsInv, Made, None
<1>3. \A f \in stored' \cup unfinished' : f.id # None
  <2>1. CASE FilesStand
    BY <2>1 DEF FilesStand, FileIdsInv
  <2>2. ASSUME NEW t, NEW b, DeleteBucket(t, b) PROVE stored' \subseteq stored /\ unfinished' = unfinished
    BY <2>2 DEF DeleteBucket
  <2>3. ASSUME NEW t, NEW f, CancelLargeFile(t, f) \/ DeleteFileVersion(t, f)
        PROVE  stored' \subseteq stored /\ unfinished' \subseteq unfinished
    BY <2>3 DEF CancelLargeFile, DeleteFileVersion
  <2>4. ASSUME NEW t, NEW b, NEW name, HideFile(t, b, name)
        PROVE  stored' \subseteq stored \cup {File(nextId, b, name)} /\ unfinished' = unfinished
    BY <2>4 DEF HideFile
  <2>5. ASSUME NEW t, NEW f, FinishLargeFile(t, f)
        PROVE  stored' \subseteq stored \cup {File(nextId, f.bucket, f.name)} /\ unfinished' \subseteq unfinished
    BY <2>5 DEF FinishLargeFile
  <2>6. ASSUME NEW s \in Slot, StoreFile(s)
        PROVE  /\ stored' \subseteq stored \cup {File(nextId, waiting[s].bucket, waiting[s].name)}
               /\ unfinished' = unfinished
    BY <2>6 DEF StoreFile
  <2>7. ASSUME NEW s \in Slot, AddLargeFile(s)
        PROVE  stored' = stored /\ unfinished' = unfinished \cup {waiting[s].file} /\ waiting[s].op = "start"
    BY <2>7 DEF AddLargeFile
  <2>8. ASSUME stored' \subseteq stored /\ unfinished' \subseteq unfinished PROVE \A f \in stored' \cup unfinished' : f.id # None
    BY <2>8 DEF FileIdsInv
  <2>9. ASSUME NEW b, NEW name, stored' \subseteq stored \cup {File(nextId, b, name)}, unfinished' \subseteq unfinished
        PROVE  \A f \in stored' \cup unfinished' : f.id # None
    BY <1>2, <2>9 DEF FileIdsInv
  <2>10. ASSUME NEW s \in Slot, AddLargeFile(s) PROVE \A f \in stored' \cup unfinished' : f.id # None
    BY <2>7, <2>10 DEF FileIdsInv
  <2> QED
    BY <1>1, <2>1, <2>2, <2>3, <2>4, <2>5, <2>6, <2>8, <2>9, <2>10, StandingTurn
<1>4. \A s \in Slot' : waiting'[s].op = "start" => waiting'[s].file.id # None
  <2>1. CASE NoNewStart /\ plan' = plan
    BY <2>1 DEF NoNewStart, FileIdsInv, Slot
  <2>2. ASSUME NEW t, NEW b, NEW name, StartLargeFile(t, b, name)
        PROVE  \A s \in Slot' : waiting'[s].op = "start" => waiting'[s].file.id # None
    <3>1. PICK handler : handler = [op |-> "start", file |-> File(nextId, b, name)]
      OBVIOUS
    <3>2. plan' = plan /\ Enter(handler) /\ handler.file.id # None
      BY <1>2, <2>2, <3>1 DEF StartLargeFile
    <3>3. PICK slot : /\ slot \in Slot => waiting'[slot] = handler
                      /\ \A s \in Slot : s # slot => waiting'[s] = waiting[s]
      BY <1>1, <3>2, EnterFrame
    <3> QED
      BY <3>2, <3>3 DEF FileIdsInv, Slot
  <2> QED
    BY <1>1, <2>1, <2>2, StartsTurn
<1> QED
  BY <1>1, <1>3, <1>4, <1>5 DEF FileIdsInv

\* What a request touches is in the scope the gate reads off it.
Covered(r) ==
    /\ TouchedBuckets(r) \subseteq RequestScope(r).buckets
    /\ TouchedNames(r) \subseteq RequestScope(r).names

\* No file is found for a body that names none.
LEMMA NoneFound == FileIdsInv => Found(stored, None) = {} /\ Found(unfinished, None) = {}
BY DEF FileIdsInv, Found

\* What the raw client fills in for an endpoint.
Filled(r) ==
    LET onOneFile == {"b2_get_file_info", "b2_copy_file", "b2_copy_part"} \cup OfFileVersions
    IN  /\ r.endpoint # "b2_authorize_account"
        /\ r.body.bucket # None => r.endpoint \notin onOneFile \cup OfLargeFiles
        /\ r.body.named # None => r.endpoint = "b2_list_buckets"
        /\ r.body.file # None => r.endpoint \in onOneFile
        /\ r.body.large # None => r.endpoint \in {"b2_copy_part"} \cup OfLargeFiles
        /\ r.body.to # {} => r.endpoint \in {"b2_create_bucket", "b2_update_bucket", "b2_copy_file"}
        /\ r.body.names # {} => r.endpoint \notin {"b2_list_buckets", "b2_get_file_info", "b2_copy_part"} \cup OfLargeFiles

\* A body is known by its fields.
Bears(r, e, b, n, f, l, to, names) ==
    /\ r.endpoint = e /\ r.body.bucket = b /\ r.body.named = n /\ r.body.file = f /\ r.body.large = l
    /\ r.body.to = to /\ r.body.names = names

LEMMA BucketBodies ==
    ASSUME NEW e, NEW b, NEW to, NEW names
    PROVE  /\ Bears(Request(e, Body), e, None, None, None, None, {}, {})
           /\ Bears(Request(e, [Body EXCEPT !.to = to]), e, None, None, None, None, to, {})
           /\ Bears(Request(e, [Body EXCEPT !.named = b]), e, None, b, None, None, {}, {})
           /\ Bears(Request(e, OnBucket(b)), e, b, None, None, None, {}, {})
           /\ Bears(Request(e, OnReplicated(b, to)), e, b, None, None, None, to, {})
           /\ Bears(Request(e, OnNames(b, names)), e, b, None, None, None, {}, names)
BY DEF Bears, Request, Body, OnBucket, OnReplicated, OnNames

LEMMA FileBodies ==
    ASSUME NEW e, NEW f, NEW l, NEW to, NEW n
    PROVE  /\ Bears(Request(e, OnFile(f)), e, None, None, f, None, {}, {})
           /\ Bears(Request(e, OnLargeFile(l)), e, None, None, None, l, {}, {})
           /\ Bears(Request(e, OnVersion(f, n)), e, None, None, f, None, {}, {n})
           /\ Bears(Request(e, OnPart(f, l)), e, None, None, f, l, {}, {})
           /\ Bears(Request(e, OnCopy(f, to, n)), e, None, None, f, None, to, {n})
BY DEF Bears, Request, Body, OnFile, OnLargeFile, OnVersion, OnCopy, OnPart

\* The endpoints that only a bucket's id, or its id and names, are sent to.
OnlyBucket(e) ==
    e \notin {"b2_authorize_account", "b2_get_file_info", "b2_copy_file", "b2_copy_part"} \cup OfFileVersions \cup OfLargeFiles

LEMMA BucketFilled ==
    ASSUME NEW r, NEW e, OnlyBucket(e), NEW b, NEW n, NEW to, NEW names, Bears(r, e, b, n, None, None, to, names),
           n # None => e = "b2_list_buckets",
           to # {} => e \in {"b2_create_bucket", "b2_update_bucket"},
           names # {} => e # "b2_list_buckets"
    PROVE  Filled(r)
BY DEF Bears, Filled, OnlyBucket

LEMMA NamesFilled ==
    ASSUME NEW e, OnlyBucket(e), NEW b, NEW names
    PROVE  /\ Filled(Request(e, Body)) /\ Filled(Request(e, OnBucket(b)))
           /\ e # "b2_list_buckets" => Filled(Request(e, OnNames(b, names)))
BY BucketBodies, BucketFilled

\* The raw client's methods fill in what they should.
LEMMA RequestsFilled == ASSUME NEW r \in Requests PROVE Filled(r)
<1>1. ASSUME r \in CreateBucketRequests PROVE Filled(r)
  <2>1. PICK to : r = Request("b2_create_bucket", [Body EXCEPT !.to = to])
    BY <1>1 DEF CreateBucketRequests
  <2>2. Bears(r, "b2_create_bucket", None, None, None, None, to, {})
    BY <2>1, BucketBodies
  <2>3. OnlyBucket("b2_create_bucket")
    BY DEF OnlyBucket, OfFileVersions, OfLargeFiles
  <2> QED
    BY <2>2, <2>3, BucketFilled
<1>2. ASSUME r \in UpdateBucketRequests PROVE Filled(r)
  <2>1. \E b \in Ids, to \in Replications : r = Request("b2_update_bucket", OnReplicated(b, to))
    BY <1>2 DEF UpdateBucketRequests
  <2>2. PICK b, to : r = Request("b2_update_bucket", OnReplicated(b, to))
    BY <2>1, Zenon
  <2>3. Bears(r, "b2_update_bucket", b, None, None, None, to, {})
    BY <2>2, BucketBodies
  <2>4. OnlyBucket("b2_update_bucket")
    BY DEF OnlyBucket, OfFileVersions, OfLargeFiles
  <2> QED
    BY <2>3, <2>4, BucketFilled
<1>3. ASSUME r \in ListBucketsRequests PROVE Filled(r)
  <2>1. PICK b : r = Request("b2_list_buckets", [Body EXCEPT !.named = b])
    BY <1>3 DEF ListBucketsRequests
  <2>2. Bears(r, "b2_list_buckets", None, b, None, None, {}, {})
    BY <2>1, BucketBodies
  <2>3. OnlyBucket("b2_list_buckets")
    BY DEF OnlyBucket, OfFileVersions, OfLargeFiles
  <2> QED
    BY <2>2, <2>3, BucketFilled
<1>4. ASSUME NEW e \in OfFileVersions, r \in OnFiles(e) PROVE Filled(r)
  <2>1. \E f \in Ids, n \in Name : r = Request(e, OnVersion(f, n))
    BY <1>4 DEF OnFiles
  <2>2. PICK f, n : r = Request(e, OnVersion(f, n))
    BY <2>1, Zenon
  <2>3. Bears(r, e, None, None, f, None, {}, {n})
    BY <2>2, FileBodies
  <2> QED
    BY <2>3 DEF Bears, Filled, OfFileVersions, OfLargeFiles
<1>5. ASSUME NEW f, r = Request("b2_get_file_info", OnFile(f)) PROVE Filled(r)
  <2>1. Bears(r, "b2_get_file_info", None, None, f, None, {}, {})
    BY <1>5, FileBodies
  <2> QED
    BY <2>1 DEF Bears, Filled, OfFileVersions, OfLargeFiles
<1>6. ASSUME NEW e \in OfLargeFiles, r \in OnLargeFiles(e) PROVE Filled(r)
  <2>1. PICK l : r = Request(e, OnLargeFile(l))
    BY <1>6 DEF OnLargeFiles
  <2>2. Bears(r, e, None, None, None, l, {}, {})
    BY <2>1, FileBodies
  <2> QED
    BY <2>2 DEF Bears, Filled, OfFileVersions, OfLargeFiles
<1>7. ASSUME r \in CopyFileRequests PROVE Filled(r)
  <2>1. \E f \in Ids, to \in Replications, n \in Name : r = Request("b2_copy_file", OnCopy(f, to, n))
    BY <1>7 DEF CopyFileRequests
  <2>2. PICK f, to, n : r = Request("b2_copy_file", OnCopy(f, to, n))
    BY <2>1, Zenon
  <2>3. Bears(r, "b2_copy_file", None, None, f, None, to, {n})
    BY <2>2, FileBodies
  <2> QED
    BY <2>3 DEF Bears, Filled, OfFileVersions, OfLargeFiles
<1>8. ASSUME r \in CopyPartRequests PROVE Filled(r)
  <2>1. \E f \in Ids, l \in Ids : r = Request("b2_copy_part", OnPart(f, l))
    BY <1>8 DEF CopyPartRequests
  <2>2. PICK f, l : r = Request("b2_copy_part", OnPart(f, l))
    BY <2>1, Zenon
  <2>3. Bears(r, "b2_copy_part", None, None, f, l, {}, {})
    BY <2>2, FileBodies
  <2> QED
    BY <2>3 DEF Bears, Filled, OfFileVersions, OfLargeFiles
<1>9. ASSUME NEW e, OnlyBucket(e), r = Request(e, Body) \/ r \in OnBuckets(e) PROVE Filled(r)
  <2>1. r = Request(e, Body) \/ \E b \in Ids : r = Request(e, OnBucket(b))
    BY <1>9 DEF OnBuckets
  <2> QED
    BY <1>9, <2>1, NamesFilled, Zenon
<1>10. ASSUME NEW e, OnlyBucket(e), e # "b2_list_buckets", r \in OnNamesOf(e) \cup OnPrefixes(e) PROVE Filled(r)
  <2>1. ASSUME r \in OnNamesOf(e) PROVE \E b \in Ids, n \in Name : r = Request(e, OnNames(b, {n}))
    BY <2>1, SMTT(60) DEF OnNamesOf
  <2>2. r \in OnPrefixes(e) => \E b \in Ids, names \in NamePrefixes : r = Request(e, OnNames(b, names))
    BY DEF OnPrefixes
  <2> QED
    BY <1>10, <2>1, <2>2, NamesFilled, Zenon
<1>11. \A e \in {"b2_delete_bucket", "b2_list_buckets", "b2_get_upload_url", "b2_list_file_names",
                 "b2_list_file_versions", "b2_hide_file", "b2_start_large_file", "b2_list_unfinished_large_files",
                 "b2_get_download_authorization", "b2_create_key", "b2_list_keys", "b2_delete_key",
                 "b2_get_bucket_notification_rules", "b2_set_bucket_notification_rules"} : OnlyBucket(e)
  BY DEF OnlyBucket, OfFileVersions, OfLargeFiles
<1>12. r \in BucketRequests => Filled(r)
  BY <1>1, <1>2, <1>3, <1>9, <1>11 DEF BucketRequests
<1>13. r \in ListRequests \cup ShareRequests \cup KeyRequests \cup RuleRequests => Filled(r)
  BY <1>9, <1>10, <1>11 DEF ListRequests, ShareRequests, KeyRequests, RuleRequests
<1>14. r \in FileRequests \cup LockRequests => Filled(r)
  BY <1>4, <1>5, <1>10, <1>11 DEF FileRequests, LockRequests, OfFileVersions
<1>15. r \in StartRequests \cup LargeFileRequests => Filled(r)
  BY <1>6, <1>10, <1>11 DEF StartRequests, LargeFileRequests, OfLargeFiles
<1> QED
  BY <1>7, <1>8, <1>12, <1>13, <1>14, <1>15 DEF Requests

\* What is touched of the files, of the buckets and of the names a body has.
LEMMA BodyTouched ==
    ASSUME FileIdsInv, NEW r, Filled(r), ~ ListsAll(r)
    PROVE  /\ r.body.file = None => TouchedFiles(r) = Found(unfinished, r.body.large)
           /\ r.body.large = None => TouchedFiles(r) = Found(stored, r.body.file)
           /\ r.body.file = None /\ r.body.large = None => TouchedFiles(r) = {}
           /\ TouchedBuckets(r) \subseteq BucketsOf(TouchedFiles(r)) \cup Named(r.body.bucket)
                                             \cup (Live \cap Named(r.body.named)) \cup r.body.to
           /\ r.endpoint \notin OfRules => TouchedNames(r) \subseteq NamesOf(TouchedFiles(r)) \cup r.body.names
           /\ r.endpoint \in OfFileVersions \cup OfLargeFiles => TouchedNames(r) = NamesOf(TouchedFiles(r))
<1>1. Found(stored, None) = {} /\ Found(unfinished, None) = {}
  BY NoneFound
<1>2. /\ r.body.file = None => TouchedFiles(r) = Found(unfinished, r.body.large)
      /\ r.body.large = None => TouchedFiles(r) = Found(stored, r.body.file)
      /\ r.body.file = None /\ r.body.large = None => TouchedFiles(r) = {}
  BY <1>1 DEF TouchedFiles
<1>3. TouchedBuckets(r) \subseteq BucketsOf(TouchedFiles(r)) \cup Named(r.body.bucket)
                                      \cup (Live \cap Named(r.body.named)) \cup r.body.to
  BY DEF TouchedBuckets, Named, FileIdsInv
<1>4. r.endpoint \notin OfRules => RuleNames(TouchedRules(r)) = {}
  BY DEF TouchedRules, RuleNames
<1>5. r.endpoint \in OfFileVersions \cup OfLargeFiles => r.endpoint \notin OfRules
  BY DEF OfFileVersions, OfLargeFiles, OfRules
<1>6. r.endpoint \in OfLargeFiles => r.body.names = {}
  BY DEF Filled
<1> QED
  BY <1>2, <1>3, <1>4, <1>5, <1>6 DEF TouchedNames

LEMMA RequestCovered == ASSUME FileIdsInv, NEW r, Filled(r), ~ ListsAll(r) PROVE Covered(r)
<1> DEFINE onOneFile == {"b2_get_file_info", "b2_copy_file", "b2_copy_part"} \cup OfFileVersions
<1>1. ASSUME r.endpoint \notin onOneFile \cup OfLargeFiles
      PROVE  /\ TouchedBuckets(r) \subseteq Named(r.body.bucket) \cup (Live \cap Named(r.body.named)) \cup r.body.to
             /\ r.endpoint \notin OfRules => TouchedNames(r) \subseteq r.body.names
  <2>1. TouchedFiles(r) = {}
    BY <1>1, BodyTouched DEF Filled
  <2>2. BucketsOf({}) = {} /\ NamesOf({}) = {}
    BY DEF BucketsOf, NamesOf
  <2> QED
    BY <2>1, <2>2, BodyTouched
<1>2. ASSUME r.endpoint \in onOneFile \cup OfLargeFiles
      PROVE  TouchedBuckets(r) \subseteq BucketsOf(TouchedFiles(r)) \cup r.body.to
  <2>1. Named(r.body.bucket) = {} /\ Named(r.body.named) = {}
    BY <1>2 DEF Filled, Named, OfFileVersions, OfLargeFiles
  <2> QED
    BY <2>1, BodyTouched
<1>3. CASE r.endpoint = "b2_create_bucket"
  <2>1. RequestScope(r) = CreateBucketScope(r.body)
    BY <1>3 DEF RequestScope, OfFileVersions, OfLargeFiles, OfRules, OfBuckets
  <2>2. r.endpoint \notin onOneFile \cup OfLargeFiles \cup OfRules /\ r.body.named = None
    BY <1>3 DEF Filled, OfFileVersions, OfLargeFiles, OfRules
  <2> QED
    BY <1>1, <2>1, <2>2 DEF Covered, CreateBucketScope, BucketScope, Scope, Named
<1>4. CASE r.endpoint = "b2_list_buckets"
  <2>1. RequestScope(r) = ListBucketsScope(r.body)
    BY <1>4 DEF RequestScope, OfFileVersions, OfLargeFiles, OfRules, OfBuckets
  <2>2. r.endpoint \notin onOneFile \cup OfLargeFiles \cup OfRules /\ r.body.to = {} /\ r.body.names = {}
    BY <1>4 DEF Filled, OfFileVersions, OfLargeFiles, OfRules
  <2> QED
    BY <1>1, <2>1, <2>2 DEF Covered, ListBucketsScope, Scope
<1>5. CASE r.endpoint = "b2_get_file_info"
  <2>1. RequestScope(r) = FileScope(Found(stored, r.body.file))
    BY <1>5 DEF RequestScope, OfFileVersions, OfLargeFiles, OfRules, OfBuckets
  <2>2. /\ r.endpoint \in onOneFile /\ r.endpoint \notin OfRules
        /\ r.body.large = None /\ r.body.to = {} /\ r.body.names = {}
    BY <1>5 DEF Filled, OfLargeFiles, OfRules
  <2> QED
    BY <1>2, <2>1, <2>2, BodyTouched DEF Covered, FileScope, Scope
<1>6. CASE r.endpoint \in OfFileVersions
  <2>1. RequestScope(r) = FileVersionScope(r.body)
    BY <1>6 DEF RequestScope, OfFileVersions, OfLargeFiles, OfRules, OfBuckets
  <2>2. r.body.large = None /\ r.body.to = {}
    BY <1>6 DEF Filled, OfFileVersions, OfLargeFiles
  <2>3. /\ TouchedBuckets(r) \subseteq BucketsOf(Found(stored, r.body.file))
        /\ TouchedNames(r) = NamesOf(Found(stored, r.body.file))
    BY <1>2, <1>6, <2>2, BodyTouched
  <2>4. CASE Found(stored, r.body.file) = {}
    BY <2>3, <2>4 DEF Covered, BucketsOf, NamesOf
  <2>5. CASE Found(stored, r.body.file) # {}
    BY <2>1, <2>3, <2>5 DEF Covered, FileVersionScope, FileScope, Scope
  <2> QED
    BY <2>4, <2>5
<1>7. CASE r.endpoint \in OfLargeFiles
  <2>1. RequestScope(r) = FileScope(Found(unfinished, r.body.large))
    BY <1>7 DEF RequestScope, OfFileVersions, OfLargeFiles, OfRules, OfBuckets
  <2>2. r.body.file = None /\ r.body.to = {}
    BY <1>7 DEF Filled, OfFileVersions, OfLargeFiles
  <2> QED
    BY <1>2, <1>7, <2>1, <2>2, BodyTouched DEF Covered, FileScope, Scope
<1>8. CASE r.endpoint = "b2_copy_file"
  <2>1. RequestScope(r) = CopyFileScope(r.body)
    BY <1>8 DEF RequestScope, OfFileVersions, OfLargeFiles, OfRules, OfBuckets
  <2>2. r.endpoint \in onOneFile /\ r.endpoint \notin OfRules /\ r.body.large = None
    BY <1>8 DEF Filled, OfLargeFiles, OfRules
  <2> QED
    BY <1>2, <2>1, <2>2, BodyTouched DEF Covered, CopyFileScope, Scope
<1>9. CASE r.endpoint = "b2_copy_part"
  <2>1. RequestScope(r) = CopyPartScope(r.body)
    BY <1>9 DEF RequestScope, OfFileVersions, OfLargeFiles, OfRules, OfBuckets
  <2>2. /\ r.endpoint \in onOneFile /\ r.endpoint \notin OfRules /\ r.body.to = {} /\ r.body.names = {}
        /\ TouchedFiles(r) = Found(stored, r.body.file) \cup Found(unfinished, r.body.large)
    BY <1>9 DEF Filled, OfRules, TouchedFiles
  <2>3. /\ TouchedBuckets(r) \subseteq BucketsOf(TouchedFiles(r))
        /\ TouchedNames(r) \subseteq NamesOf(TouchedFiles(r))
    BY <1>2, <2>2, BodyTouched
  <2> QED
    BY <2>1, <2>2, <2>3 DEF Covered, CopyPartScope, FileScope, Scope
<1>10. CASE r.endpoint \in OfRules
  <2>1. RequestScope(r) = NotificationRulesScope(r.body)
    BY <1>10 DEF RequestScope, OfFileVersions, OfLargeFiles, OfRules, OfBuckets
  <2>2. /\ r.endpoint \notin onOneFile \cup OfLargeFiles /\ r.body.named = None /\ r.body.to = {}
        /\ r.body.file = None /\ r.body.large = None
    BY <1>10 DEF Filled, OfFileVersions, OfLargeFiles, OfRules
  <2>3. TouchedFiles(r) = {} /\ NamesOf({}) = {}
    BY <2>2, BodyTouched DEF NamesOf
  <2>4. RuleNames(TouchedRules(r)) \subseteq RuleNames(RulesFor(r.body.bucket))
    BY DEF TouchedRules, RuleNames
  <2>5. TouchedNames(r) \subseteq RuleNames(RulesFor(r.body.bucket)) \cup r.body.names
    BY <2>3, <2>4 DEF TouchedNames
  <2> QED
    BY <1>1, <2>1, <2>2, <2>5 DEF Covered, NotificationRulesScope, Scope, Named
<1>11. CASE r.endpoint \in OfBuckets
  <2>1. RequestScope(r) = BucketScope(r.body)
    BY <1>11 DEF RequestScope, OfFileVersions, OfLargeFiles, OfRules, OfBuckets
  <2>2. r.endpoint \notin onOneFile \cup OfLargeFiles \cup OfRules /\ r.body.named = None
    BY <1>11 DEF Filled, OfFileVersions, OfLargeFiles, OfRules, OfBuckets
  <2> QED
    BY <1>1, <2>1, <2>2 DEF Covered, BucketScope, Scope, Named
<1>12. CASE r.endpoint \notin {"b2_create_bucket", "b2_list_buckets"} \cup onOneFile \cup OfLargeFiles \cup OfRules \cup OfBuckets
  <2>1. RequestScope(r) = DefaultScope(r.body)
    BY <1>12 DEF RequestScope
  <2>2. r.body.named = None /\ r.body.to = {}
    BY <1>12 DEF Filled, OfBuckets
  <2> QED
    BY <1>1, <1>12, <2>1, <2>2 DEF Covered, DefaultScope, Scope, Named
<1> QED
  BY <1>3, <1>4, <1>5, <1>6, <1>7, <1>8, <1>9, <1>10, <1>11, <1>12

\* Whatever the buckets, the files and the notification rules are, and whatever ids a request has, one
\* that passes the gate touches nothing outside its token's grant, and a token without restrictions is
\* refused only for what it may not do (authorizeRequest, requestScope and authorizeScopeGrant in
\* simulator/index.ts).
THEOREM RequestsStayInReach == Spec => []NothingOutOfReach
<1>1. Init => UrlInv /\ FileIdsInv
  BY GrantsInit, FileIdsInit
<1>2. UrlInv /\ FileIdsInv /\ [Next]_vars => UrlInv' /\ FileIdsInv'
  BY TurnStep, UrlStep, FileIdsStep
<1>3. FileIdsInv => NothingOutOfReach
  <2> SUFFICES ASSUME FileIdsInv, NEW t \in tokens, NEW r \in Requests
               PROVE  /\ Accepted(t, r) => Within(TouchedBuckets(r), t.buckets) /\ Within(TouchedNames(r), t.names)
                      /\ LiveToken(t) /\ Required(r.endpoint) \in t.caps /\ t.buckets = Everything /\ t.names = Everything
                            => Accepted(t, r)
    BY DEF NothingOutOfReach
  <2>1. Filled(r) /\ Method \in Methods(r.endpoint)
    BY RequestsFilled DEF Filled, Method, Methods
  <2>2. ASSUME t.buckets = Everything, t.names = Everything PROVE ScopeGranted(RequestScope(r), t)
    BY <2>2 DEF ScopeGranted
  <2>3. ASSUME Accepted(t, r) PROVE Within(TouchedBuckets(r), t.buckets) /\ Within(TouchedNames(r), t.names)
    <3>1. ScopeGranted(RequestScope(r), t)
      BY <2>3 DEF Accepted
    <3>2. CASE ListsAll(r)
      <4>1. /\ r.endpoint = "b2_list_buckets" /\ r.body.bucket = None /\ r.body.named = None
            /\ r.body.file = None /\ r.body.large = None /\ r.body.names = {}
        BY <2>1, <3>2 DEF ListsAll, Filled, OfFileVersions, OfLargeFiles
      <4>2. RequestScope(r) = Scope({}, {}, TRUE)
        BY <4>1 DEF RequestScope, ListBucketsScope, Named, OfFileVersions, OfLargeFiles, OfRules, OfBuckets
      <4>3. t.buckets = Everything
        BY <3>1, <4>2 DEF ScopeGranted, Scope
      <4>4. TouchedFiles(r) = {} /\ TouchedRules(r) = {}
        BY <4>1, NoneFound DEF TouchedFiles, TouchedRules, OfRules
      <4>5. TouchedNames(r) = {}
        BY <4>1, <4>4 DEF TouchedNames, NamesOf, RuleNames
      <4> QED
        BY <4>3, <4>5 DEF Within
    <3>3. CASE ~ ListsAll(r)
      BY <2>1, <3>1, <3>3, RequestCovered DEF Covered, ScopeGranted, Within
    <3> QED
      BY <3>2, <3>3
  <2> QED
    BY <2>1, <2>2, <2>3 DEF Accepted
<1> QED
  BY <1>1, <1>2, <1>3, PTL DEF Spec

-----------------------------------------------------------------------------
(* What the settings say of keys and buckets, said of any keys, buckets and   *)
(* settings, for a step has those before it and those after it.               *)

IdsOf(ks) == {k.id : k \in ks}

Serving(ks, id, caps, bs) == \E k \in ks : k.id = id /\ caps \subseteq k.caps /\ Within(bs, k.buckets)

ReplicationIn(st, b) == IF b \in DOMAIN st THEN st[b].replication ELSE Null

SourceKey(config) == Field(SourceOf(config), "sourceApplicationKeyId").text

KeyFor(live, st, b, source) ==
    IF b \in live /\ source \in DOMAIN MappingOf(ReplicationIn(st, b))
    THEN MappingOf(ReplicationIn(st, b))[source].text ELSE None

\* KeysServe
ServesIn(ks, live, st, config, where) ==
    /\ SourceOf(config).is = "object" =>
          /\ Serving(ks, SourceKey(config), Reading, where)
          /\ \A b \in DestinationsOf(config) :
                KeyFor(live, st, b, SourceKey(config)) # None
                /\ Serving(ks, KeyFor(live, st, b, SourceKey(config)), Writing, {b})
    /\ \A source \in DOMAIN MappingOf(config) : Serving(ks, MappingOf(config)[source].text, Writing, where)

\* The keys and the buckets that a configuration names have been there.
NamedOnce(n, config) ==
    /\ SourceOf(config).is = "object" =>
          SourceKey(config) \in 1..n - 1 /\ \A b \in DestinationsOf(config) : b \in 1..n - 1
    /\ \A source \in DOMAIN MappingOf(config) : MappingOf(config)[source].text \in 1..n - 1

\* RulesAreGranted, of one bucket
GrantedIn(ks, live, st, b) ==
    SourceOf(st[b].replication).is = "object" =>
        /\ SourceKey(st[b].replication) \in IdsOf(ks) /\ ~ st[b].placed =>
              Serving(ks, SourceKey(st[b].replication), Reading, {b})
        /\ \A to \in DestinationsOf(st[b].replication) :
              KeyFor(live, st, to, SourceKey(st[b].replication)) \in IdsOf(ks) =>
                  Serving(ks, KeyFor(live, st, to, SourceKey(st[b].replication)), Writing, {to})

RulesIn(n, ks, live, st) ==
    /\ n \in Nat /\ 0 < n
    /\ IdsOf(ks) \cup live \cup DOMAIN st \subseteq 1..n - 1
    /\ \A b \in live \cap DOMAIN st : NamedOnce(n, st[b].replication) /\ GrantedIn(ks, live, st, b)

\* KeysTurn
TurnIn(n, ks, live, n2, ks2, live2) ==
    /\ n2 \in Nat /\ n <= n2
    /\ \A id \in IdsOf(ks2) : id \in IdsOf(ks) \/ id \in n..n2 - 1
    /\ \A b \in live2 : b \in live \/ b \in n..n2 - 1
    /\ \A k \in ks : k.id \in IdsOf(ks2) => k \in ks2

\* A key that serves serves for as long as there is a key with its id.
LEMMA StillServing ==
    ASSUME NEW n, NEW ks, NEW live, NEW n2, NEW ks2, NEW live2, TurnIn(n, ks, live, n2, ks2, live2),
           NEW id \in IdsOf(ks2), NEW caps, NEW bs, Serving(ks, id, caps, bs)
    PROVE  Serving(ks2, id, caps, bs)
BY DEF TurnIn, Serving

\* Keys that come and go take nothing from the rules.
LEMMA KeysComeAndGo ==
    ASSUME NEW n, NEW ks, NEW live, NEW st, NEW n2, NEW ks2, NEW live2,
           RulesIn(n, ks, live, st), TurnIn(n, ks, live, n2, ks2, live2)
    PROVE  RulesIn(n2, ks2, live2, st)
<1>1. n \in Nat /\ n2 \in Nat /\ 0 < n /\ n <= n2
  BY DEF RulesIn, TurnIn
<1>2. IdsOf(ks) \subseteq 1..n - 1 /\ live \subseteq 1..n - 1 /\ DOMAIN st \subseteq 1..n - 1
  BY DEF RulesIn
<1>3. IdsOf(ks2) \cup live2 \cup DOMAIN st \subseteq 1..n2 - 1
  <2>1. 1..n - 1 \subseteq 1..n2 - 1 /\ n..n2 - 1 \subseteq 1..n2 - 1
    BY <1>1
  <2>2. IdsOf(ks2) \subseteq IdsOf(ks) \cup n..n2 - 1 /\ live2 \subseteq live \cup n..n2 - 1
    BY DEF TurnIn
  <2> HIDE DEF IdsOf
  <2> QED
    BY <1>2, <2>1, <2>2
<1>4. live2 \cap 1..n - 1 \subseteq live
  BY <1>1 DEF TurnIn
<1>5. \A id \in IdsOf(ks2) : id # None /\ (id \in 1..n - 1 => id \in IdsOf(ks))
  BY <1>1, <1>3 DEF TurnIn, None
<1>6. ASSUME NEW b \in live2 \cap DOMAIN st PROVE NamedOnce(n2, st[b].replication)
  <2>1. NamedOnce(n, st[b].replication)
    BY <1>2, <1>4 DEF RulesIn
  <2>2. 1..n - 1 \subseteq 1..n2 - 1
    BY <1>1
  <2> QED
    BY <2>1, <2>2 DEF NamedOnce
<1>7. ASSUME NEW b \in live2 \cap DOMAIN st PROVE GrantedIn(ks2, live2, st, b)
  <2> DEFINE source == SourceKey(st[b].replication)
  <2> SUFFICES ASSUME SourceOf(st[b].replication).is = "object"
               PROVE  /\ source \in IdsOf(ks2) /\ ~ st[b].placed => Serving(ks2, source, Reading, {b})
                      /\ \A to \in DestinationsOf(st[b].replication) :
                            KeyFor(live2, st, to, source) \in IdsOf(ks2) =>
                                Serving(ks2, KeyFor(live2, st, to, source), Writing, {to})
    BY DEF GrantedIn
  <2>1. b \in live \cap DOMAIN st
    BY <1>2, <1>4
  <2>2. GrantedIn(ks, live, st, b) /\ NamedOnce(n, st[b].replication)
    BY <2>1 DEF RulesIn
  <2>3. source \in 1..n - 1 /\ \A to \in DestinationsOf(st[b].replication) : to \in 1..n - 1
    BY <2>2 DEF NamedOnce
  <2>4. ASSUME source \in IdsOf(ks2), ~ st[b].placed PROVE Serving(ks2, source, Reading, {b})
    <3>1. source \in IdsOf(ks)
      BY <1>5, <2>3, <2>4
    <3>2. Serving(ks, source, Reading, {b})
      BY <2>2, <2>4, <3>1 DEF GrantedIn
    <3> QED
      BY <2>4, <3>2, StillServing
  <2>5. ASSUME NEW to \in DestinationsOf(st[b].replication), KeyFor(live2, st, to, source) \in IdsOf(ks2)
        PROVE  Serving(ks2, KeyFor(live2, st, to, source), Writing, {to})
    <3>1. KeyFor(live2, st, to, source) # None
      BY <1>5, <2>5
    <3>2. to \in live2 /\ to \in live /\ to \in DOMAIN st
      <4>1. to \in live2 /\ source \in DOMAIN MappingOf(ReplicationIn(st, to))
        BY <3>1 DEF KeyFor
      <4>2. to \in DOMAIN st
        BY <4>1 DEF ReplicationIn, MappingOf, DestinationOf, Part, Null, Missing
      <4> QED
        BY <1>4, <2>3, <4>1, <4>2
    <3>3. KeyFor(live2, st, to, source) = KeyFor(live, st, to, source)
      BY <3>2 DEF KeyFor
    <3>4. KeyFor(live, st, to, source) \in 1..n - 1
      <4>1. NamedOnce(n, st[to].replication)
        BY <3>2 DEF RulesIn
      <4> QED
        BY <3>1, <3>2, <3>3, <4>1 DEF KeyFor, NamedOnce, ReplicationIn
    <3>5. Serving(ks, KeyFor(live, st, to, source), Writing, {to})
      BY <1>5, <2>2, <2>5, <3>3, <3>4 DEF GrantedIn
    <3> QED
      BY <2>5, <3>3, <3>5, StillServing
  <2> QED
    BY <2>4, <2>5
<1> QED
  BY <1>1, <1>3, <1>6, <1>7 DEF RulesIn

\* A configuration that the service takes means the same once it has both sides.
LEMMA WrappedSame ==
    ASSUME NEW config, ReplicationFits(config)
    PROVE  /\ SourceOf(Wrapped(config)).is = "object" => SourceOf(Wrapped(config)) = SourceOf(config)
           /\ MappingOf(Wrapped(config)) = MappingOf(config)
<1> DEFINE both == [f \in ReplicationFields |-> IF Field(config, f) = Missing THEN Null ELSE Field(config, f)]
<1>1. config.is = "object" /\ Missing.is # "object" /\ Null.is # "object"
  BY DEF ReplicationFits, HasOnly, Missing, Null
<1>2. SourceOf(config) = Field(config, "asReplicationSource")
      /\ DestinationOf(config) = Field(config, "asReplicationDestination")
  BY <1>1 DEF SourceOf, DestinationOf, Part
<1>3. CASE Wrapped(config) = Null
  <2>1. both["asReplicationDestination"] = Null
    <3>1. \A f \in ReplicationFields : both[f] = Null
      BY <1>3 DEF Wrapped, Object, Null
    <3> QED
      BY <3>1 DEF ReplicationFields
  <2>2. DestinationOf(config).is # "object"
    BY <1>1, <1>2, <2>1 DEF ReplicationFields
  <2>3. SourceOf(Wrapped(config)).is # "object" /\ DestinationOf(Wrapped(config)).is # "object"
    BY <1>1, <1>3 DEF SourceOf, DestinationOf, Part
  <2> QED
    BY <2>2, <2>3 DEF MappingOf
<1>4. CASE Wrapped(config) # Null
  <2>1. Wrapped(config) = Object(both)
    BY <1>4 DEF Wrapped
  <2>2. \A f \in ReplicationFields : Field(Wrapped(config), f) = both[f]
    BY <2>1 DEF Object, Field
  <2>3. Wrapped(config).is = "object"
    BY <2>1 DEF Object
  <2>4. SourceOf(Wrapped(config)) = both["asReplicationSource"]
        /\ DestinationOf(Wrapped(config)) = both["asReplicationDestination"]
    BY <2>2, <2>3 DEF SourceOf, DestinationOf, Part, ReplicationFields
  <2>5. SourceOf(Wrapped(config)) = (IF SourceOf(config) = Missing THEN Null ELSE SourceOf(config))
        /\ DestinationOf(Wrapped(config)) = (IF DestinationOf(config) = Missing THEN Null ELSE DestinationOf(config))
    BY <1>2, <2>4 DEF ReplicationFields
  <2>6. SourceOf(Wrapped(config)).is = "object" => SourceOf(Wrapped(config)) = SourceOf(config)
    BY <1>1, <2>5
  <2>7. MappingOf(Wrapped(config)) = MappingOf(config)
    <3>1. CASE DestinationOf(config) = Missing
      BY <1>1, <2>5, <3>1 DEF MappingOf
    <3>2. CASE DestinationOf(config) # Missing
      BY <2>5, <3>2 DEF MappingOf
    <3> QED
      BY <3>1, <3>2
  <2> QED
    BY <2>6, <2>7
<1> QED
  BY <1>3, <1>4

LEMMA WrappedServes ==
    ASSUME NEW ks, NEW live, NEW st, NEW config, NEW where,
           ReplicationFits(config), ServesIn(ks, live, st, config, where)
    PROVE  ServesIn(ks, live, st, Wrapped(config), where)
<1>1. SourceOf(Wrapped(config)).is = "object" =>
          /\ SourceOf(config).is = "object" /\ SourceKey(Wrapped(config)) = SourceKey(config)
          /\ DestinationsOf(Wrapped(config)) = DestinationsOf(config)
  BY WrappedSame DEF SourceKey, DestinationsOf, RulesOf
<1>2. MappingOf(Wrapped(config)) = MappingOf(config)
  BY WrappedSame
<1> HIDE DEF Wrapped
<1> QED
  BY <1>1, <1>2 DEF ServesIn

\* A configuration whose keys serve names keys and buckets there are.
LEMMA ServedOnce ==
    ASSUME NEW n, NEW ks, NEW live, NEW st, NEW config, NEW where, RulesIn(n, ks, live, st),
           ServesIn(ks, live, st, config, where)
    PROVE  NamedOnce(n, config)
<1>1. IdsOf(ks) \cup live \subseteq 1..n - 1
  BY DEF RulesIn
<1>2. ASSUME NEW id, NEW caps, NEW bs, Serving(ks, id, caps, bs) PROVE id \in 1..n - 1
  BY <1>1, <1>2 DEF Serving, IdsOf
<1>3. ASSUME NEW b, NEW source, KeyFor(live, st, b, source) # None PROVE b \in 1..n - 1
  BY <1>1, <1>3 DEF KeyFor
<1> QED
  BY <1>2, <1>3 DEF ServesIn, NamedOnce

\* Keys are checked for the bucket they are to serve, or it is new and no rule leads there.
Examined(live, st, x, new, where) ==
    where = {x} \/ /\ new.placed /\ x \notin DestinationsOf(new.replication)
                   /\ \A b \in live \cap DOMAIN st : x \notin DestinationsOf(st[b].replication)

\* What becomes of the rules when the settings of one bucket are written: its own are checked, or
\* they are what they were.
LEMMA RulesWritten ==
    ASSUME NEW n, NEW ks, NEW live, NEW st, NEW x, NEW new, NEW st2, NEW where,
           RulesIn(n, ks, live, st), x \in live,
           st2 = [y \in DOMAIN st \cup {x} |-> IF y = x THEN new ELSE st[y]],
           \/ ServesIn(ks, live, st, new.replication, where) /\ Examined(live, st, x, new, where)
           \/ new.replication = ReplicationIn(st, x) /\ (x \in DOMAIN st => new.placed = st[x].placed)
    PROVE  RulesIn(n, ks, live, st2)
<1>1. n \in Nat /\ 0 < n /\ IdsOf(ks) \cup live \cup DOMAIN st \subseteq 1..n - 1
  BY DEF RulesIn
<1>2. DOMAIN st2 = DOMAIN st \cup {x} /\ st2[x] = new /\ \A y \in DOMAIN st \ {x} : st2[y] = st[y]
  OBVIOUS
<1>3. None \notin IdsOf(ks)
  BY <1>1 DEF None
<1>4. \A y, source : y # x => KeyFor(live, st2, y, source) = KeyFor(live, st, y, source)
  <2>1. \A y : y # x => ReplicationIn(st2, y) = ReplicationIn(st, y)
    BY <1>2 DEF ReplicationIn
  <2> QED
    BY <2>1 DEF KeyFor
<1>5. ReplicationIn(st2, x) = new.replication
  BY <1>2 DEF ReplicationIn
<1>6. ASSUME new.replication = ReplicationIn(st, x), x \in DOMAIN st => new.placed = st[x].placed
      PROVE  RulesIn(n, ks, live, st2)
  <2>1. \A y, source : KeyFor(live, st2, y, source) = KeyFor(live, st, y, source)
    BY <1>4, <1>5, <1>6 DEF KeyFor
  <2>2. ASSUME NEW b \in live \cap DOMAIN st2
        PROVE  NamedOnce(n, st2[b].replication) /\ GrantedIn(ks, live, st2, b)
    <3>1. CASE b \in DOMAIN st
      <4>1. st2[b].replication = st[b].replication /\ st2[b].placed = st[b].placed
        BY <1>2, <1>6, <3>1 DEF ReplicationIn
      <4>2. NamedOnce(n, st[b].replication) /\ GrantedIn(ks, live, st, b)
        BY <3>1 DEF RulesIn
      <4> QED
        BY <2>1, <4>1, <4>2 DEF GrantedIn
    <3>2. CASE b \notin DOMAIN st
      <4>1. st2[b].replication = Null
        BY <1>2, <1>6, <3>2 DEF ReplicationIn
      <4>2. SourceOf(Null).is # "object" /\ DOMAIN MappingOf(Null) = {}
        BY DEF SourceOf, MappingOf, DestinationOf, Part, Null, Missing
      <4> QED
        BY <4>1, <4>2 DEF NamedOnce, GrantedIn
    <3> QED
      BY <3>1, <3>2
  <2> QED
    BY <1>1, <1>2, <2>2 DEF RulesIn
<1>7. ASSUME ServesIn(ks, live, st, new.replication, where),
             Examined(live, st, x, new, where)
      PROVE  RulesIn(n, ks, live, st2)
  <2> USE DEF Examined
  <2>1. NamedOnce(n, new.replication)
    BY <1>7, ServedOnce
  <2>2. ASSUME NEW source, where = {x}, KeyFor(live, st2, x, source) \in IdsOf(ks)
        PROVE  Serving(ks, KeyFor(live, st2, x, source), Writing, {x})
    <3>1. source \in DOMAIN MappingOf(new.replication)
          /\ KeyFor(live, st2, x, source) = MappingOf(new.replication)[source].text
      BY <1>3, <1>5, <2>2 DEF KeyFor
    <3> QED
      BY <1>7, <2>2, <3>1 DEF ServesIn
  <2>3. GrantedIn(ks, live, st2, x)
    <3> SUFFICES ASSUME SourceOf(new.replication).is = "object"
                 PROVE  /\ ~ new.placed => Serving(ks, SourceKey(new.replication), Reading, {x})
                        /\ \A to \in DestinationsOf(new.replication) :
                              KeyFor(live, st2, to, SourceKey(new.replication)) \in IdsOf(ks) =>
                                  Serving(ks, KeyFor(live, st2, to, SourceKey(new.replication)), Writing, {to})
      BY <1>2 DEF GrantedIn
    <3>1. ~ new.placed => Serving(ks, SourceKey(new.replication), Reading, {x})
      BY <1>7 DEF ServesIn
    <3>2. ASSUME NEW to \in DestinationsOf(new.replication),
                 KeyFor(live, st2, to, SourceKey(new.replication)) \in IdsOf(ks)
          PROVE  Serving(ks, KeyFor(live, st2, to, SourceKey(new.replication)), Writing, {to})
      <4>1. CASE to # x
        BY <1>4, <1>7, <4>1 DEF ServesIn
      <4>2. CASE to = x
        <5>1. x \in DestinationsOf(new.replication)
          BY <4>2
        <5>2. where = {x}
          BY <1>7, <5>1, Zenon
        <5>3. KeyFor(live, st2, x, SourceKey(new.replication)) \in IdsOf(ks)
          BY <3>2, <4>2
        <5> QED
          BY <2>2, <4>2, <5>2, <5>3
      <4> QED
        BY <4>1, <4>2
    <3> QED
      BY <3>1, <3>2
  <2>4. ASSUME NEW b \in live \cap DOMAIN st, b # x PROVE GrantedIn(ks, live, st2, b)
    <3> SUFFICES ASSUME SourceOf(st[b].replication).is = "object"
                 PROVE  /\ SourceKey(st[b].replication) \in IdsOf(ks) /\ ~ st[b].placed =>
                              Serving(ks, SourceKey(st[b].replication), Reading, {b})
                        /\ \A to \in DestinationsOf(st[b].replication) :
                              KeyFor(live, st2, to, SourceKey(st[b].replication)) \in IdsOf(ks) =>
                                  Serving(ks, KeyFor(live, st2, to, SourceKey(st[b].replication)), Writing, {to})
      BY <1>2, <2>4 DEF GrantedIn
    <3>1. GrantedIn(ks, live, st, b)
      BY DEF RulesIn
    <3>2. ASSUME NEW to \in DestinationsOf(st[b].replication),
                 KeyFor(live, st2, to, SourceKey(st[b].replication)) \in IdsOf(ks)
          PROVE  Serving(ks, KeyFor(live, st2, to, SourceKey(st[b].replication)), Writing, {to})
      <4>1. CASE to # x
        BY <1>4, <3>1, <3>2, <4>1 DEF GrantedIn
      <4>2. CASE to = x
        BY <1>7, <2>2, <3>2, <4>2
      <4> QED
        BY <4>1, <4>2
    <3> QED
      BY <3>1, <3>2 DEF GrantedIn
  <2>5. \A b \in live \cap DOMAIN st : NamedOnce(n, st[b].replication)
    BY DEF RulesIn
  <2>6. \A b \in live \cap DOMAIN st2 : NamedOnce(n, st2[b].replication) /\ GrantedIn(ks, live, st2, b)
    BY <1>2, <2>1, <2>3, <2>4, <2>5
  <2> QED
    BY <1>1, <1>2, <2>6 DEF RulesIn
<1> QED
  BY <1>6, <1>7

LEMMA RulesChecked ==
    ASSUME NEW n, NEW ks, NEW live, NEW st, NEW x, NEW new, NEW st2, RulesIn(n, ks, live, st), x \in live,
           st2 = [y \in DOMAIN st \cup {x} |-> IF y = x THEN new ELSE st[y]],
           ServesIn(ks, live, st, new.replication, {x})
    PROVE  RulesIn(n, ks, live, st2)
<1>1. Examined(live, st, x, new, {x})
  BY DEF Examined
<1> QED
  BY <1>1, RulesWritten, Zenon

-----------------------------------------------------------------------------
(* The settings in the service.                                            *)

\* The keys of the rules that are there serve, and no rule waits for a key or a bucket to come.
RulesInv ==
    /\ RulesIn(nextId, keys, Live, settings)
    /\ \A b \in DOMAIN settings : {"replication", "placed"} \subseteq DOMAIN settings[b]

LEMMA RulesGranted == ASSUME RulesInv PROVE RulesAreGranted
<1> SUFFICES ASSUME NEW b \in Live \cap DOMAIN settings, SourceOf(settings[b].replication).is = "object"
             PROVE  /\ SourceKey(settings[b].replication) \in KeyIds /\ ~ settings[b].placed =>
                          KeyServes(SourceKey(settings[b].replication), Reading, {b})
                    /\ \A to \in DestinationsOf(settings[b].replication) :
                          KeyAt(to, SourceKey(settings[b].replication)) \in KeyIds =>
                              KeyServes(KeyAt(to, SourceKey(settings[b].replication)), Writing, {to})
  BY DEF RulesAreGranted, SourceKey
<1>1. GrantedIn(keys, Live, settings, b)
  BY DEF RulesInv, RulesIn
<1>2. KeyIds = IdsOf(keys)
  BY DEF KeyIds, IdsOf
<1>3. \A id, caps, bs : KeyServes(id, caps, bs) = Serving(keys, id, caps, bs)
  BY DEF KeyServes, Serving
<1>4. \A to, source : KeyAt(to, source) = KeyFor(Live, settings, to, source)
  BY DEF KeyAt, KeyFor, Configured, Unconfigured, ReplicationIn
<1> QED
  BY <1>1, <1>2, <1>3, <1>4 DEF GrantedIn

\* The service's check.
LEMMA ServedRules ==
    ASSUME NEW config, NEW where, KeysServe(config, where)
    PROVE  ServesIn(keys, Live, settings, config, where)
<1>1. \A id, caps, bs : KeyServes(id, caps, bs) = Serving(keys, id, caps, bs)
  BY DEF KeyServes, Serving
<1>2. \A to, source : KeyAt(to, source) = KeyFor(Live, settings, to, source)
  BY DEF KeyAt, KeyFor, Configured, Unconfigured, ReplicationIn
<1> QED
  BY <1>1, <1>2 DEF KeysServe, ServesIn, DestinationServes, SourceKey

LEMMA KeysTurnIn ==
    ASSUME KeysTurn
    PROVE  TurnIn(nextId, keys, Live, nextId', keys', Live')
BY DEF KeysTurn, TurnIn, KeyIds, IdsOf

\* What is stored of a request.
LEMMA StoredRules ==
    ASSUME NEW b, NEW request, NEW created \in BOOLEAN, NEW stored0,
           stored0 = Stored(Configured(b), request, created),
           b \in DOMAIN settings => {"replication", "placed"} \subseteq DOMAIN settings[b]
    PROVE  /\ {"replication", "placed"} \subseteq DOMAIN stored0
           /\ Asks(request, "replication") =>
                 stored0.replication = Wrapped(request.replication) /\ (created => stored0.placed)
           /\ ~ Asks(request, "replication") =>
                 stored0.replication = ReplicationIn(settings, b)
                 /\ (b \in DOMAIN settings => stored0.placed = settings[b].placed)
<1>1. {"replication", "placed"} \subseteq DOMAIN Configured(b)
  BY DEF Configured, Unconfigured
<1>2. DOMAIN stored0 = DOMAIN Configured(b)
  BY DEF Stored
<1>3. stored0["placed"] = IF Asks(request, "replication") THEN created ELSE Configured(b)["placed"]
  BY <1>1 DEF Stored
<1>4. Asks(request, "replication") => stored0["replication"] = Wrapped(request.replication)
  BY <1>1 DEF Stored
<1>5. ~ Asks(request, "replication") => stored0["replication"] = Configured(b)["replication"]
  BY <1>1 DEF Stored
<1>6. Configured(b)["replication"] = ReplicationIn(settings, b)
  BY DEF Configured, Unconfigured, ReplicationIn
<1>7. b \in DOMAIN settings => Configured(b)["placed"] = settings[b].placed
  BY DEF Configured
<1>8. Asks(request, "replication") /\ created => stored0.placed
  BY <1>3
<1> QED
  BY <1>1, <1>2, <1>3, <1>4, <1>5, <1>6, <1>7, <1>8

LEMMA UpdateKeepsRules ==
    ASSUME RulesInv, NEW helping, NEW t, NEW b, NEW request, Update(helping, t, b, request)
    PROVE  RulesInv'
<1>1. ASSUME UNCHANGED <<storageVars, settings>> PROVE RulesInv'
  BY <1>1 DEF RulesInv, storageVars, keyVars, bucketVars, Live
<1>2. ASSUME FieldsFit(request), KeysServeFor(request, {b}), b \in Live, Settle(b, request, FALSE),
             UpdateBucket(t, b, None, "keep", RetentionAsked(request))
      PROVE  RulesInv'
  <2>1. keys' = keys /\ nextId' = nextId /\ Live' = Live
    BY <1>2 DEF UpdateBucket, keyVars, Live
  <2>2. PICK new : new = Stored(Configured(b), request, FALSE)
    OBVIOUS
  <2>3. settings' = [y \in DOMAIN settings \cup {b} |-> IF y = b THEN new ELSE settings[y]]
    BY <1>2, <2>2 DEF Settle
  <2>4. /\ {"replication", "placed"} \subseteq DOMAIN new
        /\ Asks(request, "replication") => new.replication = Wrapped(request.replication)
        /\ ~ Asks(request, "replication") =>
              new.replication = ReplicationIn(settings, b) /\ (b \in DOMAIN settings => new.placed = settings[b].placed)
    <3>1. b \in DOMAIN settings => {"replication", "placed"} \subseteq DOMAIN settings[b]
      BY DEF RulesInv
    <3> QED
      BY <2>2, <3>1, StoredRules, Zenon
  <2>5. Asks(request, "replication") => ServesIn(keys, Live, settings, new.replication, {b})
    <3> SUFFICES ASSUME Asks(request, "replication") PROVE ServesIn(keys, Live, settings, new.replication, {b})
      OBVIOUS
    <3>1. ReplicationFits(request.replication) /\ KeysServe(request.replication, {b})
      BY <1>2 DEF FieldsFit, KeysServeFor
    <3>2. ServesIn(keys, Live, settings, Wrapped(request.replication), {b})
      BY <3>1, ServedRules, WrappedServes
    <3> QED
      BY <2>4, <3>2
  <2>6. RulesIn(nextId, keys, Live, settings')
    <3>1. CASE Asks(request, "replication")
      <4>1. ServesIn(keys, Live, settings, new.replication, {b})
        BY <2>5, <3>1
      <4> QED
        BY <1>2, <2>3, <4>1, RulesChecked, Zenon DEF RulesInv
    <3>2. CASE ~ Asks(request, "replication")
      <4>1. new.replication = ReplicationIn(settings, b) /\ (b \in DOMAIN settings => new.placed = settings[b].placed)
        BY <2>4, <3>2
      <4> QED
        BY <1>2, <2>3, <4>1, RulesWritten, Zenon DEF RulesInv
    <3> QED
      BY <3>1, <3>2
  <2>7. \A y \in DOMAIN settings' : {"replication", "placed"} \subseteq DOMAIN settings'[y]
    BY <2>3, <2>4 DEF RulesInv
  <2> QED
    BY <2>1, <2>6, <2>7 DEF RulesInv
<1> QED
  BY <1>1, <1>2 DEF Update

LEMMA CreateKeepsRules ==
    ASSUME RulesInv, NEW t, NEW lock, NEW request, FieldsFit(request), CreateConfigured(t, lock, request)
    PROVE  RulesInv'
<1>1. keys' = keys /\ nextId' = nextId + 1 /\ Live' = Live \cup {nextId}
  BY DEF CreateConfigured, CreateBucket, AddBucket, Take, keyVars, Live
<1>2. PICK new : new = Stored(Configured(nextId), request, TRUE)
  OBVIOUS
<1>3. settings' = [y \in DOMAIN settings \cup {nextId} |-> IF y = nextId THEN new ELSE settings[y]]
  BY <1>2 DEF CreateConfigured, Settle
<1>4. /\ {"replication", "placed"} \subseteq DOMAIN new
      /\ Asks(request, "replication") => new.replication = Wrapped(request.replication) /\ new.placed
      /\ ~ Asks(request, "replication") =>
            new.replication = ReplicationIn(settings, nextId)
            /\ (nextId \in DOMAIN settings => new.placed = settings[nextId].placed)
  <2>1. nextId \in DOMAIN settings => {"replication", "placed"} \subseteq DOMAIN settings[nextId]
    BY DEF RulesInv
  <2> QED
    BY <1>2, <2>1, StoredRules, Zenon
<1>5. nextId \in Nat /\ nextId \notin Live
  BY DEF RulesInv, RulesIn
<1>6. TurnIn(nextId, keys, Live, nextId + 1, keys, Live \cup {nextId})
  BY <1>5 DEF TurnIn
<1>7. RulesIn(nextId + 1, keys, Live \cup {nextId}, settings)
  BY <1>6, KeysComeAndGo DEF RulesInv
<1>8. ASSUME Asks(request, "replication")
      PROVE  /\ ServesIn(keys, Live, settings, new.replication, {})
             /\ nextId \notin DestinationsOf(new.replication)
             /\ ServesIn(keys, Live \cup {nextId}, settings, new.replication, {})
  <2>1. ServesIn(keys, Live, settings, new.replication, {})
    BY <1>4, <1>8, ServedRules, WrappedServes DEF CreateConfigured, FieldsFit, KeysServeFor
  <2>2. PICK config : config = new.replication
    OBVIOUS
  <2>3. \A b, source : KeyFor(Live, settings, b, source) # None =>
            b # nextId /\ KeyFor(Live \cup {nextId}, settings, b, source) = KeyFor(Live, settings, b, source)
    BY <1>5 DEF KeyFor
  <2>4. SourceOf(config).is = "object" \/ DestinationsOf(config) = {}
    BY DEF DestinationsOf, RulesOf
  <2>5. nextId \notin DestinationsOf(config)
    BY <2>1, <2>2, <2>3, <2>4 DEF ServesIn
  <2>6. ServesIn(keys, Live \cup {nextId}, settings, config, {})
    BY <2>1, <2>2, <2>3 DEF ServesIn
  <2> QED
    BY <2>1, <2>2, <2>5, <2>6
<1>9. \A b \in (Live \cup {nextId}) \cap DOMAIN settings : nextId \notin DestinationsOf(settings[b].replication)
  <2> SUFFICES ASSUME NEW b \in Live \cap DOMAIN settings PROVE nextId \notin DestinationsOf(settings[b].replication)
    BY DEF RulesInv, RulesIn
  <2>1. NamedOnce(nextId, settings[b].replication)
    BY DEF RulesInv, RulesIn
  <2>2. SourceOf(settings[b].replication).is = "object" \/ DestinationsOf(settings[b].replication) = {}
    BY DEF DestinationsOf, RulesOf
  <2> QED
    BY <1>5, <2>1, <2>2 DEF NamedOnce
<1>10. RulesIn(nextId + 1, keys, Live \cup {nextId}, settings')
  <2>1. CASE Asks(request, "replication")
    <3>1. ServesIn(keys, Live \cup {nextId}, settings, new.replication, {})
      BY <1>8, <2>1
    <3>2. Examined(Live \cup {nextId}, settings, nextId, new, {})
      BY <1>4, <1>8, <1>9, <2>1 DEF Examined
    <3> QED
      BY <1>3, <1>7, <3>1, <3>2, RulesWritten, Zenon
  <2>2. CASE ~ Asks(request, "replication")
    <3>1. new.replication = ReplicationIn(settings, nextId)
          /\ (nextId \in DOMAIN settings => new.placed = settings[nextId].placed)
      BY <1>4, <2>2
    <3> QED
      BY <1>3, <1>7, <3>1, RulesWritten, Zenon
  <2> QED
    BY <2>1, <2>2
<1>11. \A y \in DOMAIN settings' : {"replication", "placed"} \subseteq DOMAIN settings'[y]
  BY <1>3, <1>4 DEF RulesInv
<1> QED
  BY <1>1, <1>10, <1>11 DEF RulesInv

\* Any other step leaves the settings alone, or writes them as a helper's update.
LEMMA RulesStep == ASSUME UrlInv, RulesInv, [Next]_vars PROVE RulesInv'
<1>1. ASSUME Turn, settings' = settings PROVE RulesInv'
  <2>1. 0 < nextId /\ \A id \in KeyIds : Made(id)
    BY DEF RulesInv, RulesIn, KeyIds, IdsOf, Made
  <2>2. KeysTurn
    BY <1>1, <2>1, TurnKeys
  <2>3. RulesIn(nextId', keys', Live', settings)
    BY <2>2, KeysTurnIn, KeysComeAndGo DEF RulesInv
  <2> QED
    BY <1>1, <2>3 DEF RulesInv
<1>2. Turn
  BY TurnStep
<1>3. ASSUME SettingsNext PROVE RulesInv'
  <2>1. ASSUME NEW t, NEW b, NEW request, Try(t, b, request) PROVE RulesInv'
    BY <2>1, UpdateKeepsRules DEF Try
  <2>2. ASSUME NEW t, NEW lock, NEW request \in Fitting(ReplicationRequests \cup plan.trials),
               CreateConfigured(t, lock, request)
        PROVE  RulesInv'
    BY <2>2, CreateKeepsRules DEF Fitting
  <2>3. ASSUME HelperWrites PROVE RulesInv'
    <3>1. Update(TRUE, helper.token, helper.bucket, HelperRequest) => RulesInv'
      BY UpdateKeepsRules
    <3>2. UNCHANGED <<storageVars, settings, answer>> => settings' = settings
      OBVIOUS
    <3> QED
      BY <1>1, <1>2, <2>3, <3>1, <3>2 DEF HelperWrites
  <2>4. ASSUME NEW t, NEW b, NEW rules, NotifyOf(t, b, rules) PROVE settings' = settings
    BY <2>4 DEF NotifyOf, settingsVars
  <2>5. ASSUME NEW t, NEW b, NEW edit, Refresh(t, b, edit) PROVE settings' = settings
    BY <2>5 DEF Refresh
  <2>6. ASSUME NEW trial, TryRequest(trial) PROVE settings' = settings
    BY <2>6 DEF TryRequest
  <2> HIDE DEF Fitting, ReplicationRequests, RuleEdits, LifecycleEdits
  <2> QED
    BY <1>1, <1>2, <1>3, <2>1, <2>2, <2>3, <2>4, <2>5, <2>6 DEF SettingsNext
<1>4. ASSUME ~ SettingsNext PROVE settings' = settings
  BY <1>4 DEF Next, vars, fileVars, settingsVars
<1> QED
  BY <1>1, <1>2, <1>3, <1>4

\* Whatever keys and buckets were deleted and configured in whatever order: while the keys of a
\* replication rule are there, its source key may read the bucket and the key its destination has
\* for it may write there (validateReplicationApplicationKeys and
\* validateReplicationDestinationBuckets in simulator/index.ts, deleteKey, deleteBucket).
THEOREM RulesStayGranted == Spec => []RulesAreGranted
<1>1. Init => UrlInv /\ RulesInv
  <2>1. ASSUME Init PROVE RulesInv
    <3>1. nextId = 1 /\ keys = {} /\ Live = {} /\ settings = <<>>
      BY <2>1 DEF Init, ServiceInit, SettingsInit, Live
    <3> QED
      BY <3>1 DEF RulesInv, RulesIn, IdsOf
  <2> QED
    BY <2>1, GrantsInit
<1>2. UrlInv /\ RulesInv /\ [Next]_vars => UrlInv' /\ RulesInv'
  BY TurnStep, UrlStep, RulesStep
<1> QED
  BY <1>1, <1>2, RulesGranted, PTL DEF Spec

-----------------------------------------------------------------------------
(* What a helper keeps of a bucket's rules: Without, one rule after another. *)

Keeps(k, rules, rule, f, m) ==
    k = [i \in 0..m |-> IF i = 0 THEN <<>>
                        ELSE IF Field(rules[i], f).text = Field(rule, f).text THEN k[i - 1]
                        ELSE Append(k[i - 1], rules[i])]

\* Of a number of things that are numbered, one comes first.
LEMMA FirstOf ==
    ASSUME NEW n \in Nat, NEW bad, bad \subseteq 0..n, bad # {}
    PROVE  \E i \in bad : \A j \in bad : i <= j
<1>1. IsFiniteSet(bad) /\ bad \subseteq Nat
  <2>1. IsFiniteSet(0..n)
    BY FS_Interval
  <2>2. bad \subseteq Nat
    OBVIOUS
  <2> QED
    BY <2>1, <2>2, FS_Subset
<1> PICK h : h = [i \in bad |-> i]
  OBVIOUS
<1>2. \A i \in bad : h[i] \in Nat
  BY <1>1
<1>3. \E i \in bad : \A j \in bad : h[i] <= h[j]
  BY ONLY <1>1, <1>2, bad # {}, LeastOf
<1> QED
  BY <1>3

\* There is such a function for the rules up to any number.
LEMMA KeepsExists == ASSUME NEW rules, NEW rule, NEW f, NEW n \in Nat PROVE \E k : Keeps(k, rules, rule, f, n)
<1> PICK bad : bad = {m \in 0..n : ~ \E k : Keeps(k, rules, rule, f, m)}
  OBVIOUS
<1> SUFFICES ASSUME bad # {} PROVE FALSE
  OBVIOUS
<1>1. PICK m \in bad : \A j \in bad : m <= j
  BY FirstOf
<1>2. m # 0
  <2>1. PICK k : k = [i \in 0..0 |-> <<>>]
    OBVIOUS
  <2>2. Keeps(k, rules, rule, f, 0)
    BY <2>1 DEF Keeps
  <2> QED
    BY <2>2
<1>3. m \in 1..n /\ m - 1 \in 0..n /\ m - 1 \notin bad
  BY <1>1, <1>2
<1>4. PICK k : Keeps(k, rules, rule, f, m - 1)
  BY <1>3
<1>5. PICK last : last = IF Field(rules[m], f).text = Field(rule, f).text THEN k[m - 1] ELSE Append(k[m - 1], rules[m])
  OBVIOUS
<1>6. PICK j : j = [i \in 0..m |-> IF i = m THEN last ELSE k[i]]
  OBVIOUS
<1>7. ASSUME NEW i \in 0..m
      PROVE  j[i] = IF i = 0 THEN <<>>
                    ELSE IF Field(rules[i], f).text = Field(rule, f).text THEN j[i - 1]
                    ELSE Append(j[i - 1], rules[i])
  <2>1. CASE i = m
    <3>1. j[i] = last /\ j[i - 1] = k[m - 1] /\ i # 0
      BY <1>3, <1>6, <2>1
    <3> QED
      BY <1>5, <2>1, <3>1
  <2>2. CASE i # m
    <3>1. i \in 0..m - 1 /\ (i # 0 => i - 1 \in 0..m /\ i - 1 # m)
      BY <1>3, <2>2
    <3>2. j[i] = k[i] /\ (i # 0 => j[i - 1] = k[i - 1])
      BY <1>6, <2>2, <3>1
    <3>3. k[i] = IF i = 0 THEN <<>>
                 ELSE IF Field(rules[i], f).text = Field(rule, f).text THEN k[i - 1]
                 ELSE Append(k[i - 1], rules[i])
      BY <1>4, <3>1, Zenon DEF Keeps
    <3> QED
      BY <3>2, <3>3
  <2> QED
    BY <2>1, <2>2
<1>8. j = [i \in 0..m |-> j[i]]
  BY <1>6
<1>9. Keeps(j, rules, rule, f, m)
  BY <1>7, <1>8, Zenon DEF Keeps
<1> QED
  BY <1>9

LEMMA WithoutIs ==
    ASSUME NEW rules, NEW rule, NEW f, NEW n \in Nat, Len(rules) = n
    PROVE  \E k : Keeps(k, rules, rule, f, n) /\ Without(rules, rule, f) = k[n]
<1> DEFINE kept[i \in 0..Len(rules)] ==
            IF i = 0 THEN <<>>
            ELSE IF Field(rules[i], f).text = Field(rule, f).text THEN kept[i - 1]
            ELSE Append(kept[i - 1], rules[i])
<1>1. \E k : k = [i \in 0..Len(rules) |-> IF i = 0 THEN <<>>
                        ELSE IF Field(rules[i], f).text = Field(rule, f).text THEN k[i - 1]
                        ELSE Append(k[i - 1], rules[i])]
  <2> HIDE DEF kept
  <2>1. PICK k : Keeps(k, rules, rule, f, n)
    BY KeepsExists
  <2> QED
    BY <2>1 DEF Keeps
<1>2. kept = [i \in 0..Len(rules) |-> IF i = 0 THEN <<>>
                        ELSE IF Field(rules[i], f).text = Field(rule, f).text THEN kept[i - 1]
                        ELSE Append(kept[i - 1], rules[i])]
  BY <1>1
<1>3. Without(rules, rule, f) = kept[n]
  BY DEF Without
<1> HIDE DEF kept
<1>4. Keeps(kept, rules, rule, f, n)
  BY <1>2 DEF Keeps
<1> QED
  BY <1>3, <1>4

\* One step of it.
OneByOne(k, rules, rule, f, n) ==
    /\ k[0] = <<>>
    /\ \A i \in 1..n : /\ Field(rules[i], f).text = Field(rule, f).text => k[i] = k[i - 1]
                       /\ Field(rules[i], f).text # Field(rule, f).text => k[i] = Append(k[i - 1], rules[i])

LEMMA KeepsOne ==
    ASSUME NEW rules, NEW rule, NEW f, NEW n \in Nat, NEW k, Keeps(k, rules, rule, f, n)
    PROVE  OneByOne(k, rules, rule, f, n)
<1>1. \A i \in 0..n : k[i] = IF i = 0 THEN <<>>
                             ELSE IF Field(rules[i], f).text = Field(rule, f).text THEN k[i - 1]
                             ELSE Append(k[i - 1], rules[i])
  BY DEF Keeps
<1>2. 0 \in 0..n /\ \A i \in 1..n : i \in 0..n /\ i # 0
  OBVIOUS
<1> QED
  BY <1>1, <1>2 DEF OneByOne

\* The rules up to a number that are kept.
KeptUpTo(rules, rule, f, i) == {rules[j] : j \in {x \in 1..i : Field(rules[x], f).text # Field(rule, f).text}}

LEMMA KeptAre ==
    ASSUME NEW rules, NEW rule, NEW f, NEW n \in Nat, NEW k, Keeps(k, rules, rule, f, n)
    PROVE  k[n] \in Seq(KeptUpTo(rules, rule, f, n))
<1>0. /\ k[0] = <<>>
      /\ \A i \in 1..n : /\ Field(rules[i], f).text = Field(rule, f).text => k[i] = k[i - 1]
                         /\ Field(rules[i], f).text # Field(rule, f).text => k[i] = Append(k[i - 1], rules[i])
  <2>1. OneByOne(k, rules, rule, f, n)
    BY ONLY Keeps(k, rules, rule, f, n), n \in Nat, KeepsOne
  <2> QED
    BY <2>1 DEF OneByOne
<1> PICK bad : bad = {i \in 0..n : k[i] \notin Seq(KeptUpTo(rules, rule, f, i))}
  OBVIOUS
<1> SUFFICES ASSUME bad # {} PROVE FALSE
  <2>1. n \in 0..n
    OBVIOUS
  <2> QED
    BY <2>1
<1>1. PICK i \in bad : \A j \in bad : i <= j
  BY FirstOf
<1>2. i # 0
  <2>1. k[0] = <<>> /\ <<>> \in Seq(KeptUpTo(rules, rule, f, 0))
    BY <1>0
  <2> QED
    BY <2>1
<1>3. i \in 1..n /\ i - 1 \in 0..n /\ i - 1 \notin bad
  BY <1>1, <1>2
<1>4. PICK S, T : S = KeptUpTo(rules, rule, f, i - 1) /\ T = KeptUpTo(rules, rule, f, i)
  OBVIOUS
<1>5. S \subseteq T /\ (Field(rules[i], f).text # Field(rule, f).text => rules[i] \in T)
  <2>1. \A j \in 1..i - 1 : j \in 1..i
    BY <1>3
  <2>2. i \in 1..i
    BY <1>3
  <2> QED
    BY <1>4, <2>1, <2>2 DEF KeptUpTo
<1>6. PICK before : before = k[i - 1]
  OBVIOUS
<1>7. before \in Seq(S)
  BY <1>3, <1>4, <1>6
<1>8. before \in Seq(T)
  BY ONLY <1>5, <1>7
<1>9. k[i] \in Seq(T)
  <2>1. CASE Field(rules[i], f).text = Field(rule, f).text
    BY <1>0, <1>3, <1>6, <1>8, <2>1
  <2>2. CASE Field(rules[i], f).text # Field(rule, f).text
    <3>1. k[i] = Append(before, rules[i])
      BY <1>0, <1>3, <1>6, <2>2
    <3>2. rules[i] \in T
      BY <1>5, <2>2
    <3> QED
      BY <1>8, <3>1, <3>2
  <2> QED
    BY <2>1, <2>2
<1> QED
  BY <1>4, <1>9

\* All of a sequence spell this field differently.
Apart(rules, f) == \A a, b \in DOMAIN rules : a # b => Field(rules[a], f).text # Field(rules[b], f).text

LEMMA ApartIs == ASSUME NEW rules, NEW f PROVE Distinct(FieldsOf(rules, f)) <=> Apart(rules, f)
<1> PICK values : values = FieldsOf(rules, f)
  OBVIOUS
<1>1. DOMAIN values = DOMAIN rules /\ \A i \in DOMAIN rules : values[i] = Field(rules[i], f)
  BY DEF FieldsOf
<1> HIDE DEF Field
<1> QED
  BY <1>1 DEF Distinct, Apart

\* A rule that is new among others.
LEMMA ApartAppended ==
    ASSUME NEW S, NEW rules \in Seq(S), NEW rule, NEW f, Apart(rules, f),
           \A i \in DOMAIN rules : Field(rules[i], f).text # Field(rule, f).text
    PROVE  Apart(Append(rules, rule), f)
<1> PICK more : more = Append(rules, rule)
  OBVIOUS
<1>1. /\ DOMAIN more = 1..Len(rules) + 1 /\ DOMAIN rules = 1..Len(rules) /\ Len(rules) \in Nat
      /\ more[Len(rules) + 1] = rule /\ \A i \in DOMAIN rules : more[i] = rules[i]
  <2>1. rules \in Seq(S \cup {rule})
    OBVIOUS
  <2> QED
    BY <2>1
<1>2. \A i \in DOMAIN more : i \in DOMAIN rules \/ i = Len(rules) + 1
  BY <1>1
<1> HIDE DEF Field
<1> QED
  BY <1>1, <1>2 DEF Apart

LEMMA KeptApart ==
    ASSUME NEW S, NEW rules \in Seq(S), NEW rule, NEW f, NEW n \in Nat, n = Len(rules), NEW k, Keeps(k, rules, rule, f, n), Apart(rules, f)
    PROVE  Apart(k[n], f)
<1>0. /\ k[0] = <<>>
      /\ \A i \in 1..n : /\ Field(rules[i], f).text = Field(rule, f).text => k[i] = k[i - 1]
                         /\ Field(rules[i], f).text # Field(rule, f).text => k[i] = Append(k[i - 1], rules[i])
  <2>1. OneByOne(k, rules, rule, f, n)
    BY ONLY Keeps(k, rules, rule, f, n), n \in Nat, KeepsOne
  <2> QED
    BY <2>1 DEF OneByOne
<1> PICK bad : bad = {i \in 0..n : ~ Apart(k[i], f)}
  OBVIOUS
<1> SUFFICES ASSUME bad # {} PROVE FALSE
  <2>1. n \in 0..n
    OBVIOUS
  <2> QED
    BY <2>1
<1>1. PICK i \in bad : \A j \in bad : i <= j
  BY FirstOf
<1>2. i # 0
  <2>1. k[0] = <<>>
    BY <1>0
  <2>2. Apart(<<>>, f)
    BY DEF Apart
  <2> QED
    BY <2>1, <2>2
<1>3. i \in 1..n /\ i - 1 \in 0..n /\ i - 1 \notin bad
  BY <1>1, <1>2
<1>4. PICK before : before = k[i - 1]
  OBVIOUS
<1>5. Apart(before, f)
  BY <1>3, <1>4
<1>6. CASE Field(rules[i], f).text = Field(rule, f).text
  BY <1>0, <1>3, <1>4, <1>5, <1>6
<1>7. CASE Field(rules[i], f).text # Field(rule, f).text
  <2>1. k[i] = Append(before, rules[i])
    BY <1>0, <1>3, <1>4, <1>7
  <2>2. i - 1 \in Nat
    BY <1>3
  <2>3. PICK m : m = i - 1
    OBVIOUS
  <2>4. Keeps(k, rules, rule, f, n) => before \in Seq(KeptUpTo(rules, rule, f, m))
    <3>1. PICK j : j = [x \in 0..m |-> k[x]]
      OBVIOUS
    <3>2. Keeps(j, rules, rule, f, m)
      <4>1. \A x \in 0..m : x \in 0..n /\ (x # 0 => x - 1 \in 0..m)
        BY <1>3, <2>3
      <4>2. k = [x \in 0..n |-> IF x = 0 THEN <<>>
                        ELSE IF Field(rules[x], f).text = Field(rule, f).text THEN k[x - 1]
                        ELSE Append(k[x - 1], rules[x])]
        BY DEF Keeps
      <4>3. ASSUME NEW x \in 0..m
            PROVE  j[x] = IF x = 0 THEN <<>>
                        ELSE IF Field(rules[x], f).text = Field(rule, f).text THEN j[x - 1]
                        ELSE Append(j[x - 1], rules[x])
        <5>1. j[x] = k[x] /\ (x # 0 => j[x - 1] = k[x - 1])
          BY <3>1, <4>1
        <5> QED
          BY <4>1, <4>2, <5>1
      <4>4. j = [x \in 0..m |-> j[x]]
        BY <3>1
      <4> QED
        BY <4>3, <4>4, Zenon DEF Keeps
    <3>3. j[m] = before
      BY <1>4, <2>2, <2>3, <3>1
    <3> QED
      BY <2>2, <2>3, <3>2, <3>3, KeptAre
  <2>5. before \in Seq(KeptUpTo(rules, rule, f, m))
    BY <2>4
  <2>6. \A x \in DOMAIN before : \E j \in 1..m : before[x] = rules[j]
    BY <2>5 DEF KeptUpTo
  <2>7. i \in DOMAIN rules /\ \A j \in 1..m : j \in DOMAIN rules /\ j # i
    BY <1>3, <2>3
  <2>8. \A x \in DOMAIN before : Field(before[x], f).text # Field(rules[i], f).text
    <3> HIDE DEF Field
    <3> QED
      BY <2>6, <2>7 DEF Apart
  <2>9. Apart(Append(before, rules[i]), f)
    BY <1>5, <2>5, <2>8, ApartAppended
  <2> QED
    BY <2>1, <2>9
<1> QED
  BY <1>6, <1>7

\* The rules that are kept are rules of before, in other spellings of the field than the rule's.
LEMMA WithoutKeeps ==
    ASSUME NEW rules, rules \in Seq(ToSet(rules)), NEW rule, NEW f, NEW left, left = Without(rules, rule, f)
    PROVE  /\ left \in Seq(ToSet(left))
           /\ \A i \in DOMAIN left : /\ \E j \in DOMAIN rules : left[i] = rules[j]
                                     /\ Field(left[i], f).text # Field(rule, f).text
           /\ Apart(rules, f) => Apart(left, f)
<1> PICK n : n = Len(rules)
  OBVIOUS
<1>1. n \in Nat /\ DOMAIN rules = 1..n
  OBVIOUS
<1>2. PICK k : Keeps(k, rules, rule, f, n) /\ left = k[n]
  BY <1>1, WithoutIs
<1>3. left \in Seq(KeptUpTo(rules, rule, f, n))
  BY <1>1, <1>2, KeptAre
<1>4. \A i \in DOMAIN left : /\ \E j \in DOMAIN rules : left[i] = rules[j]
                             /\ Field(left[i], f).text # Field(rule, f).text
  <2>1. \A i \in DOMAIN left : left[i] \in KeptUpTo(rules, rule, f, n)
    BY <1>3
  <2> HIDE DEF Field
  <2> QED
    BY <1>1, <2>1 DEF KeptUpTo
<1>5. left \in Seq(ToSet(left))
  BY <1>3 DEF ToSet
<1>6. Apart(rules, f) => Apart(left, f)
  BY <1>1, <1>2, KeptApart
<1> QED
  BY <1>4, <1>5, <1>6

-----------------------------------------------------------------------------
(* The checks of the client and of the service.                            *)

Shape == {"info", "cors", "lifecycle", "retention", "replication", "placed"}

RulesFit(config) ==
    config # Null =>
        /\ ReplicationFits(config)
        /\ SourceOf(config).is = "object" => IsList(Field(SourceOf(config), "replicationRules"))

\* What a bucket's settings are.
SettingsFit(s) ==
    /\ DOMAIN s = Shape
    /\ ClientTakesInfo(s.info) /\ CorsFits(s.cors)
    /\ LifecycleFits(s.lifecycle) /\ IsList(s.lifecycle)
    /\ RulesFit(s.replication)
    /\ s.retention # Unconfigured.retention => DefaultRetentionFits(s.retention)

\* A configuration as it is stored.
LEMMA WrappedFits == ASSUME NEW config, RulesFit(config), config # Null PROVE RulesFit(Wrapped(config))
<1> PICK source, destination : source = Field(config, "asReplicationSource") /\ destination = Field(config, "asReplicationDestination")
  OBVIOUS
<1> PICK both : both = [f \in ReplicationFields |-> IF Field(config, f) = Missing THEN Null ELSE Field(config, f)]
  OBVIOUS
<1>1. /\ DOMAIN both = {"asReplicationSource", "asReplicationDestination"}
      /\ both["asReplicationSource"] = IF source = Missing THEN Null ELSE source
      /\ both["asReplicationDestination"] = IF destination = Missing THEN Null ELSE destination
  BY DEF ReplicationFields
<1>2. Wrapped(config) = Null \/ Wrapped(config) = Object(both)
  BY DEF Wrapped
<1>3. /\ Nullable(source) \/ SourceFits(source)
      /\ Nullable(destination) \/ DestinationFits(destination)
      /\ config.is = "object"
  BY DEF RulesFit, ReplicationFits, HasOnly
<1>4. source.is = "object" => IsList(Field(source, "replicationRules"))
  BY <1>3 DEF RulesFit, SourceOf, Part
<1> PICK new : new = Object(both)
  OBVIOUS
<1>5. /\ new.is = "object" /\ new.fields = both
      /\ Field(new, "asReplicationSource") = both["asReplicationSource"]
      /\ Field(new, "asReplicationDestination") = both["asReplicationDestination"]
  BY <1>1 DEF Object, Field
<1>6. ReplicationFits(new)
  <2>1. Nullable(Null)
    BY DEF Nullable
  <2>2. Nullable(both["asReplicationSource"]) \/ SourceFits(both["asReplicationSource"])
    BY <1>1, <1>3, <2>1
  <2>3. Nullable(both["asReplicationDestination"]) \/ DestinationFits(both["asReplicationDestination"])
    BY <1>1, <1>3, <2>1
  <2>4. HasOnly(new, ReplicationFields) /\ DOMAIN new.fields # {}
    BY <1>1, <1>5 DEF HasOnly, ReplicationFields
  <2> HIDE DEF Field
  <2> QED
    BY <1>5, <2>2, <2>3, <2>4 DEF ReplicationFits
<1>7. SourceOf(new).is = "object" => IsList(Field(SourceOf(new), "replicationRules"))
  <2>1. SourceOf(new) = both["asReplicationSource"]
    BY <1>5 DEF SourceOf, Part
  <2>2. Null.is # "object"
    BY DEF Null
  <2>3. SourceOf(new) = source \/ SourceOf(new) = Null
    BY <1>1, <2>1
  <2> HIDE DEF Field
  <2> QED
    BY <1>4, <2>2, <2>3
<1> QED
  BY <1>2, <1>5, <1>6, <1>7 DEF RulesFit

\* What is stored of a request that passed.
LEMMA StoredFits ==
    ASSUME NEW old, SettingsFit(old), NEW request, FieldsFit(request), TypedSettings(request), NEW created \in BOOLEAN,
           NEW new, new = Stored(old, request, created)
    PROVE  SettingsFit(new)
<1>1. DOMAIN old = Shape /\ DOMAIN new = Shape
  BY DEF SettingsFit, Stored
<1>2. new["info"] = IF Asks(request, "info") THEN request["info"] ELSE old["info"]
  BY <1>1 DEF Stored, Shape
<1>3. new["cors"] = IF Asks(request, "cors") THEN request["cors"] ELSE old["cors"]
  BY <1>1 DEF Stored, Shape
<1>4. new["lifecycle"] = IF Asks(request, "lifecycle") THEN request["lifecycle"] ELSE old["lifecycle"]
  BY <1>1 DEF Stored, Shape
<1>5. new["retention"] = IF Asks(request, "retention") THEN Reported(request.retention) ELSE old["retention"]
  BY <1>1 DEF Stored, Shape
<1>6. new["replication"] = IF Asks(request, "replication") THEN Wrapped(request.replication) ELSE old["replication"]
  BY <1>1 DEF Stored, Shape
<1>7. ClientTakesInfo(new.info) /\ CorsFits(new.cors)
  BY <1>2, <1>3 DEF SettingsFit, FieldsFit, InfoFits
<1>8. LifecycleFits(new.lifecycle) /\ IsList(new.lifecycle)
  BY <1>4 DEF SettingsFit, FieldsFit, TypedSettings
<1>9. RulesFit(new.replication)
  <2>1. CASE Asks(request, "replication")
    <3>1. RulesFit(request.replication)
      BY <2>1 DEF RulesFit, FieldsFit, TypedSettings
    <3>2. request.replication # Null
      BY <2>1 DEF FieldsFit, ReplicationFits, HasOnly, Null
    <3> QED
      BY <1>6, <2>1, <3>1, <3>2, WrappedFits
  <2>2. CASE ~ Asks(request, "replication")
    BY <1>6, <2>2 DEF SettingsFit
  <2> QED
    BY <2>1, <2>2
<1>10. new.retention # Unconfigured.retention => DefaultRetentionFits(new.retention)
  <2>1. CASE Asks(request, "retention")
    <3>1. Reported(request.retention) \in {Unconfigured.retention, request.retention}
      BY DEF Reported
    <3> QED
      BY <1>5, <2>1, <3>1 DEF FieldsFit
  <2>2. CASE ~ Asks(request, "retention")
    BY <1>5, <2>2 DEF SettingsFit
  <2> QED
    BY <2>1, <2>2
<1> QED
  BY <1>1, <1>7, <1>8, <1>9, <1>10 DEF SettingsFit

\* The client takes an info of no entries: they add up to nothing.
LEMMA NoInfoFits == ASSUME NEW info, info.is = "entries", info.items = <<>> PROVE ClientTakesInfo(info)
<1> DEFINE iter[s \in SUBSET DOMAIN info.items] ==
        IF s = {} THEN 0
        ELSE LET x == CHOOSE m \in s : \A y \in s : m >= y
             IN  iter[s \ {x}] + info.items[x][2].length
<1>1. SUBSET DOMAIN info.items = {{}}
  OBVIOUS
<1>2. \E g : g = [s \in SUBSET DOMAIN info.items |->
        IF s = {} THEN 0
        ELSE LET x == CHOOSE m \in s : \A y \in s : m >= y
             IN  g[s \ {x}] + info.items[x][2].length]
  <2> HIDE DEF iter
  <2> PICK g : g = [s \in SUBSET DOMAIN info.items |-> 0]
    OBVIOUS
  <2>1. ASSUME NEW s \in SUBSET DOMAIN info.items
        PROVE  0 = IF s = {} THEN 0
                   ELSE LET x == CHOOSE m \in s : \A y \in s : m >= y
                        IN  g[s \ {x}] + info.items[x][2].length
    BY <1>1
  <2>2. \A s \in SUBSET DOMAIN info.items :
          g[s] = IF s = {} THEN 0
                 ELSE LET x == CHOOSE m \in s : \A y \in s : m >= y
                      IN  g[s \ {x}] + info.items[x][2].length
    BY <2>1
  <2>3. g = [s \in SUBSET DOMAIN info.items |-> g[s]]
    OBVIOUS
  <2> QED
    BY <2>2, <2>3, Zenon
<1>3. iter = [s \in SUBSET DOMAIN info.items |->
        IF s = {} THEN 0
        ELSE LET x == CHOOSE m \in s : \A y \in s : m >= y
             IN  iter[s \ {x}] + info.items[x][2].length]
  BY <1>2
<1>4. \A i \in DOMAIN info.items : InfoEntryFits(info.items[i][1], info.items[i][2])
  <2> HIDE DEF iter
  <2> QED
    OBVIOUS
<1>5. iter[DOMAIN info.items] = 0
  <2> HIDE DEF iter
  <2>1. DOMAIN info.items = {}
    OBVIOUS
  <2> QED
    BY <1>1, <1>3, <2>1
<1>6. iter[DOMAIN info.items] <= InfoValuesMaxBytes
  <2> HIDE DEF iter
  <2> QED
    BY <1>5 DEF InfoValuesMaxBytes
<1> QED
  BY <1>4, <1>6, Zenon DEF ClientTakesInfo, FoldLeft, MapThenFoldSet, Max

\* What a bucket reports that was created without settings fits.
LEMMA UnconfiguredFits == SettingsFit(Unconfigured)
<1>1. DOMAIN Unconfigured = Shape
  BY DEF Unconfigured, Shape
<1>2. Unconfigured.lifecycle = List(<<>>) /\ Unconfigured.cors = List(<<>>) /\ Unconfigured.replication = Null
  BY DEF Unconfigured
<1>3. Unconfigured.info = [is |-> "entries", items |-> <<>>]
  BY DEF Unconfigured
<1>4. LifecycleFits(List(<<>>)) /\ IsList(List(<<>>))
  BY DEF LifecycleFits, List, IsList, ToSet
<1>5. CorsFits(List(<<>>))
  BY DEF CorsFits, ClientTakesCors, Distinct, FieldsOf, List
<1>6. ClientTakesInfo(Unconfigured.info)
  BY <1>3, NoInfoFits
<1> QED
  BY <1>1, <1>2, <1>4, <1>5, <1>6 DEF SettingsFit, RulesFit

-----------------------------------------------------------------------------
(* What a helper writes.                                                   *)

\* An edit is of a rule that fits; the key it is given is not an empty one.
EditFits(op, edit) ==
    \/ /\ op = "addReplicationRule" /\ ReplicationRuleFits(edit.rule)
       /\ edit.key = Missing \/ NonEmptyText(edit.key)
    \/ op = "removeReplicationRule"
    \/ op \in {"addLifecycleRule", "removeLifecycleRule"} /\ LifecycleRuleFits(edit.rule)

HelperFits == helper # NoHelper => SettingsFit(helper.read) /\ EditFits(helper.op, helper.edit)

\* What a bucket reports of its replication.
LEMMA ReadFits ==
    ASSUME NEW s, SettingsFit(s)
    PROVE  /\ SourceOf(s.replication).is = "object" =>
                 SourceFits(SourceOf(s.replication)) /\ IsList(Field(SourceOf(s.replication), "replicationRules"))
           /\ Nullable(DestinationOf(s.replication)) \/ DestinationFits(DestinationOf(s.replication))
<1> PICK config : config = s.replication
  OBVIOUS
<1>1. RulesFit(config)
  BY DEF SettingsFit
<1>2. CASE config = Null
  BY <1>2 DEF Null, SourceOf, DestinationOf, Part, Missing, Nullable
<1>3. CASE config # Null
  <2>1. config.is = "object"
    BY <1>1, <1>3 DEF RulesFit, ReplicationFits, HasOnly
  <2>2. SourceOf(config) = Field(config, "asReplicationSource") /\ DestinationOf(config) = Field(config, "asReplicationDestination")
    BY <2>1 DEF SourceOf, DestinationOf, Part
  <2>3. /\ Nullable(SourceOf(config)) \/ SourceFits(SourceOf(config))
        /\ Nullable(DestinationOf(config)) \/ DestinationFits(DestinationOf(config))
    <3> HIDE DEF Field
    <3> QED
      BY <1>1, <1>3, <2>2 DEF RulesFit, ReplicationFits
  <2>4. \A v : Nullable(v) => v.is # "object"
    BY DEF Nullable, Missing, Null
  <2> QED
    BY <1>1, <1>3, <2>3, <2>4 DEF RulesFit
<1> QED
  BY <1>2, <1>3

\* A source of a key and rules that fit, each of a name of its own.
LEMMA SourceOfFits ==
    ASSUME NEW key, NonEmptyText(key), NEW rules, rules \in Seq(ToSet(rules)),
           \A i \in DOMAIN rules : ReplicationRuleFits(rules[i]), Apart(rules, "replicationRuleName"),
           NEW source, source = SourceFrom(key, rules)
    PROVE  SourceFits(source) /\ IsList(Field(source, "replicationRules"))
<1>1. /\ source.is = "object" /\ DOMAIN source.fields = {"sourceApplicationKeyId", "replicationRules"}
      /\ Field(source, "sourceApplicationKeyId") = key
      /\ Field(source, "replicationRules") = List(rules)
  BY DEF SourceFrom, Object, Field
<1>2. Distinct(FieldsOf(rules, "replicationRuleName"))
  BY ApartIs
<1>3. List(rules).is = "array" /\ List(rules).items = rules
  BY DEF List
<1>4. HasOnly(source, {"replicationRules", "sourceApplicationKeyId"})
  BY <1>1 DEF HasOnly
<1>5. IsList(List(rules))
  BY <1>3 DEF IsList
<1> HIDE DEF Field
<1>6. SourceFits(source)
  BY <1>1, <1>2, <1>3, <1>4 DEF SourceFits
<1> QED
  BY <1>1, <1>5, <1>6

\* Rules without one, and with it: those of names of their own.
LEMMA WithoutFits ==
    ASSUME NEW rules, rules \in Seq(ToSet(rules)), NEW rule, NEW left, left = Without(rules, rule, "replicationRuleName"),
           \A i \in DOMAIN rules : ReplicationRuleFits(rules[i]), Apart(rules, "replicationRuleName")
    PROVE  /\ left \in Seq(ToSet(left)) /\ Apart(left, "replicationRuleName")
           /\ \A i \in DOMAIN left : ReplicationRuleFits(left[i])
           /\ \A i \in DOMAIN left : Field(left[i], "replicationRuleName").text # Field(rule, "replicationRuleName").text
<1> PICK f : f = "replicationRuleName"
  OBVIOUS
<1>1. /\ left \in Seq(ToSet(left))
      /\ \A i \in DOMAIN left : /\ \E j \in DOMAIN rules : left[i] = rules[j]
                                /\ Field(left[i], f).text # Field(rule, f).text
      /\ Apart(rules, f) => Apart(left, f)
  BY WithoutKeeps
<1> HIDE DEF Field
<1> QED
  BY <1>1

LEMMA AppendedFits ==
    ASSUME NEW left, left \in Seq(ToSet(left)), NEW rule, NEW P, NEW rules, rules = Append(left, rule),
           \A i \in DOMAIN left : left[i] \in P, rule \in P
    PROVE  rules \in Seq(ToSet(rules)) /\ \A i \in DOMAIN rules : rules[i] \in P
<1>1. left \in Seq(ToSet(left) \cup {rule})
  OBVIOUS
<1>2. rules \in Seq(ToSet(left) \cup {rule})
  BY <1>1
<1>3. /\ DOMAIN rules = 1..Len(left) + 1 /\ rules[Len(left) + 1] = rule
      /\ \A i \in DOMAIN left : rules[i] = left[i]
      /\ DOMAIN left = 1..Len(left) /\ Len(left) \in Nat
  BY <1>1
<1>4. \A i \in DOMAIN rules : i \in DOMAIN left \/ i = Len(left) + 1
  BY <1>3
<1>5. rules \in Seq(ToSet(rules))
  <2> PICK S, T : S = ToSet(left) \cup {rule} /\ T = ToSet(rules)
    OBVIOUS
  <2>1. S \subseteq T
    <3>1. \A i \in DOMAIN left : rules[i] = left[i] /\ i \in DOMAIN rules
      BY <1>3
    <3>2. Len(left) + 1 \in DOMAIN rules
      BY <1>3
    <3> QED
      BY <1>3, <3>1, <3>2 DEF ToSet
  <2>2. rules \in Seq(S)
    BY <1>2
  <2>3. rules \in Seq(T)
    BY ONLY <2>1, <2>2
  <2> QED
    BY <2>3
<1> QED
  BY <1>3, <1>4, <1>5

\* The rules a helper read.
LEMMA ReadRules ==
    ASSUME SettingsFit(helper.read), NEW rules, rules = RulesRead
    PROVE  /\ rules \in Seq(ToSet(rules)) /\ Apart(rules, "replicationRuleName")
           /\ \A i \in DOMAIN rules : ReplicationRuleFits(rules[i])
<1> PICK source : source = SourceOf(helper.read.replication)
  OBVIOUS
<1>1. CASE source.is = "object"
  <2>1. SourceFits(source) /\ IsList(Field(source, "replicationRules"))
    BY <1>1, ReadFits
  <2>2. PICK list : list = Field(source, "replicationRules")
    OBVIOUS
  <2>3. rules = list.items
    BY <1>1, <2>2 DEF RulesRead
  <2> HIDE DEF Field
  <2>4. /\ list.is = "array" /\ \A i \in DOMAIN list.items : ReplicationRuleFits(list.items[i])
        /\ Distinct(FieldsOf(list.items, "replicationRuleName"))
    BY <2>1, <2>2 DEF SourceFits
  <2>5. Apart(rules, "replicationRuleName")
    BY <2>3, <2>4, ApartIs
  <2>6. rules \in Seq(ToSet(rules))
    BY <2>1, <2>2, <2>3, <2>4 DEF IsList
  <2> QED
    BY <2>3, <2>4, <2>5, <2>6
<1>2. CASE source.is # "object"
  <2>1. rules = <<>>
    BY <1>2 DEF RulesRead
  <2> QED
    BY <2>1 DEF Apart, ToSet
<1> QED
  BY <1>1, <1>2

\* The replication a helper writes: the source it has left, or null, and the destination it read.
LEMMA SourceWritten ==
    ASSUME HelperFits, helper.op \in {"addReplicationRule", "removeReplicationRule"}, ~ HelperThrows
    PROVE  \E new : /\ ReplicationWritten = Object([asReplicationSource |-> new,
                           asReplicationDestination |-> NullIfMissing(DestinationOf(helper.read.replication))])
                    /\ new = Null \/ (SourceFits(new) /\ IsList(Field(new, "replicationRules")))
<1> PICK source, rules, rule : source = SourceOf(helper.read.replication) /\ rules = RulesRead /\ rule = helper.edit.rule
  OBVIOUS
<1>0. SettingsFit(helper.read) /\ EditFits(helper.op, helper.edit)
  BY DEF HelperFits, NoHelper
<1>1. /\ rules \in Seq(ToSet(rules)) /\ Apart(rules, "replicationRuleName")
      /\ \A i \in DOMAIN rules : ReplicationRuleFits(rules[i])
  BY <1>0, ReadRules
<1>2. source.is = "object" => SourceFits(source)
  BY <1>0, ReadFits
<1> PICK left : left = Without(rules, rule, "replicationRuleName")
  OBVIOUS
<1>3. /\ left \in Seq(ToSet(left)) /\ Apart(left, "replicationRuleName")
      /\ \A i \in DOMAIN left : ReplicationRuleFits(left[i])
      /\ \A i \in DOMAIN left : Field(left[i], "replicationRuleName").text # Field(rule, "replicationRuleName").text
  BY <1>1, WithoutFits
<1> PICK own : own = Field(source, "sourceApplicationKeyId")
  OBVIOUS
<1>4. source.is = "object" => NonEmptyText(own)
  <2> HIDE DEF Field
  <2> QED
    BY <1>2 DEF SourceFits
<1> PICK key : key = IF helper.edit.key # Missing THEN helper.edit.key
                     ELSE IF source.is = "object" THEN own ELSE Missing
  OBVIOUS
<1>5. CASE helper.op = "addReplicationRule"
  <2>1. ReplicationRuleFits(rule) /\ (helper.edit.key = Missing \/ NonEmptyText(helper.edit.key))
    BY <1>0, <1>5 DEF EditFits
  <2>2. NonEmptyText(key)
    BY <1>4, <1>5, <2>1 DEF HelperThrows
  <2> PICK more : more = Append(left, rule)
    OBVIOUS
  <2>3. PICK P : P = {left[i] : i \in DOMAIN left} \cup {rule}
    OBVIOUS
  <2>4. more \in Seq(ToSet(more)) /\ \A i \in DOMAIN more : more[i] \in P
    <3>1. (\A i \in DOMAIN left : left[i] \in P) /\ rule \in P
      BY <2>3
    <3>2. left \in Seq(ToSet(left)) /\ more = Append(left, rule)
      BY <1>3
    <3> QED
      BY ONLY <3>1, <3>2, AppendedFits
  <2>5. \A i \in DOMAIN more : ReplicationRuleFits(more[i])
    BY <1>3, <2>1, <2>3, <2>4
  <2>6. Apart(more, "replicationRuleName")
    <3> HIDE DEF Field
    <3> QED
      BY <1>3, ApartAppended
  <2> PICK new : new = SourceFrom(key, more)
    OBVIOUS
  <2>7. SourceFits(new) /\ IsList(Field(new, "replicationRules"))
    BY <2>2, <2>4, <2>5, <2>6, SourceOfFits
  <2>8. ReplicationWritten = Object([asReplicationSource |-> new,
                               asReplicationDestination |-> NullIfMissing(DestinationOf(helper.read.replication))])
    BY <1>5 DEF ReplicationWritten, WithRule
  <2> QED
    BY <2>7, <2>8
<1>6. CASE helper.op = "removeReplicationRule" /\ source.is = "object"
  <2> PICK new : new = SourceFrom(own, left)
    OBVIOUS
  <2>1. SourceFits(new) /\ IsList(Field(new, "replicationRules"))
    BY <1>3, <1>4, <1>6, SourceOfFits
  <2>2. ReplicationWritten = Object([asReplicationSource |-> new,
                               asReplicationDestination |-> NullIfMissing(DestinationOf(helper.read.replication))])
    BY <1>6 DEF ReplicationWritten
  <2> QED
    BY <2>1, <2>2
<1>7. CASE helper.op = "removeReplicationRule" /\ source.is # "object"
  <2>1. ReplicationWritten = Object([asReplicationSource |-> Null,
                               asReplicationDestination |-> NullIfMissing(DestinationOf(helper.read.replication))])
    BY <1>7 DEF ReplicationWritten
  <2> QED
    BY <2>1
<1> QED
  BY <1>5, <1>6, <1>7

LEMMA ReplicationWrittenFits ==
    ASSUME HelperFits, helper.op \in {"addReplicationRule", "removeReplicationRule"}, ~ HelperThrows
    PROVE  ReplicationFits(ReplicationWritten) /\ RulesFit(ReplicationWritten)
<1>1. PICK new : /\ ReplicationWritten = Object([asReplicationSource |-> new,
                           asReplicationDestination |-> NullIfMissing(DestinationOf(helper.read.replication))])
                 /\ new = Null \/ (SourceFits(new) /\ IsList(Field(new, "replicationRules")))
  BY SourceWritten
<1> PICK config, destination : config = ReplicationWritten /\ destination = NullIfMissing(DestinationOf(helper.read.replication))
  OBVIOUS
<1>2. /\ config.is = "object" /\ DOMAIN config.fields = ReplicationFields /\ ReplicationFields # {}
      /\ Field(config, "asReplicationSource") = new /\ Field(config, "asReplicationDestination") = destination
  BY <1>1 DEF Object, Field, ReplicationFields
<1>3. SettingsFit(helper.read)
  BY DEF HelperFits, NoHelper
<1>4. Nullable(destination) \/ DestinationFits(destination)
  <2>1. Nullable(DestinationOf(helper.read.replication)) \/ DestinationFits(DestinationOf(helper.read.replication))
    BY <1>3, ReadFits
  <2>2. destination = DestinationOf(helper.read.replication) \/ destination = Null
    BY DEF NullIfMissing
  <2> QED
    BY <2>1, <2>2 DEF Nullable
<1>5. Nullable(new) \/ SourceFits(new)
  BY <1>1 DEF Nullable
<1>6. HasOnly(config, ReplicationFields) /\ DOMAIN config.fields # {}
  BY <1>2 DEF HasOnly
<1>7. SourceOf(config) = new
  BY <1>2 DEF SourceOf, Part
<1>8. new.is = "object" => IsList(Field(new, "replicationRules"))
  BY <1>1 DEF Null
<1> HIDE DEF Field
<1>9. ReplicationFits(config)
  BY <1>2, <1>4, <1>5, <1>6 DEF ReplicationFits
<1> QED
  BY <1>7, <1>8, <1>9 DEF RulesFit

LEMMA LifecycleWrittenFits ==
    ASSUME HelperFits, helper.op \in {"addLifecycleRule", "removeLifecycleRule"}
    PROVE  LifecycleFits(LifecycleWritten) /\ IsList(LifecycleWritten)
<1> PICK rules, rule : rules = helper.read.lifecycle.items /\ rule = helper.edit.rule
  OBVIOUS
<1>1. /\ LifecycleFits(helper.read.lifecycle) /\ IsList(helper.read.lifecycle)
      /\ LifecycleRuleFits(rule)
  BY DEF HelperFits, NoHelper, SettingsFit, EditFits
<1>2. rules \in Seq(ToSet(rules)) /\ \A i \in DOMAIN rules : LifecycleRuleFits(rules[i])
  BY <1>1 DEF LifecycleFits, IsList
<1> PICK left : left = Without(rules, rule, "fileNamePrefix")
  OBVIOUS
<1>3. left \in Seq(ToSet(left)) /\ \A i \in DOMAIN left : LifecycleRuleFits(left[i])
  <2> PICK f : f = "fileNamePrefix"
    OBVIOUS
  <2>1. /\ left \in Seq(ToSet(left))
        /\ \A i \in DOMAIN left : \E j \in DOMAIN rules : left[i] = rules[j]
    BY <1>2, WithoutKeeps
  <2> QED
    BY <1>2, <2>1
<1> PICK more : more = Append(left, rule)
  OBVIOUS
<1>4. more \in Seq(ToSet(more)) /\ \A i \in DOMAIN more : LifecycleRuleFits(more[i])
  <2> PICK P : P = {left[i] : i \in DOMAIN left} \cup {rule}
    OBVIOUS
  <2>1. more \in Seq(ToSet(more)) /\ \A i \in DOMAIN more : more[i] \in P
    <3>1. (\A i \in DOMAIN left : left[i] \in P) /\ rule \in P
      OBVIOUS
    <3>2. left \in Seq(ToSet(left)) /\ more = Append(left, rule)
      BY <1>3
    <3> QED
      BY ONLY <3>1, <3>2, AppendedFits
  <2> QED
    BY <1>1, <1>3, <2>1
<1>5. LifecycleWritten = List(more) \/ LifecycleWritten = List(left)
  BY DEF LifecycleWritten, WithRule
<1>6. \A l : List(l).is = "array" /\ List(l).items = l
  BY DEF List
<1>7. LifecycleFits(List(more)) /\ IsList(List(more))
  BY ONLY <1>4, <1>6 DEF LifecycleFits, IsList
<1>8. LifecycleFits(List(left)) /\ IsList(List(left))
  BY <1>3, <1>6 DEF LifecycleFits, IsList
<1> QED
  BY <1>5, <1>7, <1>8

\* Whatever a helper read, what it writes fits.
LEMMA HelperRequestFits ==
    ASSUME HelperFits, helper # NoHelper, ~ HelperThrows, NEW request, request = HelperRequest
    PROVE  ClientTakes(request) /\ FieldsFit(request) /\ TypedSettings(request)
<1>1. CASE helper.op \in {"addReplicationRule", "removeReplicationRule"}
  <2>1. request = [replication |-> ReplicationWritten]
    BY <1>1 DEF HelperRequest
  <2>2. DOMAIN request = {"replication"} /\ request.replication = ReplicationWritten
    BY <2>1
  <2>3. ReplicationFits(ReplicationWritten) /\ RulesFit(ReplicationWritten)
    BY <1>1, ReplicationWrittenFits
  <2>4. ReplicationWritten # Null
    BY <2>3 DEF ReplicationFits, HasOnly, Null
  <2> HIDE DEF Field
  <2> QED
    BY <2>2, <2>3, <2>4 DEF ClientTakes, FieldsFit, TypedSettings, RulesFit, Asks
<1>2. CASE helper.op \notin {"addReplicationRule", "removeReplicationRule"}
  <2>1. request = [lifecycle |-> LifecycleWritten]
    BY <1>2 DEF HelperRequest
  <2>2. DOMAIN request = {"lifecycle"} /\ request.lifecycle = LifecycleWritten
    BY <2>1
  <2>3. helper.op \in {"addLifecycleRule", "removeLifecycleRule"}
    BY <1>2 DEF HelperFits, EditFits
  <2>4. LifecycleFits(LifecycleWritten) /\ IsList(LifecycleWritten)
    BY <2>3, LifecycleWrittenFits
  <2> HIDE DEF Field
  <2> QED
    BY <2>2, <2>4 DEF ClientTakes, FieldsFit, TypedSettings, Asks
<1> QED
  BY <1>1, <1>2

-----------------------------------------------------------------------------
(* What a caller asks for.                                                 *)

\* The service accepts the rules the client takes, but for fields it does not know.
LEMMA CheckedFits ==
    ASSUME NEW request, ClientTakes(request), Checked(request), TypedSettings(request)
    PROVE  FieldsFit(request)
<1>1. ~ Asks(request, "lifecycle") /\ ~ Asks(request, "replication") /\ ~ Asks(request, "retention")
  BY DEF Checked, Asks
<1>2. Asks(request, "info") => InfoFits(request.info)
  BY DEF ClientTakes, InfoFits
<1>3. ASSUME Asks(request, "cors") PROVE CorsFits(request.cors)
  <2> PICK cors : cors = request.cors
    OBVIOUS
  <2>1. ClientTakesCors(cors)
    BY <1>3 DEF ClientTakes
  <2>2. /\ cors.is = "array" /\ \A i \in DOMAIN cors.items : ClientTakesCorsRule(cors.items[i])
        /\ Distinct(FieldsOf(cors.items, "corsRuleName"))
    BY <2>1 DEF ClientTakesCors
  <2>3. \A i \in DOMAIN cors.items : HasOnly(cors.items[i], CorsFields)
    BY <1>3, <2>1 DEF Checked
  <2>4. ASSUME NEW i \in DOMAIN cors.items PROVE CorsRuleFits(cors.items[i])
    <3> PICK rule, name, operations : rule = cors.items[i] /\ name = Field(rule, "corsRuleName")
                                      /\ operations = Field(rule, "allowedOperations")
      OBVIOUS
    <3>1. ClientTakesCorsRule(rule) /\ HasOnly(rule, CorsFields)
      BY <2>2, <2>3, <2>4
    <3>2. rule.is = "object"
      BY <3>1 DEF HasOnly
    <3>3. IsText(name) => name.length \in Nat
      BY <1>3, <2>2, <2>4, <3>2 DEF TypedSettings
    <3> HIDE DEF Field
    <3>4. IsText(name) /\ name.length >= 6
      BY <3>1 DEF ClientTakesCorsRule
    <3>5. NonEmptyText(name)
      BY <3>3, <3>4 DEF NonEmptyText, IsText
    <3>6. /\ NonEmptyTexts(operations)
          /\ \A j \in DOMAIN operations.items : operations.items[j].text \in AllowedOperations
      BY <3>1 DEF ClientTakesCorsRule
    <3>7. \A j \in DOMAIN operations.items : operations.items[j].text \in KnownOperations
      BY <3>6 DEF KnownOperations
    <3>8. /\ NonEmptyTexts(Field(rule, "allowedOrigins")) /\ Between(Field(rule, "maxAgeSeconds"), 0, 86400)
          /\ NullableTexts(Field(rule, "allowedHeaders")) /\ NullableTexts(Field(rule, "exposeHeaders"))
      BY <3>1 DEF ClientTakesCorsRule
    <3>9. \A v : HeadersFit(v) = NullableTexts(v)
      BY DEF HeadersFit, NullableTexts
    <3>10. HeadersFit(Field(rule, "allowedHeaders")) /\ HeadersFit(Field(rule, "exposeHeaders"))
      BY <3>8, <3>9
    <3>11. CorsRuleFits(rule)
      BY <3>1, <3>5, <3>6, <3>7, <3>8, <3>10, SMTT(30) DEF CorsRuleFits
    <3> QED
      BY <3>11
  <2> QED
    BY <2>1, <2>2, <2>4 DEF CorsFits
<1> QED
  BY <1>1, <1>2, <1>3 DEF FieldsFit

\* Requests for replication are typed.
LEMMA ReplicationTyped == ASSUME NEW request \in ReplicationRequests PROVE TypedSettings(request)
<1>1. ASSUME NEW source \in Sources, request = [replication |-> Object([asReplicationSource |-> source])]
      PROVE  TypedSettings(request)
  <2>1. PICK k \in KeyIds, b \in Live : source = SourceFrom(Id(k), <<ReplicationRule("r1", b)>>)
    BY <1>1 DEF Sources
  <2>2. DOMAIN request = {"replication"} /\ SourceOf(request.replication) = source
    BY <1>1 DEF SourceOf, Part, Object, Field
  <2> PICK rule : rule = ReplicationRule("r1", b)
    OBVIOUS
  <2>3. Field(source, "replicationRules") = List(<<rule>>)
    BY <2>1 DEF SourceFrom, Object, Field
  <2>4. <<rule>> \in Seq(ToSet(<<rule>>))
    <3>1. rule \in ToSet(<<rule>>)
      BY DEF ToSet
    <3> QED
      BY <3>1
  <2>5. IsList(List(<<rule>>))
    BY <2>4 DEF IsList, List
  <2> HIDE DEF Field
  <2> QED
    BY <2>2, <2>3, <2>5 DEF TypedSettings, Asks
<1>2. ASSUME NEW side, request = [replication |-> Object([asReplicationDestination |-> side])]
      PROVE  TypedSettings(request)
  <2>1. DOMAIN request = {"replication"} /\ SourceOf(request.replication) = Missing
    BY <1>2 DEF SourceOf, Part, Object, Field
  <2>2. Missing.is # "object"
    BY DEF Missing
  <2> QED
    BY <2>1, <2>2 DEF TypedSettings, Asks
<1> QED
  BY <1>1, <1>2 DEF ReplicationRequests

LEMMA RequestTyped ==
    ASSUME FilesInv, NEW request \in ReplicationRequests \cup plan.trials
    PROVE  TypedSettings(request)
<1>1. plan \in Plan
  BY DEF FilesInv
<1>2. request \in plan.trials => TypedSettings(request)
  BY <1>1, SettingsAssumption
<1>3. request \in ReplicationRequests => TypedSettings(request)
  BY ReplicationTyped
<1> QED
  BY <1>2, <1>3

\* A replication rule of a name with a bucket to go to fits.
LEMMA RuleFits == ASSUME NEW name, NEW to PROVE ReplicationRuleFits(ReplicationRule(name, to))
<1> PICK rule : rule = ReplicationRule(name, to)
  OBVIOUS
<1>1. /\ rule.is = "object"
      /\ DOMAIN rule.fields = {"destinationBucketId", "fileNamePrefix", "includeExistingFiles", "isEnabled",
                               "priority", "replicationRuleName"}
      /\ Field(rule, "destinationBucketId") = Id(to)
      /\ Field(rule, "fileNamePrefix") = Text("", 0, {})
      /\ Field(rule, "includeExistingFiles") = Flag(FALSE) /\ Field(rule, "isEnabled") = Flag(TRUE)
      /\ Field(rule, "priority") = Number(1)
      /\ Field(rule, "replicationRuleName") = Text(name, 2, {})
  BY DEF ReplicationRule, Object, Field
<1>2. NonEmptyText(Id(to)) /\ NonEmptyText(Text(name, 2, {})) /\ IsText(Text("", 0, {})) /\ Positive(Number(1))
  BY DEF NonEmptyText, Id, Text, IsText, Positive, Number
<1>3. Flag(FALSE).is = "boolean" /\ Flag(TRUE).is = "boolean"
  BY DEF Flag
<1> HIDE DEF Field
<1> QED
  BY <1>1, <1>2, <1>3 DEF ReplicationRuleFits, HasOnly

\* A helper starts with an edit that fits.
LEMMA EditsFit ==
    ASSUME FilesInv, NEW edit \in RuleEdits \cup LifecycleEdits
    PROVE  EditFits(edit.op, edit)
<1>1. plan \in Plan
  BY DEF FilesInv
<1>2. ASSUME edit \in LifecycleEdits PROVE EditFits(edit.op, edit)
  <2>1. edit.op \in {"addLifecycleRule", "removeLifecycleRule"} /\ edit.rule \in plan.lifecycles
    BY <1>2 DEF LifecycleEdits
  <2> QED
    BY <1>1, <2>1, SettingsAssumption DEF EditFits
<1>3. ASSUME edit \in RuleEdits PROVE EditFits(edit.op, edit)
  <2>1. \/ edit.op = "removeReplicationRule"
        \/ /\ edit.op = "addReplicationRule" /\ \E name, b : edit.rule = ReplicationRule(name, b)
           /\ edit.key = Missing \/ \E k : edit.key = Id(k)
    BY <1>3 DEF RuleEdits
  <2>2. \A k : NonEmptyText(Id(k))
    BY DEF NonEmptyText, Id, Text
  <2> QED
    BY <2>1, <2>2, RuleFits DEF EditFits
<1> QED
  BY <1>2, <1>3

-----------------------------------------------------------------------------
(* Requests without settings.                                              *)

\* No method asks by itself for more items than there are on a page of its endpoint.
LEMMA ListingsFit == ASSUME NEW method \in DOMAIN Listings PROVE CountFits(Listings[method].size, Listings[method].endpoint)
<1>1. method \in {"listFileNames", "listFileVersions", "listUnfinishedLargeFiles", "listKeys",
                  "paginateFileNames", "paginateFileVersions", "paginateUnfinishedLargeFiles",
                  "paginateParts", "paginateKeys", "deleteAll", "getFileInfoByName",
                  "unhideFile", "resume", "resumeExplicitly"}
  BY DEF Listings
<1>2. /\ CountCaps["names"] = 10000 /\ CountCaps["versions"] = 10000 /\ CountCaps["unfinished"] = 100
      /\ CountCaps["keys"] = 10000 /\ CountCaps["parts"] = 10000
  BY DEF CountCaps
<1>3. \A e : CountFits(Missing, e)
  BY DEF CountFits
<1>4. \A e : CountCaps[e] = 10000 => CountFits(DefaultPageSize, e)
  BY DEF CountFits, Between, DefaultPageSize, Number
<1>5. \A e : CountCaps[e] \in {100, 10000} => CountFits(Number(100), e) /\ CountFits(Number(1), e)
  BY DEF CountFits, Between, Number
<1>6. CASE method = "listFileNames"
  <2>1. Listings[method].endpoint = "names" /\ Listings[method].size = Missing
    BY <1>6 DEF Listings, Listing
  <2> QED
    BY <1>2, <1>3, <2>1
<1>7. CASE method = "listFileVersions"
  <2>1. Listings[method].endpoint = "versions" /\ Listings[method].size = Missing
    BY <1>7 DEF Listings, Listing
  <2> QED
    BY <1>2, <1>3, <2>1
<1>8. CASE method = "listUnfinishedLargeFiles"
  <2>1. Listings[method].endpoint = "unfinished" /\ Listings[method].size = Missing
    BY <1>8 DEF Listings, Listing
  <2> QED
    BY <1>2, <1>3, <2>1
<1>9. CASE method = "listKeys"
  <2>1. Listings[method].endpoint = "keys" /\ Listings[method].size = Missing
    BY <1>9 DEF Listings, Listing
  <2> QED
    BY <1>2, <1>3, <2>1
<1>10. CASE method = "paginateFileNames"
  <2>1. Listings[method].endpoint = "names" /\ Listings[method].size = DefaultPageSize
    BY <1>10 DEF Listings, Listing
  <2> QED
    BY <1>2, <1>4, <2>1
<1>11. CASE method = "paginateFileVersions"
  <2>1. Listings[method].endpoint = "versions" /\ Listings[method].size = DefaultPageSize
    BY <1>11 DEF Listings, Listing
  <2> QED
    BY <1>2, <1>4, <2>1
<1>12. CASE method = "paginateUnfinishedLargeFiles"
  <2>1. Listings[method].endpoint = "unfinished" /\ Listings[method].size = Number(100)
    BY <1>12 DEF Listings, Listing
  <2> QED
    BY <1>2, <1>5, <2>1
<1>13. CASE method = "paginateParts"
  <2>1. Listings[method].endpoint = "parts" /\ Listings[method].size = DefaultPageSize
    BY <1>13 DEF Listings, Listing
  <2> QED
    BY <1>2, <1>4, <2>1
<1>14. CASE method = "paginateKeys"
  <2>1. Listings[method].endpoint = "keys" /\ Listings[method].size = DefaultPageSize
    BY <1>14 DEF Listings, Listing
  <2> QED
    BY <1>2, <1>4, <2>1
<1>15. CASE method = "deleteAll"
  <2>1. Listings[method].endpoint = "versions" /\ Listings[method].size = DefaultPageSize
    BY <1>15 DEF Listings, Listing
  <2> QED
    BY <1>2, <1>4, <2>1
<1>16. CASE method = "getFileInfoByName"
  <2>1. Listings[method].endpoint = "names" /\ Listings[method].size = Number(1)
    BY <1>16 DEF Listings, Listing
  <2> QED
    BY <1>2, <1>5, <2>1
<1>17. CASE method = "unhideFile"
  <2>1. Listings[method].endpoint = "versions" /\ Listings[method].size = Number(100)
    BY <1>17 DEF Listings, Listing
  <2> QED
    BY <1>2, <1>5, <2>1
<1>18. CASE method = "resume"
  <2>1. Listings[method].endpoint = "unfinished" /\ Listings[method].size = Number(100)
    BY <1>18 DEF Listings, Listing
  <2> QED
    BY <1>2, <1>5, <2>1
<1>19. CASE method = "resumeExplicitly"
  <2>1. Listings[method].endpoint = "unfinished" /\ Listings[method].size = Number(1)
    BY <1>19 DEF Listings, Listing
  <2> QED
    BY <1>2, <1>5, <2>1
<1> QED
  BY <1>1, <1>6, <1>7, <1>8, <1>9, <1>10, <1>11, <1>12, <1>13, <1>14, <1>15, <1>16, <1>17, <1>18, <1>19

LEMMA PartCountFits ==
    ASSUME NEW planned \in Nat, NEW known \in Nat
    PROVE  CountFits(PartCountAsked(planned, known), "parts")
<1> PICK n : n = planned - known + 1
  OBVIOUS
<1>1. n \in Int
  OBVIOUS
<1>2. \E m \in 1..100 : PartCountAsked(planned, known) = Number(m)
  <2>1. CASE n > 100
    BY <2>1 DEF PartCountAsked
  <2>2. CASE n < 1
    BY <2>2 DEF PartCountAsked
  <2>3. CASE n \in 1..100
    BY <2>3 DEF PartCountAsked
  <2> QED
    BY <1>1, <2>1, <2>2, <2>3
<1>3. CountCaps["parts"] = 10000
  BY DEF CountCaps
<1> QED
  BY <1>2, <1>3 DEF CountFits, Between, Number

LEMMA NamesAgree ==
    ASSUME NEW name
    PROVE  /\ ClientTakesBucketName(name) => BucketNameFits(name)
           /\ ClientTakesFileName(name) => FileNameFits(name)
BY DEF ClientTakesBucketName, BucketNameFits, NonEmptyText, IsText, ClientTakesFileName, SignableFileName, FileNameFits

LEMMA TimestampsAgree ==
    ASSUME NEW value, NotLater(value), ClientTakesTimestamp(value) \/ RawTimestampFits(HeaderTimestamp(value))
    PROVE  TimestampFits(HeaderTimestamp(value))
<1>1. CASE value = Missing
  BY <1>1 DEF HeaderTimestamp, TimestampFits, Nullable
<1>2. CASE value # Missing
  <2>1. HeaderTimestamp(value) = Digits(value)
    BY <1>2 DEF HeaderTimestamp
  <2>2. /\ Digits(value).is = "string" /\ Digits(value).text = "digits" /\ Digits(value).value = value
        /\ Missing.is = "undefined" /\ Null.is = "null"
    BY DEF Digits, Missing, Null
  <2>3. ~ Nullable(Digits(value))
    BY <2>2 DEF Nullable
  <2>4. value.is = "number" /\ value.value >= 0 /\ value.value <= 2
    BY <1>2, <2>1, <2>2, <2>3 DEF NotLater, ClientTakesTimestamp, RawTimestampFits, SpellsTimestamp
  <2> QED
    BY <2>1, <2>2, <2>4 DEF TimestampFits, SpellsTimestamp, IsText
<1> QED
  BY <1>1, <1>2

-----------------------------------------------------------------------------
(* The grant of a key.                                                     *)

\* The scope of a key as it is told: no restriction, or a list of texts, of one bucket in an
\* answer of an earlier API.
Tellable(form, scope) ==
    \/ scope = Null
    \/ /\ scope = List(scope.items) /\ scope.items \in Seq(ToSet(scope.items))
       /\ \A i \in DOMAIN scope.items : ~ Nullable(scope.items[i])
       /\ form # "v4" => Len(scope.items) = 1

LEMMA ElseIs ==
    /\ \A a, b : ~ Nullable(a) => Else(a, b) = a
    /\ \A b : Else(Missing, b) = b /\ Else(Null, b) = b
    /\ \A a : Else(a, Null) = a \/ Nullable(a)
    /\ Nullable(Null) /\ Nullable(Missing) /\ Null # Missing
BY DEF Else, Nullable, Null, Missing

LEMMA SingleIs ==
    ASSUME NEW form, NEW scope, Tellable(form, scope), form # "v4"
    PROVE  /\ scope = Null => SingleOf(scope) = Null
           /\ scope # Null => ~ Nullable(SingleOf(scope)) /\ scope = List(<<SingleOf(scope)>>)
<1>1. scope = Null => SingleOf(scope) = Null
  BY DEF SingleOf
<1>2. ASSUME scope # Null
      PROVE  ~ Nullable(SingleOf(scope)) /\ scope = List(<<SingleOf(scope)>>)
  <2> PICK items : items = scope.items
    OBVIOUS
  <2>1. items \in Seq(ToSet(items)) /\ Len(items) = 1 /\ scope = List(items)
    BY <1>2 DEF Tellable
  <2>2. items = <<items[1]>> /\ 1 \in DOMAIN items
    BY <2>1
  <2>3. SingleOf(scope) = items[1]
    BY <1>2, <2>1 DEF SingleOf
  <2>4. ~ Nullable(items[1])
    BY <1>2, <2>2 DEF Tellable
  <2> QED
    BY <2>1, <2>2, <2>3, <2>4
<1> QED
  BY <1>1, <1>2

\* What is normalized is what was answered, in any form.
LEMMA FormsTell ==
    ASSUME NEW form \in Forms, NEW scope, Tellable(form, scope), NEW prefix, prefix = Null \/ ~ Nullable(prefix),
           NEW caps, ~ Nullable(caps), NEW auth, auth = Normalized(InForm(form, scope, prefix, caps))
    PROVE  auth.buckets = scope /\ auth.allowedPrefix = prefix /\ auth.allowedCaps = caps
<1> PICK told : told = InForm(form, scope, prefix, caps)
  OBVIOUS
<1> PICK single : single = SingleOf(scope)
  OBVIOUS
<1>1. /\ auth.buckets = AllowedBuckets(told)
      /\ auth.allowedPrefix = Else(Else(told.allowedPrefix, told.flatPrefix), Null)
      /\ auth.allowedCaps = Else(Else(told.allowedCaps, told.flatCaps), List(<<>>))
  BY DEF Normalized
<1>2. scope # Missing
  BY DEF Tellable, Null, Missing, List
<1>3. CASE form = "v4"
  <2>1. /\ told.buckets = scope /\ told.allowedPrefix = prefix /\ told.flatPrefix = prefix
        /\ told.allowedCaps = caps /\ told.flatCaps = Missing
    BY <1>3 DEF InForm, AnsweredV4
  <2>2. AllowedBuckets(told) = scope
    BY <1>2, <2>1 DEF AllowedBuckets
  <2> QED
    BY <1>1, <2>1, <2>2, ElseIs
<1>4. CASE form = "v3"
  <2>1. /\ told.buckets = Missing /\ told.allowedId = single /\ told.flatId = Missing
        /\ told.allowedPrefix = prefix /\ told.flatPrefix = Missing /\ told.allowedCaps = caps /\ told.flatCaps = Missing
    BY <1>4 DEF InForm, AnsweredV3, AnsweredV4
  <2>2. AllowedBuckets(told) = scope
    <3>1. Else(Else(single, Missing), Null) = single
      <4>1. CASE Nullable(single)
        <5>1. single = Null
          BY <1>4, <4>1, SingleIs
        <5> QED
          BY <5>1, ElseIs
      <4>2. CASE ~ Nullable(single)
        BY <4>2, ElseIs
      <4> QED
        BY <4>1, <4>2
    <3> QED
      BY <1>4, <2>1, <3>1, SingleIs, ElseIs DEF AllowedBuckets
  <2> QED
    BY <1>1, <2>1, <2>2, ElseIs
<1>5. CASE form = "flat"
  <2>1. /\ told.buckets = Missing /\ told.allowedId = Missing /\ told.flatId = single
        /\ told.allowedPrefix = Missing /\ told.flatPrefix = prefix /\ told.allowedCaps = Missing /\ told.flatCaps = caps
    BY <1>5 DEF InForm, AnsweredFlat
  <2>2. AllowedBuckets(told) = scope
    <3>1. Else(Else(Missing, single), Null) = single
      BY <1>5, SingleIs, ElseIs
    <3> QED
      BY <1>5, <2>1, <3>1, SingleIs, ElseIs DEF AllowedBuckets
  <2> QED
    BY <1>1, <2>1, <2>2, ElseIs
<1> QED
  BY <1>3, <1>4, <1>5 DEF Forms

\* The scope of the key that is made: what was asked for.
LEMMA ScopeAsked ==
    ASSUME NEW request, NEW form \in Forms, KeyTyped(request, form), ClientTakesKey(request),
           NEW made, made = KeyRequest(request)
    PROVE  /\ KeyScope(made) = Else(IF request.bucketId = Missing THEN request.bucketIds ELSE List(<<request.bucketId>>), Null)
           /\ Tellable(form, KeyScope(made))
           /\ made.namePrefix = request.namePrefix /\ made.capabilities = request.capabilities
<1>0. \A v : IsText(v) => ~ Nullable(v)
  BY DEF IsText, Nullable, Missing, Null
<1>1. CASE request.bucketId = Missing
  <2>1. made = request
    BY <1>1 DEF KeyRequest
  <2>2. CASE Nullable(request.bucketIds)
    BY <1>1, <2>1, <2>2 DEF KeyScope, Else, Tellable
  <2>3. CASE ~ Nullable(request.bucketIds)
    <3> PICK ids : ids = request.bucketIds
      OBVIOUS
    <3>1. /\ ids = List(ids.items) /\ IsTexts(ids) /\ IsList(ids)
          /\ form # "v4" => Len(ids.items) = 1
      BY <2>3 DEF KeyTyped
    <3>2. KeyScope(made) = ids /\ Else(ids, Null) = ids
      BY <2>1, <2>3 DEF KeyScope, Else
    <3>3. ids.items \in Seq(ToSet(ids.items)) /\ \A i \in DOMAIN ids.items : ~ Nullable(ids.items[i])
      BY <1>0, <3>1 DEF IsTexts, IsList
    <3>4. Tellable(form, ids)
      BY <3>1, <3>3 DEF Tellable
    <3> QED
      BY <1>1, <2>1, <3>2, <3>4
  <2> QED
    BY <2>2, <2>3
<1>2. CASE request.bucketId # Missing
  <2> PICK one, items, ids : one = request.bucketId /\ items = <<one>> /\ ids = List(items)
    OBVIOUS
  <2>1. IsText(one)
    BY <1>2 DEF KeyTyped
  <2>2. made = [request EXCEPT !.bucketId = Missing, !.bucketIds = ids]
    BY <1>2 DEF KeyRequest
  <2>3. made.bucketIds = ids /\ made.namePrefix = request.namePrefix /\ made.capabilities = request.capabilities
    BY <2>2 DEF KeyTyped
  <2>4. ~ Nullable(ids)
    BY DEF Nullable, List, Missing, Null
  <2>5. KeyScope(made) = ids /\ Else(ids, Null) = ids
    BY <2>3, <2>4 DEF KeyScope, Else
  <2>6. ids.items = items /\ Len(items) = 1 /\ items \in Seq(ToSet(items)) /\ \A i \in DOMAIN items : items[i] = one
    <3>1. one \in ToSet(items)
      BY DEF ToSet
    <3> QED
      BY <3>1 DEF List
  <2>7. Tellable(form, ids)
    BY <1>0, <2>1, <2>6 DEF Tellable
  <2> QED
    BY <1>2, <2>3, <2>5, <2>7
<1> QED
  BY <1>1, <1>2

\* A caller is told of a key what it was asked for.
LEMMA GrantTold ==
    ASSUME NEW request, NEW form \in Forms, KeyTyped(request, form), ClientTakesKey(request),
           KeyFits(KeyRequest(request), Capability)
    PROVE  GrantIsTold(request, form)
<1> PICK made : made = KeyRequest(request)
  OBVIOUS
<1> PICK asked : asked = Else(IF request.bucketId = Missing THEN request.bucketIds ELSE List(<<request.bucketId>>), Null)
  OBVIOUS
<1> PICK scope, prefix, caps : scope = KeyScope(made) /\ prefix = KeyPrefix(made) /\ caps = made.capabilities
  OBVIOUS
<1> PICK auth : auth = Normalized(InForm(form, scope, prefix, caps))
  OBVIOUS
<1>1. scope = asked /\ Tellable(form, scope) /\ made.namePrefix = request.namePrefix
  BY ScopeAsked
<1>2. prefix = KeyPrefix(request)
  BY <1>1 DEF KeyPrefix
<1>3. prefix = Null \/ ~ Nullable(prefix)
  BY DEF KeyPrefix, Nullable
<1>4. caps.is = "array"
  BY DEF KeyFits, CapabilitiesFit, NonEmptyTexts, IsTexts
<1>5. ~ Nullable(caps)
  BY <1>4 DEF Nullable, Missing, Null
<1>6. form \in Forms
  OBVIOUS
<1>7. auth.buckets = scope /\ auth.allowedPrefix = prefix /\ auth.allowedCaps = caps
  BY <1>1, <1>3, <1>5, <1>6, FormsTell
<1>8. scope # Missing
  BY <1>1 DEF Tellable, Null, Missing, List
<1>9. AllowedIds(auth) = asked
  BY <1>1, <1>7, <1>8 DEF AllowedIds
<1>10. IF AllowedIdThrows(auth) THEN asked # Null /\ Len(asked.items) # 1 ELSE AllowedId(auth) = SingleOf(asked)
  BY <1>1, <1>7, <1>8 DEF AllowedIdThrows, AllowedId
<1> PICK spelled : spelled = {caps.items[i].text : i \in DOMAIN caps.items}
  OBVIOUS
<1>11. {c.text : c \in ToSet(auth.allowedCaps.items)} = spelled
  BY <1>7 DEF ToSet
<1>12. \A c \in spelled \cup {"none"} : MissingCapabilities(auth, {c}) = {} <=> c \in spelled
  <2>1. \A c : MissingCapabilities(auth, {c}) = {c} \ spelled
    BY <1>11 DEF MissingCapabilities
  <2>2. \A c : {c} \ spelled = {} <=> c \in spelled
    OBVIOUS
  <2> QED
    BY <2>1, <2>2, Zenon
<1>13. auth.allowedPrefix = KeyPrefix(request)
  BY <1>2, <1>7
<1>14. GrantIsTold(request, form) =
          (/\ AllowedIds(auth) = asked
           /\ IF AllowedIdThrows(auth) THEN asked # Null /\ Len(asked.items) # 1 ELSE AllowedId(auth) = SingleOf(asked)
           /\ auth.allowedPrefix = KeyPrefix(request)
           /\ \A c \in spelled \cup {"none"} : MissingCapabilities(auth, {c}) = {} <=> c \in spelled)
  BY DEF GrantIsTold
<1> QED
  BY <1>9, <1>10, <1>12, <1>13, <1>14, Zenon

\* Whatever is tried without settings, the client vouches only for what the service accepts.
LEMMA OutcomesAgree == ASSUME NEW trial \in Trial PROVE Outcome(trial).vouched => Outcome(trial).fields
<1>0. \A v, f : Verdict(v, f).vouched = v /\ Verdict(v, f).fields = f
  BY DEF Verdict
<1>1. \/ trial.of \in {"bucket", "file", "upload", "large"}
      \/ trial.of = "page" /\ trial.method \in DOMAIN Listings
      \/ trial.of = "parts" /\ trial.planned \in Nat /\ trial.known \in Nat
      \/ trial.of = "key" /\ trial.form \in Forms /\ KeyTyped(trial.request, trial.form)
  BY TrialAssumption
<1>2. CASE trial.of = "bucket"
  BY <1>0, <1>2, NamesAgree DEF Outcome
<1>3. CASE trial.of = "file"
  BY <1>0, <1>3, NamesAgree DEF Outcome
<1>4. CASE trial.of = "upload"
  BY <1>0, <1>4, TimestampsAgree DEF Outcome
<1>5. CASE trial.of = "large"
  BY <1>0, <1>5, TimestampsAgree DEF Outcome
<1>6. CASE trial.of = "page"
  <2>1. trial.size = Missing \/ ~ Listings[trial.method].free => CountAsked(trial.method, trial.size) = Listings[trial.method].size
    BY DEF CountAsked
  <2>2. trial.method \in DOMAIN Listings
    BY <1>1, <1>6
  <2> HIDE DEF Listings
  <2> QED
    BY <1>0, <1>6, <2>1, <2>2, ListingsFit DEF Outcome
<1>7. CASE trial.of = "parts"
  <2>1. trial.planned \in Nat /\ trial.known \in Nat
    BY <1>1, <1>7
  <2> QED
    BY <1>0, <1>7, <2>1, PartCountFits DEF Outcome
<1>8. CASE trial.of = "key"
  <2>1. trial.form \in Forms /\ KeyTyped(trial.request, trial.form)
    BY <1>1, <1>8
  <2>2. ClientTakesKey(trial.request) /\ KeyFits(KeyRequest(trial.request), Capability) => GrantIsTold(trial.request, trial.form)
    BY <2>1, GrantTold
  <2> QED
    BY <1>0, <1>8, <2>2 DEF Outcome
<1> QED
  BY <1>1, <1>2, <1>3, <1>4, <1>5, <1>6, <1>7, <1>8

-----------------------------------------------------------------------------
(* The checks in the service.                                              *)

\* The answers keep what the client vouched for, and all settings fit: those of the buckets, and
\* those a helper read.
ChecksInv ==
    /\ answer.vouched => answer.fields
    /\ \A b \in DOMAIN settings : SettingsFit(settings[b])
    /\ HelperFits

LEMMA ConfiguredFits == ASSUME ChecksInv, NEW b PROVE SettingsFit(Configured(b))
BY UnconfiguredFits DEF ChecksInv, Configured

LEMMA ChecksHold == ASSUME ChecksInv PROVE ChecksAgree
<1>1. answer.vouched => answer.fields
  BY DEF ChecksInv
<1>2. ASSUME NEW b \in Live \cap DOMAIN settings
      PROVE  /\ ClientTakesInfo(settings[b].info) /\ CorsFits(settings[b].cors) /\ LifecycleFits(settings[b].lifecycle)
             /\ settings[b].replication # Null => ReplicationFits(settings[b].replication)
             /\ settings[b].retention # Unconfigured.retention => DefaultRetentionFits(settings[b].retention)
  BY <1>2 DEF ChecksInv, SettingsFit, RulesFit
<1> QED
  BY <1>1, <1>2, Zenon DEF ChecksAgree

\* What is settled fits.
LEMMA SettledFits ==
    ASSUME ChecksInv, NEW b, NEW request, FieldsFit(request), TypedSettings(request), NEW created \in BOOLEAN,
           Settle(b, request, created)
    PROVE  \A x \in DOMAIN settings' : SettingsFit(settings'[x])
<1> PICK old, new : old = Configured(b) /\ new = Stored(old, request, created)
  OBVIOUS
<1>1. settings' = [x \in DOMAIN settings \cup {b} |-> IF x = b THEN new ELSE settings[x]]
  BY DEF Settle
<1>2. SettingsFit(old)
  BY ConfiguredFits
<1>3. SettingsFit(new)
  BY <1>2, StoredFits
<1>4. ASSUME NEW x \in DOMAIN settings' PROVE SettingsFit(settings'[x])
  <2>1. settings'[x] = new \/ (x \in DOMAIN settings /\ settings'[x] = settings[x])
    BY <1>1
  <2> QED
    BY <1>3, <2>1 DEF ChecksInv
<1> QED
  BY <1>4

\* A request of the client: what it checks passes, and what a helper writes.
LEMMA UpdateAgrees ==
    ASSUME ChecksInv, NEW helping \in BOOLEAN, NEW t, NEW b, NEW request, TypedSettings(request),
           helping => FieldsFit(request), Update(helping, t, b, request)
    PROVE  /\ answer'.vouched => answer'.fields
           /\ \A x \in DOMAIN settings' : SettingsFit(settings'[x])
<1>1. answer' = Verdict(ClientTakes(request) /\ (helping \/ Checked(request)), FieldsFit(request))
  BY DEF Update
<1>2. answer'.vouched => answer'.fields
  <2>1. answer'.vouched = (ClientTakes(request) /\ (helping \/ Checked(request))) /\ answer'.fields = FieldsFit(request)
    BY <1>1 DEF Verdict
  <2>2. ClientTakes(request) /\ Checked(request) => FieldsFit(request)
    BY CheckedFits
  <2> QED
    BY <2>1, <2>2
<1>3. \A x \in DOMAIN settings' : SettingsFit(settings'[x])
  <2>1. (FieldsFit(request) /\ Settle(b, request, FALSE)) \/ settings' = settings
    BY DEF Update
  <2>2. CASE FieldsFit(request) /\ Settle(b, request, FALSE)
    BY <2>2, SettledFits
  <2>3. CASE settings' = settings
    BY <2>3 DEF ChecksInv
  <2> QED
    BY <2>1, <2>2, <2>3
<1> QED
  BY <1>2, <1>3

LEMMA ChecksStep == ASSUME FilesInv, ChecksInv, [Next]_vars PROVE ChecksInv'
<1>1. ASSUME UNCHANGED settingsVars PROVE ChecksInv'
  BY <1>1 DEF ChecksInv, HelperFits, settingsVars
<1>2. ASSUME NEW t, NEW b, NEW request \in ReplicationRequests \cup plan.trials, Try(t, b, request)
      PROVE  ChecksInv'
  <2>1. TypedSettings(request) /\ helper' = helper /\ Update(FALSE, t, b, request)
    BY <1>2, RequestTyped DEF Try
  <2>2. (answer'.vouched => answer'.fields) /\ \A x \in DOMAIN settings' : SettingsFit(settings'[x])
    BY <2>1, UpdateAgrees
  <2> QED
    BY <2>1, <2>2 DEF ChecksInv, HelperFits
<1>3. ASSUME NEW t, NEW lock, NEW request \in Fitting(ReplicationRequests \cup plan.trials),
             CreateConfigured(t, lock, request)
      PROVE  ChecksInv'
  <2>1. FieldsFit(request) /\ request \in ReplicationRequests \cup plan.trials
    BY <1>3 DEF Fitting
  <2>2. TypedSettings(request)
    BY <2>1, RequestTyped
  <2>3. Settle(nextId, request, TRUE) /\ helper' = helper /\ answer' = answer
    BY <1>3 DEF CreateConfigured
  <2>4. \A x \in DOMAIN settings' : SettingsFit(settings'[x])
    BY <2>1, <2>2, <2>3, SettledFits
  <2> QED
    BY <2>3, <2>4 DEF ChecksInv, HelperFits
<1>4. ASSUME HelperWrites PROVE ChecksInv'
  <2>1. helper' = NoHelper /\ helper # NoHelper
    BY <1>4 DEF HelperWrites
  <2>2. (answer'.vouched => answer'.fields) /\ \A x \in DOMAIN settings' : SettingsFit(settings'[x])
    <3>1. CASE settings' = settings /\ answer' = answer
      BY <3>1 DEF ChecksInv
    <3>2. CASE ~ HelperThrows /\ Update(TRUE, helper.token, helper.bucket, HelperRequest)
      <4> PICK request, t, b : request = HelperRequest /\ t = helper.token /\ b = helper.bucket
        OBVIOUS
      <4>1. FieldsFit(request) /\ TypedSettings(request)
        BY <2>1, <3>2, HelperRequestFits DEF ChecksInv
      <4>2. Update(TRUE, t, b, request)
        BY <3>2
      <4> QED
        BY <4>1, <4>2, UpdateAgrees
    <3> QED
      BY <1>4, <3>1, <3>2 DEF HelperWrites
  <2> QED
    BY <2>1, <2>2 DEF ChecksInv, HelperFits
<1>5. ASSUME NEW t, NEW b, NEW edit \in RuleEdits \cup LifecycleEdits, Refresh(t, b, edit) PROVE ChecksInv'
  <2>1. /\ helper' = [op |-> edit.op, token |-> t, bucket |-> b, edit |-> edit, read |-> Configured(b)]
        /\ settings' = settings /\ answer' = answer
    BY <1>5 DEF Refresh
  <2>2. EditFits(edit.op, edit)
    BY EditsFit
  <2>3. SettingsFit(Configured(b))
    BY ConfiguredFits
  <2>4. helper'.read = Configured(b) /\ helper'.op = edit.op /\ helper'.edit = edit
    BY <2>1
  <2>5. HelperFits'
    BY <2>2, <2>3, <2>4 DEF HelperFits
  <2> QED
    BY <2>1, <2>5 DEF ChecksInv
<1>6. ASSUME NEW trial \in Trial, TryRequest(trial) PROVE ChecksInv'
  <2>1. answer' = Outcome(trial) /\ settings' = settings /\ helper' = helper
    BY <1>6 DEF TryRequest
  <2>2. answer'.vouched => answer'.fields
    BY <2>1, OutcomesAgree
  <2> QED
    BY <2>1, <2>2 DEF ChecksInv, HelperFits
<1>7. ASSUME NEW t, NEW b, NEW rules, NotifyOf(t, b, rules) PROVE UNCHANGED settingsVars
  BY <1>7 DEF NotifyOf
<1>8. ASSUME SettingsNext PROVE ChecksInv'
  <2> HIDE DEF Fitting, ReplicationRequests, RuleEdits, LifecycleEdits
  <2> QED
    BY <1>1, <1>2, <1>3, <1>4, <1>5, <1>6, <1>7, <1>8 DEF SettingsNext
<1>9. ASSUME ~ SettingsNext PROVE UNCHANGED settingsVars
  BY <1>9 DEF Next, vars, fileVars, settingsVars
<1> QED
  BY <1>1, <1>8, <1>9

\* What the client lets through is refused only for a field it does not know, a helper never
\* writes rules the service refuses for their form, what the client asks for unasked is
\* accepted, a key's holder is told the grant the key was asked for, and what a bucket reports
\* would be accepted again (assertValidBucketConfiguration and validateBucketConfigurationFields,
\* addReplicationRule, addLifecycleRule, normalizeAuthorizeAccountResponse).
THEOREM ChecksAlwaysAgree == Spec => []ChecksAgree
<1>1. Init => UrlInv /\ FilesInv /\ ChecksInv
  <2>1. ASSUME Init PROVE ChecksInv
    <3>1. settings = <<>> /\ helper = NoHelper /\ answer = NoAnswer
      BY <2>1 DEF Init, SettingsInit
    <3>2. ~ answer.vouched
      BY <3>1 DEF NoAnswer, Verdict
    <3> QED
      BY <3>1, <3>2 DEF ChecksInv, HelperFits
  <2> QED
    BY <2>1, GrantsInit, FilesInit
<1>2. UrlInv /\ FilesInv /\ ChecksInv /\ [Next]_vars => UrlInv' /\ FilesInv' /\ ChecksInv'
  BY TurnStep, UrlStep, FilesStep, ChecksStep
<1> QED
  BY <1>1, <1>2, ChecksHold, PTL DEF Spec
=============================================================================
