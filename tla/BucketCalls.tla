------------------------------ MODULE BucketCalls ------------------------------
(***************************************************************************)
(* The methods of Bucket (bucket.ts) that take more than one request: the  *)
(* paginators, deleteAll, deleteMany, unhideFile, and the changes of one   *)
(* rule among the bucket's settings, each a read and a write; and what     *)
(* anyone else may ask of the server in between.  When the answer of a     *)
(* request is lost the transport sends it again.                           *)
(***************************************************************************)
EXTENDS FileVersions, Sequences

CONSTANTS Caller,
          Plan,    \* ways to bound a behaviour, one of which plan is
          Setting, Rule, \* lists of rules in the settings; rules of different prefixes or names
          PageSize, Concurrency,
          MaxLost, MaxRevision \* bounds: lost answers, changes of the settings

\* prior: names uploaded and hidden in turn before; ops: the operations of each caller; calls,
\* others: how many calls, and how many requests of others; custom:
\* customUploadTimestampsEnabled.
ASSUME PlanAssumption ==
    \A p \in Plan : /\ Len(p.prior) \in 0..MaxId
                    /\ p.prior \in [1..Len(p.prior) -> [name : FileName, action : {"upload", "hide"}]]
                    /\ p.calls \in Nat /\ p.others \in Nat /\ p.custom \in BOOLEAN
ASSUME LimitsAssumption == PageSize \in Nat \ {0} /\ Concurrency \in Nat \ {0}

VARIABLES plan,
          rules, revision, \* the settings and their revision
          call,            \* what each caller is doing
          calls, others, lost, \* counters of the bounds
          kept, shown      \* history: the versions, and the visible names, that stay during a call

vars == <<plan, serverVars, rules, revision, call, calls, others, lost, kept, shown>>
settingVars == <<rules, revision>>
historyVars == <<kept, shown>>

Paginators == {"paginateFileNames", "paginateFileVersions"}
Sweeps == Paginators \cup {"deleteAll"}
Edits  == {"addRule", "removeRule", "addRuleIfRevisionIs"}

Entry  == [name : Nat, id : 0..MaxId]

\* todo: IDs to delete; flight: those being deleted; seen: rows given to the caller;
\* read and revision: the settings as read; replaced: those the write has replaced.
Idle == [op |-> "none", at |-> "done", delimited |-> FALSE, aborted |-> FALSE, cursor |-> NoCursor,
         todo |-> {}, flight |-> {}, seen |-> {}, deleted |-> {}, failed |-> {},
         name |-> 0, setting |-> "", rule |-> "", read |-> {}, revision |-> 0, replaced |-> {}]

Call == [op : Sweeps \cup Edits \cup {"deleteMany", "unhideFile", "none"},
         at : {"fetch", "delete", "write", "done", "thrown"},
         delimited : BOOLEAN, aborted : BOOLEAN, cursor : Entry,
         todo : SUBSET (1..MaxId), flight : SUBSET (1..MaxId), seen : SUBSET Entry,
         deleted : SUBSET (1..MaxId), failed : SUBSET (1..MaxId), name : Nat,
         setting : Setting \cup {""}, rule : Rule \cup {""}, read : SUBSET Rule,
         revision : Nat, replaced : SUBSET Rule]

TypeOK ==
    /\ FilesTypeOK
    /\ rules \in [Setting -> SUBSET Rule] /\ revision \in Nat
    /\ call \in [Caller -> Call]
    /\ plan \in Plan /\ calls \in 0..plan.calls /\ others \in 0..plan.others /\ lost \in 0..MaxLost
    /\ kept \in [Caller -> SUBSET (1..MaxId)] /\ shown \in [Caller -> SUBSET FileName]

Names(vs) == {v.name : v \in vs}

\* Some names have been uploaded and hidden before, in any order.
Init ==
    /\ plan \in Plan
    /\ versions = {[id |-> i, name |-> plan.prior[i].name, action |-> plan.prior[i].action, stamp |-> i,
                    hold |-> FALSE, retention |-> NoRetention] : i \in DOMAIN plan.prior}
    /\ nextId = Len(plan.prior) + 1 /\ lastTimestamp = Len(plan.prior)
    /\ now = 0
    /\ rules = [s \in Setting |-> {}] /\ revision = 1
    /\ call = [c \in Caller |-> Idle]
    /\ calls = 0 /\ others = 0 /\ lost = 0
    /\ kept = [c \in Caller |-> {}] /\ shown = [c \in Caller |-> {}]

\* History of a step that changes the versions.
Seen ==
    /\ kept' = [c \in Caller |-> kept[c] \cap Ids(versions')]
    /\ shown' = [c \in Caller |-> shown[c] \cap Names(Visible(versions'))]

\* The next state of a call.
Goto(c, new) == call' = [call EXCEPT ![c] = new]

-----------------------------------------------------------------------------
(* Calls begin, and others send requests of their own.                     *)

Begin(c, new) ==
    /\ call[c].at \in {"done", "thrown"} /\ calls < plan.calls
    /\ calls' = calls + 1
    /\ Goto(c, new)
    /\ kept' = [kept EXCEPT ![c] = Ids(versions)]
    /\ shown' = [shown EXCEPT ![c] = Names(Visible(versions))]
    /\ UNCHANGED <<plan, serverVars, settingVars, others, lost>>

BeginSweep(c) ==
    \E op \in Sweeps \cap plan.ops[c] : \E delimited \in IF op = "deleteAll" THEN {FALSE} ELSE BOOLEAN :
        Begin(c, [Idle EXCEPT !.op = op, !.at = "fetch", !.delimited = delimited])

\* Some targets may be gone already.
BeginDeleteMany(c) ==
    /\ "deleteMany" \in plan.ops[c]
    /\ \E targets \in SUBSET (1..nextId - 1) :
           targets # {} /\ Begin(c, [Idle EXCEPT !.op = "deleteMany", !.at = "delete", !.todo = targets])

BeginUnhide(c) ==
    /\ "unhideFile" \in plan.ops[c]
    /\ \E name \in FileName : Begin(c, [Idle EXCEPT !.op = "unhideFile", !.at = "fetch", !.name = name])

BeginEdit(c) ==
    \E op \in Edits \cap plan.ops[c], setting \in Setting, rule \in Rule :
        Begin(c, [Idle EXCEPT !.op = op, !.at = "fetch", !.setting = setting, !.rule = rule])

\* The signal of a paginator or a deleteMany fires.
Abort(c) ==
    /\ call[c].op \in Paginators \cup {"deleteMany"} /\ call[c].at \in {"fetch", "delete"}
    /\ ~call[c].aborted
    /\ Goto(c, [call[c] EXCEPT !.aborted = TRUE])
    /\ UNCHANGED <<plan, serverVars, settingVars, calls, others, lost, historyVars>>

Other ==
    /\ others < plan.others /\ others' = others + 1
    /\ \/ \E name \in FileName : UploadFile(name) \/ HideFile(name)
       \/ \E name \in FileName, stamp \in 0..now : plan.custom /\ UploadWithTimestamp(name, stamp)
       \/ \E id \in 1..MaxId, name \in FileName : CopyFile(id, name)
       \/ \E id \in 1..MaxId, bypass \in BOOLEAN : DeleteFileVersion(id, bypass)
       \/ \E v \in versions, retention \in Retention, bypass \in BOOLEAN :
              v.retention # retention /\ UpdateFileRetention(v, retention, bypass)
       \/ \E v \in versions, on \in BOOLEAN : UpdateFileLegalHold(v, on)
       \/ Tick
    /\ Seen
    /\ UNCHANGED <<plan, settingVars, call, calls, lost>>

-----------------------------------------------------------------------------
(* Paginators and deleteAll: one page after the other.                     *)

RowsOf(my) ==
    Rows(IF my.op = "paginateFileNames" THEN Visible(versions) ELSE versions, my.delimited)

EntryOf(row) == [name |-> row.name, id |-> row.id]

\* A page of names has no nextFileId.
NextOf(my, rows) ==
    LET next == NextCursor(rows, PageSize) IN
    IF my.op = "paginateFileNames" THEN [next EXCEPT !.id = 0] ELSE next

\* paginatePages: no next cursor, or a name that does not advance.
Ends(my, next) ==
    next = NoCursor \/ (my.op = "paginateFileNames" /\ next = my.cursor)

\* paginatePages checks the signal, fetches a page and hands out its rows.
FetchPage(c) ==
    LET my   == call[c]
        rows == From(RowsOf(my), my.cursor)
        page == Page(rows, PageSize)
        next == NextOf(my, rows) IN
    /\ my.op \in Sweeps /\ my.at = "fetch" /\ ~my.aborted
    /\ IF my.op = "deleteAll"
       THEN Goto(c, [my EXCEPT !.cursor = next, !.todo = {r.id : r \in page},
                               !.at = IF page = {} THEN "done" ELSE "delete"])
       ELSE Goto(c, [my EXCEPT !.cursor = next, !.seen = @ \cup {EntryOf(r) : r \in page},
                               !.at = IF Ends(my, next) THEN "done" ELSE "fetch"])
    /\ UNCHANGED <<plan, serverVars, settingVars, calls, others, lost, historyVars>>

\* signal.throwIfAborted
ThrowAborted(c) ==
    /\ call[c].op \in Paginators /\ call[c].at = "fetch" /\ call[c].aborted
    /\ Goto(c, [call[c] EXCEPT !.at = "thrown"])
    /\ UNCHANGED <<plan, serverVars, settingVars, calls, others, lost, historyVars>>

-----------------------------------------------------------------------------
(* Deletions.                                                              *)

\* A task of deleteMany gets the semaphore: the abort turns it into an error.
Acquired(c, id) ==
    Goto(c, IF call[c].aborted THEN [call[c] EXCEPT !.todo = @ \ {id}, !.failed = @ \cup {id}]
            ELSE [call[c] EXCEPT !.todo = @ \ {id}, !.flight = @ \cup {id}])

Acquire(c) ==
    /\ call[c].op = "deleteMany" /\ call[c].at = "delete"
    /\ Cardinality(call[c].flight) < Concurrency
    /\ \E id \in call[c].todo : Acquired(c, id)
    /\ UNCHANGED <<plan, serverVars, settingVars, calls, others, lost, historyVars>>

\* The IDs whose deletion the call has sent: deleteAll sends those of a page one by one.
Sent(c) == IF call[c].op = "deleteMany" THEN call[c].flight
           ELSE IF call[c].at = "delete" THEN call[c].todo ELSE {}

\* Mutant: every request counts, whatever its answer.
CountRequest(my, id, ok) == [my EXCEPT !.todo = @ \ {id}, !.flight = @ \ {id}, !.deleted = @ \cup {id}]

\* An event of deleteAll, or a task of deleteMany that ends.
Tally(my, id, ok) ==
    [my EXCEPT !.todo = @ \ {id}, !.flight = @ \ {id},
               !.deleted = IF ok THEN @ \cup {id} ELSE @,
               !.failed  = IF ok THEN @ ELSE @ \cup {id}]

\* unhideFile and deleteMany end, deleteAll goes on to the next page.
AfterDelete(my) ==
    IF my.todo \cup my.flight # {} THEN my ELSE
    CASE my.op = "deleteAll"  -> [my EXCEPT !.at = IF my.cursor = NoCursor THEN "done" ELSE "fetch"]
      [] my.op = "deleteMany" -> [my EXCEPT !.at = "done"]
      [] OTHER                -> [my EXCEPT !.at = IF my.failed = {} THEN "done" ELSE "thrown"]

\* The server deletes the version or refuses; without bypassGovernance.
Delete(c) ==
    \E id \in Sent(c) :
        LET ok == DeleteOk(id, FALSE) IN
        /\ IF ok THEN DeleteFileVersion(id, FALSE) ELSE UNCHANGED serverVars
        /\ Goto(c, AfterDelete(Tally(call[c], id, ok)))
        /\ Seen
        /\ UNCHANGED <<plan, settingVars, calls, others, lost>>

\* The version is deleted, and the transport will ask for it again.
DeleteUnanswered(c) ==
    /\ lost < MaxLost /\ lost' = lost + 1
    /\ \E id \in Sent(c) : DeleteFileVersion(id, FALSE)
    /\ Seen
    /\ UNCHANGED <<plan, settingVars, call, calls, others>>

\* The tasks of a deleteMany without targets in flight have all ended in errors.
EndDeleteMany(c) ==
    /\ call[c].op = "deleteMany" /\ call[c].at = "delete"
    /\ call[c].todo \cup call[c].flight = {}
    /\ Goto(c, AfterDelete(call[c]))
    /\ UNCHANGED <<plan, serverVars, settingVars, calls, others, lost, historyVars>>

\* unhideFile lists the versions of the name: the first one, if it is a hide marker, goes.
FindMarker(c) ==
    LET my == call[c]
        of == {v \in versions : v.name = my.name}
        markers == {v \in of : v.action = "hide" /\ \A w \in of : w = v \/ Precedes(v, w)} IN
    /\ my.op = "unhideFile" /\ my.at = "fetch"
    /\ Goto(c, [my EXCEPT !.at = IF markers = {} THEN "done" ELSE "delete", !.todo = Ids(markers)])
    /\ UNCHANGED <<plan, serverVars, settingVars, calls, others, lost, historyVars>>

-----------------------------------------------------------------------------
(* The settings.                                                           *)

\* refresh: listBuckets of the one bucket.
Refresh(c) ==
    LET my == call[c] IN
    /\ my.op \in Edits /\ my.at = "fetch"
    /\ Goto(c, [my EXCEPT !.at = "write", !.read = rules[my.setting], !.revision = revision])
    /\ UNCHANGED <<plan, serverVars, settingVars, calls, others, lost, historyVars>>

\* addLifecycleRule and removeLifecycleRule; addReplicationRule and removeReplicationRule
\* of a bucket that has a source key.
Edited(my) == IF my.op = "removeRule" THEN my.read \ {my.rule} ELSE my.read \cup {my.rule}

\* Mutant: the revision stays.
SameRevision == UNCHANGED revision

NextRevision == revision' = revision + 1

\* update: ifRevisionIs is sent by a caller of its own, not by the helpers.
RevisionOk(my) == my.op = "addRuleIfRevisionIs" => my.revision = revision

UpdateBucket(my) ==
    /\ revision < MaxRevision
    /\ rules' = [rules EXCEPT ![my.setting] = Edited(my)]
    /\ NextRevision

Update(c) ==
    LET my == call[c] IN
    /\ my.op \in Edits /\ my.at = "write"
    /\ IF RevisionOk(my)
       THEN /\ UpdateBucket(my)
            /\ Goto(c, [my EXCEPT !.at = "done", !.replaced = rules[my.setting]])
       ELSE UNCHANGED settingVars /\ Goto(c, [my EXCEPT !.at = "thrown"])
    /\ UNCHANGED <<plan, serverVars, calls, others, lost, historyVars>>

\* The settings are written, and the transport will write them again.
UpdateUnanswered(c) ==
    /\ call[c].op \in Edits /\ call[c].at = "write" /\ RevisionOk(call[c])
    /\ lost < MaxLost /\ lost' = lost + 1
    /\ UpdateBucket(call[c])
    /\ UNCHANGED <<plan, serverVars, call, calls, others, historyVars>>

-----------------------------------------------------------------------------

Step(c) ==
    \/ FetchPage(c) \/ ThrowAborted(c) \/ Acquire(c) \/ Delete(c) \/ EndDeleteMany(c)
    \/ FindMarker(c) \/ Refresh(c) \/ Update(c)

Next ==
    \/ Other
    \/ \E c \in Caller :
         \/ BeginSweep(c) \/ BeginDeleteMany(c) \/ BeginUnhide(c) \/ BeginEdit(c)
         \/ Abort(c) \/ Step(c) \/ DeleteUnanswered(c) \/ UpdateUnanswered(c)

Spec == Init /\ [][Next]_vars

-----------------------------------------------------------------------------
(* Properties.                                                             *)

\* Whatever is pushed, deleted or hidden between two pages: a listing that ended has given
\* every version, or every visible name, that was there all the time, or its folder; and
\* deleteAll has reported as an error every version it has left.
ListingMissesNothing ==
    \A c \in Caller :
        LET my == call[c]
            entries == {EntryOf(r) : r \in Rows({v \in versions : v.id \in kept[c]}, my.delimited)} IN
        my.at = "done" =>
            /\ my.op = "deleteAll" => kept[c] \subseteq my.failed
            /\ my.op = "paginateFileVersions" => entries \subseteq my.seen
            /\ my.op = "paginateFileNames" =>
                   \A n \in shown[c] :
                       LET f == IF my.delimited THEN FolderOf[n] ELSE 0 IN
                       \E e \in my.seen : e.name = IF f = 0 THEN n ELSE f

\* "so the result tally reflects what actually happened": what deleteMany, deleteAll or
\* unhideFile reports as deleted is gone, and deleteMany reports no version both ways.
DeletedIsGone ==
    \A c \in Caller :
        /\ call[c].deleted \cap Ids(versions) = {}
        /\ call[c].op = "deleteMany" => call[c].deleted \cap call[c].failed = {}

\* Whatever sequence of updates, bypasses and deletions: a version under a legal hold or
\* under compliance stays, and its retention is never shortened.
LockedStays ==
    [][\A v \in versions :
         v.hold \/ Active(v.retention, "compliance") =>
             \E w \in versions' :
                 /\ w.id = v.id
                 /\ Active(v.retention, "compliance") =>
                        w.retention.mode = "compliance" /\ w.retention.until >= v.retention.until]_vars

\* The first version listed for a name is the one downloads serve: listFileVersions
\* (which unhideFile relies on) and listFileNames agree on which is the latest, unless the
\* account chooses timestamps.
FirstIsLatest ==
    ~plan.custom => \A v, w \in versions : v.name = w.name /\ v \in Latest(versions) => v = w \/ Precedes(v, w)

\* An update with ifRevisionIs replaces the settings that were read, and no newer ones.
GuardedUpdateIsCurrent ==
    \A c \in Caller :
        call[c].op = "addRuleIfRevisionIs" /\ call[c].at = "done" => call[c].replaced = call[c].read

\* What a caller of Bucket is told happened: a version reported as deleted is gone, and an
\* update reported under ifRevisionIs replaced what its caller had read.
AnswersAreTrue == DeletedIsGone /\ GuardedUpdateIsCurrent
=============================================================================
