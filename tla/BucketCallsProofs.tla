--------------------------- MODULE BucketCallsProofs ---------------------------
(***************************************************************************)
(* IInv is inductive.  VersionsInv says what the IDs and the timestamps of  *)
(* the versions are good for: an ID names one version, and is never given   *)
(* out again.  CallsInv keeps the records of the callers true to the        *)
(* versions and the settings while anyone changes them.                     *)
(*                                                                         *)
(* The records of the calls are described by their fields (IsCall) and not  *)
(* by TypeOK: what the requests of others change is the server, and a call  *)
(* that is not stepping keeps its record.                                   *)
(*                                                                         *)
(* ListingInv, on top of it, is about the listings: what is still to come   *)
(* comes after the cursor, and what does not was told.  The cursor is the   *)
(* CHOOSE of a first row; that there is one (LeastRow) is the               *)
(* well-foundedness of the strict subsets of a finite set, applied to the   *)
(* sets of rows each row comes after.                                       *)
(***************************************************************************)
EXTENDS BucketCalls, FiniteSetTheorems, TLAPS

\* An ID is that of one version; unless the account chooses timestamps they grow with the IDs.
VersionsInv ==
    /\ plan \in Plan
    /\ \A v \in versions : v.id < nextId
    /\ \A v, x \in versions : v.id = x.id => v = x
    /\ ~plan.custom =>
           /\ \A v \in versions : v.stamp <= lastTimestamp
           /\ \A v, x \in versions : v.id < x.id => v.stamp < x.stamp

Fields == {"op", "at", "delimited", "aborted", "cursor", "todo", "flight", "seen", "deleted",
           "failed", "name", "setting", "rule", "read", "revision", "replaced"}
IsCall(my) == DOMAIN my = Fields /\ my = [f \in Fields |-> my[f]]

\* What is deleted is gone for good; a target of deleteMany is in one place.
DeletedOk(my, vs, next) ==
    /\ my.deleted \cap Ids(vs) = {} /\ my.deleted \subseteq 1..next - 1
    /\ my.op = "deleteMany" =>
           /\ my.todo \cap my.flight = {} /\ my.deleted \cap my.failed = {}
           /\ (my.todo \cup my.flight) \cap (my.deleted \cup my.failed) = {}

\* As long as the revision is the one read, so are the settings.
EditOk(my, rs, rev) ==
    my.op = "addRuleIfRevisionIs" =>
        /\ my.revision \in Nat /\ my.revision <= rev /\ my.at # "delete"
        /\ my.at = "write" /\ my.revision = rev => my.read = rs[my.setting]
        /\ my.at = "done" => my.replaced = my.read

CallOk(my, vs, next, rs, rev) == IsCall(my) /\ DeletedOk(my, vs, next) /\ EditOk(my, rs, rev)

CallsInv ==
    /\ revision \in Nat
    /\ call = [c \in Caller |-> call[c]]
    /\ \A c \in Caller : CallOk(call[c], versions, nextId, rules, revision)

IInv == FilesTypeOK /\ VersionsInv /\ CallsInv

-----------------------------------------------------------------------------
(* The server.                                                             *)

LEMMA StampIsNew == ASSUME FilesTypeOK PROVE Stamp \in Nat /\ Stamp > lastTimestamp
BY BoundsAssumption DEF FilesTypeOK, Stamp

\* What a request does to the versions: one more, with the next ID; one less, which no
\* lock protects; or the lock of one of them changed, as its lock allows.
Pushed(name, action, stamp) ==
    /\ nextId <= MaxId /\ versions' = versions \cup {NewVersion(name, action, stamp)}
    /\ nextId' = nextId + 1
Relocked(v, x) ==
    /\ versions' = (versions \ {v}) \cup {x} /\ nextId' = nextId
    /\ x \in Version /\ x.id = v.id /\ x.name = v.name /\ x.stamp = v.stamp
    /\ Active(v.retention, "compliance") =>
           x.retention.mode = "compliance" /\ x.retention.until >= v.retention.until

LEMMA RetentionEffect ==
    ASSUME FilesTypeOK, NEW v \in versions, NEW retention \in Retention, NEW bypass \in BOOLEAN,
           UpdateFileRetention(v, retention, bypass)
    PROVE  Relocked(v, [v EXCEPT !.retention = retention])
<1>1. v \in Version /\ MaxTime \in Nat
  BY BoundsAssumption DEF FilesTypeOK
<1>2. v.retention.until \in Nat /\ retention.until \in Nat
  BY <1>1 DEF Version, Retention, NoRetention
<1>3. v.retention.mode = "compliance" =>
        retention.mode = "compliance" /\ retention.until >= v.retention.until
  BY <1>2 DEF UpdateFileRetention, RetentionAllowed, Weakened
<1> DEFINE x == [v EXCEPT !.retention = retention]
<1>4. x \in Version /\ x.id = v.id /\ x.name = v.name /\ x.stamp = v.stamp /\ x.retention = retention
  BY <1>1 DEF Version
<1> QED
  BY <1>3, <1>4 DEF Relocked, UpdateFileRetention, Active

LEMMA HoldEffect ==
    ASSUME FilesTypeOK, NEW v \in versions, NEW on \in BOOLEAN, UpdateFileLegalHold(v, on)
    PROVE  Relocked(v, [v EXCEPT !.hold = on])
<1>1. v \in Version /\ MaxTime \in Nat
  BY BoundsAssumption DEF FilesTypeOK
<1>2. v.retention.until \in Nat
  BY <1>1 DEF Version, Retention, NoRetention
<1> DEFINE x == [v EXCEPT !.hold = on]
<1>3. /\ x \in Version /\ x.id = v.id /\ x.name = v.name /\ x.stamp = v.stamp
      /\ x.retention = v.retention
  BY <1>1 DEF Version
<1> QED
  BY <1>2, <1>3 DEF Relocked, UpdateFileLegalHold, Active

\* What LockedStays says of one step.
Keeps ==
    \A v \in versions :
        v.hold \/ Active(v.retention, "compliance") =>
            \E x \in versions' :
                /\ x.id = v.id
                /\ Active(v.retention, "compliance") =>
                       x.retention.mode = "compliance" /\ x.retention.until >= v.retention.until

\* No ID comes back.
Grows == Ids(versions') \subseteq Ids(versions) \cup {nextId} /\ nextId' \in {nextId, nextId + 1}

LEMMA KeepsAll == ASSUME FilesTypeOK, versions \subseteq versions' PROVE Keeps
<1>1. MaxTime \in Nat
  BY BoundsAssumption
<1>2. \A v \in versions : v.retention.until \in Nat
  BY <1>1 DEF FilesTypeOK, Version, Retention, NoRetention
<1> QED
  BY <1>2 DEF Keeps, Active

LEMMA PushEffect ==
    ASSUME FilesTypeOK, VersionsInv, plan' = plan, now' = now,
           NEW name \in FileName, NEW action \in {"upload", "copy", "hide"}, NEW stamp \in Nat,
           Pushed(name, action, stamp), lastTimestamp' \in Nat,
           ~plan.custom => stamp > lastTimestamp /\ lastTimestamp' = stamp
    PROVE  FilesTypeOK' /\ VersionsInv' /\ Keeps /\ Grows
<1> DEFINE new == NewVersion(name, action, stamp)
<1>1. /\ nextId \in 1..MaxId /\ MaxId \in Nat /\ MaxTime \in Nat /\ nextId' = nextId + 1
      /\ lastTimestamp \in Nat /\ now' = now /\ now \in 0..MaxTime
      /\ \A v \in versions : v \in Version /\ v.id \in Nat /\ v.stamp \in Nat
  BY BoundsAssumption DEF FilesTypeOK, Pushed, Version
<1>2. new \in Version /\ new.id = nextId /\ new.stamp = stamp
  BY <1>1 DEF NewVersion, Version, Retention
<1>3. versions' = versions \cup {new}
  BY DEF Pushed
<1> HIDE DEF new
<1>4. FilesTypeOK'
  BY <1>1, <1>2, <1>3 DEF FilesTypeOK
<1>5. VersionsInv'
  <2>1. \A v \in versions' : v.id < nextId'
    BY <1>1, <1>2, <1>3 DEF VersionsInv
  <2>2. \A v, x \in versions' : v.id = x.id => v = x
    BY <1>1, <1>2, <1>3 DEF VersionsInv
  <2>3. ASSUME ~plan.custom
        PROVE  /\ \A v \in versions' : v.stamp <= lastTimestamp'
               /\ \A v, x \in versions' : v.id < x.id => v.stamp < x.stamp
    BY <1>1, <1>2, <1>3, <2>3 DEF VersionsInv
  <2> QED
    BY <2>1, <2>2, <2>3 DEF VersionsInv
<1>6. Keeps
  BY <1>3, KeepsAll
<1>7. Grows
  BY <1>1, <1>2, <1>3 DEF Grows, Ids
<1> QED
  BY <1>4, <1>5, <1>6, <1>7

LEMMA DeleteEffect ==
    ASSUME FilesTypeOK, VersionsInv, plan' = plan, NEW id, NEW bypass \in BOOLEAN,
           DeleteFileVersion(id, bypass)
    PROVE  /\ FilesTypeOK' /\ VersionsInv' /\ Keeps /\ Grows
           /\ id \in Ids(versions) /\ id \notin Ids(versions')
<1>1. /\ versions' = {v \in versions : v.id # id} /\ UNCHANGED <<nextId, lastTimestamp, now>>
      /\ \E v \in versions : v.id = id /\ Deletable(v, bypass)
  BY DEF DeleteFileVersion, DeleteOk, Without
<1>2. FilesTypeOK' /\ VersionsInv'
  BY <1>1 DEF FilesTypeOK, VersionsInv
<1>3. Keeps
  <2> SUFFICES ASSUME NEW v \in versions, v.hold \/ Active(v.retention, "compliance")
               PROVE  /\ v \in versions'
                      /\ Active(v.retention, "compliance") =>
                             v.retention.mode = "compliance" /\ v.retention.until >= v.retention.until
    BY DEF Keeps
  <2>1. v.id # id
    BY <1>1 DEF VersionsInv, Deletable
  <2>2. v.retention.until \in Nat
    BY BoundsAssumption DEF FilesTypeOK, Version, Retention, NoRetention
  <2> QED
    BY <1>1, <2>1, <2>2 DEF Active
<1> QED
  BY <1>1, <1>2, <1>3 DEF Grows, Ids

LEMMA RelockEffect ==
    ASSUME FilesTypeOK, VersionsInv, plan' = plan, UNCHANGED <<lastTimestamp, now>>,
           NEW v \in versions, NEW x, Relocked(v, x)
    PROVE  FilesTypeOK' /\ VersionsInv' /\ Keeps /\ Grows
<1>1. /\ versions' = (versions \ {v}) \cup {x} /\ nextId' = nextId
      /\ x \in Version /\ x.id = v.id /\ x.stamp = v.stamp
      /\ Active(v.retention, "compliance") =>
             x.retention.mode = "compliance" /\ x.retention.until >= v.retention.until
  BY DEF Relocked
<1>2. FilesTypeOK'
  BY <1>1 DEF FilesTypeOK
<1>3. VersionsInv'
  <2>1. \A y \in versions' : \E z \in versions : z.id = y.id /\ z.stamp = y.stamp
    BY <1>1
  <2>2. \A y, z \in versions' : y.id = z.id => y = z
    BY <1>1 DEF VersionsInv
  <2> QED
    BY <1>1, <2>1, <2>2 DEF VersionsInv
<1>4. Keeps
  <2> SUFFICES ASSUME NEW y \in versions
               PROVE  \E z \in versions' :
                          /\ z.id = y.id
                          /\ Active(y.retention, "compliance") =>
                                 z.retention.mode = "compliance" /\ z.retention.until >= y.retention.until
    BY DEF Keeps
  <2>1. y.retention.until \in Nat
    BY BoundsAssumption DEF FilesTypeOK, Version, Retention, NoRetention
  <2>2. CASE y = v
    BY <1>1, <2>2
  <2>3. CASE y # v
    BY <1>1, <2>1, <2>3 DEF Active
  <2> QED
    BY <2>2, <2>3
<1>5. Grows
  BY <1>1 DEF Grows, Ids
<1> QED
  BY <1>2, <1>3, <1>4, <1>5

\* The requests of others.
LEMMA OtherEffect ==
    ASSUME FilesTypeOK, VersionsInv, Other
    PROVE  FilesTypeOK' /\ VersionsInv' /\ Keeps /\ Grows
<1> DEFINE Goal == FilesTypeOK' /\ VersionsInv' /\ Keeps /\ Grows
<1>1. plan' = plan
  BY DEF Other
<1>2. ASSUME NEW name \in FileName, NEW action \in {"upload", "copy", "hide"}, Push(name, action)
      PROVE  Goal
  <2>1. Pushed(name, action, Stamp) /\ lastTimestamp' = Stamp /\ now' = now
    BY <1>2 DEF Push, Pushed
  <2> QED
    BY <1>1, <2>1, StampIsNew, PushEffect
<1>3. ASSUME NEW name \in FileName, NEW stamp \in 0..now, plan.custom, UploadWithTimestamp(name, stamp)
      PROVE  Goal
  <2>1. /\ Pushed(name, "upload", stamp) /\ lastTimestamp' = lastTimestamp /\ now' = now
        /\ lastTimestamp \in Nat /\ stamp \in Nat
    BY <1>3, BoundsAssumption DEF UploadWithTimestamp, Pushed, FilesTypeOK
  <2> QED
    BY <1>1, <1>3, <2>1, PushEffect
<1>4. ASSUME NEW id, NEW bypass \in BOOLEAN, DeleteFileVersion(id, bypass) PROVE Goal
  BY <1>1, <1>4, DeleteEffect
<1>5. ASSUME NEW v \in versions, NEW retention \in Retention, NEW bypass \in BOOLEAN,
             UpdateFileRetention(v, retention, bypass)
      PROVE  Goal
  <2>1. UNCHANGED <<lastTimestamp, now>>
    BY <1>5 DEF UpdateFileRetention
  <2>2. Relocked(v, [v EXCEPT !.retention = retention])
    BY <1>5, RetentionEffect
  <2> QED
    BY <1>1, <2>1, <2>2, RelockEffect
<1>6. ASSUME NEW v \in versions, NEW on \in BOOLEAN, UpdateFileLegalHold(v, on) PROVE Goal
  <2>1. UNCHANGED <<lastTimestamp, now>>
    BY <1>6 DEF UpdateFileLegalHold
  <2> QED
    BY <1>1, <1>6, <2>1, HoldEffect, RelockEffect
<1>7. CASE Tick
  <2>1. versions' = versions /\ nextId' = nextId
    BY <1>7 DEF Tick
  <2>2. FilesTypeOK' /\ VersionsInv'
    BY <1>1, <1>7, BoundsAssumption DEF Tick, FilesTypeOK, VersionsInv
  <2> QED
    BY <2>1, <2>2, KeepsAll DEF Grows
<1> HIDE DEF Goal
<1> QED
  BY <1>2, <1>3, <1>4, <1>5, <1>6, <1>7 DEF Other, UploadFile, HideFile, CopyFile, Goal

-----------------------------------------------------------------------------
(* The calls.                                                              *)

\* What is true of a call stays so when others change the versions and the settings.
LEMMA CallFrame ==
    ASSUME FilesTypeOK, revision \in Nat, Grows,
           UNCHANGED settingVars \/ revision' = revision + 1,
           NEW my, CallOk(my, versions, nextId, rules, revision)
    PROVE  CallOk(my, versions', nextId', rules', revision') /\ revision' \in Nat
<1>1. nextId \in Nat /\ nextId' \in Nat /\ nextId <= nextId'
  BY BoundsAssumption DEF FilesTypeOK, Grows
<1>2. DeletedOk(my, versions', nextId')
  BY <1>1 DEF CallOk, DeletedOk, Grows
<1>3. EditOk(my, rules', revision') /\ revision' \in Nat
  BY DEF CallOk, EditOk, settingVars
<1> QED
  BY <1>2, <1>3 DEF CallOk

LEMMA GotoEffect ==
    ASSUME FilesTypeOK, CallsInv, Grows, UNCHANGED settingVars \/ revision' = revision + 1,
           NEW c \in Caller, NEW new, Goto(c, new),
           CallOk(new, versions', nextId', rules', revision')
    PROVE  CallsInv'
<1>1. /\ call' = [d \in Caller |-> IF d = c THEN new ELSE call[d]]
      /\ \A d \in Caller : CallOk(call[d], versions, nextId, rules, revision)
      /\ revision \in Nat
  BY DEF CallsInv, Goto
<1>2. \A d \in Caller : CallOk(call[d], versions', nextId', rules', revision')
  BY <1>1, CallFrame
<1>3. revision' \in Nat
  BY <1>1 DEF settingVars
<1>4. \A d \in Caller : CallOk(call'[d], versions', nextId', rules', revision')
  BY <1>1, <1>2
<1> QED
  BY <1>1, <1>3, <1>4 DEF CallsInv

\* A step of a call that leaves the server and the settings alone.
Quiet == UNCHANGED <<plan, serverVars, settingVars>>

LEMMA QuietEffect ==
    ASSUME FilesTypeOK, VersionsInv, Quiet
    PROVE  FilesTypeOK' /\ VersionsInv' /\ Keeps /\ Grows
<1>1. plan' = plan /\ versions' = versions /\ UNCHANGED <<nextId, lastTimestamp, now>>
  BY DEF Quiet, serverVars
<1> QED
  BY <1>1, KeepsAll DEF FilesTypeOK, VersionsInv, Grows

LEMMA IdleIsCall ==
    /\ IsCall(Idle) /\ Idle.deleted = {} /\ Idle.failed = {} /\ Idle.flight = {}
    /\ Idle.revision = 0
BY DEF IsCall, Fields, Idle

LEMMA BeginStep ==
    ASSUME IInv, NEW c \in Caller,
           BeginSweep(c) \/ BeginDeleteMany(c) \/ BeginUnhide(c) \/ BeginEdit(c)
    PROVE  Quiet /\ \E new : Goto(c, new) /\ CallOk(new, versions, nextId, rules, revision)
<1> DEFINE Ok(new) == CallOk(new, versions, nextId, rules, revision)
<1>rev. revision \in Nat
  BY DEF IInv, CallsInv
<1>1. ASSUME NEW new, Begin(c, new), IsCall(new), new.deleted = {}, new.failed = {}, new.flight = {},
             new.revision = 0, new.at = "fetch" \/ (new.at = "delete" /\ new.op = "deleteMany")
      PROVE  Quiet /\ Goto(c, new) /\ Ok(new)
  BY <1>rev, <1>1 DEF Begin, Quiet, CallOk, DeletedOk, EditOk
<1> HIDE DEF Ok
<1>2. CASE BeginSweep(c)
  <2>1. PICK op \in Sweeps \cap plan.ops[c], delimited \in BOOLEAN :
            Begin(c, [Idle EXCEPT !.op = op, !.at = "fetch", !.delimited = delimited])
    BY <1>2 DEF BeginSweep
  <2> DEFINE new == [Idle EXCEPT !.op = op, !.at = "fetch", !.delimited = delimited]
  <2>2. /\ IsCall(new) /\ new.deleted = {} /\ new.failed = {} /\ new.flight = {}
        /\ new.revision = 0 /\ new.at = "fetch"
    BY IdleIsCall DEF IsCall, Fields
  <2> QED
    BY <1>1, <2>1, <2>2 DEF Ok
<1>3. CASE BeginDeleteMany(c)
  <2>1. PICK targets \in SUBSET (1..nextId - 1) :
            Begin(c, [Idle EXCEPT !.op = "deleteMany", !.at = "delete", !.todo = targets])
    BY <1>3 DEF BeginDeleteMany
  <2> DEFINE new == [Idle EXCEPT !.op = "deleteMany", !.at = "delete", !.todo = targets]
  <2>2. /\ IsCall(new) /\ new.deleted = {} /\ new.failed = {} /\ new.flight = {}
        /\ new.revision = 0 /\ new.at = "delete" /\ new.op = "deleteMany"
    BY IdleIsCall DEF IsCall, Fields
  <2> QED
    BY <1>1, <2>1, <2>2 DEF Ok
<1>4. CASE BeginUnhide(c)
  <2>1. PICK name \in FileName :
            Begin(c, [Idle EXCEPT !.op = "unhideFile", !.at = "fetch", !.name = name])
    BY <1>4 DEF BeginUnhide
  <2> DEFINE new == [Idle EXCEPT !.op = "unhideFile", !.at = "fetch", !.name = name]
  <2>2. /\ IsCall(new) /\ new.deleted = {} /\ new.failed = {} /\ new.flight = {}
        /\ new.revision = 0 /\ new.at = "fetch"
    BY IdleIsCall DEF IsCall, Fields
  <2> QED
    BY <1>1, <2>1, <2>2 DEF Ok
<1>5. CASE BeginEdit(c)
  <2>1. PICK op \in Edits \cap plan.ops[c], setting \in Setting, rule \in Rule :
            Begin(c, [Idle EXCEPT !.op = op, !.at = "fetch", !.setting = setting, !.rule = rule])
    BY <1>5 DEF BeginEdit
  <2> DEFINE new == [Idle EXCEPT !.op = op, !.at = "fetch", !.setting = setting, !.rule = rule]
  <2>2. /\ IsCall(new) /\ new.deleted = {} /\ new.failed = {} /\ new.flight = {}
        /\ new.revision = 0 /\ new.at = "fetch"
    BY IdleIsCall DEF IsCall, Fields
  <2> QED
    BY <1>1, <2>1, <2>2 DEF Ok
<1> QED
  BY <1>2, <1>3, <1>4, <1>5 DEF Ok

LEMMA QuietStep ==
    ASSUME IInv, NEW c \in Caller,
           \/ Abort(c) \/ FetchPage(c) \/ ThrowAborted(c) \/ Acquire(c) \/ EndDeleteMany(c)
           \/ FindMarker(c) \/ Refresh(c)
    PROVE  Quiet /\ \E new : Goto(c, new) /\ CallOk(new, versions, nextId, rules, revision)
<1> DEFINE my == call[c]
           Ok(new) == CallOk(new, versions, nextId, rules, revision)
<1>my. IsCall(my) /\ DeletedOk(my, versions, nextId) /\ EditOk(my, rules, revision) /\ revision \in Nat
  BY DEF IInv, CallsInv, CallOk
<1>1. ASSUME NEW new, IsCall(new), new.op = my.op, my.op # "addRuleIfRevisionIs",
             new.deleted = my.deleted,
             \/ my.op # "deleteMany"
             \/ new.failed = my.failed /\ new.todo = my.todo /\ new.flight = my.flight
             \/ \E id \in my.todo : /\ new.todo = my.todo \ {id}
                                    /\ \/ new.flight = my.flight \cup {id} /\ new.failed = my.failed
                                       \/ new.failed = my.failed \cup {id} /\ new.flight = my.flight
      PROVE  Ok(new)
  BY <1>my, <1>1 DEF CallOk, DeletedOk, EditOk
<1>2. CASE Abort(c)
  <2> DEFINE new == [my EXCEPT !.aborted = TRUE]
  <2>1. /\ IsCall(new) /\ new.op = my.op /\ new.deleted = my.deleted
        /\ new.failed = my.failed /\ new.todo = my.todo /\ new.flight = my.flight
    BY <1>my DEF IsCall, Fields
  <2>2. Goto(c, new) /\ Quiet /\ my.op # "addRuleIfRevisionIs"
    BY <1>2 DEF Abort, Quiet, Paginators
  <2> QED
    BY <1>1, <2>1, <2>2
<1>3. CASE FetchPage(c)
  <2> DEFINE Same(new) == IsCall(new) /\ new.op = my.op /\ new.deleted = my.deleted
  <2>1. ASSUME NEW cursor, NEW todo, NEW at
        PROVE  Same([my EXCEPT !.cursor = cursor, !.todo = todo, !.at = at])
    BY <1>my DEF IsCall, Fields
  <2>2. ASSUME NEW cursor, NEW seen, NEW at
        PROVE  Same([my EXCEPT !.cursor = cursor, !.seen = seen, !.at = at])
    BY <1>my DEF IsCall, Fields
  <2>3. my.op \notin {"deleteMany", "addRuleIfRevisionIs"} /\ Quiet
    BY <1>3 DEF FetchPage, Sweeps, Paginators, Quiet
  <2> HIDE DEF Same
  <2>4. \E new : Goto(c, new) /\ Same(new)
    <3> DEFINE page == Page(From(RowsOf(my), my.cursor), PageSize)
               next == NextOf(my, From(RowsOf(my), my.cursor))
               todo == {r.id : r \in page}
               seen == my.seen \cup {EntryOf(r) : r \in page}
    <3>1. CASE my.op = "deleteAll"
      <4>1. PICK at : Goto(c, [my EXCEPT !.cursor = next, !.todo = todo, !.at = at])
        BY <1>3, <3>1 DEF FetchPage
      <4> QED
        BY <2>1, <4>1
    <3>2. CASE my.op # "deleteAll"
      <4>1. PICK at : Goto(c, [my EXCEPT !.cursor = next, !.seen = seen, !.at = at])
        BY <1>3, <3>2 DEF FetchPage
      <4> QED
        BY <2>2, <4>1
    <3> QED
      BY <3>1, <3>2
  <2> QED
    BY <1>1, <2>3, <2>4 DEF Same
<1>4. CASE ThrowAborted(c)
  <2> DEFINE new == [my EXCEPT !.at = "thrown"]
  <2>1. IsCall(new) /\ new.op = my.op /\ new.deleted = my.deleted
    BY <1>my DEF IsCall, Fields
  <2>2. Goto(c, new) /\ Quiet /\ my.op \notin {"deleteMany", "addRuleIfRevisionIs"}
    BY <1>4 DEF ThrowAborted, Quiet, Paginators
  <2> QED
    BY <1>1, <2>1, <2>2
<1>5. CASE Acquire(c)
  <2>1. PICK id \in my.todo : Acquired(c, id)
    BY <1>5 DEF Acquire
  <2> DEFINE failed == [my EXCEPT !.todo = my.todo \ {id}, !.failed = my.failed \cup {id}]
             flying == [my EXCEPT !.todo = my.todo \ {id}, !.flight = my.flight \cup {id}]
  <2>2. /\ IsCall(failed) /\ failed.op = my.op /\ failed.deleted = my.deleted
        /\ failed.todo = my.todo \ {id} /\ failed.failed = my.failed \cup {id}
        /\ failed.flight = my.flight
    BY <1>my DEF IsCall, Fields
  <2>3. /\ IsCall(flying) /\ flying.op = my.op /\ flying.deleted = my.deleted
        /\ flying.todo = my.todo \ {id} /\ flying.failed = my.failed
        /\ flying.flight = my.flight \cup {id}
    BY <1>my DEF IsCall, Fields
  <2>4. Goto(c, failed) \/ Goto(c, flying)
    BY <2>1 DEF Acquired
  <2>5. Quiet /\ my.op # "addRuleIfRevisionIs"
    BY <1>5 DEF Acquire, Quiet
  <2> HIDE DEF failed, flying
  <2> QED
    BY <1>1, <2>2, <2>3, <2>4, <2>5
<1>6. CASE EndDeleteMany(c)
  <2> DEFINE new == [my EXCEPT !.at = "done"]
  <2>1. /\ IsCall(new) /\ new.op = my.op /\ new.deleted = my.deleted
        /\ new.failed = my.failed /\ new.todo = my.todo /\ new.flight = my.flight
    BY <1>my DEF IsCall, Fields
  <2>2. my.op = "deleteMany" /\ Quiet /\ my.todo \cup my.flight = {} /\ Goto(c, AfterDelete(my))
    BY <1>6 DEF EndDeleteMany, Quiet
  <2>3. AfterDelete(my) = new
    BY <2>2 DEF AfterDelete
  <2> QED
    BY <1>1, <2>1, <2>2, <2>3
<1>7. CASE FindMarker(c)
  <2>1. PICK at, todo : Goto(c, [my EXCEPT !.at = at, !.todo = todo])
    BY <1>7 DEF FindMarker
  <2> DEFINE new == [my EXCEPT !.at = at, !.todo = todo]
  <2>2. IsCall(new) /\ new.op = my.op /\ new.deleted = my.deleted
    BY <1>my DEF IsCall, Fields
  <2>3. my.op \notin {"deleteMany", "addRuleIfRevisionIs"} /\ Quiet
    BY <1>7 DEF FindMarker, Quiet
  <2> QED
    BY <1>1, <2>1, <2>2, <2>3
<1>8. CASE Refresh(c)
  <2> DEFINE new == [my EXCEPT !.at = "write", !.read = rules[my.setting], !.revision = revision]
  <2>1. /\ IsCall(new) /\ new.op = my.op /\ new.deleted = my.deleted /\ new.at = "write"
        /\ new.read = rules[my.setting] /\ new.revision = revision /\ new.setting = my.setting
    BY <1>my DEF IsCall, Fields
  <2>2. Goto(c, new) /\ Quiet /\ my.op \in Edits
    BY <1>8 DEF Refresh, Quiet
  <2> HIDE DEF new
  <2>3. Ok(new)
    BY <1>my, <2>1, <2>2 DEF CallOk, DeletedOk, EditOk, Edits
  <2> QED
    BY <2>2, <2>3
<1> QED
  BY <1>2, <1>3, <1>4, <1>5, <1>6, <1>7, <1>8

\* A deletion that is answered: the version is gone, and counted once.
LEMMA DeleteStep ==
    ASSUME IInv, NEW c \in Caller, Delete(c)
    PROVE  /\ FilesTypeOK' /\ VersionsInv' /\ Keeps /\ Grows /\ UNCHANGED settingVars
           /\ \E new : Goto(c, new) /\ CallOk(new, versions', nextId', rules', revision')
<1> DEFINE my == call[c]
<1>1. PICK id \in Sent(c) :
         /\ IF DeleteOk(id, FALSE) THEN DeleteFileVersion(id, FALSE) ELSE UNCHANGED serverVars
         /\ Goto(c, AfterDelete(Tally(my, id, DeleteOk(id, FALSE))))
  BY DEF Delete
<1> DEFINE ok == DeleteOk(id, FALSE)
<1>2. UNCHANGED settingVars /\ plan' = plan
  BY DEF Delete
<1>3. /\ FilesTypeOK' /\ VersionsInv' /\ Keeps /\ Grows
      /\ ok => id \in Ids(versions) /\ id \notin Ids(versions')
  <2>1. CASE ok
    BY <1>1, <1>2, <2>1, DeleteEffect DEF IInv
  <2>2. CASE ~ok
    <3>1. Quiet
      BY <1>1, <1>2, <2>2 DEF Quiet
    <3> QED
      BY <2>2, <3>1, QuietEffect DEF IInv
  <2> QED
    BY <2>1, <2>2
<1>4. CallOk(my, versions, nextId, rules, revision) /\ revision \in Nat
  BY DEF IInv, CallsInv
<1>5. CallOk(my, versions', nextId', rules', revision')
  BY <1>2, <1>3, <1>4, CallFrame DEF IInv
<1>6. ok => id \in 1..nextId' - 1
  BY <1>3, BoundsAssumption DEF IInv, FilesTypeOK, VersionsInv, Ids, Version, Grows
<1>7. /\ my.op # "addRuleIfRevisionIs"
      /\ my.op = "deleteMany" => id \in my.flight
  BY <1>1, <1>4 DEF Sent, CallOk, EditOk
<1> DEFINE tally == Tally(my, id, ok)
<1> HIDE DEF ok
<1>8. /\ IsCall(tally) /\ tally.op = my.op
      /\ tally.todo = my.todo \ {id} /\ tally.flight = my.flight \ {id}
      /\ tally.deleted = IF ok THEN my.deleted \cup {id} ELSE my.deleted
      /\ tally.failed = IF ok THEN my.failed ELSE my.failed \cup {id}
  BY <1>4 DEF Tally, CallOk, IsCall, Fields
<1> HIDE DEF tally
<1>9. PICK at : AfterDelete(tally) = tally \/ AfterDelete(tally) = [tally EXCEPT !.at = at]
  BY DEF AfterDelete
<1> DEFINE new == AfterDelete(tally)
<1>10. /\ IsCall(new) /\ new.op = tally.op /\ new.todo = tally.todo /\ new.flight = tally.flight
       /\ new.deleted = tally.deleted /\ new.failed = tally.failed
  BY <1>8, <1>9 DEF IsCall, Fields
<1> HIDE DEF new
<1>11. DeletedOk(new, versions', nextId')
  <2>1. new.deleted \cap Ids(versions') = {} /\ new.deleted \subseteq 1..nextId' - 1
    BY <1>3, <1>5, <1>6, <1>8, <1>10 DEF CallOk, DeletedOk
  <2>2. ASSUME new.op = "deleteMany"
        PROVE  /\ new.todo \cap new.flight = {} /\ new.deleted \cap new.failed = {}
               /\ (new.todo \cup new.flight) \cap (new.deleted \cup new.failed) = {}
    BY <1>5, <1>7, <1>8, <1>10, <2>2 DEF CallOk, DeletedOk
  <2> QED
    BY <2>1, <2>2 DEF DeletedOk
<1>12. CallOk(new, versions', nextId', rules', revision')
  BY <1>7, <1>8, <1>10, <1>11 DEF CallOk, EditOk
<1> QED
  BY <1>1, <1>2, <1>3, <1>12 DEF new, tally, ok

\* A write that is answered.
LEMMA UpdateStep ==
    ASSUME IInv, NEW c \in Caller, Update(c)
    PROVE  /\ UNCHANGED serverVars /\ plan' = plan
           /\ UNCHANGED settingVars \/ revision' = revision + 1
           /\ \E new : Goto(c, new) /\ CallOk(new, versions, nextId, rules', revision')
<1> DEFINE my == call[c]
           done == [my EXCEPT !.at = "done", !.replaced = rules[my.setting]]
           thrown == [my EXCEPT !.at = "thrown"]
<1>1. /\ UNCHANGED serverVars /\ plan' = plan /\ my.at = "write"
      /\ \/ UpdateBucket(my) /\ RevisionOk(my) /\ Goto(c, done)
         \/ UNCHANGED settingVars /\ Goto(c, thrown)
  BY DEF Update
<1>2. CallOk(my, versions, nextId, rules, revision) /\ revision \in Nat
  BY DEF IInv, CallsInv
<1>3. /\ IsCall(done) /\ done.op = my.op /\ done.at = "done" /\ done.replaced = rules[my.setting]
      /\ done.read = my.read /\ done.revision = my.revision /\ done.deleted = my.deleted
      /\ done.todo = my.todo /\ done.flight = my.flight /\ done.failed = my.failed
  BY <1>2 DEF CallOk, IsCall, Fields
<1>4. /\ IsCall(thrown) /\ thrown.op = my.op /\ thrown.at = "thrown"
      /\ thrown.revision = my.revision /\ thrown.deleted = my.deleted
      /\ thrown.todo = my.todo /\ thrown.flight = my.flight /\ thrown.failed = my.failed
  BY <1>2 DEF CallOk, IsCall, Fields
<1> HIDE DEF done, thrown
<1>5. ASSUME UpdateBucket(my), RevisionOk(my)
      PROVE  revision' = revision + 1 /\ CallOk(done, versions, nextId, rules', revision')
  <2>1. revision' = revision + 1
    BY <1>5 DEF UpdateBucket, NextRevision
  <2>2. EditOk(done, rules', revision')
    BY <1>1, <1>2, <1>3, <1>5, <2>1 DEF CallOk, EditOk, RevisionOk
  <2> QED
    BY <1>2, <1>3, <2>1, <2>2 DEF CallOk, DeletedOk
<1>6. ASSUME UNCHANGED settingVars PROVE CallOk(thrown, versions, nextId, rules', revision')
  BY <1>2, <1>4, <1>6 DEF CallOk, EditOk, DeletedOk, settingVars
<1> QED
  BY <1>1, <1>5, <1>6

-----------------------------------------------------------------------------
(* The theorems.                                                           *)

LEMMA InitIInv == Init => IInv
<1> SUFFICES ASSUME Init PROVE IInv
  OBVIOUS
<1> DEFINE n == Len(plan.prior)
           old(i) == [id |-> i, name |-> plan.prior[i].name, action |-> plan.prior[i].action,
                      stamp |-> i, hold |-> FALSE, retention |-> NoRetention]
<1>1. /\ plan \in Plan /\ n \in 0..MaxId /\ MaxId \in Nat /\ MaxTime \in Nat
      /\ plan.prior \in [1..n -> [name : FileName, action : {"upload", "hide"}]]
  BY PlanAssumption, BoundsAssumption DEF Init
<1>2. versions = {old(i) : i \in 1..n} /\ nextId = n + 1 /\ lastTimestamp = n /\ now = 0
  BY <1>1 DEF Init
<1>3. \A i \in 1..n : old(i) \in Version /\ old(i).id = i /\ old(i).stamp = i
  BY <1>1 DEF Version, Retention
<1> HIDE DEF n, old
<1>4. FilesTypeOK
  BY <1>1, <1>2, <1>3 DEF FilesTypeOK
<1>5. VersionsInv
  BY <1>1, <1>2, <1>3 DEF VersionsInv
<1>6. CallsInv
  <2>1. CallOk(Idle, versions, nextId, rules, revision)
    BY IdleIsCall DEF CallOk, DeletedOk, EditOk, Idle
  <2> QED
    BY <2>1 DEF Init, CallsInv
<1> QED
  BY <1>4, <1>5, <1>6 DEF IInv

\* A step keeps IInv, and what is locked.
LEMMA NextStep == ASSUME IInv, [Next]_vars PROVE IInv' /\ Keeps
<1> DEFINE Goal == IInv' /\ Keeps
<1>1. ASSUME FilesTypeOK', VersionsInv', Keeps, Grows, call' = call,
             UNCHANGED settingVars \/ revision' = revision + 1
      PROVE  Goal
  <2>1. \A c \in Caller : CallOk(call[c], versions', nextId', rules', revision') /\ revision' \in Nat
    BY <1>1, CallFrame DEF IInv, CallsInv
  <2>2. revision' \in Nat
    BY <1>1 DEF IInv, CallsInv, settingVars
  <2>3. CallsInv'
    BY <1>1, <2>1, <2>2 DEF IInv, CallsInv
  <2> QED
    BY <1>1, <2>3 DEF IInv
<1>2. ASSUME FilesTypeOK', VersionsInv', Keeps, Grows,
             UNCHANGED settingVars \/ revision' = revision + 1, NEW c \in Caller,
             NEW new, Goto(c, new), CallOk(new, versions', nextId', rules', revision')
      PROVE  Goal
  BY <1>2, GotoEffect DEF IInv
<1>3. CASE Other
  BY <1>1, <1>3, OtherEffect DEF IInv, Other
<1>4. ASSUME NEW c \in Caller,
             \/ BeginSweep(c) \/ BeginDeleteMany(c) \/ BeginUnhide(c) \/ BeginEdit(c) \/ Abort(c)
             \/ FetchPage(c) \/ ThrowAborted(c) \/ Acquire(c) \/ EndDeleteMany(c)
             \/ FindMarker(c) \/ Refresh(c)
      PROVE  Goal
  <2>1. Quiet /\ \E new : Goto(c, new) /\ CallOk(new, versions, nextId, rules, revision)
    BY <1>4, BeginStep, QuietStep
  <2>2. FilesTypeOK' /\ VersionsInv' /\ Keeps /\ Grows
    BY <2>1, QuietEffect DEF IInv
  <2>3. UNCHANGED <<versions, nextId, rules, revision>>
    BY <2>1 DEF Quiet, serverVars, settingVars
  <2> QED
    BY <1>2, <2>1, <2>2, <2>3 DEF settingVars
<1>5. ASSUME NEW c \in Caller, Delete(c) PROVE Goal
  BY <1>2, <1>5, DeleteStep
<1>6. ASSUME NEW c \in Caller, DeleteUnanswered(c) PROVE Goal
  <2>1. call' = call /\ UNCHANGED settingVars /\ plan' = plan
    BY <1>6 DEF DeleteUnanswered
  <2>2. PICK id : DeleteFileVersion(id, FALSE)
    BY <1>6 DEF DeleteUnanswered
  <2> QED
    BY <1>1, <2>1, <2>2, DeleteEffect DEF IInv
<1>7. ASSUME NEW c \in Caller, Update(c) PROVE Goal
  <2>1. /\ UNCHANGED <<versions, nextId, lastTimestamp, now, plan>>
        /\ UNCHANGED settingVars \/ revision' = revision + 1
    BY <1>7, UpdateStep DEF serverVars
  <2>2. FilesTypeOK' /\ VersionsInv' /\ Keeps /\ Grows
    BY <2>1, KeepsAll DEF IInv, FilesTypeOK, VersionsInv, Grows
  <2>3. PICK new : Goto(c, new) /\ CallOk(new, versions, nextId, rules', revision')
    BY <1>7, UpdateStep
  <2> QED
    BY <1>2, <2>1, <2>2, <2>3
<1>8. ASSUME NEW c \in Caller, UpdateUnanswered(c) PROVE Goal
  <2>1. /\ UNCHANGED <<versions, nextId, lastTimestamp, now, plan>> /\ call' = call
        /\ revision' = revision + 1
    BY <1>8 DEF UpdateUnanswered, UpdateBucket, NextRevision, serverVars
  <2>2. FilesTypeOK' /\ VersionsInv' /\ Keeps /\ Grows
    BY <2>1, KeepsAll DEF IInv, FilesTypeOK, VersionsInv, Grows
  <2> QED
    BY <1>1, <2>1, <2>2
<1>9. CASE UNCHANGED vars
  <2>1. Quiet /\ call' = call
    BY <1>9 DEF vars, Quiet, settingVars
  <2> QED
    BY <1>1, <2>1, QuietEffect DEF IInv, Quiet
<1> HIDE DEF Goal
<1> QED
  BY <1>3, <1>4, <1>5, <1>6, <1>7, <1>8, <1>9 DEF Next, Step, Goal

\* IInv is an invariant of the calls.
THEOREM Invariance == Spec => []IInv
<1>1. IInv /\ [Next]_vars => IInv'
  BY NextStep
<1> QED
  BY InitIInv, <1>1, PTL DEF Spec

\* A version under a legal hold or under compliance outlives every sequence of retention
\* updates, bypasses and deletions, those of deleteAll and deleteMany included
\* (deleteFileVersion, updateFileRetention of the simulator).
THEOREM Locked == Spec => LockedStays
<1>1. IInv /\ [Next]_vars =>
        \A v \in versions :
           v.hold \/ Active(v.retention, "compliance") =>
             \E w \in versions' :
                 /\ w.id = v.id
                 /\ Active(v.retention, "compliance") =>
                        w.retention.mode = "compliance" /\ w.retention.until >= v.retention.until
  BY NextStep DEF Keeps
<1> QED
  BY <1>1, Invariance, PTL DEF Spec, LockedStays

\* What deleteMany, deleteAll or unhideFile reports as deleted never exists again, and
\* deleteMany reports each target once (bucket.ts deleteMany, deleteAll).
THEOREM Deleted == Spec => []DeletedIsGone
<1>1. ASSUME IInv PROVE DeletedIsGone
  BY <1>1 DEF IInv, CallsInv, CallOk, DeletedOk, DeletedIsGone
<1> QED
  BY <1>1, Invariance, PTL

\* ifRevisionIs makes a read and a write one step: the settings replaced are those that
\* were read, even when the answer of a write is lost (updateBucket).
THEOREM GuardedUpdate == Spec => []GuardedUpdateIsCurrent
<1>1. ASSUME IInv PROVE GuardedUpdateIsCurrent
  BY <1>1 DEF IInv, CallsInv, CallOk, EditOk, GuardedUpdateIsCurrent
<1> QED
  BY <1>1, Invariance, PTL

\* Every answer of deleteMany, deleteAll, unhideFile and a guarded update is what happened.
THEOREM Answers == Spec => []AnswersAreTrue
<1> QED
  BY Deleted, GuardedUpdate, PTL DEF AnswersAreTrue

\* The first version listed for a name is the one a download gets, unless the account
\* chooses its timestamps; unhideFile relies on it (monotonicTimestamp).
THEOREM First == Spec => []FirstIsLatest
<1>1. ASSUME IInv PROVE FirstIsLatest
  <2> SUFFICES ASSUME ~plan.custom, NEW v \in versions, NEW x \in versions, v.name = x.name,
                      v \in Latest(versions), v # x
               PROVE  Precedes(v, x)
    BY DEF FirstIsLatest
  <2>1. x.id <= v.id /\ x.id # v.id /\ x.id \in Nat /\ v.id \in Nat
    BY <1>1 DEF Latest, IInv, VersionsInv, FilesTypeOK, Version
  <2>2. x.id < v.id
    BY <2>1
  <2>3. x.stamp < v.stamp /\ x.stamp \in Nat /\ v.stamp \in Nat
    BY <1>1, <2>2 DEF IInv, VersionsInv, FilesTypeOK, Version
  <2> QED
    BY <2>3 DEF Precedes
<1> QED
  BY <1>1, Invariance, PTL

-----------------------------------------------------------------------------
(* Listings.  A page is the first of the rows that are to come, and the     *)
(* cursor after it is before all the others, whatever comes or goes.        *)

RowType == [name : Nat, id : Nat, stamp : Nat]

\* The rows a row comes after.
Before(r, rows) == {q \in rows : Precedes(q, r)}

\* Rows are in one order.
LEMMA RowOrder ==
    /\ \A p, q, r \in RowType : Precedes(p, q) /\ Precedes(q, r) => Precedes(p, r)
    /\ \A q, r \in RowType : q = r \/ Precedes(q, r) \/ Precedes(r, q)
    /\ \A r \in RowType : ~ Precedes(r, r)
<1>1. \A p, q, r \in RowType : Precedes(p, q) /\ Precedes(q, r) => Precedes(p, r)
  BY DEF Precedes, RowType
<1>2. ASSUME NEW q \in RowType, NEW r \in RowType, ~ Precedes(q, r), ~ Precedes(r, q) PROVE q = r
  <2>1. q.name = r.name /\ q.id = r.id /\ q.stamp = r.stamp
    BY <1>2 DEF Precedes, RowType
  <2> QED
    BY <2>1 DEF RowType
<1>3. \A r \in RowType : ~ Precedes(r, r)
  BY DEF Precedes, RowType
<1> QED
  BY <1>1, <1>2, <1>3

\* Some row of a finite set comes first.
LEMMA LeastRow ==
    ASSUME NEW rows, IsFiniteSet(rows), rows # {}, rows \subseteq RowType
    PROVE  \E least \in rows : \A q \in rows : q = least \/ Precedes(least, q)
<1>1. PICK T : T = {Before(r, rows) : r \in rows}
  OBVIOUS
<1>2. T # {} /\ \A D \in T : D \subseteq rows
  BY <1>1 DEF Before
<1>3. T \subseteq FiniteSubsetsOf(rows)
  BY <1>2, FS_FiniteSubsetsOfFinite
<1>4. PICK D \in T : \A E \in T : <<E, D>> \notin StrictSubsetOrdering(rows)
  BY <1>2, <1>3, WFMin, FS_StrictSubsetOrderingWellFounded
<1>5. PICK least \in rows : D = Before(least, rows)
  BY <1>1
<1>6. ASSUME NEW r \in rows, Precedes(r, least) PROVE FALSE
  <2>1. PICK E : E = Before(r, rows)
    OBVIOUS
  <2>2. \A q \in rows : Precedes(q, r) => Precedes(q, least)
    BY <1>6, RowOrder
  <2>3. ~ Precedes(r, r)
    BY RowOrder
  <2>4. r \in D /\ r \notin E /\ E \subseteq D
    BY <1>5, <1>6, <2>1, <2>2, <2>3 DEF Before
  <2>5. E \in T
    BY <1>1, <2>1
  <2>6. <<E, D>> \in StrictSubsetOrdering(rows)
    BY <1>2, <2>4, <2>5 DEF StrictSubsetOrdering
  <2> QED
    BY <1>4, <2>5, <2>6
<1> QED
  BY <1>6, RowOrder

\* A page has the first row, if there is one.
LEMMA PageHasLeast ==
    ASSUME NEW rows, IsFiniteSet(rows), rows # {}, rows \subseteq RowType
    PROVE  \E least \in Page(rows, PageSize) : \A q \in rows : q = least \/ Precedes(least, q)
<1>1. PICK least \in rows : \A q \in rows : q = least \/ Precedes(least, q)
  BY LeastRow
<1>2. \A q \in rows : ~ Precedes(q, least)
  <2> SUFFICES ASSUME NEW q \in rows, Precedes(q, least) PROVE FALSE
    OBVIOUS
  <2>1. q = least \/ Precedes(least, q)
    BY <1>1
  <2>2. Precedes(least, least)
    BY <2>1, RowOrder
  <2> QED
    BY <2>2, RowOrder
<1>3. {q \in rows : Precedes(q, least)} = {}
  BY <1>2
<1>4. Cardinality({q \in rows : Precedes(q, least)}) < PageSize
  BY <1>3, FS_EmptySet, LimitsAssumption
<1>5. least \in Page(rows, PageSize)
  BY <1>4 DEF Page
<1> QED
  BY <1>1, <1>5

\* The cursor after a page is that of the first of the others.
LEMMA CursorOfRest ==
    ASSUME NEW rows, IsFiniteSet(rows), rows \subseteq RowType, rows \ Page(rows, PageSize) # {}
    PROVE  \E first \in rows \ Page(rows, PageSize) :
               /\ NextCursor(rows, PageSize) = [name |-> first.name, id |-> first.id]
               /\ \A q \in rows \ Page(rows, PageSize) : q = first \/ Precedes(first, q)
<1>1. PICK rest : rest = rows \ Page(rows, PageSize)
  OBVIOUS
<1>2. IsFiniteSet(rest) /\ rest \subseteq RowType /\ rest # {}
  BY <1>1, FS_Subset
<1>3. PICK least \in rest : \A q \in rest : q = least \/ Precedes(least, q)
  BY <1>2, LeastRow
<1>4. PICK first : first = CHOOSE r \in rest : \A q \in rest : q = r \/ Precedes(r, q)
  OBVIOUS
<1>5. first \in rest /\ \A q \in rest : q = first \/ Precedes(first, q)
  BY <1>3, <1>4
<1>6. NextCursor(rows, PageSize) = [name |-> first.name, id |-> first.id]
  BY <1>1, <1>2, <1>4 DEF NextCursor
<1> QED
  BY <1>1, <1>5, <1>6

\* What comes after a row is to come from its cursor on.
LEMMA FromCursor ==
    ASSUME NEW rows, rows \subseteq RowType, \A q, r \in rows : q.id = r.id /\ q.id # 0 => q = r,
           NEW first \in rows, NEW q \in rows, q = first \/ Precedes(first, q)
    PROVE  q \in From(rows, [name |-> first.name, id |-> first.id])
<1>1. first.name \in Nat /\ q.name \in Nat
  BY DEF RowType
<1>2. first.name <= q.name
  BY <1>1 DEF Precedes
<1>3. PICK exact : exact = {r \in rows : r.name >= first.name /\ first.id # 0 /\ r.id = first.id}
  OBVIOUS
<1>4. CASE first.id = 0
  BY <1>2, <1>4 DEF From
<1>5. CASE first.id # 0
  <2>1. first \in exact
    BY <1>1, <1>3, <1>5
  <2> QED
    BY <1>3, <2>1 DEF From
<1> QED
  BY <1>4, <1>5

\* Where a name is listed: under itself or its folder.
Listed(n, delimited) == IF delimited /\ FolderOf[n] # 0 THEN FolderOf[n] ELSE n

\* The cursor is no version that is yet to be made.
CursorOk(my, next) ==
    /\ my.delimited \in BOOLEAN
    /\ my.cursor = [name |-> my.cursor.name, id |-> my.cursor.id]
    /\ my.cursor.name \in Nat /\ my.cursor.id \in Nat /\ my.cursor.id < next

\* A version is listed from the cursor on.
ComesLater(my, vs, v) == Row(v, my.delimited) \in From(Rows(vs, my.delimited), my.cursor)

\* The versions that stay were told, or come later.
VersionsTold(my, vs, ids) ==
    my.op = "paginateFileVersions" =>
        /\ my.at # "delete"
        /\ my.at \in {"fetch", "done"} =>
              \A v \in vs : v.id \in ids =>
                  EntryOf(Row(v, my.delimited)) \in my.seen \/ (my.at = "fetch" /\ ComesLater(my, vs, v))

\* So were the names.
NamesTold(my, names) ==
    my.op = "paginateFileNames" =>
        /\ my.cursor.id = 0 /\ my.at # "delete"
        /\ my.at \in {"fetch", "done"} =>
              \A n \in names :
                  \/ \E e \in my.seen : e.name = Listed(n, my.delimited)
                  \/ my.at = "fetch" /\ my.cursor.name <= Listed(n, my.delimited)

\* deleteAll has failed to delete what stays, is about to try, or will be told of it.
AllTried(my, vs, ids) ==
    my.op = "deleteAll" =>
        /\ my.delimited = FALSE /\ my.at \in {"fetch", "delete", "done"}
        /\ \A v \in vs : v.id \in ids =>
              \/ v.id \in my.failed
              \/ my.at = "delete" /\ v.id \in my.todo
              \/ (my.at = "fetch" \/ (my.at = "delete" /\ my.cursor # NoCursor)) /\ ComesLater(my, vs, v)

Listing(my, vs, next, ids, names) ==
    CursorOk(my, next) /\ VersionsTold(my, vs, ids) /\ NamesTold(my, names) /\ AllTried(my, vs, ids)

\* What stays during a call is there.
HistoryInv ==
    /\ kept = [c \in Caller |-> kept[c]] /\ shown = [c \in Caller |-> shown[c]]
    /\ \A c \in Caller : kept[c] \subseteq Ids(versions) /\ shown[c] \subseteq Names(Visible(versions))

\* The invariant of the listings.
ListingInv == HistoryInv /\ \A c \in Caller : Listing(call[c], versions, nextId, kept[c], shown[c])

\* The rows of versions.
LEMMA RowShape ==
    ASSUME NEW vs, vs \subseteq Version, \A v, x \in vs : v.id = x.id => v = x, NEW d \in BOOLEAN
    PROVE  /\ IsFiniteSet(Rows(vs, d)) /\ Rows(vs, d) \subseteq RowType
           /\ \A q, r \in Rows(vs, d) : q.id = r.id /\ q.id # 0 => q = r
           /\ \A r \in Rows(vs, d) : r.name # 0 /\ (r.id = 0 \/ r.id \in Ids(vs))
           /\ \A v \in vs : Row(v, d) \in Rows(vs, d) /\ Row(v, d).name = Listed(v.name, d)
<1>1. \A v \in Version : v.id \in 1..MaxId /\ v.id \in Nat \ {0} /\ v.stamp \in Nat /\ v.name \in FileName
  BY BoundsAssumption DEF Version
<1>2. \A n \in FileName : n \in Nat \ {0} /\ FolderOf[n] \in Nat
  BY NamesAssumption
<1>3. ASSUME NEW v \in vs
      PROVE  /\ Row(v, d) \in RowType /\ Row(v, d).name = Listed(v.name, d)
             /\ Row(v, d).id # 0 => Row(v, d) = [name |-> v.name, id |-> v.id, stamp |-> v.stamp]
             /\ Row(v, d).name # 0
  BY <1>1, <1>2, <1>3 DEF Row, RowType, Listed
<1>4. IsFiniteSet(vs)
  <2>1. PICK f : f = [v \in vs |-> v.id]
    OBVIOUS
  <2>2. f \in Injection(vs, 1..MaxId)
    BY <1>1, <2>1 DEF Injection, IsInjective
  <2> QED
    BY <2>2, FS_Interval, FS_Injection, BoundsAssumption
<1>5. IsFiniteSet(Rows(vs, d))
  <2>1. PICK f : f = [v \in vs |-> Row(v, d)]
    OBVIOUS
  <2>2. PICK rows : rows = Rows(vs, d)
    OBVIOUS
  <2>3. \A v \in vs : f[v] \in rows
    BY <2>1, <2>2 DEF Rows
  <2>4. \A r \in rows : \E v \in vs : f[v] = r
    BY <2>1, <2>2 DEF Rows
  <2>5. f \in Surjection(vs, rows)
    BY <2>1, <2>3, <2>4 DEF Surjection
  <2> QED
    BY <1>4, <2>2, <2>5, FS_Surjection
<1>6. \A q, r \in Rows(vs, d) : q.id = r.id /\ q.id # 0 => q = r
  BY <1>3 DEF Rows
<1>7. Rows(vs, d) \subseteq RowType
  BY <1>3 DEF Rows
<1>8. \A r \in Rows(vs, d) : r.name # 0 /\ (r.id = 0 \/ r.id \in Ids(vs))
  BY <1>3 DEF Rows, Ids
<1> QED
  BY <1>3, <1>5, <1>6, <1>7, <1>8 DEF Rows

\* A version that is there has been, or is new.
Survive ==
    \A w \in versions' :
        w.id = nextId \/ \E v \in versions : v.id = w.id /\ v.name = w.name /\ v.stamp = w.stamp

\* What was to be listed from the cursor on still is, whatever came or went.
LEMMA StillLater ==
    ASSUME FilesTypeOK, VersionsInv, FilesTypeOK', VersionsInv', Survive,
           NEW my, CursorOk(my, nextId), NEW v \in versions, NEW w \in versions',
           v.id = w.id, v.name = w.name, v.stamp = w.stamp, ComesLater(my, versions, v)
    PROVE  ComesLater(my, versions', w)
<1> DEFINE d == my.delimited
<1>1. d \in BOOLEAN /\ my.cursor.name \in Nat /\ my.cursor.id \in Nat /\ my.cursor.id < nextId
  BY DEF CursorOk
<1>2. PICK row : row = Row(v, d)
  OBVIOUS
<1>3. row = Row(w, d)
  BY <1>2 DEF Row
<1>4. PICK old : old = Rows(versions, d)
  OBVIOUS
<1>5. PICK new : new = Rows(versions', d)
  OBVIOUS
<1>6. old \subseteq RowType /\ row \in old /\ \A q, r \in old : q.id = r.id /\ q.id # 0 => q = r
  BY <1>1, <1>2, <1>4, RowShape DEF FilesTypeOK, VersionsInv
<1>7. new \subseteq RowType /\ row \in new
  BY <1>1, <1>3, <1>5, RowShape DEF FilesTypeOK, VersionsInv
<1>8. ASSUME NEW e \in new, e.id # 0, e.id # nextId PROVE e \in old
  <2>1. PICK x \in versions' : e = Row(x, d)
    BY <1>5 DEF Rows
  <2>2. e.id = x.id
    BY <1>8, <2>1 DEF Row
  <2>3. PICK y \in versions : y.id = x.id /\ y.name = x.name /\ y.stamp = x.stamp
    BY <1>8, <2>2 DEF Survive
  <2>4. e = Row(y, d)
    BY <2>1, <2>3 DEF Row
  <2> QED
    BY <1>4, <2>4 DEF Rows
<1> DEFINE cursor == my.cursor
           Exact(rows) == {r \in rows : r.name >= cursor.name /\ cursor.id # 0 /\ r.id = cursor.id}
<1>9. row \in From(old, cursor)
  BY <1>2, <1>4 DEF ComesLater
<1>10. row.name >= cursor.name
  <2>1. CASE Exact(old) = {}
    BY <1>9, <2>1 DEF From
  <2>2. CASE Exact(old) # {}
    <3>1. PICK e \in Exact(old) : row = e \/ Precedes(e, row)
      BY <1>9, <2>2 DEF From
    <3>2. e.name >= cursor.name /\ e.name \in Nat /\ row.name \in Nat
      BY <1>6, <3>1 DEF RowType
    <3> QED
      BY <1>1, <3>1, <3>2 DEF Precedes
  <2> QED
    BY <2>1, <2>2
<1>11. row \in From(new, cursor)
  <2>1. CASE Exact(new) = {}
    BY <1>7, <1>10, <2>1 DEF From
  <2>2. CASE Exact(new) # {}
    <3>1. PICK e \in Exact(new) : TRUE
      BY <2>2
    <3>2. e \in new /\ e.id = cursor.id /\ e.id # 0 /\ e.name >= cursor.name
      BY <3>1
    <3>3. e.id # nextId
      BY <1>1, <3>2 DEF FilesTypeOK
    <3>4. e \in old
      BY <1>8, <3>2, <3>3
    <3>5. e \in Exact(old) /\ \A q \in Exact(old) : q = e
      BY <1>6, <3>2, <3>4
    <3>6. row = e \/ Precedes(e, row)
      BY <1>9, <3>5 DEF From
    <3> QED
      BY <1>7, <2>2, <3>1, <3>6 DEF From
  <2> QED
    BY <2>1, <2>2
<1> QED
  BY <1>3, <1>5, <1>11 DEF ComesLater

\* So a listing stays true.
LEMMA ListingFrame ==
    ASSUME FilesTypeOK, VersionsInv, FilesTypeOK', VersionsInv', Survive, nextId <= nextId',
           NEW my, NEW ids, NEW names, Listing(my, versions, nextId, ids, names), ids \subseteq Ids(versions),
           NEW stay, stay \subseteq ids, NEW visible, visible \subseteq names
    PROVE  Listing(my, versions', nextId', stay, visible)
<1>1. nextId \in Nat /\ nextId' \in Nat
  BY BoundsAssumption DEF FilesTypeOK
<1>2. CursorOk(my, nextId')
  BY <1>1 DEF Listing, CursorOk
<1>3. ASSUME NEW w \in versions', w.id \in stay
      PROVE  \E v \in versions : /\ v.id = w.id /\ v.name = w.name /\ v.stamp = w.stamp /\ v.id \in ids
                                 /\ Row(v, my.delimited) = Row(w, my.delimited)
                                 /\ ComesLater(my, versions, v) => ComesLater(my, versions', w)
  <2>1. w.id # nextId
    BY <1>1, <1>3 DEF VersionsInv, Ids, FilesTypeOK, Version
  <2>2. PICK v \in versions : v.id = w.id /\ v.name = w.name /\ v.stamp = w.stamp
    BY <2>1 DEF Survive
  <2>3. Row(v, my.delimited) = Row(w, my.delimited)
    BY <2>2 DEF Row
  <2>4. ComesLater(my, versions, v) => ComesLater(my, versions', w)
    BY <2>2, StillLater DEF Listing
  <2> QED
    BY <1>3, <2>2, <2>3, <2>4
<1> HIDE DEF Listing
<1>4. VersionsTold(my, versions', stay)
  BY <1>3 DEF Listing, VersionsTold
<1>5. AllTried(my, versions', stay)
  BY <1>3 DEF Listing, AllTried
<1>6. NamesTold(my, visible)
  BY DEF Listing, NamesTold
<1> QED
  BY <1>2, <1>4, <1>5, <1>6 DEF Listing

\* Who does not list is only to have a cursor.
LEMMA NoSweep ==
    ASSUME NEW my, NEW vs, NEW next, NEW ids, NEW names, my.op \notin Sweeps, CursorOk(my, next)
    PROVE  Listing(my, vs, next, ids, names)
BY DEF Listing, VersionsTold, NamesTold, AllTried, Sweeps, Paginators

LEMMA NoCursorOk ==
    ASSUME NEW my, my.delimited \in BOOLEAN, my.cursor = NoCursor, NEW next \in Nat, 0 < next
    PROVE  CursorOk(my, next)
<1>1. NoCursor = [name |-> NoCursor.name, id |-> NoCursor.id] /\ NoCursor.name = 0 /\ NoCursor.id = 0
  BY DEF NoCursor
<1> QED
  BY <1>1 DEF CursorOk

\* A call begins before the first row.
LEMMA AllLater ==
    ASSUME FilesTypeOK, VersionsInv, NEW my, my.delimited \in BOOLEAN, my.cursor = NoCursor, NEW v \in versions
    PROVE  ComesLater(my, versions, v)
<1>1. PICK rows : rows = Rows(versions, my.delimited)
  OBVIOUS
<1>2. PICK row : row = Row(v, my.delimited)
  OBVIOUS
<1>3. rows \subseteq RowType /\ row \in rows
  BY <1>1, <1>2, RowShape DEF FilesTypeOK, VersionsInv
<1>4. row \in {r \in rows : r.name >= 0}
  BY <1>3 DEF RowType
<1>5. From(rows, NoCursor) = {r \in rows : r.name >= 0}
  BY DEF From, NoCursor
<1> QED
  BY <1>1, <1>2, <1>4, <1>5 DEF ComesLater

LEMMA ListedType == \A n \in FileName, d \in BOOLEAN : Listed(n, d) \in Nat
<1>1. \A n \in FileName : n \in Nat /\ FolderOf[n] \in Nat
  BY NamesAssumption
<1> QED
  BY <1>1 DEF Listed

LEMMA SweepBegins ==
    ASSUME FilesTypeOK, VersionsInv, NEW op \in Sweeps, NEW delimited \in BOOLEAN,
           op = "deleteAll" => delimited = FALSE,
           NEW my, my.op = op, my.at = "fetch", my.delimited = delimited, my.cursor = NoCursor, NEW ids,
           NEW names, names \subseteq FileName
    PROVE  Listing(my, versions, nextId, ids, names)
<1>1. CursorOk(my, nextId)
  BY NoCursorOk, BoundsAssumption DEF FilesTypeOK
<1>2. \A v \in versions : ComesLater(my, versions, v)
  BY AllLater
<1>3. \A n \in names : my.cursor.name <= Listed(n, my.delimited)
  <2>1. my.cursor.name = 0
    BY DEF NoCursor
  <2> QED
    BY <2>1, ListedType
<1>4. my.cursor.id = 0
  BY DEF NoCursor
<1> QED
  BY <1>1, <1>2, <1>3, <1>4 DEF Listing, VersionsTold, NamesTold, AllTried

\* What the calls that are not touched have to say.
LEMMA OtherCalls ==
    ASSUME IInv, IInv', ListingInv, HistoryInv', Survive, nextId <= nextId', NEW D, D \subseteq Caller,
           \A d \in D : call'[d] = call[d] /\ kept'[d] \subseteq kept[d] /\ shown'[d] \subseteq shown[d],
           \A d \in Caller \ D : Listing(call'[d], versions', nextId', kept'[d], shown'[d])
    PROVE  ListingInv'
<1>1. ASSUME NEW d \in D PROVE Listing(call'[d], versions', nextId', kept'[d], shown'[d])
  <2>1. PICK my : my = call[d]
    OBVIOUS
  <2>2. PICK ids : ids = kept[d]
    OBVIOUS
  <2>3. PICK names : names = shown[d]
    OBVIOUS
  <2>4. Listing(my, versions, nextId, ids, names) /\ ids \subseteq Ids(versions)
    BY <2>1, <2>2, <2>3 DEF ListingInv, HistoryInv
  <2>5. kept'[d] \subseteq ids /\ shown'[d] \subseteq names
    BY <2>2, <2>3
  <2>6. Listing(my, versions', nextId', kept'[d], shown'[d])
    BY <2>4, <2>5, ListingFrame DEF IInv
  <2> QED
    BY <2>1, <2>6
<1> QED
  BY <1>1 DEF ListingInv

\* The names that are visible are names.
LEMMA VisibleNames == ASSUME FilesTypeOK PROVE Names(Visible(versions)) \subseteq FileName
BY DEF FilesTypeOK, Names, Visible, Latest, Version

\* Calls of all kinds begin alike.
LEMMA SomeCallBegins ==
    ASSUME NEW c, BeginSweep(c) \/ BeginDeleteMany(c) \/ BeginUnhide(c) \/ BeginEdit(c)
    PROVE  \E new : Begin(c, new)
<1>1. CASE BeginSweep(c)
  <2>1. PICK op, delimited : Begin(c, [Idle EXCEPT !.op = op, !.at = "fetch", !.delimited = delimited])
    BY <1>1 DEF BeginSweep
  <2>2. PICK new : new = [Idle EXCEPT !.op = op, !.at = "fetch", !.delimited = delimited]
    OBVIOUS
  <2> QED
    BY <2>1, <2>2
<1>2. CASE BeginDeleteMany(c)
  <2>1. PICK targets : Begin(c, [Idle EXCEPT !.op = "deleteMany", !.at = "delete", !.todo = targets])
    BY <1>2 DEF BeginDeleteMany
  <2>2. PICK new : new = [Idle EXCEPT !.op = "deleteMany", !.at = "delete", !.todo = targets]
    OBVIOUS
  <2> QED
    BY <2>1, <2>2
<1>3. CASE BeginUnhide(c)
  <2>1. PICK name : Begin(c, [Idle EXCEPT !.op = "unhideFile", !.at = "fetch", !.name = name])
    BY <1>3 DEF BeginUnhide
  <2>2. PICK new : new = [Idle EXCEPT !.op = "unhideFile", !.at = "fetch", !.name = name]
    OBVIOUS
  <2> QED
    BY <2>1, <2>2
<1>4. CASE BeginEdit(c)
  <2>1. PICK op, setting, rule : Begin(c, [Idle EXCEPT !.op = op, !.at = "fetch", !.setting = setting, !.rule = rule])
    BY <1>4 DEF BeginEdit
  <2>2. PICK new : new = [Idle EXCEPT !.op = op, !.at = "fetch", !.setting = setting, !.rule = rule]
    OBVIOUS
  <2> QED
    BY <2>1, <2>2
<1> QED
  BY <1>1, <1>2, <1>3, <1>4

\* The versions after any step.
LEMMA AllSurvive ==
    ASSUME IInv, [Next]_vars
    PROVE  Survive /\ nextId <= nextId'
<1>1. nextId \in Nat
  BY BoundsAssumption DEF IInv, FilesTypeOK
<1>2. ASSUME UNCHANGED serverVars PROVE Survive /\ nextId <= nextId'
  BY <1>1, <1>2 DEF Survive, serverVars
<1>3. ASSUME NEW id, NEW bypass, DeleteFileVersion(id, bypass) PROVE Survive /\ nextId <= nextId'
  BY <1>1, <1>3 DEF Survive, DeleteFileVersion, Without
<1>4. ASSUME Other PROVE Survive /\ nextId <= nextId'
  <2>1. ASSUME NEW name, NEW action, NEW stamp, Pushed(name, action, stamp) PROVE Survive /\ nextId <= nextId'
    BY <1>1, <2>1 DEF Survive, Pushed, NewVersion
  <2>2. ASSUME NEW name, NEW action, Push(name, action) PROVE Survive /\ nextId <= nextId'
    BY <2>1, <2>2 DEF Push, Pushed
  <2>3. ASSUME NEW name, NEW stamp, UploadWithTimestamp(name, stamp) PROVE Survive /\ nextId <= nextId'
    BY <2>1, <2>3 DEF UploadWithTimestamp, Pushed
  <2>4. ASSUME NEW v \in versions, NEW x, Relocked(v, x) PROVE Survive /\ nextId <= nextId'
    BY <1>1, <2>4 DEF Survive, Relocked
  <2>5. ASSUME NEW v \in versions, NEW retention \in Retention, NEW bypass \in BOOLEAN,
               UpdateFileRetention(v, retention, bypass)
        PROVE  Survive /\ nextId <= nextId'
    <3>1. Relocked(v, [v EXCEPT !.retention = retention])
      BY <2>5, RetentionEffect DEF IInv
    <3> QED
      BY <2>4, <3>1
  <2>6. ASSUME NEW v \in versions, NEW on \in BOOLEAN, UpdateFileLegalHold(v, on)
        PROVE  Survive /\ nextId <= nextId'
    <3>1. Relocked(v, [v EXCEPT !.hold = on])
      BY <2>6, HoldEffect DEF IInv
    <3> QED
      BY <2>4, <3>1
  <2>7. Tick => Survive /\ nextId <= nextId'
    BY <1>1 DEF Tick, Survive
  <2> QED
    BY <1>3, <1>4, <2>2, <2>3, <2>5, <2>6, <2>7 DEF Other, UploadFile, HideFile, CopyFile
<1>5. ASSUME NEW c \in Caller, Delete(c) \/ DeleteUnanswered(c) PROVE Survive /\ nextId <= nextId'
  <2>1. \E id : DeleteFileVersion(id, FALSE) \/ UNCHANGED serverVars
    BY <1>5 DEF Delete, DeleteUnanswered
  <2> QED
    BY <1>2, <1>3, <2>1
<1>6. ASSUME NEW c \in Caller, BeginSweep(c) \/ BeginDeleteMany(c) \/ BeginUnhide(c) \/ BeginEdit(c)
      PROVE  UNCHANGED serverVars
  BY <1>6, SomeCallBegins DEF Begin
<1>7. ASSUME NEW c \in Caller, \/ Abort(c) \/ FetchPage(c) \/ ThrowAborted(c) \/ Acquire(c) \/ EndDeleteMany(c)
                               \/ FindMarker(c) \/ Refresh(c) \/ Update(c) \/ UpdateUnanswered(c)
      PROVE  UNCHANGED serverVars
  BY <1>7 DEF Abort, FetchPage, ThrowAborted, Acquire, EndDeleteMany, FindMarker, Refresh, Update, UpdateUnanswered
<1>8. CASE UNCHANGED vars
  BY <1>2, <1>8 DEF vars
<1> QED
  BY <1>2, <1>4, <1>5, <1>6, <1>7, <1>8 DEF Next, Step

\* What is said to stay during a call does.
LEMMA HistoryStep ==
    ASSUME IInv, HistoryInv, [Next]_vars
    PROVE  HistoryInv'
<1>1. ASSUME Seen PROVE HistoryInv'
  BY <1>1 DEF Seen, HistoryInv
<1>2. ASSUME UNCHANGED serverVars, UNCHANGED historyVars PROVE HistoryInv'
  BY <1>2 DEF HistoryInv, serverVars, historyVars
<1>3. ASSUME NEW c \in Caller, NEW new, Begin(c, new) PROVE HistoryInv'
  <2>1. /\ kept' = [kept EXCEPT ![c] = Ids(versions)] /\ versions' = versions
        /\ shown' = [shown EXCEPT ![c] = Names(Visible(versions))]
    BY <1>3 DEF Begin, serverVars
  <2> QED
    BY <2>1 DEF HistoryInv
<1>4. ASSUME NEW c \in Caller, BeginSweep(c) \/ BeginDeleteMany(c) \/ BeginUnhide(c) \/ BeginEdit(c) PROVE HistoryInv'
  BY <1>3, <1>4, SomeCallBegins
<1>5. ASSUME NEW c \in Caller, \/ Abort(c) \/ FetchPage(c) \/ ThrowAborted(c) \/ Acquire(c) \/ EndDeleteMany(c)
                               \/ FindMarker(c) \/ Refresh(c) \/ Update(c) \/ UpdateUnanswered(c)
      PROVE  UNCHANGED serverVars /\ UNCHANGED historyVars
  BY <1>5 DEF Abort, FetchPage, ThrowAborted, Acquire, EndDeleteMany, FindMarker, Refresh, Update, UpdateUnanswered
<1>6. ASSUME NEW c \in Caller, Delete(c) \/ DeleteUnanswered(c) PROVE Seen
  BY <1>6 DEF Delete, DeleteUnanswered
<1>7. Other => Seen
  BY DEF Other
<1>8. UNCHANGED vars => UNCHANGED serverVars /\ UNCHANGED historyVars
  BY DEF vars, historyVars
<1> QED
  BY <1>1, <1>2, <1>4, <1>5, <1>6, <1>7, <1>8 DEF Next, Step

\* A call that goes on as it was, but for what no listing depends on.
LEMMA GoesOn ==
    ASSUME NEW vs, NEW next, NEW ids, NEW names, NEW my, Listing(my, vs, next, ids, names), NEW new,
           new.op = my.op, new.cursor = my.cursor, new.delimited = my.delimited, new.seen = my.seen,
           new.todo = my.todo, new.failed = my.failed,
           new.at = my.at \/ my.op \notin Sweeps \/ (new.at = "thrown" /\ my.op \in Paginators)
    PROVE  Listing(new, vs, next, ids, names)
<1>1. CursorOk(new, next)
  BY DEF Listing, CursorOk
<1>2. \A v : ComesLater(new, vs, v) <=> ComesLater(my, vs, v)
  BY DEF ComesLater
<1>3. CASE my.op \notin Sweeps
  BY <1>1, <1>3, NoSweep
<1>4. CASE new.at = my.at
  BY <1>1, <1>2, <1>4 DEF Listing, VersionsTold, NamesTold, AllTried
<1>5. CASE new.at = "thrown" /\ my.op \in Paginators
  BY <1>1, <1>5 DEF Listing, VersionsTold, NamesTold, AllTried, Paginators
<1> QED
  BY <1>3, <1>4, <1>5

\* The first row of a page, if it has one, and the cursor to the next.
LEMMA NextPage ==
    ASSUME NEW all, IsFiniteSet(all), all \subseteq RowType, NEW cursor, NEW rows, rows = From(all, cursor),
           \A q, r \in all : q.id = r.id /\ q.id # 0 => q = r,
           NEW page, page = Page(rows, PageSize), NEW next, next = NextCursor(rows, PageSize)
    PROVE  /\ rows \subseteq all /\ page \subseteq rows
           /\ rows # {} => \E least \in page : \A q \in rows : q = least \/ Precedes(least, q)
           /\ \/ page = rows /\ next = NoCursor
              \/ \E first \in rows \ page :
                    /\ next = [name |-> first.name, id |-> first.id]
                    /\ \A q \in rows \ page : first.name <= q.name /\ q \in From(all, next)
<1>1. rows \subseteq all
  BY DEF From
<1>2. page \subseteq rows
  BY DEF Page
<1>3. IsFiniteSet(rows) /\ rows \subseteq RowType
  BY <1>1, FS_Subset
<1>4. rows # {} => \E least \in page : \A q \in rows : q = least \/ Precedes(least, q)
  BY <1>3, PageHasLeast
<1>5. CASE rows \ page = {}
  <2>1. next = NoCursor
    BY <1>5 DEF NextCursor
  <2> QED
    BY <1>1, <1>2, <1>4, <1>5, <2>1
<1>6. CASE rows \ page # {}
  <2>1. PICK first \in rows \ page :
            /\ next = [name |-> first.name, id |-> first.id]
            /\ \A q \in rows \ page : q = first \/ Precedes(first, q)
    BY <1>3, <1>6, CursorOfRest
  <2>2. ASSUME NEW q \in rows \ page PROVE first.name <= q.name /\ q \in From(all, next)
    <3>1. q \in all /\ first \in all /\ (q = first \/ Precedes(first, q))
      BY <1>1, <2>1
    <3>2. q \in From(all, next)
      BY <2>1, <3>1, FromCursor
    <3>3. first.name \in Nat /\ q.name \in Nat
      BY <3>1 DEF RowType
    <3> QED
      BY <3>1, <3>2, <3>3 DEF Precedes
  <2> QED
    BY <1>1, <1>2, <1>4, <2>1, <2>2
<1> QED
  BY <1>5, <1>6

\* Two rows of visible files have two names.
LEMMA VisibleRows ==
    ASSUME FilesTypeOK, VersionsInv, NEW d \in BOOLEAN, NEW q \in Rows(Visible(versions), d),
           NEW r \in Rows(Visible(versions), d), q.name = r.name
    PROVE  q = r
<1>1. PICK v \in Visible(versions) : q = Row(v, d)
  BY DEF Rows
<1>2. PICK w \in Visible(versions) : r = Row(w, d)
  BY DEF Rows
<1>3. /\ v \in versions /\ w \in versions /\ v.id \in Nat /\ w.id \in Nat
      /\ v.name \in FileName /\ w.name \in FileName
  BY DEF Visible, Latest, FilesTypeOK, Version
<1>4. v.name = w.name => v = w
  <2>1. v.name = w.name => v.id <= w.id /\ w.id <= v.id
    BY DEF Visible, Latest
  <2> QED
    BY <1>3, <2>1 DEF VersionsInv
<1>5. FolderOf[v.name] \notin FileName /\ FolderOf[w.name] \notin FileName
  BY <1>3, NamesAssumption
<1> QED
  BY <1>1, <1>2, <1>3, <1>4, <1>5 DEF Row

\* A call hands out a page and goes on after it.
LEMMA PageStep ==
    ASSUME IInv, ListingInv, NEW c \in Caller, FetchPage(c)
    PROVE  \E new : Goto(c, new) /\ Listing(new, versions, nextId, kept[c], shown[c])
<1>1. PICK my : my = call[c]
  OBVIOUS
<1>2. PICK d : d = my.delimited
  OBVIOUS
<1>3. IsCall(my) /\ Listing(my, versions, nextId, kept[c], shown[c])
  BY <1>1 DEF IInv, CallsInv, CallOk, ListingInv
<1>4. PICK vs : vs = IF my.op = "paginateFileNames" THEN Visible(versions) ELSE versions
  OBVIOUS
<1>5. PICK all : all = Rows(vs, d)
  OBVIOUS
<1>6. all = RowsOf(my)
  BY <1>2, <1>4, <1>5 DEF RowsOf
<1>7. vs \subseteq versions
  BY <1>4 DEF Visible, Latest
<1>8. d \in BOOLEAN /\ my.cursor.id \in Nat /\ my.cursor.name \in Nat
  BY <1>2, <1>3 DEF Listing, CursorOk
<1>9. /\ IsFiniteSet(all) /\ all \subseteq RowType
      /\ \A q, r \in all : q.id = r.id /\ q.id # 0 => q = r
      /\ \A r \in all : r.name # 0 /\ (r.id = 0 \/ r.id \in Ids(vs))
      /\ \A v \in vs : Row(v, d) \in all /\ Row(v, d).name = Listed(v.name, d)
  BY <1>5, <1>7, <1>8, RowShape DEF IInv, FilesTypeOK, VersionsInv
<1>10. PICK rows : rows = From(all, my.cursor)
  OBVIOUS
<1>11. PICK page : page = Page(rows, PageSize)
  OBVIOUS
<1>12. PICK row1 : row1 = NextCursor(rows, PageSize)
  OBVIOUS
<1>13. /\ rows \subseteq all /\ page \subseteq rows
       /\ rows # {} => \E least \in page : \A q \in rows : q = least \/ Precedes(least, q)
       /\ \/ page = rows /\ row1 = NoCursor
          \/ \E first \in rows \ page :
                /\ row1 = [name |-> first.name, id |-> first.id]
                /\ \A q \in rows \ page : first.name <= q.name /\ q \in From(all, row1)
  BY <1>9, <1>10, <1>11, <1>12, NextPage
<1>14. PICK next : next = NextOf(my, rows)
  OBVIOUS
<1>15. row1 = [name |-> row1.name, id |-> row1.id] /\ row1.name \in Nat /\ row1.id \in Nat /\ row1.id < nextId
  <2>1. nextId \in Nat /\ 0 < nextId
    BY BoundsAssumption DEF IInv, FilesTypeOK
  <2>2. CASE row1 = NoCursor
    BY <2>1, <2>2 DEF NoCursor
  <2>3. ASSUME NEW first \in rows \ page, row1 = [name |-> first.name, id |-> first.id]
        PROVE  row1 = [name |-> row1.name, id |-> row1.id] /\ row1.name \in Nat /\ row1.id \in Nat /\ row1.id < nextId
    <3>1. first \in all
      BY <1>13
    <3>2. first.name \in Nat /\ first.id \in Nat
      BY <1>9, <3>1 DEF RowType
    <3>3. first.id = 0 \/ first.id \in Ids(versions)
      BY <1>7, <1>9, <3>1 DEF Ids
    <3>4. first.id < nextId
      BY <2>1, <3>3 DEF Ids, IInv, VersionsInv
    <3> QED
      BY <2>3, <3>2, <3>4
  <2> QED
    BY <1>13, <2>2, <2>3
<1>16. rows \ page # {} => row1 # NoCursor
  BY <1>9, <1>13 DEF NoCursor
<1>17. CASE my.op = "deleteAll"
  <2>1. PICK new : new = [my EXCEPT !.cursor = next, !.todo = {r.id : r \in page},
                                    !.at = IF page = {} THEN "done" ELSE "delete"]
    OBVIOUS
  <2>2. Goto(c, new)
    BY <1>1, <1>6, <1>10, <1>11, <1>14, <1>17, <2>1 DEF FetchPage
  <2>3. /\ new.op = my.op /\ new.cursor = next /\ new.todo = {r.id : r \in page} /\ new.failed = my.failed
        /\ new.delimited = d /\ new.at = IF page = {} THEN "done" ELSE "delete"
    BY <1>2, <1>3, <2>1 DEF IsCall, Fields
  <2>4. next = row1 /\ vs = versions /\ d = FALSE
    BY <1>2, <1>3, <1>4, <1>12, <1>14, <1>17 DEF NextOf, Listing, AllTried
  <2>5. CursorOk(new, nextId)
    BY <1>8, <1>15, <2>3, <2>4 DEF CursorOk
  <2>6. ASSUME NEW v \in versions, v.id \in kept[c], v.id \notin my.failed
        PROVE  \/ new.at = "delete" /\ v.id \in new.todo
               \/ new.at = "delete" /\ new.cursor # NoCursor /\ ComesLater(new, versions, v)
    <3>1. my.at = "fetch"
      BY <1>1 DEF FetchPage
    <3>2. ComesLater(my, versions, v)
      BY <1>3, <1>17, <2>6, <3>1 DEF Listing, AllTried
    <3>3. Row(v, d) \in rows
      BY <1>2, <1>5, <1>10, <2>4, <3>2 DEF ComesLater
    <3>4. page # {} /\ new.at = "delete"
      BY <1>13, <2>3, <3>3
    <3>5. CASE Row(v, d) \in page
      <4>1. Row(v, d).id = v.id
        BY <2>4 DEF Row
      <4> QED
        BY <2>3, <3>4, <3>5, <4>1
    <3>6. CASE Row(v, d) \notin page
      <4>1. row1 # NoCursor /\ Row(v, d) \in From(all, row1)
        BY <1>13, <1>16, <3>3, <3>6
      <4>2. ComesLater(new, versions, v)
        BY <1>5, <2>3, <2>4, <4>1 DEF ComesLater
      <4> QED
        BY <2>3, <2>4, <3>4, <4>1, <4>2
    <3> QED
      BY <3>5, <3>6
  <2>7. AllTried(new, versions, kept[c])
    BY <2>3, <2>4, <2>6 DEF AllTried
  <2>8. VersionsTold(new, versions, kept[c]) /\ NamesTold(new, shown[c])
    BY <1>17, <2>3 DEF VersionsTold, NamesTold
  <2> QED
    BY <2>2, <2>5, <2>7, <2>8 DEF Listing
<1>18. CASE my.op # "deleteAll"
  <2>1. PICK new : new = [my EXCEPT !.cursor = next, !.seen = my.seen \cup {EntryOf(r) : r \in page},
                                    !.at = IF Ends(my, next) THEN "done" ELSE "fetch"]
    OBVIOUS
  <2>2. Goto(c, new) /\ my.op \in Paginators /\ my.at = "fetch"
    BY <1>1, <1>6, <1>10, <1>11, <1>14, <1>18, <2>1 DEF FetchPage, Sweeps
  <2>3. /\ new.op = my.op /\ new.cursor = next /\ new.seen = my.seen \cup {EntryOf(r) : r \in page}
        /\ new.delimited = d /\ new.at = IF Ends(my, next) THEN "done" ELSE "fetch"
    BY <1>2, <1>3, <2>1 DEF IsCall, Fields
  <2>4. CASE my.op = "paginateFileVersions"
    <3>1. next = row1 /\ vs = versions
      BY <1>4, <1>12, <1>14, <2>4 DEF NextOf
    <3>2. CursorOk(new, nextId)
      BY <1>8, <1>15, <2>3, <3>1 DEF CursorOk
    <3>3. ASSUME NEW v \in versions, v.id \in kept[c]
          PROVE  EntryOf(Row(v, d)) \in new.seen \/ (new.at = "fetch" /\ ComesLater(new, versions, v))
      <4>1. CASE EntryOf(Row(v, d)) \in my.seen
        BY <2>3, <4>1
      <4>2. CASE EntryOf(Row(v, d)) \notin my.seen
        <5>1. ComesLater(my, versions, v)
          BY <1>2, <1>3, <2>2, <2>4, <3>3, <4>2 DEF Listing, VersionsTold
        <5>2. Row(v, d) \in rows
          BY <1>2, <1>5, <1>10, <3>1, <5>1 DEF ComesLater
        <5>3. CASE Row(v, d) \in page
          BY <2>3, <5>3
        <5>4. CASE Row(v, d) \notin page
          <6>1. row1 # NoCursor /\ Row(v, d) \in From(all, row1)
            BY <1>13, <1>16, <5>2, <5>4
          <6>2. new.at = "fetch"
            BY <2>3, <2>4, <3>1, <6>1 DEF Ends
          <6> QED
            BY <1>5, <2>3, <3>1, <6>1, <6>2 DEF ComesLater
        <5> QED
          BY <5>3, <5>4
      <4> QED
        BY <4>1, <4>2
    <3>4. VersionsTold(new, versions, kept[c])
      BY <2>3, <3>3 DEF VersionsTold
    <3>5. NamesTold(new, shown[c]) /\ AllTried(new, versions, kept[c])
      BY <2>3, <2>4 DEF NamesTold, AllTried
    <3> QED
      BY <2>2, <3>2, <3>4, <3>5 DEF Listing
  <2>5. CASE my.op = "paginateFileNames"
    <3>1. /\ vs = Visible(versions) /\ my.cursor.id = 0 /\ next = [row1 EXCEPT !.id = 0]
      BY <1>3, <1>4, <1>12, <1>14, <2>5 DEF NextOf, Listing, NamesTold
    <3>2. next.name = row1.name /\ next.id = 0 /\ next = [name |-> next.name, id |-> 0]
      <4>1. PICK name, id : row1 = [name |-> name, id |-> id]
        BY <1>15
      <4>2. [row1 EXCEPT !.id = 0] = [name |-> name, id |-> 0]
        BY <4>1
      <4> QED
        BY <3>1, <4>1, <4>2
    <3>3. CursorOk(new, nextId)
      <4>1. 0 < nextId
        BY BoundsAssumption DEF IInv, FilesTypeOK
      <4>2. next.name \in Nat /\ next.id \in Nat /\ next.id < nextId
        BY <1>15, <3>2, <4>1
      <4> QED
        BY <1>8, <2>3, <3>2, <4>2 DEF CursorOk
    <3>4. rows = {r \in all : r.name >= my.cursor.name}
      BY <1>10, <3>1 DEF From
    <3>5. rows \ page # {} => ~ Ends(my, next)
      <4> SUFFICES ASSUME rows \ page # {} PROVE next.name # 0 /\ next.name # my.cursor.name
        BY DEF Ends, NoCursor
      <4>1. PICK first \in rows \ page : row1 = [name |-> first.name, id |-> first.id]
        BY <1>13
      <4>2. PICK least \in page : first = least \/ Precedes(least, first)
        BY <1>13, <4>1
      <4>3. first \in all /\ least \in all /\ least.name >= my.cursor.name /\ first # least
        BY <1>13, <3>4, <4>1, <4>2
      <4>4. first.name \in Nat /\ least.name \in Nat /\ first.name # 0
        BY <1>9, <4>3 DEF RowType
      <4>5. first.name # least.name
        BY <1>5, <1>8, <3>1, <4>3, VisibleRows DEF IInv
      <4>6. least.name < first.name
        BY <4>2, <4>3, <4>4, <4>5 DEF Precedes
      <4> QED
        BY <1>8, <3>2, <4>1, <4>3, <4>4, <4>6
    <3>6. ASSUME NEW n \in shown[c]
          PROVE  \/ \E e \in new.seen : e.name = Listed(n, d)
                 \/ new.at = "fetch" /\ next.name <= Listed(n, d)
      <4>1. CASE \E e \in my.seen : e.name = Listed(n, d)
        BY <2>3, <4>1
      <4>2. CASE ~ \E e \in my.seen : e.name = Listed(n, d)
        <5>1. my.cursor.name <= Listed(n, d)
          BY <1>2, <1>3, <2>2, <2>5, <3>6, <4>2 DEF Listing, NamesTold
        <5>2. PICK v \in Visible(versions) : v.name = n
          BY DEF ListingInv, HistoryInv, Names
        <5>3. PICK row : row = Row(v, d)
          OBVIOUS
        <5>4. row \in all /\ row.name = Listed(n, d)
          BY <1>9, <3>1, <5>2, <5>3
        <5>5. row.name \in Nat
          BY <1>9, <5>4 DEF RowType
        <5>6. row \in rows
          BY <1>8, <3>4, <5>1, <5>4, <5>5
        <5>7. CASE row \in page
          <6>1. EntryOf(row) \in new.seen /\ EntryOf(row).name = row.name
            BY <2>3, <5>7 DEF EntryOf
          <6> QED
            BY <5>4, <6>1
        <5>8. CASE row \notin page
          <6>1. next.name <= row.name
            BY <1>13, <3>2, <5>6, <5>8
          <6>2. new.at = "fetch"
            BY <2>3, <3>5, <5>6, <5>8
          <6> QED
            BY <5>4, <6>1, <6>2
        <5> QED
          BY <5>7, <5>8
      <4> QED
        BY <4>1, <4>2
    <3>7. NamesTold(new, shown[c])
      BY <2>3, <3>2, <3>6 DEF NamesTold
    <3>8. VersionsTold(new, versions, kept[c]) /\ AllTried(new, versions, kept[c])
      BY <2>3, <2>5 DEF VersionsTold, AllTried
    <3> QED
      BY <2>2, <3>3, <3>7, <3>8 DEF Listing
  <2> QED
    BY <2>2, <2>4, <2>5 DEF Paginators
<1> QED
  BY <1>17, <1>18

\* A deletion that was answered takes an ID off the list, and a failure is told.
LEMMA TriedStep ==
    ASSUME IInv, IInv', ListingInv, HistoryInv', Survive, nextId <= nextId', NEW c \in Caller, Delete(c)
    PROVE  \E new : Goto(c, new) /\ Listing(new, versions', nextId', kept'[c], shown'[c])
<1>1. PICK my : my = call[c]
  OBVIOUS
<1>2. PICK id \in Sent(c) :
         /\ IF DeleteOk(id, FALSE) THEN DeleteFileVersion(id, FALSE) ELSE UNCHANGED serverVars
         /\ Goto(c, AfterDelete(Tally(my, id, DeleteOk(id, FALSE))))
  BY <1>1 DEF Delete
<1>3. PICK ok : ok = DeleteOk(id, FALSE)
  OBVIOUS
<1>4. IsCall(my)
  BY <1>1 DEF IInv, CallsInv, CallOk
<1>5. Listing(my, versions', nextId', kept'[c], shown'[c])
  <2>1. Listing(my, versions, nextId, kept[c], shown[c]) /\ kept[c] \subseteq Ids(versions)
    BY <1>1 DEF ListingInv, HistoryInv
  <2>2. kept'[c] \subseteq kept[c] /\ shown'[c] \subseteq shown[c]
    BY DEF Delete, Seen
  <2> QED
    BY <2>1, <2>2, ListingFrame DEF IInv
<1>6. ok => \A v \in versions' : v.id # id
  BY <1>2, <1>3 DEF DeleteFileVersion, Without
<1>7. PICK tally : tally = Tally(my, id, ok)
  OBVIOUS
<1>8. /\ IsCall(tally) /\ tally.op = my.op /\ tally.at = my.at /\ tally.cursor = my.cursor
      /\ tally.delimited = my.delimited /\ tally.seen = my.seen /\ tally.todo = my.todo \ {id}
      /\ tally.failed = IF ok THEN my.failed ELSE my.failed \cup {id}
  BY <1>4, <1>7 DEF Tally, IsCall, Fields
<1>9. PICK new : new = AfterDelete(tally)
  OBVIOUS
<1>10. Goto(c, new)
  BY <1>2, <1>3, <1>7, <1>9
<1>11. PICK at : /\ new = tally \/ new = [tally EXCEPT !.at = at]
                 /\ tally.op = "deleteAll" =>
                        new = tally \/ (tally.todo = {} /\ at = IF tally.cursor = NoCursor THEN "done" ELSE "fetch")
  <2>1. CASE tally.todo \cup tally.flight # {}
    BY <1>9, <2>1 DEF AfterDelete
  <2>2. CASE tally.todo \cup tally.flight = {}
    BY <1>9, <2>2 DEF AfterDelete
  <2> QED
    BY <2>1, <2>2
<1>12. /\ new.op = my.op /\ new.cursor = my.cursor /\ new.delimited = my.delimited /\ new.todo = my.todo \ {id}
       /\ new.failed = (IF ok THEN my.failed ELSE my.failed \cup {id})
       /\ new.at = my.at \/ new.at = at
  BY <1>8, <1>11 DEF IsCall, Fields
<1>13. CursorOk(new, nextId')
  BY <1>5, <1>12 DEF Listing, CursorOk
<1>14. CASE my.op # "deleteAll"
  <2>1. my.op \notin Paginators
    <3>1. my.op \in Paginators => my.at # "delete"
      BY <1>5 DEF Listing, VersionsTold, NamesTold, Paginators
    <3>2. my.op \in Paginators => my.at = "delete"
      BY <1>1, <1>2 DEF Sent, Paginators
    <3> QED
      BY <3>1, <3>2
  <2>2. new.op \notin Sweeps
    BY <1>12, <1>14, <2>1 DEF Sweeps
  <2> QED
    BY <1>10, <1>13, <2>2, NoSweep
<1>15. CASE my.op = "deleteAll"
  <2>1. my.at = "delete" /\ my.delimited = FALSE
    BY <1>1, <1>2, <1>5, <1>15 DEF Sent, Listing, AllTried
  <2>2. \A v : ComesLater(new, versions', v) <=> ComesLater(my, versions', v)
    BY <1>12 DEF ComesLater
  <2>3. ASSUME NEW v \in versions', v.id \in kept'[c]
        PROVE  v.id \in new.failed \/ v.id \in new.todo \/ (my.cursor # NoCursor /\ ComesLater(new, versions', v))
    <3>1. v.id \in my.failed \/ v.id \in my.todo \/ (my.cursor # NoCursor /\ ComesLater(my, versions', v))
      BY <1>5, <1>15, <2>1, <2>3 DEF Listing, AllTried
    <3> QED
      BY <1>6, <1>12, <2>2, <3>1
  <2>4. \/ new.at = "delete"
        \/ new.todo = {} /\ new.at = IF my.cursor = NoCursor THEN "done" ELSE "fetch"
    BY <1>8, <1>11, <1>15, <2>1 DEF IsCall, Fields
  <2>5. AllTried(new, versions', kept'[c])
    BY <1>12, <2>1, <2>3, <2>4 DEF AllTried
  <2>6. VersionsTold(new, versions', kept'[c]) /\ NamesTold(new, shown'[c])
    BY <1>12, <1>15 DEF VersionsTold, NamesTold
  <2> QED
    BY <1>10, <1>13, <2>5, <2>6 DEF Listing
<1> QED
  BY <1>14, <1>15

\* Every step keeps what the listings say.
LEMMA ListingStep == ASSUME IInv, IInv', ListingInv, [Next]_vars PROVE ListingInv'
<1>1. Survive /\ nextId <= nextId' /\ HistoryInv'
  BY AllSurvive, HistoryStep DEF ListingInv
<1>2. ASSUME call' = call, Seen \/ UNCHANGED historyVars PROVE ListingInv'
  <2>1. \A d \in Caller : call'[d] = call[d] /\ kept'[d] \subseteq kept[d] /\ shown'[d] \subseteq shown[d]
    BY <1>2 DEF Seen, historyVars
  <2>2. \A d \in Caller \ Caller : Listing(call'[d], versions', nextId', kept'[d], shown'[d])
    OBVIOUS
  <2> QED
    BY <1>1, <2>1, <2>2, OtherCalls
<1>3. ASSUME NEW c \in Caller, NEW new, Goto(c, new),
             \A d \in Caller \ {c} : kept'[d] \subseteq kept[d] /\ shown'[d] \subseteq shown[d],
             Listing(new, versions', nextId', kept'[c], shown'[c])
      PROVE  ListingInv'
  <2>1. call = [d \in Caller |-> call[d]]
    BY DEF IInv, CallsInv
  <2>2. call'[c] = new /\ \A d \in Caller \ {c} : call'[d] = call[d]
    BY <1>3, <2>1 DEF Goto
  <2>3. \A d \in Caller \ {c} : call'[d] = call[d] /\ kept'[d] \subseteq kept[d] /\ shown'[d] \subseteq shown[d]
    BY <1>3, <2>2
  <2>4. \A d \in Caller \ (Caller \ {c}) : Listing(call'[d], versions', nextId', kept'[d], shown'[d])
    BY <1>3, <2>2
  <2> QED
    BY <1>1, <2>3, <2>4, OtherCalls
<1>4. ASSUME NEW c \in Caller, NEW new, Goto(c, new), UNCHANGED <<versions, nextId, kept, shown>>,
             Listing(new, versions, nextId, kept[c], shown[c])
      PROVE  ListingInv'
  BY <1>3, <1>4
<1>5. ASSUME NEW c \in Caller PROVE IsCall(call[c]) /\ Listing(call[c], versions, nextId, kept[c], shown[c])
  BY DEF IInv, CallsInv, CallOk, ListingInv
<1>6. ASSUME NEW c \in Caller, NEW new, Begin(c, new),
             Listing(new, versions, nextId, Ids(versions), Names(Visible(versions)))
      PROVE  ListingInv'
  <2>1. /\ Goto(c, new) /\ UNCHANGED <<versions, nextId>>
        /\ kept' = [kept EXCEPT ![c] = Ids(versions)] /\ shown' = [shown EXCEPT ![c] = Names(Visible(versions))]
    BY <1>6 DEF Begin, serverVars
  <2>2. kept'[c] = Ids(versions) /\ shown'[c] = Names(Visible(versions))
    BY <2>1 DEF ListingInv, HistoryInv
  <2>3. \A d \in Caller \ {c} : kept'[d] = kept[d] /\ shown'[d] = shown[d]
    BY <2>1 DEF ListingInv, HistoryInv
  <2> QED
    BY <1>3, <1>6, <2>1, <2>2, <2>3
<1>7. ASSUME NEW c \in Caller, BeginSweep(c) PROVE ListingInv'
  <2>1. PICK op \in Sweeps, delimited \in BOOLEAN :
            /\ op = "deleteAll" => delimited = FALSE
            /\ Begin(c, [Idle EXCEPT !.op = op, !.at = "fetch", !.delimited = delimited])
    BY <1>7 DEF BeginSweep
  <2>2. PICK new : new = [Idle EXCEPT !.op = op, !.at = "fetch", !.delimited = delimited]
    OBVIOUS
  <2>3. new.op = op /\ new.at = "fetch" /\ new.delimited = delimited /\ new.cursor = NoCursor
    BY <2>2 DEF Idle
  <2>4. Listing(new, versions, nextId, Ids(versions), Names(Visible(versions)))
    BY <2>1, <2>3, SweepBegins, VisibleNames DEF IInv
  <2> QED
    BY <1>6, <2>1, <2>2, <2>4
<1>8. ASSUME NEW c \in Caller, NEW new, Begin(c, new),
             new.op \notin Sweeps, new.delimited = FALSE, new.cursor = NoCursor
      PROVE  ListingInv'
  <2>1. CursorOk(new, nextId)
    <3>1. nextId \in Nat /\ 0 < nextId
      BY BoundsAssumption DEF IInv, FilesTypeOK
    <3>2. new.delimited \in BOOLEAN /\ new.cursor = NoCursor
      BY <1>8
    <3> QED
      BY <3>1, <3>2, NoCursorOk
  <2> QED
    BY <1>6, <1>8, <2>1, NoSweep
<1>9. ASSUME NEW c \in Caller, BeginDeleteMany(c) PROVE ListingInv'
  <2>1. PICK targets : Begin(c, [Idle EXCEPT !.op = "deleteMany", !.at = "delete", !.todo = targets])
    BY <1>9 DEF BeginDeleteMany
  <2>2. PICK new : new = [Idle EXCEPT !.op = "deleteMany", !.at = "delete", !.todo = targets]
    OBVIOUS
  <2>3. new.op \notin Sweeps /\ new.delimited = FALSE /\ new.cursor = NoCursor
    BY <2>2 DEF Idle, Sweeps, Paginators
  <2> QED
    BY <1>8, <2>1, <2>2, <2>3
<1>10. ASSUME NEW c \in Caller, BeginUnhide(c) PROVE ListingInv'
  <2>1. PICK name : Begin(c, [Idle EXCEPT !.op = "unhideFile", !.at = "fetch", !.name = name])
    BY <1>10 DEF BeginUnhide
  <2>2. PICK new : new = [Idle EXCEPT !.op = "unhideFile", !.at = "fetch", !.name = name]
    OBVIOUS
  <2>3. new.op \notin Sweeps /\ new.delimited = FALSE /\ new.cursor = NoCursor
    BY <2>2 DEF Idle, Sweeps, Paginators
  <2> QED
    BY <1>8, <2>1, <2>2, <2>3
<1>11. ASSUME NEW c \in Caller, BeginEdit(c) PROVE ListingInv'
  <2>1. PICK op \in Edits :
            \E setting, rule : Begin(c, [Idle EXCEPT !.op = op, !.at = "fetch", !.setting = setting, !.rule = rule])
    BY <1>11 DEF BeginEdit
  <2>2. PICK setting, rule :
            Begin(c, [Idle EXCEPT !.op = op, !.at = "fetch", !.setting = setting, !.rule = rule])
    BY <2>1
  <2>3. PICK new : new = [Idle EXCEPT !.op = op, !.at = "fetch", !.setting = setting, !.rule = rule]
    OBVIOUS
  <2>4. new.op \notin Sweeps /\ new.delimited = FALSE /\ new.cursor = NoCursor
    BY <2>3 DEF Idle, Sweeps, Paginators, Edits
  <2> QED
    BY <1>8, <2>2, <2>3, <2>4
<1>12. ASSUME NEW c \in Caller, Abort(c) PROVE ListingInv'
  <2>1. PICK my : my = call[c]
    OBVIOUS
  <2>2. PICK new : new = [my EXCEPT !.aborted = TRUE]
    OBVIOUS
  <2>3. Goto(c, new) /\ UNCHANGED <<versions, nextId, kept, shown>>
    BY <1>12, <2>1, <2>2 DEF Abort, serverVars, historyVars
  <2>4. Listing(new, versions, nextId, kept[c], shown[c])
    BY <1>5, <2>1, <2>2, GoesOn DEF IsCall, Fields
  <2> QED
    BY <1>4, <2>3, <2>4
<1>13. ASSUME NEW c \in Caller, ThrowAborted(c) PROVE ListingInv'
  <2>1. PICK my : my = call[c]
    OBVIOUS
  <2>2. PICK new : new = [my EXCEPT !.at = "thrown"]
    OBVIOUS
  <2>3. Goto(c, new) /\ UNCHANGED <<versions, nextId, kept, shown>> /\ my.op \in Paginators
    BY <1>13, <2>1, <2>2 DEF ThrowAborted, serverVars, historyVars
  <2>4. /\ new.op = my.op /\ new.cursor = my.cursor /\ new.delimited = my.delimited /\ new.seen = my.seen
        /\ new.todo = my.todo /\ new.failed = my.failed /\ new.at = "thrown"
    BY <1>5, <2>1, <2>2 DEF IsCall, Fields
  <2>5. Listing(new, versions, nextId, kept[c], shown[c])
    BY <1>5, <2>1, <2>3, <2>4, GoesOn
  <2> QED
    BY <1>4, <2>3, <2>5
<1>14. ASSUME NEW c \in Caller, call[c].op \notin Sweeps, UNCHANGED <<versions, nextId, kept, shown>>,
              NEW new, Goto(c, new), new.op = call[c].op, new.delimited = call[c].delimited, new.cursor = call[c].cursor
       PROVE  ListingInv'
  <2>1. CursorOk(new, nextId)
    BY <1>5, <1>14 DEF Listing, CursorOk
  <2> QED
    BY <1>4, <1>14, <2>1, NoSweep
<1>15. ASSUME NEW c \in Caller, Acquire(c) \/ EndDeleteMany(c) \/ FindMarker(c) \/ Refresh(c) \/ Update(c)
       PROVE  ListingInv'
  <2>1. PICK my : my = call[c]
    OBVIOUS
  <2>2. IsCall(my)
    BY <1>5, <2>1
  <2> DEFINE Alike(new) == new.op = my.op /\ new.delimited = my.delimited /\ new.cursor = my.cursor
  <2>3. ASSUME NEW todo, NEW x
        PROVE  Alike([my EXCEPT !.todo = todo, !.failed = x]) /\ Alike([my EXCEPT !.todo = todo, !.flight = x])
    BY <2>2 DEF IsCall, Fields
  <2>4. ASSUME NEW at, NEW x, NEW y
        PROVE  /\ Alike([my EXCEPT !.at = at]) /\ Alike([my EXCEPT !.at = at, !.todo = x])
               /\ Alike([my EXCEPT !.at = at, !.read = x, !.revision = y]) /\ Alike([my EXCEPT !.at = at, !.replaced = x])
    BY <2>2 DEF IsCall, Fields
  <2>5. my.op \notin Sweeps /\ UNCHANGED <<versions, nextId, kept, shown>>
    BY <1>15, <2>1 DEF Acquire, EndDeleteMany, FindMarker, Refresh, Update, Edits,
       Sweeps, Paginators, serverVars, historyVars
  <2> HIDE DEF Alike
  <2>6. \E new : Goto(c, new) /\ Alike(new)
    <3>1. CASE Acquire(c)
      <4>1. PICK id : Acquired(c, id)
        BY <3>1 DEF Acquire
      <4>2. CASE my.aborted
        <5>1. PICK new : new = [my EXCEPT !.todo = @ \ {id}, !.failed = @ \cup {id}]
          OBVIOUS
        <5>2. Goto(c, new)
          BY <2>1, <4>1, <4>2, <5>1 DEF Acquired
        <5> QED
          BY <2>3, <5>1, <5>2
      <4>3. CASE ~ my.aborted
        <5>1. PICK new : new = [my EXCEPT !.todo = @ \ {id}, !.flight = @ \cup {id}]
          OBVIOUS
        <5>2. Goto(c, new)
          BY <2>1, <4>1, <4>3, <5>1 DEF Acquired
        <5> QED
          BY <2>3, <5>1, <5>2
      <4> QED
        BY <4>2, <4>3
    <3>2. CASE EndDeleteMany(c)
      <4>1. PICK new : new = [my EXCEPT !.at = "done"]
        OBVIOUS
      <4>2. Goto(c, new)
        BY <2>1, <3>2, <4>1 DEF EndDeleteMany, AfterDelete
      <4> QED
        BY <2>4, <4>1, <4>2
    <3>3. CASE FindMarker(c)
      <4>1. PICK at, todo : Goto(c, [my EXCEPT !.at = at, !.todo = todo])
        BY <2>1, <3>3 DEF FindMarker
      <4>2. PICK new : new = [my EXCEPT !.at = at, !.todo = todo]
        OBVIOUS
      <4> QED
        BY <2>4, <4>1, <4>2
    <3>4. CASE Refresh(c)
      <4>1. PICK new : new = [my EXCEPT !.at = "write", !.read = rules[my.setting], !.revision = revision]
        OBVIOUS
      <4>2. Goto(c, new)
        BY <2>1, <3>4, <4>1 DEF Refresh
      <4> QED
        BY <2>4, <4>1, <4>2
    <3>5. CASE Update(c)
      <4>1. PICK done : done = [my EXCEPT !.at = "done", !.replaced = rules[my.setting]]
        OBVIOUS
      <4>2. PICK thrown : thrown = [my EXCEPT !.at = "thrown"]
        OBVIOUS
      <4>3. Goto(c, done) \/ Goto(c, thrown)
        BY <2>1, <3>5, <4>1, <4>2 DEF Update
      <4> QED
        BY <2>4, <4>1, <4>2, <4>3
    <3> QED
      BY <1>15, <3>1, <3>2, <3>3, <3>4, <3>5
  <2> QED
    BY <1>14, <2>1, <2>5, <2>6 DEF Alike
<1>16. ASSUME NEW c \in Caller, FetchPage(c) PROVE ListingInv'
  <2>1. UNCHANGED <<versions, nextId, kept, shown>>
    BY <1>16 DEF FetchPage, serverVars, historyVars
  <2> QED
    BY <1>4, <1>16, <2>1, PageStep
<1>17. ASSUME NEW c \in Caller, Delete(c) PROVE ListingInv'
  <2>1. \A d \in Caller \ {c} : kept'[d] \subseteq kept[d] /\ shown'[d] \subseteq shown[d]
    BY <1>17 DEF Delete, Seen
  <2>2. PICK new : Goto(c, new) /\ Listing(new, versions', nextId', kept'[c], shown'[c])
    BY <1>1, <1>17, TriedStep
  <2> QED
    BY <1>3, <2>1, <2>2
<1>18. ASSUME NEW c \in Caller, DeleteUnanswered(c) \/ UpdateUnanswered(c) PROVE ListingInv'
  BY <1>2, <1>18 DEF DeleteUnanswered, UpdateUnanswered
<1>19. Other => ListingInv'
  BY <1>2 DEF Other
<1>20. CASE UNCHANGED vars
  BY <1>2, <1>20 DEF vars, historyVars
<1> QED
  BY <1>7, <1>9, <1>10, <1>11, <1>12, <1>13, <1>15, <1>16, <1>17, <1>18, <1>19, <1>20 DEF Next, Step

\* At the start nobody lists.
LEMMA ListingInit == Init => ListingInv
<1> SUFFICES ASSUME Init PROVE ListingInv
  OBVIOUS
<1>1. /\ call = [c \in Caller |-> Idle] /\ kept = [c \in Caller |-> {}] /\ shown = [c \in Caller |-> {}]
      /\ nextId \in Nat /\ 0 < nextId
  BY PlanAssumption, BoundsAssumption DEF Init
<1>2. HistoryInv
  BY <1>1 DEF HistoryInv
<1>3. Idle.op \notin Sweeps /\ Idle.delimited = FALSE /\ Idle.cursor = NoCursor
  BY DEF Idle, Sweeps, Paginators
<1>4. CursorOk(Idle, nextId)
  <2>1. Idle.delimited \in BOOLEAN /\ Idle.cursor = NoCursor
    BY <1>3
  <2> QED
    BY <1>1, <2>1, NoCursorOk
<1>5. \A c \in Caller : Listing(Idle, versions, nextId, kept[c], shown[c])
  BY <1>3, <1>4, NoSweep
<1> QED
  BY <1>1, <1>2, <1>5 DEF ListingInv

\* Whatever is pushed, deleted or hidden between two pages, a listing that ended has given every
\* version or visible name that was there all the time, or its folder, and deleteAll has told of
\* every version it has left (paginatePages, deleteAll).
THEOREM NothingIsMissed == Spec => []ListingMissesNothing
<1>1. ASSUME ListingInv PROVE ListingMissesNothing
  <2> SUFFICES ASSUME NEW c \in Caller, call[c].at = "done"
               PROVE  /\ call[c].op = "deleteAll" => kept[c] \subseteq call[c].failed
                      /\ call[c].op = "paginateFileVersions" =>
                            {EntryOf(r) : r \in Rows({v \in versions : v.id \in kept[c]}, call[c].delimited)}
                               \subseteq call[c].seen
                      /\ call[c].op = "paginateFileNames" =>
                            \A n \in shown[c] : \E e \in call[c].seen : e.name = Listed(n, call[c].delimited)
    BY DEF ListingMissesNothing, Listed
  <2>1. PICK my : my = call[c]
    OBVIOUS
  <2>2. Listing(my, versions, nextId, kept[c], shown[c]) /\ kept[c] \subseteq Ids(versions)
    BY <1>1, <2>1 DEF ListingInv, HistoryInv
  <2>3. my.op = "deleteAll" => kept[c] \subseteq my.failed
    BY <2>1, <2>2 DEF Listing, AllTried, Ids
  <2>4. my.op = "paginateFileVersions" =>
            \A v \in versions : v.id \in kept[c] => EntryOf(Row(v, my.delimited)) \in my.seen
    BY <2>1, <2>2 DEF Listing, VersionsTold
  <2>5. my.op = "paginateFileNames" => \A n \in shown[c] : \E e \in my.seen : e.name = Listed(n, my.delimited)
    BY <2>1, <2>2 DEF Listing, NamesTold
  <2>6. my.op = "paginateFileVersions" =>
            {EntryOf(r) : r \in Rows({v \in versions : v.id \in kept[c]}, my.delimited)} \subseteq my.seen
    BY <2>4 DEF Rows
  <2> QED
    BY <2>1, <2>3, <2>5, <2>6
<1>2. IInv /\ ListingInv /\ [Next]_vars => IInv' /\ ListingInv'
  BY NextStep, ListingStep
<1> QED
  BY <1>1, <1>2, InitIInv, ListingInit, PTL DEF Spec
=============================================================================
