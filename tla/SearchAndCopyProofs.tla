------------------------ MODULE SearchAndCopyProofs -------------------------
(***************************************************************************)
(* Theorems of the two calls that work on the server's large files over    *)
(* several requests: the search for an upload to resume, and the large     *)
(* copy.  Each part first says what a step of the service may do to what   *)
(* the call rests on (LargeTurn, the World of a copy), then that each      *)
(* request of the call keeps its invariant.                                *)
(***************************************************************************)
EXTENDS ServiceProofs

\* Of finitely many things one has the greatest of the numbers they are given.
LEMMA GreatestOf ==
    ASSUME NEW S, IsFiniteSet(S), S # {}, NEW g, \A x \in S : g[x] \in Nat
    PROVE  \E x \in S : \A y \in S : g[y] <= g[x]
<1> DEFINE Above(x) == {y \in S : g[x] < g[y]}
<1> PICK h : h = [x \in S |-> Cardinality(Above(x))]
  OBVIOUS
<1>1. \A x \in S : IsFiniteSet(Above(x))
  BY FS_Subset
<1>2. \A x \in S : h[x] \in Nat
  BY <1>1, FS_CardinalityType
<1>3. PICK x \in S : \A y \in S : h[x] <= h[y]
  BY <1>2, LeastOf
<1>4. ASSUME NEW y \in S, g[x] < g[y] PROVE FALSE
  <2>1. Above(y) \subseteq Above(x) /\ y \in Above(x) /\ y \notin Above(y)
    BY <1>4
  <2>2. Cardinality(Above(y)) <= Cardinality(Above(x)) /\ Cardinality(Above(y)) # Cardinality(Above(x))
    BY <1>1, <2>1, FS_Subset
  <2>3. h[y] < h[x]
    BY <1>2, <2>2
  <2>4. h[x] <= h[y] /\ h[x] \in Nat /\ h[y] \in Nat
    BY <1>2, <1>3
  <2> QED
    BY ONLY <2>3, <2>4
<1> QED
  BY <1>4

\* A page has what has fewer than so many before it: all of it comes before the rest.
LEMMA PageBefore ==
    ASSUME NEW S, IsFiniteSet(S), NEW g, \A x \in S : g[x] \in Nat, NEW size \in Int,
           NEW p \in S, Cardinality({x \in S : g[x] < g[p]}) < size,
           NEW r \in S, ~ (Cardinality({x \in S : g[x] < g[r]}) < size)
    PROVE  g[p] < g[r]
<1>1. SUFFICES ASSUME g[r] <= g[p] PROVE FALSE
  OBVIOUS
<1>2. {x \in S : g[x] < g[r]} \subseteq {x \in S : g[x] < g[p]}
  BY <1>1
<1>3. IsFiniteSet({x \in S : g[x] < g[p]}) /\ IsFiniteSet({x \in S : g[x] < g[r]})
  BY FS_Subset
<1>4. Cardinality({x \in S : g[x] < g[r]}) <= Cardinality({x \in S : g[x] < g[p]})
  BY <1>2, <1>3, FS_Subset
<1> QED
  BY <1>3, <1>4, FS_CardinalityType

-----------------------------------------------------------------------------
(* The large files.                                                        *)

\* A large file is known by its number among those that were added, and has numbered parts.
Numbered(l) == IsFiniteSet(DOMAIN l.parts) /\ DOMAIN l.parts \subseteq Nat \ {0} /\ l.since \in Nat
Parted(l) == l.parts = [n \in DOMAIN l.parts |-> l.parts[n]]

\* The large files there were are remembered, those that are started will be new, and parts are
\* on their way to a number.
RememberedInv ==
    /\ IsFiniteSet(DOMAIN largeFiles)
    /\ \A i \in DOMAIN largeFiles : i \in Nat /\ i < nextId /\ Numbered(largeFiles[i]) /\ Parted(largeFiles[i])
    /\ \A f, g \in unfinished : f.id = g.id => f = g

ComingInv ==
    \A s \in Slot :
        /\ waiting[s].op = "part" => waiting[s].number \in Nat \ {0}
        /\ waiting[s].op = "start" =>
              /\ waiting[s].file.id \in Nat /\ waiting[s].file.id < nextId
              /\ waiting[s].file.id \notin DOMAIN largeFiles
              /\ \A x \in Slot : waiting[x].op = "start" /\ waiting[x].file.id = waiting[s].file.id => x = s

LargesInv == May("contents") => RememberedInv /\ ComingInv

\* A large file keeps what it was started with.
Kept(old, new) == new.since = old.since /\ new.content = old.content /\ new.info = old.info

\* A step leaves the large files there are, and adds but new ones.
LargeTurn ==
    /\ \A i \in DOMAIN largeFiles : i \in DOMAIN largeFiles' /\ Kept(largeFiles[i], largeFiles'[i])
    /\ \A f \in unfinished' : f \in unfinished \/ f.id \notin DOMAIN largeFiles

\* A step that starts no large file and stores no part.
LEMMA SameLargeTurn == ASSUME largeFiles' = largeFiles, unfinished' \subseteq unfinished PROVE LargeTurn
BY DEF LargeTurn, Kept

\* A handler that is neither of a start nor of a part changes nothing for those that are.
NoNewPart == \A s \in Slot : waiting'[s].op = "part" => waiting'[s].number \in Nat \ {0}

LEMMA SameRemembered ==
    ASSUME RememberedInv, ComingInv, UNCHANGED <<plan, largeFiles>>, unfinished' \subseteq unfinished,
           nextId \in Nat, nextId' \in Nat, nextId <= nextId', NoNewStart, NoNewPart
    PROVE  RememberedInv' /\ ComingInv' /\ LargeTurn
<1>1. RememberedInv'
  BY DEF RememberedInv, Numbered, Parted
<1>2. Slot' = Slot
  BY DEF Slot
<1>3. ComingInv'
  <2> SUFFICES ASSUME NEW s \in Slot
               PROVE  /\ waiting'[s].op = "part" => waiting'[s].number \in Nat \ {0}
                      /\ waiting'[s].op = "start" =>
                            /\ waiting'[s].file.id \in Nat /\ waiting'[s].file.id < nextId'
                            /\ waiting'[s].file.id \notin DOMAIN largeFiles'
                            /\ \A x \in Slot : waiting'[x].op = "start" /\ waiting'[x].file.id = waiting'[s].file.id => x = s
    BY <1>2 DEF ComingInv
  <2>1. waiting'[s].op = "part" => waiting'[s].number \in Nat \ {0}
    BY DEF NoNewPart
  <2>2. ASSUME waiting'[s].op = "start"
        PROVE  /\ waiting'[s].file.id \in Nat /\ waiting'[s].file.id < nextId'
               /\ waiting'[s].file.id \notin DOMAIN largeFiles'
               /\ \A x \in Slot : waiting'[x].op = "start" /\ waiting'[x].file.id = waiting'[s].file.id => x = s
    <3>1. waiting'[s] = waiting[s] /\ \A x \in Slot : waiting'[x].op = "start" => waiting'[x] = waiting[x]
      BY <2>2 DEF NoNewStart
    <3>2. /\ waiting[s].file.id \in Nat /\ waiting[s].file.id < nextId
          /\ waiting[s].file.id \notin DOMAIN largeFiles
          /\ \A x \in Slot : waiting[x].op = "start" /\ waiting[x].file.id = waiting[s].file.id => x = s
      BY <2>2, <3>1 DEF ComingInv
    <3>3. waiting'[s].file.id < nextId'
      BY <3>1, <3>2
    <3> QED
      BY <3>1, <3>2, <3>3
  <2> QED
    BY <2>1, <2>2
<1> QED
  BY <1>1, <1>3, SameLargeTurn

\* What the handlers that come and go are.
LEMMA PartsWaiting ==
    ASSUME SlotsInv, ComingInv, plan' = plan
    PROVE  /\ waiting' = waiting => NoNewPart
           /\ OnlyIssues => NoNewPart
           /\ \A s \in Slot : Leave(s) => NoNewPart
           /\ \A handler : Enter(handler) /\ (handler.op = "part" => handler.number \in Nat \ {0}) => NoNewPart
<1>1. NoHandler.op = "none"
  BY DEF NoHandler
<1>2. \A s \in Slot : waiting[s].op = "part" => waiting[s].number \in Nat \ {0}
  BY DEF ComingInv
<1>3. OnlyIssues => NoNewPart
  BY <1>2 DEF OnlyIssues, NoNewPart
<1>4. ASSUME NEW s \in Slot, Leave(s) PROVE NoNewPart
  BY <1>1, <1>2, <1>4, LeaveFrame DEF NoNewPart
<1>5. ASSUME NEW handler, Enter(handler), handler.op = "part" => handler.number \in Nat \ {0} PROVE NoNewPart
  <2>1. PICK slot \in Slot : waiting'[slot] = handler /\ \A s \in Slot : s # slot => waiting'[s] = waiting[s]
    BY <1>5, EnterFrame
  <2> QED
    BY <1>2, <1>5, <2>1 DEF NoNewPart
<1> QED
  BY <1>2, <1>3, <1>4, <1>5 DEF NoNewPart

\* A large file is started: its handler has a new id.
LEMMA StartRemembered ==
    ASSUME SlotsInv, nextId \in Nat, RememberedInv, ComingInv, NEW t, NEW b, NEW name, NEW start,
           StartLargeContents(t, b, name, start)
    PROVE  RememberedInv' /\ ComingInv' /\ LargeTurn
<1>1. /\ UNCHANGED <<plan, largeFiles, unfinished>> /\ nextId' = nextId + 1
      /\ Enter([op |-> "start", file |-> File(nextId, b, name)])
  BY DEF StartLargeContents, StartLargeFile, bucketVars, Take
<1>2. RememberedInv'
  BY <1>1 DEF RememberedInv, Numbered, Parted
<1>3. PICK handler : handler = [op |-> "start", file |-> File(nextId, b, name)]
  OBVIOUS
<1>4. handler.op = "start" /\ handler.file.id = nextId
  BY <1>3, NewId
<1>5. PICK slot \in Slot : waiting'[slot] = handler /\ \A s \in Slot : s # slot => waiting'[s] = waiting[s]
  BY <1>1, <1>3, EnterFrame
<1>6. nextId \notin DOMAIN largeFiles /\ \A s \in Slot : waiting[s].op = "start" => waiting[s].file.id # nextId
  BY DEF RememberedInv, ComingInv
<1>7. Slot' = Slot
  BY <1>1 DEF Slot
<1>8. ASSUME NEW s \in Slot
      PROVE  /\ waiting'[s].op = "part" => waiting'[s].number \in Nat \ {0}
             /\ waiting'[s].op = "start" =>
                   /\ waiting'[s].file.id \in Nat /\ waiting'[s].file.id < nextId'
                   /\ waiting'[s].file.id \notin DOMAIN largeFiles'
                   /\ \A x \in Slot : waiting'[x].op = "start" /\ waiting'[x].file.id = waiting'[s].file.id => x = s
  <2>1. CASE s = slot
    BY <1>1, <1>4, <1>5, <1>6, <2>1
  <2>2. CASE s # slot
    <3>1. /\ waiting[s].op = "part" => waiting[s].number \in Nat \ {0}
          /\ waiting[s].op = "start" =>
                /\ waiting[s].file.id \in Nat /\ waiting[s].file.id < nextId
                /\ waiting[s].file.id \notin DOMAIN largeFiles
                /\ \A x \in Slot : waiting[x].op = "start" /\ waiting[x].file.id = waiting[s].file.id => x = s
      BY DEF ComingInv
    <3> QED
      BY <1>1, <1>4, <1>5, <1>6, <2>2, <3>1
  <2> QED
    BY <2>1, <2>2
<1>9. ComingInv'
  BY <1>7, <1>8 DEF ComingInv
<1> QED
  BY <1>1, <1>2, <1>9, SameLargeTurn

\* A large file is added.
LEMMA AddRemembered ==
    ASSUME SlotsInv, nextId \in Nat, LargeInv, RememberedInv, ComingInv, NEW s \in Slot, AddLargeContents(s)
    PROVE  RememberedInv' /\ ComingInv' /\ LargeTurn
<1>1. PICK l, file :
         /\ l = [since |-> Cardinality(DOMAIN largeFiles), content |-> arriving[s].content,
                  info |-> arriving[s].info, parts |-> <<>>]
         /\ file = waiting[s].file /\ waiting[s].op = "start"
         /\ largeFiles' = With(largeFiles, file.id, l)
         /\ unfinished' = unfinished \cup {file}
  BY DEF AddLargeContents, AddLargeFile
<1>2. largeFiles' = [i \in DOMAIN largeFiles \cup {file.id} |-> IF i = file.id THEN l ELSE largeFiles[i]]
  BY <1>1 DEF With
<1>3. UNCHANGED <<plan, nextId>> /\ Leave(s)
  BY DEF AddLargeContents, AddLargeFile
<1>4. /\ file.id \in Nat /\ file.id < nextId /\ file.id \notin DOMAIN largeFiles
      /\ \A x \in Slot : waiting[x].op = "start" /\ waiting[x].file.id = file.id => x = s
  BY <1>1 DEF ComingInv
<1>5. DOMAIN largeFiles' = DOMAIN largeFiles \cup {file.id} /\ IsFiniteSet(DOMAIN largeFiles')
  BY <1>2, FS_AddElement DEF RememberedInv
<1>6. Numbered(l) /\ Parted(l)
  <2>1. Cardinality(DOMAIN largeFiles) \in Nat
    BY FS_CardinalityType DEF RememberedInv
  <2>2. l.parts = <<>> /\ l.since \in Nat
    BY <1>1, <2>1
  <2>3. DOMAIN l.parts = {} /\ l.parts = [i \in DOMAIN l.parts |-> l.parts[i]]
    BY <2>2
  <2> QED
    BY <2>2, <2>3, FS_EmptySet DEF Numbered, Parted
<1>7. \A i \in DOMAIN largeFiles' : i \in Nat /\ i < nextId' /\ Numbered(largeFiles'[i]) /\ Parted(largeFiles'[i])
  BY <1>2, <1>3, <1>4, <1>5, <1>6 DEF RememberedInv
<1>8. \A f \in unfinished : f.id # file.id
  BY <1>4 DEF LargeInv
<1>9. \A f, g \in unfinished' : f.id = g.id => f = g
  BY <1>1, <1>8 DEF RememberedInv
<1>10. RememberedInv'
  BY <1>5, <1>7, <1>9 DEF RememberedInv, Numbered, Parted
<1>11. LargeTurn
  BY <1>1, <1>2, <1>4, <1>5 DEF LargeTurn, Kept
<1>12. ComingInv'
  <2>1. Slot' = Slot /\ NoHandler.op = "none"
    BY <1>3 DEF Slot, NoHandler
  <2>2. \A x \in Slot : x # s => waiting'[x] = waiting[x]
    BY <1>3, LeaveFrame
  <2>3. waiting'[s].op = "none"
    BY <1>3, <2>1, LeaveFrame
  <2>4. \A x \in Slot : waiting[x].op = "start" /\ x # s => waiting[x].file.id # file.id
    BY <1>4
  <2> QED
    BY <1>3, <1>5, <2>1, <2>2, <2>3, <2>4 DEF ComingInv
<1> QED
  BY <1>10, <1>11, <1>12

\* A part is stored.
LEMMA StorePartRemembered ==
    ASSUME SlotsInv, nextId \in Nat, LargeInv, RememberedInv, ComingInv, NEW s \in Slot, StorePart(s)
    PROVE  RememberedInv' /\ ComingInv' /\ LargeTurn
<1> PICK f : f = waiting[s].file
  OBVIOUS
<1>1. UNCHANGED <<plan, nextId, unfinished>> /\ Leave(s) /\ waiting[s].op = "part"
  BY DEF StorePart, SameStorage, bucketVars
<1>2. NoNewStart /\ NoNewPart
  BY <1>1, NoStartLeft, PartsWaiting
<1>3. CASE f \notin unfinished
  <2>1. largeFiles' = largeFiles
    BY <1>3 DEF StorePart
  <2> QED
    BY <1>1, <1>2, <2>1, SameRemembered
<1>4. CASE f \in unfinished
  <2>1. PICK old, parts, n, new :
           /\ old = largeFiles[f.id] /\ n = waiting[s].number /\ parts = With(old.parts, n, arriving[s].content)
           /\ new = [old EXCEPT !.parts = parts]
           /\ largeFiles' = [largeFiles EXCEPT ![f.id] = new]
    BY <1>4 DEF StorePart
  <2>2. f.id \in DOMAIN largeFiles /\ Unfinished(old)
    BY <1>4, <2>1 DEF LargeInv
  <2>3. new = [since |-> old.since, content |-> old.content, info |-> old.info, parts |-> parts]
    BY <2>1, <2>2 DEF Unfinished
  <2>4. n \in Nat \ {0} /\ Numbered(old)
    BY <1>1, <2>1, <2>2 DEF ComingInv, RememberedInv
  <2>5. DOMAIN parts = DOMAIN old.parts \cup {n}
    BY <2>1 DEF With
  <2>6. Numbered(new) /\ Parted(new) /\ Kept(old, new)
    <3>1. IsFiniteSet(DOMAIN parts)
      BY <2>4, <2>5, FS_AddElement DEF Numbered
    <3>2. parts = [i \in DOMAIN parts |-> parts[i]]
      BY <2>1 DEF With
    <3> QED
      BY <2>3, <2>4, <2>5, <3>1, <3>2 DEF Numbered, Parted, Kept
  <2>7. largeFiles' = [i \in DOMAIN largeFiles |-> IF i = f.id THEN new ELSE largeFiles[i]]
    BY <2>1 DEF LargeInv
  <2>8. \A i \in DOMAIN largeFiles : i \in DOMAIN largeFiles' /\ Kept(largeFiles[i], largeFiles'[i])
    BY <2>1, <2>6, <2>7 DEF Kept
  <2>9. DOMAIN largeFiles' = DOMAIN largeFiles
    BY <2>7
  <2>10. \A i \in DOMAIN largeFiles' : i \in Nat /\ i < nextId' /\ Numbered(largeFiles'[i]) /\ Parted(largeFiles'[i])
    BY <1>1, <2>6, <2>7, <2>9 DEF RememberedInv
  <2>11. RememberedInv'
    BY <1>1, <2>9, <2>10 DEF RememberedInv, Numbered, Parted
  <2>12. LargeTurn
    BY <1>1, <2>8 DEF LargeTurn
  <2>13. ComingInv'
    <3>1. Slot' = Slot
      BY <1>1 DEF Slot
    <3> QED
      BY <1>1, <1>2, <2>9, <3>1 DEF ComingInv, NoNewStart, NoNewPart
  <2> QED
    BY <2>11, <2>12, <2>13
<1> QED
  BY <1>3, <1>4

\* Every turn of the files remembers the large files.
LEMMA LargesTurn ==
    ASSUME SlotsInv, nextId \in Nat, LargeInv, RememberedInv, ComingInv, FileTurn, plan' = plan
    PROVE  RememberedInv' /\ ComingInv' /\ LargeTurn
<1>1. ASSUME CalmFiles PROVE RememberedInv' /\ ComingInv' /\ LargeTurn
  BY <1>1, PartsWaiting, SameRemembered DEF CalmFiles
<1>2. ASSUME NEW u, NEW name, NEW put, PutFile(u, name, put) PROVE RememberedInv' /\ ComingInv' /\ LargeTurn
  <2>1. PICK handler : handler.op = "store" /\ Enter(handler)
    BY <1>2 DEF PutFile, UploadFile
  <2>2. UNCHANGED <<plan, largeFiles, unfinished, nextId>>
    BY <1>2 DEF PutFile, UploadFile, bucketVars
  <2> QED
    BY <2>1, <2>2, OtherThanStart, PartsWaiting, SameRemembered
<1>3. ASSUME NEW t, NEW f, NEW b, NEW name, NEW copy, CopyContents(t, f, b, name, copy)
      PROVE  RememberedInv' /\ ComingInv' /\ LargeTurn
  <2>1. PICK handler : handler.op = "store" /\ Enter(handler)
    BY <1>3 DEF CopyContents, CopyFile
  <2>2. UNCHANGED <<plan, largeFiles, unfinished, nextId>>
    BY <1>3 DEF CopyContents, CopyFile, bucketVars
  <2> QED
    BY <2>1, <2>2, OtherThanStart, PartsWaiting, SameRemembered
<1>4. ASSUME NEW t, NEW f, NEW b, NEW name, NEW listed, NEW hold,
             HideContents(t, b, name) \/ Retain(t, f) \/ SetHold(t, f, hold) \/ FinishContents(t, f, listed)
      PROVE  RememberedInv' /\ ComingInv' /\ LargeTurn
  <2>1. UNCHANGED <<plan, largeFiles, waiting>> /\ unfinished' \subseteq unfinished /\ nextId' \in Nat /\ nextId <= nextId'
    BY <1>4, Taken DEF HideContents, HideFile, Retain, SetHold, FinishContents, FinishLargeFile, storageVars, bucketVars
  <2> QED
    BY <2>1, StillNoStart, PartsWaiting, SameRemembered
<1>5. ASSUME NEW f, NEW caps, NEW method, NEW range, NEW headers, Answer(f, caps, method, range, headers)
      PROVE  RememberedInv' /\ ComingInv' /\ LargeTurn
  <2>1. UNCHANGED <<plan, largeFiles, waiting, unfinished, nextId>>
    BY <1>5 DEF Answer, storageVars, bucketVars
  <2> QED
    BY <2>1, StillNoStart, PartsWaiting, SameRemembered
<1>6. ASSUME NEW n \in Nat \ {0}, NEW t, NEW source, NEW f, NEW copy, NEW put,
             CopyPart(t, source, f, n, copy) \/ PutPart(f, n, put)
      PROVE  RememberedInv' /\ ComingInv' /\ LargeTurn
  <2>1. PICK handler : handler.op = "part" /\ handler.number = n /\ Enter(handler)
    BY <1>6 DEF CopyPart, PutPart
  <2>2. UNCHANGED <<plan, largeFiles, unfinished, nextId>>
    BY <1>6 DEF CopyPart, PutPart, SameStorage, bucketVars
  <2> QED
    BY <2>1, <2>2, OtherThanStart, PartsWaiting, SameRemembered
<1>7. ASSUME NEW s \in Slot, StoreContents(s) \/ RefuseArrival(s) PROVE RememberedInv' /\ ComingInv' /\ LargeTurn
  <2>1. UNCHANGED <<plan, largeFiles, unfinished>> /\ Leave(s) /\ nextId' \in Nat /\ nextId <= nextId'
    BY <1>7, Taken DEF StoreContents, StoreFile, RefuseArrival, bucketVars
  <2> QED
    BY <2>1, NoStartLeft, PartsWaiting, SameRemembered
<1> QED
  BY <1>1, <1>2, <1>3, <1>4, <1>5, <1>6, <1>7, StartRemembered, AddRemembered, StorePartRemembered DEF FileTurn

\* Every step keeps the invariant of the large files.
LEMMA LargesStep ==
    ASSUME UrlInv, FilesInv, LargesInv, [Next]_vars
    PROVE  LargesInv' /\ (May("contents") => LargeTurn)
<1>1. SlotsInv /\ nextId \in Nat /\ plan' = plan
  BY PlanStays DEF UrlInv, ClockInv
<1>2. CASE May("contents")
  BY <1>1, <1>2, FileStep, LargesTurn DEF FilesInv, LargesInv
<1> QED
  BY <1>1, <1>2 DEF LargesInv, May

LEMMA LargesInit == Init => LargesInv
<1> SUFFICES ASSUME Init PROVE RememberedInv /\ ComingInv
  BY DEF LargesInv
<1>1. largeFiles = <<>> /\ unfinished = {} /\ \A s \in Slot : waiting[s] = NoHandler
  BY DEF Init, ServiceInit, ContentInit
<1>2. DOMAIN largeFiles = {} /\ NoHandler.op = "none"
  BY <1>1 DEF NoHandler
<1> QED
  BY <1>1, <1>2, FS_EmptySet DEF RememberedInv, ComingInv

-----------------------------------------------------------------------------
(* What a search finds.                                                    *)

SearchShape(c) ==
    c = [phase |-> c.phase, token |-> c.token, bucket |-> c.bucket, want |-> c.want, cursor |-> c.cursor,
         pages |-> c.pages, listed |-> c.listed, matches |-> c.matches, limits |-> c.limits,
         inspected |-> c.inspected, candidate |-> c.candidate, number |-> c.number, parts |-> c.parts,
         steady |-> c.steady]

\* What is asked for, how it is listed, whether it has been, and whether it will be.
Asked(i) == search.want.explicit \in {None, i}
Seen(i) == ListedFile(i, search.token.caps)
HasRow(i) == \E m \in search.matches : m.file = Seen(i)
StillComes(i) == \/ search.cursor \notin IdsIn(search.bucket)
                 \/ largeFiles[search.cursor].since <= largeFiles[i].since

Wanted(i) == i \in search.steady /\ Asked(i) /\ Resumable(i)

RowsInv ==
    /\ IsFiniteSet(search.matches) /\ search.listed \in Nat
    /\ \A m \in search.matches :
          /\ m = Row(m.sequence, m.file) /\ m.sequence \in Nat /\ m.sequence < search.listed
          /\ m.file.id \in Nat
          /\ m.file.id \in search.steady => m.file = Seen(m.file.id)
    /\ \A m, n \in search.matches : m.file.id = n.file.id /\ m.sequence = n.sequence => m = n

\* All that is steady has been listed or is to come ...
ScanInv ==
    /\ search.want.explicit # None => search.cursor = search.want.explicit
    /\ search.want.explicit = None => search.cursor = None \/ search.cursor \in DOMAIN largeFiles
    /\ \A i \in search.steady : Asked(i) => HasRow(i) \/ StillComes(i)

\* ... what could be resumed is among the candidates that are left ...
ChoosingInv == search.limits = {} => \A i : Wanted(i) => HasRow(i)

\* ... or is the one that is looked into, whose parts have been read up to a number.
ReadParts == LET there == largeFiles[search.candidate].parts
             IN  search.parts = [n \in {x \in DOMAIN there : x < search.number} |-> there[n]]

PartsInv ==
    /\ search.candidate \in Nat /\ search.number \in Nat
    /\ \A m \in search.matches : m.file.id <= search.candidate
    /\ search.candidate \in search.steady => Fits(Seen(search.candidate), search.want) /\ ReadParts
    /\ search.limits = {} => \A i : Wanted(i) => i = search.candidate \/ HasRow(i)

FoundInv ==
    /\ search.candidate \in search.steady
         => Resumable(search.candidate) /\ search.parts = largeFiles[search.candidate].parts
    /\ search.limits = {} => \A i : Wanted(i) => i <= search.candidate

Searching ==
    /\ SearchShape(search) /\ search.want \in plan.wants
    /\ search.steady \subseteq IdsIn(search.bucket)
    /\ RowsInv
    /\ search.phase = "listing" => ScanInv
    /\ search.phase = "choosing" => ChoosingInv
    /\ search.phase = "parts" => PartsInv
    /\ search.phase = "found" => FoundInv
    /\ search.phase = "none" /\ search.limits = {} => \A i : ~ Wanted(i)

SearchInv == search # NoSearch => May("contents") /\ Searching

\* What the invariant says of a search that has ended is the property.
LEMMA SearchIsRight == ASSUME SearchInv PROVE ResumeFindsTheNewest
<1> SUFFICES ASSUME search # NoSearch PROVE ResumeFindsTheNewest
  BY DEF ResumeFindsTheNewest
<1>1. Searching
  BY DEF SearchInv
<1>2. search.phase = "found" /\ search.candidate \in search.steady
         => Resumable(search.candidate) /\ search.parts = largeFiles[search.candidate].parts
  BY <1>1 DEF Searching, FoundInv
<1>3. ASSUME search.phase \in {"found", "none"}, search.limits = {}, NEW i \in search.steady,
             Resumable(i), search.want.explicit \in {None, i}
      PROVE  search.phase = "found" /\ i <= search.candidate
  BY <1>1, <1>3 DEF Searching, FoundInv, Wanted, Asked
<1> QED
  BY <1>2, <1>3 DEF ResumeFindsTheNewest

\* What is listed of a large file is what it was started with, and its id.
LEMMA SeenAre ==
    ASSUME NEW i, NEW caps
    PROVE  /\ ListedFile(i, caps).id = i
           /\ i \in DOMAIN largeFiles /\ largeFiles'[i] = largeFiles[i] => ListedFile(i, caps)' = ListedFile(i, caps)
BY DEF ListedFile

\* The others change large files under the search.
LEMMA SteadyKeeps ==
    ASSUME LargeInv, RememberedInv, RememberedInv', LargeTurn, plan' = plan, search # NoSearch, Searching,
           FileIdsInv', search' = SteadyAfter
    PROVE  search' # NoSearch /\ Searching'
<1> PICK steady : steady = {i \in search.steady : /\ largeFiles'[i] = largeFiles[i]
                                                  /\ \E f \in unfinished' : f.id = i /\ f.bucket = search.bucket}
  OBVIOUS
<1>1. search' = [search EXCEPT !.steady = steady]
  BY DEF SteadyAfter
<1>2. /\ SearchShape(search') /\ search'.steady = steady /\ search'.phase = search.phase /\ search'.token = search.token
      /\ search'.bucket = search.bucket /\ search'.want = search.want /\ search'.cursor = search.cursor
      /\ search'.listed = search.listed /\ search'.matches = search.matches /\ search'.limits = search.limits
      /\ search'.candidate = search.candidate /\ search'.number = search.number /\ search'.parts = search.parts
  BY <1>1 DEF Searching, SearchShape
<1>3. search' # NoSearch
  <2>1. search.steady \subseteq search.steady
    OBVIOUS
  <2> QED
    BY <1>1 DEF Searching, SearchShape, NoSearch
<1>4. \A i \in steady : i \in search.steady /\ i \in DOMAIN largeFiles /\ largeFiles'[i] = largeFiles[i]
  BY DEF Searching, IdsIn, LargeInv
<1>5. steady \subseteq IdsIn(search.bucket)'
  BY <1>2 DEF IdsIn
<1>6. \A i \in steady : Seen(i)' = Seen(i) /\ (Resumable(i)' <=> Resumable(i)) /\ (Asked(i)' <=> Asked(i))
  BY <1>2, <1>4, SeenAre DEF Seen, Resumable, Asked
<1>7. \A i \in steady : HasRow(i) => HasRow(i)'
  BY <1>2, <1>6 DEF HasRow
<1>8. \A i : Wanted(i)' => Wanted(i) /\ i \in steady
  BY <1>2, <1>4, <1>6 DEF Wanted
<1>9. RowsInv'
  <2>1. RowsInv
    BY DEF Searching
  <2> QED
    BY <1>2, <1>4, <1>6, <2>1 DEF RowsInv
<1>10. search.phase = "listing" => ScanInv'
  <2> SUFFICES ASSUME ScanInv PROVE ScanInv'
    BY DEF Searching
  <2>1. search.cursor \in DOMAIN largeFiles => search.cursor \in DOMAIN largeFiles'
    BY DEF LargeTurn
  <2>2. ASSUME NEW i \in steady, Asked(i), ~ HasRow(i) PROVE StillComes(i)'
    <3>1. StillComes(i) /\ i \in DOMAIN largeFiles /\ i # None
      BY <1>4, <1>5, <2>2 DEF ScanInv, IdsIn, FileIdsInv
    <3>2. CASE search.want.explicit # None
      <4>1. search.cursor = i
        BY <2>2, <3>2 DEF ScanInv, Asked
      <4>2. i \in DOMAIN largeFiles' /\ largeFiles'[i].since \in Nat
        BY <3>1 DEF LargeTurn, RememberedInv, Numbered
      <4> QED
        BY <1>2, <4>1, <4>2 DEF StillComes
    <3>3. CASE search.want.explicit = None /\ search.cursor = None
      BY <1>2, <3>3 DEF StillComes, IdsIn, FileIdsInv
    <3>4. CASE search.cursor \in DOMAIN largeFiles
      <4>1. CASE search.cursor \notin IdsIn(search.bucket)
        <5>1. search.cursor \notin IdsIn(search.bucket)'
          BY <1>2, <3>4, <4>1 DEF IdsIn, LargeTurn
        <5> QED
          BY <1>2, <5>1 DEF StillComes
      <4>2. CASE search.cursor \in IdsIn(search.bucket)
        <5>1. largeFiles[search.cursor].since <= largeFiles[i].since
          BY <3>1, <4>2 DEF StillComes
        <5> QED
          BY <1>2, <3>1, <3>4, <5>1 DEF StillComes, LargeTurn, Kept
      <4> QED
        BY <4>1, <4>2
    <3> QED
      BY <3>2, <3>3, <3>4 DEF ScanInv
  <2> QED
    BY <1>2, <1>6, <1>7, <2>1, <2>2 DEF ScanInv
<1>11. search.phase = "choosing" => ChoosingInv'
  BY <1>2, <1>7, <1>8 DEF Searching, ChoosingInv
<1>12. search.phase = "parts" => PartsInv'
  <2> SUFFICES ASSUME PartsInv PROVE PartsInv'
    BY DEF Searching
  <2>1. search.candidate \in steady => Fits(Seen(search.candidate), search.want)' /\ ReadParts'
    <3> SUFFICES ASSUME search.candidate \in steady PROVE Fits(Seen(search.candidate), search.want)' /\ ReadParts'
      OBVIOUS
    <3>1. search.candidate \in search.steady /\ largeFiles'[search.candidate] = largeFiles[search.candidate]
      BY <1>4
    <3>2. Seen(search.candidate)' = Seen(search.candidate)
      BY <1>2, <1>6
    <3>3. ReadParts'
      BY <1>2, <3>1 DEF PartsInv, ReadParts
    <3>4. Fits(Seen(search.candidate), search.want)
      BY <3>1 DEF PartsInv
    <3> QED
      BY <1>2, <3>2, <3>3, <3>4 DEF Fits, EncryptionFits, RetentionFits
  <2> QED
    BY <1>2, <1>7, <1>8, <2>1 DEF PartsInv
<1>13. search.phase = "found" => FoundInv'
  <2> SUFFICES ASSUME FoundInv PROVE FoundInv'
    BY DEF Searching
  <2> QED
    BY <1>2, <1>4, <1>6, <1>8 DEF FoundInv
<1>14. search.phase = "none" /\ search.limits = {} => \A i : ~ Wanted(i)'
  BY <1>8 DEF Searching
<1> QED
  BY <1>2, <1>3, <1>5, <1>9, <1>10, <1>11, <1>12, <1>13, <1>14 DEF Searching

\* A search begins: all the large files of the bucket are to come.
LEMMA BeginKeeps ==
    ASSUME RememberedInv, LargeInv, FileIdsInv, plan \in Plan, NEW t, NEW b, NEW want \in plan.wants, BeginSearch(t, b, want)
    PROVE  SearchInv'
<1>1. /\ search'.phase = "listing" /\ search'.bucket = b /\ search'.want = want /\ search'.cursor = want.explicit
      /\ search'.listed = 0 /\ search'.matches = {} /\ search'.steady = IdsIn(b) /\ SearchShape(search')
  BY DEF BeginSearch, SearchShape
<1>2. UNCHANGED <<plan, unfinished, largeFiles>>
  BY DEF BeginSearch, storageVars, bucketVars, contentVars
<1>3. IdsIn(b)' = IdsIn(b)
  BY <1>2 DEF IdsIn
<1>4. RowsInv'
  BY <1>1, FS_EmptySet DEF RowsInv
<1>5. ASSUME NEW i \in IdsIn(b), want.explicit \in {None, i} PROVE StillComes(i)'
  <2>1. i \in DOMAIN largeFiles /\ None \notin IdsIn(b)
    BY DEF LargeInv, FileIdsInv, IdsIn
  <2>2. largeFiles[i].since <= largeFiles[i].since
    BY <2>1 DEF RememberedInv, Numbered
  <2> QED
    BY <1>1, <1>2, <1>3, <1>5, <2>1, <2>2 DEF StillComes
<1>6. ScanInv'
  BY <1>1, <1>5 DEF ScanInv, Asked
<1>7. May("contents")'
  BY <1>2, PlanAssumption DEF May, BeginSearch
<1> QED
  BY <1>1, <1>2, <1>3, <1>4, <1>6, <1>7 DEF SearchInv, Searching

\* A search that fails has found nothing.
LEMMA FailKeeps == ASSUME Searching, SearchFails PROVE Searching'
<1>1. /\ search' = [search EXCEPT !.phase = "failed"] /\ UNCHANGED <<plan, unfinished, largeFiles>>
  BY DEF SearchFails, storageVars, bucketVars, contentVars
<1>2. /\ SearchShape(search') /\ search'.phase = "failed" /\ search'.want = search.want /\ search'.token = search.token
      /\ search'.steady = search.steady /\ search'.bucket = search.bucket
      /\ search'.matches = search.matches /\ search'.listed = search.listed
  BY <1>1 DEF Searching, SearchShape
<1>3. IdsIn(search.bucket)' = IdsIn(search.bucket) /\ \A i : Seen(i)' = Seen(i)
  BY <1>1, <1>2 DEF IdsIn, Seen, ListedFile
<1>4. RowsInv'
  BY <1>2, <1>3 DEF Searching, RowsInv
<1> QED
  BY <1>1, <1>2, <1>3, <1>4 DEF Searching

\* A page of the listing: it lists what comes first, and the next begins with the first of the rest.
LEMMA PageLists ==
    ASSUME LargeInv, RememberedInv, Searching, NEW ids, ids \subseteq DOMAIN largeFiles, NEW cursor,
           NEW page, page = PageFrom(ids, cursor)
    PROVE  /\ page.ids \subseteq ids /\ IsFiniteSet(page.ids)
           /\ \A i \in ids \ page.ids :
                 \/ cursor \in ids /\ largeFiles[i].since < largeFiles[cursor].since
                 \/ /\ page.next \in ids /\ largeFiles[page.next].since <= largeFiles[i].since
                    /\ (search.want.explicit # None => cursor # i)
           /\ page.next # None => page.next \in ids
<1> DEFINE size == IF search.want.explicit # None THEN 1 ELSE PageSize
<1> PICK there : there = IF cursor \in ids THEN ids \ Earlier(ids, cursor) ELSE ids
  OBVIOUS
<1> PICK g : g = [i \in there |-> largeFiles[i].since]
  OBVIOUS
<1> PICK rest : rest = {i \in there : ~ (Cardinality(Earlier(there, i)) < size)}
  OBVIOUS
<1>1. page.ids = {i \in there : Cardinality(Earlier(there, i)) < size} /\ rest = there \ page.ids
  BY DEF PageFrom
<1>2. page.next = IF rest = {} THEN None ELSE Foremost(rest)
  BY <1>1 DEF PageFrom
<1>3. there \subseteq ids /\ IsFiniteSet(there)
  <2>1. IsFiniteSet(ids)
    BY FS_Subset DEF RememberedInv
  <2> QED
    BY <2>1, FS_Subset
<1>4. page.ids \subseteq ids /\ IsFiniteSet(page.ids) /\ IsFiniteSet(rest)
  BY <1>1, <1>3, FS_Subset
<1>5. \A i \in DOMAIN largeFiles : largeFiles[i].since \in Nat
  BY DEF RememberedInv, Numbered
<1>6. rest # {} => page.next \in rest /\ \A i \in rest : largeFiles[page.next].since <= largeFiles[i].since
  <2> SUFFICES ASSUME rest # {} PROVE page.next \in rest /\ \A i \in rest : largeFiles[page.next].since <= largeFiles[i].since
    OBVIOUS
  <2> PICK h : h = [i \in rest |-> largeFiles[i].since]
    OBVIOUS
  <2>1. \A i \in rest : h[i] \in Nat
    BY <1>1, <1>3, <1>5
  <2>3. \E i \in rest : \A j \in rest : h[i] <= h[j]
    BY ONLY <1>4, <2>1, rest # {}, LeastOf
  <2>2. \E i \in rest : \A j \in rest : largeFiles[i].since <= largeFiles[j].since
    BY <2>3
  <2> QED
    BY <1>2, <2>2 DEF Foremost
<1>7. ASSUME NEW i \in ids \ page.ids, ~ (cursor \in ids /\ largeFiles[i].since < largeFiles[cursor].since)
      PROVE  /\ page.next \in ids /\ largeFiles[page.next].since <= largeFiles[i].since
             /\ search.want.explicit # None => cursor # i
  <2>1. i \in there
    BY <1>7 DEF Earlier
  <2>2. i \in rest
    BY <1>1, <1>7, <2>1
  <2>3. ASSUME search.want.explicit # None, cursor = i PROVE FALSE
    <3>1. Earlier(there, i) = {}
      BY <1>3, <1>5, <2>1, <2>3 DEF Earlier
    <3>2. Cardinality(Earlier(there, i)) = 0 /\ size = 1
      BY <2>3, <3>1, FS_EmptySet
    <3> QED
      BY <2>2, <3>2
  <2> QED
    BY <1>3, <1>6, <2>2, <2>3
<1>8. page.next # None => page.next \in ids
  BY <1>2, <1>3, <1>6
<1> QED
  BY <1>4, <1>7, <1>8

RowsShown(c) ==
    /\ IsFiniteSet(c.matches) /\ c.listed \in Nat
    /\ \A m \in c.matches :
          /\ m = Row(m.sequence, m.file) /\ m.sequence \in Nat /\ m.sequence < c.listed
          /\ m.file.id \in Nat
          /\ m.file.id \in search.steady => m.file = Seen(m.file.id)
    /\ \A m, n \in c.matches : m.file.id = n.file.id /\ m.sequence = n.sequence => m = n

\* What is listed are rows of their own, with numbers of their own.
LEMMA RowsSeen ==
    ASSUME RememberedInv, RowsInv, NEW ids, IsFiniteSet(ids), ids \subseteq DOMAIN largeFiles, NEW asked \in SUBSET ids,
           NEW rows, \A m : m \in rows <=> \E id \in asked : m = Row(search.listed + Cardinality(Earlier(ids, id)), Seen(id)),
           NEW c, c.matches = search.matches \cup rows, c.listed = search.listed + Cardinality(ids)
    PROVE  RowsShown(c)
<1>1. ASSUME NEW id \in ids
      PROVE  /\ Cardinality(Earlier(ids, id)) \in Nat /\ Cardinality(Earlier(ids, id)) < Cardinality(ids)
             /\ Seen(id).id = id /\ id \in Nat
  <2>1. Earlier(ids, id) \subseteq ids /\ id \notin Earlier(ids, id)
    BY DEF Earlier, RememberedInv, Numbered
  <2>2. IsFiniteSet(Earlier(ids, id)) /\ Cardinality(Earlier(ids, id)) <= Cardinality(ids)
        /\ Cardinality(Earlier(ids, id)) # Cardinality(ids)
    BY <2>1, FS_Subset
  <2> QED
    BY <2>2, FS_CardinalityType, SeenAre DEF Seen, RememberedInv
<1>2. Cardinality(ids) \in Nat /\ search.listed \in Nat /\ c.listed \in Nat
  BY FS_CardinalityType DEF RowsInv
<1>3. ASSUME NEW m \in rows
      PROVE  /\ m = Row(m.sequence, m.file) /\ m.sequence \in Nat /\ m.sequence < c.listed /\ search.listed <= m.sequence
             /\ m.file.id \in Nat /\ m.file = Seen(m.file.id)
             /\ m.sequence = search.listed + Cardinality(Earlier(ids, m.file.id))
  <2>1. PICK id \in asked : m = Row(search.listed + Cardinality(Earlier(ids, id)), Seen(id))
    OBVIOUS
  <2>2. m.sequence = search.listed + Cardinality(Earlier(ids, id)) /\ m.file = Seen(id) /\ m = Row(m.sequence, m.file)
    BY <2>1 DEF Row
  <2> QED
    BY <1>1, <1>2, <2>2
<1>4. IsFiniteSet(c.matches)
  <2> PICK f : f = [id \in asked |-> Row(search.listed + Cardinality(Earlier(ids, id)), Seen(id))]
    OBVIOUS
  <2>1. f \in Surjection(asked, rows)
    BY DEF Surjection
  <2>2. IsFiniteSet(asked)
    BY FS_Subset
  <2>3. IsFiniteSet(rows) /\ IsFiniteSet(search.matches)
    BY <2>1, <2>2, FS_Surjection DEF RowsInv
  <2>4. IsFiniteSet(search.matches \cup rows)
    BY <2>3, FS_Union
  <2> QED
    BY <2>4
<1>5. \A m \in search.matches : m.sequence \in Nat /\ m.sequence < search.listed
  BY DEF RowsInv
<1>6. ASSUME NEW m \in c.matches
      PROVE  /\ m = Row(m.sequence, m.file) /\ m.sequence \in Nat /\ m.sequence < c.listed
             /\ m.file.id \in Nat
             /\ m.file.id \in search.steady => m.file = Seen(m.file.id)
  <2>1. CASE m \in rows
    BY <1>3, <2>1
  <2>2. CASE m \in search.matches
    BY <1>2, <2>2 DEF RowsInv
  <2> QED
    BY <2>1, <2>2
<1>7. ASSUME NEW m \in c.matches, NEW n \in c.matches, m.file.id = n.file.id, m.sequence = n.sequence PROVE m = n
  <2>1. CASE m \in rows /\ n \in rows
    BY <1>3, <1>7, <2>1
  <2>2. CASE m \in search.matches /\ n \in search.matches
    BY <1>7, <2>2 DEF RowsInv
  <2>3. CASE m \in rows /\ n \in search.matches
    BY <1>2, <1>3, <1>5, <1>7, <2>3
  <2>4. CASE n \in rows /\ m \in search.matches
    BY <1>2, <1>3, <1>5, <1>7, <2>4
  <2> QED
    BY <2>1, <2>2, <2>3, <2>4
<1> QED
  BY <1>2, <1>4, <1>6, <1>7 DEF RowsShown

\* A page of a listing, whichever uploads and parts the server has got meanwhile.
LEMMA ListKeeps == ASSUME LargeInv, RememberedInv, FileIdsInv, Searching, ListPage PROVE Searching'
<1> DEFINE ids == IdsIn(search.bucket)
           page == PageFrom(ids, search.cursor)
           asked == {id \in page.ids : Asked(id)}
           rows == {Row(search.listed + Cardinality(Earlier(page.ids, id)), Seen(id)) : id \in asked}
           more == search.want.explicit = None /\ page.next # None
           last == ~ more \/ search.pages + 1 >= search.want.maxPages
<1>1. search.phase = "listing" /\ UNCHANGED <<plan, unfinished, largeFiles>>
  BY DEF ListPage, storageVars, bucketVars, contentVars
<1>2. search' = [search EXCEPT !.pages = @ + 1,
                               !.listed = @ + Cardinality(page.ids),
                               !.cursor = IF more THEN page.next ELSE @,
                               !.matches = @ \cup rows,
                               !.phase = IF last THEN "choosing" ELSE @,
                               !.limits = IF more /\ last THEN @ \cup {"search-truncated"} ELSE @]
  BY DEF ListPage, Asked, Seen
<1> HIDE DEF ids, page, asked, rows, more, last
<1>3. /\ SearchShape(search') /\ search'.phase = (IF last THEN "choosing" ELSE "listing") /\ search'.want = search.want
      /\ search'.token = search.token /\ search'.steady = search.steady /\ search'.bucket = search.bucket
      /\ search'.matches = search.matches \cup rows /\ search'.listed = search.listed + Cardinality(page.ids)
      /\ search'.cursor = (IF more THEN page.next ELSE search.cursor)
      /\ search'.limits = (IF more /\ last THEN search.limits \cup {"search-truncated"} ELSE search.limits)
  BY <1>1, <1>2 DEF Searching, SearchShape
<1>4. ids \subseteq DOMAIN largeFiles /\ None \notin ids
  BY DEF LargeInv, FileIdsInv, IdsIn, ids
<1>5. /\ page.ids \subseteq ids /\ IsFiniteSet(page.ids)
      /\ \A i \in ids \ page.ids :
            \/ search.cursor \in ids /\ largeFiles[i].since < largeFiles[search.cursor].since
            \/ /\ page.next \in ids /\ largeFiles[page.next].since <= largeFiles[i].since
               /\ (search.want.explicit # None => search.cursor # i)
      /\ page.next # None => page.next \in ids
  <2> PICK i, p, cursor : i = ids /\ p = page /\ cursor = search.cursor
    OBVIOUS
  <2>1. p = PageFrom(i, cursor) /\ i \subseteq DOMAIN largeFiles
    BY <1>4 DEF page
  <2> QED
    BY <2>1, PageLists
<1>6. RowsInv /\ ScanInv
  BY <1>1 DEF Searching
<1>7. (IdsIn(search.bucket))' = ids /\ \A i : Seen(i)' = Seen(i) /\ (Asked(i)' <=> Asked(i)) /\ (Resumable(i)' <=> Resumable(i))
  BY <1>1, <1>3 DEF IdsIn, Seen, ListedFile, Asked, Resumable, ids
<1>8. RowsInv'
  <2>1. page.ids \subseteq DOMAIN largeFiles /\ asked \in SUBSET page.ids
    BY <1>4, <1>5 DEF asked
  <2> PICK c, i, a, r : c = search' /\ i = page.ids /\ a = asked /\ r = rows
    OBVIOUS
  <2>2. c.matches = search.matches \cup rows /\ c.listed = search.listed + Cardinality(page.ids)
    BY <1>3
  <2>3. RowsShown(c)
    <3>1. \A m : m \in r <=> \E id \in a : m = Row(search.listed + Cardinality(Earlier(i, id)), Seen(id))
      BY DEF rows
    <3>2. c.matches = search.matches \cup r /\ c.listed = search.listed + Cardinality(i)
      BY <2>2
    <3>3. IsFiniteSet(i) /\ i \subseteq DOMAIN largeFiles /\ a \in SUBSET i
      BY <1>5, <2>1
    <3> QED
      BY ONLY RememberedInv, <1>6, <3>1, <3>2, <3>3, RowsSeen
  <2> QED
    BY <1>3, <1>7, <2>3 DEF RowsInv, RowsShown
<1>9. ASSUME NEW i \in search.steady, Asked(i), ~ HasRow(i)'
      PROVE  /\ page.next \in ids /\ largeFiles[page.next].since <= largeFiles[i].since
             /\ search.want.explicit = None
  <2>1. i \in ids /\ ~ HasRow(i)
    BY <1>3, <1>7, <1>9 DEF HasRow, Searching, ids
  <2>2. i \notin page.ids
    <3> SUFFICES ASSUME i \in page.ids PROVE FALSE
      OBVIOUS
    <3> PICK row : row = Row(search.listed + Cardinality(Earlier(page.ids, i)), Seen(i))
      OBVIOUS
    <3>1. row \in rows /\ row.file = Seen(i)
      BY <1>9 DEF Row, rows, asked
    <3> QED
      BY <1>3, <1>7, <1>9, <3>1 DEF HasRow
  <2>3. StillComes(i)
    BY <1>6, <1>9, <2>1 DEF ScanInv
  <2>4. ~ (search.cursor \in ids /\ largeFiles[i].since < largeFiles[search.cursor].since)
    BY <1>4, <2>1, <2>3 DEF StillComes, RememberedInv, Numbered, ids
  <2>5. search.want.explicit # None => search.cursor = i
    BY <1>6, <1>9 DEF ScanInv, Asked
  <2> QED
    BY <1>5, <2>1, <2>2, <2>4, <2>5
<1>10. ~ last => ScanInv'
  <2> SUFFICES ASSUME more PROVE ScanInv'
    BY DEF last
  <2>1. search.want.explicit = None /\ search'.cursor = page.next
    BY <1>3 DEF more
  <2>2. page.next \in ids
    BY <1>5 DEF more
  <2> QED
    BY <1>1, <1>3, <1>4, <1>7, <1>9, <2>1, <2>2 DEF ScanInv, StillComes
<1>11. last => ChoosingInv'
  <2> SUFFICES ASSUME last, search'.limits = {}, NEW i, Wanted(i)' PROVE HasRow(i)'
    BY DEF ChoosingInv
  <2>1. i \in search.steady /\ Asked(i)
    BY <1>3, <1>7 DEF Wanted
  <2>2. ~ more
    BY <1>3
  <2> QED
    BY <1>4, <1>9, <2>1, <2>2 DEF more
<1>12. search'.want \in plan'.wants /\ search'.steady \subseteq ids
  BY <1>1, <1>3 DEF Searching, ids
<1>13. IdsIn(search.bucket)' = ids
  BY <1>7
<1>14. search'.phase = "choosing" \/ search'.phase = "listing"
  BY <1>3
<1>15. (search.phase = "listing" => ScanInv)' /\ (search.phase = "choosing" => ChoosingInv)'
  BY <1>3, <1>10, <1>11
<1> QED
  BY <1>3, <1>8, <1>12, <1>13, <1>14, <1>15 DEF Searching

\* A natural number at most and not equal is less.
LEMMA LessThan == \A a, b \in Nat : a <= b /\ a # b => b > a
OBVIOUS

\* Of candidates that differ in their large file or their row there is a newest.
LEMMA NewestRow ==
    ASSUME RowsInv, NEW fitting, fitting \subseteq search.matches, fitting # {}
    PROVE  \E m \in fitting : \A n \in fitting \ {m} : Newer(m, n)
<1>1. IsFiniteSet(fitting) /\ \A m \in fitting : m.file.id \in Nat /\ m.sequence \in Nat
  BY FS_Subset DEF RowsInv
<1> PICK id : id = [m \in fitting |-> m.file.id]
  OBVIOUS
<1>2. PICK top \in fitting : \A n \in fitting : id[n] <= id[top]
  BY <1>1, GreatestOf
<1> PICK same : same = {m \in fitting : m.file.id = top.file.id}
  OBVIOUS
<1>3. IsFiniteSet(same) /\ same # {}
  BY <1>1, <1>2, FS_Subset
<1> PICK rank : rank = [m \in same |-> m.sequence]
  OBVIOUS
<1>4. PICK m \in same : \A n \in same : rank[n] <= rank[m]
  BY <1>1, <1>3, GreatestOf
<1>5. ASSUME NEW n \in fitting \ {m} PROVE Newer(m, n)
  <2>1. m \in fitting /\ n \in fitting /\ n # m
    OBVIOUS
  <2>2. m.file.id \in Nat /\ n.file.id \in Nat /\ m.sequence \in Nat /\ n.sequence \in Nat
    BY <1>1, <2>1
  <2>3. m.file.id = top.file.id /\ n.file.id <= top.file.id
    BY <1>2
  <2>4. CASE n.file.id = top.file.id
    <3>1. n.sequence <= m.sequence
      BY <1>4, <2>4
    <3>2. n.sequence # m.sequence
      BY <2>1, <2>3, <2>4 DEF RowsInv
    <3>3. m.sequence > n.sequence
      BY <2>2, <3>1, <3>2, LessThan
    <3> QED
      BY <2>3, <2>4, <3>3 DEF Newer
  <2>5. CASE n.file.id # top.file.id
    <3>1. m.file.id > n.file.id
      BY <2>2, <2>3, <2>5, LessThan
    <3> QED
      BY <3>1 DEF Newer
  <2> QED
    BY <2>4, <2>5
<1> QED
  BY <1>5

\* A candidate is looked into, or there is none.
LEMMA ChooseKeeps == ASSUME LargeInv, RememberedInv, Searching, Choose PROVE Searching'
<1> DEFINE fitting == {m \in search.matches : Fits(m.file, search.want)}
           newest == CHOOSE m \in fitting : \A n \in fitting \ {m} : Newer(m, n)
<1>1. search.phase = "choosing" /\ UNCHANGED <<plan, unfinished, largeFiles>>
  BY DEF Choose, storageVars, bucketVars, contentVars
<1>2. RowsInv /\ ChoosingInv /\ SearchShape(search)
  BY <1>1 DEF Searching
<1>3. \/ fitting = {} /\ search' = [search EXCEPT !.phase = "none", !.matches = {}]
      \/ search' = [search EXCEPT !.phase = "none", !.matches = {}, !.limits = @ \cup {"candidate-limit"}]
      \/ /\ fitting # {}
         /\ search' = [search EXCEPT !.phase = "parts", !.candidate = newest.file.id,
                                     !.inspected = @ + 1, !.number = 1, !.pages = 0, !.parts = <<>>,
                                     !.matches = {m \in @ : Newer(newest, m)}]
  BY DEF Choose
<1>4. ASSUME NEW i, Wanted(i), search.limits = {}
      PROVE  \E m \in fitting : m.file = Seen(i) /\ m.file.id = i
  BY <1>2, <1>4, SeenAre DEF ChoosingInv, HasRow, Wanted, Resumable, Seen
<1> HIDE DEF fitting, newest
<1>5. /\ SearchShape(search') /\ search'.phase \in {"none", "parts"} /\ search'.want = search.want
      /\ search'.token = search.token /\ search'.steady = search.steady /\ search'.bucket = search.bucket
      /\ search'.listed = search.listed
  BY <1>2, <1>3 DEF SearchShape
<1>6. /\ IdsIn(search.bucket)' = IdsIn(search.bucket)
      /\ \A i : Seen(i)' = Seen(i) /\ (Wanted(i)' <=> Wanted(i))
  BY <1>1, <1>5 DEF IdsIn, Seen, ListedFile, Asked, Resumable, Wanted
<1>7. search'.want \in plan'.wants /\ search'.steady \subseteq IdsIn(search.bucket)'
  BY <1>1, <1>5, <1>6 DEF Searching
<1>8. search'.matches \subseteq search.matches
  <2>1. search'.matches = {} \/ search'.matches = {m \in search.matches : Newer(newest, m)}
    BY <1>2, <1>3 DEF SearchShape
  <2> QED
    BY <2>1
<1>9. RowsInv'
  <2>1. IsFiniteSet(search'.matches)
    BY <1>2, <1>8, FS_Subset DEF RowsInv
  <2> QED
    BY <1>2, <1>5, <1>6, <1>8, <2>1 DEF RowsInv
<1>10. search'.phase = "none" /\ search'.limits = {} => \A i : ~ Wanted(i)'
  <2>1. CASE fitting = {} /\ search' = [search EXCEPT !.phase = "none", !.matches = {}]
    <3>1. search'.limits = search.limits
      BY <1>2, <2>1 DEF SearchShape
    <3> QED
      BY <1>4, <1>6, <2>1, <3>1
  <2>2. CASE search' = [search EXCEPT !.phase = "none", !.matches = {}, !.limits = @ \cup {"candidate-limit"}]
    <3>1. search'.limits # {}
      BY <1>2, <2>2 DEF SearchShape
    <3> QED
      BY <3>1
  <2>3. CASE search' = [search EXCEPT !.phase = "parts", !.candidate = newest.file.id,
                                      !.inspected = @ + 1, !.number = 1, !.pages = 0, !.parts = <<>>,
                                      !.matches = {m \in @ : Newer(newest, m)}]
    <3>1. search'.phase = "parts"
      BY <1>2, <2>3 DEF SearchShape
    <3> QED
      BY <3>1
  <2> QED
    BY <1>3, <2>1, <2>2, <2>3
<1>11. search'.phase = "parts" => PartsInv'
  <2> SUFFICES ASSUME search'.phase = "parts" PROVE PartsInv'
    OBVIOUS
  <2>1. /\ fitting # {}
        /\ search' = [search EXCEPT !.phase = "parts", !.candidate = newest.file.id,
                                    !.inspected = @ + 1, !.number = 1, !.pages = 0, !.parts = <<>>,
                                    !.matches = {m \in @ : Newer(newest, m)}]
    <3>1. search' = [search EXCEPT !.phase = "none", !.matches = {}] => search'.phase = "none"
      BY <1>2 DEF SearchShape
    <3>2. search' = [search EXCEPT !.phase = "none", !.matches = {}, !.limits = @ \cup {"candidate-limit"}]
            => search'.phase = "none"
      BY <1>2 DEF SearchShape
    <3> QED
      BY <1>3, <3>1, <3>2
  <2>2. /\ search'.candidate = newest.file.id /\ search'.number = 1 /\ search'.parts = <<>>
        /\ search'.matches = {m \in search.matches : Newer(newest, m)} /\ search'.limits = search.limits
    BY <1>2, <2>1 DEF SearchShape
  <2>3. \E m \in fitting : \A n \in fitting \ {m} : Newer(m, n)
    <3>1. fitting \subseteq search.matches
      BY DEF fitting
    <3> QED
      BY <1>2, <2>1, <3>1, NewestRow
  <2>4. newest \in fitting /\ \A n \in fitting \ {newest} : Newer(newest, n)
    BY <2>3 DEF newest
  <2>5. newest \in search.matches /\ Fits(newest.file, search.want)
    BY <2>4 DEF fitting
  <2>6. newest.file.id \in Nat /\ (newest.file.id \in search.steady => newest.file = Seen(newest.file.id))
    BY <1>2, <2>5 DEF RowsInv
  <2>7. \A m \in search'.matches : m.file.id <= search'.candidate
    BY <1>2, <2>2, <2>6 DEF Newer, RowsInv
  <2>8. search'.candidate \in search'.steady => Fits(Seen(search.candidate), search.want)' /\ ReadParts'
    <3> SUFFICES ASSUME search'.candidate \in search.steady
                 PROVE  Fits(Seen(search.candidate), search.want)' /\ ReadParts'
      BY <1>5
    <3>1. newest.file = Seen(search'.candidate)
      BY <2>2, <2>6
    <3>2. Seen(search.candidate)' = Seen(search'.candidate)
      BY <1>1, <1>5 DEF Seen, ListedFile
    <3>3. Fits(Seen(search.candidate), search.want)'
      BY <1>5, <2>5, <3>1, <3>2 DEF Fits, EncryptionFits, RetentionFits
    <3>4. search'.candidate \in DOMAIN largeFiles
      BY DEF Searching, IdsIn, LargeInv
    <3>5. DOMAIN largeFiles[search'.candidate].parts \subseteq Nat \ {0}
      BY <3>4 DEF RememberedInv, Numbered
    <3>6. {x \in DOMAIN largeFiles[search'.candidate].parts : x < 1} = {}
      BY <3>5
    <3>7. ReadParts'
      BY <1>1, <2>2, <3>6 DEF ReadParts
    <3> QED
      BY <3>3, <3>7
  <2>9. ASSUME search'.limits = {}, NEW i, Wanted(i)' PROVE i = search'.candidate \/ HasRow(i)'
    <3>1. PICK m \in fitting : m.file = Seen(i) /\ m.file.id = i
      BY <1>4, <1>6, <2>2, <2>9
    <3>2. CASE m # newest
      <4>1. m \in search'.matches
        BY <2>2, <2>4, <3>2 DEF fitting
      <4> QED
        BY <1>6, <3>1, <4>1 DEF HasRow
    <3> QED
      BY <2>2, <3>1, <3>2, LessThan
  <2> QED
    BY <2>2, <2>6, <2>7, <2>8, <2>9 DEF PartsInv
<1> QED
  BY <1>5, <1>7, <1>9, <1>10, <1>11 DEF Searching

\* Parts that fit the plan are not more than planned.
LEMMA PlannedParts ==
    ASSUME NEW lengths \in Seq(Nat), NEW numbers, numbers \subseteq DOMAIN lengths
    PROVE  IsFiniteSet(numbers) /\ Cardinality(numbers) \in Nat /\ Cardinality(numbers) <= Len(lengths)
<1>1. DOMAIN lengths = 1..Len(lengths) /\ Len(lengths) \in Nat
  OBVIOUS
<1>2. IsFiniteSet(1..Len(lengths)) /\ Cardinality(1..Len(lengths)) = Len(lengths)
  <2> PICK last : last = Len(lengths)
    OBVIOUS
  <2>1. last \in Nat
    BY <1>1
  <2>2. IsFiniteSet(1..last) /\ Cardinality(1..last) = (IF 1 > last THEN 0 ELSE last - 1 + 1)
    BY ONLY <2>1, FS_Interval
  <2> QED
    BY <1>1, <2>1, <2>2
<1> QED
  BY <1>1, <1>2, FS_Subset, FS_CardinalityType

\* A page leaves what is above it.
LEMMA PageBelow ==
    ASSUME NEW there, IsFiniteSet(there), there \subseteq Nat, NEW wanted \in Int,
           NEW n \in there, Cardinality({m \in there : m < n}) < wanted,
           NEW next \in there, ~ (Cardinality({m \in there : m < next}) < wanted)
    PROVE  n < next
<1> PICK g : g = [m \in there |-> m]
  OBVIOUS
<1>1. {m \in there : g[m] < g[n]} = {m \in there : m < n} /\ {m \in there : g[m] < g[next]} = {m \in there : m < next}
  OBVIOUS
<1>2. \A m \in there : g[m] \in Nat
  OBVIOUS
<1>3. Cardinality({m \in there : g[m] < g[n]}) < wanted /\ ~ (Cardinality({m \in there : g[m] < g[next]}) < wanted)
  BY <1>1
<1>4. g[n] < g[next]
  BY <1>2, <1>3, PageBefore
<1> QED
  BY <1>4

\* The parts of the candidate are read on, or it is found or rejected.
LEMMA PartsKeep == ASSUME LargeInv, RememberedInv, plan \in Plan, Searching, ListPartsPage PROVE Searching'
<1> DEFINE large == largeFiles[search.candidate].parts
           planned == Len(search.want.lengths)
           wanted == Least(PageSize, IF planned >= Cardinality(DOMAIN search.parts)
                                     THEN planned - Cardinality(DOMAIN search.parts) + 1 ELSE 1)
           there == {n \in DOMAIN large : n >= search.number}
           page == {n \in there : Cardinality({m \in there : m < n}) < wanted}
           parts == [n \in DOMAIN search.parts \cup page |-> IF n \in page THEN large[n] ELSE search.parts[n]]
           rest == there \ page
           ends == rest = {} \/ Cardinality(DOMAIN parts) > planned
           whole == rest = {} /\ Cardinality(DOMAIN parts) <= planned
           on == ~ ends /\ search.pages + 1 < search.want.maxPartPages
           fits == whole /\ PartsMatchPlan(parts, search.want.lengths)
<1>1. /\ search.phase = "parts" /\ UNCHANGED <<plan, unfinished, largeFiles>>
      /\ \E f \in unfinished : f.id = search.candidate
  BY DEF ListPartsPage, storageVars, bucketVars, contentVars
<1>2. search' = IF on THEN [search EXCEPT !.pages = @ + 1, !.parts = parts, !.number = Smallest(rest)]
                ELSE [search EXCEPT !.parts = parts, !.limits = IF ends THEN @ ELSE @ \cup {"part-pages"},
                                    !.phase = IF fits THEN "found" ELSE "choosing"]
  BY DEF ListPartsPage
<1>3. RowsInv /\ PartsInv /\ SearchShape(search)
  BY <1>1 DEF Searching
<1>4. search.candidate \in DOMAIN largeFiles /\ IsFiniteSet(DOMAIN large) /\ DOMAIN large \subseteq Nat \ {0}
  BY <1>1 DEF LargeInv, RememberedInv, Numbered
<1>5. rest # {} => Smallest(rest) \in rest /\ \A m \in rest : Smallest(rest) <= m
  <2> SUFFICES ASSUME rest # {} PROVE Smallest(rest) \in rest /\ \A m \in rest : Smallest(rest) <= m
    OBVIOUS
  <2> PICK g : g = [n \in rest |-> n]
    OBVIOUS
  <2>1. IsFiniteSet(rest) /\ rest \subseteq Nat
    BY <1>4, FS_Subset
  <2>2. \E n \in rest : \A m \in rest : g[n] <= g[m]
    BY <2>1, LeastOf
  <2>3. \E n \in rest : \A m \in rest : n <= m
    BY <2>2
  <2> QED
    BY <2>3 DEF Smallest
<1>6. search.want.lengths \in Seq(Nat) /\ planned \in Nat
  BY SearchAssumption DEF Searching
\* Of a candidate that did not change, what has been read is what there is, up to a number.
<1>7. ASSUME search.candidate \in search.steady
      PROVE  /\ DOMAIN parts = {n \in DOMAIN large : n < search.number} \cup page
             /\ \A n \in DOMAIN parts : n \in DOMAIN large /\ parts[n] = large[n]
             /\ wanted \in Int
  <2>1. search.parts = [n \in {x \in DOMAIN large : x < search.number} |-> large[n]]
    BY <1>3, <1>7 DEF PartsInv, ReadParts
  <2>2. IsFiniteSet(DOMAIN search.parts)
    BY <1>4, <2>1, FS_Subset
  <2>3. Cardinality(DOMAIN search.parts) \in Nat
    BY <2>2, FS_CardinalityType
  <2>4. wanted \in Int
    BY <1>6, <2>3, SearchAssumption DEF Least
  <2>5. DOMAIN search.parts = {x \in DOMAIN large : x < search.number}
    BY <2>1
  <2>6. DOMAIN parts = {n \in DOMAIN large : n < search.number} \cup page
    BY <2>5
  <2> QED
    BY <2>1, <2>4, <2>6
<1>8. /\ SearchShape(search') /\ search'.phase = (IF on THEN "parts" ELSE IF fits THEN "found" ELSE "choosing")
      /\ search'.want = search.want /\ search'.token = search.token /\ search'.steady = search.steady
      /\ search'.bucket = search.bucket /\ search'.listed = search.listed /\ search'.matches = search.matches
      /\ search'.candidate = search.candidate /\ search'.parts = parts
      /\ search'.number = (IF on THEN Smallest(rest) ELSE search.number)
      /\ search'.limits = (IF on \/ ends THEN search.limits ELSE search.limits \cup {"part-pages"})
  <2> HIDE DEF parts, rest, ends, fits
  <2>1. CASE on
    BY <1>1, <1>2, <1>3, <2>1 DEF SearchShape
  <2>2. CASE ~ on
    <3> HIDE DEF on
    <3> QED
      BY <1>2, <1>3, <2>2 DEF SearchShape
  <2> QED
    BY <2>1, <2>2
<1>9. /\ IdsIn(search.bucket)' = IdsIn(search.bucket)
      /\ \A i : /\ Seen(i)' = Seen(i) /\ (Wanted(i)' <=> Wanted(i)) /\ (Resumable(i)' <=> Resumable(i))
                /\ (HasRow(i)' <=> HasRow(i))
  <2> HIDE DEF large, on, fits, ends, parts, rest
  <2>1. IdsIn(search.bucket)' = IdsIn(search.bucket)
    BY <1>1, <1>8 DEF IdsIn
  <2>2. \A i : Seen(i)' = Seen(i)
    BY <1>1, <1>8 DEF Seen, ListedFile
  <2>3. \A i : Resumable(i)' <=> Resumable(i)
    BY <1>1, <1>8, <2>2 DEF Resumable, Seen
  <2> QED
    BY <1>8, <2>1, <2>2, <2>3 DEF Wanted, Asked, HasRow
<1>10. search'.want \in plan'.wants /\ search'.steady \subseteq IdsIn(search.bucket)'
  BY <1>1, <1>8, <1>9 DEF Searching
<1>11. RowsInv'
  BY <1>3, <1>8, <1>9 DEF RowsInv
<1>12. on => PartsInv'
  <2> SUFFICES ASSUME on PROVE PartsInv'
    OBVIOUS
  <2>1. rest # {} /\ search'.number = Smallest(rest) /\ search'.limits = search.limits
    BY <1>8
  <2>2. Smallest(rest) \in rest /\ \A m \in rest : Smallest(rest) <= m
    BY <1>5, <2>1
  <2>3. search'.number \in Nat
    BY <1>4, <2>1, <2>2
  <2>4. search'.candidate \in search'.steady => Fits(Seen(search.candidate), search.want)' /\ ReadParts'
    <3> SUFFICES ASSUME search.candidate \in search.steady
                 PROVE  Fits(Seen(search.candidate), search.want)' /\ ReadParts'
      BY <1>8
    <3>1. Fits(Seen(search.candidate), search.want)
      BY <1>3 DEF PartsInv
    <3>2. Fits(Seen(search.candidate), search.want)'
      BY <1>8, <1>9, <3>1 DEF Fits, EncryptionFits, RetentionFits
    <3>3. {n \in DOMAIN large : n < search.number} \cup page = {n \in DOMAIN large : n < Smallest(rest)}
      <4>1. there \subseteq Nat /\ IsFiniteSet(there) /\ wanted \in Int
        BY <1>4, <1>7, FS_Subset
      <4>2. Smallest(rest) \in there /\ ~ (Cardinality({m \in there : m < Smallest(rest)}) < wanted)
        BY <2>2
      <4>3. ASSUME NEW n \in page PROVE n < Smallest(rest)
        <5>1. n \in there /\ Cardinality({m \in there : m < n}) < wanted
          OBVIOUS
        <5> PICK t, w, x : t = there /\ w = wanted /\ x = Smallest(rest)
          OBVIOUS
        <5>2. /\ IsFiniteSet(t) /\ t \subseteq Nat /\ w \in Int /\ n \in t /\ x \in t
              /\ Cardinality({m \in t : m < n}) < w /\ ~ (Cardinality({m \in t : m < x}) < w)
          BY <4>1, <4>2, <5>1
        <5>3. n < x
          BY ONLY <5>2, PageBelow
        <5> QED
          BY <5>3
      <4>4. \A n \in DOMAIN large : (n < search.number \/ n \in page) <=> n < Smallest(rest)
        <5> SUFFICES ASSUME NEW n \in DOMAIN large PROVE (n < search.number \/ n \in page) <=> n < Smallest(rest)
          OBVIOUS
        <5>1. n \in Nat /\ search.number \in Nat /\ Smallest(rest) \in Nat
          BY <1>3, <1>4, <4>1, <4>2 DEF PartsInv
        <5>2. CASE n < search.number
          <6>1. Smallest(rest) >= search.number
            BY <4>2
          <6> HIDE DEF rest, page
          <6> QED
            BY <5>1, <5>2, <6>1
        <5>3. CASE ~ (n < search.number)
          <6>1. n \in there
            BY <5>1, <5>3
          <6>2. n \in page \/ Smallest(rest) <= n
            BY <2>2, <6>1
          <6> HIDE DEF rest, page
          <6> QED
            BY <4>3, <5>1, <5>3, <6>2
        <5> QED
          BY <5>2, <5>3
      <4>5. page \subseteq DOMAIN large
        OBVIOUS
      <4> HIDE DEF page, rest, there
      <4> QED
        BY <4>4, <4>5
    <3>4. parts = [n \in {x \in DOMAIN large : x < Smallest(rest)} |-> large[n]]
      <4>1. DOMAIN parts = {x \in DOMAIN large : x < Smallest(rest)} /\ parts = [n \in DOMAIN parts |-> parts[n]]
        BY <1>7, <3>3
      <4>2. \A n \in DOMAIN parts : parts[n] = large[n]
        BY <1>7
      <4> HIDE DEF parts
      <4> QED
        BY <4>1, <4>2
    <3>5. ReadParts'
      <4>1. search'.parts = [n \in {x \in DOMAIN largeFiles'[search'.candidate].parts : x < search'.number} |->
                                largeFiles'[search'.candidate].parts[n]]
        <5>1. search'.parts = parts /\ search'.number = Smallest(rest) /\ largeFiles'[search'.candidate].parts = large
          BY <1>1, <1>8, <2>1
        <5> HIDE DEF parts, rest, large
        <5> QED
          BY <3>4, <5>1
      <4> QED
        BY <4>1 DEF ReadParts
    <3> QED
      BY <3>2, <3>5
  <2>5. search'.candidate \in Nat /\ \A m \in search'.matches : m.file.id <= search'.candidate
    BY <1>3, <1>8 DEF PartsInv
  <2>6. search'.limits = {} => \A i : Wanted(i)' => i = search'.candidate \/ HasRow(i)'
    BY <1>3, <1>8, <1>9, <2>1 DEF PartsInv
  <2> QED
    BY <2>3, <2>4, <2>5, <2>6 DEF PartsInv
<1>13. ~ on /\ fits => FoundInv'
  <2> SUFFICES ASSUME ~ on, fits PROVE FoundInv'
    OBVIOUS
  <2>1. rest = {} /\ PartsMatchPlan(parts, search.want.lengths) /\ search'.limits = search.limits
    BY <1>8
  <2>2. ASSUME search.candidate \in search.steady
        PROVE  Resumable(search.candidate) /\ parts = large
    <3>1. DOMAIN parts = DOMAIN large
      <4>1. page = there
        BY <2>1
      <4>2. \A n \in DOMAIN large : n < search.number \/ n >= search.number
        <5>1. search.number \in Nat
          BY <1>3 DEF PartsInv
        <5> HIDE DEF large
        <5> QED
          BY <1>4, <5>1
      <4> HIDE DEF parts
      <4> QED
        BY <1>7, <2>2, <4>1, <4>2
    <3>2. large = [n \in DOMAIN large |-> large[n]]
      BY <1>4 DEF RememberedInv, Parted
    <3>3. parts = large
      BY <1>7, <2>2, <3>1, <3>2
    <3>4. Fits(Seen(search.candidate), search.want)
      BY <1>3, <2>2 DEF PartsInv
    <3>5. PartsMatchPlan(large, search.want.lengths)
      <4> HIDE DEF parts, large, rest
      <4> QED
        BY <2>1, <3>3
    <3> QED
      <4>1. DOMAIN large \subseteq DOMAIN search.want.lengths
            /\ \A n \in DOMAIN large : Len(large[n].data) = search.want.lengths[n]
        BY <3>5 DEF PartsMatchPlan
      <4> QED
        BY <3>3, <3>4, <4>1 DEF Resumable, Seen
  <2>3. ASSUME search.limits = {}, NEW i, Wanted(i) PROVE i <= search.candidate
    <3>1. i = search.candidate \/ HasRow(i)
      BY <1>3, <2>3 DEF PartsInv
    <3>2. search.candidate \in Nat /\ \A m \in search.matches : m.file.id <= search.candidate
      BY <1>3 DEF PartsInv
    <3>3. CASE HasRow(i)
      <4>1. PICK m \in search.matches : m.file = Seen(i)
        BY <3>3 DEF HasRow
      <4>2. m.file.id = i
        BY <4>1, SeenAre DEF Seen
      <4> QED
        BY <3>2, <4>2
    <3> PICK most : most = search.candidate
      OBVIOUS
    <3>4. most <= search.candidate
      BY ONLY <3>2, most = search.candidate
    <3> QED
      BY <3>1, <3>3, <3>4
  <2> HIDE DEF parts
  <2> QED
    BY <1>1, <1>8, <1>9, <2>1, <2>2, <2>3 DEF FoundInv
<1>14. ~ on /\ ~ fits => ChoosingInv'
  <2> SUFFICES ASSUME ~ on, ~ fits, search'.limits = {}, NEW i, Wanted(i)' PROVE HasRow(i)'
    BY DEF ChoosingInv
  <2>1. ends /\ search.limits = {}
    BY <1>8
  <2>2. i = search.candidate \/ HasRow(i)
    BY <1>3, <1>9, <2>1 DEF PartsInv
  <2>3. ASSUME i = search.candidate PROVE FALSE
    <3>1. search.candidate \in search.steady /\ Resumable(search.candidate)
      BY <1>9, <2>3 DEF Wanted
    <3>2. DOMAIN large \subseteq DOMAIN search.want.lengths
          /\ \A n \in DOMAIN large : Len(large[n].data) = search.want.lengths[n]
      BY <3>1 DEF Resumable
    <3>3. PartsMatchPlan(parts, search.want.lengths) /\ DOMAIN parts \subseteq DOMAIN search.want.lengths
      <4> HIDE DEF parts
      <4> QED
        BY <1>7, <3>1, <3>2 DEF PartsMatchPlan
    <3>4. Cardinality(DOMAIN parts) \in Nat /\ Cardinality(DOMAIN parts) <= planned
      <4> PICK d, l : d = DOMAIN parts /\ l = search.want.lengths
        OBVIOUS
      <4> QED
        BY <1>6, <3>3, PlannedParts
    <3>5. whole
      <4> HIDE DEF parts, planned, rest
      <4> QED
        BY <1>6, <2>1, <3>4
    <3> QED
      BY <3>3, <3>5
  <2> QED
    BY <1>9, <2>2, <2>3
<1>15. search'.phase = (IF on THEN "parts" ELSE IF fits THEN "found" ELSE "choosing")
  BY <1>8
<1> HIDE DEF on, fits
<1>16. /\ (search.phase = "parts" => PartsInv)' /\ (search.phase = "found" => FoundInv)'
       /\ (search.phase = "choosing" => ChoosingInv)' /\ search'.phase \in {"parts", "found", "choosing"}
  BY <1>12, <1>13, <1>14, <1>15
<1> QED
  BY <1>8, <1>10, <1>11, <1>16 DEF Searching

\* The account, its settings and the partner side neither start nor end large files.
LEMMA AccountLeavesLarge == ASSUME AccountNext PROVE unfinished' = unfinished
<1> USE DEF bucketVars
<1>1. ASSUME Authorize \/ AdvanceTime \/ FlushHooks \/ FlushRound PROVE unfinished' = unfinished
  BY <1>1 DEF Authorize, AdvanceTime, FlushHooks, FlushRound
<1>2. ASSUME NEW t, NEW caps, NEW bs, NEW names, NEW expires, CreateKey(t, caps, bs, names, expires)
      PROVE  unfinished' = unfinished
  BY <1>2 DEF CreateKey
<1>3. ASSUME NEW t, NEW k, DeleteKey(t, k) PROVE unfinished' = unfinished
  BY <1>3 DEF DeleteKey
<1>4. ASSUME NEW t, NEW b, NEW lock, NEW retention, NEW rules, NEW guard,
             \/ CreateBucket(t, lock, retention) \/ DeleteBucket(t, b) \/ GetUploadUrl(t, b)
             \/ SetNotificationRules(t, b, rules) \/ UpdateBucket(t, b, guard, lock, retention)
      PROVE  unfinished' = unfinished
  BY <1>4 DEF CreateBucket, DeleteBucket, GetUploadUrl, SetNotificationRules, UpdateBucket
<1>5. ASSUME NEW t, NEW b, NEW names, NEW life, GetDownloadAuthorization(t, b, names, life)
      PROVE  unfinished' = unfinished
  BY <1>5 DEF GetDownloadAuthorization
<1>6. ASSUME NEW u, ExpireUploadToken(u) \/ InvalidateUploadToken(u) \/ RefuseUpload(u) PROVE unfinished' = unfinished
  BY <1>6 DEF ExpireUploadToken, InvalidateUploadToken, RefuseUpload
<1>7. ASSUME NEW s, IssueUploadUrl(s) \/ RefuseDownload(s) \/ HookSettles(s) PROVE unfinished' = unfinished
  BY <1>7 DEF IssueUploadUrl, RefuseDownload, HookSettles
<1> QED
  BY <1>1, <1>2, <1>3, <1>4, <1>5, <1>6, <1>7 DEF AccountNext

LEMMA SettingsLeaveLarge == ASSUME SettingsNext PROVE unfinished' = unfinished
<1> USE DEF bucketVars
<1>1. ASSUME NEW t, NEW b, NEW guard, NEW lock, NEW retention,
             CreateBucket(t, lock, retention) \/ UpdateBucket(t, b, guard, lock, retention)
      PROVE  unfinished' = unfinished
  BY <1>1 DEF CreateBucket, UpdateBucket
<1>2. UNCHANGED storageVars => unfinished' = unfinished
  BY DEF storageVars
<1>3. ASSUME NEW byHelper, NEW t, NEW b, NEW request, Update(byHelper, t, b, request) PROVE unfinished' = unfinished
  BY <1>1, <1>2, <1>3 DEF Update
<1>4. ASSUME NEW t, NEW b, NEW lock, NEW rules, NEW edit, NEW request,
             \/ CreateConfigured(t, lock, request) \/ NotifyOf(t, b, rules) \/ Refresh(t, b, edit)
      PROVE  unfinished' = unfinished
  BY <1>1, <1>2, <1>4 DEF CreateConfigured, NotifyOf, SetNotificationRules, Refresh
<1>5. ASSUME NEW trial, TryRequest(trial) PROVE unfinished' = unfinished
  BY <1>2, <1>5 DEF TryRequest
<1>6. ASSUME HelperWrites PROVE unfinished' = unfinished
  BY <1>2, <1>3, <1>6 DEF HelperWrites
<1> QED
  BY <1>3, <1>4, <1>5, <1>6 DEF SettingsNext, Try

\* Where the large files stay as they are, a search that goes on has them all.
LEMMA SteadyStays ==
    ASSUME search # NoSearch, Searching, UNCHANGED <<largeFiles, unfinished, search>>
    PROVE  search' = SteadyAfter
<1>1. SearchShape(search) /\ search.steady \subseteq IdsIn(search.bucket)
  BY DEF Searching
<1> PICK steady : steady = {i \in search.steady : /\ largeFiles'[i] = largeFiles[i]
                                                  /\ \E f \in unfinished' : f.id = i /\ f.bucket = search.bucket}
  OBVIOUS
<1>2. steady = search.steady
  BY <1>1 DEF IdsIn
<1>3. SteadyAfter = [search EXCEPT !.steady = steady]
  BY DEF SteadyAfter
<1>4. [search EXCEPT !.steady = search.steady] = search
  BY <1>1 DEF SearchShape
<1> QED
  BY <1>2, <1>3, <1>4

\* A step of the search itself.
LEMMA SearcherStep ==
    ASSUME LargeInv, RememberedInv, FileIdsInv, plan \in Plan, SearchInv, SearchNext
    PROVE  SearchInv'
<1>1. ASSUME NEW t, NEW b, NEW want \in plan.wants, BeginSearch(t, b, want) PROVE SearchInv'
  BY <1>1, BeginKeeps
<1>2. ASSUME search # NoSearch, ListPage \/ Choose \/ ListPartsPage \/ SearchFails PROVE SearchInv'
  <2>1. plan' = plan /\ May("contents") /\ Searching
    BY <1>2 DEF SearchInv, ListPage, Choose, ListPartsPage, SearchFails, storageVars
  <2>2. Searching'
    BY <1>2, <2>1, ListKeeps, ChooseKeeps, PartsKeep, FailKeeps
  <2> QED
    BY <2>1, <2>2 DEF SearchInv, May
<1> QED
  BY <1>1, <1>2 DEF SearchNext

\* Any step leaves what a search knows of the large files that stay as they are.
LEMMA SearchStep ==
    ASSUME UrlInv, FilesInv, FileIdsInv, FileIdsInv', LargesInv, LargesInv', May("contents") => LargeTurn,
           SearchInv, [Next]_vars
    PROVE  SearchInv'
<1>1. SlotsInv /\ nextId \in Nat /\ plan' = plan
  BY PlanStays DEF UrlInv, ClockInv
<1>2. CASE SearchNext
  <2>1. May("contents")
    <3>1. ASSUME search = NoSearch PROVE May("resume")
      BY <1>2, <3>1 DEF SearchNext, BeginSearch
    <3> QED
      BY <3>1, PlanAssumption DEF FilesInv, May, SearchInv
  <2> QED
    BY <1>2, <2>1, SearcherStep DEF FilesInv, LargesInv
<1>3. CASE ~ SearchNext /\ search = NoSearch
  <2>1. search' = NoSearch
    BY <1>3 DEF Next, vars, fileVars, SteadyAfter
  <2> QED
    BY <2>1 DEF SearchInv
<1>4. CASE ~ SearchNext /\ search # NoSearch
  <2>1. May("contents") /\ Searching /\ LargeInv /\ RememberedInv /\ RememberedInv' /\ LargeTurn
    BY <1>1, <1>4 DEF SearchInv, FilesInv, LargesInv, May
  <2>2. search' = SteadyAfter
    <3>1. ASSUME UNCHANGED <<largeFiles, unfinished, search>> PROVE search' = SteadyAfter
      BY <1>4, <2>1, <3>1, SteadyStays
    <3>2. ASSUME UNCHANGED fileVars PROVE UNCHANGED <<largeFiles, search>>
      BY <3>2 DEF fileVars, contentVars
    <3>3. CASE AccountNext /\ UNCHANGED fileVars
      BY <3>1, <3>2, <3>3, AccountLeavesLarge
    <3>4. CASE ReadNext /\ UNCHANGED search
      <4>1. UNCHANGED <<largeFiles, unfinished>>
        <5>1. StreamNext => UNCHANGED <<storageVars, contentVars>>
          BY DEF StreamNext, Chunk, Consume, EndOfBody, ConnectionBreaks, CancelReading, CancelPendingRead, TimerFires, SameService
        <5>2. ASSUME NEW f, NEW caps, NEW method, NEW range, NEW headers, Answer(f, caps, method, range, headers)
              PROVE  UNCHANGED <<storageVars, largeFiles>>
          BY <5>2 DEF Answer
        <5> QED
          BY <3>4, <5>1, <5>2 DEF ReadNext, ReadWithToken, ReadWithAuthorization, storageVars, bucketVars, contentVars
      <4> QED
        BY <3>1, <3>4, <4>1
    <3>5. CASE SettingsNext /\ UNCHANGED <<contentVars, search>>
      <4>1. UNCHANGED largeFiles
        BY <3>5 DEF contentVars
      <4> QED
        BY <3>1, <3>5, <4>1, SettingsLeaveLarge
    <3>6. CASE PartnerNext /\ UNCHANGED fileVars
      <4>1. UNCHANGED unfinished
        BY <1>1, <3>6, PartnerTurn
      <4> QED
        BY <3>1, <3>2, <3>6, <4>1
    <3>7. CASE UNCHANGED vars
      <4>1. UNCHANGED fileVars /\ UNCHANGED unfinished
        BY <3>7 DEF vars, storageVars, bucketVars
      <4> QED
        BY <3>1, <3>2, <4>1
    <3> QED
      BY <1>4, <2>1, <3>3, <3>4, <3>5, <3>6, <3>7 DEF Next
  <2>3. search' # NoSearch /\ Searching'
    BY <1>1, <1>4, <2>1, <2>2, SteadyKeeps
  <2> QED
    BY <1>1, <2>1, <2>3 DEF SearchInv, May
<1> QED
  BY <1>2, <1>3, <1>4

\* Whatever others do to large files while it lists them, page by page, and reads their parts: a
\* search finds the newest that can be resumed, of those nobody changed meanwhile, unless it met a
\* limit, and has read the digests of its parts (findResumeCandidateWithSignal,
\* collectResumePartInfo and uploadedPartsMatchPlan in upload/resume.ts).
THEOREM SearchesFindTheNewest == Spec => []ResumeFindsTheNewest
<1> DEFINE Inv == UrlInv /\ FilesInv /\ FileIdsInv /\ LargesInv /\ SearchInv
<1>1. Init => Inv
  <2> SUFFICES ASSUME Init PROVE Inv
    OBVIOUS
  <2>1. SearchInv
    BY DEF Init, SearchInv
  <2> QED
    BY <2>1, GrantsInit, FilesInit, FileIdsInit, LargesInit
<1>2. Inv /\ [Next]_vars => Inv'
  <2> SUFFICES ASSUME Inv, [Next]_vars PROVE Inv'
    OBVIOUS
  <2>1. UrlInv' /\ FilesInv' /\ FileIdsInv'
    BY TurnStep, UrlStep, FilesStep, FileIdsStep
  <2>2. LargesInv' /\ (May("contents") => LargeTurn)
    BY LargesStep
  <2>3. SearchInv'
    BY <2>1, <2>2, SearchStep
  <2> QED
    BY <2>1, <2>2, <2>3
<1>3. Inv => ResumeFindsTheNewest
  BY SearchIsRight
<1> HIDE DEF Inv
<1> QED
  BY <1>1, <1>2, <1>3, PTL DEF Spec

\* A quotient rounded down.
LEMMA DivBounds ==
    ASSUME NEW a \in Nat, NEW b \in Nat \ {0}
    PROVE  /\ a \div b \in Nat /\ (a \div b) * b <= a /\ a < (a \div b) * b + b
OBVIOUS

LEMMA NumbersTo == \A n \in Nat : IsFiniteSet(1..n) /\ Cardinality(1..n) = n
BY FS_Interval

\* Two adjacent slices are one.
LEMMA JoinSlices ==
    ASSUME NEW data \in Seq(Nat), NEW a \in Nat, NEW b \in Nat, a <= b, b <= Len(data)
    PROVE  SubSeq(data, 1, a) \o SubSeq(data, a + 1, b) = SubSeq(data, 1, b)
OBVIOUS

\* So many ranges of that size begin before the end, and the last ends there.
Ranged(size, partSize, parts) ==
    /\ parts \in Nat \ {0} /\ size <= parts * partSize
    /\ \A n \in 1..parts : /\ (n - 1) * partSize \in Nat /\ n * partSize \in Nat
                           /\ (n - 1) * partSize < size /\ n * partSize = (n - 1) * partSize + partSize
                           /\ n < parts => n * partSize < size

\* How many parts are planned.
Planned(size, partSize) == (size + partSize - 1) \div partSize

\* The parts of the plan follow each other, the last one ends where the source does.
LEMMA PartsPlanned ==
    ASSUME NEW size \in Nat \ {0}, NEW partSize \in Nat \ {0}, NEW parts, parts = Planned(size, partSize)
    PROVE  Ranged(size, partSize, parts)
<1>1. parts \in Nat /\ parts * partSize <= size + partSize - 1 /\ size + partSize - 1 < parts * partSize + partSize
  BY DivBounds DEF Planned
<1>2. parts # 0
  BY <1>1
<1>3. size <= parts * partSize
  BY <1>1
<1>4. ASSUME NEW n \in 1..parts
      PROVE  /\ (n - 1) * partSize \in Nat /\ n * partSize \in Nat
             /\ (n - 1) * partSize < size /\ n * partSize = (n - 1) * partSize + partSize
             /\ n < parts => n * partSize < size
  <2>1. n \in Nat \ {0} /\ n <= parts /\ n - 1 \in Nat
    BY <1>1
  <2>2. n * partSize = (n - 1) * partSize + partSize
    BY <2>1
  <2>3. \A i, j \in Nat : i <= j => i * partSize <= j * partSize
    OBVIOUS
  <2>4. n * partSize <= parts * partSize /\ (n < parts => (n + 1) * partSize <= parts * partSize)
    BY <1>1, <2>1, <2>3
  <2>5. (n + 1) * partSize = n * partSize + partSize
    BY <2>1
  <2>6. (n - 1) * partSize \in Nat /\ n * partSize \in Nat /\ parts * partSize \in Nat
    BY <1>1, <2>1
  <2> QED
    BY <1>1, <2>1, <2>2, <2>4, <2>5, <2>6
<1> QED
  BY <1>1, <1>2, <1>3, <1>4 DEF Ranged

Accumulates(g, seqs, n) ==
    g = [i \in 1..n |-> g[i]] /\ g[1] = seqs[1] /\ \A i \in 2..n : g[i] = g[i - 1] \o seqs[i]

\* A sequence of sequences is flattened to what they make up one by one.
LEMMA FlattenIs ==
    ASSUME NEW seqs, NEW n \in Nat \ {0}, Len(seqs) = n, NEW g, Accumulates(g, seqs, n)
    PROVE  FlattenSeq(seqs) = g[n]
<1>0. g = [i \in 1..n |-> g[i]] /\ g[1] = seqs[1] /\ \A i \in 2..n : g[i] = g[i - 1] \o seqs[i]
  BY DEF Accumulates
<1> DEFINE flatten[i \in 1..Len(seqs)] == IF i = 1 THEN seqs[i] ELSE flatten[i - 1] \o seqs[i]
<1>1. g = [i \in 1..Len(seqs) |-> IF i = 1 THEN seqs[i] ELSE g[i - 1] \o seqs[i]]
  <2> HIDE DEF flatten
  <2>1. ASSUME NEW i \in 1..n PROVE g[i] = IF i = 1 THEN seqs[i] ELSE g[i - 1] \o seqs[i]
    <3>1. CASE i = 1
      BY <1>0, <3>1
    <3>2. CASE i # 1
      <4>1. i \in 2..n
        BY <3>2
      <4> QED
        BY <1>0, <3>2, <4>1, Zenon
    <3> QED
      BY <3>1, <3>2
  <2> QED
    BY <1>0, <2>1, Zenon
<1>2. flatten = [i \in 1..Len(seqs) |-> IF i = 1 THEN seqs[i] ELSE flatten[i - 1] \o seqs[i]]
  BY <1>1
<1>3. FlattenSeq(seqs) = flatten[n]
  BY DEF FlattenSeq
<1> HIDE DEF flatten
<1>4. \A i \in 1..n : flatten[i] = g[i]
  <2> PICK bad : bad = {i \in 1..n : flatten[i] # g[i]}
    OBVIOUS
  <2> SUFFICES ASSUME bad # {} PROVE FALSE
    OBVIOUS
  <2>1. IsFiniteSet(bad) /\ bad \subseteq Nat
    <3>1. IsFiniteSet(1..n)
      BY NumbersTo
    <3> QED
      BY <3>1, FS_Subset
  <2> PICK h : h = [i \in bad |-> i]
    OBVIOUS
  <2>2. \E i \in bad : \A j \in bad : h[i] <= h[j]
    <3>1. \A i \in bad : h[i] \in Nat
      BY <2>1
    <3> QED
      BY ONLY <2>1, <3>1, bad # {}, LeastOf
  <2>3. PICK i \in bad : \A j \in bad : i <= j
    BY <2>2
  <2>4. i # 1
    BY <1>0, <1>2
  <2>5. i \in 2..n /\ i - 1 \in 1..n /\ i - 1 \notin bad
    BY <2>3, <2>4
  <2>6. flatten[i] = flatten[i - 1] \o seqs[i]
    BY <1>0, <1>2, <2>5
  <2> QED
    BY <1>0, <2>5, <2>6
<1> QED
  BY <1>3, <1>4

\* A part of the data, by its number.
Piece(data, size, partSize, n) == SubSeq(data, (n - 1) * partSize + 1, Least(n * partSize, size))

Pieces(data, size, partSize, parts) == [n \in 1..parts |-> Piece(data, size, partSize, n)]

\* The planned parts make up the data again.
LEMMA PiecesFlatten ==
    ASSUME NEW data \in Seq(Nat), NEW size \in Nat \ {0}, size = Len(data), NEW partSize \in Nat \ {0},
           NEW parts, parts = Planned(size, partSize),
           NEW seqs, seqs = Pieces(data, size, partSize, parts)
    PROVE  FlattenSeq(seqs) = data
<1>0. seqs = [n \in 1..parts |-> Piece(data, size, partSize, n)]
  BY DEF Pieces
<1>1. Ranged(size, partSize, parts)
  BY PartsPlanned
<1>11. parts \in Nat \ {0} /\ 1 \in 1..parts /\ parts \in 1..parts
  BY <1>1 DEF Ranged
<1>12. ASSUME NEW n \in 1..parts
       PROVE  /\ (n - 1) * partSize \in Nat /\ n * partSize \in Nat
              /\ (n - 1) * partSize < size /\ n * partSize = (n - 1) * partSize + partSize
              /\ n < parts => n * partSize < size
  BY <1>1 DEF Ranged
<1> PICK upto : upto = [n \in 1..parts |-> Least(n * partSize, size)]
  OBVIOUS
<1> PICK g : g = [n \in 1..parts |-> SubSeq(data, 1, upto[n])]
  OBVIOUS
<1>2. \A n \in 1..parts : upto[n] \in Nat /\ upto[n] <= size
  BY <1>12 DEF Least
<1>3. upto[parts] = size
  <2>1. size <= parts * partSize
    BY <1>1 DEF Ranged
  <2> QED
    BY <1>11, <1>12, <2>1 DEF Least
<1>4. ASSUME NEW n \in 2..parts PROVE upto[n - 1] = (n - 1) * partSize /\ upto[n - 1] <= upto[n]
  <2>1. n \in 1..parts /\ n - 1 \in 1..parts /\ n - 1 < parts
    BY <1>11
  <2>2. (n - 1) * partSize < size /\ (n - 1) * partSize \in Nat /\ n * partSize \in Nat
        /\ (n - 1) * partSize <= n * partSize
    BY <1>12, <2>1
  <2>3. upto[n - 1] = Least((n - 1) * partSize, size) /\ upto[n] = Least(n * partSize, size)
    BY <2>1
  <2> QED
    BY <2>2, <2>3 DEF Least
<1>5. g[1] = seqs[1]
  <2>1. g[1] = SubSeq(data, 1, upto[1]) /\ seqs[1] = Piece(data, size, partSize, 1)
    BY <1>0, <1>11
  <2>2. upto[1] = Least(1 * partSize, size) /\ (1 - 1) * partSize + 1 = 1
    BY <1>11
  <2> QED
    BY <2>1, <2>2 DEF Piece
<1>6. ASSUME NEW n \in 2..parts PROVE g[n] = g[n - 1] \o seqs[n]
  <2>1. n \in 1..parts /\ n - 1 \in 1..parts
    BY <1>11
  <2>2. /\ g[n] = SubSeq(data, 1, upto[n]) /\ g[n - 1] = SubSeq(data, 1, upto[n - 1])
        /\ seqs[n] = SubSeq(data, upto[n - 1] + 1, upto[n])
    BY <1>0, <1>4, <2>1 DEF Piece
  <2> PICK a, b : a = upto[n - 1] /\ b = upto[n]
    OBVIOUS
  <2>3. a \in Nat /\ b \in Nat /\ a <= b /\ b <= Len(data)
    BY <1>2, <1>4, <2>1
  <2>4. SubSeq(data, 1, a) \o SubSeq(data, a + 1, b) = SubSeq(data, 1, b)
    BY <2>3, JoinSlices
  <2> QED
    BY <2>2, <2>4
<1>7. Len(seqs) = parts
  <2>1. \A n \in 1..parts : seqs[n] \in Seq(Nat)
    <3> SUFFICES ASSUME NEW n \in 1..parts PROVE SubSeq(data, (n - 1) * partSize + 1, Least(n * partSize, size)) \in Seq(Nat)
      BY <1>0 DEF Piece
    <3>1. (n - 1) * partSize + 1 \in Nat \ {0} /\ Least(n * partSize, size) \in Nat /\ Least(n * partSize, size) <= Len(data)
      <4>1. (n - 1) * partSize \in Nat /\ n * partSize \in Nat
        BY <1>12
      <4> PICK from, to : from = (n - 1) * partSize /\ to = n * partSize
        OBVIOUS
      <4>2. from + 1 \in Nat \ {0} /\ Least(to, size) \in Nat /\ Least(to, size) <= Len(data)
        <5>1. from \in Nat /\ to \in Nat /\ size \in Nat /\ size = Len(data)
          BY <4>1
        <5>2. from + 1 \in Nat \ {0}
          BY ONLY <5>1
        <5>3. Least(to, size) \in Nat /\ Least(to, size) <= size
          BY ONLY <5>1 DEF Least
        <5> QED
          BY <5>1, <5>2, <5>3
      <4> QED
        BY <4>2
    <3> PICK a, b : a = (n - 1) * partSize + 1 /\ b = Least(n * partSize, size)
      OBVIOUS
    <3> QED
      BY <3>1
  <2>2. DOMAIN seqs = 1..parts
    BY <1>0
  <2> PICK S : S = Seq(Nat)
    OBVIOUS
  <2>3. seqs \in [1..parts -> S]
    BY <1>0, <2>1
  <2>4. seqs \in Seq(S)
    BY ONLY <1>11, <2>3
  <2> QED
    BY <1>11, <2>2, <2>4
<1>8. g = [n \in 1..parts |-> g[n]]
  OBVIOUS
<1>9. FlattenSeq(seqs) = g[parts]
  <2>1. Accumulates(g, seqs, parts)
    BY <1>5, <1>6, <1>8 DEF Accumulates
  <2> QED
    BY ONLY <1>7, <1>11, <2>1, FlattenIs
<1>10. SubSeq(data, 1, size) = data
  OBVIOUS
<1> QED
  BY <1>3, <1>9, <1>10, <1>11

\* There is a number for every place.
LEMMA InOrderIn ==
    ASSUME NEW numbers, IsFiniteSet(numbers), numbers \subseteq Nat, NEW i \in 1..Cardinality(numbers)
    PROVE  InOrder(numbers, i) \in numbers
<1> DEFINE Below(n) == {m \in numbers : m < n}
<1> PICK rank : rank = [n \in numbers |-> Cardinality(Below(n)) + 1]
  OBVIOUS
<1>1. Cardinality(numbers) \in Nat
  BY FS_CardinalityType
<1>2. ASSUME NEW n \in numbers
      PROVE  /\ IsFiniteSet(Below(n)) /\ Cardinality(Below(n)) \in Nat /\ Cardinality(Below(n)) < Cardinality(numbers)
  <2>1. n \notin Below(n) /\ Below(n) \subseteq numbers
    OBVIOUS
  <2>2. IsFiniteSet(Below(n)) /\ Cardinality(Below(n)) <= Cardinality(numbers)
        /\ Cardinality(Below(n)) # Cardinality(numbers)
    BY <2>1, FS_Subset
  <2> QED
    BY <1>1, <2>2, FS_CardinalityType
<1>3. ASSUME NEW m \in numbers, NEW n \in numbers, m < n PROVE Cardinality(Below(m)) < Cardinality(Below(n))
  <2>1. Below(m) \subseteq Below(n) /\ m \in Below(n) \ Below(m)
    <3>1. m \in Nat /\ n \in Nat
      OBVIOUS
    <3>2. \A x \in Below(m) : x \in numbers /\ x < n
      BY <1>3, <3>1
    <3>3. m \notin Below(m) /\ m \in Below(n)
      BY <1>3, <3>1
    <3> QED
      BY <3>2, <3>3
  <2>2. Cardinality(Below(m)) <= Cardinality(Below(n)) /\ Cardinality(Below(m)) # Cardinality(Below(n))
    BY <1>2, <2>1, FS_Subset
  <2> QED
    BY <1>2, <2>2
<1> PICK to : to = 1..Cardinality(numbers)
  OBVIOUS
<1>4. IsFiniteSet(to) /\ Cardinality(to) = Cardinality(numbers)
  BY <1>1, NumbersTo
<1>5. rank \in Injection(numbers, to)
  <2>1. ASSUME NEW n \in numbers PROVE rank[n] \in to
    <3> HIDE DEF Below
    <3> QED
      BY <1>1, <1>2
  <2>2. ASSUME NEW m \in numbers, NEW n \in numbers, m # n PROVE rank[m] # rank[n]
    <3>1. m < n \/ n < m
      BY <2>2
    <3>2. Cardinality(Below(m)) # Cardinality(Below(n))
      <4>1. Cardinality(Below(m)) \in Nat /\ Cardinality(Below(n)) \in Nat
        BY <1>2
      <4>2. Cardinality(Below(m)) < Cardinality(Below(n)) \/ Cardinality(Below(n)) < Cardinality(Below(m))
        BY <1>3, <3>1
      <4> HIDE DEF Below
      <4> QED
        BY <4>1, <4>2
    <3> HIDE DEF Below
    <3> QED
      BY <1>2, <3>2
  <2>3. rank \in [numbers -> to]
    BY <2>1
  <2> QED
    BY <2>2, <2>3 DEF Injection, IsInjective
<1>6. rank \in Surjection(numbers, to)
  BY <1>4, <1>5, FS_Injection
<1>7. PICK n \in numbers : rank[n] = i
  BY <1>6 DEF Surjection
<1>8. Cardinality(Below(n)) = i - 1
  <2> HIDE DEF Below
  <2> QED
    BY <1>2, <1>7
<1>9. \E x \in numbers : Cardinality({m \in numbers : m < x}) = i - 1
  BY <1>8
<1> QED
  BY <1>9 DEF InOrder

\* What sequences of numbers make up is one.
LEMMA FlattenType ==
    ASSUME NEW seqs, NEW n \in Nat, Len(seqs) = n, n = 0 => seqs \in Seq(Nat), \A i \in 1..n : seqs[i] \in Seq(Nat)
    PROVE  FlattenSeq(seqs) \in Seq(Nat)
<1>1. CASE n = 0
  BY <1>1 DEF FlattenSeq
<1>2. CASE n # 0
  <2> DEFINE Ends(k) == \E g : Accumulates(g, seqs, k) /\ \A i \in 1..k : g[i] \in Seq(Nat)
  <2>1. Ends(1)
    <3> PICK g : g = [i \in 1..1 |-> seqs[1]]
      OBVIOUS
    <3>1. g = [i \in 1..1 |-> g[i]] /\ g[1] = seqs[1] /\ 2..1 = {}
      OBVIOUS
    <3>2. \A i \in 1..1 : g[i] \in Seq(Nat)
      BY <1>2
    <3> QED
      BY <3>1, <3>2 DEF Accumulates
  <2>2. ASSUME NEW k \in 2..n, Ends(k - 1) PROVE Ends(k)
    <3>1. PICK h : Accumulates(h, seqs, k - 1) /\ \A i \in 1..(k - 1) : h[i] \in Seq(Nat)
      BY <2>2
    <3>2. h[1] = seqs[1] /\ \A i \in 2..(k - 1) : h[i] = h[i - 1] \o seqs[i]
      BY <3>1 DEF Accumulates
    <3> PICK g : g = [i \in 1..k |-> IF i = k THEN h[k - 1] \o seqs[k] ELSE h[i]]
      OBVIOUS
    <3>3. g = [i \in 1..k |-> g[i]]
      OBVIOUS
    <3>4. g[1] = seqs[1]
      BY <3>2
    <3>5. ASSUME NEW i \in 2..k PROVE g[i] = g[i - 1] \o seqs[i]
      <4>1. CASE i = k
        <5>1. k \in 1..k /\ k - 1 \in 1..k /\ k - 1 # k
          OBVIOUS
        <5>2. g[k] = h[k - 1] \o seqs[k] /\ g[k - 1] = h[k - 1]
          BY <5>1
        <5> QED
          BY <4>1, <5>2
      <4>2. CASE i # k
        <5>1. i \in 2..(k - 1) /\ i \in 1..k /\ i - 1 \in 1..k /\ i - 1 # k
          BY <4>2
        <5>2. g[i] = h[i] /\ g[i - 1] = h[i - 1]
          BY <4>2, <5>1
        <5> QED
          BY <3>2, <5>1, <5>2
      <4> QED
        BY <4>1, <4>2
    <3>6. ASSUME NEW i \in 1..k PROVE g[i] \in Seq(Nat)
      <4>1. CASE i = k
        <5>1. h[k - 1] \in Seq(Nat) /\ seqs[k] \in Seq(Nat)
          BY <1>2, <3>1
        <5> QED
          BY <4>1, <5>1
      <4>2. CASE i # k
        <5>1. i \in 1..(k - 1)
          BY <4>2
        <5> QED
          BY <3>1, <4>2, <5>1
      <4> QED
        BY <4>1, <4>2
    <3>7. Accumulates(g, seqs, k)
      BY <3>3, <3>4, <3>5 DEF Accumulates
    <3> QED
      BY <3>6, <3>7
  <2> PICK bad : bad = {k \in 1..n : ~ Ends(k)}
    OBVIOUS
  <2> HIDE DEF Ends
  <2>3. bad = {}
    <3> SUFFICES ASSUME bad # {} PROVE FALSE
      OBVIOUS
    <3>1. IsFiniteSet(bad) /\ bad \subseteq Nat
      BY NumbersTo, FS_Subset
    <3> PICK h : h = [i \in bad |-> i]
      OBVIOUS
    <3>2. \E i \in bad : \A j \in bad : h[i] <= h[j]
      <4>1. \A i \in bad : h[i] \in Nat
        BY <3>1
      <4> QED
        BY ONLY <3>1, <4>1, bad # {}, LeastOf
    <3>3. PICK k \in bad : \A j \in bad : k <= j
      BY <3>2
    <3>4. k # 1 /\ k \in 1..n
      BY <2>1
    <3>5. k \in 2..n /\ k - 1 \in 1..n /\ k - 1 \notin bad
      BY <3>3, <3>4
    <3> QED
      BY <2>2, <3>5
  <2>4. Ends(n)
    BY <1>2, <2>3
  <2>5. PICK g : Accumulates(g, seqs, n) /\ \A i \in 1..n : g[i] \in Seq(Nat)
    BY <2>4 DEF Ends
  <2> QED
    BY <1>2, <2>5, FlattenIs
<1> QED
  BY <1>1, <1>2

\* What parts with bytes hold in their order are bytes.
LEMMA PartsData ==
    ASSUME NEW large, IsFiniteSet(DOMAIN large.parts), DOMAIN large.parts \subseteq Nat,
           \A n \in DOMAIN large.parts : large.parts[n].data \in Seq(Nat)
    PROVE  DataOf(OrderedParts(large)) \in Seq(Nat)
<1> PICK count : count = Cardinality(DOMAIN large.parts)
  OBVIOUS
<1> PICK parts : parts = OrderedParts(large)
  OBVIOUS
<1>1. count \in Nat
  BY FS_CardinalityType
<1>2. parts = [i \in 1..count |-> large.parts[InOrder(DOMAIN large.parts, i)]]
  BY DEF OrderedParts
<1> PICK seqs : seqs = [i \in DOMAIN parts |-> parts[i].data]
  OBVIOUS
<1>3. DOMAIN parts = 1..count /\ \A i \in 1..count : seqs[i] = large.parts[InOrder(DOMAIN large.parts, i)].data
  BY <1>2
<1>4. ASSUME NEW i \in 1..count PROVE seqs[i] \in Seq(Nat)
  BY <1>3, InOrderIn
<1> PICK S : S = Seq(Nat)
  OBVIOUS
<1>5. seqs \in [1..count -> S]
  BY <1>3, <1>4
<1>6. seqs \in Seq(S) /\ Len(seqs) = count
  BY ONLY <1>1, <1>5
<1>7. count = 0 => seqs \in Seq(Nat)
  <2> SUFFICES ASSUME count = 0 PROVE seqs \in Seq(Nat)
    OBVIOUS
  <2>1. 1..count = {}
    OBVIOUS
  <2>2. seqs \in [1..count -> Nat]
    BY <1>5, <2>1
  <2> QED
    BY ONLY <1>1, <2>2
<1>8. FlattenSeq(seqs) \in Seq(Nat)
  BY ONLY <1>1, <1>4, <1>6, <1>7, FlattenType
<1> QED
  BY <1>8 DEF DataOf

-----------------------------------------------------------------------------
(* What a large copy finds in the world.                                   *)

\* Files, parts and what handlers bring are bytes.
BytesIn(c) == c.data \in Seq(Nat)
ArrivalsInv == \A s \in Slot : BytesIn(arriving[s].content)
BytesInv ==
    /\ \A i \in DOMAIN contents : BytesIn(contents[i])
    /\ \A i \in DOMAIN largeFiles : \A n \in DOMAIN largeFiles[i].parts : BytesIn(largeFiles[i].parts[n])
CarriedInv == May("contents") => ArrivalsInv /\ BytesInv

\* Files keep their bytes, and a large file that is finished or cancelled its parts.
WorldTurn ==
    /\ \A i \in DOMAIN contents : i \in DOMAIN contents' /\ contents'[i].data = contents[i].data
    /\ \A i \in DOMAIN largeFiles : (\A f \in unfinished : f.id # i) => largeFiles'[i] = largeFiles[i]

\* Handlers of files stay as they are.
HandsOff == \A s \in Slot : waiting[s].op \in {"store", "start", "part"} => waiting'[s] = waiting[s] /\ arriving'[s] = arriving[s]
Leaves(s) == StoreContents(s) \/ AddLargeContents(s) \/ StorePart(s) \/ RefuseArrival(s)

\* A slice of bytes is bytes, and so is a copy.
LEMMA SliceBytes ==
    ASSUME NEW data \in Seq(Nat), NEW range, range.first \in Nat, range.last \in Nat
    PROVE  Slice(data, ParsedRange(range, Len(data))) \in Seq(Nat)
<1> PICK size, parsed : size = Len(data) /\ parsed = ParsedRange(range, size)
  OBVIOUS
<1>1. size \in Nat
  OBVIOUS
<1> DEFINE start == CASE range.kind = "suffix" -> IF size > range.last THEN size - range.last ELSE 0
                      [] OTHER -> range.first
           end == IF range.kind = "closed" THEN range.last ELSE size - 1
<1>2. start \in Nat /\ end \in Int
  BY <1>1
<1>3. CASE parsed.kind = "ok"
  <2>1. parsed = [kind |-> "ok", start |-> start, end |-> Least(end, size - 1)] /\ size # 0
    BY <1>3 DEF ParsedRange
  <2>2. parsed.start \in Nat /\ parsed.end \in Int /\ parsed.end <= size - 1
    BY <1>1, <1>2, <2>1 DEF Least
  <2> PICK a, b : a = parsed.start + 1 /\ b = parsed.end + 1
    OBVIOUS
  <2>3. a \in Nat \ {0} /\ b \in Int /\ b <= Len(data)
    BY <1>1, <2>2
  <2>4. SubSeq(data, a, b) \in Seq(Nat)
    BY <2>3
  <2> QED
    BY <1>3, <2>4 DEF Slice
<1>4. CASE parsed.kind # "ok"
  BY <1>4 DEF Slice
<1> QED
  BY <1>3, <1>4

\* A range of a file, as the server copies it.
LEMMA CopiedBytes ==
    ASSUME NEW source, BytesIn(source), NEW range, range.first \in Nat, range.last \in Nat, NEW sse
    PROVE  BytesIn(Copied(source, range, sse))
<1>1. CASE range = Whole
  BY <1>1 DEF Copied, Content, BytesIn
<1>2. CASE range # Whole
  <2>1. Copied(source, range, sse).data = Slice(source.data, ParsedRange(range, Len(source.data)))
    BY <1>2 DEF Copied, Content
  <2> PICK data : data = source.data
    OBVIOUS
  <2>2. Slice(data, ParsedRange(range, Len(data))) \in Seq(Nat)
    BY SliceBytes DEF BytesIn
  <2> QED
    BY <2>1, <2>2 DEF BytesIn
<1> QED
  BY <1>1, <1>2

\* What arrives of a body.
LEMMA DeliveredBytes == ASSUME NEW data \in Seq(Nat), NEW sent \in Delivered(data) PROVE sent \in Seq(Nat)
<1>1. CASE sent = data
  BY <1>1
<1>2. CASE sent = Damaged(data)
  BY <1>2 DEF Damaged
<1>3. CASE sent = Cut(data)
  BY <1>3 DEF Cut
<1> QED
  BY <1>1, <1>2, <1>3 DEF Delivered

\* Who brings nothing brings no byte.
LEMMA NothingBytes == BytesIn(NoArrival.content) /\ BytesIn(HideMarker)
<1>1. PICK m : m = HideMarker
  OBVIOUS
<1>2. m = [data |-> <<>>, sha1 |-> NoSha1, sse |-> Plain, meant |-> <<>>, lock |-> NoLock, hidden |-> TRUE]
  BY <1>1 DEF HideMarker, Content
<1>3. NoArrival.content = m
  BY <1>1 DEF NoArrival
<1> QED
  BY <1>1, <1>2, <1>3 DEF BytesIn

\* A handler that comes brings bytes and touches no other.
LEMMA ArriveBytes ==
    ASSUME SlotsInv, plan' = plan, ArrivalsInv, NEW arrival, Arrive(arrival), BytesIn(arrival.content)
    PROVE  ArrivalsInv'
<1>1. Slot' = Slot
  BY DEF Slot
<1>2. arriving' = [s \in Slot |-> IF waiting'[s] = waiting[s] THEN arriving[s]
                                  ELSE IF arrival.ok THEN arrival ELSE NoArrival]
  BY DEF Arrive
<1>3. BytesIn(NoArrival.content)
  BY NothingBytes
<1>4. \A s \in Slot : BytesIn(arriving'[s].content)
  BY <1>2, <1>3 DEF ArrivalsInv
<1> QED
  BY <1>1, <1>4 DEF ArrivalsInv, BytesIn

\* What a handler has read of a request.
LEMMA ArrivedBytes ==
    ASSUME plan' = plan, ArrivingInv, ArrivalsInv, NEW s \in Slot, Arrived(s) PROVE ArrivalsInv'
<1>1. arriving' = [x \in Slot |-> IF x = s THEN NoArrival ELSE arriving[x]] /\ Slot' = Slot
  BY DEF Arrived, ArrivingInv, Slot
<1>2. BytesIn(NoArrival.content)
  BY NothingBytes
<1>3. \A x \in Slot : BytesIn(arriving'[x].content)
  BY <1>1, <1>2 DEF ArrivalsInv
<1> QED
  BY <1>1, <1>3 DEF ArrivalsInv, BytesIn

LEMMA EnterHands ==
    ASSUME SlotsInv, plan' = plan, NEW handler, Enter(handler), NEW arrival, Arrive(arrival)
    PROVE  HandsOff
<1>1. PICK slot \in Slot : waiting[slot] = NoHandler /\ \A s \in Slot : s # slot => waiting'[s] = waiting[s]
  BY EnterFrame
<1>2. NoHandler.op = "none"
  BY DEF NoHandler
<1>3. \A s \in Slot : waiting'[s] = waiting[s] => arriving'[s] = arriving[s]
  BY DEF Arrive
<1> QED
  BY <1>1, <1>2, <1>3 DEF HandsOff

\* What a large copy rests on stays as it is.
LEMMA SameWorld ==
    ASSUME UNCHANGED <<contents, largeFiles>>, BytesInv PROVE WorldTurn /\ BytesInv'
BY DEF WorldTurn, BytesInv, BytesIn

\* A step that only adds a file.
LEMMA WorldAdds ==
    ASSUME nextId \in Nat, ContentsInv, BytesInv, NEW c, BytesIn(c), contents' = With(contents, nextId, c), largeFiles' = largeFiles
    PROVE  WorldTurn /\ BytesInv'
<1>1. /\ contents' = [i \in DOMAIN contents \cup {nextId} |-> IF i = nextId THEN c ELSE contents[i]]
      /\ nextId \notin DOMAIN contents
  BY DEF With, ContentsInv
<1>2. \A i \in DOMAIN contents' : BytesIn(contents'[i])
  BY <1>1 DEF BytesInv
<1>3. \A i \in DOMAIN contents : i \in DOMAIN contents' /\ contents'[i].data = contents[i].data
  BY <1>1
<1> QED
  BY <1>2, <1>3 DEF WorldTurn, BytesInv, BytesIn

\* A step that changes one large file.
LEMMA WorldLarge ==
    ASSUME BytesInv, RememberedInv, LargeInv, NEW i, \/ i \notin DOMAIN largeFiles
                                                     \/ \E f \in unfinished : f.id = i,
           NEW l, \A n \in DOMAIN l.parts : BytesIn(l.parts[n]),
           contents' = contents, largeFiles' = [x \in DOMAIN largeFiles \cup {i} |-> IF x = i THEN l ELSE largeFiles[x]]
    PROVE  WorldTurn /\ BytesInv'
<1>1. \A x \in DOMAIN largeFiles : (\A f \in unfinished : f.id # x) => largeFiles'[x] = largeFiles[x]
  OBVIOUS
<1>2. \A x \in DOMAIN largeFiles' : \A n \in DOMAIN largeFiles'[x].parts : BytesIn(largeFiles'[x].parts[n])
  BY DEF BytesInv
<1> QED
  BY <1>1, <1>2 DEF WorldTurn, BytesInv, BytesIn

\* What a step is to the world a copy is in: a handler of files leaves, or none of them does.
World == WorldTurn /\ BytesInv' /\ (HandsOff \/ \E s \in Slot : Leaves(s))

\* Steps that leave the handlers alone.
LEMMA CalmHands == ASSUME CalmFiles PROVE HandsOff
<1>1. \A s \in Slot : waiting'[s] = waiting[s] \/ waiting[s].op \in {"none", "issue"}
  BY DEF CalmFiles, OnlyIssues
<1> QED
  BY <1>1 DEF HandsOff, CalmFiles

LEMMA SameHands == ASSUME UNCHANGED <<waiting, arriving>> PROVE HandsOff
BY DEF HandsOff

\* A lock set on a file leaves its bytes.
LEMMA LocksKeepBytes ==
    ASSUME BytesInv, ContentsInv, NEW f \in stored, NEW l, largeFiles' = largeFiles,
           contents' = [contents EXCEPT ![f.id] = [contents[f.id] EXCEPT !.lock = l]]
    PROVE  WorldTurn /\ BytesInv'
<1>1. f.id \in DOMAIN contents /\ Sealing(contents[f.id])
  BY DEF ContentsInv, Honest
<1> PICK c : c = contents[f.id]
  OBVIOUS
<1> PICK d : d = [contents[f.id] EXCEPT !.lock = l]
  OBVIOUS
<1>2. d.data = c.data
  BY <1>1 DEF Sealing
<1>3. contents' = [i \in DOMAIN contents |-> IF i = f.id THEN d ELSE contents[i]]
  BY <1>1 DEF ContentsInv
<1> QED
  BY <1>2, <1>3 DEF WorldTurn, BytesInv, BytesIn

\* Every step of the service keeps what a large copy rests on.
LEMMA WorldStep ==
    ASSUME SlotsInv, nextId \in Nat, ContentsInv, LargeInv, ArrivingInv, RememberedInv, ComingInv, ArrivalsInv, BytesInv,
           FileTurn
    PROVE  World
<1>1. ASSUME CalmFiles PROVE World
  BY <1>1, CalmHands, SameWorld DEF CalmFiles, World
<1>2. ASSUME NEW u, NEW name, NEW put, PutFile(u, name, put) PROVE World
  <2>1. plan' = plan /\ UNCHANGED <<contents, largeFiles>>
    BY <1>2 DEF PutFile, UploadFile
  <2>2. PICK handler, arrival : Enter(handler) /\ Arrive(arrival)
    BY <1>2 DEF PutFile, UploadFile
  <2> QED
    BY <2>1, <2>2, EnterHands, SameWorld DEF World
<1>3. ASSUME NEW t, NEW b, NEW name, NEW start, StartLargeContents(t, b, name, start) PROVE World
  <2>1. plan' = plan /\ UNCHANGED <<contents, largeFiles>>
    BY <1>3 DEF StartLargeContents, StartLargeFile
  <2>2. PICK handler, arrival : Enter(handler) /\ Arrive(arrival)
    BY <1>3 DEF StartLargeContents, StartLargeFile
  <2> QED
    BY <2>1, <2>2, EnterHands, SameWorld DEF World
<1>4. ASSUME NEW t, NEW b, NEW name, HideContents(t, b, name) PROVE World
  <2>1. contents' = With(contents, nextId, HideMarker) /\ largeFiles' = largeFiles /\ UNCHANGED <<waiting, arriving>>
    BY <1>4 DEF HideContents, HideFile
  <2> QED
    BY <2>1, WorldAdds, NothingBytes, SameHands DEF World
<1>5. ASSUME NEW t, NEW hold, NEW f \in stored, Retain(t, f) \/ SetHold(t, f, hold) PROVE World
  <2>1. UNCHANGED <<waiting, arriving, largeFiles>>
    BY <1>5 DEF Retain, SetHold, storageVars
  <2>2. PICK l : contents' = [contents EXCEPT ![f.id] = [contents[f.id] EXCEPT !.lock = l]]
    <3>1. CASE Retain(t, f)
      BY <3>1 DEF Retain
    <3>2. CASE SetHold(t, f, hold)
      BY <3>2 DEF SetHold
    <3> QED
      BY <1>5, <3>1, <3>2
  <2> QED
    BY <2>1, <2>2, LocksKeepBytes, SameHands DEF World
<1>6. ASSUME NEW t, NEW b, NEW name, NEW copy, NEW f \in stored, CopyContents(t, f, b, name, copy) PROVE World
  <2>1. plan' = plan /\ UNCHANGED <<contents, largeFiles>>
    BY <1>6 DEF CopyContents, CopyFile
  <2>2. PICK handler, arrival : Enter(handler) /\ Arrive(arrival)
    BY <1>6 DEF CopyContents, CopyFile
  <2> QED
    BY <2>1, <2>2, EnterHands, SameWorld DEF World
<1>7. ASSUME NEW t, NEW copy, NEW n, NEW source, NEW f, CopyPart(t, source, f, n, copy) PROVE World
  <2>1. plan' = plan /\ UNCHANGED <<contents, largeFiles>>
    BY <1>7 DEF CopyPart, SameStorage
  <2>2. PICK handler, arrival : Enter(handler) /\ Arrive(arrival)
    BY <1>7 DEF CopyPart
  <2> QED
    BY <2>1, <2>2, EnterHands, SameWorld DEF World
<1>8. ASSUME NEW t, NEW listed, NEW f \in unfinished, FinishContents(t, f, listed) PROVE World
  <2> PICK large : large = largeFiles[f.id]
    OBVIOUS
  <2> PICK parts : parts = OrderedParts(large)
    OBVIOUS
  <2> PICK c : c = [large.content EXCEPT !.data = DataOf(parts), !.meant = MeantBy(parts)]
    OBVIOUS
  <2>1. contents' = With(contents, nextId, c) /\ largeFiles' = largeFiles /\ UNCHANGED <<waiting, arriving>>
    BY <1>8 DEF FinishContents, FinishLargeFile
  <2>2. f.id \in DOMAIN largeFiles /\ Sealing(large.content) /\ Numbered(large)
    BY DEF LargeInv, Unfinished, RememberedInv
  <2>3. DataOf(parts) \in Seq(Nat)
    <3>1. \A n \in DOMAIN large.parts : large.parts[n].data \in Seq(Nat)
      BY <2>2 DEF BytesInv, BytesIn
    <3> QED
      BY <2>2, <3>1, PartsData DEF Numbered
  <2>4. c.data = DataOf(parts)
    BY <2>2 DEF Sealing
  <2> QED
    BY <2>1, <2>3, <2>4, WorldAdds, SameHands DEF World, BytesIn
<1>9. ASSUME NEW n, NEW f, NEW put, PutPart(f, n, put) PROVE World
  <2>1. plan' = plan /\ UNCHANGED <<contents, largeFiles>>
    BY <1>9 DEF PutPart, SameStorage
  <2>2. PICK handler, arrival : Enter(handler) /\ Arrive(arrival)
    BY <1>9 DEF PutPart
  <2> QED
    BY <2>1, <2>2, EnterHands, SameWorld DEF World
<1>10. ASSUME NEW s \in Slot, Leaves(s) PROVE World
  <2>1. BytesIn(arriving[s].content)
    BY DEF ArrivalsInv
  <2>2. CASE StoreContents(s)
    <3>1. contents' = With(contents, nextId, arriving[s].content) /\ largeFiles' = largeFiles
      BY <2>2 DEF StoreContents
    <3> PICK c : c = arriving[s].content
      OBVIOUS
    <3> QED
      BY <1>10, <2>1, <3>1, WorldAdds DEF World
  <2>3. CASE AddLargeContents(s)
    <3> PICK i : i = waiting[s].file.id
      OBVIOUS
    <3> PICK l : l = [since |-> Cardinality(DOMAIN largeFiles), content |-> arriving[s].content,
                      info |-> arriving[s].info, parts |-> <<>>]
      OBVIOUS
    <3>1. largeFiles' = [x \in DOMAIN largeFiles \cup {i} |-> IF x = i THEN l ELSE largeFiles[x]] /\ contents' = contents
      BY <2>3 DEF AddLargeContents, With
    <3>2. i \notin DOMAIN largeFiles
      BY <2>3 DEF AddLargeContents, ComingInv
    <3>3. \A n \in DOMAIN l.parts : BytesIn(l.parts[n])
      OBVIOUS
    <3> QED
      BY <1>10, <3>1, <3>2, <3>3, WorldLarge DEF World
  <2>4. CASE StorePart(s)
    <3> PICK f : f = waiting[s].file
      OBVIOUS
    <3>1. CASE f \in unfinished
      <4>1. f.id \in DOMAIN largeFiles /\ Unfinished(largeFiles[f.id])
        BY <3>1 DEF LargeInv
      <4> PICK old : old = largeFiles[f.id]
        OBVIOUS
      <4> PICK n : n = waiting[s].number
        OBVIOUS
      <4> PICK l : l = [old EXCEPT !.parts = With(old.parts, n, arriving[s].content)]
        OBVIOUS
      <4>2. largeFiles' = [largeFiles EXCEPT ![f.id] = l] /\ contents' = contents
        BY <2>4, <3>1 DEF StorePart
      <4>3. largeFiles' = [x \in DOMAIN largeFiles \cup {f.id} |-> IF x = f.id THEN l ELSE largeFiles[x]]
        BY <4>1, <4>2 DEF LargeInv
      <4>4. l.parts = [x \in DOMAIN old.parts \cup {n} |-> IF x = n THEN arriving[s].content ELSE old.parts[x]]
        BY <4>1 DEF Unfinished, With
      <4>5. \A x \in DOMAIN l.parts : BytesIn(l.parts[x])
        BY <2>1, <4>1, <4>4 DEF BytesInv
      <4> PICK i : i = f.id
        OBVIOUS
      <4>6. \E g \in unfinished : g.id = i
        BY <3>1
      <4>7. largeFiles' = [x \in DOMAIN largeFiles \cup {i} |-> IF x = i THEN l ELSE largeFiles[x]]
        BY <4>3
      <4>8. WorldTurn /\ BytesInv'
        <5>1. contents' = contents
          BY <4>2
        <5> QED
          BY ONLY BytesInv, RememberedInv, LargeInv, <4>5, <4>6, <4>7, <5>1, WorldLarge
      <4> QED
        BY <1>10, <4>8 DEF World
    <3>2. CASE f \notin unfinished
      <4>1. UNCHANGED <<contents, largeFiles>>
        BY <2>4, <3>2 DEF StorePart
      <4> QED
        BY <1>10, <4>1, SameWorld DEF World
    <3> QED
      BY <3>1, <3>2
  <2>5. CASE RefuseArrival(s)
    BY <1>10, <2>5, SameWorld DEF RefuseArrival, World
  <2> QED
    BY <1>10, <2>2, <2>3, <2>4, <2>5 DEF Leaves
<1>11. ASSUME NEW f, NEW caps, NEW method, NEW range, NEW headers, Answer(f, caps, method, range, headers) PROVE World
  BY <1>11, SameWorld, SameHands DEF Answer, storageVars, World
<1> QED
  BY <1>1, <1>2, <1>3, <1>4, <1>5, <1>6, <1>7, <1>8, <1>9, <1>10, <1>11 DEF FileTurn, Leaves

\* Handlers bring bytes: what is put, what a file holds, or nothing.
LEMMA SameBring == ASSUME ArrivalsInv, UNCHANGED <<plan, arriving>> PROVE ArrivalsInv'
BY DEF ArrivalsInv, Slot, BytesIn

\* The handler of an upload has read bytes.
LEMMA PutBring ==
    ASSUME SlotsInv, plan' = plan, ArrivalsInv, NEW put, put.data \in Seq(Nat),
           NEW handler, Enter(handler), NEW data \in Delivered(put.data), NEW ok, NEW sha1, NEW sse, NEW info,
           Arrive([ok |-> ok, content |-> Content(data, sha1, sse, put.data, NoLock), from |-> None, key |-> Absent, info |-> info])
    PROVE  ArrivalsInv'
<1> PICK arrival : arrival = [ok |-> ok, content |-> Content(data, sha1, sse, put.data, NoLock),
                              from |-> None, key |-> Absent, info |-> info]
  OBVIOUS
<1>1. data \in Seq(Nat)
  BY DeliveredBytes
<1>2. BytesIn(arrival.content)
  BY <1>1 DEF Content, BytesIn
<1> QED
  BY <1>2, ArriveBytes

LEMMA CopyBring ==
    ASSUME SlotsInv, plan' = plan, ArrivalsInv, NEW source, BytesIn(source), NEW range, NEW sse,
           range.first \in Nat, range.last \in Nat, NEW t, NEW f, NEW b, NEW name, NEW copy,
           copy.range = range, source = contents[f.id], CopyContents(t, f, b, name, copy)
    PROVE  ArrivalsInv'
<1> PICK to : to = CopyEncryption(copy.destination, Default(b))
  OBVIOUS
<1> PICK ok : ok = (SourceAccepted(source.sse, copy.source) /\ to # Refused /\ RangeAccepted(source, copy.range))
  OBVIOUS
<1> PICK arrival : arrival = [ok |-> ok, content |-> Copied(source, copy.range, to), from |-> f.id,
                              key |-> copy.source.key, info |-> None]
  OBVIOUS
<1>1. Arrive(arrival) /\ Enter([op |-> "store", bucket |-> b, name |-> name])
  BY DEF CopyContents, CopyFile
<1>2. BytesIn(Copied(source, range, to))
  BY CopiedBytes
<1>3. BytesIn(arrival.content)
  BY <1>2
<1> QED
  BY <1>1, <1>3, ArriveBytes

\* What copyPart brings.
PartBrought(source, range) == LET c == Copied(source, range, Plain) IN [c EXCEPT !.sha1 = Sha1(c.data), !.meant = c.data]

LEMMA BroughtIs ==
    ASSUME NEW source, NEW range
    PROVE  LET c == Copied(source, range, Plain)
           IN  PartBrought(source, range).data = c.data /\ PartBrought(source, range).sha1 = Sha1(c.data)
<1> PICK c : c = Copied(source, range, Plain)
  OBVIOUS
<1>1. c = [data |-> c.data, sha1 |-> c.sha1, sse |-> c.sse, meant |-> c.meant, lock |-> c.lock, hidden |-> c.hidden]
  <2>1. \A data, sha1, sse, meant, lock :
            LET x == Content(data, sha1, sse, meant, lock)
            IN  x = [data |-> x.data, sha1 |-> x.sha1, sse |-> x.sse, meant |-> x.meant, lock |-> x.lock, hidden |-> x.hidden]
    BY DEF Content
  <2>2. \E data, sha1, sse, meant, lock : c = Content(data, sha1, sse, meant, lock)
    BY DEF Copied
  <2> QED
    BY <2>1, <2>2
<1> PICK d : d = [c EXCEPT !.sha1 = Sha1(c.data), !.meant = c.data]
  OBVIOUS
<1>2. d.data = c.data /\ d.sha1 = Sha1(c.data)
  BY <1>1
<1> QED
  BY <1>2 DEF PartBrought

LEMMA PartBring ==
    ASSUME SlotsInv, plan' = plan, ArrivalsInv, NEW source, BytesIn(source), NEW range,
           range.first \in Nat, range.last \in Nat, NEW t, NEW f, NEW from, NEW n, NEW copy,
           copy.range = range, source = contents[from.id], CopyPart(t, from, f, n, copy)
    PROVE  ArrivalsInv'
<1> PICK ok : ok = (/\ SourceAccepted(source.sse, copy.source)
                    /\ PartDestinationAccepted(largeFiles[f.id].content.sse, copy.destination)
                    /\ RangeAccepted(source, copy.range))
  OBVIOUS
<1> PICK c : c = PartBrought(source, copy.range)
  OBVIOUS
<1> PICK arrival : arrival = [ok |-> ok, content |-> c, from |-> from.id, key |-> copy.source.key, info |-> None]
  OBVIOUS
<1>1. Arrive(arrival) /\ Enter([op |-> "part", file |-> f, number |-> n])
  BY DEF CopyPart, PartBrought
<1>2. BytesIn(Copied(source, range, Plain))
  BY CopiedBytes
<1>3. BytesIn(arrival.content)
  BY <1>2, BroughtIs DEF BytesIn
<1> QED
  BY <1>1, <1>3, ArriveBytes

LEMMA StartBring ==
    ASSUME SlotsInv, plan' = plan, ArrivalsInv, NEW t, NEW b, NEW name, NEW start, StartLargeContents(t, b, name, start)
    PROVE  ArrivalsInv'
<1> PICK handler : Enter(handler)
  BY DEF StartLargeContents, StartLargeFile
<1> PICK ok, sse, lock : Arrive([ok |-> ok, content |-> Content(<<>>, NoSha1, sse, <<>>, lock),
                                 from |-> None, key |-> Absent, info |-> start.info])
  BY DEF StartLargeContents
<1> PICK arrival : arrival = [ok |-> ok, content |-> Content(<<>>, NoSha1, sse, <<>>, lock),
                              from |-> None, key |-> Absent, info |-> start.info]
  OBVIOUS
<1>1. arrival.content.data = <<>>
  BY DEF Content
<1> PICK data : data = arrival.content.data
  OBVIOUS
<1>2. data \in Seq(Nat)
  BY ONLY <1>1, data = arrival.content.data
<1>3. BytesIn(arrival.content)
  BY <1>2 DEF BytesIn
<1> QED
  BY <1>3, ArriveBytes

LEMMA ContentBring ==
    ASSUME SlotsInv, plan \in Plan, nextId \in Nat, ContentsInv, LargeInv, ArrivingInv, ArrivalsInv, BytesInv, ContentNext
    PROVE  ArrivalsInv'
<1>0. /\ \A copy \in plan.copies : copy.range.first \in Nat /\ copy.range.last \in Nat
      /\ \A put \in plan.puts : put.data \in Seq(Nat)
  BY PlanAssumption
<1>01. \A f \in stored : BytesIn(contents[f.id])
  BY DEF ContentsInv, BytesInv
<1>1. ASSUME NEW u, NEW name, NEW put \in plan.puts, PutFile(u, name, put) PROVE ArrivalsInv'
  <2>1. plan' = plan /\ Enter([op |-> "store", bucket |-> u.bucket, name |-> name])
    BY <1>1 DEF PutFile, UploadFile
  <2>2. PICK data \in Delivered(put.data) :
          LET sse == UploadEncryption(put.headers, Default(u.bucket))
          IN  Arrive([ok |-> LengthFits(put, data) /\ DigestFits(put.mode, put.data, data) /\ sse # Refused,
                      content |-> Content(data, ResolvedSha1(put.mode, put.data, data), sse, put.data, NoLock),
                      from |-> None, key |-> Absent, info |-> None])
    BY <1>1 DEF PutFile
  <2> PICK sse : sse = UploadEncryption(put.headers, Default(u.bucket))
    OBVIOUS
  <2> PICK ok : ok = (LengthFits(put, data) /\ DigestFits(put.mode, put.data, data) /\ sse # Refused)
    OBVIOUS
  <2>3. Arrive([ok |-> ok, content |-> Content(data, ResolvedSha1(put.mode, put.data, data), sse, put.data, NoLock),
                from |-> None, key |-> Absent, info |-> None])
    BY <2>2
  <2> QED
    BY <1>0, <2>1, <2>3, PutBring
<1>2. ASSUME NEW f, NEW n, NEW put \in plan.puts, PutPart(f, n, put) PROVE ArrivalsInv'
  <2>1. plan' = plan /\ Enter([op |-> "part", file |-> f, number |-> n])
    BY <1>2 DEF PutPart, SameStorage
  <2>2. PICK data \in Delivered(put.data) :
          Arrive([ok |-> PartAccepted(largeFiles[f.id].content.sse, put.headers)
                           /\ LengthFits(put, data) /\ DigestFits(put.mode, put.data, data),
                  content |-> Content(data, ResolvedSha1(put.mode, put.data, data), Plain, put.data, NoLock),
                  from |-> None, key |-> Absent, info |-> None])
    BY <1>2 DEF PutPart
  <2> PICK ok : ok = (PartAccepted(largeFiles[f.id].content.sse, put.headers)
                           /\ LengthFits(put, data) /\ DigestFits(put.mode, put.data, data))
    OBVIOUS
  <2>3. Arrive([ok |-> ok, content |-> Content(data, ResolvedSha1(put.mode, put.data, data), Plain, put.data, NoLock),
                from |-> None, key |-> Absent, info |-> None])
    BY <2>2
  <2> QED
    BY <1>0, <2>1, <2>3, PutBring
<1>3. ASSUME NEW t, NEW f \in stored, NEW b, NEW name, NEW copy \in plan.copies, CopyContents(t, f, b, name, copy)
      PROVE  ArrivalsInv'
  <2>1. plan' = plan
    BY <1>3 DEF CopyContents, CopyFile
  <2> PICK source, range : source = contents[f.id] /\ range = copy.range
    OBVIOUS
  <2>2. BytesIn(source) /\ range.first \in Nat /\ range.last \in Nat
    BY <1>0, <1>01
  <2> QED
    BY <1>3, <2>1, <2>2, CopyBring
<1>4. ASSUME NEW t, NEW f \in stored, NEW large, NEW n, NEW copy \in plan.copies, CopyPart(t, f, large, n, copy)
      PROVE  ArrivalsInv'
  <2>1. plan' = plan
    BY <1>4 DEF CopyPart, SameStorage
  <2> PICK source, range : source = contents[f.id] /\ range = copy.range
    OBVIOUS
  <2>2. BytesIn(source) /\ range.first \in Nat /\ range.last \in Nat
    BY <1>0, <1>01
  <2> QED
    BY <1>4, <2>1, <2>2, PartBring
<1>5. ASSUME NEW t, NEW b, NEW name, NEW start, StartLargeContents(t, b, name, start) PROVE ArrivalsInv'
  <2>1. plan' = plan
    BY <1>5 DEF StartLargeContents, StartLargeFile
  <2> QED
    BY <1>5, <2>1, StartBring
<1>6. ASSUME NEW s \in Slot, StoreContents(s) \/ AddLargeContents(s) \/ StorePart(s) \/ RefuseArrival(s)
      PROVE  ArrivalsInv'
  BY <1>6, ArrivedBytes DEF StoreContents, StoreFile, AddLargeContents, AddLargeFile, StorePart, SameStorage, RefuseArrival
<1>7. ASSUME NEW t, NEW b, NEW name, SetDefaultEncryption(t, b) \/ HideContents(t, b, name) PROVE ArrivalsInv'
  BY <1>7, SameBring DEF SetDefaultEncryption, UpdateBucket, HideContents, HideFile
<1>8. ASSUME NEW t, NEW f, NEW hold,
             \/ Retain(t, f) \/ SetHold(t, f, hold) \/ DeleteContents(t, f) \/ FinishContents(t, f, Listed(f))
             \/ CancelLargeFile(t, f) /\ UNCHANGED contentVars
      PROVE  ArrivalsInv'
  BY <1>8, SameBring DEF Retain, SetHold, DeleteContents, DeleteFileVersion, FinishContents, FinishLargeFile, CancelLargeFile,
                         storageVars, contentVars
<1>10. ASSUME NEW t, NEW b, SetDefaultEncryption(t, b) PROVE ArrivalsInv'
  BY <1>10, <1>7
<1> QED
  BY <1>1, <1>2, <1>3, <1>4, <1>5, <1>6, <1>7, <1>8, <1>10 DEF ContentNext

\* A planned range is numbers, and a copy of it is a piece of the source.
LEMMA CopiedPiece ==
    ASSUME NEW source, BytesIn(source), NEW size \in Nat \ {0}, size = Len(source.data), NEW partSize \in Nat \ {0},
           NEW parts, Ranged(size, partSize, parts), NEW n \in 1..parts, NEW sse
    PROVE  LET range == RangeOf(size, partSize, n)
           IN  /\ range.first \in Nat /\ range.last \in Nat
               /\ Copied(source, range, sse).data = Piece(source.data, size, partSize, n)
<1> PICK start, up : start = (n - 1) * partSize /\ up = n * partSize
  OBVIOUS
<1>1. start \in Nat /\ up \in Nat /\ start < size /\ up = start + partSize
  BY DEF Ranged
<1> PICK to : to = Least(up, size)
  OBVIOUS
<1>2. to \in Nat /\ start < to /\ to <= size
  <2>1. to = IF up < size THEN up ELSE size
    BY DEF Least
  <2> QED
    BY ONLY <1>1, <2>1, size \in Nat, partSize \in Nat \ {0}
<1> PICK range : range = [kind |-> "closed", first |-> start, last |-> to - 1]
  OBVIOUS
<1>3. RangeOf(size, partSize, n) = range
  BY DEF RangeOf, Closed
<1>4. range.first \in Nat /\ range.last \in Nat
  BY <1>1, <1>2
<1>5. range # Whole
  <2>1. range.kind # Whole.kind
    BY DEF Whole
  <2> QED
    BY <2>1
<1>6. Least(to - 1, size - 1) = to - 1
  BY <1>2 DEF Least
<1>7. ParsedRange(range, size) = [kind |-> "ok", start |-> start, end |-> to - 1]
  <2>1. size # 0 /\ ~ start > to - 1 /\ ~ start >= size
    BY <1>1, <1>2
  <2> QED
    BY <1>6, <2>1 DEF ParsedRange
<1> PICK parsed : parsed = ParsedRange(range, size)
  OBVIOUS
<1>8. Slice(source.data, parsed) = SubSeq(source.data, start + 1, to)
  <2>1. parsed.kind = "ok" /\ parsed.start = start /\ parsed.end = to - 1
    BY <1>7
  <2>2. to - 1 + 1 = to
    BY <1>2
  <2> QED
    BY <2>1, <2>2 DEF Slice
<1>9. Copied(source, range, sse).data = Slice(source.data, parsed)
  BY <1>5 DEF Copied, Content
<1> QED
  BY <1>3, <1>4, <1>8, <1>9 DEF Piece

\* Parts with the digests of the planned pieces that hold what these are of make up the data.
LEMMA WholeAgain ==
    ASSUME NEW data \in Seq(Nat), NEW size \in Nat \ {0}, size = Len(data), NEW partSize \in Nat \ {0},
           NEW parts, parts = Planned(size, partSize),
           NEW large, IsFiniteSet(DOMAIN large.parts), DOMAIN large.parts \subseteq Nat, ~ MerelyClaimed(large),
           NEW sha1s, sha1s = [n \in 1..parts |-> Sha1(Piece(data, size, partSize, n))],
           sha1s = DigestsOf(OrderedParts(large))
    PROVE  DataOf(OrderedParts(large)) = data
<1>1. parts \in Nat
  BY PartsPlanned DEF Ranged
<1> PICK count : count = Cardinality(DOMAIN large.parts)
  OBVIOUS
<1> PICK ordered : ordered = OrderedParts(large)
  OBVIOUS
<1>2. count \in Nat
  BY FS_CardinalityType
<1>3. ordered = [i \in 1..count |-> large.parts[InOrder(DOMAIN large.parts, i)]]
  BY DEF OrderedParts
<1>4. DOMAIN sha1s = 1..count /\ \A i \in 1..count : sha1s[i] = ordered[i].sha1
  BY <1>3 DEF DigestsOf
<1>5. count = parts
  <2>1. 1..parts = 1..count
    BY <1>4
  <2> QED
    BY ONLY <1>1, <1>2, <2>1, NumbersTo
<1>6. ASSUME NEW i \in 1..parts PROVE ordered[i].data = Piece(data, size, partSize, i)
  <2> PICK n : n = InOrder(DOMAIN large.parts, i)
    OBVIOUS
  <2>1. n \in DOMAIN large.parts /\ ordered[i] = large.parts[n]
    BY <1>3, <1>5, InOrderIn
  <2>2. large.parts[n].data = large.parts[n].sha1.of
    BY <2>1 DEF MerelyClaimed
  <2>3. large.parts[n].sha1 = Sha1(Piece(data, size, partSize, i))
    BY <1>4, <1>5, <2>1
  <2> QED
    BY <2>1, <2>2, <2>3 DEF Sha1
<1> PICK seqs : seqs = [i \in DOMAIN ordered |-> ordered[i].data]
  OBVIOUS
<1>7. seqs = Pieces(data, size, partSize, parts)
  BY <1>3, <1>5, <1>6 DEF Pieces
<1>8. FlattenSeq(seqs) = data
  BY ONLY data \in Seq(Nat), size \in Nat \ {0}, size = Len(data), partSize \in Nat \ {0},
          parts = Planned(size, partSize), <1>7, PiecesFlatten
<1> QED
  BY <1>8 DEF DataOf

-----------------------------------------------------------------------------
(* A large copy.                                                           *)

\* The fields of a call.
CallFields == {"phase", "token", "source", "bucket", "name", "ask", "size", "file", "slot", "sent", "sha1s", "aborted",
               "onWay", "straggler", "outcome", "result", "reported"}
Shaped(c) == c = [f \in CallFields |-> c[f]]

\* What it is to copy, its parts and their digests.
Source(c) == contents[c.source.id].data
PartsOf(c) == 1..Planned(c.size, c.ask.partSize)
Digest(c, n) == Sha1(Piece(Source(c), c.size, c.ask.partSize, n))

\* What is asked of it; it has no large file before one is started, or learns of it when it has failed.
Called(c) ==
    /\ Shaped(c) /\ c.ask \in plan.calls /\ c.source.id \in DOMAIN contents
    /\ c.phase \in {"sizing", "single", "starting", "parts", "finishing", "cancelling", "settled"}
    /\ c.phase \in {"sizing", "single", "starting"} => c.file = NoFile /\ c.sent = <<>> /\ c.sha1s = <<>>
    /\ c.phase = "sizing" => c.slot = None
    /\ c.phase # "settled" => c.straggler = "none" /\ c.outcome = "none"
    /\ c.straggler = "watching" => c.file = NoFile /\ c.outcome = "failed"

\* How long the source is, and whether in parts.
Sized(c) ==
    /\ c.phase \in {"single", "starting", "parts", "finishing"} => c.size = Len(Source(c))
    /\ c.phase \in {"starting", "parts", "finishing"} => c.ask.partSize < c.size

\* The handlers it waits for, and what they bring.
PartOut(c, n) ==
    /\ n \in PartsOf(c) /\ c.sent[n] \in Slot
    /\ waiting[c.sent[n]] = [op |-> "part", file |-> c.file, number |-> n]
    /\ arriving[c.sent[n]].ok => arriving[c.sent[n]].content.sha1 = Digest(c, n)

WaitsFor(c) ==
    /\ c.phase = "single" /\ c.slot # None =>
          /\ c.slot \in Slot /\ waiting[c.slot].op = "store"
          /\ arriving[c.slot].ok => arriving[c.slot].content.data = Source(c)
    /\ (c.phase = "starting" /\ c.slot # None) \/ c.straggler = "watching" =>
          c.slot \in Slot /\ waiting[c.slot].op = "start"
    /\ c.phase = "parts" => \A n \in DOMAIN c.sent : PartOut(c, n)

\* The digests that came back.
Sums(c) ==
    /\ c.phase = "parts" => DOMAIN c.sha1s \subseteq PartsOf(c) /\ \A n \in DOMAIN c.sha1s : c.sha1s[n] = Digest(c, n)
    /\ c.phase = "finishing" => c.sha1s = [n \in PartsOf(c) |-> Digest(c, n)]

\* Nobody writes to its large file any more.
Gone(c) == \A f \in unfinished : f.id # c.file.id

Ends(c) ==
    /\ c.file # NoFile => c.file.id \in DOMAIN largeFiles
    /\ c.outcome = "ok" =>
          /\ c.result \in DOMAIN contents
          /\ \/ contents[c.result].data = Source(c)
             \/ c.file # NoFile /\ Gone(c) /\ MerelyClaimed(largeFiles[c.file.id])
    /\ c.phase = "settled" /\ c.outcome = "failed" /\ c.file # NoFile /\ c.reported = {} /\ c.straggler # "cancelling"
          => Gone(c)

CallIs(c) == Called(c) /\ Sized(c) /\ WaitsFor(c) /\ Sums(c) /\ Ends(c)
CallInv == call # NoCall => May("contents") /\ CallIs(call)

\* What the invariant says of a copy that has ended is the property.
LEMMA CallIsWhole == ASSUME CallIs(call) PROVE CopyIsWhole
BY DEF CallIs, Ends, Gone, Source, CopyIsWhole

\* The handlers it waits for stay.
HeldKeep(c) ==
    /\ (c.phase \in {"single", "starting"} \/ c.straggler = "watching") /\ c.slot \in Slot
          => waiting'[c.slot] = waiting[c.slot] /\ arriving'[c.slot] = arriving[c.slot]
    /\ c.phase = "parts" => \A n \in DOMAIN c.sent :
          waiting'[c.sent[n]] = waiting[c.sent[n]] /\ arriving'[c.sent[n]] = arriving[c.sent[n]]

LEMMA NoSlot == ASSUME plan \in Plan PROVE \A s \in Slot : s # None
BY PlanAssumption DEF Slot, None

\* Who waits for an answer goes on waiting for it.
LEMMA HandsKeep == ASSUME plan \in Plan, NEW c, CallIs(c), HandsOff PROVE HeldKeep(c)
<1>1. ASSUME c.phase \in {"single", "starting"} \/ c.straggler = "watching", c.slot \in Slot
      PROVE  waiting'[c.slot] = waiting[c.slot] /\ arriving'[c.slot] = arriving[c.slot]
  <2>1. waiting[c.slot].op \in {"store", "start"}
    BY <1>1, NoSlot DEF CallIs, WaitsFor
  <2> QED
    BY <1>1, <2>1 DEF HandsOff
<1>2. ASSUME c.phase = "parts", NEW n \in DOMAIN c.sent
      PROVE  waiting'[c.sent[n]] = waiting[c.sent[n]] /\ arriving'[c.sent[n]] = arriving[c.sent[n]]
  <2>1. PartOut(c, n)
    BY <1>2 DEF CallIs, WaitsFor
  <2>2. c.sent[n] \in Slot /\ waiting[c.sent[n]].op = "part"
    BY <2>1 DEF PartOut
  <2> QED
    BY <2>2 DEF HandsOff
<1> QED
  BY <1>1, <1>2 DEF HeldKeep

\* While they stay, what is known of the call does.
LEMMA CallKeeps ==
    ASSUME NEW c, CallIs(c), WorldTurn, LargeTurn, plan' = plan, HeldKeep(c)
    PROVE  CallIs(c)'
<1>1. c.source.id \in DOMAIN contents /\ c.source.id \in DOMAIN contents' /\ Source(c)' = Source(c)
  BY DEF CallIs, Called, WorldTurn, Source
<1>2. Slot' = Slot /\ PartsOf(c)' = PartsOf(c) /\ \A n : Digest(c, n)' = Digest(c, n)
  BY <1>1 DEF Slot, PartsOf, Digest
<1>3. Called(c)' /\ Sized(c)' /\ Sums(c)'
  BY <1>1, <1>2 DEF CallIs, Called, Shaped, Sized, Sums
<1>4. WaitsFor(c)'
  <2>1. ASSUME c.phase = "parts", NEW n \in DOMAIN c.sent PROVE PartOut(c, n)'
    BY <1>2, <2>1 DEF CallIs, WaitsFor, HeldKeep, PartOut
  <2> QED
    BY <1>1, <1>2, <2>1 DEF CallIs, WaitsFor, HeldKeep
<1>5. Ends(c)'
  <2>1. c.file # NoFile => c.file.id \in DOMAIN largeFiles /\ c.file.id \in DOMAIN largeFiles'
    BY DEF CallIs, Ends, LargeTurn
  <2>2. c.file # NoFile /\ Gone(c) => Gone(c)' /\ largeFiles'[c.file.id] = largeFiles[c.file.id]
    BY <2>1 DEF Gone, LargeTurn, WorldTurn
  <2>3. c.result \in DOMAIN contents => c.result \in DOMAIN contents' /\ contents'[c.result].data = contents[c.result].data
    BY DEF WorldTurn
  <2> QED
    BY <1>1, <2>1, <2>2, <2>3 DEF CallIs, Ends, MerelyClaimed
<1> QED
  BY <1>3, <1>4, <1>5 DEF CallIs

\* What a call may come to without a look at the service.
LEMMA FailedIs ==
    ASSUME NEW c, CallIs(c), c.phase \in {"sizing", "single", "starting"}, NEW d, d = Ended(c, "failed")
    PROVE  CallIs(d) /\ d.phase = "settled" /\ d.straggler = "none"
<1>1. /\ Shaped(d) /\ d.phase = "settled" /\ d.outcome = "failed" /\ d.straggler = "none" /\ d.file = NoFile
      /\ d.ask = c.ask /\ d.source = c.source /\ d.result = c.result
  BY DEF CallIs, Called, Shaped, CallFields, Ended
<1> QED
  BY <1>1 DEF CallIs, Called, Sized, WaitsFor, Sums, Ends

\* A copy that fails goes on to cancel its large file.
LEMMA CleaningIs ==
    ASSUME NEW c, CallIs(c), c.phase \in {"parts", "finishing"}, NEW d, d = CleaningUp(c)
    PROVE  CallIs(d) /\ d.phase = "cancelling" /\ d.straggler = "none"
<1>1. /\ Shaped(d) /\ d.phase = "cancelling" /\ d.outcome = "none" /\ d.straggler = "none" /\ d.file = c.file
      /\ d.ask = c.ask /\ d.source = c.source /\ d.result = c.result
  BY DEF CallIs, Called, Shaped, CallFields, CleaningUp
<1> QED
  BY <1>1 DEF CallIs, Called, Sized, WaitsFor, Sums, Ends

LEMMA UnknownIs ==
    ASSUME NEW c, CallIs(c), c.phase = "finishing", NEW d, d = FinishUnknown(c)
    PROVE  CallIs(d)
<1>1. /\ Shaped(d) /\ d.phase = "settled" /\ d.outcome = "ambiguous" /\ d.straggler = "none" /\ d.file = c.file
      /\ d.ask = c.ask /\ d.source = c.source /\ d.result = c.result
  <2> PICK e : e = Ended(c, "ambiguous")
    OBVIOUS
  <2>1. /\ Shaped(e) /\ e.phase = "settled" /\ e.outcome = "ambiguous" /\ e.straggler = "none" /\ e.file = c.file
        /\ e.ask = c.ask /\ e.source = c.source /\ e.result = c.result
    BY DEF CallIs, Called, Shaped, CallFields, Ended
  <2>2. d = [e EXCEPT !.reported = @ \cup {"finish-ambiguous"}]
    BY DEF FinishUnknown
  <2> QED
    BY <2>1, <2>2 DEF Shaped, CallFields
<1> QED
  BY <1>1 DEF CallIs, Called, Sized, WaitsFor, Sums, Ends

LEMMA ReportedIs ==
    ASSUME NEW c, CallIs(c), c.phase = "cancelling", NEW d, d = [Ended(c, "failed") EXCEPT !.reported = @ \cup {"cancel-failed"}]
    PROVE  CallIs(d)
<1>1. /\ Shaped(d) /\ d.phase = "settled" /\ d.outcome = "failed" /\ d.straggler = "none" /\ d.file = c.file
      /\ d.ask = c.ask /\ d.source = c.source /\ d.result = c.result /\ d.reported # {}
  <2> PICK e : e = Ended(c, "failed")
    OBVIOUS
  <2>1. /\ Shaped(e) /\ e.phase = "settled" /\ e.outcome = "failed" /\ e.straggler = "none" /\ e.file = c.file
        /\ e.ask = c.ask /\ e.source = c.source /\ e.result = c.result
    BY DEF CallIs, Called, Shaped, CallFields, Ended
  <2> QED
    BY <2>1 DEF Shaped, CallFields
<1> QED
  BY <1>1 DEF CallIs, Called, Sized, WaitsFor, Sums, Ends

\* The rest of a call, when only an abort or a request on its way is noted.
Alike(c, d) ==
    /\ Shaped(d) /\ \A f \in CallFields \ {"aborted", "onWay"} : d[f] = c[f]

LEMMA AlikeFields ==
    ASSUME NEW c, NEW d, Alike(c, d)
    PROVE  /\ d.phase = c.phase /\ d.source = c.source /\ d.ask = c.ask /\ d.size = c.size /\ d.file = c.file
           /\ d.slot = c.slot /\ d.sent = c.sent /\ d.sha1s = c.sha1s /\ d.straggler = c.straggler
           /\ d.outcome = c.outcome /\ d.result = c.result /\ d.reported = c.reported
BY DEF Alike, CallFields

\* A call that differs only in what the invariant does not read.
LEMMA AlikeIs == ASSUME NEW c, CallIs(c), NEW d, Alike(c, d) PROVE CallIs(d)
<1>1. Source(d) = Source(c) /\ PartsOf(d) = PartsOf(c) /\ (\A n : Digest(d, n) = Digest(c, n)) /\ (Gone(c) => Gone(d))
  BY AlikeFields DEF Source, PartsOf, Digest, Gone
<1>2. Called(d) /\ Sized(d) /\ Sums(d) /\ Ends(d)
  BY <1>1, AlikeFields DEF Alike, CallIs, Called, Sized, Sums, Ends
<1>3. WaitsFor(d)
  <2>1. \A n : PartOut(c, n) => PartOut(d, n)
    BY <1>1, AlikeFields DEF PartOut
  <2> QED
    BY <1>1, <2>1, AlikeFields DEF CallIs, WaitsFor
<1> QED
  BY <1>2, <1>3 DEF CallIs

LEMMA AbortedIs == ASSUME NEW c, CallIs(c), NEW d, d = [c EXCEPT !.aborted = TRUE] PROVE CallIs(d) /\ d.phase = c.phase /\ d.slot = c.slot
<1>1. Alike(c, d)
  BY DEF CallIs, Called, Shaped, CallFields, Alike
<1> QED
  BY <1>1, AlikeIs, AlikeFields

\* An answer is noted.
LEMMA AnsweredIs ==
    ASSUME NEW c, CallIs(c), NEW w, NEW d, d = [c EXCEPT !.onWay = w] PROVE CallIs(d) /\ Alike(c, d)
<1>1. Alike(c, d)
  BY DEF CallIs, Called, Shaped, CallFields, Alike
<1> QED
  BY <1>1, AlikeIs

\* A step that leaves files and handlers alone.
LEMMA QuietCall == ASSUME NEW c, CallIs(c), SameFiles PROVE CallIs(c)'
<1>1. UNCHANGED <<plan, waiting, arriving, contents, largeFiles, unfinished>>
  BY DEF SameFiles, storageVars, bucketVars, contentVars
<1>2. WorldTurn /\ LargeTurn /\ HeldKeep(c)
  BY <1>1 DEF WorldTurn, LargeTurn, Kept, HeldKeep
<1> QED
  BY <1>1, <1>2, CallKeeps

LEMMA CallThen == ASSUME NEW d, d = call', CallIs(d)' PROVE CallIs(call)'
<1>1. Source(call)' = Source(d)'
  BY DEF Source
<1>2. PartsOf(call)' = PartsOf(d)' /\ \A n : Digest(call, n)' = Digest(d, n)'
  BY <1>1 DEF PartsOf, Digest
<1>3. Called(call)' /\ Sized(call)' /\ Sums(call)'
  BY <1>1, <1>2 DEF CallIs, Called, Shaped, Sized, Sums
<1>4. WaitsFor(call)'
  <2>1. \A n : PartOut(d, n)' => PartOut(call, n)'
    BY <1>2 DEF PartOut
  <2> QED
    BY <1>1, <2>1 DEF CallIs, WaitsFor
<1>5. Ends(call)'
  BY <1>1 DEF CallIs, Ends, Gone
<1> QED
  BY <1>3, <1>4, <1>5 DEF CallIs

LEMMA QuietThen == ASSUME NEW d, d = call', CallIs(d), SameFiles PROVE CallIs(call)'
BY QuietCall, CallThen

\* A call begins.
LEMMA BegunIs ==
    ASSUME FilesInv, NEW t, NEW f \in stored, NEW b, NEW name, NEW ask \in plan.calls, CopyLargeFile(t, f, b, name, ask)
    PROVE  May("contents") /\ CallIs(call)'
<1>1. May("contents")
  BY PlanAssumption DEF CopyLargeFile, FilesInv, May
<1>2. f.id \in DOMAIN contents
  BY <1>1 DEF FilesInv, ContentsInv
<1> PICK d : d = call'
  OBVIOUS
<1>3. d = NewCall(t, f, b, name, ask)
  BY DEF CopyLargeFile
<1>4. /\ Shaped(d) /\ d.phase = "sizing" /\ d.outcome = "none" /\ d.straggler = "none" /\ d.file = NoFile /\ d.slot = None
      /\ d.sent = <<>> /\ d.sha1s = <<>> /\ d.ask = ask /\ d.source = f
  <2> PICK nothing, nobody : nothing = <<>> /\ nobody = {}
    OBVIOUS
  <2>1. d = [phase |-> "sizing", token |-> t, source |-> f, bucket |-> b, name |-> name, ask |-> ask,
             size |-> 0, file |-> NoFile, slot |-> None, sent |-> nothing, sha1s |-> nothing, aborted |-> FALSE,
             onWay |-> nobody, straggler |-> "none", outcome |-> "none", result |-> None, reported |-> nobody]
    BY <1>3 DEF NewCall
  <2>2. Shaped(d)
    BY <2>1 DEF Shaped, CallFields
  <2> QED
    BY <2>1, <2>2
<1>5. CallIs(d)
  BY <1>2, <1>4 DEF CallIs, Called, Sized, WaitsFor, Sums, Ends
<1>6. SameFiles
  BY DEF CopyLargeFile
<1> QED
  BY <1>1, <1>5, <1>6, QuietThen

\* It learns how long its source is.
LEMMA SizedIs == ASSUME CallIs(call), BytesInv, plan \in Plan, SizeKnown PROVE CallIs(call)'
<1> PICK d : d = call'
  OBVIOUS
<1> PICK c : c = call
  OBVIOUS
<1>1. SameFiles /\ c.phase = "sizing"
  BY DEF SizeKnown
<1>2. CASE c.source \notin stored
  BY <1>1, <1>2, FailedIs, QuietThen DEF SizeKnown
<1>3. CASE c.source \in stored
  <2> PICK size : size = Len(Source(c))
    OBVIOUS
  <2> PICK phase : phase = IF size <= c.ask.partSize THEN "single" ELSE "starting"
    OBVIOUS
  <2>1. d = [c EXCEPT !.size = size, !.phase = phase]
    BY <1>3 DEF SizeKnown, Source
  <2>2. /\ Shaped(d) /\ d.phase = phase /\ d.size = size
        /\ d.slot = c.slot /\ d.ask = c.ask /\ d.source = c.source /\ d.file = c.file /\ d.straggler = c.straggler
        /\ d.outcome = c.outcome /\ d.sent = c.sent /\ d.sha1s = c.sha1s /\ d.result = c.result
    BY <2>1 DEF CallIs, Called, Shaped, CallFields
  <2>3. c.ask.partSize \in Nat /\ size \in Nat
    <3>1. Source(c) \in Seq(Nat)
      BY DEF BytesInv, BytesIn, CallIs, Called, Source
    <3> PICK bytes : bytes = Source(c)
      OBVIOUS
    <3>2. Len(bytes) \in Nat
      BY <3>1
    <3>3. c.ask.partSize \in Nat \ {0}
      BY CallAssumption DEF CallIs, Called
    <3> QED
      BY <3>2, <3>3
  <2>4. phase \in {"single", "starting"} /\ (phase = "starting" => c.ask.partSize < size)
    BY <2>3
  <2>5. Source(d) = Source(c)
    BY <2>2 DEF Source
  <2>6. CallIs(d)
    BY <1>1, <2>2, <2>4, <2>5 DEF CallIs, Called, Sized, WaitsFor, Sums, Ends
  <2> QED
    BY <1>1, <2>6, QuietThen
<1> QED
  BY <1>2, <1>3

\* It fails before it asks for anything, gives up, or is aborted.
LEMMA NotSentIs == ASSUME CallIs(call), NotSent PROVE CallIs(call)'
<1>1. call.phase \in {"single", "starting"} /\ call' = Ended(call, "failed") /\ SameFiles
  BY DEF NotSent
<1> PICK c, d : c = call /\ d = call'
  OBVIOUS
<1>2. CallIs(d)
  BY <1>1, FailedIs
<1> QED
  BY <1>1, <1>2, QuietThen

\* A request fails.
LEMMA GivesUp == ASSUME CallIs(call), RequestFails PROVE CallIs(call)'
<1> PICK c, d : c = call /\ d = call'
  OBVIOUS
<1>0. CallIs(c) /\ SameFiles
  BY DEF RequestFails
<1>1. CASE c.phase = "parts"
  <2>1. d = CleaningUp(c)
    BY <1>1 DEF RequestFails
  <2> QED
    BY <1>0, <1>1, <2>1, CleaningIs, QuietThen
<1>2. CASE c.phase = "finishing"
  <2>1. d = FinishUnknown(c)
    BY <1>2 DEF RequestFails
  <2> QED
    BY <1>0, <1>2, <2>1, UnknownIs, QuietThen
<1>3. CASE c.phase = "cancelling"
  <2>1. d = [Ended(c, "failed") EXCEPT !.reported = @ \cup {"cancel-failed"}]
    BY <1>3 DEF RequestFails
  <2> QED
    BY <1>0, <1>3, <2>1, ReportedIs, QuietThen
<1>4. CASE c.phase \in {"sizing", "single", "starting"}
  <2>1. d = Ended(c, "failed")
    BY <1>4 DEF RequestFails
  <2> QED
    BY <1>0, <1>4, <2>1, FailedIs, QuietThen
<1> QED
  BY <1>1, <1>2, <1>3, <1>4 DEF RequestFails

\* A call that is aborted while a large file is started watches for it.
LEMMA WatchingIs ==
    ASSUME NEW c, CallIs(c), c.phase = "starting", c.slot # None, NEW d, d = [Ended(c, "failed") EXCEPT !.straggler = "watching"]
    PROVE  CallIs(d)
<1>1. /\ Shaped(d) /\ d.phase = "settled" /\ d.outcome = "failed" /\ d.straggler = "watching" /\ d.file = NoFile
      /\ d.ask = c.ask /\ d.source = c.source /\ d.result = c.result /\ d.slot = c.slot
  <2> PICK e : e = Ended(c, "failed")
    OBVIOUS
  <2>1. /\ Shaped(e) /\ e.phase = "settled" /\ e.outcome = "failed" /\ e.file = NoFile
        /\ e.ask = c.ask /\ e.source = c.source /\ e.result = c.result /\ e.slot = c.slot
    BY DEF CallIs, Called, Shaped, CallFields, Ended
  <2> QED
    BY <2>1 DEF Shaped, CallFields
<1> QED
  BY <1>1 DEF CallIs, Called, Sized, WaitsFor, Sums, Ends

\* The caller aborts.
LEMMA IsAborted == ASSUME CallIs(call), CallerAborts PROVE CallIs(call)'
<1> PICK b, d : b = call /\ d = call'
  OBVIOUS
<1> PICK c : c = [b EXCEPT !.aborted = TRUE]
  OBVIOUS
<1>0. CallIs(c) /\ c.phase = b.phase /\ c.slot = b.slot /\ SameFiles
  BY AbortedIs DEF CallerAborts
<1>00. d = CASE b.phase = "sizing" \/ (b.phase \in {"single", "starting"} /\ b.slot = None) -> c
             [] b.phase = "single" /\ b.slot # None -> Ended(c, "failed")
             [] b.phase = "starting" /\ b.slot # None -> [Ended(c, "failed") EXCEPT !.straggler = "watching"]
             [] b.phase = "parts" -> CleaningUp(c)
             [] b.phase = "finishing" -> FinishUnknown(c)
             [] b.phase = "cancelling" -> [Ended(c, "failed") EXCEPT !.reported = @ \cup {"cancel-failed"}]
  BY DEF CallerAborts
<1>1. CASE b.phase = "parts"
  <2>1. d = CleaningUp(c)
    BY <1>00, <1>1
  <2> QED
    BY <1>0, <1>1, <2>1, CleaningIs, QuietThen
<1>2. CASE b.phase = "finishing"
  <2>1. d = FinishUnknown(c)
    BY <1>00, <1>2
  <2> QED
    BY <1>0, <1>2, <2>1, UnknownIs, QuietThen
<1>3. CASE b.phase = "cancelling"
  <2>1. d = [Ended(c, "failed") EXCEPT !.reported = @ \cup {"cancel-failed"}]
    BY <1>00, <1>3
  <2> QED
    BY <1>0, <1>3, <2>1, ReportedIs, QuietThen
<1>4. CASE b.phase = "sizing" \/ (b.phase \in {"single", "starting"} /\ b.slot = None)
  <2>1. d = c
    BY <1>00, <1>4
  <2> QED
    BY <1>0, <2>1, QuietThen
<1>5. CASE b.phase = "single" /\ b.slot # None
  <2>1. d = Ended(c, "failed")
    BY <1>00, <1>5
  <2> QED
    BY <1>0, <1>5, <2>1, FailedIs, QuietThen
<1>6. CASE b.phase = "starting" /\ b.slot # None
  <2>1. d = [Ended(c, "failed") EXCEPT !.straggler = "watching"]
    BY <1>00, <1>6
  <2> QED
    BY <1>0, <1>6, <2>1, WatchingIs, QuietThen
<1> QED
  BY <1>1, <1>2, <1>3, <1>4, <1>5, <1>6 DEF CallerAborts, CallIs, Called

\* When no handler of files moves, the call hears nothing.
LEMMA HearsNothing == ASSUME plan \in Plan, CallIs(call), HandsOff PROVE CallAfter = call
<1> PICK left : left = {s \in Slot : waiting[s] # NoHandler /\ waiting'[s] = NoHandler}
  OBVIOUS
<1> PICK slot : slot = CHOOSE s \in left : TRUE
  OBVIOUS
<1>1. CASE left = {}
  BY <1>1 DEF CallAfter
<1>2. CASE left # {}
  <2>1. slot \in left
    BY <1>2
  <2>2. slot \in Slot /\ waiting[slot].op \notin {"store", "start", "part"}
    BY <2>1 DEF HandsOff
  <2>3. ~ (call.phase = "single" /\ call.slot = slot) /\ ~ (call.phase = "starting" /\ call.slot = slot)
        /\ ~ (call.straggler = "watching" /\ call.slot = slot)
    BY <2>2, NoSlot DEF CallIs, WaitsFor
  <2>4. ~ (call.phase = "parts" /\ \E n \in DOMAIN call.sent : call.sent[n] = slot)
    <3> SUFFICES ASSUME call.phase = "parts", NEW n \in DOMAIN call.sent, call.sent[n] = slot PROVE FALSE
      OBVIOUS
    <3>1. PartOut(call, n)
      BY DEF CallIs, WaitsFor
    <3>2. waiting[slot].op = "part"
      BY <3>1 DEF PartOut
    <3> QED
      BY <2>2, <3>2
  <2> QED
    BY <2>3, <2>4 DEF CallAfter
<1> QED
  BY <1>1, <1>2

\* The handler that leaves.
LEMMA OnlyLeft ==
    ASSUME SlotsInv, NEW s \in Slot, Leaves(s)
    PROVE  /\ plan' = plan /\ Leave(s)
           /\ {x \in Slot : waiting[x] # NoHandler /\ waiting'[x] = NoHandler} = {s}
           /\ \A x \in Slot : x # s => waiting'[x] = waiting[x]
           /\ waiting[s].op \in {"store", "start", "part"}
<1>1. Leave(s) /\ plan' = plan /\ waiting[s].op \in {"store", "start", "part"}
  BY DEF Leaves, StoreContents, StoreFile, AddLargeContents, AddLargeFile, StorePart, SameStorage, RefuseArrival
<1>2. waiting' = [x \in Slot |-> IF x = s THEN NoHandler ELSE waiting[x]]
  BY <1>1, LeaveFrame
<1>3. waiting[s] # NoHandler
  BY <1>1 DEF NoHandler
<1> QED
  BY <1>1, <1>2, <1>3

LEMMA OnlyLeaves ==
    ASSUME ArrivingInv, NEW s \in Slot, Leaves(s) PROVE \A x \in Slot : x # s => arriving'[x] = arriving[x]
BY DEF Leaves, StoreContents, AddLargeContents, StorePart, RefuseArrival, Arrived, ArrivingInv

\* What the call hears of it.
Hears(s) ==
    \/ CallAfter = call /\ HeldKeep(call)
    \/ /\ call.phase = "single" /\ call.slot = s
       /\ CallAfter = IF arriving[s].ok THEN [Ended(call, "ok") EXCEPT !.result = nextId] ELSE Ended(call, "failed")
    \/ /\ call.phase = "starting" /\ call.slot = s
       /\ CallAfter = IF arriving[s].ok THEN [call EXCEPT !.file = waiting[s].file, !.phase = "parts"] ELSE Ended(call, "failed")
    \/ /\ call.phase = "settled" /\ call.straggler = "watching" /\ call.slot = s
       /\ CallAfter = IF arriving[s].ok THEN StartedLate(waiting[s].file) ELSE [call EXCEPT !.straggler = "closed"]
    \/ /\ call.phase = "parts" /\ \E n \in DOMAIN call.sent : call.sent[n] = s
       /\ CallAfter = IF arriving[s].ok THEN PartCopied(waiting[s].number, arriving[s].content.sha1) ELSE CleaningUp(call)

\* A handler that answers is the one the copy waits for, or another caller's.
LEMMA CallHears == ASSUME SlotsInv, ArrivingInv, CallIs(call), NEW s \in Slot, Leaves(s) PROVE Hears(s)
<1> PICK left : left = {x \in Slot : waiting[x] # NoHandler /\ waiting'[x] = NoHandler}
  OBVIOUS
<1> PICK slot : slot = CHOOSE x \in left : TRUE
  OBVIOUS
<1>1. left = {s} /\ slot = s
  BY OnlyLeft
<1>2. call.phase # "idle"
  BY DEF CallIs, Called
<1>3. CASE call.phase = "single" /\ call.slot = s
  BY <1>1, <1>2, <1>3 DEF CallAfter, Hears
<1>4. CASE call.phase = "starting" /\ call.slot = s
  BY <1>1, <1>2, <1>4 DEF CallAfter, Hears
<1>5. CASE call.phase = "settled" /\ call.straggler = "watching" /\ call.slot = s
  BY <1>1, <1>2, <1>5 DEF CallAfter, Hears
<1>6. CASE call.phase = "parts" /\ \E n \in DOMAIN call.sent : call.sent[n] = s
  BY <1>1, <1>2, <1>6 DEF CallAfter, Hears
<1>7. CASE /\ ~ (call.phase = "single" /\ call.slot = s) /\ ~ (call.phase = "starting" /\ call.slot = s)
           /\ ~ (call.phase = "settled" /\ call.straggler = "watching" /\ call.slot = s)
           /\ ~ (call.phase = "parts" /\ \E n \in DOMAIN call.sent : call.sent[n] = s)
  <2>1. CallAfter = call
    BY <1>1, <1>2, <1>7 DEF CallAfter
  <2>2. HeldKeep(call)
    <3>1. ASSUME NEW x \in Slot, x # s PROVE waiting'[x] = waiting[x] /\ arriving'[x] = arriving[x]
      BY <3>1, OnlyLeft, OnlyLeaves
    <3>2. ASSUME call.phase \in {"single", "starting"} \/ call.straggler = "watching", call.slot \in Slot
          PROVE  waiting'[call.slot] = waiting[call.slot] /\ arriving'[call.slot] = arriving[call.slot]
      <4>1. call.straggler = "watching" => call.phase = "settled"
        BY DEF CallIs, Called
      <4>2. call.slot # s
        BY <1>7, <3>2, <4>1
      <4> QED
        BY <3>1, <3>2, <4>2
    <3>3. ASSUME call.phase = "parts", NEW n \in DOMAIN call.sent
          PROVE  waiting'[call.sent[n]] = waiting[call.sent[n]] /\ arriving'[call.sent[n]] = arriving[call.sent[n]]
      <4>1. PartOut(call, n)
        BY <3>3 DEF CallIs, WaitsFor
      <4>2. call.sent[n] \in Slot /\ call.sent[n] # s
        BY <1>7, <3>3, <4>1 DEF PartOut
      <4> QED
        BY <3>1, <4>2
    <3> QED
      BY <3>2, <3>3 DEF HeldKeep
  <2> QED
    BY <2>1, <2>2 DEF Hears
<1> QED
  BY <1>3, <1>4, <1>5, <1>6, <1>7

\* What the call becomes when a handler of its own leaves: it has failed, or cleans up.
LEMMA HearsFailure ==
    ASSUME CallIs(call), WorldTurn, LargeTurn, plan' = plan, NEW d, d = call',
           \/ call.phase \in {"single", "starting"} /\ d = Ended(call, "failed")
           \/ call.phase = "parts" /\ d = CleaningUp(call)
    PROVE  CallIs(call)'
<1> PICK c : c = call
  OBVIOUS
<1>1. CallIs(d) /\ d.phase \notin {"single", "starting", "parts"} /\ d.straggler = "none"
  BY FailedIs, CleaningIs
<1>2. HeldKeep(d)
  BY <1>1 DEF HeldKeep
<1>3. CallIs(d)'
  BY <1>1, <1>2, CallKeeps
<1> QED
  BY <1>3, CallThen

\* The copy in one request is there.
LEMMA HearsCopy ==
    ASSUME CallIs(call), ContentsInv, nextId \in Nat, WorldTurn, LargeTurn, plan \in Plan, plan' = plan,
           call.phase = "single", NEW s \in Slot, call.slot = s, arriving[s].ok, StoreContents(s),
           NEW d, d = call', d = [Ended(call, "ok") EXCEPT !.result = nextId]
    PROVE  CallIs(call)'
<1> PICK c : c = call
  OBVIOUS
<1> PICK e : e = Ended(c, "failed")
  OBVIOUS
<1>1. CallIs(e) /\ e.phase = "settled" /\ e.straggler = "none"
  BY FailedIs
<1>2. HeldKeep(e)
  BY <1>1 DEF HeldKeep
<1>3. CallIs(e)'
  BY <1>1, <1>2, CallKeeps
<1>4. /\ Shaped(d) /\ d.phase = "settled" /\ d.outcome = "ok" /\ d.straggler = "none" /\ d.file = NoFile
      /\ d.ask = c.ask /\ d.source = c.source /\ d.result = nextId
  <2> PICK o : o = Ended(c, "ok")
    OBVIOUS
  <2>1. /\ Shaped(o) /\ o.phase = "settled" /\ o.outcome = "ok" /\ o.straggler = "none" /\ o.file = NoFile
        /\ o.ask = c.ask /\ o.source = c.source
    BY DEF CallIs, Called, Shaped, CallFields, Ended
  <2> QED
    BY <2>1 DEF Shaped, CallFields
<1>5. contents'[nextId].data = Source(c) /\ nextId \in DOMAIN contents'
  <2>1. contents' = [i \in DOMAIN contents \cup {nextId} |-> IF i = nextId THEN arriving[s].content ELSE contents[i]]
    BY DEF StoreContents, With
  <2>2. arriving[s].content.data = Source(c)
    BY NoSlot DEF CallIs, WaitsFor
  <2> QED
    BY <2>1, <2>2
<1>6. c.source.id \in DOMAIN contents /\ Source(d)' = Source(c)
  BY <1>4 DEF CallIs, Called, WorldTurn, Source
<1>7. Called(d)'
  BY <1>3, <1>4, FailedIs DEF CallIs, Called, WorldTurn
<1>8. CallIs(d)'
  BY <1>4, <1>5, <1>6, <1>7 DEF CallIs, Sized, WaitsFor, Sums, Ends
<1> QED
  BY <1>8, CallThen

\* The large file is started: its parts are copied now.
LEMMA HearsStart ==
    ASSUME CallIs(call), WorldTurn, LargeTurn, plan' = plan,
           call.phase = "starting", NEW s \in Slot, call.slot = s, AddLargeContents(s),
           NEW d, d = call', d = [call EXCEPT !.file = waiting[s].file, !.phase = "parts"]
    PROVE  CallIs(call)'
<1> PICK c : c = call
  OBVIOUS
<1> PICK file : file = waiting[s].file
  OBVIOUS
<1>1. /\ Shaped(d) /\ d.phase = "parts" /\ d.outcome = "none" /\ d.straggler = "none" /\ d.file = file
      /\ d.ask = c.ask /\ d.source = c.source /\ d.size = c.size /\ d.sent = <<>> /\ d.sha1s = <<>>
  BY DEF CallIs, Called, Shaped, CallFields
<1>2. c.source.id \in DOMAIN contents /\ c.source.id \in DOMAIN contents' /\ Source(d)' = Source(c)
  BY <1>1 DEF CallIs, Called, WorldTurn, Source
<1>3. file.id \in DOMAIN largeFiles'
  BY DEF AddLargeContents, With
<1>4. Called(d)' /\ Sized(d)'
  BY <1>1, <1>2 DEF CallIs, Called, Sized
<1>5. WaitsFor(d)' /\ Sums(d)'
  <2>1. DOMAIN d.sent = {} /\ DOMAIN d.sha1s = {}
    BY <1>1
  <2> QED
    BY <1>1, <2>1 DEF WaitsFor, Sums
<1>6. Ends(d)'
  BY <1>1, <1>3 DEF Ends
<1>7. CallIs(d)'
  BY <1>4, <1>5, <1>6 DEF CallIs
<1> QED
  BY <1>7, CallThen

\* A large file the call does not wait for any more is cancelled, or was not started.
LEMMA HearsLate ==
    ASSUME CallIs(call), WorldTurn, LargeTurn, plan' = plan,
           call.phase = "settled", call.straggler = "watching", NEW s \in Slot, AddLargeContents(s),
           NEW d, d = call', d = StartedLate(waiting[s].file)
    PROVE  CallIs(call)'
<1> PICK c : c = call
  OBVIOUS
<1> PICK file : file = waiting[s].file
  OBVIOUS
<1>1. d = [c EXCEPT !.file = file, !.straggler = "cancelling", !.onWay = {"cancel"}]
  BY DEF StartedLate
<1>2. /\ Shaped(d) /\ d.phase = "settled" /\ d.outcome = "failed" /\ d.straggler = "cancelling" /\ d.file = file
      /\ d.ask = c.ask /\ d.source = c.source
  BY <1>1 DEF CallIs, Called, Shaped, CallFields
<1>3. c.source.id \in DOMAIN contents'
  BY DEF CallIs, Called, WorldTurn
<1>4. file.id \in DOMAIN largeFiles'
  BY DEF AddLargeContents, With
<1>5. CallIs(d)'
  BY <1>2, <1>3, <1>4 DEF CallIs, Called, Sized, WaitsFor, Sums, Ends
<1> QED
  BY <1>5, CallThen

LEMMA HearsNoStart ==
    ASSUME CallIs(call), WorldTurn, LargeTurn, plan' = plan,
           call.phase = "settled", call.straggler = "watching", NEW d, d = call', d = [call EXCEPT !.straggler = "closed"]
    PROVE  CallIs(call)'
<1> PICK c : c = call
  OBVIOUS
<1>1. /\ Shaped(d) /\ d.phase = "settled" /\ d.outcome = "failed" /\ d.straggler = "closed" /\ d.file = NoFile
      /\ d.ask = c.ask /\ d.source = c.source
  BY DEF CallIs, Called, Shaped, CallFields
<1>2. CallIs(d)
  BY <1>1 DEF CallIs, Called, Sized, WaitsFor, Sums, Ends
<1>3. HeldKeep(d)
  BY <1>1 DEF HeldKeep
<1>4. CallIs(d)'
  BY <1>2, <1>3, CallKeeps
<1> QED
  BY <1>4, CallThen

\* A part has come: its digest is that of the piece it was to copy.
LEMMA HearsPart ==
    ASSUME SlotsInv, ArrivingInv, CallIs(call), WorldTurn, LargeTurn, plan' = plan,
           call.phase = "parts", NEW n \in DOMAIN call.sent, NEW s \in Slot, call.sent[n] = s, Leaves(s), arriving[s].ok,
           NEW d, d = call', d = PartCopied(waiting[s].number, arriving[s].content.sha1)
    PROVE  CallIs(call)'
<1> PICK b : b = call
  OBVIOUS
<1> PICK sha1 : sha1 = arriving[s].content.sha1
  OBVIOUS
<1> PICK sent : sent = [i \in DOMAIN b.sent \ {n} |-> b.sent[i]]
  OBVIOUS
<1> PICK sha1s : sha1s = [i \in DOMAIN b.sha1s \cup {n} |-> IF i = n THEN sha1 ELSE b.sha1s[i]]
  OBVIOUS
<1> PICK c : c = [b EXCEPT !.sent = sent, !.sha1s = sha1s]
  OBVIOUS
<1>1. \A m \in DOMAIN b.sent : PartOut(b, m)
  BY DEF CallIs, WaitsFor
<1>2. waiting[s].number = n /\ sha1 = Digest(b, n) /\ n \in PartsOf(b)
  <2>1. n \in DOMAIN b.sent /\ b.sent[n] = s
    OBVIOUS
  <2>2. PartOut(b, n)
    BY <1>1, <2>1
  <2>3. /\ n \in PartsOf(b) /\ waiting[s] = [op |-> "part", file |-> b.file, number |-> n]
        /\ arriving[s].ok => arriving[s].content.sha1 = Digest(b, n)
    BY <2>1, <2>2 DEF PartOut
  <2>4. waiting[s].number = n
    BY <2>3
  <2> QED
    BY <2>3, <2>4
<1>3. /\ Shaped(c) /\ c.phase = "parts" /\ c.outcome = "none" /\ c.straggler = "none" /\ c.file = b.file /\ c.ask = b.ask
      /\ c.source = b.source /\ c.size = b.size /\ c.sent = sent /\ c.sha1s = sha1s
  BY DEF CallIs, Called, Shaped, CallFields
<1>4. d = IF DOMAIN c.sha1s = PartNumbers THEN [c EXCEPT !.phase = "finishing", !.onWay = {"finish"}] ELSE c
  <2>1. c = [call EXCEPT !.sent = [i \in DOMAIN call.sent \ {n} |-> call.sent[i]], !.sha1s = With(call.sha1s, n, sha1)]
    BY DEF With
  <2> QED
    BY <1>2, <2>1 DEF PartCopied
<1>5. Source(c) = Source(b) /\ PartsOf(c) = PartsOf(b) /\ \A m : Digest(c, m) = Digest(b, m)
  BY <1>3 DEF Source, PartsOf, Digest
<1>6. DOMAIN c.sha1s \subseteq PartsOf(c) /\ \A m \in DOMAIN c.sha1s : c.sha1s[m] = Digest(c, m)
  <2>1. DOMAIN b.sha1s \subseteq PartsOf(b) /\ \A m \in DOMAIN b.sha1s : b.sha1s[m] = Digest(b, m)
    BY DEF CallIs, Sums
  <2>2. DOMAIN c.sha1s = DOMAIN b.sha1s \cup {n}
    BY <1>3
  <2>3. ASSUME NEW m \in DOMAIN c.sha1s PROVE c.sha1s[m] = Digest(c, m)
    <3>1. CASE m = n
      <4>1. c.sha1s[m] = sha1
        BY <1>3, <2>2, <3>1
      <4> QED
        BY <1>2, <1>5, <3>1, <4>1
    <3>2. CASE m # n
      <4>1. m \in DOMAIN b.sha1s /\ c.sha1s[m] = b.sha1s[m]
        BY <1>3, <2>2, <3>2
      <4> QED
        BY <1>5, <2>1, <4>1
    <3> QED
      BY <3>1, <3>2
  <2>4. DOMAIN c.sha1s \subseteq PartsOf(c)
    BY <1>2, <1>5, <2>1, <2>2
  <2> QED
    BY <2>3, <2>4
<1>7. ASSUME NEW m \in DOMAIN c.sent PROVE PartOut(c, m) /\ c.sent[m] # s
  <2>1. m \in DOMAIN b.sent /\ m # n /\ c.sent[m] = b.sent[m]
    BY <1>3
  <2>2. PartOut(b, m)
    BY <1>1, <2>1
  <2>3. PartOut(c, m)
    BY <1>3, <1>5, <2>1, <2>2, ZenonT(60) DEF PartOut
  <2>4. waiting[c.sent[m]].number = m
    BY <2>3 DEF PartOut
  <2> QED
    BY <1>2, <2>1, <2>3, <2>4
<1>8. b.file # NoFile => b.file.id \in DOMAIN largeFiles
  BY DEF CallIs, Ends
<1>9. CASE DOMAIN c.sha1s # PartNumbers
  <2>1. d = c
    BY <1>4, <1>9
  <2>2. CallIs(c)
    <3>1. b.ask \in plan.calls /\ b.source.id \in DOMAIN contents /\ b.size = Len(Source(b)) /\ b.ask.partSize < b.size
      BY DEF CallIs, Called, Sized
    <3>2. Called(c)
      BY <1>3, <3>1 DEF Called
    <3>3. Sized(c)
      BY <1>3, <1>5, <3>1 DEF Sized
    <3>4. WaitsFor(c)
      BY <1>3, <1>7 DEF WaitsFor
    <3>5. Sums(c)
      BY <1>3, <1>6 DEF Sums
    <3>6. Ends(c)
      BY <1>3, <1>8 DEF Ends
    <3> QED
      BY <3>2, <3>3, <3>4, <3>5, <3>6 DEF CallIs
  <2>3. HeldKeep(c)
    <3>1. ASSUME NEW m \in DOMAIN c.sent
          PROVE  waiting'[c.sent[m]] = waiting[c.sent[m]] /\ arriving'[c.sent[m]] = arriving[c.sent[m]]
      <4>1. c.sent[m] \in Slot /\ c.sent[m] # s
        BY <1>7 DEF PartOut
      <4> QED
        BY <4>1, OnlyLeft, OnlyLeaves
    <3> QED
      BY <1>3, <3>1 DEF HeldKeep
  <2>4. CallIs(c)'
    BY <2>2, <2>3, CallKeeps
  <2> QED
    BY <2>1, <2>4, CallThen
<1>10. CASE DOMAIN c.sha1s = PartNumbers
  <2>1. d = [c EXCEPT !.phase = "finishing", !.onWay = {"finish"}]
    BY <1>4, <1>10
  <2>2. /\ Shaped(d) /\ d.phase = "finishing" /\ d.outcome = "none" /\ d.straggler = "none" /\ d.file = b.file /\ d.ask = b.ask
        /\ d.source = b.source /\ d.size = b.size /\ d.sha1s = sha1s
    <3> PICK finish : finish = {"finish"}
      OBVIOUS
    <3>1. d = [c EXCEPT !.phase = "finishing", !.onWay = finish]
      BY <2>1
    <3>2. Shaped(d)
      BY <1>3, <3>1 DEF Shaped, CallFields
    <3> QED
      BY <1>3, <3>1, <3>2, ZenonT(60) DEF Shaped, CallFields
  <2>3. Source(d) = Source(b) /\ PartsOf(d) = PartsOf(b) /\ \A m : Digest(d, m) = Digest(b, m)
    BY <2>2 DEF Source, PartsOf, Digest
  <2>4. PartNumbers = PartsOf(b)
    BY DEF PartNumbers, PartsOf, Planned
  <2>5. d.sha1s = [m \in PartsOf(d) |-> Digest(d, m)]
    <3>1. d.sha1s = c.sha1s /\ DOMAIN c.sha1s = PartsOf(d)
      BY <1>3, <1>10, <2>2, <2>3, <2>4
    <3>2. \A m \in PartsOf(d) : c.sha1s[m] = Digest(d, m)
      BY <1>5, <1>6, <2>3, <3>1
    <3>3. c.sha1s = [m \in DOMAIN c.sha1s |-> c.sha1s[m]]
      BY <1>3
    <3> QED
      BY <3>1, <3>2, <3>3
  <2>6. Called(d) /\ Sized(d)
    BY <2>2, <2>3 DEF CallIs, Called, Sized
  <2>7. CallIs(d) /\ HeldKeep(d)
    BY <1>8, <2>2, <2>5, <2>6 DEF CallIs, WaitsFor, Sums, Ends, HeldKeep
  <2>8. CallIs(d)'
    BY <2>7, CallKeeps
  <2> QED
    BY <2>8, CallThen
<1> QED
  BY <1>9, <1>10

\* Whatever a request about files does, the call hears what it should.
LEMMA ContentCall ==
    ASSUME SlotsInv, plan \in Plan, plan' = plan, nextId \in Nat, ContentsInv, ArrivingInv, CallIs(call),
           World, LargeTurn, call' = CallAfter
    PROVE  CallIs(call)'
<1> PICK c, d : c = call /\ d = call'
  OBVIOUS
<1>0. WorldTurn
  BY DEF World
<1>1. CASE HandsOff
  <2>1. call' = call
    BY <1>1, HearsNothing
  <2>2. CallIs(c)'
    BY <1>0, <1>1, HandsKeep, CallKeeps
  <2> QED
    BY <2>1, <2>2, CallThen
<1>2. ASSUME NEW s \in Slot, Leaves(s) PROVE CallIs(call)'
  <2>1. Hears(s)
    BY <1>2, CallHears
  <2>2. waiting[s].op = "store" /\ arriving[s].ok => StoreContents(s)
    BY <1>2 DEF Leaves, AddLargeContents, StorePart, RefuseArrival
  <2>3. waiting[s].op = "start" /\ arriving[s].ok => AddLargeContents(s)
    BY <1>2 DEF Leaves, StoreContents, StorePart, RefuseArrival
  <2>4. CASE CallAfter = call /\ HeldKeep(call)
    <3>1. CallIs(c)'
      BY <1>0, <2>4, CallKeeps
    <3> QED
      BY <2>4, <3>1, CallThen
  <2>5. CASE /\ call.phase = "single" /\ call.slot = s
             /\ CallAfter = IF arriving[s].ok THEN [Ended(call, "ok") EXCEPT !.result = nextId] ELSE Ended(call, "failed")
    <3>1. waiting[s].op = "store"
      BY <2>5, NoSlot DEF CallIs, WaitsFor
    <3>2. CASE arriving[s].ok
      <4>1. d = [Ended(call, "ok") EXCEPT !.result = nextId]
        BY <2>5, <3>2
      <4> QED
        BY <1>0, <2>2, <2>5, <3>1, <3>2, <4>1, HearsCopy
    <3>3. CASE ~ arriving[s].ok
      <4>1. d = Ended(call, "failed")
        BY <2>5, <3>3
      <4> QED
        BY <1>0, <2>5, <4>1, HearsFailure
    <3> QED
      BY <3>2, <3>3
  <2>6. CASE /\ call.phase = "starting" /\ call.slot = s
             /\ CallAfter = IF arriving[s].ok THEN [call EXCEPT !.file = waiting[s].file, !.phase = "parts"] ELSE Ended(call, "failed")
    <3>1. waiting[s].op = "start"
      BY <2>6, NoSlot DEF CallIs, WaitsFor
    <3>2. CASE arriving[s].ok
      <4>1. d = [call EXCEPT !.file = waiting[s].file, !.phase = "parts"]
        BY <2>6, <3>2
      <4> QED
        BY <1>0, <2>3, <2>6, <3>1, <3>2, <4>1, HearsStart
    <3>3. CASE ~ arriving[s].ok
      <4>1. d = Ended(call, "failed")
        BY <2>6, <3>3
      <4> QED
        BY <1>0, <2>6, <4>1, HearsFailure
    <3> QED
      BY <3>2, <3>3
  <2>7. CASE /\ call.phase = "settled" /\ call.straggler = "watching" /\ call.slot = s
             /\ CallAfter = IF arriving[s].ok THEN StartedLate(waiting[s].file) ELSE [call EXCEPT !.straggler = "closed"]
    <3>1. waiting[s].op = "start"
      BY <2>7 DEF CallIs, WaitsFor
    <3>2. CASE arriving[s].ok
      <4>1. d = StartedLate(waiting[s].file)
        BY <2>7, <3>2
      <4> QED
        BY <1>0, <2>3, <2>7, <3>1, <3>2, <4>1, HearsLate
    <3>3. CASE ~ arriving[s].ok
      <4>1. d = [call EXCEPT !.straggler = "closed"]
        BY <2>7, <3>3
      <4> QED
        BY <1>0, <2>7, <4>1, HearsNoStart
    <3> QED
      BY <3>2, <3>3
  <2>8. ASSUME NEW n \in DOMAIN call.sent, call.phase = "parts", call.sent[n] = s,
               CallAfter = IF arriving[s].ok THEN PartCopied(waiting[s].number, arriving[s].content.sha1) ELSE CleaningUp(call)
        PROVE  CallIs(call)'
    <3> PICK k : k = n
      OBVIOUS
    <3>1. CASE arriving[s].ok
      <4>1. d = PartCopied(waiting[s].number, arriving[s].content.sha1)
        BY <2>8, <3>1
      <4> QED
        BY <1>0, <1>2, <2>8, <3>1, <4>1, HearsPart
    <3>2. CASE ~ arriving[s].ok
      <4>1. d = CleaningUp(call)
        BY <2>8, <3>2
      <4> QED
        BY <1>0, <2>8, <4>1, HearsFailure
    <3> QED
      BY <3>1, <3>2
  <2> QED
    BY <2>1, <2>4, <2>5, <2>6, <2>7, <2>8 DEF Hears
<1> QED
  BY <1>1, <1>2 DEF World

\* The slot a request of the call takes, and what its handler brings.
LEMMA TakenIs ==
    ASSUME SlotsInv, plan' = plan, NEW handler, handler # NoHandler, Enter(handler), NEW arrival, Arrive(arrival)
    PROVE  /\ SlotTaken \in Slot /\ waiting'[SlotTaken] = handler
           /\ arriving'[SlotTaken].ok => arriving'[SlotTaken] = arrival
<1>1. PICK slot \in Slot : /\ waiting[slot] = NoHandler /\ waiting'[slot] = handler
                           /\ \A s \in Slot : s # slot => waiting'[s] = waiting[s]
  BY EnterFrame
<1>2. \A s \in Slot : waiting'[s] # waiting[s] <=> s = slot
  BY <1>1
<1>3. SlotTaken = slot
  BY <1>1, <1>2 DEF SlotTaken
<1>4. arriving'[slot] = IF arrival.ok THEN arrival ELSE NoArrival
  BY <1>1 DEF Arrive
<1>5. ~ NoArrival.ok
  BY DEF NoArrival
<1> QED
  BY <1>1, <1>3, <1>4, <1>5

\* The requests of a copy: the copy of a small file, the start, a part.
LEMMA SendsCopy ==
    ASSUME SlotsInv, plan \in Plan, plan' = plan, BytesInv, ArrivalsInv, CallIs(call), WorldTurn, LargeTurn, SendCopy
    PROVE  ArrivalsInv' /\ CallIs(call)'
<1> PICK c, d : c = call /\ d = call'
  OBVIOUS
<1> PICK copy : copy = [source |-> c.ask.source, destination |-> c.ask.destination, range |-> Whole]
  OBVIOUS
<1> PICK source : source = contents[c.source.id]
  OBVIOUS
<1> PICK handler : handler = [op |-> "store", bucket |-> c.bucket, name |-> c.name]
  OBVIOUS
<1> PICK to : to = CopyEncryption(copy.destination, Default(c.bucket))
  OBVIOUS
<1> PICK ok : ok = (SourceAccepted(source.sse, copy.source) /\ to # Refused /\ RangeAccepted(source, copy.range))
  OBVIOUS
<1> PICK arrival : arrival = [ok |-> ok, content |-> Copied(source, copy.range, to), from |-> c.source.id,
                              key |-> copy.source.key, info |-> None]
  OBVIOUS
<1>1. /\ CopyContents(c.token, c.source, c.bucket, c.name, copy) /\ d = [c EXCEPT !.slot = SlotTaken]
      /\ c.phase = "single" /\ c.slot = None
  BY DEF SendCopy
<1>2. Enter(handler) /\ Arrive(arrival) /\ handler # NoHandler
  BY <1>1 DEF CopyContents, CopyFile, NoHandler
<1>3. BytesIn(source)
  BY DEF CallIs, Called, BytesInv
<1>4. ArrivalsInv'
  <2>1. Whole.first \in Nat /\ Whole.last \in Nat
    BY DEF Whole
  <2> PICK range : range = Whole
    OBVIOUS
  <2>2. copy.range = range /\ range.first \in Nat /\ range.last \in Nat
    BY <2>1
  <2> QED
    BY <1>1, <1>3, <2>2, CopyBring
<1>5. CallIs(c)'
  BY <1>2, EnterHands, HandsKeep, CallKeeps
<1> PICK slot : slot = SlotTaken
  OBVIOUS
<1>6. slot \in Slot' /\ waiting'[slot].op = "store" /\ (arriving'[slot].ok => arriving'[slot] = arrival)
  BY <1>2, TakenIs DEF Slot
<1>7. arrival.content.data = source.data
  BY DEF Copied, Content
<1>8. /\ Shaped(d) /\ d.phase = "single" /\ d.slot = slot /\ d.outcome = "none" /\ d.straggler = "none" /\ d.file = NoFile
      /\ d.sent = c.sent /\ d.sha1s = c.sha1s /\ d.ask = c.ask /\ d.source = c.source /\ d.size = c.size
  BY <1>1 DEF CallIs, Called, Shaped, CallFields
<1>9. Source(d)' = Source(c) /\ Source(c)' = Source(c)
  BY <1>8 DEF CallIs, Called, WorldTurn, Source
<1>10. Called(d)'
  BY <1>1, <1>5, <1>8 DEF CallIs, Called
<1>11. Sized(d)' /\ Sums(d)' /\ Ends(d)'
  BY <1>1, <1>5, <1>8, <1>9 DEF CallIs, Sized, Sums, Ends
<1>12. WaitsFor(d)'
  BY <1>6, <1>7, <1>8, <1>9 DEF WaitsFor, Source
<1>13. CallIs(d)'
  BY <1>10, <1>11, <1>12 DEF CallIs
<1> QED
  BY <1>4, <1>13, CallThen

LEMMA SendsStart ==
    ASSUME SlotsInv, plan \in Plan, plan' = plan, ArrivalsInv, CallIs(call), WorldTurn, LargeTurn, SendStart
    PROVE  ArrivalsInv' /\ CallIs(call)'
<1> PICK c, d : c = call /\ d = call'
  OBVIOUS
<1> PICK start : start = [setting |-> c.ask.destination, retained |-> FALSE, info |-> None]
  OBVIOUS
<1>1. /\ StartLargeContents(c.token, c.bucket, c.name, start) /\ d = [c EXCEPT !.slot = SlotTaken]
      /\ c.phase = "starting" /\ c.slot = None
  BY DEF SendStart
<1>2. PICK handler, arrival : Enter(handler) /\ Arrive(arrival) /\ handler.op = "start"
  BY <1>1 DEF StartLargeContents, StartLargeFile
<1>3. handler # NoHandler
  BY <1>2 DEF NoHandler
<1>4. ArrivalsInv'
  BY <1>1, StartBring
<1>5. CallIs(c)'
  BY <1>2, EnterHands, HandsKeep, CallKeeps
<1> PICK slot : slot = SlotTaken
  OBVIOUS
<1>6. slot \in Slot' /\ waiting'[slot].op = "start"
  BY <1>2, <1>3, TakenIs DEF Slot
<1>8. /\ Shaped(d) /\ d.phase = "starting" /\ d.slot = slot /\ d.outcome = "none" /\ d.straggler = "none" /\ d.file = NoFile
      /\ d.sent = c.sent /\ d.sha1s = c.sha1s /\ d.ask = c.ask /\ d.source = c.source /\ d.size = c.size
  BY <1>1 DEF CallIs, Called, Shaped, CallFields
<1>9. Source(d)' = Source(c)'
  BY <1>8 DEF Source
<1>10. Called(d)'
  BY <1>1, <1>5, <1>8 DEF CallIs, Called
<1>11. Sized(d)' /\ Sums(d)' /\ Ends(d)'
  BY <1>1, <1>5, <1>8, <1>9 DEF CallIs, Sized, Sums, Ends
<1>12. WaitsFor(d)'
  BY <1>6, <1>8 DEF WaitsFor
<1>13. CallIs(d)'
  BY <1>10, <1>11, <1>12 DEF CallIs
<1> QED
  BY <1>4, <1>13, CallThen

LEMMA SendsPart ==
    ASSUME SlotsInv, plan \in Plan, plan' = plan, BytesInv, ArrivalsInv, CallIs(call), WorldTurn, LargeTurn,
           call.phase = "parts", NEW n \in PartNumbers, SendPart(n)
    PROVE  ArrivalsInv' /\ CallIs(call)'
<1> PICK c, d : c = call /\ d = call'
  OBVIOUS
<1>0. CallIs(c) /\ c.phase = "parts"
  OBVIOUS
<1>1. CASE ~ (c.source \in stored /\ c.file \in unfinished)
  <2>1. d = CleaningUp(c) /\ SameFiles
    BY <1>1 DEF SendPart
  <2>2. CallIs(d)
    BY <1>0, <2>1, CleaningIs
  <2>3. ArrivalsInv'
    BY <2>1, SameBring DEF SameFiles, storageVars, contentVars
  <2> QED
    BY <2>1, <2>2, <2>3, QuietThen
<1>2. CASE c.source \in stored /\ c.file \in unfinished
  <2> PICK size, partSize, parts : size = c.size /\ partSize = c.ask.partSize /\ parts = Planned(c.size, c.ask.partSize)
    OBVIOUS
  <2> PICK range : range = RangeOf(size, partSize, n)
    OBVIOUS
  <2> PICK copy : copy = [source |-> c.ask.source, destination |-> c.ask.destination, range |-> range]
    OBVIOUS
  <2> PICK source : source = contents[c.source.id]
    OBVIOUS
  <2> PICK handler : handler = [op |-> "part", file |-> c.file, number |-> n]
    OBVIOUS
  <2> PICK ok : ok = (/\ SourceAccepted(source.sse, copy.source)
                      /\ PartDestinationAccepted(largeFiles[c.file.id].content.sse, copy.destination)
                      /\ RangeAccepted(source, copy.range))
    OBVIOUS
  <2> PICK b : b = PartBrought(source, copy.range)
    OBVIOUS
  <2> PICK arrival : arrival = [ok |-> ok, content |-> b, from |-> c.source.id, key |-> copy.source.key, info |-> None]
    OBVIOUS
  <2>1. copy = PartCopy(n)
    BY DEF PartCopy
  <2>2. CopyPart(c.token, c.source, c.file, n, copy) /\ d = [c EXCEPT !.sent = With(@, n, SlotTaken)]
    BY <1>2, <2>1 DEF SendPart
  <2>3. Enter(handler) /\ Arrive(arrival) /\ handler # NoHandler
    BY <2>2 DEF CopyPart, PartBrought, NoHandler
  <2>4. BytesIn(source) /\ size = Len(source.data) /\ partSize < size /\ partSize \in Nat \ {0}
    BY <1>0, CallAssumption DEF CallIs, Called, Sized, BytesInv, Source
  <2>5. size \in Nat \ {0}
    <3> PICK data : data = source.data
      OBVIOUS
    <3>1. Len(data) \in Nat
      BY <2>4 DEF BytesIn
    <3> QED
      BY <2>4, <3>1
  <2>6. Ranged(size, partSize, parts)
    BY <2>4, <2>5, PartsPlanned
  <2>7. n \in 1..parts
    BY DEF PartNumbers, Planned
  <2>8. range.first \in Nat /\ range.last \in Nat /\ Copied(source, range, Plain).data = Piece(source.data, size, partSize, n)
    <3> PICK sse : sse = Plain
      OBVIOUS
    <3>1. LET r == RangeOf(size, partSize, n)
          IN  /\ r.first \in Nat /\ r.last \in Nat
              /\ Copied(source, r, sse).data = Piece(source.data, size, partSize, n)
      BY ONLY <2>4, <2>5, <2>6, <2>7, CopiedPiece
    <3> QED
      BY <3>1
  <2>9. ArrivalsInv'
    BY <2>2, <2>4, <2>8, PartBring
  <2>10. b.sha1 = Digest(c, n)
    <3>1. b.sha1 = Sha1(Copied(source, range, Plain).data)
      BY BroughtIs
    <3> QED
      BY <2>8, <3>1 DEF Digest, Source
  <2>11. CallIs(c)'
    BY <2>3, EnterHands, HandsKeep, CallKeeps
  <2> PICK slot : slot = SlotTaken
    OBVIOUS
  <2>12. slot \in Slot' /\ waiting'[slot] = handler /\ (arriving'[slot].ok => arriving'[slot] = arrival)
    BY <2>3, TakenIs DEF Slot
  <2> PICK sent : sent = With(c.sent, n, slot)
    OBVIOUS
  <2>13. d = [c EXCEPT !.sent = sent]
    BY <2>2
  <2>14. /\ Shaped(d) /\ d.phase = "parts" /\ d.slot = c.slot /\ d.outcome = "none" /\ d.straggler = "none" /\ d.file = c.file
         /\ d.sent = sent /\ d.sha1s = c.sha1s /\ d.ask = c.ask /\ d.source = c.source /\ d.size = c.size
    BY <1>0, <2>13 DEF CallIs, Called, Shaped, CallFields
  <2>15. Source(d)' = Source(c)' /\ Source(c)' = Source(c) /\ PartsOf(d)' = PartsOf(c) /\ PartsOf(c)' = PartsOf(c)
    BY <1>0, <2>14 DEF CallIs, Called, WorldTurn, Source, PartsOf
  <2>16. \A m : Digest(d, m)' = Digest(c, m) /\ Digest(c, m)' = Digest(c, m)
    BY <2>14, <2>15 DEF Digest
  <2>17. Called(d)'
    BY <1>0, <2>11, <2>14 DEF CallIs, Called
  <2>18. Sized(d)'
    BY <1>0, <2>11, <2>14, <2>15 DEF CallIs, Sized
  <2>19. Sums(d)'
    BY <1>0, <2>11, <2>14, <2>15, <2>16 DEF CallIs, Sums
  <2>20. Ends(d)'
    BY <1>0, <2>11, <2>14, <2>15 DEF CallIs, Ends
  <2>21. WaitsFor(d)'
    <3>1. DOMAIN sent = DOMAIN c.sent \cup {n} /\ sent[n] = slot /\ \A m \in DOMAIN c.sent \ {n} : sent[m] = c.sent[m]
      BY DEF With
    <3>2. ASSUME NEW m \in DOMAIN sent PROVE PartOut(d, m)'
      <4>1. CASE m = n
        <5>1. n \in PartsOf(d)' /\ sent[n] \in Slot'
          BY <2>7, <2>12, <2>15, <3>1 DEF PartsOf
        <5>2. arriving'[slot].ok => arriving'[slot].content.sha1 = Digest(d, n)'
          BY <2>10, <2>12, <2>16
        <5> QED
          BY <2>12, <2>14, <3>1, <4>1, <5>1, <5>2 DEF PartOut
      <4>2. CASE m # n
        <5>1. m \in DOMAIN c.sent /\ sent[m] = c.sent[m]
          BY <3>1, <4>2
        <5>2. PartOut(c, m)'
          BY <1>0, <2>11, <5>1 DEF CallIs, WaitsFor
        <5> QED
          BY <2>14, <2>15, <2>16, <5>1, <5>2 DEF PartOut
      <4> QED
        BY <4>1, <4>2
    <3> QED
      BY <2>14, <3>2 DEF WaitsFor
  <2>22. CallIs(d)'
    BY <2>17, <2>18, <2>19, <2>20, <2>21 DEF CallIs
  <2> QED
    BY <2>9, <2>22, CallThen
<1> QED
  BY <1>1, <1>2

\* No other large file has the id of one that is finished or cancelled.
LEMMA GoneNow ==
    ASSUME RememberedInv, NEW c, c.file \in unfinished, unfinished' = unfinished \ {c.file}
    PROVE  Gone(c)'
BY DEF RememberedInv, Gone

\* A finish is served: the parts make up the source, unless one has merely claimed its digest.
LEMMA FinishIs ==
    ASSUME plan \in Plan, LargeInv, RememberedInv, FileIdsInv, BytesInv, nextId \in Nat, CallIs(call), WorldTurn, LargeTurn, plan' = plan,
           NEW c, CallIs(c), Alike(call, c), c.phase = "finishing", c.file \in unfinished,
           NEW t, FinishContents(t, c.file, c.sha1s), NEW d, d = [Ended(c, "ok") EXCEPT !.result = nextId], d = call'
    PROVE  CallIs(call)'
<1>1. /\ Shaped(d) /\ d.phase = "settled" /\ d.outcome = "ok" /\ d.straggler = "none" /\ d.file = c.file
      /\ d.ask = c.ask /\ d.source = c.source /\ d.result = nextId
  <2> PICK o : o = Ended(c, "ok")
    OBVIOUS
  <2>1. /\ Shaped(o) /\ o.phase = "settled" /\ o.outcome = "ok" /\ o.straggler = "none" /\ o.file = c.file
        /\ o.ask = c.ask /\ o.source = c.source
    BY DEF CallIs, Called, Shaped, CallFields, Ended
  <2> QED
    BY <2>1 DEF Shaped, CallFields
<1> PICK large : large = largeFiles[c.file.id]
  OBVIOUS
<1> PICK parts : parts = OrderedParts(large)
  OBVIOUS
<1> PICK whole : whole = [large.content EXCEPT !.data = DataOf(parts), !.meant = MeantBy(parts)]
  OBVIOUS
<1>2. contents' = With(contents, nextId, whole) /\ largeFiles' = largeFiles /\ unfinished' = unfinished \ {c.file}
      /\ c.sha1s = DigestsOf(parts)
  BY DEF FinishContents, FinishLargeFile
<1>3. c.file.id \in DOMAIN largeFiles /\ Sealing(large.content) /\ Numbered(large)
  BY DEF LargeInv, Unfinished, RememberedInv
<1>4. whole.data = DataOf(parts)
  BY <1>3 DEF Sealing
<1>5. contents' = [i \in DOMAIN contents \cup {nextId} |-> IF i = nextId THEN whole ELSE contents[i]]
  BY <1>2 DEF With
<1>6. nextId \in DOMAIN contents' /\ contents'[nextId].data = DataOf(parts)
  BY <1>4, <1>5
<1>7. c.file # NoFile
  BY DEF FileIdsInv, NoFile, File
<1>8. Gone(d)'
  BY <1>1, <1>2, GoneNow DEF Gone
<1>9. Source(d)' = Source(c) /\ c.source.id \in DOMAIN contents'
  BY <1>1 DEF CallIs, Called, WorldTurn, Source
<1>10. ~ MerelyClaimed(large) => DataOf(parts) = Source(c)
  <2> SUFFICES ASSUME ~ MerelyClaimed(large) PROVE DataOf(parts) = Source(c)
    OBVIOUS
  <2> PICK data, size, partSize, planned, sha1s :
             data = Source(c) /\ size = c.size /\ partSize = c.ask.partSize /\ planned = Planned(c.size, c.ask.partSize)
             /\ sha1s = c.sha1s
    OBVIOUS
  <2>1. data \in Seq(Nat) /\ size = Len(data) /\ partSize < size /\ partSize \in Nat \ {0}
    <3>1. Source(c) \in Seq(Nat) /\ c.ask \in plan.calls
      BY DEF CallIs, Called, BytesInv, BytesIn, Source
    <3>2. c.size = Len(Source(c)) /\ c.ask.partSize < c.size
      BY DEF CallIs, Sized
    <3>3. c.ask.partSize \in Nat \ {0}
      BY <3>1, CallAssumption
    <3> QED
      BY <3>1, <3>2, <3>3
  <2>2. size \in Nat \ {0}
    <3>1. Len(data) \in Nat
      BY <2>1
    <3> QED
      BY <2>1, <3>1
  <2>3. sha1s = [n \in 1..planned |-> Sha1(Piece(data, size, partSize, n))]
    <3>1. sha1s = [n \in PartsOf(c) |-> Digest(c, n)]
      BY DEF CallIs, Sums
    <3>2. PartsOf(c) = 1..planned /\ \A n : Digest(c, n) = Sha1(Piece(data, size, partSize, n))
      BY DEF PartsOf, Digest
    <3> QED
      BY <3>1, <3>2
  <2>4. IsFiniteSet(DOMAIN large.parts) /\ DOMAIN large.parts \subseteq Nat
    BY <1>3 DEF Numbered
  <2>5. sha1s = DigestsOf(OrderedParts(large)) /\ planned = Planned(size, partSize)
    BY <1>2
  <2>6. DataOf(OrderedParts(large)) = data
    BY ONLY <2>1, <2>2, <2>3, <2>4, <2>5, ~ MerelyClaimed(large), WholeAgain
  <2> QED
    BY <2>6
<1>11. largeFiles'[d.file.id] = large /\ d.file.id \in DOMAIN largeFiles'
  BY <1>1, <1>2, <1>3
<1>12. Called(d)'
  BY <1>1, <1>9 DEF CallIs, Called
<1>13. Ends(d)'
  <2>1. \/ contents'[d.result].data = Source(d)'
        \/ d.file # NoFile /\ Gone(d)' /\ MerelyClaimed(largeFiles'[d.file.id])
    BY <1>1, <1>6, <1>7, <1>8, <1>9, <1>10, <1>11
  <2>2. MerelyClaimed(largeFiles[d.file.id])' <=> MerelyClaimed(largeFiles'[d.file.id])
    BY DEF MerelyClaimed
  <2> QED
    BY <1>1, <1>6, <1>11, <2>1, <2>2 DEF Ends
<1>14. CallIs(d)'
  BY <1>1, <1>12, <1>13 DEF CallIs, Sized, WaitsFor, Sums
<1> QED
  BY <1>14, CallThen

\* The answer to the finish request.
LEMMA FinishAnswered ==
    ASSUME LargeInv, RememberedInv, FileIdsInv, BytesInv, nextId \in Nat, plan \in Plan, CallIs(call), WorldTurn, LargeTurn,
           plan' = plan, FinishServed
    PROVE  CallIs(call)' /\ arriving' = arriving
<1> PICK b, d : b = call /\ d = call'
  OBVIOUS
<1> PICK way : way = b.onWay \ {"finish"}
  OBVIOUS
<1> PICK c : c = [b EXCEPT !.onWay = way]
  OBVIOUS
<1>1. CallIs(c) /\ Alike(b, c)
  BY AnsweredIs
<1>2. c.phase = b.phase /\ c.file = b.file /\ c.sha1s = b.sha1s
  BY <1>1, AlikeFields
<1>3. CASE ~ (b.file \in unfinished /\ b.sha1s = DigestsOf(OrderedParts(largeFiles[b.file.id])))
  <2>1. d = (IF b.phase = "finishing" THEN CleaningUp(c) ELSE c) /\ SameFiles
    BY <1>3 DEF FinishServed
  <2>2. CallIs(d)
    <3>1. CASE b.phase = "finishing"
      BY <1>1, <1>2, <2>1, <3>1, CleaningIs
    <3>2. CASE b.phase # "finishing"
      BY <1>1, <2>1, <3>2
    <3> QED
      BY <3>1, <3>2
  <2>3. arriving' = arriving
    BY <2>1 DEF SameFiles, contentVars
  <2> QED
    BY <2>1, <2>2, <2>3, QuietThen
<1>4. CASE b.file \in unfinished /\ b.sha1s = DigestsOf(OrderedParts(largeFiles[b.file.id]))
  <2>1. /\ FinishContents(b.token, b.file, b.sha1s)
        /\ d = IF b.phase = "finishing" THEN [Ended(c, "ok") EXCEPT !.result = nextId] ELSE c
    BY <1>4 DEF FinishServed
  <2>2. UNCHANGED <<waiting, arriving>>
    BY <2>1 DEF FinishContents, FinishLargeFile
  <2>3. CASE b.phase = "finishing"
    <3>1. d = [Ended(c, "ok") EXCEPT !.result = nextId]
      BY <2>1, <2>3
    <3>2. FinishContents(b.token, c.file, c.sha1s) /\ c.phase = "finishing" /\ c.file \in unfinished
      BY <1>2, <1>4, <2>1, <2>3
    <3>3. Alike(call, c)
      BY <1>1
    <3>4. CallIs(call)'
      BY <1>1, <3>1, <3>2, <3>3, FinishIs
    <3> QED
      BY <2>2, <3>4
  <2>4. CASE b.phase # "finishing"
    <3>1. d = c
      BY <2>1, <2>4
    <3>2. CallIs(c)'
      BY <1>1, <2>2, SameHands, HandsKeep, CallKeeps
    <3> QED
      BY <2>2, <3>1, <3>2, CallThen
  <2> QED
    BY <2>3, <2>4
<1> QED
  BY <1>3, <1>4

\* A cancel is served, or refused, which the call reports.
LEMMA CancelAnswered ==
    ASSUME RememberedInv, plan \in Plan, CallIs(call), WorldTurn, LargeTurn, plan' = plan, CancelServed
    PROVE  CallIs(call)' /\ arriving' = arriving
<1> PICK b, d : b = call /\ d = call'
  OBVIOUS
<1> PICK way, straggler : way = b.onWay \ {"cancel"} /\ straggler = IF b.straggler = "cancelling" THEN "closed" ELSE b.straggler
  OBVIOUS
<1> PICK done : done = [b EXCEPT !.onWay = way, !.phase = "settled", !.outcome = "failed", !.straggler = straggler]
  OBVIOUS
<1>1. /\ Shaped(done) /\ done.phase = "settled" /\ done.outcome = "failed" /\ done.straggler = straggler /\ done.file = b.file
      /\ done.ask = b.ask /\ done.source = b.source /\ done.slot = b.slot /\ done.reported = b.reported
  BY DEF CallIs, Called, Shaped, CallFields
<1>2. straggler = "watching" => b.straggler = "watching" /\ b.file = NoFile
  BY DEF CallIs, Called
<1>3. CASE b.file \in unfinished
  <2>1. CancelLargeFile(b.token, b.file) /\ UNCHANGED contentVars /\ d = done
    BY <1>3 DEF CancelServed
  <2>2. unfinished' = unfinished \ {b.file} /\ UNCHANGED <<plan, waiting, arriving, contents, largeFiles>>
    BY <2>1 DEF CancelLargeFile, contentVars
  <2>3. Called(d)' /\ Sized(d)' /\ Sums(d)'
    BY <1>1, <1>2, <2>1, <2>2 DEF CallIs, Called, Sized, Sums
  <2>4. WaitsFor(d)'
    BY <1>1, <1>2, <2>1, <2>2 DEF CallIs, WaitsFor, Slot
  <2>5. Gone(d)'
    BY <1>1, <1>3, <2>1, <2>2, GoneNow
  <2>6. Ends(d)'
    BY <1>1, <2>1, <2>2, <2>5 DEF CallIs, Ends
  <2>7. CallIs(d)'
    BY <2>3, <2>4, <2>6 DEF CallIs
  <2> QED
    BY <2>2, <2>7, CallThen
<1>4. CASE b.file \notin unfinished
  <2> PICK reported : reported = b.reported \cup {"cancel-failed"}
    OBVIOUS
  <2>1. d = [done EXCEPT !.reported = reported] /\ SameFiles
    BY <1>1, <1>4 DEF CancelServed
  <2>2. /\ Shaped(d) /\ d.phase = "settled" /\ d.outcome = "failed" /\ d.straggler = straggler /\ d.file = b.file
        /\ d.ask = b.ask /\ d.source = b.source /\ d.slot = b.slot /\ d.reported # {}
    <3>1. Shaped(d)
      BY <1>1, <2>1 DEF Shaped, CallFields
    <3>2. reported # {} /\ done.reported = b.reported
      BY <1>1
    <3>3. d.reported = reported
      BY <1>1, <2>1 DEF Shaped, CallFields
    <3>4. /\ d.phase = done.phase /\ d.outcome = done.outcome /\ d.straggler = done.straggler /\ d.file = done.file
          /\ d.ask = done.ask /\ d.source = done.source /\ d.slot = done.slot
      <4>1. done = [f \in CallFields |-> done[f]]
        BY <1>1 DEF Shaped
      <4>2. \A f \in CallFields \ {"reported"} : d[f] = done[f]
        BY <2>1, <4>1
      <4> QED
        BY <4>2 DEF CallFields
    <3> QED
      BY <1>1, <3>1, <3>2, <3>3, <3>4
  <2>3. CallIs(d)
    BY <1>2, <2>2 DEF CallIs, Called, Sized, WaitsFor, Sums, Ends
  <2>4. arriving' = arriving
    BY <2>1 DEF SameFiles, contentVars
  <2> QED
    BY <2>1, <2>3, <2>4, QuietThen
<1> QED
  BY <1>3, <1>4

\* A call that goes on.
LEMMA CopyCall ==
    ASSUME SlotsInv, plan \in Plan, plan' = plan, nextId \in Nat, LargeInv, RememberedInv, FileIdsInv,
           ArrivalsInv, BytesInv, CallIs(call), World, LargeTurn, CopyNext
    PROVE  ArrivalsInv' /\ CallIs(call)'
<1>1. WorldTurn
  BY DEF World
<1>2. ASSUME SameFiles PROVE ArrivalsInv'
  BY <1>2, SameBring DEF SameFiles, storageVars, contentVars
<1>3. ASSUME arriving' = arriving PROVE ArrivalsInv'
  BY <1>3, SameBring
<1>4. \A t, f, b, name, ask : ~ CopyLargeFile(t, f, b, name, ask)
  BY DEF CopyLargeFile, NoCall, CallIs, Called
<1>5. CASE SizeKnown
  BY <1>2, <1>5, SizedIs DEF SizeKnown
<1>6. CASE NotSent
  BY <1>2, <1>6, NotSentIs DEF NotSent
<1>7. CASE SendCopy
  BY <1>1, <1>7, SendsCopy
<1>8. CASE SendStart
  BY <1>1, <1>8, SendsStart
<1>9. ASSUME call.phase = "parts", NEW n \in PartNumbers, SendPart(n) PROVE ArrivalsInv' /\ CallIs(call)'
  <2> PICK m : m = n
    OBVIOUS
  <2> QED
    BY <1>1, <1>9, SendsPart
<1>10. CASE FinishServed
  BY <1>1, <1>3, <1>10, FinishAnswered
<1>11. CASE CancelServed
  BY <1>1, <1>3, <1>11, CancelAnswered
<1>12. CASE RequestFails
  BY <1>2, <1>12, GivesUp DEF RequestFails
<1>13. CASE CallerAborts
  BY <1>2, <1>13, IsAborted DEF CallerAborts
<1> QED
  BY <1>4, <1>5, <1>6, <1>7, <1>8, <1>9, <1>10, <1>11, <1>12, <1>13 DEF CopyNext

\* A call that begins, as no other step of the copy is taken without one.
LEMMA CopyBegins ==
    ASSUME plan' = plan, FilesInv, call = NoCall, CopyNext
    PROVE  SameFiles /\ May("contents") /\ CallIs(call)'
<1>1. call.phase = "idle"
  BY DEF NoCall
<1>2. PICK t \in tokens, f \in stored, b \in Live, name \in Name, ask \in plan.calls : CopyLargeFile(t, f, b, name, ask)
  BY <1>1 DEF CopyNext, SizeKnown, NotSent, SendCopy, SendStart, FinishServed, CancelServed, RequestFails, CallerAborts
<1> PICK token, file, bucket, as, asked : token = t /\ file = f /\ bucket = b /\ as = name /\ asked = ask
  OBVIOUS
<1>3. file \in stored /\ asked \in plan.calls /\ CopyLargeFile(token, file, bucket, as, asked)
  BY <1>2
<1>4. May("contents") /\ CallIs(call)'
  BY <1>3, BegunIs
<1> QED
  BY <1>3, <1>4 DEF CopyLargeFile

\* Steps of others than the files and the copy.
LEMMA ElsewhereHands ==
    ASSUME SlotsInv, nextId \in Nat, May("contents"), [Next]_vars
    PROVE  \/ call' = call /\ HandsOff /\ UNCHANGED arriving
           \/ ContentNext /\ call' = CallAfter
           \/ CopyNext
<1>1. ASSUME CalmFiles PROVE HandsOff /\ UNCHANGED arriving
  BY <1>1, CalmHands DEF CalmFiles
<1>2. UNCHANGED fileVars => call' = call /\ UNCHANGED contentVars
  BY DEF fileVars
<1>3. CASE AccountNext /\ UNCHANGED fileVars
  BY <1>1, <1>2, <1>3, AccountCalm
<1>4. CASE PartnerNext /\ UNCHANGED fileVars
  BY <1>1, <1>2, <1>4, PartnerCalm
<1>5. CASE SettingsNext /\ UNCHANGED <<contentVars, call>>
  BY <1>1, <1>5, SettingsCalm
<1>6. CASE SearchNext /\ UNCHANGED call
  <2>1. UNCHANGED <<storageVars, contentVars>>
    BY <1>6 DEF SearchNext, BeginSearch, ListPage, Choose, ListPartsPage, SearchFails
  <2> QED
    BY <1>6, <2>1, SameHands DEF storageVars, contentVars
<1>7. CASE ReadNext /\ UNCHANGED call
  <2>1. StreamNext => UNCHANGED <<storageVars, contentVars>>
    BY DEF StreamNext, Chunk, Consume, EndOfBody, ConnectionBreaks, CancelReading, CancelPendingRead, TimerFires, SameService
  <2>2. ASSUME NEW f, NEW caps, NEW method, NEW range, NEW headers, Answer(f, caps, method, range, headers)
        PROVE  UNCHANGED <<storageVars, arriving>>
    BY <2>2 DEF Answer
  <2>3. UNCHANGED <<waiting, arriving>>
    BY <1>7, <2>1, <2>2 DEF ReadNext, ReadWithToken, ReadWithAuthorization, storageVars, contentVars
  <2> QED
    BY <1>7, <2>3, SameHands
<1>8. CASE UNCHANGED vars
  <2>1. UNCHANGED <<waiting, arriving, call>>
    BY <1>8 DEF vars, fileVars, storageVars, contentVars
  <2> QED
    BY <2>1, SameHands
<1> QED
  BY <1>3, <1>4, <1>5, <1>6, <1>7, <1>8 DEF Next

\* Every step keeps the invariant of the large copy.
LEMMA CallStep ==
    ASSUME UrlInv, FilesInv, FileIdsInv, LargesInv, May("contents") => LargeTurn, CarriedInv, CallInv, [Next]_vars
    PROVE  CarriedInv' /\ CallInv'
<1>1. SlotsInv /\ nextId \in Nat /\ plan' = plan /\ plan \in Plan
  BY PlanStays DEF UrlInv, ClockInv, FilesInv
<1>2. May("contents")' <=> May("contents")
  BY <1>1 DEF May
<1>3. CASE ~ May("contents")
  <2>1. call = NoCall
    BY <1>3 DEF CallInv
  <2>2. CopyNext => May("contents")
    BY <1>1, <2>1, CopyBegins
  <2>3. call' = NoCall
    <3>1. CASE CopyNext
      BY <1>3, <2>2, <3>1
    <3>2. CASE ~ CopyNext
      BY <1>3, <2>1, <3>2 DEF Next, vars, fileVars
    <3> QED
      BY <3>1, <3>2
  <2> QED
    BY <1>2, <1>3, <2>3 DEF CarriedInv, CallInv, NoCall
<1>4. CASE May("contents")
  <2>1. ContentsInv /\ LargeInv /\ ArrivingInv /\ RememberedInv /\ ComingInv /\ ArrivalsInv /\ BytesInv /\ LargeTurn
    BY <1>4 DEF FilesInv, LargesInv, CarriedInv
  <2>2. World
    BY <1>1, <1>4, <2>1, FileStep, WorldStep
  <2>3. BytesInv' /\ WorldTurn
    BY <2>2 DEF World
  <2> SUFFICES ArrivalsInv' /\ (call' # NoCall => CallIs(call)')
    BY <1>2, <1>4, <2>3 DEF CarriedInv, CallInv, NoCall
  <2>5. CASE call' = call /\ HandsOff /\ UNCHANGED arriving
    <3>1. ArrivalsInv'
      BY <1>1, <2>1, <2>5, SameBring
    <3>2. ASSUME call # NoCall PROVE CallIs(call)'
      <4> PICK c : c = call
        OBVIOUS
      <4>1. CallIs(c) /\ c = call'
        BY <2>5, <3>2 DEF CallInv
      <4>2. CallIs(c)'
        BY <1>1, <2>1, <2>3, <2>5, <4>1, HandsKeep, CallKeeps
      <4> QED
        BY <4>1, <4>2, CallThen
    <3> QED
      BY <2>5, <3>1, <3>2
  <2>6. CASE ContentNext /\ call' = CallAfter
    <3>1. ArrivalsInv'
      BY <1>1, <2>1, <2>6, ContentBring
    <3>2. CASE call = NoCall
      <4>1. CallAfter = call
        BY <3>2 DEF CallAfter, NoCall
      <4> QED
        BY <2>6, <3>1, <3>2, <4>1
    <3>3. CASE call # NoCall
      <4>1. CallIs(call)
        BY <3>3 DEF CallInv
      <4>2. CallIs(call)'
        BY <1>1, <2>1, <2>2, <2>6, <4>1, ContentCall
      <4> QED
        BY <3>1, <4>2
    <3> QED
      BY <3>2, <3>3
  <2>7. CASE CopyNext
    <3>1. CASE call = NoCall
      <4>1. SameFiles /\ CallIs(call)'
        BY <1>1, <2>7, <3>1, CopyBegins
      <4>2. ArrivalsInv'
        BY <2>1, <4>1, SameBring DEF SameFiles, storageVars, contentVars
      <4> QED
        BY <4>1, <4>2
    <3>2. CASE call # NoCall
      <4>1. CallIs(call)
        BY <3>2 DEF CallInv
      <4> QED
        BY <1>1, <2>1, <2>2, <2>7, <4>1, CopyCall
    <3> QED
      BY <3>1, <3>2
  <2> QED
    BY <1>1, <1>4, <2>5, <2>6, <2>7, ElsewhereHands
<1> QED
  BY <1>3, <1>4

\* It holds when the service starts.
LEMMA CallInit == Init => CarriedInv /\ CallInv
<1> SUFFICES ASSUME Init PROVE ArrivalsInv /\ BytesInv /\ call = NoCall
  BY DEF CarriedInv, CallInv
<1>1. contents = <<>> /\ largeFiles = <<>> /\ arriving = [s \in Slot |-> NoArrival] /\ call = NoCall
  BY DEF Init, ContentInit
<1>2. DOMAIN contents = {} /\ DOMAIN largeFiles = {}
  BY <1>1
<1> QED
  BY <1>1, <1>2, NothingBytes DEF ArrivalsInv, BytesInv

\* Whoever else writes to, finishes or cancels the large file, and whether the source is deleted
\* under the copy: one that returns has the bytes of its source, unless another's part has merely
\* claimed its digest, and one that failed leaves no unfinished file, unless it said so or never
\* learned the id of the file it started (copyLargeFile, cancelLargeFileAfterStart in copy/large.ts).
THEOREM CopiesAreWhole == Spec => []CopyIsWhole
<1> DEFINE Inv == UrlInv /\ FilesInv /\ FileIdsInv /\ LargesInv /\ CarriedInv /\ CallInv
<1>1. Init => Inv
  BY GrantsInit, FilesInit, FileIdsInit, LargesInit, CallInit
<1>2. Inv /\ [Next]_vars => Inv'
  <2> SUFFICES ASSUME Inv, [Next]_vars PROVE Inv'
    OBVIOUS
  <2>1. UrlInv' /\ FilesInv' /\ FileIdsInv'
    BY TurnStep, UrlStep, FilesStep, FileIdsStep
  <2>2. LargesInv' /\ (May("contents") => LargeTurn)
    BY LargesStep
  <2>3. CarriedInv' /\ CallInv'
    BY <2>2, CallStep
  <2> QED
    BY <2>1, <2>2, <2>3
<1>3. Inv => CopyIsWhole
  <2>1. call = NoCall => CopyIsWhole
    BY DEF NoCall, CopyIsWhole
  <2> QED
    BY <2>1, CallIsWhole DEF CallInv
<1> HIDE DEF Inv
<1> QED
  BY <1>1, <1>2, <1>3, PTL DEF Spec
=============================================================================
