---------------------------- MODULE ResumeDiscovery ----------------------------
(***************************************************************************)
(* The search for an unfinished large file to resume (upload/resume.ts), by  *)
(* a client that lists the large files of a bucket page by page and then the *)
(* parts of those that fit, while other uploaders start, fill, finish and    *)
(* cancel them.  The time a large file was started is its id, but the        *)
(* listing has them in the order they were added in, after the wait of their *)
(* handlers.  Large files of other names that the listing's prefix covers     *)
(* are left out.                                                            *)
(***************************************************************************)
EXTENDS FileContents

CONSTANT PageSize       \* large files, and parts, in a page of a listing

\* A search lists at least one page, of large files and of parts.
ASSUME SearchAssumption ==
    /\ PageSize \in Nat \ {0}
    /\ \A p \in Plan : \A want \in p.wants :
          /\ want.lengths \in Seq(Nat)
          /\ want.maxPages \in Nat \ {0} /\ want.maxPartPages \in Nat \ {0}

VARIABLE search

(* What is wanted: the lengths of the planned parts, the metadata, the encryption and retention   *)
(* asked for or of the bucket ("unreadable" when its default cannot be read), the large file that  *)
(* is asked for or None, and the limits on pages and candidates.                                   *)

NoSearch == [phase |-> "idle"]

\* The unfinished large files of a bucket.
IdsIn(b) == {f.id : f \in {x \in unfinished : x.bucket = b}}

BeginSearch(t, b, want) ==
    /\ May("resume") /\ search = NoSearch
    /\ search' = [phase |-> "listing", token |-> t, bucket |-> b, want |-> want,
                  cursor |-> want.explicit, pages |-> 0, listed |-> 0, matches |-> {}, limits |-> {},
                  inspected |-> 0, candidate |-> None, number |-> 1, parts |-> <<>>,
                  steady |-> IdsIn(b)]
    /\ UNCHANGED <<storageVars, contentVars>>

-----------------------------------------------------------------------------
(* Listings.                                                               *)

\* Of these large files, those that are listed before it: they are in the order they were added in.
Earlier(ids, id) == {i \in ids : largeFiles[i].since < largeFiles[id].since}

Foremost(ids) == CHOOSE id \in ids : \A i \in ids : largeFiles[id].since <= largeFiles[i].since

\* listUnfinishedLargeFiles: from the large file of the cursor, or from the start if it is gone.
PageFrom(ids, cursor) ==
    LET there == IF cursor \in ids THEN ids \ Earlier(ids, cursor) ELSE ids
        size == IF search.want.explicit # None THEN 1 ELSE PageSize
        page == {id \in there : Cardinality(Earlier(there, id)) < size}
        rest == there \ page
    IN  [ids |-> page, next |-> IF rest = {} THEN None ELSE Foremost(rest)]

\* What a listing says of a large file to a caller with these capabilities.
ListedFile(id, capabilities) ==
    LET large == largeFiles[id]
        may(capability, value) == IF capability \in capabilities THEN value ELSE "unreadable"
    IN  [id |-> id, info |-> large.info, mode |-> large.content.sse.mode,
         retention |-> may("readFileRetentions", IF large.content.lock.retained THEN "yes" ELSE "no"),
         hold |-> may("readFileLegalHolds", large.content.lock.hold)]

\* A row of the matches: the large file and how many rows the listings had before.
Row(sequence, file) == [sequence |-> sequence, file |-> file]

\* A page of findResumeCandidateWithSignal.
ListPage ==
    LET page == PageFrom(IdsIn(search.bucket), search.cursor)
        wanted == {id \in page.ids : search.want.explicit \in {None, id}}
        rows == {Row(search.listed + Cardinality(Earlier(page.ids, id)),
                     ListedFile(id, search.token.caps)) : id \in wanted}
        more == search.want.explicit = None /\ page.next # None
        last == ~ more \/ search.pages + 1 >= search.want.maxPages
    IN  /\ search.phase = "listing"
        /\ Authorized(search.token, "listFiles", {search.bucket}, {})
        /\ search' = [search EXCEPT !.pages = @ + 1,
                                    !.listed = @ + Cardinality(page.ids),
                                    !.cursor = IF more THEN page.next ELSE @,
                                    !.matches = @ \cup rows,
                                    !.phase = IF last THEN "choosing" ELSE @,
                                    !.limits = IF more /\ last THEN @ \cup {"search-truncated"} ELSE @]
        /\ UNCHANGED <<storageVars, contentVars>>

-----------------------------------------------------------------------------
(* Candidates.                                                             *)

\* serverSideEncryptionRejectReason, for what is asked for or for the bucket's default.
EncryptionFits(mode, expected) ==
    CASE expected = "SSE-C" -> FALSE
      [] expected = "unreadable" -> FALSE
      [] expected = "unset" -> mode # "SSE-C"
      [] OTHER -> mode = expected

\* fileRetentionMatches, with the bucket's default where nothing is asked for.
RetentionFits(retention, expected) ==
    expected # "unreadable" /\ retention = (IF expected = "yes" THEN "yes" ELSE "no")

\* candidateMetadataRejectReason, the hold included: legalHoldMatches.
Fits(file, want) ==
    /\ file.info = want.info
    /\ EncryptionFits(file.mode, want.encryption)
    /\ RetentionFits(file.retention, want.retention)
    /\ file.hold \in {"null", "off"}

\* compareNewestFirst: of two rows for one large file the later.
Newer(m, n) ==
    \/ m.file.id > n.file.id
    \/ m.file.id = n.file.id /\ m.sequence > n.sequence

\* The candidates are gone through, newest first, until one fits, whose parts are listed, or a
\* limit is met.
Choose ==
    LET fitting == {m \in search.matches : Fits(m.file, search.want)}
        newest == CHOOSE m \in fitting : \A n \in fitting \ {m} : Newer(m, n)
    IN  /\ search.phase = "choosing"
        /\ search' = CASE fitting = {} -> [search EXCEPT !.phase = "none", !.matches = {}]
                       [] fitting # {} /\ search.inspected >= search.want.maxCandidates
                            -> [search EXCEPT !.phase = "none", !.matches = {},
                                              !.limits = @ \cup {"candidate-limit"}]
                       [] OTHER -> [search EXCEPT !.phase = "parts", !.candidate = newest.file.id,
                                                  !.inspected = @ + 1, !.number = 1, !.pages = 0,
                                                  !.parts = <<>>,
                                                  !.matches = {m \in @ : Newer(newest, m)}]
        /\ UNCHANGED <<storageVars, contentVars>>

\* Mutant: only the numbers of the parts are looked at.
NumbersMatchPlan(parts, lengths) == DOMAIN parts \subseteq DOMAIN lengths

\* uploadedPartsMatchPlan
PartsMatchPlan(parts, lengths) ==
    \A n \in DOMAIN parts : n \in DOMAIN lengths /\ Len(parts[n].data) = lengths[n]

Smallest(S) == CHOOSE n \in S : \A m \in S : n <= m

\* A page of collectResumePartInfo, which asks for one part more than is planned, at most.
ListPartsPage ==
    LET large == largeFiles[search.candidate].parts
        planned == Len(search.want.lengths)
        wanted == Least(PageSize, IF planned >= Cardinality(DOMAIN search.parts)
                                  THEN planned - Cardinality(DOMAIN search.parts) + 1 ELSE 1)
        there == {n \in DOMAIN large : n >= search.number}
        page == {n \in there : Cardinality({m \in there : m < n}) < wanted}
        parts == [n \in DOMAIN search.parts \cup page |-> IF n \in page THEN large[n] ELSE search.parts[n]]
        rest == there \ page
        ends == rest = {} \/ Cardinality(DOMAIN parts) > planned
        whole == rest = {} /\ Cardinality(DOMAIN parts) <= planned
    IN  /\ search.phase = "parts"
        /\ \E f \in unfinished : f.id = search.candidate
        /\ Authorized(search.token, "listFiles", {search.bucket}, {})
        /\ search' = IF ~ ends /\ search.pages + 1 < search.want.maxPartPages
                     THEN [search EXCEPT !.pages = @ + 1, !.parts = parts, !.number = Smallest(rest)]
                     ELSE [search EXCEPT !.parts = parts,
                                         !.limits = IF ends THEN @ ELSE @ \cup {"part-pages"},
                                         !.phase = IF whole /\ PartsMatchPlan(parts, search.want.lengths)
                                                   THEN "found" ELSE "choosing"]
        /\ UNCHANGED <<storageVars, contentVars>>

\* The candidate was finished or cancelled meanwhile, a call fails, or the caller or its timeout
\* aborts: the search throws.
SearchFails ==
    /\ search.phase \in {"listing", "parts"}
    /\ search' = [search EXCEPT !.phase = "failed"]
    /\ UNCHANGED <<storageVars, contentVars>>

SearchNext ==
    \/ \E t \in tokens, b \in Live, want \in plan.wants : BeginSearch(t, b, want)
    \/ search # NoSearch /\ (ListPage \/ Choose \/ ListPartsPage \/ SearchFails)

\* History: the large files that have not changed since the search began.
SteadyAfter ==
    IF search = NoSearch THEN search
    ELSE [search EXCEPT !.steady = {i \in @ : /\ largeFiles'[i] = largeFiles[i]
                                              /\ \E f \in unfinished' : f.id = i /\ f.bucket = search.bucket}]

-----------------------------------------------------------------------------
\* A large file that can be resumed: its metadata fits, and so does each of its parts.
Resumable(id) ==
    /\ Fits(ListedFile(id, search.token.caps), search.want)
    /\ DOMAIN largeFiles[id].parts \subseteq DOMAIN search.want.lengths
    /\ \A n \in DOMAIN largeFiles[id].parts : Len(largeFiles[id].parts[n].data) = search.want.lengths[n]

\* What a search finds can be resumed with the digests it has read, and is the newest that could
\* be unless a limit was met; a search that finds nothing and met no limit had nothing to find.
\* Large files that others changed meanwhile are left out.
ResumeFindsTheNewest ==
    search # NoSearch =>
        /\ search.phase = "found" /\ search.candidate \in search.steady
             => Resumable(search.candidate) /\ search.parts = largeFiles[search.candidate].parts
        /\ search.phase \in {"found", "none"} /\ search.limits = {} =>
              \A id \in search.steady :
                 /\ Resumable(id)
                 /\ search.want.explicit \in {None, id}
                 => search.phase = "found" /\ id <= search.candidate
=============================================================================
