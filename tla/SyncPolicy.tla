----------------------------- MODULE SyncPolicy -----------------------------
(***************************************************************************)
(* What one pair of scanned files calls for: src/sync/policies.  An entry  *)
(* of a scan is a record with the sync path, the identity of the file or   *)
(* version (its time too: identities are handed out by the clock), its     *)
(* bytes, and the SHA-1 state the code holds for it.  The code never looks *)
(* at the bytes of an entry: only at their size and at the SHA-1 state.    *)
(***************************************************************************)
EXTENDS Integers

CONSTANTS Data,     \* contents of files
          Size,     \* the length of each content
          None      \* no entry, no file, no value

\* SHA-1 states: pending (a local file not hashed yet), verified, untrusted with
\* the digest its uploader claimed (or none that parses), unavailable.  A digest
\* is represented by the content it is the digest of.
Pending      == [kind |-> "pending", value |-> None]
Unavailable  == [kind |-> "unavailable", value |-> None]
Verified(d)  == [kind |-> "verified", value |-> d]
Untrusted(d) == [kind |-> "untrusted", value |-> d]

Sha == {Pending, Unavailable} \cup {Verified(d) : d \in Data}
         \cup {Untrusted(d) : d \in Data \cup {None}}

ASSUME NoneAssumption == None \notin Data

Directions == {"local-to-b2", "b2-to-local", "b2-to-b2"}

\* The options of one run of the synchronizer.
RunOptions == [direction   : Directions,
               compareMode : {"none", "size", "sha1", "modtime"},
               threshold   : Nat,
               keepMode    : {"no-delete", "delete", "keep-days"},
               keepDays    : Nat,
               locked      : BOOLEAN,
               dryRun      : BOOLEAN]

IsLocal(e) == e.sha.kind = "pending"

Distance(m, n) == IF m > n THEN m - n ELSE n - m

\* Mutant: a digest somebody claimed is as good as a verified one.
ClaimedEqual(s, d) == s.value # None /\ s.value = d.value

\* Two SHA-1 states prove that nothing has to be transferred.
ProvenEqual(s, d) == /\ s.kind = "verified" /\ d.kind = "verified"
                     /\ s.value = d.value

\* filesAreDifferent: anything but two verified, equal digests of files of the
\* same size is a difference in "sha1" mode.
FilesAreDifferent(s, d, opt) ==
    CASE opt.compareMode = "none"    -> FALSE
      [] opt.compareMode = "size"    -> Distance(Size[s.data], Size[d.data]) > opt.threshold
      [] opt.compareMode = "modtime" -> Distance(s.id, d.id) > opt.threshold
      [] opt.compareMode = "sha1"    -> \/ Size[s.data] # Size[d.data]
                                        \/ ~ ProvenEqual(s.sha, d.sha)

-----------------------------------------------------------------------------
\* The preparation of a pair in "sha1" mode.

\* A claimed digest that would let the pair pass for equal.
CouldSuppressTransfer(s, d) ==
    \/ /\ s.kind = "untrusted" /\ d.kind \in {"verified", "untrusted"}
       /\ s.value # None /\ s.value = d.value
    \/ /\ d.kind = "untrusted" /\ s.kind = "verified"
       /\ d.value = s.value

\* readLocalSha1File: the digest of the file that was scanned.
Hashed(e) == IF IsLocal(e) THEN [e EXCEPT !.sha = Verified(e.data)] ELSE e

\* The bytes of an untrusted version, downloaded and hashed.
Reread(e) == IF e.sha.kind = "untrusted" THEN [e EXCEPT !.sha = Verified(e.data)] ELSE e

\* Only two files of one size are looked at more closely.
NeedsPreparation(s, d) == s # None /\ d # None /\ Size[s.data] = Size[d.data]

B2Unavailable(e) == e.sha.kind = "unavailable"

\* A dry run reads no bytes of B2: with a claim that does not parse there is
\* nothing left to learn.
Hopeless(s, d, opt) ==
    /\ opt.dryRun
    /\ \E e \in {s, d} : e.sha.kind = "untrusted"
    /\ \A e \in {s, d} : e.sha.kind = "untrusted" => e.sha.value = None

\* preparePairForCompare.  unchanged: the local file is still the one that was
\* scanned; readable: the versions to verify can be downloaded and hashed.  The
\* result says whether actions are generated for the pair and what it became.
Ready(s, d)    == [result |-> "ready", src |-> s, dst |-> d]
Skipped(s, d)  == [result |-> "skipped", src |-> s, dst |-> d]
Broken(s, d)   == [result |-> "error", src |-> s, dst |-> d]

Verification(s, d, opt, readable) ==
    IF CouldSuppressTransfer(s.sha, d.sha) /\ ~ opt.dryRun
    THEN IF readable THEN Ready(Reread(s), Reread(d)) ELSE Skipped(s, d)
    ELSE Ready(s, d)

PreparePairForCompare(s, d, opt, unchanged, readable) ==
    IF opt.compareMode # "sha1" \/ ~ NeedsPreparation(s, d) THEN Ready(s, d)
    ELSE IF B2Unavailable(s) \/ B2Unavailable(d) THEN Skipped(s, d)
    ELSE IF Hopeless(s, d, opt) THEN Ready(s, d)
    ELSE IF (IsLocal(s) \/ IsLocal(d)) /\ ~ unchanged THEN Broken(s, d)
    ELSE Verification(Hashed(s), Hashed(d), opt, readable)

-----------------------------------------------------------------------------
\* generateActions: the kind of the one action a pair calls for.

Removals  == {"hide", "deleteRemote", "deleteLocal"}
Transfers == {"upload", "download", "copy"}
Skips     == {"same", "kept"}

Transfer(opt) == CASE opt.direction = "local-to-b2" -> "upload"
                   [] opt.direction = "b2-to-local" -> "download"
                   [] opt.direction = "b2-to-b2"    -> "copy"

\* removeOrphan: a bucket with file lock hides, any other deletes.
RemoveOrphan(opt) == IF opt.locked THEN "hide" ELSE "deleteRemote"

ActionsForDestOnly(d, opt, now) ==
    CASE \/ opt.keepMode = "no-delete"
         \/ opt.keepMode = "keep-days" /\ now - d.id < opt.keepDays -> "kept"
      [] OTHER -> IF opt.direction = "b2-to-local" THEN "deleteLocal" ELSE RemoveOrphan(opt)

GenerateActions(s, d, opt, now) ==
    CASE d = None -> Transfer(opt)
      [] s = None -> ActionsForDestOnly(d, opt, now)
      [] OTHER    -> IF FilesAreDifferent(s, d, opt) THEN Transfer(opt) ELSE "same"
=============================================================================
