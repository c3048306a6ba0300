--------------------------- MODULE TransferProofs ---------------------------
(***************************************************************************)
(* What is proved of two parts of a transfer that know nothing of each     *)
(* other: the upload URLs of a bucket and the parallel download.           *)
(*                                                                         *)
(* PoolIInv of UploadUrls is inductive: next to the types it says which    *)
(* URLs the server has handed out already, so that a fresh one is          *)
(* nobody's, and that a URL out of the pool is only ever used by a first   *)
(* attempt, so that its failure always leaves a retry.                     *)
(*                                                                         *)
(* IInv of ParallelDownload is inductive.  EnqueueStep is the step that    *)
(* hands a chunk to the reader, schedules what the window has room for and *)
(* may end the stream; ThrowStep is the catch block of pull; the other     *)
(* actions follow one by one.  The theorems at the end read the properties *)
(* off the invariant, and show that the stream implements ByteStream.      *)
(***************************************************************************)
EXTENDS UploadUrls, ParallelDownload, FiniteSetTheorems, TLAPS

-----------------------------------------------------------------------------
(* The upload URLs.                                                        *)

\* Whoever holds a URL, or keeps it in the pool, got it from the server.
HandedOut ==
    /\ \A u \in Upload : entry[u] <= issued
    /\ \A i \in DOMAIN pool : pool[i] <= issued

\* An upload that is posting has a URL, and one of the pool on its first attempt.
Posting ==
    \A u \in Upload : phase[u] = "uploading" =>
        entry[u] # NoUrl /\ (pooled[u] => attempt[u] = 0)

PoolIInv == PoolTypeOK /\ ExclusiveEntry /\ HandedOut /\ Posting /\ PoolNeverFailsUpload

-----------------------------------------------------------------------------
(* The stack.                                                              *)

\* pop takes the last entry and leaves the others in place.
LEMMA PopLeavesTheRest ==
    ASSUME NEW s \in Seq(Url), s # <<>>, NEW t, t = SubSeq(s, 1, Len(s) - 1)
    PROVE  /\ t \in Seq(Url) /\ DOMAIN t = 1..(Len(s) - 1)
           /\ \A i \in DOMAIN t : i \in DOMAIN s /\ i # Len(s) /\ t[i] = s[i]
           /\ Len(s) \in DOMAIN s
<1>1. Len(s) \in Nat \ {0} /\ DOMAIN s = 1..Len(s)
  OBVIOUS
<1>2. t \in Seq(Url) /\ Len(t) = Len(s) - 1
  BY <1>1
<1> QED
  BY <1>1, <1>2

\* push adds an entry behind the others.
LEMMA PushKeepsTheRest ==
    ASSUME NEW s \in Seq(Url), NEW e \in Url, NEW t, t = Append(s, e)
    PROVE  /\ t \in Seq(Url) /\ DOMAIN t = 1..(Len(s) + 1) /\ t[Len(s) + 1] = e
           /\ \A i \in DOMAIN t : i # Len(s) + 1 => i \in DOMAIN s /\ t[i] = s[i]
OBVIOUS

-----------------------------------------------------------------------------
(* One lemma for each part of the invariant.                               *)

LEMMA InitInv == PoolInit => PoolIInv
<1> SUFFICES ASSUME PoolInit PROVE PoolIInv
  OBVIOUS
<1>1. issued \in Nat /\ pool \in Seq(Url) /\ DOMAIN pool = 1..issued
  BY PriorAssumption DEF PoolInit, Url, NoUrl
<1>2. \A i \in DOMAIN pool : pool[i] = i /\ i # NoUrl
  BY <1>1 DEF PoolInit, NoUrl
<1>3. PoolTypeOK
  BY <1>1, RetryAssumption DEF PoolInit, PoolTypeOK, Url, NoUrl
<1>4. ExclusiveEntry /\ HandedOut
  BY <1>1, <1>2 DEF PoolInit, ExclusiveEntry, HandedOut, NoUrl
<1>5. Posting /\ PoolNeverFailsUpload
  BY DEF PoolInit, Posting, PoolNeverFailsUpload
<1> QED
  BY <1>3, <1>4, <1>5 DEF PoolIInv

\* The URL an upload gives up is not in the pool: evict finds nothing.
LEMMA EvictFindsNothing ==
    ASSUME PoolIInv, NEW u \in Upload, Evict(entry[u])
    PROVE  pool' = pool
BY DEF PoolIInv, ExclusiveEntry, Evict

LEMMA TypeStep == PoolIInv /\ [PoolNext]_poolVars => PoolTypeOK'
<1> SUFFICES ASSUME PoolIInv, [PoolNext]_poolVars PROVE PoolTypeOK'
  OBVIOUS
<1> USE RetryAssumption DEF PoolIInv, PoolTypeOK, Goto, Hold, urlVars
<1>1. ASSUME NEW u \in Upload, Begin(u) \/ SignalAborts(u) \/ AbortEnds(u) \/ Fetch(u) \/ Wake(u)
      PROVE  PoolTypeOK'
  BY <1>1 DEF Begin, SignalAborts, AbortEnds, Fetch, Wake
<1>2. ASSUME NEW u \in Upload, Checkout(u) PROVE PoolTypeOK'
  <2>1. pool' \in Seq(Url) /\ pool[Len(pool)] \in Url
    BY <1>2, PopLeavesTheRest DEF Checkout, FromPool, Popped
  <2> QED
    BY <1>2, <2>1 DEF Checkout
<1>3. ASSUME NEW u \in Upload, FetchReplied(u) PROVE PoolTypeOK'
  <2>1. issued' \in Nat /\ issued' \in Url
    BY <1>3 DEF FetchReplied, Url, NoUrl
  <2> QED
    BY <1>3, <2>1 DEF FetchReplied
<1>4. ASSUME NEW u \in Upload, FetchFails(u) PROVE PoolTypeOK'
  BY <1>4 DEF FetchFails, GiveUpOrRetry, Retried, NextAttempt
<1>5. ASSUME NEW u \in Upload, Uploaded(u) \/ Throttled(u) PROVE PoolTypeOK'
  <2>1. entry[u] \in Url /\ pool' = Append(pool, entry[u])
    BY <1>5 DEF Uploaded, Throttled, Posting, Checkin
  <2>2. pool' \in Seq(Url)
    BY <2>1, PushKeepsTheRest
  <2> QED
    BY <1>5, <2>2 DEF Uploaded, Throttled
<1>6. ASSUME NEW u \in Upload, UploadFails(u) PROVE PoolTypeOK'
  <2>1. pool' = pool
    BY <1>6, EvictFindsNothing DEF UploadFails, Discard
  <2>5. \/ Retried(u)
        \/ Goto(u, "failed") /\ UNCHANGED attempt
    BY <1>6 DEF UploadFails, GiveUpOrRetry
  <2>6. attempt[u] \in 0..MaxRetries
    OBVIOUS
  <2>7. attempt[u] < MaxRetries => attempt[u] + 1 \in 0..MaxRetries
    BY <2>6
  <2>2. attempt' \in [Upload -> 0..MaxRetries] /\ phase' \in [Upload ->
           {"idle", "ready", "fetching", "uploading", "backoff", "ok", "failed"}]
    <3>1. CASE Retried(u)
      BY <3>1, <2>7 DEF Retried, NextAttempt
    <3>2. CASE Goto(u, "failed") /\ UNCHANGED attempt
      BY <3>2
    <3> QED
      BY <2>5, <3>1, <3>2
  <2>3. freshFault' \in [Upload -> BOOLEAN] /\ cancelled' \in [Upload -> BOOLEAN]
        /\ pooled' \in [Upload -> BOOLEAN]
    BY <1>6 DEF UploadFails
  <2>4. entry' \in [Upload -> Url \cup {NoUrl}] /\ issued' = issued /\ valid' = valid
    BY <1>6 DEF UploadFails, Discard
  <2> QED
    BY <2>1, <2>2, <2>3, <2>4
<1>7. CASE SetAuth
  BY <1>7 DEF SetAuth
<1>8. ASSUME NEW e \in valid, Expire(e) PROVE PoolTypeOK'
  BY <1>8 DEF Expire
<1>9. CASE UNCHANGED poolVars
  BY <1>9 DEF poolVars
<1> QED
  BY <1>1, <1>2, <1>3, <1>4, <1>5, <1>6, <1>7, <1>8, <1>9 DEF PoolNext, UploadStep

LEMMA ExclusiveStep == PoolIInv /\ [PoolNext]_poolVars => ExclusiveEntry' /\ HandedOut'
<1> SUFFICES ASSUME PoolIInv, [PoolNext]_poolVars PROVE ExclusiveEntry' /\ HandedOut'
  OBVIOUS
<1> USE DEF PoolIInv, PoolTypeOK, ExclusiveEntry, HandedOut, Goto, Hold, urlVars, Url, NoUrl
<1>1. ASSUME NEW u \in Upload,
             Begin(u) \/ SignalAborts(u) \/ AbortEnds(u) \/ Fetch(u) \/ FetchFails(u) \/ Wake(u)
      PROVE  ExclusiveEntry' /\ HandedOut'
  <2>1. pool' = pool /\ entry' = entry /\ issued' = issued
    BY <1>1 DEF Begin, SignalAborts, AbortEnds, Fetch, FetchFails, Wake
  <2> QED
    BY <2>1
<1>2. ASSUME NEW u \in Upload, Checkout(u) PROVE ExclusiveEntry' /\ HandedOut'
  <2>1. /\ Len(pool) \in DOMAIN pool
        /\ \A i \in DOMAIN pool' : i \in DOMAIN pool /\ i # Len(pool) /\ pool'[i] = pool[i]
    BY <1>2, PopLeavesTheRest DEF Checkout, FromPool, Popped
  <2>2. /\ entry'[u] = pool[Len(pool)] /\ issued' = issued
        /\ \A v \in Upload : v # u => entry'[v] = entry[v]
    BY <1>2 DEF Checkout
  <2>3. ASSUME NEW v \in Upload, NEW i \in DOMAIN pool' PROVE pool'[i] # entry'[v]
    <3>1. pool'[i] = pool[i] /\ i # Len(pool)
      BY <2>1
    <3>2. CASE v = u
      BY <2>1, <2>2, <3>1, <3>2
    <3>3. CASE v # u
      BY <2>1, <2>2, <3>1, <3>3
    <3> QED
      BY <3>2, <3>3
  <2>4. \A v, v2 \in Upload : entry'[v] = entry'[v2] /\ entry'[v] # NoUrl => v = v2
    BY <2>1, <2>2
  <2> QED
    BY <2>1, <2>2, <2>3, <2>4
<1>3. ASSUME NEW u \in Upload, FetchReplied(u) PROVE ExclusiveEntry' /\ HandedOut'
  <2>1. /\ pool' = pool /\ entry'[u] = issued + 1 /\ issued' = issued + 1
        /\ \A v \in Upload : v # u => entry'[v] = entry[v]
    BY <1>3 DEF FetchReplied
  <2>2. \A v \in Upload : v # u => entry'[v] <= issued
    BY <2>1
  <2>3. \A i \in DOMAIN pool' : pool'[i] <= issued
    BY <2>1
  <2>4. \A i \in DOMAIN pool : pool[i] \in Nat
    OBVIOUS
  <2>5. \A v, v2 \in Upload : entry'[v] = entry'[v2] /\ entry'[v] # NoUrl => v = v2
    BY <2>1, <2>2
  <2>6. \A v \in Upload, i \in DOMAIN pool' : pool'[i] # entry'[v]
    BY <2>1, <2>3, <2>4
  <2>9. \A v \in Upload : v # u => entry'[v] \in Nat
    BY <2>1
  <2>7. \A v \in Upload : entry'[v] <= issued'
    <3>1. entry'[u] <= issued'
      BY <2>1
    <3>2. ASSUME NEW v \in Upload, v # u PROVE entry'[v] <= issued'
      BY <2>1, <2>2, <2>9, <3>2
    <3> QED
      BY <3>1, <3>2
  <2>8. \A i \in DOMAIN pool' : pool'[i] <= issued'
    BY <2>1, <2>3, <2>4
  <2> QED
    BY <2>1, <2>5, <2>6, <2>7, <2>8
<1>4. ASSUME NEW u \in Upload, Uploaded(u) \/ Throttled(u) PROVE ExclusiveEntry' /\ HandedOut'
  <2>1. entry[u] \in Url /\ pool' = Append(pool, entry[u])
    BY <1>4 DEF Uploaded, Throttled, Posting, Checkin
  <2>2. /\ pool'[Len(pool) + 1] = entry[u] /\ DOMAIN pool' = 1..(Len(pool) + 1)
        /\ \A i \in DOMAIN pool' : i # Len(pool) + 1 => i \in DOMAIN pool /\ pool'[i] = pool[i]
    BY <2>1, PushKeepsTheRest
  <2>3. /\ entry'[u] = NoUrl /\ issued' = issued
        /\ \A v \in Upload : v # u => entry'[v] = entry[v]
    BY <1>4 DEF Uploaded, Throttled
  <2>4. \A i, j \in DOMAIN pool' : pool'[i] = pool'[j] => i = j
    BY <2>2
  <2>5. \A v \in Upload, i \in DOMAIN pool' : pool'[i] # entry'[v]
    BY <2>1, <2>2, <2>3
  <2>6. \A i \in DOMAIN pool' : pool'[i] <= issued'
    BY <2>1, <2>2, <2>3
  <2>7. \A v \in Upload : entry'[v] <= issued'
    BY <2>3
  <2>8. \A v, v2 \in Upload : entry'[v] = entry'[v2] /\ entry'[v] # NoUrl => v = v2
    BY <2>3
  <2> QED
    BY <2>4, <2>5, <2>6, <2>7, <2>8
<1>5. ASSUME NEW u \in Upload, UploadFails(u) PROVE ExclusiveEntry' /\ HandedOut'
  <2>1. pool' = pool
    BY <1>5, EvictFindsNothing DEF UploadFails, Discard
  <2>2. entry' = [entry EXCEPT ![u] = NoUrl] /\ issued' = issued
    BY <1>5 DEF UploadFails, Discard
  <2> QED
    BY <2>1, <2>2
<1>6. CASE SetAuth
  BY <1>6 DEF SetAuth
<1>7. ASSUME NEW e \in valid, Expire(e) PROVE ExclusiveEntry' /\ HandedOut'
  BY <1>7 DEF Expire
<1>8. CASE UNCHANGED poolVars
  BY <1>8 DEF poolVars
<1> QED
  BY <1>1, <1>2, <1>3, <1>4, <1>5, <1>6, <1>7, <1>8 DEF PoolNext, UploadStep

LEMMA PostingStep == PoolIInv /\ [PoolNext]_poolVars => Posting'
<1> SUFFICES ASSUME PoolIInv, [PoolNext]_poolVars PROVE Posting'
  OBVIOUS
<1> USE DEF PoolIInv, PoolTypeOK, Posting, Goto, Hold, urlVars
<1>1. ASSUME NEW u \in Upload,
             Begin(u) \/ SignalAborts(u) \/ AbortEnds(u) \/ Fetch(u) \/ Wake(u)
      PROVE  Posting'
  BY <1>1 DEF Begin, SignalAborts, AbortEnds, Fetch, Wake
<1>2. ASSUME NEW u \in Upload, Checkout(u) PROVE Posting'
  <2>1. pool[Len(pool)] # NoUrl
    BY <1>2, PopLeavesTheRest DEF Checkout, FromPool, Url
  <2> QED
    BY <1>2, <2>1 DEF Checkout, FromPool
<1>3. ASSUME NEW u \in Upload, FetchReplied(u) PROVE Posting'
  BY <1>3 DEF FetchReplied, NoUrl
<1>4. ASSUME NEW u \in Upload, FetchFails(u) PROVE Posting'
  BY <1>4 DEF FetchFails, GiveUpOrRetry, Retried, NextAttempt
<1>5. ASSUME NEW u \in Upload, Uploaded(u) \/ Throttled(u) PROVE Posting'
  BY <1>5 DEF Uploaded, Throttled
<1>6. ASSUME NEW u \in Upload, UploadFails(u) PROVE Posting'
  BY <1>6 DEF UploadFails, Discard, GiveUpOrRetry, Retried, NextAttempt
<1>7. CASE SetAuth
  BY <1>7 DEF SetAuth
<1>8. ASSUME NEW e \in valid, Expire(e) PROVE Posting'
  BY <1>8 DEF Expire
<1>9. CASE UNCHANGED poolVars
  BY <1>9 DEF poolVars
<1> QED
  BY <1>1, <1>2, <1>3, <1>4, <1>5, <1>6, <1>7, <1>8, <1>9 DEF PoolNext, UploadStep

LEMMA PoolStep == PoolIInv /\ [PoolNext]_poolVars => PoolNeverFailsUpload'
<1> SUFFICES ASSUME PoolIInv, [PoolNext]_poolVars, MaxRetries > 0,
                    NEW v \in Upload, phase'[v] = "failed", ~cancelled'[v]
             PROVE  freshFault'[v]
  BY DEF PoolNeverFailsUpload
<1> USE RetryAssumption DEF PoolIInv, PoolTypeOK, PoolNeverFailsUpload, Goto, Hold, urlVars
<1>1. ASSUME NEW u \in Upload,
             Begin(u) \/ SignalAborts(u) \/ AbortEnds(u) \/ Fetch(u) \/ Wake(u)
               \/ Checkout(u) \/ FetchReplied(u) \/ Uploaded(u)
      PROVE  freshFault'[v]
  <2>1. freshFault' = freshFault /\ (~cancelled'[v] => ~cancelled[v]) /\ phase[v] = "failed"
    BY <1>1 DEF Begin, SignalAborts, AbortEnds, Fetch, Wake, Checkout, FetchReplied, Uploaded
  <2> QED
    BY <2>1
<1>2. ASSUME NEW u \in Upload, FetchFails(u) \/ Throttled(u) PROVE freshFault'[v]
  <2>1. freshFault' = [freshFault EXCEPT ![u] = TRUE] /\ cancelled' = cancelled
    BY <1>2 DEF FetchFails, Throttled
  <2>2. v # u => phase'[v] = phase[v]
    BY <1>2 DEF FetchFails, Throttled, GiveUpOrRetry, Retried
  <2> QED
    BY <2>1, <2>2
<1>3. ASSUME NEW u \in Upload, UploadFails(u) PROVE freshFault'[v]
  <2>1. PICK retryable \in BOOLEAN :
           /\ GiveUpOrRetry(u, retryable)
           /\ freshFault' = [freshFault EXCEPT
                 ![u] = freshFault[u] \/ ~(retryable /\ pooled[u] /\ entry[u] \notin valid)]
    BY <1>3 DEF UploadFails
  <2>2. cancelled' = cancelled /\ phase[u] = "uploading"
    BY <1>3 DEF UploadFails
  <2>3. CASE v # u
    BY <2>1, <2>2, <2>3 DEF GiveUpOrRetry, Retried
  <2>4. CASE v = u
    <3>1. CASE ~(retryable /\ pooled[u])
      BY <2>1, <2>4, <3>1
    <3>2. CASE retryable /\ pooled[u]
      <4>1. attempt[u] = 0 /\ attempt[u] # MaxRetries
        BY <2>2, <3>2 DEF Posting
      <4>2. phase'[u] = "backoff"
        BY <2>1, <2>2, <2>4, <3>2, <4>1 DEF GiveUpOrRetry, Retried
      <4> QED
        BY <2>4, <4>2
    <3> QED
      BY <3>1, <3>2
  <2> QED
    BY <2>3, <2>4
<1>4. CASE SetAuth
  BY <1>4 DEF SetAuth
<1>5. ASSUME NEW e \in valid, Expire(e) PROVE freshFault'[v]
  BY <1>5 DEF Expire
<1>6. CASE UNCHANGED poolVars
  BY <1>6 DEF poolVars
<1> QED
  BY <1>1, <1>2, <1>3, <1>4, <1>5, <1>6 DEF PoolNext, UploadStep

-----------------------------------------------------------------------------
(* The theorems.                                                           *)

\* The inductive invariant holds in every state of the uploads and their pool.
THEOREM PoolInvariance == PoolSpec => []PoolIInv
<1>1. PoolIInv /\ [PoolNext]_poolVars => PoolIInv'
  BY TypeStep, ExclusiveStep, PostingStep, PoolStep DEF PoolIInv
<1> QED
  BY <1>1, InitInv, PTL DEF PoolSpec

\* Every variable keeps its type: the pool holds URLs, attempts stay within the
\* retries.
THEOREM PoolTypeCorrect == PoolSpec => []PoolTypeOK
<1>1. PoolIInv => PoolTypeOK
  BY DEF PoolIInv
<1> QED
  BY <1>1, PoolInvariance, PTL

\* checkout and checkin never share a URL, for any number of uploads and retries.
THEOREM Exclusive == PoolSpec => []ExclusiveEntry
<1>1. PoolIInv => ExclusiveEntry
  BY DEF PoolIInv
<1> QED
  BY <1>1, PoolInvariance, PTL

\* A stale URL of the pool costs an upload an attempt and never the upload, whenever
\* retries are allowed at all.
THEOREM PoolHarmless == PoolSpec => []PoolNeverFailsUpload
<1>1. PoolIInv => PoolNeverFailsUpload
  BY DEF PoolIInv
<1> QED
  BY <1>1, PoolInvariance, PTL

-----------------------------------------------------------------------------
(* The parallel download.                                                  *)

\* What is fetched and what is buffered are finite sets.
LEMMA Finite ==
    ASSUME NEW S \in SUBSET Index
    PROVE  IsFiniteSet(S) /\ Cardinality(S) \in Nat
<1>1. IsFiniteSet(Index)
  BY RangesAssumption, FS_Interval DEF Index
<1>2. IsFiniteSet(S)
  BY <1>1, FS_Subset
<1> QED
  BY <1>2, FS_CardinalityType

\* scheduleNext never passes the end of the file or the window, and leaves something
\* to wait for unless the file ends.
LEMMA Scheduled ==
    ASSUME NEW inf \in SUBSET Index, NEW buf, ranges \in 0..MaxRanges,
           nextToSchedule \in 0..ranges,
           Cardinality(inf) + Cardinality(Buffered(buf)) <= 2 * Concurrency
    PROVE  LET s   == ScheduledUpTo(inf, buf)
               new == nextToSchedule..(s - 1)
           IN  /\ s \in nextToSchedule..ranges
               /\ new \in SUBSET Index
               /\ Cardinality(inf \cup new) + Cardinality(Buffered(buf)) <= 2 * Concurrency
               /\ ~aborted /\ ~firstError =>
                    \/ s = ranges \/ s > nextToSchedule
                    \/ inf # {} \/ Buffered(buf) # {}
<1> DEFINE s == ScheduledUpTo(inf, buf)
           new == nextToSchedule..(s - 1)
<1>1. Buffered(buf) \in SUBSET Index
  BY DEF Buffered
<1>2. /\ Cardinality(inf) \in Nat /\ Cardinality(Buffered(buf)) \in Nat
      /\ IsFiniteSet(inf)
  BY <1>1, Finite
<1>3. /\ Room(inf, buf) \in Nat
      /\ Room(inf, buf) = 2 * Concurrency - Cardinality(inf) - Cardinality(Buffered(buf))
  BY <1>2, LimitAssumption DEF Room
<1>4. s \in nextToSchedule..ranges /\ s - nextToSchedule <= Room(inf, buf)
  BY <1>3, RangesAssumption DEF ScheduledUpTo
<1>5. new \in SUBSET Index
  BY <1>4, RangesAssumption DEF Index
<1>6. Cardinality(inf \cup new) <= Cardinality(inf) + Room(inf, buf)
  <2>1. IsFiniteSet(new) /\ Cardinality(new) <= s - nextToSchedule
    <3>1. nextToSchedule \in Int /\ s - 1 \in Int
      BY <1>4, RangesAssumption
    <3>2. /\ IsFiniteSet(new)
          /\ Cardinality(new) = IF nextToSchedule > s - 1 THEN 0
                                ELSE (s - 1) - nextToSchedule + 1
      BY <3>1, FS_Interval
    <3> QED
      BY <3>1, <3>2, <1>4
  <2>2. Cardinality(inf \cup new) = Cardinality(inf) + Cardinality(new)
                                     - Cardinality(inf \cap new)
    BY <1>2, <2>1, FS_Union
  <2>3. Cardinality(inf \cap new) \in Nat /\ Cardinality(new) \in Nat
    BY <1>5, Finite
  <2> QED
    BY <1>2, <1>3, <1>4, <2>1, <2>2, <2>3
<1>7. Cardinality(inf \cup new) \in Nat
  BY <1>5, Finite
<1>8. ASSUME ~aborted, ~firstError, inf = {}, Buffered(buf) = {}
      PROVE  s = ranges \/ s > nextToSchedule
  <2>1. Room(inf, buf) = 2 * Concurrency
    BY <1>3, <1>8, FS_EmptySet, LimitAssumption
  <2> QED
    BY <1>8, <2>1, LimitAssumption, RangesAssumption DEF ScheduledUpTo
<1> QED
  BY <1>2, <1>3, <1>4, <1>5, <1>6, <1>7, <1>8, LimitAssumption

LEMMA InitIInv == ASSUME Init PROVE IInv
<1> USE RangesAssumption, LimitAssumption, NoResultAssumption
<1>1. Buffered(buffer) = {}
  BY DEF Init, Buffered
<1>2. TypeOK
  <2>1. /\ buffer \in [Index -> Result \cup {NoResult}]
        /\ delivered \in Seq(Result)
    BY DEF Init
  <2>2. /\ nextToSchedule \in 0..ranges
        /\ inflight \in SUBSET Index
    BY DEF Init, Index
  <2>3. /\ ranges \in 0..MaxRanges /\ nextToEmit \in 0..ranges
        /\ expectedSha1 \in Sha \cup {"undefined"}
        /\ chunk \in Result \cup {NoResult} /\ queue \in 0..1
    BY DEF Init
  <2>4. /\ firstError \in BOOLEAN /\ aborted \in BOOLEAN
    BY DEF Init
  <2>5. /\ pull \in {"idle", "waiting", "racing", "hashing", "digesting"}
        /\ stream \in {"open", "closed", "errored", "cancelled"}
    BY DEF Init
  <2> QED
    BY <2>1, <2>2, <2>3, <2>4, <2>5 DEF TypeOK
<1>3. WindowInv /\ ProgressInv /\ DeliveryInv /\ ShaInv /\ StreamInv
  BY <1>1 DEF Init, WindowInv, ProgressInv, DeliveryInv, ShaInv, StreamInv
<1>4. WindowBound
  <2>1. Cardinality({}) = 0
    BY FS_EmptySet
  <2>2. CASE inflight = {}
    BY <2>1, <2>2, <1>1 DEF WindowBound
  <2>3. CASE inflight # {}
    <3>1. inflight = 0..(nextToSchedule - 1) /\ nextToSchedule \in Nat
          /\ nextToSchedule <= 2 * Concurrency
      BY <2>3 DEF Init
    <3>2. Cardinality(inflight) = IF 0 > nextToSchedule - 1 THEN 0
                                  ELSE (nextToSchedule - 1) - 0 + 1
      BY <3>1, FS_Interval
    <3> QED
      BY <2>1, <1>1, <3>1, <3>2 DEF WindowBound
  <2> QED
    BY <2>2, <2>3 DEF Init
<1> QED
  BY <1>2, <1>3, <1>4 DEF IInv

\* The state in which pull enqueues chunk r: n ranges are emitted with it, and buf
\* is what stays buffered.
Ready(r, sha, n, buf) ==
    /\ r \in Result /\ r.range = n - 1 /\ r.sha = sha
    /\ n \in 1..nextToSchedule
    /\ buf \in [Index -> Result \cup {NoResult}]
    /\ stream = "open" => Len(delivered) = n - 1
    /\ stream # "open" => aborted /\ stream # "closed"
    /\ \A i \in inflight : n <= i /\ i < nextToSchedule
    /\ \A i \in Buffered(buf) :
         n <= i /\ i < nextToSchedule /\ i \notin inflight /\ buf[i].range = i
    /\ stream = "open" /\ ~aborted =>
         \A i \in n..(nextToSchedule - 1) : i \in inflight \cup Buffered(buf)
    /\ \A k \in DOMAIN delivered : delivered[k].range = k - 1 /\ delivered[k].sha = sha
    /\ Cardinality(inflight) + Cardinality(Buffered(buf)) <= 2 * Concurrency
    /\ firstError => aborted

\* Handing over a chunk, refilling the window, and closing or going on to the digest.
LEMMA EnqueueStep ==
    ASSUME TypeOK, NEW r, NEW sha \in Sha, NEW n, NEW buf, Ready(r, sha, n, buf),
           Enqueue(r, sha, n, buf), buffer' = buf, nextToEmit' = n, expectedSha1' = sha,
           UNCHANGED <<ranges, firstError>>
    PROVE  IInv'
<1> USE RangesAssumption, LimitAssumption
<1>types. /\ ranges \in 0..MaxRanges /\ nextToSchedule \in 0..ranges /\ nextToSchedule \in Nat
          /\ inflight \in SUBSET Index /\ delivered \in Seq(Result) /\ aborted \in BOOLEAN
          /\ firstError \in BOOLEAN /\ ranges \in Nat /\ Len(delivered) \in Nat
          /\ n \in Nat
          /\ stream \in {"open", "closed", "errored", "cancelled"}
  BY DEF TypeOK, Ready
<1>buf. Buffered(buffer)' = Buffered(buf)
  BY DEF Buffered
<1>1. CASE stream # "open"
  <2>1. Throw /\ UNCHANGED <<nextToSchedule, inflight, delivered>>
    BY <1>1 DEF Enqueue, Throw
  <2>2. TypeOK'
    BY <2>1, <1>1, <1>types DEF Throw, TypeOK, Ready
  <2>3. WindowInv' /\ WindowBound'
    BY <2>1, <1>types, <1>buf DEF WindowInv, WindowBound, Ready
  <2>4. ProgressInv' /\ StreamInv' /\ ShaInv' /\ DeliveryInv'
    BY <2>1, <1>1, <1>types
    DEF Throw, Ready, ProgressInv, StreamInv, ShaInv, DeliveryInv
  <2> QED
    BY <2>2, <2>3, <2>4 DEF IInv
<1>2. CASE stream = "open"
  <2> DEFINE s == ScheduledUpTo(inflight, buf)
             new == nextToSchedule..(s - 1)
  <2>1. /\ delivered' = Append(delivered, r) /\ queue' = 1 /\ chunk' = NoResult
        /\ nextToSchedule' = s /\ inflight' = inflight \cup new
        /\ CloseIfDone(sha, n, buf) /\ UNCHANGED aborted
    BY <1>2 DEF Enqueue, ScheduleNext
  <2>2. /\ s \in nextToSchedule..ranges /\ new \in SUBSET Index
        /\ Cardinality(inflight') + Cardinality(Buffered(buf)) <= 2 * Concurrency
        /\ ~aborted /\ ~firstError =>
             s = ranges \/ s > nextToSchedule \/ inflight # {} \/ Buffered(buf) # {}
    BY <2>1, <1>types, Scheduled DEF Ready
  <2>len. /\ Len(delivered') = n /\ DOMAIN delivered' = 1..n
          /\ delivered'[n] = r /\ \A k \in 1..(n - 1) : delivered'[k] = delivered[k]
          /\ DOMAIN delivered = 1..(n - 1)
          /\ delivered' \in Seq(Result)
    BY <1>2, <2>1, <1>types DEF Ready
  <2>pull. /\ pull' \in {"idle", "digesting"} /\ stream' \in {"open", "closed"}
           /\ pull' = "digesting" \/ stream' = "closed" => AllEmitted(n, buf)
           /\ stream' = "closed" => sha = "null" /\ pull' = "idle"
           /\ stream' = "open" /\ pull' = "idle" => ~AllEmitted(n, buf)
    BY <1>2, <2>1 DEF CloseIfDone
  <2>3. TypeOK'
    <3>1. /\ nextToSchedule' \in 0..ranges' /\ nextToEmit' \in 0..ranges'
          /\ inflight' \in SUBSET Index
      BY <2>1, <2>2, <1>types DEF Ready
    <3> QED
      BY <3>1, <2>1, <2>len, <2>pull DEF TypeOK, Ready
  <2>4. WindowInv'
    <3>1. n <= s /\ s \in Nat /\ \A i \in new : n <= i /\ i < s /\ i >= nextToSchedule
      BY <2>2, <1>types DEF Ready
    <3>2. \A i \in inflight' : n <= i /\ i < s
      BY <3>1, <2>1, <2>2, <1>types DEF Ready, Index
    <3>3. \A i \in Buffered(buf) : n <= i /\ i < s /\ i \notin inflight' /\ buf[i].range = i
      BY <3>1, <2>1, <2>2, <1>types DEF Ready, Buffered, Index
    <3> QED
      BY <3>1, <3>2, <3>3, <2>1, <1>buf DEF WindowInv
  <2>5. ASSUME ~aborted PROVE \A i \in n..(s - 1) : i \in inflight' \cup Buffered(buf)
    BY <2>5, <1>2, <2>1, <2>2, <1>types DEF Ready
  <2>6. ASSUME ~aborted, ~AllEmitted(n, buf) PROVE n < s
    <3>1. ~firstError /\ n <= nextToSchedule /\ s \in Nat /\ nextToSchedule <= s
          /\ s <= ranges
      BY <2>6, <2>2, <1>types DEF Ready
    <3>2. ASSUME NEW i \in inflight PROVE n < nextToSchedule
      <4>1. i \in Int /\ n <= i /\ i < nextToSchedule
        BY <1>types DEF Ready, Index
      <4> QED
        BY <4>1, <1>types
    <3>3. Buffered(buf) # {} => n < nextToSchedule
      BY <1>types DEF Ready, Buffered, Index
    <3>4. inflight' # {} => inflight # {} \/ nextToSchedule < s
      BY <2>1, <3>1, <1>types
    <3> QED
      BY <2>6, <2>2, <3>1, <3>2, <3>3, <3>4, <1>types DEF AllEmitted
  <2>7. ProgressInv'
    BY <2>1, <2>5, <2>6, <2>pull, <1>buf DEF ProgressInv, Ready
  <2>8. DeliveryInv'
    <3>1. ASSUME NEW k \in 1..n PROVE delivered'[k].range = k - 1
      <4>1. k = n \/ k \in 1..(n - 1)
        BY <1>types
      <4> QED
        BY <4>1, <2>len DEF Ready
    <3>2. AllEmitted(n, buf) => n = ranges /\ inflight' = {}
      BY <1>types DEF AllEmitted, Ready
    <3> QED
      BY <3>1, <3>2, <2>len, <2>pull DEF DeliveryInv
  <2>9. ShaInv'
    <3>1. ASSUME NEW k \in 1..n PROVE delivered'[k].sha = sha
      <4>1. k = n \/ k \in 1..(n - 1)
        BY <1>types
      <4> QED
        BY <4>1, <2>len DEF Ready
    <3> QED
      BY <3>1, <2>len, <2>pull DEF ShaInv
  <2>10. StreamInv' /\ WindowBound'
    BY <2>2, <2>pull, <1>buf DEF StreamInv, WindowBound
  <2> QED
    BY <2>3, <2>4, <2>7, <2>8, <2>9, <2>10 DEF IInv
<1> QED
  BY <1>1, <1>2

\* The catch block of pull, whether or not it comes after a chunk was taken.
LEMMA ThrowStep ==
    ASSUME IInv, Throw, pull # "idle", UNCHANGED <<ranges, firstError, expectedSha1>>,
           \/ UNCHANGED <<nextToEmit, buffer>>
           \/ /\ nextToEmit \in Buffered(buffer)
              /\ nextToEmit' = nextToEmit + 1
              /\ buffer' = [buffer EXCEPT ![nextToEmit] = NoResult]
    PROVE  IInv'
<1> USE RangesAssumption, LimitAssumption, NoResultAssumption
<1>types. /\ TypeOK /\ WindowInv /\ ProgressInv /\ DeliveryInv /\ ShaInv /\ StreamInv
          /\ WindowBound
  BY DEF IInv
<1>1. /\ nextToEmit' \in 0..ranges /\ nextToEmit <= nextToEmit'
      /\ nextToEmit' <= nextToSchedule
      /\ buffer' \in [Index -> Result \cup {NoResult}]
      /\ Buffered(buffer)' \in SUBSET Buffered(buffer)
      /\ \A i \in Buffered(buffer)' : buffer'[i] = buffer[i] /\ nextToEmit' <= i
  BY <1>types DEF TypeOK, WindowInv, Buffered, Index
<1>2. \A i \in inflight : nextToEmit' <= i
  BY <1>types DEF TypeOK, WindowInv, Index
<1>3. TypeOK'
  BY <1>types, <1>1 DEF Throw, TypeOK
<1>4. WindowInv'
  BY <1>types, <1>1, <1>2 DEF Throw, WindowInv
<1>5. /\ stream' \in {"errored", "cancelled"} /\ aborted' /\ pull' = "idle"
  BY <1>types DEF Throw, StreamInv, TypeOK
<1>6. ProgressInv' /\ StreamInv'
  BY <1>5 DEF ProgressInv, StreamInv
<1>7. DeliveryInv' /\ ShaInv'
  BY <1>5, <1>types DEF Throw, DeliveryInv, ShaInv
<1>8. WindowBound'
  <2>1. Buffered(buffer) \in SUBSET Index
    BY DEF Buffered
  <2>2. IsFiniteSet(Buffered(buffer)) /\ Cardinality(Buffered(buffer)) \in Nat
    BY <2>1, Finite
  <2>3. Cardinality(Buffered(buffer)') <= Cardinality(Buffered(buffer))
    BY <2>2, <1>1, FS_Subset
  <2>4. Cardinality(Buffered(buffer)') \in Nat /\ Cardinality(inflight) \in Nat
    BY <2>1, <1>1, <1>types, Finite DEF TypeOK
  <2> QED
    BY <2>2, <2>3, <2>4, <1>types DEF Throw, WindowBound
<1> QED
  BY <1>3, <1>4, <1>6, <1>7, <1>8 DEF IInv

\* TakeChunk: enqueue at once, hash first, or throw.
LEMMA TakeChunkStep == ASSUME IInv, TakeChunk PROVE IInv'
<1> USE RangesAssumption, LimitAssumption, NoResultAssumption
<1> DEFINE r   == buffer[nextToEmit]
           buf == [buffer EXCEPT ![nextToEmit] = NoResult]
           n   == nextToEmit + 1
<1>types. /\ TypeOK /\ WindowInv /\ ProgressInv /\ DeliveryInv /\ ShaInv /\ StreamInv
          /\ WindowBound
  BY DEF IInv
<1>1. /\ nextToEmit \in Index /\ nextToEmit \in Buffered(buffer)
      /\ nextToEmit < nextToSchedule /\ r.range = nextToEmit /\ r \in Result
      /\ buf \in [Index -> Result \cup {NoResult}]
      /\ Buffered(buf) = Buffered(buffer) \ {nextToEmit}
      /\ \A i \in Buffered(buf) : buf[i] = buffer[i]
      /\ pull = "waiting" /\ UNCHANGED <<ranges, firstError>>
      /\ buffer' = buf /\ nextToEmit' = n
  BY <1>types DEF TakeChunk, TypeOK, WindowInv, Buffered
<1>2. CASE ~Agrees(r.sha)
  <2>1. Throw /\ UNCHANGED expectedSha1
    BY <1>2 DEF TakeChunk
  <2> QED
    BY <2>1, <1>1, ThrowStep
<1>3. CASE Agrees(r.sha)
  <2>1. r.sha \in Sha /\ expectedSha1' = r.sha
    BY <1>1, <1>3 DEF TakeChunk, Result
  <2>2. ASSUME NEW k \in DOMAIN delivered PROVE delivered[k].sha = r.sha
    <3>1. delivered[k] \in Result /\ delivered[k].sha = expectedSha1
      BY <1>types DEF ShaInv, TypeOK
    <3>2. expectedSha1 # "undefined"
      BY <3>1 DEF Result, Sha
    <3> QED
      BY <3>1, <3>2, <1>3 DEF Agrees
  <2>3. Cardinality(Buffered(buf)) <= Cardinality(Buffered(buffer))
    BY <1>1, Finite, FS_RemoveElement DEF Buffered
  <2>4. Cardinality(inflight) + Cardinality(Buffered(buf)) <= 2 * Concurrency
    <3>1. /\ Cardinality(Buffered(buf)) \in Nat /\ Cardinality(Buffered(buffer)) \in Nat
          /\ Cardinality(inflight) \in Nat
      BY <1>types, Finite DEF TypeOK, Buffered
    <3> QED
      BY <3>1, <2>3, <1>types DEF WindowBound
  <2>5. /\ \A i \in inflight : n <= i /\ i < nextToSchedule
        /\ \A i \in Buffered(buf) :
             n <= i /\ i < nextToSchedule /\ i \notin inflight /\ buf[i].range = i
        /\ stream = "open" /\ ~aborted =>
             \A i \in n..(nextToSchedule - 1) : i \in inflight \cup Buffered(buf)
    <3>1. /\ \A i \in inflight : i # nextToEmit /\ i \in Int
          /\ \A i \in Buffered(buf) : i # nextToEmit /\ i \in Int
      BY <1>1, <1>types DEF WindowInv, TypeOK, Index, Buffered
    <3>2. /\ \A i \in inflight : n <= i /\ i < nextToSchedule
          /\ \A i \in Buffered(buf) :
               n <= i /\ i < nextToSchedule /\ i \notin inflight /\ buf[i].range = i
      <4>1. ASSUME NEW i \in Int, nextToEmit <= i, i # nextToEmit PROVE n <= i
        BY <4>1, <1>1 DEF Index
      <4>2. \A i \in inflight : n <= i /\ i < nextToSchedule
        BY <4>1, <3>1, <1>types DEF WindowInv
      <4>3. ASSUME NEW i \in Buffered(buf)
            PROVE  n <= i /\ i < nextToSchedule /\ i \notin inflight /\ buf[i].range = i
        <5>1. /\ nextToEmit <= i /\ i < nextToSchedule /\ i \notin inflight
              /\ buffer[i].range = i /\ buf[i] = buffer[i]
          BY <1>1, <1>types DEF WindowInv
        <5> QED
          BY <5>1, <4>1, <3>1
      <4> QED
        BY <4>2, <4>3
    <3>3. ASSUME stream = "open", ~aborted, NEW i \in n..(nextToSchedule - 1)
          PROVE  i \in inflight \cup Buffered(buf)
      <4>1. i \in nextToEmit..(nextToSchedule - 1) /\ i # nextToEmit
        BY <1>1, <1>types DEF TypeOK, Index
      <4> QED
        BY <3>3, <4>1, <1>1, <1>types DEF ProgressInv
    <3> QED
      BY <3>2, <3>3
  <2>6. /\ stream = "open" => Len(delivered) = n - 1
        /\ stream # "open" => aborted /\ stream # "closed"
        /\ n \in 1..nextToSchedule /\ r.range = n - 1
        /\ \A k \in DOMAIN delivered : delivered[k].range = k - 1
    BY <1>1, <1>types DEF DeliveryInv, StreamInv, TypeOK, Index
  <2>7. Ready(r, r.sha, n, buf)
    BY <1>1, <2>2, <2>4, <2>5, <2>6, <1>types DEF Ready, ProgressInv
  <2>8. CASE r.sha = "null" /\ Enqueue(r, "null", n, buf)
    BY <2>8, <2>1, <2>7, <1>1, <1>types, EnqueueStep
  <2>9. CASE /\ r.sha # "null" /\ pull' = "hashing" /\ chunk' = r
             /\ UNCHANGED <<nextToSchedule, inflight, aborted, streamVars>>
    <3>1. TypeOK'
      BY <2>9, <2>1, <1>1, <1>types DEF TypeOK, streamVars, Index
    <3>2. WindowInv' /\ ProgressInv' /\ WindowBound'
      BY <2>9, <2>4, <2>5, <2>6, <1>1, <1>types
      DEF WindowInv, ProgressInv, WindowBound, streamVars, Buffered
    <3>3. DeliveryInv' /\ ShaInv' /\ StreamInv'
      BY <2>9, <2>1, <2>2, <2>6, <1>1, <1>types
      DEF DeliveryInv, ShaInv, StreamInv, streamVars, TypeOK
    <3> QED
      BY <3>1, <3>2, <3>3 DEF IInv
  <2> QED
    BY <2>8, <2>9, <1>3 DEF TakeChunk
<1> QED
  BY <1>2, <1>3

\* Hashed: the chunk taken earlier is enqueued now.
LEMMA HashedStep == ASSUME IInv, Hashed PROVE IInv'
<1> USE RangesAssumption, LimitAssumption, NoResultAssumption
<1>types. /\ TypeOK /\ WindowInv /\ ProgressInv /\ DeliveryInv /\ ShaInv /\ StreamInv
          /\ WindowBound
  BY DEF IInv
<1>1. /\ pull = "hashing" /\ Enqueue(chunk, expectedSha1, nextToEmit, buffer)
      /\ UNCHANGED <<ranges, nextToEmit, buffer, firstError, expectedSha1>>
  BY DEF Hashed
<1>2. /\ chunk \in Result /\ chunk.range = nextToEmit - 1 /\ chunk.sha = expectedSha1
      /\ expectedSha1 \in Sha /\ chunk.range \in Index
  BY <1>1, <1>types DEF DeliveryInv, ShaInv, Result
<1>3. nextToEmit \in 1..nextToSchedule
  BY <1>2, <1>types DEF TypeOK, WindowInv, Index
<1>4. stream = "open" => Len(delivered) = nextToEmit - 1
  BY <1>1, <1>types DEF DeliveryInv
<1>5. stream # "open" => aborted /\ stream # "closed"
  BY <1>1, <1>types DEF StreamInv, TypeOK
<1>6. /\ \A i \in inflight : nextToEmit <= i /\ i < nextToSchedule
      /\ \A i \in Buffered(buffer) :
           nextToEmit <= i /\ i < nextToSchedule /\ i \notin inflight /\ buffer[i].range = i
      /\ stream = "open" /\ ~aborted =>
           \A i \in nextToEmit..(nextToSchedule - 1) : i \in inflight \cup Buffered(buffer)
      /\ firstError => aborted
      /\ \A k \in DOMAIN delivered :
           delivered[k].range = k - 1 /\ delivered[k].sha = expectedSha1
  BY <1>types DEF WindowInv, ProgressInv, DeliveryInv, ShaInv
<1>7. Ready(chunk, expectedSha1, nextToEmit, buffer)
  BY <1>2, <1>3, <1>4, <1>5, <1>6, <1>types DEF Ready, TypeOK, WindowBound
<1> QED
  BY <1>1, <1>2, <1>7, <1>types, EnqueueStep

\* RangeArrives: the range moves from the fetches to the buffer.
LEMMA ArriveStep == ASSUME IInv, NEW i \in Index, RangeArrives(i) PROVE IInv'
<1> USE RangesAssumption, LimitAssumption, NoResultAssumption
<1>types. /\ TypeOK /\ WindowInv /\ ProgressInv /\ DeliveryInv /\ ShaInv /\ StreamInv
          /\ WindowBound
  BY DEF IInv
<1>1. PICK r \in Result : r.range = i /\ buffer' = [buffer EXCEPT ![i] = r]
  BY DEF RangeArrives, ValidResponse
<1>2. /\ i \in inflight /\ inflight' = inflight \ {i} /\ WakePull
      /\ UNCHANGED <<ranges, nextToSchedule, nextToEmit, firstError, aborted, expectedSha1,
                     chunk, stream, queue, delivered>>
  BY DEF RangeArrives, streamVars
<1>3. /\ Buffered(buffer)' = Buffered(buffer) \cup {i} /\ i \notin Buffered(buffer)
      /\ buffer'[i] = r /\ \A j \in Buffered(buffer) : buffer'[j] = buffer[j]
      /\ buffer' \in [Index -> Result \cup {NoResult}]
  BY <1>1, <1>2, <1>types DEF Buffered, TypeOK, WindowInv
<1>4. TypeOK'
  BY <1>2, <1>3, <1>types DEF TypeOK, WakePull
<1>5. WindowInv'
  <2>1. \A j \in inflight' : nextToEmit <= j /\ j < nextToSchedule
    BY <1>2, <1>types DEF WindowInv
  <2>2. \A j \in Buffered(buffer) :
          nextToEmit <= j /\ j < nextToSchedule /\ j \notin inflight' /\ buffer'[j].range = j
    BY <1>2, <1>3, <1>types DEF WindowInv
  <2>3. nextToEmit <= i /\ i < nextToSchedule /\ i \notin inflight' /\ buffer'[i].range = i
    BY <1>1, <1>2, <1>3, <1>types DEF WindowInv
  <2> QED
    BY <1>2, <1>3, <1>types, <2>1, <2>2, <2>3 DEF WindowInv
<1>6. ProgressInv' /\ DeliveryInv' /\ ShaInv' /\ StreamInv'
  <2>1. /\ pull \in {"idle", "waiting", "racing"} <=> pull' \in {"idle", "waiting", "racing"}
        /\ pull = "hashing" <=> pull' = "hashing"
        /\ pull = "digesting" <=> pull' = "digesting"
        /\ pull = "idle" <=> pull' = "idle"
    BY <1>2 DEF WakePull
  <2>2. ProgressInv'
    BY <1>2, <1>3, <1>types, <2>1 DEF ProgressInv
  <2>3. DeliveryInv'
    BY <1>2, <1>types, <2>1 DEF DeliveryInv
  <2>4. ShaInv' /\ StreamInv'
    BY <1>2, <1>types, <2>1 DEF ShaInv, StreamInv
  <2> QED
    BY <2>2, <2>3, <2>4
<1>7. WindowBound'
  <2>1. /\ IsFiniteSet(inflight) /\ Cardinality(inflight) \in Nat
        /\ IsFiniteSet(Buffered(buffer)) /\ Cardinality(Buffered(buffer)) \in Nat
    BY <1>types, Finite DEF TypeOK, Buffered
  <2>2. Cardinality(inflight') = Cardinality(inflight) - 1
    BY <2>1, <1>2, FS_RemoveElement
  <2>3. Cardinality(Buffered(buffer)') = Cardinality(Buffered(buffer)) + 1
    BY <2>1, <1>3, FS_AddElement
  <2> QED
    BY <2>1, <2>2, <2>3, <1>types DEF WindowBound
<1> QED
  BY <1>4, <1>5, <1>6, <1>7 DEF IInv

\* A subset of the fetches, or an emptied buffer, keeps the window within its bound.
LEMMA WindowShrinks ==
    ASSUME TypeOK, WindowBound, inflight' \in SUBSET inflight,
           buffer' = buffer \/ Buffered(buffer)' = {}
    PROVE  WindowBound'
<1>1. /\ IsFiniteSet(inflight) /\ Cardinality(inflight) \in Nat
      /\ Cardinality(Buffered(buffer)) \in Nat
  BY Finite DEF TypeOK, Buffered
<1>2. Cardinality(inflight') \in Nat /\ Cardinality(inflight') <= Cardinality(inflight)
  BY <1>1, Finite, FS_Subset DEF TypeOK
<1>3. \/ Cardinality(Buffered(buffer)') = Cardinality(Buffered(buffer))
      \/ Cardinality(Buffered(buffer)') = 0
  BY FS_EmptySet DEF Buffered
<1> QED
  BY <1>1, <1>2, <1>3, LimitAssumption DEF WindowBound

\* RangeFails: the range leaves the fetches, and everything is aborted.
LEMMA FailStep == ASSUME IInv, NEW i \in Index, RangeFails(i) PROVE IInv'
<1>types. /\ TypeOK /\ WindowInv /\ ProgressInv /\ DeliveryInv /\ ShaInv /\ StreamInv
          /\ WindowBound
  BY DEF IInv
<1>1. /\ inflight' = inflight \ {i} /\ firstError' /\ aborted' /\ WakePull
      /\ firstError' \in BOOLEAN /\ aborted' \in BOOLEAN
      /\ UNCHANGED <<ranges, nextToSchedule, nextToEmit, buffer, expectedSha1, chunk, stream,
                     queue, delivered>>
  BY DEF RangeFails, streamVars
<1>2. TypeOK'
  BY <1>1, <1>types DEF TypeOK, WakePull
<1>3. WindowInv'
  BY <1>1, <1>types DEF WindowInv, Buffered
<1>4. ProgressInv' /\ DeliveryInv' /\ ShaInv' /\ StreamInv'
  BY <1>1, <1>types DEF ProgressInv, DeliveryInv, ShaInv, StreamInv, WakePull, TypeOK
<1>5. WindowBound'
  BY <1>1, <1>types, WindowShrinks
<1> QED
  BY <1>2, <1>3, <1>4, <1>5 DEF IInv

\* Digested: the digest agrees and the stream closes, or pull throws.
LEMMA DigestedStep == ASSUME IInv, Digested PROVE IInv'
<1>types. /\ TypeOK /\ WindowInv /\ ProgressInv /\ DeliveryInv /\ ShaInv /\ StreamInv
          /\ WindowBound
  BY DEF IInv
<1>1. /\ pull = "digesting"
      /\ UNCHANGED <<ranges, nextToEmit, buffer, firstError, expectedSha1>>
  BY DEF Digested
<1>2. CASE Throw
  BY <1>1, <1>2, ThrowStep
<1>3. CASE /\ DigestMatches /\ stream = "open" /\ stream' = "closed" /\ pull' = "idle"
           /\ UNCHANGED <<nextToSchedule, inflight, aborted, chunk, queue, delivered>>
  <2>1. TypeOK'
    BY <1>1, <1>3, <1>types DEF TypeOK
  <2>2. WindowInv' /\ WindowBound' /\ ProgressInv' /\ StreamInv'
    BY <1>1, <1>3, <1>types DEF WindowInv, WindowBound, ProgressInv, StreamInv, Buffered
  <2>3. inflight = {}
    BY <1>1, <1>types DEF WindowInv, DeliveryInv, TypeOK, Index
  <2>4. DeliveryInv' /\ ShaInv'
    BY <1>1, <1>3, <2>3, <1>types DEF DeliveryInv, ShaInv, DigestMatches
  <2> QED
    BY <2>1, <2>2, <2>4 DEF IInv
<1> QED
  BY <1>2, <1>3 DEF Digested

\* PullCloses: only the empty file ends this way.
LEMMA ClosesStep == ASSUME IInv, PullCloses PROVE IInv'
<1>types. /\ TypeOK /\ WindowInv /\ ProgressInv /\ DeliveryInv /\ ShaInv /\ StreamInv
          /\ WindowBound
  BY DEF IInv
<1>1. /\ pull = "waiting" /\ nextToEmit \notin Buffered(buffer)
      /\ ~aborted /\ ~firstError /\ inflight = {}
      /\ stream' = "closed" /\ pull' = "idle"
      /\ UNCHANGED <<ranges, nextToSchedule, nextToEmit, inflight, buffer, firstError, aborted,
                     expectedSha1, chunk, queue, delivered>>
  BY DEF PullCloses, windowVars
<1>2. stream = "open"
  BY <1>1, <1>types DEF StreamInv, TypeOK
<1>3. ranges = 0
  BY <1>1, <1>2, <1>types, RangesAssumption DEF ProgressInv, TypeOK
<1>4. Len(delivered) = 0 /\ delivered = <<>> /\ DOMAIN delivered = {}
  BY <1>1, <1>2, <1>3, <1>types DEF DeliveryInv, TypeOK
<1>5. TypeOK'
  BY <1>1, <1>types DEF TypeOK
<1>6. WindowInv' /\ WindowBound' /\ ProgressInv' /\ StreamInv'
  BY <1>1, <1>types DEF WindowInv, WindowBound, ProgressInv, StreamInv, Buffered
<1>7. DeliveryInv'
  BY <1>1, <1>3, <1>4, <1>types DEF DeliveryInv
<1>8. ShaInv'
  BY <1>1, <1>4, <1>types DEF ShaInv
<1> QED
  BY <1>5, <1>6, <1>7, <1>8 DEF IInv

\* Cancel: the buffer is dropped and everything aborted.
LEMMA CancelStep == ASSUME IInv, Cancel PROVE IInv'
<1>types. /\ TypeOK /\ WindowInv /\ ProgressInv /\ DeliveryInv /\ ShaInv /\ StreamInv
          /\ WindowBound
  BY DEF IInv
<1>1. /\ stream' = "cancelled" /\ queue' = 0 /\ aborted'= TRUE
      /\ buffer' = [j \in Index |-> NoResult]
      /\ UNCHANGED <<ranges, nextToSchedule, nextToEmit, inflight, firstError, expectedSha1,
                     pull, chunk, delivered>>
  BY DEF Cancel, pullVars
<1>2. Buffered(buffer)' = {} /\ buffer' \in [Index -> Result \cup {NoResult}]
  BY <1>1 DEF Buffered
<1>3. TypeOK'
  BY <1>1, <1>2, <1>types DEF TypeOK
<1>4. WindowInv' /\ WindowBound'
  BY <1>1, <1>2, <1>types, WindowShrinks DEF WindowInv
<1>5. ProgressInv' /\ DeliveryInv' /\ ShaInv' /\ StreamInv'
  BY <1>1, <1>types DEF ProgressInv, DeliveryInv, ShaInv, StreamInv
<1> QED
  BY <1>3, <1>4, <1>5 DEF IInv

\* The steps that only move pull, the queue or the abort flag.
LEMMA QuietStep ==
    ASSUME IInv, Pull \/ PullRaces \/ Read \/ CallerAborts \/ UNCHANGED vars
    PROVE  IInv'
<1>types. /\ TypeOK /\ WindowInv /\ ProgressInv /\ DeliveryInv /\ ShaInv /\ StreamInv
          /\ WindowBound
  BY DEF IInv
<1> USE DEF Pull, PullRaces, Read, CallerAborts, vars, windowVars, pullVars, streamVars
<1>1. /\ pull' = pull \/ (pull' = "waiting" /\ pull = "idle" /\ stream = "open")
                      \/ (pull' = "racing" /\ pull = "waiting")
      /\ aborted => aborted'
      /\ aborted' \in BOOLEAN /\ queue' \in 0..1
      /\ UNCHANGED <<ranges, nextToSchedule, nextToEmit, inflight, buffer, firstError,
                     expectedSha1, chunk, stream, delivered>>
  <2>1. aborted \in BOOLEAN /\ queue \in 0..1
    BY <1>types DEF TypeOK
  <2>2. aborted' = aborted \/ aborted' = TRUE
    OBVIOUS
  <2>3. queue' = queue \/ queue' = 0
    OBVIOUS
  <2>4. UNCHANGED <<ranges, nextToSchedule, nextToEmit, inflight, buffer, firstError,
                    expectedSha1, chunk, stream, delivered>>
    OBVIOUS
  <2>5. pull' = pull \/ (pull' = "waiting" /\ pull = "idle" /\ stream = "open")
                     \/ (pull' = "racing" /\ pull = "waiting")
    OBVIOUS
  <2> HIDE DEF Pull, PullRaces, Read, CallerAborts, vars, windowVars, pullVars, streamVars
  <2>6. aborted' \in BOOLEAN /\ (aborted => aborted')
    BY <2>1, <2>2, Zenon
  <2>7. queue' \in 0..1
    BY <2>1, <2>3
  <2> QED
    BY <2>4, <2>5, <2>6, <2>7, Zenon
<1>2. TypeOK'
  BY <1>1, <1>types DEF TypeOK
<1>3. WindowInv' /\ WindowBound'
  BY <1>1, <1>types DEF WindowInv, WindowBound, Buffered
<1>4. ProgressInv'
  BY <1>1, <1>types DEF ProgressInv, Buffered
<1>5. DeliveryInv' /\ ShaInv' /\ StreamInv'
  BY <1>1, <1>types DEF DeliveryInv, ShaInv, StreamInv
<1> QED
  BY <1>2, <1>3, <1>4, <1>5 DEF IInv

\* The inductive invariant holds in every reachable state.
THEOREM Invariance == Spec => []IInv
<1>1. ASSUME IInv, [Next]_vars PROVE IInv'
  <2>1. CASE PullThrows
    BY <1>1, <2>1, ThrowStep DEF PullThrows
  <2>2. CASE TakeChunk \/ Hashed \/ Digested \/ PullCloses \/ Cancel
    BY <1>1, <2>2, TakeChunkStep, HashedStep, DigestedStep, ClosesStep, CancelStep
  <2>3. CASE \E i \in Index : FetchStep(i)
    BY <1>1, <2>3, ArriveStep, FailStep DEF FetchStep
  <2>4. CASE Pull \/ PullRaces \/ Read \/ CallerAborts \/ UNCHANGED vars
    BY <1>1, <2>4, QuietStep
  <2> QED
    BY <1>1, <2>1, <2>2, <2>3, <2>4 DEF Next, PullStep
<1> QED
  BY InitIInv, <1>1, PTL DEF Spec

\* Every variable keeps its type: the counters of the window stay within the file
\* (scheduleNext and pull of createParallelDownloadStream).
THEOREM TypeCorrect == Spec => []TypeOK
<1>1. ASSUME IInv PROVE TypeOK
  BY <1>1 DEF IInv
<1> QED
  BY <1>1, Invariance, PTL

\* scheduleNext keeps what is fetched and buffered within twice the concurrency, however
\* long one range takes.
THEOREM WindowBounded == Spec => []WindowBound
<1>1. ASSUME IInv PROVE WindowBound
  BY <1>1 DEF IInv
<1> QED
  BY <1>1, Invariance, PTL

\* assertDownloadSha1 runs before controller.close(): a stream that closes with a known
\* SHA-1 has delivered the bytes of the file.
THEOREM ClosedIntact == Spec => []ClosedMeansIntact
<1>1. ASSUME IInv PROVE ClosedMeansIntact
  <2>1. delivered \in Seq(Result) /\ ShaInv
    BY <1>1 DEF IInv, TypeOK
  <2>2. SUFFICES ASSUME stream = "closed", NEW k \in DOMAIN delivered,
                        delivered[k].sha # "null"
                 PROVE  /\ \A i \in DOMAIN delivered : delivered[i].intact
                        /\ \A i \in DOMAIN delivered : delivered[i].sha = "file"
    BY DEF ClosedMeansIntact
  <2>3. delivered # <<>> /\ expectedSha1 # "null"
    BY <2>1, <2>2 DEF ShaInv
  <2> QED
    BY <2>1, <2>2, <2>3 DEF ShaInv
<1> QED
  BY <1>1, Invariance, PTL

\* When the stream closes, fails or is cancelled, every fetch has ended or is aborted.
THEOREM FetchesEnd == Spec => []NothingOutlivesTheStream
<1>1. ASSUME IInv PROVE NothingOutlivesTheStream
  BY <1>1 DEF IInv, TypeOK, StreamInv, DeliveryInv, NothingOutlivesTheStream
<1> QED
  BY <1>1, Invariance, PTL

-----------------------------------------------------------------------------
(* The stream implements ByteStream.                                       *)

\* The ranges handed to the reader.
Chunks == [i \in 1..Len(delivered) |-> delivered[i].range]

\* One more chunk, or the same ones, as ByteStream sees them.
LEMMA ChunksStep ==
    ASSUME IInv, IInv'
    PROVE  /\ Chunks \in Seq(Int) /\ Len(Chunks) = Len(delivered)
           /\ delivered' = delivered => Chunks' = Chunks
           /\ \A r \in Result : delivered' = Append(delivered, r) =>
                Chunks' = Append(Chunks, Len(Chunks))
<1>types. /\ delivered \in Seq(Result) /\ delivered' \in Seq(Result)
          /\ \A k \in DOMAIN delivered : delivered[k].range = k - 1
          /\ \A k \in DOMAIN delivered' : delivered'[k].range = k - 1
  BY DEF IInv, TypeOK, DeliveryInv
<1>1. /\ Chunks = [i \in 1..Len(delivered) |-> i - 1]
      /\ Chunks' = [i \in 1..Len(delivered') |-> i - 1]
  BY <1>types DEF Chunks
<1>2. Chunks \in Seq(Int) /\ Len(Chunks) = Len(delivered)
  BY <1>1, <1>types
<1>3. ASSUME NEW r \in Result, delivered' = Append(delivered, r)
      PROVE  Chunks' = Append(Chunks, Len(Chunks))
  <2>1. Len(delivered') = Len(delivered) + 1 /\ Len(delivered) \in Nat
    BY <1>3, <1>types
  <2> QED
    BY <1>1, <1>2, <2>1
<1> QED
  BY <1>1, <1>2, <1>3 DEF Chunks

\* The ways a step of the stream looks from outside.
LEMMA StreamFrame ==
    ASSUME IInv, [Next]_vars
    PROVE  /\ ranges' = ranges
           /\ \/ delivered' = delivered /\ stream' = stream
              \/ /\ delivered' = delivered /\ stream = "open"
                 /\ stream' \in {"closed", "errored", "cancelled"}
              \/ /\ stream = "open" /\ stream' \in {"open", "closed"}
                 /\ \E r \in Result : delivered' = Append(delivered, r)
<1>types. TypeOK /\ DeliveryInv /\ StreamInv
  BY DEF IInv
<1> DEFINE Same == delivered' = delivered /\ stream' = stream
           Ends == /\ delivered' = delivered /\ stream = "open"
                   /\ stream' \in {"closed", "errored", "cancelled"}
           Adds == /\ stream = "open" /\ stream' \in {"open", "closed"}
                   /\ \E r \in Result : delivered' = Append(delivered, r)
<1>1. ASSUME Throw PROVE Same \/ Ends
  BY <1>1 DEF Throw
<1>2. ASSUME NEW r \in Result, NEW sha, NEW n, NEW buf, Enqueue(r, sha, n, buf)
      PROVE  Same \/ Ends \/ Adds
  BY <1>1, <1>2 DEF Enqueue, CloseIfDone
<1>3. CASE TakeChunk
  <2>1. ranges' = ranges /\ pull = "waiting" /\ buffer[nextToEmit] \in Result
    BY <1>3, <1>types DEF TakeChunk, Buffered, TypeOK
  <2> QED
    BY <1>1, <1>2, <1>3, <2>1 DEF TakeChunk, streamVars
<1>4. CASE Hashed
  BY <1>2, <1>4, <1>types DEF Hashed, DeliveryInv
<1>5. CASE PullThrows
  BY <1>1, <1>5 DEF PullThrows
<1>6. CASE Digested
  BY <1>1, <1>6 DEF Digested
<1>7. CASE PullCloses
  BY <1>7, <1>types DEF PullCloses, StreamInv, TypeOK, windowVars
<1>8. CASE \E i \in Index : FetchStep(i)
  BY <1>8 DEF FetchStep, RangeArrives, RangeFails, streamVars
<1>9. CASE Pull \/ PullRaces \/ Read \/ Cancel \/ CallerAborts \/ UNCHANGED vars
  BY <1>9 DEF Pull, PullRaces, Read, Cancel, CallerAborts, vars, windowVars, streamVars
<1> QED
  BY <1>3, <1>4, <1>5, <1>6, <1>7, <1>8, <1>9 DEF Next, PullStep

\* Every step hands over the next range, ends the stream, or is not seen.
LEMMA BytesStep == ASSUME IInv, IInv', [Next]_vars PROVE [Bytes!Next]_Bytes!vars
<1>types. /\ TypeOK /\ TypeOK' /\ DeliveryInv' /\ DeliveryInv /\ WindowInv
  BY DEF IInv
<1>1. /\ Chunks \in Seq(Int) /\ Len(Chunks) = Len(delivered)
      /\ delivered' = delivered => Chunks' = Chunks
      /\ \A r \in Result : delivered' = Append(delivered, r) =>
           Chunks' = Append(Chunks, Len(Chunks))
  BY ChunksStep
<1>2. ranges' = ranges /\ (stream' = "closed" => Len(delivered') = ranges)
  BY <1>types, StreamFrame DEF DeliveryInv
<1>3. CASE delivered' = delivered /\ stream' = stream
  BY <1>1, <1>2, <1>3 DEF Bytes!vars, Chunks
<1>4. CASE /\ delivered' = delivered /\ stream = "open"
           /\ stream' \in {"closed", "errored", "cancelled"}
  BY <1>1, <1>2, <1>4 DEF Bytes!Next, Bytes!End, Chunks
<1>5. CASE /\ stream = "open" /\ stream' \in {"open", "closed"}
           /\ \E r \in Result : delivered' = Append(delivered, r)
  <2>1. PICK r \in Result : delivered' = Append(delivered, r)
    BY <1>5
  <2>2. Chunks' = Append(Chunks, Len(Chunks)) /\ Len(Chunks') = Len(delivered')
        /\ Len(delivered') = Len(delivered) + 1 /\ Len(delivered) \in Nat
    BY <2>1, <1>1, <1>types DEF TypeOK
  <2>3. Len(delivered') <= ranges
    BY <1>2, <1>5, <1>types DEF DeliveryInv, TypeOK
  <2>4. Len(Chunks) < ranges
    BY <2>2, <2>3, <1>1, <1>types DEF TypeOK
  <2> QED
    BY <1>2, <1>5, <2>2, <2>4 DEF Bytes!Next, Bytes!Deliver, Chunks
<1> QED
  BY <1>3, <1>4, <1>5, StreamFrame

\* The reader gets the ranges of the file in order, each once, and the stream is called
\* closed only after the last: the download implements ByteStream.
THEOREM Ordered == Spec => InOrder
<1>1. ASSUME Init PROVE Bytes!Init
  BY <1>1, RangesAssumption DEF Init, Bytes!Init
<1>2. IInv /\ IInv' /\ [Next]_vars => [Bytes!Next]_Bytes!vars
  BY BytesStep
<1> QED
  BY <1>1, <1>2, Invariance, PTL DEF Spec, InOrder, Bytes!Spec
=============================================================================
