------------------------------ MODULE UploadUrls ------------------------------
(***************************************************************************)
(* The upload URLs of one bucket (or of one large file): UploadUrlPool     *)
(* (auth/upload-url-pool.ts) as InMemoryAccountInfo keeps it, and the      *)
(* uploads that take URLs from it, withFreshUploadUrlRetry                 *)
(* (upload/retry.ts) under uploadSmallFile and uploadPartWithFreshUrl.     *)
(*                                                                         *)
(* The i-th URL the server hands out is i.  It may expire at any moment.   *)
(* freshFault is history: the uploads that met a failure a pooled URL is   *)
(* not to blame for.                                                       *)
(***************************************************************************)
EXTENDS Naturals, Sequences

CONSTANTS Upload,
          PriorUrls,  \* bound: URLs earlier uploads left in the pool
          MaxRetries  \* retry.maxRetries

ASSUME RetryAssumption == MaxRetries \in Nat
ASSUME PriorAssumption == PriorUrls \in Nat

NoUrl == 0
Url   == Nat \ {NoUrl}

VARIABLES pool,      \* the stack of URLs that wait for an upload
          issued,    \* URLs the server has handed out
          valid,     \* URLs the server accepts
          phase,     \* where withFreshUploadUrlRetry is, per upload
          entry,     \* uploadEntry
          pooled,    \* did entry come from the pool
          attempt,
          cancelled, \* options.signal.aborted
          freshFault

urlVars == <<pool, issued, valid>>
poolVars == <<urlVars, phase, entry, pooled, attempt, cancelled, freshFault>>

PoolTypeOK ==
    /\ pool \in Seq(Url)
    /\ issued \in Nat
    /\ valid \in SUBSET Url
    /\ phase \in [Upload -> {"idle", "ready", "fetching", "uploading", "backoff", "ok", "failed"}]
    /\ entry \in [Upload -> Url \cup {NoUrl}]
    /\ pooled \in [Upload -> BOOLEAN]
    /\ attempt \in [Upload -> 0..MaxRetries]
    /\ cancelled \in [Upload -> BOOLEAN]
    /\ freshFault \in [Upload -> BOOLEAN]

PoolInit ==
    /\ issued \in 0..PriorUrls /\ pool = [i \in 1..issued |-> i] /\ valid = 1..issued
    /\ phase = [u \in Upload |-> "idle"]
    /\ entry = [u \in Upload |-> NoUrl]
    /\ pooled = [u \in Upload |-> FALSE]
    /\ attempt = [u \in Upload |-> 0]
    /\ cancelled = [u \in Upload |-> FALSE]
    /\ freshFault = [u \in Upload |-> FALSE]

Goto(u, p) == phase' = [phase EXCEPT ![u] = p]
Hold(u, e) == entry' = [entry EXCEPT ![u] = e]

-----------------------------------------------------------------------------
(* The pool.                                                               *)

\* pool.pop() leaves the rest.
Popped(rest) == rest = SubSeq(pool, 1, Len(pool) - 1)

Checkin(e) == pool' = Append(pool, e)

\* splice at the first entry with this URL, if there is one.
Evict(e) ==
    \/ (\A i \in DOMAIN pool : pool[i] # e) /\ UNCHANGED pool
    \/ \E i \in DOMAIN pool :
         /\ pool[i] = e /\ \A j \in 1..(i - 1) : pool[j] # e
         /\ pool' = SubSeq(pool, 1, i - 1) \o SubSeq(pool, i + 1, Len(pool))

\* setAuth, clear: the pool is emptied.
SetAuth ==
    /\ pool # <<>> /\ pool' = <<>>
    /\ UNCHANGED <<issued, valid, phase, entry, pooled, attempt, cancelled, freshFault>>

-----------------------------------------------------------------------------
(* withFreshUploadUrlRetry                                                 *)

Begin(u) ==
    /\ phase[u] = "idle" /\ Goto(u, "ready")
    /\ UNCHANGED <<urlVars, entry, pooled, attempt, cancelled, freshFault>>

SignalAborts(u) ==
    /\ ~cancelled[u] /\ phase[u] \notin {"ok", "failed"}
    /\ cancelled' = [cancelled EXCEPT ![u] = TRUE]
    /\ UNCHANGED <<urlVars, phase, entry, pooled, attempt, freshFault>>

\* throwIfAborted before an attempt, an abort of the fetch or of the sleep.
AbortEnds(u) ==
    /\ cancelled[u] /\ phase[u] \in {"ready", "fetching", "backoff"}
    /\ Goto(u, "failed")
    /\ UNCHANGED <<urlVars, entry, pooled, attempt, cancelled, freshFault>>

\* Mutant: every attempt looks in the pool first.
PoolFirst(u) == pool # <<>>

\* Only the first attempt looks in the pool.
FromPool(u) == attempt[u] = 0 /\ pool # <<>>

Checkout(u) ==
    /\ phase[u] = "ready" /\ ~cancelled[u] /\ FromPool(u)
    /\ Hold(u, pool[Len(pool)]) /\ Popped(pool')
    /\ pooled' = [pooled EXCEPT ![u] = TRUE]
    /\ Goto(u, "uploading")
    /\ UNCHANGED <<issued, valid, attempt, cancelled, freshFault>>

Fetch(u) ==
    /\ phase[u] = "ready" /\ ~cancelled[u] /\ ~FromPool(u)
    /\ Goto(u, "fetching")
    /\ UNCHANGED <<urlVars, entry, pooled, attempt, cancelled, freshFault>>

FetchReplied(u) ==
    /\ phase[u] = "fetching" /\ ~cancelled[u]
    /\ issued' = issued + 1 /\ valid' = valid \cup {issued'}
    /\ Hold(u, issued')
    /\ pooled' = [pooled EXCEPT ![u] = FALSE]
    /\ Goto(u, "uploading")
    /\ UNCHANGED <<pool, attempt, cancelled, freshFault>>

NextAttempt(u) == attempt' = [attempt EXCEPT ![u] = attempt[u] + 1]

\* Back off before the next attempt.
Retried(u) == attempt[u] < MaxRetries /\ Goto(u, "backoff") /\ NextAttempt(u)

\* isUploadRetryable, the spent budget, and the caller's abort.
GiveUpOrRetry(u, retryable) ==
    \/ ~cancelled[u] /\ retryable /\ Retried(u)
    \/ /\ cancelled[u] \/ ~retryable \/ attempt[u] = MaxRetries
       /\ Goto(u, "failed") /\ UNCHANGED attempt

FetchFails(u) ==
    /\ phase[u] = "fetching"
    /\ \E retryable \in BOOLEAN : GiveUpOrRetry(u, retryable)
    /\ freshFault' = [freshFault EXCEPT ![u] = TRUE]
    /\ UNCHANGED <<urlVars, entry, pooled, cancelled>>

Uploaded(u) ==
    /\ phase[u] = "uploading" /\ ~cancelled[u] /\ entry[u] \in valid
    /\ Checkin(entry[u]) /\ Hold(u, NoUrl)
    /\ Goto(u, "ok")
    /\ UNCHANGED <<issued, valid, pooled, attempt, cancelled, freshFault>>

\* 429: the URL is good, and fetching another would only add to the load.
Throttled(u) ==
    /\ phase[u] = "uploading"
    /\ Checkin(entry[u]) /\ Hold(u, NoUrl)
    /\ Goto(u, "failed")
    /\ freshFault' = [freshFault EXCEPT ![u] = TRUE]
    /\ UNCHANGED <<issued, valid, pooled, attempt, cancelled>>

Discard(u) == Evict(entry[u]) /\ Hold(u, NoUrl)

\* Any other error, or no answer.  The refusal of an expired URL is retryable; a
\* pooled URL is only to blame for that.
UploadFails(u) ==
    /\ phase[u] = "uploading"
    /\ Discard(u)
    /\ \E retryable \in BOOLEAN :
         /\ GiveUpOrRetry(u, retryable)
         /\ freshFault' = [freshFault EXCEPT
               ![u] = freshFault[u] \/ ~(retryable /\ pooled[u] /\ entry[u] \notin valid)]
    /\ UNCHANGED <<issued, valid, pooled, cancelled>>

\* The sleep ends.
Wake(u) ==
    /\ phase[u] = "backoff" /\ ~cancelled[u]
    /\ Goto(u, "ready")
    /\ UNCHANGED <<urlVars, entry, pooled, attempt, cancelled, freshFault>>

\* The server forgets a URL.
Expire(e) ==
    /\ valid' = valid \ {e}
    /\ UNCHANGED <<pool, issued, phase, entry, pooled, attempt, cancelled, freshFault>>

-----------------------------------------------------------------------------

UploadStep(u) ==
    \/ AbortEnds(u) \/ Checkout(u) \/ Fetch(u) \/ FetchReplied(u) \/ FetchFails(u)
    \/ Uploaded(u) \/ Throttled(u) \/ UploadFails(u) \/ Wake(u)

PoolNext == \/ \E u \in Upload : UploadStep(u) \/ Begin(u) \/ SignalAborts(u)
        \/ SetAuth
        \/ \E e \in valid : Expire(e)

PoolSpec == PoolInit /\ [][PoolNext]_poolVars

-----------------------------------------------------------------------------
(* Properties.                                                             *)

\* A URL serves one upload at a time: it is held by one, or waits in the pool once.
ExclusiveEntry ==
    /\ \A u, v \in Upload : entry[u] = entry[v] /\ entry[u] # NoUrl => u = v
    /\ \A u \in Upload, i \in DOMAIN pool : pool[i] # entry[u]
    /\ \A i, j \in DOMAIN pool : pool[i] = pool[j] => i = j

\* URLs that went stale in the pool never make an upload fail, however many the pool
\* holds: they cost it one attempt.
PoolNeverFailsUpload ==
    MaxRetries > 0 =>
        \A u \in Upload : phase[u] = "failed" => cancelled[u] \/ freshFault[u]
=============================================================================
