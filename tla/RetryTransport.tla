---------------------------- MODULE RetryTransport ----------------------------
(***************************************************************************)
(* RetryTransport.send (http/transport.ts) for requests that run at the    *)
(* same time, with the one reauthorization they share (ReauthCoalescer).   *)
(*                                                                         *)
(* A dispatch is one call of the inner transport.  It may be answered,     *)
(* lost before or after the server applied it, or applied after the        *)
(* client has given it up.                                                 *)
(***************************************************************************)
EXTENDS ReauthCoalescer

CONSTANTS Kinds,      \* what the endpoints of the requests may be
          MaxRetries  \* retryOptions.maxRetries

\* "large" is b2_start_large_file and b2_finish_large_file, "upload" is
\* b2_upload_file and b2_upload_part, "mutation" has idempotent: false.
ASSUME KindAssumption == Kinds \subseteq [Request -> {"safe", "large", "upload", "mutation"}]
ASSUME RetryAssumption == MaxRetries \in Nat

VARIABLES kind,       \* the endpoint of each request
          phase,      \* where send is, per request
          token,      \* request.headers.Authorization
          attempt,
          didReauth,
          aborted,    \* request.signal.aborted
          outcome,
          dispatched, \* dispatches so far
          wire,       \* dispatches on their way to the server
          answers,    \* dispatches the server has answered
          effects,    \* times the server applied the request
          valid       \* tokens the server accepts

sendVars   == <<kind, phase, token, attempt, didReauth, outcome, dispatched>>
serverVars == <<answers, effects, valid>>
retryVars == <<reauthVars, sendVars, aborted, wire, serverVars>>

MaxDispatch == MaxRetries + 2   \* the attempts, and the replay after a reauth
Dispatch == [r: Request, n: 1..MaxDispatch, token: Token]
Status   == {"ok", "expired", "busy", "throttled", "rejected"}

\* isNonIdempotentMutationRequest, isUploadEndpoint
CanReauth(r) == kind[r] \in {"safe", "large"}

\* Mutant: the endpoint is not looked at.
RetryTransient(r, s) == s \in {"busy", "throttled", "expired"}

\* shouldRetryInPlace: every transient status for most requests, 429 for an upload.
\* A token that expires a second time counts as transient.
RetryInPlace(r, s) == \/ kind[r] = "safe" /\ s \in {"busy", "throttled", "expired"}
                      \/ kind[r] = "upload" /\ s = "throttled"

\* isReplayUnsafeRequest
ReplayUnsafe(r) == kind[r] # "safe"

MayRetry(r) == attempt[r] < MaxRetries

RetryTypeOK ==
    /\ ReauthTypeOK
    /\ kind \in Kinds
    /\ phase \in [Request -> {"idle", "sending", "backoff", "reauth", "settled"}]
    /\ token \in [Request -> Token]
    /\ attempt \in [Request -> 0..MaxRetries]
    /\ didReauth \in [Request -> BOOLEAN]
    /\ aborted \in [Request -> BOOLEAN]
    /\ outcome \in [Request -> {"none", "ok", "error", "abort", "othersAbort"}]
    /\ dispatched \in [Request -> 0..MaxDispatch]
    /\ wire \subseteq Dispatch
    /\ answers \subseteq [to: Dispatch, status: Status]
    /\ effects \in [Request -> 0..MaxDispatch]
    /\ valid \subseteq Token

RetryInit ==
    /\ ReauthInit
    /\ kind \in Kinds
    /\ phase = [r \in Request |-> "idle"]
    /\ token = [r \in Request |-> 0]
    /\ attempt = [r \in Request |-> 0]
    /\ didReauth = [r \in Request |-> FALSE]
    /\ aborted = [r \in Request |-> FALSE]
    /\ outcome = [r \in Request |-> "none"]
    /\ dispatched = [r \in Request |-> 0]
    /\ wire = {}
    /\ answers = {}
    /\ effects = [r \in Request |-> 0]
    /\ valid = {0}

Current(r) == [r |-> r, n |-> dispatched[r], token |-> token[r]]
Answered(r, s) == [to |-> Current(r), status |-> s] \in answers

\* inner.send, with the token t.
SendWith(r, t) ==
    /\ phase' = [phase EXCEPT ![r] = "sending"]
    /\ dispatched' = [dispatched EXCEPT ![r] = dispatched[r] + 1]
    /\ token' = [token EXCEPT ![r] = t]
    /\ wire' = wire \cup {[r |-> r, n |-> dispatched[r] + 1, token |-> t]}

Settle(r, o) ==
    /\ phase' = [phase EXCEPT ![r] = "settled"]
    /\ outcome' = [outcome EXCEPT ![r] = o]

\* The caller reads the stored token into the headers and calls send.
Call(r) ==
    /\ phase[r] = "idle" /\ ~aborted[r]
    /\ SendWith(r, auth)
    /\ UNCHANGED <<reauthVars, kind, attempt, didReauth, aborted, outcome, serverVars>>

SignalAborts(r) ==
    /\ ~aborted[r] /\ phase[r] # "settled"
    /\ aborted' = [aborted EXCEPT ![r] = TRUE]
    /\ UNCHANGED <<reauthVars, sendVars, wire, serverVars>>

\* send throws the abort reason, before, between and after dispatches.
AbortEnds(r) ==
    /\ aborted[r] /\ phase[r] \in {"idle", "sending", "backoff"}
    /\ Settle(r, "abort")
    /\ UNCHANGED <<reauthVars, kind, token, attempt, didReauth, aborted, dispatched, wire, serverVars>>

Succeeds(r) ==
    /\ phase[r] = "sending" /\ ~aborted[r] /\ Answered(r, "ok")
    /\ Settle(r, "ok")
    /\ UNCHANGED <<reauthVars, kind, token, attempt, didReauth, aborted, dispatched, wire, serverVars>>

\* The first expired token: wait for a refresh.
NeedsReauth(r) == CanReauth(r) /\ ~didReauth[r] /\ Answered(r, "expired")

Reauthorize(r) ==
    /\ phase[r] = "sending" /\ ~aborted[r] /\ NeedsReauth(r)
    /\ Run(r)
    /\ phase' = [phase EXCEPT ![r] = "reauth"]
    /\ UNCHANGED <<kind, token, attempt, didReauth, aborted, outcome, dispatched, wire, serverVars>>

\* Mutant: the replay keeps the Authorization header it has.
SameToken(r) == token[r]
FreshToken(r) == joined[r]

\* The refresh resolves: replay with its token.  It is no attempt of its own.
Replay(r) ==
    /\ phase[r] = "reauth" /\ ~aborted[r] /\ refresh[joined[r]].result = "token"
    /\ Leave(r)
    /\ SendWith(r, FreshToken(r))
    /\ didReauth' = [didReauth EXCEPT ![r] = TRUE]
    /\ UNCHANGED <<kind, attempt, aborted, outcome, serverVars>>

\* The refresh rejects, for a reason of its own or the abort reason of the last
\* waiter it had.
ReauthFails(r) ==
    /\ phase[r] = "reauth" /\ ~aborted[r] /\ refresh[joined[r]].result = "error"
    /\ Leave(r)
    /\ Settle(r, IF refresh[joined[r]].aborted THEN "othersAbort" ELSE "error")
    /\ UNCHANGED <<kind, token, attempt, didReauth, aborted, dispatched, wire, serverVars>>

\* raceWithAbort: this waiter stops waiting.
ReauthAborted(r) ==
    /\ phase[r] = "reauth" /\ aborted[r]
    /\ Leave(r)
    /\ Settle(r, "abort")
    /\ UNCHANGED <<kind, token, attempt, didReauth, aborted, dispatched, wire, serverVars>>

Backoff(r) ==
    /\ phase' = [phase EXCEPT ![r] = "backoff"]
    /\ attempt' = [attempt EXCEPT ![r] = attempt[r] + 1]
    /\ UNCHANGED outcome

\* An error answer that needs no reauthorization.
ErrorAnswer(r) ==
    /\ phase[r] = "sending" /\ ~aborted[r] /\ ~NeedsReauth(r)
    /\ \E s \in Status \ {"ok"} :
         /\ Answered(r, s)
         /\ \/ RetryInPlace(r, s) /\ MayRetry(r) /\ Backoff(r)
            \/ ~(RetryInPlace(r, s) /\ MayRetry(r)) /\ Settle(r, "error") /\ UNCHANGED attempt
    /\ UNCHANGED <<reauthVars, kind, token, didReauth, aborted, dispatched, wire, serverVars>>

\* The inner transport throws: NetworkError, or the request timeout.
NoAnswer(r) ==
    /\ phase[r] = "sending" /\ ~aborted[r]
    /\ \/ ~ReplayUnsafe(r) /\ MayRetry(r) /\ Backoff(r)
       \/ ~(~ReplayUnsafe(r) /\ MayRetry(r)) /\ Settle(r, "error") /\ UNCHANGED attempt
    /\ UNCHANGED <<reauthVars, kind, token, didReauth, aborted, dispatched, wire, serverVars>>

Retry(r) ==
    /\ phase[r] = "backoff" /\ ~aborted[r]
    /\ SendWith(r, token[r])
    /\ UNCHANGED <<reauthVars, kind, attempt, didReauth, aborted, outcome, serverVars>>

-----------------------------------------------------------------------------
(* The server.                                                             *)

Answer(m, s) ==
    /\ wire' = wire \ {m}
    /\ answers' = answers \cup {[to |-> m, status |-> s]}
    /\ UNCHANGED <<reauthVars, sendVars, aborted>>

Applies(m) == effects' = [effects EXCEPT ![m.r] = effects[m.r] + 1]

\* An error answer may come after the request was applied; 401, 429 and 4xx do not.
ServerApplies(m) ==
    /\ m.token \in valid
    /\ Applies(m)
    /\ \E s \in {"ok", "busy"} : Answer(m, s)
    /\ UNCHANGED valid

ServerRefuses(m) ==
    /\ \/ m.token \in valid /\ \E s \in {"busy", "throttled", "rejected"} : Answer(m, s)
       \/ m.token \notin valid /\ Answer(m, "expired")
    /\ UNCHANGED <<effects, valid>>

\* Every token issued so far expires.
TokensExpire ==
    /\ valid # {}
    /\ valid' = {}
    /\ UNCHANGED <<reauthVars, sendVars, aborted, wire, answers, effects>>

\* b2_authorize_account issues the token the refresh stores.
RefreshStep(i) ==
    /\ \/ RefreshDone(i) /\ valid' = valid \cup {i}
       \/ RefreshFails(i) /\ UNCHANGED valid
       \/ SlotClears(i) /\ UNCHANGED valid
    /\ UNCHANGED <<sendVars, aborted, wire, answers, effects>>

-----------------------------------------------------------------------------

\* A refresh has ended or was aborted, and the microtasks that free its slot have
\* not run yet.  They run before the event loop takes the next event of the network.
Draining == slot # NoRefresh /\ (refresh[slot].work # "running" \/ refresh[slot].aborted)

SendStep(r) ==
    \/ AbortEnds(r) \/ Succeeds(r) \/ Reauthorize(r) \/ Replay(r) \/ ReauthFails(r)
    \/ ReauthAborted(r) \/ ErrorAnswer(r) \/ NoAnswer(r) \/ Retry(r)

ServerStep ==
    /\ ~Draining
    /\ (\E m \in wire : ServerApplies(m) \/ ServerRefuses(m)) \/ TokensExpire

RetryNext == \/ \E r \in Request : Call(r) \/ SignalAborts(r) \/ SendStep(r)
             \/ \E i \in Refresh : RefreshStep(i)
             \/ ServerStep

RetrySpec == RetryInit /\ [][RetryNext]_retryVars

\* The event loop runs what is ready, every dispatch ends (with an answer, an error
\* or requestTimeoutMs), and so does the dispatch of b2_authorize_account.
FairRetrySpec == /\ RetrySpec
                 /\ \A r \in Request : WF_retryVars(SendStep(r))
                 /\ \A i \in Refresh : WF_retryVars(RefreshStep(i))

-----------------------------------------------------------------------------
(* Properties.                                                             *)

\* A request that must not be replayed is applied at most once, whatever is lost,
\* late, expired or throttled on the way (isReplayUnsafeRequest, shouldRetryInPlace).
AppliedAtMostOnce == \A r \in Request : ReplayUnsafe(r) => effects[r] <= 1

\* The replay after a reauthorization carries a token newer than the one that
\* expired ("Without this swap the retry would carry the expired token").
ReplayIsFresh ==
    [][\A r \in Request : didReauth'[r] /\ ~didReauth[r] => token'[r] > token[r]]_retryVars

\* The stored token is never replaced by an older one: a refresh all of whose
\* waiters left, and that answers late, stores nothing.
AuthNeverGoesBack == [][auth' >= auth]_retryVars

\* Tokens only go forward, in the account and on the wire: what two sends, their shared
\* refresh and a refresh they abandoned do to the stored token, and what is replayed with it.
TokensAdvance == ReplayIsFresh /\ AuthNeverGoesBack

\* A refresh is only aborted when no request waits for it any more.
LastWaiterAborts ==
    [][\A i \in Refresh : refresh'[i].aborted /\ ~refresh[i].aborted =>
         \A r \in Request : joined'[r] # i]_retryVars

\* At most one b2_authorize_account that may still store a token is on its way.
OneLiveRefresh ==
    \A i, j \in {k \in Refresh : refresh[k].work = "running" /\ ~refresh[k].aborted} : i = j

\* Every request that is sent settles.
Settles == \A r \in Request :
             phase[r] \in {"sending", "backoff", "reauth"} ~> phase[r] = "settled"

-----------------------------------------------------------------------------
(* The inductive invariant of TransportProofs.                             *)

\* No token is newer than the stored one, and no request waits for a refresh whose
\* token it has already seen expire.
FreshInv ==
    /\ \A r \in Request : /\ joined[r] # NoRefresh <=> phase[r] = "reauth"
                          /\ phase[r] = "reauth" => token[r] < joined[r] /\ ~didReauth[r]
                          /\ token[r] <= auth
    /\ \A m \in wire : m.token <= auth
    /\ \A a \in answers : /\ a.to.token <= auth
                          /\ slot # NoRefresh => a.to.token < slot

\* Every dispatch is the first, follows a backoff, or is the replay.
Spent(r) == attempt[r] + (IF didReauth[r] THEN 1 ELSE 0)

CountInv ==
    /\ \A r \in Request :
         /\ phase[r] = "idle" => dispatched[r] = 0
         /\ phase[r] \in {"sending", "reauth"} => dispatched[r] = Spent(r) + 1
         /\ phase[r] \in {"idle", "backoff"} => dispatched[r] = Spent(r)
         /\ dispatched[r] <= Spent(r) + 1
    /\ \A m \in wire : m.n <= dispatched[m.r]
    /\ \A a \in answers : a.to.n <= dispatched[a.to.r]

\* How often the server has applied the request, or still may.
OnWire(r) == {m \in wire : m.r = r}
Potential(r) == effects[r] + Cardinality(OnWire(r))

EffectInv ==
    /\ IsFiniteSet(wire)
    /\ \A r \in Request :
         /\ Potential(r) <= dispatched[r]
         /\ ReplayUnsafe(r) => /\ Potential(r) <= 1
                               /\ phase[r] \in {"backoff", "reauth"} => Potential(r) = 0
    /\ \A a \in answers :
         ReplayUnsafe(a.to.r) /\ a.to.n = dispatched[a.to.r]
             /\ a.status \in {"expired", "throttled"} => Potential(a.to.r) = 0

IInv == /\ RetryTypeOK /\ OrderInv /\ TokenInv /\ WaiterInv
        /\ FreshInv /\ CountInv /\ EffectInv
=============================================================================
