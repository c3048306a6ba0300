---------------------------- MODULE FetchTransport ----------------------------
(***************************************************************************)
(* A B2Client with its account store, the URL guard it locks and the        *)
(* transport that asks the guard (client.ts, http/url-guard.ts,             *)
(* FetchTransport of http/transport.ts): one request on its way through     *)
(* redirects to an answer, which the caller reads whole or as a stream,     *)
(* while a timer runs and the caller may abort.                            *)
(*                                                                         *)
(* An exchange changes nothing the account store reads, and of its steps    *)
(* only authorize changes what an exchange reads.  So there is one exchange,*)
(* and once it has begun the store's other steps are left out.              *)
(***************************************************************************)
EXTENDS AccountStore

LOCAL INSTANCE SequencesExt

CONSTANTS HostOf,       \* the endpoints of a realm
          AlsoAllowed,  \* options.allowedHostSuffixes of a client, or Unset
          Unset,
          Url,          \* [form, host, https]: what the service or its caller names
          MaxRedirects, \* MAX_SAME_ORIGIN_REDIRECTS
          NoUrl         \* an answer without a Location, or none to follow

ASSUME MaxRedirectsAssumption == MaxRedirects \in Nat

VARIABLES guard,   \* allowedSuffixes, per process and client
          exchange

wireVars == <<guard, exchange>>
clientVars == <<vars, wireVars>>

-----------------------------------------------------------------------------
(* The guard.  A host is the sequence of its labels, the top level first.   *)

Open == {}   \* no suffixes: everything is allowed

\* hostMatchesAllowedSuffix
Under(suffix, host) == IsPrefix(suffix, host)

Internal(host) ==
    \/ host \in {<<"localhost">>, <<"metadata">>}
    \/ Len(host) > 1 /\ Head(host) \in {"localhost", "internal", "local"}

\* check; form is "name", "literal" or "malformed".
Allows(suffixes, url) ==
    suffixes # Open =>
        /\ url.form = "name" /\ ~ Internal(url.host)
        /\ \E s \in suffixes : Under(s, url.host)
        /\ url.https

B2Domain  == <<"com", "backblazeb2">>
PodDomain == <<"com", "backblaze">>

\* deriveAllowedSuffixes, of the endpoints of a realm
Derived(realm) ==
    {PodDomain} \cup {IF Under(B2Domain, host) THEN B2Domain ELSE host : host \in HostOf[realm]}

\* lockUrlGuard: an empty list of the caller's turns the guard off.
Locked(c, realm) ==
    CASE AlsoAllowed[c] = Unset -> Derived(realm)
      [] AlsoAllowed[c] = {} -> Open
      [] OTHER -> Derived(realm) \cup AlsoAllowed[c]

-----------------------------------------------------------------------------
(* The timeout scope of a request.  reason is why the signal that fetch has *)
(* is aborted; expired is timedOut.                                         *)

\* createRequestTimeoutScope; without a timeout the signal is the caller's.
Scoped(x) ==
    [x EXCEPT !.timer = x.timed /\ ~ x.aborted, !.listening = x.timed /\ ~ x.aborted,
              !.expired = FALSE, !.reason = IF x.aborted THEN "abort" ELSE "none"]

Disposed(x) == [x EXCEPT !.timer = FALSE, !.listening = FALSE]

\* reset
Reset(x) == [x EXCEPT !.timer = x.timed /\ (@ \/ x.reason = "none")]

\* The signal is aborted, and the body with it.
Aborted(x, why) ==
    [x EXCEPT !.reason = IF @ = "none" THEN why ELSE @, !.body = IF @ = "open" THEN "aborted" ELSE @]

\* Mutant: the timer goes on.
TimerStays(x) == [Aborted(x, "abort") EXCEPT !.listening = FALSE]

\* abortFromUpstream
UpstreamAborts(x) == [Aborted(x, "abort") EXCEPT !.timer = FALSE, !.listening = FALSE]

Over(x, outcome) == [Disposed(x) EXCEPT !.phase = "over", !.outcome = outcome]

\* createRequestTimeoutError takes the place of what was thrown.
Throws(x, err) == Over(x, IF x.expired THEN "timeout" ELSE err)

-----------------------------------------------------------------------------
(* send.                                                                   *)

NoExchange == [phase |-> "idle"]

\* Inside the realm of a client, or where its caller said it may go.
InRealm(c, url) ==
    /\ url.https
    /\ \E s \in Derived(RealmOf[c]) \cup (IF AlsoAllowed[c] = Unset THEN {} ELSE AlsoAllowed[c]) : Under(s, url.host)

\* history: a fetch leaves the realm although the store holds what this process was given.
Stray(x) ==
    /\ held[x.by] # Nothing /\ held[x.by].auth = lastSet[x.by]
    /\ AlsoAllowed[x.of] # {} /\ ~ InRealm(x.of, x.url)

\* Mutant: the guard is asked once.
CheckedOnce(x) == x.fetched # <<>> \/ Allows(guard[x.by][x.of], x.url)

Checked(x) == Allows(guard[x.by][x.of], x.url)

Fetch(x) ==
    IF Checked(x)
    THEN [Scoped(x) EXCEPT !.phase = "fetching", !.fetched = Append(@, x.url), !.strayed = @ \/ Stray(x)]
    ELSE Over(x, "refused")

\* Bound: the account file is at rest, and no other process runs.
Send(p, c, method, url, timed, follow) ==
    /\ exchange = NoExchange /\ running[p] /\ client[p] = {c}
    /\ writeQueue[p] = <<>> /\ \A q \in Process \ {p} : ~ running[q] /\ temp[q] = Missing
    /\ exchange' = Fetch([by |-> p, of |-> c, phase |-> "idle", method |-> method, url |-> url,
                          timed |-> timed, follow |-> follow, aborted |-> FALSE, next |-> NoUrl,
                          fetched |-> <<>>, strayed |-> FALSE, timer |-> FALSE, listening |-> FALSE,
                          expired |-> FALSE, reason |-> "none", body |-> "none", pulling |-> FALSE,
                          arrived |-> "nothing", queued |-> FALSE, late |-> FALSE, outcome |-> "none"])
    /\ UNCHANGED <<vars, guard>>

InPhase(phase) == exchange.phase = phase
Becomes(x) == exchange' = x /\ UNCHANGED <<vars, guard>>

\* fetch rejects, for the abort or for a reason of its own.
FetchFails ==
    /\ InPhase("fetching")
    /\ \E err \in {"network"} \cup ({exchange.reason} \ {"none"}) : Becomes(Throws(exchange, err))

\* Mutant: whatever the method.
FollowsAny(x, location) == x.follow /\ location # NoUrl /\ Len(x.fetched) <= MaxRedirects
                             /\ location.host = x.url.host /\ location.https = x.url.https

\* canFollowSameOriginRedirect, and the number of redirects so far
MayFollow(x, location) ==
    /\ x.follow /\ location # NoUrl /\ Len(x.fetched) <= MaxRedirects
    /\ x.method \in {"GET", "HEAD"}
    /\ location.form # "malformed" /\ location.host = x.url.host /\ location.https = x.url.https

\* A redirect: its body is cancelled, whether or not it is followed.
RedirectArrives(location) ==
    /\ InPhase("fetching") /\ exchange.reason = "none"
    /\ Becomes([exchange EXCEPT !.phase = "cancelling",
                                !.next = IF MayFollow(exchange, location) THEN location ELSE NoUrl])

BodyCancelled ==
    /\ InPhase("cancelling")
    /\ Becomes(IF exchange.next = NoUrl THEN Over(exchange, "redirect")
               ELSE Fetch([Disposed(exchange) EXCEPT !.url = exchange.next, !.next = NoUrl]))

\* createTimedHttpResponse; body is "null" or "open".
AnswerArrives(body) ==
    /\ InPhase("fetching") /\ exchange.reason = "none"
    /\ Becomes([(IF body = "null" THEN Disposed(exchange) ELSE exchange) EXCEPT !.phase = "answered", !.body = body])

-----------------------------------------------------------------------------
(* The answer, read whole: readTimedResponseBody.                          *)

ReadWhole == InPhase("answered") /\ Becomes([exchange EXCEPT !.phase = "reading"])

WholeArrives ==
    /\ InPhase("reading") /\ exchange.reason = "none"
    /\ Becomes([Over(exchange, "ok") EXCEPT !.body = "ended"])

\* The connection breaks under a read of the whole, or under a pull.
BodyBreaks ==
    /\ exchange.phase = "reading" \/ (exchange.phase = "streaming" /\ exchange.pulling /\ exchange.arrived = "nothing")
    /\ exchange.body = "open"
    /\ Becomes([Throws(exchange, "network") EXCEPT !.body = "broken", !.pulling = FALSE])

-----------------------------------------------------------------------------
(* The answer as a stream: createTimedResponseBody.  The stream pulls while *)
(* it holds no chunk.  arrived is what the pending read resolved with, until *)
(* the microtasks of the pull have run.                                     *)

OpenStream ==
    /\ InPhase("answered") /\ exchange.body \in {"open", "aborted"}
    /\ Becomes([exchange EXCEPT !.phase = "streaming"])

Pull ==
    /\ InPhase("streaming") /\ ~ exchange.pulling /\ ~ exchange.queued /\ exchange.reason = "none"
    /\ Becomes([exchange EXCEPT !.pulling = TRUE])

Arrives(what) ==
    /\ InPhase("streaming") /\ exchange.pulling /\ exchange.arrived = "nothing" /\ exchange.body = "open"
    /\ Becomes([exchange EXCEPT !.arrived = what, !.body = IF what = "end" THEN "ended" ELSE @])

\* The pull goes on, also after a cancel that came between: then the stream takes nothing.
PullGoesOn ==
    LET x == [exchange EXCEPT !.arrived = "nothing", !.pulling = FALSE]
    IN  /\ exchange # NoExchange /\ exchange.arrived # "nothing"
        /\ Becomes(CASE InPhase("streaming") /\ exchange.arrived = "chunk" -> [Reset(x) EXCEPT !.queued = TRUE]
                     [] InPhase("streaming") /\ exchange.arrived = "end" -> Over(x, "ok")
                     [] InPhase("over") /\ exchange.arrived = "chunk" -> Reset(x)
                     [] OTHER -> x)

Consume == InPhase("streaming") /\ exchange.queued /\ Becomes([exchange EXCEPT !.queued = FALSE])

Cancel ==
    /\ InPhase("streaming")
    /\ Becomes([Over(exchange, "cancelled") EXCEPT
                  !.body = IF @ = "open" THEN "cancelled" ELSE @, !.queued = FALSE,
                  !.late = exchange.arrived = "chunk"])

\* raceBodyReadWithAbort: the signal ends the read that waits, or the next one.
ReadAborted ==
    /\ exchange.phase = "reading" \/ (exchange.phase = "streaming" /\ ~ exchange.queued /\ exchange.arrived = "nothing")
    /\ exchange.reason # "none"
    /\ Becomes([Throws(exchange, exchange.reason) EXCEPT !.pulling = FALSE])

-----------------------------------------------------------------------------
(* The timer and the caller.                                               *)

\* A timer runs after the microtasks.
TimerFires ==
    /\ exchange # NoExchange /\ exchange.timer /\ exchange.arrived = "nothing"
    /\ Becomes([Aborted(exchange, "timeout") EXCEPT !.timer = FALSE, !.expired = TRUE])

\* The caller's signal, which nobody listens to before an exchange or after it.
CallerAborts ==
    /\ exchange.phase \notin {"idle", "over"} /\ ~ exchange.aborted
    /\ LET x == [exchange EXCEPT !.aborted = TRUE]
       IN  Becomes(IF x.listening THEN UpstreamAborts(x) ELSE IF x.timed THEN x ELSE Aborted(x, "abort"))

-----------------------------------------------------------------------------

ClientInit ==
    /\ Init
    /\ guard = [p \in Process |-> [c \in Client |-> Open]] /\ exchange = NoExchange

\* The constructor: the guard is new, and locked if the store has an authorization.
Construct(p, c) ==
    /\ Bind(p, c)
    /\ guard' = [guard EXCEPT ![p][c] = IF held'[p] = Nothing THEN Open ELSE Locked(c, held'[p].auth.realm)]
    /\ UNCHANGED exchange

AuthorizeClient(p, c) ==
    /\ exchange # NoExchange => exchange.by = p /\ exchange.phase # "over"
    /\ Authorize(p, c)
    /\ guard' = [guard EXCEPT ![p][c] = Locked(c, RealmOf[c])]
    /\ UNCHANGED exchange

\* The guards of a process end with it.
CrashClient(p) ==
    /\ Crash(p)
    /\ guard' = [guard EXCEPT ![p] = [c \in Client |-> Open]] /\ UNCHANGED exchange

StoreStep(p) ==
    \/ (Start(p) \/ Load(p) \/ Clear(p) \/ WriteStep(p)) /\ UNCHANGED wireVars
    \/ CrashClient(p)
    \/ \E c \in ClientsOf[p] : Construct(p, c)

ExchangeStep ==
    \/ FetchFails \/ BodyCancelled \/ ReadWhole \/ WholeArrives \/ BodyBreaks
    \/ OpenStream \/ Pull \/ PullGoesOn \/ Consume \/ Cancel \/ ReadAborted \/ TimerFires \/ CallerAborts
    \/ \E location \in Url \cup {NoUrl} : RedirectArrives(location)
    \/ \E body \in {"null", "open"} : AnswerArrives(body)
    \/ \E what \in {"chunk", "end"} : Arrives(what)

ClientNext ==
    \/ exchange = NoExchange /\ \E p \in Process : StoreStep(p)
    \/ \E p \in Process : \E c \in ClientsOf[p] :
          \/ AuthorizeClient(p, c)
          \/ \E method \in {"GET", "POST"}, url \in Url, timed, follow \in BOOLEAN : Send(p, c, method, url, timed, follow)
    \/ ExchangeStep

ClientSpec == ClientInit /\ [][ClientNext]_clientVars

-----------------------------------------------------------------------------
\* However redirects, chunks, the timer, the caller's abort, a cancel and an authorization of
\* the client interleave: an exchange that is over has let go of its body, of the caller's
\* signal and of its timer, but for a timer that a chunk set which came in the same turn as a
\* cancel; whoever ended it is the one the caller is told of, and it is told of success only
\* with the whole body; a POST is fetched once, and nothing is fetched outside the realm of a
\* client that has authorized, not even by a redirect of a request that set out before.
ExchangesEndTruly ==
    exchange # NoExchange =>
        LET x == exchange
        IN  /\ x.phase = "over" => ~ x.listening /\ x.body # "open" /\ (x.timer => x.late)
            /\ x.outcome \in {"abort", "timeout"} => x.outcome = x.reason
            /\ x.outcome = "ok" => x.body = "ended"
            /\ x.method = "POST" => Len(x.fetched) <= 1
            /\ Len(x.fetched) <= MaxRedirects + 1
            /\ ~ x.strayed
=============================================================================
