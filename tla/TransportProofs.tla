------------------------------ MODULE TransportProofs -----------------------
(***************************************************************************)
(* Theorems about how a request is sent: the retrying transport with the   *)
(* shared reauthorization (RetryTransport), and the transport below it on  *)
(* the persistent account (FetchTransport).  The two have nothing in       *)
(* common but this module.                                                 *)
(***************************************************************************)
EXTENDS FiniteSets, FetchTransport, RetryTransport, FiniteSetTheorems, TLAPS

-----------------------------------------------------------------------------
(* RetryTransport.  IInv is inductive.  The first lemmas are about the     *)
(* coalescer alone: each of its operations keeps CoalescerInv.  Then one   *)
(* lemma per conjunct of the transport's own invariant, with one case per  *)
(* action, and the theorems read off the invariant.                        *)

CoalescerInv == ReauthTypeOK /\ OrderInv /\ TokenInv /\ WaiterInv

\* Refreshes are numbered from 1: none of them is NoRefresh.
LEMMA Numbers ==
    /\ MaxRefresh \in Nat /\ MaxRetries \in Nat
    /\ \A i \in Refresh : i \in Nat /\ i # NoRefresh /\ i \in Token
    /\ \A i \in Token : i \in Nat /\ (i # NoRefresh => i \in Refresh)
BY RefreshAssumption, RetryAssumption DEF Refresh, Token, NoRefresh

\* The requests that wait for one refresh are finitely many.
LEMMA WaitingFinite ==
    ASSUME NEW i
    PROVE  IsFiniteSet(WaitingOn(i)) /\ Cardinality(WaitingOn(i)) \in Nat
<1>1. WaitingOn(i) \in SUBSET Request
  BY DEF WaitingOn
<1> QED
  BY <1>1, RequestAssumption, FS_Subset, FS_CardinalityType

\* A request that starts to wait is one waiter more, of one refresh.
LEMMA WaiterAdded ==
    ASSUME NEW r \in Request, NEW i \in Refresh, ReauthTypeOK, WaiterInv,
           joined[r] = NoRefresh, joined' = [joined EXCEPT ![r] = i]
    PROVE  /\ Cardinality(WaitingOn(i)') = waiters[i] + 1
           /\ \A j \in Refresh : j # i => Cardinality(WaitingOn(j)') = waiters[j]
<1>1. /\ WaitingOn(i)' = WaitingOn(i) \cup {r} /\ r \notin WaitingOn(i)
      /\ \A j \in Refresh : j # i => WaitingOn(j)' = WaitingOn(j)
  BY Numbers DEF WaitingOn, ReauthTypeOK
<1>2. Cardinality(WaitingOn(i)') = Cardinality(WaitingOn(i)) + 1
  BY <1>1, WaitingFinite, FS_AddElement
<1> QED
  BY <1>1, <1>2 DEF WaiterInv

\* A request that stops waiting is one waiter less; the last one leaves none.
LEMMA WaiterRemoved ==
    ASSUME NEW r \in Request, NEW i \in Refresh, ReauthTypeOK, WaiterInv,
           joined[r] = i, joined' = [joined EXCEPT ![r] = NoRefresh]
    PROVE  /\ Cardinality(WaitingOn(i)') = waiters[i] - 1
           /\ waiters[i] - 1 \in Nat
           /\ waiters[i] = 1 => WaitingOn(i)' = {}
           /\ \A j \in Refresh : j # i => Cardinality(WaitingOn(j)') = waiters[j]
<1>1. /\ WaitingOn(i)' = WaitingOn(i) \ {r} /\ r \in WaitingOn(i)
      /\ \A j \in Refresh : j # i => WaitingOn(j)' = WaitingOn(j)
  BY Numbers DEF WaitingOn, ReauthTypeOK
<1>2. /\ Cardinality(WaitingOn(i) \ {r}) = Cardinality(WaitingOn(i)) - 1
      /\ IsFiniteSet(WaitingOn(i) \ {r})
  BY <1>1, WaitingFinite, FS_RemoveElement
<1>3. Cardinality(WaitingOn(i) \ {r}) \in Nat
  BY <1>2, FS_CardinalityType
<1>4. Cardinality(WaitingOn(i) \ {r}) = 0 => WaitingOn(i) \ {r} = {}
  BY <1>2, FS_EmptySet
<1> QED
  BY <1>1, <1>2, <1>3, <1>4 DEF WaiterInv

\* A request that joins the refresh in the slot.
LEMMA JoinStep ==
    ASSUME CoalescerInv, NEW r \in Request, joined[r] = NoRefresh, Join(r)
    PROVE  CoalescerInv'
<1>1. /\ slot \in Refresh /\ joined' = [joined EXCEPT ![r] = slot]
      /\ waiters' = [waiters EXCEPT ![slot] = waiters[slot] + 1]
      /\ UNCHANGED <<auth, slot, refresh>>
  BY DEF Join, CoalescerInv, ReauthTypeOK
<1>2. ReauthTypeOK'
  BY <1>1 DEF CoalescerInv, ReauthTypeOK
<1>3. OrderInv' /\ TokenInv'
  BY <1>1 DEF CoalescerInv, OrderInv, TokenInv, Settled
<1>4. WaiterInv'
  <2>1. \A j \in Refresh : waiters'[j] = Cardinality(WaitingOn(j)')
    BY <1>1, WaiterAdded DEF CoalescerInv, ReauthTypeOK
  <2>2. \A q \in Request : joined'[q] # NoRefresh => refresh[joined'[q]].work # "none"
    BY <1>1 DEF CoalescerInv, ReauthTypeOK, WaiterInv, OrderInv
  <2> QED
    BY <1>1, <2>1, <2>2 DEF WaiterInv, WaitingOn
<1> QED
  BY <1>2, <1>3, <1>4 DEF CoalescerInv

\* The refresh i that a request starts is newer than every token there is.
LEMMA StartStep ==
    ASSUME CoalescerInv, NEW r \in Request, joined[r] = NoRefresh, slot = NoRefresh, StartRefresh(r)
    PROVE  /\ CoalescerInv'
           /\ auth' = auth /\ slot' \in Refresh /\ auth < slot'
           /\ joined' = [joined EXCEPT ![r] = slot']
<1> USE DEF CoalescerInv
<1>1. PICK i \in Refresh :
        /\ \A j \in Refresh : refresh[j].work = "none" <=> j >= i
        /\ slot' = i /\ refresh' = [refresh EXCEPT ![i].work = "running"]
        /\ joined' = [joined EXCEPT ![r] = i]
        /\ waiters' = [waiters EXCEPT ![i] = 1]
        /\ auth' = auth
  BY DEF StartRefresh
<1>2. /\ refresh'[i] = [refresh[i] EXCEPT !.work = "running"]
      /\ \A j \in Refresh : j # i => refresh'[j] = refresh[j]
      /\ refresh[i] \in RefreshRecord /\ refresh[i].work = "none"
      /\ ~refresh[i].aborted /\ ~Settled(i)
  BY <1>1, Numbers DEF ReauthTypeOK, OrderInv
<1>3. /\ refresh'[i].work = "running" /\ refresh'[i].aborted = refresh[i].aborted
      /\ refresh'[i].result = refresh[i].result /\ refresh'[i] \in RefreshRecord
  BY <1>2 DEF RefreshRecord
<1>4. auth < i
  <2>1. auth # 0 => auth \in Refresh /\ ~(auth >= i)
    BY <1>1, Numbers DEF ReauthTypeOK, TokenInv, NoRefresh
  <2> QED
    BY <2>1, Numbers DEF ReauthTypeOK, NoRefresh
<1>5. ReauthTypeOK'
  BY <1>1, <1>2, <1>3 DEF ReauthTypeOK
<1>6. OrderInv'
  <2>1. \A j, k \in Refresh : k < j /\ refresh'[j].work # "none" => refresh'[k].work # "none"
    BY <1>1, <1>2, <1>3, Numbers
  <2>2. \A j \in Refresh : j > i => refresh'[j].work = "none"
    BY <1>1, <1>2, Numbers
  <2>3. ASSUME NEW j \in Refresh
        PROVE  /\ refresh'[j].work = "none" =>
                    ~refresh'[j].aborted /\ refresh'[j].result = "none"
               /\ refresh'[j].work = "running" /\ ~refresh'[j].aborted => j = i
    <3>1. CASE j = i
      BY <1>3, <3>1
    <3>2. CASE j # i
      <4>1. /\ refresh'[j] = refresh[j] /\ slot # j
            /\ refresh[j].work = "none" => ~refresh[j].aborted /\ refresh[j].result = "none"
            /\ refresh[j].work = "running" /\ ~refresh[j].aborted => slot = j
        BY <1>2, <3>2, Numbers DEF OrderInv, Settled
      <4> QED
        BY <4>1
    <3> QED
      BY <3>1, <3>2
  <2> QED
    BY <1>1, <1>2, <1>3, <2>1, <2>2, <2>3 DEF OrderInv, Settled
<1>7. TokenInv'
  BY <1>1, <1>2, <1>3, <1>4, Numbers DEF TokenInv, ReauthTypeOK, Settled
<1>8. WaiterInv'
  <2>1. waiters[i] = 0
    <3>1. WaitingOn(i) = {}
      BY <1>2, Numbers DEF WaitingOn, WaiterInv
    <3> QED
      BY <3>1, FS_EmptySet DEF WaiterInv
  <2>2. ASSUME NEW j \in Refresh PROVE waiters'[j] = Cardinality(WaitingOn(j)')
    <3>1. /\ Cardinality(WaitingOn(i)') = waiters[i] + 1
          /\ j # i => Cardinality(WaitingOn(j)') = waiters[j]
      BY <1>1, WaiterAdded
    <3>2. waiters'[i] = 1 /\ (j # i => waiters'[j] = waiters[j])
      BY <1>1 DEF ReauthTypeOK
    <3> QED
      BY <2>1, <3>1, <3>2
  <2>3. \A q \in Request : joined'[q] # NoRefresh => refresh'[joined'[q]].work # "none"
    BY <1>1, <1>2, <1>3 DEF ReauthTypeOK, WaiterInv
  <2> QED
    BY <2>2, <2>3 DEF WaiterInv, WaitingOn
<1> QED
  BY <1>1, <1>4, <1>5, <1>6, <1>7, <1>8

\* A waiter that leaves; nothing waits for a refresh it aborts.
LEMMA LeaveStep ==
    ASSUME CoalescerInv, NEW r \in Request, joined[r] # NoRefresh, Leave(r)
    PROVE  /\ CoalescerInv' /\ UNCHANGED <<auth, slot>>
           /\ joined' = [joined EXCEPT ![r] = NoRefresh]
           /\ \A i \in Refresh : /\ refresh'[i].work = refresh[i].work
                                 /\ refresh'[i].result = refresh[i].result
                                 /\ refresh'[i].aborted /\ ~refresh[i].aborted =>
                                      \A q \in Request : joined'[q] # i
<1> USE DEF CoalescerInv
<1>i. PICK i \in Refresh : i = joined[r]
  BY DEF ReauthTypeOK
<1>1. /\ UNCHANGED <<auth, slot>>
      /\ joined' = [joined EXCEPT ![r] = NoRefresh]
      /\ waiters' = [waiters EXCEPT ![i] = waiters[i] - 1]
      /\ refresh' = [refresh EXCEPT ![i].aborted = refresh[i].aborted \/ LastWaiter(i)]
  BY <1>i DEF Leave
<1>2. /\ refresh'[i] = [refresh[i] EXCEPT !.aborted = refresh[i].aborted \/ LastWaiter(i)]
      /\ \A j \in Refresh : j # i => refresh'[j] = refresh[j]
      /\ refresh[i] \in RefreshRecord
  BY <1>1 DEF ReauthTypeOK
<1>3. /\ refresh'[i].work = refresh[i].work /\ refresh'[i].result = refresh[i].result
      /\ refresh[i].aborted => refresh'[i].aborted
      /\ refresh'[i].aborted => refresh[i].aborted \/ LastWaiter(i)
      /\ refresh'[i] \in RefreshRecord
  BY <1>2 DEF RefreshRecord
<1>4. /\ Cardinality(WaitingOn(i)') = waiters[i] - 1
      /\ waiters[i] - 1 \in Nat
      /\ waiters[i] = 1 => WaitingOn(i)' = {}
      /\ \A j \in Refresh : j # i => Cardinality(WaitingOn(j)') = waiters[j]
  BY <1>1, <1>i, WaiterRemoved
<1>5. ReauthTypeOK'
  BY <1>1, <1>2, <1>3, <1>4 DEF ReauthTypeOK
<1>6. OrderInv' /\ TokenInv'
  <2>1. \A j \in Refresh : /\ refresh'[j].work = refresh[j].work
                           /\ refresh'[j].result = refresh[j].result
                           /\ refresh[j].aborted => refresh'[j].aborted
    BY <1>2, <1>3
  <2>2. refresh[i].work # "none"
    BY <1>i DEF WaiterInv
  <2>3. auth \in Token /\ slot \in Refresh \cup {NoRefresh}
    BY DEF ReauthTypeOK
  <2>4. \A j \in Refresh :
           /\ refresh'[j].work = "none" => ~refresh'[j].aborted /\ refresh'[j].result = "none"
           /\ refresh'[j].work = "running" /\ ~refresh'[j].aborted => slot = j
    BY <1>2, <2>1, <2>2 DEF OrderInv, Settled
  <2>5. TokenInv'
    BY <1>1, <2>1, <2>3, Numbers DEF TokenInv, NoRefresh
  <2> QED
    BY <1>1, <2>1, <2>3, <2>4, <2>5 DEF OrderInv, Settled
<1>7. WaiterInv'
  <2>1. ASSUME NEW j \in Refresh PROVE waiters'[j] = Cardinality(WaitingOn(j)')
    <3>1. waiters'[i] = waiters[i] - 1 /\ (j # i => waiters'[j] = waiters[j])
      BY <1>1 DEF ReauthTypeOK
    <3> QED
      BY <1>4, <3>1
  <2>2. \A q \in Request : joined'[q] # NoRefresh => refresh'[joined'[q]].work # "none"
    BY <1>1, <1>2, <1>3 DEF ReauthTypeOK, WaiterInv
  <2> QED
    BY <2>1, <2>2 DEF WaiterInv, WaitingOn
<1>8. ASSUME refresh'[i].aborted, ~refresh[i].aborted PROVE \A q \in Request : joined'[q] # i
  BY <1>3, <1>4, <1>8 DEF LastWaiter, WaitingOn
<1> QED
  BY <1>1, <1>2, <1>3, <1>5, <1>6, <1>7, <1>8

\* The steps of a refresh itself: its answer, its failure, its slot.
LEMMA RefreshWork ==
    ASSUME CoalescerInv, NEW i \in Refresh,
           RefreshDone(i) \/ RefreshFails(i) \/ SlotClears(i)
    PROVE  /\ CoalescerInv' /\ UNCHANGED joined
           /\ auth' = auth \/ (auth' = i /\ auth < i /\ slot = i /\ RefreshDone(i))
           /\ slot' = slot \/ slot' = NoRefresh
           /\ \A j \in Refresh : refresh'[j].aborted = refresh[j].aborted
<1> USE DEF CoalescerInv
<1>types. /\ auth \in Token /\ slot \in Refresh \cup {NoRefresh}
          /\ refresh \in [Refresh -> RefreshRecord]
  BY DEF ReauthTypeOK
<1>frame. ASSUME UNCHANGED <<waiters, joined>>,
                 \A j \in Refresh : refresh[j].work # "none" => refresh'[j].work # "none"
          PROVE  WaiterInv'
  BY <1>frame DEF WaiterInv, WaitingOn, ReauthTypeOK
<1>1. CASE RefreshDone(i)
  <2>1. /\ slot = i /\ refresh[i].work = "running" /\ ~refresh[i].aborted
        /\ refresh' = [refresh EXCEPT ![i].work = "done"]
        /\ auth' = i /\ auth < i /\ UNCHANGED <<slot, waiters, joined>>
    BY <1>1, Numbers DEF RefreshDone, MayStore, OrderInv, TokenInv
  <2>2. /\ refresh'[i] = [refresh[i] EXCEPT !.work = "done"]
        /\ \A j \in Refresh : j # i => refresh'[j] = refresh[j]
    BY <2>1, <1>types
  <2>3. /\ refresh'[i].work = "done" /\ refresh'[i].aborted = refresh[i].aborted
        /\ refresh'[i].result = refresh[i].result /\ refresh'[i] \in RefreshRecord
    BY <2>2, <1>types DEF RefreshRecord
  <2>4. ReauthTypeOK' /\ WaiterInv'
    BY <2>1, <2>2, <2>3, <1>types, <1>frame, Numbers DEF ReauthTypeOK
  <2>5. OrderInv'
    BY <2>1, <2>2, <2>3, Numbers DEF OrderInv, Settled
  <2>6. TokenInv'
    BY <2>1, <2>2, <2>3, <1>types, Numbers DEF TokenInv, Token, Refresh, NoRefresh
  <2> QED
    BY <1>1, <2>1, <2>2, <2>3, <2>4, <2>5, <2>6
<1>2. CASE RefreshFails(i)
  <2>1. /\ refresh[i].work = "running" /\ UNCHANGED <<auth, slot, waiters, joined>>
        /\ refresh' = [refresh EXCEPT ![i].work = "failed"]
    BY <1>2 DEF RefreshFails
  <2>2. /\ refresh'[i] = [refresh[i] EXCEPT !.work = "failed"]
        /\ \A j \in Refresh : j # i => refresh'[j] = refresh[j]
    BY <2>1, <1>types
  <2>3. /\ refresh'[i].work = "failed" /\ refresh'[i].aborted = refresh[i].aborted
        /\ refresh'[i].result = refresh[i].result /\ refresh'[i] \in RefreshRecord
    BY <2>2, <1>types DEF RefreshRecord
  <2>4. ReauthTypeOK' /\ WaiterInv'
    BY <2>1, <2>2, <2>3, <1>types, <1>frame DEF ReauthTypeOK
  <2>5. OrderInv'
    BY <2>1, <2>2, <2>3, Numbers DEF OrderInv, Settled
  <2>6. TokenInv'
    BY <2>1, <2>2, <2>3, <1>types, Numbers DEF TokenInv, NoRefresh
  <2> QED
    BY <2>1, <2>2, <2>3, <2>4, <2>5, <2>6
<1>3. CASE SlotClears(i)
  <2>1. /\ slot = i /\ slot' = NoRefresh /\ UNCHANGED <<auth, waiters, joined>>
        /\ \/ /\ refresh[i].work = "done"
              /\ refresh' = [refresh EXCEPT ![i].result = "token"]
           \/ /\ refresh[i].work = "failed" \/ refresh[i].aborted
              /\ refresh' = [refresh EXCEPT ![i].result = "error"]
    BY <1>3 DEF SlotClears
  <2>2. /\ \A j \in Refresh : j # i => refresh'[j] = refresh[j]
        /\ refresh'[i].work = refresh[i].work /\ refresh'[i].aborted = refresh[i].aborted
        /\ refresh'[i].result \in {"token", "error"}
        /\ refresh'[i].result = "token" => refresh[i].work = "done"
        /\ refresh'[i] \in RefreshRecord
    BY <2>1, <1>types DEF RefreshRecord
  <2>3. ReauthTypeOK' /\ WaiterInv'
    BY <2>1, <2>2, <1>types, <1>frame DEF ReauthTypeOK
  <2>4. refresh[i].work # "none" /\ (refresh[i].work = "running" => refresh[i].aborted)
    BY <2>1, Numbers DEF OrderInv
  <2>5. OrderInv'
    BY <2>1, <2>2, <2>4, Numbers DEF OrderInv, Settled
  <2>6. TokenInv'
    BY <2>1, <2>2, <1>types, Numbers DEF TokenInv, NoRefresh
  <2> QED
    BY <2>1, <2>2, <2>3, <2>5, <2>6
<1> QED
  BY <1>1, <1>2, <1>3

-----------------------------------------------------------------------------
(* The transport.                                                          *)

\* The steps of a request that leave the coalescer alone and dispatch nothing.
LocalStep(r) == AbortEnds(r) \/ Succeeds(r) \/ ErrorAnswer(r) \/ NoAnswer(r)

LEMMA LocalFrame ==
    ASSUME RetryTypeOK, NEW r \in Request, LocalStep(r)
    PROVE  /\ UNCHANGED <<reauthVars, kind, token, didReauth, aborted, dispatched, wire,
                          answers, effects, valid>>
           /\ phase[r] \in {"idle", "sending", "backoff"}
           /\ \/ /\ phase' = [phase EXCEPT ![r] = "settled"] /\ attempt' = attempt
                 /\ \E o \in {"ok", "error", "abort"} : outcome' = [outcome EXCEPT ![r] = o]
              \/ /\ phase[r] = "sending" /\ attempt[r] < MaxRetries
                 /\ phase' = [phase EXCEPT ![r] = "backoff"]
                 /\ attempt' = [attempt EXCEPT ![r] = attempt[r] + 1]
                 /\ outcome' = outcome
                 /\ ReplayUnsafe(r) => Answered(r, "throttled")
<1> USE DEF reauthVars, serverVars, Settle, Backoff, MayRetry
<1>1. CASE AbortEnds(r)
  BY <1>1 DEF AbortEnds
<1>2. CASE Succeeds(r)
  BY <1>2 DEF Succeeds
<1>3. CASE ErrorAnswer(r)
  BY <1>3 DEF ErrorAnswer, RetryInPlace, ReplayUnsafe
<1>4. CASE NoAnswer(r)
  BY <1>4 DEF NoAnswer
<1> QED
  BY <1>1, <1>2, <1>3, <1>4 DEF LocalStep

\* The waiters that leave without a replay.
LeavingStep(r) == ReauthFails(r) \/ ReauthAborted(r)

LEMMA LeavingFrame ==
    ASSUME NEW r \in Request, LeavingStep(r)
    PROVE  /\ Leave(r) /\ phase[r] = "reauth"
           /\ UNCHANGED <<kind, token, attempt, didReauth, aborted, dispatched, wire,
                          answers, effects, valid>>
           /\ phase' = [phase EXCEPT ![r] = "settled"]
           /\ \E o \in {"error", "abort", "othersAbort"} : outcome' = [outcome EXCEPT ![r] = o]
BY DEF LeavingStep, ReauthFails, ReauthAborted, Settle, serverVars

\* A dispatch: the first, the replay, or a retry.
SendingStep(r) == Call(r) \/ Replay(r) \/ Retry(r)

LEMMA SendingFrame ==
    ASSUME RetryTypeOK, NEW r \in Request, SendingStep(r)
    PROVE  \E t \in Token :
             /\ SendWith(r, t)
             /\ UNCHANGED <<kind, attempt, aborted, outcome, answers, effects, valid>>
             /\ \/ /\ phase[r] \in {"idle", "backoff"} /\ t \in {auth, token[r]}
                   /\ didReauth' = didReauth /\ UNCHANGED reauthVars
                \/ /\ phase[r] = "reauth" /\ Leave(r) /\ t = joined[r]
                   /\ refresh[t].result = "token"
                   /\ didReauth' = [didReauth EXCEPT ![r] = TRUE]
<1>1. auth \in Token /\ token[r] \in Token /\ joined[r] \in Token
  BY Numbers DEF RetryTypeOK, ReauthTypeOK, Token, Refresh, NoRefresh
<1>2. CASE Call(r)
  BY <1>1, <1>2 DEF Call, serverVars
<1>3. CASE Replay(r)
  BY <1>1, <1>3 DEF Replay, FreshToken, serverVars
<1>4. CASE Retry(r)
  BY <1>1, <1>4 DEF Retry, serverVars
<1> QED
  BY <1>2, <1>3, <1>4 DEF SendingStep

LEMMA ReauthorizeFrame ==
    ASSUME NEW r \in Request, Reauthorize(r)
    PROVE  /\ phase[r] = "sending" /\ CanReauth(r) /\ ~didReauth[r] /\ Answered(r, "expired")
           /\ Run(r) /\ phase' = [phase EXCEPT ![r] = "reauth"]
           /\ UNCHANGED <<kind, token, attempt, didReauth, aborted, outcome, dispatched, wire,
                          answers, effects, valid>>
BY DEF Reauthorize, NeedsReauth, serverVars

\* An answer of the server to the dispatch m.
AnswerStep(m) == ServerApplies(m) \/ ServerRefuses(m)

LEMMA AnswerFrame ==
    ASSUME NEW m \in wire, AnswerStep(m)
    PROVE  /\ UNCHANGED <<reauthVars, kind, phase, token, attempt, didReauth, outcome,
                          dispatched, aborted, valid>>
           /\ wire' = wire \ {m}
           /\ \E s \in Status :
                /\ answers' = answers \cup {[to |-> m, status |-> s]}
                /\ \/ s \notin {"expired", "throttled"} /\ Applies(m)
                   \/ effects' = effects
BY DEF AnswerStep, ServerApplies, ServerRefuses, Answer, sendVars, Status

\* The steps of the environment that no request sees at once.
OutsideStep == TokensExpire \/ (\E r \in Request : SignalAborts(r)) \/ UNCHANGED retryVars

LEMMA OutsideFrame ==
    ASSUME OutsideStep
    PROVE  /\ UNCHANGED <<reauthVars, kind, phase, token, attempt, didReauth, outcome,
                          dispatched, wire, answers, effects>>
           /\ RetryTypeOK => aborted' \in [Request -> BOOLEAN] /\ valid' \in SUBSET Token
<1> USE DEF sendVars, serverVars, retryVars
<1>1. CASE TokensExpire
  BY <1>1 DEF TokensExpire, RetryTypeOK
<1>2. CASE \E r \in Request : SignalAborts(r)
  BY <1>2 DEF SignalAborts, RetryTypeOK
<1>3. CASE UNCHANGED retryVars
  BY <1>3 DEF RetryTypeOK
<1> QED
  BY <1>1, <1>2, <1>3 DEF OutsideStep

\* Every step is one of these.
LEMMA Steps ==
    ASSUME [RetryNext]_retryVars
    PROVE  \/ \E r \in Request : \/ LocalStep(r) \/ LeavingStep(r) \/ SendingStep(r)
                                 \/ Reauthorize(r)
           \/ \E m \in wire : ~Draining /\ AnswerStep(m)
           \/ \E i \in Refresh : RefreshStep(i)
           \/ OutsideStep
BY DEF RetryNext, SendStep, ServerStep, LocalStep, LeavingStep, SendingStep, AnswerStep, OutsideStep

LEMMA RefreshFrame ==
    ASSUME RetryTypeOK, NEW i \in Refresh, RefreshStep(i)
    PROVE  /\ RefreshDone(i) \/ RefreshFails(i) \/ SlotClears(i)
           /\ UNCHANGED <<kind, phase, token, attempt, didReauth, outcome, dispatched,
                          aborted, wire, answers, effects>>
           /\ valid' \in SUBSET Token
BY Numbers DEF RefreshStep, sendVars, RetryTypeOK

\* Nothing but the coalescer's own operations touches its state.
LEMMA CoalescerStep == ASSUME IInv, [RetryNext]_retryVars PROVE CoalescerInv'
<1>1. CoalescerInv /\ FreshInv /\ RetryTypeOK
  BY DEF IInv, CoalescerInv, RetryTypeOK
<1>2. ASSUME UNCHANGED reauthVars PROVE CoalescerInv'
  BY <1>1, <1>2
  DEF CoalescerInv, ReauthTypeOK, OrderInv, TokenInv, WaiterInv, WaitingOn, Settled, reauthVars
<1>3. ASSUME NEW r \in Request, LocalStep(r) PROVE CoalescerInv'
  BY <1>1, <1>2, <1>3, LocalFrame
<1>4. ASSUME NEW r \in Request, phase[r] = "reauth", Leave(r) PROVE CoalescerInv'
  BY <1>1, <1>4, LeaveStep DEF FreshInv
<1>5. ASSUME NEW r \in Request, LeavingStep(r) PROVE CoalescerInv'
  BY <1>4, <1>5, LeavingFrame
<1>6. ASSUME NEW r \in Request, SendingStep(r) PROVE CoalescerInv'
  BY <1>1, <1>2, <1>4, <1>6, SendingFrame
<1>7. ASSUME NEW r \in Request, Reauthorize(r) PROVE CoalescerInv'
  <2>1. joined[r] = NoRefresh /\ Run(r)
    BY <1>1, <1>7, ReauthorizeFrame DEF FreshInv
  <2> QED
    BY <1>1, <2>1, JoinStep, StartStep DEF Run
<1>8. ASSUME NEW m \in wire, AnswerStep(m) PROVE CoalescerInv'
  BY <1>2, <1>8, AnswerFrame
<1>9. ASSUME NEW i \in Refresh, RefreshStep(i) PROVE CoalescerInv'
  BY <1>1, <1>9, RefreshFrame, RefreshWork
<1>10. ASSUME OutsideStep PROVE CoalescerInv'
  BY <1>2, <1>10, OutsideFrame
<1> QED
  BY <1>3, <1>5, <1>6, <1>7, <1>8, <1>9, <1>10, Steps

\* No request is dispatched more than MaxDispatch times.
LEMMA DispatchBound ==
    ASSUME RetryTypeOK, CountInv, NEW r \in Request
    PROVE  /\ dispatched[r] \in 0..MaxDispatch
           /\ phase[r] \in {"idle", "backoff", "reauth"} /\ (phase[r] = "reauth" => ~didReauth[r])
                => dispatched[r] + 1 \in 1..MaxDispatch
<1>1. /\ attempt[r] \in 0..MaxRetries /\ dispatched[r] \in Nat /\ MaxRetries \in Nat
      /\ Spent(r) \in {attempt[r], attempt[r] + 1}
      /\ ~didReauth[r] => Spent(r) = attempt[r]
  BY Numbers DEF RetryTypeOK, Spent, MaxDispatch
<1> QED
  BY <1>1 DEF RetryTypeOK, CountInv, MaxDispatch

LEMMA RetryTypeStep == ASSUME IInv, [RetryNext]_retryVars PROVE RetryTypeOK'
<1> USE DEF RetryTypeOK
<1>1. ReauthTypeOK' /\ RetryTypeOK /\ CountInv /\ FreshInv /\ EffectInv
  BY CoalescerStep DEF CoalescerInv, IInv
<1>2. ASSUME NEW r \in Request, LocalStep(r) PROVE RetryTypeOK'
  <2>1. phase' \in [Request -> {"idle", "sending", "backoff", "reauth", "settled"}]
    BY <1>1, <1>2, LocalFrame
  <2>2. attempt' \in [Request -> 0..MaxRetries]
    BY <1>1, <1>2, LocalFrame, Numbers
  <2>3. outcome' \in [Request -> {"none", "ok", "error", "abort", "othersAbort"}]
    BY <1>1, <1>2, LocalFrame
  <2> QED
    BY <1>1, <1>2, <2>1, <2>2, <2>3, LocalFrame
<1>3. ASSUME NEW r \in Request, LeavingStep(r) PROVE RetryTypeOK'
  <2>1. outcome' \in [Request -> {"none", "ok", "error", "abort", "othersAbort"}]
    BY <1>1, <1>3, LeavingFrame
  <2> QED
    BY <1>1, <1>3, <2>1, LeavingFrame
<1>4. ASSUME NEW r \in Request, SendingStep(r) PROVE RetryTypeOK'
  <2>1. PICK t \in Token :
          /\ SendWith(r, t)
          /\ UNCHANGED <<kind, attempt, aborted, outcome, answers, effects, valid>>
          /\ phase[r] \in {"idle", "backoff", "reauth"}
          /\ didReauth' = didReauth \/ didReauth' = [didReauth EXCEPT ![r] = TRUE]
    BY <1>1, <1>4, SendingFrame
  <2>2. dispatched[r] + 1 \in 1..MaxDispatch
    BY <1>1, <2>1, DispatchBound DEF FreshInv
  <2>3. [r |-> r, n |-> dispatched[r] + 1, token |-> t] \in Dispatch
    BY <2>2 DEF Dispatch
  <2>4. wire' \in SUBSET Dispatch
    BY <1>1, <2>1, <2>3 DEF SendWith
  <2>5. dispatched' \in [Request -> 0..MaxDispatch]
    BY <1>1, <2>1, <2>2, Numbers DEF SendWith, MaxDispatch
  <2>6. didReauth' \in [Request -> BOOLEAN]
    BY <1>1, <2>1
  <2> QED
    BY <1>1, <2>1, <2>4, <2>5, <2>6 DEF SendWith
<1>5. ASSUME NEW r \in Request, Reauthorize(r) PROVE RetryTypeOK'
  BY <1>1, <1>5, ReauthorizeFrame
<1>6. ASSUME NEW m \in wire, AnswerStep(m) PROVE RetryTypeOK'
  <2>1. PICK s \in Status :
          /\ answers' = answers \cup {[to |-> m, status |-> s]}
          /\ Applies(m) \/ effects' = effects
    BY <1>6, AnswerFrame
  <2>2. answers' \in SUBSET [to: Dispatch, status: Status]
    BY <1>1, <2>1
  <2>3. effects' \in [Request -> 0..MaxDispatch]
    <3>1. m \in OnWire(m.r) /\ m.r \in Request
      BY <1>1 DEF OnWire, Dispatch
    <3>2. IsFiniteSet(OnWire(m.r))
      BY <1>1, FS_Subset DEF OnWire, EffectInv
    <3>3. Cardinality(OnWire(m.r)) \in Nat /\ Cardinality(OnWire(m.r)) # 0
      BY <3>1, <3>2, FS_CardinalityType, FS_EmptySet
    <3>4. /\ effects[m.r] + Cardinality(OnWire(m.r)) <= dispatched[m.r]
          /\ dispatched[m.r] \in 0..MaxDispatch /\ effects[m.r] \in 0..MaxDispatch
          /\ MaxDispatch \in Nat
      BY <1>1, <3>1, Numbers DEF EffectInv, Potential, MaxDispatch
    <3>5. effects[m.r] + 1 \in 0..MaxDispatch
      BY <3>3, <3>4
    <3> QED
      BY <1>1, <2>1, <3>1, <3>5 DEF Applies
  <2> QED
    BY <1>1, <1>6, <2>2, <2>3, AnswerFrame
<1>7. ASSUME NEW i \in Refresh, RefreshStep(i) PROVE RetryTypeOK'
  BY <1>1, <1>7, RefreshFrame
<1>8. ASSUME OutsideStep PROVE RetryTypeOK'
  BY <1>1, <1>8, OutsideFrame
<1> QED
  BY <1>2, <1>3, <1>4, <1>5, <1>6, <1>7, <1>8, Steps

\* Tokens only come from the stored one, and a refresh is newer than those seen.
LEMMA FreshStep == ASSUME IInv, [RetryNext]_retryVars PROVE FreshInv'
<1>1. RetryTypeOK /\ TokenInv /\ FreshInv /\ CoalescerInv
  BY DEF IInv, CoalescerInv, RetryTypeOK
<1>types. /\ auth \in Nat /\ slot \in Nat /\ token \in [Request -> Token]
          /\ joined \in [Request -> Token]
          /\ phase \in [Request -> {"idle", "sending", "backoff", "reauth", "settled"}]
          /\ didReauth \in [Request -> BOOLEAN]
          /\ \A m \in wire : m.token \in Nat
          /\ \A a \in answers : a.to.token \in Nat
  <2>1. \A m \in Dispatch : m.token \in Nat
    BY Numbers DEF Dispatch
  <2>2. /\ wire \in SUBSET Dispatch
        /\ \A a \in answers : a.to \in Dispatch
    BY <1>1 DEF RetryTypeOK
  <2>3. /\ auth \in Nat /\ slot \in Nat /\ joined \in [Request -> Token]
    BY <1>1, Numbers DEF RetryTypeOK, ReauthTypeOK, Token, Refresh, NoRefresh
  <2> QED
    BY <1>1, <2>1, <2>2, <2>3 DEF RetryTypeOK
<1>2. ASSUME NEW r \in Request, LocalStep(r) PROVE FreshInv'
  BY <1>1, <1>2, <1>types, LocalFrame DEF FreshInv, reauthVars
<1>3. ASSUME NEW r \in Request, LeavingStep(r) PROVE FreshInv'
  <2>1. Leave(r) /\ phase[r] = "reauth" /\ joined[r] # NoRefresh
    BY <1>1, <1>3, LeavingFrame DEF FreshInv
  <2>2. UNCHANGED <<auth, slot>> /\ joined' = [joined EXCEPT ![r] = NoRefresh]
    BY <1>1, <2>1, LeaveStep
  <2> QED
    BY <1>1, <1>3, <1>types, <2>2, LeavingFrame DEF FreshInv
<1>4. ASSUME NEW r \in Request, SendingStep(r) PROVE FreshInv'
  <2>1. PICK t \in Token :
          /\ SendWith(r, t) /\ answers' = answers
          /\ \/ /\ phase[r] \in {"idle", "backoff"} /\ t \in {auth, token[r]}
                /\ didReauth' = didReauth /\ UNCHANGED reauthVars
             \/ /\ phase[r] = "reauth" /\ Leave(r) /\ t = joined[r]
                /\ refresh[t].result = "token"
                /\ didReauth' = [didReauth EXCEPT ![r] = TRUE]
    BY <1>1, <1>4, SendingFrame
  <2>2. /\ UNCHANGED <<auth, slot>> /\ joined'[r] = NoRefresh
        /\ \A q \in Request : q # r => joined'[q] = joined[q] /\ didReauth'[q] = didReauth[q]
    <3>1. CASE UNCHANGED reauthVars /\ phase[r] # "reauth" /\ didReauth' = didReauth
      BY <1>1, <3>1 DEF reauthVars, FreshInv
    <3>2. CASE /\ phase[r] = "reauth" /\ Leave(r)
               /\ didReauth' = [didReauth EXCEPT ![r] = TRUE]
      BY <1>1, <1>types, <3>2, LeaveStep DEF FreshInv
    <3> QED
      BY <2>1, <3>1, <3>2
  <2>3. t <= auth
    BY <1>1, <1>types, <2>1, Numbers DEF FreshInv, TokenInv
  <2>4. /\ token' = [token EXCEPT ![r] = t] /\ phase' = [phase EXCEPT ![r] = "sending"]
        /\ \A m \in wire' : m \in wire \/ m.token = t
    BY <2>1 DEF SendWith
  <2> QED
    BY <1>1, <1>types, <2>1, <2>2, <2>3, <2>4 DEF FreshInv
<1>5. ASSUME NEW r \in Request, Reauthorize(r) PROVE FreshInv'
  <2>1. /\ joined[r] = NoRefresh /\ Run(r) /\ ~didReauth[r]
        /\ phase' = [phase EXCEPT ![r] = "reauth"]
        /\ UNCHANGED <<token, didReauth, wire, answers>>
        /\ [to |-> Current(r), status |-> "expired"] \in answers
    BY <1>1, <1>5, ReauthorizeFrame DEF FreshInv, Answered
  <2>2. /\ auth' = auth /\ joined' = [joined EXCEPT ![r] = slot'] /\ slot' # NoRefresh
        /\ token[r] < slot' /\ \A a \in answers : a.to.token < slot'
    <3>1. CASE Join(r)
      <4>1. /\ slot # NoRefresh /\ UNCHANGED <<auth, slot>>
            /\ joined' = [joined EXCEPT ![r] = slot]
        BY <3>1 DEF Join
      <4>2. token[r] < slot
        BY <1>1, <2>1, <4>1 DEF FreshInv, Current
      <4> QED
        BY <1>1, <4>1, <4>2 DEF FreshInv
    <3>2. CASE slot = NoRefresh /\ StartRefresh(r)
      <4>1. /\ auth' = auth /\ slot' \in Refresh /\ auth < slot'
            /\ joined' = [joined EXCEPT ![r] = slot']
        BY <1>1, <2>1, <3>2, StartStep
      <4>2. token[r] \in Nat /\ token[r] <= auth
        BY <1>1, <1>types, Numbers DEF FreshInv
      <4> QED
        BY <1>1, <1>types, <4>1, <4>2, Numbers DEF FreshInv
    <3> QED
      BY <2>1, <3>1, <3>2 DEF Run
  <2> QED
    BY <1>1, <1>types, <2>1, <2>2 DEF FreshInv
<1>6. ASSUME NEW m \in wire, ~Draining, AnswerStep(m) PROVE FreshInv'
  <2>1. slot # NoRefresh => auth < slot
    BY <1>1, <1>6 DEF Draining, TokenInv
  <2>2. m.token <= auth /\ (slot # NoRefresh => m.token < slot)
    BY <1>1, <1>types, <2>1 DEF FreshInv
  <2> QED
    BY <1>1, <1>6, <2>2, AnswerFrame DEF FreshInv, reauthVars
<1>7. ASSUME NEW i \in Refresh, RefreshStep(i) PROVE FreshInv'
  <2>1. /\ auth' \in Nat /\ auth <= auth' /\ joined' = joined
        /\ slot' = slot \/ slot' = NoRefresh
    BY <1>1, <1>7, <1>types, RefreshFrame, RefreshWork, Numbers
  <2>2. \A r \in Request : token[r] \in Nat
    BY <1>types, Numbers
  <2> QED
    BY <1>1, <1>7, <1>types, <2>1, <2>2, RefreshFrame DEF FreshInv
<1>8. ASSUME OutsideStep PROVE FreshInv'
  BY <1>1, <1>8, OutsideFrame DEF FreshInv, reauthVars
<1> QED
  BY <1>2, <1>3, <1>4, <1>5, <1>6, <1>7, <1>8, Steps

\* The number of dispatches is what attempt and didReauth say.
LEMMA CountStep == ASSUME IInv, [RetryNext]_retryVars PROVE CountInv'
<1>1. RetryTypeOK /\ CountInv /\ FreshInv
  BY DEF IInv
<1>types. /\ attempt \in [Request -> Nat] /\ dispatched \in [Request -> Nat]
          /\ didReauth \in [Request -> BOOLEAN]
          /\ phase \in [Request -> {"idle", "sending", "backoff", "reauth", "settled"}]
          /\ \A m \in wire : m.r \in Request /\ m.n \in Nat
          /\ \A a \in answers : a.to.r \in Request /\ a.to.n \in Nat
  BY <1>1, Numbers DEF RetryTypeOK, Dispatch, MaxDispatch
<1>2. ASSUME NEW r \in Request, LocalStep(r) PROVE CountInv'
  BY <1>1, <1>2, <1>types, LocalFrame DEF CountInv, Spent
<1>3. ASSUME NEW r \in Request, LeavingStep(r) PROVE CountInv'
  BY <1>1, <1>3, <1>types, LeavingFrame DEF CountInv, Spent
<1>4. ASSUME NEW r \in Request, SendingStep(r) PROVE CountInv'
  <2>1. /\ dispatched' = [dispatched EXCEPT ![r] = dispatched[r] + 1]
        /\ phase' = [phase EXCEPT ![r] = "sending"] /\ attempt' = attempt
        /\ answers' = answers
        /\ \A m \in wire' : m \in wire \/ (m.r = r /\ m.n = dispatched[r] + 1)
        /\ \/ phase[r] \in {"idle", "backoff"} /\ didReauth' = didReauth
           \/ phase[r] = "reauth" /\ didReauth' = [didReauth EXCEPT ![r] = TRUE]
    BY <1>1, <1>4, SendingFrame DEF SendWith
  <2>2. ASSUME NEW q \in Request
        PROVE  /\ phase'[q] = "idle" => dispatched'[q] = 0
               /\ phase'[q] \in {"sending", "reauth"} => dispatched'[q] = Spent(q)' + 1
               /\ phase'[q] \in {"idle", "backoff"} => dispatched'[q] = Spent(q)'
               /\ dispatched'[q] <= Spent(q)' + 1
    <3>1. CASE q = r
      <4>1. Spent(r) \in Nat /\ (phase[r] = "reauth" => Spent(r)' = Spent(r) + 1)
                             /\ (phase[r] # "reauth" => Spent(r)' = Spent(r))
        BY <1>1, <1>types, <2>1 DEF FreshInv, Spent
      <4>2. dispatched'[r] = Spent(r)' + 1
        BY <1>1, <1>types, <2>1, <4>1 DEF CountInv
      <4> QED
        BY <3>1, <2>1, <1>types, <4>1, <4>2
    <3>2. CASE q # r
      BY <1>1, <1>types, <2>1, <3>2 DEF CountInv, Spent
    <3> QED
      BY <3>1, <3>2
  <2>3. /\ \A m \in wire' : m.n <= dispatched'[m.r]
        /\ \A a \in answers' : a.to.n <= dispatched'[a.to.r]
    BY <1>1, <1>types, <2>1 DEF CountInv
  <2> QED
    BY <2>2, <2>3 DEF CountInv
<1>5. ASSUME NEW r \in Request, Reauthorize(r) PROVE CountInv'
  BY <1>1, <1>5, <1>types, ReauthorizeFrame DEF CountInv, Spent
<1>6. ASSUME NEW m \in wire, AnswerStep(m) PROVE CountInv'
  BY <1>1, <1>6, AnswerFrame DEF CountInv, Spent
<1>7. ASSUME NEW i \in Refresh, RefreshStep(i) PROVE CountInv'
  BY <1>1, <1>7, RefreshFrame DEF CountInv, Spent
<1>8. ASSUME OutsideStep PROVE CountInv'
  BY <1>1, <1>8, OutsideFrame DEF CountInv, Spent
<1> QED
  BY <1>2, <1>3, <1>4, <1>5, <1>6, <1>7, <1>8, Steps

\* The dispatches of one request that are on the wire are finitely many.
LEMMA OnWireFinite ==
    ASSUME IsFiniteSet(wire), NEW r
    PROVE  IsFiniteSet(OnWire(r)) /\ Cardinality(OnWire(r)) \in Nat
BY FS_Subset, FS_CardinalityType DEF OnWire

\* A dispatch may be applied once, and concerns no other request.
LEMMA SendPotential ==
    ASSUME RetryTypeOK, IsFiniteSet(wire), NEW r \in Request, NEW t, SendWith(r, t), effects' = effects
    PROVE  /\ IsFiniteSet(wire')
           /\ Potential(r)' <= Potential(r) + 1 /\ Potential(r)' \in Nat
           /\ \A q \in Request : q # r => Potential(q)' = Potential(q)
<1>1. PICK d : d.r = r /\ wire' = wire \cup {d}
  BY DEF SendWith
<1>2. /\ OnWire(r)' = OnWire(r) \cup {d}
      /\ \A q \in Request : q # r => OnWire(q)' = OnWire(q)
  BY <1>1 DEF OnWire
<1>3. /\ IsFiniteSet(OnWire(r)) /\ Cardinality(OnWire(r)) \in Nat
  BY OnWireFinite
<1>4. Cardinality(OnWire(r)') \in {Cardinality(OnWire(r)), Cardinality(OnWire(r)) + 1}
  BY <1>2, <1>3, FS_AddElement
<1>5. effects[r] \in Nat
  BY Numbers DEF RetryTypeOK, MaxDispatch
<1>6. IsFiniteSet(wire')
  BY <1>1, FS_AddElement
<1> QED
  BY <1>2, <1>3, <1>4, <1>5, <1>6 DEF Potential

\* An answer settles whether its dispatch was applied.
LEMMA AnswerPotential ==
    ASSUME RetryTypeOK, IsFiniteSet(wire), NEW m \in wire, wire' = wire \ {m},
           Applies(m) \/ effects' = effects
    PROVE  /\ IsFiniteSet(wire') /\ m.r \in Request
           /\ \A q \in Request : Potential(q) \in Nat /\ Potential(q)' \in Nat
                                 /\ Potential(q)' <= Potential(q)
           /\ effects' = effects => Potential(m.r)' = Potential(m.r) - 1
<1>1. /\ m.r \in Request /\ effects \in [Request -> Nat]
  BY Numbers DEF RetryTypeOK, MaxDispatch, Dispatch
<1>2. /\ OnWire(m.r)' = OnWire(m.r) \ {m} /\ m \in OnWire(m.r)
      /\ \A q \in Request : q # m.r => OnWire(q)' = OnWire(q)
  <2>1. \A q \in Request : OnWire(q)' = {x \in wire \ {m} : x.r = q}
    BY DEF OnWire
  <2> QED
    BY <1>1, <2>1 DEF OnWire
<1>3. \A q \in Request : IsFiniteSet(OnWire(q)) /\ Cardinality(OnWire(q)) \in Nat
  BY OnWireFinite
<1>4. Cardinality(OnWire(m.r) \ {m}) = Cardinality(OnWire(m.r)) - 1
  BY <1>1, <1>2, <1>3, FS_RemoveElement
<1>5. IsFiniteSet(wire') /\ IsFiniteSet(OnWire(m.r) \ {m})
  BY <1>1, <1>3, FS_RemoveElement
<1>6. Cardinality(OnWire(m.r) \ {m}) \in Nat
  BY <1>5, FS_CardinalityType
<1>7. ASSUME NEW q \in Request
      PROVE  Potential(q) \in Nat /\ Potential(q)' \in Nat /\ Potential(q)' <= Potential(q)
  <2>1. CASE q = m.r
    <3>1. Cardinality(OnWire(q)') = Cardinality(OnWire(q)) - 1
      BY <1>2, <1>4, <2>1
    <3>2. Cardinality(OnWire(q)) - 1 \in Nat /\ Cardinality(OnWire(q)) \in Nat
      BY <1>3, <1>4, <1>6, <2>1
    <3>3. effects'[q] \in {effects[q], effects[q] + 1} /\ effects[q] \in Nat
      BY <1>1, <2>1 DEF Applies
    <3> QED
      BY <3>1, <3>2, <3>3 DEF Potential
  <2>2. CASE q # m.r
    <3>1. effects'[q] = effects[q] /\ effects[q] \in Nat
      BY <1>1, <2>2 DEF Applies
    <3> QED
      BY <1>2, <1>3, <2>2, <3>1 DEF Potential
  <2> QED
    BY <2>1, <2>2
<1>8. ASSUME effects' = effects PROVE Potential(m.r)' = Potential(m.r) - 1
  <2>1. Cardinality(OnWire(m.r)') = Cardinality(OnWire(m.r)) - 1
    BY <1>2, <1>4
  <2>2. effects[m.r] \in Nat /\ Cardinality(OnWire(m.r)) \in Nat /\ m' = m
    BY <1>1, <1>3
  <2> QED
    BY <1>8, <2>1, <2>2 DEF Potential
<1> QED
  BY <1>1, <1>5, <1>7, <1>8

\* No request that must not be replayed is dispatched again while the server may have
\* applied it.
LEMMA EffectStep == ASSUME IInv, [RetryNext]_retryVars PROVE EffectInv'
<1>1. RetryTypeOK /\ CountInv /\ FreshInv /\ EffectInv
  BY DEF IInv
<1>types. /\ \A r \in Request : Potential(r) \in Nat /\ dispatched[r] \in Nat
          /\ phase \in [Request -> {"idle", "sending", "backoff", "reauth", "settled"}]
          /\ \A a \in answers : a.to.r \in Request /\ a.to.n \in Nat
  <2>1. \A r \in Request : effects[r] \in Nat /\ Cardinality(OnWire(r)) \in Nat
    BY <1>1, OnWireFinite, Numbers DEF RetryTypeOK, MaxDispatch, EffectInv
  <2>2. \A a \in answers : a.to \in Dispatch
    BY <1>1 DEF RetryTypeOK
  <2> QED
    BY <1>1, <2>1, <2>2, Numbers DEF Potential, RetryTypeOK, MaxDispatch, Dispatch
<1>same. ASSUME UNCHANGED <<kind, dispatched, wire, effects, answers>>,
                \A r \in Request : phase'[r] = phase[r] \/ phase'[r] \notin {"backoff", "reauth"}
                                   \/ (ReplayUnsafe(r) => Potential(r) = 0)
         PROVE  EffectInv'
  BY <1>1, <1>types, <1>same DEF EffectInv, Potential, OnWire, ReplayUnsafe
<1>answered. ASSUME NEW r \in Request, ReplayUnsafe(r),
                    Answered(r, "expired") \/ Answered(r, "throttled")
             PROVE  Potential(r) = 0
  BY <1>1, <1>answered DEF EffectInv, Answered, Current
<1>2. ASSUME NEW r \in Request, LocalStep(r) PROVE EffectInv'
  BY <1>1, <1>2, <1>same, <1>answered, <1>types, LocalFrame
<1>3. ASSUME NEW r \in Request, LeavingStep(r) PROVE EffectInv'
  BY <1>3, <1>same, <1>types, LeavingFrame
<1>4. ASSUME NEW r \in Request, SendingStep(r) PROVE EffectInv'
  <2>1. PICK t \in Token :
          /\ SendWith(r, t) /\ phase[r] \in {"idle", "backoff", "reauth"}
          /\ UNCHANGED <<kind, answers, effects>>
    BY <1>1, <1>4, SendingFrame
  <2>2. /\ dispatched' = [dispatched EXCEPT ![r] = dispatched[r] + 1]
        /\ phase' = [phase EXCEPT ![r] = "sending"]
        /\ \A q \in Request : ReplayUnsafe(q)' = ReplayUnsafe(q)
    BY <2>1 DEF SendWith, ReplayUnsafe
  <2>3. /\ IsFiniteSet(wire')
        /\ Potential(r)' <= Potential(r) + 1 /\ Potential(r)' \in Nat
        /\ \A q \in Request : q # r => Potential(q)' = Potential(q)
    BY <1>1, <2>1, SendPotential DEF EffectInv
  <2>4. ReplayUnsafe(r) => Potential(r) = 0
    BY <1>1, <1>types, <2>1 DEF EffectInv, CountInv
  <2>5. ASSUME NEW q \in Request
        PROVE  /\ Potential(q)' <= dispatched'[q]
               /\ ReplayUnsafe(q)' =>
                    /\ Potential(q)' <= 1
                    /\ phase'[q] \in {"backoff", "reauth"} => Potential(q)' = 0
    BY <1>1, <1>types, <2>2, <2>3, <2>4 DEF EffectInv, RetryTypeOK
  <2>6. ASSUME NEW a \in answers, ReplayUnsafe(a.to.r), a.to.n = dispatched'[a.to.r],
               a.status \in {"expired", "throttled"}
        PROVE  Potential(a.to.r)' = 0
    <3>1. a.to.r # r
      BY <1>1, <1>types, <2>2, <2>6 DEF CountInv, RetryTypeOK
    <3>2. a.to.r \in Request /\ dispatched'[a.to.r] = dispatched[a.to.r]
      BY <1>1, <1>types, <2>2, <3>1 DEF RetryTypeOK
    <3>3. Potential(a.to.r) = 0
      BY <1>1, <2>6, <3>2 DEF EffectInv
    <3>4. \A q \in Request : q # r => Potential(q)' = Potential(q)
      BY <2>3
    <3> HIDE DEF Potential
    <3> QED
      BY <3>1, <3>2, <3>3, <3>4
  <2> QED
    BY <1>types, <2>1, <2>2, <2>3, <2>5, <2>6 DEF EffectInv
<1>5. ASSUME NEW r \in Request, Reauthorize(r) PROVE EffectInv'
  BY <1>5, <1>same, <1>answered, <1>types, ReauthorizeFrame
<1>6. ASSUME NEW m \in wire, AnswerStep(m) PROVE EffectInv'
  <2>1. PICK s \in Status :
          /\ answers' = answers \cup {[to |-> m, status |-> s]}
          /\ Applies(m) \/ effects' = effects
          /\ s \in {"expired", "throttled"} => effects' = effects
    BY <1>6, AnswerFrame
  <2>2. /\ wire' = wire \ {m} /\ UNCHANGED <<kind, phase, dispatched>>
    BY <1>6, AnswerFrame
  <2>3. /\ IsFiniteSet(wire') /\ m.r \in Request
        /\ \A q \in Request : Potential(q) \in Nat /\ Potential(q)' \in Nat
                              /\ Potential(q)' <= Potential(q)
        /\ effects' = effects => Potential(m.r)' = Potential(m.r) - 1
    BY <1>1, <2>1, <2>2, AnswerPotential DEF EffectInv
  <2>4. ASSUME NEW q \in Request
        PROVE  /\ Potential(q)' <= dispatched'[q]
               /\ ReplayUnsafe(q)' =>
                    /\ Potential(q)' <= 1
                    /\ phase'[q] \in {"backoff", "reauth"} => Potential(q)' = 0
    BY <1>1, <1>types, <2>2, <2>3 DEF EffectInv, ReplayUnsafe
  <2>5. ASSUME NEW a \in answers', ReplayUnsafe(a.to.r)', a.to.n = dispatched'[a.to.r],
               a.status \in {"expired", "throttled"}
        PROVE  Potential(a.to.r)' = 0
    <3>1. CASE a \in answers
      BY <1>1, <1>types, <2>2, <2>3, <2>5, <3>1 DEF EffectInv, ReplayUnsafe
    <3>2. CASE a = [to |-> m, status |-> s]
      <4>1. /\ a.to.r = m.r /\ ReplayUnsafe(m.r) /\ effects' = effects
        BY <2>1, <2>2, <2>5, <3>2 DEF ReplayUnsafe
      <4>2. Potential(m.r) <= 1
        BY <1>1, <2>3, <4>1 DEF EffectInv
      <4> QED
        BY <2>3, <4>1, <4>2
    <3> QED
      BY <2>1, <3>1, <3>2
  <2> QED
    BY <2>3, <2>4, <2>5 DEF EffectInv
<1>7. ASSUME NEW i \in Refresh, RefreshStep(i) PROVE EffectInv'
  BY <1>1, <1>7, <1>same, RefreshFrame
<1>8. ASSUME OutsideStep PROVE EffectInv'
  BY <1>8, <1>same, OutsideFrame
<1> QED
  BY <1>2, <1>3, <1>4, <1>5, <1>6, <1>7, <1>8, Steps

LEMMA InitIInv == ASSUME RetryInit PROVE IInv
<1> USE Numbers, KindAssumption DEF RetryInit, ReauthInit
<1>1. ReauthTypeOK
  BY DEF ReauthTypeOK, RefreshRecord, Token
<1>2. RetryTypeOK
  BY <1>1 DEF RetryTypeOK, Token, MaxDispatch
<1>3. OrderInv
  BY DEF OrderInv, NoRefresh, Settled
<1>4. TokenInv
  BY DEF TokenInv, NoRefresh
<1>5. WaiterInv
  <2>1. \A i \in Refresh : WaitingOn(i) = {}
    BY DEF WaitingOn, NoRefresh
  <2> QED
    BY <2>1, FS_EmptySet DEF WaiterInv
<1>6. FreshInv /\ CountInv
  BY DEF FreshInv, CountInv, Spent
<1>7. EffectInv
  <2>1. \A r \in Request : Cardinality(OnWire(r)) = 0
    BY FS_EmptySet DEF OnWire
  <2> QED
    BY <2>1, FS_EmptySet DEF EffectInv, Potential
<1> QED
  BY <1>2, <1>3, <1>4, <1>5, <1>6, <1>7 DEF IInv

\* The inductive invariant holds in every reachable state.
THEOREM Invariance == RetrySpec => []IInv
<1>1. ASSUME IInv, [RetryNext]_retryVars PROVE IInv'
  BY <1>1, RetryTypeStep, CoalescerStep, FreshStep, CountStep, EffectStep DEF IInv, CoalescerInv
<1> QED
  BY InitIInv, <1>1, PTL DEF RetrySpec

\* Every variable keeps its type; in particular no request is dispatched more often
\* than maxRetries allows, but for the one replay after a reauthorization.
THEOREM RetryTypeCorrect == RetrySpec => []RetryTypeOK
<1>1. ASSUME IInv PROVE RetryTypeOK
  BY <1>1 DEF IInv
<1> QED
  BY <1>1, Invariance, PTL

\* The server applies a request that isReplayUnsafeRequest names at most once, whatever
\* is lost, late, throttled or answered with an expired token.
THEOREM AppliedOnce == RetrySpec => []AppliedAtMostOnce
<1>1. ASSUME IInv PROVE AppliedAtMostOnce
  <2>1. SUFFICES ASSUME NEW r \in Request, ReplayUnsafe(r) PROVE effects[r] <= 1
    BY DEF AppliedAtMostOnce
  <2>2. Potential(r) <= 1 /\ IsFiniteSet(wire) /\ effects[r] \in Nat
    BY <1>1, <2>1, Numbers DEF IInv, EffectInv, RetryTypeOK, MaxDispatch
  <2>3. Cardinality(OnWire(r)) \in Nat
    BY <2>2, OnWireFinite
  <2> QED
    BY <2>2, <2>3 DEF Potential
<1> QED
  BY <1>1, Invariance, PTL

\* The coalescer never has two refreshes that could both store a token.
THEOREM OneRefresh == RetrySpec => []OneLiveRefresh
<1>1. ASSUME IInv PROVE OneLiveRefresh
  BY <1>1 DEF IInv, OrderInv, OneLiveRefresh
<1> QED
  BY <1>1, Invariance, PTL

\* authorize() never replaces the stored token by an older one, even when an aborted
\* refresh answers late.
THEOREM AuthMonotone == RetrySpec => AuthNeverGoesBack
<1>1. ASSUME IInv, [RetryNext]_retryVars PROVE auth' >= auth
  <2>1. CoalescerInv /\ RetryTypeOK /\ FreshInv /\ auth \in Nat
    BY <1>1, Numbers DEF IInv, CoalescerInv, RetryTypeOK, ReauthTypeOK
  <2>2. ASSUME NEW i \in Refresh, RefreshStep(i) PROVE auth' >= auth
    BY <2>1, <2>2, RefreshFrame, RefreshWork, Numbers
  <2>3. ASSUME NEW r \in Request, Leave(r) \/ Run(r) \/ UNCHANGED reauthVars
        PROVE  auth' = auth
    BY <2>3 DEF Leave, Run, Join, StartRefresh, reauthVars
  <2>4. ASSUME NEW r \in Request,
               \/ LocalStep(r) \/ LeavingStep(r) \/ SendingStep(r) \/ Reauthorize(r)
        PROVE  auth' = auth
    BY <2>1, <2>3, <2>4, LocalFrame, LeavingFrame, SendingFrame, ReauthorizeFrame
  <2>5. ASSUME (\E m \in wire : AnswerStep(m)) \/ OutsideStep PROVE auth' = auth
    BY <2>5, AnswerFrame, OutsideFrame DEF reauthVars
  <2> QED
    BY <1>1, <2>1, <2>2, <2>4, <2>5, Steps
<1> QED
  BY <1>1, Invariance, PTL DEF RetrySpec, AuthNeverGoesBack

\* The Authorization header of the replay is newer than the one that expired.
THEOREM FreshReplay == RetrySpec => ReplayIsFresh
<1>1. ASSUME IInv, [RetryNext]_retryVars, NEW r \in Request, didReauth'[r], ~didReauth[r]
      PROVE  token'[r] > token[r]
  <2>1. RetryTypeOK /\ FreshInv
    BY <1>1 DEF IInv
  <2>2. didReauth' # didReauth
    BY <1>1
  <2>3. PICK q \in Request : SendingStep(q)
    BY <1>1, <2>1, <2>2, Steps, LocalFrame, LeavingFrame, ReauthorizeFrame, AnswerFrame,
       RefreshFrame, OutsideFrame
  <2>4. PICK t \in Token :
          /\ SendWith(q, t) /\ phase[q] = "reauth" /\ t = joined[q]
          /\ didReauth' = [didReauth EXCEPT ![q] = TRUE]
    BY <2>1, <2>2, <2>3, SendingFrame
  <2>5. q = r
    BY <1>1, <2>1, <2>4 DEF RetryTypeOK
  <2>6. token'[r] = joined[r] /\ token[r] < joined[r] /\ token[r] \in Nat /\ joined[r] \in Nat
    BY <2>1, <2>4, <2>5, Numbers DEF FreshInv, SendWith, RetryTypeOK
  <2> QED
    BY <2>6
<1>2. IInv /\ [RetryNext]_retryVars =>
        \A r \in Request : didReauth'[r] /\ ~didReauth[r] => token'[r] > token[r]
  BY <1>1
<1> QED
  BY <1>2, Invariance, PTL DEF RetrySpec, ReplayIsFresh

\* Neither the stored token nor that of a replay ever falls back behind one that expired.
THEOREM TokensAdvancing == RetrySpec => TokensAdvance
<1> QED
  BY FreshReplay, AuthMonotone DEF TokensAdvance

\* The coalescer aborts a refresh only when the last request that waited for it has left.
THEOREM LastAborts == RetrySpec => LastWaiterAborts
<1>1. ASSUME IInv, [RetryNext]_retryVars, NEW i \in Refresh, refresh'[i].aborted, ~refresh[i].aborted,
             NEW r \in Request
      PROVE  joined'[r] # i
  <2>1. CoalescerInv /\ RetryTypeOK /\ FreshInv
    BY <1>1 DEF IInv, CoalescerInv, RetryTypeOK
  <2>2. ASSUME NEW q \in Request, phase[q] = "reauth", Leave(q) PROVE joined'[r] # i
    BY <1>1, <2>1, <2>2, LeaveStep DEF FreshInv
  <2>3. ASSUME NEW q \in Request, Run(q) PROVE FALSE
    <3>1. refresh \in [Refresh -> RefreshRecord]
      BY <2>1 DEF RetryTypeOK, ReauthTypeOK
    <3>2. CASE Join(q)
      BY <1>1, <3>2 DEF Join
    <3>3. CASE StartRefresh(q)
      <4>1. PICK j \in Refresh : refresh' = [refresh EXCEPT ![j].work = "running"]
        BY <3>3 DEF StartRefresh
      <4>2. refresh'[i].aborted = refresh[i].aborted
        BY <3>1, <4>1 DEF RefreshRecord
      <4> QED
        BY <1>1, <4>2
    <3> QED
      BY <2>3, <3>2, <3>3 DEF Run
  <2>4. ASSUME NEW j \in Refresh, RefreshStep(j) PROVE FALSE
    BY <1>1, <2>1, <2>4, RefreshFrame, RefreshWork
  <2>5. refresh' # refresh
    BY <1>1
  <2> QED
    BY <1>1, <2>1, <2>2, <2>3, <2>4, <2>5, Steps, LocalFrame, LeavingFrame, SendingFrame,
       ReauthorizeFrame, AnswerFrame, OutsideFrame DEF reauthVars
<1>2. IInv /\ [RetryNext]_retryVars =>
        \A i \in Refresh : refresh'[i].aborted /\ ~refresh[i].aborted =>
          \A r \in Request : joined'[r] # i
  BY <1>1
<1> QED
  BY <1>2, Invariance, PTL DEF RetrySpec, LastWaiterAborts

-----------------------------------------------------------------------------
(* FetchTransport.  AccountInv is inductive: a file, a temporary file      *)
(* and a write that are labelled with a key hold an authorization of that  *)
(* key (OwnLabels), which rests on every queued write being of the client  *)
(* that is bound (QueueOfClient); and the write at the head of the queue   *)
(* is followed from its contents to the file (WriteInv).                   *)
(*                                                                         *)
(* Then the client on top of the store: ClientInv follows the suffixes the *)
(* guard is locked to (LockedInv) from the authorization they were derived *)
(* from, and the one exchange through its scope, its body and its          *)
(* redirects.                                                              *)

\* Every process constructs one client on its store; account_rebind shows what happens
\* when it constructs two.
OneClientEach == \A p \in Process : \A c, d \in ClientsOf[p] : c = d

\* A bound client is the process's own, and only a running process has one.
Bound == \A p \in Process : client[p] \subseteq ClientsOf[p] /\ (~running[p] => client[p] = {})

\* What is labelled with a key was issued for it.
Labelled(x) == x \in Cache => x.key \in {Unlabelled, x.auth.key}

OwnLabels ==
    /\ Labelled(disk)
    /\ \A p \in Process : Labelled(temp[p]) /\ Labelled(contents[p]) /\ Labelled(held[p])

\* What waits to be written was issued to the client that is bound.
QueueOfClient ==
    \A p \in Process : \A i \in DOMAIN writeQueue[p] :
        writeQueue[p][i] # NoAuth => \E c \in client[p] : writeQueue[p][i].key = KeyOf[c]

\* x is what a write of authz leaves in a file.
Holds(x, authz) == IF authz = NoAuth THEN x = Unreadable ELSE x \in Cache /\ x.auth = authz

\* The write of a process, from the head of its queue to the file.
WriteInv ==
    \A p \in Process :
        /\ writeQueue[p] # <<>> => lastSet[p] = writeQueue[p][Len(writeQueue[p])]
        /\ writing[p] # "idle" =>
               running[p] /\ writeQueue[p] # <<>> /\ Holds(contents[p], writeQueue[p][1])
        /\ writing[p] = "written" => temp[p] = contents[p]
        /\ writing[p] = "renamed" /\ p \in lastWriter => disk = contents[p]
        /\ writeQueue[p] = <<>> /\ p \in lastWriter /\ ~lost[p] => Holds(disk, lastSet[p])

SafeInv == TypeOK /\ Bound /\ WriteInv /\ DiskIsWhole
OwnInv  == OwnLabels /\ QueueOfClient /\ OwnAuthOnly
AccountInv    == SafeInv /\ OwnInv

-----------------------------------------------------------------------------
(* Records and queues.                                                     *)

LEMMA CacheShape ==
    ASSUME NEW x \in Cache
    PROVE  /\ x.auth \in Auth /\ x.auth # NoAuth /\ x # Nothing
           /\ x \notin {Unreadable, Missing, Torn}
BY MarkersAssumption DEF MarkersApart, Cache, Nothing

LEMMA IssuedIsAuth ==
    ASSUME NEW c \in Client, NEW n \in 0..MaxAuths,
           NEW a, a = [key |-> KeyOf[c], realm |-> RealmOf[c], serial |-> n]
    PROVE  /\ a \in Auth /\ a # NoAuth
           /\ [auth |-> a, realm |-> RealmOf[c], key |-> KeyOf[c]] \in Cache
<1>1. KeyOf[c] \in Key /\ RealmOf[c] \in Realm
  BY DEF Key, Realm
<1>2. a \in Auth
  BY <1>1 DEF Auth
<1> QED
  BY <1>1, <1>2, MarkersAssumption DEF Cache, MarkersApart

\* What the head of a queue leaves in a file.
LEMMA ContentsShape ==
    ASSUME TypeOK, NEW p \in Process, writeQueue[p] # <<>>
    PROVE  Contents(p) \in Cache \cup {Unreadable} /\ Holds(Contents(p), writeQueue[p][1])
<1> DEFINE authz == writeQueue[p][1]
           x == [auth  |-> authz,
                 realm |-> IF client[p] = {} THEN Unlabelled ELSE RealmOf[CHOOSE c \in client[p] : TRUE],
                 key   |-> IF client[p] = {} THEN Unlabelled ELSE KeyOf[CHOOSE c \in client[p] : TRUE]]
<1>1. writeQueue[p] \in Seq(Auth \cup {NoAuth})
  BY DEF TypeOK
<1>2. Head(writeQueue[p]) = authz /\ authz \in Auth \cup {NoAuth}
  BY <1>1
<1>3. x.realm \in Realm \cup {Unlabelled} /\ x.key \in Key \cup {Unlabelled}
  <2>1. client[p] \subseteq Client
    BY DEF TypeOK
  <2> QED
    BY <2>1 DEF Key, Realm
<1>4. Contents(p) = IF authz = NoAuth THEN Unreadable ELSE x
  BY <1>2 DEF Contents
<1>5. authz # NoAuth => x \in Cache /\ x.auth = authz
  BY <1>2, <1>3 DEF Cache
<1> QED
  BY <1>4, <1>5 DEF Holds

LEMMA AppendFacts ==
    ASSUME NEW S, NEW s \in Seq(S), NEW e \in S, NEW t, t = Append(s, e)
    PROVE  /\ t \in Seq(S) /\ t # <<>> /\ t[Len(t)] = e
           /\ \A i \in DOMAIN t : t[i] = e \/ (i \in DOMAIN s /\ t[i] = s[i])
           /\ s # <<>> => t[1] = s[1]
OBVIOUS

LEMMA TailFacts ==
    ASSUME NEW S, NEW s \in Seq(S), s # <<>>, NEW t, t = Tail(s)
    PROVE  /\ t \in Seq(S)
           /\ \A i \in DOMAIN t : i + 1 \in DOMAIN s /\ t[i] = s[i + 1]
           /\ t # <<>> => t[Len(t)] = s[Len(s)]
           /\ t = <<>> => Len(s) = 1
<1>1. /\ t \in Seq(S) /\ Len(t) = Len(s) - 1
      /\ \A i \in 1..Len(t) : t[i] = s[i + 1]
  OBVIOUS
<1>2. DOMAIN t = 1..Len(t) /\ DOMAIN s = 1..Len(s) /\ Len(s) \in Nat \ {0}
  BY <1>1
<1>3. ASSUME t # <<>> PROVE t[Len(t)] = s[Len(s)]
  <2>1. Len(t) \in 1..Len(t) /\ Len(t) + 1 = Len(s)
    BY <1>1, <1>2, <1>3
  <2> QED
    BY <1>1, <2>1
<1>4. ASSUME t = <<>> PROVE Len(s) = 1
  <2>1. Len(<<>>) = 0
    OBVIOUS
  <2>2. Len(t) = 0
    BY <1>4, <2>1, Zenon
  <2> QED
    BY <1>1, <1>2, <2>2
<1>5. \A i \in DOMAIN t : i + 1 \in DOMAIN s /\ t[i] = s[i + 1]
  BY <1>1, <1>2
<1> QED
  BY <1>1, <1>3, <1>4, <1>5

-----------------------------------------------------------------------------
(* One lemma for each part of the invariant.                               *)

LEMMA InitInv == Init => AccountInv
<1> SUFFICES ASSUME Init PROVE AccountInv
  OBVIOUS
<1>1. ASSUME NEW x \in InitialCache
      PROVE  x \in Cache /\ Labelled(x)
  <2>1. PICK c \in Client : \E k \in {KeyOf[c], Unlabelled}, r \in {RealmOf[c], Unlabelled} :
          x = [auth |-> [key |-> KeyOf[c], realm |-> RealmOf[c], serial |-> 0], realm |-> r, key |-> k]
    BY DEF InitialCache
  <2>2. KeyOf[c] \in Key /\ RealmOf[c] \in Realm /\ 0 \in 0..MaxAuths
    BY MaxAuthsAssumption DEF Key, Realm
  <2> QED
    BY <2>1, <2>2 DEF Cache, Auth, Labelled
<1>2. TypeOK
  BY <1>1, MaxAuthsAssumption DEF Init, TypeOK
<1>3. Bound /\ QueueOfClient /\ OwnAuthOnly
  BY DEF Init, Bound, QueueOfClient, OwnAuthOnly
<1>4. /\ Unreadable \notin Cache /\ Missing \notin Cache /\ Nothing \notin Cache
      /\ Torn \notin Cache /\ Torn \notin {Unreadable, Missing}
  BY CacheShape, MarkersAssumption DEF MarkersApart
<1>5. OwnLabels
  BY <1>1, <1>4 DEF Init, OwnLabels, Labelled
<1>6. WriteInv /\ DiskIsWhole
  BY <1>1, <1>4 DEF Init, WriteInv, DiskIsWhole
<1> QED
  BY <1>2, <1>3, <1>5, <1>6 DEF AccountInv, SafeInv, OwnInv

LEMMA TypeStep == SafeInv /\ [Next]_vars => TypeOK'
<1> SUFFICES ASSUME SafeInv, [Next]_vars PROVE TypeOK'
  OBVIOUS
<1> USE DEF SafeInv, TypeOK, diskVars, memVars, queueVars, history
<1>1. ASSUME NEW p \in Process, Start(p) PROVE TypeOK'
  BY <1>1 DEF Start
<1>2. ASSUME NEW p \in Process, Load(p) PROVE TypeOK'
  <2>1. held'[p] \in Cache \cup {Nothing}
    BY <1>2 DEF Load, Kept
  <2> QED
    BY <1>2, <2>1 DEF Load
<1>3. ASSUME NEW p \in Process, NEW c \in ClientsOf[p], Bind(p, c) PROVE TypeOK'
  <2>1. Kept(held[p], {c}) \in Cache \cup {Nothing} /\ c \in Client
    BY ClientsAssumption DEF Kept
  <2> QED
    BY <1>3, <2>1 DEF Bind
<1>4. ASSUME NEW p \in Process, NEW c \in ClientsOf[p], Authorize(p, c) PROVE TypeOK'
  <2> DEFINE authz == [key |-> KeyOf[c], realm |-> RealmOf[c], serial |-> issued']
             cache == [auth |-> authz, realm |-> RealmOf[c], key |-> KeyOf[c]]
  <2>1. issued' \in 0..MaxAuths /\ c \in Client
    BY <1>4, MaxAuthsAssumption, ClientsAssumption DEF Authorize
  <2>2. authz \in Auth /\ cache \in Cache
    BY <2>1, IssuedIsAuth
  <2>3. Append(writeQueue[p], authz) \in Seq(Auth \cup {NoAuth})
    BY <2>2
  <2>4. /\ held' = [held EXCEPT ![p] = cache]
        /\ writeQueue' = [writeQueue EXCEPT ![p] = Append(writeQueue[p], authz)]
        /\ lastSet' = [lastSet EXCEPT ![p] = authz]
    BY <1>4 DEF Authorize, Flush
  <2> HIDE DEF authz, cache
  <2> QED
    BY <1>4, <2>1, <2>2, <2>3, <2>4 DEF Authorize, Flush
<1>5. ASSUME NEW p \in Process, Clear(p) PROVE TypeOK'
  <2>1. Append(writeQueue[p], NoAuth) \in Seq(Auth \cup {NoAuth})
    OBVIOUS
  <2> QED
    BY <1>5, <2>1 DEF Clear, Flush
<1>6. ASSUME NEW p \in Process, BeginWrite(p) PROVE TypeOK'
  BY <1>6, ContentsShape DEF BeginWrite, WriteFile, Goto
<1>7. ASSUME NEW p \in Process, EndWrite(p) PROVE TypeOK'
  BY <1>7 DEF EndWrite, WriteFile, Goto
<1>8. ASSUME NEW p \in Process, Rename(p) PROVE TypeOK'
  BY <1>8 DEF Rename, Goto
<1>9. ASSUME NEW p \in Process, EndFlush(p) \/ WriteFails(p) PROVE TypeOK'
  <2>1. writing[p] # "idle" /\ writeQueue' = [writeQueue EXCEPT ![p] = Tail(writeQueue[p])]
    BY <1>9 DEF EndFlush, WriteFails, At, SettleFailed, Dequeued
  <2>2. Tail(writeQueue[p]) \in Seq(Auth \cup {NoAuth})
    BY <2>1 DEF WriteInv
  <2> QED
    BY <1>9, <2>1, <2>2 DEF EndFlush, WriteFails, SettleFailed, Goto
<1>10. ASSUME NEW p \in Process, Crash(p) PROVE TypeOK'
  BY <1>10 DEF Crash
<1>11. CASE UNCHANGED vars
  BY <1>11 DEF vars
<1> QED
  BY <1>1, <1>2, <1>3, <1>4, <1>5, <1>6, <1>7, <1>8, <1>9, <1>10, <1>11 DEF Next, WriteStep

LEMMA BoundStep == SafeInv /\ [Next]_vars => Bound'
<1> SUFFICES ASSUME SafeInv, [Next]_vars PROVE Bound'
  OBVIOUS
<1> USE DEF SafeInv, Bound, TypeOK, memVars
<1>1. ASSUME NEW p \in Process, Start(p) \/ Load(p) \/ Clear(p) \/ WriteStep(p) PROVE Bound'
  BY <1>1 DEF Start, Load, Clear, WriteStep, BeginWrite, EndWrite, Rename, EndFlush, WriteFails
<1>2. ASSUME NEW p \in Process, Crash(p) PROVE Bound'
  BY <1>2 DEF Crash
<1>3. ASSUME NEW p \in Process, NEW c \in ClientsOf[p], Bind(p, c) \/ Authorize(p, c) PROVE Bound'
  <2>1. CASE Bind(p, c)
    BY <1>3, <2>1 DEF Bind
  <2>2. CASE Authorize(p, c)
    BY <2>2 DEF Authorize
  <2> QED
    BY <1>3, <2>1, <2>2
<1>4. CASE UNCHANGED vars
  BY <1>4 DEF vars
<1> QED
  BY <1>1, <1>2, <1>3, <1>4 DEF Next

\* The file only ever gets what a write has put, whole, in a temporary file.
LEMMA DiskStep == SafeInv /\ [Next]_vars => DiskIsWhole'
<1> SUFFICES ASSUME SafeInv, [Next]_vars PROVE DiskIsWhole'
  OBVIOUS
<1> USE DEF SafeInv, DiskIsWhole, diskVars
<1>1. ASSUME NEW p \in Process, Rename(p) PROVE DiskIsWhole'
  <2>1. disk' = contents[p]
    BY <1>1 DEF Rename, At, WriteInv
  <2>2. contents[p] \in Cache \cup {Unreadable}
    BY DEF TypeOK
  <2> QED
    BY <2>1, <2>2, MarkersAssumption DEF MarkersApart
<1>2. ASSUME NEW p \in Process,
             \/ Start(p) \/ Load(p) \/ Clear(p) \/ Crash(p)
             \/ BeginWrite(p) \/ EndWrite(p) \/ EndFlush(p) \/ WriteFails(p)
             \/ \E c \in ClientsOf[p] : Bind(p, c) \/ Authorize(p, c)
      PROVE  DiskIsWhole'
  BY <1>2 DEF Start, Load, Clear, Crash, BeginWrite, EndWrite, EndFlush, WriteFails, WriteFile,
              Bind, Authorize
<1>3. CASE UNCHANGED vars
  BY <1>3 DEF vars
<1> QED
  BY <1>1, <1>2, <1>3 DEF Next, WriteStep

\* What a step of one process does to the queues, the writes and the file.
LEMMA WriteStepInv == SafeInv /\ [Next]_vars => WriteInv'
<1> SUFFICES ASSUME SafeInv, [Next]_vars, NEW q \in Process
             PROVE  /\ writeQueue'[q] # <<>> => lastSet'[q] = writeQueue'[q][Len(writeQueue'[q])]
                    /\ writing'[q] # "idle" =>
                          running'[q] /\ writeQueue'[q] # <<>> /\ Holds(contents'[q], writeQueue'[q][1])
                    /\ writing'[q] = "written" => temp'[q] = contents'[q]
                    /\ writing'[q] = "renamed" /\ q \in lastWriter' => disk' = contents'[q]
                    /\ writeQueue'[q] = <<>> /\ q \in lastWriter' /\ ~lost'[q] => Holds(disk', lastSet'[q])
  BY DEF WriteInv, Holds
<1> USE DEF SafeInv, WriteInv, At, Goto, diskVars, memVars, queueVars, history
<1>1. ASSUME NEW p \in Process, Start(p) \/ Load(p) PROVE
                    /\ UNCHANGED <<writeQueue, writing, contents, temp, disk, lastSet, lost, lastWriter>>
                    /\ running[q] => running'[q]
  BY <1>1 DEF Start, Load, TypeOK
<1>2. ASSUME NEW p \in Process, NEW c \in ClientsOf[p], Bind(p, c)
      PROVE  UNCHANGED <<writeQueue, writing, contents, temp, disk, lastSet, lost, lastWriter, running>>
  BY <1>2 DEF Bind
<1>3. ASSUME NEW p \in Process, NEW authz \in Auth \cup {NoAuth}, Flush(p, authz),
             UNCHANGED <<writing, contents, temp, disk, running>>
      PROVE  /\ writeQueue'[q] # <<>> => lastSet'[q] = writeQueue'[q][Len(writeQueue'[q])]
             /\ writing'[q] # "idle" =>
                   running'[q] /\ writeQueue'[q] # <<>> /\ Holds(contents'[q], writeQueue'[q][1])
             /\ writing'[q] = "written" => temp'[q] = contents'[q]
             /\ writing'[q] = "renamed" /\ q \in lastWriter' => disk' = contents'[q]
             /\ writeQueue'[q] = <<>> /\ q \in lastWriter' /\ ~lost'[q] => Holds(disk', lastSet'[q])
  <2>1. CASE q # p
    BY <1>3, <2>1 DEF Flush, TypeOK
  <2>2. CASE q = p
    <3>1. /\ writeQueue'[p] = Append(writeQueue[p], authz) /\ lastSet'[p] = authz
          /\ lastWriter' = lastWriter
      BY <1>3 DEF Flush, TypeOK
    <3>2. writeQueue[p] \in Seq(Auth \cup {NoAuth})
      BY DEF TypeOK
    <3>3. /\ writeQueue'[p] # <<>> /\ writeQueue'[p][Len(writeQueue'[p])] = authz
          /\ writeQueue[p] # <<>> => writeQueue'[p][1] = writeQueue[p][1]
      BY <3>1, <3>2, AppendFacts
    <3> QED
      BY <1>3, <2>2, <3>1, <3>3
  <2> QED
    BY <2>1, <2>2
<1>4. ASSUME NEW p \in Process, NEW c \in ClientsOf[p], Authorize(p, c)
      PROVE  \E authz \in Auth \cup {NoAuth} :
                 Flush(p, authz) /\ UNCHANGED <<writing, contents, temp, disk, running>>
  <2>1. issued' \in 0..MaxAuths /\ c \in Client
    BY <1>4, MaxAuthsAssumption, ClientsAssumption DEF Authorize, TypeOK
  <2>2. [key |-> KeyOf[c], realm |-> RealmOf[c], serial |-> issued'] \in Auth
    BY <2>1, IssuedIsAuth
  <2> QED
    BY <1>4, <2>2 DEF Authorize
<1>5. ASSUME NEW p \in Process, Clear(p)
      PROVE  Flush(p, NoAuth) /\ UNCHANGED <<writing, contents, temp, disk, running>>
  BY <1>5 DEF Clear
<1>6. ASSUME NEW p \in Process, BeginWrite(p)
      PROVE  /\ UNCHANGED <<writeQueue, disk, lastSet, lost, lastWriter, running>>
             /\ q # p => writing'[q] = writing[q] /\ temp'[q] = temp[q] /\ contents'[q] = contents[q]
             /\ q = p => writing'[q] = "writing" /\ running[q] /\ Holds(contents'[q], writeQueue[q][1])
                         /\ writeQueue[q] # <<>>
  BY <1>6, ContentsShape DEF BeginWrite, WriteFile, TypeOK
<1>7. ASSUME NEW p \in Process, EndWrite(p)
      PROVE  /\ UNCHANGED <<writeQueue, contents, disk, lastSet, lost, lastWriter, running>>
             /\ q # p => writing'[q] = writing[q] /\ temp'[q] = temp[q]
             /\ q = p => writing[q] = "writing" /\ writing'[q] = "written" /\ temp'[q] = contents[q]
  BY <1>7 DEF EndWrite, WriteFile, TypeOK
<1>8. ASSUME NEW p \in Process, Rename(p)
      PROVE  /\ UNCHANGED <<writeQueue, contents, lastSet, lost, running>>
             /\ q # p => writing'[q] = writing[q] /\ temp'[q] = temp[q] /\ q \notin lastWriter'
             /\ q = p => writing[q] = "written" /\ writing'[q] = "renamed" /\ disk' = contents[q]
  BY <1>8 DEF Rename, TypeOK
<1>9. ASSUME NEW p \in Process, EndFlush(p) \/ WriteFails(p)
      PROVE  /\ UNCHANGED <<disk, contents, lastSet, lastWriter, running>>
             /\ q # p => /\ writing'[q] = writing[q] /\ temp'[q] = temp[q] /\ lost'[q] = lost[q]
                         /\ writeQueue'[q] = writeQueue[q]
             /\ q = p => /\ writing[q] # "idle" /\ writing'[q] = "idle"
                         /\ writeQueue'[q] = Tail(writeQueue[q])
                         /\ ~lost'[q] => writing[q] = "renamed"
  BY <1>9 DEF EndFlush, WriteFails, SettleFailed, Dequeued, TypeOK
<1>10. ASSUME NEW p \in Process, EndFlush(p) \/ WriteFails(p)
       PROVE  /\ writeQueue'[q] # <<>> => lastSet'[q] = writeQueue'[q][Len(writeQueue'[q])]
              /\ writeQueue'[q] = <<>> /\ q \in lastWriter' /\ ~lost'[q] => Holds(disk', lastSet'[q])
  <2>1. CASE q # p
    BY <1>9, <1>10, <2>1
  <2>2. CASE q = p
    <3>1. writeQueue[q] \in Seq(Auth \cup {NoAuth}) /\ writeQueue[q] # <<>>
      BY <1>9, <1>10, <2>2 DEF TypeOK
    <3>2. /\ writeQueue'[q] # <<>> => writeQueue'[q][Len(writeQueue'[q])] = writeQueue[q][Len(writeQueue[q])]
          /\ writeQueue'[q] = <<>> => Len(writeQueue[q]) = 1
      <4>1. writeQueue'[q] = Tail(writeQueue[q])
        BY <1>9, <1>10, <2>2
      <4> DEFINE S == Auth \cup {NoAuth}
                 old == writeQueue[q]
                 new == writeQueue'[q]
      <4>2. old \in Seq(S) /\ old # <<>> /\ new = Tail(old)
        BY <3>1, <4>1
      <4> HIDE DEF S, old, new
      <4>3. (new # <<>> => new[Len(new)] = old[Len(old)]) /\ (new = <<>> => Len(old) = 1)
        BY <4>2, TailFacts
      <4> QED
        BY <4>3 DEF old, new
    <3>3. lastSet'[q] = writeQueue[q][Len(writeQueue[q])]
      BY <1>9, <1>10, <2>2, <3>1
    <3>4. ASSUME writeQueue'[q] = <<>>, q \in lastWriter', ~lost'[q] PROVE Holds(disk', lastSet'[q])
      <4>1. writing[q] = "renamed" /\ disk' = contents[q] /\ lastSet'[q] = writeQueue[q][1]
        BY <1>9, <1>10, <2>2, <3>2, <3>3, <3>4
      <4> QED
        BY <4>1
    <3> QED
      BY <3>2, <3>3, <3>4
  <2> QED
    BY <2>1, <2>2
<1>11. ASSUME NEW p \in Process, Crash(p)
       PROVE  /\ UNCHANGED disk
              /\ q # p => /\ writing'[q] = writing[q] /\ temp'[q] = temp[q] /\ lost'[q] = lost[q]
                          /\ writeQueue'[q] = writeQueue[q] /\ contents'[q] = contents[q]
                          /\ lastSet'[q] = lastSet[q] /\ running'[q] = running[q]
                          /\ q \in lastWriter' => q \in lastWriter
              /\ q = p => writing'[q] = "idle" /\ writeQueue'[q] = <<>> /\ q \notin lastWriter'
  BY <1>11 DEF Crash, TypeOK
<1>12. CASE UNCHANGED vars
  BY <1>12 DEF vars
<1>13. ASSUME NEW p \in Process, Next, Clear(p) \/ \E c \in ClientsOf[p] : Authorize(p, c)
       PROVE  \E authz \in Auth \cup {NoAuth} :
                 Flush(p, authz) /\ UNCHANGED <<writing, contents, temp, disk, running>>
  BY <1>4, <1>5, <1>13
<1> QED
  BY <1>1, <1>2, <1>3, <1>6, <1>7, <1>8, <1>9, <1>10, <1>11, <1>12, <1>13 DEF Next, WriteStep

\* No marker is a cache.
LEMMA MarkersAreNoCaches ==
    /\ Unreadable \notin Cache /\ Missing \notin Cache /\ Torn \notin Cache /\ Nothing \notin Cache
    /\ \A c \in Client : KeyOf[c] # Unlabelled
BY CacheShape, MarkersAssumption DEF MarkersApart, Key

\* The labels of a write are those of the client the authorization was issued to.
LEMMA ContentsLabelled ==
    ASSUME OneClientEach, SafeInv, QueueOfClient, NEW p \in Process, writeQueue[p] # <<>>
    PROVE  Labelled(Contents(p))
<1>1. writeQueue[p] \in Seq(Auth \cup {NoAuth})
  BY DEF SafeInv, TypeOK
<1>2. Head(writeQueue[p]) = writeQueue[p][1] /\ 1 \in DOMAIN writeQueue[p]
  BY <1>1
<1>3. CASE writeQueue[p][1] = NoAuth
  BY <1>2, <1>3, MarkersAreNoCaches DEF Contents, Labelled
<1>4. CASE writeQueue[p][1] # NoAuth
  <2>1. PICK c \in client[p] : writeQueue[p][1].key = KeyOf[c]
    BY <1>2, <1>4 DEF QueueOfClient
  <2>2. (CHOOSE d \in client[p] : TRUE) = c
    BY <2>1 DEF OneClientEach, SafeInv, Bound
  <2>3. Contents(p).auth = writeQueue[p][1] /\ Contents(p).key = KeyOf[c]
    BY <1>2, <1>4, <2>1, <2>2 DEF Contents
  <2> QED
    BY <2>1, <2>3 DEF Labelled
<1> QED
  BY <1>3, <1>4

LEMMA LabelStep == OneClientEach /\ AccountInv /\ [Next]_vars => OwnLabels'
<1> SUFFICES ASSUME OneClientEach, AccountInv, [Next]_vars PROVE OwnLabels'
  OBVIOUS
<1> USE DEF AccountInv, OwnInv, OwnLabels, SafeInv, diskVars, memVars, queueVars
<1>1. Labelled(Unreadable) /\ Labelled(Missing) /\ Labelled(Torn) /\ Labelled(Nothing)
  BY MarkersAreNoCaches DEF Labelled
<1>2. ASSUME NEW p \in Process, Start(p) PROVE OwnLabels'
  BY <1>2 DEF Start, Labelled
<1>3. ASSUME NEW p \in Process, Load(p) PROVE OwnLabels'
  <2>1. Labelled(held'[p]) /\ \A q \in Process : q # p => held'[q] = held[q]
    BY <1>1, <1>3 DEF Load, Kept, TypeOK
  <2> QED
    BY <1>3, <2>1 DEF Load, Labelled
<1>4. ASSUME NEW p \in Process, NEW c \in ClientsOf[p], Bind(p, c) PROVE OwnLabels'
  <2>1. Labelled(held'[p]) /\ \A q \in Process : q # p => held'[q] = held[q]
    BY <1>1, <1>4 DEF Bind, Kept, TypeOK
  <2> QED
    BY <1>4, <2>1 DEF Bind, Labelled
<1>5. ASSUME NEW p \in Process, NEW c \in ClientsOf[p], Authorize(p, c) PROVE OwnLabels'
  <2>1. held'[p].key = held'[p].auth.key /\ \A q \in Process : q # p => held'[q] = held[q]
    BY <1>5 DEF Authorize, TypeOK
  <2> QED
    BY <1>5, <2>1 DEF Authorize, Labelled
<1>6. ASSUME NEW p \in Process, Clear(p) PROVE OwnLabels'
  <2>1. held'[p] = Nothing /\ \A q \in Process : q # p => held'[q] = held[q]
    BY <1>6 DEF Clear, TypeOK
  <2> QED
    BY <1>1, <1>6, <2>1 DEF Clear, Labelled
<1>7. ASSUME NEW p \in Process, BeginWrite(p) PROVE OwnLabels'
  <2>1. /\ contents'[p] = Contents(p) /\ temp'[p] = Torn
        /\ \A q \in Process : q # p => contents'[q] = contents[q] /\ temp'[q] = temp[q]
    BY <1>7 DEF BeginWrite, WriteFile, TypeOK
  <2>2. Labelled(Contents(p))
    BY <1>7, ContentsLabelled DEF BeginWrite
  <2> QED
    BY <1>1, <1>7, <2>1, <2>2 DEF BeginWrite, WriteFile, Labelled
<1>8. ASSUME NEW p \in Process, EndWrite(p) PROVE OwnLabels'
  <2>1. temp'[p] = contents[p] /\ \A q \in Process : q # p => temp'[q] = temp[q]
    BY <1>8 DEF EndWrite, WriteFile, TypeOK
  <2> QED
    BY <1>8, <2>1 DEF EndWrite, WriteFile, Labelled
<1>9. ASSUME NEW p \in Process, Rename(p) PROVE OwnLabels'
  <2>1. /\ temp'[p] = Missing /\ disk' = temp[p]
        /\ \A q \in Process : q # p => temp'[q] = temp[q]
    BY <1>9 DEF Rename, TypeOK
  <2> QED
    BY <1>1, <1>9, <2>1 DEF Rename, Labelled
<1>10. ASSUME NEW p \in Process, EndFlush(p) PROVE OwnLabels'
  BY <1>10 DEF EndFlush, Labelled
<1>11. ASSUME NEW p \in Process, WriteFails(p) PROVE OwnLabels'
  <2>1. temp'[p] = Missing /\ \A q \in Process : q # p => temp'[q] = temp[q]
    BY <1>11 DEF WriteFails, TypeOK
  <2> QED
    BY <1>1, <1>11, <2>1 DEF WriteFails, Labelled
<1>12. ASSUME NEW p \in Process, Crash(p) PROVE OwnLabels'
  <2>1. /\ temp'[p] = Missing /\ contents'[p] = Unreadable /\ held'[p] = Nothing /\ disk' = disk
        /\ \A q \in Process : q # p => /\ temp'[q] = temp[q] /\ contents'[q] = contents[q]
                                       /\ held'[q] = held[q]
    BY <1>12 DEF Crash, TypeOK
  <2> QED
    BY <1>1, <2>1 DEF Labelled
<1>13. CASE UNCHANGED vars
  BY <1>13 DEF vars, Labelled
<1> QED
  BY <1>2, <1>3, <1>4, <1>5, <1>6, <1>7, <1>8, <1>9, <1>10, <1>11, <1>12, <1>13 DEF Next, WriteStep

LEMMA QueueStep == OneClientEach /\ AccountInv /\ [Next]_vars => QueueOfClient'
<1> SUFFICES ASSUME OneClientEach, AccountInv, [Next]_vars, NEW q \in Process, NEW i \in DOMAIN writeQueue'[q],
                    writeQueue'[q][i] # NoAuth
             PROVE  \E c \in client'[q] : writeQueue'[q][i].key = KeyOf[c]
  BY DEF QueueOfClient
<1> USE DEF AccountInv, OwnInv, QueueOfClient, SafeInv, diskVars, memVars, queueVars
<1>1. ASSUME UNCHANGED <<writeQueue, client>>
      PROVE  \E c \in client'[q] : writeQueue'[q][i].key = KeyOf[c]
  BY <1>1
<1>2. ASSUME NEW p \in Process, NEW c \in ClientsOf[p], Bind(p, c)
      PROVE  \E d \in client'[q] : writeQueue'[q][i].key = KeyOf[d]
  <2>1. writeQueue' = writeQueue /\ (q # p => client'[q] = client[q])
    BY <1>2 DEF Bind, TypeOK
  <2>2. client[p] = {}
    BY <1>2 DEF Bind, Bound, OneClientEach
  <2> QED
    BY <2>1, <2>2
<1>3. ASSUME NEW p \in Process, NEW authz \in Auth \cup {NoAuth}, Flush(p, authz), client' = client,
             authz # NoAuth => \E d \in client[p] : authz.key = KeyOf[d]
      PROVE  \E d \in client'[q] : writeQueue'[q][i].key = KeyOf[d]
  <2>1. CASE q # p
    BY <1>3, <2>1 DEF Flush, TypeOK
  <2>2. CASE q = p
    <3>1. writeQueue'[p] = Append(writeQueue[p], authz) /\ writeQueue[p] \in Seq(Auth \cup {NoAuth})
      BY <1>3 DEF Flush, TypeOK
    <3>2. writeQueue'[p][i] = authz \/ (i \in DOMAIN writeQueue[p] /\ writeQueue'[p][i] = writeQueue[p][i])
      BY <2>2, <3>1, AppendFacts
    <3> QED
      BY <1>3, <2>2, <3>2
  <2> QED
    BY <2>1, <2>2
<1>4. ASSUME NEW p \in Process, NEW c \in ClientsOf[p], Authorize(p, c)
      PROVE  \E d \in client'[q] : writeQueue'[q][i].key = KeyOf[d]
  <2> DEFINE authz == [key |-> KeyOf[c], realm |-> RealmOf[c], serial |-> issued']
  <2>1. issued' \in 0..MaxAuths /\ c \in Client
    BY <1>4, MaxAuthsAssumption, ClientsAssumption DEF Authorize, TypeOK
  <2>2. authz \in Auth /\ authz.key = KeyOf[c]
    BY <2>1, IssuedIsAuth
  <2>3. Flush(p, authz) /\ client' = client /\ c \in client[p]
    BY <1>4 DEF Authorize
  <2> HIDE DEF authz
  <2> QED
    BY <1>3, <2>2, <2>3
<1>5. ASSUME NEW p \in Process, Clear(p)
      PROVE  \E d \in client'[q] : writeQueue'[q][i].key = KeyOf[d]
  <2>1. Flush(p, NoAuth) /\ client' = client
    BY <1>5 DEF Clear
  <2> QED
    BY <1>3, <2>1
<1>6. ASSUME NEW p \in Process, EndFlush(p) \/ WriteFails(p)
      PROVE  \E d \in client'[q] : writeQueue'[q][i].key = KeyOf[d]
  <2>1. client' = client /\ (q # p => writeQueue'[q] = writeQueue[q])
    BY <1>6 DEF EndFlush, WriteFails, SettleFailed, Dequeued, TypeOK
  <2>2. CASE q = p
    <3>1. writing[p] # "idle" /\ writeQueue'[p] = Tail(writeQueue[p])
      BY <1>6 DEF EndFlush, WriteFails, SettleFailed, Dequeued, TypeOK, At
    <3> DEFINE S == Auth \cup {NoAuth}
               old == writeQueue[p]
               new == writeQueue'[p]
    <3>2. old \in Seq(S) /\ old # <<>> /\ new = Tail(old)
      BY <3>1 DEF TypeOK, WriteInv
    <3>3. i \in DOMAIN new
      BY <2>2
    <3> HIDE DEF S, old, new
    <3>4. i + 1 \in DOMAIN old /\ new[i] = old[i + 1]
      BY <3>2, <3>3, TailFacts
    <3> QED
      BY <2>1, <2>2, <3>4 DEF old, new
  <2> QED
    BY <2>1, <2>2
<1>7. ASSUME NEW p \in Process, Crash(p)
      PROVE  \E d \in client'[q] : writeQueue'[q][i].key = KeyOf[d]
  <2>1. writeQueue'[p] = <<>> /\ (q # p => writeQueue'[q] = writeQueue[q] /\ client'[q] = client[q])
    BY <1>7 DEF Crash, TypeOK
  <2>2. q # p
    BY <2>1
  <2> QED
    BY <2>1, <2>2
<1>8. ASSUME NEW p \in Process, Start(p) \/ Load(p) \/ BeginWrite(p) \/ EndWrite(p) \/ Rename(p)
      PROVE  UNCHANGED <<writeQueue, client>>
  BY <1>8 DEF Start, Load, BeginWrite, EndWrite, Rename
<1>9. CASE UNCHANGED vars
  BY <1>1, <1>9 DEF vars
<1> QED
  BY <1>1, <1>2, <1>4, <1>5, <1>6, <1>7, <1>8, <1>9 DEF Next, WriteStep

LEMMA OwnStep == OneClientEach /\ AccountInv /\ [Next]_vars => OwnAuthOnly'
<1> SUFFICES ASSUME OneClientEach, AccountInv, [Next]_vars, NEW q \in Process, NEW d \in client'[q],
                    held'[q] # Nothing
             PROVE  held'[q].auth.key = KeyOf[d] /\ held'[q].auth.realm = RealmOf[d]
  BY DEF OwnAuthOnly
<1> USE DEF AccountInv, OwnInv, SafeInv, OwnAuthOnly, diskVars, memVars, queueVars
<1>1. ASSUME NEW x \in Cache, Labelled(x), NEW c \in Client, Usable(x, c)
      PROVE  x.auth.key = KeyOf[c] /\ x.auth.realm = RealmOf[c]
  BY <1>1, MarkersAreNoCaches DEF Usable, Labelled, EndpointsMatch
<1>2. ASSUME held'[q] = held[q], client'[q] = client[q]
      PROVE  held'[q].auth.key = KeyOf[d] /\ held'[q].auth.realm = RealmOf[d]
  BY <1>2
<1>3. ASSUME NEW p \in Process, Load(p)
      PROVE  held'[q].auth.key = KeyOf[d] /\ held'[q].auth.realm = RealmOf[d]
  <2>1. client' = client /\ (q # p => held'[q] = held[q])
    BY <1>3 DEF Load, TypeOK
  <2>2. CASE q = p
    <3>1. held'[q] = disk /\ disk \in Cache /\ Usable(disk, d) /\ d \in Client
      BY <1>3, <2>1, <2>2 DEF Load, Kept, TypeOK
    <3>2. Labelled(disk)
      BY DEF OwnLabels
    <3> QED
      BY <1>1, <3>1, <3>2
  <2> QED
    BY <1>2, <2>1, <2>2
<1>4. ASSUME NEW p \in Process, NEW c \in ClientsOf[p], Bind(p, c)
      PROVE  held'[q].auth.key = KeyOf[d] /\ held'[q].auth.realm = RealmOf[d]
  <2>1. q # p => held'[q] = held[q] /\ client'[q] = client[q]
    BY <1>4 DEF Bind, TypeOK
  <2>2. CASE q = p
    <3>1. d = c /\ c \in Client
      BY <1>4, <2>2, ClientsAssumption DEF Bind, TypeOK
    <3>2. held'[q] = held[p] /\ held[p] \in Cache /\ Usable(held[p], c)
      BY <1>4, <2>2 DEF Bind, Kept, TypeOK
    <3>3. Labelled(held[p])
      BY DEF OwnLabels
    <3> QED
      BY <1>1, <3>1, <3>2, <3>3
  <2> QED
    BY <1>2, <2>1, <2>2
<1>5. ASSUME NEW p \in Process, NEW c \in ClientsOf[p], Authorize(p, c)
      PROVE  held'[q].auth.key = KeyOf[d] /\ held'[q].auth.realm = RealmOf[d]
  BY <1>5 DEF Authorize, TypeOK
<1>6. ASSUME NEW p \in Process, Clear(p) \/ Crash(p)
      PROVE  held'[q].auth.key = KeyOf[d] /\ held'[q].auth.realm = RealmOf[d]
  <2>1. held'[p] = Nothing /\ (q # p => held'[q] = held[q] /\ client'[q] = client[q])
    BY <1>6 DEF Clear, Crash, TypeOK
  <2> QED
    BY <1>2, <2>1
<1>7. ASSUME NEW p \in Process, Start(p) \/ WriteStep(p)
      PROVE  held' = held /\ client' = client
  BY <1>7 DEF Start, WriteStep, BeginWrite, EndWrite, Rename, EndFlush, WriteFails
<1>8. CASE UNCHANGED vars
  BY <1>2, <1>8 DEF vars
<1> QED
  BY <1>2, <1>3, <1>4, <1>5, <1>6, <1>7, <1>8 DEF Next

-----------------------------------------------------------------------------
(* The theorems.                                                           *)

\* The types, the write queues and the file, for any number of processes and clients.
THEOREM SafeInvariance == Spec => []SafeInv
<1>1. Init => SafeInv
  BY InitInv DEF AccountInv
<1>2. SafeInv /\ [Next]_vars => SafeInv'
  BY TypeStep, BoundStep, DiskStep, WriteStepInv DEF SafeInv
<1> QED
  BY <1>1, <1>2, PTL DEF Spec

\* Every variable keeps its type: what load accepts is a cache, and never a half one.
THEOREM TypeCorrect == Spec => []TypeOK
<1>1. SafeInv => TypeOK
  BY DEF SafeInv
<1> QED
  BY <1>1, SafeInvariance, PTL

\* However many processes write at once and crash, the cache file is never half written.
THEOREM DiskWhole == Spec => []DiskIsWhole
<1>1. SafeInv => DiskIsWhole
  BY DEF SafeInv
<1> QED
  BY <1>1, SafeInvariance, PTL

\* What flushed() waited for is in the file, for any number of writes queued behind each
\* other.
THEOREM FlushPersists == Spec => []FlushedIsPersisted
<1>1. ASSUME SafeInv PROVE FlushedIsPersisted
  <2> SUFFICES ASSUME NEW p \in Process, writeQueue[p] = <<>>, p \in lastWriter, ~lost[p]
               PROVE  IF lastSet[p] = NoAuth THEN disk = Unreadable
                      ELSE disk \notin {Unreadable, Missing, Torn} /\ disk.auth = lastSet[p]
    BY DEF FlushedIsPersisted
  <2>1. Holds(disk, lastSet[p])
    BY <1>1 DEF SafeInv, WriteInv
  <2> QED
    BY <2>1, MarkersAreNoCaches DEF Holds
<1> QED
  BY <1>1, SafeInvariance, PTL

\* If a process constructs no second client on its store, a client only ever holds an
\* authorization of its own key and realm, whatever other processes, older versions and
\* crashes left in the file.
THEOREM OwnAuth == ASSUME OneClientEach PROVE Spec => []OwnAuthOnly
<1>1. Init => AccountInv
  BY InitInv
<1>2. AccountInv /\ [Next]_vars => AccountInv'
  BY OneClientEach, TypeStep, BoundStep, DiskStep, WriteStepInv, LabelStep, QueueStep, OwnStep
     DEF AccountInv, SafeInv, OwnInv
<1>3. AccountInv => OwnAuthOnly
  BY DEF AccountInv, OwnInv
<1> QED
  BY <1>1, <1>2, <1>3, PTL DEF Spec

-----------------------------------------------------------------------------
(* The client: its guard and its exchange.                                *)

\* Why the signal of an exchange is aborted, what the caller is told, what became of the body.
Reason  == {"none", "abort", "timeout"}
Outcome == {"none", "ok", "network", "abort", "timeout", "redirect", "refused", "cancelled"}
Body    == {"none", "null", "open", "aborted", "ended", "broken", "cancelled"}

\* An exchange, field by field.
ExchangeType ==
    [by : Process, of : Client, method : {"GET", "POST"}, url : Url,
     timed : BOOLEAN, follow : BOOLEAN, aborted : BOOLEAN,
     phase : {"idle", "fetching", "cancelling", "answered", "reading", "streaming", "over"},
     next : Url \cup {NoUrl}, fetched : Seq(Url), strayed : BOOLEAN,
     timer : BOOLEAN, listening : BOOLEAN, expired : BOOLEAN,
     reason : Reason,
     body : Body,
     pulling : BOOLEAN, arrived : {"nothing", "chunk", "end"}, queued : BOOLEAN, late : BOOLEAN,
     outcome : Outcome]

\* A timer runs only while nothing has aborted the exchange, and the body goes with the
\* signal.
ScopeInv(x) ==
    /\ x.timer => x.timed /\ x.reason = "none"
    /\ x.reason # "none" => x.body # "open"
    /\ x.expired => x.reason = "timeout"

\* What has arrived of the body, in the phases in which something can.
BodyInv(x) ==
    /\ x.phase \in {"fetching", "cancelling"} => x.body = "none"
    /\ x.arrived # "nothing" => x.phase \in {"streaming", "over"}
    /\ x.arrived = "end" => x.body = "ended"
    /\ x.phase = "over" /\ x.arrived = "chunk" => x.late

\* An exchange that is over listens to nobody, and told its caller what became of it.
OverInv(x) ==
    /\ x.phase = "over" => ~ x.listening /\ x.body # "open" /\ (x.timer => x.late)
    /\ x.outcome # "none" => x.phase = "over"
    /\ x.outcome \in {"abort", "timeout"} => x.outcome = x.reason
    /\ x.outcome = "ok" => x.body = "ended"

\* Only a GET is sent again, never beyond the limit, and never to a host outside its realm.
FetchInv(x) ==
    /\ x.method = "POST" => Len(x.fetched) <= 1
    /\ Len(x.fetched) <= MaxRedirects + 1
    /\ x.phase = "cancelling" /\ x.next # NoUrl => x.method = "GET" /\ Len(x.fetched) <= MaxRedirects
    /\ ~ x.strayed

\* ... which is what one exchange keeps.
ExchangeInv(x) == x \in ExchangeType /\ ScopeInv(x) /\ BodyInv(x) /\ OverInv(x) /\ FetchInv(x)

\* The suffixes a guard can be locked to.
Suffix == UNION {Locked(c, r) : c \in Client, r \in Realm}

GuardType == guard \in [Process -> [Client -> SUBSET Suffix]]

\* Until it is loaded the store is empty.
LoadedInv == \A p \in Process : ~ loaded[p] => held[p] = Nothing /\ lastSet[p] = NoAuth

\* What was set in this process was set with the guard of the client that is bound.
LockedInv ==
    \A p \in Process : \A c \in client[p] :
        held[p] # Nothing /\ held[p].auth = lastSet[p] => guard[p][c] = Locked(c, RealmOf[c])

GuardInv == GuardType /\ LoadedInv /\ LockedInv

\* The exchange under way is that of the client its process has constructed.
WireInv ==
    exchange # NoExchange => ExchangeInv(exchange) /\ client[exchange.by] = {exchange.of}

\* The inductive invariant of a client with its store and its requests.
ClientInv == SafeInv /\ GuardInv /\ WireInv

\* A step of an exchange leaves it that of the same client.
SameParties == exchange'.by = exchange.by /\ exchange'.of = exchange.of

-----------------------------------------------------------------------------
\* What ends an exchange, aborts it or disposes of its scope gives an exchange again.
LEMMA DisposedType == ASSUME NEW x \in ExchangeType PROVE Disposed(x) \in ExchangeType
BY DEF Disposed, ExchangeType

LEMMA OutcomeType == 
  ASSUME NEW x \in ExchangeType, NEW o \in Outcome PROVE [x EXCEPT !.outcome = o] \in ExchangeType
BY DEF ExchangeType

LEMMA BodyType == 
  ASSUME NEW x \in ExchangeType, NEW o \in Body PROVE [x EXCEPT !.body = o] \in ExchangeType
BY DEF ExchangeType

LEMMA OverType ==
    ASSUME NEW x \in ExchangeType, NEW o \in Outcome PROVE Over(x, o) \in ExchangeType
<1> DEFINE y == [Disposed(x) EXCEPT !.phase = "over"]
<1>1. y \in ExchangeType
  BY DisposedType DEF ExchangeType
<1>2. Over(x, o) = [y EXCEPT !.outcome = o]
  BY DEF Over
<1> HIDE DEF y
<1> QED
  BY <1>1, <1>2, OutcomeType

LEMMA AbortedType ==
    ASSUME NEW x \in ExchangeType, NEW why \in Reason PROVE Aborted(x, why) \in ExchangeType
<1> DEFINE y == [x EXCEPT !.reason = IF @ = "none" THEN why ELSE @]
           b == IF y.body = "open" THEN "aborted" ELSE y.body
<1>1. y \in ExchangeType
  BY DEF ExchangeType
<1>2. b \in Body
  BY <1>1 DEF Body, ExchangeType
<1>3. Aborted(x, why) = [y EXCEPT !.body = b]
  BY DEF Aborted
<1> HIDE DEF y, b
<1> QED
  BY <1>1, <1>2, <1>3, BodyType

LEMMA ThrowsType ==
    ASSUME NEW x \in ExchangeType, NEW err \in Outcome PROVE Throws(x, err) \in ExchangeType
BY OverType DEF Throws, Outcome

LEMMA ResetType == ASSUME NEW x \in ExchangeType PROVE Reset(x) \in ExchangeType
BY DEF Reset, ExchangeType

\* The steps of an exchange, one lemma each: the exchange stays one of the invariant and of
\* the same client.
LEMMA ReadWholeInv ==
    ASSUME ExchangeInv(exchange), ReadWhole
    PROVE  ExchangeInv(exchange') /\ SameParties
<1>1. exchange' \in ExchangeType
  BY DEF ReadWhole, Becomes, InPhase, ExchangeInv, ExchangeType, Reason, Body, Outcome
<1>2. ScopeInv(exchange')
  BY DEF ReadWhole, Becomes, InPhase, ExchangeInv, ExchangeType, Reason, Body, Outcome, ScopeInv
<1>3. BodyInv(exchange')
  BY DEF ReadWhole, Becomes, InPhase, ExchangeInv, ExchangeType, Reason, Body, Outcome, BodyInv
<1>4. OverInv(exchange')
  BY DEF ReadWhole, Becomes, InPhase, ExchangeInv, ExchangeType, Reason, Body, Outcome, ScopeInv, BodyInv, OverInv
<1>5. FetchInv(exchange')
  BY DEF ReadWhole, Becomes, InPhase, ExchangeInv, ExchangeType, Reason, Body, Outcome, FetchInv
<1>6. SameParties
  BY DEF ReadWhole, Becomes, InPhase, ExchangeInv, ExchangeType, Reason, Body, Outcome, SameParties
<1> QED
  BY <1>1, <1>2, <1>3, <1>4, <1>5, <1>6 DEF ExchangeInv

LEMMA WholeArrivesInv ==
    ASSUME ExchangeInv(exchange), WholeArrives
    PROVE  ExchangeInv(exchange') /\ SameParties
<1>1. exchange' \in ExchangeType
  BY DEF WholeArrives, Becomes, InPhase, Over, Disposed, ExchangeInv, ExchangeType, Reason, Body, Outcome
<1>2. ScopeInv(exchange')
  BY DEF WholeArrives, Becomes, InPhase, Over, Disposed, ExchangeInv, ExchangeType, Reason, Body, Outcome, ScopeInv
<1>3. BodyInv(exchange')
  BY DEF WholeArrives, Becomes, InPhase, Over, Disposed, ExchangeInv, ExchangeType, Reason, Body, Outcome, BodyInv
<1>4. OverInv(exchange')
  BY DEF WholeArrives, Becomes, InPhase, Over, Disposed, ExchangeInv, ExchangeType, Reason, Body, Outcome, ScopeInv, BodyInv, OverInv
<1>5. FetchInv(exchange')
  BY DEF WholeArrives, Becomes, InPhase, Over, Disposed, ExchangeInv, ExchangeType, Reason, Body, Outcome, FetchInv
<1>6. SameParties
  BY DEF WholeArrives, Becomes, InPhase, Over, Disposed, ExchangeInv, ExchangeType, Reason, Body, Outcome, SameParties
<1> QED
  BY <1>1, <1>2, <1>3, <1>4, <1>5, <1>6 DEF ExchangeInv

LEMMA BodyBreaksInv ==
    ASSUME ExchangeInv(exchange), BodyBreaks
    PROVE  ExchangeInv(exchange') /\ SameParties
<1>1. exchange' \in ExchangeType
  <2> DEFINE y == Throws(exchange, "network")
  <2>1. exchange \in ExchangeType
    BY DEF ExchangeInv
  <2>2. y \in ExchangeType
    BY <2>1, ThrowsType DEF Outcome
  <2>3. exchange' = [y EXCEPT !.body = "broken", !.pulling = FALSE]
    BY DEF BodyBreaks, Becomes
  <2> HIDE DEF y
  <2> QED
    BY <2>2, <2>3 DEF ExchangeType, Body
<1>2. ScopeInv(exchange')
  BY DEF BodyBreaks, Becomes, Throws, Over, Disposed, ExchangeInv, ExchangeType, Reason, Body, Outcome, ScopeInv
<1>3. BodyInv(exchange')
  BY DEF BodyBreaks, Becomes, Throws, Over, Disposed, ExchangeInv, ExchangeType, Reason, Body, Outcome, BodyInv
<1>4. OverInv(exchange')
  BY DEF BodyBreaks, Becomes, Throws, Over, Disposed, ExchangeInv, ExchangeType, Reason, Body, Outcome, ScopeInv, BodyInv, OverInv
<1>5. FetchInv(exchange')
  BY DEF BodyBreaks, Becomes, Throws, Over, Disposed, ExchangeInv, ExchangeType, Reason, Body, Outcome, FetchInv
<1>6. SameParties
  BY DEF BodyBreaks, Becomes, Throws, Over, Disposed, ExchangeInv, ExchangeType, Reason, Body, Outcome, SameParties
<1> QED
  BY <1>1, <1>2, <1>3, <1>4, <1>5, <1>6 DEF ExchangeInv

LEMMA OpenStreamInv ==
    ASSUME ExchangeInv(exchange), OpenStream
    PROVE  ExchangeInv(exchange') /\ SameParties
<1>1. exchange' \in ExchangeType
  BY DEF OpenStream, Becomes, InPhase, ExchangeInv, ExchangeType, Reason, Body, Outcome
<1>2. ScopeInv(exchange')
  BY DEF OpenStream, Becomes, InPhase, ExchangeInv, ExchangeType, Reason, Body, Outcome, ScopeInv
<1>3. BodyInv(exchange')
  BY DEF OpenStream, Becomes, InPhase, ExchangeInv, ExchangeType, Reason, Body, Outcome, BodyInv
<1>4. OverInv(exchange')
  BY DEF OpenStream, Becomes, InPhase, ExchangeInv, ExchangeType, Reason, Body, Outcome, ScopeInv, BodyInv, OverInv
<1>5. FetchInv(exchange')
  BY DEF OpenStream, Becomes, InPhase, ExchangeInv, ExchangeType, Reason, Body, Outcome, FetchInv
<1>6. SameParties
  BY DEF OpenStream, Becomes, InPhase, ExchangeInv, ExchangeType, Reason, Body, Outcome, SameParties
<1> QED
  BY <1>1, <1>2, <1>3, <1>4, <1>5, <1>6 DEF ExchangeInv

LEMMA PullInv ==
    ASSUME ExchangeInv(exchange), Pull
    PROVE  ExchangeInv(exchange') /\ SameParties
<1>1. exchange' \in ExchangeType
  BY DEF Pull, Becomes, InPhase, ExchangeInv, ExchangeType, Reason, Body, Outcome
<1>2. ScopeInv(exchange')
  BY DEF Pull, Becomes, InPhase, ExchangeInv, ExchangeType, Reason, Body, Outcome, ScopeInv
<1>3. BodyInv(exchange')
  BY DEF Pull, Becomes, InPhase, ExchangeInv, ExchangeType, Reason, Body, Outcome, BodyInv
<1>4. OverInv(exchange')
  BY DEF Pull, Becomes, InPhase, ExchangeInv, ExchangeType, Reason, Body, Outcome, ScopeInv, BodyInv, OverInv
<1>5. FetchInv(exchange')
  BY DEF Pull, Becomes, InPhase, ExchangeInv, ExchangeType, Reason, Body, Outcome, FetchInv
<1>6. SameParties
  BY DEF Pull, Becomes, InPhase, ExchangeInv, ExchangeType, Reason, Body, Outcome, SameParties
<1> QED
  BY <1>1, <1>2, <1>3, <1>4, <1>5, <1>6 DEF ExchangeInv

LEMMA ConsumeInv ==
    ASSUME ExchangeInv(exchange), Consume
    PROVE  ExchangeInv(exchange') /\ SameParties
<1>1. exchange' \in ExchangeType
  BY DEF Consume, Becomes, InPhase, ExchangeInv, ExchangeType, Reason, Body, Outcome
<1>2. ScopeInv(exchange')
  BY DEF Consume, Becomes, InPhase, ExchangeInv, ExchangeType, Reason, Body, Outcome, ScopeInv
<1>3. BodyInv(exchange')
  BY DEF Consume, Becomes, InPhase, ExchangeInv, ExchangeType, Reason, Body, Outcome, BodyInv
<1>4. OverInv(exchange')
  BY DEF Consume, Becomes, InPhase, ExchangeInv, ExchangeType, Reason, Body, Outcome, ScopeInv, BodyInv, OverInv
<1>5. FetchInv(exchange')
  BY DEF Consume, Becomes, InPhase, ExchangeInv, ExchangeType, Reason, Body, Outcome, FetchInv
<1>6. SameParties
  BY DEF Consume, Becomes, InPhase, ExchangeInv, ExchangeType, Reason, Body, Outcome, SameParties
<1> QED
  BY <1>1, <1>2, <1>3, <1>4, <1>5, <1>6 DEF ExchangeInv

LEMMA CancelInv ==
    ASSUME ExchangeInv(exchange), Cancel
    PROVE  ExchangeInv(exchange') /\ SameParties
<1>1. exchange' \in ExchangeType
  <2> DEFINE y == Over(exchange, "cancelled")
             b == IF y.body = "open" THEN "cancelled" ELSE y.body
             z == [y EXCEPT !.body = b]
  <2>1. exchange \in ExchangeType
    BY DEF ExchangeInv
  <2>2. y \in ExchangeType
    BY <2>1, OverType DEF Outcome
  <2>3. z \in ExchangeType
    <3>1. b \in Body
      BY <2>2 DEF ExchangeType, Body
    <3> HIDE DEF b, y
    <3> QED
      BY <2>2, <3>1, BodyType
  <2>4. exchange' = [z EXCEPT !.queued = FALSE, !.late = exchange.arrived = "chunk"]
    BY DEF Cancel, Becomes
  <2> HIDE DEF z
  <2> QED
    BY <2>3, <2>4 DEF ExchangeType
<1>2. ScopeInv(exchange')
  BY DEF Cancel, Becomes, InPhase, Over, Disposed, ExchangeInv, ExchangeType, Reason, Body, Outcome, ScopeInv
<1>3. BodyInv(exchange')
  BY DEF Cancel, Becomes, InPhase, Over, Disposed, ExchangeInv, ExchangeType, Reason, Body, Outcome, BodyInv
<1>4. OverInv(exchange')
  BY DEF Cancel, Becomes, InPhase, Over, Disposed, ExchangeInv, ExchangeType, Reason, Body, Outcome, ScopeInv, BodyInv, OverInv
<1>5. FetchInv(exchange')
  BY DEF Cancel, Becomes, InPhase, Over, Disposed, ExchangeInv, ExchangeType, Reason, Body, Outcome, FetchInv
<1>6. SameParties
  BY DEF Cancel, Becomes, InPhase, Over, Disposed, ExchangeInv, ExchangeType, Reason, Body, Outcome, SameParties
<1> QED
  BY <1>1, <1>2, <1>3, <1>4, <1>5, <1>6 DEF ExchangeInv

LEMMA ReadAbortedInv ==
    ASSUME ExchangeInv(exchange), ReadAborted
    PROVE  ExchangeInv(exchange') /\ SameParties
<1>1. exchange' \in ExchangeType
  <2> DEFINE y == Throws(exchange, exchange.reason)
  <2>1. exchange \in ExchangeType
    BY DEF ExchangeInv
  <2>2. y \in ExchangeType
    BY <2>1, ThrowsType DEF Outcome, ExchangeType, Reason
  <2>3. exchange' = [y EXCEPT !.pulling = FALSE]
    BY DEF ReadAborted, Becomes
  <2> HIDE DEF y
  <2> QED
    BY <2>2, <2>3 DEF ExchangeType
<1>2. ScopeInv(exchange')
  BY DEF ReadAborted, Becomes, Throws, Over, Disposed, ExchangeInv, ExchangeType, Reason, Body, Outcome, ScopeInv
<1>3. BodyInv(exchange')
  BY DEF ReadAborted, Becomes, Throws, Over, Disposed, ExchangeInv, ExchangeType, Reason, Body, Outcome, BodyInv
<1>4. OverInv(exchange')
  BY DEF ReadAborted, Becomes, Throws, Over, Disposed, ExchangeInv, ExchangeType, Reason, Body, Outcome, ScopeInv, BodyInv, OverInv
<1>5. FetchInv(exchange')
  BY DEF ReadAborted, Becomes, Throws, Over, Disposed, ExchangeInv, ExchangeType, Reason, Body, Outcome, FetchInv
<1>6. SameParties
  BY DEF ReadAborted, Becomes, Throws, Over, Disposed, ExchangeInv, ExchangeType, Reason, Body, Outcome, SameParties
<1> QED
  BY <1>1, <1>2, <1>3, <1>4, <1>5, <1>6 DEF ExchangeInv

LEMMA TimerFiresInv ==
    ASSUME ExchangeInv(exchange), TimerFires
    PROVE  ExchangeInv(exchange') /\ SameParties
<1>1. exchange' \in ExchangeType
  <2> DEFINE y == Aborted(exchange, "timeout")
  <2>1. exchange \in ExchangeType
    BY DEF ExchangeInv
  <2>2. y \in ExchangeType
    BY <2>1, AbortedType DEF Reason
  <2>3. exchange' = [y EXCEPT !.timer = FALSE, !.expired = TRUE]
    BY DEF TimerFires, Becomes
  <2> HIDE DEF y
  <2> QED
    BY <2>2, <2>3 DEF ExchangeType
<1>2. ScopeInv(exchange')
  BY DEF TimerFires, Becomes, Aborted, ExchangeInv, ExchangeType, Reason, Body, Outcome, ScopeInv
<1>3. BodyInv(exchange')
  BY DEF TimerFires, Becomes, Aborted, ExchangeInv, ExchangeType, Reason, Body, Outcome, BodyInv
<1>4. OverInv(exchange')
  BY DEF TimerFires, Becomes, Aborted, ExchangeInv, ExchangeType, Reason, Body, Outcome, ScopeInv, BodyInv, OverInv
<1>5. FetchInv(exchange')
  BY DEF TimerFires, Becomes, Aborted, ExchangeInv, ExchangeType, Reason, Body, Outcome, FetchInv
<1>6. SameParties
  BY DEF TimerFires, Becomes, Aborted, ExchangeInv, ExchangeType, Reason, Body, Outcome, SameParties
<1> QED
  BY <1>1, <1>2, <1>3, <1>4, <1>5, <1>6 DEF ExchangeInv

LEMMA CallerAbortsInv ==
    ASSUME ExchangeInv(exchange), CallerAborts
    PROVE  ExchangeInv(exchange') /\ SameParties
<1>1. exchange' \in ExchangeType
  <2> DEFINE x == [exchange EXCEPT !.aborted = TRUE]
             y == Aborted(x, "abort")
  <2>1. exchange \in ExchangeType
    BY DEF ExchangeInv
  <2>2. x \in ExchangeType
    BY <2>1 DEF ExchangeType
  <2>3. y \in ExchangeType
    BY <2>2, AbortedType DEF Reason
  <2>4. exchange' \in {x, y, [y EXCEPT !.timer = FALSE, !.listening = FALSE]}
    BY DEF CallerAborts, Becomes, UpstreamAborts
  <2>5. [y EXCEPT !.timer = FALSE, !.listening = FALSE] \in ExchangeType
    <3> HIDE DEF y
    <3> QED
      BY <2>3 DEF ExchangeType
  <2> HIDE DEF x, y
  <2> QED
    BY <2>2, <2>3, <2>4, <2>5
<1>2. ScopeInv(exchange')
  BY DEF CallerAborts, Becomes, Aborted, UpstreamAborts, ExchangeInv, ExchangeType, Reason, Body, Outcome, ScopeInv
<1>3. BodyInv(exchange')
  BY DEF CallerAborts, Becomes, Aborted, UpstreamAborts, ExchangeInv, ExchangeType, Reason, Body, Outcome, BodyInv
<1>4. OverInv(exchange')
  BY DEF CallerAborts, Becomes, Aborted, UpstreamAborts, ExchangeInv, ExchangeType, Reason, Body, Outcome, ScopeInv, BodyInv, OverInv
<1>5. FetchInv(exchange')
  BY DEF CallerAborts, Becomes, Aborted, UpstreamAborts, ExchangeInv, ExchangeType, Reason, Body, Outcome, FetchInv
<1>6. SameParties
  BY DEF CallerAborts, Becomes, Aborted, UpstreamAborts, ExchangeInv, ExchangeType, Reason, Body, Outcome, SameParties
<1> QED
  BY <1>1, <1>2, <1>3, <1>4, <1>5, <1>6 DEF ExchangeInv

LEMMA FetchFailsInv ==
    ASSUME ExchangeInv(exchange), FetchFails
    PROVE  ExchangeInv(exchange') /\ SameParties
<1>1. exchange' \in ExchangeType
  <2>1. exchange \in ExchangeType
    BY DEF ExchangeInv
  <2>2. PICK err \in Outcome : exchange' = Throws(exchange, err)
    BY <2>1 DEF FetchFails, Becomes, ExchangeType, Reason, Outcome
  <2> QED
    BY <2>1, <2>2, ThrowsType
<1>2. ScopeInv(exchange')
  BY DEF FetchFails, Becomes, InPhase, Throws, Over, Disposed, ExchangeInv, ExchangeType, Reason, Body, Outcome, ScopeInv
<1>3. BodyInv(exchange')
  BY DEF FetchFails, Becomes, InPhase, Throws, Over, Disposed, ExchangeInv, ExchangeType, Reason, Body, Outcome, BodyInv
<1>4. OverInv(exchange')
  BY DEF FetchFails, Becomes, InPhase, Throws, Over, Disposed, ExchangeInv, ExchangeType, Reason, Body, Outcome, ScopeInv, BodyInv, OverInv
<1>5. FetchInv(exchange')
  BY DEF FetchFails, Becomes, InPhase, Throws, Over, Disposed, ExchangeInv, ExchangeType, Reason, Body, Outcome, FetchInv
<1>6. SameParties
  BY DEF FetchFails, Becomes, InPhase, Throws, Over, Disposed, ExchangeInv, ExchangeType, Reason, Body, Outcome, SameParties
<1> QED
  BY <1>1, <1>2, <1>3, <1>4, <1>5, <1>6 DEF ExchangeInv

LEMMA ArrivesInv ==
    ASSUME ExchangeInv(exchange), NEW what \in {"chunk", "end"}, Arrives(what)
    PROVE  ExchangeInv(exchange') /\ SameParties
<1>1. exchange' \in ExchangeType
  BY DEF Arrives, Becomes, InPhase, ExchangeInv, ExchangeType, Reason, Body, Outcome
<1>2. ScopeInv(exchange')
  BY DEF Arrives, Becomes, InPhase, ExchangeInv, ExchangeType, Reason, Body, Outcome, ScopeInv
<1>3. BodyInv(exchange')
  BY DEF Arrives, Becomes, InPhase, ExchangeInv, ExchangeType, Reason, Body, Outcome, BodyInv
<1>4. OverInv(exchange')
  BY DEF Arrives, Becomes, InPhase, ExchangeInv, ExchangeType, Reason, Body, Outcome, ScopeInv, BodyInv, OverInv
<1>5. FetchInv(exchange')
  BY DEF Arrives, Becomes, InPhase, ExchangeInv, ExchangeType, Reason, Body, Outcome, FetchInv
<1>6. SameParties
  BY DEF Arrives, Becomes, InPhase, ExchangeInv, ExchangeType, Reason, Body, Outcome, SameParties
<1> QED
  BY <1>1, <1>2, <1>3, <1>4, <1>5, <1>6 DEF ExchangeInv

LEMMA AnswerArrivesInv ==
    ASSUME ExchangeInv(exchange), NEW body \in {"null", "open"}, AnswerArrives(body)
    PROVE  ExchangeInv(exchange') /\ SameParties
<1>1. exchange' \in ExchangeType
  <2> DEFINE y == IF body = "null" THEN Disposed(exchange) ELSE exchange
  <2>1. exchange \in ExchangeType
    BY DEF ExchangeInv
  <2>2. y \in ExchangeType
    BY <2>1, DisposedType
  <2>3. exchange' = [y EXCEPT !.phase = "answered", !.body = body]
    BY DEF AnswerArrives, Becomes
  <2> HIDE DEF y
  <2> QED
    BY <2>2, <2>3 DEF ExchangeType, Body
<1>2. ScopeInv(exchange')
  BY DEF AnswerArrives, Becomes, InPhase, Disposed, ExchangeInv, ExchangeType, Reason, Body, Outcome, ScopeInv
<1>3. BodyInv(exchange')
  BY DEF AnswerArrives, Becomes, InPhase, Disposed, ExchangeInv, ExchangeType, Reason, Body, Outcome, BodyInv
<1>4. OverInv(exchange')
  BY DEF AnswerArrives, Becomes, InPhase, Disposed, ExchangeInv, ExchangeType, Reason, Body, Outcome, ScopeInv, BodyInv, OverInv
<1>5. FetchInv(exchange')
  BY DEF AnswerArrives, Becomes, InPhase, Disposed, ExchangeInv, ExchangeType, Reason, Body, Outcome, FetchInv
<1>6. SameParties
  BY DEF AnswerArrives, Becomes, InPhase, Disposed, ExchangeInv, ExchangeType, Reason, Body, Outcome, SameParties
<1> QED
  BY <1>1, <1>2, <1>3, <1>4, <1>5, <1>6 DEF ExchangeInv

LEMMA RedirectArrivesInv ==
    ASSUME ExchangeInv(exchange), NEW location \in Url \cup {NoUrl}, RedirectArrives(location)
    PROVE  ExchangeInv(exchange') /\ SameParties
<1>1. exchange' \in ExchangeType
  BY MaxRedirectsAssumption DEF RedirectArrives, Becomes, InPhase, MayFollow, ExchangeInv, ExchangeType, Reason, Body, Outcome
<1>2. ScopeInv(exchange')
  BY MaxRedirectsAssumption DEF RedirectArrives, Becomes, InPhase, MayFollow, ExchangeInv, ExchangeType, Reason, Body, Outcome, ScopeInv
<1>3. BodyInv(exchange')
  BY MaxRedirectsAssumption DEF RedirectArrives, Becomes, InPhase, MayFollow, ExchangeInv, ExchangeType, Reason, Body, Outcome, BodyInv
<1>4. OverInv(exchange')
  BY MaxRedirectsAssumption DEF RedirectArrives, Becomes, InPhase, MayFollow, ExchangeInv, ExchangeType, Reason, Body, Outcome, ScopeInv, BodyInv, OverInv
<1>5. FetchInv(exchange')
  BY MaxRedirectsAssumption DEF RedirectArrives, Becomes, InPhase, MayFollow, ExchangeInv, ExchangeType, Reason, Body, Outcome, FetchInv
<1>6. SameParties
  BY DEF RedirectArrives, Becomes, InPhase, MayFollow, ExchangeInv, ExchangeType, Reason, Body, Outcome, SameParties
<1> QED
  BY <1>1, <1>2, <1>3, <1>4, <1>5, <1>6 DEF ExchangeInv

LEMMA PullGoesOnInv ==
    ASSUME ExchangeInv(exchange), PullGoesOn PROVE ExchangeInv(exchange') /\ SameParties
<1> DEFINE x == [exchange EXCEPT !.arrived = "nothing", !.pulling = FALSE]
<1>0. x \in ExchangeType
  BY DEF ExchangeInv, ExchangeType
<1>1. CASE exchange.phase = "streaming" /\ exchange.arrived = "chunk"
  <2>1. exchange' = [Reset(x) EXCEPT !.queued = TRUE]
    BY <1>1 DEF PullGoesOn, Becomes, InPhase
  <2>2. exchange' \in ExchangeType
    <3> HIDE DEF x
    <3>1. Reset(x) \in ExchangeType
      BY <1>0, ResetType
    <3> QED
      BY <2>1, <3>1 DEF ExchangeType
  <2>3. ScopeInv(exchange')
    BY <1>1, <2>1 DEF Reset, ExchangeInv, ExchangeType, Reason, Body, Outcome, ScopeInv
  <2>4. BodyInv(exchange')
    BY <1>1, <2>1 DEF Reset, ExchangeInv, ExchangeType, Reason, Body, Outcome, BodyInv
  <2>5. OverInv(exchange')
    BY <1>1, <2>1 DEF Reset, ExchangeInv, ExchangeType, Reason, Body, Outcome, ScopeInv, BodyInv, OverInv
  <2>6. FetchInv(exchange')
    BY <1>1, <2>1 DEF Reset, ExchangeInv, ExchangeType, Reason, Body, Outcome, FetchInv
  <2>7. SameParties
    BY <1>1, <2>1 DEF Reset, ExchangeInv, ExchangeType, Reason, Body, Outcome, SameParties
  <2> QED
    BY <2>2, <2>3, <2>4, <2>5, <2>6, <2>7 DEF ExchangeInv
<1>2. CASE exchange.phase = "streaming" /\ exchange.arrived = "end"
  <2>1. exchange' = Over(x, "ok")
    BY <1>2 DEF PullGoesOn, Becomes, InPhase
  <2>2. exchange' \in ExchangeType
    BY <1>2, <2>1, ZenonT(60) DEF Over, Disposed, ExchangeInv, ExchangeType, Reason, Body, Outcome
  <2>3. ScopeInv(exchange')
    BY <1>2, <2>1 DEF Over, Disposed, ExchangeInv, ExchangeType, Reason, Body, Outcome, ScopeInv
  <2>4. BodyInv(exchange')
    BY <1>2, <2>1 DEF Over, Disposed, ExchangeInv, ExchangeType, Reason, Body, Outcome, BodyInv
  <2>5. OverInv(exchange')
    BY <1>2, <2>1 DEF Over, Disposed, ExchangeInv, ExchangeType, Reason, Body, Outcome, ScopeInv, BodyInv, OverInv
  <2>6. FetchInv(exchange')
    BY <1>2, <2>1 DEF Over, Disposed, ExchangeInv, ExchangeType, Reason, Body, Outcome, FetchInv
  <2>7. SameParties
    BY <1>2, <2>1 DEF Over, Disposed, ExchangeInv, ExchangeType, Reason, Body, Outcome, SameParties
  <2> QED
    BY <2>2, <2>3, <2>4, <2>5, <2>6, <2>7 DEF ExchangeInv
<1>3. CASE exchange.phase = "over" /\ exchange.arrived = "chunk"
  <2>1. exchange' = Reset(x)
    BY <1>3 DEF PullGoesOn, Becomes, InPhase
  <2>2. exchange' \in ExchangeType
    BY <1>0, <2>1, ResetType
  <2>3. ScopeInv(exchange')
    BY <1>3, <2>1 DEF Reset, ExchangeInv, ExchangeType, Reason, Body, Outcome, ScopeInv
  <2>4. BodyInv(exchange')
    BY <1>3, <2>1 DEF Reset, ExchangeInv, ExchangeType, Reason, Body, Outcome, BodyInv
  <2>5. OverInv(exchange')
    BY <1>3, <2>1 DEF Reset, ExchangeInv, ExchangeType, Reason, Body, Outcome, ScopeInv, BodyInv, OverInv
  <2>6. FetchInv(exchange')
    BY <1>3, <2>1 DEF Reset, ExchangeInv, ExchangeType, Reason, Body, Outcome, FetchInv
  <2>7. SameParties
    BY <1>3, <2>1 DEF Reset, ExchangeInv, ExchangeType, Reason, Body, Outcome, SameParties
  <2> QED
    BY <2>2, <2>3, <2>4, <2>5, <2>6, <2>7 DEF ExchangeInv
<1>4. CASE exchange.phase = "over" /\ exchange.arrived = "end"
  <2>1. exchange' = x
    BY <1>4 DEF PullGoesOn, Becomes, InPhase
  <2>2. exchange' \in ExchangeType
    BY <1>4, <2>1 DEF ExchangeInv, ExchangeType, Reason, Body, Outcome
  <2>3. ScopeInv(exchange')
    BY <1>4, <2>1 DEF ExchangeInv, ExchangeType, Reason, Body, Outcome, ScopeInv
  <2>4. BodyInv(exchange')
    BY <1>4, <2>1 DEF ExchangeInv, ExchangeType, Reason, Body, Outcome, BodyInv
  <2>5. OverInv(exchange')
    BY <1>4, <2>1 DEF ExchangeInv, ExchangeType, Reason, Body, Outcome, ScopeInv, BodyInv, OverInv
  <2>6. FetchInv(exchange')
    BY <1>4, <2>1 DEF ExchangeInv, ExchangeType, Reason, Body, Outcome, FetchInv
  <2>7. SameParties
    BY <1>4, <2>1 DEF ExchangeInv, ExchangeType, Reason, Body, Outcome, SameParties
  <2> QED
    BY <2>2, <2>3, <2>4, <2>5, <2>6, <2>7 DEF ExchangeInv
<1>5. exchange.phase \in {"streaming", "over"} /\ exchange.arrived \in {"chunk", "end"}
  BY DEF PullGoesOn, ExchangeInv, ExchangeType, Reason, Body, Outcome, BodyInv
<1> QED
  BY <1>1, <1>2, <1>3, <1>4, <1>5

\* An exchange about to send a request: nothing of the last fetch is left.
Ready(x) ==
    /\ x.body = "none" /\ x.arrived = "nothing" /\ x.outcome = "none" /\ x.phase # "over"
    /\ ~ x.strayed /\ ScopeInv(x)
    /\ x.method = "POST" => x.fetched = <<>>
    /\ Len(x.fetched) <= MaxRedirects

\* A guard that is locked to the realm of a client lets nothing through that leaves it.
LEMMA GuardedStaysInRealm ==
    ASSUME NEW x \in ExchangeType, GuardInv, client[x.by] = {x.of}, Checked(x)
    PROVE  ~ Stray(x)
<1> SUFFICES ASSUME held[x.by] # Nothing, held[x.by].auth = lastSet[x.by], AlsoAllowed[x.of] # {}
             PROVE  InRealm(x.of, x.url)
  BY DEF Stray
<1>1. x.by \in Process /\ x.of \in client[x.by]
  BY DEF ExchangeType
<1>2. guard[x.by][x.of] = Locked(x.of, RealmOf[x.of])
  BY <1>1 DEF GuardInv, LockedInv
<1> DEFINE realm == Derived(RealmOf[x.of])
<1>3. Locked(x.of, RealmOf[x.of]) =
        realm \cup (IF AlsoAllowed[x.of] = Unset THEN {} ELSE AlsoAllowed[x.of])
  BY DEF Locked
<1>4. Locked(x.of, RealmOf[x.of]) # Open
  <2>1. PodDomain \in realm
    BY DEF Derived
  <2> QED
    BY <1>3, <2>1 DEF Open
<1> HIDE DEF realm
<1> QED
  BY <1>2, <1>3, <1>4 DEF Checked, Allows, InRealm, realm

\* A new scope arms the timer unless the caller has aborted, and touches nothing else.
LEMMA ScopedFacts ==
    ASSUME NEW x \in ExchangeType, NEW y, y = Scoped(x)
    PROVE  /\ y \in ExchangeType
           /\ y.timer => y.timed /\ y.reason = "none"
           /\ ~ y.expired /\ (y.reason # "none" => x.aborted)
           /\ y.by = x.by /\ y.of = x.of /\ y.method = x.method /\ y.url = x.url
           /\ y.body = x.body /\ y.arrived = x.arrived /\ y.outcome = x.outcome
           /\ y.fetched = x.fetched /\ y.strayed = x.strayed /\ y.next = x.next
<1> DEFINE runs == x.timed /\ ~ x.aborted
           z == [x EXCEPT !.timer = runs, !.listening = runs]
           r == IF x.aborted THEN "abort" ELSE "none"
<1>1. y \in ExchangeType
  <2>1. runs \in BOOLEAN /\ r \in Reason
    BY DEF Reason
  <2>2. z \in ExchangeType
    <3> HIDE DEF runs
    <3> QED
      BY <2>1 DEF ExchangeType
  <2>3. y = [z EXCEPT !.expired = FALSE, !.reason = r]
    BY DEF Scoped
  <2> HIDE DEF z, r
  <2> QED
    BY <2>1, <2>2, <2>3 DEF ExchangeType
<1>2. /\ y.timer => y.timed /\ y.reason = "none"
      /\ ~ y.expired /\ (y.reason # "none" => x.aborted)
  BY DEF Scoped, ExchangeType
<1>3. /\ y.by = x.by /\ y.of = x.of /\ y.method = x.method /\ y.url = x.url
      /\ y.body = x.body /\ y.arrived = x.arrived /\ y.outcome = x.outcome
      /\ y.fetched = x.fetched /\ y.strayed = x.strayed /\ y.next = x.next
  BY DEF Scoped, ExchangeType
<1> QED
  BY <1>1, <1>2, <1>3

\* A request that the guard has passed goes nowhere it may not, and one it refuses ends.
LEMMA FetchKeepsInv ==
    ASSUME NEW x \in ExchangeType, Ready(x), GuardInv, client[x.by] = {x.of}, NEW y, y = Fetch(x)
    PROVE  ExchangeInv(y) /\ y.by = x.by /\ y.of = x.of
<1>1. CASE Checked(x)
  <2> DEFINE z == Scoped(x)
  <2>1. y = [z EXCEPT !.phase = "fetching", !.fetched = Append(@, x.url), !.strayed = @ \/ Stray(x)]
    BY <1>1 DEF Fetch
  <2>2. ~ Stray(x)
    BY <1>1, GuardedStaysInRealm
  <2>3. /\ z \in ExchangeType
        /\ z.timer => z.timed /\ z.reason = "none"
        /\ ~ z.expired
        /\ z.by = x.by /\ z.of = x.of /\ z.method = x.method /\ z.url = x.url
        /\ z.body = x.body /\ z.arrived = x.arrived /\ z.outcome = x.outcome
        /\ z.fetched = x.fetched /\ z.strayed = x.strayed
    BY ScopedFacts
  <2> HIDE DEF z
  <2>4. Append(z.fetched, x.url) \in Seq(Url) /\ Len(Append(z.fetched, x.url)) = Len(x.fetched) + 1
    BY <2>3 DEF ExchangeType
  <2>5. y \in ExchangeType
    <3>1. y = [z EXCEPT !.phase = "fetching", !.fetched = Append(z.fetched, x.url), !.strayed = FALSE]
      BY <2>1, <2>2, <2>3 DEF Ready
    <3> QED
      BY <2>3, <2>4, <3>1, ZenonT(60) DEF ExchangeType
  <2>6. /\ y.phase = "fetching" /\ y.fetched = Append(z.fetched, x.url) /\ y.strayed = (z.strayed \/ Stray(x))
        /\ y.timer = z.timer /\ y.timed = z.timed /\ y.reason = z.reason /\ y.expired = z.expired
        /\ y.body = z.body /\ y.arrived = z.arrived /\ y.outcome = z.outcome /\ y.method = z.method
        /\ y.by = z.by /\ y.of = z.of
    BY <2>1, <2>3 DEF ExchangeType
  <2>7. ScopeInv(y) /\ BodyInv(y) /\ OverInv(y)
    BY <2>3, <2>6 DEF Ready, ScopeInv, BodyInv, OverInv
  <2>8. FetchInv(y)
    <3>1. Len(x.fetched) \in Nat /\ (x.fetched = <<>> => Len(x.fetched) = 0)
      BY DEF ExchangeType
    <3>2. Len(y.fetched) = Len(x.fetched) + 1
      BY <2>4, <2>6
    <3>3. ~ y.strayed /\ y.phase = "fetching" /\ y.method = x.method
      BY <2>2, <2>3, <2>6 DEF Ready
    <3> QED
      BY <3>1, <3>2, <3>3, MaxRedirectsAssumption DEF Ready, FetchInv
  <2> QED
    BY <2>3, <2>5, <2>6, <2>7, <2>8 DEF ExchangeInv
<1>2. CASE ~ Checked(x)
  <2>1. y = Over(x, "refused")
    BY <1>2 DEF Fetch
  <2>2. y \in ExchangeType
    BY <2>1, OverType DEF Outcome
  <2>3. /\ y.phase = "over" /\ ~ y.listening /\ ~ y.timer /\ y.outcome = "refused"
        /\ y.body = x.body /\ y.arrived = x.arrived /\ y.reason = x.reason /\ y.expired = x.expired
        /\ y.by = x.by /\ y.of = x.of /\ y.method = x.method /\ y.fetched = x.fetched /\ y.strayed = x.strayed
    BY <2>1 DEF Over, Disposed, ExchangeType
  <2>4. ScopeInv(y) /\ BodyInv(y) /\ OverInv(y)
    BY <2>3 DEF Ready, ScopeInv, BodyInv, OverInv
  <2>5. FetchInv(y)
    <3>1. Len(x.fetched) \in Nat /\ (x.fetched = <<>> => Len(x.fetched) = 0)
      BY DEF ExchangeType
    <3> QED
      BY <2>3, <3>1, MaxRedirectsAssumption DEF Ready, FetchInv
  <2> QED
    BY <2>2, <2>3, <2>4, <2>5 DEF ExchangeInv
<1> QED
  BY <1>1, <1>2

\* The first request, and below the one that follows a redirect once the body is cancelled.
LEMMA SendInv ==
    ASSUME TypeOK, GuardInv, NEW p \in Process, NEW c \in ClientsOf[p], NEW method \in {"GET", "POST"},
           NEW url \in Url, NEW timed \in BOOLEAN, NEW follow \in BOOLEAN,
           Send(p, c, method, url, timed, follow)
    PROVE  ExchangeInv(exchange') /\ client[exchange'.by] = {exchange'.of}
<1> DEFINE x == [by |-> p, of |-> c, phase |-> "idle", method |-> method, url |-> url,
                 timed |-> timed, follow |-> follow, aborted |-> FALSE, next |-> NoUrl,
                 fetched |-> <<>>, strayed |-> FALSE, timer |-> FALSE, listening |-> FALSE,
                 expired |-> FALSE, reason |-> "none", body |-> "none", pulling |-> FALSE,
                 arrived |-> "nothing", queued |-> FALSE, late |-> FALSE, outcome |-> "none"]
<1>1. x \in ExchangeType
  <2>1. c \in Client
    BY ClientsAssumption
  <2> QED
    BY <2>1 DEF ExchangeType, Reason, Body, Outcome
<1>2. Ready(x) /\ x.by = p /\ x.of = c
  BY MaxRedirectsAssumption DEF Ready, ScopeInv
<1>3. exchange' = Fetch(x) /\ client[p] = {c}
  BY DEF Send
<1> HIDE DEF x
<1> QED
  BY <1>1, <1>2, <1>3, FetchKeepsInv

LEMMA BodyCancelledInv ==
    ASSUME ExchangeInv(exchange), GuardInv, client[exchange.by] = {exchange.of}, BodyCancelled
    PROVE  ExchangeInv(exchange') /\ SameParties
<1>0. exchange \in ExchangeType /\ exchange.phase = "cancelling"
  BY DEF ExchangeInv, BodyCancelled, InPhase
<1>1. CASE exchange.next = NoUrl
  <2>1. exchange' = Over(exchange, "redirect")
    BY <1>1 DEF BodyCancelled, Becomes
  <2>2. exchange' \in ExchangeType
    BY <1>0, <2>1, OverType DEF Outcome
  <2>3. ScopeInv(exchange')
    BY <1>0, <2>1 DEF Over, Disposed, ExchangeInv, ExchangeType, ScopeInv
  <2>4. BodyInv(exchange')
    BY <1>0, <2>1 DEF Over, Disposed, ExchangeInv, ExchangeType, BodyInv
  <2>5. OverInv(exchange')
    BY <1>0, <2>1 DEF Over, Disposed, ExchangeInv, ExchangeType, BodyInv, OverInv
  <2>6. FetchInv(exchange')
    BY <1>0, <2>1 DEF Over, Disposed, ExchangeInv, ExchangeType, FetchInv
  <2>7. SameParties
    BY <1>0, <2>1 DEF Over, Disposed, ExchangeType, SameParties
  <2> QED
    BY <2>2, <2>3, <2>4, <2>5, <2>6, <2>7 DEF ExchangeInv
<1>2. CASE exchange.next # NoUrl
  <2> DEFINE x == [Disposed(exchange) EXCEPT !.url = exchange.next, !.next = NoUrl]
  <2>1. exchange' = Fetch(x)
    BY <1>2 DEF BodyCancelled, Becomes
  <2>2. x \in ExchangeType
    <3> DEFINE y == Disposed(exchange)
               z == [y EXCEPT !.url = exchange.next]
    <3>1. y \in ExchangeType
      BY <1>0, DisposedType
    <3>2. exchange.next \in Url
      BY <1>0, <1>2 DEF ExchangeType
    <3>3. z \in ExchangeType
      <4> HIDE DEF y
      <4> QED
        BY <3>1, <3>2 DEF ExchangeType
    <3>4. x = [z EXCEPT !.next = NoUrl]
      OBVIOUS
    <3> HIDE DEF z
    <3> QED
      BY <3>3, <3>4, ZenonT(60) DEF ExchangeType
  <2>3. /\ x.by = exchange.by /\ x.of = exchange.of /\ ~ x.timer
        /\ x.body = exchange.body /\ x.arrived = exchange.arrived /\ x.outcome = exchange.outcome
        /\ x.phase = exchange.phase /\ x.strayed = exchange.strayed /\ x.method = exchange.method
        /\ x.fetched = exchange.fetched /\ x.reason = exchange.reason /\ x.expired = exchange.expired
    BY <1>0 DEF Disposed, ExchangeType
  <2>4. Ready(x)
    <3>1. exchange.body = "none" /\ exchange.arrived = "nothing" /\ exchange.outcome = "none"
      BY <1>0 DEF ExchangeInv, ExchangeType, BodyInv, OverInv
    <3>2. exchange.method = "GET" /\ Len(exchange.fetched) <= MaxRedirects /\ ~ exchange.strayed
      BY <1>0, <1>2 DEF ExchangeInv, FetchInv
    <3>3. exchange.expired => exchange.reason = "timeout"
      BY DEF ExchangeInv, ScopeInv
    <3> QED
      BY <1>0, <2>3, <3>1, <3>2, <3>3 DEF Ready, ScopeInv
  <2> HIDE DEF x
  <2> QED
    BY <2>1, <2>2, <2>3, <2>4, FetchKeepsInv DEF SameParties
<1> QED
  BY <1>1, <1>2

-----------------------------------------------------------------------------
(* The steps of a client.                                                  *)

\* What a client does to its store is a step of the store.
LEMMA ClientStepOfStore == ClientNext => [Next]_vars
<1> SUFFICES ASSUME ClientNext PROVE Next \/ UNCHANGED vars
  OBVIOUS
<1>1. ASSUME NEW p \in Process, StoreStep(p) PROVE Next
  BY <1>1 DEF StoreStep, CrashClient, Construct, Next
<1>2. ASSUME NEW p \in Process, NEW c \in ClientsOf[p], AuthorizeClient(p, c) PROVE Next
  BY <1>2 DEF AuthorizeClient, Next
<1>3. ASSUME NEW p \in Process, NEW c \in ClientsOf[p], NEW method \in {"GET", "POST"}, NEW url \in Url,
             NEW timed \in BOOLEAN, NEW follow \in BOOLEAN, Send(p, c, method, url, timed, follow)
      PROVE  UNCHANGED vars
  BY <1>3 DEF Send
<1>4. ASSUME ExchangeStep PROVE UNCHANGED vars
  BY <1>4 DEF ExchangeStep, FetchFails, BodyCancelled, ReadWhole, WholeArrives, BodyBreaks, OpenStream,
              Pull, PullGoesOn, Consume, Cancel, ReadAborted, TimerFires, CallerAborts, RedirectArrives,
              AnswerArrives, Arrives, Becomes
<1> QED
  BY <1>1, <1>2, <1>3, <1>4 DEF ClientNext

\* ... and an exchange leaves the guard alone.
LEMMA ExchangeLeavesGuard ==
    ASSUME ExchangeStep \/ \E p \in Process : \E c \in ClientsOf[p] :
               \E method \in {"GET", "POST"}, url \in Url, timed, follow \in BOOLEAN :
                   Send(p, c, method, url, timed, follow)
    PROVE  UNCHANGED <<vars, guard>>
<1>1. ASSUME ExchangeStep PROVE UNCHANGED <<vars, guard>>
  BY <1>1 DEF ExchangeStep, FetchFails, BodyCancelled, ReadWhole, WholeArrives, BodyBreaks, OpenStream,
              Pull, PullGoesOn, Consume, Cancel, ReadAborted, TimerFires, CallerAborts, RedirectArrives,
              AnswerArrives, Arrives, Becomes
<1> QED
  BY <1>1 DEF Send

\* What lockUrlGuard installs is a set of suffixes.
LEMMA LockedIsSuffixes ==
    ASSUME NEW c \in Client, NEW r \in Realm PROVE Locked(c, r) \in SUBSET Suffix
BY DEF Suffix

\* The parts of the guard's invariant, one lemma each.
LEMMA GuardTypeStep == ASSUME SafeInv, GuardInv, TypeOK', ClientNext PROVE GuardType'
<1>1. ASSUME NEW p \in Process, NEW c \in ClientsOf[p], Construct(p, c) PROVE GuardType'
  <2>1. c \in Client
    BY ClientsAssumption
  <2>2. held'[p] # Nothing => held'[p].auth.realm \in Realm
    BY DEF TypeOK, Cache, Auth
  <2>3. (IF held'[p] = Nothing THEN Open ELSE Locked(c, held'[p].auth.realm)) \in SUBSET Suffix
    BY <2>1, <2>2, LockedIsSuffixes DEF Open
  <2> QED
    BY <1>1, <2>1, <2>3 DEF Construct, GuardInv, GuardType
<1>2. ASSUME NEW p \in Process, NEW c \in ClientsOf[p], AuthorizeClient(p, c) PROVE GuardType'
  <2>1. c \in Client
    BY ClientsAssumption
  <2>2. Locked(c, RealmOf[c]) \in SUBSET Suffix
    BY <2>1, LockedIsSuffixes DEF Realm
  <2> QED
    BY <1>2, <2>1, <2>2 DEF AuthorizeClient, GuardInv, GuardType
<1>3. ASSUME NEW p \in Process, CrashClient(p) PROVE GuardType'
  <2>1. [c \in Client |-> Open] \in [Client -> SUBSET Suffix]
    BY DEF Open
  <2> QED
    BY <1>3, <2>1 DEF CrashClient, GuardInv, GuardType
<1>4. ASSUME UNCHANGED guard PROVE GuardType'
  BY <1>4 DEF GuardInv, GuardType
<1> QED
  BY <1>1, <1>2, <1>3, <1>4, ExchangeLeavesGuard DEF ClientNext, StoreStep, wireVars

LEMMA LoadedStep == ASSUME SafeInv, GuardInv, [Next]_vars PROVE LoadedInv'
<1> SUFFICES ASSUME NEW q \in Process, ~ loaded'[q] PROVE held'[q] = Nothing /\ lastSet'[q] = NoAuth
  BY DEF LoadedInv
<1> USE DEF SafeInv, TypeOK, GuardInv, LoadedInv
<1>1. ASSUME NEW p \in Process, Start(p) \/ WriteStep(p) PROVE held'[q] = Nothing /\ lastSet'[q] = NoAuth
  <2>1. UNCHANGED <<held, loaded, lastSet>>
    BY <1>1 DEF Start, WriteStep, BeginWrite, EndWrite, Rename, EndFlush, WriteFails, memVars, history
  <2> QED
    BY <2>1
<1>2. ASSUME NEW p \in Process, Load(p) PROVE held'[q] = Nothing /\ lastSet'[q] = NoAuth
  BY <1>2 DEF Load, history
<1>3. ASSUME NEW p \in Process, Clear(p) \/ Crash(p) PROVE held'[q] = Nothing /\ lastSet'[q] = NoAuth
  <2>1. CASE Clear(p)
    <3>1. loaded' = loaded /\ loaded[p] /\ held' = [held EXCEPT ![p] = Nothing] /\ lastSet' = [lastSet EXCEPT ![p] = NoAuth]
      BY <2>1 DEF Clear, Flush
    <3> QED
      BY <3>1
  <2>2. CASE Crash(p)
    BY <2>2 DEF Crash
  <2> QED
    BY <1>3, <2>1, <2>2
<1>4. ASSUME NEW p \in Process, NEW c \in ClientsOf[p], Bind(p, c)
      PROVE  held'[q] = Nothing /\ lastSet'[q] = NoAuth
  BY <1>4 DEF Bind, Kept, history
<1>5. ASSUME NEW p \in Process, NEW c \in ClientsOf[p], Authorize(p, c)
      PROVE  held'[q] = Nothing /\ lastSet'[q] = NoAuth
  BY <1>5 DEF Authorize, Flush
<1>6. CASE UNCHANGED vars
  BY <1>6 DEF vars, memVars, history
<1> QED
  BY <1>1, <1>2, <1>3, <1>4, <1>5, <1>6 DEF Next

LEMMA LockedStep == ASSUME SafeInv, GuardInv, ClientNext PROVE LockedInv'
<1> SUFFICES ASSUME NEW q \in Process, NEW d \in client'[q],
                    held'[q] # Nothing, held'[q].auth = lastSet'[q]
             PROVE  guard'[q][d] = Locked(d, RealmOf[d])
  BY DEF LockedInv
<1> USE DEF SafeInv, TypeOK, GuardInv, GuardType
<1>1. ASSUME UNCHANGED <<guard, held, client, lastSet>> PROVE guard'[q][d] = Locked(d, RealmOf[d])
  BY <1>1 DEF LockedInv
<1>2. ASSUME NEW p \in Process, Start(p) \/ WriteStep(p) PROVE UNCHANGED <<held, client, lastSet>>
  BY <1>2 DEF Start, WriteStep, BeginWrite, EndWrite, Rename, EndFlush, WriteFails, memVars, history
<1>3. ASSUME NEW p \in Process, Load(p), UNCHANGED guard PROVE guard'[q][d] = Locked(d, RealmOf[d])
  <2>1. CASE q = p
    <3>1. lastSet'[p] = NoAuth /\ client' = client
      BY <1>3 DEF Load, LoadedInv, history
    <3>2. held'[p] \in Cache
      BY <1>3, <2>1 DEF Load, Kept
    <3> QED
      BY <2>1, <3>1, <3>2, CacheShape
  <2>2. CASE q # p
    BY <1>3, <2>2 DEF Load, LockedInv, history
  <2> QED
    BY <2>1, <2>2
<1>4. ASSUME NEW p \in Process, Clear(p), UNCHANGED guard PROVE guard'[q][d] = Locked(d, RealmOf[d])
  BY <1>4 DEF Clear, Flush, LockedInv
<1>5. ASSUME NEW p \in Process, CrashClient(p) PROVE guard'[q][d] = Locked(d, RealmOf[d])
  BY <1>5 DEF CrashClient, Crash, LockedInv
<1>6. ASSUME NEW p \in Process, NEW c \in ClientsOf[p], Construct(p, c)
      PROVE  guard'[q][d] = Locked(d, RealmOf[d])
  <2>1. c \in Client
    BY ClientsAssumption
  <2>2. CASE q = p
    <3>1. d = c /\ held'[p] = Kept(held[p], {c})
      BY <1>6, <2>2 DEF Construct, Bind
    <3>2. held'[p] = held[p] /\ Usable(held[p], c)
      BY <2>2, <3>1 DEF Kept
    <3>3. held'[p].auth.realm = RealmOf[c]
      BY <3>2 DEF Usable, EndpointsMatch
    <3> QED
      BY <1>6, <2>1, <2>2, <3>1, <3>3 DEF Construct
  <2>3. CASE q # p
    BY <1>6, <2>1, <2>3 DEF Construct, Bind, LockedInv, history
  <2> QED
    BY <2>2, <2>3
<1>7. ASSUME NEW p \in Process, NEW c \in ClientsOf[p], AuthorizeClient(p, c)
      PROVE  guard'[q][d] = Locked(d, RealmOf[d])
  <2>1. c \in Client
    BY ClientsAssumption
  <2>2. CASE q = p
    BY <1>7, <2>1, <2>2 DEF AuthorizeClient, Authorize
  <2>3. CASE q # p
    BY <1>7, <2>1, <2>3 DEF AuthorizeClient, Authorize, Flush, LockedInv
  <2> QED
    BY <2>2, <2>3
<1>8. CASE UNCHANGED <<vars, guard>>
  BY <1>1, <1>8 DEF vars, memVars, history
<1> QED
  BY <1>1, <1>2, <1>3, <1>4, <1>5, <1>6, <1>7, <1>8, ExchangeLeavesGuard
     DEF ClientNext, StoreStep, wireVars

\* Every step of the one exchange keeps its invariant.
LEMMA ExchangeStepInv ==
    ASSUME SafeInv, GuardInv, ExchangeInv(exchange), client[exchange.by] = {exchange.of}, ExchangeStep
    PROVE  ExchangeInv(exchange') /\ SameParties
BY FetchFailsInv, BodyCancelledInv, ReadWholeInv, WholeArrivesInv, BodyBreaksInv, OpenStreamInv, PullInv,
   PullGoesOnInv, ConsumeInv, CancelInv, ReadAbortedInv, TimerFiresInv, CallerAbortsInv,
   RedirectArrivesInv, AnswerArrivesInv, ArrivesInv DEF ExchangeStep

\* No step of an exchange is taken where there is none.
LEMMA ExchangeStepHasOne == ExchangeStep => exchange # NoExchange
<1> SUFFICES ASSUME ExchangeStep, exchange = NoExchange PROVE FALSE
  OBVIOUS
<1>1. exchange.phase = "idle"
  BY DEF NoExchange
<1> QED
  BY <1>1 DEF ExchangeStep, InPhase, FetchFails, BodyCancelled, ReadWhole, WholeArrives, BodyBreaks,
              OpenStream, Pull, PullGoesOn, Consume, Cancel, ReadAborted, TimerFires, CallerAborts,
              RedirectArrives, AnswerArrives, Arrives

\* The exchange that is under way, through the steps of its process and of the others.
LEMMA WireStep == ASSUME SafeInv, GuardInv, WireInv, ClientNext PROVE WireInv'
<1>1. CASE ExchangeStep
  <2>1. client' = client
    BY <1>1, ExchangeLeavesGuard DEF vars, memVars
  <2>2. ExchangeInv(exchange) /\ client[exchange.by] = {exchange.of}
    BY <1>1, ExchangeStepHasOne DEF WireInv
  <2>3. ExchangeInv(exchange') /\ SameParties
    BY <1>1, <2>2, ExchangeStepInv
  <2> QED
    BY <2>1, <2>2, <2>3 DEF WireInv, SameParties, ExchangeInv
<1>2. ASSUME NEW p \in Process, NEW c \in ClientsOf[p], AuthorizeClient(p, c) PROVE WireInv'
  BY <1>2 DEF AuthorizeClient, Authorize, WireInv, ExchangeInv
<1>3. ASSUME NEW p \in Process, NEW c \in ClientsOf[p], NEW method \in {"GET", "POST"}, NEW url \in Url,
             NEW timed \in BOOLEAN, NEW follow \in BOOLEAN, Send(p, c, method, url, timed, follow)
      PROVE  WireInv'
  <2>1. client' = client
    BY <1>3 DEF Send, vars, memVars
  <2>2. ExchangeInv(exchange') /\ client[exchange'.by] = {exchange'.of}
    BY <1>3, SendInv DEF SafeInv
  <2> QED
    BY <2>1, <2>2 DEF WireInv, ExchangeInv
<1>4. ASSUME exchange = NoExchange, NEW p \in Process, StoreStep(p) PROVE WireInv'
  BY <1>4 DEF StoreStep, CrashClient, Construct, WireInv, wireVars
<1> QED
  BY <1>1, <1>2, <1>3, <1>4 DEF ClientNext

-----------------------------------------------------------------------------
\* A client with its guard and its requests is an account store to whoever sees only that:
\* what is proved of the store holds in it.
THEOREM ClientIsStore == ClientSpec => Spec
<1>1. ClientInit => Init
  BY DEF ClientInit
<1>2. [ClientNext]_clientVars => [Next]_vars
  BY ClientStepOfStore DEF clientVars
<1> QED
  BY <1>1, <1>2, PTL DEF ClientSpec, Spec

\* However redirects, chunks, timers, aborts, cancels and authorizations interleave, for any
\* hosts, suffixes and number of redirects: an exchange ends as ExchangesEndTruly says.
THEOREM ExchangesEnd == ClientSpec => []ExchangesEndTruly
<1>1. ClientInit => ClientInv
  <2> SUFFICES ASSUME ClientInit PROVE ClientInv
    OBVIOUS
  <2>1. SafeInv
    BY InitInv DEF ClientInit, AccountInv
  <2>2. GuardInv
    BY DEF ClientInit, Init, GuardInv, GuardType, LoadedInv, LockedInv, Open, Nothing
  <2>3. WireInv
    BY DEF ClientInit, WireInv
  <2> QED
    BY <2>1, <2>2, <2>3 DEF ClientInv
<1>2. ClientInv /\ [ClientNext]_clientVars => ClientInv'
  <2> SUFFICES ASSUME ClientInv, [ClientNext]_clientVars PROVE ClientInv'
    OBVIOUS
  <2>1. [Next]_vars
    BY ClientStepOfStore DEF clientVars
  <2>2. SafeInv'
    BY <2>1, TypeStep, BoundStep, DiskStep, WriteStepInv DEF ClientInv, SafeInv
  <2>3. CASE ClientNext
    BY <2>1, <2>2, <2>3, GuardTypeStep, LoadedStep, LockedStep, WireStep DEF ClientInv, GuardInv, SafeInv
  <2>4. CASE UNCHANGED clientVars
    <3>1. UNCHANGED <<guard, exchange, held, client, loaded, lastSet>>
      BY <2>4 DEF clientVars, wireVars, vars, memVars, history
    <3> QED
      BY <2>2, <3>1 DEF ClientInv, GuardInv, GuardType, LoadedInv, LockedInv, WireInv, ExchangeInv,
                        ExchangeType, ScopeInv, BodyInv, OverInv, FetchInv
  <2> QED
    BY <2>3, <2>4
<1>3. ClientInv => ExchangesEndTruly
  BY DEF ClientInv, WireInv, ExchangesEndTruly, ExchangeInv, OverInv, FetchInv
<1> QED
  BY <1>1, <1>2, <1>3, PTL DEF ClientSpec
=============================================================================
