--------------------------- MODULE ReauthCoalescer ---------------------------
(***************************************************************************)
(* ReauthCoalescer (auth/reauth-coalescer.ts) with the refresh B2Client    *)
(* gives it, doReauthorize (client.ts): requests that meet an expired      *)
(* token share one call of b2_authorize_account.                           *)
(*                                                                         *)
(* The i-th refresh obtains token i.  A refresh lives on after it was      *)
(* aborted until its own work ends.  Every step is one turn of the         *)
(* microtask queue, so another request runs between two of them: between   *)
(* the abort of a refresh and the moment its slot is cleared, too.         *)
(***************************************************************************)
EXTENDS Naturals, FiniteSets

CONSTANTS Request,    \* requests sent through the RetryTransport
          MaxRefresh  \* bound: refreshes started

ASSUME RefreshAssumption == MaxRefresh \in Nat
ASSUME RequestAssumption == IsFiniteSet(Request)

Refresh == 1..MaxRefresh
Token   == 0..MaxRefresh   \* token 0 comes from the first authorize()
NoRefresh == 0

VARIABLES auth,    \* token in the account info
          slot,    \* #inflight
          refresh, \* every refresh started
          waiters, \* inflight.waiters
          joined   \* the refresh each request waits for

reauthVars == <<auth, slot, refresh, waiters, joined>>

\* result is how the shared promise settled, work what doReauthorize did.
RefreshRecord == [work: {"none", "running", "done", "failed"},
                  aborted: BOOLEAN,
                  result: {"none", "token", "error"}]

ReauthTypeOK ==
    /\ auth \in Token
    /\ slot \in Refresh \cup {NoRefresh}
    /\ refresh \in [Refresh -> RefreshRecord]
    /\ waiters \in [Refresh -> Nat]
    /\ joined \in [Request -> Refresh \cup {NoRefresh}]

ReauthInit ==
    /\ auth = 0
    /\ slot = NoRefresh
    /\ refresh = [i \in Refresh |-> [work |-> "none", aborted |-> FALSE, result |-> "none"]]
    /\ waiters = [i \in Refresh |-> 0]
    /\ joined = [r \in Request |-> NoRefresh]

Settled(i)   == refresh[i].result # "none"
WaitingOn(i) == {r \in Request : joined[r] = i}

\* run, with a refresh in the slot.
Join(r) ==
    /\ slot # NoRefresh
    /\ joined' = [joined EXCEPT ![r] = slot]
    /\ waiters' = [waiters EXCEPT ![slot] = waiters[slot] + 1]
    /\ UNCHANGED <<auth, slot, refresh>>

\* start() calls the refresh.
StartRefresh(r) ==
    /\ \E i \in Refresh :
         /\ \A j \in Refresh : refresh[j].work = "none" <=> j >= i
         /\ slot' = i
         /\ refresh' = [refresh EXCEPT ![i].work = "running"]
         /\ joined' = [joined EXCEPT ![r] = i]
         /\ waiters' = [waiters EXCEPT ![i] = 1]
    /\ UNCHANGED auth

Run(r) == Join(r) \/ (slot = NoRefresh /\ StartRefresh(r))

\* The last waiter of a refresh that has not settled aborts it.
LastWaiter(i) == waiters[i] = 1 /\ ~Settled(i)

\* The finally of run: the waiter stops waiting, whatever the reason.
Leave(r) ==
    LET i == joined[r] IN
    /\ joined' = [joined EXCEPT ![r] = NoRefresh]
    /\ waiters' = [waiters EXCEPT ![i] = waiters[i] - 1]
    /\ refresh' = [refresh EXCEPT ![i].aborted = refresh[i].aborted \/ LastWaiter(i)]
    /\ UNCHANGED <<auth, slot>>

\* Mutant: the answer is stored without a look at the signal.
StoreAnyway(i) == refresh[i].work = "running"

\* authorize(): the answer is thrown away once the signal is aborted.
MayStore(i) == refresh[i].work = "running" /\ ~refresh[i].aborted

RefreshDone(i) ==
    /\ MayStore(i)
    /\ auth' = i
    /\ refresh' = [refresh EXCEPT ![i].work = "done"]
    /\ UNCHANGED <<slot, waiters, joined>>

RefreshFails(i) ==
    /\ refresh[i].work = "running"
    /\ refresh' = [refresh EXCEPT ![i].work = "failed"]
    /\ UNCHANGED <<auth, slot, waiters, joined>>

\* Mutant: a refresh that fails keeps its slot.
ClearsOnSuccess(i) ==
    /\ slot = i /\ refresh[i].work = "done"
    /\ refresh' = [refresh EXCEPT ![i].result = "token"]
    /\ slot' = NoRefresh
    /\ UNCHANGED <<auth, waiters, joined>>

\* The finally of start: the shared promise settles and frees the slot.
SlotClears(i) ==
    /\ slot = i
    /\ \/ /\ refresh[i].work = "done"
          /\ refresh' = [refresh EXCEPT ![i].result = "token"]
       \/ /\ refresh[i].work = "failed" \/ refresh[i].aborted
          /\ refresh' = [refresh EXCEPT ![i].result = "error"]
    /\ slot' = NoRefresh
    /\ UNCHANGED <<auth, waiters, joined>>

-----------------------------------------------------------------------------
(* The coalescer's part of the inductive invariant of TransportProofs.     *)

\* Refreshes start in order, one after the other has left the slot.
OrderInv ==
    /\ \A i, j \in Refresh : j < i /\ refresh[i].work # "none" => refresh[j].work # "none"
    /\ slot # NoRefresh =>
         /\ refresh[slot].work # "none" /\ ~Settled(slot)
         /\ \A j \in Refresh : j > slot => refresh[j].work = "none"
    /\ \A i \in Refresh :
         /\ refresh[i].work = "none" => ~refresh[i].aborted /\ ~Settled(i)
         /\ refresh[i].work = "running" /\ ~refresh[i].aborted => slot = i

\* The stored token is that of the last refresh that was done.
TokenInv ==
    /\ auth # 0 => refresh[auth].work # "none"
    /\ slot # NoRefresh /\ refresh[slot].work # "done" => auth < slot
    /\ \A i \in Refresh : /\ refresh[i].work = "done" => i <= auth
                          /\ refresh[i].result = "token" => refresh[i].work = "done"

\* The counter is the number of requests that wait.
WaiterInv ==
    /\ \A i \in Refresh : waiters[i] = Cardinality(WaitingOn(i))
    /\ \A r \in Request : joined[r] # NoRefresh => refresh[joined[r]].work # "none"
=============================================================================
