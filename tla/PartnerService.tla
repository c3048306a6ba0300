----------------------------- MODULE PartnerService -----------------------------
(***************************************************************************)
(* The partner side of the simulator (simulator/partner.ts, with issued     *)
(* tokens validated) on top of the storage side, whose ids, clock, keys and *)
(* buckets it shares through its host, and a client that pages through the  *)
(* members of a group or the computers of the account (partner/client.ts,   *)
(* backup/client.ts) while others create, eject and delete.  The account is *)
(* in good standing with a valid phone number.                              *)
(***************************************************************************)
EXTENDS StorageService

CONSTANTS Address,      \* mail addresses, by rank, as they compare
          Spelling,     \* the ways to write one
          PartnerGrant, \* PARTNER_CREATED_STORAGE_KEY_CAPABILITIES
          GroupCount, ComputerCount, \* how many an account is provisioned with
          MaxMembers    \* MAX_GROUP_MEMBERS

ASSUME PartnerAssumption == Address \subseteq Nat \ {None} /\ {GroupCount, ComputerCount} \subseteq Nat

VARIABLES partnerTokens,
          groups,       \* the ids of the account's groups
          members,      \* groupMembersByAccountId
          memberIndex,  \* groupMembers: the entries of each group, by address
          knownEmails,
          trials,       \* history: the addresses that trial accounts were made for
          computers,    \* computersByAccount
          client        \* the client and its listing

partnerVars == <<partnerTokens, groups, members, memberIndex, knownEmails, trials, computers, client>>

\* An address as somebody wrote it.
Email == [address : Address, spelling : Spelling]
normalizeEmail(email) == email.address

\* The first page has no cursor, which any rank is after.
NoCursor == None

NoAuth == [id |-> None, expires |-> None]
NoListing == [kind |-> "none", phase |-> "idle", group |-> None, cursor |-> NoCursor, seen |-> {}, stay |-> {}]

PartnerInit ==
    /\ partnerTokens = {} /\ groups = {} /\ members = {} /\ memberIndex = {}
    /\ knownEmails = {} /\ trials = {} /\ computers = {}
    /\ client = [auth |-> NoAuth, listing |-> NoListing]

\* authorizeRequest: the token has not expired.
PartnerAuthorized(p) == now <= p.expires

OtherwiseSame(others) ==
    /\ UNCHANGED <<plan, now, stored, unfinished, acked, late, tokens, urlVars, readVars, hookVars, waiting>>
    /\ UNCHANGED others

-----------------------------------------------------------------------------
(* The service.                                                            *)

\* authorize, and PartnerAuthCore.authorize, which keeps the token.
PartnerAuthorize ==
    /\ May("partner") /\ Cardinality(partnerTokens) < plan.tokens
    /\ Take(1)
    /\ LET p == [id |-> nextId, expires |-> now + Ttl]
       IN  partnerTokens' = partnerTokens \cup {p} /\ client' = [client EXCEPT !.auth = p]
    /\ OtherwiseSame(<<buckets, keys, groups, members, memberIndex, knownEmails, trials, computers>>)

\* listGroups: the first listing provisions the groups (ensureGroupsForAdmin).
ListGroups(p) ==
    /\ May("members") /\ PartnerAuthorized(p) /\ groups = {}
    /\ Take(GroupCount)
    /\ groups' = nextId..(nextId + GroupCount - 1)
    /\ OtherwiseSame(<<buckets, keys, partnerTokens, members, memberIndex, knownEmails, trials, computers, client>>)

ActiveMembers(g) == {m \in members : ~ m.ejected /\ \E e \in memberIndex : e.group = g /\ e.account = m.account}

\* Mutant: addresses are compared as they are written.
WrittenKnown(email) == \E m \in members : m.email = email

Known(email) == normalizeEmail(email) \in knownEmails

\* createGroupMember: an account, a key of its own and the secret.
CreateGroupMember(p, g, email) ==
    /\ May("members") /\ PartnerAuthorized(p) /\ g \in groups
    /\ ~ Known(email)
    /\ Cardinality(ActiveMembers(g)) < MaxMembers
    /\ Take(3)
    /\ members' = members \cup {[account |-> nextId, email |-> email, group |-> g,
                                 key |-> nextId + 1, ejected |-> FALSE]}
    /\ memberIndex' = {e \in memberIndex : ~ (e.group = g /\ e.address = normalizeEmail(email))}
                        \cup {[group |-> g, address |-> normalizeEmail(email), account |-> nextId]}
    /\ knownEmails' = knownEmails \cup {normalizeEmail(email)}
    /\ keys' = keys \cup {[id |-> nextId + 1, caps |-> PartnerGrant, buckets |-> Everything,
                           names |-> Everything, expires |-> None]}
    /\ OtherwiseSame(<<buckets, partnerTokens, groups, trials, computers, client>>)

\* Mutant: the entry of the new address is deleted.
NewEntryGone(m, email) == {e \in memberIndex : ~ (e.group = m.group /\ e.address = normalizeEmail(email))}

\* ejectGroupMember drops the entry of the address the member had.
EntryGone(m, email) == {e \in memberIndex : ~ (e.group = m.group /\ e.address = normalizeEmail(m.email))}

\* The member can be given another address, which must not be known; its old one is free again.
EjectGroupMember(p, g, m, email) ==
    /\ May("members") /\ PartnerAuthorized(p) /\ g \in groups
    /\ ~ m.ejected /\ m.group = g
    /\ normalizeEmail(email) # normalizeEmail(m.email) => ~ Known(email)
    /\ knownEmails' = (knownEmails \ {normalizeEmail(m.email)}) \cup {normalizeEmail(email)}
    /\ members' = (members \ {m}) \cup {[m EXCEPT !.email = email, !.ejected = TRUE]}
    /\ memberIndex' = EntryGone(m, email)
    /\ client' = [client EXCEPT !.listing.stay = @ \ {m.account}]
    /\ OtherwiseSame(<<nextId, buckets, keys, partnerTokens, groups, trials, computers>>)

\* reserveTrialCreateAccount: an account, a bucket with its name, a key for that bucket and the secret.
ReserveTrial(p, email) ==
    /\ May("trial") /\ PartnerAuthorized(p) /\ ~ Known(email)
    /\ Take(5)
    /\ AddBucket(nextId + 2, "keep", "keep")
    /\ keys' = keys \cup {[id |-> nextId + 3, caps |-> PartnerGrant, buckets |-> {nextId + 2},
                           names |-> Everything, expires |-> None]}
    /\ knownEmails' = knownEmails \cup {normalizeEmail(email)}
    /\ trials' = trials \cup {[account |-> nextId, email |-> email]}
    /\ OtherwiseSame(<<partnerTokens, groups, members, memberIndex, computers, client>>)

\* listComputers: the first listing provisions the computers (ensureComputersForAccount).
ProvisionComputers(p) ==
    /\ May("computers") /\ PartnerAuthorized(p) /\ computers = {}
    /\ Take(ComputerCount)
    /\ computers' = {[id |-> c, deleted |-> FALSE] : c \in nextId..(nextId + ComputerCount - 1)}
    /\ OtherwiseSame(<<buckets, keys, partnerTokens, groups, members, memberIndex, knownEmails, trials, client>>)

DeleteComputer(p, c) ==
    /\ May("computers") /\ PartnerAuthorized(p) /\ ~ c.deleted
    /\ computers' = (computers \ {c}) \cup {[c EXCEPT !.deleted = TRUE]}
    /\ client' = [client EXCEPT !.listing.stay = @ \ {c.id}]
    /\ OtherwiseSame(<<nextId, buckets, keys, partnerTokens, groups, members, memberIndex, knownEmails, trials>>)

-----------------------------------------------------------------------------
(* The client's listing, a page at a time (paginateItems).  A row is what a page lists,    *)
(* with the rank it is listed by: the address of a member, the id of a computer.           *)

MemberRows(g) == {[rank |-> normalizeEmail(m.email), item |-> m.account] : m \in ActiveMembers(g)}
ComputerRows == {[rank |-> c.id, item |-> c.id] : c \in {x \in computers : ~ x.deleted}}

ListedRows(listing) == IF listing.kind = "members" THEN MemberRows(listing.group) ELSE ComputerRows

\* Mutant: the row of the cursor is looked up.
RowsAtCursor(rows, cursor) == IF \E r \in rows : r.rank = cursor THEN {r \in rows : r.rank >= cursor} ELSE {}

\* The server's start index: the first row at the cursor or after it.
RowsFrom(rows, cursor) == {r \in rows : r.rank >= cursor}

First(n, rows) == {r \in rows : Cardinality({x \in rows : x.rank < r.rank}) < n}

BeginListing(kind, g) ==
    /\ client.listing.phase = "idle" /\ client.auth # NoAuth
    /\ kind = "members" => May("members") /\ g \in groups
    /\ kind = "computers" => May("computers") /\ computers # {}
    /\ client' = [client EXCEPT !.listing =
                    [kind |-> kind, phase |-> "paging", group |-> g, cursor |-> NoCursor, seen |-> {},
                     stay |-> {r.item : r \in IF kind = "members" THEN MemberRows(g) ELSE ComputerRows}]]
    /\ OtherwiseSame(<<nextId, buckets, keys, partnerTokens, groups, members, memberIndex, knownEmails, trials, computers>>)

\* A page of the size the client asks for, and the cursor of the next.
FetchPage(size) ==
    LET listing == client.listing
        rows == RowsFrom(ListedRows(listing), listing.cursor)
        page == First(size, rows)
        rest == rows \ page
    IN  /\ listing.phase = "paging" /\ PartnerAuthorized(client.auth)
        /\ listing.kind = "computers" /\ listing.cursor # NoCursor
             => \E r \in ComputerRows : r.rank = listing.cursor
        /\ client' = [client EXCEPT !.listing.seen = @ \cup {r.item : r \in page},
                                    !.listing.phase = IF rest = {} THEN "done" ELSE @,
                                    !.listing.cursor = IF rest = {} THEN NoCursor
                                                       ELSE (CHOOSE r \in First(1, rest) : TRUE).rank]
        /\ OtherwiseSame(<<nextId, buckets, keys, partnerTokens, groups, members, memberIndex, knownEmails, trials, computers>>)

\* listComputers refuses a cursor that was deleted: the listing fails.
CursorDeleted ==
    LET listing == client.listing
    IN  /\ listing.phase = "paging" /\ listing.kind = "computers" /\ PartnerAuthorized(client.auth)
        /\ listing.cursor # NoCursor /\ ~ \E r \in ComputerRows : r.rank = listing.cursor
        /\ client' = [client EXCEPT !.listing.phase = "failed"]
        /\ OtherwiseSame(<<nextId, buckets, keys, partnerTokens, groups, members, memberIndex, knownEmails, trials, computers>>)

PartnerNext ==
    \/ PartnerAuthorize
    \/ \E p \in partnerTokens :
         \/ ListGroups(p)
         \/ ProvisionComputers(p)
         \/ \E c \in computers : DeleteComputer(p, c)
         \/ \E email \in Email : \/ ReserveTrial(p, email)
                                 \/ \E g \in groups : CreateGroupMember(p, g, email)
                                 \/ \E g \in groups, m \in members : EjectGroupMember(p, g, m, email)
    \/ \E g \in groups \cup {None} : BeginListing("members", g)
    \/ BeginListing("computers", None)
    \/ \E size \in 1..2 : FetchPage(size)
    \/ CursorDeleted

-----------------------------------------------------------------------------
\* The addresses a new account is refused for are those of the accounts, ejected members and
\* trials included, and no two accounts have the same.
OneAccountPerEmail ==
    /\ knownEmails = {normalizeEmail(a.email) : a \in members \cup trials}
    /\ \A a, b \in members \cup trials : normalizeEmail(a.email) = normalizeEmail(b.email) => a.account = b.account

\* A group's entries are its members that were not ejected, under the address they have.
EntriesAreMembers ==
    memberIndex = {[group |-> m.group, address |-> normalizeEmail(m.email), account |-> m.account] :
                     m \in {x \in members : ~ x.ejected}}

\* The partner service's three maps agree through createGroupMember, ejectGroupMember with and
\* without a new address, and reserveTrialCreateAccount.
AccountsAgree == OneAccountPerEmail /\ EntriesAreMembers

\* A listing that ended has listed every member (computer) that was there all the time,
\* although others came, were ejected (deleted) or gave the page its cursor meanwhile.
ListingMissesNobody == client.listing.phase = "done" => client.listing.stay \subseteq client.listing.seen

\* The members of a group are those its maps, its addresses and its listings agree on.
MembersAgree == AccountsAgree /\ ListingMissesNobody
=============================================================================
