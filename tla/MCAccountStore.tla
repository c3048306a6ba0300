---------------------------- MODULE MCAccountStore ----------------------------
EXTENDS FetchTransport, TLC

CONSTANTS p1, p2, c1, c2, c3, k1, k2, prod, staging

\* Clients that differ in their key, and in their realm, from the first.
Keys   == (c1 :> k1) @@ (c2 :> k2) @@ (c3 :> k1)
Realms == (c1 :> prod) @@ (c2 :> prod) @@ (c3 :> staging)

\* Two processes on one file, of two clients; what a third one left may be there.
Apart == (p1 :> {c1}) @@ (p2 :> {c2})

Hosts == (prod :> {<<"com", "backblazeb2", "api">>, <<"com", "backblazeb2", "f1">>})
           @@ (staging :> {<<"net", "backblaze", "api">>})

\* The second client has a host of its own that it trusts.
Proxy == <<"org", "example">>
Options == (c1 :> Unset) @@ (c2 :> {Proxy}) @@ (c3 :> Unset)

Named(host, https) == [form |-> "name", host |-> host, https |-> https]
Pod == <<"com", "backblazeb2", "f1">>

\* A host of the realm, the second client's proxy, which is not the first one's; the former
\* without TLS; an address.
Urls == {Named(Pod, TRUE), Named(Proxy, TRUE), Named(Pod, FALSE),
         [form |-> "literal", host |-> <<"10">>, https |-> TRUE]}
=============================================================================
