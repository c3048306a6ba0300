----------------------------- MODULE MCBucketCalls -----------------------------
EXTENDS BucketCalls, TLC

CONSTANTS c1, c2

\* A file, and two files in one folder, whose name is 2.
Folders == (1 :> 0) @@ (3 :> 2)

Up(n)   == [name |-> n, action |-> "upload"]
Hide(n) == [name |-> n, action |-> "hide"]
Buckets == {<<Up(3), Hide(3), Up(1)>>}

\* One call on the files among the requests of others: another caller of deleteAll or
\* unhideFile sends no other requests than they do.
Files == [prior : Buckets, calls : {1}, others : {2}, custom : {FALSE},
          ops : {(c1 :> Sweeps \cup {"deleteMany", "unhideFile"}) @@ (c2 :> {})}]

\* The callers change the settings.
Settings == [prior : {<<>>}, calls : {3}, others : {0}, custom : {FALSE},
             ops : {(c1 :> Edits) @@ (c2 :> Edits)}]

\* Many requests on few versions, with file lock and custom timestamps.
Locks == [prior : {<<Up(1)>>}, calls : {0}, others : {3}, custom : {TRUE},
          ops : {(c1 :> {}) @@ (c2 :> {})}]

Plans == Files \cup Settings \cup Locks
=============================================================================
