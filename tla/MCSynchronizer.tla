-------------------------- MODULE MCSynchronizer --------------------------
EXTENDS Synchronizer, TLC

CONSTANTS x, y,        \* folders of the bucket
          d1, d2, d3   \* contents; the first two have the same length

Sizes == [d \in Data |-> IF d = d3 THEN 2 ELSE 1]

Run(direction, compare, keep) ==
    [direction |-> direction, compareMode |-> compare, threshold |-> 0, keepMode |-> keep,
     keepDays |-> 0, locked |-> FALSE, dryRun |-> FALSE]

Up   == Run("local-to-b2", "size", "delete")
Down == Run("b2-to-local", "size", "delete")
Over == Run("b2-to-b2", "sha1", "delete")

Sure(d)    == <<d, Verified(d)>>
Claim(d, c) == <<d, Untrusted(c)>>
Empty == [p \in Path |-> <<>>]

\* The quiet scenario the others are made from.
Base == [runs |-> <<Up>>, disk |-> <<d1, None>>, remote |-> (x :> Empty @@ y :> Empty),
         skips |-> [p \in Path |-> "none"], edits |-> 0, quiet |-> TRUE, faults |-> 0,
         aborts |-> 0, crashes |-> 0]
Busy(plan0) == [plan0 EXCEPT !.edits = 1, !.quiet = FALSE]
Bad(plan0)  == [plan0 EXCEPT !.faults = 1, !.aborts = 1]

Remote(a, b) == x :> a @@ y :> b

\* Uploads: one path new or changed, one to remove.
Uploads ==
    LET P(opts, second) == [Base EXCEPT !.runs = <<opts>>,
                                !.remote = Remote(<< <<Sure(d3)>>, second >>, Empty)]
    IN {P(Up, <<Sure(d1)>>), P([Up EXCEPT !.locked = TRUE], <<Sure(d1)>>),
        P([Up EXCEPT !.compareMode = "modtime", !.keepMode = "no-delete"], <<Sure(d1)>>),
        P([Up EXCEPT !.keepMode = "keep-days", !.keepDays = 6], <<Sure(d1)>>)}

\* Comparisons by digest, with claims that are true, false, missing.
Digests ==
    {[Base EXCEPT !.runs = <<[Up EXCEPT !.compareMode = "sha1", !.dryRun = dry]>>,
                  !.disk = <<d1, d1>>,
                  !.remote = Remote(<< <<v>>, <<w>> >>, Empty)] :
        v \in {Claim(d1, d1), Claim(d2, d1), Claim(d1, None), Sure(d2)},
        w \in {Sure(d1), <<d1, Unavailable>>}, dry \in BOOLEAN}

\* Downloads over an old file, a new one, and one to remove.
Downloads ==
    {[Base EXCEPT !.runs = <<Down>>, !.disk = disk0,
                  !.remote = Remote(<< <<Sure(d3)>>, <<>> >>, Empty)] :
        disk0 \in {<<d1, None>>, <<None, None>>, <<d1, d1>>}}

Copies ==
    {[Base EXCEPT !.runs = <<Over>>, !.disk = <<None, None>>,
                  !.remote = Remote(<< <<Claim(d2, d1)>>, <<>> >>,
                                    << <<Claim(d1, d1)>>, <<Sure(d1)>> >>)]}

\* A run that dies, then a run the same or the other way.
Reversals ==
    {[Base EXCEPT !.runs = <<first, Up>>, !.crashes = 1,
                  !.remote = Remote(<< <<Sure(d3)>>, <<>> >>, Empty)] : first \in {Down, Up}}

\* Names the source scan passes over.
PassedOver ==
    {[p0 EXCEPT !.skips = [p \in Path |-> IF p = 1 THEN "unsafe-name" ELSE "none"]] :
        p0 \in Downloads \cup Uploads}

\* A path absent from the source, with an older version at the destination.
Older == {[Base EXCEPT !.remote = Remote(<< <<Sure(d1)>>, <<Sure(d2), Sure(d1)>> >>, Empty)]}

Quiet == Uploads \cup Digests \cup Downloads \cup Copies \cup Reversals \cup PassedOver \cup Older
Rough == Downloads \cup Reversals
Plans == Quiet \cup {Busy(p0) : p0 \in Quiet} \cup {Bad(p0) : p0 \in Quiet}
               \cup {Busy(Bad(p0)) : p0 \in Rough}
=============================================================================
