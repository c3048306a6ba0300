-------------------------- MODULE MCDownloadStaging --------------------------
EXTENDS DownloadStaging, TLC

CONSTANTS d1, d2, d3, r1, r2, p1, p2, x1

\* What a process that died left: an entry with its marker and a partial file, or one without.
Left(marker) ==
    [x \in {x1} |-> [there |-> TRUE, marker |-> marker, partial |-> marker,
                    day |-> 0, writes |-> 0]]
Nothing == [x \in {} |-> NoEntry]

Instance(second, process, relics, users) ==
    [runOf |-> (d1 :> r1 @@ d2 :> second @@ d3 :> r2), processOf |-> (r1 :> p1 @@ r2 :> process),
     relics |-> relics, users |-> users]

\* Two runs in two processes or in one; the first or the second has two downloads.
Layouts == {Instance(r2, p2, Nothing, FALSE), Instance(r1, p2, Left(TRUE), FALSE),
          Instance(r1, p2, Left(FALSE), FALSE), Instance(r2, p1, Nothing, FALSE),
          Instance(r2, p2, Nothing, TRUE)}
=============================================================================
