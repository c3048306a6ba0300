------------------------------ MODULE ByteStream ------------------------------
(***************************************************************************)
(* What the stream of a download promises its reader: the ranges of the    *)
(* file in order, each once, and an end that is only called closed after   *)
(* the last of them.                                                       *)
(***************************************************************************)
EXTENDS Integers, Sequences

VARIABLES size,   \* ranges in the file
          chunks, \* the ranges handed to the reader, in order
          status

vars == <<size, chunks, status>>

Init == size \in Nat /\ chunks = <<>> /\ status \in {"open", "errored"}

Deliver ==
    /\ status = "open" /\ Len(chunks) < size
    /\ chunks' = Append(chunks, Len(chunks))
    /\ status' \in {"open", "closed"}
    /\ status' = "closed" => Len(chunks') = size
    /\ UNCHANGED size

End ==
    /\ status = "open"
    /\ status' \in {"closed", "errored", "cancelled"}
    /\ status' = "closed" => Len(chunks) = size
    /\ UNCHANGED <<size, chunks>>

Next == Deliver \/ End

Spec == Init /\ [][Next]_vars
=============================================================================
