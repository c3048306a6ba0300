-------------------------- MODULE LargeFileContract --------------------------
(***************************************************************************)
(* What a multipart upload promises its caller about the file, whatever the*)
(* network does: "ok" is only reported for a published file, "failed" only *)
(* for a file the upload never publishes, before or after the report, and  *)
(* everything else is reported "ambiguous".                                *)
(***************************************************************************)
CONSTANT Client

VARIABLES outcome,     \* what the caller of each upload has been told
          published    \* has the upload's finish been committed

vars == <<outcome, published>>

Outcome == {"none", "ok", "failed", "ambiguous"}

Init == /\ outcome = [c \in Client |-> "none"]
        /\ published = [c \in Client |-> FALSE]

\* The server commits, at most once, and never after a reported failure.
Publish(c) == /\ ~published[c]
              /\ outcome[c] \in {"none", "ambiguous"}
              /\ published' = [published EXCEPT ![c] = TRUE]
              /\ UNCHANGED outcome

Report(c, o) == /\ outcome[c] = "none"
                /\ o = "ok" => published[c]
                /\ o = "failed" => ~published[c]
                /\ outcome' = [outcome EXCEPT ![c] = o]
                /\ UNCHANGED published

Next == \E c \in Client : \/ Publish(c)
                          \/ \E o \in {"ok", "failed", "ambiguous"} : Report(c, o)

Spec == Init /\ [][Next]_vars
=============================================================================
