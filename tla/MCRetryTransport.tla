--------------------------- MODULE MCRetryTransport ---------------------------
EXTENDS RetryTransport

CONSTANTS r1, r2

\* A request that may be replayed next to one that must not, and the two that
\* are never reauthorized.
SafeAndLarge == [r \in Request |-> IF r = r1 THEN "safe" ELSE "large"]
UploadAndMutation == [r \in Request |-> IF r = r1 THEN "upload" ELSE "mutation"]
KindChoices == {SafeAndLarge, UploadAndMutation}
=============================================================================
