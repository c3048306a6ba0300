-------------------------- MODULE MCLargeFileUpload --------------------------
EXTENDS LargeFileUpload

CONSTANTS u1, u2, f1, d1, d2

\* One fresh upload.
AllFresh == {[mode |-> [u \in Client |-> "fresh"], prior |-> {}]}

\* Two model clients: the first creates a file, the second resumes into it by its
\* id; or the first streams from a forward-only source, and the second may adopt
\* its file or one that an earlier process left with any parts.
Two(first, second, prior) ==
    [mode |-> [u \in Client |-> IF u = u1 THEN first ELSE second], prior |-> prior]
Shared == {Two("fresh", "explicit", {}), Two("forward", "auto", {f1})}

\* The sources have the same bytes in every part but the last.
ContentByClient == [u \in Client |-> [p \in Part |-> IF u = u1 \/ p < N THEN d1 ELSE d2]]
=============================================================================
