----------------------------- MODULE MCTransfers -----------------------------
(***************************************************************************)
(* The two parts of a transfer that know nothing of each other, the upload  *)
(* URLs of a bucket and the parallel download, in one run: each behaviour   *)
(* is one of either, while the other one rests, a download as a stream that *)
(* was aborted before it began and a pool without URLs.                     *)
(***************************************************************************)
EXTENDS UploadUrls, ParallelDownload

VARIABLE part

TransferInit ==
    /\ PoolInit /\ Init
    /\ \/ part = "upload" /\ ranges = 0 /\ aborted
       \/ part = "download" /\ issued = 0

TransferNext ==
    \/ part = "upload" /\ PoolNext /\ UNCHANGED <<part, vars>>
    \/ part = "download" /\ Next /\ UNCHANGED <<part, poolVars>>

\* The fairness of FairSpec.
TransferSpec ==
    /\ TransferInit /\ [][TransferNext]_<<part, poolVars, vars>>
    /\ WF_vars(PullStep) /\ \A i \in Index : WF_vars(FetchStep(i))
=============================================================================
