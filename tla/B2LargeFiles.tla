---------------------------- MODULE B2LargeFiles ----------------------------
(***************************************************************************)
(* The unfinished large files of one B2 bucket, as B2Simulator keeps them: *)
(* b2_start_large_file, b2_upload_part, b2_finish_large_file and           *)
(* b2_cancel_large_file, and the network in front of it.                   *)
(*                                                                         *)
(* A request is sent, and then served or refused, or lost: it stays in     *)
(* requests and is never served.  Whoever sent it may give up on it at any *)
(* moment (network error, timeout); it can still be served, late.          *)
(*                                                                         *)
(* startedBy and finishedBy are history: they name the client whose        *)
(* request created the file and the client whose finish was committed.     *)
(***************************************************************************)
EXTENDS Naturals

CONSTANTS FileId,    \* identifiers genId can hand out
          Client,    \* the clients of the bucket
          Nobody,    \* the client of a file left by an earlier process
          N,         \* parts in the plan
          Digest,    \* SHA-1 digests of parts
          NoDigest,  \* no part stored / no digest recorded
          NoFile,    \* no large file id
          MaxRetries \* retry.maxRetries of an upload of one part

ASSUME NobodyAssumption == Nobody \notin Client
ASSUME NoDigestAssumption == NoDigest \notin Digest
ASSUME PartCountAssumption == N \in Nat \ {0}
ASSUME RetryAssumption == MaxRetries \in Nat
ASSUME NoFileAssumption == NoFile \notin FileId

VARIABLES largeFiles,
          requests,  \* requests on their way to the server
          replies    \* every answer the server has given

netVars == <<largeFiles, requests, replies>>

Part == 1..N
NoParts == [p \in Part |-> NoDigest]

FileState == {"none", "unfinished", "finished", "cancelled"}

LargeFile == [state: FileState,
              startedBy: Client \cup {Nobody},
              finishedBy: Client \cup {Nobody},
              parts: [Part -> Digest \cup {NoDigest}]]

LargeFilesTypeOK == largeFiles \in [FileId -> LargeFile]

NoFileYet == [state |-> "none", startedBy |-> Nobody, finishedBy |-> Nobody,
              parts |-> NoParts]

Unfinished(f) == largeFiles[f].state = "unfinished"

\* genId never repeats an identifier.
StartLargeFile(f, c) ==
    /\ largeFiles[f].state = "none"
    /\ largeFiles' = [largeFiles EXCEPT
                        ![f] = [state |-> "unfinished", startedBy |-> c,
                                finishedBy |-> Nobody, parts |-> NoParts]]

\* large.parts.set(partNumber, ...): the last upload of a part wins.
StorePart(f, p, d) ==
    /\ Unfinished(f)
    /\ largeFiles' = [largeFiles EXCEPT ![f].parts[p] = d]

\* partSha1Array must have one entry per stored part, equal to its digest.
FinishAccepted(f, digests) == Unfinished(f) /\ digests = largeFiles[f].parts

FinishLargeFile(f, digests, c) ==
    /\ FinishAccepted(f, digests)
    /\ largeFiles' = [largeFiles EXCEPT ![f].state = "finished", ![f].finishedBy = c]

CancelLargeFile(f) ==
    /\ Unfinished(f)
    /\ largeFiles' = [largeFiles EXCEPT ![f].state = "cancelled"]

-----------------------------------------------------------------------------
(* Requests, and the answers to them.                                      *)

Request ==
    [op: {"start"}, u: Client]
      \cup [op: {"part"}, u: Client, f: FileId, p: Part, a: 0..MaxRetries, d: Digest]
      \cup [op: {"finish"}, u: Client, f: FileId, digests: [Part -> Digest \cup {NoDigest}]]
      \cup [op: {"cancel"}, u: Client, f: FileId]

\* "refused": a B2Error the part retry repeats (503); "rejected": one it does not.
Status == {"ok", "rejected", "refused"}
Reply == [to: Request, status: Status, f: FileId \cup {NoFile}]

NetworkTypeOK == requests \subseteq Request /\ replies \subseteq Reply

StartRequest(u)     == [op |-> "start", u |-> u]
CancelRequest(u, f) == [op |-> "cancel", u |-> u, f |-> f]

Send(m) == requests' = requests \cup {m}

\* Answers to m, the request its sender waits on.
Answered(m, s) == \E r \in replies : r.to = m /\ r.status = s

Answer(m, s, f) == replies' = replies \cup {[to |-> m, status |-> s, f |-> f]}

\* The handler of one request, with its effect and its answer.
Serve(m) ==
    \/ /\ m.op = "start"
       /\ \E f \in FileId : StartLargeFile(f, m.u) /\ Answer(m, "ok", f)
    \/ /\ m.op = "part" /\ StorePart(m.f, m.p, m.d) /\ Answer(m, "ok", NoFile)
    \* The file went away while the handler hashed the part: stored nowhere.
    \/ /\ m.op = "part" /\ ~Unfinished(m.f) /\ Answer(m, "ok", NoFile)
       /\ UNCHANGED largeFiles
    \/ /\ m.op = "part" /\ ~Unfinished(m.f) /\ Answer(m, "rejected", NoFile)
       /\ UNCHANGED largeFiles
    \/ /\ m.op = "finish" /\ FinishLargeFile(m.f, m.digests, m.u) /\ Answer(m, "ok", NoFile)
    \/ /\ m.op = "finish" /\ ~FinishAccepted(m.f, m.digests) /\ Answer(m, "rejected", NoFile)
       /\ UNCHANGED largeFiles
    \/ /\ m.op = "cancel" /\ CancelLargeFile(m.f) /\ Answer(m, "ok", NoFile)
    \/ /\ m.op = "cancel" /\ ~Unfinished(m.f) /\ Answer(m, "rejected", NoFile)
       /\ UNCHANGED largeFiles

\* The server takes a request off the network and handles it.
Handle(m) ==
    /\ m \in requests
    /\ Serve(m)
    /\ requests' = requests \ {m}

\* An injected fault: an error answer before any handler runs.
Refuse(m) ==
    /\ m \in requests
    /\ \E s \in {"rejected", "refused"} : Answer(m, s, NoFile)
    /\ requests' = requests \ {m}
    /\ UNCHANGED largeFiles
=============================================================================
