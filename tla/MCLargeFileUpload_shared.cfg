\* Two uploads and the same large files: one creates a file that the other resumes
\* into, or one streams while the other adopts what it finds.
SPECIFICATION Spec
CONSTANTS
  u1 = u1  u2 = u2  f1 = f1  d1 = d1  d2 = d2
  Client = {u1, u2}
  Nobody = Nobody
  FileId = {f1, f2}
  NoFile = NoFile
  Digest = {d1, d2}
  NoDigest = NoDigest
  N = 2
  Concurrency = 1
  MaxRetries = 0
  Setting <- Shared
  Content <- ContentByClient
INVARIANT OkMeansStored
PROPERTY ContractSpec
CHECK_DEADLOCK FALSE
