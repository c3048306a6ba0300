\* The comment on done against a part that fails between two writes.
SPECIFICATION FairSpec
CONSTANTS
  w = w
  Client = {w}
  Nobody = Nobody
  FileId = {f1}
  NoFile = NoFile
  NoDigest = NoDigest
  Digest <- Lengths
  PartSize = 2
  MaxBytes = 3
  N = 2
  MaxRetries = 0
  Concurrency = 1
PROPERTY ErrorReachesDone
CHECK_DEADLOCK FALSE
