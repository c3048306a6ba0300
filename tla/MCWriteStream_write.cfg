\* Five bytes in writes of any length, two-byte parts, two at a time.
SPECIFICATION FairSpec
CONSTANTS
  w = w
  Client = {w}
  Nobody = Nobody
  FileId = {f1}
  NoFile = NoFile
  NoDigest = NoDigest
  Digest <- Lengths
  PartSize = 2
  MaxBytes = 5
  N = 3
  MaxRetries = 0
  Concurrency = 2
INVARIANTS DoneMeansEverything RejectionCleansUp
PROPERTIES ContractSpec ClosingSettles
CHECK_DEADLOCK FALSE
