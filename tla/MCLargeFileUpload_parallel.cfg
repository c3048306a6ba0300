\* One fresh upload of three parts, two at a time, one retry each.
SPECIFICATION FairSpec
CONSTANTS
  u1 = u1  u2 = u2  f1 = f1  d1 = d1  d2 = d2
  Client = {u1}
  Nobody = Nobody
  FileId = {f1}
  NoFile = NoFile
  Digest = {d1}
  NoDigest = NoDigest
  N = 3
  Concurrency = 2
  MaxRetries = 1
  Setting <- AllFresh
  Content <- ContentByClient
INVARIANTS NothingOutlivesTheCall NoSilentOrphan
PROPERTY Settles
CHECK_DEADLOCK FALSE
