\* Two uploads that share a pool of up to two URLs, one retry each; or a download of up to
\* four ranges, a window of two.
SPECIFICATION TransferSpec
CONSTANTS
  Upload = {u1, u2}
  PriorUrls = 2
  MaxRetries = 1
  MaxRanges = 4
  Concurrency = 1
  NoResult = NoResult
INVARIANTS PoolNeverFailsUpload ClosedMeansIntact
PROPERTIES InOrder ReaderIsServed
CHECK_DEADLOCK FALSE
