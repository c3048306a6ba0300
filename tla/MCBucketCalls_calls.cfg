\* One call among two requests of others; three edits of two callers; three requests on locked versions.
SPECIFICATION Spec
CONSTANTS
  FileName = {1, 3}
  FolderOf <- Folders
  MaxId = 4
  MaxTime = 1
  c1 = c1  c2 = c2
  Caller = {c1, c2}
  Plan <- Plans
  Setting = {"lifecycleRules"}
  Rule = {"r1", "r2"}
  PageSize = 1
  Concurrency = 1
  MaxLost = 1
  MaxRevision = 5
INVARIANTS ListingMissesNothing AnswersAreTrue
PROPERTY LockedStays
CHECK_DEADLOCK FALSE
