\* Two paths, all directions, compare and keep modes, two runs in a row; one edit, or
\* one fault and one abort or close; a crash between a download and an upload.
SPECIFICATION FairSpec
CONSTANTS
  x = x  y = y  d1 = d1  d2 = d2  d3 = d3
  None = None
  N = 2
  Concurrency = 2
  Data = {d1, d2, d3}
  Folder = {x, y}
  FromFolder = x
  ToFolder = y
  Size <- Sizes
  Plan <- Plans
INVARIANTS OutcomesAreTrue EveryOutcomeYielded
PROPERTIES FilesSurvive RunEnds
CHECK_DEADLOCK FALSE
