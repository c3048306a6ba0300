\* Three downloads of two runs in one or two processes, over two days.
SPECIFICATION StagingSpec
CONSTANTS
  d1 = d1  d2 = d2  d3 = d3  r1 = r1  r2 = r2  p1 = p1  p2 = p2  x1 = x1
  Download = {d1, d2, d3}
  Run = {r1, r2}
  Process = {p1, p2}
  Relic = {x1}
  MaxDay = 2
  MaxWrites = 1
  Layout <- Layouts
INVARIANTS ScansSeeUsersFilesOnly StagingStaysUsable
PROPERTY ActiveEntriesStay
CHECK_DEADLOCK FALSE
