SPECIFICATION MCSpec
CONSTANTS
  x = x
  y = y
  p1 = p1
  p2 = p2
  j = j
  u = u
  r1 = r1
  r2 = r2
  g1 = g1
  g2 = g2
  Entries = {r1, r2}
  Tabs = {g1}
  MaxClock = 5
  MaxFolds = 2
  Windows = {g1, g2}
  MaxVisits = 4
  Apps = {x, y}
  BoardJobs = {j}
  Requests = {p1, p2}
  Words = {u}
  None = None
  MaxNow = 1
  MaxEvents = 3
CONSTRAINT Bounds
SYMMETRY DeskSymmetry
INVARIANTS
  ListIsTrue
  ScreenIsHonest
PROPERTY BulkIsWhole
CHECK_DEADLOCK FALSE
