SPECIFICATION MCSpec
CONSTANTS
  job1 = job1
  job2 = job2
  job3 = job3
  print1 = print1
  print2 = print2
  s1 = s1
  s2 = s2
  Ids = {job1, job2, job3}
  Prints = {print1, print2}
  Listings <- MCListings
  Slots = {s1, s2}
  None = None
  MaxAttempts = 2
  MaxChecks = 3
  MaxNow = 1
  RepostWindow = 0
  EmptyMin = 2
  MinPrevious = 3
  Day = 4
  MinGap = 2
  Postings = {1, 2, 3, 4, 5, 6}
  Nameless = {6}
  Posted = {0, 1, 2, 3, 4, 5}
  PageSize = 2
  Ceiling = 4
  MaxPages = 3
  MaxRequests = 6
  MaxChanges = 1
  LackingGroups = 1
  MaxPlaces = 3
  MaxMarks = 5
  MaxChars = 2
SYMMETRY BoardSymmetry
INVARIANTS
  BoardIsWhatWasSeen
  RepostsAreReplacements
  
PROPERTY CollapseIsAnswered
CHECK_DEADLOCK FALSE
