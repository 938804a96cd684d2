SPECIFICATION MCSpec
CONSTANTS
  q1 = q1
  q2 = q2
  w1 = w1
  w2 = w2
  p1 = p1
  p2 = p2
  r1 = r1
  r2 = r2
  c1 = c1
  c2 = c2
  t1 = t1
  t2 = t2
  t3 = t3
  x1 = x1
  Tasks = {1, 2, 3}
  MaxAttempts = 2
  Presses = {p1}
  Requirements = {q1}
  NoTask = 0
  Wordings = {w1, w2}
  MaxLines = 2
  MaxVersions = 4
  Requests = {r1}
  CheckTasks = {c1}
  CheckTries = 2
  None = None
  Rows = {1, 2, 3}
  Texts = {t1}
  PushKinds = {"preference", "capability"}
  Picks = {x1}
  Sent = {1}
CONSTRAINT TwoAtOnce
SYMMETRY MCSymmetry
INVARIANTS
  EveryStepOnce
  NothingPaidTwice
  VerdictIsOfTheseWords
  ShownIsBounded
PROPERTY OneReadingStays
CHECK_DEADLOCK FALSE
