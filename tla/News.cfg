SPECIFICATION MCSpec
CONSTANTS
  e1 = e1
  e2 = e2
  g1 = g1
  g2 = g2
  m1 = m1
  m2 = m2
  Events = {e1, e2}
  Edited = {e1}
  PageNow = 2
  Pages = {g1, g2}
  Sends = {m1, m2}
  None = None
  MaxLag = 1
  MaxNow = 4
  VisibleFor = 1
  Lookback = 2
  MailAttempts = 2
  Settle = 2
  Period = 3
  Backoff = 1
  HeartbeatEvery = 2
CONSTRAINT PageBound
SYMMETRY MCSymmetry
INVARIANTS
  DismissedStaysAway
  ShownForItsDayOrLate
  DigestIsExact
  MailedTwiceOnlyIfLost
CHECK_DEADLOCK FALSE
