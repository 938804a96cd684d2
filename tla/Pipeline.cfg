SPECIFICATION Spec
INVARIANTS
  WaitingIsAccounted
  DoneReadHasNoCode
  FirstScoreOnce
PROPERTIES SettledOnce QueueKept
CONSTRAINT Few
CHECK_DEADLOCK FALSE
CONSTANTS
  NoAd = NoAd
  a1 = a1
  a2 = a2
  Ads = {a1}
  BoardAd = a1
  Tasks <- MCTasks4
  MaxAttempts = 2
  MaxPresses = 1
  Faulty = TRUE
