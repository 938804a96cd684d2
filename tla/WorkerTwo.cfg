SPECIFICATION Spec
SYMMETRY WorkerSymmetry
INVARIANTS OneDelivery AttemptsBounded OvershootBounded
CONSTANTS
  sys = sys
  ana = ana
  purge = purge
  score = score
  digest = digest
  w1 = w1
  w2 = w2
  s1 = s1
  s2 = s2
  System = sys
  Recurring = purge
  ModelKinds <- NoModelKinds
  PlainKinds <- PlainOnly
  Tasks <- MCTasks3
  Users = {sys, ana}
  Workers = {w1, w2}
  Slots = {s1, s2}
  MaxAttempts = 1
  PerUserLimit = 1
  VisibilityTimeout = 1
  ParkDelay = 0
  MaxDelay = 0
  Horizon = 0
  RetryBase = 1
  RetryCap = 0
  RefuseDelay = 0
  ReclaimInterval = 0
  EnqueueDelays = {0}
  Prompt = TRUE
  Disturbances = {"crash"}
