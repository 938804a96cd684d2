SPECIFICATION FairSpec
PROPERTY EveryTaskSettles
CONSTANTS
  sys = sys
  ana = ana
  purge = purge
  score = score
  digest = digest
  w1 = w1
  w2 = w2
  s1 = s1
  s2 = s2
  System = sys
  Recurring = purge
  ModelKinds <- MCModelKinds
  PlainKinds <- MCPlainKinds
  Tasks <- MCTasks2
  Users = {sys, ana}
  Workers = {w1}
  Slots = {s1}
  MaxAttempts = 2
  PerUserLimit = 1
  VisibilityTimeout = 1
  ParkDelay = 1
  MaxDelay = 1
  Horizon = 0
  RetryBase = 1
  RetryCap = 1
  RefuseDelay = 1
  ReclaimInterval = 0
  EnqueueDelays = {0}
  Prompt = TRUE
  Disturbances = {"crash", "account"}
