SPECIFICATION MCSpec
CONSTANTS
  u = u
  v = v
  s1 = s1
  w = w
  q1 = q1
  q2 = q2
  t1 = t1
  t2 = t2
  k1 = k1
  k2 = k2
  None = None
  MaxTries = 2
  Vocabulary = {u, v}
  Accepts = {s1}
  MaxSuggestions = 1
  MaxAsked = 2
  MaxTyped = 1
  Attempts = {q1, q2}
  Deliveries = {t1, t2}
  Typed = {w}
  Drafted = {u, v}
  Keys = {k1, k2}
  Works = {t1, t2}
  Identities = {u, v}
  Addresses = {w}
  Accounts = {k1, k2}
  Tokens = {t1, t2}
  Presses = {q1, q2}
  Ttl = 3
  TouchAfter = 1
  MaxTime = 3
CONSTRAINTS
  OneTroubled
  OneInvolved
SYMMETRY AccountSymmetry
INVARIANTS
  
  VerdictIsOfItsText
  AccountIsTheUsers
CHECK_DEADLOCK FALSE
