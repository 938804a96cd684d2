SPECIFICATION MCSpec
CONSTANTS
  c1 = c1
  c2 = c2
  r1 = r1
  r2 = r2
  None = None
  Facts = {1, 2, 3}
  RoleOf <- MCRoleOf
  AsWritten <- MCAsWritten
  Asks = {3}
  Words = {"a", "b"}
  Answers = {"y"}
  Labels = {"eng", "go", "sql"}
  Cvs = {c1, c2}
  CvTries = 2
  Requests = {r1}
  Runs = {1}
  RunTries = 2
  CallSize = 2
  MaxItems = 2
  Practices = {"p"}
  Places = {"x", "y"}
  Levels = {"s"}
  Readings = {1, 2}
  ReadingTries = 2
  MaxRead = 2
  StalePages = FALSE
CONSTRAINT Bounds
INVARIANTS
  CorpusIsWhatWasSaid
  NothingDropped
  
PROPERTIES
  OnlyTheUserAnswers
  UserOverModel
CHECK_DEADLOCK FALSE
