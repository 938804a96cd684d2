SPECIFICATION VerdictsSpec
CONSTANTS
  s1 = s1
  s2 = s2
  one = one
  two = two
  none = none
  led = led
  ledFive = ledFive
  onCall = onCall
  Spans = {s1, s2}
  Unknown = Unknown
  Abbreviated = {one, two, none}
  Begins <- MCBegins
  Sentences = {led, ledFive, onCall}
  Within <- MCWithin
  Palette <- MCPalette
  MaxLines = 2
  MaxSaid = 3
  NoVerdict = NoVerdict
  Corpus = {s1}
  Made = {Unknown}
  Slots = {1, 2, 3}
  Could = {0, 1, 5, 10, 11}
  MaxConstraints = 2
  MaxMentions = 2
  Nothing = Nothing
  MaxAttempts = 3
  Failures = {"credits_exhausted", "invalid_key", "connection", "bad_request", "not_found"}
  MaxCalls = 4
  Priced = TRUE
  NoRow = NoRow
INVARIANTS
  VerdictsAreEarned
  ScoreIsHonest
  CallsAreAccounted
CHECK_DEADLOCK FALSE
