CONSTANTS
  PrefixLen = 2
  SuffixLen = 1
  High = 14
  Low = 8
  MaxUnits = 1
  MaxPrev = 2
  MaxSpeak = 3
  GraceTokens = 2
  CharLimit = 2
  GraceChars = 1
  ForceCount = 1
  Texts = {0, 1}
  NotPending = NotPending
  MaxSessions = 2
  MaxTries = 4
SPECIFICATION Spec
CHECK_DEADLOCK FALSE
INVARIANTS
  Layout
  MemoryIsLatestSpoken
  ListensBetweenTurns
