CONSTANTS
  High = 7
  Low = 5
  MaxInput = 3
  Bos = 1
  ChunkSize = 1
  MaxChunks = 2
  Sizes = {2}
  SystemSize = 1
  Disciplined = TRUE
  NoSession = NoSession
  NoRound = NoRound
  ChatSession = ChatSession
  NoSnapshot = NoSnapshot
  MaxRound = 2
  MaxCache = 8
  MaxSessions = 1
SPECIFICATION Spec
INVARIANTS
  SystemKept
  BooksFit
  OpenTurn

  
