SPECIFICATION Spec
CONSTANTS
  ChunkFrames = 4
  FirstFrames = 7
  Lookahead = 2
  Redundancy = 2
  Trigger = 13
  Stride = 4
  MinKeep = 4
  MaxPos = 8
  Hop = 2
  FirstPad = 15
  Pieces <- MCPieces
  SpeechChunk = 4
  PreLookahead = 1
  LeastMore = 2
  SilenceTokens = 1
  MaxSessions = 2
  MaxHeard = 5
INVARIANTS
  EverySecondHeard
  SoundedInItsTurn
CHECK_DEADLOCK FALSE
