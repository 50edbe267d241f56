CONSTANTS
  TextChunk = 2
  MaxChunks = 5
  VoiceChunk = 3
  Lookahead = 1
  Silence = 1
  MaxVoice = 4
  TokenWindow = 7
  Window = 3
  Recomputed = 1
SPECIFICATION AnswerSpec
CHECK_DEADLOCK FALSE
INVARIANTS
  SpokenOnce
  SaidAsThought
  
