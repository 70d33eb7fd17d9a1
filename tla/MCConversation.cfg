\* Four pieces: a block with a body and what comes before or after it.
CONSTANTS
  MaxPieces = 4
  Texts <- MCTexts
  Sessions <- MCSessions
  Added <- MCAdded
SPECIFICATION ConversationSpec
INVARIANTS
  ChunksDontMatter
  AgreesWithParser
  BoundaryRerenders
  TurnsBalanced
  EndOfTurnRerenders
\* A conversation comes to its last request.
CHECK_DEADLOCK FALSE
