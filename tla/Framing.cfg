SPECIFICATION FairSpec
CONSTANTS
  Requests <- SomeRequests
  Malformed <- SomeMalformed
  Garbage <- SomeGarbage
  Writes <- SomeWrites
  AsciiGarbage <- SomeAsciiGarbage
  Blocks <- SomeBlocks
  MaxSends = 2
INVARIANTS
  FramesExact
  AnswersMatch
PROPERTIES
  FramesTaken
  GarbageEnds
CHECK_DEADLOCK FALSE
