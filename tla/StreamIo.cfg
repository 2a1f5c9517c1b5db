SPECIFICATION FairSpec
CONSTANTS
  Capacity = 2
  ReadChunk = 2
  DropChunk = 1
  WriteChunk = 1
  Limit = 2
  Input = 3
  MaxOutput = 4
INVARIANTS StreamsTypeOK OutputIsPrefix InputIsPrefix NoEdgeLost
PROPERTIES OutputDrained EndNoticed InputEnds
CHECK_DEADLOCK FALSE
