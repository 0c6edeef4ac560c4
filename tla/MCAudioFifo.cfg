SPECIFICATION FairSpec
CONSTANTS
  Items <- MCItems
  Size = 4
  ChunkSize = 2
  Request = 3
  MaxOutput = 3
INVARIANT RaceFree
PROPERTY ImplementsQueue FlushEnds
