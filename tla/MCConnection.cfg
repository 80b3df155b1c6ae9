SPECIFICATION FairSpec
CONSTANTS
  Endpoints = 2
  MaxPosts = 5
INVARIANT OneWriteAtATime
PROPERTIES
  ImplementsPipe
  LinesWritten
  ServerLost
CHECK_DEADLOCK FALSE
