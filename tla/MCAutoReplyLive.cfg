SPECIFICATION FairSpec
CONSTANTS
  Msgs = {m1, m2}
  Generations = {1, 2, 3, 4, 5, 6}
  MaxBatch = 2
  MaxUpdates = 1
  MaxChunks = 2
  MaxTakeOvers = 1
  MaxFailures = 1
CHECK_DEADLOCK FALSE
PROPERTIES MessageTaken
