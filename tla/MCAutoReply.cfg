SPECIFICATION Spec
CONSTANTS
  Msgs = {m1, m2, m3}
  Generations = {1, 2, 3, 4, 5, 6, 7, 8, 9}
  MaxBatch = 2
  MaxUpdates = 0
  MaxChunks = 2
  MaxTakeOvers = 1
  MaxFailures = 1
SYMMETRY MsgSymmetry
CHECK_DEADLOCK FALSE
INVARIANTS OneReplier QueueServed
PROPERTIES NoReplyUnderHuman RestartSparesReply KeepsTurns
