SPECIFICATION FairSpec
CONSTANTS
  Stages = {"opening", "closing", "removed", "done"}
  Options = {"opening", "closing"}
  Terminal = {"done"}
  NoStage = ""
  MaxReviews = 3
  IncludeMemory = TRUE
  VectorReview = TRUE
CHECK_DEADLOCK FALSE
INVARIANTS SentWasReviewed ReviewBound NoAgentForHumans NoSilentTurn RepliesOnFacts
PROPERTIES StageStaysKnown KeepsGate RunEnds
