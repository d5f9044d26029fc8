SPECIFICATION Spec
CONSTANTS
  Config <- MCConfig
  Configurations <- MCConfigurations
  Limits = {0, 1, 2, 3}
  MaxTokens = {0, 2, 7}
  DefaultTokens = 4
  Cap = 8
CHECK_DEADLOCK FALSE
INVARIANTS CostBound AllWereAsked RetryAsksMore
