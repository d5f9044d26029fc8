SPECIFICATION Spec
CONSTANTS
  StageList <- MCStageList
  Unlisted = "removed"
  ActionOf <- MCActionOf
  Timed <- MCTimed
  MaxJobs = 2
  MaxRestarts = 0
PROPERTIES SentToSilentOnly
