SPECIFICATION FairSpec
CONSTANTS
  StageList <- MCStageList
  Unlisted = "removed"
  ActionOf <- MCActionOf
  Timed <- MCTimed
  MaxJobs = 3
  MaxRestarts = 1
INVARIANTS OneWaiting OnlySilentCustomers ShownFollowUpExists
PROPERTIES HistoryStays JobsSettle KeepsPromise
