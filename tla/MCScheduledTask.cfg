SPECIFICATION FairSpec
CONSTANTS
  a = a
  b = b
  Tasks = {t1, t2}
  Sessions = {a, b}
  Stages = {"opening", "offer"}
  FirstStage = "opening"
  Timed = {"opening"}
  Payloads <- MCPayloads
  Limit = 1
  MaxEdits = 2
  MaxEvents = 2
  MaxRestarts = 1
CHECK_DEADLOCK FALSE
INVARIANTS SentAsReported WholeUnlessOverrun
PROPERTIES ManualReachesChosen KeepsOrders TasksSettle
