SPECIFICATION Spec
CONSTANTS
  r1 = r1
  s1 = s1
  s2 = s2
  ask1 = ask1
  ask2 = ask2
  Rest = {}
  Streams = {s1, s2}
  AskOf <- MCAskOf
  Humans = {}
  Broadcasts = {}
  Stages = {"opening"}
  FirstStage = "opening"
  DefaultStage = "default"
  MaxTakeOvers = 1
  MaxResets = 0
  MaxPersisted = 1
CHECK_DEADLOCK FALSE
PROPERTIES LearntStays
