SPECIFICATION Spec
CONSTANTS
  r1 = r1
  s1 = s1
  s2 = s2
  ask1 = ask1
  ask2 = ask2
  Rest = {r1}
  Streams = {s1}
  AskOf <- MCAskOf
  Humans = {h1}
  Broadcasts = {b1}
  Stages = {"opening", "offer"}
  FirstStage = "opening"
  DefaultStage = "default"
  MaxTakeOvers = 1
  MaxResets = 1
  MaxPersisted = 1
CHECK_DEADLOCK FALSE
INVARIANTS OneCopy ResetHolds
PROPERTIES HumanKeepsSession
