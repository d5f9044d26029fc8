CONSTANTS
  server = server
  script = script
  turn = turn
  x = x
  y = y
  Server = server
  Scripts = {script}
  Settings <- MCSettings
  Providers <- MCProviders
  TopK = 1
  Turns = {turn}
  Texts = {x, y}
  NoFile = NoFile
  FirstFiles <- MCFirstFiles
  Edits <- MCEdits
  MaxEdits = 1
  MaxStarts = 3
  MaxQueries = 1
SPECIFICATION Spec
INVARIANTS
  TextIsReindexed
CHECK_DEADLOCK FALSE
