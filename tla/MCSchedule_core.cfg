SPECIFICATION Spec
CONSTANTS
  beep = beep
  chain = chain
  snooze = snooze
  NoCommand = NoCommand
  GivenIds <- MCIds
  MinId <- MCMinId
  ServerMod = 1000
  TimeMod = 1000000
  Skew = 500
  Commands = {beep, snooze}
  Does <- Everything
  Delays = {0, 1}
  Periodic = {FALSE, TRUE}
  MaxTime = 2
  MaxEvents = 2
  MaxJobs = 2
  MaxDepth = 4
INVARIANTS TypeOK CursorAlive Sorted
PROPERTIES NoJobLost
CHECK_DEADLOCK FALSE
