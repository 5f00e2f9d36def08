SPECIFICATION FairSpec
CONSTANTS
  beep = beep
  chain = chain
  snooze = snooze
  NoCommand = NoCommand
  GivenIds <- MCIds
  MinId <- MCMinId
  ServerMod = 1000
  TimeMod = 1000000
  Skew = 500
  Commands = {beep, chain}
  Does <- Quiet
  Delays = {0, 1}
  Periodic = {FALSE, TRUE}
  MaxTime = 4
  MaxEvents = 2
  MaxJobs = 2
  MaxDepth = 2
INVARIANTS RunsOnce
PROPERTIES DescheduledStops DueJobEnds
CHECK_DEADLOCK FALSE
