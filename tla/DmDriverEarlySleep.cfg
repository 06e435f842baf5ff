SPECIFICATION Spec
CONSTANTS
  NumAct = 2
  Capacity = 2
  Commands <- TwoFrames
  DmMap <- MCDmMap
  TestNibbles <- MCNibbles
  Faults <- NoFaults
  MaxHours = 0
  MaxKills = 0
  QuietStart = FALSE
INVARIANTS SleepOnlyAfterAnHour
