SPECIFICATION Spec
CONSTANTS
  NumAct = 2
  Capacity = 9
  Commands <- OneFrame
  DmMap <- MCDmMap
  TestNibbles <- MCNibbles
  Faults <- SoftFaults
  MaxHours = 1
  MaxKills = 1
  QuietStart = FALSE
INVARIANTS TypeOK NoFrameHidden FrameReachesBuffers OnlySteps
