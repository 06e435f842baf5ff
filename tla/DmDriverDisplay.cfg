SPECIFICATION FairSpec
CONSTANTS
  NumAct = 2
  Capacity = 2
  Commands <- TwoFrames
  DmMap <- MCDmMap
  TestNibbles <- MCNibbles
  Faults <- NoFaults
  MaxHours = 0
  MaxKills = 0
  QuietStart = TRUE
PROPERTIES ImplementsDisplay
