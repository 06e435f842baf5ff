SPECIFICATION FairSpec
CONSTANTS
  NumAct = 1
  Capacity = 2
  Commands <- SingleFrame
  DmMap <- SingleMap
  TestNibbles <- MCNibbles
  Faults <- NoFaults
  MaxHours = 1
  MaxKills = 1
  QuietStart = FALSE
PROPERTIES Settles IdleGoesToZero QuitEnds
