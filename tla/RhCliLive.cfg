SPECIFICATION FairSpec
CONSTANTS
  NumAct = 2
  Capacity = 2
  ActMap <- MCActMap
  Files <- AnyFiles
  Rates <- MCRates
  Volts <- MCVolts
  TestNibbles <- MCNibbles
  MaxLines = 2
  Faults <- SoftFaults
PROPERTIES CommandsConsumed StepServed QuitEnds PromptComes
