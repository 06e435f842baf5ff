SPECIFICATION Spec
CONSTANTS
  NumAct = 2
  Capacity = 2
  ActMap <- MCActMap
  Files <- FullFiles
  Rates <- MCRates
  Volts <- MCVolts
  TestNibbles <- MCNibbles
  MaxLines = 3
  Faults <- AllFaults
INVARIANTS TypeOK InSync SemDiscipline WholeFrame StepNotCarriedOver StoppedMeansStopped LoadMirrorsTable
\* a lost interrupt or a failed setup really does stop the program
CHECK_DEADLOCK FALSE
