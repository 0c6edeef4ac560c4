SPECIFICATION FairSpec
CONSTANTS
  NumWords = 6
  PageWords = 3
  Programs <- AllPrograms
  MaxInterrupts = 2
INVARIANT TypeOK
PROPERTY ImplementsProgramOrder ProgramGoesOn
CHECK_DEADLOCK FALSE
