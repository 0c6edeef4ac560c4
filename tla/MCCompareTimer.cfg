SPECIFICATION TimerSpec
CONSTANTS
  Size = 16
  MaxBlock = 3
  MaxLate = 2
  Counts <- AllValues
  Compares <- AllValues
INVARIANT TimerTypeOK EventAtMatch Ip7OnlyAfterMatch
PROPERTY DueEventNotDropped
