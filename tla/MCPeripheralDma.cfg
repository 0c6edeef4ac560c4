SPECIFICATION Spec
CONSTANTS
  a1 = a1
  a2 = a2
  Addresses <- MCAddresses
  Nodes = 4
  MaxResets = 2
INVARIANT WriteEventIsCurrent BusyBitsExact SiMovesWhatWasAsked
CHECK_DEADLOCK FALSE
