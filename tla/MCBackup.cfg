SPECIFICATION Spec
CONSTANTS
  v1 = v1
  v2 = v2
  Values <- MCValues
  SAVE_DATA_DEBOUNCE_FRAMES = 4
  Asynchronous = TRUE
INVARIANT SavedInTime QuitLosesOnlyTheEdges
PROPERTY NotSavedHalfway ResetLosesOnlyTheEdges
CHECK_DEADLOCK FALSE
