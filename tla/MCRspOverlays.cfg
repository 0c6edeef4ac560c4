SPECIFICATION Spec
CONSTANTS
  ImemWords = 2
  NumOverlays = 2
  CodecacheSize = 6
  Images <- MCImages
INVARIANT CodeIsCurrent IcacheIsCurrent
PROPERTY CodeIsOnlyLostWhenFull
