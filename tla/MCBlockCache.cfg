SPECIFICATION JitSpec
CONSTANTS
  kseg0 = kseg0
  kseg1 = kseg1
  VirtualPages <- MCVirtualPages
  NumPages = 2
  PageWords = 2
  CodecacheSize = 7
  SiWords = 2
  Programs <- MCPrograms
  Patches = {"nop", "eret"}
  MaxWrites = 1
INVARIANT JitTypeOK CodeIsCurrent CodeIsWhole
SYMMETRY VirtualPagesSymmetry
