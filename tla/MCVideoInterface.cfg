SPECIFICATION FairSpec
CONSTANTS
  CPU_CYCLES_PER_FRAME = 6
  Syncs <- MCSyncs
  Interrupts <- MCInterrupts
  Ticks <- MCTicks
  ResetHalflines = 3
  ResetCycles = 1
  ResetInterrupt = 0
  Resets = {"menu", "thread"}
  MaxResets = 1
  MaxClock = 2
  MaxLate = 2
  MaxElapsed = 8
INVARIANT OneHalflineQueued
PROPERTY NextNeverWraps InterruptOncePerField HalflinesGoOn
CHECK_DEADLOCK FALSE
