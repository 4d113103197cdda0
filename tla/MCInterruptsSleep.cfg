SPECIFICATION Spec
CONSTANTS
  Lines <- MCTimer
  Exceptions <- MCNone
  Functions <- MCSleep
  Numbers <- MCNumbers
  Pointers <- MCPointers
  MaxOwned = 1
  TICKS = 3
  VSYNC_MS = 2
PROPERTIES
  SleepReturns
