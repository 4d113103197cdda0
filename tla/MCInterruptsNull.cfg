SPECIFICATION Spec
CONSTANTS
  Lines <- MCTimer
  Exceptions <- MCNone
  Functions <- MCHeap
  Numbers <- MCNumbers
  Pointers <- MCPointers
  MaxOwned = 1
  TICKS = 3
  VSYNC_MS = 2
INVARIANTS
  NeverNull
