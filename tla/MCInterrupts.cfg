SPECIFICATION Spec
CONSTANTS
  Lines <- MCLines
  Exceptions <- MCExceptions
  Functions <- MCFunctions
  Numbers <- MCNumbers
  Pointers <- MCPointers
  MaxOwned = 1
  TICKS = 3
  VSYNC_MS = 2
INVARIANTS
  TypeOK
  OnlyWhenReady
  InServiceMatches
  HandlersAlone
  ArgumentsKept
  AskedOrSleep
  OwnedAllocated
PROPERTIES
  KsyncReturns
  OnlyEaxLost
