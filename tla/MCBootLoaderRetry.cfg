SPECIFICATION Spec
CONSTANTS
  TOTALSECTORS = 11
  MAX_ATTEMPTS = 5
  MINMEM = 480
  Geometries <- MCGeometries
  Leftovers <- MCLeftovers
  Segments <- MCZero
  LowMemSizes <- MCLowMemSizes
  Himem <- MCHimem
INVARIANTS
  RetryReads
