SPECIFICATION Spec
CONSTANTS
  TOTALSECTORS = 11
  MAX_ATTEMPTS = 5
  MINMEM = 480
  Geometries <- MCGeometries
  Leftovers <- MCLeftovers
  Segments <- MCSegments
  LowMemSizes <- MCLowMemSizes
  Himem <- MCHimem
INVARIANTS
  TypeOK
  SectorsInPlace
  KernelComplete
PROPERTIES
  Ends
