SPECIFICATION Spec
CONSTANTS
  WORD = 65536
  KIB = 60
  HEADER_SIZE = 16
  SPLIT_THRESHOLD = 4
  ELEMENT_SIZE = 12
  HimemSizes <- MCHimemSizes
  Requests <- MCRequests
  Contents <- MCContents
  NULL = NULL
  v1 = v1
  v2 = v2
INVARIANTS
  TypeOK
  Tiling
  Ownership
  ContentsKept
  FirstFit
  PrevBehind
  IInv
  StatsAddUp
PROPERTIES
  UsedBlocksStay
  ImplementsStore
  KmallocReturns
