SPECIFICATION Spec
CONSTANTS
  Addresses <- MCAddresses
  Values <- MCValues
  NULL = NULL
  b1 = b1
  b2 = b2
  b3 = b3
  b4 = b4
  b5 = b5
SYMMETRY MCSymmetry
INVARIANTS
  TypeOK
  WellLinked
PROPERTIES
  ImplementsSequence
  IndexFromFirst
