SPECIFICATION Spec
CONSTANTS
  Machines <- MCMachines
  Floppies <- MCFloppies
  Calls <- MCCalls
INVARIANTS
  TypeOK
  SelectionKnown
  TypesReported
PROPERTIES
  IdentifyRight
  CallsReturn
