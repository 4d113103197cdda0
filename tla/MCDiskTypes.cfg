SPECIFICATION MasterSpec
CONSTANTS
  Machines <- MCSecondary
  Floppies <- MCFloppy
  Calls <- MCDiskOnly
INVARIANTS
  TypeOfLocation
