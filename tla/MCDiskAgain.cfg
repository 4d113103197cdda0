SPECIFICATION MasterSpec
CONSTANTS
  Machines <- MCOneDrive
  Floppies <- MCFloppy
  Calls <- MCDiskOnly
INVARIANTS
  FloatingMeansEmpty
