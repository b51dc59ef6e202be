SPECIFICATION MigrationSpec
CONSTANTS
  NumItems = 2
  KeysOf <- TwoColumns
  BatchSize = 1
  NumRoots = 2
  Absent = Absent
  Plain = Plain
  Foreign = Foreign
  Resets = FALSE
  MaxStarts = 3
  MaxWrites = 0
  MaxFaults = 0
INVARIANT CurrentIsWhole
CHECK_DEADLOCK FALSE
