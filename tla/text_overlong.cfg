SPECIFICATION TextSpec
CONSTANTS
  Byte = {97, 32}
  MinArgs = 2
  MaxScan = 7
  MaxBytes = 8
  MaxCrashes = 0
INVARIANTS
  LineErrorsSkipped
CHECK_DEADLOCK FALSE
