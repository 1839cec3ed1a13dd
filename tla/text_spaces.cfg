SPECIFICATION TextSpec
CONSTANTS
  Byte = {97, 32, 34}
  MinArgs = 2
  MaxScan = 16
  MaxBytes = 7
  MaxCrashes = 0
INVARIANTS
  ArgumentsComeBack
CHECK_DEADLOCK FALSE
