SPECIFICATION TextSpec
CONSTANTS
  Byte = {97, 32, 34, 160, 10}
  MinArgs = 2
  MaxScan = 8
  MaxBytes = 7
  MaxCrashes = 2
INVARIANTS
  TokensAreThePieces
  DamageStaysInItsLine
  OneRestartSettles
CHECK_DEADLOCK FALSE
