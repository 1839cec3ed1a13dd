SPECIFICATION FairSpec
CONSTANTS
  Key = {k1}
  Val = {v1, cut}
  Score = {0}
  NaN = NaN
  MaxKeys = 0
  KeyLen = 3
  ValLen = 5
  Second = 1
  Absent = Absent
  NoStr = NoStr
  NoArg = NoArg
  cut = cut
  Starts <- MCLong
  CutShort <- MCCutShort
  MaxLog = 5
  Width = 2
  BufCap = 7
PROPERTY
  StateReconstructed
CHECK_DEADLOCK FALSE
