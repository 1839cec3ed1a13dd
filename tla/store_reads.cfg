SPECIFICATION ReadingSpec
CONSTANTS
  Key = {k1, k2, k3}
  Val = {v1}
  Score = {0}
  NaN = NaN
  MaxKeys = 2
  KeyLen = 3
  ValLen = 5
  Second = 2
  Absent = Absent
  NoStr = NoStr
  VTypes = {"List"}
  Duration <- NegativeAndPositive
  Start = 2
  MaxTime = 3
  MaxLen = 1
  MaxArgs = 1
PROPERTY
  EvictsLeastRecentlyUsed
