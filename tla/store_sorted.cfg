SPECIFICATION Spec
CONSTANTS
  Key = {k1}
  Val = {v1, v2, v3}
  Score = {0, 1, NaN}
  NaN = NaN
  MaxKeys = 1
  KeyLen = 3
  ValLen = 5
  Second = 2
  Absent = Absent
  NoStr = NoStr
  VTypes = {"ZSet"}
  Duration <- NegativeAndPositive
  Start = 2
  MaxTime = 2
  MaxLen = 0
  MaxArgs = 1
INVARIANT
  SortedByScore
