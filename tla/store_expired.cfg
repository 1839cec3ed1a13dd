SPECIFICATION Spec
CONSTANTS
  Key = {k1}
  Val = {v1}
  Score = {0}
  NaN = NaN
  MaxKeys = 1
  KeyLen = 3
  ValLen = 5
  Second = 2
  Absent = Absent
  NoStr = NoStr
  VTypes = {"List"}
  Duration <- NegativeAndPositive
  Start = 2
  MaxTime = 4
  MaxLen = 1
  MaxArgs = 1
INVARIANT
  ExpiredNotRead
