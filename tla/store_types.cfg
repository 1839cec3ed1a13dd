SPECIFICATION FairSpec
CONSTANTS
  Key = {k1, k2}
  Val = {v1, v2}
  Score = {0, 1, NaN}
  NaN = NaN
  MaxKeys = 1
  KeyLen = 3
  ValLen = 5
  Second = 2
  Absent = Absent
  NoStr = NoStr
  VTypes = {"String", "List", "Set", "ZSet"}
  Duration <- NegativeAndPositive
  Start = 2
  MaxTime = 4
  MaxLen = 3
  MaxArgs = 2
INVARIANTS
  TypeOK
  RangesAnswer
PROPERTIES
  ExpiresOnTheDot
  ExpiredKeysLeave
