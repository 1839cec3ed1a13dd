SPECIFICATION RecencySpec
CONSTANTS
  Key = {k1, k2, k3}
  Val = {v1}
  Score = {0}
  NaN = NaN
  MaxKeys = 2
  KeyLen = 3
  ValLen = 5
  Second = 2
  Absent = Absent
  NoStr = NoStr
  VTypes = {"String", "List"}
  Duration <- NegativeAndPositive
  Start = 2
  MaxTime = 3
  MaxLen = 1
  MaxArgs = 1
SYMMETRY KeySymmetry
INVARIANTS
  LRUCoherent
  WithinLimit
  BytesNeverOverstated
  WrittenKeyKept
PROPERTIES
  EvictsLeastRecentlyTouched
