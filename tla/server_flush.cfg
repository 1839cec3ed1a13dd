SPECIFICATION Spec
CONSTANTS
  k1 = k1
  k2 = k2
  k3 = k3
  c1 = c1
  c2 = c2
  Key = {k1, k2, k3}
  Val = {1, 2}
  Score = {0}
  NaN = NaN
  MaxKeys = 0
  KeyLen = 3
  ValLen = 5
  Second = 1
  Absent = Absent
  NoStr = NoStr
  NoArg = NoArg
  Invalid = Invalid
  NoCmd = NoCmd
  Client = {c1, c2}
  Request <- Owners
  Lasting = {k1, k2}
  ReadKeys = {k3}
  MaxSends = 2
  MaxStops = 2
  MaxMidFlushes = 1
  Start = 2
  MaxTime = 3
INVARIANT DurableStays
CHECK_DEADLOCK FALSE
