SPECIFICATION Spec
CONSTANTS
  k1 = k1
  c1 = c1
  c2 = c2
  Key = {k1}
  Val = {1, 2}
  Score = {0}
  NaN = NaN
  MaxKeys = 0
  KeyLen = 3
  ValLen = 5
  Second = 1
  Absent = Absent
  NoStr = NoStr
  NoArg = NoArg
  Invalid = Invalid
  NoCmd = NoCmd
  Client = {c1, c2}
  Request <- Pusher
  Lasting = {k1}
  ReadKeys = {}
  MaxSends = 1
  MaxStops = 1
  MaxMidFlushes = 0
  Start = 1
  MaxTime = 1
INVARIANT LogMatchesStore
CHECK_DEADLOCK FALSE
