SPECIFICATION FairSpec
CONSTANTS
  c1 = c1
  c2 = c2
  s1 = s1
  s2 = s2
  Conn = {c1, c2}
  Http = {}
  Subscriber = {c1}
  Publisher = {c2}
  Unreliable = {c1}
  Channel = {ch}
  Sub = {s1}
  None = None
  Cap = 1
  MaxMsgs = 2
INVARIANT Agreed
PROPERTIES
  PublisherNotBlocked
  CountedIsWritten
  GoneIsForgotten
CHECK_DEADLOCK FALSE
