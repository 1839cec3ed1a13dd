SPECIFICATION FairSpec
CONSTANTS
  c1 = c1
  Cmd = {c1}
  NoCmd = NoCmd
  Demo = Demo
  QueueCap = 2
  StripSize = 1
  Ticks = 2
  Execs = 2
  Seeded = 1
  LogCap = 2
  MaxNotices = 3
  MaxEvents = 3
INVARIANTS
  TypeOK
  QueueSound
  LostAndBackAlternate
PROPERTIES
  EachNoticeLeaves
  StatusSettles
