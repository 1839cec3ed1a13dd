SPECIFICATION Spec
CONSTANTS
  Sample = {s1, s2}
  Window = 2
  Channel = {"events_core", "global", "alerts"}
  First <- TwoChannels
  MsgCap = 2
  Letter <- Letters
  Lower <- LowerCase
  Space = " "
  Query <- Queries
  Rows <- ThreeRows
  MaxEvents = 4
INVARIANTS
  TypeOK
  ChartsFollow
  HighlightIsTheMatch
PROPERTIES
  OnlySubscribedArrive
