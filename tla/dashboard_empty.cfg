SPECIFICATION FairSpec
CONSTANTS
  k1 = k1
  k2 = k2
  w = w
  Key = {k1, k2}
  Word = {w}
  MaxWords = 1
  Mock <- OneMockRow
  Slots = 2
  MaxClicks = 2
  MaxWrites = 1
  MaxLost = 1
  Absent = Absent
  NoAnswer = NoAnswer
  NoRequest = NoRequest
  NoModal = NoModal
PROPERTIES
  EmptyStoreShown
