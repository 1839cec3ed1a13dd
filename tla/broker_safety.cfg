SPECIFICATION Spec
CONSTANTS
  c1 = c1
  c2 = c2
  s1 = s1
  s2 = s2
  Conn = {c1, c2}
  Http = {}
  Subscriber = {c1, c2}
  Publisher = {c1, c2}
  Unreliable = {c1}
  Channel = {ch}
  Sub = {s1, s2}
  None = None
  Cap = 2
  MaxMsgs = 2
SYMMETRY SubSymmetry
INVARIANTS
  NoPanic
  EndedHoldsNothing
  ConfirmedFirst
  InOrder
CHECK_DEADLOCK FALSE
