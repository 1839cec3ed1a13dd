SPECIFICATION Spec
CONSTANTS
  c1 = c1
  c2 = c2
  s1 = s1
  s2 = s2
  Conn = {c1, c2}
  Http = {c2}
  Subscriber = {c1, c2}
  Publisher = {c2}
  Unreliable = {}
  Channel = {ch}
  Sub = {s1, s2}
  None = None
  Cap = 1
  MaxMsgs = 2
SYMMETRY SubSymmetry
INVARIANTS
  EndedHoldsNothing
CHECK_DEADLOCK FALSE
