SPECIFICATION Spec
CONSTANTS
  c1 = c1
  c2 = c2
  Calls = {c1, c2}
  p1 = p1
  p2 = p2
  Parties = {p1, p2}
  r1 = r1
  r2 = r2
  Requests = {r1, r2}
  MaxSent = 4
  MaxTotal = 4
  MaxResent = 1
SYMMETRY CallSymmetry
INVARIANTS TypeOK EndIsKnown RecordedAsItHappened
PROPERTY NeverRingsAgain
CHECK_DEADLOCK FALSE
