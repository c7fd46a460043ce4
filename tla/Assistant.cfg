SPECIFICATION Spec
CONSTANTS
  Request = {q1, q2, q3}
  Session = {s1, s2}
  Id = {c1, c2, c3}
  TopK = 2
  Searching = {q1}
INVARIANTS TypeOK SessionsTrue LostOnlyToOverlap FusionSound RankKept
SYMMETRY Interchange
CHECK_DEADLOCK FALSE
