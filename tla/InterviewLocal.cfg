SPECIFICATION Spec
CONSTANTS
  Run = {r1}
  NumSections = 2
  Pairs = {0, 1}
  MaxSaves = 3
  MaxConversions = 2
  MaxIndexed = 2
  Index = {es}
  BatchSize = 1
  RowsUnordered = FALSE
INVARIANTS FailuresStayLocal
