SPECIFICATION Spec
CONSTANTS
  Event = {e1, e2}
  Poller = {p1, p2}
  Worker = {w1, w2}
  BatchLimit = 1
  StaleAge = 1
  Unbuildable = {}
  MaxRetries = 0
  QueueBound = 2
  MaxErrors = 0
  MaxCrashes = 0
  MaxResets = 2
SYMMETRY Symmetry
INVARIANTS
  DeliveriesPaidFor
  ClaimsDisjoint
PROPERTIES
  RowLifecycle
