SPECIFICATION Spec
CONSTANTS
  Event = {e1, e2}
  Poller = {p1}
  Worker = {w1, w2}
  BatchLimit = 2
  StaleAge = 1
  Unbuildable = {}
  MaxRetries = 1
  QueueBound = 2
  MaxErrors = 1
  MaxCrashes = 1
  MaxResets = 2
SYMMETRY Symmetry
INVARIANTS
  IndexesBackCompletion
  NothingStranded
PROPERTIES
  DeliveryPromise
