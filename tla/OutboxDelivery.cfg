SPECIFICATION FairSpec
CONSTANTS
  Event = {e1, e2, e3}
  Poller = {p1}
  Worker = {w1}
  BatchLimit = 2
  StaleAge = 1
  Unbuildable = {e3}
  MaxRetries = 1
  QueueBound = 1
  MaxErrors = 1
  MaxCrashes = 1
  MaxResets = 0
INVARIANTS
  TypeOK
PROPERTIES
  DeliveredOrLost
  StaleRecovered
