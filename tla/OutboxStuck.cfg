SPECIFICATION FairSpec
CONSTANTS
  Event = {e1}
  Poller = {p1}
  Worker = {w1}
  BatchLimit = 2
  StaleAge = 1
  Unbuildable = {}
  MaxRetries = 0
  QueueBound = 1
  MaxErrors = 1
  MaxCrashes = 0
  MaxResets = 0
PROPERTIES
  FailedTaskRunsAgain
