SPECIFICATION Spec
CONSTANTS
  Url = {u1, u2}
  u1 = u1
  u2 = u2
  Nowhere = Nowhere
  STOP = STOP
  App = {a1}
  Consumer = {c1, c2}
  UrlCap = 1
  ResultCap = 1
  FetchSize = 2
  StoreSize = 2
  Page <- CrossedPage
  Slow = {"drain_urls", "drain_results"}
  MaxErrors = 2
  MaxCrashes = 0
  MaxElapses = 1
INVARIANTS Accounted CompletedHasEvent
