CONSTANTS
  d1 = d1
  d2 = d2
  c1 = c1
  c2 = c2
  Rows <- MCRows
  Docs = {d1, d2}
  Codes = {c1, c2}
  Bodies <- MCBodies
  Workers = {w1, w2}
  None = None
  Batch = 1
  MaxAttempts = 2
  AttemptCap = 2
  MaxFaults = 1
SPECIFICATION EfrisSpec
INVARIANTS
  OneFdnUnlessRecoded
PROPERTIES
  FiscalizedStays
  CancelledUnlessHeld
  EventuallySettled
CHECK_DEADLOCK FALSE
