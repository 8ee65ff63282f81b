SPECIFICATION Spec
CONSTANTS
  MaxTime = 5
  MaxEvents = 5
  Parts = 2
  QueueMax = 5
  Keep = 1
  RawCap = 2
  Slack = 1
  TradeTail = 2
  MinSpan = 2
  Upstream = TRUE
  Late = FALSE
  EarlyMarks = FALSE
CHECK_DEADLOCK FALSE
INVARIANT
  WindowWhole
