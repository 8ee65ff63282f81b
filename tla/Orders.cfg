SPECIFICATION OrdersSpec
CONSTANTS
  Turns = {"orders", "day one", "tri"}
  Entries = {e1}
  Exits = {x1}
  Sizes = {2}
  MaxAttempt = 2
  Crashes = TRUE
  LateArrival = FALSE
CHECK_DEADLOCK FALSE
INVARIANTS
  LedgerTracksAlpaca
  OneLiveOrder
  PlansAreReal
PROPERTIES
  LedgerSpec
