SPECIFICATION FairOrders
CONSTANTS
  Turns = {"orders"}
  Entries = {e1}
  Exits = {x1}
  Sizes = {2}
  MaxAttempt = 1
  Crashes = FALSE
  LateArrival = FALSE
PROPERTIES
  FillsGetBooked
  PauseEnds
