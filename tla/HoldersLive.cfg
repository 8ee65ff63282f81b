SPECIFICATION FairHolders
CONSTANTS
  Turns = {"day one", "orb", "plan"}
  Nights <- OneShare
  MaxBuys = 1
  MaxSells = 4
  Plans <- CoinOne
  MaxAttempts = 3
  DayOneFaults = 0
  PickQty = 1
  MaxExits = 3
  HoldFaults = 1
  LateEntry = TRUE
  Ordered = 1
  Halves = FALSE
  MaxCloses = 2
  MaxFaults = 2
  LateArrival = FALSE
CHECK_DEADLOCK FALSE
INVARIANT
  PlanIsReal
PROPERTIES
  HoldEnds
  PickEndsFlat
  PlanEndsFlat
