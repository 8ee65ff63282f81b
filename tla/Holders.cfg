SPECIFICATION HoldersSpec
CONSTANTS
  Turns = {"night", "orb"}
  Nights <- MCNights
  MaxBuys = 3
  MaxSells = 5
  Plans <- CoinOne
  MaxAttempts = 3
  DayOneFaults = 0
  PickQty = 2
  MaxExits = 3
  HoldFaults = 1
  LateEntry = TRUE
  Ordered = 1
  Halves = FALSE
  MaxCloses = 2
  MaxFaults = 2
  LateArrival = FALSE
CHECK_DEADLOCK FALSE
INVARIANTS
  NightIsReal
  PickIsReal
