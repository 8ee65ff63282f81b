SPECIFICATION FairNights
CONSTANTS
  Turns = {"night"}
  Nights <- OneShare
  MaxBuys = 1
  MaxSells = 4
  Plans <- CoinOne
  MaxAttempts = 1
  DayOneFaults = 0
  PickQty = 1
  MaxExits = 1
  HoldFaults = 1
  LateEntry = TRUE
  Ordered = 1
  Halves = FALSE
  MaxCloses = 2
  MaxFaults = 2
  LateArrival = FALSE
CHECK_DEADLOCK FALSE
PROPERTIES
  HoldIsSold
  BuyEnds
