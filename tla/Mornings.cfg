SPECIFICATION FairMornings
CONSTANTS
  Turns = {"orb", "owners", "loss", "desk"}
  Symbols = {s1}
  MaxScans = 2
  MaxFaults = 1
  Stocks = {1, 2, 3}
  Swung = {1}
  Spys = {2}
  Coins = {3}
  Nightly = {1}
  Slots = 2
  SwingSlots = 1
  OwnerFaults = 1
  Days = 3
  FirstEquity = 40
  Hard = 4
  Share = 10
  Warning = 2
  Gains = {1}
  Losses = {2}
  MaxMoves = 3
  LossFaults = 1
  DeskExits = {x1, x2, c1}
  DeskCovers = {c1}
CHECK_DEADLOCK FALSE
INVARIANTS
  PrimaryOnce
  OwnersShare
  DeskStartsFlat
PROPERTIES
  OrbMorningEnds
