SPECIFICATION PositionsSpec
CONSTANTS
  Turns = {"bracket", "swing"}
  NB = 2
  Exits = {x1}
  Covers = {}
  Qtys = {3}
  Caps = {0, 1}
  MaxStop = 2
  Breakeven = 1
  CancelKinds = {"entry", "t1", "t2"}
  Reduce = FALSE
  Blind = FALSE
  Elsewhere = FALSE
CHECK_DEADLOCK FALSE
INVARIANTS
  StopCoversPosition
  ExitsWithinPosition
  CheckpointRestores
  ReleasedOnlyIfEntryDead
  RecordedTradeIsComplete
  SwingShares
PROPERTIES
  StopNeverLoosens
