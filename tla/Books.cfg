SPECIFICATION FairBooks
CONSTANTS
  Turns = {"inbox", "any fault", "cash", "orb"}
  Events = {e1, e2, e3, e4}
  Quotes = {}
  Arming = {}
  MaxNotes = 2
  Faults = {"crash", "save"}
  AnyEvents = {v1, q1}
  AnyQuotes = {q1}
  AnyArming = {v1}
  Symbols = {"a", "b"}
  Prices = {2, 7}
  Qtys = {1, 3}
  Fees = {0, 1}
  Cash = 12
  Leverage = 4
  Pdt = 8
  Cap = 30
  ShortRate = 5
  MaxShares = 4
  MaxOrders = 3
  Keys = {1, 2}
  Size = 2
  Late = FALSE
  Recover = FALSE
  MaxFaults = 2
CHECK_DEADLOCK FALSE
INVARIANTS
  AppliedOnce
  PromiseKept
  AnyKeepsAll
  BooksAreExplained
PROPERTIES
  DurableSpec
  LockoutEnds
