SPECIFICATION MarketSpec
CONSTANT
  Turns = {"feed", "answers", "news", "profile", "daily", "research", "scan", "flow", "picks", "gate"}
CHECK_DEADLOCK FALSE
INVARIANTS
  FeedIsWhole
  ScansAreTheTape
