SPECIFICATION SessionsSpec
CONSTANTS
  Turns = {"close", "filters", "vix", "news", "ride"}
  Symbols = {"NVDA", "AAPL", "IREN", "GME"}
  Class <- Books
  MaxDay = 2
  Faults = {"refused", "crash", "breaker"}
  TrendRows <- TwoRows
  TrendSpan = 2
  TrendAge = 0
  Sparse = 1
  WindMax = 10
  Releases <- OneRelease
  TrendValid = {0, 1, 2, 3, 4, 5}
  TrendLast = 3
  TrendDelay <- Delays
  TrendFaults = 1
  Calendar <- LongWeekend
  DayLen = 6
  VixOpen = 2
  VixClose = 4
  MaxAge = 1
  Poll = 1
  Values = {1, 2, 4}
  MaxPrints = 2
  VixFaults = 2
  NewsMinute = 2
  Ttl = 3
  NewsOpen = 2
  NewsEnd = 6
  NewsSpan = 1
  Few = 1
  VolFloor = 1
  VolDefault = 1
  Surge = 2
  Scores <- TheScores
  NewsVols = {0, 3, 7}
  NewsDelay = 1
  BarDelay = 1
  MaxNews = 2
  NewsFaults = 1
  RefBars = 1
  RefMinStart = 1
  TouchMin = 1
  TouchMax = 2
  PullbackMax = 2
  ResumeMaxAge = 2
  Thin = 2
  Cooldown = 5
  MaxSignals = 2
  FeedGap = 2
  RideOpen = 4
  RideClose = 8
  RideVols = {0, 1, 4}
  Lows = {1, 2}
  MaxRestarts = 1
CHECK_DEADLOCK FALSE
INVARIANTS
  FlatAtClose
  EodFlatMeansFlat
  BlockedOnlyAfterAudit
  EntriesAreEarned
PROPERTIES
  LockoutHolds
  OvernightIsKept
