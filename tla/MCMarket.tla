------------------------------ MODULE MCMarket ------------------------------
(* The market data and what is concluded from it, each part on an instance *)
(* of its own: the relay feed and its windows, the answers of the relay,   *)
(* the news, the volume profile, the daily bars, the research rows; the    *)
(* scan, its flow verdicts and its picks; the gate of time and trend, and  *)
(* the card that shows it. The parts share no state; `turn` says which one *)
(* a behaviour is about.                                                   *)
EXTENDS Integers, Sequences

CONSTANT Turns   \* which parts are checked: feed, answers, news, profile, scan, flow, picks, daily, research, gate

VARIABLE turn    \* the part at work: chosen at the start
VARIABLES rNow, rMade, rEvents, rLinked, rUp, rQueue, rStatus, rOpen, rOuts, rTape
VARIABLES aNow, aCache, aCall, aCalls
VARIABLES wWorld, wNow, wAt, wAttempt, wUntil, wSt, wRows, wFound, wFaults
VARIABLES vHist, vDay, vGen, vTasks, vStore, vFaults
VARIABLES cClock, cTape, cRevised, cSes, cShown, cSeenAt, cFaults
VARIABLES lHist, lCounts, lCross, lDelta, lOut
VARIABLES pNow, pLastScan, pBlocked, pHeld, pMade, pDecided, pTraded, pAgainst, pFound, pFaults
VARIABLES dDay, dMade, dNext, dMins, dLive, dFlight, dStore, dScans, dMarks, dHeld, dStaged, dOut, dTruth,
  dWhole, dFaults
VARIABLES gNow, gTape, gNext, gF, gHist, gRest, gOut, gKnown, gFaults
VARIABLES xNow, xHigh, xDue, xBr, xOpened, xLegs, xRs, xQueue, xRows, xFaults

r == <<rNow, rMade, rEvents, rLinked, rUp, rQueue, rStatus, rOpen, rOuts, rTape>>
a == <<aNow, aCache, aCall, aCalls>>
w == <<wWorld, wNow, wAt, wAttempt, wUntil, wSt, wRows, wFound, wFaults>>
v == <<vHist, vDay, vGen, vTasks, vStore, vFaults>>
c == <<cClock, cTape, cRevised, cSes, cShown, cSeenAt, cFaults>>
l == <<lHist, lCounts, lCross, lDelta, lOut>>
p == <<pNow, pLastScan, pBlocked, pHeld, pMade, pDecided, pTraded, pAgainst, pFound, pFaults>>
d == <<dDay, dMade, dNext, dMins, dLive, dFlight, dStore, dScans, dMarks, dHeld, dStaged, dOut, dTruth,
  dWhole, dFaults>>
x == <<xNow, xHigh, xDue, xBr, xOpened, xLegs, xRs, xQueue, xRows, xFaults>>
g == <<gNow, gTape, gNext, gF, gHist, gRest, gOut, gKnown, gFaults>>
all == <<turn, r, a, w, v, c, l, p, d, x, g>>

Both(own, etf) == [stock |-> own, QQQ |-> etf]

GatePhases == [m \in 0 .. 5 |->
  <<"PRE_MARKET", "OPEN_VOLATILITY_FLUSH", "TREND_CONTINUATION", "MIDDAY_CHOP", "EOD_FLATTEN", "POST_MARKET">>[m + 1]]
GateCloses == {[SPY |-> 3, QQQ |-> 3], [SPY |-> 1, QQQ |-> 3]}

Signal(strat, side, news) == [strat |-> strat, side |-> side, news |-> news]
GateKinds ==
  {Signal("news_momentum", "BUY", "extreme"), Signal("news_momentum", "BUY", "strong"),
   Signal("vwap_pullback", "SELL", "none"), Signal("mean_reversion", "BUY", "none")}

Bar(low, high, vol) == [low |-> low, high |-> high, vol |-> vol]
Markets == {{Bar(2, 4, 3), Bar(9, 11, 4)}, {Bar(0, 3, 2), Bar(3, 6, 1), Bar(10, 10, 5)}, {Bar(1, 7, 6), Bar(4, 6, 4)}}

Cand(dir, first, grade) == [dir |-> dir, first |-> first, grade |-> grade]
Boards ==
  {<<Cand("short", "short", "second"), Cand("long", "long", "second"), Cand("short", "short", "second")>>,
   <<Cand("long", "short", "first"), Cand("short", "short", "first"), Cand("short", "short", "blocked")>>,
   [k \in {1, 3} |-> IF k = 1 THEN Cand("short", "long", "second") ELSE Cand("short", "short", "first")],
   [k \in {2, 3} |-> IF k = 2 THEN Cand("short", "short", "second") ELSE Cand("long", "long", "second")]}

-----------------------------------------------------------------------------
(* Five moments of the feed, four trades; a connection is lost, frames are *)
(* late and the queue never overflows.                                     *)
Feed == INSTANCE RelayFeed WITH MaxTime <- 5, MaxEvents <- 4, Parts <- 2, QueueMax <- 5, Keep <- 1,
  RawCap <- 2, Slack <- 1, TradeTail <- 2, MinSpan <- 2, Upstream <- FALSE, Late <- TRUE, EarlyMarks <- FALSE,
  now <- rNow, made <- rMade, events <- rEvents, linked <- rLinked, up <- rUp, queue <- rQueue,
  status <- rStatus, open <- rOpen, outs <- rOuts, tape <- rTape
FeedOff ==
  /\ rNow = 0 /\ rMade = 0 /\ rEvents = 0 /\ rLinked = 0 /\ rUp = 0 /\ rQueue = 0 /\ rStatus = 0 /\ rOpen = 0
  /\ rOuts = 0 /\ rTape = 0

-----------------------------------------------------------------------------
(* Two threads and two addresses, a cache of one answer.                   *)
Answers == INSTANCE RelayAnswer WITH Workers <- {1, 2}, Keys <- {1, 2}, Retries <- 2, Timeout <- 1,
  Backoff <- 1, Pauses <- {0, 1, 3}, Ttl <- 4, MaxEntries <- 1, MaxAge <- 1, Stamped <- TRUE, End <- 4,
  MaxCalls <- 3, now <- aNow, cache <- aCache, call <- aCall, calls <- aCalls
AnswersOff ==
  /\ aNow = 0 /\ aCache = 0 /\ aCall = 0 /\ aCalls = 0

-----------------------------------------------------------------------------
(* Two batches of two pages, one retry of each.                            *)
News == INSTANCE NewsRead WITH Batches <- 2, Pages <- 2, Attempts <- 2, PageCap <- 3, PerTry <- 2,
  Budget <- 5, Pauses <- {0, 1, 3}, MaxFaults <- 1, world <- wWorld, now <- wNow, at <- wAt,
  attempt <- wAttempt, until <- wUntil, st <- wSt, rows <- wRows, found <- wFound, faults <- wFaults
NewsOff ==
  /\ wWorld = 0 /\ wNow = 0 /\ wAt = 0 /\ wAttempt = 0 /\ wUntil = 0 /\ wSt = 0 /\ wRows = 0 /\ wFound = 0
  /\ wFaults = 0

-----------------------------------------------------------------------------
(* Four days, one of them a holiday; sessions of two or three bars.        *)
Profile == INSTANCE VolumeProfile WITH Trading <- <<TRUE, TRUE, FALSE, TRUE>>, Markets <- Markets,
  Sessions <- 2, MinBars <- 2, Top <- 5, MaxFaults <- 1, hist <- vHist, day <- vDay, gen <- vGen,
  tasks <- vTasks, store <- vStore, faults <- vFaults
ProfileOff ==
  /\ vHist = 0 /\ vDay = 0 /\ vGen = 0 /\ vTasks = 0 /\ vStore = 0 /\ vFaults = 0

-----------------------------------------------------------------------------
(* A session of four ticks, the first two of them the opening range: three *)
(* prices give it a direction and a break beyond it, so every latch of the *)
(* reducer is reached.  One row is revised.                                *)
Scan == INSTANCE ScanSession WITH LastTick <- 4, Minute <- 2, OrbEnd <- 2, Secondary <- 3, Repair <- 2,
  Horizon <- 2, Reconcile <- 2, MinPrints <- 2, MaxStale <- 2, CandleRule <- TRUE, FlowRules <- TRUE,
  MaxRevisions <- 1, MaxFaults <- 1, MaxDelay <- 0, Prints <- {<<1, "board">>, <<2, "flow">>, <<3, "flow">>},
  clock <- cClock, tape <- cTape, revised <- cRevised, ses <- cSes, shown <- cShown, seenAt <- cSeenAt,
  faults <- cFaults
ScanOff ==
  /\ cClock = 0 /\ cTape = 0 /\ cRevised = 0 /\ cSes = 0 /\ cShown = 0 /\ cSeenAt = 0 /\ cFaults = 0

-----------------------------------------------------------------------------
(* Five prints on both sides of the fence.                                 *)
Flow == INSTANCE FenceFlow WITH PerSecond <- 2, BurstS <- 1, BaseS <- 2, MinTrades <- 2, MinRatio <- 2,
  DeltaMin <- 20, Slack <- 1, Gaps <- {1, 2},
  Prints <- {<<"long", "buy">>, <<"long", "sell">>, <<"inside", "buy">>, <<"counted", "none">>, <<"short", "sell">>},
  MaxPrints <- 5, hist <- lHist, counts <- lCounts, cross <- lCross, delta <- lDelta, out <- lOut
FlowOff ==
  /\ lHist = 0 /\ lCounts = 0 /\ lCross = 0 /\ lDelta = 0 /\ lOut = 0

-----------------------------------------------------------------------------
(* Three stocks, one of them on no list, two with a deal.                  *)
Picks == INSTANCE BoardPicks WITH Stocks <- {1, 2, 3}, Excluded <- {2}, Sector <- <<"XLK", "OTHER", "XLF">>,
  Deals <- {1, 3}, Freeze <- 1, Cutoff <- 3, End <- 3, Boards <- Boards, MaxFaults <- 1, now <- pNow,
  lastScan <- pLastScan, blocked <- pBlocked, held <- pHeld, made <- pMade, decided <- pDecided,
  traded <- pTraded, against <- pAgainst, found <- pFound, faults <- pFaults
PicksOff ==
  /\ pNow = 0 /\ pLastScan = 0 /\ pBlocked = 0 /\ pHeld = 0 /\ pMade = 0 /\ pDecided = 0 /\ pTraded = 0 /\ pAgainst = 0
  /\ pFound = 0 /\ pFaults = 0

-----------------------------------------------------------------------------
(* Three seeded dates and two of the session, two minutes each.            *)
Daily == INSTANCE DailyBars WITH Seed <- <<Both(2, 2), Both(2, 2), Both(7, 4)>>, Dates <- 5, Minutes <- 2,
  Slack <- 1, Interim <- 4, Closings <- {Both(4, 2), Both(7, 2)}, Long <- 4, Span <- 1, Short <- 2,
  Dip <- 1, Time <- 2, MaxFaults <- 1, day <- dDay, made <- dMade, next <- dNext, mins <- dMins,
  live <- dLive, flight <- dFlight, store <- dStore, scans <- dScans, marks <- dMarks, held <- dHeld,
  staged <- dStaged, out <- dOut, truth <- dTruth, whole <- dWhole, faults <- dFaults
DailyOff ==
  /\ dDay = 0 /\ dMade = 0 /\ dNext = 0 /\ dMins = 0 /\ dLive = 0 /\ dFlight = 0 /\ dStore = 0 /\ dScans = 0
  /\ dMarks = 0 /\ dHeld = 0 /\ dStaged = 0 /\ dOut = 0 /\ dTruth = 0 /\ dWhole = 0 /\ dFaults = 0

-----------------------------------------------------------------------------
(* A position closed in up to two legs, two heights of the high.           *)
Research == INSTANCE ResearchRows WITH MaxTime <- 4, Highs <- {1, 2}, MaxLegs <- 2, Delay <- 2,
  MaxFaults <- 1, now <- xNow, high <- xHigh, due <- xDue, br <- xBr, opened <- xOpened, legs <- xLegs,
  rs <- xRs, queue <- xQueue, rows <- xRows, faults <- xFaults
ResearchOff ==
  /\ xNow = 0 /\ xHigh = 0 /\ xDue = 0 /\ xBr = 0 /\ xOpened = 0 /\ xLegs = 0 /\ xRs = 0 /\ xQueue = 0
  /\ xRows = 0 /\ xFaults = 0

-----------------------------------------------------------------------------
(* Three minutes of a session, a bar lost or a restart.                    *)
Gate == INSTANCE EntryGate WITH Open <- 1, Last <- 3, PhaseAt <- GatePhases, Closes <- GateCloses,
  Base <- 2, Fresh <- 1, MaxDelay <- 2, Early <- 2, Aligned <- 3, Kinds <- GateKinds, MaxFaults <- 1,
  now <- gNow, tape <- gTape, next <- gNext, f <- gF, hist <- gHist, rest <- gRest, out <- gOut,
  known <- gKnown, faults <- gFaults
GateOff ==
  /\ gNow = 0 /\ gTape = 0 /\ gNext = 0 /\ gF = 0 /\ gHist = 0 /\ gRest = 0 /\ gOut = 0 /\ gKnown = 0
  /\ gFaults = 0

-----------------------------------------------------------------------------
(* Each part on its own *)
MarketInit ==
  /\ turn \in Turns
  /\ IF turn = "feed" THEN Feed!Init ELSE FeedOff
  /\ IF turn = "answers" THEN Answers!Init ELSE AnswersOff
  /\ IF turn = "news" THEN News!Init ELSE NewsOff
  /\ IF turn = "profile" THEN Profile!Init ELSE ProfileOff
  /\ IF turn = "scan" THEN Scan!Init ELSE ScanOff
  /\ IF turn = "flow" THEN Flow!Init ELSE FlowOff
  /\ IF turn = "picks" THEN Picks!Init ELSE PicksOff
  /\ IF turn = "daily" THEN Daily!Init ELSE DailyOff
  /\ IF turn = "research" THEN Research!Init ELSE ResearchOff
  /\ IF turn = "gate" THEN Gate!Init ELSE GateOff

InFeed(A) == turn = "feed" /\ A /\ UNCHANGED <<turn, a, w, v, c, l, p, d, x, g>>
InAnswers(A) == turn = "answers" /\ A /\ UNCHANGED <<turn, r, w, v, c, l, p, d, x, g>>
InNews(A) == turn = "news" /\ A /\ UNCHANGED <<turn, r, a, v, c, l, p, d, x, g>>
InProfile(A) == turn = "profile" /\ A /\ UNCHANGED <<turn, r, a, w, c, l, p, d, x, g>>
InScan(A) == turn = "scan" /\ A /\ UNCHANGED <<turn, r, a, w, v, l, p, d, x, g>>
InFlow(A) == turn = "flow" /\ A /\ UNCHANGED <<turn, r, a, w, v, c, p, d, x, g>>
InPicks(A) == turn = "picks" /\ A /\ UNCHANGED <<turn, r, a, w, v, c, l, d, x, g>>
InDaily(A) == turn = "daily" /\ A /\ UNCHANGED <<turn, r, a, w, v, c, l, p, x, g>>
InResearch(A) == turn = "research" /\ A /\ UNCHANGED <<turn, r, a, w, v, c, l, p, d, g>>
InGate(A) == turn = "gate" /\ A /\ UNCHANGED <<turn, r, a, w, v, c, l, p, d, x>>

PartsNext ==
  \/ InFeed(Feed!Next)
  \/ InAnswers(Answers!Next)
  \/ InNews(News!Next)
  \/ InProfile(Profile!Next)
  \/ InScan(Scan!Next)
  \/ InFlow(Flow!Next)
  \/ InPicks(Picks!Next)
  \/ InDaily(Daily!Next)
  \/ InResearch(Research!Next)
  \/ InGate(Gate!Next)

MarketSpec == MarketInit /\ [][PartsNext]_all

-----------------------------------------------------------------------------
(* What the desk is told of the market is whole or known not to be: a      *)
(* window counted as complete has every trade of it (RelayFeed), a quote   *)
(* is as young as it is taken for (RelayAnswer), news is the whole answer  *)
(* or an error (NewsRead), the profile is that of the sessions before the  *)
(* day (VolumeProfile), and a swing entry is a dip of whole daily bars     *)
(* (DailyBars); a claim of full coverage in the research rows has its bars *)
(* (ResearchRows).                                                         *)
FeedIsWhole ==
  /\ turn = "feed"    => Feed!WindowWhole /\ Feed!SessionWhole
  /\ turn = "answers" => Answers!QuoteIsFresh
  /\ turn = "news"    => News!NewsIsWhole
  /\ turn = "profile" => Profile!ProfileIsHonest
  /\ turn = "daily"   => Daily!EntryIsADip
  /\ turn = "research" => Research!CoverageIsHonest

(* What the scan concludes is what the tape says: its card whatever was    *)
(* revised, repaired or restarted in between (ScanSession), a break at the *)
(* fence whatever older prints were forgotten (FenceFlow), and a pick      *)
(* whatever the board, the deal news and a restart made of it              *)
(* (BoardPicks); the trend an intraday signal is judged by is that of the  *)
(* minutes this process was told of, and the card shows the gate           *)
(* (EntryGate).                                                            *)
ScansAreTheTape ==
  /\ turn = "scan"  => Scan!CardIsTheTape
  /\ turn = "flow"  => Flow!BreakIsJudgedAtTheFence
  /\ turn = "picks" => Picks!PicksAreJudged
  /\ turn = "gate"  => Gate!TrendIsTheSessions /\ Gate!CardIsTheGate

=============================================================================
