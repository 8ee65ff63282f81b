------------------------------ MODULE MCSessions ------------------------------
(* A trading day: how it closes and the next one starts, and what an entry *)
(* has to pass during the session, each part on an instance of its own:    *)
(* the macro calendar and the filters of Ride the Trend, the volatility    *)
(* index and two of the intraday strategies. The parts share no state;     *)
(* `turn` says which one a behaviour is about.                             *)
EXTENDS MCDayClose

CONSTANT Turns   \* which parts are checked: close, filters, vix, news, ride

VARIABLE turn    \* the part at work: chosen at the start
VARIABLES tNow, tTape, tNext, tGot, tLoaded, tOut, tFaults
VARIABLES vNow, vIndex, vPrints, vUp, vPolled, vEng, vBasis, vDisk, vFaults
VARIABLES nNow, nMade, nWire, nSeen, nPending, nVols, nBar, nHeld, nActs, nFaults
VARIABLES rN, rClock, rSt, rBroken, rLast, rOut, rRestarts

trendVars == <<tNow, tTape, tNext, tGot, tLoaded, tOut, tFaults>>
vixVars == <<vNow, vIndex, vPrints, vUp, vPolled, vEng, vBasis, vDisk, vFaults>>
newsVars == <<nNow, nMade, nWire, nSeen, nPending, nVols, nBar, nHeld, nActs, nFaults>>
rideVars == <<rN, rClock, rSt, rBroken, rLast, rOut, rRestarts>>
sessionVars == <<turn, vars, trendVars, vixVars, newsVars, rideVars>>

-----------------------------------------------------------------------------
(* The gates of Ride the Trend                                             *)
CONSTANTS TrendRows, TrendSpan, TrendAge, Sparse, WindMax, Releases, TrendValid, TrendLast, TrendDelay,
  TrendFaults   \* see TrendGates
ASSUME TrendAssumption ==
  /\ {TrendSpan, TrendAge, Sparse} \subseteq Nat
  /\ Releases \subseteq [at : Int, before : Int, after : Int]

Trend == INSTANCE TrendGates WITH Rows <- TrendRows, Span <- TrendSpan, Age <- TrendAge, Valid <- TrendValid,
  Last <- TrendLast, Delay <- TrendDelay, MaxFaults <- TrendFaults, now <- tNow, tape <- tTape, next <- tNext,
  got <- tGot, loaded <- tLoaded, out <- tOut, faults <- tFaults
TrendOff ==
  /\ tNow = 0 /\ tTape = 0 /\ tNext = 0 /\ tGot = 0 /\ tLoaded = 0 /\ tOut = 0 /\ tFaults = 0

-----------------------------------------------------------------------------
(* The volatility index                                                    *)
CONSTANTS Calendar, DayLen, VixOpen, VixClose, MaxAge, Poll, Values, MaxPrints, VixFaults   \* see VixGauge
ASSUME VixAssumption ==
  /\ {DayLen, VixOpen, VixClose, MaxAge, Poll} \subseteq Nat /\ VixOpen <= VixClose
  /\ Values \subseteq 1 .. 4

Vix == INSTANCE VixGauge WITH OpenAt <- VixOpen, CloseAt <- VixClose, MaxFaults <- VixFaults, now <- vNow,
  index <- vIndex, prints <- vPrints, up <- vUp, polled <- vPolled, eng <- vEng, basis <- vBasis,
  disk <- vDisk, faults <- vFaults
VixOff ==
  /\ vNow = 0 /\ vIndex = 0 /\ vPrints = 0 /\ vUp = 0 /\ vPolled = 0 /\ vEng = 0 /\ vBasis = 0 /\ vDisk = 0
  /\ vFaults = 0

-----------------------------------------------------------------------------
(* Headlines                                                               *)
CONSTANTS NewsMinute, Ttl, NewsOpen, NewsEnd, NewsSpan, Few, VolFloor, VolDefault, Surge, Scores, NewsVols, NewsDelay,
  BarDelay, MaxNews, NewsFaults   \* see NewsMomentum
ASSUME NewsAssumption == {NewsMinute, Ttl} \subseteq Nat /\ Scores \subseteq Int

News == INSTANCE NewsMomentum WITH Minute <- NewsMinute, OpenAt <- NewsOpen, End <- NewsEnd, Span <- NewsSpan,
  Vols <- NewsVols, MaxFaults <- NewsFaults, now <- nNow, made <- nMade, wire <- nWire, seen <- nSeen,
  pending <- nPending, vols <- nVols, bar <- nBar, held <- nHeld, acts <- nActs, faults <- nFaults
NewsOff ==
  /\ nNow = 0 /\ nMade = 0 /\ nWire = 0 /\ nSeen = 0 /\ nPending = 0 /\ nVols = 0 /\ nBar = 0 /\ nHeld = 0
  /\ nActs = 0 /\ nFaults = 0

-----------------------------------------------------------------------------
(* Ride the Trend                                                          *)
CONSTANTS RefBars, RefMinStart, TouchMin, TouchMax, PullbackMax, ResumeMaxAge, Thin, Cooldown, MaxSignals, FeedGap,
  RideOpen, RideClose, RideVols, Lows, MaxRestarts   \* see RideTheTrend
ASSUME RideAssumption ==
  /\ {RefBars, RefMinStart, TouchMin, TouchMax, PullbackMax, ResumeMaxAge, Thin, Cooldown} \subseteq Nat
  /\ {MaxSignals, FeedGap, RideOpen, RideClose} \subseteq Nat /\ RideVols \subseteq Nat /\ Lows \subseteq Nat

Ride == INSTANCE RideTheTrend WITH OpenAt <- RideOpen, CloseAt <- RideClose, Vols <- RideVols, n <- rN,
  clock <- rClock, st <- rSt, broken <- rBroken, last <- rLast, out <- rOut, restarts <- rRestarts
RideOff ==
  /\ rN = 0 /\ rClock = 0 /\ rSt = 0 /\ rBroken = 0 /\ rLast = 0 /\ rOut = 0 /\ rRestarts = 0

-----------------------------------------------------------------------------
(* Each part on its own                                                    *)
SessionsInit ==
  /\ turn \in Turns
  /\ Init
  /\ IF turn = "filters" THEN Trend!Init ELSE TrendOff
  /\ IF turn = "vix" THEN Vix!Init ELSE VixOff
  /\ IF turn = "news" THEN News!Init ELSE NewsOff
  /\ IF turn = "ride" THEN Ride!Init ELSE RideOff

InClose(A) == turn = "close" /\ A /\ UNCHANGED <<turn, trendVars, vixVars, newsVars, rideVars>>
InTrend(A) == turn = "filters" /\ A /\ UNCHANGED <<turn, vars, vixVars, newsVars, rideVars>>
InVix(A) == turn = "vix" /\ A /\ UNCHANGED <<turn, vars, trendVars, newsVars, rideVars>>
InNews(A) == turn = "news" /\ A /\ UNCHANGED <<turn, vars, trendVars, vixVars, rideVars>>
InRide(A) == turn = "ride" /\ A /\ UNCHANGED <<turn, vars, trendVars, vixVars, newsVars>>

PartsNext ==
  \/ InClose(Next)
  \/ InTrend(Trend!Next)
  \/ InVix(Vix!Next)
  \/ InNews(News!Next)
  \/ InRide(Ride!Next)

SessionsSpec == SessionsInit /\ [][PartsNext]_sessionVars

(* The fairness of the close (DayClose), for the steps of its own turn      *)
FairSessions ==
  /\ SessionsSpec
  /\ SF_sessionVars(InClose(slot = Open /\ bot.session < day /\ ClockStep({}, FALSE, FALSE)))
  /\ WF_sessionVars(InClose(Restarts))
  /\ SF_sessionVars(InClose(\E s \in bot.asked : OwnerCloses(s)))

-----------------------------------------------------------------------------
(* An entry is earned by what the market did: the filters read the tape    *)
(* (TrendGates), a large size has a fresh index behind it (VixGauge), a    *)
(* headline acts once (NewsMomentum), and a signal to ride the trend had   *)
(* its pullback (RideTheTrend).                                            *)
EntriesAreEarned ==
  /\ turn = "filters" => Trend!GatesReadTheTape
  /\ turn = "vix"     => Vix!LargeNeedsFresh
  /\ turn = "news"    => News!HeadlineActsOnce
  /\ turn = "ride"    => Ride!SignalIsEarned

-----------------------------------------------------------------------------
(* The instances that are checked: for the filters three minutes, two rows *)
(* of closes and one release; for the index a weekend and a holiday        *)
(* between two sessions, and two prints; two headlines and three bars,     *)
(* each one moment late; six bars of three volumes and one restart.        *)
TrendRow(own, spy, etf, uup, tlt) == [stock |-> own, SPY |-> spy, sector |-> etf, dollar |-> uup, rates |-> tlt]
TwoRows == {TrendRow(10, 10, 10, 10, 10), TrendRow(12, 11, 11, 10, 11)}
Delays  == [s \in {"stock", "SPY", "sector", "dollar", "rates"} |-> IF s = "stock" THEN 2 ELSE 1]
OneRelease == {[at |-> 2, before |-> 0, after |-> 1]}
LongWeekend == <<"trade", "holiday", "weekend", "trade">>
TheScores == {0 - 2, 1, 2}

=============================================================================
