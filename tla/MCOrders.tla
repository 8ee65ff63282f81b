------------------------------ MODULE MCOrders ------------------------------
(* Orders at Alpaca and the plans that send them: an order of the bot over *)
(* a crash, the plans of day one, and those of the tri-engine. They share  *)
(* no state; `turn` says which one a behaviour is about.                   *)
EXTENDS BrokerOrders

CONSTANT Turns   \* which parts are checked: orders, day one, tri

VARIABLE turn    \* the part at work: chosen at the start
VARIABLES dNow, dPlan, dUp, dLc, dSaved, dJob, dRead, dAlpaca, dShares, dOthers, dFaults
VARIABLES tNow, tUp, tP, tSaved, tJobs, tAlp, tShares, tFaults

d == <<dNow, dPlan, dUp, dLc, dSaved, dJob, dRead, dAlpaca, dShares, dOthers, dFaults>>
t == <<tNow, tUp, tP, tSaved, tJobs, tAlp, tShares, tFaults>>
all == <<turn, vars, d, t>>

DayOnePlans == {[symbol |-> "SPY", qty |-> 2], [symbol |-> "COIN", qty |-> 1]}

-----------------------------------------------------------------------------
(* SPY in two shares, so that fills come in parts, and COIN in one.        *)
DayOne == INSTANCE DayOnePlan WITH Plans <- DayOnePlans, MaxAttempts <- 2, MaxFaults <- 1, Shared <- FALSE,
  now <- dNow, plan <- dPlan, up <- dUp, lc <- dLc, saved <- dSaved, job <- dJob, read <- dRead,
  alpaca <- dAlpaca, shares <- dShares, others <- dOthers, faults <- dFaults
DayOneOff ==
  /\ dNow = 0 /\ dPlan = 0 /\ dUp = 0 /\ dLc = 0 /\ dSaved = 0 /\ dJob = 0 /\ dRead = 0 /\ dAlpaca = 0
  /\ dShares = 0 /\ dOthers = 0 /\ dFaults = 0

-----------------------------------------------------------------------------
(* Two tranches of two halves.                                             *)
Tri == INSTANCE TriPlan WITH Ordered <- 2, Halves <- TRUE, MaxCloses <- 1, MaxFaults <- 1,
  LateArrival <- FALSE, now <- tNow, up <- tUp, p <- tP, saved <- tSaved, jobs <- tJobs, alp <- tAlp,
  shares <- tShares, faults <- tFaults
TriOff ==
  /\ tNow = 0 /\ tUp = 0 /\ tP = 0 /\ tSaved = 0 /\ tJobs = 0 /\ tAlp = 0 /\ tShares = 0 /\ tFaults = 0

-----------------------------------------------------------------------------
(* Each part on its own *)
OrdersInit ==
  /\ turn \in Turns
  /\ Init
  /\ IF turn = "day one" THEN DayOne!Init ELSE DayOneOff
  /\ IF turn = "tri" THEN Tri!Init ELSE TriOff

InOrders(A) == turn = "orders" /\ A /\ UNCHANGED <<turn, d, t>>
InDayOne(A) == turn = "day one" /\ A /\ UNCHANGED <<turn, vars, t>>
InTri(A) == turn = "tri" /\ A /\ UNCHANGED <<turn, vars, d>>

PartsNext ==
  \/ InOrders(Next)
  \/ InDayOne(DayOne!Next)
  \/ InTri(Tri!Next)

OrdersSpec == OrdersInit /\ [][PartsNext]_all

(* The fairness of the orders (BrokerOrders), for the steps of their turn   *)
FairOrders ==
  /\ OrdersSpec
  /\ SF_all(InOrders(EndHandler)) /\ WF_all(InOrders(RoundTrip))
  /\ WF_all(InOrders(BackoffOver)) /\ WF_all(InOrders(Sync))
  /\ SF_all(InOrders(seen # {} /\ Compare /\ mismatch' = (pos \notin seen)))
  /\ \A o \in Orders :
       /\ SF_all(InOrders(StartSettle(o))) /\ SF_all(InOrders(StartExec(o)))
       /\ SF_all(InOrders(Answered(o)))
       /\ \A k \in Attempts : WF_all(InOrders(AlpacaEnds(o, k))) /\ WF_all(InOrders(Arrives(o, k)))

-----------------------------------------------------------------------------
(* A plan opens no more than it ordered, counts what Alpaca filled, knows  *)
(* its orders and lets go only of what is flat: the plans of day one       *)
(* (day_one_execution.py) and of the tri-engine (tri_execution.py).        *)
PlansAreReal ==
  /\ turn = "day one" => DayOne!WithinPlan /\ DayOne!CountsRealFills /\ DayOne!OrderIsKnown /\ DayOne!ReleasedIsFlat
  /\ turn = "tri"     => Tri!NothingLeft /\ Tri!BookIsReal

=============================================================================
