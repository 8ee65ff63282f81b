------------------------------ MODULE MCHolders ------------------------------
(* Model checking of the controllers that trade for themselves, one after   *)
(* the other: `turn` is chosen at the start among Turns, and the others do  *)
(* nothing.  They share no state: each has its own symbols, its own client  *)
(* ids and its own section of the saved state.  The fixed plan is extended  *)
(* (its invariants hold of its initial state while another has the turn),   *)
(* the others are instances.                                                *)
EXTENDS TriPlan

CONSTANTS
  Turns,                            \* who is checked: "night", "day one", "orb", "plan"
  Nights, MaxBuys, MaxSells,        \* of OvernightHold
  Plans, MaxAttempts,               \* of DayOnePlan
  PickQty, MaxExits, LateEntry,     \* of OrbBracket
  HoldFaults,                       \* bound: things that go wrong in OvernightHold, in OrbBracket
  DayOneFaults                      \* bound: and in DayOnePlan

VARIABLES
  turn,
  nNow, nLive, nNight, nMismatch, nCtl, nReady, nSaved, nJobs, nRead, nUp, nAlpaca, nShares, nCorp, nFaults,
  dNow, dPlan, dUp, dLc, dSaved, dJob, dRead, dAlpaca, dShares, dOthers, dFaults,
  oNow, oBook, oSaved, oUp, oHeld, oEx, oSup, oHalt, oAlp, oShares, oBlind, oFaults

n == <<nNow, nLive, nNight, nMismatch, nCtl, nReady, nSaved, nJobs, nRead, nUp, nAlpaca, nShares, nCorp, nFaults>>
d == <<dNow, dPlan, dUp, dLc, dSaved, dJob, dRead, dAlpaca, dShares, dOthers, dFaults>>
o == <<oNow, oBook, oSaved, oUp, oHeld, oEx, oSup, oHalt, oAlp, oShares, oBlind, oFaults>>
all == <<turn, n, d, o, vars>>

Night == INSTANCE OvernightHold WITH
  Unrelated <- FALSE, MaxFaults <- HoldFaults,
  now <- nNow, live <- nLive, night <- nNight, mismatch <- nMismatch, ctl <- nCtl, ready <- nReady,
  saved <- nSaved, jobs <- nJobs, read <- nRead, up <- nUp, alpaca <- nAlpaca, shares <- nShares,
  corp <- nCorp, faults <- nFaults

DayOne == INSTANCE DayOnePlan WITH
  Shared <- FALSE, MaxFaults <- DayOneFaults,
  now <- dNow, plan <- dPlan, up <- dUp, lc <- dLc, saved <- dSaved, job <- dJob, read <- dRead,
  alpaca <- dAlpaca, shares <- dShares, others <- dOthers, faults <- dFaults

Orb == INSTANCE OrbBracket WITH
  Qty <- PickQty, MaxFaults <- HoldFaults,
  now <- oNow, book <- oBook, saved <- oSaved, up <- oUp, held <- oHeld, ex <- oEx, sup <- oSup,
  halt <- oHalt, alp <- oAlp, shares <- oShares, blind <- oBlind, faults <- oFaults

MCNights  == {[qty |-> 2, tif |-> "day"], [qty |-> 1, tif |-> "cls"]}
OneShare  == {[qty |-> 1, tif |-> "day"]}
CoinOne   == {[symbol |-> "COIN", qty |-> 1]}

ASSUME NightAssumption ==
  /\ Nights \subseteq [qty : Nat \ {0}, tif : {"day", "cls"}]
  /\ {MaxBuys, MaxSells, HoldFaults} \subseteq Nat
ASSUME OrbAssumption ==
  /\ PickQty \in Nat \ {0} /\ MaxExits \in Nat /\ LateEntry \in BOOLEAN

-----------------------------------------------------------------------------

NightOff ==
  /\ nNow = 0 /\ nLive = 0 /\ nNight = 0 /\ nMismatch = 0 /\ nCtl = 0 /\ nReady = 0 /\ nSaved = 0
  /\ nJobs = 0 /\ nRead = 0 /\ nUp = 0 /\ nAlpaca = 0 /\ nShares = 0 /\ nCorp = 0 /\ nFaults = 0

DayOneOff ==
  /\ dNow = 0 /\ dPlan = 0 /\ dUp = 0 /\ dLc = 0 /\ dSaved = 0 /\ dJob = 0 /\ dRead = 0
  /\ dAlpaca = 0 /\ dShares = 0 /\ dOthers = 0 /\ dFaults = 0

OrbOff ==
  /\ oNow = 0 /\ oBook = 0 /\ oSaved = 0 /\ oUp = 0 /\ oHeld = 0 /\ oEx = 0 /\ oSup = 0
  /\ oHalt = 0 /\ oAlp = 0 /\ oShares = 0 /\ oBlind = 0 /\ oFaults = 0

HoldersInit ==
  /\ Init /\ turn \in Turns
  /\ IF turn = "night"   THEN Night!Init  ELSE NightOff
  /\ IF turn = "day one" THEN DayOne!Init ELSE DayOneOff
  /\ IF turn = "orb"     THEN Orb!Init    ELSE OrbOff

InNight(A)  == turn = "night"   /\ A /\ UNCHANGED <<turn, d, o, vars>>
InDayOne(A) == turn = "day one" /\ A /\ UNCHANGED <<turn, n, o, vars>>
InOrb(A)    == turn = "orb"     /\ A /\ UNCHANGED <<turn, n, d, vars>>
InPlan(A)   == turn = "plan"    /\ A /\ UNCHANGED <<turn, n, d, o>>

HoldersNext == InNight(Night!Next) \/ InDayOne(DayOne!Next) \/ InOrb(Orb!Next) \/ InPlan(Next)

HoldersSpec == HoldersInit /\ [][HoldersNext]_all

(* The fairness of the modules, for the steps of their own turn             *)
DayOneFair ==
  /\ WF_all(InDayOne(DayOne!Tick))    /\ WF_all(InDayOne(DayOne!ApplyReads))
  /\ WF_all(InDayOne(DayOne!Restart)) /\ WF_all(InDayOne(DayOne!Workers))
  /\ WF_all(InDayOne(DayOne!Arrive))  /\ WF_all(InDayOne(DayOne!Pass))
  /\ WF_all(InDayOne(DayOne!Fill \/ DayOne!Expire))

OrbFair ==
  /\ WF_all(InOrb(Orb!Supervisor)) /\ WF_all(InOrb(Orb!Execution))
  /\ WF_all(InOrb(Orb!Later))      /\ WF_all(InOrb(Orb!Restart \/ Orb!Reconcile))
  /\ WF_all(InOrb(\E k \in Orb!Keys : Orb!Arrive(k) \/ Orb!Vanish(k)))
  /\ WF_all(InOrb(\E k \in Orb!Keys \ {Orb!Legs} : Orb!Fill(k)))

PlanFair ==
  /\ WF_all(InPlan(Tick)) /\ WF_all(InPlan(Later)) /\ WF_all(InPlan(Restart))
  /\ \A i \in {0} \cup Tranches : WF_all(InPlan(Work(i)))
  /\ \A k \in Keys : WF_all(InPlan(Arrive(k)))
  /\ \A k \in Keys \ {Oco(i) : i \in Tranches} : WF_all(InPlan(Fill(k)))

NightFair ==
  /\ WF_all(InNight(Night!Tick))    /\ WF_all(InNight(Night!Restart))
  /\ WF_all(InNight(Night!Settles)) /\ WF_all(InNight(Night!SellFills))
  /\ WF_all(InNight(Night!Workers)) /\ WF_all(InNight(Night!Loop))

FairHolders == HoldersSpec /\ DayOneFair /\ OrbFair /\ PlanFair
FairNights  == HoldersSpec /\ NightFair

-----------------------------------------------------------------------------
(* The properties of the parts on their own turn; their statements are in   *)
(* those modules.                                                           *)

(* A night buys its shares once however often the buy is retried, sells     *)
(* nothing that Alpaca does not hold, books each fill of Alpaca once, and   *)
(* gives its stock back only flat at Alpaca and in the book.                *)
(* (OvernightHold; _lookup before every POST)                               *)
NightIsReal ==
  turn = "night" => Night!BoughtOnce /\ Night!NeverShort /\ Night!BookedIsReal /\ Night!ReleasedIsFlat

(* ORB trades only stocks it owns: what works or is held at Alpaca belongs  *)
(* to a pick that has not let go of it, no more than the shares held is on  *)
(* offer, and shares ORB knows of are protected or their exit is owed.      *)
(* (OrbBracket: OwnsWhatLives, SellsWithinShares, Covered)                  *)
PickIsReal == turn = "orb" => Orb!OwnsWhatLives /\ Orb!SellsWithinShares /\ Orb!Covered

(* What was bought for a night is sold: a hold ends sold or frozen by an    *)
(* unclear merger, whatever the mode of the night, its control or the       *)
(* position compare say.  (_step_sale: "Nothing stops a sale")              *)
HoldIsSold ==
  (turn = "night" /\ nCtl.state \in Night!HoldStates)
    ~> (turn # "night" \/ nCtl.state = "SOLD" \/ nCtl.frozen)

(* A buy of a night is never left open after the close: it fills or is      *)
(* cancelled.  (_step_buy_accepted, the late send of _buy_attempt_io)       *)
BuyEnds ==
  \A k \in Night!Tries("buy") :
    (turn = "night" /\ nAlpaca.buy[k].st = "open" /\ nNow = Night!CLOSED)
      ~> (turn # "night" \/ nAlpaca.buy[k].st # "open")

(* Shares of a day-one plan are sold, unless it halts or waits for the      *)
(* outcome of an order that never reached Alpaca.  (tick, recovery)         *)
HoldEnds ==
  (turn = "day one" /\ dShares > 0)
    ~> (turn # "day one" \/ dShares = 0 \/ dLc.phase = "RECOVERY_HALT" \/ DayOne!Unknown)

(* Whatever is lost, stopped or restarted, ORB ends without shares and      *)
(* without orders, and gives the symbol back.  (OrbBracket)                 *)
PickEndsFlat ==
  <>[](turn = "orb" =>
         Orb!AtAlpaca(oAlp) = {} /\ ~Orb!Active(oBook) /\ oBook.own = 0 /\ ~oHeld)

(* Every fixed trade ends flat, whatever answer is lost. (_manage_tranche)  *)
PlanEndsFlat == <>[](turn = "plan" => p.phase \in {"SKIPPED", "CLOSED"} /\ shares = 0)
=============================================================================
