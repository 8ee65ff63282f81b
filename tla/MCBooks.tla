------------------------------ MODULE MCBooks ------------------------------
(* What is written down: the durable inbox over crashes and failed saves,  *)
(* one event of it under every fault, the cash ledger, and the booking of  *)
(* ORB trades. The parts share no state; `turn` says which one a behaviour *)
(* is about.                                                               *)
EXTENDS DurableInbox, FiniteSets

CONSTANT Turns   \* which parts are checked: inbox, any fault, cash, orb

VARIABLE turn    \* the part at work: chosen at the start
VARIABLES dInbox, dDisk, dLog, dNotes, dArmed, dInflight, dMarked, dRun, dBoot, dTodo, dPromised, dHealthy
VARIABLES cCash, cRealized, cPos, cMkt, cStatus, cWork, cFresh, cOrders, cRounded
VARIABLES oAlp, oCtl, oRow, oMode, oAdt, oSaved, oFaults

d == <<dInbox, dDisk, dLog, dNotes, dArmed, dInflight, dMarked, dRun, dBoot, dTodo, dPromised, dHealthy>>
c == <<cCash, cRealized, cPos, cMkt, cStatus, cWork, cFresh, cOrders, cRounded>>
o == <<oAlp, oCtl, oRow, oMode, oAdt, oSaved, oFaults>>
all == <<turn, vars, d, c, o>>

CONSTANTS AnyEvents, AnyQuotes, AnyArming
ASSUME AnyAssumption == AnyQuotes \subseteq AnyEvents /\ AnyArming \subseteq AnyEvents

-----------------------------------------------------------------------------
(* One event that arms a lockout and a quote, under every fault.           *)
Any == INSTANCE DurableInbox WITH Events <- AnyEvents, Quotes <- AnyQuotes, Arming <- AnyArming,
  MaxNotes <- 2, Faults <- {"crash", "save", "begin", "nested", "orders", "escape"}, inbox <- dInbox,
  disk <- dDisk, log <- dLog, notes <- dNotes, armed <- dArmed, inflight <- dInflight, marked <- dMarked,
  run <- dRun, boot <- dBoot, todo <- dTodo, promised <- dPromised, healthy <- dHealthy
AnyOff ==
  /\ dInbox = 0 /\ dDisk = 0 /\ dLog = 0 /\ dNotes = 0 /\ dArmed = 0 /\ dInflight = 0 /\ dMarked = 0 /\ dRun = 0
  /\ dBoot = 0 /\ dTodo = 0 /\ dPromised = 0 /\ dHealthy = 0

-----------------------------------------------------------------------------
(* The cash account; Books.cfg: two symbols, two prices, orders of one and *)
(* three shares, long and short.                                           *)
CONSTANTS Symbols, Prices, Qtys, Fees, Cash, Leverage, Pdt, Cap, ShortRate, MaxShares, MaxOrders   \* see CashLedger
ASSUME CashAssumption ==
  /\ IsFiniteSet(Symbols)
  /\ Prices \subseteq Nat \ {0} /\ Qtys \subseteq Nat \ {0} /\ Fees \subseteq Nat
  /\ Cash \in Nat /\ Pdt \in Nat /\ Cap \in Nat /\ ShortRate \in Nat
  /\ Leverage \in Nat /\ Leverage >= 4

Ledger == INSTANCE CashLedger WITH cash <- cCash, realized <- cRealized, pos <- cPos, mkt <- cMkt,
  status <- cStatus, work <- cWork, fresh <- cFresh, orders <- cOrders, rounded <- cRounded
LedgerOff ==
  /\ cCash = 0 /\ cRealized = 0 /\ cPos = 0 /\ cMkt = 0 /\ cStatus = 0 /\ cWork = 0 /\ cFresh = 0 /\ cOrders = 0
  /\ cRounded = 0

-----------------------------------------------------------------------------
(* The booking of ORB; Books.cfg: two positions of two shares, two crashes. *)
CONSTANTS Keys, Size, Late, Recover, MaxFaults   \* see OrbBooking
ASSUME BookingAssumption == IsFiniteSet(Keys) /\ Size \in Nat

Booking == INSTANCE OrbBooking WITH alp <- oAlp, ctl <- oCtl, row <- oRow, mode <- oMode, adt <- oAdt,
  saved <- oSaved, faults <- oFaults
BookingOff ==
  /\ oAlp = 0 /\ oCtl = 0 /\ oRow = 0 /\ oMode = 0 /\ oAdt = 0 /\ oSaved = 0 /\ oFaults = 0

-----------------------------------------------------------------------------
(* Each part on its own *)
BooksInit ==
  /\ turn \in Turns
  /\ Init
  /\ IF turn = "any fault" THEN Any!Init ELSE AnyOff
  /\ IF turn = "cash" THEN Ledger!Init ELSE LedgerOff
  /\ IF turn = "orb" THEN Booking!Init ELSE BookingOff

InInbox(A) == turn = "inbox" /\ A /\ UNCHANGED <<turn, d, c, o>>
InAny(A) == turn = "any fault" /\ A /\ UNCHANGED <<turn, vars, c, o>>
InLedger(A) == turn = "cash" /\ A /\ UNCHANGED <<turn, vars, d, o>>
InBooking(A) == turn = "orb" /\ A /\ UNCHANGED <<turn, vars, d, c>>

PartsNext ==
  \/ InInbox(Next)
  \/ InAny(Any!Next)
  \/ InLedger(Ledger!Next)
  \/ InBooking(Booking!Next)

BooksSpec == BooksInit /\ [][PartsNext]_all

(* The fairness of the inbox (DurableInbox), for the steps of its own turn  *)
FairBooks ==
  /\ BooksSpec
  /\ SF_all(InInbox(Finish(TRUE))) /\ SF_all(InInbox(RetryCheckpoint(TRUE)))
  /\ SF_all(InInbox(StartReplay))  /\ SF_all(InInbox(Replay))
  /\ SF_all(InInbox(ReplayRetry /\ marked' = {} /\ boot' = boot))
  /\ SF_all(InInbox(StartServing))

-----------------------------------------------------------------------------
(* No event is lost whatever fails while it is handled. (persistence.py,   *)
(* _apply_event)                                                           *)
AnyKeepsAll == turn = "any fault" => Any!NoEventLost

(* Every figure can be traced to what happened: the equity to the fills    *)
(* and fees and an approved order to the buying power behind it            *)
(* (CashLedger), and a row of ORB to its position at Alpaca (OrbBooking).  *)
BooksAreExplained ==
  /\ turn = "cash"     => Ledger!EquityIsExplained /\ Ledger!ApprovedIsBacked
  /\ turn = "orb"      => Booking!BookIsOrb /\ Booking!TradeIsWhole

=============================================================================
