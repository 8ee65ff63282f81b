------------------------------ MODULE MCMornings ------------------------------
(* What a morning finds, decides and opens, who may and what it may lose:  *)
(* the scheduler of ORB, the owners of a stock, the limit of the daily     *)
(* loss, and the book of brackets an operator worked on the day before.    *)
(* They share no state; `turn` says which one a behaviour is about. The    *)
(* scheduler is extended (its properties hold of its initial state while   *)
(* another has the turn), the others are instances.                        *)
EXTENDS OrbMorning, FiniteSets

CONSTANT Turns   \* which parts are checked: orb, owners, loss, desk

VARIABLE turn    \* the part at work: chosen at the start
VARIABLES oEnt, oDead, oStaged, oOrb, oOne, oNight, oAsked, oFaults
VARIABLES bDay, bSession, bEquity, bStart, bLimit, bStatus, bLevel, bLedger, bOff, bHold, bBooked, bDisk,
  bToday, bMoved, bFaults
VARIABLES dPos, dOrd, dXpar, dNb, dBr, dSymBr, dMapped, dEntryMap, dPend, dPhase, dRoom, dHalted, dClosing,
  dTrade

owners == <<oEnt, oDead, oStaged, oOrb, oOne, oNight, oAsked, oFaults>>
loss   == <<bDay, bSession, bEquity, bStart, bLimit, bStatus, bLevel, bLedger, bOff, bHold, bBooked, bDisk,
  bToday, bMoved, bFaults>>
desk   == <<dPos, dOrd, dXpar, dNb, dBr, dSymBr, dMapped, dEntryMap, dPend, dPhase, dRoom, dHalted, dClosing,
  dTrade>>
all == <<turn, vars, owners, loss, desk>>

-----------------------------------------------------------------------------
(* The owners; Mornings.cfg: three stocks, the first may be swung or held  *)
(* overnight, the second and third have a plan of day one.                 *)
CONSTANTS Stocks, Swung, Spys, Coins, Nightly, Slots, SwingSlots, OwnerFaults   \* see StockOwners
ASSUME OwnersAssumption ==
  /\ IsFiniteSet(Stocks) /\ {Swung, Spys, Coins, Nightly} \subseteq SUBSET Stocks
  /\ {Slots, SwingSlots, OwnerFaults} \subseteq Nat

Owners == INSTANCE StockOwners WITH MaxFaults <- OwnerFaults, ent <- oEnt, dead <- oDead,
  staged <- oStaged, orb <- oOrb, one <- oOne, night <- oNight, asked <- oAsked, faults <- oFaults
OwnersOff ==
  /\ oEnt = 0 /\ oDead = 0 /\ oStaged = 0 /\ oOrb = 0 /\ oOne = 0 /\ oNight = 0 /\ oAsked = 0 /\ oFaults = 0

-----------------------------------------------------------------------------
(* The loss of a day; Mornings.cfg: three days of gains and losses, one    *)
(* restart or lost write.                                                  *)
CONSTANTS Days, FirstEquity, Hard, Share, Warning, Gains, Losses, MaxMoves, LossFaults   \* see LossBudget
ASSUME LossAssumption ==
  /\ {Days, Share} \subseteq Nat \ {0} /\ {FirstEquity, Hard, Warning} \subseteq Nat
  /\ Gains \subseteq Nat /\ Losses \subseteq Nat

Budget == INSTANCE LossBudget WITH MaxFaults <- LossFaults, day <- bDay, session <- bSession,
  equity <- bEquity, start <- bStart, limit <- bLimit, status <- bStatus, level <- bLevel,
  ledger <- bLedger, off <- bOff, hold <- bHold, booked <- bBooked, disk <- bDisk, today <- bToday,
  moved <- bMoved, faults <- bFaults
LossOff ==
  /\ bDay = 0 /\ bSession = 0 /\ bEquity = 0 /\ bStart = 0 /\ bLimit = 0 /\ bStatus = 0 /\ bLevel = 0 /\ bLedger = 0
  /\ bOff = 0 /\ bHold = 0 /\ bBooked = 0 /\ bDisk = 0 /\ bToday = 0 /\ bMoved = 0 /\ bFaults = 0

-----------------------------------------------------------------------------
(* An operator who cancels any order, also of other symbols, and sends     *)
(* orders of his own, and signals that are taken beside a liquidation that *)
(* has not sold everything.                                                *)
CONSTANTS DeskExits, DeskCovers
Desk == INSTANCE BracketLifecycle WITH NB <- 1, Exits <- DeskExits, Covers <- DeskCovers, Qtys <- {2}, Caps <- {0, 1},
  MaxStop <- 1, Breakeven <- 1, CancelKinds <- {"entry", "stop", "t1", "t2", "exit"}, Reduce <- TRUE,
  Blind <- TRUE, Elsewhere <- TRUE, pos <- dPos, ord <- dOrd, xpar <- dXpar, nb <- dNb, br <- dBr, symBr <- dSymBr,
  mapped <- dMapped, entryMap <- dEntryMap, pend <- dPend, phase <- dPhase, room <- dRoom,
  halted <- dHalted, closing <- dClosing, trade <- dTrade
ASSUME DeskAssumption == DeskExits \cap Desk!Legs = {} /\ DeskCovers \subseteq DeskExits

DeskOff ==
  /\ dPos = 0 /\ dOrd = 0 /\ dXpar = 0 /\ dNb = 0 /\ dBr = 0 /\ dSymBr = 0 /\ dMapped = 0 /\ dEntryMap = 0
  /\ dPend = 0 /\ dPhase = 0 /\ dRoom = 0 /\ dHalted = 0 /\ dClosing = 0 /\ dTrade = 0

-----------------------------------------------------------------------------
(* Each part on its own *)
MorningsInit ==
  /\ turn \in Turns
  /\ Init
  /\ IF turn = "owners" THEN Owners!Init ELSE OwnersOff
  /\ IF turn = "loss" THEN Budget!Init ELSE LossOff
  /\ IF turn = "desk" THEN Desk!Init ELSE DeskOff

InOrb(A) == turn = "orb" /\ A /\ UNCHANGED <<turn, owners, loss, desk>>
InOwners(A) == turn = "owners" /\ A /\ UNCHANGED <<turn, vars, loss, desk>>
InLoss(A) == turn = "loss" /\ A /\ UNCHANGED <<turn, vars, owners, desk>>
InDesk(A) == turn = "desk" /\ A /\ UNCHANGED <<turn, vars, owners, loss>>

PartsNext ==
  \/ InOrb(Next)
  \/ InOwners(Owners!Next)
  \/ InLoss(Budget!Next)
  \/ InDesk(Desk!Next)

MorningsSpec == MorningsInit /\ [][PartsNext]_all

(* The fairness of the scheduler, for the steps of its own turn             *)
OrbFair ==
  /\ WF_all(InOrb(Advance)) /\ WF_all(InOrb(Collects)) /\ WF_all(InOrb(Workers)) /\ WF_all(InOrb(Write))
  /\ WF_all(InOrb(ChildUp)) /\ WF_all(InOrb(Later)) /\ WF_all(InOrb(Restart))

FairMornings == MorningsSpec /\ OrbFair

-----------------------------------------------------------------------------
(* Every morning of ORB's ends with a verdict on the 9:38 board, or with   *)
(* the reason why there is none. (orb_scheduler.py, _flush)                *)
OrbMorningEnds == <>[](turn = "orb" => up /\ st.primary \in {"done", "failed", "skipped", "interrupted"})

(* A stock has one owner at a time, and all owners together stay within    *)
(* the slots of the account; the loss of a day is that of its own trades,  *)
(* and the risk of an approved order fits, with what the other owners      *)
(* reserve, into what is left of the limit. (main.py, _symbol_conflict and *)
(* the reservations; risk.py)                                              *)
OwnersShare ==
  /\ turn = "owners" => Owners!OneOwner /\ Owners!SlotsShared
  /\ turn = "loss"   => Budget!MeasuredIsTheSessions /\ Budget!ApprovedFitsTheDay

(* A new day starts flat whatever the operator did to the orders of the    *)
(* day and however often the broker refused the sale at the boundary: of a *)
(* bracket that was cleared nothing works any more and no fill is on its   *)
(* way, and no share is left. (_check_session_boundary)                    *)
DeskStartsFlat == turn = "desk" => Desk!DayStartsFlat

=============================================================================
