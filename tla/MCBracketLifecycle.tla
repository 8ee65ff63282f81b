------------------------------ MODULE MCBracketLifecycle ------------------------------
(* The positions of the strategies: two brackets of a symbol, and the      *)
(* swing arm over three sessions. The two share no state; `turn` says      *)
(* which one a behaviour is about. The book of brackets is extended (its   *)
(* properties hold of its initial state while the other has the turn), the *)
(* swing arm is an instance.                                               *)
EXTENDS BracketLifecycle

CONSTANT Turns   \* which parts are checked: bracket, swing

VARIABLE turn    \* the part at work: chosen at the start
VARIABLES sDay, sPh, sUp, sArm, sOpen, sTasks, sLast, sFaults

swing == <<sDay, sPh, sUp, sArm, sOpen, sTasks, sLast, sFaults>>
all   == <<turn, vars, swing>>

-----------------------------------------------------------------------------
(* Two symbols and one slot over three sessions.                           *)
Swing == INSTANCE SwingArm WITH NumSyms <- 2, Slots <- 1, Q <- 2, TimeStop <- 2, MaxOrders <- 4,
  MaxFaults <- 1, Calendar <- <<"trade", "trade", "trade">>, day <- sDay, ph <- sPh, up <- sUp, arm <- sArm,
  open <- sOpen, tasks <- sTasks, last <- sLast, faults <- sFaults
SwingOff ==
  /\ sDay = 0 /\ sPh = 0 /\ sUp = 0 /\ sArm = 0 /\ sOpen = 0 /\ sTasks = 0 /\ sLast = 0 /\ sFaults = 0

-----------------------------------------------------------------------------
(* Each part on its own *)
PositionsInit ==
  /\ turn \in Turns
  /\ Init
  /\ IF turn = "swing" THEN Swing!Init ELSE SwingOff

InBracket(A) == turn = "bracket" /\ A /\ UNCHANGED <<turn, swing>>
InSwing(A) == turn = "swing" /\ A /\ UNCHANGED <<turn, vars>>

PartsNext ==
  \/ InBracket(Next)
  \/ InSwing(Swing!Next)

PositionsSpec == PositionsInit /\ [][PartsNext]_all

-----------------------------------------------------------------------------
(* Of the swing arm, whose slots are counted apart, no more is held than   *)
(* its slots and no more sold than it holds, whatever is late, lost or     *)
(* restarted. (swing_panic_dip.py)                                         *)
SwingShares == turn = "swing" => Swing!SlotsHeld /\ Swing!SellsCovered

=============================================================================
