---------------------------- MODULE StockOwners ----------------------------
(***************************************************************************)
(* Who may trade a stock.  Four parts send orders for the same Alpaca      *)
(* account: the engine (intraday strategies, the operator and the swing    *)
(* arm), ORB's threads, the day-one plans and the overnight holds.  Each   *)
(* asks the others before it claims, before it plans and before it sends.  *)
(* Sources: main.py (pre_trade_risk_validator, the committed portfolio,    *)
(* day_one_admission), core/risk.py (the slots), and the ownership hooks   *)
(* of orb_integration, day_one_integration and overnight_integration.      *)
(*                                                                         *)
(* Handlers run on one event loop; ORB's threads and the day-one worker    *)
(* run beside it and share orb.lock.  Only entries are modelled: what a    *)
(* part does with the shares it got is in the module of that part.  Prices,*)
(* sectors, sizes and the tri-engine's stocks (which ORB and the others    *)
(* never list) are left out.                                               *)
(***************************************************************************)
EXTENDS Integers, FiniteSets

CONSTANTS
  Stocks,
  Swung,      \* stocks of the swing arm
  Spys,       \* day-one stocks claimed without a look at the others (SPY)
  Coins,      \* day-one stocks claimed when nobody has them (COIN)
  Nightly,    \* stocks of the overnight holds
  Slots,      \* max_concurrent_positions
  SwingSlots, \* max_concurrent_swing_positions
  MaxFaults   \* bound: POSTs that leave an unsettled order at Alpaca, crashes

Arms    == {"day", "manual", "swing"}       \* whose orders the engine sends
NoOrder == [arm |-> "none", st |-> "none", at |-> "none"]

VARIABLES
  ent,      \* the engine's entry in a stock, [arm, st, at]: its state, and what Alpaca has of it (arm "late":
            \* a day trade of a fill that came after the entry was given up)
  dead,     \* entries the engine gave up that may live at Alpaca: <<stock, arm>>
  staged,   \* stocks the swing arm has reserved
  orb,      \* ORB's claim: free, reserved (under the lock), checked (before its POST), live
  one,      \* the day-one plan: free, claimed, admitted (counts as a slot), live
  night,    \* tonight's hold: free, reserved (15:45), gated, read flat, live
  asked,    \* the order the validator is at: <<stock, arm, claimed under ORB's lock>>
  faults

vars == <<ent, dead, staged, orb, one, night, asked, faults>>

Nobody == <<0, "none", FALSE>>

TypeOK ==
  /\ ent \in [Stocks -> [arm : Arms \cup {"none", "late"}, st : {"none", "working", "held"},
                         at : {"none", "order", "shares"}]]
  /\ dead \subseteq Stocks \X Arms /\ staged \subseteq Swung
  /\ orb \in [Stocks -> {"free", "reserved", "checked", "live"}]
  /\ one \in [Stocks -> {"free", "claimed", "admitted", "live"}]
  /\ night \in [Stocks -> {"free", "reserved", "gated", "flat", "live"}]
  /\ asked = Nobody \/ asked \in Stocks \X Arms \X BOOLEAN
  /\ faults \in 0 .. MaxFaults

-----------------------------------------------------------------------------
(* What each part says of a stock                                          *)

OrbOwns(s)   == orb[s] # "free"                                \* orb.owns
OneClaims(s) == one[s] # "free"                                \* day_one.claimed
NightHas(s)  == night[s] # "free"                              \* overnight.claimed
Swings(s)    == s \in staged \/ ent[s].arm = "swing"           \* is_symbol_reserved_for_swing

\* adt_occupied: positions, working orders, the claim of an entry under way, brackets, the other parts
Occupied(s) == ent[s].st # "none" \/ (asked[1] = s /\ asked[3]) \/ s \in staged \/ NightHas(s) \/ OneClaims(s)

\* _held_by_other of the day-one plans and of the overnight holds (a day trade does not stop a hold)
HeldForOne(s)   == ent[s].st # "none" \/ s \in staged \/ NightHas(s) \/ OrbOwns(s)
HeldForNight(s) == Swings(s) \/ OrbOwns(s)

\* the entries given up that Alpaca may still have: cancel_order only ends the local order
GivenUp(s) == IF ent[s].at = "order" THEN {<<s, ent[s].arm>>} ELSE {}
Dead(s)    == \E arm \in Arms : <<s, arm>> \in dead

\* Fault: the orders the engine gave up are not looked at
FlatInTheBook(s) == ent[s].at = "none" /\ orb[s] # "live" /\ one[s] # "live" /\ night[s] # "live"

\* get_position and list_open_orders at Alpaca
AlpacaFlat(s) == ent[s].at = "none" /\ ~Dead(s) /\ orb[s] # "live" /\ one[s] # "live" /\ night[s] # "live"

\* Fault: a plan counts once it has been sent
CommittedOnceSent == {s \in Stocks : (ent[s].st # "none" /\ ent[s].arm # "swing") \/ one[s] = "live"}

\* _get_effective_committed_portfolio of the intraday arm: positions, working entries, day-one commitments
Committed == {s \in Stocks : (ent[s].st # "none" /\ ent[s].arm # "swing") \/ one[s] \in {"admitted", "live"}}
\* what an order of the operator is measured by: positions only
Positions == {s \in Stocks : (ent[s].st = "held" /\ ent[s].arm # "swing") \/ one[s] = "live"}
SwingHas  == {s \in Stocks : ent[s].st # "none" /\ ent[s].arm = "swing"}

\* the count the risk gate compares with the slots, and the slots
SlotFree(s, arm) ==
  CASE arm = "swing"  -> s \in SwingHas \/ Cardinality(SwingHas) < SwingSlots
    [] arm = "manual" -> s \in Committed \/ Cardinality(Positions) < Slots
    [] OTHER          -> s \in Committed \/ Cardinality(Committed) < Slots

-----------------------------------------------------------------------------
(* The engine's entries                                                    *)

Init ==
  /\ ent = [s \in Stocks |-> NoOrder] /\ dead = {} /\ staged = {}
  /\ orb = [s \in Stocks |-> "free"] /\ one = [s \in Stocks |-> "free"] /\ night = [s \in Stocks |-> "free"]
  /\ asked = Nobody /\ faults = 0

Engine == UNCHANGED <<staged, orb, one, night>>
Loop   == asked = Nobody    \* no handler is in the middle of an order

Stage(s) ==
  /\ Loop /\ s \in Swung \ staged
  /\ ent[s].arm # "swing"
  /\ staged' = staged \cup {s} /\ UNCHANGED <<ent, dead, orb, one, night, asked, faults>>

Unstage(s) ==
  /\ Loop /\ s \in staged /\ ent[s].arm # "swing"
  /\ staged' = staged \ {s} /\ UNCHANGED <<ent, dead, orb, one, night, asked, faults>>

\* pre_trade_risk_validator, first part: the owners that refuse any order of another
Ask(s, arm) ==
  /\ Loop /\ ent[s].st = "none"
  /\ arm = "swing" => s \in staged
  /\ ~OneClaims(s) /\ ~NightHas(s) /\ ~OrbOwns(s)
  /\ asked' = <<s, arm, FALSE>> /\ UNCHANGED <<ent, dead, faults>> /\ Engine

\* claim_for_adt looks again, under ORB's lock
ClaimForAdt(s) == ~OrbOwns(s)

\* Fault: the first look is enough
ClaimBlindly(s) == TRUE

MayClaim(s) == ClaimForAdt(s)

Claim ==
  /\ ~Loop /\ ~asked[3]
  /\ asked' = IF MayClaim(asked[1]) THEN <<asked[1], asked[2], TRUE>> ELSE Nobody
  /\ UNCHANGED <<ent, dead, faults>> /\ Engine

\* last part: the swing and intraday exclusion, the slots; the order works or is rejected
Admit ==
  LET s == asked[1]
      arm == asked[2]
  IN /\ asked[3]
     /\ ent' = IF (arm # "swing" => ~Swings(s)) /\ SlotFree(s, arm)
               THEN [ent EXCEPT ![s] = [arm |-> arm, st |-> "working", at |-> "none"]] ELSE ent
     /\ asked' = Nobody /\ UNCHANGED <<dead, faults>> /\ Engine

\* _dedicated_order_guard, at the POST
Guarded(s) == OneClaims(s) \/ NightHas(s)

\* Fault: what was admitted is sent
NeverGuarded(s) == FALSE

PostEntry(s) ==
  /\ Loop /\ ent[s].st = "working" /\ ent[s].at = "none"
  /\ IF Guarded(s) THEN ent' = [ent EXCEPT ![s] = NoOrder]      \* a hard refusal
     ELSE ent' = [ent EXCEPT ![s].st = "held", ![s].at = "shares"]
  /\ UNCHANGED <<dead, asked, faults>> /\ Engine

\* the POST got no answer, or the rest of the order could not be cancelled
PostUnsettled(s) ==
  /\ Loop /\ ent[s].st = "working" /\ ent[s].at = "none" /\ ~Guarded(s)
  /\ faults < MaxFaults /\ faults' = faults + 1
  /\ ent' = [ent EXCEPT ![s].at = "order"]
  /\ UNCHANGED <<dead, asked>> /\ Engine

\* an order at Alpaca fills and is booked (the next attempt, a poll, a cancel that comes too late)
Book(s) ==
  /\ Loop /\ ent[s].st = "working" /\ ent[s].at = "order"
  /\ ent' = [ent EXCEPT ![s].st = "held", ![s].at = "shares"]
  /\ UNCHANGED <<dead, asked, faults>> /\ Engine

Cancel(s) ==
  /\ Loop /\ ent[s].st = "working"
  /\ ent' = [ent EXCEPT ![s] = NoOrder] /\ dead' = dead \cup GivenUp(s)
  /\ UNCHANGED <<asked, faults>> /\ Engine

\* every 5 seconds: the order is found dead, or filled, and is booked
Settle(s, arm, filled) ==
  /\ Loop /\ <<s, arm>> \in dead
  /\ dead' = dead \ {<<s, arm>>}
  /\ ent' = IF filled
            THEN [ent EXCEPT ![s] = [arm |-> IF @.st # "none" THEN @.arm ELSE IF arm = "swing" THEN arm ELSE "late",
                                     st |-> "held", at |-> "shares"]]
            ELSE ent
  /\ UNCHANGED <<asked, faults>> /\ Engine

CloseTrade(s) ==
  /\ Loop /\ ent[s].st = "held"
  /\ ent' = [ent EXCEPT ![s] = NoOrder]
  /\ staged' = IF ent[s].arm = "swing" THEN staged \ {s} ELSE staged
  /\ UNCHANGED <<dead, orb, one, night, asked, faults>>

-----------------------------------------------------------------------------
(* ORB's threads: reserve under the lock, check late, send                 *)

Orb(s, from, to) ==
  /\ orb[s] \in from /\ orb' = [orb EXCEPT ![s] = to]
  /\ UNCHANGED <<ent, dead, staged, one, night, asked, faults>>

OrbReserve(s) == ~Occupied(s) /\ Orb(s, {"free"}, "reserved")

\* _late_checks: ADT's book again, then Alpaca
OrbCheck(s) == Orb(s, {"reserved"}, IF Occupied(s) \/ ~AlpacaFlat(s) THEN "free" ELSE "checked")
OrbPost(s)  == Orb(s, {"checked"}, "live")
OrbDone(s)  == Orb(s, {"reserved", "checked", "live"}, "free")

-----------------------------------------------------------------------------
(* Day-one plans                                                           *)

One(s, from, to) ==
  /\ one[s] \in from /\ one' = [one EXCEPT ![s] = to]
  /\ UNCHANGED <<ent, dead, staged, orb, night, asked, faults>>

OneClaim(s) == Loop /\ (s \in Coins => ~HeldForOne(s)) /\ One(s, {"free"}, "claimed")

\* day_one_admission: its own stock is not counted
OneSlot(s) == Cardinality(Committed \ {s}) < Slots \/ (ent[s].st # "none" /\ ent[s].arm # "swing")

\* the gates: read by a worker, applied on the loop
OneGates(s) ==
  Loop /\ One(s, {"claimed"}, IF HeldForOne(s) \/ ~AlpacaFlat(s) \/ ~OneSlot(s) THEN "free" ELSE "admitted")

\* the worker looks again and sends, both under ORB's lock
OneSend(s) ==
  One(s, {"admitted"}, IF HeldForOne(s) \/ ~AlpacaFlat(s) \/ ~OneSlot(s) THEN "free" ELSE "live")

OneDone(s) == Loop /\ One(s, {"claimed", "admitted", "live"}, "free")

-----------------------------------------------------------------------------
(* Overnight holds: the stock is reserved at 15:45 whoever has it          *)

Night(s, from, to) ==
  /\ night[s] \in from /\ night' = [night EXCEPT ![s] = to]
  /\ UNCHANGED <<staged, orb, one, asked>>

NightClaim(s) == Loop /\ Night(s, {"free"}, "reserved") /\ UNCHANGED <<ent, dead, faults>>

\* _local_gates: others' stocks are left; working entries are cancelled; a day trade must be closed first
NightGate(s) ==
  LET order == ent[s].st = "working" /\ ~Swings(s)
  IN /\ Loop /\ ~HeldForNight(s) /\ ent[s].st # "held"
     /\ ent' = IF order THEN [ent EXCEPT ![s] = NoOrder] ELSE ent
     /\ dead' = IF order THEN dead \cup GivenUp(s) ELSE dead
     /\ UNCHANGED faults
     /\ Night(s, {"reserved"}, "gated")

\* the worker reads Alpaca; anything there blocks, and the gates start again
NightRead(s) ==
  Night(s, {"gated"}, IF AlpacaFlat(s) THEN "flat" ELSE "reserved") /\ UNCHANGED <<ent, dead, faults>>

NightSend(s) == Night(s, {"flat"}, "live") /\ UNCHANGED <<ent, dead, faults>>
NightDone(s) == Loop /\ Night(s, {"reserved", "gated", "flat", "live"}, "free") /\ UNCHANGED <<ent, dead, faults>>

\* ORB's reservations that were not sent and the claim of an entry under way are only in memory
Crash ==
  /\ faults < MaxFaults /\ faults' = faults + 1
  /\ asked' = Nobody
  /\ orb' = [s \in Stocks |-> IF orb[s] = "live" THEN "live" ELSE "free"]
  /\ UNCHANGED <<ent, dead, staged, one, night>>

Next ==
  \/ \E s \in Stocks : Stage(s) \/ Unstage(s)
  \/ \E s \in Stocks, arm \in Arms : Ask(s, arm)
  \/ Claim \/ Admit
  \/ \E s \in Stocks : PostEntry(s) \/ PostUnsettled(s) \/ Book(s) \/ Cancel(s) \/ CloseTrade(s)
  \/ \E s \in Stocks, arm \in Arms, b \in BOOLEAN : Settle(s, arm, b)
  \/ \E s \in Stocks : OrbReserve(s) \/ OrbCheck(s) \/ OrbPost(s) \/ OrbDone(s)
  \/ \E s \in Spys \cup Coins : OneClaim(s) \/ OneGates(s) \/ OneSend(s) \/ OneDone(s)
  \/ \E s \in Nightly : NightClaim(s) \/ NightGate(s) \/ NightRead(s) \/ NightSend(s) \/ NightDone(s)
  \/ Crash

Spec == Init /\ [][Next]_vars

-----------------------------------------------------------------------------
(* Properties                                                              *)

Traders(s) ==
  (IF ent[s].at # "none" \/ Dead(s) THEN {"engine"} ELSE {}) \cup (IF orb[s] = "live" THEN {"orb"} ELSE {})
    \cup (IF one[s] = "live" THEN {"one"} ELSE {}) \cup (IF night[s] = "live" THEN {"night"} ELSE {})

\* At Alpaca a stock has orders or shares of one part only, however the loop, ORB's threads and the workers
\* interleave: each sells what it bought by a plan of its own, and Alpaca nets them (claim_for_adt,
\* _late_checks, _entry_recheck, _local_gates).
OneOwner == \A s \in Stocks : Cardinality(Traders(s)) <= 1

\* Strategies and day-one plans together never hold, or may come to hold, more stocks than the slots; the
\* operator's orders are measured by positions and may go beyond, as may an entry that was given up and
\* fills late (pre_trade_risk_validator, day_one_admission).
SlotsShared ==
  Cardinality({s \in Stocks : ent[s].arm = "day" \/ one[s] \in {"admitted", "live"}}) <= Slots
=============================================================================
