------------------------------- MODULE CashLedger -------------------------------
(***************************************************************************)
(* The paper account: cash, positions with their average entry price and   *)
(* the fees carried in them, realized profit, margin and buying power; and *)
(* the account's own gate for a new order.  Sources: core/account.py       *)
(* (can_afford, apply_fill, _recompute_account_state), core/engine.py      *)
(* (submit_order, _execute_fill), main.py (the places that set the status).*)
(*                                                                         *)
(* Money and prices are whole units; the average price is rounded to one,  *)
(* as the code rounds it to 0.0001.  Shares are signed: a short position   *)
(* is negative.  Margin is counted in twentieths, to stay whole.           *)
(***************************************************************************)
EXTENDS Integers, FiniteSets, Functions

CONSTANTS
  Symbols,
  Prices,    \* what a symbol may trade at
  Qtys,      \* sizes of orders
  Fees,      \* the fee of a fill
  Cash,      \* INITIAL_CAPITAL
  Leverage,  \* 4
  Pdt,       \* PDT_MINIMUM_EQUITY
  Cap,       \* the most one position may be worth
  ShortRate, \* the short margin per share below which the rate by value does not go (5.00)
  MaxShares, \* bound: shares of a position an order may lead to
  MaxOrders  \* bound: orders submitted

Order == [sym : Symbols, dir : {-1, 1}, qty : Qtys, est : Prices]
NoOrder == [sym |-> "none", dir |-> 0, qty |-> 0, est |-> 0]
Flat  == [sh |-> 0, avg |-> 0, fee |-> 0]

VARIABLES
  cash, realized,
  pos,       \* per symbol: shares, average entry price, fees carried
  mkt,       \* the last price of each symbol
  status,    \* AccountStatus
  work,      \* orders approved and not filled
  fresh,     \* the order approved by the last step
  orders,    \* how many were submitted
  rounded    \* twice the most that rounding the averages can have moved

vars == <<cash, realized, pos, mkt, status, work, fresh, orders, rounded>>

TypeOK ==
  /\ cash \in Int /\ realized \in Int /\ mkt \in [Symbols -> Prices]
  /\ \A s \in Symbols : /\ pos[s].sh \in Int /\ pos[s].avg \in Nat /\ pos[s].fee \in Nat
  /\ status \in {"ACTIVE", "MARGIN_CALL", "CIRCUIT_HALTED", "EOD_FLAT"}
  /\ work \subseteq Order /\ fresh \in Order \cup {NoOrder}

Abs(n) == IF n < 0 THEN -n ELSE n
Sign(n) == IF n < 0 THEN -1 ELSE 1
Over(a, b) == IF a > b THEN a ELSE b
Rounded(n, d) == (2 * n + d) \div (2 * d)

-----------------------------------------------------------------------------
(* What the account is worth                                               *)

Total(f) == FoldFunction(LAMBDA x, y : x + y, 0, f)
Equity(c, b, m) == c + Total([s \in Symbols |-> b[s].sh * m[s]])
Unrealized == Total([s \in Symbols |-> pos[s].sh * (mkt[s] - pos[s].avg)])
CarriedFees == Total([s \in Symbols |-> pos[s].fee])

\* FINRA 4210, in twentieths: a quarter of a long, the larger of 30% and ShortRate a share of a short
ShortMargin(n, p) ==
  IF p >= ShortRate THEN Over(6 * n * p, 20 * ShortRate * n) ELSE Over(20 * n * p, 10 * ShortRate * n)
Margin(dir, n, p) == IF dir > 0 THEN 5 * n * p ELSE ShortMargin(n, p)
Maintenance(b, m) == Total([s \in Symbols |-> Margin(b[s].sh, Abs(b[s].sh), m[s])])

\* Fault: what the positions hold back is lent again
GrossBuyingPower == Over(0, IF Equity(cash, pos, mkt) >= Pdt THEN 20 * Equity(cash, pos, mkt) * Leverage ELSE 20 * cash)

\* in twentieths: the excess times the leverage; below the day trader's minimum, the cash
BuyingPower ==
  LET e == Equity(cash, pos, mkt)
  IN IF e >= Pdt THEN Leverage * Over(0, 20 * e - Maintenance(pos, mkt)) ELSE 20 * Over(0, cash)

\* _recompute_account_state: a margin call comes and goes, and never replaces a halt
Recomputed(st, c, b, m) ==
  LET short == 20 * Equity(c, b, m) < Maintenance(b, m)
  IN CASE st = "ACTIVE" /\ short -> "MARGIN_CALL"
       [] st = "MARGIN_CALL" /\ ~short -> "ACTIVE"
       [] OTHER -> st

-----------------------------------------------------------------------------
(* can_afford                                                              *)

Halted == status \in {"CIRCUIT_HALTED", "EOD_FLAT"}
Reduces(o) == pos[o.sym].sh * o.dir < 0
Grown(o)   == IF Reduces(o) THEN o.qty - Abs(pos[o.sym].sh) ELSE o.qty   \* shares beyond closing

CanAfford(o) ==
  \/ Reduces(o) /\ Grown(o) <= 0
  \/ /\ ~Halted /\ Grown(o) > 0
     /\ (IF Reduces(o) THEN 0 ELSE Abs(pos[o.sym].sh) * mkt[o.sym]) + Grown(o) * o.est <= Cap
     /\ Leverage * Margin(o.dir, Grown(o), o.est) <= BuyingPower

-----------------------------------------------------------------------------
(* apply_fill                                                              *)

\* Fault: a partial exit leaves all the entry fees in the position
CarryAllFees(p, q, price, fee) ==
  LET own == Sign(p.sh)
  IN [pos  |-> [p EXCEPT !.sh = @ - own * q], gain |-> q * own * (price - p.avg) - fee - Rounded(p.fee * q, Abs(p.sh))]

\* a partial exit: its share of the entry fees is realized with it
Reduce(p, q, price, fee) ==
  LET own == Sign(p.sh)
      share == Rounded(p.fee * q, Abs(p.sh))
  IN [pos  |-> [p EXCEPT !.sh = @ - own * q, !.fee = @ - share],
      gain |-> q * own * (price - p.avg) - fee - share]

\* scaling in: the average by shares, rounded
Add(p, dir, q, price, fee) ==
  LET n == Abs(p.sh) + q
  IN [pos  |-> [sh |-> p.sh + dir * q, avg |-> Rounded(Abs(p.sh) * p.avg + q * price, n), fee |-> p.fee + fee],
      gain |-> 0]

Open(dir, q, price, fee) == [pos |-> [sh |-> dir * q, avg |-> price, fee |-> fee], gain |-> 0]

Close(p, price, fee) == [pos |-> Flat, gain |-> p.sh * (price - p.avg) - fee - p.fee]

\* a flip: the fee is split by shares between the close and the new position
Flip(p, dir, q, price, fee) ==
  LET own == Abs(p.sh)
      part == Rounded(fee * own, q)
  IN [pos |-> Open(dir, q - own, price, fee - part).pos, gain |-> p.sh * (price - p.avg) - part - p.fee]

Filled(p, dir, q, price, fee) ==
  CASE p.sh = 0            -> Open(dir, q, price, fee)
    [] p.sh * dir > 0      -> Add(p, dir, q, price, fee)
    [] p.sh * dir < 0 /\ q < Abs(p.sh) -> Reduce(p, q, price, fee)
    [] p.sh * dir < 0 /\ q = Abs(p.sh) -> Close(p, price, fee)
    [] p.sh * dir < 0 /\ q > Abs(p.sh) -> Flip(p, dir, q, price, fee)

-----------------------------------------------------------------------------
Init ==
  /\ cash = Cash /\ realized = 0 /\ pos = [s \in Symbols |-> Flat]
  /\ mkt \in [Symbols -> Prices]
  /\ status = "ACTIVE" /\ work = {} /\ fresh = NoOrder /\ orders = 0 /\ rounded = 0

\* submit_order: the account's gate; the order then works
Submit(o) ==
  /\ orders < MaxOrders /\ orders' = orders + 1
  /\ o \notin work /\ o.est = mkt[o.sym]
  /\ CanAfford(o)
  /\ Abs(pos[o.sym].sh + o.dir * o.qty) <= MaxShares
  /\ work' = work \cup {o} /\ fresh' = o
  /\ UNCHANGED <<cash, realized, pos, mkt, status, rounded>>

\* _execute_fill: whatever the account has become since, the fill is booked
Fill(o, fee) ==
  LET p == pos[o.sym]
      price == mkt[o.sym]
      after == Filled(p, o.dir, o.qty, price, fee)
      b == [pos EXCEPT ![o.sym] = after.pos]
      c == cash - o.dir * o.qty * price - fee
  IN /\ o \in work /\ work' = work \ {o}
     /\ pos' = b /\ cash' = c /\ realized' = realized + after.gain
     /\ rounded' = rounded + (IF p.sh * o.dir > 0 THEN Abs(p.sh) + o.qty ELSE 0)
     /\ status' = Recomputed(status, c, b, mkt)
     /\ fresh' = NoOrder /\ UNCHANGED <<mkt, orders>>

\* update_market_price: a position is marked and the account recomputed
Mark(s, price) ==
  /\ mkt' = [mkt EXCEPT ![s] = price] /\ mkt[s] # price
  /\ status' = IF pos[s].sh = 0 THEN status ELSE Recomputed(status, cash, pos, mkt')
  /\ fresh' = NoOrder /\ UNCHANGED <<cash, realized, pos, work, orders, rounded>>

\* the loss breaker and the close
Halt(st) ==
  /\ status # st /\ status' = st
  /\ work' = {} /\ fresh' = NoOrder
  /\ UNCHANGED <<cash, realized, pos, mkt, orders, rounded>>

\* reset_daily_metrics
NewDay ==
  /\ Halted /\ status' = Recomputed("ACTIVE", cash, pos, mkt)
  /\ fresh' = NoOrder /\ UNCHANGED <<cash, realized, pos, mkt, work, orders, rounded>>

Next ==
  \/ \E o \in Order : Submit(o)
  \/ \E o \in work, fee \in Fees : Fill(o, fee)
  \/ \E s \in Symbols, p \in Prices : Mark(s, p)
  \/ \E st \in {"CIRCUIT_HALTED", "EOD_FLAT"} : Halt(st)
  \/ NewDay

Spec == Init /\ [][Next]_vars

-----------------------------------------------------------------------------
(* Properties                                                              *)

\* The account's equity is what it began with, what it realized and what its positions show, less the fees
\* they still carry: scaling in, partial exits, flips and marks neither make nor lose money beyond the
\* rounding of the average price (apply_fill, _recompute_account_state).
EquityIsExplained ==
  2 * Abs(Equity(cash, pos, mkt) - (Cash + realized + Unrealized - CarriedFees)) <= rounded

LongOnly(o) == o.dir > 0 /\ \A s \in Symbols : pos[s].sh >= 0

\* An order the gate has just approved, filled at the price it was approved with, leaves the equity above
\* the margin its book needs (can_afford: "FINRA Rule 4210").  Below the day trader's minimum this is so
\* only while nothing is short: there a short sale's proceeds count as buying power.
ApprovedIsBacked ==
  fresh # NoOrder /\ Grown(fresh) > 0 /\ (Equity(cash, pos, mkt) >= Pdt \/ LongOnly(fresh)) =>
    LET b == [pos EXCEPT ![fresh.sym] = Filled(@, fresh.dir, fresh.qty, fresh.est, 0).pos]
    IN 20 * Equity(cash - fresh.dir * fresh.qty * fresh.est, b, mkt) >= Maintenance(b, mkt)

\* The same without the exception: what the comment at the buying power promises ("no 4x intraday
\* leverage" below the minimum); MaxOrders = 3 shows it does not hold.
ApprovedIsAlwaysBacked ==
  fresh # NoOrder /\ Grown(fresh) > 0 =>
    LET b == [pos EXCEPT ![fresh.sym] = Filled(@, fresh.dir, fresh.qty, fresh.est, 0).pos]
    IN 20 * Equity(cash - fresh.dir * fresh.qty * fresh.est, b, mkt) >= Maintenance(b, mkt)
=============================================================================
