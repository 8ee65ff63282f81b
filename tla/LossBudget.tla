------------------------------- MODULE LossBudget -------------------------------
(***************************************************************************)
(* The day's loss limit: what is measured against it, the breaker it       *)
(* trips, and the orders that are sized from what is left of it.  The      *)
(* sale of an overnight hold is booked into the account but does not count *)
(* against the day it sells on, so an offset kept with the night's ledger  *)
(* is taken out of the measured loss, and has to be of the same session as *)
(* the equity it corrects across boundaries, late bookings and restarts.   *)
(* Sources: core/risk.py, core/overnight_integration.py (_book,            *)
(* apply_risk_offset), core/orb_integration.py (open_risk), main.py (the   *)
(* session boundary, _restore_checkpoint, _dedicated_reserved_risk).       *)
(*                                                                         *)
(* The account is one number, its equity: CashLedger has the rest.  A hold *)
(* is carried at its buy price, so only its sale moves the equity.         *)
(***************************************************************************)
EXTENDS Integers, FiniteSets

CONSTANTS
  Days,        \* bound: calendar days
  FirstEquity, \* the equity of the first day
  Hard,        \* MAX_DAILY_LOSS_LIMIT
  Share,       \* the limit is never looser than the session's first equity over this
  Warning,     \* warning_loss_dollars
  Gains,       \* what an event may add to the equity, and what a hold may sell for above its price
  Losses,      \* what they may take
  MaxMoves,    \* bound: events that move the equity, of all days
  MaxFaults    \* bound: crashes

VARIABLES
  day,        \* the calendar
  session,    \* last_session_date
  equity,
  start,      \* daily_starting_equity, of the account and of the breaker
  limit,      \* hard_max_daily_loss_dollars
  status,     \* ARMED, HALTED
  level,      \* NORMAL, WARNING, HALTED
  ledger,     \* of the night: [date, amount] of the offset
  off,        \* overnight_realized_today: the offset the breaker uses
  hold,       \* the nth night at Alpaca: none, held, or sold on a day for a result
  booked,     \* nights whose sale is in the account
  disk,       \* the checkpoint
  today,      \* ghost: what everything but the hold did to the equity since the boundary
  moved, faults

vars == <<day, session, equity, start, limit, status, level, ledger, off, hold, booked, disk, today, moved, faults>>

NoOffset == [date |-> 0, amount |-> 0]
NoHold   == [n |-> 0, state |-> "none", date |-> 0, result |-> 0]

Least(a, b) == IF a < b THEN a ELSE b
Most(a, b)  == IF a > b THEN a ELSE b

Moves == Gains \cup {-l : l \in Losses}

\* daily_loss_limit
LimitOf(e) == Least(Hard, e \div Share)

Saved == [session |-> session, equity |-> equity, start |-> start, status |-> status, level |-> level,
          ledger |-> ledger, booked |-> booked, today |-> today]

Init ==
  /\ day = 1 /\ session = 1 /\ equity = FirstEquity /\ start = FirstEquity /\ limit = LimitOf(FirstEquity)
  /\ status = "ARMED" /\ level = "NORMAL" /\ ledger = NoOffset /\ off = 0 /\ hold = NoHold /\ booked = 0
  /\ disk = [session |-> 1, equity |-> FirstEquity, start |-> FirstEquity, status |-> "ARMED", level |-> "NORMAL",
             ledger |-> NoOffset, booked |-> 0, today |-> 0]
  /\ today = 0 /\ moved = 0 /\ faults = 0

-----------------------------------------------------------------------------
(* The breaker                                                             *)

\* Fault: the offset is applied whatever session it is of
OffsetOfAnySession(l, s) == l.amount
\* apply_risk_offset
OffsetFor(l, s) == IF l.date # 0 /\ l.date = s THEN l.amount ELSE 0

\* drawdown_dollars
Drawdown(st, e, o) == Most(0, st - (e - o))

\* evaluate_account_state
Evaluated(s, dd, lim) == IF s = "HALTED" \/ dd >= lim THEN "HALTED" ELSE "ARMED"
LevelOf(s, l, dd, lim) ==
  IF s = "HALTED" THEN l
  ELSE IF dd >= lim THEN "HALTED" ELSE IF dd >= Warning THEN "WARNING" ELSE "NORMAL"

\* An event of the current session: fills and marks of the other arms, then the breaker is evaluated
Event(x) ==
  /\ session = day /\ moved < MaxMoves /\ moved' = moved + 1
  /\ equity' = equity + x /\ today' = today + x
  /\ LET dd == Drawdown(start, equity + x, off)
     IN status' = Evaluated(status, dd, limit) /\ level' = LevelOf(status, level, dd, limit)
  /\ UNCHANGED <<day, session, start, limit, ledger, off, hold, booked, disk, faults>>

\* The first event of a day runs the boundary of its session
Boundary ==
  /\ session < day /\ session' = day
  /\ start' = equity /\ limit' = LimitOf(equity) /\ status' = "ARMED" /\ level' = "NORMAL"
  /\ off' = OffsetFor(ledger, day) /\ today' = 0
  /\ UNCHANGED <<day, equity, ledger, hold, booked, disk, moved, faults>>

NewDay ==
  /\ day < Days /\ day' = day + 1
  /\ UNCHANGED <<session, equity, start, limit, status, level, ledger, off, hold, booked, disk, today, moved, faults>>

-----------------------------------------------------------------------------
(* The hold                                                                *)

\* Bought, and booked at the price it is carried at
Buy ==
  /\ hold.state # "held" /\ booked = hold.n /\ session = day
  /\ hold' = [n |-> hold.n + 1, state |-> "held", date |-> day, result |-> 0]
  /\ UNCHANGED <<day, session, equity, start, limit, status, level, ledger, off, booked, disk, today, moved, faults>>

\* Alpaca sells it on a later day, with the robot up or not
Sell(x) ==
  /\ hold.state = "held" /\ hold.date < day 
  /\ hold' = [hold EXCEPT !.state = "sold", !.date = day, !.result = x]
  /\ UNCHANGED <<day, session, equity, start, limit, status, level, ledger, off, booked, disk, today, moved, faults>>

\* _book: a fill of a day whose boundary has not run yet waits
MayBook(h) == h.date <= session

\* The offset of another session is dropped before the sale is added to it
WithSale(l, x) == [date |-> session, amount |-> x + IF l.date = session THEN l.amount ELSE 0]

BookSale ==
  /\ hold.state = "sold" /\ booked < hold.n /\ MayBook(hold)
  /\ equity' = equity + hold.result /\ ledger' = WithSale(ledger, hold.result) /\ booked' = hold.n
  /\ off' = OffsetFor(ledger', session)
  /\ UNCHANGED <<day, session, start, limit, status, level, hold, disk, today, moved, faults>>

-----------------------------------------------------------------------------
(* Checkpoint and restart                                                  *)

Save ==
  /\ disk' = Saved /\ disk # Saved
  /\ UNCHANGED <<day, session, equity, start, limit, status, level, ledger, off, hold, booked, today, moved, faults>>

\* _restore_checkpoint: the limit is rebuilt from the session's first equity, the offset applied last
Crash ==
  /\ faults < MaxFaults /\ faults' = faults + 1
  /\ session' = disk.session /\ equity' = disk.equity /\ start' = disk.start /\ limit' = LimitOf(disk.start)
  /\ status' = disk.status /\ level' = disk.level /\ ledger' = disk.ledger /\ booked' = disk.booked
  /\ off' = OffsetFor(disk.ledger, disk.session) /\ today' = disk.today
  /\ UNCHANGED <<day, hold, disk, moved>>

Next ==
  \/ \E x \in Moves : Event(x)
  \/ \E x \in Moves : Sell(x)
  \/ Boundary \/ NewDay \/ Buy \/ BookSale \/ Save \/ Crash

Spec == Init /\ [][Next]_vars

-----------------------------------------------------------------------------
(* Orders sized from what is left                                          *)

Unreadable == 99
Geometry == {"invalid", "tight", "fits", "wide"}
\* full: the most positions are held; crowded: the most of its sector; large: more than a swing slot;
\* dist: from the price to the stop
Request == [exit : BOOLEAN, swing : BOOLEAN, fixed : BOOLEAN, lockout : BOOLEAN, full : BOOLEAN, crowded : BOOLEAN,
            large : BOOLEAN, geometry : Geometry, dist : 1 .. 2, room : 0 .. 3, qty : 1 .. 2]

\* Fault: a reservation that cannot be read counts for nothing
ReservedOrNothing(res) == IF res = Unreadable THEN 0 ELSE res
\* reserved_risk: what ORB and the day-one plans hold or ask for; when it cannot be read, the whole limit
Reserved(res) == IF res = Unreadable THEN limit ELSE res
Remaining(res) == Most(0, limit - Drawdown(start, equity, off) - Reserved(res))

Refused(code) == [code |-> code, qty |-> 0]

\* The most shares of an intraday order: its risk, the position's share of the equity, the buying power
TradeRisk(res) == Least(Remaining(res), IF level = "WARNING" THEN 1 ELSE 2)
Authorized(r, res) == Least(TradeRisk(res) \div r.dist, r.room)

SwingVerdict(r) ==
  IF r.full THEN Refused("MAX_CONCURRENT_SWING_POSITIONS_REACHED")
  ELSE IF r.geometry = "invalid" THEN Refused("INVALID_PRICE_GEOMETRY")
  ELSE IF r.large THEN Refused("SWING_NOTIONAL_CAP_EXCEEDED")
  ELSE IF Least(r.qty, r.room) < 1 THEN Refused("INSUFFICIENT_BUYING_POWER")
  ELSE [code |-> "SWING_ORDER_APPROVED", qty |-> Least(r.qty, r.room)]

IntradayVerdict(r, res) ==
  IF r.lockout THEN Refused("ENTRY_LOCKOUT_ACTIVE")
  ELSE IF r.full THEN Refused("MAX_CONCURRENT_POSITIONS_REACHED")
  ELSE IF r.crowded THEN Refused("CORRELATED_SECTOR_EXPOSURE")
  ELSE IF r.geometry = "invalid" THEN Refused("INVALID_PRICE_GEOMETRY")
  ELSE IF r.geometry = "tight" /\ ~r.fixed THEN Refused("STOP_DISTANCE_TOO_TIGHT")
  ELSE IF r.geometry = "wide" /\ ~r.fixed THEN Refused("STOP_DISTANCE_TOO_WIDE")
  ELSE IF Authorized(r, res) < 1 THEN Refused("INSUFFICIENT_RISK_BUDGET")
  ELSE [code |-> "Approved", qty |-> Least(r.qty, Authorized(r, res))]

\* evaluate_order_request
Verdict(r, res) ==
  IF r.exit THEN [code |-> "APPROVED_EXIT", qty |-> r.qty]
  ELSE IF status # "ARMED" \/ Drawdown(start, equity, off) >= limit THEN Refused("CIRCUIT_BREAKER_HALTED")
  ELSE IF Remaining(res) = 0 THEN Refused("EXHAUSTED_DAILY_LOSS_BUDGET")
  ELSE IF r.swing THEN SwingVerdict(r) ELSE IntradayVerdict(r, res)

-----------------------------------------------------------------------------
(* Properties                                                              *)

TypeOK ==
  /\ day \in 1 .. Days /\ session \in 1 .. day /\ status \in {"ARMED", "HALTED"}
  /\ level \in {"NORMAL", "WARNING", "HALTED"} /\ limit = LimitOf(start)
  /\ ledger.date \in 0 .. Days /\ hold.state \in {"none", "held", "sold"} /\ booked \in 0 .. hold.n

\* The loss that is measured is the session's own: what every arm but the overnight hold did to the
\* equity since the boundary, whenever the hold's sale is booked and whatever a restart loses
\* (risk.py:71-76, S14).
MeasuredIsTheSessions == Drawdown(start, equity, off) = Most(0, -today)

\* An entry that is approved fits, with what the dedicated controllers reserve, into what the session
\* itself left of the limit: if it is stopped out at its stop the session's loss is at most the limit.
\* Nothing is approved while the reservation cannot be read (risk.py:148-160).
ApprovedFitsTheDay ==
  \A r \in [exit : {FALSE}, swing : {FALSE}, fixed : BOOLEAN, lockout : {FALSE}, full : {FALSE}, crowded : {FALSE},
            large : {FALSE}, geometry : {"fits"}, dist : 1 .. 2, room : {3}, qty : 1 .. 2], res \in {0, 1, 2, Unreadable} :
    LET v == Verdict(r, res)
    IN v.qty > 0 => res # Unreadable /\ Most(0, -today) + res + v.qty * r.dist <= LimitOf(start)
=============================================================================
