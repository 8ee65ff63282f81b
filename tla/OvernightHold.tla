---------------------------- MODULE OvernightHold ----------------------------
(***************************************************************************)
(* One night of one stock: OvernightController buys near the close and     *)
(* sells at the next open.  Sources: core/overnight_execution.py,          *)
(* core/overnight_schedule.py, core/overnight_integration.py and, for the  *)
(* round trips, core/broker.py.                                            *)
(*                                                                         *)
(* tick() never blocks: it starts a job on a worker thread and reads the   *)
(* finished one at a later tick.  So a job is three kinds of step here:    *)
(* the loop starts it with what it sees, the worker asks Alpaca (and asks  *)
(* again, and sends), the loop collects it under a clock and settings that *)
(* have moved on.  An order is POSTed under a client id made from the      *)
(* night and the attempt number, so attempt k of the buy is alpaca.buy[k]. *)
(* ctl is what the checkpoint holds of the night: the controller's state   *)
(* and the shares of the hold in ADT's book; saved is the last checkpoint. *)
(*                                                                         *)
(* now runs through the times of overnight_schedule.py that a decision     *)
(* compares with, from the gates at 15:46:05 to after 09:31 the next       *)
(* session.  Sizing, the early close of a day trade (X6), the calendar     *)
(* cross check of the sale date and a confirmed symbol change are left     *)
(* out.  faults bounds what goes wrong: failed reads, refusals, lost       *)
(* answers, failed saves, cancels by hand, changes of the holding, crashes.*)
(*                                                                         *)
(* An operator whose comment starts with "Fault:" is not part of the model *)
(* but a plausible bug in the definition after it.                         *)
(***************************************************************************)
EXTENDS Integers, Sequences, FiniteSets, Functions

CONSTANTS
  Nights,      \* what a night may be: the shares it wants and how its first buy is sent,
               \* as a "day" market order (production) or into the closing auction, "cls"
  MaxBuys,     \* bound: attempts of the buy
  MaxSells,    \* bound: attempts of the sale
  MaxFaults,   \* bound: things that go wrong
  Unrelated    \* TRUE: the position compare may report a mismatch of another stock

\* 15:46:05, 15:49:30, 15:59:30, 15:59:55, 16:00:05, 16:05 of the buy day, 19:00:30,
\* and 09:00, 09:27:30 (the auction is at 09:30), 09:31 of the sale day.
GATES == 1   GIVE_UP == 2   FALLBACK == 3   FALLBACK_END == 4   CLOSED == 5   STUCK == 6
QUEUE == 7   MORNING == 8   REPLACED == 9   OPEN == 10
Moments == GATES .. OPEN

VARIABLES
  now,       \* the moment on the clock
  live,      \* OVERNIGHT_MODE is live (read at startup)
  night,     \* the night: its size at the gates and buy_tif
  mismatch,  \* broker_state["mismatch"]
  ctl,       \* the night, its attempts and the hold in ADT's book
  ready,     \* _market_ready: the preflight of the market buy passed (not saved)
  saved,     \* ctl as of the last checkpoint
  jobs,      \* _jobs: the work handed to the threads, by key
  read,      \* the attempt a position refresh has read and not yet applied
  up,        \* the process runs
  alpaca,    \* the orders Alpaca knows, by side and attempt
  shares,    \* the shares Alpaca holds
  corp,      \* the corporate action of the night, if any
  faults     \* how much went wrong so far

vars == <<now, live, night, mismatch, ctl, ready, saved, jobs, read, up, alpaca, shares, corp, faults>>
setting == <<now, live, night, up>>
broker  == <<alpaca, shares, corp>>

-----------------------------------------------------------------------------
(* Types                                                                   *)

Sides == {"buy", "sell"}
Tries(side) == 1 .. (IF side = "buy" THEN MaxBuys ELSE MaxSells)
Tifs == {"day", "cls", "opg"}

Attempt == [oid : Nat, tif : Tifs, qty : Nat, sent : BOOLEAN, final : BOOLEAN, cancel : BOOLEAN,
            fallback : BOOLEAN,
            status : {"intent", "known", "refused", "rejected", "not_found", "not_sent"}]

Order == [st : {"none", "wire", "open", "filled", "canceled", "rejected"}, tif : Tifs, qty : Nat,
          filled : Nat]

BuyStates  == {"IDLE", "INTENT", "BUY_SENT"}
HoldStates == {"HELD", "SALE_QUEUED"}

Ctl == [state : BuyStates \cup HoldStates \cup {"BUY_ACCEPTED", "SOLD", "SKIPPED"},
        released : BOOLEAN, late_check : BOOLEAN, fallback_buy : BOOLEAN, no_buy : BOOLEAN,
        needs_look : BOOLEAN, frozen : BOOLEAN, morning_checked : BOOLEAN,
        mode : {"opg", "market"}, held : Nat, leg : Nat, sold : Nat, book : Nat,
        buy : Seq(Attempt), sell : Seq(Attempt),
        booked : [buy : [Tries("buy") -> Nat], sell : [Tries("sell") -> Nat]]]

Row   == [oid : Nat, st : {"none", "open", "filled", "canceled", "rejected"}, filled : Nat]
NoRow == [oid |-> 0, st |-> "none", filled |-> 0]

Keys  == {"gates", "preflight", "buy", "buypoll", "buycancel", "late", "sell", "sellpoll", "morning",
          "release"}
Job   == [stage : {"none", "lookup", "check", "post", "late", "done"}, k : Nat, go : BOOLEAN,
          res : {"", "ok", "error", "row", "refused", "short", "lost", "duplicate", "blocked", "sent_late",
                 "no_shares", "skip"},
          row : Row, n : Int, act : {"none", "split", "merger"}]
NoJob == [stage |-> "none", k |-> 0, go |-> FALSE, res |-> "", row |-> NoRow, n |-> 0, act |-> "none"]

NoRead == [side |-> "none", k |-> 0, row |-> NoRow]

TypeOK ==
  /\ now \in Moments /\ faults \in 0 .. MaxFaults
  /\ {live, mismatch, up, ready} \subseteq BOOLEAN
  /\ night \in Nights
  /\ ctl \in Ctl /\ saved \in Ctl
  /\ Len(ctl.buy) <= MaxBuys /\ Len(ctl.sell) <= MaxSells
  /\ jobs \in [Keys -> Job]
  /\ read.side \in Sides \cup {"none"} /\ read.row \in Row
  /\ \A s \in Sides : alpaca[s] \in [Tries(s) -> Order]
  /\ shares \in Int /\ corp \in {"none", "split", "merger"}

-----------------------------------------------------------------------------
(* Helpers                                                                 *)

End(s)        == s[Len(s)]
SetEnd(s, a)  == [s EXCEPT ![Len(s)] = a]
HasLive(s)    == s # <<>> /\ ~End(s).final
Terminal(r)   == r.st \in {"filled", "canceled", "rejected"}
Smaller(a, b) == IF a <= b THEN a ELSE b
Fails         == faults < MaxFaults /\ faults' = faults + 1
Unfaulty      == UNCHANGED faults
Idle(key)     == jobs[key].stage = "none"
Done(key)     == jobs[key].stage = "done"

(* One round trip to Alpaca by client id or, once it is known, by order id *)
RowOf(side, k) ==
  IF k = 0 \/ alpaca[side][k].st \in {"none", "wire"} THEN NoRow
  ELSE [oid |-> k, st |-> alpaca[side][k].st, filled |-> alpaca[side][k].filled]
Target(att, k) == IF att.oid # 0 THEN att.oid ELSE k

OpenAt(side)  == {k \in Tries(side) : alpaca[side][k].st = "open"}
FlatAtAlpaca  == shares = 0 /\ OpenAt("buy") = {} /\ OpenAt("sell") = {}
Reserved      == SumFunctionOnSet([k \in Tries("sell") |-> alpaca.sell[k].qty - alpaca.sell[k].filled],
                                  OpenAt("sell"))

NewAttempt(t, q, fb) == [oid |-> 0, tif |-> t, qty |-> q, sent |-> FALSE, final |-> FALSE,
                         cancel |-> FALSE, fallback |-> fb, status |-> "intent"]

(* Fault: state and reason swapped                                         *)
SkipSwapped(c) == [c EXCEPT !.state = "MISSED_BUY_WINDOW", !.released = TRUE]

(* _skip releases the stock                                                *)
Skip(c) == [c EXCEPT !.state = "SKIPPED", !.released = TRUE]

(* Fault: a finished order is booked with what it was for                  *)
BookOrdered(c, side, row) ==
  LET total == IF Terminal(row) THEN End(c[side]).qty ELSE row.filled
      delta == total - c.booked[side][row.oid] IN
  IF side = "buy"
  THEN [c EXCEPT !.booked.buy[row.oid] = total, !.held = @ + delta, !.book = @ + delta]
  ELSE [c EXCEPT !.booked.sell[row.oid] = total, !.sold = @ + delta]

(* Fault: what an order filled before is booked again                      *)
BookFillsTwice(c, side, row) ==
  LET delta == row.filled IN
  IF delta = 0 THEN c
  ELSE IF side = "buy"
  THEN [c EXCEPT !.booked.buy[row.oid] = row.filled, !.held = @ + delta, !.book = @ + delta]
  ELSE [c EXCEPT !.booked.sell[row.oid] = row.filled, !.sold = @ + delta,
                 !.book = IF delta <= @ THEN @ - delta ELSE @]

(* Book what an order filled since the last read.  ADT's ledger refuses a  *)
(* sale larger than the hold it has; the controller records it all the same*)
BookFills(c, side, row) ==
  LET delta == row.filled - c.booked[side][row.oid] IN
  IF delta <= 0 THEN [c EXCEPT !.needs_look = @ \/ delta < 0]
  ELSE IF side = "buy"
  THEN [c EXCEPT !.booked.buy[row.oid] = row.filled, !.held = @ + delta, !.book = @ + delta]
  ELSE [c EXCEPT !.booked.sell[row.oid] = row.filled, !.sold = @ + delta,
                 !.book = IF delta <= @ THEN @ - delta ELSE @,
                 !.needs_look = @ \/ delta > c.book]

ApplyBuyRow(c, row) ==
  LET a == [End(c.buy) EXCEPT !.oid = row.oid, !.status = IF row.st = "rejected" THEN @ ELSE "known"]
      b == BookFills([c EXCEPT !.buy = SetEnd(@, a)], "buy", row)
      f == [b EXCEPT !.buy = SetEnd(@, [a EXCEPT !.final = TRUE, !.status = "known"])]
  IN CASE ~Terminal(row) -> [b EXCEPT !.state = "BUY_ACCEPTED"]
       [] Terminal(row) /\ b.held > 0 ->
            [f EXCEPT !.state = "HELD", !.leg = b.held, !.sold = 0, !.mode = "opg", !.sell = <<>>]
       [] Terminal(row) /\ b.held = 0 /\ row.st = "rejected" /\ a.tif = "cls" /\ now < FALLBACK ->
            [f EXCEPT !.state = "IDLE", !.fallback_buy = TRUE]
       [] OTHER -> Skip(f)

ApplySaleRow(c, row) ==
  LET a == [End(c.sell) EXCEPT !.oid = row.oid, !.status = "known", !.sent = TRUE, !.final = @ \/ Terminal(row)]
  IN BookFills([c EXCEPT !.sell = SetEnd(@, a)], "sell", row)

(* The end of _step_sale                                                   *)
SaleState(c) ==
  [c EXCEPT !.state = IF HasLive(c.sell) THEN "SALE_QUEUED"
                      ELSE IF c.sold >= c.leg THEN "SOLD" ELSE "HELD"]

(* A tick that changed anything ends with a checkpoint, best effort.       *)
Commit(c) ==
  /\ ctl' = c
  /\ \/ saved' = c /\ Unfaulty
     \/ c # ctl /\ UNCHANGED saved /\ Fails

(* The row is known, but the session of the day it filled on has not begun *)
(* (its boundary is incomplete): the booking raises before anything of it  *)
(* is recorded, what was left of the step is not done, and a later read    *)
(* books it.                                                               *)
Noted(c, side, row) ==
  [c EXCEPT ![side] = SetEnd(@, [End(@) EXCEPT !.oid = row.oid, !.status = "known",
                                               !.sent = @ \/ side = "sell"])]
BookingWaits(c, side, row) ==
  row.filled > c.booked[side][row.oid] /\ ctl' = Noted(c, side, row) /\ Fails

(* What a row does to the night in _step; a tick saves what it noted, too  *)
TakeBuyRow(c, row) ==
  \/ Commit(ApplyBuyRow(c, row))
  \/ BookingWaits(c, "buy", row) /\ saved' = ctl'
TakeSaleRow(c, row) ==
  \/ Commit(SaleState(ApplySaleRow(c, row)))
  \/ BookingWaits(c, "sell", row) /\ saved' = ctl'

(* A change that is kept only when the checkpoint was written              *)
CommitOrUndo(c) ==
  \/ ctl' = c /\ saved' = c /\ Unfaulty
  \/ UNCHANGED <<ctl, saved>> /\ Fails

Collect(key)  == jobs' = [jobs EXCEPT ![key] = NoJob]
Submit(key, k, go) == jobs' = [jobs EXCEPT ![key] = [NoJob EXCEPT !.stage = "lookup", !.k = k, !.go = go]]
Answer(key, r, row) == jobs' = [jobs EXCEPT ![key].stage = "done", ![key].res = r, ![key].row = row]

NoCtl == [state |-> "IDLE", released |-> FALSE, late_check |-> FALSE, fallback_buy |-> FALSE,
          no_buy |-> FALSE, needs_look |-> FALSE, frozen |-> FALSE, morning_checked |-> FALSE,
          mode |-> "opg", held |-> 0, leg |-> 0, sold |-> 0, book |-> 0, buy |-> <<>>, sell |-> <<>>,
          booked |-> [buy |-> [k \in Tries("buy") |-> 0], sell |-> [k \in Tries("sell") |-> 0]]]

NoOrder == [st |-> "none", tif |-> "day", qty |-> 0, filled |-> 0]

Init ==
  /\ now = GATES /\ live = TRUE /\ night \in Nights /\ mismatch = FALSE
  /\ ctl = NoCtl /\ ready = FALSE /\ saved = NoCtl
  /\ jobs = [key \in Keys |-> NoJob] /\ read = NoRead /\ up = TRUE
  /\ alpaca = [buy |-> [k \in Tries("buy") |-> NoOrder], sell |-> [k \in Tries("sell") |-> NoOrder]]
  /\ shares = 0 /\ corp = "none" /\ faults = 0

-----------------------------------------------------------------------------
(* The buy                                                                 *)

Att       == End(ctl.buy)
Buying    == up /\ ctl.state \in BuyStates
FinalGate == ~live \/ ctl.no_buy
SendAllowed(t) ==
  live /\ ~ctl.no_buy /\ ~mismatch /\ now = (IF t = "cls" THEN GATES ELSE FALLBACK)
Unsent(a) == ~a.sent /\ a.tif = "day"

SkipBuy ==
  /\ Buying /\ ~HasLive(ctl.buy)
  /\ \/ FinalGate
     \/ now >= GIVE_UP /\ ~ctl.fallback_buy
     \/ now >= FALLBACK_END
  /\ Commit(Skip(ctl))
  /\ UNCHANGED <<setting, mismatch, ready, jobs, read, broker>>

(* _local_gates passed and the other gates are to be read                  *)
AtGates == Buying /\ ~HasLive(ctl.buy) /\ ~FinalGate /\ ~ctl.fallback_buy /\ now = GATES /\ ~mismatch

StartGates ==
  /\ AtGates /\ Idle("gates") /\ Len(ctl.buy) < MaxBuys
  /\ Submit("gates", 0, FALSE)
  /\ UNCHANGED <<setting, mismatch, ctl, ready, saved, read, broker, faults>>

WorkGates ==
  /\ up /\ jobs["gates"].stage = "lookup"
  /\ \/ FlatAtAlpaca /\ Answer("gates", "ok", NoRow) /\ Unfaulty
     \/ ~FlatAtAlpaca /\ Answer("gates", "blocked", NoRow) /\ Unfaulty
     \/ \E r \in {"error", "skip"} : Answer("gates", r, NoRow) /\ Fails
  /\ UNCHANGED <<setting, mismatch, ctl, ready, saved, read, broker>>

(* Fault: the buy goes out with its intent only in memory *)
NewBuyAttemptUnsaved ==
  LET a == [NewAttempt(night.tif, night.qty, FALSE) EXCEPT !.sent = TRUE]
  IN /\ ctl' = [ctl EXCEPT !.state = "BUY_SENT", !.buy = Append(@, a)] /\ UNCHANGED saved /\ Fails
     /\ jobs' = [jobs EXCEPT !["gates"] = NoJob,
                             !["buy"] = [NoJob EXCEPT !.stage = "lookup", !.k = Len(ctl.buy) + 1, !.go = TRUE]]

(* _new_buy_attempt: the intent is saved first or taken back; a closing    *)
(* auction order is on its way at once, a market order waits               *)
NewBuyAttempt ==
  LET intent == [ctl EXCEPT !.state = "INTENT", !.buy = Append(@, NewAttempt(night.tif, night.qty, FALSE))]
      sent   == [intent EXCEPT !.state = "BUY_SENT", !.buy = SetEnd(@, [End(@) EXCEPT !.sent = TRUE])]
  IN \/ night.tif = "day" /\ ctl' = intent /\ saved' = intent /\ Unfaulty /\ Collect("gates")
     \/ /\ night.tif = "cls" /\ ctl' = sent
        /\ \/ saved' = sent /\ Unfaulty
           \/ saved' = intent /\ Fails
        /\ jobs' = [jobs EXCEPT !["gates"] = NoJob,
                                !["buy"] = [NoJob EXCEPT !.stage = "lookup", !.k = Len(sent.buy), !.go = TRUE]]
     \/ UNCHANGED <<ctl, saved>> /\ Fails /\ Collect("gates")

CollectGates ==
  /\ AtGates /\ Done("gates")
  /\ \/ jobs["gates"].res = "ok" /\ NewBuyAttempt
     \/ jobs["gates"].res = "skip" /\ Commit(Skip(ctl)) /\ Collect("gates")
     \/ /\ jobs["gates"].res \in {"error", "blocked"} /\ Collect("gates")
        /\ UNCHANGED <<ctl, saved, faults>>
  /\ UNCHANGED <<setting, mismatch, ready, read, broker>>

(* _fallback_buy, after a closing auction order was refused for good       *)
FallbackBuy ==
  /\ Buying /\ ~HasLive(ctl.buy) /\ ~FinalGate /\ ctl.fallback_buy /\ now = FALLBACK
  /\ Len(ctl.buy) < MaxBuys
  /\ CommitOrUndo([ctl EXCEPT !.state = "INTENT", !.buy = Append(@, NewAttempt("day", night.qty, FALSE))])
  /\ UNCHANGED <<setting, mismatch, ready, jobs, read, broker>>

(* _market_preflight, from 15:59:20                                        *)
AtPreflight ==
  Buying /\ HasLive(ctl.buy) /\ Unsent(Att) /\ ~ready /\ now \in {GIVE_UP, FALLBACK}

StartPreflight ==
  /\ AtPreflight /\ Idle("preflight")
  /\ Submit("preflight", Len(ctl.buy), FALSE)
  /\ UNCHANGED <<setting, mismatch, ctl, ready, saved, read, broker, faults>>

WorkPreflight ==
  /\ up /\ jobs["preflight"].stage = "lookup"
  /\ LET row == RowOf("buy", Target(Att, jobs["preflight"].k)) IN
     \/ row # NoRow /\ Answer("preflight", "row", row) /\ Unfaulty
     \/ row = NoRow /\ FlatAtAlpaca /\ Answer("preflight", "ok", NoRow) /\ Unfaulty
     \/ row = NoRow /\ ~FlatAtAlpaca /\ Answer("preflight", "blocked", NoRow) /\ Unfaulty
     \/ Answer("preflight", "error", NoRow) /\ Fails
  /\ UNCHANGED <<setting, mismatch, ctl, ready, saved, read, broker>>

CollectPreflight ==
  /\ AtPreflight /\ Done("preflight") /\ Collect("preflight")
  /\ \/ /\ jobs["preflight"].res = "row" /\ UNCHANGED ready
        /\ \/ Commit(ApplyBuyRow(ctl, jobs["preflight"].row))
           \/ BookingWaits(ctl, "buy", jobs["preflight"].row) /\ UNCHANGED saved
     \/ jobs["preflight"].res \in {"error", "blocked"} /\ UNCHANGED <<ctl, saved, faults, ready>>
     \/ /\ jobs["preflight"].res = "ok"
        /\ \/ \E q \in {0, night.qty} :
                /\ ctl' = [ctl EXCEPT !.buy = SetEnd(@, [Att EXCEPT !.qty = q])]
                /\ saved' = ctl' /\ ready' = (q > 0) /\ Unfaulty
           \/ UNCHANGED <<ctl, saved, ready>> /\ Fails
  /\ UNCHANGED <<setting, mismatch, read, broker>>

(* A market buy not sent yet is given up without asking Alpaca             *)
GiveUpUnsent ==
  /\ Buying /\ HasLive(ctl.buy) /\ Unsent(Att)
  /\ FinalGate \/ (mismatch /\ now >= FALLBACK_END)
  /\ Commit(Skip([ctl EXCEPT !.buy = SetEnd(@, [Att EXCEPT !.final = TRUE, !.status = "not_sent"])]))
  /\ UNCHANGED <<setting, mismatch, ready, jobs, read, broker>>

(* _step_buy comes to _buy_attempt_io                                      *)
AtBuyIO ==
  /\ Buying /\ HasLive(ctl.buy)
  /\ \/ ~Unsent(Att)
     \/ ~FinalGate /\ ~mismatch /\ (now >= FALLBACK_END \/ (now = FALLBACK /\ ready))

StartBuy ==
  /\ AtBuyIO /\ Idle("buy")
  /\ Submit("buy", Len(ctl.buy), SendAllowed(Att.tif))
  /\ IF SendAllowed(Att.tif)
     THEN Commit([ctl EXCEPT !.state = "BUY_SENT", !.buy = SetEnd(@, [Att EXCEPT !.sent = TRUE])])
     ELSE UNCHANGED <<ctl, saved, faults>>
  /\ UNCHANGED <<setting, mismatch, ready, read, broker>>

(* The worker looks the id up before it may send *)
LookupBuy ==
  /\ up /\ jobs["buy"].stage = "lookup"
  /\ LET j == jobs["buy"]  row == RowOf("buy", Target(Att, j.k)) IN
     \/ row # NoRow /\ Answer("buy", "row", row) /\ Unfaulty
     \/ row = NoRow /\ ~j.go /\ Answer("buy", "row", NoRow) /\ Unfaulty
     \/ row = NoRow /\ j.go /\ jobs' = [jobs EXCEPT !["buy"].stage = "check"] /\ Unfaulty
     \/ Answer("buy", "error", NoRow) /\ Fails
  /\ UNCHANGED <<setting, mismatch, ctl, ready, saved, read, broker>>

(* ... asks again whether it may, at its own time ...                      *)
CheckBuy ==
  /\ up /\ jobs["buy"].stage = "check"
  /\ LET t == ctl.buy[jobs["buy"].k].tif IN
     \/ ~SendAllowed(t) /\ mismatch /\ Answer("buy", "blocked", NoRow) /\ Unfaulty
     \/ ~SendAllowed(t) /\ ~mismatch /\ Answer("buy", "row", NoRow) /\ Unfaulty
     \/ SendAllowed(t) /\ t = "day" /\ ~FlatAtAlpaca /\ Answer("buy", "blocked", NoRow) /\ Unfaulty
     \/ SendAllowed(t) /\ t = "day" /\ Answer("buy", "blocked", NoRow) /\ Fails
     \/ SendAllowed(t) /\ (t = "day" => FlatAtAlpaca) /\ Unfaulty
        /\ jobs' = [jobs EXCEPT !["buy"].stage = "post"]
  /\ UNCHANGED <<setting, mismatch, ctl, ready, saved, read, broker>>

(* _sale_window *)
Window == IF now < QUEUE \/ now = REPLACED THEN "none" ELSE IF now < REPLACED THEN "queue" ELSE "fallback"

(* Alpaca and one POST: an id it knows is refused as a duplicate; a lost   *)
(* answer leaves the order open, in the network or nowhere.                *)
Accepts(side, t, q) ==
  IF side = "buy" THEN t = "cls" => now = GATES
  ELSE /\ corp # "merger"
       /\ t = "opg" => now \in {QUEUE, MORNING}
       /\ q <= shares - Reserved \/ (shares = 0 /\ Reserved = 0)

(* An order delayed in the network is one sent in time (Tick below)        *)
InNetwork(side) == IF (side = "buy" /\ now < CLOSED) \/ (side = "sell" /\ Window # "none") THEN {"wire"} ELSE {}

Post(key, side, k, t, q) ==
  LET put(st) == alpaca' = [alpaca EXCEPT ![side][k] = [st |-> st, tif |-> t, qty |-> q, filled |-> 0]]
      known   == [oid |-> k, st |-> "open", filled |-> 0]
  IN /\ alpaca[side][k].st # "wire"
     /\ IF alpaca[side][k].st # "none"
        THEN Answer(key, "duplicate", NoRow) /\ Unfaulty /\ UNCHANGED alpaca
        ELSE IF ~Accepts(side, t, q)
        THEN Answer(key, "refused", NoRow) /\ Unfaulty /\ UNCHANGED alpaca
        ELSE \/ /\ jobs' = [jobs EXCEPT ![key].res = "row", ![key].row = known,
                       ![key].stage = IF side = "buy" /\ t = "day" /\ now >= CLOSED THEN "late" ELSE "done"]
                /\ put("open") /\ Unfaulty
             \/ \E r \in {"refused", "short"} : Answer(key, r, NoRow) /\ UNCHANGED alpaca /\ Fails
             \/ \E st \in {"none", "open"} \cup InNetwork(side) : Answer(key, "lost", NoRow) /\ put(st) /\ Fails

(* Fault: a lost answer counts as a refusal that passes *)
ClassifiedLostAsShort(res) == IF res = "duplicate" THEN "ambiguous" ELSE IF res = "lost" THEN "short" ELSE res

(* classify_refusal: what may have reached Alpaca proves nothing           *)
Classified(res) == IF res \in {"lost", "duplicate"} THEN "ambiguous" ELSE res

(* ... and sends.  What was sent after the close is cancelled at once.     *)
PostBuy ==
  /\ up /\ jobs["buy"].stage = "post"
  /\ LET k == jobs["buy"].k IN Post("buy", "buy", k, ctl.buy[k].tif, ctl.buy[k].qty)
  /\ UNCHANGED <<setting, mismatch, ctl, ready, saved, read, shares, corp>>

(* cancel_order_and_confirm: the row after the cancel, a row still open    *)
(* when Alpaca never confirmed, or an exception when it could not be read, *)
(* which the late send answers with the row it had                         *)
CancelAtAlpaca(key, side, k, r) ==
  LET gone == [alpaca EXCEPT ![side][k].st = "canceled"]
      row  == RowOf(side, k)
  IN IF alpaca[side][k].st # "open"
     THEN Answer(key, r, row) /\ Unfaulty /\ UNCHANGED alpaca
     ELSE \/ Answer(key, r, [row EXCEPT !.st = "canceled"]) /\ alpaca' = gone /\ Unfaulty
          \/ Answer(key, r, row) /\ UNCHANGED alpaca /\ Fails
          \/ /\ IF r = "row" THEN Answer(key, "error", NoRow) ELSE Answer(key, r, row)
             /\ alpaca' \in {alpaca, gone} /\ Fails

CancelLateBuy ==
  /\ up /\ jobs["buy"].stage = "late"
  /\ CancelAtAlpaca("buy", "buy", jobs["buy"].k, "sent_late")
  /\ UNCHANGED <<setting, mismatch, ctl, ready, saved, read, shares, corp>>

CollectBuy ==
  /\ AtBuyIO /\ Done("buy") /\ Collect("buy")
  /\ LET j == jobs["buy"]
         kind == Classified(j.res)
         over(status) == [ctl EXCEPT !.buy = SetEnd(@, [Att EXCEPT !.final = TRUE, !.status = status])]
     IN \/ kind \in {"error", "ambiguous"} /\ UNCHANGED <<ctl, saved, faults>>
        \/ kind = "short" /\ Commit([over("refused") EXCEPT !.state = "IDLE"])
        \/ /\ kind = "refused" /\ Att.tif = "cls"
           /\ Commit([over("refused") EXCEPT !.state = "IDLE", !.fallback_buy = TRUE])
        \/ kind = "refused" /\ Att.tif = "day" /\ Commit(Skip(over("refused")))
        \/ /\ j.res = "blocked"
           /\ Commit([ctl EXCEPT !.state = "INTENT", !.buy = SetEnd(@, [Att EXCEPT !.sent = FALSE])])
        \/ j.res = "row" /\ j.row = NoRow /\ Commit(Skip([over("not_found") EXCEPT !.late_check = TRUE]))
        \/ j.res = "row" /\ j.row # NoRow /\ TakeBuyRow(ctl, j.row)
        \/ /\ j.res = "sent_late"
           /\ TakeBuyRow([ctl EXCEPT !.buy = SetEnd(@, [Att EXCEPT !.cancel = TRUE])], j.row)
  /\ UNCHANGED <<setting, mismatch, ready, read, broker>>

(* Fault: nothing but a request cancels it *)
WantsCancelOnRequest(a) == a.cancel \/ (a.tif = "cls" /\ ctl.no_buy)

(* BUY_ACCEPTED: poll the order, or cancel it when it must not fill any more *)
WantsCancel(a) ==
  a.cancel \/ (a.tif = "day" /\ now >= CLOSED) \/ (a.tif = "cls" /\ ctl.no_buy) \/ now >= STUCK
BuyKey == IF WantsCancel(Att) THEN "buycancel" ELSE "buypoll"
Accepted == up /\ ctl.state = "BUY_ACCEPTED"

StartBuyRead ==
  /\ Accepted /\ Idle(BuyKey)
  /\ WantsCancel(Att) \/ Att.tif = "day" \/ now >= CLOSED
  /\ Submit(BuyKey, Att.oid, WantsCancel(Att))
  /\ Commit([ctl EXCEPT !.buy = SetEnd(@, [Att EXCEPT !.cancel = WantsCancel(Att)])])
  /\ UNCHANGED <<setting, mismatch, ready, read, broker>>

CollectBuyRead ==
  /\ Accepted /\ Done(BuyKey) /\ Collect(BuyKey)
  /\ IF jobs[BuyKey].res = "error" THEN UNCHANGED <<ctl, saved, faults>>
     ELSE TakeBuyRow([ctl EXCEPT !.buy = SetEnd(@, [Att EXCEPT !.cancel = WantsCancel(Att)])],
                     jobs[BuyKey].row)
  /\ UNCHANGED <<setting, mismatch, ready, read, broker>>

(* _late_check: an id given up after a lookup found nothing is looked up   *)
(* once more after the close                                               *)
AtLateCheck == up /\ ctl.state = "SKIPPED" /\ ctl.late_check /\ now >= CLOSED

StartLateCheck ==
  /\ AtLateCheck /\ Idle("late") /\ Submit("late", Len(ctl.buy), FALSE)
  /\ UNCHANGED <<setting, mismatch, ctl, ready, saved, read, broker, faults>>

CollectLateCheck ==
  /\ AtLateCheck /\ Done("late") /\ Collect("late")
  /\ LET found == [ctl EXCEPT !.late_check = FALSE, !.released = FALSE, !.needs_look = TRUE,
                              !.buy = SetEnd(@, [Att EXCEPT !.final = FALSE])]
     IN IF jobs["late"].res = "error" THEN UNCHANGED <<ctl, saved, faults>>
        ELSE IF jobs["late"].row = NoRow THEN Commit([ctl EXCEPT !.late_check = FALSE])
        ELSE TakeBuyRow(found, jobs["late"].row)
  /\ UNCHANGED <<setting, mismatch, ready, read, broker>>

(* Polls and cancels on the worker, for the buy and the sale               *)
SideOf(key) == IF key = "sellpoll" THEN "sell" ELSE "buy"

WorkRead(key) ==
  /\ up /\ jobs[key].stage = "lookup"
  /\ IF jobs[key].go THEN CancelAtAlpaca(key, SideOf(key), jobs[key].k, "row")
     ELSE /\ UNCHANGED alpaca
          /\ \/ Answer(key, "row", RowOf(SideOf(key), jobs[key].k)) /\ Unfaulty
             \/ Answer(key, "error", NoRow) /\ Fails
  /\ UNCHANGED <<setting, mismatch, ctl, ready, saved, read, shares, corp>>

-----------------------------------------------------------------------------
(* The sale                                                                *)

Sale    == End(ctl.sell)
Holding == up /\ ctl.state \in HoldStates
AtLeg   == Holding /\ (ctl.morning_checked \/ now < MORNING)

(* Fault: OVERNIGHT_MODE off and a mismatch stop sales too *)
SaleAllowedIfLive(a) ==
  Window = (IF a.fallback THEN "fallback" ELSE "queue") /\ ~ctl.frozen /\ ctl.leg > ctl.sold /\ live /\ ~mismatch

SaleAllowed(a) ==
  Window = (IF a.fallback THEN "fallback" ELSE "queue") /\ ~ctl.frozen /\ ctl.leg > ctl.sold

(* The attempts that may be made before 09:31 leave two for after it.      *)
RoomForSale == Len(ctl.sell) < (IF now = OPEN THEN MaxSells ELSE MaxSells - 2)

(* Start the job of attempt a unless one under its key is still about      *)
SaleJob(k, a) == IF Idle("sell") THEN Submit("sell", k, SaleAllowed(a)) ELSE UNCHANGED jobs

NewSale ==
  /\ AtLeg /\ ~HasLive(ctl.sell) /\ ~ctl.frozen /\ ctl.leg > ctl.sold /\ Window # "none" /\ RoomForSale
  /\ LET t == IF Window = "queue" /\ ctl.mode = "opg" THEN "opg" ELSE "day"
         a == [NewAttempt(t, ctl.leg - ctl.sold, Window = "fallback") EXCEPT !.sent = TRUE]
     IN /\ Commit(SaleState([ctl EXCEPT !.sell = Append(@, a)]))
        /\ SaleJob(Len(ctl.sell) + 1, a)
  /\ UNCHANGED <<setting, mismatch, ready, read, broker>>

StartSale ==
  /\ AtLeg /\ HasLive(ctl.sell) /\ Sale.oid = 0 /\ Idle("sell")
  /\ SaleJob(Len(ctl.sell), Sale)
  /\ Commit(SaleState([ctl EXCEPT !.sell = SetEnd(@, [Sale EXCEPT !.sent = @ \/ SaleAllowed(Sale)])]))
  /\ UNCHANGED <<setting, mismatch, ready, read, broker>>

(* The worker looks the id up; after 09:31 it never sends more than Alpaca *)
(* holds and has not promised when it asks                                 *)
LookupSale ==
  /\ up /\ jobs["sell"].stage = "lookup"
  /\ LET j   == jobs["sell"]
         row == RowOf("sell", j.k)
         a   == ctl.sell[j.k]
         q   == IF a.fallback THEN Smaller(a.qty, shares - Reserved) ELSE a.qty
     IN \/ row # NoRow /\ Answer("sell", "row", row) /\ Unfaulty
        \/ row = NoRow /\ ~j.go /\ Answer("sell", "row", NoRow) /\ Unfaulty
        \/ row = NoRow /\ j.go /\ q < 1 /\ Answer("sell", "no_shares", NoRow) /\ Unfaulty
        \/ /\ row = NoRow /\ j.go /\ q >= 1 /\ Unfaulty
           /\ jobs' = [jobs EXCEPT !["sell"].stage = "post", !["sell"].n = q]
        \/ Answer("sell", "error", NoRow) /\ Fails
  /\ UNCHANGED <<setting, mismatch, ctl, ready, saved, read, broker>>

PostSale ==
  /\ up /\ jobs["sell"].stage = "post"
  /\ LET k == jobs["sell"].k IN Post("sell", "sell", k, ctl.sell[k].tif, jobs["sell"].n)
  /\ UNCHANGED <<setting, mismatch, ctl, ready, saved, read, shares, corp>>

CollectSale ==
  /\ AtLeg /\ HasLive(ctl.sell) /\ Sale.oid = 0 /\ Done("sell") /\ Collect("sell")
  /\ LET j == jobs["sell"]
         with(a) == [ctl EXCEPT !.sell = SetEnd(@, IF j.n = 0 THEN a ELSE [a EXCEPT !.qty = j.n])]
         refused == with([Sale EXCEPT !.final = TRUE, !.status = "refused"])
     IN \/ j.res = "error" /\ Commit(SaleState(ctl))
        \/ Classified(j.res) = "ambiguous" /\ Commit(SaleState(with(Sale)))
        \/ /\ j.res = "no_shares"
           /\ Commit(SaleState([ctl EXCEPT !.sell = SubSeq(@, 1, Len(@) - 1), !.needs_look = TRUE]))
        \/ /\ Classified(j.res) \in {"refused", "short"}
           /\ Commit(SaleState(IF Sale.tif = "opg" THEN [refused EXCEPT !.mode = "market"]
                               ELSE [refused EXCEPT !.needs_look = TRUE]))
        \/ /\ j.res = "row" /\ j.row = NoRow
           /\ Commit(SaleState(with([Sale EXCEPT !.final = TRUE, !.status = "not_found"])))
        \/ j.res = "row" /\ j.row # NoRow /\ TakeSaleRow(with(Sale), j.row)
  /\ UNCHANGED <<setting, mismatch, ready, read, broker>>

(* _poll_sale: an opening sale not filled by 09:31 is cancelled (X7)       *)
StopsSale == Sale.cancel \/ (Sale.tif = "opg" /\ now = OPEN)
AtPoll    == AtLeg /\ HasLive(ctl.sell) /\ Sale.oid # 0 /\ (StopsSale \/ now >= REPLACED)
Stopping  == [ctl EXCEPT !.sell = SetEnd(@, [Sale EXCEPT !.cancel = StopsSale])]

StartPoll ==
  /\ AtPoll /\ Idle("sellpoll")
  /\ Submit("sellpoll", Sale.oid, StopsSale)
  /\ Commit(SaleState(Stopping))
  /\ UNCHANGED <<setting, mismatch, ready, read, broker>>

CollectPoll ==
  /\ AtPoll /\ Done("sellpoll") /\ Collect("sellpoll")
  /\ IF jobs["sellpoll"].res = "error" THEN Commit(SaleState(Stopping))
     ELSE TakeSaleRow(Stopping, jobs["sellpoll"].row)
  /\ UNCHANGED <<setting, mismatch, ready, read, broker>>

(* _step_sale finds that every leg is sold                                 *)
SettleSale ==
  /\ AtLeg /\ SaleState(ctl) # ctl
  /\ Commit(SaleState(ctl))
  /\ UNCHANGED <<setting, mismatch, ready, jobs, read, broker>>

(* _morning_check at 09:00: Alpaca's shares against the hold               *)
AtMorning == Holding /\ ~ctl.morning_checked /\ now >= MORNING
LiveTry   == IF HasLive(ctl.sell) THEN Target(Sale, Len(ctl.sell)) ELSE 0

StartMorning ==
  /\ AtMorning /\ Idle("morning") /\ Submit("morning", LiveTry, FALSE)
  /\ UNCHANGED <<setting, mismatch, ctl, ready, saved, read, broker, faults>>

WorkMorning ==
  /\ up /\ jobs["morning"].stage = "lookup"
  /\ \/ /\ \E a \in {corp, "none"} :
             /\ a = corp \/ faults < MaxFaults
             /\ faults' = IF a = corp THEN faults ELSE faults + 1
             /\ jobs' = [jobs EXCEPT !["morning"].stage = "done", !["morning"].n = shares,
                                     !["morning"].res = IF a = corp THEN "ok" ELSE "blocked",
                                     !["morning"].act = a,
                                     !["morning"].row = RowOf("sell", jobs["morning"].k)]
     \/ Answer("morning", "error", NoRow) /\ Fails
  /\ UNCHANGED <<setting, mismatch, ctl, ready, saved, read, broker>>

CollectMorning ==
  /\ AtMorning /\ Done("morning") /\ Collect("morning")
  /\ LET j      == jobs["morning"]
         c      == IF j.row = NoRow THEN ctl ELSE ApplySaleRow(ctl, j.row)
         left   == c.leg - c.sold
         ok     == [c EXCEPT !.morning_checked = TRUE]
         stop(d)  == IF HasLive(d.sell) THEN [d EXCEPT !.sell = SetEnd(@, [End(@) EXCEPT !.cancel = TRUE])] ELSE d
         stopUnless(d, q) == IF HasLive(d.sell) /\ End(d.sell).qty # q THEN stop(d) ELSE d
         fewer  == [ok EXCEPT !.leg = c.sold + Smaller(left, j.n), !.needs_look = TRUE]
         split  == [ok EXCEPT !.held = j.n, !.leg = j.n, !.book = j.n]
     IN \/ j.row # NoRow /\ BookingWaits(ctl, "sell", j.row) /\ saved' = ctl'
        \/ IF j.res = "error"
           THEN Commit(IF now < REPLACED THEN ctl ELSE [ctl EXCEPT !.morning_checked = TRUE])
           ELSE IF j.n = left THEN Commit(stopUnless(ok, left))
           ELSE IF j.res = "blocked" /\ now < REPLACED THEN Commit(c)
           ELSE IF j.act = "split" /\ c.sold = 0 /\ j.n = 2 * left THEN Commit(stop(split))
           ELSE IF j.act = "merger" THEN Commit(stop([ok EXCEPT !.frozen = TRUE, !.needs_look = TRUE]))
           ELSE Commit(stopUnless(fewer, fewer.leg - fewer.sold))
  /\ UNCHANGED <<setting, mismatch, ready, read, broker>>

(* _step_release: the stock goes back only when Alpaca and ADT's book are  *)
(* both flat                                                               *)
AtRelease == up /\ ctl.state = "SOLD" /\ ~ctl.released

StartRelease ==
  /\ AtRelease /\ Idle("release") /\ Submit("release", 0, FALSE)
  /\ UNCHANGED <<setting, mismatch, ctl, ready, saved, read, broker, faults>>

WorkRelease ==
  /\ up /\ jobs["release"].stage = "lookup"
  /\ \/ Answer("release", IF FlatAtAlpaca THEN "ok" ELSE "blocked", NoRow) /\ Unfaulty
     \/ Answer("release", "error", NoRow) /\ Fails
  /\ UNCHANGED <<setting, mismatch, ctl, ready, saved, read, broker>>

(* Fault: released on Alpaca's word alone *)
CollectReleaseOnAlpaca ==
  /\ AtRelease /\ Done("release") /\ Collect("release")
  /\ Commit(IF jobs["release"].res = "error" THEN ctl ELSE [ctl EXCEPT !.released = TRUE])
  /\ UNCHANGED <<setting, mismatch, ready, read, broker>>

CollectRelease ==
  /\ AtRelease /\ Done("release") /\ Collect("release")
  /\ Commit(IF jobs["release"].res = "error" THEN ctl
            ELSE IF jobs["release"].res = "ok" /\ ctl.book = 0 THEN [ctl EXCEPT !.released = TRUE]
            ELSE [ctl EXCEPT !.needs_look = TRUE])
  /\ UNCHANGED <<setting, mismatch, ready, read, broker>>

-----------------------------------------------------------------------------
(* Around the controller                                                   *)

(* set_no_buy_tonight and clear_no_buy_tonight, until 15:49:30             *)
NoBuyTonight ==
  /\ up /\ now = GATES
  /\ \/ ~ctl.no_buy /\ CommitOrUndo([ctl EXCEPT !.no_buy = TRUE])
     \/ ctl.no_buy /\ ctl.state # "SKIPPED" /\ CommitOrUndo([ctl EXCEPT !.no_buy = FALSE])
  /\ UNCHANGED <<setting, mismatch, ready, jobs, read, broker>>

(* Another handler's checkpoint saves the night as well                    *)
OtherCheckpoint ==
  /\ up /\ saved # ctl /\ saved' = ctl
  /\ UNCHANGED <<setting, mismatch, ctl, ready, jobs, read, broker, faults>>

(* The broker loop: read what the attempts did unless a job is about       *)
(* (pending_reads, fetch_reads), then book it unless a job was started     *)
(* meanwhile (apply_reads) and compare positions                           *)
NoJobs == \A key \in Keys \ {"preflight"} : Idle(key)
Refreshable(side) == ctl[side] # <<>> /\ ~End(ctl[side]).final /\ End(ctl[side]).sent

FetchReads ==
  /\ up /\ read = NoRead /\ NoJobs
  /\ \E side \in Sides :
       /\ Refreshable(side)
       /\ read' = [side |-> side, k |-> Len(ctl[side]),
                   row |-> RowOf(side, Target(End(ctl[side]), Len(ctl[side])))]
  /\ UNCHANGED <<setting, mismatch, ctl, ready, saved, jobs, broker, faults>>

Compare ==
  /\ up
  /\ LET s    == read.side
         news == read.row # NoRow /\ NoJobs /\ read.k = Len(ctl[s]) /\ HasLive(ctl[s])
         c    == IF ~news THEN ctl
                 ELSE IF s = "buy" THEN ApplyBuyRow(ctl, read.row) ELSE ApplySaleRow(ctl, read.row)
     IN \/ Commit(c)
        \/ news /\ BookingWaits(ctl, s, read.row) /\ UNCHANGED saved
  /\ \E differs \in {shares # ctl'.book, Unrelated \/ shares # ctl'.book} :
       mismatch' = (ctl'.state \in BuyStates /\ differs)
  /\ read' = NoRead
  /\ UNCHANGED <<setting, ready, jobs, broker>>

Crash ==
  /\ up /\ Fails
  /\ up' = FALSE /\ jobs' = [key \in Keys |-> NoJob] /\ read' = NoRead
  /\ ready' = FALSE /\ mismatch' = FALSE
  /\ UNCHANGED <<now, live, night, ctl, saved, broker>>

(* Restore, then reconcile: every attempt not known final is looked up.    *)
(* The lookup may fail, and the process may have been down over the        *)
(* boundary of the fill's day.                                             *)
Found(c, side) == IF HasLive(c[side]) THEN RowOf(side, Target(End(c[side]), Len(c[side]))) ELSE NoRow

Reconciled(c) ==
  LET bought == IF Found(c, "buy") = NoRow THEN c ELSE ApplyBuyRow(c, Found(c, "buy"))
      sold   == IF Found(bought, "sell") = NoRow THEN bought ELSE ApplySaleRow(bought, Found(bought, "sell"))
  IN IF sold.state \in HoldStates /\ SaleState(sold).state = "SOLD" THEN SaleState(sold) ELSE sold

Waiting(c) ==
  {Noted(c, side, Found(c, side)) : side \in
     {s \in Sides : Found(c, s) # NoRow /\ Found(c, s).filled > c.booked[s][Found(c, s).oid]}}

Restart ==
  /\ ~up /\ up' = TRUE /\ live' \in BOOLEAN
  /\ ctl' \in {Reconciled(saved), saved} \cup Waiting(saved)
  /\ saved' = ctl'
  /\ UNCHANGED <<now, night, mismatch, ready, jobs, read, broker, faults>>

-----------------------------------------------------------------------------
(* Alpaca and the clock                                                    *)

Fillable(side, t) ==
  CASE side = "buy" /\ t = "cls" -> now = CLOSED
    [] side = "buy" /\ t # "cls" -> now \in {FALLBACK, FALLBACK_END} \/ now >= REPLACED
    [] side = "sell" /\ t = "opg" -> now = REPLACED
    [] side = "sell" /\ t # "opg" -> now >= REPLACED

AlpacaFills(side, k) ==
  /\ alpaca[side][k].st = "open" /\ Fillable(side, alpaca[side][k].tif)
  /\ LET o == alpaca[side][k] IN
       alpaca' = [alpaca EXCEPT ![side][k].filled = @ + 1,
                                ![side][k].st = IF o.filled + 1 = o.qty THEN "filled" ELSE "open"]
  /\ shares' = shares + (IF side = "buy" THEN 1 ELSE -1)
  /\ UNCHANGED <<setting, mismatch, ctl, ready, saved, jobs, read, corp, faults>>

AlpacaEnds(side, k) ==
  /\ alpaca[side][k].st = "open" /\ Fails
  /\ \E st \in {"canceled", "rejected"} :
       /\ st = "rejected" => alpaca[side][k].filled = 0
       /\ alpaca' = [alpaca EXCEPT ![side][k].st = st]
  /\ UNCHANGED <<setting, mismatch, ctl, ready, saved, jobs, read, shares, corp>>

(* A POST whose answer was lost reaches Alpaca after all, or never         *)
Resolves(side, k) ==
  /\ alpaca[side][k].st = "wire"
  /\ \E st \in {"open", "none"} : alpaca' = [alpaca EXCEPT ![side][k].st = st]
  /\ UNCHANGED <<setting, mismatch, ctl, ready, saved, jobs, read, shares, corp, faults>>

(* Overnight Alpaca's count can change without an order of ADT             *)
HoldingChanges ==
  /\ now \in {STUCK, QUEUE} /\ shares > 0 /\ corp = "none" /\ Fails
  /\ \A k \in Tries("buy") : alpaca.buy[k].st # "open"
  /\ \/ corp' = "split" /\ shares' = 2 * shares /\ UNCHANGED alpaca
     \/ /\ corp' = "merger" /\ shares' = 0
        /\ alpaca' = [alpaca EXCEPT !.sell = [k \in Tries("sell") |->
                        IF @[k].st = "open" THEN [@[k] EXCEPT !.st = "canceled"] ELSE @[k]]]
     \/ shares - Reserved > 1 /\ shares' = shares - 1 /\ UNCHANGED <<corp, alpaca>>
  /\ UNCHANGED <<setting, mismatch, ctl, ready, saved, jobs, read>>

(* A lost POST is in the network for seconds: a buy's is decided before    *)
(* the look after the close, a sale's before 09:28.                        *)
Tick ==
  /\ now < OPEN /\ now' = now + 1
  /\ now = FALLBACK_END => \A k \in Tries("buy") : alpaca.buy[k].st # "wire"
  /\ now = MORNING => \A k \in Tries("sell") : alpaca.sell[k].st # "wire"
  /\ UNCHANGED <<live, night, mismatch, ctl, ready, saved, jobs, read, up, broker, faults>>

Buys == \/ SkipBuy \/ StartGates \/ CollectGates \/ FallbackBuy \/ StartPreflight \/ CollectPreflight
        \/ GiveUpUnsent \/ StartBuy \/ CollectBuy \/ StartBuyRead \/ CollectBuyRead
        \/ StartLateCheck \/ CollectLateCheck
Sells == \/ NewSale \/ StartSale \/ CollectSale \/ StartPoll \/ CollectPoll \/ SettleSale
         \/ StartMorning \/ CollectMorning \/ StartRelease \/ CollectRelease
Workers == \/ WorkGates \/ WorkPreflight \/ LookupBuy \/ CheckBuy \/ PostBuy \/ CancelLateBuy
           \/ LookupSale \/ PostSale \/ WorkMorning \/ WorkRelease
           \/ \E key \in {"buypoll", "buycancel", "late", "sellpoll"} : WorkRead(key)
Fills == \E side \in Sides : \E k \in Tries(side) : AlpacaFills(side, k)
Settles == \E side \in Sides : \E k \in Tries(side) : Resolves(side, k)

Next == \/ Buys \/ Sells \/ Workers \/ Fills \/ Settles \/ Tick
        \/ NoBuyTonight \/ OtherCheckpoint \/ FetchReads \/ Compare \/ Crash \/ Restart
        \/ \E side \in Sides : \E k \in Tries(side) : AlpacaEnds(side, k)
        \/ HoldingChanges

Spec == Init /\ [][Next]_vars

-----------------------------------------------------------------------------
(* Properties                                                              *)

OrdersOf(side) == {k \in Tries(side) : alpaca[side][k].st # "none"}
AtWork(side)   == {k \in Tries(side) : alpaca[side][k].st \in {"wire", "open"}}

(* However often the buy is retried, whatever answers are lost and         *)
(* wherever the process dies, Alpaca is never bought more from than the    *)
(* night wants.  (_lookup before every POST, one id per attempt,           *)
(* _new_buy_attempt only after the last attempt is final)                  *)
BoughtOnce ==
  SumFunction([k \in Tries("buy") |->
                 IF k \in AtWork("buy") THEN alpaca.buy[k].qty ELSE alpaca.buy[k].filled]) <= night.qty

(* Nothing is ever sold that Alpaca does not hold: no sale of the night is *)
(* sent twice, also after a restart that forgot the sale.                  *)
(* (_sale_attempt_io, _morning_check)                                      *)
NeverShort == shares >= 0

(* What was booked is what Alpaca did, each fill once, and what was booked *)
(* as bought and not as sold is the hold in ADT's book, or the night needs *)
(* a look.  (_book_fills)                                                  *)
BookedIsReal ==
  /\ \A s \in Sides : \A k \in Tries(s) : ctl.booked[s][k] <= alpaca[s][k].filled
  /\ ctl.book = ctl.held - SumFunction(ctl.booked.sell) \/ ctl.needs_look

(* The stock goes back to the day strategies only with nothing held, open  *)
(* or on its way at Alpaca and nothing in the book; a buy given up after a *)
(* look is looked for once more first.  (_step_release, _late_check)       *)
ReleasedIsFlat ==
  (ctl.released /\ ~ctl.late_check /\ \A i \in DOMAIN ctl.buy : ctl.buy[i].status # "not_sent")
    => FlatAtAlpaca /\ AtWork("buy") \cup AtWork("sell") = {} /\ ctl.book = 0

(* "Existing broker orders are always looked up even when new buys are     *)
(* disabled" (overnight_execution.py:899): a buy that reached Alpaca is    *)
(* not written off as not sent.                                            *)
WrittenOffWasNotSent ==
  \A k \in DOMAIN ctl.buy : ctl.buy[k].status = "not_sent" => alpaca.buy[k].st = "none"

(* "its deterministic id lets a restart find it" (overnight_execution.py:  *)
(* 16): a night counted as sold has every sale of it booked.               *)
SoldIsBooked ==
  (ctl.state = "SOLD" /\ corp = "none") => ctl.booked.sell = [k \in Tries("sell") |-> alpaca.sell[k].filled]

(* Alpaca fills the sales of an opening; whether it fills a buy is up to   *)
(* the market.  The loop keeps ticking and the worker threads run.         *)
SellFills == \E k \in Tries("sell") : AlpacaFills("sell", k)
Loop      == Buys \/ Sells

Fairness == /\ WF_vars(Tick) /\ WF_vars(Restart) /\ WF_vars(Settles) /\ WF_vars(SellFills)
            /\ WF_vars(Workers) /\ WF_vars(Loop)

FairSpec == Spec /\ Fairness
=============================================================================
