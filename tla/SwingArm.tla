------------------------------ MODULE SwingArm ------------------------------
(***************************************************************************)
(* The "2-Day Panic Dip" swing arm over several days: the scan after the   *)
(* close stages orders, the next open executes them, stops and the         *)
(* operator sell, the day boundary and restarts go on in between.          *)
(* Sources: strategies/swing_panic_dip.py, the swing parts of main.py,     *)
(* the daily bars of strategies/swing_indicators.py, and of core/engine.py *)
(* what an order goes through.                                             *)
(*                                                                         *)
(* Every handler saves the whole state when it ends, so a crash loses the  *)
(* scans under way and the open prices; a crash in the middle of a POST is *)
(* in BrokerOrders.  Indicators, prices and earnings are left out: a scan  *)
(* may find any stock panicked or recovered, a bar may breach any stop.    *)
(* Other arms' orders in these stocks are left out (StockOwners).          *)
(***************************************************************************)
EXTENDS Integers, FiniteSets, Sequences, SequencesExt

CONSTANTS
  NumSyms,    \* the certified stocks, 1 .. NumSyms in their order
  Slots,      \* max_concurrent_positions
  Q,          \* shares one slot buys
  TimeStop,   \* time_stop_days
  Calendar,   \* the days: "trade", "holiday" (a weekday) or "weekend"
  MaxOrders,  \* bound: orders on record
  MaxFaults   \* bound: lost POSTs, unconfirmed cancels, failed lookups, crashes

Syms == 1 .. NumSyms
Days == 1 .. Len(Calendar)
Ids  == 1 .. MaxOrders

VARIABLES
  day, ph,   \* the day and its phase: before, in and after the open window, after the close
  up,        \* the process runs
  arm,       \* the arm's book, its orders, and the shares they made Alpaca hold
  open,      \* stocks whose open price is known today (today_open_prices)
  tasks,     \* the dates of the close scans under way
  last,      \* dates: of the last scan, the last daily bar of the benchmark, the last close directive
  faults

vars == <<day, ph, up, arm, open, tasks, last, faults>>

NoOrder == [st |-> "none", sym |-> 0, side |-> "", left |-> 0, cid |-> FALSE, rest |-> 0, gap |-> 0]
\* cid: an Alpaca order may belong to it; rest, gap: what that order may still fill, has filled unbooked
Order   == [st : {"none", "working", "filled", "dead"}, sym : 0 .. NumSyms, side : {"", "BUY", "SELL"},
            left : 0 .. Q, cid : BOOLEAN, rest : 0 .. Q, gap : 0 .. Q]
Staged  == [sym : Syms, act : {"BUY", "SELL"}, date : 0 .. Len(Calendar), link : 0 .. MaxOrders]

TypeOK ==
  /\ day \in Days /\ ph \in {"pre", "open", "mid", "post"} /\ up \in BOOLEAN
  /\ DOMAIN arm = {"held", "hold", "at", "ord", "staged", "reserved"}
  /\ arm.held \in [Syms -> Nat] /\ arm.hold \in [Syms -> Nat] /\ arm.at \in [Syms -> Int]
  /\ arm.ord \in [Ids -> Order] /\ arm.staged \subseteq Staged /\ arm.reserved \subseteq Syms
  /\ open \subseteq Syms /\ tasks \subseteq Days /\ faults \in 0 .. MaxFaults
  /\ last \in [scan : 0 .. Len(Calendar), bench : 0 .. Len(Calendar), closed : 0 .. Len(Calendar)]

-----------------------------------------------------------------------------
(* Orders                                                                  *)

Working(o)    == o.st = "working"
Unresolved(o) == Working(o) \/ o.cid
Free(w)       == {i \in Ids : w.ord[i].st = "none"}
NewId(w)      == CHOOSE i \in Free(w) : \A j \in Free(w) : i <= j
Entries(w)    == {x \in w.staged : x.act = "BUY"}
StagedExits(w) == {x \in w.staged : x.act = "SELL"}
InOrder(X)    == SetToSortSeq(X, LAMBDA x, y : x.date * NumSyms + x.sym < y.date * NumSyms + y.sym)

\* Fault: a buy given up at 09:45 that is live at Alpaca does not count
CommittedWhileWorking(w) == {w.ord[i].sym : i \in {j \in Ids : w.ord[j].side = "BUY" /\ Working(w.ord[j])}}

Committed(w)  == {w.ord[i].sym : i \in {j \in Ids : w.ord[j].side = "BUY" /\ Unresolved(w.ord[j])}}
Holding(w)    == {s \in Syms : w.held[s] > 0}

Create(w, s, side, n) ==
  [w EXCEPT !.ord[NewId(w)] = [NoOrder EXCEPT !.st = "working", !.sym = s, !.side = side, !.left = n]]

\* an order nothing refers to any more is forgotten
Tidy(w) ==
  [w EXCEPT !.ord = [i \in Ids |->
     IF ~Unresolved(w.ord[i]) /\ (\A x \in w.staged : x.link # i) THEN NoOrder ELSE w.ord[i]]]

Drop(w, x)    == [w EXCEPT !.staged = @ \ {x}]
Release(w, s) == [w EXCEPT !.reserved = @ \ {s}]

ReleaseResolved(w) ==
  [w EXCEPT !.reserved = {s \in @ : s \in Holding(w) \cup Committed(w) \cup {x.sym : x \in Entries(w)}}]

\* n shares of order i go into the book
Booked(w, i, n) ==
  LET o == w.ord[i] IN
  [w EXCEPT !.held[o.sym] = IF o.side = "BUY" THEN @ + n ELSE @ - n,
            !.hold[o.sym] = IF o.side = "SELL" /\ n = w.held[o.sym] THEN 0 ELSE @,
            !.ord[i].left = @ - n,
            !.ord[i].st   = IF o.left = n THEN "filled" ELSE @]

\* Alpaca trades n shares of order i; they are booked or wait to be
Traded(w, i, n) ==
  LET o == w.ord[i] IN [w EXCEPT !.at[o.sym] = IF o.side = "BUY" THEN @ + n ELSE @ - n]

\* on_entry_fill: position marked and reserved, the staged order done, the rest of a partial fill given up
OnEntry(w, i) ==
  LET s == w.ord[i].sym
      x == {y \in Entries(w) : y.sym = s}
      f == {y \in x : \A z \in x : y.date <= z.date}
  IN IF s \notin Holding(w) THEN w
     ELSE [w EXCEPT !.reserved = @ \cup {s}, !.staged = @ \ f,
                    !.hold[s] = IF @ = 0 THEN 1 ELSE @,
                    !.ord[i].st = IF Working(w.ord[i]) THEN "dead" ELSE @]

OnExit(w, s) ==
  IF s \in Holding(w) THEN w
  ELSE Release([w EXCEPT !.staged = {x \in @ : ~(x.act = "SELL" /\ x.sym = s)}], s)

OnFill(w, i) == IF w.ord[i].side = "BUY" THEN OnEntry(w, i) ELSE OnExit(w, w.ord[i].sym)

\* What happens to an attempt.  wait: backoff, or a cancel that is not confirmed.  none: cancelled without a
\* fill.  refused, risk: by Alpaca, by the risk check.  lost, late: the POST got no answer and the order
\* does not exist, exists.  stuck: accepted, its cancel is not confirmed.
How    == {"full", "part", "none", "refused", "risk", "wait", "lost", "late", "stuck"}
Costly == {"lost", "late", "stuck"}

Post(w, i, how) ==
  LET o == w.ord[i]
      n == IF o.side = "BUY" THEN o.left
           ELSE CHOOSE k \in 0 .. Q : k = (IF w.at[o.sym] < o.left THEN w.at[o.sym] ELSE o.left)
  IN CASE o.side = "SELL" /\ w.at[o.sym] <= 0 -> w
       [] how = "full" -> Booked(Traded(w, i, n), i, n)
       [] how = "part" -> Booked(Traded(w, i, 1), i, 1)
       [] how = "refused" /\ o.side = "BUY" /\ o.left = Q -> [w EXCEPT !.ord[i].st = "dead", !.ord[i].cid = TRUE]
       [] how = "lost" -> [w EXCEPT !.ord[i].cid = TRUE]
       [] how \in {"late", "stuck"} -> [w EXCEPT !.ord[i].cid = TRUE, !.ord[i].rest = n]
       [] OTHER -> w

\* _execute_fill: what an earlier Alpaca order of this order did is settled before a new one is sent
Attempt(w, i, how) ==
  LET o     == w.ord[i]
      known == [w EXCEPT !.ord[i].gap = 0, !.ord[i].rest = IF how = "stuck" THEN @ ELSE 0,
                         !.ord[i].cid = how = "stuck" /\ o.rest > 0]
  IN CASE how = "wait" -> w
       [] how # "wait" /\ o.cid /\ o.gap > 0 -> Booked(known, i, o.gap)
       [] how = "stuck" /\ o.rest > 0 -> w
       [] OTHER -> Post(known, i, how)

Filled(w, v, i) == v.ord[i].left < w.ord[i].left

-----------------------------------------------------------------------------
(* The open window, stops, sells of the operator                           *)

\* Fault: a sell that may still trade is not looked for
AnyNewExit(w, s) == 0

\* the sell of s that may still trade, 0 for none
UnresolvedExit(w, s) ==
  LET U == {i \in Ids : w.ord[i].sym = s /\ w.ord[i].side = "SELL" /\ Unresolved(w.ord[i])}
  IN IF U = {} THEN 0 ELSE CHOOSE i \in U : \A j \in U : j <= i

Sell(w, s, how) ==
  LET u == UnresolvedExit(w, s)
      v == IF u = 0 THEN Create(w, s, "SELL", w.held[s]) ELSE w
      i == IF u = 0 THEN NewId(w) ELSE u
      z == Attempt(v, i, how)
  IN IF u # 0 /\ ~Working(w.ord[u]) THEN w
     ELSE IF Filled(v, z, i) THEN OnExit(z, s) ELSE z

FlatReleases(w, s) == IF s \in Holding(w) THEN w ELSE Release(w, s)

ExecExit(w, x, opened, how) ==
  IF x.sym \notin Holding(w) THEN Drop(w, x)
  ELSE IF x.sym \notin opened THEN w
  ELSE LET v == Sell(w, x.sym, how) IN
       IF x.sym \in Holding(v) THEN v ELSE Release(Drop(v, x), x.sym)

\* the slots taken at the open: held, or by a buy that may still fill
Taken(w) == Holding(w) \cup Committed(w)

Buy(w, x, how) ==
  LET i == IF x.link = 0 THEN NewId(w) ELSE x.link
      y == [x EXCEPT !.link = i]
      v == IF x.link = 0 THEN [Create(w, x.sym, "BUY", Q) EXCEPT !.staged = (@ \ {x}) \cup {y}] ELSE w
      z == Attempt(v, i, how)
  IN CASE x.link = 0 /\ how = "risk" -> Release(Drop(w, x), x.sym)
       [] Filled(v, z, i) -> OnEntry(z, i)
       [] ~Filled(v, z, i) /\ z.ord[i].st = "dead" -> Release(Drop(z, y), x.sym)
       [] OTHER -> z

ExecEntry(w, x, opened, how) ==
  LET s == x.sym
      o == IF x.link = 0 THEN NoOrder ELSE w.ord[x.link]
      full == Cardinality(Taken(w) \ {s}) >= Slots /\ s \notin Taken(w)
  IN CASE x.link # 0 /\ o.left < Q -> OnEntry(w, x.link)
       [] x.link # 0 /\ o.left = Q /\ ~Working(o) -> IF o.cid THEN w ELSE Release(Drop(w, x), s)
       [] OTHER -> IF full THEN (IF StagedExits(w) # {} THEN w ELSE Release(Drop(w, x), s))
                   ELSE IF s \notin opened THEN w ELSE Buy(w, x, how)

\* execute_market_open: exits first
MarketOpen(w, opened, how) ==
  LET sold == FoldLeft(LAMBDA v, x : ExecExit(v, x, opened, how[x.sym]), w, InOrder(StagedExits(w)))
  IN FoldLeft(LAMBDA v, x : ExecEntry(v, x, opened, how[x.sym]), sold, InOrder(Entries(sold)))

\* entries not executed in the open window are given up (staged less than a minute ago, they are kept)
Expired(w) ==
  LET links == {x.link : x \in Entries(w)}
  IN ReleaseResolved([w EXCEPT
       !.staged = StagedExits(w),
       !.ord = [i \in Ids |-> IF i \in links /\ Working(w.ord[i]) THEN [w.ord[i] EXCEPT !.st = "dead"]
                              ELSE w.ord[i]]])

\* the engine matches the sells that are still working on every bar and quote; buys only at the open
Match(w, s, how) ==
  LET u == UnresolvedExit(w, s) IN
  IF u = 0 \/ ~Working(w.ord[u]) THEN w
  ELSE LET z == Attempt(w, u, how) IN IF Filled(w, z, u) THEN OnExit(z, s) ELSE z

-----------------------------------------------------------------------------
(* The close scan                                                          *)

\* evaluate_market_close: exits of what is held, then entries in the order of the stocks while slots last
ScanExits(w, date, recovered) ==
  LET out == {s \in Holding(w) : s \in recovered \/ w.hold[s] >= TimeStop}
      old == {x \in w.staged : x.act = "SELL" /\ x.sym \in out /\ x.date = date}
  IN [w EXCEPT !.staged = (@ \ old) \cup {[sym |-> s, act |-> "SELL", date |-> date, link |-> 0] : s \in out}]

\* the slots a scan may fill: not those of surviving positions, staged entries, buys that may still fill
Claimed(w) == (Holding(w) \ {x.sym : x \in StagedExits(w)}) \cup {x.sym : x \in Entries(w)} \cup Committed(w)

ScanEntries(w, date, panicked) ==
  LET may == {s \in panicked : s \notin Holding(w) \cup Claimed(w) \cup {x.sym : x \in StagedExits(w)}}
      few == {s \in may : Cardinality({t \in may : t < s}) < Slots - Cardinality(Claimed(w))}
  IN [w EXCEPT !.staged = @ \cup {[sym |-> s, act |-> "BUY", date |-> date, link |-> 0] : s \in few},
               !.reserved = @ \cup few]

Scan(w, date, recovered, panicked, whole) ==
  LET v == ScanExits(w, date, recovered) IN IF whole THEN ScanEntries(v, date, panicked) ELSE v

-----------------------------------------------------------------------------
(* Actions                                                                 *)

Init ==
  /\ day = 1 /\ ph = "mid" /\ up = TRUE /\ open = {} /\ tasks = {} /\ faults = 0
  /\ last = [scan |-> 0, bench |-> 0, closed |-> 0]
  /\ arm = [held |-> [s \in Syms |-> 0], hold |-> [s \in Syms |-> 0], at |-> [s \in Syms |-> 0],
            ord |-> [i \in Ids |-> NoOrder], staged |-> {}, reserved |-> {}]

Room == Cardinality(Free(arm)) > NumSyms \* bound: MaxOrders
Pay(c) == faults' = faults + c /\ faults' <= MaxFaults
Cost(H) == IF H \cap Costly = {} THEN 0 ELSE 1
Same == UNCHANGED <<day, ph, up, tasks, last>>
Trades == Calendar[day] = "trade"
\* what the orders a bar or quote of s makes the engine attempt may meet
Meets(s) == IF s \in Holding(arm) \/ UnresolvedExit(arm, s) # 0 THEN How \ {"refused", "risk"} ELSE {"none"}

\* a bar of s in the open window: staged orders execute, then stops, then the matching of sells
OpenBar(s, how, breach, next) ==
  LET seen == open \cup {s}
      w == IF \E x \in arm.staged : x.sym = s THEN MarketOpen(arm, seen, how) ELSE arm
      v == IF breach /\ s \in Holding(w) THEN FlatReleases(Sell(w, s, next), s) ELSE Match(w, s, next)
  IN /\ up /\ Trades /\ ph = "open" /\ Room
     /\ Pay(Cost({how[t] : t \in Syms} \cup {next}))
     /\ open' = seen /\ arm' = Tidy(v)
     /\ Same

MidBar(s, breach, next) ==
  LET w == Expired(arm)
      v == IF breach /\ s \in Holding(w) THEN FlatReleases(Sell(w, s, next), s) ELSE Match(w, s, next)
  IN /\ up /\ Trades /\ ph = "mid" /\ Room
     /\ Pay(Cost({next})) /\ arm' = Tidy(v) /\ UNCHANGED open /\ Same

Quote(s, next) ==
  /\ up /\ Trades /\ ph \in {"open", "mid"}
  /\ UnresolvedExit(arm, s) # 0
  /\ Pay(Cost({next})) /\ arm' = Tidy(Match(arm, s, next)) /\ UNCHANGED open /\ Same

\* the clock expires entries on every day of the calendar
ClockStep ==
  /\ up /\ ph = "mid" /\ Entries(arm) # {}
  /\ arm' = Tidy(Expired(arm)) /\ UNCHANGED <<open, faults>> /\ Same

\* the operator stages a sell for the next open, or sells at once (refused, but kept working, off hours)
StageExit(s) ==
  /\ up /\ s \in Holding(arm)
  /\ \A x \in StagedExits(arm) : ~(x.sym = s /\ x.date = day)
  /\ arm' = [arm EXCEPT !.staged = @ \cup {[sym |-> s, act |-> "SELL", date |-> day, link |-> 0]}]
  /\ UNCHANGED <<open, faults>> /\ Same

ExitNow(s, next) ==
  LET v == Sell(arm, s, next) IN
  /\ up /\ s \in Holding(arm) /\ Room
  /\ next # "wait" => Trades /\ ph \in {"open", "mid"}
  /\ arm' = Tidy(IF s \in Holding(v) THEN v
                 ELSE Release([v EXCEPT !.staged = {x \in @ : x.sym # s}], s))
  /\ Pay(Cost({next})) /\ UNCHANGED open /\ Same

\* every 5 seconds: orders that may have an Alpaca order are settled; one may stay unclear
Settle(late, fails) ==
  LET C == {i \in Ids : arm.ord[i].cid} \ fails
      settled(w, i) ==
        LET o == w.ord[i]
            v == [w EXCEPT !.ord[i].gap = 0, !.ord[i].rest = IF i \in late THEN @ ELSE 0,
                           !.ord[i].cid = i \in late /\ o.rest > 0]
        IN IF o.gap = 0 THEN v ELSE OnFill(Booked(v, i, o.gap), i)
  IN /\ up /\ C # {}
     /\ arm' = Tidy(ReleaseResolved(FoldLeft(settled, arm, SetToSortSeq(C, <))))
     /\ Pay(IF late \cup fails = {} THEN 0 ELSE 1) /\ UNCHANGED open /\ Same

\* the MARKET_CLOSED directive starts the scan of the day, on any day
CloseDirective ==
  /\ up /\ ph = "post" /\ last.closed < day
  /\ last' = [last EXCEPT !.closed = day] /\ tasks' = tasks \cup {day}
  /\ UNCHANGED <<day, ph, up, arm, open, faults>>

\* a scan ends: its minutes are whole, short or absent; without whole minutes entries are withheld
ScanDone(date, recovered, panicked, data) ==
  /\ up /\ date \in tasks
  /\ data # "none" => Calendar[date] = "trade"
  /\ arm' = Scan(arm, date, recovered, panicked, data = "whole")
  /\ last' = [last EXCEPT !.scan = date, !.bench = IF data = "none" \/ @ > date THEN @ ELSE date]
  /\ tasks' = tasks \ {date}
  /\ UNCHANGED <<day, ph, up, open, faults>>

Crash ==
  /\ up /\ Pay(1) /\ up' = FALSE /\ open' = {} /\ tasks' = {}
  /\ UNCHANGED <<day, ph, arm, last>>

LastClosed ==
  LET past == {d \in 1 .. day : Calendar[d] = "trade" /\ (d < day \/ ph = "post")}
  IN IF past = {} THEN 0 ELSE CHOOSE d \in past : \A e \in past : e <= d

\* _startup_backfill: out of session, a close scan that never completed is run now
Restart ==
  /\ ~up /\ up' = TRUE
  /\ tasks' = IF ~(Trades /\ ph \in {"open", "mid"}) /\ LastClosed > 0
                 /\ (last.bench < LastClosed \/ last.scan # LastClosed)
              THEN {LastClosed} ELSE {}
  /\ UNCHANGED <<day, ph, arm, open, last, faults>>

AlpacaFills(i, n) ==
  /\ Trades /\ ph \in {"open", "mid"} /\ n \in 1 .. arm.ord[i].rest
  /\ arm' = [Traded(arm, i, n) EXCEPT !.ord[i].rest = @ - n, !.ord[i].gap = @ + n]
  /\ UNCHANGED open /\ UNCHANGED faults /\ Same

\* time goes on; scans take two minutes, the session boundary of midnight ages the positions on weekdays
NextPhase ==
  /\ \/ ph = "pre" /\ ph' = (IF Trades THEN "open" ELSE "mid") /\ (~Trades => tasks = {})
     \/ ph = "open" /\ ph' = "mid" /\ tasks = {}
     \/ ph = "mid" /\ ph' = "post" /\ (up => Entries(arm) = {})
  /\ arm' = IF ph' = "post" THEN [arm EXCEPT !.ord = [i \in Ids |-> [@[i] EXCEPT !.rest = 0]]] ELSE arm
  /\ UNCHANGED <<day, up, open, tasks, last, faults>>

NextDay ==
  /\ ph = "post" /\ day < Len(Calendar) /\ tasks = {} /\ (up => last.closed = day)
  /\ day' = day + 1 /\ ph' = "pre" /\ open' = {}
  /\ arm' = IF Calendar[day + 1] = "weekend" THEN arm
            ELSE [arm EXCEPT !.hold = [s \in Syms |-> IF s \in Holding(arm) THEN @[s] + 1 ELSE 0]]
  /\ UNCHANGED <<up, tasks, last, faults>>

\* the stocks whose staged orders a bar of s makes the arm look at
Due(s) == {x.sym : x \in arm.staged} \cap (open \cup {s})

Next ==
  \/ \E s \in Syms : \E h \in [Due(s) -> How], breach \in BOOLEAN :
       \E next \in (IF s \in Due(s) THEN How ELSE Meets(s)) :
         OpenBar(s, [t \in Syms |-> IF t \in Due(s) THEN h[t] ELSE "none"], breach, next)
  \/ \E s \in Syms : \E breach \in BOOLEAN, next \in Meets(s) : MidBar(s, breach, next)
  \/ \E s \in Syms : \E next \in Meets(s) : Quote(s, next)
  \/ ClockStep
  \/ \E s \in Syms : StageExit(s)
  \/ \E s \in Syms : \E next \in Meets(s) : ExitNow(s, next)
  \/ \E late, fails \in {{}} \cup {{i} : i \in Ids} : Settle(late, fails)
  \/ CloseDirective
  \/ \E date \in tasks, data \in {"whole", "short", "none"} :
       \E recovered \in SUBSET Holding(arm), panicked \in SUBSET Syms : ScanDone(date, recovered, panicked, data)
  \/ Crash \/ Restart
  \/ \E i \in Ids, n \in 1 .. Q : AlpacaFills(i, n)
  \/ NextPhase \/ NextDay

Spec == Init /\ [][Next]_vars

-----------------------------------------------------------------------------
(* Properties                                                              *)

\* The arm never has, or can still get, shares of more than max_concurrent_positions stocks, or more of one
\* stock than a slot buys: not after an entry given up at 09:45 fills late, a lost POST or a repeated scan
\* (evaluate_market_close, execute_market_open).
SlotsHeld ==
  LET rest(s) == {i \in Ids : arm.ord[i].sym = s /\ arm.ord[i].side = "BUY" /\ arm.ord[i].rest > 0}
      taken == {s \in Syms : arm.at[s] > 0 \/ rest(s) # {}}
  IN /\ Cardinality(taken) <= Slots
     /\ \A s \in Syms : \A i \in rest(s) : arm.at[s] + arm.ord[i].rest <= Q /\ Cardinality(rest(s)) = 1

\* What can still be sold of a stock at Alpaca never exceeds what is held there, however the open, a stop,
\* the operator and a late answer follow each other (_unresolved_exit_order).
SellsCovered ==
  \A s \in Syms :
    LET S == {i \in Ids : arm.ord[i].sym = s /\ arm.ord[i].side = "SELL" /\ arm.ord[i].rest > 0}
    IN arm.at[s] >= 0 /\ Cardinality(S) <= 1 /\ \A i \in S : arm.ord[i].rest <= arm.at[s]

\* An entry is given up only after a market open it could have executed at (swing_panic_dip.py: staged at the
\* close, "executed at 09:30 ET open").
EntryHadItsOpen ==
  [][\A x \in Entries(arm) : x.link = 0 /\ (\A y \in Entries(arm') : y.sym # x.sym)
       => \E d \in x.date + 1 .. day : Calendar[d] = "trade"]_vars

\* A stock stays reserved while an entry of it may still fill (_release_resolved_swing_reservations: "Keep a
\* Swing symbol locked until every possible Alpaca entry is final.").
LockedUntilFinal ==
  \A i \in Ids : arm.ord[i].side = "BUY" /\ arm.ord[i].rest > 0
     => arm.ord[i].sym \in arm.reserved \cup Holding(arm) \/ Working(arm.ord[i])
=============================================================================
