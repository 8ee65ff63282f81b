------------------------------ MODULE TrendGates ------------------------------
(***************************************************************************)
(* The gates only Ride the Trend passes: no macro release near, the stock  *)
(* ahead of SPY, its sector on its side of the VWAP and behind it, and no  *)
(* wind from the dollar or from rates against it.                          *)
(* Source: core/regime_feed.py, core/macro_calendar.py, and in main.py     *)
(* _ride_the_trend_rs and _ride_the_trend_regime; rs_inputs of             *)
(* strategies/vwap_pullback_v2.py.                                         *)
(*                                                                         *)
(* A bar is the minute it starts in and its close, minute 0 is 09:30; a    *)
(* price is a small number, a return is compared by its fraction, volumes  *)
(* are one.  A threshold is a percentage.  Every gate is enforced; a       *)
(* short is a long with the signs turned and is checked as such.  Days,    *)
(* invalid bars, the measures logged only and the card's text are left out.*)
(***************************************************************************)
EXTENDS Integers, Sequences, FiniteSets, FiniteSetsExt, Functions

CONSTANTS
  Rows,        \* what a minute may trade at: [stock, SPY, sector, dollar, rates]
  Span,        \* the half hour of the returns, in minutes
  Age, Sparse, \* ages of a bar that count as fresh, and the dollar's
  WindMax,     \* percent the dollar may rise, or rates fall, against a long
  Releases,    \* the macro events: [at, before, after]
  Valid,       \* the minutes the macro calendar covers
  Last, Delay, MaxFaults  \* bounds: minutes, minutes a bar of each stream is late, restarts and lost bars

Streams == {"stock", "SPY", "sector", "dollar", "rates"}
Regime == {"sector", "dollar", "rates"}

VARIABLES
  now,     \* the clock
  tape,    \* the closes of the minutes that ended
  next,    \* the next minute of each stream
  got,     \* the minutes of each stream the process holds
  loaded,  \* the macro calendar could be read at the start
  out,     \* the verdict of the last step
  faults

vars == <<now, tape, next, got, loaded, out, faults>>

None == [some |-> FALSE]
P(s, m) == tape[m + 1][s]

TypeOK ==
  /\ now \in 0 .. Last + 1 /\ Len(tape) = now /\ loaded \in BOOLEAN /\ faults \in 0 .. MaxFaults
  /\ \A s \in Streams : next[s] \in 0 .. now /\ got[s] \subseteq 0 .. now - 1

Init ==
  /\ now = 0 /\ tape = <<>> /\ loaded \in BOOLEAN /\ out = None /\ faults = 0
  /\ next = [s \in Streams |-> 0] /\ got = [s \in Streams |-> {}]

-----------------------------------------------------------------------------
(* The macro calendar                                                      *)

\* check: closed when unreadable or out of its dates, and within a window, both ends included
MacroOpen(t) == loaded /\ t \in Valid /\ \A r \in Releases : ~(r.at - r.before <= t /\ t <= r.at + r.after)

-----------------------------------------------------------------------------
(* The regime feed, on the minutes g                                       *)

\* Fault: the newest bar, completed or not by then
Newest(g, s, t) == IF g[s] = {} THEN -1 ELSE Max(g[s])
\* index_at_or_before: the last bar that completed by t, -1 if there is none
AtOrBefore(g, s, t) == LET c == {m \in g[s] : m + 1 <= t} IN IF c = {} THEN -1 ELSE Max(c)

\* vwap_at: the bars the VWAP of bar k is made of
VwapOf(g, s, k) == {m \in g[s] : m <= k}

\* How far bar k closed over the VWAP of the bars v, times their number
OverVwap(s, k, v) == P(s, k) * Cardinality(v) - SumFunction([m \in v |-> P(s, m)])

\* direction: on which side of its VWAP s closed; 0 for neither, 9 for unavailable
Side(g, s, t) ==
  LET k == AtOrBefore(g, s, t)
      d == OverVwap(s, k, VwapOf(g, s, k))
  IN IF k < 0 \/ t - (k + 1) > Age THEN 9 ELSE IF d > 0 THEN 1 ELSE IF d < 0 THEN -1 ELSE 0

\* wallclock_return: its two endpoints
Ends(g, s, t) == [from |-> AtOrBefore(g, s, t - Span), to |-> AtOrBefore(g, s, t)]
\* Fault: only the newer endpoint has to be fresh
FreshEnd(e, t, age) == e.from >= 0 /\ e.to >= 0 /\ t - (e.to + 1) <= age
FreshEnds(e, t, age) == FreshEnd(e, t, age) /\ t - Span - (e.from + 1) <= age

\* percent s moved between the endpoints, compared with w
RisesOver(s, e, w)  == (P(s, e.to) - P(s, e.from)) * 100 > w * P(s, e.from)
FallsOver(s, e, w)  == (P(s, e.from) - P(s, e.to)) * 100 > w * P(s, e.from)
Wind(s, e, sign)    == IF sign = 1 THEN RisesOver(s, e, WindMax) ELSE FallsOver(s, e, WindMax)

\* rs_inputs: the stock's last bar that started by a span before bar m
StockFrom(g, m) == LET c == {k \in g["stock"] : k <= m - Span} IN IF c = {} THEN -1 ELSE Max(c)
\* how far a leads b between the endpoints d and e: the sign of the difference of their returns
Lead(a, d, b, e) == P(a, d.to) * P(b, e.from) - P(b, e.to) * P(a, d.from)

\* evaluate and _ride_the_trend_regime, for the signal of bar m
RegimeOpen(g, m, long) ==
  LET t == m + 1
      sign == IF long THEN 1 ELSE -1
      own == [from |-> StockFrom(g, m), to |-> m]
      sector == Ends(g, "sector", t)
      dollar == Ends(g, "dollar", t)
      rates == Ends(g, "rates", t)
  IN /\ Side(g, "sector", t) = sign
     /\ own.from >= 0 /\ FreshEnds(sector, t, Age) /\ sign * Lead("stock", own, "sector", sector) >= 0
     /\ FreshEnds(dollar, t, Sparse) /\ ~Wind("dollar", dollar, sign)
     /\ FreshEnds(rates, t, Age) /\ ~Wind("rates", rates, -sign)

-----------------------------------------------------------------------------
(* Strength against SPY                                                    *)

\* The bar Span bars before the newest of a series
BarsAgo(S) == CHOOSE m \in S : Cardinality({k \in S : k > m}) = Span

\* _ride_the_trend_rs
Leads(g, m, long) ==
  LET stock == g["stock"]
      spy == g["SPY"]
      sign == IF long THEN 1 ELSE -1
  IN /\ Cardinality(stock) > Span /\ Min(stock) = 0
     /\ Cardinality(spy) > Span /\ Min(spy) = 0
     /\ m - Max(spy) \in {0, 1}
     /\ sign * Lead("stock", [from |-> 0, to |-> m], "SPY", [from |-> 0, to |-> Max(spy)]) >= 0
     /\ sign * Lead("stock", [from |-> BarsAgo(stock), to |-> m], "SPY", [from |-> BarsAgo(spy), to |-> Max(spy)]) >= 0

\* The gates of execute_strategy_signal for a Ride the Trend signal of bar m
Admits(g, m, long) == MacroOpen(m + 1) /\ Leads(g, m, long) /\ RegimeOpen(g, m, long)

-----------------------------------------------------------------------------
(* Handlers                                                                *)

Minute(row) ==
  /\ now <= Last /\ \A s \in Streams : now < next[s] + Delay[s]
  /\ now' = now + 1 /\ tape' = Append(tape, row) /\ out' = None
  /\ UNCHANGED <<next, got, loaded, faults>>

\* A bar of an index or a regime symbol: update_bar, RegimeFeed.on_bar
Bar(s) ==
  /\ s # "stock" /\ next[s] < now
  /\ got' = [got EXCEPT ![s] = @ \cup {next[s]}] /\ next' = [next EXCEPT ![s] = @ + 1]
  /\ out' = None /\ UNCHANGED <<now, tape, loaded, faults>>

\* The stock's bar, and the signal it may bring
StockBar(long) ==
  LET m == next["stock"]
      g == [got EXCEPT !["stock"] = @ \cup {m}]
  IN /\ m < now
     /\ got' = g /\ next' = [next EXCEPT !["stock"] = @ + 1]
     /\ out' = [some |-> TRUE, m |-> m, long |-> long, ok |-> Admits(g, m, long)]
     /\ UNCHANGED <<now, tape, loaded, faults>>

LostBar(s) ==
  /\ next[s] < now /\ faults < MaxFaults /\ faults' = faults + 1
  /\ next' = [next EXCEPT ![s] = @ + 1] /\ out' = None
  /\ UNCHANGED <<now, tape, got, loaded>>

\* A restart: the stock's bars and SPY's are in the checkpoint, the regime series are not
Restart ==
  /\ faults < MaxFaults /\ faults' = faults + 1
  /\ got' = [s \in Streams |-> IF s \in Regime THEN {} ELSE got[s]]
  /\ loaded' \in BOOLEAN /\ out' = None
  /\ UNCHANGED <<now, tape, next>>

Next ==
  \/ \E row \in Rows : Minute(row)
  \/ \E s \in Streams : Bar(s) \/ LostBar(s)
  \/ \E long \in BOOLEAN : StockBar(long)
  \/ Restart

Spec == Init /\ [][Next]_vars
-----------------------------------------------------------------------------
(* Properties                                                              *)

\* What was held of g at the end of minute m
Then(g, m) == [s \in Streams |-> {k \in g[s] : k <= m}]

\* Bars near t, and near the moment its returns go back to; and no release near
Near(g, s, at, age) == \E k \in g[s] : k < at /\ at <= k + 1 + age
BarsNear(g, t) == \A s \in Regime : \A at \in {t, t - Span} : Near(g, s, at, IF s = "dollar" THEN Sparse ELSE Age)
NoRelease(t) == loaded /\ t \in Valid /\ \A r \in Releases : t < r.at - r.before \/ t > r.at + r.after

\* An entry on bar m, with the minutes g, read the tape
ReadsTheTape(g, m, long) == Admits(Then(g, m), m, long) /\ BarsNear(g, m + 1) /\ NoRelease(m + 1)

\* A late stock bar is judged by what had completed when it ended, and by bars near the two moments they stand for:
\* bars that came since change nothing, and a sector, dollar or rates series with a hole there refuses.
GatesReadTheTape == out.some /\ out.ok => ReadsTheTape(got, out.m, out.long)

\* "sector relative return over identical wall-clock endpoints" (regime_feed.py:177)
SameEndpoints ==
  out.some /\ out.ok => StockFrom(got, out.m) + 1 = Ends(got, "sector", out.m + 1).from + 1
=============================================================================
