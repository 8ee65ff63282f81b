-------------------------------- MODULE EntryGate --------------------------------
(***************************************************************************)
(* The gate an intraday signal passes before it becomes an order: the      *)
(* trend of SPY and QQQ, kept bar by bar and rebuilt from the relay after  *)
(* a restart, the phase of the day and the places left; and the card that  *)
(* tells the operator what the gate will do.                               *)
(* Source: core/market_filter.py, strategies/adaptation.py,                *)
(* core/trading_windows.py (strategy_window) and, in main.py,              *)
(* handle_bar_event, execute_strategy_signal, _rebuild_market_filter and   *)
(* _startup_backfill.                                                      *)
(*                                                                         *)
(* A bar is the minute it starts in and its close; every bar has one       *)
(* share, so that the anchored VWAP is the mean of the closes.  The bars   *)
(* of a symbol arrive in order, late or never.  Minutes before Open are    *)
(* before the session.  The macro and strength checks before the gate and  *)
(* the size after it are not here.                                         *)
(***************************************************************************)
EXTENDS Integers, Sequences, FiniteSets, FiniteSetsExt

CONSTANTS
  Open, Last,        \* the first and the last minute of the session
  PhaseAt,           \* the phase of each minute, PHASES
  Closes, Base,      \* the closes of the two in a minute, and the price both open at
  Fresh,             \* stale_threshold_sec in minutes
  Early,             \* bars of the early open
  Aligned,           \* bars from which the averages count
  Kinds,             \* the signals: strategy, side, and how strong its news is
  MaxDelay,          \* bound: minutes a bar is late
  MaxFaults          \* bound: restarts and lost bars

Indexes == {"SPY", "QQQ"}
Watched == Indexes \cup {"stock"}
Day == Open .. Last

VARIABLES
  now,     \* the clock
  tape,    \* the closes the market made
  next,    \* the next minute each stream delivers
  f,       \* the market filter: an IndexState each
  hist,    \* market_history of the indexes, in every checkpoint
  rest,    \* the answer the startup backfill waits for
  out,     \* the decision of the last handler
  known,   \* the minutes of the session this process was told of
  faults

vars == <<now, tape, next, f, hist, rest, out, known, faults>>

None == [some |-> FALSE]
Unit == 2 ^ (Last + 1)          \* of the averages
NoIndex == [sum |-> 0, fast |-> 0, slow |-> 0, last |-> 0, at |-> -1, n |-> 0]

TypeOK ==
  /\ now \in Nat /\ \A s \in Watched : next[s] \in Nat
  /\ \A i \in Indexes : f[i].n \in 0 .. Last + 1 /\ hist[i] \subseteq 0 .. Last
  /\ faults \in 0 .. MaxFaults

\* Yesterday's state is still in the filter when the first bar of today comes
Init ==
  /\ now = 0 /\ tape = [i \in Indexes |-> <<>>] /\ next = [s \in Watched |-> 0]
  /\ f = [i \in Indexes |-> [NoIndex EXCEPT !.at = -9, !.sum = 9, !.n = 3, !.last = 9, !.fast = 9 * Unit]]
  /\ hist = [i \in Indexes |-> {}] /\ rest = None
  /\ out = None /\ known = [i \in Indexes |-> {}] /\ faults = 0

-----------------------------------------------------------------------------
(* The market filter                                                       *)

\* IndexState.update_bar
Folded(x, m, close) ==
  [sum |-> x.sum + close, last |-> close, at |-> m, n |-> x.n + 1,
   fast |-> close * Unit, slow |-> IF x.n = 0 THEN close * Unit ELSE (close * Unit + x.slow) \div 2]

\* Fault: a minute of the rebuild is counted again when its bar arrives
FoldedAgain(x, m, close) == IF m < Open THEN x ELSE Folded(x, m, close)
\* MarketTrendFilter.on_bar: a minute of the session, once and in order
OnBar(x, m, close) == IF m < Open \/ m <= x.at THEN x ELSE Folded(x, m, close)

\* A filter of an earlier day starts again (on_bar, and _check_session_boundary before any handler)
Today(x) == IF x.at < 0 THEN NoIndex ELSE x

\* What the minutes ms of index i fold to
Replay(i, ms) ==
  LET fold[k \in 0 .. Last + 1] ==
        IF k = 0 THEN NoIndex ELSE IF k - 1 \in ms THEN OnBar(fold[k - 1], k - 1, tape[i][k]) ELSE fold[k - 1]
  IN fold[Last + 1]

Bull(x) == x.last * x.n > x.sum /\ (x.n < Aligned \/ x.fast >= x.slow)
Bear(x) == x.last * x.n < x.sum /\ (x.n < Aligned \/ x.fast <= x.slow)

\* Fault: an index that went silent keeps its trend
NeverStale(x, asof) == x.n > 0 /\ asof >= x.at
\* No bar of the future, none too old
Usable(x, asof) == x.n > 0 /\ asof >= x.at /\ asof - x.at <= Fresh

\* get_current_trend
Trend(g, asof) ==
  CASE \E i \in Indexes : ~Usable(g[i], asof) -> "UNKNOWN"
    [] (\A i \in Indexes : Usable(g[i], asof)) /\ (\E i \in Indexes : g[i].n < Early) ->
         IF \A i \in Indexes : g[i].last >= Base THEN "BULLISH"
         ELSE IF \A i \in Indexes : g[i].last < Base THEN "BEARISH" ELSE "NEUTRAL"
    [] OTHER ->
         IF \A i \in Indexes : Bull(g[i]) THEN "BULLISH"
         ELSE IF \A i \in Indexes : Bear(g[i]) THEN "BEARISH" ELSE "NEUTRAL"

\* is_signal_permitted: "extreme" news has a score and a volume that override the indexes, "strong" a high RVOL
Permitted(sig, trend) ==
  \/ sig.news = "extreme"
  \/ trend = "NEUTRAL" /\ (sig.strat = "mean_reversion" \/ sig.news = "strong")
  \/ trend = "BULLISH" /\ sig.side = "BUY"
  \/ trend = "BEARISH" /\ sig.side = "SELL"

-----------------------------------------------------------------------------
(* Adaptation                                                              *)

\* is_strategy_permitted
Allowed(strat, phase) ==
  /\ phase \notin {"PRE_MARKET", "EOD_FLATTEN", "POST_MARKET"}
  /\ strat = "vwap_pullback" => phase \in {"OPEN_VOLATILITY_FLUSH", "TREND_CONTINUATION"}
  /\ strat = "mean_reversion" => phase # "OPEN_VOLATILITY_FLUSH"

\* Fault: the gate judges by the clock instead of the bar
PhaseOfTheClock(m) == PhaseAt[now]
\* update_clock, by the bar whose signals are judged
PhaseOf(m) == PhaseAt[m]

Priority(strat) == CASE strat = "news_momentum" -> 40 [] strat = "vwap_pullback" -> 20 [] OTHER -> 10

\* arbitrate_signals, for the one stock of a bar
Arbitrated(sigs) == CHOOSE s \in sigs : \A o \in sigs : Priority(o.strat) <= Priority(s.strat)

\* evaluate_signal_admission
Admission(sig, g, m, full) ==
  IF ~Permitted(sig, Trend(g, m)) THEN "MARKET"
  ELSE IF ~Allowed(sig.strat, PhaseOf(m)) THEN "PHASE"
  ELSE IF full THEN "CONCURRENCY"
  ELSE "APPROVED"

-----------------------------------------------------------------------------
(* The card: strategy_window                                               *)

\* The schedule is judged a minute back; the trend now
CanOpen(strat, full) ==
  LET trend == Trend(f, now)
  IN /\ now > 0 /\ Allowed(strat, PhaseAt[now - 1])
     /\ ~full
     /\ trend = "UNKNOWN" => strat = "news_momentum"
     /\ trend = "NEUTRAL" => strat # "vwap_pullback"

\* market_direction_text: the sides the card calls open for an ordinary signal
SidesShown(strat) ==
  LET trend == Trend(f, now)
  IN CASE trend = "BULLISH" -> {"BUY"} [] trend = "BEARISH" -> {"SELL"}
       [] trend = "NEUTRAL" /\ strat = "mean_reversion" -> {"BUY", "SELL"} [] OTHER -> {}

-----------------------------------------------------------------------------
(* Handlers                                                                *)

\* The market makes the bar of the minute that ends
Tick ==
  /\ now <= Last /\ \A s \in Watched : now < next[s] + MaxDelay
  /\ now' = now + 1
  /\ out' = None
  /\ \E c \in IF now < Open THEN {[i \in Indexes |-> Base]} ELSE Closes : tape' = [i \in Indexes |-> Append(tape[i], c[i])]
  /\ UNCHANGED <<next, f, hist, rest, known, faults>>

\* handle_bar_event for an index
IndexBar(i) ==
  /\ next[i] < now
  /\ out' = None
  /\ LET m == next[i]
         g == [j \in Indexes |-> Today(f[j])]
     IN /\ f' = [g EXCEPT ![i] = OnBar(@, m, tape[i][m + 1])]
        /\ hist' = [hist EXCEPT ![i] = @ \cup {m}]
        /\ next' = [next EXCEPT ![i] = m + 1]
        /\ known' = [known EXCEPT ![i] = @ \cup ({m} \cap Day)]
  /\ UNCHANGED <<now, tape, rest, faults>>

\* A bar is lost on the way
LostBar(s) ==
  /\ next[s] < now /\ faults < MaxFaults
  /\ faults' = faults + 1
  /\ out' = None
  /\ next' = [next EXCEPT ![s] = @ + 1]
  /\ UNCHANGED <<now, tape, f, hist, rest, known>>

\* The strategies' signals on the stock's next bar, arbitrated and judged; full: no place is left
StockBar(sigs, full) ==
  /\ next["stock"] < now
  /\ LET m   == next["stock"]
         g   == [j \in Indexes |-> Today(f[j])]
         sig == Arbitrated(sigs)
     IN /\ f' = g
        /\ next' = [next EXCEPT !["stock"] = m + 1]
        /\ out' = [some |-> TRUE, sig |-> sig, outcome |-> Admission(sig, g, m, full),
                   open |-> CanOpen(sig.strat, full) /\ m = now - 1, shown |-> SidesShown(sig.strat)]
  /\ UNCHANGED <<now, tape, hist, rest, known, faults>>

\* The process starts again: the filter is empty, and the backfill is asked for during the session
Restart ==
  /\ faults < MaxFaults
  /\ faults' = faults + 1
  /\ f' = [i \in Indexes |-> NoIndex]
  /\ rest' = IF now > Open /\ now - 1 <= Last
             THEN [some |-> TRUE, ms |-> [i \in Indexes |-> Open .. now - 1]] ELSE None
  /\ out' = None /\ known' = [i \in Indexes |-> {}]
  /\ UNCHANGED <<now, tape, next, hist>>

\* Fault: the rebuild knows the relay's answer only
RebuiltFromTheRelay(i) == Replay(i, rest.ms[i])
\* _rebuild_market_filter: what the relay answered and what was seen live
Rebuilt(i) == Replay(i, rest.ms[i] \cup hist[i])

Backfill ==
  /\ rest.some
  /\ rest' = None
  /\ out' = None
  /\ f' = [i \in Indexes |-> Rebuilt(i)]
  /\ known' = [i \in Indexes |-> (rest.ms[i] \cup hist[i]) \cap Day]
  /\ UNCHANGED <<now, tape, next, hist, faults>>

\* The fetch failed: "continuing with live data only"
BackfillFails == rest.some /\ rest' = None /\ out' = None /\ UNCHANGED <<now, tape, next, f, hist, known, faults>>

Next ==
  \/ Tick
  \/ \E i \in Indexes : IndexBar(i)
  \/ \E s \in Watched : LostBar(s)
  \/ \E sigs \in SUBSET Kinds \ {{}}, full \in BOOLEAN : StockBar(sigs, full)
  \/ Restart \/ Backfill \/ BackfillFails

Spec == Init /\ [][Next]_vars
-----------------------------------------------------------------------------
(* Properties                                                              *)

\* What the minutes an index is known for say, by their definitions
Newest(i) == IF known[i] = {} THEN -1 ELSE Max(known[i])
CloseOf(i, m) == tape[i][m + 1]
Total(i) == MapThenSumSet(LAMBDA m : CloseOf(i, m), known[i])
\* The slow average halves the weight of what was before each bar
Slow(i) ==
  LET After(m) == Cardinality({k \in known[i] : k > m})
      Weight(m) == Unit \div 2 ^ (After(m) + (IF m = Min(known[i]) THEN 0 ELSE 1))
  IN MapThenSumSet(LAMBDA m : CloseOf(i, m) * Weight(m), known[i])
Above(i) ==
  LET n == Cardinality(known[i]) IN CloseOf(i, Newest(i)) * n > Total(i) /\ (n < Aligned \/ CloseOf(i, Newest(i)) * Unit >= Slow(i))
Below(i) ==
  LET n == Cardinality(known[i]) IN CloseOf(i, Newest(i)) * n < Total(i) /\ (n < Aligned \/ CloseOf(i, Newest(i)) * Unit <= Slow(i))

TrueTrend(asof) ==
  IF \E i \in Indexes : known[i] = {} \/ Newest(i) > asof \/ asof > Newest(i) + Fresh THEN "UNKNOWN"
  ELSE IF \E i \in Indexes : Cardinality(known[i]) < Early
  THEN IF \A i \in Indexes : CloseOf(i, Newest(i)) >= Base THEN "BULLISH"
       ELSE IF \A i \in Indexes : CloseOf(i, Newest(i)) < Base THEN "BEARISH" ELSE "NEUTRAL"
  ELSE IF \A i \in Indexes : Above(i) THEN "BULLISH" ELSE IF \A i \in Indexes : Below(i) THEN "BEARISH" ELSE "NEUTRAL"

\* Whatever order bars, restarts and rebuilds come in, the trend a signal is judged by is that of today's minutes this
\* process was told of, each once; it never knows a later minute than the signal's, and says so when one index is old.
TrendIsTheSessions == \A m \in 0 .. now : Trend([i \in Indexes |-> Today(f[i])], m) = TrueTrend(m)

\* What the card calls open the gate admits: the signal of a bar that came in time is approved when the card showed
\* its strategy as able to trade on its side (trading_windows.py:130, "so the card flips with the gate").
CardIsTheGate ==
  out.some /\ out.open /\ (out.sig.side \in out.shown \/ out.sig.news = "extreme") => out.outcome = "APPROVED"
=============================================================================
