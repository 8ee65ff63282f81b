------------------------------- MODULE DailyBars -------------------------------
(***************************************************************************)
(* From minutes to a swing decision: the aggregator that keeps the minutes *)
(* of a session from the stream and from the relay's history, the daily    *)
(* bars it writes, and the scan after the close that judges them by the    *)
(* rules of the panic dip.                                                 *)
(* Source: strategies/swing_indicators.py; in main.py                      *)
(* _swing_close_with_backfill, _startup_backfill and the close directive;  *)
(* the scan of strategies/swing_panic_dip.py.                              *)
(*                                                                         *)
(* One certified stock and the benchmark.  A session has Minutes minutes,  *)
(* a bar is its close: open, high, low and volume, the ATR of the stop and *)
(* the rounding of the indicators are left out.  Dates 1 .. Len(Seed) are  *)
(* the seed file's.  Slots, orders and fills are in SwingArm.              *)
(***************************************************************************)
EXTENDS Integers, Sequences, FiniteSets, Functions, FiniteSetsExt

CONSTANTS
  Seed,            \* the closes of the seed file: [stock, QQQ] per date
  Dates,           \* bound: the dates
  Minutes, Slack,  \* minutes of a session, and SWING_COVERAGE_SLACK
  Interim,         \* the price of every minute but the last
  Closings,        \* the closes a session may have: [stock, QQQ]
  Long, Span, Short, Dip, Time,  \* the periods 200, 60 and 5, the RSI bound and the time stop
  MaxFaults        \* bound: lost bars, failed fetches, restarts, days the process is down

Symbols == {"stock", "QQQ"}
First == Len(Seed) + 1

VARIABLES
  day, made,    \* the date, and the minutes of it the market has made
  next,         \* the minute of each stream to deliver next
  mins, live,   \* the aggregator: the closes of <<date, minute>>, those seen live,
  flight,       \* and the date of the daily bar in flight, 0 if none
  store,        \* the daily bars: date -> close
  scans,        \* backfills under way: what for, the date, and up to which minute the relay was asked
  marks,        \* the dates of the last close directive and of the last scan
  held, staged, \* days the stock is held, and what is staged for the next open
  out,          \* the decision of the last step
  truth, whole, \* the closes the sessions had, and the dates judged on whole minutes
  faults

vars == <<day, made, next, mins, live, flight, store, scans, marks, held, staged, out, truth, whole, faults>>

None == [date |-> 0, entry |-> FALSE, exit |-> FALSE]
NoMinutes == [s \in Symbols |-> [k \in {} |-> 0]]

TypeOK ==
  /\ day \in First .. Dates /\ made \in 0 .. Minutes /\ next \in [Symbols -> 1 .. Minutes + 1]
  /\ \A s \in Symbols : live[s] \subseteq DOMAIN mins[s] /\ flight[s] \in 0 .. Dates
  /\ scans \subseteq [by : {"close", "boot", "fill"}, date : 1 .. Dates, upTo : 0 .. Minutes]
  /\ held \in 0 .. Dates /\ staged \in {"", "BUY", "SELL"} /\ faults \in 0 .. MaxFaults

Init ==
  /\ day = First /\ made = 0 /\ next = [s \in Symbols |-> 1]
  /\ mins = NoMinutes /\ live = [s \in Symbols |-> {}] /\ flight = [s \in Symbols |-> 0]
  /\ store = [s \in Symbols |-> [d \in 1 .. Len(Seed) |-> Seed[d][s]]]
  /\ scans = {} /\ marks = [closed |-> First - 1, scan |-> First - 1]
  /\ held = 0 /\ staged = "" /\ out = None
  /\ truth = [d \in 1 .. Len(Seed) |-> Seed[d]] /\ whole = 1 .. Len(Seed) /\ faults = 0

-----------------------------------------------------------------------------
(* The rules, on closes in the order of their dates                        *)

Closes(bars, upTo) ==
  LET ds == {d \in DOMAIN bars : d <= upTo}
  IN [i \in 1 .. Cardinality(ds) |-> bars[CHOOSE d \in ds : Cardinality({e \in ds : e <= d}) = i]]
LastOf(c) == c[Len(c)]
SumLast(c, n) == LET f[i \in 0 .. n] == IF i = 0 THEN 0 ELSE f[i - 1] + c[Len(c) - n + i] IN f[n]

\* calculate_sma: the close against the mean of the last n
AboveMean(c, n) == Len(c) >= n /\ LastOf(c) * n > SumLast(c, n)

\* calculate_rsi2: the smoothed gains (sign 1) or losses (-1), times 2 ^ (changes - 1)
Smoothed(c, sign) ==
  LET Change(i) == IF sign * (c[i + 1] - c[i]) > 0 THEN sign * (c[i + 1] - c[i]) ELSE 0
      f[i \in 2 .. Len(c) - 1] == IF i = 2 THEN Change(1) + Change(2) ELSE f[i - 1] + Change(i) * 2 ^ (i - 2)
  IN f[Len(c) - 1]
Panicked(c)   == Len(c) >= 3 /\ Smoothed(c, -1) > 0 /\ Dip * Smoothed(c, 1) < Smoothed(c, -1)
Recovered(c)  == Len(c) >= 3 /\ Smoothed(c, 1) > 0 /\ 3 * Smoothed(c, 1) > 7 * Smoothed(c, -1)

\* calculate_relative_strength_60d: on the dates both have
Leads(b, upTo) ==
  LET ds == {d \in DOMAIN b["stock"] \cap DOMAIN b["QQQ"] : d <= upTo}
      Nth(i) == CHOOSE d \in ds : Cardinality({e \in ds : e <= d}) = i
      n == Cardinality(ds)
  IN /\ n > Span
     /\ b["stock"][Nth(n)] * b["QQQ"][Nth(n - Span)] >= b["QQQ"][Nth(n)] * b["stock"][Nth(n - Span)]

\* evaluate_swing_qualification
Qualifies(b, date) ==
  LET c == Closes(b["stock"], date) IN AboveMean(c, Long) /\ Leads(b, date) /\ Panicked(c)

\* evaluate_swing_exit
ShouldExit(b, date, days) ==
  LET c == Closes(b["stock"], date) IN AboveMean(c, Short) \/ Recovered(c) \/ days >= Time

-----------------------------------------------------------------------------
(* The aggregator                                                          *)

Price(s, d, m) == IF m < Minutes THEN Interim ELSE truth[d][s]

\* on_minute_bar: the minutes of an earlier session go, a minute stored already is replaced
OnMinute(s, m) ==
  LET kept == {k \in DOMAIN mins[s] : k[1] = day}
  IN /\ mins' = [mins EXCEPT ![s] = [k \in kept \cup {<<day, m>>} |-> IF k = <<day, m>> THEN Price(s, day, m) ELSE @[k]]]
     /\ live' = [live EXCEPT ![s] = (@ \cap kept) \cup {<<day, m>>}]
     /\ flight' = [flight EXCEPT ![s] = day]

\* merge_backfill: it fills what is missing and refreshes what it had filled
Merged(g, s, rows) ==
  [k \in DOMAIN g[s] \cup DOMAIN rows |-> IF k \in DOMAIN rows /\ k \notin live[s] THEN rows[k] ELSE g[s][k]]

Coverage(g, s, date) == Cardinality({k \in DOMAIN g[s] : k[1] = date})

\* Fault: enough minutes are enough, whichever they are
EnoughMinutes(g, date) == {s \in Symbols : Coverage(g, s, date) < Minutes - Slack}
\* The symbols whose session is short: too few minutes, or not the last
ShortOf(g, date) == {s \in Symbols : Coverage(g, s, date) < Minutes - Slack \/ <<date, Minutes>> \notin DOMAIN g[s]}

\* finalize_daily_bar, of a bar in flight of that date: the close of its last minute, over any bar of that date
Finalized(g, fl, s, date) ==
  IF fl[s] # date THEN store[s]
  ELSE LET ms == {k[2] : k \in {j \in DOMAIN g[s] : j[1] = date}}
       IN [d \in DOMAIN store[s] \cup {date} |-> IF d = date THEN g[s][<<date, Max(ms)>>] ELSE store[s][d]]

-----------------------------------------------------------------------------
(* The scan                                                                *)

\* What the relay answers for a date: minutes that ended, up to upTo
Rows(s, date, upTo) == [k \in {date} \X (1 .. upTo) |-> Price(s, date, k[2])]

\* evaluate_market_close: exits always, entries unless they are withheld
Decide(b, date, short) ==
  LET exit  == held > 0 /\ ShouldExit(b, date, held)
      entry == ~short /\ held = 0 /\ staged = "" /\ Qualifies(b, date)
  IN /\ out' = [date |-> date, entry |-> entry, exit |-> exit]
     /\ staged' = IF exit THEN "SELL" ELSE IF entry THEN "BUY" ELSE staged

\* One round of _swing_close_with_backfill: fetch, merge, and either wait for the next round or judge what is there
Round(sc, ok, upTo, again) ==
  LET g     == IF ok THEN [s \in Symbols |-> Merged(mins, s, Rows(s, sc.date, upTo))] ELSE mins
      fl    == IF ok THEN [s \in Symbols |-> sc.date] ELSE flight
      short == ShortOf(g, sc.date) # {}
      b     == [s \in Symbols |-> Finalized(g, fl, s, sc.date)]
      done  == {s \in Symbols : fl[s] = sc.date}
  IN /\ again => short
     /\ IF again
        THEN /\ mins' = g /\ flight' = fl /\ out' = None
             /\ UNCHANGED <<live, store, scans, marks, staged, whole>>
        ELSE /\ store' = b
             /\ mins' = [s \in Symbols |-> IF s \in done THEN NoMinutes[s] ELSE g[s]]
             /\ live' = [s \in Symbols |-> IF s \in done THEN {} ELSE live[s]]
             /\ flight' = [s \in Symbols |-> IF s \in done THEN 0 ELSE fl[s]]
             /\ scans' = scans \ {sc} /\ marks' = [marks EXCEPT !.scan = sc.date]
             /\ whole' = IF short THEN whole ELSE whole \cup {sc.date}
             /\ Decide(b, sc.date, short)

ScanRound(sc, ok, upTo, again) ==
  /\ sc \in scans /\ sc.by # "fill"
  /\ faults' = IF ok THEN faults ELSE faults + 1
  /\ faults' <= MaxFaults
  /\ Round(sc, ok, upTo, again)
  /\ UNCHANGED <<day, made, next, held, truth>>

\* _startup_backfill within the session: the minutes so far when it asked; it does not try again
Fill(sc, ok) ==
  /\ sc \in scans /\ sc.by = "fill" /\ sc.date = day
  /\ scans' = scans \ {sc}
  /\ faults' = IF ok THEN faults ELSE faults + 1
  /\ faults' <= MaxFaults
  /\ IF ok THEN /\ mins' = [s \in Symbols |-> Merged(mins, s, Rows(s, day, sc.upTo))]
                /\ flight' = [s \in Symbols |-> day]
     ELSE UNCHANGED <<mins, flight>>
  /\ out' = None
  /\ UNCHANGED <<day, made, next, live, store, marks, held, staged, truth, whole>>

-----------------------------------------------------------------------------
(* The day                                                                 *)

\* The market makes a minute; the last one is the close of the session
Minute(c) ==
  /\ made < Minutes /\ made' = made + 1
  /\ made' < Minutes => c = CHOOSE x \in Closings : TRUE
  /\ truth' = IF made' = Minutes THEN [d \in DOMAIN truth \cup {day} |-> IF d = day THEN c ELSE truth[d]] ELSE truth
  /\ out' = None
  /\ UNCHANGED <<day, next, mins, live, flight, store, scans, marks, held, staged, whole, faults>>

LiveBar(s) ==
  /\ next[s] <= made
  /\ next' = [next EXCEPT ![s] = @ + 1]
  /\ OnMinute(s, next[s])
  /\ out' = None
  /\ UNCHANGED <<day, made, store, scans, marks, held, staged, truth, whole, faults>>

LostBar(s) ==
  /\ next[s] <= made /\ faults < MaxFaults
  /\ next' = [next EXCEPT ![s] = @ + 1] /\ faults' = faults + 1
  /\ out' = None
  /\ UNCHANGED <<day, made, mins, live, flight, store, scans, marks, held, staged, truth, whole>>

\* The MARKET_CLOSED directive, once a day
CloseDirective ==
  /\ made = Minutes /\ marks.closed < day
  /\ marks' = [marks EXCEPT !.closed = day]
  /\ scans' = scans \cup {[by |-> "close", date |-> day, upTo |-> 0]}
  /\ out' = None
  /\ UNCHANGED <<day, made, next, mins, live, flight, store, held, staged, truth, whole, faults>>

\* What a start does, k minutes into date d: a close scan that never completed, or today's minutes
Started(d, k) ==
  LET closed == IF k = Minutes THEN d ELSE d - 1
      bench  == Max(DOMAIN store["QQQ"])
  IN IF 0 < k /\ k < Minutes THEN {[by |-> "fill", date |-> d, upTo |-> k]}
     ELSE IF bench < closed \/ marks.scan # closed THEN {[by |-> "boot", date |-> closed, upTo |-> 0]} ELSE {}

Forgotten ==
  mins' = NoMinutes /\ live' = [s \in Symbols |-> {}] /\ flight' = [s \in Symbols |-> 0]

\* The bars are in every checkpoint; minutes and scans are not
Restart ==
  /\ faults < MaxFaults /\ faults' = faults + 1
  /\ Forgotten /\ scans' = Started(day, made) /\ out' = None
  /\ UNCHANGED <<day, made, next, store, marks, held, staged, truth, whole>>

Opens == held' = (CASE staged = "BUY" -> 1 [] staged = "SELL" -> 0 [] held > 0 -> held + 1 [] OTHER -> 0) /\ staged' = ""

\* The boundary resets the aggregator; the staged order executes at the open
NextDay ==
  /\ made = Minutes /\ day < Dates /\ marks.closed = day
  /\ day' = day + 1 /\ made' = 0 /\ next' = [s \in Symbols |-> 1]
  /\ Forgotten /\ Opens /\ out' = None
  /\ UNCHANGED <<store, scans, marks, truth, whole, faults>>

\* The process is down for a whole session and started before the next
Outage(c) ==
  /\ made = Minutes /\ day + 2 <= Dates /\ faults < MaxFaults
  /\ faults' = faults + 1
  /\ day' = day + 2 /\ made' = 0 /\ next' = [s \in Symbols |-> 1]
  /\ truth' = [d \in DOMAIN truth \cup {day + 1} |-> IF d = day + 1 THEN c ELSE truth[d]]
  /\ Forgotten /\ Opens /\ scans' = Started(day + 2, 0) /\ out' = None
  /\ UNCHANGED <<store, marks, whole>>

Next ==
  \/ \E c \in Closings : Minute(c) \/ Outage(c)
  \/ \E s \in Symbols : LiveBar(s) \/ LostBar(s)
  \/ CloseDirective \/ Restart \/ NextDay
  \/ \E sc \in scans, ok \in BOOLEAN, upTo \in 0 .. Minutes, again \in BOOLEAN :
       /\ upTo >= Minutes - 1
       /\ ~ok => upTo = Minutes
       /\ ScanRound(sc, ok, upTo, again)
  \/ \E sc \in scans, ok \in BOOLEAN : Fill(sc, ok)

Spec == Init /\ [][Next]_vars
-----------------------------------------------------------------------------
(* Properties                                                              *)

\* The closes judged: of the date judged what the market made, of earlier dates what was recorded then
Recorded == [s \in Symbols |-> [d \in DOMAIN store[s] |-> IF d = out.date THEN truth[d][s] ELSE store[s][d]]]

\* The weight Wilder's smoothing gives the i-th change from the end of n
Weight(i, n) == IF i = n THEN 1 ELSE 2 ^ (n - i - 1)
TrueGain(c, sign) ==
  LET n == Len(c) - 1
      Change(i) == sign * (c[Len(c) - i + 1] - c[Len(c) - i])
  IN MapThenSumSet(LAMBDA i : IF Change(i) > 0 THEN Change(i) * Weight(i, n) ELSE 0, 1 .. n)

\* An entry is staged only by a scan whose session was whole, and the four rules hold on the closes the market made
\* ("Daily bars are finalized at 16:00 ET close before signal qualification"), whatever bars were lost, filled from the
\* relay or replaced, and however often the scan was started.
EntryIsADip ==
  out.entry =>
    LET c == Closes(Recorded["stock"], out.date)
        q == Closes(Recorded["QQQ"], out.date)
    IN /\ out.date \in whole
       /\ Len(c) >= Long /\ LastOf(c) * Long > SumLast(c, Long)
       /\ TrueGain(c, -1) > Dip * TrueGain(c, 1)
       /\ DOMAIN store["stock"] = DOMAIN store["QQQ"] =>
            LastOf(c) * q[Len(q) - Span] >= LastOf(q) * c[Len(c) - Span]

\* A daily bar whose minutes were whole never changes again
WholeBarStays == [][\A d \in whole, s \in Symbols : d \in DOMAIN store[s] => store'[s][d] = store[s][d]]_vars
=============================================================================
