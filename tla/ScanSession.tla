-------------------------------- MODULE ScanSession --------------------------------
(***************************************************************************)
(* The scan of one stock over the opening session: the reducer that reads  *)
(* the tape print by print, the session that repairs it from REST at every *)
(* cutoff, from a recent anchor or from the open, and the wave that makes  *)
(* a card of it, while REST goes on correcting rows it has already shown.  *)
(* Sources: strategies/orbs/orbproc.py (SymbolReducer, Session),           *)
(* strategies/orbs/scanner.py (scan_symbol).                               *)
(*                                                                         *)
(* The tape is one print or none per tick.  A print holds its price and    *)
(* the gates it passes: those of the board (delay, quote freshness, depth, *)
(* order flow imbalance) or, besides, the flow rules; the quotes those     *)
(* gates are computed from are part of the print.  The other stocks, which *)
(* share only the cutoff, the reference values, the wick trap and its      *)
(* session lockout, the trace of research and the receipt on disk, which   *)
(* is never read, are left out.  The code refuses a stock whose first      *)
(* print comes after the opening range when it feeds it; here its reducer  *)
(* is kept and has no card.                                                *)
(***************************************************************************)
EXTENDS Integers, FiniteSets, FiniteSetsExt

CONSTANTS
  LastTick,               \* bound: ticks of the session
  Minute,                 \* ticks of a minute
  OrbEnd, Secondary,      \* the end of the opening range, the start of the second entry window
  Repair, Horizon, Reconcile, \* repair_window, correction_horizon, reconcile_interval, in ticks
  MinPrints, MaxStale,    \* REST_MIN_TRADES, REST_MAX_STALE_S
  Prints,                 \* <<price, gates>>
  CandleRule, FlowRules,  \* config.CANDLE_RULE, flow.entry_rules_on()
  MaxDelay,               \* bound: from the cutoff to its scan
  MaxRevisions, MaxFaults \* bounds

None == <<>>
NoTime == -1

VARIABLES
  clock,     \* the present tick: the tape before it has been made
  tape,      \* what REST shows now
  revised,   \* ghost: when each row was last corrected
  ses,       \* the session of the child process
  shown,     \* ghost: the rows the committed reducer was last shown
  seenAt,    \* ghost: when the committed reducer was last advanced
  faults

vars == <<clock, tape, revised, ses, shown, seenAt, faults>>

Ticks == 0 .. LastTick - 1

\* SymbolReducer.reset; primary and the five others are the ticks of the triggers they latched
Empty ==
  [n |-> 0, open |-> 0, close |-> 0, hi |-> 0, lo |-> 0, newest |-> NoTime,
   primary |-> NoTime, secondary |-> NoTime, candle |-> NoTime, candle2 |-> NoTime,
   flow |-> NoTime, flow2 |-> NoTime]

\* Session
New == [red |-> Empty, mark |-> NoTime, full |-> NoTime, anchors |-> {}, last |-> NoTime, failed |-> FALSE]

TypeOK ==
  /\ clock \in 0 .. LastTick /\ tape \in [Ticks -> Prints \cup {None}] /\ faults \in 0 .. MaxFaults
  /\ ses.mark \in -1 .. LastTick /\ ses.full \in -1 .. ses.mark /\ ses.last \in -1 .. LastTick

Init ==
  /\ clock = 0 /\ tape = [t \in Ticks |-> None] /\ revised = [t \in Ticks |-> NoTime] /\ ses = New
  /\ shown = tape /\ seenAt = NoTime /\ faults = 0

-----------------------------------------------------------------------------
(* The reducer                                                             *)

Direction(r, px) == IF px > r.hi THEN "long" ELSE IF px < r.lo THEN "short" ELSE "none"

\* signals.candle_direction
Candle(r) == IF r.close > r.open THEN "long" ELSE IF r.close < r.open THEN "short" ELSE "none"

\* Fault: a latch keeps the last break
LatchLast(held, t, offered) == IF offered THEN t ELSE held
\* The first tick a latch was offered
Latch(held, t, offered) == IF held = NoTime /\ offered THEN t ELSE held

\* _trade_event: each latch keeps the first break that may fill it
Break(r, t, p) ==
  LET direction == Direction(r, p[1])
      passed    == direction # "none" /\ p[2] # "refused"
      agreed    == passed /\ direction = Candle(r)
      flowed    == passed /\ p[2] = "flow" /\ (CandleRule => agreed)
      late      == t >= Secondary
  IN [r EXCEPT !.primary = Latch(@, t, passed), !.secondary = Latch(@, t, passed /\ late),
               !.candle  = Latch(@, t, agreed), !.candle2   = Latch(@, t, agreed /\ late),
               !.flow    = Latch(@, t, flowed), !.flow2     = Latch(@, t, flowed /\ late)]

\* _trade_row
Feed(r, t, p) ==
  IF p = None THEN r
  ELSE LET counted == [r EXCEPT !.n = @ + 1, !.newest = t]
       IN IF t < OrbEnd
          THEN [counted EXCEPT !.open = IF @ = 0 THEN p[1] ELSE @, !.close = p[1],
                               !.hi = IF p[1] > @ THEN p[1] ELSE @,
                               !.lo = IF @ = 0 \/ p[1] < @ THEN p[1] ELSE @]
          ELSE Break(counted, t, p)

\* The rows of from .. to - 1, fed in order
Replay(r, rows, from, to) ==
  LET fed[t \in from .. to] == IF t = from THEN r ELSE Feed(fed[t - 1], t - 1, rows[t - 1])
  IN fed[to]

-----------------------------------------------------------------------------
(* The repair of one cutoff                                                *)

\* Fault: the reducer is read from the open only at the first scan
FirstScanOnly(s, end) == s.mark = NoTime \/ end < s.mark \/ end - s.mark > Horizon
\* _process_symbol: the whole session is read again
NeedsFull(s, end) ==
  s.mark = NoTime \/ s.full = NoTime \/ end < s.mark \/ end - s.mark > Horizon \/ end - s.full >= Reconcile

RepairTarget(end) == IF end > Repair THEN end - Repair ELSE 0

\* Fault: the newest anchor
AnchorsKept(s, end) == {a \in s.anchors : a.at <= end}
\* The anchors from before the repair window
AnchorsBefore(s, end) == {a \in s.anchors : a.at <= RepairTarget(end)}

\* So it is without an anchor to start from; one taken at the open is no full reading
StartsOver(s, end) == NeedsFull(s, end) \/ AnchorsBefore(s, end) = {}

FromOpen == [at |-> 0, red |-> Empty]
\* Where the repair starts, and from which state
StartOf(s, end) ==
  IF StartsOver(s, end) THEN FromOpen
  ELSE CHOOSE a \in AnchorsBefore(s, end) : \A b \in AnchorsBefore(s, end) : b.at <= a.at

\* The minutes of the repair window, and the cutoff
Boundaries(start, end) ==
  LET floor == (RepairTarget(end) \div Minute) * Minute
      first == IF start > floor THEN start ELSE floor
  IN {b \in first .. end : (b - first) % Minute = 0} \cup {end}

\* Fault: a boundary's own events are in its snapshot
SnapshotAfter(a, b, rows, end) == [at |-> b, red |-> Replay(a.red, rows, a.at, IF b < end THEN b + 1 ELSE b)]
\* The state before the boundary's own events
Snapshot(a, b, rows, end) == [at |-> b, red |-> Replay(a.red, rows, a.at, b)]

\* Nothing is committed of a scan that failed
Failed(s, end) == [s EXCEPT !.failed = TRUE, !.last = end]

Committed(s, a, rows, end) ==
  [s EXCEPT !.red = Replay(a.red, rows, a.at, end), !.mark = end, !.last = end, !.failed = FALSE,
            !.anchors = {Snapshot(a, b, rows, end) : b \in Boundaries(a.at, end)},
            !.full = IF StartsOver(s, end) THEN end ELSE @]

\* advance: going back resets the session
Prepared(s, end) == IF s.last # NoTime /\ end < s.last THEN New ELSE s

\* The fetch of the rows is one reading of REST
Process(s, end) ==
  \E a \in {StartOf(s, end)} :
    /\ ses' = Committed(s, a, tape, end)
    /\ shown' = [t \in Ticks |-> IF t \in a.at .. end - 1 THEN tape[t] ELSE IF a.at = 0 THEN None ELSE shown[t]]
    /\ seenAt' = clock
    /\ UNCHANGED faults

Fail(s, end) ==
  /\ faults < MaxFaults /\ faults' = faults + 1 /\ ses' = Failed(s, end) /\ UNCHANGED <<shown, seenAt>>

Advance(end) ==
  /\ end \in clock - MaxDelay .. clock /\ end > 0 /\ end # ses.last
  /\ (end < ses.last => faults < MaxFaults)
  /\ Process(Prepared(ses, end), end) \/ Fail(Prepared(ses, end), end)
  /\ UNCHANGED <<clock, tape, revised>>

\* retry_symbols: the same cutoff, for a stock that was refused
Retry ==
  /\ ses.last # NoTime /\ (ses.failed \/ ses.mark # ses.last)
  /\ Process(ses, ses.last) \/ Fail(ses, ses.last)
  /\ UNCHANGED <<clock, tape, revised>>

-----------------------------------------------------------------------------
(* The wave                                                                *)

\* freeze_quality_pass
Quality(r, end) == r.n >= MinPrints /\ end - r.newest <= MaxStale

\* The card: first is the break the board counts, trade the one that may be traded
Card(first, trade, blocked) == [kind |-> "card", first |-> first, trade |-> trade, blocked |-> blocked]

\* wave_result
CardOf(r, end, window) ==
  LET pick(a, b) == IF window = "primary" THEN a ELSE b
      first      == pick(r.primary, r.secondary)
      agreeing   == pick(r.candle, r.candle2)
      passing    == pick(r.flow, r.flow2)
      byCandle   == IF CandleRule /\ agreeing # NoTime THEN agreeing ELSE first
  IN IF ~Quality(r, end) \/ r.open = 0 THEN [kind |-> "ERROR"]
     ELSE IF first = NoTime THEN [kind |-> "none"]
     ELSE Card(first,
               IF FlowRules /\ passing # NoTime THEN passing ELSE byCandle,
               \/ FlowRules /\ passing = NoTime
               \/ CandleRule /\ agreeing = NoTime /\ ~(FlowRules /\ passing # NoTime))

\* wave: a stock whose scan failed, or stands at another cutoff, has no card
Answer(s, end, window) ==
  IF s.failed \/ s.mark # end THEN [kind |-> "ERROR"] ELSE CardOf(s.red, end, window)

-----------------------------------------------------------------------------
(* The scan of the whole tape at once                                      *)

FirstOf(ticks) == IF ticks = {} THEN NoTime ELSE Min(ticks)

\* The prints inside the scan's bounds
Kept(rows, end) == {t \in 0 .. end - 1 : rows[t] # None}

\* scan_symbol, which the reducer is the incremental twin of
ScanSymbol(rows, end, window) ==
  LET kept     == Kept(rows, end)
      orb      == {t \in kept : t < OrbEnd}
      prices   == {rows[t][1] : t \in orb}
      green    == rows[Max(orb)][1] > rows[Min(orb)][1]
      red      == rows[Max(orb)][1] < rows[Min(orb)][1]
      out(t)   == rows[t][1] > Max(prices) \/ rows[t][1] < Min(prices)
      allowed(t) == (rows[t][1] > Max(prices) /\ green) \/ (rows[t][1] < Min(prices) /\ red)
      passed   == {t \in kept \ orb : out(t) /\ rows[t][2] # "refused" /\ (window = "secondary" => t >= Secondary)}
      agreed   == {t \in passed : allowed(t)}
      flowed   == {t \in IF CandleRule THEN agreed ELSE passed : rows[t][2] = "flow"}
      candleOk == ~CandleRule \/ agreed # {}
      flowOk   == FlowRules /\ flowed # {}
  IN IF Cardinality(kept) < MinPrints \/ orb = {} \/ end - Max(kept) > MaxStale THEN [kind |-> "ERROR"]
     ELSE IF passed = {} THEN [kind |-> "none"]
     ELSE Card(FirstOf(passed),
               FirstOf(IF flowOk THEN flowed ELSE IF CandleRule /\ agreed # {} THEN agreed ELSE passed),
               ~flowOk /\ (FlowRules \/ ~candleOk))

-----------------------------------------------------------------------------
(* Around them                                                             *)

Tick(p) ==
  /\ clock < LastTick /\ clock' = clock + 1 /\ tape' = [tape EXCEPT ![clock] = p]
  /\ UNCHANGED <<revised, ses, shown, seenAt, faults>>

\* A print comes late to REST, is corrected or taken back
Revise(t, p) ==
  /\ Cardinality({u \in Ticks : revised[u] # NoTime}) < MaxRevisions /\ t < clock /\ tape[t] # p
  /\ tape' = [tape EXCEPT ![t] = p] /\ revised' = [revised EXCEPT ![t] = clock]
  /\ UNCHANGED <<clock, ses, shown, seenAt, faults>>

\* The child process is started again: restart_policy "full_rest_bootstrap"
Restart ==
  /\ faults < MaxFaults /\ faults' = faults + 1 /\ ses' = New /\ ses # New
  /\ UNCHANGED <<clock, tape, revised, shown, seenAt>>

Next ==
  \/ \E p \in Prints \cup {None} : Tick(p)
  \/ \E t \in Ticks, p \in Prints \cup {None} : Revise(t, p)
  \/ \E end \in 1 .. LastTick : Advance(end)
  \/ Retry
  \/ Restart

Spec == Init /\ [][Next]_vars

-----------------------------------------------------------------------------
(* Properties                                                              *)

\* A card is what one scan of the whole tape would have made of it, each print counted once: the rows it
\* rests on are those REST showed at that scan for all of the repair window, and an older correction can be
\* missing only if it was made within the last reconciliation interval
\* (orbproc.py:149, "Incremental twin of scanner.scan_symbol"; 812, "replay preserves multiplicity";
\* 956, "Older revisions can remain unseen until the next full reconciliation").
CardIsTheTape ==
  ~ses.failed /\ ses.mark = ses.last /\ ses.mark # NoTime =>
    LET held == {w \in {"primary", "secondary"} : Answer(ses, ses.last, w).kind # "ERROR"}
    IN /\ \A w \in held : Answer(ses, ses.last, w) = ScanSymbol(shown, ses.last, w)
       /\ held # {} => \A t \in 0 .. ses.last - 1 :
            (revised[t] < seenAt /\ (t >= ses.last - Repair \/ revised[t] < ses.last - Reconcile))
              => shown[t] = tape[t]
=============================================================================
