------------------------------ MODULE ResearchRows ------------------------------
(***************************************************************************)
(* The research rows of one intraday trade: the signal, the bars folded    *)
(* into its best price while shares were held, and the row written when    *)
(* the trade is over, which says of itself whether its coverage is         *)
(* complete.  Bars may be lost, fills may be booked late, and a restart    *)
(* may lose the research state, which a checkpoint leaves out when it is   *)
(* too large.                                                              *)
(* Sources: core/research_tracker.py, core/research.py, main.py (the calls *)
(* of the tracker around a bar and a fill).                                *)
(*                                                                         *)
(* Time is in whole minutes, which is all the rows look at.  Only the high *)
(* is followed; the low is its mirror.  Quantities, stops, contexts and    *)
(* the swing rows are left out, and so is what a row repeats of the other  *)
(* modules' state.                                                         *)
(***************************************************************************)
EXTENDS Integers, FiniteSets

CONSTANTS
  MaxTime,    \* bound: the last minute
  Highs,      \* prices
  MaxLegs,    \* bound: fills of the trade
  Delay,      \* bound: how many minutes late a fill may be booked
  MaxFaults   \* bound: lost bars, lost states and lost rows

Times == 0 .. MaxTime
None  == -1

VARIABLES
  now,
  high,      \* what the market did in each minute that has passed; None: nothing traded, no bar
  due,       \* the minute of the next bar to be handled
  br,        \* the bracket: none, pending, active, over, cancelled
  opened,    \* the minute of its signal
  legs,      \* the fills on the ledger
  rs,        \* the tracker's state of the bracket
  queue,     \* rows handed to the writer
  rows,      \* rows on disk
  faults

vars == <<now, high, due, br, opened, legs, rs, queue, rows, faults>>

NewExcursion == [high |-> None, first |-> None, last |-> None, gap |-> 0, bars |-> {},
                 prev |-> [high |-> None, last |-> None, bars |-> {}, some |-> FALSE]]
NoState == [on |-> FALSE, started |-> FALSE, linked |-> FALSE, entries |-> {}, fills |-> 0, exc |-> NewExcursion]

Leg == [entry : BOOLEAN, at : Times, px : Highs, n : 1 .. MaxLegs]
Row == [kind : {"trade", "final"}, complete : BOOLEAN, high : Highs \cup {None}, bars : SUBSET Times,
        entryAt : Times \cup {None}, exitAt : Times \cup {None}]

TypeOK ==
  /\ now \in Times /\ due \in Times /\ high \in [Times -> Highs \cup {None}] /\ opened \in Times
  /\ br \in {"none", "pending", "active", "over", "cancelled"} /\ legs \subseteq Leg
  /\ rows \subseteq Row /\ queue \subseteq Row /\ faults \in 0 .. MaxFaults

Init ==
  /\ now = 0 /\ high = [t \in Times |-> None] /\ due = 0 /\ opened = 0
  /\ br = "none" /\ legs = {} /\ rs = NoState /\ queue = {} /\ rows = {} /\ faults = 0

Over(a, b) == IF a > b THEN a ELSE b
Top(S) == CHOOSE x \in S : \A y \in S : y <= x
Low(S) == CHOOSE x \in S : \A y \in S : y >= x
At(side) == {l.at : l \in {x \in legs : x.entry = side}}

-----------------------------------------------------------------------------
(* The best price                                                          *)

\* fold_bar: a bar at or before the last one is a duplicate
FoldBar(exc, t, h) ==
  IF exc.last # None /\ t <= exc.last THEN exc
  ELSE [high |-> Over(exc.high, h), last |-> t, bars |-> exc.bars \cup {t},
        first |-> IF exc.first = None THEN t ELSE exc.first,
        gap |-> IF exc.last = None THEN exc.gap ELSE Over(exc.gap, t - exc.last - 1),
        prev |-> [high |-> exc.high, last |-> exc.last, bars |-> exc.bars, some |-> TRUE]]

\* fold_price, into the state before the last bar too
FoldPrice(exc, px) ==
  [exc EXCEPT !.high = Over(@, px), !.prev.high = IF exc.prev.some THEN Over(@, px) ELSE @]

\* complete_bracket folds the ledger's fills in again: the tracker may have missed some
FoldLegs(exc, ls) == IF ls = {} THEN exc ELSE FoldPrice(exc, Top({l.px : l \in ls}))

\* excursion_summary: the last bar is set aside when it is of the exit minute or later
SetAside(exc, exitAt) ==
  IF exc.last # None /\ exc.last >= exitAt /\ exc.prev.some
  THEN [exc EXCEPT !.high = exc.prev.high, !.last = exc.prev.last, !.bars = exc.prev.bars] ELSE exc

\* Fault: nothing is asked of the bars after the exit minute
CoverageOfTheBars(e, entryAt, exitAt, started) ==
  /\ started
  /\ exitAt - entryAt - 1 >= 1 =>
       e.first # None /\ e.last # None /\ e.first <= entryAt + 1 /\ e.last >= exitAt - 1
  /\ e.gap <= 1

CoverageComplete(e, entryAt, exitAt, started) ==
  /\ started
  /\ exitAt - entryAt - 1 >= 1 =>
       e.first # None /\ e.last # None /\ e.first <= entryAt + 1 /\ e.last >= exitAt - 1
  /\ ~(e.last # None /\ e.last >= exitAt)
  /\ e.gap <= 1

-----------------------------------------------------------------------------
(* The tracker                                                             *)

\* open_bracket, with the row of the signal
Opened == [NoState EXCEPT !.on = TRUE, !.started = TRUE, !.linked = TRUE]

\* _entry_for: the bracket of a first fill that is not an entry was opened before the recording
EntryFor(s, started) == IF s.on THEN s ELSE [NoState EXCEPT !.on = TRUE, !.started = started]

\* on_fill; a late fill of a trade whose row is written is let go
OnFill(s, l) ==
  LET e == EntryFor(s, l.entry)
  IN IF ~s.on /\ br = "over" THEN s
     ELSE [e EXCEPT !.entries = IF l.entry THEN @ \cup {l.at} ELSE @, !.fills = @ + 1, !.exc = FoldPrice(@, l.px)]

\* on_bar: from the minute after the entry, while shares are held
OnBar(s, t) ==
  IF s.on /\ br = "active" /\ s.entries # {} /\ t >= Low(s.entries) + 1
  THEN [s EXCEPT !.exc = FoldBar(@, t, high[t])] ELSE s

\* _prune_one: an entry that will never fill
Prunable(s) == s.on /\ br = "cancelled" /\ s.fills = 0
FinalRow == [kind |-> "final", complete |-> FALSE, high |-> None, bars |-> {}, entryAt |-> None, exitAt |-> None]
Pruned(s) == IF Prunable(s) THEN NoState ELSE s
EntryNotFilled(s) == IF Prunable(s) /\ s.linked THEN {FinalRow} ELSE {}

\* complete_bracket
TradeRow(s, ls) ==
  LET entryAt == Low({l.at : l \in {x \in ls : x.entry}})
      exitAt  == Top({l.at : l \in {x \in ls : ~x.entry}})
      e       == SetAside(FoldLegs(s.exc, ls), exitAt)
  IN [kind |-> "trade", complete |-> CoverageComplete(e, entryAt, exitAt, s.on /\ s.started),
      high |-> e.high, bars |-> e.bars, entryAt |-> entryAt, exitAt |-> exitAt]

-----------------------------------------------------------------------------
(* The runtime                                                             *)

\* A signal is executed: its bracket waits for the entry to fill
Signal ==
  /\ br = "none" /\ br' = "pending" /\ opened' = now /\ rs' = Opened
  /\ UNCHANGED <<now, high, due, legs, queue, rows, faults>>

\* The booked fill: on_fill from the engine's listener, then the row when nothing is left
Booked(s, l, done) ==
  LET s2 == OnFill(s, l)
  IN /\ legs' = legs \cup {l}
     /\ br' = IF done THEN "over" ELSE IF br = "over" THEN br ELSE "active"
     /\ rs' = IF done THEN NoState ELSE s2
     /\ queue' = queue \cup IF done THEN {TradeRow(s2, legs \cup {l})} ELSE {}

\* What may fill: the entry and its later parts, or an exit of shares held, the last of them or not
MayFill(l, done) ==
  /\ l.n = Cardinality(legs) + 1 /\ l.at >= opened
  /\ IF l.entry THEN ~done /\ br \in {"pending", "active"} /\ (At(TRUE) # {} => l.at >= Top(At(TRUE)))
     ELSE br = "active" /\ l.at >= Low(At(TRUE))
  /\ l.n = MaxLegs => done

\* A minute's bar: the tracker folds it in, prunes, and then the engine's fills of that bar
Bar ==
  /\ due < now /\ high[due] # None /\ due' = due + 1
  /\ LET s == OnBar(rs, due)
     IN \/ /\ rs' = Pruned(s) /\ queue' = queue \cup EntryNotFilled(s) /\ UNCHANGED <<br, legs>>
        \/ \E l \in Leg, done \in BOOLEAN :
             l.at = due /\ l.px <= high[due] /\ MayFill(l, done) /\ Booked(s, l, done)
  /\ UNCHANGED <<now, high, opened, rows, faults>>

\* Nothing traded, or the bar is lost on the way
NoBar ==
  /\ due < now /\ due' = due + 1
  /\ faults' = IF high[due] = None THEN faults ELSE faults + 1
  /\ faults' <= MaxFaults
  /\ UNCHANGED <<now, high, br, opened, legs, rs, queue, rows>>

\* A fill of a quote, or of Alpaca, booked at once or late
BookFill(l, done) ==
  /\ l.at \in now - Delay .. now /\ (l.at < now => high[l.at] # None /\ l.px <= high[l.at])
  /\ MayFill(l, done) /\ Booked(rs, l, done)
  /\ UNCHANGED <<now, high, due, opened, rows, faults>>

\* The entry dies without a fill
Cancel ==
  /\ br = "pending" /\ br' = "cancelled"
  /\ UNCHANGED <<now, high, due, opened, legs, rs, queue, rows, faults>>

\* A restart from a checkpoint that left the research state out
LoseState ==
  /\ faults < MaxFaults /\ faults' = faults + 1 /\ rs.on /\ rs' = NoState
  /\ UNCHANGED <<now, high, due, br, opened, legs, queue, rows>>

\* The writer's batch, or its loss: no space, an error, a full queue
Drain ==
  /\ queue # {} /\ queue' = {}
  /\ \/ /\ rows' = rows \cup {r \in queue : \A q \in rows : q.kind # r.kind} /\ UNCHANGED faults
     \/ /\ faults < MaxFaults /\ faults' = faults + 1 /\ UNCHANGED rows
  /\ UNCHANGED <<now, high, due, br, opened, legs, rs>>

\* A minute passes: what was filled in it at a price is part of its bar.  Bars are handled within a
\* minute, and what the market does once the trade is over is of no matter
Tick(h) ==
  /\ br # "over" /\ now < MaxTime /\ now' = now + 1 /\ due >= now - 1
  /\ \A l \in legs : l.at = now => h # None /\ l.px <= h
  /\ high' = [high EXCEPT ![now] = h]
  /\ UNCHANGED <<due, br, opened, legs, rs, queue, rows, faults>>

Next ==
  \/ Signal \/ Bar \/ NoBar \/ Cancel \/ LoseState \/ Drain
  \/ \E l \in Leg, done \in BOOLEAN : BookFill(l, done)
  \/ \E h \in Highs \cup {None} : Tick(h)

Spec == Init /\ [][Next]_vars

-----------------------------------------------------------------------------
(* Properties                                                              *)

\* A row that calls its coverage complete tells the truth: its bars are those between the minute of the
\* entry and the minute of the exit, both ends included, with no two minutes in a row missing, and its
\* best price is the best of those bars and of every fill, whatever was lost, late or restarted
\* (research.py:434-440, "an honest coverage verdict").
CoverageIsHonest ==
  \A r \in queue \cup rows : r.kind = "trade" /\ r.complete =>
    /\ r.bars \subseteq r.entryAt + 1 .. r.exitAt - 1
    /\ r.exitAt - r.entryAt > 1 => {r.entryAt + 1, r.exitAt - 1} \subseteq r.bars
    /\ \A t \in r.entryAt + 1 .. r.exitAt - 2 : t \in r.bars \/ t + 1 \in r.bars
    /\ r.high = Top({high[t] : t \in r.bars} \cup {l.px : l \in legs})
=============================================================================
