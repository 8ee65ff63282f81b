-------------------------------- MODULE VixGauge --------------------------------
(***************************************************************************)
(* The VIX print that scales positions and stops: polled from the relay,   *)
(* judged fresh or stale, turned into a regime, held while the feed is     *)
(* dark, saved and restored.                                               *)
(* Sources: ingestion/vix_client.py, main.py (handle_vix_print),           *)
(* strategies/adaptation.py, models/events.py.                             *)
(*                                                                         *)
(* A value stands for its regime, 1 (LOW) to 4 (CRISIS).  Time is counted  *)
(* in ticks of a day; the relay answers with its last print, however old.  *)
(* The half size at midday and the strategies' own use of the print are    *)
(* left out.                                                               *)
(***************************************************************************)
EXTENDS Integers, Sequences, FiniteSetsExt

CONSTANTS
  Calendar,           \* the days: "trade", "holiday" or "weekend"
  DayLen, OpenAt, CloseAt,   \* ticks of a day, of the open and of the last tick of the session
  MaxAge, Poll,       \* VIX_MAX_STALE_AGE_SEC, poll_interval
  Values,             \* regimes the index reaches
  MaxPrints, MaxFaults   \* bounds: prints after the first, failed polls and crashes

VARIABLES
  now,      \* the clock
  index,    \* the last print the relay has
  prints,
  up,
  polled,   \* when the last poll of this process ended
  eng,      \* the adaptation engine: size and stop multipliers by their regime
  basis,    \* ghost: when the print behind eng.size was made, and its regime
  disk,     \* eng and basis of the last checkpoint
  faults

vars == <<now, index, prints, up, polled, eng, basis, disk, faults>>

None    == -1
Neutral == 2          \* the regime of size and stop multiplier 1
End     == Len(Calendar) * DayLen - 1

Reading == [at : -DayLen .. End, val : 1 .. 4]
Engine == [size : 1 .. 4, stop : 1 .. 4]

TypeOK ==
  /\ now \in 0 .. End /\ index \in Reading /\ prints \in 0 .. MaxPrints /\ up \in BOOLEAN
  /\ polled \in None .. End /\ eng \in Engine /\ basis \in Reading
  /\ disk \in [eng : Engine, basis : Reading] /\ faults \in 0 .. MaxFaults

Init ==
  /\ now = 0 /\ index \in [at : {-DayLen + CloseAt}, val : Values] /\ prints = 0
  /\ up = TRUE /\ polled = None
  /\ eng = [size |-> 2, stop |-> 2] /\ basis = [index EXCEPT !.val = Neutral]
  /\ disk = [eng |-> eng, basis |-> basis] /\ faults = 0

-----------------------------------------------------------------------------
(* The judgement of a print                                                *)

DayOf(t)   == t \div DayLen + 1
Minute(t)  == t % DayLen
Weekday(t) == Calendar[DayOf(t)] # "weekend"       \* a holiday is a weekday like any other

MarketHours(t) == Weekday(t) /\ Minute(t) \in OpenAt .. CloseAt

\* The close of the last weekday that has had one; before the first day, that of the day before
LastClose(t) ==
  Max({-DayLen + CloseAt} \cup
      {c \in 0 .. t : Weekday(c) /\ Minute(c) = CloseAt})

(* Fault: outside of the session every print is current.                   *)
StaleByAge(print) == MarketHours(now) /\ now - print.at > MaxAge

IsStale(print) ==
  IF MarketHours(now) THEN now - print.at > MaxAge ELSE print.at < LastClose(now)

-----------------------------------------------------------------------------
(* The engine                                                              *)

(* Fault: a stale print changes nothing.                                   *)
Unguarded(e) == e

\* apply_stale_vix_guard: the size goes to neutral, the stop stays
StaleGuard(e) == IF e.size < Neutral THEN [e EXCEPT !.size = Neutral] ELSE e

\* on_vix_print
Adapted(print) == [size |-> print.val, stop |-> print.val]

\* handle_vix_print: saved only when something changed
Handle(e, b) ==
  /\ eng' = e /\ basis' = b
  /\ disk' = IF e # eng THEN [eng |-> e, basis |-> b] ELSE disk

PollAnswered ==
  /\ up = TRUE
  /\ polled' = now
  /\ IF IsStale(index) THEN Handle(StaleGuard(eng), basis) ELSE Handle(Adapted(index), index)
  /\ UNCHANGED <<now, index, prints, up, faults>>

\* 503, another status, a timeout: the cached print or the fallback, both stale
PollFailed ==
  /\ up = TRUE /\ faults < MaxFaults
  /\ faults' = faults + 1 /\ polled' = now
  /\ Handle(StaleGuard(eng), basis)
  /\ UNCHANGED <<now, index, prints, up>>

Crash ==
  /\ up = TRUE /\ faults < MaxFaults
  /\ faults' = faults + 1 /\ up' = FALSE /\ polled' = None
  /\ UNCHANGED <<now, index, prints, eng, basis, disk>>

Start ==
  /\ up = FALSE
  /\ up' = TRUE /\ eng' = disk.eng /\ basis' = disk.basis
  /\ UNCHANGED <<now, index, prints, polled, disk, faults>>

-----------------------------------------------------------------------------
(* The clock and the index                                                 *)

\* A poll is never later than its interval, and one follows a start at once
Tick ==
  /\ now < End
  /\ up => polled # None /\ now < polled + Poll
  /\ now' = now + 1
  /\ UNCHANGED <<index, prints, up, polled, eng, basis, disk, faults>>

\* The index prints on trading days only, but at any hour of them
NewPrint(val) ==
  /\ prints < MaxPrints /\ Calendar[DayOf(now)] = "trade"
  /\ prints' = prints + 1 /\ index' = [at |-> now, val |-> val]
  /\ UNCHANGED <<now, up, polled, eng, basis, disk, faults>>

Next ==
  \/ PollAnswered \/ PollFailed \/ Crash \/ Start
  \/ Tick
  \/ \E val \in Values : NewPrint(val)

Spec == Init /\ [][Next]_vars

-----------------------------------------------------------------------------
(* Properties                                                              *)

\* The last close of a session that was held
RealClose(t) ==
  Max({-DayLen + CloseAt} \cup
      {c \in 0 .. t : Calendar[DayOf(c)] = "trade" /\ Minute(c) = CloseAt})

\* Polls since the open, the close or the start may be one interval away
Settled == polled # None /\ \A t \in (now - Poll) .. now : t >= 0 /\ (MarketHours(t) <=> MarketHours(now))

(* The desk never trades larger than neutral on a VIX it cannot vouch for: *)
(* in the session the print behind a larger size is younger than the limit *)
(* and one poll, outside of it no older than the last close that was held, *)
(* through dark feeds, holidays, weekends and restarts.  And what the desk *)
(* holds is never larger than that print allows.                           *)
LargeNeedsFresh ==
  up /\ polled # None =>
    /\ eng.size < Neutral =>
         /\ eng.size = basis.val
         /\ Settled /\ MarketHours(now) => now - basis.at <= MaxAge + Poll
         /\ Settled /\ ~MarketHours(now) => basis.at >= RealClose(now)
    /\ eng.size >= basis.val /\ eng.stop = basis.val

=============================================================================
