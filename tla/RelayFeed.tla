------------------------------- MODULE RelayFeed -------------------------------
(***************************************************************************)
(* The stock feed: from the relay's socket to the tick tape.  The reader   *)
(* puts frames on a bounded queue, a worker takes them off and publishes   *)
(* them; connection marks are published at once and overtake the queue.    *)
(* The tape keeps the prints of one symbol in whole seconds, forgets the   *)
(* oldest, and says of a window whether it is complete.                    *)
(* Sources: ingestion/stock_ws.py, core/event_bus.py, core/tick_tape.py,   *)
(* main.py (_handle_relay_status, the quote and trade handlers).           *)
(*                                                                         *)
(* Time is counted in parts of a second.  The market makes at most one     *)
(* print and one quote per part, all in one regular session; a print's id  *)
(* is its time.  Prices, sides and sizes are left out (TickTape has them). *)
(***************************************************************************)
EXTENDS Integers, Sequences, FiniteSets

CONSTANTS
  MaxTime,    \* bound: the last part of a second
  MaxEvents,  \* bound: prints, quotes, frames sent twice and connections lost, together
  Parts,      \* parts of a second
  QueueMax,   \* QUEUE_MAX_SIZE
  Keep,       \* keep_seconds
  RawCap,     \* raw_cap, the prints held
  Slack,      \* right_slack_ns, in parts
  TradeTail,  \* TRADE_TAIL_NS, in parts
  MinSpan,    \* min_minutes of session_delta, in parts (a minute is one second here)
  EarlyMarks, \* a mark may overtake the first frame of the session
  Late,       \* a frame may wait in the queue while time passes
  Upstream    \* the relay may lose its own connection to Alpaca

Times == 0 .. MaxTime
None  == -1
Frame == [k : {"trade", "quote", "up", "down"}, at : Times]

VARIABLES
  now, made,   \* the time, and the prints the market has made
  events,      \* how many events there have been
  linked,      \* the relay's own connection to Alpaca is up
  up, queue,   \* _connected, _queue
  status,      \* relay_statuses["stock"]
  open, outs,  \* _open_outage_ns, _outages
  tape         \* SymbolTape

vars == <<now, made, events, linked, up, queue, status, open, outs, tape>>

\* prints: how often each is stored; secs: the buckets; mark, tmark: the watermarks; from: session_start_ns;
\* bound: evicted_boundary_ns; since and mins: the session aggregates
NoTape == [prints |-> [t \in Times |-> 0], secs |-> {}, mark |-> None, tmark |-> None, from |-> None,
           bound |-> 0, since |-> None, mins |-> [t \in Times |-> 0]]

TypeOK ==
  /\ now \in Times /\ made \subseteq Times /\ events \in 0 .. MaxEvents /\ linked \in BOOLEAN /\ up \in BOOLEAN
  /\ queue \in Seq(Frame) /\ Len(queue) <= QueueMax
  /\ status \in {"none", "connected", "disconnected"}
  /\ open \in Times \cup {None} /\ outs \subseteq Times \X Times
  /\ tape.prints \in [Times -> Nat] /\ tape.secs \subseteq Times /\ tape.mins \in [Times -> Nat]

Init ==
  /\ now = 0 /\ made = {} /\ events = 0 /\ linked = TRUE
  /\ up = FALSE /\ queue = <<>> /\ status = "none" /\ open = None /\ outs = {} /\ tape = NoTape

-----------------------------------------------------------------------------
(* The tape                                                                *)

Sec(t)  == t \div Parts
Held(p) == Cardinality({t \in Times : p.prints[t] > 0})
MaxOf(a, b) == IF a > b THEN a ELSE b
Oldest(S) == CHOOSE s \in S : \A r \in S : s <= r

\* Fault: a second that was evicted is opened again
AdmitsTheEvicted(p, t) == ~(p.mark # None /\ Sec(t) < Sec(p.mark) - Keep)

\* _admissible: in retention and not in a second that was evicted
Admissible(p, t) == ~(p.mark # None /\ Sec(t) < Sec(p.mark) - Keep) /\ t >= p.bound

\* _evict_oldest: whole seconds only
EvictTo(p, keepers) ==
  LET gone == p.secs \ keepers
  IN IF gone = {} THEN p
     ELSE [p EXCEPT !.secs = keepers,
                    !.prints = [t \in Times |-> IF Sec(t) \in gone THEN 0 ELSE @[t]],
                    !.bound = MaxOf(@, ((CHOOSE s \in gone : \A r \in gone : r <= s) + 1) * Parts)]

\* _bucket and _advance: the watermark, then the seconds past retention
Advance(p, t) ==
  LET q == [p EXCEPT !.secs = @ \cup {Sec(t)}, !.mark = MaxOf(@, t), !.from = IF @ = None THEN t ELSE @]
  IN EvictTo(q, {s \in q.secs : s >= Sec(q.mark) - Keep})

\* the print cap: the oldest seconds go until the rest fits
UnderCap(p) ==
  LET Fits(k) == Cardinality({t \in Times : p.prints[t] > 0 /\ Sec(t) >= k}) <= RawCap
      cut == Oldest({k \in 0 .. MaxTime + 1 : Fits(k)})
  IN EvictTo(p, {s \in p.secs : s >= cut})

\* _touch_session: the first event of the session starts the aggregates
Touch(p, t) == [p EXCEPT !.since = IF @ = None THEN t ELSE @]

OnQuote(p, t) == IF Admissible(p, t) THEN Touch(Advance(p, t), t) ELSE p

\* on_trade: a print with the id of a stored one is a duplicate
OnTrade(p, t) ==
  IF ~Admissible(p, t) THEN p
  ELSE LET q == Advance(p, t)
       IN IF q.prints[t] > 0 THEN q
          ELSE LET r == Touch(UnderCap([q EXCEPT !.prints[t] = @ + 1, !.tmark = MaxOf(@, t)]), t)
               IN IF t >= r.since THEN [r EXCEPT !.mins[Sec(t)] = @ + 1] ELSE r

\* note_reconnect: the aggregates start again, with what was printed from here on
Restarted(p) == IF p.from = None THEN p ELSE [p EXCEPT !.since = now, !.mins = [t \in Times |-> 0]]

\* Fault: an outage is over once the link is back
MarkForgetful(s) ==
  /\ status' = s
  /\ open' = IF s = "connected" THEN None ELSE IF open = None THEN now ELSE open
  /\ tape' = (IF s = "connected" THEN Restarted(tape) ELSE tape) /\ UNCHANGED outs

\* _handle_relay_status: only a change of the status is an outage or its end
Mark(s) ==
  /\ status' = s
  /\ CASE s # "connected" /\ status = "connected" ->
            open' = (IF open = None THEN now ELSE open) /\ UNCHANGED <<outs, tape>>
       [] s = "connected" /\ status = "disconnected" ->
            /\ outs' = IF open = None THEN outs ELSE outs \cup {<<open, now>>}
            /\ open' = None /\ tape' = Restarted(tape)
       [] OTHER -> UNCHANGED <<open, outs, tape>>

-----------------------------------------------------------------------------
(* The client                                                              *)

\* _read_loop: bars, prints and marks make room by taking out the oldest frame, whatever it is
Enqueue(f) ==
  queue' = CASE Len(queue) < QueueMax -> Append(queue, f)
             [] f.k # "quote" -> Append(Tail(queue), f)
             [] OTHER -> queue

Market(k) ==
  /\ events < MaxEvents /\ events' = events + 1
  /\ k = "trade" => now \notin made
  /\ made' = IF k = "trade" THEN made \cup {now} ELSE made
  /\ IF up /\ linked THEN Enqueue([k |-> k, at |-> now]) ELSE UNCHANGED queue
  /\ UNCHANGED <<now, linked, up, status, open, outs, tape>>

\* the relay sends a print again
Again(t) ==
  /\ events < MaxEvents /\ events' = events + 1
  /\ up /\ t \in made
  /\ tape.prints[t] > 0 \/ tape.bound > t
  /\ Enqueue([k |-> "trade", at |-> t])
  /\ UNCHANGED <<now, made, linked, up, status, open, outs, tape>>

\* the relay's own notice, a frame like any other: no print or later frame has its stamp; a loss while no
\* client is there, which nobody is told of, is left out
Link ==
  /\ Upstream /\ up
  /\ events < MaxEvents /\ events' = events + 1
  /\ now \notin made /\ now < MaxTime /\ now' = now + 1
  /\ Late \/ queue = <<>>
  /\ linked' = ~linked
  /\ Enqueue([k |-> IF linked THEN "down" ELSE "up", at |-> now])
  /\ UNCHANGED <<made, up, status, open, outs, tape>>

\* _reconnect_loop: banner, login and subscriptions succeed, "connected" is published, then frames are read
Connect ==
  /\ ~up /\ up' = TRUE
  /\ now \notin made      \* no print has the very stamp of the mark
  /\ Mark("connected")
  /\ UNCHANGED <<now, made, events, linked, queue>>

\* the connection ends, or an attempt fails: "disconnected"; the queue is kept
Drop ==
  /\ up \/ status # "disconnected"
  /\ events < MaxEvents /\ events' = events + 1
  /\ EarlyMarks \/ tape.from # None \/ queue = <<>>
  /\ up' = FALSE
  /\ Mark("disconnected")
  /\ UNCHANGED <<now, made, linked, queue>>

\* _process_queue_loop: "upstream_disconnected" has "connected" in it
StatusOf(k) == "connected"

Work ==
  /\ queue # <<>> /\ queue' = Tail(queue)
  /\ LET f == Head(queue)
     IN CASE f.k = "trade" -> tape' = OnTrade(tape, f.at) /\ UNCHANGED <<status, open, outs>>
          [] f.k = "quote" -> tape' = OnQuote(tape, f.at) /\ UNCHANGED <<status, open, outs>>
          [] OTHER -> Mark(StatusOf(f.k))
  /\ UNCHANGED <<now, made, events, linked, up>>

Pass ==
  /\ now < MaxTime /\ now' = now + 1
  /\ Late \/ queue = <<>>
  /\ UNCHANGED <<made, events, linked, up, queue, status, open, outs, tape>>

Next ==
  \/ \E k \in {"trade", "quote"} : Market(k)
  \/ \E t \in Times : Again(t)
  \/ Link \/ Connect \/ Drop \/ Work \/ Pass

Spec == Init /\ [][Next]_vars

-----------------------------------------------------------------------------
(* What the tape says                                                      *)

\* _outage_in
OutageIn(t0, t1) == (open # None /\ open < t1) \/ \E o \in outs : o[1] < t1 /\ o[2] >= t0

\* coverage_of the window [t0, t1)
Complete(t0, t1) ==
  /\ tape.from # None /\ t0 < t1 /\ t0 >= MaxOf(tape.from, tape.bound)
  /\ tape.mark >= t1 - Slack /\ tape.tmark >= t1 - TradeTail
  /\ ~OutageIn(t0, t1)

\* session_delta is given for [since, t), and counts the minutes that began before t
DeltaGiven(t) ==
  /\ tape.since # None /\ open = None
  /\ tape.mark >= t - Slack /\ tape.tmark >= t - TradeTail
  /\ t - tape.since >= MinSpan
CountedTo(t) == {x \in Times : Sec(tape.since) <= Sec(x) /\ Sec(x) < Sec(t)}

Delivered == {t \in Times : t < tape.mark}

\* A window the tape calls complete holds every print the market made in it up to the watermark, each once:
\* no outage, eviction or repeated frame is hidden in it, however late the worker is ("any tick window
\* overlapping one is incomplete", _handle_relay_status; coverage_of).
WindowWhole ==
  \A t0, t1 \in Times :
    Complete(t0, t1) => \A t \in made \cap Delivered : t0 <= t /\ t < t1 => tape.prints[t] = 1

\* The session's flow, when it is given, counts each print since the feed last came back once, and none
\* from before, though the tape has evicted their seconds (session_delta).
SessionWhole ==
  \A t \in Times :
    DeltaGiven(t) =>
      \A s \in {Sec(x) : x \in CountedTo(t)} :
        LET due == {x \in made : Sec(x) = s /\ x >= tape.since}
        IN Cardinality(due \cap Delivered) <= tape.mins[s] /\ tape.mins[s] <= Cardinality(due)
=============================================================================
