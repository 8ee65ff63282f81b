------------------------------- MODULE TriPlan -------------------------------
(***************************************************************************)
(* One fixed morning plan (TSLA or CDE) from its confirmed signal to its   *)
(* recorded trade: entry, tranches, native protection, closes.  Sources:   *)
(* core/tri_execution.py, the lifecycle of strategies/tri_engine.py, and   *)
(* core/broker.py.                                                         *)
(*                                                                         *)
(* The event loop ticks the plan: it collects the answer of a request and  *)
(* starts the next one, at most one per tranche and one for the entry.  A  *)
(* worker thread makes the request in several round trips, between which   *)
(* Alpaca fills and the loop goes on.  The plan, its book and its orders   *)
(* are saved together after a tick that changed them.                      *)
(*                                                                         *)
(* Left out: the search for the signal, sizing and the combined risk,      *)
(* replay, the short side (mirrored), pacing.  The two legs of an OCO are  *)
(* one order.  Prices are left out: a fill may turn out to be too risky.   *)
(*                                                                         *)
(* An operator whose comment starts with "Fault:" is not part of the model *)
(* but a plausible bug in the definition after it.                         *)
(***************************************************************************)
EXTENDS Integers, FiniteSets, Functions

CONSTANTS
  Ordered,     \* shares of the entry order
  Halves,      \* TRUE: two tranches (TSLA), FALSE: one (CDE)
  MaxCloses,   \* bound: close orders of a tranche
  MaxFaults,   \* bound: things that go wrong
  LateArrival  \* TRUE: a POST that timed out may reach Alpaca after it was looked for

ASSUME TriAssumption == Ordered \in Nat \ {0} /\ MaxCloses \in Nat /\ MaxFaults \in Nat /\ Halves \in BOOLEAN

\* entry window, after it, long after it, exit due (and past the entry cutoff), market closed, next session
DUE == 1   AFTER == 2   STUCK == 3   EXIT == 4   CLOSED == 5   NEXT == 6

Tranches == 1 .. Ordered
Entry    == <<"entry", 0, 0>>
Oco(t)   == <<"oco", t, 0>>
Close(t, k) == <<"close", t, k>>
Sells == {Oco(t) : t \in Tranches} \cup {Close(t, k) : t \in Tranches, k \in 1 .. MaxCloses}
Keys  == {Entry} \cup Sells

VARIABLES
  now,     \* the time
  up,      \* the process runs
  p,       \* the plan with its book (AsymmetricDualStrategy, its orders and fills)
  saved,   \* the plan in the last checkpoint
  jobs,    \* the request under way: of the entry (0) and of each tranche
  alp,     \* the orders at Alpaca
  shares,  \* the shares Alpaca holds
  faults   \* how much went wrong

vars == <<now, up, p, saved, jobs, alp, shares, faults>>

-----------------------------------------------------------------------------
(* Types                                                                   *)

Active == {"ENTERING", "HOLDING", "EXITING"}
Qty    == 0 .. Ordered
\* an order as the plan knows it: shares booked, answered at least once, final
Rec  == [booked : Qty, seen : BOOLEAN, final : BOOLEAN]
New  == [booked |-> 0, seen |-> FALSE, final |-> FALSE]
Tranche   == [qty : Qty, closed : Qty, exit : BOOLEAN, bound : BOOLEAN, final : BOOLEAN, n : 0 .. MaxCloses]
NoTranche == [qty |-> 0, closed |-> 0, exit |-> FALSE, bound |-> FALSE, final |-> FALSE, n |-> 0]
Plan == [phase : {"WAITING_ENTRY", "SKIPPED", "CLOSED"} \cup Active, exit : BOOLEAN, bad : BOOLEAN,
         final : BOOLEAN, tr : [Tranches -> Tranche], ord : [Keys -> Rec]]
\* an answer: shares filled and whether the order is final, or why there is none
Row   == [f : Qty, final : BOOLEAN, why : {"row", "none", "defer", "error", "hard"}]
Job   == [at : {"idle", "ask", "post", "done"}, key : Keys, leave : BOOLEAN, qty : Qty, row : Row]
NoRow == [f |-> 0, final |-> FALSE, why |-> "none"]
NoJob == [at |-> "idle", key |-> Entry, leave |-> FALSE, qty |-> 0, row |-> NoRow]
Order == [st : {"none", "wire", "gone", "open", "final"}, filled : Qty, qty : Qty]

TypeOK ==
  /\ now \in DUE .. NEXT /\ up \in BOOLEAN /\ p \in Plan /\ saved \in Plan
  /\ jobs \in [{0} \cup Tranches -> Job] /\ alp \in [Keys -> Order]
  /\ shares \in -Ordered .. Ordered /\ faults \in 0 .. MaxFaults

Fails    == faults < MaxFaults /\ faults' = faults + 1
Unfaulty == UNCHANGED faults

-----------------------------------------------------------------------------
(* What a tick makes of the answers.  w is the plan, its requests, whether *)
(* a step of this tick failed, and the tranches whose protection was       *)
(* refused in it.                                                          *)

Ends(q) == [q EXCEPT !.exit = TRUE, !.phase = "EXITING",
                          !.tr = [t \in Tranches |-> [@[t] EXCEPT !.exit = q.tr[t].qty > 0]]]

(* skip: a trade that has begun is ended, one that has not is off          *)
Skip(q) ==
  IF q.phase \in Active THEN [q EXCEPT !.bad = TRUE, !.exit = TRUE] ELSE [q EXCEPT !.phase = "SKIPPED"]

Bad(w)       == [w EXCEPT !.p.bad = TRUE, !.failed = TRUE]
Idle(w, s)   == [w EXCEPT !.jobs[s] = NoJob]
Asked(w, s, j) == [w EXCEPT !.jobs[s] = [j EXCEPT !.at = "ask"]]

(* Fault: each answer is booked in full                                    *)
NewsAll(rec, row) == row.f

(* _book: an answer counts by what is new in it                            *)
News(rec, row) == row.f - rec.booked

Fits(w, k, row, size) == News(w.p.ord[k], row) \in 0 .. size - w.p.ord[k].booked

Booked(w, k, row, size) ==
  IF ~Fits(w, k, row, size) THEN Bad(w)
  ELSE [w EXCEPT !.p.ord[k] = [booked |-> @.booked + News(@, row), final |-> row.final,
                               seen |-> @.seen \/ row.why = "row"]]

BookedSale(w, t, k, row, size) ==
  LET b == Booked(w, k, row, size)
  IN  [b EXCEPT !.p.tr[t].closed = @ + b.p.ord[k].booked - w.p.ord[k].booked]

-----------------------------------------------------------------------------
(* The entry                                                               *)

Filled(q) == q.ord[Entry].booked
Given(q)  == SumFunction([t \in Tranches |-> q.tr[t].qty])
Opened(q) == {t \in Tranches : q.tr[t].qty > 0}

(* _open_tranches: the filled shares in their fixed parts, once; what fills *)
(* after that is a part of its own, to be closed.                          *)
OpenTranches(q, risky) ==
  LET n     == Filled(q)
      parts == IF Halves /\ n > 1 THEN <<n \div 2, n - n \div 2>> ELSE <<n>>
      leave == q.exit \/ risky
  IN  IF Opened(q) # {} \/ n = 0 THEN q
      ELSE [q EXCEPT !.tr = [t \in Tranches |-> IF t \in DOMAIN parts
                                                 THEN [NoTranche EXCEPT !.qty = parts[t], !.exit = leave]
                                                 ELSE @[t]],
                     !.exit = leave, !.bad = @ \/ risky, !.phase = IF leave THEN "EXITING" ELSE "HOLDING"]

OpenLate(q) ==
  IF Opened(q) = {} \/ Filled(q) <= Given(q) THEN q
  ELSE [q EXCEPT !.tr[Cardinality(Opened(q)) + 1] =
          [NoTranche EXCEPT !.qty = Filled(q) - Given(q), !.exit = TRUE]]

CancelEntry(q) == q.exit \/ now > DUE \/ Filled(q) \in 1 .. Ordered - 1

(* Fault: an entry request that failed has sent nothing                     *)
EntryAnswerFailed(row) == IF row.why = "row" THEN row ELSE [f |-> 0, final |-> TRUE, why |-> "hard"]

(* A refusal is a final answer                                             *)
EntryAnswer(row) == IF row.why = "hard" THEN [row EXCEPT !.final = TRUE] ELSE row

(* What a plan makes of its entry: nothing was filled, or what was filled   *)
(* becomes its tranches                                                    *)
EntrySeen(q, risky) ==
  IF q.final /\ Filled(q) = 0 THEN [q EXCEPT !.phase = "SKIPPED"]
  ELSE OpenLate(IF q.final \/ q.exit \/ now >= STUCK THEN OpenTranches(q, risky) ELSE q)

EntryPoll(w, risky) ==
  LET j   == w.jobs[0]
      row == EntryAnswer(j.row)
      b   == Booked(Idle(w, 0), Entry, row, Ordered)
  IN  CASE ~w.p.final /\ j.at = "idle" ->
             Asked(w, 0, [NoJob EXCEPT !.leave = CancelEntry(w.p), !.qty = Ordered])
        [] ~w.p.final /\ j.at = "done" /\ ~row.final /\ row.why # "row" ->
             [Idle(w, 0) EXCEPT !.failed = row.why = "error"]
        [] ~w.p.final /\ j.at = "done" /\ (row.final \/ row.why = "row") ->
             IF ~Fits(w, Entry, row, Ordered) THEN b
             ELSE [b EXCEPT !.p = EntrySeen([b.p EXCEPT !.final = row.final], risky)]
        [] OTHER -> w

-----------------------------------------------------------------------------
(* A tranche                                                               *)

Left(tr) == tr.qty - tr.closed

(* A refused protection ends the trade; so does an unexpected answer       *)
Protect(w, t) ==
  LET j == w.jobs[t]   tr == w.p.tr[t]   i == Idle(w, t)
  IN  CASE j.at = "idle" ->
             Asked(w, t, [NoJob EXCEPT !.key = Oco(t), !.qty = Left(tr), !.leave = tr.exit \/ Left(tr) = 0])
        [] j.at = "done" /\ j.row.why = "row" ->
             LET b == BookedSale(i, t, Oco(t), j.row, tr.qty)
             IN  [b EXCEPT !.p.tr[t].bound = Fits(w, Oco(t), j.row, tr.qty)]
        [] j.at = "done" /\ j.row.why = "none" -> [i EXCEPT !.p.tr[t].final = TRUE]
        [] j.at = "done" /\ j.row.why = "hard" ->
             [i EXCEPT !.p.tr[t].final = TRUE, !.p.tr[t].exit = TRUE, !.p.bad = TRUE, !.p.exit = TRUE,
                       !.refused = @ \cup {t}]
        [] j.at = "done" /\ j.row.why = "error" -> [i EXCEPT !.failed = TRUE]
        [] j.at = "done" /\ j.row.why = "defer" -> i
        [] OTHER -> w

(* Fault: a close order that ended unfilled is not followed by another       *)
NextCloseOnce(w, t) == 1

(* A close order of what is left: the last one, or a new one after it ended *)
NextClose(w, t) ==
  LET tr == w.p.tr[t]
  IN  IF tr.n > 0 /\ ~w.p.ord[Close(t, tr.n)].final THEN tr.n ELSE tr.n + 1

AskClose(w, t) ==
  LET k == NextClose(w, t)
  IN  IF k > MaxCloses THEN w
      ELSE Asked([w EXCEPT !.p.tr[t].n = k], t,
                 [NoJob EXCEPT !.key = Close(t, k), !.qty = Left(w.p.tr[t]) + w.p.ord[Close(t, k)].booked])

CloseTranche(w, t) ==
  LET j == w.jobs[t]   i == Idle(w, t)
  IN  CASE j.at = "idle" /\ Left(w.p.tr[t]) > 0 -> AskClose(w, t)
        [] j.at = "done" /\ j.row.why = "row" -> BookedSale(i, t, j.key, j.row, j.qty)
        [] j.at = "done" /\ j.row.why = "hard" -> Bad(i)
        [] j.at = "done" /\ j.row.why \notin {"row", "hard"} -> [i EXCEPT !.failed = @ \/ j.row.why = "error"]
        [] OTHER -> w

Poll(w, t) ==
  LET j == w.jobs[t]   tr == w.p.tr[t]   i == Idle(w, t)
      b  == BookedSale(i, t, Oco(t), j.row, tr.qty)
      fin == [b EXCEPT !.p.tr[t].final = j.row.final]
  IN  CASE j.at = "idle" -> Asked(w, t, [NoJob EXCEPT !.key = Oco(t), !.leave = tr.exit \/ Left(tr) = 0])
        [] j.at = "done" /\ j.row.why # "row" -> [i EXCEPT !.failed = TRUE]
        [] j.at = "done" /\ j.row.why = "row" /\ ~Fits(w, Oco(t), j.row, tr.qty) -> b
        [] j.at = "done" /\ j.row.why = "row" /\ Fits(w, Oco(t), j.row, tr.qty) ->
             [fin EXCEPT !.p.tr[t].exit = @ \/ (j.row.final /\ Left(b.p.tr[t]) > 0)]
        [] OTHER -> w

(* _manage_tranche: protection first, then, once it is final, the close     *)
Due(w, t) == [w EXCEPT !.p.tr[t].exit = w.p.tr[t].qty > 0 /\ (@ \/ now >= EXIT \/ w.p.exit)]

Protected(w, t) ==
  LET tr == w.p.tr[t]
  IN  CASE tr.qty = 0 \/ tr.final -> w
        [] tr.qty > 0 /\ ~tr.final /\ ~tr.bound -> Protect(w, t)
        [] tr.qty > 0 /\ ~tr.final /\ tr.bound -> Poll(w, t)

Closed(w, t) ==
  LET tr == w.p.tr[t]
  IN  IF tr.final /\ tr.exit /\ Left(tr) > 0 /\ t \notin w.refused THEN CloseTranche(w, t) ELSE w

-----------------------------------------------------------------------------
(* The event loop                                                          *)

(* on_time_tick, and the start of _tick_one                                *)
Clocked(q) ==
  LET c == CASE q.phase = "WAITING_ENTRY" /\ now > DUE -> Skip(q)
             [] q.phase \in Active /\ now = NEXT -> [q EXCEPT !.bad = TRUE, !.exit = TRUE]
             [] OTHER -> q
  IN  IF c.bad /\ c.phase \in Active THEN Ends(c) ELSE c

(* _maybe_complete: every tranche closed and its protection final           *)
Complete(q) ==
  IF q.phase \in Active /\ q.final /\ Opened(q) # {}
       /\ \A t \in Opened(q) : q.tr[t].closed = q.tr[t].qty /\ q.tr[t].final
  THEN [q EXCEPT !.phase = "CLOSED"] ELSE q

(* _tick_one of a trade that has begun: one failure does not keep the other *)
(* tranches from being managed                                             *)
Ticked(q, risky) ==
  LET m[t \in 0 .. Ordered] ==
        IF t = 0 THEN {EntryPoll(w, risky) : w \in {[p |-> q, jobs |-> jobs, failed |-> FALSE, refused |-> {}]}}
                 ELSE {Closed(x, t) : x \in {Protected(y, t) : y \in {Due(w, t) : w \in m[t - 1]}}}
  IN  {IF w.failed THEN w ELSE [w EXCEPT !.p = Complete(w.p)] : w \in m[Ordered]}

(* The checkpoint after a tick may fail                                    *)
Saves == \/ saved' = p' /\ Unfaulty
         \/ p' # p /\ saved' = saved /\ Fails

Tick ==
  /\ up /\ UNCHANGED <<now, up, alp, shares>>
  /\ \E q \in {Clocked(p)} :
       \/ q.phase \notin Active /\ p' = q /\ UNCHANGED jobs
       \/ q.phase \in Active /\ \E risky \in BOOLEAN : \E w \in Ticked(q, risky) : p' = w.p /\ jobs' = w.jobs
  /\ Saves

(* Fault: the order goes out though its intent is not saved                *)
PrepareUnsaved(durable) == p' = [p EXCEPT !.phase = "ENTERING"]

(* _prepare_entry: with a fresh quote, and nothing against the trade; the   *)
(* order is sent by a later tick, and only if its intent has been saved.    *)
Prepare(durable) ==
  p' = [p EXCEPT !.phase = IF durable THEN "ENTERING" ELSE "SKIPPED"]

TickEntry ==
  /\ up /\ p.phase = "WAITING_ENTRY" /\ now = DUE /\ UNCHANGED <<now, up, jobs, alp, shares>>
  /\ \/ Prepare(TRUE) /\ saved' = p' /\ Unfaulty
     \/ Prepare(FALSE) /\ UNCHANGED saved /\ Fails
     \/ p' = Skip(p) /\ saved' = p' /\ Unfaulty

(* request_exit: the operator, the flattening, the loss breaker; saved by a *)
(* later checkpoint                                                        *)
RequestExit ==
  /\ up /\ ~p.exit /\ p.phase \in Active \cup {"WAITING_ENTRY"}
  /\ p' = IF p.phase \in Active THEN Ends(p) ELSE Skip(p)
  /\ UNCHANGED <<now, up, saved, jobs, alp, shares, faults>>

-----------------------------------------------------------------------------
(* The worker threads                                                      *)

Reserved   == SumFunction([k \in {k \in Sells : alp[k].st = "open"} |-> alp[k].qty - alp[k].filled])
MarketOpen == now # CLOSED
Known(k)   == alp[k].st \in {"open", "final"}
Unknown(k) == alp[k].st \in {"none", "gone"} \/ (LateArrival /\ alp[k].st = "wire")
RowOf(o)   == [f |-> o.filled, final |-> o.st = "final", why |-> "row"]
Expired    == [f |-> 0, final |-> TRUE, why |-> "row"]

Answers(s, row) == jobs' = [jobs EXCEPT ![s].at = "done", ![s].row = row]
Without(s, why) == Answers(s, [NoRow EXCEPT !.why = why])
Goes(s)         == jobs' = [jobs EXCEPT ![s].at = "post"]

(* An order that is to go is cancelled, and read.  The cancel may do        *)
(* nothing.                                                                *)
ReadOrder(s, k, leave) ==
  /\ \/ leave /\ alp[k].st = "open" /\ alp' = [alp EXCEPT ![k].st = "final"] /\ Unfaulty
     \/ (~leave \/ alp[k].st # "open") /\ UNCHANGED alp /\ Unfaulty
     \/ leave /\ alp[k].st = "open" /\ UNCHANGED alp /\ Fails
  /\ Answers(s, RowOf(alp'[k]))

(* The entry order is looked for.  One that is not found counts as expired, *)
(* if Alpaca holds no shares, once it is too late to send it.               *)
AskEntry ==
  LET late == p.ord[Entry].seen \/ jobs[0].leave \/ now # DUE
  IN  \/ Known(Entry) /\ ReadOrder(0, Entry, jobs[0].leave)
      \/ /\ Unknown(Entry) /\ UNCHANGED <<alp, faults>>
         /\ \/ late /\ shares # 0 /\ now < EXIT /\ Without(0, "error")
            \/ late /\ (shares = 0 \/ now >= EXIT) /\ Answers(0, Expired)
            \/ ~late /\ ~p.exit /\ p.phase = "ENTERING" /\ Goes(0)
            \/ ~late /\ Without(0, "hard")

(* Protection is looked for, then sent, unless the tranche is to go         *)
AskProtect(t) ==
  \/ Known(Oco(t)) /\ ReadOrder(t, Oco(t), FALSE)
  \/ /\ Unknown(Oco(t)) /\ UNCHANGED <<alp, faults>>
     /\ CASE jobs[t].leave -> Without(t, "none")
          [] ~jobs[t].leave /\ ~MarketOpen -> Without(t, "defer")
          [] OTHER -> Goes(t)

(* A close is not sent for more than Alpaca holds                          *)
AskToClose(t) ==
  \/ Known(jobs[t].key) /\ ReadOrder(t, jobs[t].key, FALSE)
  \/ /\ Unknown(jobs[t].key) /\ UNCHANGED <<alp, faults>>
     /\ CASE ~MarketOpen -> Without(t, "none")
          [] MarketOpen /\ shares < jobs[t].qty -> Without(t, "hard")
          [] OTHER -> Goes(t)

(* The POST.  An id that Alpaca knows is looked up.  It refuses to sell     *)
(* what other orders reserve, but opens a short when nothing is held.      *)
Accepts(k, n) == ~Known(k) /\ (k = Entry \/ n <= shares - Reserved \/ (shares <= 0 /\ Reserved = 0))

Send(s) ==
  LET k == jobs[s].key   n == jobs[s].qty
      Placed(st) == alp' = [alp EXCEPT ![k] = [st |-> st, filled |-> 0, qty |-> n]]
  IN  \/ Accepts(k, n) /\ Placed("open") /\ Unfaulty /\ Answers(s, [NoRow EXCEPT !.why = "row"])
      \/ Accepts(k, n) /\ Placed("wire") /\ Fails /\ Without(s, "error")
      \/ Accepts(k, n) /\ UNCHANGED alp /\ Fails /\ Without(s, "hard")
      \/ Known(k) /\ ReadOrder(s, k, FALSE)
      \/ ~Known(k) /\ ~Accepts(k, n) /\ UNCHANGED alp /\ Unfaulty /\ Without(s, "hard")

Ask(s) ==
  CASE s = 0 -> AskEntry
    [] s # 0 /\ jobs[s].key # Oco(s) -> AskToClose(s)
    [] s # 0 /\ jobs[s].key = Oco(s) /\ ~p.tr[s].bound -> AskProtect(s)
    [] OTHER -> ReadOrder(s, Oco(s), jobs[s].leave /\ MarketOpen)

Work(s) ==
  /\ up /\ UNCHANGED <<now, up, p, saved, shares>>
  /\ \/ jobs[s].at = "ask" /\ Ask(s)
     \/ jobs[s].at = "post" /\ Send(s)

(* Alpaca cannot be read                                                   *)
Unread(s) ==
  /\ up /\ jobs[s].at = "ask" /\ Without(s, "error") /\ Fails
  /\ UNCHANGED <<now, up, p, saved, alp, shares>>

-----------------------------------------------------------------------------
(* Alpaca, the clock, and the process                                      *)

Fill(k) ==
  /\ alp[k].st = "open" /\ MarketOpen
  /\ \E n \in 1 .. alp[k].qty - alp[k].filled :
       /\ alp' = [alp EXCEPT ![k].filled = @ + n,
                             ![k].st = IF alp[k].filled + n = alp[k].qty THEN "final" ELSE "open"]
       /\ shares' = IF k = Entry THEN shares + n ELSE shares - n
  /\ UNCHANGED <<now, up, p, saved, jobs, faults>>

(* A POST without an answer reaches Alpaca after all, or does not          *)
Arrive(k) ==
  /\ alp[k].st = "wire" /\ \E st \in {"open", "gone"} : alp' = [alp EXCEPT ![k].st = st]
  /\ UNCHANGED <<now, up, p, saved, jobs, shares, faults>>

(* Protection is cancelled at Alpaca by another hand                       *)
Kill(t) ==
  /\ alp[Oco(t)].st = "open" /\ alp' = [alp EXCEPT ![Oco(t)].st = "final"] /\ Fails
  /\ UNCHANGED <<now, up, p, saved, jobs, shares>>

(* Day orders end with the day, protection stays                           *)
Later ==
  /\ now < NEXT /\ now' = now + 1
  /\ LateArrival \/ \A k \in Keys : alp[k].st # "wire"
  /\ alp' = [k \in Keys |-> IF now' = CLOSED /\ alp[k].st = "open" /\ k[1] # "oco"
                            THEN [alp[k] EXCEPT !.st = "final"] ELSE alp[k]]
  /\ UNCHANGED <<up, p, saved, jobs, shares, faults>>

Crash ==
  /\ up /\ up' = FALSE /\ jobs' = [s \in DOMAIN jobs |-> NoJob] /\ Fails
  /\ UNCHANGED <<now, p, saved, alp, shares>>

Restart ==
  /\ ~up /\ up' = TRUE /\ p' = saved
  /\ UNCHANGED <<now, saved, jobs, alp, shares, faults>>

-----------------------------------------------------------------------------
(* Specification                                                           *)

Waiting == [phase |-> "WAITING_ENTRY", exit |-> FALSE, bad |-> FALSE, final |-> FALSE,
            tr |-> [t \in Tranches |-> NoTranche], ord |-> [k \in Keys |-> New]]

Init ==
  /\ now = DUE /\ up = TRUE /\ p = Waiting /\ saved = Waiting /\ jobs = [s \in {0} \cup Tranches |-> NoJob]
  /\ alp = [k \in Keys |-> [st |-> "none", filled |-> 0, qty |-> 0]] /\ shares = 0 /\ faults = 0

Next ==
  \/ Tick \/ TickEntry \/ RequestExit \/ Later \/ Crash \/ Restart
  \/ \E s \in {0} \cup Tranches : Work(s) \/ Unread(s)
  \/ \E k \in Keys : Fill(k) \/ Arrive(k)
  \/ \E t \in Tranches : Kill(t)

Spec == Init /\ [][Next]_vars

(* The loop ticks, the threads run, the clock goes on, a market order is    *)
(* filled while the market is open.                                        *)
FairSpec ==
  /\ Spec /\ WF_vars(Tick) /\ WF_vars(Later) /\ WF_vars(Restart)
  /\ \A s \in {0} \cup Tranches : WF_vars(Work(s))
  /\ \A k \in Keys : WF_vars(Arrive(k))
  /\ \A k \in Keys \ {Oco(t) : t \in Tranches} : WF_vars(Fill(k))

-----------------------------------------------------------------------------
(* Properties                                                              *)

(* A plan that is over, or was skipped, has left nothing at Alpaca: no      *)
(* share, no order that lives or is on its way.  (_entry_poll,             *)
(* _prepare_entry, _maybe_complete)                                        *)
NothingLeft ==
  up /\ p.phase \notin Active => shares = 0 /\ \A k \in Keys : alp[k].st \notin {"wire", "open"}

(* The book has only shares that were traded, each once and within its     *)
(* tranche, and what is sold was held.  (_book, on_fill, _close_tranche)    *)
BookIsReal ==
  /\ \A k \in Keys : p.ord[k].booked <= alp[k].filled
  /\ \A t \in Tranches : p.tr[t].closed <= p.tr[t].qty
  /\ Given(p) <= Filled(p) /\ shares >= 0

(* A plan that is over has left nothing at Alpaca, and its book has only    *)
(* what was traded.                                                        *)
PlanIsReal == NothingLeft /\ BookIsReal

(* Every trade ends flat, with its trade recorded, whatever answer is lost. *)
(* (_manage_tranche, _close_tranche, start_session)                         *)
EndsFlat == <>[](p.phase \in {"SKIPPED", "CLOSED"} /\ shares = 0)
=============================================================================
