------------------------------ MODULE DayOnePlan ------------------------------
(***************************************************************************)
(* One lifecycle of a day-one plan: DayOneController buys SPY in the       *)
(* opening auction at the turn of the month, or COIN at 09:36 when the     *)
(* bitcoin model says so, and sells into the closing auction of that day.  *)
(* Sources: core/day_one_execution.py, core/day_one_schedule.py,           *)
(* core/day_one_integration.py and main.py's startup and breaker.          *)
(*                                                                         *)
(* The loop's handlers (tick, request_exit, apply_reads, reconcile) run    *)
(* to their end on the event loop, and everything they decide depends on   *)
(* which of their checkpoints were written.  A handler is therefore an     *)
(* operator from a world w (the lifecycle, what is saved of it, the job    *)
(* and the faults so far) to the set of worlds it may end in.  There is    *)
(* one job per symbol: whatever the worker threads do with Alpaca happens  *)
(* between the tick that starts it and the tick that collects it.          *)
(*                                                                         *)
(* A lifecycle is long; the short side of COIN is its mirror image.  Left  *)
(* out: sizing, the pacing of retries and polls, the log, shutdown, and    *)
(* the replacement of a released lifecycle by the next session's.          *)
(*                                                                         *)
(* An operator whose comment starts with "Fault:" is not part of the model *)
(* but a plausible bug in the definition after it.                         *)
(***************************************************************************)
EXTENDS Integers, Sequences, FiniteSets, Functions

CONSTANTS
  Plans,        \* the plans a lifecycle may be of: the symbol and the shares it is sized to
  MaxAttempts,  \* MAX_ATTEMPTS, and the bound of the attempts of one role
  MaxFaults,    \* bound: things that go wrong
  Shared        \* TRUE: after the release another strategy may hold the symbol

\* The times the code compares with: after 19:05 of the evening before, before
\* 09:27, before 09:30, to 09:31, from 09:35, 09:36:00 to 09:36:05, until 10
\* minutes before the close, until 30 seconds before it, until the close, until
\* 19:05, after it, until 09:28 of the next session and from 09:30 of it.
EVE == 1   MORNING == 2   CUTOFF == 3   OPEN == 4   DECIDE == 5   DISPATCH == 6   DAY == 7
LATE == 8   LAST == 9   CLOSED == 10   EVENING == 11   NEXT == 12   NEXTOPEN == 13
Moments == EVE .. NEXTOPEN

VARIABLES
  now,       \* the moment on the clock
  plan,      \* the plan of this lifecycle
  up,        \* the process runs
  lc,        \* the lifecycle: its phase, watermarks and attempts
  saved,     \* lc as of the last checkpoint
  job,       \* _jobs[symbol]: what the worker thread does or has answered
  read,      \* the row a sync has fetched and not yet applied
  alpaca,    \* the orders Alpaca knows, by role and number
  shares,    \* the shares Alpaca holds for the plan
  others,    \* the shares of the symbol another strategy holds
  faults     \* how much went wrong so far

vars == <<now, plan, up, lc, saved, job, read, alpaca, shares, others, faults>>
loop == <<lc, saved, job, faults>>
broker == <<alpaca, shares, others>>

-----------------------------------------------------------------------------
(* Types                                                                   *)

Roles == {"entry", "exit", "recovery"}
Ids   == Roles \X (1 .. MaxAttempts)
Tifs  == {"opg", "day", "cls"}

LIVE     == {"intent", "ambiguous", "accepted"}
TERMINAL == {"filled", "expired"}      \* canceled and rejected are told apart only in pacing

Attempt == [id : Ids, tif : Tifs, qty : Nat, status : LIVE \cup TERMINAL, sent : BOOLEAN,
            filled : Nat, cancel : BOOLEAN]

Phases == {"IDLE", "RESERVED", "ENTRY_INTENT", "ENTRY_PENDING", "HELD", "EXIT_INTENT", "EXIT_PENDING",
           "RECOVERY", "DONE", "SKIPPED", "RECOVERY_HALT"}

Lifecycle == [phase : Phases, decided : BOOLEAN, admitted : BOOLEAN, target : Nat, entry : Nat,
              exit : Nat, emergency : BOOLEAN, fallback : BOOLEAN, released : BOOLEAN,
              attempts : Seq(Attempt)]

Order == [st : {"none", "wire", "open", "filled", "expired"}, tif : Tifs, qty : Nat, filled : Nat, due : Moments]
Row   == [st : {"none", "open", "filled", "expired"}, filled : Nat]
NoRow == [st |-> "none", filled |-> 0]

Kinds == {"attempt", "cancel", "coin_model", "entry_gates", "pre_intent", "spy_fallback_check",
          "recovery_check", "release"}
Job   == [kind : Kinds \cup {"none"}, k : Nat, stage : {"lookup", "check", "post", "done"},
          res : {"", "ok", "error", "skip", "row", "cutoff", "blocked", "unresolved", "lost", "refused", "raised"},
          row : Row, pos : Int, busy : BOOLEAN]
NoJob == [kind |-> "none", k |-> 0, stage |-> "lookup", res |-> "", row |-> NoRow, pos |-> 0, busy |-> FALSE]

NoRead == [k |-> 0, row |-> NoRow]

TypeOK ==
  /\ now \in Moments /\ plan \in Plans /\ {up} \subseteq BOOLEAN
  /\ lc \in Lifecycle /\ saved \in Lifecycle
  /\ job \in Job
  /\ read.k \in Nat /\ read.row \in Row
  /\ alpaca \in [Ids -> Order]
  /\ shares \in Int /\ others \in Nat /\ faults \in 0 .. MaxFaults

-----------------------------------------------------------------------------
(* Helpers                                                                 *)

SPY == plan.symbol = "SPY"
Held(c)       == c.entry - c.exit
Final(a)      == a.status \in TERMINAL
LiveIn(c)     == {k \in DOMAIN c.attempts : c.attempts[k].status \in LIVE}
HasLive(c)    == LiveIn(c) # {}
LiveOf(c)     == CHOOSE k \in LiveIn(c) : \A j \in LiveIn(c) : j <= k
OfRole(c, role) == {k \in DOMAIN c.attempts : c.attempts[k].id[1] = role}

(* owns, claimed                                                           *)
Owns(c) ==
  /\ ~c.released
  /\ IF SPY THEN c.phase \notin {"IDLE", "DONE", "SKIPPED"} \/ c.attempts # <<>>
     ELSE c.phase \notin {"DONE", "SKIPPED"}

(* _validate_state and validate_lifecycle: what a checkpoint and a restart *)
(* accept; a state they refuse cannot be written                           *)
Valid(c) ==
  /\ c.exit <= c.entry
  /\ Len(c.attempts) <= MaxAttempts
  /\ \A k \in DOMAIN c.attempts : c.attempts[k].filled <= c.attempts[k].qty
  /\ \A j, k \in LiveIn(c) : c.attempts[j].id[1] = c.attempts[k].id[1] => j = k
  /\ c.released => Held(c) = 0 /\ c.phase \in {"DONE", "SKIPPED"}

World == [lc |-> lc, saved |-> saved, job |-> job, faults |-> faults]
Becomes(w) == lc' = w.lc /\ saved' = w.saved /\ job' = w.job /\ faults' = w.faults

(* Every outcome of F after each of the worlds of a set                    *)
After(ws, F(_)) == UNION {F(w) : w \in ws}

(* checkpoint(): written, or not                                           *)
Kept(w) == IF Valid(w.lc) THEN {[w EXCEPT !.saved = w.lc]} ELSE {}
Lost(w) == IF ~Valid(w.lc) THEN {w}
           ELSE IF w.faults < MaxFaults THEN {[w EXCEPT !.faults = @ + 1]} ELSE {}
BestEffort(w) == Kept(w) \cup Lost(w)

Phase(w, p)  == [w EXCEPT !.lc.phase = p]
Halt(w)      == Phase(w, "RECOVERY_HALT")
Pending(w, k) == Phase(w, IF w.lc.attempts[k].id[1] = "entry" THEN "ENTRY_PENDING" ELSE "EXIT_PENDING")

(* _io: one job per symbol; whoever comes second waits                     *)
StartJob(w, kind, k) ==
  IF w.job.kind = "none" THEN [w EXCEPT !.job = [NoJob EXCEPT !.kind = kind, !.k = k]] ELSE w
Collected(w) == [w EXCEPT !.job = NoJob]

-----------------------------------------------------------------------------
(* The clock                                                               *)

(* _entry_window                                                           *)
EntryTif  == IF SPY THEN "opg" ELSE "day"
EntryOpen == IF SPY THEN now \in {EVE, MORNING} ELSE now = DISPATCH
EntryOver == IF SPY THEN now >= CUTOFF ELSE now > DISPATCH

InSession == now \in OPEN .. LAST \cup {NEXTOPEN}

(* _write_allowed                                                          *)
WriteAllowed(a) ==
  IF a.id[1] = "entry"
  THEN IF ~SPY THEN now = DISPATCH
       ELSE IF a.tif = "opg" THEN now \in {EVE, MORNING} ELSE now = OPEN
  ELSE CASE a.tif = "cls" -> now < LATE
         [] a.tif = "opg" -> now \in {EVE, MORNING, EVENING, NEXT}
         [] a.tif = "day" -> InSession

(* Fault: the recovery knows only the day of the entry                     *)
RecoveryModeToday(c) ==
  IF c.emergency
  THEN IF InSession THEN "day" ELSE IF now \in {EVE, MORNING, EVENING, NEXT} THEN "opg" ELSE "none"
  ELSE IF now = LAST THEN "day" ELSE "none"

(* _recovery_mode: "none" until the last 30 seconds unless in an emergency *)
RecoveryMode(c) ==
  IF c.emergency
  THEN IF InSession THEN "day" ELSE IF now \in {EVE, MORNING, EVENING, NEXT} THEN "opg" ELSE "none"
  ELSE CASE now < LAST \/ now = CLOSED -> "none"
         [] now \in {EVENING, NEXT}    -> "opg"
         [] now \in {LAST, NEXTOPEN}   -> "day"

-----------------------------------------------------------------------------
(* The lifecycle                                                           *)

(* _verify_release starts the last look at Alpaca                          *)
VerifyRelease(w) ==
  IF w.lc.released \/ Held(w.lc) # 0 \/ HasLive(w.lc) THEN w ELSE StartJob(w, "release", 0)

(* _skip: not a stock that is held                                         *)
Skip(w) == IF Held(w.lc) > 0 THEN Halt(w) ELSE VerifyRelease(Phase(w, "SKIPPED"))

StartAttempt(w, k) == StartJob(w, "attempt", k)

(* Fault: an entry too goes out when its intent could not be saved         *)
CreateAttemptUnsaved(w, role, tif, q, send) ==
  LET n  == Cardinality(OfRole(w.lc, role)) + 1
      a  == [id |-> <<role, n>>, tif |-> tif, qty |-> q, status |-> "intent", sent |-> FALSE, filled |-> 0,
             cancel |-> FALSE]
      ph == CASE role = "entry" -> "ENTRY_INTENT" [] role = "exit" -> "EXIT_INTENT" [] OTHER -> "RECOVERY"
      x  == Phase([w EXCEPT !.lc.attempts = Append(@, a)], ph)
      go(v) == IF send THEN StartAttempt(v, Len(x.lc.attempts)) ELSE v
  IN IF q < 1 \/ HasLive(w.lc) THEN {w} ELSE {go(x)}

(* _create_attempt: the intent is saved before anything is sent.  The ids  *)
(* of the first exit and the first recovery were saved with the entry, so  *)
(* these go out even when the save fails.                                  *)
CreateAttempt(w, role, tif, q, send) ==
  LET n  == Cardinality(OfRole(w.lc, role)) + 1
      a  == [id |-> <<role, n>>, tif |-> tif, qty |-> q, status |-> "intent", sent |-> FALSE, filled |-> 0,
             cancel |-> FALSE]
      ph == CASE role = "entry" -> "ENTRY_INTENT" [] role = "exit" -> "EXIT_INTENT" [] OTHER -> "RECOVERY"
      x  == Phase([w EXCEPT !.lc.attempts = Append(@, a)], ph)
      go(v) == IF send THEN StartAttempt(v, Len(x.lc.attempts)) ELSE v
      undone(v) == [v EXCEPT !.lc.attempts = w.lc.attempts]
  IN IF q < 1 \/ HasLive(w.lc) THEN {w}
     ELSE {go(v) : v \in Kept(x)}
          \cup {CASE role = "entry" -> Phase(undone(v), IF SPY THEN "IDLE" ELSE "RESERVED")
                  [] role # "entry" /\ n = 1 -> go(v)
                  [] role # "entry" /\ n > 1 -> Halt(undone(v)) : v \in Lost(x)}

(* _ensure_cls                                                             *)
EnsureCls(w, send) ==
  IF Held(w.lc) < 1 \/ HasLive(w.lc) THEN {w}
  ELSE IF now >= LATE THEN {Phase(w, "RECOVERY")}
  ELSE CreateAttempt(w, "exit", "cls", Held(w.lc), send)

(* _drive_recovery, up to its look at Alpaca                               *)
DriveRecovery(w) ==
  IF Held(w.lc) < 1 THEN VerifyRelease(Phase(w, "DONE"))
  ELSE IF RecoveryMode(w.lc) = "none" THEN w
  ELSE IF Len(w.lc.attempts) >= MaxAttempts THEN Halt(w)
  ELSE StartJob(w, "recovery_check", 0)

(* _after_attempt                                                          *)
AfterAttempt(w, k, send) ==
  LET a == w.lc.attempts[k] IN
  IF ~Final(a) THEN {Pending(w, k)}
  ELSE IF a.id[1] = "entry"
  THEN IF w.lc.entry > 0 THEN EnsureCls(Phase(w, "HELD"), send)
       ELSE IF SPY /\ a.tif = "opg" THEN {Pending([w EXCEPT !.lc.fallback = TRUE], k)}
       ELSE {Skip(w)}
  ELSE IF Held(w.lc) = 0 THEN {VerifyRelease(Phase(w, "DONE"))}
  ELSE {DriveRecovery(Phase(w, "RECOVERY"))}

(* Fault: the whole fill of an order is added again                        *)
BookFillTwice(w, k, row) ==
  LET delta == row.filled
      b     == [w EXCEPT !.lc.attempts[k].filled = row.filled]
  IN IF row.filled = w.lc.attempts[k].filled THEN w
     ELSE IF w.lc.attempts[k].id[1] = "entry" THEN [b EXCEPT !.lc.entry = @ + delta]
     ELSE [b EXCEPT !.lc.exit = @ + delta]

(* _book_fill                                                              *)
BookFill(w, k, row) ==
  LET delta == row.filled - w.lc.attempts[k].filled
      b     == [w EXCEPT !.lc.attempts[k].filled = row.filled]
  IN IF w.lc.attempts[k].id[1] = "entry" THEN [b EXCEPT !.lc.entry = @ + delta]
     ELSE [b EXCEPT !.lc.exit = @ + delta]

(* _apply_order_row: a row that goes back, or that ADT's book refuses, and *)
(* a result that cannot be saved halt the lifecycle                        *)
ApplyRow(w, k, row, defer, send) ==
  LET known  == IF row.st = "open" THEN "accepted" ELSE row.st
      booked == [BookFill(w, k, row) EXCEPT !.lc.attempts[k].status = known]
      end    == IF defer THEN {booked} ELSE AfterAttempt(booked, k, send)
  IN IF row.filled < w.lc.attempts[k].filled THEN {Halt(w)}
     ELSE After(end, Kept) \cup {Halt(v) : v \in After(end, Lost)}
          \cup (IF row.filled > w.lc.attempts[k].filled /\ w.faults < MaxFaults
                THEN {Halt([w EXCEPT !.faults = @ + 1])} ELSE {})

(* _drive_cancel, up to the cancel                                         *)
DriveCancel(w, k) ==
  LET x == [w EXCEPT !.lc.attempts[k].cancel = TRUE] IN
  IF w.lc.attempts[k].cancel THEN {StartJob(w, "cancel", k)}
  ELSE {StartJob(v, "cancel", k) : v \in Kept(x)}
       \cup {Halt([v EXCEPT !.lc = w.lc]) : v \in Lost(x)}

(* _start_entry_if_due, _start_gates, _drive_spy_fallback and              *)
(* _step_coin_decision, up to their jobs.  They look at the clock first,   *)
(* also when they are called to collect.                                   *)
StartEntry(w) ==
  IF EntryOpen THEN StartJob(w, "pre_intent", 0) ELSE IF EntryOver THEN Skip(w) ELSE w

StartGates(w) == IF EntryOver THEN Skip(w) ELSE StartJob(w, "entry_gates", 0)

FallbackMissed(w) == Skip([w EXCEPT !.lc.fallback = FALSE])

SpyFallback(w) ==
  IF now < OPEN THEN w ELSE IF now > OPEN THEN FallbackMissed(w) ELSE StartJob(w, "spy_fallback_check", 0)

SessionPassed(c) == now >= NEXT /\ c.attempts = <<>> /\ c.entry = 0

CoinDecision(w) ==
  IF SessionPassed(w.lc) THEN Skip(w)
  ELSE IF now < DECIDE \/ now >= NEXT THEN w ELSE StartJob(w, "coin_model", 0)

-----------------------------------------------------------------------------
(* Collecting a finished job                                               *)

CollectAttempt(w) ==
  LET k == w.job.k   res == w.job.res   x == Collected(w)   a == x.lc.attempts[k]
      sent == [x EXCEPT !.lc.attempts[k].sent = TRUE]
      to(v, s) == [v EXCEPT !.lc.attempts[k].status = s]
      refused == to(sent, "expired")
  IN CASE res = "error" -> {x}
       [] res = "row"   -> ApplyRow(sent, k, w.job.row, FALSE, TRUE)
       [] res = "lost"  -> BestEffort(to(sent, "ambiguous"))
       [] res = "refused" ->
            After(IF a.id[1] = "entry" /\ x.lc.emergency /\ x.lc.entry = 0 THEN {Skip(refused)}
                  ELSE AfterAttempt(refused, k, TRUE), BestEffort)
       [] res = "unresolved" -> BestEffort(Pending(to(x, "ambiguous"), k))
       [] res = "raised" -> {Halt(x)}
       [] res \in {"cutoff", "blocked"} -> BestEffort(Skip([to(x, "expired") EXCEPT !.lc.fallback = FALSE]))

(* Fault: a plan sold in an emergency is not marked done                   *)
AfterCancelNotDone(w, k) ==
  LET y == Phase(w, "RECOVERY")
      done(v) == IF Held(v.lc) > 0 THEN DriveRecovery(v)
                 ELSE IF v.lc.entry > 0 THEN v ELSE Skip(v)
  IN IF w.lc.phase = "RECOVERY_HALT" THEN {w}
     ELSE IF ~Final(w.lc.attempts[k]) THEN {Halt(w)}
     ELSE {done(v) : v \in Kept(y)} \cup {Halt(v) : v \in Lost(y)}

(* The end of _drive_cancel; w has collected a row that is final or not    *)
AfterCancel(w, k) ==
  LET y == Phase(w, "RECOVERY")
      done(v) == IF Held(v.lc) > 0 THEN DriveRecovery(v)
                 ELSE IF v.lc.entry > 0 THEN VerifyRelease(Phase(v, "DONE")) ELSE Skip(v)
  IN IF w.lc.phase = "RECOVERY_HALT" THEN {w}
     ELSE IF ~Final(w.lc.attempts[k]) THEN {Halt(w)}
     ELSE {done(v) : v \in Kept(y)} \cup {Halt(v) : v \in Lost(y)}

(* Fault: an order the lookup does not find is taken for one never sent    *)
CancelUnknownIsFinal(w) ==
  LET k == LiveOf(w.lc)   x == Collected(w)
      gone == [x EXCEPT !.lc.attempts[k].status = "expired"]
  IN CASE ~HasLive(w.lc)      -> {w}
       [] w.job.res = "error" -> {Halt(x)}
       [] w.job.row = NoRow   -> BestEffort(IF Held(x.lc) > 0 THEN DriveRecovery(Phase(gone, "RECOVERY")) ELSE Skip(gone))
       [] OTHER -> LET AfterRow(v) == AfterCancel(v, k)
                   IN After(ApplyRow(x, k, w.job.row, TRUE, TRUE), AfterRow)

CollectCancel(w) ==
  LET k == LiveOf(w.lc)   a == w.lc.attempts[k]   x == Collected(w)
      to(s) == [x EXCEPT !.lc.attempts[k].status = s]
  IN CASE ~HasLive(w.lc)      -> {w}
       [] w.job.res = "error" -> {Halt(x)}
       [] w.job.row = NoRow /\ a.sent -> BestEffort(Pending(to("ambiguous"), k))
       [] w.job.row = NoRow /\ ~a.sent ->
            BestEffort(IF Held(x.lc) > 0 THEN DriveRecovery(Phase(to("expired"), "RECOVERY"))
                       ELSE Skip(to("expired")))
       [] OTHER -> LET AfterRow(v) == AfterCancel(v, k)
                   IN After(ApplyRow(x, k, w.job.row, TRUE, TRUE), AfterRow)

(* _start_entry_if_due after its second look at the account                *)
CollectPreIntent(w) ==
  LET x == Collected(w)
      Create(v) == CreateAttempt(v, "entry", EntryTif, v.lc.target, TRUE)
  IN IF ~EntryOpen THEN {StartEntry(w)}
     ELSE CASE w.job.res = "error" -> {x}
            [] w.job.res = "skip" \/ w.job.pos # 0 \/ w.job.busy -> {Skip(x)}
            [] OTHER -> After(Kept(x), Create) \cup Lost(x)

(* _apply_gates                                                            *)
CollectGates(w) ==
  LET x == Collected(w)
      y == [x EXCEPT !.lc.admitted = TRUE, !.lc.target = plan.qty]
  IN IF EntryOver THEN {Skip(w)}
     ELSE CASE w.job.res = "error" -> {x}
            [] w.job.res = "skip" \/ w.job.pos # 0 \/ w.job.busy -> {Skip(x)}
            [] OTHER -> {StartEntry(v) : v \in Kept(y)} \cup {[v EXCEPT !.lc.admitted = FALSE] : v \in Lost(y)}

CollectFallback(w) ==
  LET x == Collected(w) IN
  IF now # OPEN THEN {SpyFallback(w)}
  ELSE CASE w.job.res = "error" -> {x}
         [] w.job.pos # 0 \/ w.job.busy -> {Halt(x)}
         [] OTHER -> CreateAttempt([x EXCEPT !.lc.fallback = FALSE], "entry", "day", x.lc.target, TRUE)

CollectRecovery(w) ==
  LET x == Collected(w)   q == Held(w.lc)   mode == RecoveryMode(w.lc) IN
  IF q < 1 \/ mode = "none" \/ Len(w.lc.attempts) >= MaxAttempts THEN {DriveRecovery(w)}
  ELSE CASE w.job.res = "error" \/ w.job.busy -> {x}
         [] w.job.pos # q -> {Halt(x)}
         [] OTHER -> CreateAttempt(x, "recovery", mode, q, TRUE)

(* The model's answer; one that says "no signal" skips after it is saved   *)
CollectCoin(w) ==
  LET x == Collected(w)   y == [x EXCEPT !.lc.decided = TRUE] IN
  IF SessionPassed(w.lc) THEN {Skip(w)}
  ELSE IF w.job.res = "error" THEN {Skip(x)}
  ELSE {IF w.job.res = "skip" THEN Skip(v) ELSE StartGates(v) : v \in Kept(y)} \cup {Skip(v) : v \in Lost(y)}

CollectRelease(w) ==
  LET x == Collected(w) IN
  IF w.lc.released \/ Held(w.lc) # 0 \/ HasLive(w.lc) THEN {w}
  ELSE CASE w.job.res = "error" -> {x}
         [] w.job.pos # 0 \/ w.job.busy -> {Halt(x)}
         [] OTHER -> BestEffort([x EXCEPT !.lc.released = TRUE])

(* _collect_job                                                            *)
Collect(w) ==
  CASE w.job.kind = "attempt"            -> CollectAttempt(w)
    [] w.job.kind = "cancel"             -> CollectCancel(w)
    [] w.job.kind = "coin_model"         -> CollectCoin(w)
    [] w.job.kind = "entry_gates"        -> CollectGates(w)
    [] w.job.kind = "pre_intent"         -> CollectPreIntent(w)
    [] w.job.kind = "spy_fallback_check" -> CollectFallback(w)
    [] w.job.kind = "recovery_check"     -> CollectRecovery(w)
    [] w.job.kind = "release"            -> CollectRelease(w)

(* _step: the first of these that applies                                  *)
Step(w) ==
  IF w.lc.released THEN {w}
  ELSE IF w.job.kind # "none" /\ w.job.stage = "done" THEN Collect(w)
  ELSE IF w.lc.phase = "RECOVERY_HALT" THEN {w}
  ELSE IF ~w.lc.decided THEN {CoinDecision(w)}
  ELSE IF HasLive(w.lc)
  THEN IF w.lc.emergency THEN DriveCancel(w, LiveOf(w.lc)) ELSE {StartAttempt(w, LiveOf(w.lc))}
  ELSE IF w.lc.fallback THEN {SpyFallback(w)}
  ELSE IF w.lc.phase \in {"DONE", "SKIPPED"} THEN {VerifyRelease(w)}
  ELSE IF Held(w.lc) > 0
  THEN IF w.lc.phase = "HELD" /\ ~w.lc.emergency THEN EnsureCls(w, TRUE)
       ELSE {DriveRecovery(Phase(w, "RECOVERY"))}
  ELSE IF w.lc.admitted THEN {StartEntry(w)} ELSE {StartGates(w)}

-----------------------------------------------------------------------------
(* The loop's handlers                                                     *)

NewLifecycle(phase, decided) ==
  [phase |-> phase, decided |-> decided, admitted |-> FALSE, target |-> 0, entry |-> 0, exit |-> 0,
   emergency |-> FALSE, fallback |-> FALSE, released |-> FALSE, attempts |-> <<>>]

NoOrder == [st |-> "none", tif |-> "day", qty |-> 0, filled |-> 0, due |-> EVE]

(* _ensure_spy the evening before, reserve_coin_before_events that morning *)
Init ==
  /\ plan \in Plans /\ now = IF SPY THEN EVE ELSE MORNING
  /\ lc = IF SPY THEN NewLifecycle("IDLE", TRUE) ELSE NewLifecycle("RESERVED", FALSE)
  /\ saved = lc /\ up = TRUE /\ job = NoJob /\ read = NoRead
  /\ alpaca = [id \in Ids |-> NoOrder] /\ shares = 0 /\ others = 0 /\ faults = 0

\* A handler that changed the lifecycle ends with a checkpoint
Ended(w) == IF w.lc = lc THEN {w} ELSE BestEffort(w)

Tick ==
  /\ up
  /\ \E w \in After(Step(World), Ended) : w # World /\ Becomes(w)
  /\ UNCHANGED <<now, plan, up, read, broker>>

(* request_exit, by the loss breaker for a symbol that is owned.  When the *)
(* emergency cannot be saved it is taken back, the phase is not.           *)
RequestExit ==
  /\ up /\ Owns(lc) /\ ~lc.emergency
  /\ LET x == Phase(World, "RECOVERY")
         y == [x EXCEPT !.lc.emergency = TRUE]
         Driven(v) == IF HasLive(v.lc) THEN DriveCancel(v, LiveOf(v.lc))
                      ELSE {IF Held(v.lc) > 0 THEN DriveRecovery(v) ELSE Skip(v)}
     IN \E w \in After(Kept(y), Driven) \cup {[v EXCEPT !.lc = x.lc] : v \in Lost(y)} : Becomes(w)
  /\ UNCHANGED <<now, plan, up, read, broker>>

(* One round trip to Alpaca by client id or order id                       *)
RowOf(k) ==
  LET o == alpaca[lc.attempts[k].id] IN
  IF o.st \in {"none", "wire"} THEN NoRow ELSE [st |-> o.st, filled |-> o.filled]

(* before_compare: a sync reads the live attempt in a thread while the     *)
(* loop goes on, and applies what it read                                  *)
FetchReads ==
  /\ up /\ read.k = 0 /\ job.kind = "none" /\ HasLive(lc) /\ RowOf(LiveOf(lc)) # NoRow
  /\ read' = [k |-> LiveOf(lc), row |-> RowOf(LiveOf(lc))]
  /\ UNCHANGED <<now, plan, up, loop, broker>>

ApplyReads ==
  /\ up /\ read.k # 0 /\ read' = NoRead
  /\ IF job.kind = "none" /\ read.k \in LiveIn(lc)
     THEN \E w \in After(ApplyRow(World, read.k, read.row, FALSE, TRUE), Ended) : Becomes(w)
     ELSE UNCHANGED loop
  /\ UNCHANGED <<now, plan, up, broker>>

Crash ==
  /\ up /\ faults < MaxFaults /\ faults' = faults + 1
  /\ up' = FALSE /\ lc' = saved /\ job' = NoJob /\ read' = NoRead
  /\ UNCHANGED <<now, plan, saved, broker>>

ReconcileHolding(w) ==
  IF w.lc.emergency THEN {Phase(w, "RECOVERY")} ELSE EnsureCls(Phase(w, "HELD"), FALSE)

(* reconcile, at startup: it reads and books, and sends nothing            *)
Reconcile(w) ==
  LET k == LiveOf(w.lc)
      unread(v) == IF v.faults < MaxFaults THEN {[v EXCEPT !.faults = @ + 1]} ELSE {}
      Compared(v) ==
        IF v.job.kind # "none" THEN {v}
        ELSE unread(v) \cup
             (IF shares + others # Held(v.lc) THEN {Halt(v)}
              ELSE IF Held(v.lc) > 0 /\ ~HasLive(v.lc) THEN ReconcileHolding(v)
              ELSE IF Held(v.lc) = 0 /\ v.lc.phase \in {"DONE", "SKIPPED"} THEN {VerifyRelease(v)}
              ELSE {v})
      rows == IF ~HasLive(w.lc) THEN {w}
              ELSE unread(w) \cup (IF RowOf(k) = NoRow THEN {w} ELSE ApplyRow(w, k, RowOf(k), FALSE, FALSE))
  IN After(After(rows, Compared), BestEffort)

\* The process is back after what was on its way to Alpaca has arrived, and
\* not within the five seconds of COIN's window
Restart ==
  /\ ~up /\ up' = TRUE /\ now # DISPATCH
  /\ \A id \in Ids : alpaca[id].st # "wire"
  /\ \E w \in Reconcile(World) : Becomes(w)
  /\ UNCHANGED <<now, plan, read, broker>>

-----------------------------------------------------------------------------
(* The worker thread                                                       *)

Working(kind, stage) == up /\ job.kind = kind /\ job.stage = stage
Answer(r)    == job' = [job EXCEPT !.stage = "done", !.res = r]
AnswerRow(r) == job' = [job EXCEPT !.stage = "done", !.res = "row", !.row = r]
Fails        == faults < MaxFaults /\ faults' = faults + 1
Unfaulty     == UNCHANGED faults

OpenIds      == {id \in Ids : alpaca[id].st = "open"}
Position     == shares + others

Doing == lc.attempts[job.k]
NotSent(r) == Answer(IF Doing.sent THEN "unresolved" ELSE r) /\ Unfaulty

(* The attempt's id is looked up before anything is sent ...               *)
LookupAttempt ==
  /\ Working("attempt", "lookup")
  /\ LET row == RowOf(job.k) IN
     \/ row # NoRow /\ AnswerRow(row) /\ Unfaulty
     \/ row = NoRow /\ ~WriteAllowed(Doing) /\ NotSent("cutoff")
     \/ row = NoRow /\ WriteAllowed(Doing) /\ Unfaulty
        /\ job' = [job EXCEPT !.stage = IF Doing.id[1] = "entry" THEN "check" ELSE "post"]
     \/ Answer("error") /\ Fails
  /\ UNCHANGED <<now, plan, up, lc, saved, read, broker>>

(* ... an entry is checked once more, _entry_recheck; what Alpaca answers  *)
(* about the account may bar it, and an answer that does not come raises ..*)
CheckEntry ==
  /\ Working("attempt", "check")
  /\ LET row == RowOf(job.k) IN
     \/ Position # 0 /\ NotSent("blocked")
     \/ Position = 0 /\ row.st = "open" /\ AnswerRow(row) /\ Unfaulty
     \/ Position = 0 /\ row.st # "open" /\ OpenIds # {} /\ NotSent("blocked")
     \/ Position = 0 /\ OpenIds = {} /\ ~WriteAllowed(Doing) /\ NotSent("cutoff")
     \/ Position = 0 /\ OpenIds = {} /\ WriteAllowed(Doing) /\ Unfaulty /\ job' = [job EXCEPT !.stage = "post"]
     \/ Answer(IF Doing.sent THEN "unresolved" ELSE "blocked") /\ Fails
     \/ Answer("raised") /\ Fails
  /\ UNCHANGED <<now, plan, up, lc, saved, read, broker>>

(* Alpaca and one POST.  An id it knows is refused as a duplicate; a lost  *)
(* answer leaves the order open, in the network or nowhere.                *)
Due(tif) ==
  CASE tif = "opg" -> IF now < OPEN THEN OPEN ELSE NEXTOPEN
    [] tif = "day" -> IF now <= LAST THEN OPEN ELSE NEXTOPEN
    [] tif = "cls" -> CLOSED

Reserved ==
  SumFunctionOnSet([id \in Ids |-> alpaca[id].qty - alpaca[id].filled], {id \in OpenIds : id[1] # "entry"})

Accepts(a) ==
  /\ a.tif = "opg" => now \in {EVE, MORNING, CUTOFF, EVENING, NEXT}
  /\ a.tif = "cls" => now <= DAY
  /\ a.id[1] # "entry" => a.qty <= shares - Reserved \/ (shares = 0 /\ Reserved = 0)

Put(st) ==
  alpaca' = [alpaca EXCEPT ![Doing.id] =
    [st |-> st, tif |-> Doing.tif, qty |-> Doing.qty, filled |-> 0, due |-> Due(Doing.tif)]]

(* ... and sent                                                            *)
PostAttempt ==
  /\ Working("attempt", "post") /\ alpaca[Doing.id].st # "wire"
  /\ IF alpaca[Doing.id].st # "none" THEN Answer("lost") /\ Unfaulty /\ UNCHANGED alpaca
     ELSE IF ~Accepts(Doing) THEN Answer("refused") /\ Unfaulty /\ UNCHANGED alpaca
     ELSE \/ AnswerRow([st |-> "open", filled |-> 0]) /\ Put("open") /\ Unfaulty
          \/ Answer("refused") /\ UNCHANGED alpaca /\ Fails
          \/ \E st \in {"none", "open", "wire"} : Answer("lost") /\ Put(st) /\ Fails
  /\ UNCHANGED <<now, plan, up, lc, saved, read, shares, others>>

(* cancel_order_and_confirm: confirmed, a row still open, or an error      *)
CancelAtAlpaca ==
  /\ Working("cancel", "lookup")
  /\ LET row  == RowOf(job.k)
         gone == [alpaca EXCEPT ![lc.attempts[job.k].id].st = "expired"]
     IN IF row.st # "open"
        THEN \/ AnswerRow(row) /\ UNCHANGED alpaca /\ Unfaulty
             \/ Answer("error") /\ UNCHANGED alpaca /\ Fails
        ELSE \/ AnswerRow([row EXCEPT !.st = "expired"]) /\ alpaca' = gone /\ Unfaulty
             \/ AnswerRow(row) /\ UNCHANGED alpaca /\ Fails
             \/ Answer("error") /\ alpaca' \in {alpaca, gone} /\ Fails
  /\ UNCHANGED <<now, plan, up, lc, saved, read, shares, others>>

(* The looks at position and open orders; the gates may also say no        *)
LookAtAlpaca ==
  /\ up /\ job.stage = "lookup"
  /\ job.kind \in {"entry_gates", "pre_intent", "spy_fallback_check", "recovery_check", "release"}
  /\ \/ /\ job' = [job EXCEPT !.stage = "done", !.res = "ok", !.pos = Position, !.busy = (OpenIds # {})]
        /\ Unfaulty
     \/ Answer("error") /\ Fails
     \/ job.kind \in {"entry_gates", "pre_intent"} /\ Answer("skip") /\ Unfaulty
  /\ UNCHANGED <<now, plan, up, lc, saved, read, broker>>

AskCoinModel ==
  /\ Working("coin_model", "lookup") /\ \E r \in {"ok", "skip", "error"} : Answer(r)
  /\ UNCHANGED <<now, plan, up, lc, saved, read, broker, faults>>

-----------------------------------------------------------------------------
(* Alpaca and the clock                                                    *)

Environment == UNCHANGED <<plan, up, loop, read>>

Trades(o) ==
  /\ o.st = "open" /\ now >= o.due
  /\ CASE o.tif = "day" -> InSession
       [] o.tif = "cls" -> now = CLOSED
       [] o.tif = "opg" -> now = o.due

Fill ==
  /\ Environment /\ UNCHANGED <<now, others>>
  /\ \E id \in Ids :
       LET o == alpaca[id]  rest == o.qty - o.filled IN
       /\ Trades(o)
       /\ \E n \in 1 .. rest :
            /\ alpaca' = [alpaca EXCEPT ![id].filled = @ + n, ![id].st = IF n = rest THEN "filled" ELSE @]
            /\ shares' = IF id[1] = "entry" THEN shares + n ELSE shares - n

\* Its session or its auction is over
Over(o) ==
  o.st = "open" /\ (CASE o.tif = "day" -> o.due < CLOSED /\ now >= CLOSED [] OTHER -> now >= o.due)

Expire ==
  /\ Environment /\ UNCHANGED <<now, shares, others>>
  /\ \E id \in Ids : Over(alpaca[id]) /\ alpaca' = [alpaca EXCEPT ![id].st = "expired"]

CancelledByHand ==
  /\ Fails
  /\ \E id \in Ids : alpaca[id].st = "open" /\ alpaca' = [alpaca EXCEPT ![id].st = "expired"]
  /\ UNCHANGED <<now, plan, up, lc, saved, job, read, shares, others>>

Arrive ==
  /\ Environment /\ UNCHANGED <<now, shares, others>>
  /\ \E id \in Ids : alpaca[id].st = "wire" /\ \E st \in {"open", "none"} : alpaca' = [alpaca EXCEPT ![id].st = st]

(* Another strategy trades the symbol once it is not owned                 *)
OtherStrategy ==
  /\ Shared /\ up /\ lc.released /\ others' = 1 - others
  /\ Environment /\ UNCHANGED <<now, alpaca, shares>>

\* What was sent before the next moment has arrived, what was due is settled
Pass ==
  /\ now < NEXTOPEN /\ now' = now + 1
  /\ \A id \in Ids : alpaca[id].st # "wire" /\ ~(Over(alpaca[id]) /\ now \in {OPEN, CLOSED})
  /\ Environment /\ UNCHANGED broker

Workers == LookupAttempt \/ CheckEntry \/ PostAttempt \/ CancelAtAlpaca \/ LookAtAlpaca \/ AskCoinModel

Next ==
  \/ Tick \/ RequestExit \/ FetchReads \/ ApplyReads \/ Crash \/ Restart
  \/ Workers \/ Fill \/ Expire \/ CancelledByHand \/ Arrive \/ OtherStrategy \/ Pass

Spec == Init /\ [][Next]_vars
FairSpec ==
  Spec /\ WF_vars(Tick) /\ WF_vars(ApplyReads) /\ WF_vars(Restart) /\ WF_vars(Workers)
       /\ WF_vars(Fill \/ Expire) /\ WF_vars(Arrive) /\ WF_vars(Pass)

-----------------------------------------------------------------------------
(* Properties                                                              *)

FilledAt(roles) == SumFunctionOnSet([id \in Ids |-> alpaca[id].filled], {id \in Ids : id[1] \in roles})
OpenAt(roles)   ==
  SumFunctionOnSet([id \in Ids |-> alpaca[id].qty - alpaca[id].filled],
                   {id \in Ids : id[1] \in roles /\ alpaca[id].st \in {"open", "wire"}})

(* Whatever was lost, retried or repeated, the plan buys its shares at most*)
(* once, and the orders that sell never add up to more than it holds.      *)
WithinPlan ==
  /\ FilledAt({"entry"}) + OpenAt({"entry"}) <= plan.qty
  /\ OpenAt({"exit", "recovery"}) <= shares

(* What the lifecycle counts is what its own orders filled at Alpaca, each *)
(* fill once.                                                              *)
CountsRealFills ==
  /\ \A k \in DOMAIN lc.attempts : lc.attempts[k].filled <= alpaca[lc.attempts[k].id].filled
  /\ \A s \in {TRUE, FALSE} :
       (IF s THEN lc.entry ELSE lc.exit)
         = SumFunctionOnSet([k \in DOMAIN lc.attempts |-> lc.attempts[k].filled],
                            {k \in DOMAIN lc.attempts : (lc.attempts[k].id[1] = "entry") = s})

(* The state can always be written: a checkpoint refuses a lifecycle that  *)
(* _validate_state does not accept, and with it the whole runtime's state. *)
StateIsSavable == Valid(lc)

(* An order Alpaca works on or may receive is one the saved lifecycle has  *)
(* an intent of, except the first exit and recovery, whose ids it has.     *)
OrderIsKnown ==
  \A id \in Ids :
    alpaca[id].st # "none" /\ (id[1] = "entry" \/ id[2] > 1) =>
      \E k \in DOMAIN saved.attempts : saved.attempts[k].id = id

(* The symbol is given back only when the plan has neither shares nor an   *)
(* order at Alpaca.                                                        *)
ReleasedIsFlat ==
  lc.released => shares = 0 /\ \A id \in Ids : alpaca[id].st \notin {"open", "wire"}

(* Shares of a plan are sold in the end, unless it halts or waits for the  *)
(* outcome of an order that never reached Alpaca.                          *)
Unknown == \E k \in LiveIn(lc) : lc.attempts[k].status = "ambiguous" /\ alpaca[lc.attempts[k].id].st = "none"
HoldEnds == shares > 0 ~> (shares = 0 \/ lc.phase = "RECOVERY_HALT" \/ Unknown)

(* After the breaker asked for the exit no entry is sent any more.         *)
NoEntryAfterExit ==
  [][lc.emergency => \A n \in 1 .. MaxAttempts : alpaca[<<"entry", n>>].st = "none" => alpaca'[<<"entry", n>>].st = "none"]_vars
=============================================================================
