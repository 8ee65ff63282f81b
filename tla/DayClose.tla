------------------------------ MODULE DayClose ------------------------------
(***************************************************************************)
(* The end of the trading day and the start of the next one: the four      *)
(* flattening phases (core/flattening.py), the directives main.py carries  *)
(* out for them, the daily-loss breaker and the session boundary, over a   *)
(* book whose positions belong to different owners.                        *)
(*                                                                         *)
(* The day is cut into slots: before the open, normal trading, the four    *)
(* phase windows, after the close.  What the bot keeps is the record bot;  *)
(* a handler is an operator from such a record to the next one, because    *)
(* the boundary, the tick and its directive run one after the other in one *)
(* pass of the event loop.  saved is bot as last checkpointed and staged   *)
(* the row of the durable inbox whose handler a crash interrupted.         *)
(*                                                                         *)
(* Prices, shares and quantities are abstracted: a symbol is held or not,  *)
(* a market order fills or is refused.  The orders under it are modelled   *)
(* in BracketLifecycle (the legs) and BrokerOrders (Alpaca).               *)
(*                                                                         *)
(* An operator whose comment starts with "Fault:" is not part of the model *)
(* but a plausible bug in the definition after it.                         *)
(***************************************************************************)
EXTENDS Integers

CONSTANTS
  Symbols,  \* the symbols traded, each by one owner
  Class,    \* Class[s]: who owns the positions of s, see Classes
  MaxDay,   \* bound: the trading days modelled
  Faults    \* what may happen besides the normal run, see AllFaults

Classes == {
  "day",     \* the four intraday strategies and the operator: brackets, liquidated here
  "swing",   \* 2-Day Panic Dip: held for days, exempt
  "hold",    \* overnight holds: bought near the close, sold at the next open, exempt
  "dayone",  \* day-one plans: exempt while Alpaca holds their closing order
  "plan",    \* TSLA OR15 and the tri-engine: closed by their controller only
  "orb"}     \* opening range breakout: closed by its controller only

AllFaults == {
  "refused",  \* Alpaca may refuse or not fill a market exit
  "begin",    \* a boundary or a directive cannot be staged
  "crash",    \* the process dies and is started again
  "breaker",  \* the daily loss limit is breached
  "late"}     \* an entry cancelled here may still fill at Alpaca

ASSUME ClassAssumption  == Class \in [Symbols -> Classes]
ASSUME DayAssumption    == MaxDay \in Nat \ {0}
ASSUME FaultsAssumption == Faults \subseteq AllFaults

Of(c) == {s \in Symbols : Class[s] = c}

Pre    == 0  \* before 9:30
Open   == 1  \* from 9:30
Audit  == 5  \* the last two minutes
Closed == 6  \* after the close

(* get_phase_at_time: the phase the schedule gives a slot.                 *)
PhaseOf == [k \in Pre .. Closed |->
  CASE k = Pre    -> "PRE_MARKET"
    [] k = Open   -> "NORMAL_TRADING"
    [] k = 2      -> "ENTRY_LOCKOUT"
    [] k = 3      -> "ORDER_PURGE"
    [] k = 4      -> "MANDATORY_LIQUIDATION"
    [] k = Audit  -> "ZERO_AUDIT"
    [] k = Closed -> "MARKET_CLOSED"]

Phases     == {PhaseOf[k] : k \in Pre .. Closed}
OncePhases == {"ENTRY_LOCKOUT", "ORDER_PURGE", "MANDATORY_LIQUIDATION", "ZERO_AUDIT"}

VARIABLES
  day,     \* the calendar day
  slot,    \* the slot of the day
  bot,     \* what the bot remembers, see Bots
  saved,   \* bot as of the last checkpoint
  staged,  \* the inbox row of an interrupted handler, or NoRow
  boot,    \* "boundary" and "replay" during startup, then "serving"
  shield,  \* safe_to_exempt: day-one symbols whose closing order rests at Alpaca
  live,    \* entries cancelled here, still open at Alpaca
  fresh,   \* since the process started, a tick has run in this slot
  clean    \* and a fault-free step in today's audit window

vars == <<day, slot, bot, saved, staged, boot, shield, live, fresh, clean>>

-----------------------------------------------------------------------------
(* Types                                                                   *)

Bots == [
  phase   : Phases,                               \* current_phase
  done    : SUBSET OncePhases,                    \* phase1_executed .. phase4_executed
  audited : BOOLEAN,                              \* audit_passed
  session : 1 .. MaxDay,                          \* last_session_date
  status  : {"ACTIVE", "CIRCUIT_HALTED", "EOD_FLAT"},  \* account.status
  held    : SUBSET Symbols,                       \* account.positions
  entries : SUBSET Symbols,                       \* working entry orders
  exits   : SUBSET Symbols,                       \* working protective or market exits
  asked   : SUBSET Symbols,                       \* exits requested of a controller
  since   : [Of("swing") -> 1 .. MaxDay],         \* session of the swing entry
  days    : [Of("swing") -> 0 .. MaxDay]]         \* holding_days

NoRow == [kind |-> "none", day |-> 0]
Rows  == [kind : OncePhases \cup {"MARKET_CLOSED", "SESSION_BOUNDARY"}, day : 1 .. MaxDay]

TypeOK ==
  /\ day \in 1 .. MaxDay
  /\ slot \in Pre .. Closed
  /\ bot \in Bots
  /\ saved \in Bots
  /\ staged \in Rows \cup {NoRow}
  /\ boot \in {"boundary", "replay", "serving"}
  /\ shield \subseteq Of("dayone")
  /\ live \subseteq Symbols
  /\ fresh \in BOOLEAN
  /\ clean \in BOOLEAN

-----------------------------------------------------------------------------
(* What a handler does to the book                                         *)

(* _broker_gate: real orders go out in regular hours only; R are the       *)
(* symbols whose exit Alpaca does not fill in this step.                   *)
MarketOpen  == slot \in Open .. Audit
Unfilled(R) == IF MarketOpen THEN R ELSE Symbols

Cancelled(b, keep) == [b EXCEPT !.entries = @ \cap keep, !.exits = @ \cap keep]

(* cancel_all_orders(arm=INTRADAY), sparing the fixed plans' native orders *)
CancelIntraday(b) == Cancelled(b, Of("swing") \cup Of("plan"))

(* Fault: the phase-2 purge as it once was, protective stops included.     *)
PurgedAll(b) == Cancelled(b, Of("swing"))

(* The phase-2 purge: every order that protects no position, but swing's.  *)
Purged(b) == [b EXCEPT !.entries = @ \cap Of("swing"),
                       !.exits = @ \cap (b.held \cup Of("swing"))]

(* One market order per symbol of S, filled at once or left working.       *)
Sold(b, S, R) == [b EXCEPT !.held  = @ \ (S \ Unfilled(R)),
                           !.exits = (@ \ S) \cup (S \cap Unfilled(R))]

Active(b, c) == (b.held \cup b.entries) \cap Of(c)

(* request_all_exits of the controllers of class c                         *)
Asked(b, c) == [b EXCEPT !.asked = @ \cup Active(b, c)]

Exempt == Of("swing") \cup Of("hold") \cup shield

(* Fault: the sweep forgets that a swing position is exempt.               *)
TargetsWithSwing(b) == b.held \ (Of("hold") \cup shield \cup Of("plan") \cup Of("orb"))

(* The positions a sweep liquidates itself.                                *)
Targets(b) == b.held \ (Exempt \cup Of("plan") \cup Of("orb"))

Liquidated(b, R) ==
  LET a == Asked(Asked(b, "plan"), "orb") IN Sold(a, Targets(a), R)

(* execute_phase_4_audit: nothing intraday held or working; safe are the   *)
(* day-one symbols it is told to leave out.                                *)
IsFlat(b, safe) ==
  b.held \cup b.entries \cup b.exits \subseteq Of("swing") \cup Of("hold") \cup safe

Certified(b) == [b EXCEPT !.audited = TRUE,
                          !.status = IF b.held \cap Of("swing") = {} THEN "EOD_FLAT" ELSE @]

(* Fault: the sweep certifies the book without looking at it again.        *)
SweptUnseen(b, R) ==
  LET a == Asked(Asked([b EXCEPT !.phase = "ZERO_AUDIT", !.done = @ \cup {"ZERO_AUDIT"}],
                       "plan"), "orb")
      c == CancelIntraday(a)
  IN IF IsFlat(a, shield) THEN Certified(a) ELSE Certified(Liquidated(c, R))

(* run_audit: audit, and if the book is not flat sweep and audit again.    *)
(* The second audit is only reached with a position on the book, and is    *)
(* not told of the protected day-one symbols.                              *)
Swept(b, R) ==
  LET a == Asked(Asked([b EXCEPT !.phase = "ZERO_AUDIT", !.done = @ \cup {"ZERO_AUDIT"}],
                       "plan"), "orb")
      c == CancelIntraday(a)
      l == Liquidated(c, R)
  IN IF IsFlat(a, shield) THEN Certified(a)
     ELSE IF c.held # {} /\ IsFlat(l, {}) THEN Certified(l)
     ELSE [l EXCEPT !.audited = FALSE]

(* handle_flattening_directive, by phase                                   *)
Directive(b, kind, R) ==
  CASE kind = "ENTRY_LOCKOUT"         -> b
    [] kind = "ORDER_PURGE"           -> Purged(Asked(b, "orb"))
    [] kind = "MANDATORY_LIQUIDATION" -> Liquidated(CancelIntraday(b), R)
    [] kind = "ZERO_AUDIT"            -> Swept(CancelIntraday(b), R)
    [] kind = "MARKET_CLOSED"         -> CancelIntraday(b)

(* Fault: the audit runs once, like the other phases.                      *)
DueOnce(b) ==
  \/ PhaseOf[slot] \in OncePhases \ b.done
  \/ PhaseOf[slot] = "MARKET_CLOSED" /\ b.phase # "MARKET_CLOSED"

(* check_time_tick: does it return a directive?  Phases 1 to 3 do so once, *)
(* the audit until it has passed, the close once.                          *)
Due(b) ==
  \/ PhaseOf[slot] \in OncePhases \ b.done
  \/ PhaseOf[slot] = "ZERO_AUDIT" /\ ~b.audited
  \/ PhaseOf[slot] = "MARKET_CLOSED" /\ b.phase # "MARKET_CLOSED"

(* check_time_tick: the phase and its flag, set before the directive is    *)
(* carried out.  In a window whose flag is set the phase stays as it was.  *)
Ticked(b) == [b EXCEPT
  !.phase = IF Due(b) \/ slot \in {Pre, Open} THEN PhaseOf[slot] ELSE @,
  !.done  = @ \cup (IF Due(b) THEN OncePhases \cap {PhaseOf[slot]} ELSE {})]

(* Fault: the new session keeps the phase flags of the old one.            *)
NewSessionKeepsFlags(b, d) == [b EXCEPT
  !.session = d, !.phase = "NORMAL_TRADING", !.status = "ACTIVE",
  !.days = [s \in DOMAIN @ |-> IF s \in b.held THEN @[s] + 1 ELSE @[s]]]

(* Fault: the overnight controller counts the session a second time.       *)
NewSessionCountsTwice(b, d) == [b EXCEPT
  !.session = d, !.phase = "NORMAL_TRADING", !.done = {}, !.audited = FALSE,
  !.status = "ACTIVE",
  !.days = [s \in DOMAIN @ |-> IF s \in b.held THEN @[s] + 2 ELSE @[s]]]

(* holding_days: one more for every swing position held.                   *)
NextDays(b) == [s \in Of("swing") |-> IF s \in b.held THEN b.days[s] + 1 ELSE b.days[s]]

(* The reset at the end of _check_session_boundary                         *)
NewSession(b, d) == [b EXCEPT
  !.session = d, !.phase = "NORMAL_TRADING", !.done = {}, !.audited = FALSE,
  !.status = "ACTIVE", !.days = NextDays(b)]

(* The boundary waits for the fixed plans before it touches anything.      *)
PlanBusy(b) == Active(b, "plan") # {}

(* Fault: the days of a swing position are counted before the check that   *)
(* the book is flat, so once per retry.                                    *)
BoundaryCountingFirst(b, d, R) ==
  LET c == [b EXCEPT !.days = [s \in DOMAIN @ |->
              IF s \in b.held /\ @[s] < MaxDay THEN @[s] + 1 ELSE @[s]]]
      a == Cancelled(Asked(c, "orb"), Of("swing"))
      l == Sold(a, a.held \ (Exempt \cup Of("orb")), R)
  IN IF b.session >= d THEN b
     ELSE IF PlanBusy(b) THEN Asked(b, "plan")
     ELSE IF l.held \subseteq Exempt \cup Of("orb")
          THEN [NewSession(l, d) EXCEPT !.days = l.days] ELSE l

(* Fault: a plan that is still busy is waited for, not asked to close.     *)
BoundaryNotAsking(b, d, R) ==
  LET a == Cancelled(Asked(b, "orb"), Of("swing"))
      l == Sold(a, a.held \ (Exempt \cup Of("orb")), R)
  IN IF b.session >= d \/ PlanBusy(b) THEN b
     ELSE IF l.held \subseteq Exempt \cup Of("orb") THEN NewSession(l, d) ELSE l

(* _check_session_boundary for day d: a plan that is busy is asked to      *)
(* close and the book is left as it is; else every intraday order is       *)
(* cancelled and every leftover position sold, and only a book with no     *)
(* leftover begins the new session.                                        *)
Boundary(b, d, R) ==
  LET a == Cancelled(Asked(b, "orb"), Of("swing"))
      l == Sold(a, a.held \ (Exempt \cup Of("orb")), R)
  IN IF b.session >= d THEN b
     ELSE IF PlanBusy(b) THEN Asked(b, "plan")
     ELSE IF l.held \subseteq Exempt \cup Of("orb") THEN NewSession(l, d) ELSE l

(* Does the boundary for day d stage a row and checkpoint?                 *)
Stages(b, d) == b.session < d /\ ~PlanBusy(b)

(* The boundary when its row cannot be staged: the exits asked for remain. *)
Unstaged(b, d) ==
  IF b.session >= d THEN b
  ELSE IF PlanBusy(b) THEN Asked(b, "plan") ELSE Asked(b, "orb")

-----------------------------------------------------------------------------
(* Handlers                                                                *)

(* The positions on the book whose exits Alpaca may leave unfilled.        *)
Refusals == IF "refused" \in Faults THEN SUBSET (bot.held \cap (Of("day") \cup Of("dayone"))) ELSE {{}}
Losses   == IF "begin" \in Faults THEN BOOLEAN ELSE {FALSE}

(* Entries the step cancelled may have an order left at Alpaca.            *)
LeaveLive(b) == live' = IF "late" \in Faults THEN live \cup (bot.entries \ b.entries) ELSE live

Init ==
  /\ day = 1
  /\ slot = Pre
  /\ bot = [phase |-> "NORMAL_TRADING", done |-> {}, audited |-> FALSE, session |-> 1,
            status |-> "ACTIVE", held |-> {}, entries |-> {}, exits |-> {}, asked |-> {},
            since |-> [s \in Of("swing") |-> 1], days |-> [s \in Of("swing") |-> 0]]
  /\ saved = bot
  /\ staged = NoRow
  /\ boot = "serving"
  /\ shield = {}
  /\ live = {}
  /\ fresh = FALSE
  /\ clean = FALSE

(* _runtime_clock_step, and the same part of handle_bar_event: boundary,   *)
(* tick, directive.  R are the exits Alpaca does not fill; lostB and lostD *)
(* say that the boundary's or the directive's row could not be staged.     *)
ClockStep(R, lostB, lostD) ==
  /\ boot = "serving"
  /\ lostB => Stages(bot, day)
  /\ \E b \in {IF lostB THEN Unstaged(bot, day) ELSE Boundary(bot, day, R)} :
     \E t \in {Ticked(b)} :
     \E d \in {IF Due(b) /\ ~lostD THEN Directive(t, PhaseOf[slot], R) ELSE t} :
       /\ lostD => Due(b)
       /\ bot' = d
       /\ saved' = IF Due(b) /\ ~lostD THEN d
                   ELSE IF Stages(bot, day) /\ ~lostB THEN b ELSE saved
       /\ LeaveLive(d)
       /\ fresh' = TRUE
       /\ clean' = (clean \/ (slot = Audit /\ R = {} /\ ~lostB /\ ~lostD))
  /\ UNCHANGED <<day, slot, staged, boot, shield>>

(* The process dies in the boundary: its row is staged, its work is lost.  *)
CrashInBoundary ==
  /\ "crash" \in Faults
  /\ boot = "serving" /\ staged = NoRow
  /\ Stages(bot, day)
  /\ staged' = [kind |-> "SESSION_BOUNDARY", day |-> day]
  /\ bot' = saved
  /\ boot' = "boundary"
  /\ fresh' = FALSE /\ clean' = FALSE
  /\ UNCHANGED <<day, slot, saved, shield, live>>

(* The process dies in the directive; a boundary before it was saved.      *)
CrashInDirective(R) ==
  LET b == Boundary(bot, day, R)
  IN /\ "crash" \in Faults
     /\ boot = "serving" /\ staged = NoRow
     /\ Due(b)
     /\ staged' = [kind |-> PhaseOf[slot], day |-> day]
     /\ saved' = IF Stages(bot, day) THEN b ELSE saved
     /\ bot' = saved'
     /\ LeaveLive(b)
     /\ boot' = "boundary"
     /\ fresh' = FALSE /\ clean' = FALSE
     /\ UNCHANGED <<day, slot, shield>>

(* The process dies between two handlers.                                  *)
Crash ==
  /\ "crash" \in Faults
  /\ boot = "serving"
  /\ bot' = saved
  /\ boot' = "boundary"
  /\ fresh' = FALSE /\ clean' = FALSE
  /\ UNCHANGED <<day, slot, saved, staged, shield, live>>

(* Fault: the startup boundary runs although a row is still to be replayed.*)
StartupBoundaryAlways(R) ==
  LET b == Boundary(bot, day, R)
  IN /\ boot = "boundary"
     /\ bot' = b
     /\ saved' = IF Stages(bot, day) THEN b ELSE saved
     /\ LeaveLive(b)
     /\ boot' = "replay"
     /\ UNCHANGED <<day, slot, staged, shield, fresh, clean>>

(* _startup_overnight: the boundary for now, unless a row is pending or a  *)
(* position belongs to a controller that is not built yet.                 *)
StartupBoundary(R) ==
  LET runs == staged = NoRow /\ bot.held \cap (Of("orb") \cup Of("dayone")) = {}
      b == IF runs THEN Boundary(bot, day, R) ELSE bot
  IN /\ boot = "boundary"
     /\ bot' = b
     /\ saved' = IF runs /\ Stages(bot, day) THEN b ELSE saved
     /\ LeaveLive(b)
     /\ boot' = "replay"
     /\ UNCHANGED <<day, slot, staged, shield, fresh, clean>>

(* The interrupted boundary is replayed with its own day; when it returns  *)
(* before staging, its row stays pending.                                  *)
ReplayBoundary(R) ==
  LET b == Boundary(bot, staged.day, R)
  IN /\ boot = "replay" /\ staged.kind = "SESSION_BOUNDARY"
     /\ bot' = b
     /\ IF Stages(bot, staged.day)
        THEN saved' = b /\ staged' = NoRow
        ELSE UNCHANGED <<saved, staged>>
     /\ LeaveLive(b)
     /\ boot' = "serving"
     /\ UNCHANGED <<day, slot, shield, fresh, clean>>

(* The interrupted directive is replayed whatever the time is now.         *)
ReplayDirective(R) ==
  LET b == Directive(bot, staged.kind, R)
  IN /\ boot = "replay" /\ staged.kind \in Phases
     /\ bot' = b
     /\ saved' = b
     /\ staged' = NoRow
     /\ LeaveLive(b)
     /\ boot' = "serving"
     /\ UNCHANGED <<day, slot, shield, fresh, clean>>

StartServing ==
  /\ boot = "replay" /\ staged = NoRow
  /\ boot' = "serving"
  /\ UNCHANGED <<day, slot, bot, saved, staged, shield, live, fresh, clean>>

(* _trip_circuit_breaker, on every bar and quote while the limit is        *)
(* breached.                                                               *)
Trip(R) ==
  LET a == Asked(Asked(Asked([bot EXCEPT !.status = "CIRCUIT_HALTED"], "plan"), "orb"), "dayone")
      b == Sold(CancelIntraday(a), Targets(a), R)
  IN /\ "breaker" \in Faults
     /\ boot = "serving" /\ MarketOpen
     /\ bot' = b
     /\ LeaveLive(b)
     /\ saved' = bot'
     /\ UNCHANGED <<day, slot, staged, boot, shield, fresh, clean>>

(* The checkpoint of a handler that changes nothing of this.               *)
Checkpoint ==
  /\ boot = "serving"
  /\ saved' = bot
  /\ UNCHANGED <<day, slot, bot, staged, boot, shield, live, fresh, clean>>

-----------------------------------------------------------------------------
(* Orders and owners: every one of these handlers ends in a checkpoint     *)

(* A signal or the operator enters: the entry lockout is current_phase as  *)
(* the last tick left it.                                                  *)
Enter(s) ==
  /\ boot = "serving"
  /\ s \in Of("day") \ (bot.held \cup bot.entries)
  /\ bot.phase = "NORMAL_TRADING" /\ bot.status = "ACTIVE"
  /\ bot' = [bot EXCEPT !.entries = @ \cup {s}]
  /\ saved' = bot'
  /\ UNCHANGED <<day, slot, staged, boot, shield, live, fresh, clean>>

(* A working entry fills and gets its stop, or is refused out of hours.    *)
EntryEnds(s) ==
  /\ boot = "serving"
  /\ s \in bot.entries \cap Of("day")
  /\ bot' = IF MarketOpen
            THEN [bot EXCEPT !.entries = @ \ {s}, !.held = @ \cup {s}, !.exits = @ \cup {s}]
            ELSE [bot EXCEPT !.entries = @ \ {s}]
  /\ saved' = bot'
  /\ UNCHANGED <<day, slot, staged, boot, shield, live, fresh, clean>>

(* A working exit fills: a stop, a target or a market exit tried again.    *)
ExitFills(s) ==
  /\ boot = "serving" /\ MarketOpen
  /\ s \in bot.exits
  /\ bot' = [bot EXCEPT !.exits = @ \ {s}, !.held = @ \ {s}, !.asked = @ \ {s}]
  /\ saved' = bot'
  /\ UNCHANGED <<day, slot, staged, boot, shield, live, fresh, clean>>

(* An owner opens a position of its own.                                   *)
OwnerOpens(s) ==
  /\ boot = "serving"
  /\ s \notin Of("day") \cup bot.held
  /\ IF Class[s] = "hold" THEN slot = Audit
     ELSE slot = Open /\ bot.status = "ACTIVE" /\ bot.session = day
  /\ bot' = [bot EXCEPT
       !.held = @ \cup {s},
       !.exits = IF Class[s] = "swing" THEN @ \cup {s} ELSE @,
       !.since = [x \in DOMAIN @ |-> IF x = s THEN bot.session ELSE @[x]],
       !.days  = [x \in DOMAIN @ |-> IF x = s THEN 1 ELSE @[x]]]
  /\ saved' = bot'
  /\ UNCHANGED <<day, slot, staged, boot, shield, live, fresh, clean>>

(* A controller closes its position, of itself or because it was asked;    *)
(* one that has an entry on the way resolves it first.                     *)
OwnerCloses(s) ==
  /\ boot = "serving" /\ MarketOpen
  /\ s \in bot.held \ Of("day")
  /\ bot' = [bot EXCEPT !.held = @ \ {s}, !.exits = @ \ {s}, !.asked = @ \ {s}]
  /\ shield' = shield \ {s}
  /\ saved' = bot'
  /\ UNCHANGED <<day, slot, staged, boot, live, fresh, clean>>

(* The day-one closing order comes to rest at Alpaca, or is lost.          *)
Shield(s) ==
  /\ boot = "serving"
  /\ s \in bot.held \cap Of("dayone")
  /\ shield' = IF s \in shield THEN shield \ {s} ELSE shield \cup {s}
  /\ UNCHANGED <<day, slot, bot, saved, staged, boot, live, fresh, clean>>

(* An entry cancelled here fills at Alpaca; the settle timer books it.     *)
LateFill(s) ==
  /\ boot = "serving" /\ MarketOpen
  /\ s \in live
  /\ live' = live \ {s}
  /\ bot' = [bot EXCEPT !.held = @ \cup {s}]
  /\ saved' = bot'
  /\ UNCHANGED <<day, slot, staged, boot, shield, fresh, clean>>

(* Time passes, also while the process is down.                            *)
Advance ==
  /\ IF slot < Closed THEN slot' = slot + 1 /\ day' = day
     ELSE slot' = Pre /\ day' = day + 1 /\ day < MaxDay
  /\ fresh' = FALSE
  /\ clean' = (clean /\ slot < Closed)
  /\ UNCHANGED <<bot, saved, staged, boot, shield, live>>

Next ==
  \/ \E R \in Refusals :
       \/ \E lostB, lostD \in Losses : ClockStep(R, lostB, lostD)
       \/ CrashInDirective(R)
       \/ StartupBoundary(R)
       \/ ReplayBoundary(R)
       \/ ReplayDirective(R)
       \/ Trip(R)
  \/ CrashInBoundary
  \/ Crash
  \/ StartServing
  \/ Checkpoint
  \/ \E s \in Symbols :
       Enter(s) \/ EntryEnds(s) \/ ExitFills(s) \/ OwnerOpens(s) \/ OwnerCloses(s)
         \/ Shield(s) \/ LateFill(s)
  \/ Advance

Spec == Init /\ [][Next]_vars

Restarts ==
  StartupBoundary({}) \/ ReplayBoundary({}) \/ ReplayDirective({}) \/ StartServing

(* The clock loop runs every second and some day Alpaca fills and the disk *)
(* takes what it is given; a restart goes on step by step; a controller    *)
(* that was asked tries again at every tick.                               *)
Fairness ==
  /\ SF_vars(slot = Open /\ bot.session < day /\ ClockStep({}, FALSE, FALSE))
  /\ WF_vars(Restarts)
  /\ SF_vars(\E s \in bot.asked : OwnerCloses(s))

FairSpec == Spec /\ Fairness

-----------------------------------------------------------------------------
(* Properties                                                              *)

(* After a session whose audit window saw one fault-free step, no intraday *)
(* position and no intraday entry is left at the close, whatever phases 1  *)
(* to 3 lost to refusals, failed staging or crashes (the audit repeats     *)
(* until it passes, flattening.py 156-168).                                *)
FlatAtClose ==
  slot = Closed /\ clean /\ bot.session = day =>
    (bot.held \cup bot.entries) \cap Of("day") = {}

(* The account is called flat only with nothing left that someone has to   *)
(* close before the night: no intraday, plan or ORB position and no order  *)
(* of theirs (main.py 2936-2942).                                          *)
EodFlatMeansFlat ==
  bot.status = "EOD_FLAT" =>
    (bot.held \cup bot.entries \cup bot.exits)
      \cap (Of("day") \cup Of("plan") \cup Of("orb")) = {}

(* A session that has begun is never blocked as flat before its own audit  *)
(* window, not even by an audit of the day before that a restart replays   *)
(* (main.py 3328-3330).                                                    *)
BlockedOnlyAfterAudit ==
  bot.status = "EOD_FLAT" /\ bot.session = day => slot >= Audit

(* A session counts once towards the five days a swing position may be     *)
(* held, however often its boundary was tried, interrupted and replayed.   *)
DaysCountedOnce ==
  \A s \in bot.held \cap Of("swing") : bot.days[s] <= bot.session - bot.since[s] + 1

(* Once the session has begun and a tick has run in the slot, no intraday  *)
(* entry is accepted outside normal trading.                               *)
LockoutHolds ==
  [][(bot'.entries \ bot.entries # {} /\ fresh' /\ bot.session = day) => slot = Open]_vars

(* The same without the first condition: every day has its entry lockout.  *)
LockoutEveryDay ==
  [][(bot'.entries \ bot.entries # {} /\ fresh') => slot = Open]_vars

(* Positions held overnight on purpose are closed by their owners only,    *)
(* and a swing position keeps its stop: no phase, sweep, boundary, breaker *)
(* or replay sells them (main.py 2871-2880, 2911-2920, 1555-1564, 1627).   *)
OvernightIsKept ==
  [][\/ \E s \in Symbols : OwnerCloses(s) \/ ExitFills(s)
     \/ bot' = saved
     \/ /\ bot.held \cap (Of("swing") \cup Of("hold")) \subseteq bot'.held
        /\ bot.exits \cap Of("swing") \subseteq bot'.exits]_vars

(* While the market stays open, the boundary of a new day completes: plans *)
(* close, leftovers are sold, the session begins.                          *)
BoundaryCompletes ==
  (slot = Open /\ bot.session < day) ~> (bot.session = day \/ slot # Open)
=============================================================================
