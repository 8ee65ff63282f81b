# Formal models of the Autonomous Day Trader

TLA+ modules that model the trading core of this repository, TLC
configurations that check them on small instances, and proofs checked by
TLAPS. Paths below are relative to `src/backend/app/` unless they start with
`src/`; line numbers are those of the commit the models were written from.

    tlc -config Bracket.cfg MCBracketLifecycle.tla   # one run
    tlapm BracketProofs.tla                          # the proofs of one module

`PROJECT.json` holds the machine-readable side: components, runs, the source
lines every definition stands for, the mutants (at least one plausible bug per
property, which the property must catch), findings, hazards and theorems.

## 1. The modules at a glance

| module | what it is | code it translates |
|---|---|---|
| `BracketLifecycle` | one symbol's entry, its bracket, the orders that close it, and the reconciliation of fills | `core/bracket.py`, `core/engine.py`, and what connects them in `main.py` |
| `BrokerOrders` | local orders turned into Alpaca orders, polled, settled, compared | `core/engine.py` 120-400, `core/broker.py`, `main.py` 380-512 |
| `FillLedger` | abstract: a ledger that catches up with fills | what `BrokerOrders` implements |
| `DurableInbox` | write-ahead rows, checkpoints, replay at startup | `main.py` 880-1066, 3366-3481, `core/persistence.py` |
| `DurableLog` | abstract: a durable log in which a crash does not show | what `DurableInbox` implements |
| `DayClose` | the four flattening phases, the breaker, the session boundary, their restart | `core/flattening.py`, `main.py` |
| `CashLedger` | cash, positions, average prices, margin and buying power | `core/account.py`, `core/engine.py` |
| `LossBudget` | the loss of the day, its offset for overnight sales, orders sized by what is left | `core/risk.py`, `core/overnight_integration.py`, `main.py` |
| `StockOwners` | who may send an order for a stock: engine, ORB, day-one plans, overnight holds | the admission hooks of `main.py` and the three integrations |
| `TriPlan` | a fixed morning plan (TSLA, CDE) from signal to recorded trade | `core/tri_execution.py`, `strategies/tri_engine.py` |
| `OvernightHold` | one night of one stock: buy near the close, sell at the next open | `core/overnight_execution.py`, `core/overnight_schedule.py` |
| `DayOnePlan` | one lifecycle of a day-one plan (SPY, COIN) | `core/day_one_execution.py`, `core/day_one_schedule.py` |
| `OrbBracket` | one ORB pick at Alpaca: native bracket, own book, exit | `core/orb_execution.py` |
| `OrbBooking` | ORB's fills booked into the account | `core/orb_integration.py` |
| `OrbMorning` | ORB's scheduler, its jobs, the child process, the saved state | `core/orb_scheduler.py`, `core/orb_facade_proc.py` |
| `ScanSession` | the scan of a stock over a tape that is still corrected | `strategies/orbs/orbproc.py`, `strategies/orbs/scanner.py` |
| `BoardPicks` | boards, deal news, regime and gates to at most two picks | `strategies/orbs/facade.py`, `adaptive.py`, `flow.py` |
| `FenceFlow` | order flow at the break of the opening range, in bounded memory | `strategies/orbs/flow.py` |
| `RelayAnswer` | a read of the relay: retries, deadline, cache, age of a quote | `strategies/orbs/market.py` |
| `NewsRead` | the paged read of the news under one budget | `strategies/orbs/adaptive.py` |
| `SwingArm` | the panic-dip arm: stage at the close, execute at the open | `strategies/swing_panic_dip.py`, `main.py` |
| `DailyBars` | from minutes to the daily bars a swing scan judges | `strategies/swing_indicators.py`, `main.py` |
| `RideTheTrend` | impulse, thin pullback, resumption, bar by bar | `strategies/vwap_pullback_v2.py` |
| `NewsMomentum` | headlines as catalysts and as contradictions | `strategies/news_momentum.py`, `ingestion/news_ws.py` |
| `EntryGate` | trend of the indexes, phase of the day, places left, and the operator's card | `core/market_filter.py`, `strategies/adaptation.py` |
| `TrendGates` | macro window, relative strength, sector, dollar and rates | `core/regime_feed.py`, `core/macro_calendar.py` |
| `VixGauge` | the VIX print, fresh or stale, and the sizes it scales | `ingestion/vix_client.py`, `strategies/adaptation.py` |
| `RelayFeed` | the stock feed's queue and the tick tape with its outages | `ingestion/stock_ws.py`, `core/tick_tape.py` |
| `VolumeProfile` | the rebuild of a profile and what it is made of | `core/volume_profile.py`, `main.py` |
| `ResearchRows` | the rows that follow a trade and their claim of coverage | `core/research_tracker.py`, `core/research.py` |

| host module | parts it checks side by side |
|---|---|
| `MCBracketLifecycle` | `BracketLifecycle` (two brackets of a symbol), `SwingArm` |
| `MCOrders` | `BrokerOrders`, `DayOnePlan`, `TriPlan` |
| `MCBooks` | `DurableInbox` twice (crash and failed save; every fault), `CashLedger`, `OrbBooking` |
| `MCDayClose`, `MCSessions` | the books of `DayClose`; `DayClose`, `TrendGates`, `VixGauge`, `NewsMomentum`, `RideTheTrend` |
| `MCHolders` | `TriPlan`, `OrbBracket`, `OvernightHold`, `DayOnePlan` |
| `MCMornings` | `OrbMorning`, `StockOwners`, `LossBudget`, and `BracketLifecycle` again: one bracket under an operator who may cancel and send anything |
| `MCMarket` | `RelayFeed`, `RelayAnswer`, `NewsRead`, `VolumeProfile`, `DailyBars`, `ResearchRows`, `ScanSession`, `FenceFlow`, `BoardPicks`, `EntryGate` |

A host chooses one part at the start (`turn`) and keeps the others constant:
the parts share no state, so this explores the sum of their state spaces, not
the product. Every host but `MCMarket` EXTENDS one of its
parts, whose own properties it checks as they stand, and takes the others as
instances; of those a property of the host says "when it is this part's turn,
that part's property holds", and the property itself is stated in the part's
module.

| proof module | theorems of |
|---|---|
| `BracketProofs` | `BracketLifecycle` |
| `BrokerProofs` | `BrokerOrders` |
| `InboxProofs` | `DurableInbox` |
| `BooksProofs` | `CashLedger`, `OrbBooking`, the second inbox of `MCBooks` |
| `DayProofs` | `DayClose`; `TrendGates`, `VixGauge`, `NewsMomentum` and `RideTheTrend` as `MCSessions` instances them |
| `MorningProofs` | `OrbMorning`, `StockOwners`, `LossBudget`, the second `BracketLifecycle` of `MCMornings` |
| `TriProofs` | `TriPlan` |
| `SumProofs` | lemmas about sums over a finite set, for `BooksProofs` and `TriProofs` |

## 2. Inventory of the system

The backend is one Python process: a FastAPI application whose `lifespan`
(`main.py` 3366-3481) restores the last checkpoint, attaches Alpaca, settles
orders, replays the durable inbox and then starts the relay clients, a clock
loop (1 s), a settle timer (5 s) and a comparison of positions (30 s).
The state of the bot's own strategies is changed on one asyncio event loop only.

**Concurrency, as the code has it.** Handlers have no real suspension point
before their final checkpoint: `_broker_execute` blocks the loop for the whole
exchange with Alpaca (up to about six seconds), persistence is synchronous
SQLite, and the coroutines awaited in between do not suspend. So a handler is
atomic with respect to other handlers, and *not* atomic with respect to Alpaca
or to a crash. What really suspends: `asyncio.to_thread` (position syncs at
`main.py` 399-429, controller work, the swing backfill 3000-3113), broadcasts
to the dashboard after the checkpoint, and the controllers' worker threads.
ORB alone trades from threads of its own: an executor and a supervisor that
share its book with the loop under `orb.lock` and a lock per symbol.

| component | state | operations | how it meets the others | what makes it correct | modelled |
|---|---|---|---|---|---|
| Bracket manager and reconciliation (`core/bracket.py`, `main.py` 1320-1534) | brackets, symbol and order maps, stop levels, tallies | create, activate by shares, resize, target 1 and break-even, trail, tighten, cancel, release, complete | called with every fill the engine books | every held share has one stop, exits never exceed the position, a dropped bracket cannot fill, one trade row per bracket | partly |
| Execution engine (`core/engine.py`) | orders, working list | submit, match on quote or bar with participation cap, cancel, purge | asks the broker gate; fills go to the account and to reconciliation | which order fills, in which order | partly |
| Broker connection (`core/engine.py` 120-400, `core/broker.py`) | per order: client id, attempt, broker id, booked shares; backoff; mismatch | execute with lookup, POST, poll, cancel; settle; sync and compare | Alpaca REST; checkpoint | each Alpaca fill booked once, no order live twice, late fills found | partly |
| Durable inbox and checkpoint (`main.py` 880-1066, `core/persistence.py`, `core/runtime_state.py`) | table `processed_events`, checkpoint row, in-flight and owed keys, health flag | begin, checkpoint, nested checkpoint, retry, restore, replay | wraps every handler | a restart neither loses nor repeats an event | modelled |
| Flattening, breaker, boundary (`core/flattening.py`, `main.py`) | phase, phase flags, audit flag, session date, account status | tick, four directives, trip, boundary | liquidates through engine and brackets; asks controllers | nothing intraday is left at the close, exempt positions survive, a session begins once | modelled |
| Event handlers and loops (`main.py`) | queues of pending work, feed health | bar, quote, news, VIX, clock, operator API | everything | each handler ends in one checkpoint | partly |
| Account (`core/account.py`) | cash, positions, realized results, buying power | apply fill, mark, new day | engine, risk | equity is explained by fills and marks; an approved order is backed | partly |
| Risk (`core/risk.py`, `main.py` 257-380, 515-683) | limits, lockouts, reservations | pre-trade check, sizing | before every order | slots and daily loss never over-committed; one owner per stock | partly |
| TSLA OR15 plan (`strategies/tsla_or15_retest.py`, `core/or15_execution.py`) | plan state, native ids | exit, reconcile | retired: `OR15_NEW_ENTRIES` is False (`main.py` 182) | | no |
| Tri-engine plans (`strategies/tri_engine.py`, `core/tri_execution.py`) | plan, tranches, native orders | enter, protect, close, look up, recover | worker threads, Alpaca, checkpoint | an ended plan leaves nothing at Alpaca, its book is what was filled | partly |
| Overnight holds (`core/overnight_*.py`) | nights, attempts, permissions | buy at the close, sell at the open, look up, book | worker threads, Alpaca | one buy and one sale per night, never short | partly |
| Day-one plans (`core/day_one_*.py`) | attempts, closing-order protection | enter, protect, confirm, recover, halt | worker threads, Alpaca | bought once, never oversold, exempt only while really covered | partly |
| ORB execution (`core/orb_execution.py`, `core/orb_integration.py`) | native brackets, ownership, booked counters | enter, fill, reconcile, exit leg by leg, book | Alpaca, account, decision process | what lives is owned, exits within the shares, each fill booked once | partly |
| ORB scheduler (`core/orb_scheduler.py`) | steps of the day, jobs, deadlines, saved snapshot | start, collect, expire, claim, save | worker threads, child process | the primary wave is sent once; a closed step stays closed | partly |
| ORB decision process (`strategies/orbs/*`) | sessions, boards, caches | scan, repair, decide, judge | pipes to a child process, relay | a verdict rests on whole and current data | partly |
| Panic-dip swing (`strategies/swing_panic_dip.py`, `main.py` 2960-3115) | staged orders, holding days, daily bars | scan, stage, send, emergency stop | boundary, engine | slots kept, sells covered, bars real | partly |
| Intraday strategies (`strategies/*.py`) | machines over bars | signal | engine | a signal is earned by the bars it claims | partly |
| Adaptation, windows, filters | index states, macro calendar, VIX regime | pass or withhold a signal, scale its size | strategies | entries only in the market they ask for; large size only on a fresh index | partly |
| Tick tape, volume profile | prints and outages; profiles by generation | add, trim, window; rebuild, query | feed, strategies | whole windows are whole; a profile is of the sessions it says | partly |
| Relay clients, event bus (`ingestion/*`, `core/event_bus.py`) | bounded queue, connection state | receive, evict, reconnect, publish, poll | handlers | order kept, loss visible | partly |
| Research, decisions, reports | followed trades, rows | fold, write | nothing trades on them | a row that claims coverage has it | partly |
| Replay and mock relay | recorded feeds | play | test equipment | | no |
| Configuration, sentiment, event types | none | | | | no |
| Dashboard (`src/frontend`) | view | REST, WebSocket | handlers of the API | | no |

Hard behaviours, and where they are looked at: partial fills interleaved with
cancels, purges and manual exits (`BracketLifecycle`); timeouts with unknown
outcome, late fills, a crash between a fill and its checkpoint
(`BrokerOrders`); failed and half-way checkpoints, crash at any step, repeated
events, order of the replay (`DurableInbox`); retries every second, refusals,
restarts in the middle of a phase, four lists of exempt owners (`DayClose`); a
worker thread's answer collected under a clock, a mode and a book that have
moved on (`OvernightHold`, `DayOnePlan`, `TriPlan`, `OrbBracket`,
`OrbMorning`); several parts claiming one stock or the last slot
(`StockOwners`); late, lost, revised and repeated market data (`RelayFeed`,
`ScanSession`, `DailyBars`, `EntryGate`, `TrendGates`); stale values held too
long (`VixGauge`, `RelayAnswer`). The full list with its lines is under
"hazards" in `PROJECT.json`. Further hazards known and not listed there: bars of
an older date (`main.py` 1589), a full queue of the stock feed, whose next frame evicts
the oldest of any kind (`ingestion/stock_ws.py` 229; section 7), the order of subscribers in `event_bus.py` 61, deletion of committed
rows after seven days (`core/persistence.py` 417).

## 3. The modules

Every action is one handler, from its guard to its last assignment, or, where a
crash, another thread or Alpaca can come in between, one round trip of it.
Operators commented "Fault:" are not part of the model: each is the plausible
bug its property is tried against.

### 3.1 Orders and books of the bot

**BracketLifecycle.** State: `pos` (account position), `ord` (engine orders),
`br`, `symBr`, `mapped`, `entryMap` (the bracket manager's dictionaries),
`trade` (the tally behind a trade row), and `pend`/`phase`/`room`, the program
counter of a handler: the engine loop fills order after order (`match`, or `sell`
in the loop of `_flatten_symbol`), `_reconcile_fills` takes the fills in the same
order (`reconcile`), and nothing else runs in between. A liquidation cancels the
legs and sends a market order over the whole position. With Alpaca behind the
engine that order may be refused, wait or fill in part, so `Liquidate` sells any
number of the shares, none included, in one piece or several; the order works on,
and later quotes and bars fill it. A boundary after which shares remain begins no
day (`SessionIncomplete`), and the next event comes back to it. Actions: a signal; a quote or bar that fills working
orders in engine order; reconciliation of an entry, stop, target or exit fill;
trailing; the breaker and phase liquidation; the phase-2 purge; a contradicting
news exit; a failed checkpoint; what an operator may do through the REST API
(tighten, flatten, cancel, reduce); the boundary. `Blind = FALSE` leaves out two things an unfinished liquidation does
not stop in the code: a new signal and a second liquidation for a contradicting
headline (section 7). Prices are abstracted to "this
order is hit"; stop levels stay, since monotony of the stop is a property.
Shares are real numbers of shares, so the split between two targets is checked,
down to a target of no share. Left out: the short side (mirror image), stop
orders sent by hand, the fixed single target of OR15, fills of swing and plan
orders (they have no bracket), fills of orders that were cancelled here and are
still open at Alpaca (`BrokerOrders`).

**BrokerOrders, refining FillLedger.** Each local order has attempts; attempt
`k` of order `o` is the Alpaca order `<<o, k>>`, as the client id `adt-o-k` is.
`call` is the exchange in progress and its next round trip (lookup, read, gate,
held check, POST); between two round trips Alpaca fills, cancels or rejects, a
POST may arrive without its answer, and the process may die. `disk` is the
checkpoint. `Settle`, `Sync` and `Compare` are the timers. The refinement maps
Alpaca's cumulative counts to `filled`, the shares booked per attempt to
`booked` and those of the checkpoint to `saved`. Left out: the fixed-intent path
of OR15, `cancel_on_broker_error` of the swing orders (in `SwingArm`), failing
checkpoints (in `DurableInbox`).

**DurableInbox, refining DurableLog.** The trading state is what was applied to
it: `log` is a sequence of events, whole or half applied, `notes` counts changes
made outside an event. Actions: `Deliver` (stages a row first, drops a key that
is known or cannot be staged), a nested checkpoint, `Finish`, an exception that
leaves a handler, an operator change, a controller's intent, the clock loop's
retry, and the startup: settle, replay row by row in order, retry, serve. A
crash at any step leaves `inbox` and `disk`. The refinement has no step for the
crash: it must not show. Left out: colliding keys, deletion of old rows, trade
rows and summaries, graceful shutdown and backup, changes a handler makes before
it stages (`main.py` 2499-2507, 2698) or after its checkpoint (2657-2658).

**DayClose.** `bot` is the record the process keeps (phase, flags, audit,
session date, status, the book by symbol), `saved` its checkpoint, `staged` the
inbox row of an interrupted handler. Handlers are operators from record to
record, because the boundary, the tick and its directive run one after the other
in a single pass (`_runtime_clock_step`). A symbol belongs to one class of
owner; positions are held or not, exits fill or are refused. `ClockStep` is the
whole pass; `CrashInBoundary`, `CrashInDirective`, `Crash` and the three restart
actions are its failures; the rest are entries, fills, owners and the passing of
time, which passes also while the process is down. `fresh` and `clean` are
history: a tick has run in this slot; a fault-free tick has run in today's audit
window. Abstractions: one interrupted handler at a time (bound); orders, quotes
and bars checkpoint at their end; real orders only in regular hours; weekends
are not told apart from trading days; after several days down the holding days
advance once, as in the code; the second audit of a sweep is not told of the
protected day-one symbols (as in the code, `main.py` 2931-2934), which costs one
more tick; the row of a boundary that returns early stays pending (as in the
code).

**CashLedger.** Fills of two symbols, long and short, with scaling in, partial
exits and flips; average prices rounded to a unit as the code rounds to 0.0001;
the gate that approves an order; marks, halts and the new day. `rounded` bounds
what the rounding can have moved, so that "equity is explained" is exact up to
it. Left out: dividends and the report of closed trades.

**LossBudget.** The equity as one number, the session's limit and breaker, the
offset that takes an overnight sale out of the measured loss, and the approval
of an entry against what is left after the controllers' reservations. `today` is
a ghost: what everything but the hold did since the boundary. A reservation that
cannot be read approves nothing.

**StockOwners.** Entries only: of the engine (intraday, operator, swing), ORB's
threads, the day-one plans and the overnight holds, each from its claim over its
looks at the others to its POST. The steps are cut where another thread can come
in; what runs under `orb.lock` is one step. An entry that was given up may still
fill (`dead`, arm "late"): it may exceed the slots, as in the code.

### 3.2 The controllers that trade for themselves

A worker thread asks Alpaca, the loop collects the answer at a later tick; a
step is what runs between two moments at which Alpaca, another thread or a crash
can come in. `saved` is the last checkpoint of the controller's section.

**OvernightHold.** One night: the attempts of the buy (a market order near the
close, or one into the closing auction with its fallback), the lookups before
every POST, cancels, the hold, the sale at the next open or later, mergers and
cancels by hand, the switch of the mode at a restart, the release. A booking may
have to wait for the boundary of the fill's day; a later read makes up for it. Left out:
sizing, the early close of a day trade, the calendar cross check of the sale
date, a confirmed symbol change, several nights at once.

**DayOnePlan.** A handler is an operator from a world (the lifecycle, what is
saved of it, the job, the faults) to the set of worlds it may end in, because
what it decides depends on which of its checkpoints were written. Attempts,
reads, cancels, the closing-auction order, recovery, halt and the breaker's
request are all there. Left out: sizing, pacing, the calendar and the COIN
model (its answer is chosen), the next session's lifecycle.

**TriPlan.** The plan, its book and its orders, one request per tranche and one
for the entry; the OCO of a tranche is one order. Left out: the search for the
signal, the short side, prices. With `LateArrival = TRUE` a POST may arrive
after it was looked for, and the properties fail, as they do for `BrokerOrders`.

**OrbBracket, OrbBooking.** The executor and the supervisor of a pick as
threads with their locks; the native bracket, whose two legs are one OCO order;
the exit in its order: cancel, confirm, resize, submit. `OrbBooking` is the way
of its fills into the account: ORB's row and ADT's checkpoint are saved apart
and may be lost apart. Left out: sizing, PATCHes of the legs, several picks.

**OrbMorning.** A tick is a chain of links (expire, collect, open, claim), each
an operator on a *world* (scheduler state, jobs, snapshot for the writer). Jobs
finish late, the child dies or is given up, a save fails, the process restarts
from the saved snapshot. `primary` and `scans` are history. Left out: sizing and
calendar jobs, pacing, verdict rows, the second day.

**SwingArm.** Days with an open window, a session and a close: the scan stages,
the open executes, bars and quotes breach stops, the operator exits, settle
passes find late answers. Left out: indicators (a scan may find any stock).

### 3.3 What the bot concludes from the market

**RelayFeed.** The reader's bounded queue, whose marks overtake it, and the tape
with its outages and windows. **RelayAnswer**: attempts, pauses and a shared
cache under one deadline; only quotes with a time are guarded, as in the code.
**NewsRead**: pages and verdicts under one budget. **VolumeProfile**: rebuilds
that a later session supersedes; `asyncio.wait_for` may lose a cancellation,
which the model allows. **DailyBars**: minutes from the stream and from
history, daily bars and the scan's four rules. **ResearchRows**: the claim of
coverage of a row. **ScanSession**: the incremental reducer against a scan of
the whole tape. **FenceFlow**: counters of bounded size against the whole tape.
**BoardPicks**: from boards and news to at most two picks, with the child's
memory lost in between.

**EntryGate, TrendGates, VixGauge, NewsMomentum, RideTheTrend** take bars that
are late, lost or repeated, and restarts that rebuild them from the relay. After
a restart the trend of `EntryGate` is that of the minutes the new process was
told of, as in the code. In `RideTheTrend` the flag `blocked_until_restart` is
written and never read, as in the code. What each leaves out is in the comment
at its head.

## 4. Runs

Each run answers one question; the properties are stated in the modules, the
composite ones of the hosts in the host.

| run | shows |
|---|---|
| `bracket_book` | two brackets of a symbol, entries of 3 shares, fills of one share or of all, liquidations of which any part is refused or waits: `StopCoversPosition` (a stop or the unfinished liquidation covers every share), `ExitsWithinPosition`, `ReleasedOnlyIfEntryDead`, `RecordedTradeIsComplete`, `CheckpointRestores` (the checkpoint left by every handler passes what the next start demands, while a refused liquidation of the whole book is not at work), and per step `StopNeverLoosens`; the swing arm over three sessions: `SwingShares` (`SlotsHeld`, `SellsCovered`) |
| `orders` | an entry and an exit, two attempts each, crash at any step: `LedgerTracksAlpaca`, `OneLiveOrder`, refinement `LedgerSpec`; day-one and tri-engine plans with a fault anywhere: `PlansAreReal` (nothing ordered twice, booked otherwise than Alpaca did, or let go with something left) |
| `broker_fills` | liveness: `FillsGetBooked`, also of an order the bot had cancelled; `PauseEnds` |
| `books` | four events, failing checkpoints, crash at any step: `AppliedOnce`, `PromiseKept`, refinement `DurableSpec`, liveness `LockoutEnds`; every fault together: `AnyKeepsAll` (`NoEventLost`); cash, equity, approved orders and ORB's rows: `BooksAreExplained` |
| `day_close` | two days, an intraday, a swing, an overnight and an ORB symbol, refusals, breaker, crashes: `FlatAtClose`, `EodFlatMeansFlat`, `BlockedOnlyAfterAudit`, `LockoutHolds`, `OvernightIsKept`; the session's filters, its volatility index and two strategies: `EntriesAreEarned` |
| `day_boundary` | liveness: `BoundaryCompletes` with an intraday, a plan and a day-one symbol, refusals, lost rows, late fills |
| `holders` | a night of two shares or one into the closing auction, a pick of two shares over two sessions, one fault anywhere: `NightIsReal` (bought once, never short, booked as filled, released flat), `PickIsReal` (owns what lives, sells within its shares, what it knows of is protected or its exit is owed) |
| `night_live` | liveness: `HoldIsSold`, whatever the mode and the compare say; `BuyEnds` |
| `holders_live` | liveness: `HoldEnds` of a COIN plan, `PickEndsFlat` of a pick; a fixed plan under any two faults: `PlanIsReal`, liveness `PlanEndsFlat` |
| `mornings` | ORB's morning with a crash, a dead child or a failed save: `PrimaryOnce`, liveness `OrbMorningEnds`; owners of a stock and the loss of a day: `OwnersShare` (`OneOwner`, `SlotsShared`, `MeasuredIsTheSessions`, `ApprovedFitsTheDay`); one bracket under an operator who cancels and sends anything, beside liquidations that fail: `DeskStartsFlat` (`DayStartsFlat`: however often its boundary had to be repeated, a day starts flat) |
| `market` | `FeedIsWhole` (windows, session flow, quotes, news, profiles, daily bars, research rows that claim to be whole are), `ScansAreTheTape` (cards, flow verdicts, picks and the trend of the indexes are those of the tape, and the operator's card is the gate) |
| `relay_outage` | a violation, see section 7 |

`EntriesAreEarned` puts together `GatesReadTheTape` (`TrendGates`),
`LargeNeedsFresh` (`VixGauge`), `HeadlineActsOnce` (`NewsMomentum`) and
`SignalIsEarned` (`RideTheTrend`); `TrendIsTheSessions` and `CardIsTheGate`
(`EntryGate`) are parts of `ScansAreTheTape`. `OwnersShare` puts together
`OneOwner` and `SlotsShared` (`StockOwners`), `MeasuredIsTheSessions` and
`ApprovedFitsTheDay` (`LossBudget`). `PlansAreReal` puts together `WithinPlan`,
`CountsRealFills`, `OrderIsKnown`, `ReleasedIsFlat` (`DayOnePlan`),
`NothingLeft`, `BookIsReal` (`TriPlan`). `BooksAreExplained` puts together
`EquityIsExplained`, `ApprovedIsBacked` (`CashLedger`), `BookIsOrb`,
`TradeIsWhole` (`OrbBooking`); `PickIsReal` `OwnsWhatLives`,
`SellsWithinShares`, `Covered` (`OrbBracket`); `PlanIsReal` `NothingLeft`,
`BookIsReal` (`TriPlan`).

**Bounds and why they are enough.** The values are in the .cfg files and in the
INSTANCE lines of the hosts. Two brackets: what goes wrong between brackets of
a symbol goes wrong between an old one and the next (`symBr` holds one).
An entry of three shares whose fills are of one share or of all (the desk of
`mornings`: two shares): the bracket is then of 1, 2 or 3, so its split is even,
odd and without a second target, and a liquidation leaves 0 to 3 shares. One id
for liquidation orders is enough where a second is never sent beside the first
(`Blind = FALSE`); the desk, which does send it, has three, one of them to buy
back. Two attempts of an order: one that may be
alive and its successor. Four orders of the swing arm: one given up that may
still fill, and those of the next open. Four events with two notes: one committed, one owed,
one at work, one to come. Two days and seven slots: a handler of one day
replayed in the next, in every slot. One symbol per owner: the sweep treats
owners independently of each other, except in "all flat". One fault in the
controllers' runs (two in the plan of `holders_live`): these models place it at
every step, and the answer to it is what is checked. Queues, windows and ages
are scaled to a few ticks so that each of them overflows, expires and is met
exactly.

Larger instances were checked outside the runs, with the same result: `TriPlan`
with two tranches (liveness), `DayOnePlan` with a fault (liveness), `OrbBracket`
with two faults (`OwnsWhatLives`, `SellsWithinShares`; 2.1 million states),
`SwingArm` with two faults, `ScanSession` with five ticks (2.1 million states), `BoardPicks` with two faults, the inductive
invariants of section 6 on several instances each.

Deadlock is checked in `broker_fills` and `day_boundary`; the others have
bounded histories or a clock that ends (`CHECK_DEADLOCK FALSE`).

## 5. Fairness

Only liveness runs use it; each condition is about a loop the code runs.

- `BrokerOrders` (`FairOrders`): round trips end (HTTP timeouts, WF); a settle
  pass visits each order once and ends (SF); the 5 s timer reaches every linked
  order (SF); a lookup that is repeated is some day answered, a position sync
  some day succeeds; a POST on its way arrives; Alpaca ends every order it has
  open; an order that triggered triggers again while it works, by the next quote
  or by the replayed event.
- `DurableInbox` (`FairBooks`): a handler that began ends; the clock loop
  retries an owed checkpoint every second (`main.py` 3155-3156) and the disk
  some day takes it; crashes do not come at the same step for ever.
- `DayClose` (`FairSpec`, `FairSessions` of its host `MCSessions`): the clock
  loop runs every second while the market is open and some day Alpaca fills and
  the row is staged (SF); a restart goes on; a controller that was asked to exit
  tries at every tick (SF).
- `OvernightHold`, `DayOnePlan`, `TriPlan`, `OrbBracket`, `OrbMorning`: the loop
  ticks, the worker threads run, time passes, a process that died is started
  again, what was sent arrives, and a market order is filled while the market is
  open (WF each). Nothing makes an entry be planned, a bracket leg fill, or
  anything fail.

None of them assumes that a fault stops happening, only that it does not happen
every time; the controllers' faults are bounded by `MaxFaults`. With crashes
without bound `FillsGetBooked` does not hold (section 7), so that run has none.

## 6. Proofs

TLC checks one instance; the theorems hold for every value of the constants
that satisfies the named assumptions. `Spec` is in each case the safety part of
the module's own specification; the theorems of `BooksProofs`,
`MorningProofs` and `DayProofs` are about the specifications of the hosts
`MCBooks`, `MCMornings` and `MCSessions`, where their runs check them.

| theorem | of the run's property | assumes |
|---|---|---|
| `BracketProofs.TypeCorrect` | | |
| `BracketProofs.SafeBookHolds` | (the inductive invariant) | `CalmDesk` |
| `BracketProofs.PositionIsCovered` | `StopCoversPosition` | `CalmDesk` |
| `BracketProofs.ExitsAreBacked` | `ExitsWithinPosition` | `CalmDesk` |
| `BracketProofs.RestartIsPossible` | `CheckpointRestores` | `CalmDesk` |
| `BracketProofs.CancelledIsDead` | `ReleasedOnlyIfEntryDead` | `CalmDesk` |
| `BracketProofs.TradesAreComplete` | `RecordedTradeIsComplete` | `CalmDesk` |
| `BracketProofs.StopOnlyTightens` | `StopNeverLoosens` | |
| `BracketProofs.EveryDayStartsFlat`, `MorningProofs.DeskDayStartsFlat` | `DeskStartsFlat` | |
| `BrokerProofs.TypeCorrect`, `LedgerImplemented` | `LedgerSpec` | |
| `BrokerProofs.LedgerExact` | `LedgerTracksAlpaca` | `~LateArrival` |
| `BrokerProofs.OneOrderAlive` | `OneLiveOrder` | `~LateArrival` |
| `InboxProofs.TypeCorrect`, `CheckpointWhole`, `OnceOnly`, `PromisesKept`, `NoneLeftBehind`, `DurableImplemented` | `AppliedOnce`, `PromiseKept`, `DurableSpec` | `Covered` |
| `InboxProofs.NothingLost`, `BooksProofs.AnyEventKept` | `AnyKeepsAll` | |
| `BooksProofs.BooksExplained` | `BooksAreExplained` | `~Late`, `~Recover` |
| `DayProofs.TypeCorrect`, `CountedOnce`, `BlockedAfterAudit`, `Lockout`, `OvernightKept` | `BlockedOnlyAfterAudit`, `LockoutHolds`, `OvernightIsKept` | |
| `DayProofs.EntriesEarned` | `EntriesAreEarned` | |
| `DayProofs.CertifiedFlat`, `ClosesFlat` | `EodFlatMeansFlat`, `FlatAtClose` | no "late" fault |
| `MorningProofs.MorningTypes`, `OncePerMorning`, `StaysClosed` | `PrimaryOnce` | |
| `MorningProofs.OwnersApart`, `OwnersShareStocks` | `OwnersShare` | |
| `TriProofs.PlanStaysReal` | `PlanIsReal` | `~LateArrival`, `[][Written]_vars` |

**BracketProofs.** No share count of an order or bracket becomes negative. Types
alone are not inductive: a bracket could be activated with a negative remainder,
so the invariant adds that a waiting bracket has at least one share to protect.
The invariant `SafeBook` says in which of four stages the
book is: *untaken* (no bracket holds the symbol), *waiting* for the owner's
entry, *guarded* by its stop, or *on sale*: one liquidation order works for exactly
the shares that are left, or has just sold them, and nothing else is in the market
(`Sale`); the broker may refuse it as often as it likes. `StopCoversPosition` speaks of the moments between handlers and
cannot be inductive: inside a batch of fills the position has already moved and
the bracket has not. So each stage relates the position, the bracket's remainder
and the fills still to be reconciled, and bounds what the targets have open by
what remains after the fills before them in the queue. Every other bracket
is *retired*: nothing of it works, and its trade row is whole. There
is one lemma per action, cut by stage, and the properties follow between
batches. `CalmDesk` says that the operator does not cancel stops or closing
orders and sends no orders of his own (cancels of entries and targets are
allowed), and `~Blind`: each of these breaks a property (section 7).

`StopOnlyTightens` and `EveryDayStartsFlat` need no such condition. The second
does not follow from what the boundary assigns: its liquidation may leave shares,
what it sold is reconciled after it cancelled everything, and other handlers work
on the rest until the next event comes back to it. `ClosingFlat` says what the
market holds while the boundary is at work (no order but its liquidation, and that
only while shares remain), `DayBook` what has to be kept on every other step: no
order of a bracket that is gone returns to the market, whatever an operator
sends, and from an empty book no share comes.

**BrokerProofs.** The invariant `IInv` says, of memory and of the checkpoint
alike, that a linked attempt has the shares the order remembers and that nothing
is remembered of an attempt never made; for exactness it adds that every attempt
no longer linked is over at Alpaca, and that the checkpoint is behind memory.
`~LateArrival`: a POST that is on its way arrives before the bot looks for it.

`OneLiveOrder` is not inductive because a crash takes the bot
back to a checkpoint that does not know its last attempts, and it numbers them
again. What saves it is that the client ids are the same: `LInv` says that
Alpaca knows every attempt between the checkpoint and one that is alive, so the
POST of such an id is answered with the order that exists; and an attempt that
neither the checkpoint nor Alpaca knows sets its order aside (the symbol backs
off until the handler ends, and the handler ends by saving). A pair of live
attempts of one order would need a gap that these two exclude.

**InboxProofs.** `Covered`: "escape" is no fault; not both "save" and "nested";
with "crash" no "begin", and unless `Quotes` is empty neither "save" nor
"orders". The invariant cuts the inbox in three: rows up to `Done` are in the
checkpoint, rows up to `Whole` are applied and owed with exactly their keys
marked, and at most the next row is at work. Each excluded combination breaks a
property (section 7). `NothingLost` needs no condition: whatever fails, a
row is called COMMITTED only when the whole of its event is in the
checkpoint. Its invariant `NInv` forgets the order of rows, and keeps that what
is saved is applied, what is owed is applied, and only the last event of the log
can be half applied.

**SumProofs.** The account is a sum over its symbols and the shares of a plan
are a sum over its tranches, and the library states what sums are through
operators the provers cannot instantiate. So the module proves what is needed of
sums over a finite set (the type, one element changed, two families compared or
subtracted, nothing negative, all zero) from the definition of the fold and from
minimal subsets of a finite set.

**BooksProofs.** Three parts of the host. The host's second inbox has constants
of its own: `InboxProofs` is instanced with the same substitution, its operators
and those of the copy are shown to agree, and the invariant is carried over as
two implications, one for the start and one for a step. `CashLedger`: `CashInv`
says that equity
differs from what fills, fees and marks explain by no more than the rounding
each fill may add, and that an approved order is afforded at the price it was
approved with. A fill is cut by what it does to the position (open, add, reduce,
close, flip); the guards of `Filled` say that these exclude each other.
`OrbBooking`: that booked shares are counted fills is not inductive, because
counters are read from ORB's row, which may be older than the account. So
`BookingInv` has three more parts: every record was true at some time (`Seen`:
it is never ahead of Alpaca, nor the checkpoint of memory), what was closed stays closed
(`Over`), and while ORB runs nothing is resolved by hand (`NoOrphan`). `~Late`
and `~Recover` exclude the two disagreements of section 7; with either, TLC
finds the property violated.

**DayProofs.** For every book, number of days and set of faults. The properties
are not inductive: the boundary that follows a crash runs on the checkpoint, the
replay on whatever the restart left, the tick on a book the boundary has just
changed. So the invariant is a predicate `Sound(b, d, k)` of a book `b` on day
`d` in slot `k`, required of memory and checkpoint; each operator the handlers
are composed of keeps it and either *trims* the book (takes away, but nothing
held overnight) or begins a session. `Booting` ties a staged audit to its own
day, which is why its replay cannot block the next one; `Watching` says what
`fresh` and `clean` promise. A "late" fill, of an order cancelled here, can
arrive after the audit, which the two theorems on flatness exclude.

What an entry has to pass has an invariant for each part.

- *Index* (`VixInv`): size, stop and the print behind them agree (`Pair`), in
  memory and in the checkpoint, and what is larger than neutral was current at
  the last poll, which is at most an interval away. That is less than a look at
  the clock now would ask for, which is why the property allows one interval and
  why it compares, outside of the session, with the last close that was held: a
  weekday's close before the poll.
- *Filters* (`TrendInv`): the minutes held of a stream are older than its next
  one. The step that judges a bar is the whole matter: each figure the gates
  read is the same without the minutes that came after that bar (`SameSide`,
  `SameEnds`, `SameFrom`, `SameLead`), for any tape, so a late bar is judged by
  what had completed. A fresh return has a bar near both of its moments.
- *Headlines* (`NewsInv`): a catalyst that is not done has led to nothing yet,
  none is in the list twice, and an exit was made exactly for a headline that was
  spent on the shares it found.
- *Ride the Trend* (`RideInv`): the setup under way began after the last break of
  the history and needs no bar from before it (`Setup`), its extreme is the
  lowest of its leg's bars (`Lowest`), and the cooldown reaches as far as the
  last admitted signal demands, or the budget is used up (`Budgeted`), also by a
  restart that could not rebuild it. `SoundOut` says of each outcome of a bar what it has
  to be for the next one.

The assumptions on the constants (`VixAssumption`, ...) say that durations and
limits are natural numbers, volumes and lows of bars too, and that the session
opens before it closes.

**MorningProofs.** For every set of symbols, number of scans and faults. A tick
is a chain of links on a *world*, so the invariant `MInv` is stated of worlds
(`Good`) and each link has a lemma that it keeps it: a step that runs has its
job, a decision under way belongs to a claimed primary step of which nothing was
sent, a job that is past its wait for the writer has the claim on disk, and what
the writer still has to write is that claim. While the process is down no job and no snapshot is
left, and what the saved state says of the primary wave is enough (`Known`).

For the owners, `OInv` says of each stock that a part that has passed its last
look keeps the others behind one of theirs (`OrbAlone`, `OneAlone`,
`NightAlone`, `Asking`), and that the stocks taken are within the slots. The
lists of stocks may overlap in any way; the assumption of the host only says
that there are finitely many stocks and that limits are natural numbers.

For the loss of a day, `LossInv` says of memory and of the checkpoint alike that
their equity is explained (`Explains`): what the session began with, what its
own trades made, and the offset of the night, which is never dated after the
session. An offset of an earlier session then counts for nothing at the boundary,
and a restart takes back equity, offset and result together. That an approved
order fits follows by arithmetic from the gate's order of tests.

For the desk, `BracketProofs` is instanced as `InboxProofs` is for the books, and joined
operator by operator (`SameParts`, `SameNext`, ...). In the invariants
of these parts their own turn is a hypothesis, and a step of another part leaves
their variables alone.

**TriProofs.** For an entry of any size, one or two tranches, any number of
close orders and faults. A tick handles the entry, then each tranche, then the
clock inside one action, so the invariant is a predicate `World(q, J, a, sh)` of
a plan, its requests, the orders and the shares at Alpaca, and every link of the
tick has a lemma that it keeps it. `BookIsReal` is not inductive: that the
shares are what was bought less what was sold is kept only if a tranche never
has two sell orders alive. So `TrancheOK` says which order is at work (`Cur`):
every sell order before it is over and booked to the share, every later one is
untouched at Alpaca, and what the tranche sold plus what the one at work may
still sell is within the tranche. `JobOK` says what an answer may still be when it is
collected: a row is never ahead of Alpaca, a final one is exact, and "not found"
of the protection means that it is not there. A restart continues from the
checkpoint: `Agree` says that the checkpoint knows what memory knows of every
order and tranche, and differs at most in flags and in which active phase the
plan is in. That needs the checkpoint of each tick to be written (`Written`). If several in a
row fail, the property itself does (section 7: two of them, then a crash). The
run allows any two faults and needs no such condition. `~LateArrival` is as for the broker.

**Only model-checked.** All liveness (`FillsGetBooked`, `PauseEnds`,
`LockoutEnds`, `BoundaryCompletes`, `HoldIsSold`, `BuyEnds`, `HoldEnds`,
`PickEndsFlat`, `OrbMorningEnds`, `PlanEndsFlat`): reasoning with fairness and
ENABLED is outside what the prover does. `ScansAreTheTape` and the daily bars of
`FeedIsWhole` compare a machine with a definition over the whole tape and need
induction over data, which it cannot do either. The rest has no theorem because
none was attempted or finished: `NightIsReal`, `PickIsReal`, `SwingShares`, the
other parts of `FeedIsWhole`, and of `PlansAreReal` the
day-one plans. Its other half, the tri-engine plan under another host,
is what `PlanStaysReal` is about.

## 7. Where the code and its documents disagree

The run `relay_outage` expects a violation: the client takes
`upstream_disconnected` for a connection (`ingestion/stock_ws.py` 274), no
outage is noted, and a tick window over the loss counts as complete. In the
behaviour TLC prints a quote arrives, then the relay's notice that it lost its
own connection, a trade is lost, the notice of the connection arrives, then the
next trade; each has a moment of its own. With the status read as meant
(`StatusOf` of "upstream_disconnected" is "disconnected") the same
run finds no violation. `Late = FALSE`: time passes only when the queue is
empty; the run `market` lets frames wait. What the relay loses while no client is
connected, of which nobody is told, is left out (`Link`).

The following have no run of their own. The other constants are those of the
run, or of the host's INSTANCE line, in which the module is checked; with the
change given TLC finds the property violated.

| module | change | property that fails | behaviour |
|---|---|---|---|
| BracketLifecycle | `CancelKinds` with "exit", `Elsewhere = TRUE` | `ReleasedOnlyIfEntryDead` | a manual flatten cancels an entry and leaves it in `entry_order_to_bracket`; a later cancel anywhere releases, by symbol, the *next* bracket, whose entry still works (`main.py` 1502-1517) |
| BracketLifecycle | `CancelKinds` with "stop" | `CheckpointRestores` | the operator cancels a stop, the checkpoint says so, and the next start refuses it |
| BracketLifecycle | | `AlwaysRestores` | the broker refuses the liquidation of a breaker, a phase or a boundary: the stop is cancelled, the bracket still ACTIVE, and the start after a crash refuses the checkpoint (`main.py` 1527-1533; `core/runtime_state.py` 365-375) |
| BracketLifecycle | `Blind = TRUE` | `StopCoversPosition`, `ExitsWithinPosition`, `CheckpointRestores`, `RecordedTradeIsComplete` | a refused liquidation still works while a new signal for the symbol is admitted (`main.py` 2193-2225) or a contradicting headline sends another one (2140-2154) |
| BracketLifecycle | `Reduce = TRUE` | `ExitsWithinPosition` | a reducing order by hand leaves the bracket's children at their old size |
| BrokerOrders | `Crashes = FALSE` | `LateFillIsLinked` | the bracket of a cancelled entry is released while its Alpaca order is open; the late fill is booked without a stop (`main.py` 1512) |
| BrokerOrders | `LateArrival = TRUE` | `OneLiveOrder`, `LedgerTracksAlpaca` | a POST that timed out and is looked up before Alpaca shows it is sent again under the next id |
| BrokerOrders | `Crashes = TRUE`, fair | `FillsGetBooked` | an order of an earlier event fills and the process dies before the checkpoint that links it |
| BrokerOrders | two exits | `NeverFlips` | an exit cancelled here and alive at Alpaca fills between the held check of the next exit and its POST |
| DurableInbox | Faults "save", "nested" | `CheckpointIsWhole` | with one event's checkpoint owed, a nested checkpoint of the next event is not put off and saves it half applied (`main.py` 916) |
| DurableInbox | Faults with "escape" | `PromiseKept` | an exception leaves a key in flight, and every later checkpoint outside an event reports success without saving (`main.py` 988) |
| DurableInbox | quotes, "crash" with "orders"; with "save" and an arming event | `NothingLeftBehind` | whether a quote takes part in the inbox is decided again at its replay (`main.py` 2699) |
| DurableInbox | "crash", "begin" | `NothingLeftBehind` | a replayed event that cannot be staged is skipped and the startup goes on (`main.py` 981) |
| DayClose | "late" | `EodFlatMeansFlat`, `FlatAtClose` | an entry cancelled here fills after the account was called flat (`src/PROJECT.md` 334 has the audit repeat "until the portfolio is certified flat"; nothing repeats it after that) |
| DayClose | the symbols of `day_boundary` | `LockoutEveryDay` | while a boundary stays incomplete the phase flags are yesterday's and the day has no entry lockout (`main.py` 1592) |
| CashLedger | `Pdt = 13` | `ApprovedIsAlwaysBacked` | below the day trader's minimum a short sale's proceeds count as buying power |
| TriPlan | `LateArrival = TRUE` | `NothingLeft`, `BookIsReal` | as for `BrokerOrders` |
| TriPlan | `MaxFaults = 3` | `BookIsReal` | the checkpoints of two ticks fail (`core/tri_execution.py` 290; 607 and 687 call them "best effort"), a close is sent all the same and the process dies: the restart does not know of the exit, sends the protection again, and it and the former life's close both sell (short) |
| OvernightHold | | `WrittenOffWasNotSent` | a buy is written off as not sent although it reached Alpaca (`core/overnight_execution.py` 897; 899 says existing orders are always looked up) |
| OvernightHold | `MaxFaults = 2` | `SoldIsBooked` | a night counts as sold with a sale that was not booked (`core/overnight_execution.py` 15-16: "its deterministic id lets a restart find it") |
| DayOnePlan | `Shared = TRUE`, one fault | `StateIsSavable` | another strategy takes the symbol after the release and the lifecycle no longer validates, which refuses the whole checkpoint |
| DayOnePlan | one fault | `NoEntryAfterExit` | an entry is still sent after the breaker asked for the exit (`main.py` 1536; `src/docs/day_one_spy_coin_plan.md` 129) |
| OrbBracket | | `CoveredAlways` | an exit begins while the book takes the entry for unfilled (`core/orb_execution.py` 2318); `Covered` leaves these out |
| OrbBracket | `MaxFaults = 2` | `Covered` | two lost answers leave shares without stop or exit for a while |
| OrbBooking | `Late = TRUE` | `BookIsOrb`, `TradeIsWhole` | an entry called not found, whose position was closed in the books, turns up filled |
| OrbBooking | `Recover = TRUE` | `BookIsOrb` | a position resolved by hand while ORB's row was unreadable is booked as sold once more when the row is readable again: the account is short |
| OrbMorning | | `JudgedIsDecided` | a symbol counts as judged though the decider never saw it (`core/orb_scheduler.py` 192, 608-611; 12-13 says otherwise) |
| SwingArm | a holiday or weekend day in `Calendar` | `EntryHadItsOpen` | an entry staged over a day without a session is given up without an open (`main.py` 1730-1732; `strategies/swing_panic_dip.py` 16-17) |
| SwingArm | `MaxFaults = 2` | `LockedUntilFinal` | a stock is released while one of its entries may still fill (`main.py` 448) |
| DailyBars | | `WholeBarStays` | of two scans of a session the second, which got a minute less from the relay, replaces the daily bar the first made of whole minutes |
| NewsMomentum | | `LaterNewsIsPreserved` | a headline later than the bar is not kept for the next bar (`strategies/news_momentum.py` 244; 232-233 says it is) |
| TrendGates | | `SameEndpoints` | the two returns compared may begin and end at different minutes (`core/regime_feed.py` 178) |
| BoardPicks | | `DealBlockHolds` | a block of a deal does not survive the child's restart (`strategies/orbs/adaptive.py` 443, 346) |
| RelayFeed | `QueueMax = 3` | `WindowWhole` | a full queue evicts the frame of a print and the window stays complete |
| RelayFeed | `EarlyMarks = TRUE` | `SessionWhole` | a mark that overtakes the first frame makes the session's flow start in the wrong place |

Seen in the code while modelling, without a property: `holding_days` counts
the weekdays on which the process saw a boundary, holidays included (`main.py`
1663-1667); the second audit of a sweep does not know the protected symbols
(2931-2934); a liquidation that fills in several pieces at once writes the trade row with
the first of them, the result of the others is tallied and reaches no row
(1418-1427).

## 8. Not modelled, and why

- *OR15*: retired (`main.py` 182). `DayClose` knows it as an owner that is asked
  to close, `DurableInbox` its refusal to write ahead of an unfinished event.
- *Replay, mock relay, dashboard*: test equipment and views. What an operator
  does through the API enters through the handlers it calls.
- *Configuration, event types, sentiment*: no state.
- *Scores and prices*: indicators, volatilities, sizes and slippage are floating
  point. Where only their comparison decides, the comparison is chosen freely;
  where an order of events decides what they are made of (`ScanSession`,
  `FenceFlow`, `EntryGate`, `DailyBars`), the data is kept and the arithmetic is
  cut down to small numbers.
- *The other intraday strategies*: signals of the bar at hand; `BracketLifecycle`
  and `DayClose` let an entry come at any time, which covers them.
- *Logins, parsing of frames, logs, reports*: nothing the properties speak of.

## 9. What could be proved next

Each with the invariant it seems to need:

1. `OvernightHold`: `BoughtOnce` and `NeverShort` (one live attempt a side, as
   in `OneOrderAlive`, with the mode and the moment in the invariant).
2. `OrbBracket`: `OwnsWhatLives` (an order is sent only after the intent was
   saved; the book is released only after a refresh that saw nothing).
3. `RelayAnswer`: `QuoteIsFresh`, like `LargeNeedsFresh` of the index about
   the age of one value under a clock.
