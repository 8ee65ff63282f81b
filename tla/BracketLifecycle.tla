-------------------------- MODULE BracketLifecycle --------------------------
(***************************************************************************)
(* One symbol of the intraday book: the entry order, the bracket that      *)
(* protects it (stop, target 1, target 2), the liquidation orders that     *)
(* close it early, and the reconciliation that ties every fill the engine  *)
(* books to the bracket manager.  Sources: core/bracket.py,                *)
(* core/engine.py (matching, order life cycle, simulator fills) and the    *)
(* routines of main.py that connect the two.                               *)
(*                                                                         *)
(* Shares are counted in the direction of the bracket: pos > 0 is the      *)
(* position a bracket protects, pos < 0 one that was sold through.  A      *)
(* short bracket is the mirror image and is not modelled twice.  Prices    *)
(* are abstracted away: any working order may be hit by the next quote or  *)
(* bar, and the stop price is one of the levels 0..MaxStop.                *)
(*                                                                         *)
(* Handlers run to completion on one event loop.  phase and pend are the   *)
(* program counter of a handler: the engine loop books fills one order at  *)
(* a time (phase "match", or "sell" in the loop of _flatten_symbol), then  *)
(* _reconcile_fills takes them in the same order (phase "reconcile"), and  *)
(* nothing else runs in between.                                           *)
(*                                                                         *)
(* With Alpaca behind the engine a sale may be refused, may have to wait,  *)
(* or may fill in part: a liquidation sells any number of the shares, none *)
(* included, and the order it sent works on.                               *)
(*                                                                         *)
(* An operator whose comment starts with "Fault:" is not part of the model *)
(* but a plausible bug in the definition after it: put in its place, it    *)
(* must break a property, or the property would say nothing of the code.   *)
(***************************************************************************)
EXTENDS Integers, FiniteSets

CONSTANTS
  NB,           \* bound: number of brackets opened in a behaviour
  Exits,        \* ids of liquidation and manual reducing orders, reused once final
  Covers,       \* those that buy back a position that was sold through
  Qtys,         \* share counts an entry may ask for
  Caps,         \* most shares a bar lets one order fill (participation cap); NoCap for a quote
  MaxStop,      \* bound: highest stop level
  Breakeven,    \* stop level of entry price plus buffer
  CancelKinds,  \* kinds of order the operator cancels through POST /api/orders/{id}/cancel
  Reduce,       \* TRUE: the operator sends reducing orders through POST /api/orders
  Blind,        \* TRUE: signals are also taken while a liquidation has not sold everything
  Elsewhere     \* TRUE: the operator also cancels orders of other symbols

Brackets == 1 .. NB
Kinds    == {"entry", "stop", "t1", "t2"}
Legs     == Kinds \X Brackets
Orders   == Legs \cup Exits
None     == 0
NoCap    == 0

ASSUME BoundsAssumption ==
  /\ NB \in Nat
  /\ Qtys \subseteq Nat \ {0}
  /\ Caps \subseteq Nat
  /\ MaxStop \in Nat
  /\ Breakeven \in 0 .. MaxStop

ASSUME OperatorAssumption ==
  /\ CancelKinds \subseteq Kinds \cup {"exit"}
  /\ Reduce \in BOOLEAN
  /\ Elsewhere \in BOOLEAN
  /\ Blind \in BOOLEAN

ASSUME IdsAssumption == Exits \cap Legs = {} /\ Covers \subseteq Exits

VARIABLES
  pos,       \* account.positions: shares held in the bracket's direction
  ord,       \* engine.orders: state, open and filled shares of each order
  xpar,      \* parent_order_id of a liquidation or manual order (None: no bracket)
  nb,        \* brackets created so far
  br,        \* bracket_manager.brackets
  symBr,     \* bracket_manager.symbol_to_bracket[symbol]
  mapped,    \* brackets whose child ids are keys of order_to_bracket
  entryMap,  \* brackets whose entry id is a key of entry_order_to_bracket
  pend,      \* shares each order filled in the running batch, not yet reconciled
  phase,     \* "idle", "match" or "sell" (engine loop) or "reconcile" (_reconcile_fills)
  room,      \* participation cap of the running batch
  halted,    \* account.status is CIRCUIT_HALTED
  closing,   \* _check_session_boundary is running
  trade      \* per bracket: exit shares tallied, and the tally its trade row was written with

vars == <<pos, ord, xpar, nb, br, symBr, mapped, entryMap, pend, phase, room,
          halted, closing, trade>>

-----------------------------------------------------------------------------
(* Types                                                                   *)

OrderStates   == {"NONE", "ACCEPTED", "PARTIALLY_FILLED", "FILLED", "CANCELLED"}
BracketStates == {"NONE", "PENDING_ENTRY", "ACTIVE", "TARGET_1_HIT", "COMPLETED_PROFIT",
                  "COMPLETED_STOP", "COMPLETED_FLATTEN", "CANCELLED", "CLEARED"}
Runners       == {"TARGET", "TRAIL_ONLY"}

Order   == [st : OrderStates, rem : Nat, filled : Nat]
Bracket == [st : BracketStates, runner : Runners, total : Nat, rem : Nat,
            t1 : Nat, t2 : Nat, stop : 0 .. MaxStop]

NoOrder   == [st |-> "NONE", rem |-> 0, filled |-> 0]
NoBracket == [st |-> "NONE", runner |-> "TARGET", total |-> 0, rem |-> 0,
              t1 |-> 0, t2 |-> 0, stop |-> 0]

TypeOK ==
  /\ pos \in Int
  /\ ord \in [Orders -> Order]
  /\ xpar \in [Exits -> Brackets \cup {None}]
  /\ nb \in 0 .. NB
  /\ br \in [Brackets -> Bracket]
  /\ symBr \in Brackets \cup {None}
  /\ mapped \in SUBSET Brackets
  /\ entryMap \in SUBSET Brackets
  /\ pend \in [Orders -> Nat]
  /\ phase \in {"idle", "match", "sell", "reconcile"}
  /\ room \in Nat
  /\ halted \in BOOLEAN
  /\ closing \in BOOLEAN
  /\ trade \in [Brackets -> [out : Nat, rec : Nat, done : BOOLEAN]]

-----------------------------------------------------------------------------
(* Helpers                                                                 *)

Open(st)   == st \in {"ACCEPTED", "PARTIALLY_FILLED"}
Working(o) == Open(ord[o].st)
Live(b)    == br[b].st \in {"ACTIVE", "TARGET_1_HIT"}
Entry(b)   == <<"entry", b>>
Stop(b)    == <<"stop", b>>
T1(b)      == <<"t1", b>>
T2(b)      == <<"t2", b>>
Children(b) == {Stop(b), T1(b), T2(b)}
Kind(o)    == IF o \in Exits THEN "exit" ELSE o[1]
Buys(o)    == Kind(o) = "entry" \/ o \in Covers

(* The order would bring the position nearer to zero.                      *)
Reduces(o) == (pos > 0 /\ ~Buys(o)) \/ (pos < 0 /\ Buys(o))

(* A liquidation is still at work.                                         *)
Unsold == \E x \in Exits : Working(x)

Smaller(a, b) == IF a <= b THEN a ELSE b
Floor0(n)     == IF n < 0 THEN 0 ELSE n
(* Fault: a one-share entry gets a two-share target.                       *)
HalveOfPair(n) == IF n > 2 THEN n \div 2 ELSE 2

Halve(n)      == IF n > 1 THEN n \div 2 ELSE 1        \* max(1, n // 2)

Accepted(q) == [st |-> "ACCEPTED", rem |-> q, filled |-> 0]

(* engine.cancel_order for every order of S that is still working.  The id *)
(* of a final liquidation order is free for the next one.                  *)
Cancel(f, S) ==
  [o \in Orders |->
     IF o \in S /\ Open(f[o].st)
       THEN IF o \in Exits THEN NoOrder ELSE [f[o] EXCEPT !.st = "CANCELLED"]
       ELSE f[o]]

(* engine._apply_fill_to_ledger on the order: q shares of it are filled.   *)
Filled(r, q) == [st     |-> IF r.rem = q THEN "FILLED" ELSE "PARTIALLY_FILLED",
                 rem    |-> r.rem - q,
                 filled |-> r.filled + q]

(* Fault: the directive's new quantity is not applied to the working child. *)
ResizeForgotten(f, o, q) == f

(* _apply_bracket_directive: a working child gets a new open quantity.     *)
Resize(f, o, q) == IF Open(f[o].st) THEN [f EXCEPT ![o].rem = q] ELSE f

(* Fills are listed in book order: an older bracket first, its entry, its  *)
(* children, then the orders sent to close it.                             *)
Rank(o) ==
  IF o \in Exits THEN 8 * (IF xpar[o] = None THEN NB + 1 ELSE xpar[o]) + 4
  ELSE 8 * o[2] + (CASE o[1] = "stop"  -> 0
                     [] o[1] = "entry" -> 1
                     [] o[1] = "t1"    -> 2
                     [] o[1] = "t2"    -> 3)

Init ==
  /\ pos = 0
  /\ ord = [o \in Orders |-> NoOrder]
  /\ xpar = [x \in Exits |-> None]
  /\ nb = 0
  /\ br = [b \in Brackets |-> NoBracket]
  /\ symBr = None
  /\ mapped = {}
  /\ entryMap = {}
  /\ pend = [o \in Orders |-> 0]
  /\ phase = "idle"
  /\ room = 0
  /\ halted = FALSE
  /\ closing = FALSE
  /\ trade = [b \in Brackets |-> [out |-> 0, rec |-> 0, done |-> FALSE]]

Idle == phase = "idle" /\ ~closing

-----------------------------------------------------------------------------
(* Entry                                                                   *)

(* Fault: a signal is admitted while the symbol already has a bracket.     *)
EnterAgain(q, run) ==
  LET b == nb + 1 IN
  /\ Idle
  /\ ~halted
  /\ Blind \/ ~Unsold
  /\ nb < NB
  /\ nb' = b
  /\ ord' = [ord EXCEPT ![Entry(b)] = Accepted(q)]
  /\ br' = [br EXCEPT ![b] = [st |-> "PENDING_ENTRY", runner |-> run, total |-> q, rem |-> q,
                              t1 |-> Halve(q), t2 |-> q - Halve(q), stop |-> 0]]
  /\ symBr' = b
  /\ mapped' = mapped \cup {b}
  /\ entryMap' = entryMap \cup {b}
  /\ UNCHANGED <<pos, xpar, pend, phase, room, halted, closing, trade>>

(* execute_strategy_signal, position-opening part, for a signal that the   *)
(* admission and risk gates approve: a signal for a symbol with a live     *)
(* bracket or a working entry is refused, otherwise the entry order is     *)
(* accepted and its bracket created.  What a refused liquidation left of   *)
(* an earlier bracket does not stand in its way (Blind).  The gates' own   *)
(* arithmetic is left out: a refused signal changes nothing.               *)
EnterSignal(q, run) ==
  LET b == nb + 1 IN
  /\ Idle
  /\ ~halted
  /\ Blind \/ ~Unsold
  /\ nb < NB
  /\ symBr # None => br[symBr].st \notin {"PENDING_ENTRY", "ACTIVE", "TARGET_1_HIT"}
  /\ \A e \in entryMap : ~Working(Entry(e))
  /\ nb' = b
  /\ ord' = [ord EXCEPT ![Entry(b)] = Accepted(q)]
  /\ br' = [br EXCEPT ![b] = [st |-> "PENDING_ENTRY", runner |-> run, total |-> q, rem |-> q,
                              t1 |-> Halve(q), t2 |-> q - Halve(q), stop |-> 0]]
  /\ symBr' = b
  /\ mapped' = mapped \cup {b}
  /\ entryMap' = entryMap \cup {b}
  /\ UNCHANGED <<pos, xpar, pend, phase, room, halted, closing, trade>>

-----------------------------------------------------------------------------
(* Matching: engine.process_quote and engine.process_bar, then             *)
(* engine._execute_fill without a broker.                                  *)

FillNow(o, cap) ==
  LET q == IF cap = NoCap THEN ord[o].rem ELSE Smaller(ord[o].rem, cap) IN
  /\ ord' = [ord EXCEPT ![o] = Filled(@, q)]
  /\ pend' = [pend EXCEPT ![o] = q]
  /\ pos' = IF Buys(o) THEN pos + q ELSE pos - q

(* Fault: the loop goes on to the targets after the stop filled.           *)
MatchStopAndGoOn(b, cap) ==
  /\ Idle
  /\ Working(Stop(b))
  /\ FillNow(Stop(b), cap)
  /\ phase' = "match"
  /\ room' = cap
  /\ UNCHANGED <<xpar, nb, br, symBr, mapped, entryMap, halted, closing, trade>>

(* A stop is matched before anything else and ends the loop.               *)
MatchStop(b, cap) ==
  /\ Idle
  /\ Working(Stop(b))
  /\ FillNow(Stop(b), cap)
  /\ phase' = "reconcile"
  /\ UNCHANGED <<xpar, nb, br, symBr, mapped, entryMap, room, halted, closing, trade>>

(* Any other order the quote or bar crosses; several may fill in one batch *)
(* before the first of them is reconciled, each up to the batch's cap.     *)
MatchOther(o, cap) ==
  /\ Kind(o) # "stop"
  /\ Working(o)
  /\ pend[o] = 0
  /\ \/ Idle /\ cap \in Caps /\ phase' = "match"
     \/ phase \in {"match", "sell"} /\ cap = room /\ UNCHANGED phase
  /\ FillNow(o, cap)
  /\ room' = cap
  /\ UNCHANGED <<xpar, nb, br, symBr, mapped, entryMap, halted, closing, trade>>

-----------------------------------------------------------------------------
(* Reconciliation: main._reconcile_fills, one fill per step.               *)

(* The next fill of the batch is q shares of o.                            *)
TakePiece(o, q) ==
  /\ phase # "idle"
  /\ q \in 1 .. pend[o]
  /\ \A p \in Orders : pend[p] > 0 => Rank(o) <= Rank(p)
  /\ pend' = [pend EXCEPT ![o] = @ - q]
  /\ IF \E p \in Orders : pend'[p] > 0
       THEN phase' = "reconcile" /\ UNCHANGED room
       ELSE phase' = "idle" /\ room' = NoCap

TakeFill(o) == TakePiece(o, pend[o])

(* _record_completed_bracket: the trade row is written once, with the exit *)
(* shares tallied so far; the tally restarts.                              *)
Record(t, b) ==
  IF t[b].done THEN t ELSE [t EXCEPT ![b] = [out |-> 0, rec |-> @.out, done |-> TRUE]]

(* Fault: an exit fill is not added to the bracket's tally.                *)
TallyLost(t, b, q) == t

Tally(t, b, q) == [t EXCEPT ![b].out = @ + q]

(* activate_bracket_on_fill and the SUBMIT_ORDERS directive: the bracket   *)
(* is cut down to the shares that filled and its children start working.   *)
(* What is left of a partially filled entry is cancelled.                  *)
ReconcileEntry(b) ==
  LET o == Entry(b)
      q == pend[o]
      n == Smaller(q, br[b].total)
      hasT2 == n > 1 /\ br[b].runner = "TARGET"
  IN
  /\ TakeFill(o)
  /\ IF b \in entryMap /\ br[b].st = "PENDING_ENTRY"
       THEN /\ br' = [br EXCEPT ![b] = [@ EXCEPT !.st = "ACTIVE", !.total = n, !.rem = n,
                                                 !.t1 = Halve(n), !.t2 = n - Halve(n)]]
            /\ ord' = [p \in Orders |->
                         CASE p = Stop(b) -> Accepted(n)
                           [] p = T1(b) -> Accepted(Halve(n))
                           [] p = T2(b) /\ hasT2 -> Accepted(n - Halve(n))
                           [] p = o /\ ord[o].st = "PARTIALLY_FILLED" ->
                                [ord[o] EXCEPT !.st = "CANCELLED"]
                           [] OTHER -> ord[p]]
       ELSE UNCHANGED <<br, ord>>
  /\ entryMap' = IF ord'[o].st \in {"FILLED", "CANCELLED"} THEN entryMap \ {b} ELSE entryMap
  /\ UNCHANGED <<pos, xpar, nb, symBr, mapped, halted, closing, trade>>

(* The part of on_child_order_fill every completion shares: the symbol and *)
(* the child ids are released, the other children cancelled, the trade row *)
(* written.                                                                *)
Complete(b, st, q) ==
  /\ br' = [br EXCEPT ![b] = [@ EXCEPT !.st = st, !.rem = 0]]
  /\ ord' = Cancel(ord, Children(b))
  /\ symBr' = None
  /\ mapped' = mapped \ {b}
  /\ trade' = Record(Tally(trade, b, q), b)

(* _record_exit_fill: a fill of an order no bracket maps to is attached to *)
(* the bracket b it was sent for; a full fill closes that bracket.         *)
ExitFill(o, b, q) ==
  IF b = None \/ br[b].st \in {"NONE", "CLEARED"}
    THEN UNCHANGED <<br, symBr, trade>>
  ELSE IF ord[o].st = "FILLED"
    THEN /\ br' = [br EXCEPT ![b].st = "COMPLETED_FLATTEN"]
         /\ symBr' = None
         /\ trade' = Record(Tally(trade, b, q), b)
    ELSE /\ trade' = Tally(trade, b, q)
         /\ UNCHANGED <<br, symBr>>

(* A fill of a child that is not mapped any more, or whose bracket is      *)
(* completed already: on_child_order_fill answers NO_ACTION.               *)
LateChild(o, b, q) ==
  /\ UNCHANGED <<ord, mapped>>
  /\ IF b \notin mapped
       THEN ExitFill(o, b, q)
       ELSE /\ trade' = IF br[b].st = "CANCELLED" THEN Tally(trade, b, q)
                        ELSE Record(Tally(trade, b, q), b)
            /\ UNCHANGED <<br, symBr>>

Current(b) == b \in mapped /\ Live(b)

(* A partial stop fill scales the open targets down so that both together  *)
(* cannot sell more than the r shares that remain.                         *)
OpenT2(b)   == IF br[b].runner = "TARGET" THEN br[b].t2 ELSE 0
OpenBoth(b) == br[b].t1 + OpenT2(b)
Offer(f, o, q) == IF q > 0 THEN Resize(f, o, q) ELSE Cancel(f, {o})

(* Fault: a partial stop leaves the targets at their full size.            *)
ScaleTargetsNever(b, r) == br' = [br EXCEPT ![b].rem = r] /\ UNCHANGED ord

ScaleTargets(b, r) ==
  LET n1 == (br[b].t1 * r) \div OpenBoth(b)
      n2 == r - n1
      g  == IF br[b].t1 > 0 THEN Offer(ord, T1(b), n1) ELSE ord
  IN IF OpenBoth(b) > r
       THEN /\ br' = [br EXCEPT ![b] = [@ EXCEPT !.rem = r, !.t1 = n1,
                                          !.t2 = IF OpenT2(b) > 0 THEN n2 ELSE br[b].t2]]
            /\ ord' = IF OpenT2(b) > 0 THEN Offer(g, T2(b), n2) ELSE g
       ELSE /\ br' = [br EXCEPT ![b].rem = r]
            /\ UNCHANGED ord

ReconcileStop(b) ==
  LET q == pend[Stop(b)]
      r == Floor0(br[b].rem - q)
  IN
  /\ TakeFill(Stop(b))
  /\ \/ /\ ~Current(b)
        /\ LateChild(Stop(b), b, q)
     \/ /\ Current(b) /\ r > 0
        /\ ScaleTargets(b, r)
        /\ trade' = Tally(trade, b, q)
        /\ UNCHANGED <<symBr, mapped>>
     \/ /\ Current(b) /\ r = 0
        /\ Complete(b, "COMPLETED_STOP", q)
  /\ UNCHANGED <<pos, xpar, nb, entryMap, halted, closing>>

(* Fault: a stop trailed beyond breakeven is pulled back to it.            *)
RatchetDown(stop) == Breakeven

(* Target 1, filled in part or in full, moves the stop to breakeven and    *)
(* leaves it covering what remains.                                        *)
Ratchet(stop)     == IF stop > Breakeven THEN stop ELSE Breakeven

ReconcileT1(b) ==
  LET q == pend[T1(b)]
      r == Floor0(br[b].rem - q)
  IN
  /\ TakeFill(T1(b))
  /\ \/ /\ ~Current(b)
        /\ LateChild(T1(b), b, q)
     \/ /\ Current(b) /\ r > 0
        /\ br' = [br EXCEPT ![b] =
             [@ EXCEPT !.st = "TARGET_1_HIT", !.rem = r, !.t1 = Floor0(br[b].t1 - q),
                       !.stop = Ratchet(br[b].stop)]]
        /\ ord' = Resize(ord, Stop(b), r)
        /\ trade' = Tally(trade, b, q)
        /\ UNCHANGED <<symBr, mapped>>
     \/ /\ Current(b) /\ r = 0
        /\ Complete(b, "COMPLETED_PROFIT", q)
  /\ UNCHANGED <<pos, xpar, nb, entryMap, halted, closing>>

ReconcileT2(b) ==
  LET q == pend[T2(b)]
      r == Floor0(br[b].rem - q)
  IN
  /\ TakeFill(T2(b))
  /\ \/ /\ ~Current(b)
        /\ LateChild(T2(b), b, q)
     \/ /\ Current(b) /\ r > 0
        /\ br' = [br EXCEPT ![b] = [@ EXCEPT !.rem = r, !.t2 = Floor0(br[b].t2 - q)]]
        /\ ord' = Resize(ord, Stop(b), r)
        /\ trade' = Tally(trade, b, q)
        /\ UNCHANGED <<symBr, mapped>>
     \/ /\ Current(b) /\ r = 0
        /\ Complete(b, "COMPLETED_PROFIT", q)
  /\ UNCHANGED <<pos, xpar, nb, entryMap, halted, closing>>

(* A liquidation or manual order.  The loop of _flatten_symbol may fill it *)
(* in several pieces that are reconciled together at its end: the first of *)
(* them finds the order as the last one left it.                           *)
ReconcileExit(x, q) ==
  /\ phase = "sell" \/ q = pend[x]
  /\ TakePiece(x, q)
  /\ ExitFill(x, xpar[x], q)
  /\ IF ord[x].st = "FILLED" /\ q = pend[x]
       THEN /\ ord' = [ord EXCEPT ![x] = NoOrder]
            /\ xpar' = [xpar EXCEPT ![x] = None]
       ELSE UNCHANGED <<ord, xpar>>
  /\ UNCHANGED <<pos, nb, mapped, entryMap, halted, closing>>

-----------------------------------------------------------------------------
(* Stop moves                                                              *)

MoveStop(level) ==
  /\ Idle
  /\ symBr # None
  /\ level > br[symBr].stop
  /\ br' = [br EXCEPT ![symBr].stop = level]
  /\ UNCHANGED <<pos, ord, xpar, nb, symBr, mapped, entryMap, pend, phase, room,
                 halted, closing, trade>>

(* update_trailing_stop, at the end of the bar handler.                    *)
TrailStop(level) == symBr # None /\ br[symBr].st = "TARGET_1_HIT" /\ MoveStop(level)

(* manual_tighten_stop, from the TIGHTEN_STOP message of the UI.           *)
TightenStop(level) == symBr # None /\ Live(symBr) /\ MoveStop(level)

-----------------------------------------------------------------------------
(* Cancelling and liquidating                                              *)

(* _release_dead_entry_brackets, f being the order book after the cancels: *)
(* for every entry cancelled without a fill, cancel_pending_entry_bracket  *)
(* is called with the SYMBOL, and the entry is forgotten.                  *)
ReleaseDead(f) ==
  LET dead == {b \in entryMap : f[Entry(b)].st = "CANCELLED" /\ f[Entry(b)].filled = 0}
      hit  == dead # {} /\ symBr # None /\ br[symBr].st = "PENDING_ENTRY"
  IN
  /\ entryMap' = entryMap \ dead
  /\ IF hit THEN /\ br' = [br EXCEPT ![symBr].st = "CANCELLED"]
                 /\ mapped' = mapped \ {symBr}
                 /\ symBr' = None
            ELSE UNCHANGED <<br, mapped, symBr>>

(* A market order over the whole position is created, accepted and worked  *)
(* by _flatten_symbol until the position is gone or a round fills nothing: *)
(* k of its shares are sold, and what the broker refuses or leaves open    *)
(* stays with the order.  (The simulator sells everything: its cap of      *)
(* 10000 shares is above any size the risk engine approves.)  f is the     *)
(* order book before it, b the bracket it closes.                          *)
Liquidate(f, x, b) ==
  IF pos = 0
    THEN /\ ord' = f
         /\ UNCHANGED <<pos, xpar, pend, phase, room>>
    ELSE LET n == IF pos > 0 THEN pos ELSE -pos IN
         /\ f[x].st = "NONE"
         /\ x \in Covers <=> pos < 0
         /\ xpar' = [xpar EXCEPT ![x] = b]
         /\ room' = NoCap
         /\ \E k \in 0 .. n :
              /\ ord' = [f EXCEPT ![x] = IF k = 0 THEN Accepted(n) ELSE Filled(Accepted(n), k)]
              /\ pend' = [pend EXCEPT ![x] = k]
              /\ pos' = IF pos > 0 THEN pos - k ELSE pos + k
              /\ phase' = IF k = 0 THEN "idle" ELSE "sell"

(* _trip_circuit_breaker (halt), the 15:55 directive and the 15:58 sweep   *)
(* of handle_flattening_directive: every working order is cancelled first. *)
FlattenAll(x, halt) ==
  LET f == Cancel(ord, Orders) IN
  /\ Idle
  /\ ReleaseDead(f)
  /\ Liquidate(f, x, symBr')
  /\ halted' = (halted \/ halt)
  /\ UNCHANGED <<nb, closing, trade>>

(* The 15:50 ORDER_PURGE: orders that would reduce the position stay.      *)
OrderPurge ==
  LET f == Cancel(ord, {o \in Orders : ~Reduces(o)}) IN
  /\ Idle
  /\ ord' = f
  /\ ReleaseDead(f)
  /\ UNCHANGED <<pos, xpar, nb, pend, phase, room, halted, closing, trade>>

(* cancel_bracket_for_flattening: whatever bracket holds the symbol is     *)
(* marked flattened and its child ids released.                            *)
ReleaseForFlattening ==
  IF symBr = None
    THEN UNCHANGED <<br, mapped, symBr>>
    ELSE /\ br' = [br EXCEPT ![symBr].st = "COMPLETED_FLATTEN"]
         /\ mapped' = mapped \ {symBr}
         /\ symBr' = None

(* execute_strategy_signal, exit part: a contradicting headline closes the *)
(* position; only the bracket's children are cancelled first, an earlier   *)
(* liquidation is not (Blind).                                             *)
ContradictionExit(x) ==
  /\ Idle
  /\ pos # 0
  /\ Blind \/ ~Unsold
  /\ ReleaseForFlattening
  /\ Liquidate(IF symBr = None THEN ord ELSE Cancel(ord, Children(symBr)), x, symBr)
  /\ UNCHANGED <<nb, entryMap, halted, closing, trade>>

(* _execute_manual_flatten for this symbol.                                *)
ManualFlatten(x) ==
  /\ Idle
  /\ ReleaseForFlattening
  /\ Liquidate(Cancel(ord, Orders), x, symBr)
  /\ UNCHANGED <<nb, entryMap, halted, closing, trade>>

(* POST /api/orders/{order_id}/cancel for an order of this symbol ...      *)
CancelOrder(o) ==
  LET f == Cancel(ord, {o}) IN
  /\ Idle
  /\ Kind(o) \in CancelKinds
  /\ Working(o)
  /\ ord' = f
  /\ ReleaseDead(f)
  /\ UNCHANGED <<pos, xpar, nb, pend, phase, room, halted, closing, trade>>

(* ... and of another one, which reaches this symbol's brackets too.       *)
CancelElsewhere ==
  /\ Idle
  /\ Elsewhere
  /\ ReleaseDead(ord)
  /\ UNCHANGED <<pos, ord, xpar, nb, pend, phase, room, halted, closing, trade>>

(* _checkpoint_runtime could not write: entries are cancelled, and orders  *)
(* of no bracket that do not reduce the position.                          *)
CheckpointFailed ==
  LET free == {x \in Exits : xpar[x] = None /\ ~Reduces(x)}
      f    == Cancel(ord, {Entry(b) : b \in entryMap} \cup free)
  IN
  /\ Idle
  /\ ord' = f
  /\ ReleaseDead(f)
  /\ UNCHANGED <<pos, xpar, nb, pend, phase, room, halted, closing, trade>>

(* POST /api/orders with an order that reduces a bracketed position.       *)
SubmitReducing(x, q) ==
  /\ Idle
  /\ Reduce
  /\ q <= pos
  /\ symBr # None
  /\ x \notin Covers
  /\ ord[x].st = "NONE"
  /\ ord' = [ord EXCEPT ![x] = Accepted(q)]
  /\ xpar' = [xpar EXCEPT ![x] = symBr]
  /\ UNCHANGED <<pos, nb, br, symBr, mapped, entryMap, pend, phase, room,
                 halted, closing, trade>>

-----------------------------------------------------------------------------
(* Session boundary                                                        *)

(* _check_session_boundary on the first event of a new ET day: working     *)
(* orders are cancelled and a position that is left is liquidated ...      *)
SessionBoundary(x) ==
  LET f == Cancel(ord, Orders) IN
  /\ Idle
  /\ IF \E o \in Orders : Working(o) THEN ReleaseDead(f)
     ELSE UNCHANGED <<br, symBr, mapped, entryMap>>
  /\ Liquidate(f, x, symBr')
  /\ closing' = TRUE
  /\ UNCHANGED <<nb, halted, trade>>

(* ... while shares remain the day has not begun: nothing is cleared, and  *)
(* the next event comes back to the boundary ...                           *)
SessionIncomplete ==
  /\ closing
  /\ phase = "idle"
  /\ pos # 0
  /\ closing' = FALSE
  /\ UNCHANGED <<pos, ord, xpar, nb, br, symBr, mapped, entryMap, pend, phase, room, halted, trade>>

(* Fault: the day begins with what could not be sold.                      *)
ResetAnyway ==
  /\ closing
  /\ phase = "idle"
  /\ br' = [b \in Brackets |-> IF b <= nb THEN [NoBracket EXCEPT !.st = "CLEARED"] ELSE br[b]]
  /\ symBr' = None
  /\ mapped' = {}
  /\ entryMap' = {}
  /\ trade' = [b \in Brackets |-> [out |-> 0, rec |-> 0, done |-> FALSE]]
  /\ halted' = FALSE
  /\ closing' = FALSE
  /\ UNCHANGED <<pos, ord, xpar, nb, pend, phase, room>>

(* ... otherwise brackets, linkage and the halt are cleared.               *)
SessionReset ==
  /\ closing
  /\ phase = "idle"
  /\ pos = 0
  /\ br' = [b \in Brackets |-> IF b <= nb THEN [NoBracket EXCEPT !.st = "CLEARED"] ELSE br[b]]
  /\ symBr' = None
  /\ mapped' = {}
  /\ entryMap' = {}
  /\ trade' = [b \in Brackets |-> [out |-> 0, rec |-> 0, done |-> FALSE]]
  /\ halted' = FALSE
  /\ closing' = FALSE
  /\ UNCHANGED <<pos, ord, xpar, nb, pend, phase, room>>

-----------------------------------------------------------------------------

Match ==
  \/ \E b \in Brackets, cap \in Caps : MatchStop(b, cap)
  \/ \E o \in Orders, cap \in Caps \cup {NoCap} : MatchOther(o, cap)

Reconcile ==
  \/ \E b \in Brackets : ReconcileEntry(b)
  \/ \E b \in Brackets : ReconcileStop(b)
  \/ \E b \in Brackets : ReconcileT1(b)
  \/ \E b \in Brackets : ReconcileT2(b)
  \/ \E x \in Exits : \E q \in 1 .. pend[x] : ReconcileExit(x, q)

Operator ==
  \/ \E l \in 0 .. MaxStop : TightenStop(l)
  \/ \E x \in Exits : ManualFlatten(x)
  \/ \E o \in Orders : CancelOrder(o)
  \/ CancelElsewhere
  \/ \E x \in Exits, q \in Qtys : SubmitReducing(x, q)

Next ==
  \/ \E q \in Qtys, run \in Runners : EnterSignal(q, run)
  \/ Match
  \/ Reconcile
  \/ \E l \in 0 .. MaxStop : TrailStop(l)
  \/ \E x \in Exits, halt \in BOOLEAN : FlattenAll(x, halt)
  \/ OrderPurge
  \/ CheckpointFailed
  \/ \E x \in Exits : ContradictionExit(x)
  \/ Operator
  \/ \E x \in Exits : SessionBoundary(x)
  \/ SessionIncomplete
  \/ SessionReset

Spec == Init /\ [][Next]_vars

-----------------------------------------------------------------------------
(* Safety                                                                  *)

Quiet == phase = "idle"        \* no handler is in the middle of its work

OpenShares(o) == IF Working(o) THEN ord[o].rem ELSE 0

(* A liquidation that has not sold everything is at work for the position. *)
Selling(x) == x \in Exits \ Covers /\ Working(x) /\ ord[x].rem = pos

(* Between handlers every share held is covered: by one working stop of    *)
(* the bracket that owns the symbol and agrees on the size, or, when the   *)
(* broker refused a liquidation, by that order, which the engine sends     *)
(* again.                                                                  *)
StopCoversPosition ==
  Quiet /\ pos > 0 =>
    \/ /\ symBr # None
       /\ Live(symBr)
       /\ br[symBr].rem = pos
       /\ OpenShares(Stop(symBr)) = pos
    \/ \E x \in Exits : Selling(x)

(* No exit that is working offers more than the position: not the stop,    *)
(* not both targets together, which may fill in one bar before the first   *)
(* of them is reconciled, and not a liquidation, beside which none of them *)
(* works.  A closed position leaves none behind.                           *)
ExitsWithinPosition ==
  Quiet => \A b \in Brackets :
    /\ OpenShares(Stop(b)) <= Floor0(pos)
    /\ OpenShares(T1(b)) + OpenShares(T2(b)) <= Floor0(pos)
    /\ \A x \in Exits : Working(x) =>
         /\ OpenShares(x) <= Floor0(pos)
         /\ \A o \in Children(b) : ~Working(o)

(* validate_runtime_state, for the symbol: what a restart demands of the   *)
(* checkpoint, and refuses to start without.                               *)
OwnerIsProtected(b) ==
  br[b].st # "PENDING_ENTRY" => pos > 0 /\ br[b].rem = pos /\ OpenShares(Stop(b)) = pos

Restorable ==
  /\ \A o \in Orders : Working(o) => ord[o].rem > 0
  /\ symBr # None => br[symBr].st \in {"PENDING_ENTRY", "ACTIVE", "TARGET_1_HIT"} /\ OwnerIsProtected(symBr)

(* Every handler saves the state it leaves behind, and the next start can  *)
(* use it, with one exception: after a liquidation of the whole book that  *)
(* the broker refused, the bracket is still there without its stop.  Not   *)
(* even in the middle of a batch do the exits sell the position through.   *)
CheckpointRestores ==
  /\ pos >= 0
  /\ Quiet => Restorable \/ \E x \in Exits : Selling(x) /\ xpar[x] = symBr

(* Without the exception: it does not hold, since the start after such a    *)
(* liquidation demands the stop of a bracket that the sale had cancelled.  *)
AlwaysRestores == Quiet => Restorable

(* A bracket is dropped as CANCELLED only when its own entry can no longer *)
(* fill: a later fill would be a position without protection.              *)
ReleasedOnlyIfEntryDead ==
  \A b \in Brackets : br[b].st = "CANCELLED" =>
    ~Working(Entry(b)) /\ ord[Entry(b)].filled = 0

(* The trade row of a bracket is written once, with every exit share of it *)
(* in the tally.  Only a liquidation that sold in several pieces leaves    *)
(* some of them out of the row, and those are tallied all the same.        *)
RecordedTradeIsComplete ==
  \A b \in Brackets : trade[b].done =>
    /\ br[b].st # "COMPLETED_FLATTEN" => trade[b].rec = br[b].total /\ trade[b].out = 0
    /\ Quiet => trade[b].rec + trade[b].out = br[b].total

(* A new day starts flat, however often its boundary had to be repeated:   *)
(* of a bracket that was cleared no order works and no fill is on its way, *)
(* and until the day opens a bracket of its own no share is held.          *)
DayStartsFlat ==
  LET Over(b) == br[b].st = "CLEARED"
      Left(o) == Working(o) \/ pend[o] > 0
  IN
  /\ \A b \in Brackets : Over(b) =>
       /\ \A k \in Kinds : ~Left(<<k, b>>)
       /\ \A x \in Exits : xpar[x] = b => ~Left(x)
  /\ nb > 0 /\ (\A b \in 1 .. nb : Over(b)) => pos = 0 /\ \A x \in Exits : ~Left(x)

(* No handler ever moves the stop of a live bracket away from the market.  *)
StopNeverLoosens ==
  [][\A b \in Brackets : Live(b) /\ br'[b].st # "CLEARED" => br'[b].stop >= br[b].stop]_vars

=============================================================================
