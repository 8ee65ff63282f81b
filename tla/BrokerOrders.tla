---------------------------- MODULE BrokerOrders ----------------------------
(***************************************************************************)
(* One symbol traded for real: how engine._broker_execute turns a local    *)
(* order that triggered into orders at Alpaca, and how                     *)
(* engine.settle_broker_orders finds what Alpaca did with the ones the bot *)
(* could not see the end of.  Sources: core/engine.py, core/broker.py and, *)
(* for the checkpoint, the startup and the position check, main.py.        *)
(*                                                                         *)
(* A local order is sent in attempts.  Attempt k of order o carries the    *)
(* client id adt-o-k, so Alpaca's order is named <<o, k>> here.  link is   *)
(* the attempt that broker_client_id or broker_order_id stands for (0 when *)
(* both are None) and known is TRUE when broker_order_id is set.  Shares   *)
(* are counted per attempt (took); the order's filled_qty is their sum.    *)
(*                                                                         *)
(* The event loop is blocked during a broker call, but Alpaca is not: each *)
(* round trip of the call is a step, and Alpaca fills, cancels or rejects  *)
(* between any two of them.  A crash may come at any step; what is left is *)
(* the last checkpoint and what Alpaca knows.                              *)
(*                                                                         *)
(* An operator whose comment starts with "Fault:" is not part of the model *)
(* but a plausible bug in the definition after it.                         *)
(***************************************************************************)
EXTENDS Integers, FiniteSets

CONSTANTS
  Entries,      \* ids of orders that open the position (buys)
  Exits,        \* ids of orders that reduce it (sells)
  Sizes,        \* share counts of an order
  MaxAttempt,   \* bound: attempts per local order
  Crashes,      \* TRUE: the process may crash and restart
  LateArrival   \* TRUE: a POST that timed out may reach Alpaca after the bot has looked for it

Orders   == Entries \cup Exits
Attempts == 1 .. MaxAttempt
Sent     == Orders \X Attempts     \* the orders Alpaca may know, by client id
NoLink   == 0

ASSUME IdsAssumption == Entries \cap Exits = {}
ASSUME BoundsAssumption == Sizes \subseteq Nat \ {0} /\ MaxAttempt \in Nat
ASSUME FaultsAssumption == Crashes \in BOOLEAN /\ LateArrival \in BOOLEAN

VARIABLES
  pos,       \* account.positions: signed shares in the local ledger
  ord,       \* engine.orders with their Alpaca bookkeeping
  brk,       \* bracket of an entry: none, pending its fill, active or released
  naked,     \* entry shares booked although no bracket was waiting for them
  disk,      \* the last checkpoint of the four above
  used,      \* ids handed out: an id lost in a crash is not generated again
  alp,       \* Alpaca: the orders it knows
  held,      \* Alpaca: signed shares it holds
  call,      \* the broker call in progress and its next round trip
  handler,   \* "idle", "work" (an event handler), "settle" or "booked" (settle that booked)
  waiting,   \* the symbol is in broker backoff
  mismatch,  \* broker_state["mismatch"]: entries are paused
  seen,      \* position check under way: what the sync thread read, {} before
  boot       \* startup: orders are being settled, no event handled yet

vars == <<pos, ord, brk, naked, disk, used, alp, held, call, handler, waiting, mismatch, seen, boot>>

-----------------------------------------------------------------------------
(* Types                                                                   *)

Order == [st : {"none", "accepted", "partial", "filled", "cancelled"}, rem : Int,
          took : [Attempts -> Nat], att : 0 .. MaxAttempt, link : 0 .. MaxAttempt,
          known : BOOLEAN, booked : Nat]

AlpacaOrder == [st : {"none", "transit", "open", "closed", "rejected"}, qty : Int, filled : Nat]

Local == [pos : Int, ord : [Orders -> Order],
          brk : [Entries -> {"none", "pending", "active", "released"}], naked : Nat]

Calls == [o : Orders, kind : {"exec", "settle"},
          step : {"lookup", "read", "gate", "held", "post"}, fresh : BOOLEAN, q : Int]

NoOrder == [st |-> "none", rem |-> 0, took |-> [k \in Attempts |-> 0], att |-> 0,
            link |-> NoLink, known |-> FALSE, booked |-> 0]
NoCall  == [step |-> "none"]

Snapshot == [pos |-> pos, ord |-> ord, brk |-> brk, naked |-> naked]

TypeOK ==
  /\ Snapshot \in Local
  /\ disk \in Local
  /\ used \in SUBSET Orders
  /\ alp \in [Sent -> AlpacaOrder]
  /\ held \in Int
  /\ call \in Calls \cup {NoCall}
  /\ handler \in {"idle", "work", "settle", "booked"}
  /\ waiting \in BOOLEAN
  /\ mismatch \in BOOLEAN
  /\ seen \in SUBSET Int
  /\ boot \in BOOLEAN

-----------------------------------------------------------------------------
(* Helpers                                                                 *)

Working(o)  == ord[o].st \in {"accepted", "partial"}
Unfilled(o) == \A k \in Attempts : ord[o].took[k] = 0
Sign(o)     == IF o \in Entries THEN 1 ELSE -1
Abs(n)      == IF n < 0 THEN -n ELSE n
Smaller(a, b) == IF a <= b THEN a ELSE b

(* _reduces_position *)
Reduces(o) == (pos > 0 /\ o \in Exits) \/ (pos < 0 /\ o \in Entries)

NoneAtAlpaca == [st |-> "none", qty |-> 0, filled |-> 0]
Exists(o, k) == alp[<<o, k>>].st \in {"open", "closed", "rejected"}
IsTerminal(r) == r.st \in {"closed", "rejected"}

Init ==
  /\ pos = 0
  /\ ord = [o \in Orders |-> NoOrder]
  /\ brk = [e \in Entries |-> "none"]
  /\ naked = 0
  /\ disk = Snapshot
  /\ used = {}
  /\ alp = [s \in Sent |-> NoneAtAlpaca]
  /\ held = 0
  /\ call = NoCall
  /\ handler = "idle"
  /\ waiting = FALSE
  /\ mismatch = FALSE
  /\ seen = {}
  /\ boot = FALSE

Serving == ~boot /\ call = NoCall /\ handler \in {"idle", "work"}

-----------------------------------------------------------------------------
(* Event handlers                                                          *)

Accept(o, q) ==
  /\ Serving
  /\ o \notin used
  /\ ord' = [ord EXCEPT ![o] = [NoOrder EXCEPT !.st = "accepted", !.rem = q]]
  /\ used' = used \cup {o}
  /\ handler' = "work"
  /\ UNCHANGED <<pos, naked, disk, alp, held, call, waiting, mismatch, seen, boot>>

(* execute_strategy_signal: an entry with its bracket, refused while the   *)
(* books disagree or the symbol is taken.                                  *)
NewEntry(e, q) ==
  /\ Accept(e, q)
  /\ ~mismatch
  /\ pos = 0
  /\ \A o \in Orders : ~Working(o)
  /\ brk' = [brk EXCEPT ![e] = "pending"]

(* A bracket child or a liquidation order: together the working exits      *)
(* never offer more than the ledger holds.                                 *)
NewExit(x, q) ==
  /\ Accept(x, q)
  /\ q <= pos
  /\ \A y \in Exits : Working(y) => ord[y].rem + q <= pos
  /\ UNCHANGED brk

(* Any handler that gives up a working order: engine.cancel_order.         *)
CancelLocal(o) ==
  /\ Serving
  /\ Working(o)
  /\ ord' = [ord EXCEPT ![o].st = "cancelled"]
  /\ handler' = "work"
  /\ UNCHANGED <<pos, brk, naked, disk, used, alp, held, call, waiting, mismatch, seen, boot>>

(* The end of a handler: brackets of dead entries are released and the     *)
(* checkpoint is written; a settle pass that booked nothing writes none.   *)
EndHandler ==
  /\ handler # "idle"
  /\ call = NoCall
  /\ handler' = "idle"
  /\ UNCHANGED <<pos, ord, naked, used, alp, held, call, waiting, mismatch, seen, boot>>
  /\ IF handler = "settle"
       THEN UNCHANGED <<brk, disk>>
       ELSE /\ brk' = [e \in Entries |->
                         IF brk[e] = "pending" /\ ord[e].st = "cancelled" /\ Unfilled(e)
                           THEN "released" ELSE brk[e]]
            /\ disk' = Snapshot'

-----------------------------------------------------------------------------
(* The broker call                                                         *)

Call(o, kind) ==
  call' = [o |-> o, kind |-> kind, fresh |-> FALSE, q |-> 0,
           step |-> IF ord[o].link = NoLink THEN "gate"
                    ELSE IF ord[o].known THEN "read" ELSE "lookup"]

(* process_quote or process_bar found that o triggers.                     *)
StartExec(o) ==
  /\ Serving
  /\ Working(o)
  /\ ~waiting
  /\ Call(o, "exec")
  /\ handler' = "work"
  /\ UNCHANGED <<pos, ord, brk, naked, disk, used, alp, held, waiting, mismatch, seen, boot>>

(* Fault: only orders that still work are settled.                         *)
SettleWorking(o) ==
  /\ handler \in {"idle", "settle", "booked"}
  /\ call = NoCall
  /\ ord[o].link # NoLink
  /\ Working(o)
  /\ Call(o, "settle")
  /\ handler' = IF handler = "idle" THEN "settle" ELSE handler
  /\ UNCHANGED <<pos, ord, brk, naked, disk, used, alp, held, waiting, mismatch, seen, boot>>

(* settle_broker_orders, on the timer and at startup: the next linked      *)
(* order, whatever its local state.                                        *)
StartSettle(o) ==
  /\ handler \in {"idle", "settle", "booked"}
  /\ call = NoCall
  /\ ord[o].link # NoLink
  /\ Call(o, "settle")
  /\ handler' = IF handler = "idle" THEN "settle" ELSE handler
  /\ UNCHANGED <<pos, ord, brk, naked, disk, used, alp, held, waiting, mismatch, seen, boot>>

At(step) == call # NoCall /\ call.step = step

(* Fault: the refused entry is left in a state of its own.                 *)
FailRejected(hard, r) ==
  LET o    == call.o
      drop == hard /\ ~Reduces(o) /\ Unfilled(o) /\ ~r.known /\ Working(o)
  IN
  /\ call' = NoCall
  /\ ord' = [ord EXCEPT ![o] = IF call.kind = "exec" /\ drop
                                 THEN [r EXCEPT !.st = "rejected"] ELSE r]
  /\ waiting' = (waiting \/ (call.kind = "exec" /\ ~drop))
  /\ UNCHANGED <<pos, brk, naked, handler>>

(* _handle_broker_error: an entry Alpaca refuses outright is dropped, any  *)
(* other order stays and the symbol backs off; r is the order as the call  *)
(* left it.  A settle pass only goes on to the next order.                 *)
Fail(hard, r) ==
  LET o    == call.o
      drop == hard /\ ~Reduces(o) /\ Unfilled(o) /\ ~r.known /\ Working(o)
  IN
  /\ call' = NoCall
  /\ ord' = [ord EXCEPT ![o] = IF call.kind = "exec" /\ drop
                                 THEN [r EXCEPT !.st = "cancelled"] ELSE r]
  /\ waiting' = (waiting \/ (call.kind = "exec" /\ ~drop))
  /\ UNCHANGED <<pos, brk, naked, handler>>

Environment == UNCHANGED <<disk, used, mismatch, seen, boot>>
AlpacaSame  == UNCHANGED <<alp, held>>

(* Step 1, find_by_client_id: Alpaca knows the attempt or has never seen   *)
(* it.  The lookup comes seconds after the POST; only with LateArrival is  *)
(* a POST still on its way by then.                                        *)
Lookup ==
  /\ At("lookup")
  /\ alp[<<call.o, ord[call.o].link>>].st = "transit" => LateArrival
  /\ LET o == call.o IN
     IF Exists(o, ord[o].link)
       THEN /\ ord' = [ord EXCEPT ![o].known = TRUE]
            /\ call' = [call EXCEPT !.step = "read"]
       ELSE /\ ord' = [ord EXCEPT ![o].link = NoLink]
            /\ call' = IF call.kind = "exec" THEN [call EXCEPT !.step = "gate"] ELSE NoCall
  /\ UNCHANGED <<pos, brk, naked, handler, waiting>>
  /\ AlpacaSame /\ Environment

(* The network failed on a lookup that must be answered first.             *)
NoAnswer ==
  /\ \/ At("lookup")
     \/ At("read") /\ ~call.fresh
     \/ At("held")
  /\ Fail(FALSE, ord[call.o])
  /\ AlpacaSame /\ Environment

(* _apply_fill_to_ledger and _reconcile_fills: n more shares of attempt k. *)
(* The first fill of an entry activates its bracket at that size and the   *)
(* rest of the entry is cancelled; nothing waits for shares after that.    *)
Take(o, k, n, r) ==
  LET done  == r.rem = n
      first == o \in Entries /\ brk[o] = "pending"
      st    == IF done THEN "filled"
               ELSE IF first \/ ord[o].st = "cancelled" THEN "cancelled" ELSE "partial"
  IN
  /\ pos' = pos + Sign(o) * n
  /\ ord' = [ord EXCEPT ![o] = [r EXCEPT !.st = st, !.rem = r.rem - n, !.took[k] = @ + n]]
  /\ brk' = IF first THEN [brk EXCEPT ![o] = "active"] ELSE brk
  /\ naked' = IF o \in Entries /\ ~first THEN naked + n ELSE naked
  /\ call' = NoCall
  /\ handler' = IF call.kind = "settle" THEN "booked" ELSE handler
  /\ UNCHANGED waiting

(* Fault: a linked order that is not final yet books its whole fill again. *)
BookWhole(r, a) ==
  IF IsTerminal(a) THEN [r EXCEPT !.link = NoLink, !.known = FALSE, !.booked = 0]
                   ELSE [r EXCEPT !.known = TRUE, !.booked = 0]

(* _book_broker_order: the link is cleared once Alpaca's order is final.   *)
Book(r, a) ==
  IF IsTerminal(a) THEN [r EXCEPT !.link = NoLink, !.known = FALSE, !.booked = 0]
                   ELSE [r EXCEPT !.known = TRUE, !.booked = a.filled]

(* Fault: an order that is not final yet does not stop the call.           *)
ReadAndGoOn ==
  /\ At("read")
  /\ LET o == call.o
         k == ord[o].link
         a == alp[<<o, k>>]
         r == Book(ord[o], a)
         n == a.filled - ord[o].booked
         again == ~call.fresh /\ call.kind = "exec"
     IN \/ n > 0 /\ Take(o, k, n, r)
        \/ /\ n <= 0 /\ again
           /\ ord' = [ord EXCEPT ![o] = r]
           /\ call' = [call EXCEPT !.step = "gate"]
           /\ UNCHANGED <<pos, brk, naked, handler, waiting>>
        \/ /\ n <= 0 /\ ~again
           /\ Fail(call.fresh /\ a.st = "rejected", r)
  /\ AlpacaSame /\ Environment

(* cancel_and_settle and submit_and_settle: the order as Alpaca last       *)
(* reported it before the wait ran out, final or not.                      *)
Read ==
  /\ At("read")
  /\ LET o == call.o
         k == ord[o].link
         a == alp[<<o, k>>]
         r == Book(ord[o], a)
         n == a.filled - ord[o].booked
         again == IsTerminal(a) /\ ~call.fresh /\ call.kind = "exec"
     IN \/ n > 0 /\ Take(o, k, n, r)
        \/ /\ n <= 0 /\ again
           /\ ord' = [ord EXCEPT ![o] = r]
           /\ call' = [call EXCEPT !.step = "gate"]
           /\ UNCHANGED <<pos, brk, naked, handler, waiting>>
        \/ /\ n <= 0 /\ ~again
           /\ Fail(call.fresh /\ a.st = "rejected", r)
  /\ AlpacaSame /\ Environment

(* Step 2, _broker_gate: outside regular hours nothing is sent, entries    *)
(* are not sent while the books disagree.                                  *)
Gate ==
  /\ At("gate")
  /\ LET o == call.o IN
     \/ Fail(~Reduces(o), ord[o])
     \/ ~Reduces(o) /\ mismatch /\ Fail(TRUE, ord[o])
     \/ /\ Reduces(o) \/ ~mismatch
        /\ ord[o].att < MaxAttempt
        /\ call' = [call EXCEPT !.step = IF Reduces(o) THEN "held" ELSE "post",
                                !.q = ord[o].rem]
        /\ UNCHANGED <<pos, ord, brk, naked, handler, waiting>>
  /\ AlpacaSame /\ Environment

(* Step 3: an exit is cut down to the shares Alpaca holds, and refused     *)
(* when it holds none on that side.                                        *)
HeldCheck ==
  /\ At("held")
  /\ LET o == call.o IN
     IF Sign(o) * held < 0
       THEN /\ call' = [call EXCEPT !.step = "post", !.q = Smaller(call.q, Abs(held))]
            /\ UNCHANGED <<pos, ord, brk, naked, handler, waiting>>
       ELSE Fail(TRUE, ord[o])
  /\ AlpacaSame /\ Environment

(* Alpaca allows one open sell order per long position, within its size.   *)
Acceptable(o, q) ==
  /\ q > 0
  /\ o \in Exits /\ held > 0 =>
       q <= held /\ \A x \in Exits, k \in Attempts : alp[<<x, k>>].st # "open"

Place(o, k, st, q) == alp' = [alp EXCEPT ![<<o, k>>] = [st |-> st, qty |-> q, filled |-> 0]]

(* Step 4, submit: the attempt is numbered before it is sent.  A client id *)
(* Alpaca has already seen returns the order it stands for.  A POST that   *)
(* got no answer is lost or on its way.                                    *)
Post ==
  /\ At("post")
  /\ LET o == call.o
         k == ord[o].att + 1
         r == [ord[o] EXCEPT !.att = k, !.link = k, !.known = FALSE, !.booked = 0]
         answered == /\ ord' = [ord EXCEPT ![o] = r]
                     /\ call' = [call EXCEPT !.step = "read", !.fresh = TRUE]
                     /\ UNCHANGED <<pos, brk, naked, handler, waiting>>
     IN \/ /\ Exists(o, k)
           /\ answered \/ Fail(FALSE, r)
           /\ UNCHANGED alp
        \/ /\ ~Exists(o, k) /\ Acceptable(o, call.q)
           /\ answered
           /\ Place(o, k, "open", call.q)
        \/ /\ ~Exists(o, k)
           /\ \E hard \in BOOLEAN : Fail(hard, r)
           /\ UNCHANGED alp
        \/ /\ ~Exists(o, k)
           /\ Fail(FALSE, r)
           /\ Place(o, k, "transit", call.q)
  /\ UNCHANGED held /\ Environment

(* The backoff of the symbol, and of the order that caused it, runs out:   *)
(* at least five seconds after the failure, when the handler that caused   *)
(* it, which makes no other broker call for this symbol, has ended.        *)
BackoffOver ==
  /\ waiting
  /\ handler # "work"
  /\ waiting' = FALSE
  /\ UNCHANGED <<pos, ord, brk, naked, disk, used, alp, held, call, handler, mismatch, seen, boot>>

-----------------------------------------------------------------------------
(* Alpaca                                                                  *)

Outside == UNCHANGED <<pos, ord, brk, naked, disk, used, call, handler, waiting, mismatch, seen, boot>>

AlpacaFills(o, k, n) ==
  /\ alp[<<o, k>>].st = "open"
  /\ n \in 1 .. alp[<<o, k>>].qty - alp[<<o, k>>].filled
  /\ alp' = [alp EXCEPT ![<<o, k>>].filled = @ + n,
                        ![<<o, k>>].st = IF alp[<<o, k>>].filled + n = alp[<<o, k>>].qty
                                       THEN "closed" ELSE "open"]
  /\ held' = held + Sign(o) * n
  /\ Outside

(* A cancel carried out, or a day order that expired.                      *)
AlpacaCancels(o, k) ==
  /\ alp[<<o, k>>].st = "open"
  /\ alp' = [alp EXCEPT ![<<o, k>>].st = "closed"]
  /\ UNCHANGED held
  /\ Outside

AlpacaRejects(o, k) ==
  /\ alp[<<o, k>>].st = "open"
  /\ alp[<<o, k>>].filled = 0
  /\ alp' = [alp EXCEPT ![<<o, k>>].st = "rejected"]
  /\ UNCHANGED held
  /\ Outside

(* A POST the bot got no answer to arrives after all.                      *)
Arrives(o, k) ==
  /\ alp[<<o, k>>].st = "transit"
  /\ alp' = [alp EXCEPT ![<<o, k>>].st = IF Acceptable(o, alp[<<o, k>>].qty) THEN "open" ELSE "rejected"]
  /\ UNCHANGED held
  /\ Outside

-----------------------------------------------------------------------------
(* Position check, crash and startup                                       *)

(* alpaca_broker.sync, every 30 seconds and at startup: a thread reads the *)
(* positions while the event loop goes on.                                 *)
Sync ==
  /\ seen = {}
  /\ seen' = {held}
  /\ UNCHANGED <<pos, ord, brk, naked, disk, used, alp, held, call, handler, waiting, mismatch, boot>>

(* Fault: a pause is never lifted.                                         *)
CompareSticky ==
  /\ call = NoCall
  /\ handler = "idle"
  /\ mismatch' \in {mismatch \/ pos \notin seen, TRUE}
  /\ seen' = {}
  /\ boot' = FALSE
  /\ UNCHANGED <<pos, ord, brk, naked, disk, used, alp, held, call, handler, waiting>>

(* _compare_with_broker, back on the event loop: the book as it is now     *)
(* against the positions read before; a failed sync pauses entries too.    *)
Compare ==
  /\ call = NoCall
  /\ handler = "idle"
  /\ mismatch' \in {pos \notin seen, TRUE}
  /\ seen' = {}
  /\ boot' = FALSE
  /\ UNCHANGED <<pos, ord, brk, naked, disk, used, alp, held, call, handler, waiting>>

(* Fault: the checkpoint leaves out how much of the linked order is booked.*)
CrashForgetsBooked ==
  /\ Crashes
  /\ pos' = disk.pos
  /\ ord' = [o \in Orders |-> [disk.ord[o] EXCEPT !.booked = 0]]
  /\ brk' = disk.brk
  /\ naked' = disk.naked
  /\ call' = NoCall
  /\ handler' = "idle"
  /\ waiting' = FALSE
  /\ mismatch' = FALSE
  /\ seen' = {}
  /\ boot' = TRUE
  /\ UNCHANGED <<disk, used, alp, held>>

(* The process dies and comes back with the last checkpoint; linked orders *)
(* are settled, then the books compared, before any event is handled.      *)
Crash ==
  /\ Crashes
  /\ pos' = disk.pos
  /\ ord' = disk.ord
  /\ brk' = disk.brk
  /\ naked' = disk.naked
  /\ call' = NoCall
  /\ handler' = "idle"
  /\ waiting' = FALSE
  /\ mismatch' = FALSE
  /\ seen' = {}
  /\ boot' = TRUE
  /\ UNCHANGED <<disk, used, alp, held>>

-----------------------------------------------------------------------------

Handlers ==
  \/ \E e \in Entries, q \in Sizes : NewEntry(e, q)
  \/ \E x \in Exits, q \in Sizes : NewExit(x, q)
  \/ \E o \in Orders : CancelLocal(o)
  \/ \E o \in Orders : StartExec(o)
  \/ \E o \in Orders : StartSettle(o)
  \/ EndHandler

RoundTrip == Lookup \/ NoAnswer \/ Read \/ Gate \/ HeldCheck \/ Post

Alpaca ==
  \E o \in Orders, k \in Attempts :
    \/ \E n \in 1 .. alp[<<o, k>>].qty : AlpacaFills(o, k, n)
    \/ AlpacaCancels(o, k)
    \/ AlpacaRejects(o, k)
    \/ Arrives(o, k)

Next == Handlers \/ RoundTrip \/ BackoffOver \/ Alpaca \/ Sync \/ Compare \/ Crash

Spec == Init /\ [][Next]_vars

(* Every handler ends, a settle pass too: it visits each order once; every *)
(* round trip ends (timeouts); the loop's timers reach every linked order  *)
(* again and again; a lookup that is repeated is some day answered, a sync *)
(* some day succeeds; a POST on its way arrives; Alpaca ends every order   *)
(* it has open; and an order that triggered is triggered again while it    *)
(* works: by the next quote, or by the replayed event after a restart.     *)
Answered(o) == call # NoCall /\ call.o = o /\ (Lookup \/ Read)

AlpacaEnds(o, k) == AlpacaFills(o, k, alp[<<o, k>>].qty - alp[<<o, k>>].filled) \/ AlpacaCancels(o, k)

Fairness ==
  /\ SF_vars(EndHandler)
  /\ WF_vars(RoundTrip)
  /\ WF_vars(BackoffOver)
  /\ WF_vars(Sync)
  /\ SF_vars(seen # {} /\ Compare /\ mismatch' = (pos \notin seen))
  /\ \A o \in Orders :
       /\ SF_vars(StartSettle(o))
       /\ SF_vars(StartExec(o))
       /\ SF_vars(Answered(o))
       /\ \A k \in Attempts : WF_vars(AlpacaEnds(o, k)) /\ WF_vars(Arrives(o, k))

FairSpec == Spec /\ Fairness

-----------------------------------------------------------------------------
(* Safety                                                                  *)

(* Whatever Alpaca filled under a client id the bot has used is in the     *)
(* ledger, share for share, once the bot stopped tracking that attempt;    *)
(* of the attempt it still tracks it has booked what it remembers having   *)
(* booked, and of a later one nothing.                                     *)
Exact(orders) ==
  \A o \in Orders, k \in Attempts :
    LET took == orders[o].took[k] IN
    /\ k > orders[o].att => took = 0
    /\ k = orders[o].link => took = orders[o].booked /\ took <= alp[<<o, k>>].filled
    /\ k <= orders[o].att /\ k # orders[o].link =>
         took = alp[<<o, k>>].filled /\ alp[<<o, k>>].st \notin {"open", "transit"}

(* It holds of the running process and of what a restart would find: a     *)
(* crash between a fill and its booking loses no share and doubles none.   *)
LedgerTracksAlpaca == Exact(ord) /\ Exact(disk.ord)

(* One local order never has two orders at Alpaca that can still fill: an  *)
(* attempt that may be alive is resolved before the next one is sent.      *)
OneLiveOrder ==
  \A o \in Orders : \A j, k \in Attempts :
    alp[<<o, j>>].st = "open" /\ alp[<<o, k>>].st = "open" => j = k

(* Alpaca is never sold short: an exit sells at most what it holds.        *)
NeverFlips == held >= 0

(* Every share of an entry that is booked finds the bracket that was       *)
(* created to protect it.                                                  *)
LateFillIsLinked == naked = 0

-----------------------------------------------------------------------------
(* Progress                                                                *)

(* Whatever Alpaca fills for an order the checkpoint knows is booked, also *)
(* when the bot had given the order up and the fill came late.             *)
FillsGetBooked ==
  \A o \in Orders, k \in Attempts :
    alp[<<o, k>>].filled > 0 /\ disk.ord[o].st # "none" ~> ord[o].took[k] = alp[<<o, k>>].filled

(* Entries paused because the books disagree are allowed again: the late   *)
(* fills are booked, and the two books are the same again.                 *)
PauseEnds == mismatch ~> ~mismatch

-----------------------------------------------------------------------------
(* What the calls implement: a ledger that follows Alpaca's fills.         *)

Ledger == INSTANCE FillLedger WITH
  Items  <- Sent,
  filled <- [s \in Sent |-> alp[s].filled],
  booked <- [s \in Sent |-> ord[s[1]].took[s[2]]],
  saved  <- [s \in Sent |-> disk.ord[s[1]].took[s[2]]]

(* Every step is a fill at Alpaca, a booking that catches up with it once, *)
(* a checkpoint, a restart from it, or none of these.                      *)
LedgerSpec == Ledger!Spec

=============================================================================
