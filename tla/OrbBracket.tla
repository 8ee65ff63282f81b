------------------------------ MODULE OrbBracket ------------------------------
(***************************************************************************)
(* ORB's own execution of one pick of one morning: a native bracket at     *)
(* Alpaca, ORB's own book of it, and the exit.  Source:                    *)
(* core/orb_execution.py and, for the round trips, core/broker.py.         *)
(*                                                                         *)
(* Two worker threads and the event loop share the book.  The executor     *)
(* plans the pick, saves the intent, and takes the symbol's lock and the   *)
(* admission lock for the POST.  The supervisor refreshes the own orders,  *)
(* judges the position and, under the symbol's lock, cancels the bracket   *)
(* and sells exactly what ORB owns.  The event loop only leaves requests.  *)
(* A step here is what runs between two moments at which another thread,   *)
(* Alpaca or a crash can come in: the locks themselves, each save that a   *)
(* step depends on, each POST and each cancel.                             *)
(*                                                                         *)
(* The pick is long; take profit and stop are one OCO order, Legs, which   *)
(* Alpaca holds until the entry is filled.  Left out: sizing and its       *)
(* guards, break-even and resize PATCHes (Alpaca refuses them on a held    *)
(* leg), prices, ORB's own loss halt, pacing, alarms, the throttle of      *)
(* re-reads, malformed rows.  Strategy exits are a choice of the step that *)
(* would compute them.                                                     *)
(*                                                                         *)
(* An operator whose comment starts with "Fault:" is not part of the model *)
(* but a plausible bug in the definition after it.                         *)
(***************************************************************************)
EXTENDS Integers, FiniteSets, FiniteSetsExt, Functions

CONSTANTS
  Qty,        \* shares of the pick
  MaxExits,   \* bound: exit orders prepared
  MaxFaults,  \* bound: things that go wrong
  LateEntry   \* TRUE: a lost entry POST may still arrive after PENDING_GRACE_S

\* the entry window, from 11:00 (flatten) on, the next session's morning
MORNING == 1   FLATTEN == 2   NEXT == 3

Entry == 1
Legs  == 2
Exits == 3 .. MaxExits + 2
Keys  == 1 .. MaxExits + 2

VARIABLES
  now,     \* the time
  book,    \* OrbExecutionController.state, as far as this pick goes
  saved,   \* the state row of the last successful persist_cb
  up,      \* down, starting (before reconcile_on_startup succeeds), ready
  held,    \* the symbol is reserved for ORB (process memory)
  ex,      \* the executor's step
  sup,     \* the supervisor's step: the orders asked to cancel, its prepared exit
  halt,    \* ADT's account loss stop
  alp,     \* the orders at Alpaca
  shares,  \* the shares Alpaca holds
  blind,   \* history: an exit began while the book took the entry for unfilled
  faults   \* how much went wrong

vars == <<now, book, saved, up, held, ex, sup, halt, alp, shares, blind, faults>>

-----------------------------------------------------------------------------
(* Types                                                                   *)

Finished == {"filled", "canceled", "rejected"}
Statuses == {"NONE", "PENDING_SUBMIT", "SUBMITTED", "UNKNOWN", "OPEN", "CLOSED", "REJECTED", "SKIPPED"}
ACTIVE   == {"PENDING_SUBMIT", "SUBMITTED", "UNKNOWN", "OPEN"}

Rec == [st : {"none", "pending", "open", "not_sent", "not_found"} \cup Finished, id : BOOLEAN,
        sub : {"prepared", "in_flight", "unanswered", "answered"}, filled : 0 .. Qty, qty : 0 .. Qty,
        inferred : BOOLEAN]
Book == [status : Statuses, day : 1 .. 2, latched : BOOLEAN, carried : BOOLEAN, req : BOOLEAN,
         blocked : BOOLEAN, own : -Qty .. Qty, n : 0 .. MaxExits, ord : [Keys -> Rec]]
Order == [st : {"none", "wire", "gone", "held", "open"} \cup Finished, filled : 0 .. Qty, qty : 0 .. Qty]

NoRec == [st |-> "none", id |-> FALSE, sub |-> "answered", filled |-> 0, qty |-> 0, inferred |-> FALSE]
NoSup == [at |-> "idle", asked |-> {}, ctx |-> 0]

TypeOK ==
  /\ now \in MORNING .. NEXT /\ faults \in 0 .. MaxFaults
  /\ book \in Book /\ saved \in Book
  /\ up \in {"down", "starting", "ready"} /\ {held, halt, blind} \subseteq BOOLEAN
  /\ ex \in {"idle", "planned", "checked", "admitted", "posting", "lookup"}
  /\ sup.at \in {"idle", "refresh", "judge", "exit", "cancel", "submit", "resize", "post", "ask", "confirm"}
  /\ sup.asked \subseteq Keys /\ sup.ctx \in {0} \cup Exits
  /\ alp \in [Keys -> Order] /\ shares \in -Qty .. Qty

-----------------------------------------------------------------------------
(* The book                                                                *)

Fails     == faults < MaxFaults /\ faults' = faults + 1
Unfaulty  == UNCHANGED faults
Active(b) == b.status \in ACTIVE
Live(b)   == {k \in Keys : b.ord[k].st \in {"pending", "open"}}
Owns(b)   == Active(b) \/ b.own # 0 \/ Live(b) # {}
FlatProven(b) == b.ord[Entry].st # "none" /\ Live(b) = {} /\ b.own = 0

\* an own order of another role than exit, or an exit whose POST has no answer yet
Cancellable(b) == {k \in Live(b) : k \notin Exits \/ ~b.ord[k].id}
Working(b)     == {k \in Live(b) \cap Exits : b.ord[k].id}

SetRec(b, k, r) == [b EXCEPT !.ord[k] = r]
NotSent(b, k) == IF k = 0 \/ b.ord[k].id THEN b
                 ELSE [b EXCEPT !.ord[k].st = "not_sent", !.ord[k].sub = "answered"]
NewRec(s, q) == [NoRec EXCEPT !.st = "pending", !.sub = s, !.qty = q]
Close(b, s)  == [b EXCEPT !.status = s, !.req = FALSE]
Reopen(b)    == IF Active(b) THEN b
                ELSE [b EXCEPT !.status = "UNKNOWN", !.carried = @ \/ b.day = 2]

(* _merge_locked: the rows of Alpaca folded into their records; the row of  *)
(* the entry comes with its legs nested.  Fills only grow, a final status  *)
(* stays, an entry that had been called never-reached is live again.       *)
Known(k) == alp[k].st \notin {"none", "wire", "gone"}

Merged(old, row) ==
  [st     |-> IF old.st \in Finished \cup {"not_sent"} THEN old.st
              ELSE IF row.st \in {"held", "open"} THEN "open" ELSE row.st,
   id     |-> TRUE, sub |-> "answered",
   filled |-> IF row.filled > old.filled THEN row.filled ELSE old.filled,
   qty    |-> row.qty, inferred |-> FALSE]

Merge(b, asked) ==
  LET rows  == {k \in asked \cup {l \in {Legs} : Entry \in asked} : Known(k)}
      gain(k) == IF alp[k].filled > b.ord[k].filled THEN alp[k].filled - b.ord[k].filled ELSE 0
      sold  == SumFunctionOnSet([k \in Keys |-> gain(k)], rows \ {Entry})
      back  == IF \E k \in rows : b.ord[k].inferred THEN Reopen(b) ELSE b
  IN  [back EXCEPT !.ord = [k \in Keys |-> IF k \in rows THEN Merged(@[k], alp[k]) ELSE @[k]],
                   !.own = @ + (IF Entry \in rows THEN gain(Entry) ELSE 0) - sold,
                   !.status = IF Entry \notin rows \/ @ \notin ACTIVE \ {"OPEN"} THEN @
                              ELSE IF b.ord[Entry].filled + gain(Entry) > 0 THEN "OPEN" ELSE "SUBMITTED"]

(* Fault: a client id that Alpaca does not know was never sent             *)
NeverReachedAtOnce(b, k) == ~Known(k)

(* _mark_not_found: a 404 proves that a POST never arrived only after the  *)
(* grace, and for an entry only while the account holds no shares.         *)
NeverReached(b, k) ==
  /\ b.ord[k].sub # "in_flight"
  /\ alp[k].st \in {"none", "gone"} \/ (alp[k].st = "wire" /\ k = Entry /\ LateEntry)
  /\ k = Entry => shares <= 0
NotFound(b, k) == [b EXCEPT !.ord[k].st = "not_found", !.ord[k].inferred = TRUE, !.ord[k].sub = "answered"]

(* _refresh_one, for each order asked for: by id, else by client id        *)
Reread(b, asked) ==
  LET lost == {k \in asked : ~Known(k) /\ b.ord[k].st = "pending" /\ NeverReached(b, k)}
  IN  Merge([b EXCEPT !.ord = [k \in Keys |-> IF k \in lost THEN NotFound(b, k).ord[k] ELSE @[k]]], asked)

(* refresh_own_orders: live records, and entries only inferred dead        *)
Due(b)     == Live(b) \cup {k \in {Entry} : b.ord[k].inferred}
Refresh(b) == Reread(b, Due(b))

(* _adopt_orphans: own shares or live own orders reopen their position     *)
Adopt(b) == IF b.own # 0 \/ Live(b) # {} THEN Reopen(b) ELSE b

(* _roll_day                                                               *)
Today == IF now = NEXT THEN 2 ELSE 1

(* Fault: a position of yesterday is like one of today                     *)
RollUncarried(b) == IF b.day = Today THEN b ELSE [b EXCEPT !.day = Today, !.req = FALSE, !.blocked = FALSE]

Roll(b) == IF b.day = Today THEN b
           ELSE [b EXCEPT !.day = Today, !.req = FALSE, !.blocked = FALSE, !.carried = @ \/ Active(b)]

(* Fault: an unanswered POST of before the restart was never sent          *)
RestoredUnsent(b) ==
  [b EXCEPT !.ord = [k \in Keys |-> IF @[k].st = "pending" /\ ~@[k].id
                                    THEN [@[k] EXCEPT !.st = "not_sent", !.sub = "answered"] ELSE @[k]],
            !.status = IF @ = "PENDING_SUBMIT" THEN "SKIPPED" ELSE @]

(* from_state                                                              *)
Restored(b) ==
  LET recs == [k \in Keys |->
                 CASE b.ord[k].sub = "prepared"  -> [b.ord[k] EXCEPT !.st = "not_sent", !.sub = "answered"]
                   [] b.ord[k].sub = "in_flight" -> [b.ord[k] EXCEPT !.sub = "unanswered"]
                   [] OTHER -> b.ord[k]]
  IN  [b EXCEPT !.ord = recs,
                !.status = IF @ # "PENDING_SUBMIT" THEN @
                           ELSE IF b.ord[Entry].st = "none" THEN "SKIPPED" ELSE "UNKNOWN"]

(* _persist raises when the save fails; _persist_quiet does not            *)
Persist(b)      == book' = b /\ saved' = b /\ Unfaulty
PersistQuiet(b) == book' = b /\ ((saved' = b /\ Unfaulty) \/ (UNCHANGED saved /\ Fails))

-----------------------------------------------------------------------------
(* Alpaca                                                                  *)

OpenSells == {k \in {Legs} \cup Exits : alp[k].st = "open"}
Remaining(k) == alp[k].qty - alp[k].filled
Reserved  == SumFunctionOnSet([k \in Keys |-> Remaining(k)], OpenSells)

\* a sale beyond the unreserved shares is refused, except that one from flat goes short
Accepts(q) == q <= shares - Reserved \/ (shares = 0 /\ Reserved = 0)

Placed(k, q) ==
  IF k = Entry THEN [alp EXCEPT ![Entry] = [st |-> "open", filled |-> 0, qty |-> q],
                                ![Legs]  = [st |-> "held", filled |-> 0, qty |-> q]]
  ELSE [alp EXCEPT ![k] = [st |-> IF Accepts(q) THEN "open" ELSE "rejected", filled |-> 0, qty |-> q]]

Wired(k, q) == [alp EXCEPT ![k] = [st |-> "wire", filled |-> 0, qty |-> q]]
Canceled(a, k) == IF a[k].st \notin {"held", "open"} THEN a
                  ELSE IF k # Entry THEN [a EXCEPT ![k].st = "canceled"]
                  ELSE [a EXCEPT ![k].st = "canceled", ![Legs].st = "canceled"]

process == <<book, saved, up, held, ex, sup, halt, blind>>

(* The POST whose answer was lost arrives, or never does                   *)
Arrive(k) ==
  /\ alp[k].st = "wire"
  /\ alp' = Placed(k, alp[k].qty)
  /\ UNCHANGED <<now, process, shares, faults>>

Vanish(k) ==
  /\ alp[k].st = "wire"
  /\ alp' = [alp EXCEPT ![k].st = "gone"]
  /\ UNCHANGED <<now, process, shares, faults>>

Fill(k) ==
  /\ alp[k].st = "open"
  /\ LET full == Remaining(k) = 1
     IN  alp' = [alp EXCEPT ![k].filled = @ + 1, ![k].st = IF full THEN "filled" ELSE @,
                            ![Legs].st = IF k = Legs /\ full THEN "filled"
                                         ELSE IF k = Entry /\ full /\ @ = "held" THEN "open" ELSE @]
  /\ shares' = IF k = Entry THEN shares + 1 ELSE shares - 1
  /\ UNCHANGED <<now, process, faults>>

(* Alpaca cancels an order nothing of which is filled                      *)
Kill(k) ==
  /\ k # Legs /\ alp[k].st = "open" /\ alp[k].filled = 0
  /\ Fails
  /\ alp' = Canceled(alp, k)
  /\ UNCHANGED <<now, process, shares>>

(* Shares sold by hand, which needs them free of orders.  One between the   *)
(* position read of an exit and its POST is not guarded by the code.       *)
OutsideSale ==
  /\ shares > 0 /\ sup.at # "post" /\ \A k \in Keys : alp[k].st \notin {"wire", "held", "open"}
  /\ Fails
  /\ shares' = shares - 1
  /\ UNCHANGED <<now, process, alp>>

(* Time passes; at the close of the day its orders expire                  *)
Later ==
  /\ now < NEXT
  /\ now' = now + 1
  /\ now' = NEXT => \A k \in Keys : alp[k].st # "wire"
  /\ alp' = IF now' = NEXT THEN [k \in Keys |-> IF alp[k].st \in {"held", "open"}
                                                THEN [alp[k] EXCEPT !.st = "canceled"] ELSE alp[k]]
            ELSE alp
  /\ halt' = (halt /\ now' # NEXT)
  /\ UNCHANGED <<book, saved, up, held, ex, sup, shares, blind, faults>>

-----------------------------------------------------------------------------
(* The executor: execute() for one pick                                    *)

external == <<now, halt, shares, blind>>
ExLocked  == ex \in {"admitted", "posting", "lookup"}
SupLocked == sup.at \in {"cancel", "resize", "submit", "post", "ask", "confirm"}

(* _entry_stop_reason                                                      *)
Stopped == now # MORNING \/ halt \/ book.blocked \/ book.req \/ book.status # "PENDING_SUBMIT"

(* the symbol is reserved, then the intent saved; a failed save sends nothing *)
Plan ==
  /\ up = "ready" /\ ex = "idle" /\ now = MORNING /\ ~halt /\ ~book.blocked
  /\ book.status = "NONE"
  /\ LET b == [book EXCEPT !.status = "PENDING_SUBMIT"]
     IN  \/ Persist(b) /\ held' = TRUE /\ ex' = "planned"
         \/ Fails /\ book' = Close(b, "REJECTED") /\ held' = FALSE /\ UNCHANGED <<saved, ex>>
  /\ UNCHANGED <<external, up, sup, alp>>

(* _drop_position: the entry never went out.  A supervisor that closed it  *)
(* meanwhile has given the symbol back already.                            *)
Drop(b, s) ==
  /\ PersistQuiet(Close(b, s))
  /\ held' = (held /\ ~Active(b)) /\ ex' = "idle"

(* _late_checks: ADT's book and Alpaca's, without a lock                   *)
LateChecks ==
  /\ ex = "planned"
  /\ \/ /\ Stopped \/ shares # 0 \/ \E k \in Keys : alp[k].st \in {"held", "open"}
        /\ Drop(book, "SKIPPED")
     \/ ~Stopped /\ shares = 0 /\ ex' = "checked" /\ UNCHANGED <<book, saved, held, faults>>
  /\ UNCHANGED <<external, up, sup, alp>>

(* Under the symbol's lock and the admission lock: checked again, and the  *)
(* order's record is durable before its POST.                              *)
Admit ==
  /\ ex = "checked" /\ ~SupLocked
  /\ IF Stopped THEN Drop(book, "SKIPPED")
     ELSE \/ Persist(SetRec(book, Entry, NewRec("in_flight", Qty))) /\ ex' = "admitted" /\ UNCHANGED held
          \/ Fails /\ book' = Close(book, "SKIPPED") /\ held' = FALSE /\ ex' = "idle" /\ UNCHANGED saved
  /\ UNCHANGED <<external, up, sup, alp>>

(* _write up to _before_post: the destination, the budget, the last check  *)
BeforePost ==
  /\ ex = "admitted"
  /\ \/ Stopped /\ Drop(NotSent(book, Entry), "REJECTED")
     \/ Fails /\ book' = Close(NotSent(book, Entry), "REJECTED") /\ saved' = book' /\ held' = FALSE /\ ex' = "idle"
     \/ ~Stopped /\ ex' = "posting" /\ UNCHANGED <<book, saved, held, faults>>
  /\ UNCHANGED <<external, up, sup, alp>>

(* submit_bracket: accepted, refused for good, or no answer                *)
PostEntry ==
  /\ ex = "posting"
  /\ \/ /\ alp' = Placed(Entry, Qty) /\ ex' = "lookup" /\ UNCHANGED <<book, saved, held, faults>>
     \/ /\ Fails /\ book' = Close(NotFound(book, Entry), "REJECTED") /\ saved' = book'
        /\ held' = FALSE /\ ex' = "idle" /\ UNCHANGED alp
     \/ /\ Fails /\ alp' = Wired(Entry, Qty) /\ ex' = "lookup" /\ UNCHANGED <<book, saved, held>>
  /\ UNCHANGED <<external, up, sup>>

(* The answer, or what _lookup_coid finds; an entry nobody can find stays  *)
(* live and its position UNKNOWN.                                          *)
BookEntry ==
  /\ ex = "lookup" /\ ex' = "idle"
  /\ PersistQuiet(IF alp[Entry].st \in {"wire", "gone"}
                  THEN [book EXCEPT !.ord[Entry].sub = "unanswered", !.status = "UNKNOWN"]
                  ELSE Merge(book, {Entry}))
  /\ UNCHANGED <<external, up, held, sup, alp>>

-----------------------------------------------------------------------------
(* The supervisor: one tick() after the other                              *)

Supervising(step) == up # "down" /\ sup.at = step
Idle(b) == PersistQuiet(b) /\ sup' = NoSup
(* The position is flat: closed and the symbol given back                  *)
Flat(b) == Idle(Close(b, "CLOSED")) /\ held' = FALSE

TickStart ==
  /\ Supervising("idle")
  /\ Owns(book) \/ Due(book) # {}
  /\ book' = Roll(book)
  /\ sup' = [NoSup EXCEPT !.at = "refresh"]
  /\ UNCHANGED <<external, saved, up, held, ex, alp, faults>>

(* A symbol whose lock is held is skipped; a read may fail                 *)
TickRefresh ==
  /\ Supervising("refresh")
  /\ \/ book' = (IF ExLocked THEN book ELSE Refresh(book)) /\ Unfaulty
     \/ UNCHANGED book /\ Fails
  /\ sup' = [sup EXCEPT !.at = "judge"]
  /\ UNCHANGED <<external, saved, up, held, ex, alp>>

(* _adopt_orphans, then _supervise_one: closed when flat; exits that are    *)
(* owed; a strategy's exit, which does not wait for a fill                 *)
Owed(b) == b.latched \/ b.req \/ b.carried \/ halt \/ now = FLATTEN \/ b.own < 0

TickJudge ==
  /\ Supervising("judge")
  /\ \E b \in {Adopt(book)} :
         CASE ~Active(b) -> Idle(b) /\ UNCHANGED held
           [] Active(b) /\ FlatProven(b) -> Flat(b)
           [] Active(b) /\ ~FlatProven(b) /\ b.own # 0 /\ shares = 0 /\ Live(b) = {} -> Flat([b EXCEPT !.own = 0])
           [] OTHER ->
                /\ held' = TRUE
                /\ \/ book' = b /\ sup' = [sup EXCEPT !.at = "exit"] /\ UNCHANGED <<saved, faults>>
                   \/ ~Owed(b) /\ Idle(b)
  /\ UNCHANGED <<external, up, ex, alp>>

(* Fault: the exit is remembered in memory only                            *)
LatchUnsaved(b) == book' = [b EXCEPT !.latched = TRUE] /\ UNCHANGED <<saved, faults>>

(* _latch_exit                                                             *)
Latch(b) == PersistQuiet([b EXCEPT !.latched = TRUE])

(* _exit_preflight: all that can fail before the bracket is cancelled, then *)
(* the latch.  A failure leaves the bracket alone.                         *)
NextExit == book.n + 3
OtherExitAtAlpaca(k) == {x \in Exits \ {k} : alp[x].st = "open"}
MergeExits(b, k) == Merge(b, {x \in OtherExitAtAlpaca(k) : b.ord[x].st # "none"})

Preflight ==
  /\ Supervising("exit") /\ ~ExLocked
  /\ book.own # 0 /\ {Entry, Legs} \cap Live(book) # {}
  /\ book.n < MaxExits
  /\ LET k == NextExit
         b == [SetRec(book, k, NewRec("prepared", book.own)) EXCEPT !.n = @ + 1]
     IN  \/ Fails /\ sup' = NoSup /\ book' = [book EXCEPT !.n = @ + 1] /\ UNCHANGED saved
         \/ Fails /\ sup' = NoSup /\ book' = NotSent(b, k) /\ saved' = book'
         \/ OtherExitAtAlpaca(k) # {} /\ Idle(NotSent(MergeExits(b, k), k))
         \/ OtherExitAtAlpaca(k) = {} /\ Latch(b) /\ sup' = [sup EXCEPT !.at = "cancel", !.ctx = k]
  /\ UNCHANGED <<external, up, held, ex, alp>>

(* Nothing is protected (or nothing owned): straight to the cancels        *)
NoPreflight ==
  /\ Supervising("exit") /\ ~ExLocked
  /\ book.own = 0 \/ {Entry, Legs} \cap Live(book) = {}
  /\ sup' = [sup EXCEPT !.at = "cancel"]
  /\ blind' = (blind \/ Entry \in Live(book))
  /\ UNCHANGED <<now, halt, shares, book, saved, up, held, ex, alp, faults>>

(* _cancel_own_live, one order: found by client id first when its id is    *)
(* not known; cancelled and read back, or still live, or no answer.        *)
ToCancel == Cancellable(book) \ (sup.asked \cup {sup.ctx})

CancelOne ==
  /\ Supervising("cancel") /\ ToCancel # {}
  /\ LET k == Min(ToCancel)
         b == IF book.ord[k].id THEN book ELSE Reread(book, {k})
     IN  /\ sup' = [sup EXCEPT !.asked = @ \cup {k}]
         /\ IF ~b.ord[k].id \/ k \notin Live(b) THEN book' = b /\ UNCHANGED <<alp, faults>>
            ELSE \/ alp' = Canceled(alp, k) /\ book' = b /\ Unfaulty
                 \/ Fails /\ book' = b /\ UNCHANGED alp
  /\ UNCHANGED <<external, saved, up, held, ex>>

(* Each cancel's answer is merged; then what is left decides.              *)
Answered == Merge(book, {k \in sup.asked : book.ord[k].id})

CancelsDone ==
  /\ Supervising("cancel") /\ ToCancel = {}
  /\ \E b \in {Answered} :
     LET k    == sup.ctx
         aborted == NotSent(b, k)
         room == IF shares > 0 THEN shares ELSE 0
     IN  CASE Cancellable(b) \ {k} # {} ->
                \/ Cancellable(b) \ (sup.asked \cup {k}) # {} /\ book' = b /\ UNCHANGED <<saved, sup, held, faults>>
                \/ Cancellable(b) \subseteq sup.asked \cup {k} /\ Idle(aborted) /\ UNCHANGED held
           [] Cancellable(b) \ {k} = {} /\ b.own = 0 -> Flat(aborted)
           [] Cancellable(b) \ {k} = {} /\ b.own # 0 /\ Working(b) # {} ->
                LET x == Min(Working(b))
                IN  IF b.ord[x].qty - b.ord[x].filled <= room
                    THEN PersistQuiet(aborted) /\ sup' = [sup EXCEPT !.at = "confirm"] /\ UNCHANGED held
                    ELSE /\ book' = b /\ sup' = [sup EXCEPT !.at = "resize"]
                         /\ UNCHANGED <<saved, held, faults>>
           [] OTHER -> book' = b /\ sup' = [sup EXCEPT !.at = "submit"] /\ UNCHANGED <<saved, held, faults>>
  /\ UNCHANGED <<external, up, ex, alp>>

(* A working exit larger than what the account holds is cancelled first    *)
Resize ==
  /\ Supervising("resize")
  /\ LET x == Min(Working(book))
     IN  \/ /\ alp' = Canceled(alp, x) /\ Unfaulty
            /\ sup' = [sup EXCEPT !.at = "cancel", !.asked = @ \cup {x}]
         \/ Fails /\ sup' = NoSup /\ UNCHANGED alp
  /\ UNCHANGED <<external, book, saved, up, held, ex>>

(* _submit_exit up to the position read: the intent, or the mark that the  *)
(* prepared one is in flight, is durable or nothing is sent; no other exit *)
(* of ours may be live at Alpaca; the quantity is capped to the account.   *)
Submit ==
  /\ Supervising("submit")
  /\ sup.ctx # 0 \/ book.n < MaxExits
  /\ LET k == IF sup.ctx # 0 THEN sup.ctx ELSE NextExit
         b == [SetRec(book, k, NewRec("in_flight", book.own)) EXCEPT !.n = IF sup.ctx = 0 THEN @ + 1 ELSE @]
         n == IF shares <= 0 THEN 0 ELSE IF b.own <= shares THEN b.own ELSE shares
         capped == [SetRec(b, k, NewRec("in_flight", n)) EXCEPT !.own = n]
     IN  \/ Fails /\ sup' = NoSup /\ book' = NotSent(b, k) /\ UNCHANGED <<saved, held>>
         \/ sup.ctx = 0 /\ OtherExitAtAlpaca(k) # {} /\ Idle(NotSent(MergeExits(b, k), k)) /\ UNCHANGED held
         \/ /\ sup.ctx # 0 \/ OtherExitAtAlpaca(k) = {}
            /\ saved' = b /\ Unfaulty
            /\ IF n = 0 THEN book' = Close(NotSent(capped, k), "CLOSED") /\ held' = FALSE /\ sup' = NoSup
               ELSE book' = capped /\ sup' = [sup EXCEPT !.at = "post", !.ctx = k] /\ UNCHANGED held
  /\ UNCHANGED <<external, up, ex, alp>>

(* submit_market_order                                                     *)
PostExit ==
  /\ Supervising("post")
  /\ LET k == sup.ctx
         n == book.ord[k].qty
     IN  \/ /\ Accepts(n) /\ alp' = Placed(k, n) /\ sup' = [sup EXCEPT !.at = "ask"]
            /\ UNCHANGED <<book, saved, faults>>
         \/ ~Accepts(n) /\ Idle(NotFound(book, k)) /\ UNCHANGED alp
         \/ Fails /\ book' = NotFound(book, k) /\ saved' = book' /\ sup' = NoSup /\ UNCHANGED alp
         \/ Fails /\ alp' = Wired(k, n) /\ sup' = [sup EXCEPT !.at = "ask"] /\ UNCHANGED <<book, saved>>
  /\ UNCHANGED <<external, up, held, ex>>

(* The answer, or what the lookups find; without either the exit stays     *)
(* live under its client id.                                               *)
BookExit ==
  /\ Supervising("ask")
  /\ LET k == sup.ctx
     IN  IF alp[k].st \in {"wire", "gone"} THEN Idle(SetRec(book, k, [book.ord[k] EXCEPT !.sub = "unanswered"]))
         ELSE PersistQuiet(Merge(book, {k})) /\ sup' = [sup EXCEPT !.at = "confirm"]
  /\ UNCHANGED <<external, up, held, ex, alp>>

(* The confirm loop re-reads the live orders until flat or out of time     *)
Confirm ==
  /\ Supervising("confirm")
  /\ \E b \in {Reread(book, Live(book))} :
         IF b.own = 0 /\ Live(b) = {} THEN Flat(b) ELSE Idle(b) /\ UNCHANGED held
  /\ UNCHANGED <<external, up, ex, alp>>

-----------------------------------------------------------------------------
(* The event loop, crashes and restarts                                    *)

(* request_all_exits from a handler: no waiting for an entry, and the save *)
(* is left to a writer thread.  ADT's breaker also sets its loss stop.     *)
StopAll ==
  /\ up # "down" /\ ~book.blocked /\ book.day = Today
  /\ book' = [book EXCEPT !.blocked = TRUE, !.req = Owns(book)]
  /\ saved' \in {saved, book'}
  /\ halt' \in {halt, TRUE}
  /\ UNCHANGED <<now, up, held, ex, sup, alp, shares, blind, faults>>

(* A POST under way at a crash may or may not have left                    *)
Crash ==
  /\ up # "down" /\ Fails
  /\ up' = "down" /\ held' = FALSE /\ ex' = "idle" /\ sup' = NoSup
  /\ book' = saved
  /\ \/ UNCHANGED alp
     \/ ex = "posting" /\ alp' = Wired(Entry, Qty)
     \/ sup.at = "post" /\ alp' = Wired(sup.ctx, book.ord[sup.ctx].qty)
  /\ UNCHANGED <<external, saved>>

Restart ==
  /\ up = "down"
  /\ up' = "starting" /\ book' = Restored(saved)
  /\ UNCHANGED <<external, saved, held, ex, sup, alp, faults>>

(* reconcile_on_startup, until it succeeds: every order of ours is asked   *)
(* for, orphans adopted, flat positions closed, the others reserved.       *)
Reconcile ==
  /\ up = "starting" /\ sup.at = "idle"
  /\ \/ /\ \E b \in {Adopt(Refresh(Roll(book)))} :
           LET c == IF Active(b) /\ FlatProven(b) THEN Close(b, "CLOSED") ELSE b
           IN  PersistQuiet(c) /\ held' = Active(c)
        /\ up' = "ready"
     \/ Fails /\ book' = Roll(book) /\ UNCHANGED <<saved, held, up>>
  /\ UNCHANGED <<external, ex, sup, alp>>

-----------------------------------------------------------------------------
(* Specification                                                           *)

Init ==
  /\ now = MORNING /\ up = "ready" /\ held = FALSE /\ ex = "idle" /\ sup = NoSup /\ halt = FALSE
  /\ book = [status |-> "NONE", day |-> 1, latched |-> FALSE, carried |-> FALSE, req |-> FALSE,
             blocked |-> FALSE, own |-> 0, n |-> 0, ord |-> [k \in Keys |-> NoRec]]
  /\ saved = book
  /\ alp = [k \in Keys |-> [st |-> "none", filled |-> 0, qty |-> 0]]
  /\ shares = 0 /\ blind = FALSE /\ faults = 0

Broker ==
  \/ \E k \in Keys : Arrive(k)
  \/ \E k \in Keys : Vanish(k)
  \/ \E k \in Keys : Fill(k)
  \/ \E k \in Keys : Kill(k)
  \/ OutsideSale
  \/ Later

Execution == LateChecks \/ Admit \/ BeforePost \/ PostEntry \/ BookEntry

Supervisor ==
  \/ TickStart \/ TickRefresh \/ TickJudge \/ Preflight \/ NoPreflight \/ CancelOne \/ CancelsDone
  \/ Resize \/ Submit \/ PostExit \/ BookExit \/ Confirm

Next == Broker \/ Plan \/ Execution \/ Supervisor \/ StopAll \/ Crash \/ Restart \/ Reconcile

Spec == Init /\ [][Next]_vars

(* The threads run, Alpaca delivers and fills market orders, time passes.  *)
(* Nothing makes an entry be planned, a bracket leg fill or anything fail. *)
Fairness ==
  /\ WF_vars(Supervisor) /\ WF_vars(Restart \/ Reconcile)
  /\ WF_vars(Execution)
  /\ WF_vars(\E k \in Keys : Arrive(k) \/ Vanish(k))
  /\ WF_vars(\E k \in Keys \ {Legs} : Fill(k))
  /\ WF_vars(Later)

FairSpec == Spec /\ Fairness

-----------------------------------------------------------------------------
(* Properties                                                              *)

AtAlpaca(a) == {k \in Keys : a[k].st \in {"held", "open", "wire"}}
Bought == alp[Entry].filled - SumFunctionOnSet([k \in Keys |-> alp[k].filled], {Legs} \cup Exits)

\* not counted: an entry the book takes for never-reached (it is asked for again)
Exposed == ((Bought > 0 /\ shares > 0) \/ AtAlpaca(alp) # {}) /\ ~book.ord[Entry].inferred

(* What ORB has at Alpaca - shares, or an order that may still fill - its   *)
(* book owns, in memory and after any crash, so no other arm of ADT takes  *)
(* the symbol and every exit covers it.                                    *)
OwnsWhatLives == Exposed => Owns(book)

(* What can still be sold is never more than what is held: the bracket and *)
(* an exit, or two exits, never work at the same time for the same shares. *)
SellsWithinShares ==
  LET selling == {k \in {Legs} \cup Exits : alp[k].st \in {"open", "wire"}}
  IN  SumFunctionOnSet([k \in Keys |-> Remaining(k)], selling) <= (IF shares > 0 THEN shares ELSE 0)

(* Shares ORB knows of are protected at Alpaca, or their exit is owed and  *)
(* will be retried, whatever happened to saves and to the process.         *)
CoveredAlways ==
  (up # "down" /\ sup.at = "idle" /\ ex = "idle" /\ book.own > 0 /\ shares > 0 /\ book.day = Today)
  => \/ alp[Legs].st \in {"held", "open"}
     \/ Owed(book)
     \/ \E k \in Exits : alp[k].st \in {"open", "wire"}

(* The same, but for exits begun while the book knew of no fill            *)
Covered == blind \/ CoveredAlways

(* Whatever is lost, stopped or restarted, ORB ends without shares and     *)
(* without orders, and gives the symbol back.                              *)
EndsFlat == <>[](AtAlpaca(alp) = {} /\ ~Active(book) /\ book.own = 0 /\ ~held)
=============================================================================
