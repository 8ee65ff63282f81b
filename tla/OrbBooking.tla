------------------------------- MODULE OrbBooking -------------------------------
(***************************************************************************)
(* How ORB's fills get into the account.  ORB's controller keeps its own   *)
(* book in a row of its own; the integration books what is new there into  *)
(* the account, counting per Alpaca order, and closes the books of a       *)
(* finished position with one trade row.  The account, the counters and    *)
(* the trade rows are saved together, in ADT's checkpoint.                 *)
(* Sources: core/orb_integration.py (sync, _complete_trades, the ledger,   *)
(* refresh_symbols, apply_resolution), core/orb_execution.py (the merge of *)
(* a broker answer, _mark_not_found, to_state).                            *)
(*                                                                         *)
(* One symbol; a position is one entry and its exit, each one order.       *)
(* Prices are left out.                                                    *)
(***************************************************************************)
EXTENDS Integers, FiniteSets, FiniteSetsExt

CONSTANTS
  Keys,       \* ORB positions, all of one symbol
  Size,       \* shares of an entry
  Late,       \* an entry called not found may turn up at Alpaca
  Recover,    \* an unreadable row may be readable at the next start
  MaxFaults   \* bound: crashes, failed saves, bad rows

Legs == {"in", "out"}
None == [in |-> 0, out |-> 0]
Unsent == [in |-> 0, out |-> 0, st |-> "none"]

VARIABLES
  alp,      \* Alpaca: filled shares of the entry and of the exit, and whether the entry is sent, live or done
  ctl,      \* the controller's record of them; st: none, active, closed
  row,      \* the controller's row
  mode,     \* ORB runs, or its row was unreadable and it is off
  adt,      \* the account: shares, booked per order, recorded positions, trade rows, what was resolved by hand
  saved,    \* the same in the checkpoint
  faults

vars == <<alp, ctl, row, mode, adt, saved, faults>>

NewBook == [shares |-> 0, booked |-> [k \in Keys |-> None], recorded |-> {},
            trades |-> [k \in Keys |-> None], resolved |-> 0]

TypeOK ==
  /\ \A k \in Keys : /\ alp[k].in \in 0 .. Size /\ alp[k].out \in 0 .. alp[k].in
                     /\ alp[k].st \in {"none", "lost", "live", "done"}
                     /\ ctl[k].st \in {"none", "active", "closed"}
  /\ mode \in {"on", "off"} /\ adt.recorded \subseteq Keys /\ adt.shares \in Int /\ faults \in 0 .. MaxFaults

Init ==
  /\ alp = [k \in Keys |-> Unsent] /\ ctl = [k \in Keys |-> Unsent] /\ row = [k \in Keys |-> Unsent]
  /\ mode = "on" /\ adt = NewBook /\ saved = NewBook /\ faults = 0

-----------------------------------------------------------------------------
Own(c) == MapThenSumSet(LAMBDA k : c[k].in - c[k].out, Keys)
Active(c) == \E k \in Keys : c[k].st = "active"

\* the intent is durable before the POST; ORB has one attempt at a symbol at a time
Send(k) ==
  /\ mode = "on" /\ ctl[k].st = "none" /\ alp[k].st = "none" /\ ~Active(ctl) /\ Own(ctl) = 0
  /\ ctl' = [ctl EXCEPT ![k].st = "active"] /\ row' = ctl'
  /\ \E st \in {"live"} \cup (IF Late THEN {"lost"} ELSE {}) : alp' = [alp EXCEPT ![k].st = st]
  /\ UNCHANGED <<mode, adt, saved, faults>>

\* Alpaca fills the entry, then its bracket sells; the rest of the entry may be cancelled
FillEntry(k) ==
  /\ alp[k].st = "live" /\ alp[k].in < Size
  /\ alp' = [alp EXCEPT ![k].in = @ + 1, ![k].st = IF alp[k].in + 1 = Size THEN "done" ELSE @]
  /\ UNCHANGED <<ctl, row, mode, adt, saved, faults>>
FillExit(k) ==
  /\ alp[k].out < alp[k].in /\ alp' = [alp EXCEPT ![k].out = @ + 1]
  /\ UNCHANGED <<ctl, row, mode, adt, saved, faults>>
EntryEnds(k) ==
  /\ alp[k].st = "live" /\ alp' = [alp EXCEPT ![k].st = "done"]
  /\ UNCHANGED <<ctl, row, mode, adt, saved, faults>>
Arrives(k) ==
  /\ alp[k].st = "lost" /\ alp' = [alp EXCEPT ![k].st = "live"]
  /\ UNCHANGED <<ctl, row, mode, adt, saved, faults>>

\* _refresh_one and _merge_locked: the record becomes what Alpaca shows; shares or a live entry reopen it
Shown(k) ==
  [in |-> alp[k].in, out |-> alp[k].out,
   st |-> IF alp[k].st = "live" \/ alp[k].in > alp[k].out THEN "active" ELSE "closed"]

Merge(k) ==
  /\ mode = "on" /\ ctl[k].st # "none" /\ alp[k].st \in {"live", "done"} /\ ctl[k] # Shown(k)
  /\ ctl' = [ctl EXCEPT ![k] = Shown(k)]
  /\ UNCHANGED <<alp, row, mode, adt, saved, faults>>

\* _mark_not_found, past the grace: the entry is taken for never sent
NotFound(k) ==
  /\ mode = "on" /\ ctl[k].st = "active" /\ alp[k].st = "lost"
  /\ ctl' = [ctl EXCEPT ![k].st = "closed"]
  /\ UNCHANGED <<alp, row, mode, adt, saved, faults>>

\* _persist, by whichever thread comes first
SaveRow ==
  /\ mode = "on" /\ row # ctl /\ row' = ctl
  /\ UNCHANGED <<alp, ctl, mode, adt, saved, faults>>

-----------------------------------------------------------------------------
\* sync: entries before exits, the shares beyond what was booked of the same order
Booked(b) ==
  LET More(k, l) == IF ctl[k][l] > b.booked[k][l] THEN ctl[k][l] - b.booked[k][l] ELSE 0
      New(l) == MapThenSumSet(LAMBDA k : More(k, l), Keys)
  IN [b EXCEPT !.shares = @ + New("in") - New("out"),
               !.booked = [k \in Keys |-> [l \in Legs |-> @[k][l] + More(k, l)]]]

\* _complete_trades: a position that is over, with nothing left of the symbol and every fill booked
Finished(b) == {k \in Keys \ b.recorded : ctl[k].st = "closed" /\ Own(ctl) = 0}
WithTrades(b) ==
  [b EXCEPT !.recorded = @ \cup Finished(b),
            !.trades = [k \in Keys |-> IF k \in Finished(b) THEN b.booked[k] ELSE @[k]]]

\* Fault: trades are completed from what was booked before
TradesFirst(b) == Booked(WithTrades(b))

Synced(b) == WithTrades(Booked(b))

\* the checkpoint follows at once; when it fails the change stays in memory for the next one
Sync(fails) ==
  /\ mode = "on"
  /\ adt' = Synced(adt) /\ adt' # adt
  /\ IF fails THEN faults < MaxFaults /\ faults' = faults + 1 /\ UNCHANGED saved
     ELSE saved' = adt' /\ UNCHANGED faults
  /\ UNCHANGED <<alp, ctl, row, mode>>

\* a checkpoint of any other cause
Checkpoint == saved # adt /\ saved' = adt /\ UNCHANGED <<alp, ctl, row, mode, adt, faults>>

\* Fault: the counters are not part of what is restored
RestoredWithoutCounters(b) == [b EXCEPT !.booked = [k \in Keys |-> None]]

\* load_ledger_state
Restored(b) == b

\* the process starts again; a row that cannot be read leaves ORB off, with nothing restored
Restart(bad) ==
  /\ faults < MaxFaults /\ faults' = faults + 1
  /\ mode = "off" /\ ~Recover => bad
  /\ adt' = Restored(saved)
  /\ ctl' = IF bad THEN [k \in Keys |-> Unsent] ELSE row
  /\ mode' = IF bad THEN "off" ELSE "on"
  /\ UNCHANGED <<alp, row, saved>>

\* resolve-orphan: Alpaca shows no shares and no live order, so the account's are removed; all or nothing
\* with the checkpoint.  What ORB has seen is booked within a second, and the request reads Alpaca first:
\* it is taken to come after that.
Orphan == adt.shares # 0 /\ ~Active(ctl) /\ Own(ctl) = 0
AlpacaClear == \A k \in Keys : alp[k].in = alp[k].out /\ alp[k].st # "live"

Resolve ==
  /\ Orphan /\ AlpacaClear /\ (mode = "on" => Booked(adt) = adt)
  /\ adt' = [adt EXCEPT !.shares = 0, !.resolved = @ + adt.shares] /\ saved' = adt'
  /\ UNCHANGED <<alp, ctl, row, mode, faults>>

Next ==
  \/ \E k \in Keys : Send(k) \/ FillEntry(k) \/ FillExit(k) \/ EntryEnds(k) \/ Arrives(k) \/ Merge(k) \/ NotFound(k)
  \/ SaveRow \/ Checkpoint \/ Resolve
  \/ \E b \in BOOLEAN : Sync(b) \/ Restart(b)

Spec == Init /\ [][Next]_vars

-----------------------------------------------------------------------------
(* Properties                                                              *)

\* The account holds exactly the shares whose fills were counted, never more of an order than Alpaca filled,
\* and never a short: whatever is lost between the row and the checkpoint, no fill is booked twice and no
\* exit before its entry (orb_integration: "makes booking idempotent").
BookIsOrb ==
  LET counted == MapThenSumSet(LAMBDA k : adt.booked[k].in - adt.booked[k].out, Keys)
  IN /\ adt.shares = counted - adt.resolved /\ adt.shares >= 0
     /\ \A k \in Keys, l \in Legs : adt.booked[k][l] <= alp[k][l]

\* The trade row of a position, once written, has all the shares that were booked of it, as many sold as
\* bought (_complete_trades).
TradeIsWhole ==
  \A k \in adt.recorded : adt.trades[k] = adt.booked[k] /\ adt.trades[k].in = adt.trades[k].out
=============================================================================
