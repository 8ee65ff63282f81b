----------------------------- MODULE FillLedger -----------------------------
(***************************************************************************)
(* What the broker calls of the engine promise (core/engine.py,            *)
(* _book_broker_order and _apply_fill_to_ledger): the ledger follows the   *)
(* shares filled for each item, an order known to Alpaca, and a restart    *)
(* takes it back to what was saved.  A booking catches up with one item:   *)
(* no fill is booked twice or in part, none is booked that did not happen. *)
(***************************************************************************)
EXTENDS Integers

CONSTANT Items

VARIABLES
  filled,   \* shares filled of each item
  booked,   \* shares of it in the ledger
  saved     \* shares of it in the ledger as last saved

vars == <<filled, booked, saved>>

Init ==
  /\ filled = [i \in Items |-> 0]
  /\ booked = filled
  /\ saved = filled

Fill(i) ==
  /\ filled'[i] > filled[i]
  /\ filled' = [filled EXCEPT ![i] = filled'[i]]
  /\ UNCHANGED <<booked, saved>>

Book(i) ==
  /\ booked[i] < filled[i]
  /\ booked' = [booked EXCEPT ![i] = filled[i]]
  /\ UNCHANGED <<filled, saved>>

Save ==
  /\ saved' = booked
  /\ UNCHANGED <<filled, booked>>

Restart ==
  /\ booked' = saved
  /\ UNCHANGED <<filled, saved>>

Next == Save \/ Restart \/ \E i \in Items : Fill(i) \/ Book(i)

Spec == Init /\ [][Next]_vars

=============================================================================
