----------------------------- MODULE DurableLog -----------------------------
(***************************************************************************)
(* What the durable inbox promises (main.py, _begin_durable_event and      *)
(* _checkpoint_runtime; core/persistence.py, begin_event and               *)
(* save_checkpoint): events are staged one by one, each of them once, and  *)
(* take durable effect in that order, one or several at a time.  There is  *)
(* no step for a crash: it must not show.                                  *)
(***************************************************************************)
EXTENDS Integers, Sequences

CONSTANT Events

VARIABLES
  staged,   \* events in the inbox, in the order staged
  effect    \* events whose effect is durable

vars == <<staged, effect>>

Init ==
  /\ staged = <<>>
  /\ effect = <<>>

Stage(e) ==
  /\ \A i \in DOMAIN staged : staged[i] # e
  /\ staged' = Append(staged, e)
  /\ UNCHANGED effect

Commit(n) ==
  /\ n > Len(effect)
  /\ effect' = SubSeq(staged, 1, n)
  /\ UNCHANGED staged

Next ==
  \/ \E e \in Events : Stage(e)
  \/ \E n \in 1 .. Len(staged) : Commit(n)

Spec == Init /\ [][Next]_vars

=============================================================================
