---------------------------- MODULE DurableInbox ----------------------------
(***************************************************************************)
(* The durable inbox and the checkpoint: how main.py applies an event (a   *)
(* bar, a quote, news, a flattening directive, a session boundary, a       *)
(* manual flatten) to the trading state so that a restart neither loses    *)
(* it nor applies it twice.  Sources: main.py (_begin_durable_event,       *)
(* _checkpoint_runtime, the handlers, the startup) and core/persistence.py.*)
(*                                                                         *)
(* The trading state is abstracted to what was applied to it, in order:    *)
(* log is the sequence of events, each of them whole or only its first     *)
(* half, and notes counts the changes made outside an event (an order of   *)
(* the operator, a VIX regime, an order intent of a controller).  armed    *)
(* is the one detail of it that decides whether a quote is staged.         *)
(*                                                                         *)
(* Handlers run to completion on one event loop; run is the one at work.   *)
(* A crash may come between any two steps: memory is lost, the inbox and   *)
(* the last checkpoint stay.                                               *)
(*                                                                         *)
(* An operator whose comment starts with "Fault:" is not part of the model *)
(* but a plausible bug in the definition after it.                         *)
(***************************************************************************)
EXTENDS Integers, Sequences

CONSTANTS
  Events,    \* events the relay, the clock and the operator may deliver, again and again
  Quotes,    \* the quotes among them: staged only when they can fill an order
  Arming,    \* events that leave an order working which the next quote would fill
  MaxNotes,  \* bound: changes made outside an event
  Faults     \* what may happen besides the normal run, see AllFaults

AllFaults == {
  "crash",   \* the process dies and is started again
  "save",    \* a checkpoint cannot be written
  "begin",   \* an event cannot be staged: begin_event raises
  "nested",  \* a handler checkpoints before its end: session boundary, flattening directive
  "orders",  \* orders appear and end outside events: operator orders, late fills at startup
  "escape"}  \* an exception leaves a handler half way; the event bus logs it and goes on

ASSUME EventsAssumption == Quotes \subseteq Events /\ Arming \subseteq Events
ASSUME NotesAssumption  == MaxNotes \in Nat
ASSUME FaultsAssumption == Faults \subseteq AllFaults

VARIABLES
  inbox,     \* table processed_events, in the order staged
  disk,      \* the runtime checkpoint: log, notes and armed as last saved
  log,       \* trading state: events applied
  notes,     \* trading state: changes made outside events
  armed,     \* trading state: the next quote would fill a working order
  inflight,  \* inflight_event_keys
  marked,    \* pending_processed_events: applied, their checkpoint failed
  run,       \* the handler at work and whether its first half is applied
  boot,      \* "settle" and "replay" during startup, then "serving"
  todo,      \* startup: rows of the inbox still to replay
  promised,  \* highest note a checkpoint reported as saved
  healthy    \* persistence_healthy

vars == <<inbox, disk, log, notes, armed, inflight, marked, run, boot, todo, promised, healthy>>

-----------------------------------------------------------------------------
(* Types                                                                   *)

Row   == [ev : Events, st : {"PENDING", "COMMITTED"}]
Token == [ev : Events, whole : BOOLEAN]
State == [log : Seq(Token), notes : 0 .. MaxNotes, armed : BOOLEAN]
Idle  == [half |-> FALSE]
Runs  == [ev : Events, half : BOOLEAN]

TypeOK ==
  /\ inbox \in Seq(Row)
  /\ disk \in State
  /\ log \in Seq(Token)
  /\ notes \in 0 .. MaxNotes
  /\ armed \in BOOLEAN
  /\ inflight \in SUBSET Events
  /\ marked \in SUBSET Events
  /\ run \in Runs \cup {Idle}
  /\ boot \in {"settle", "replay", "serving"}
  /\ todo \in SUBSET (1 .. Len(inbox))
  /\ promised \in 0 .. MaxNotes
  /\ healthy \in BOOLEAN

-----------------------------------------------------------------------------
(* Helpers                                                                 *)

Staged(e)    == \E i \in DOMAIN inbox : inbox[i].ev = e
Committed(e) == \E i \in DOMAIN inbox : inbox[i] = [ev |-> e, st |-> "COMMITTED"]
(* Fault: the rows are counted from 0.                                     *)
PendingFromZero == {i \in 0 .. Len(inbox) - 1 : inbox[i + 1].st = "PENDING"}

Pending      == {i \in DOMAIN inbox : inbox[i].st = "PENDING"}

(* _quote_requires_write_ahead: only a quote that can fill is staged.      *)
WriteAhead(e) == e \notin Quotes \/ armed

Serving == boot = "serving" /\ run = Idle

Init ==
  /\ inbox = <<>>
  /\ disk = [log |-> <<>>, notes |-> 0, armed |-> FALSE]
  /\ log = <<>>
  /\ notes = 0
  /\ armed = FALSE
  /\ inflight = {}
  /\ marked = {}
  /\ run = Idle
  /\ boot = "serving"
  /\ todo = {}
  /\ promised = 0
  /\ healthy = TRUE

-----------------------------------------------------------------------------
(* _checkpoint_runtime                                                     *)

(* Fault: a checkpoint is never put off.                                   *)
PutOffNever(own) == FALSE

(* Inside a handler a checkpoint is put off and reported as a success ...  *)
PutOff(own) == inflight # {} /\ marked = {} /\ own = {}

(* Fault: every event in flight is marked as committed.                    *)
SavedAllInFlight(own, l, n, a) ==
  /\ disk' = [log |-> l, notes |-> n, armed |-> a]
  /\ armed' = a
  /\ inbox' = [i \in DOMAIN inbox |->
                 IF inbox[i].ev \in inflight THEN [inbox[i] EXCEPT !.st = "COMMITTED"] ELSE inbox[i]]
  /\ inflight' = {}
  /\ marked' = {}
  /\ healthy' = TRUE

(* Fault: a checkpoint that succeeds does not end the lockout.             *)
SavedStillLockedOut(own, l, n, a) ==
  LET done == marked \cup own IN
  /\ disk' = [log |-> l, notes |-> n, armed |-> a]
  /\ armed' = a
  /\ inbox' = [i \in DOMAIN inbox |->
                 IF inbox[i].ev \in done THEN [inbox[i] EXCEPT !.st = "COMMITTED"] ELSE inbox[i]]
  /\ inflight' = inflight \ done
  /\ marked' = {}
  /\ UNCHANGED healthy

(* ... otherwise the state and the marks of the applied events (own is the *)
(* handler's event, marked what earlier failures left) are one transaction.*)
Saved(own, l, n, a) ==
  LET done == marked \cup own IN
  /\ disk' = [log |-> l, notes |-> n, armed |-> a]
  /\ armed' = a
  /\ inbox' = [i \in DOMAIN inbox |->
                 IF inbox[i].ev \in done THEN [inbox[i] EXCEPT !.st = "COMMITTED"] ELSE inbox[i]]
  /\ inflight' = inflight \ done
  /\ marked' = {}
  /\ healthy' = TRUE

(* Fault: the marks are cleared although the transaction failed.           *)
NotSavedButForgotten(own, a) ==
  /\ "save" \in Faults
  /\ marked' = {}
  /\ healthy' = FALSE
  /\ armed' \in {a, FALSE}
  /\ UNCHANGED <<inbox, disk, inflight>>

(* A failure keeps the marks for the next checkpoint, locks entries out    *)
(* and cancels the working orders that would open a position.              *)
NotSaved(own, a) ==
  /\ "save" \in Faults
  /\ marked' = marked \cup own
  /\ healthy' = FALSE
  /\ armed' \in {a, FALSE}
  /\ UNCHANGED <<inbox, disk, inflight>>

(* The whole routine: l, n and a are the state to save, ok is its result.  *)
Checkpoint(own, l, n, a, ok) ==
  /\ log' = l
  /\ notes' = n
  /\ IF PutOff(own)
       THEN ok /\ armed' = a /\ UNCHANGED <<inbox, disk, inflight, marked, healthy>>
       ELSE IF ok THEN Saved(own, l, n, a) ELSE NotSaved(own, a)

-----------------------------------------------------------------------------
(* Event handlers                                                          *)

(* Fault: an event whose checkpoint is still owed is handled again.        *)
BeginAgain(e) ==
  /\ WriteAhead(e)
  /\ ~Committed(e)
  /\ inbox' = IF Staged(e) THEN inbox ELSE Append(inbox, [ev |-> e, st |-> "PENDING"])
  /\ inflight' = inflight \cup {e}
  /\ run' = [ev |-> e, half |-> FALSE]
  /\ UNCHANGED <<disk, log, notes, armed, marked, boot, todo, promised, healthy>>

(* _begin_durable_event: an event in flight or committed is refused, any   *)
(* other is in the inbox before it may change anything.                    *)
Begin(e) ==
  /\ WriteAhead(e)
  /\ e \notin inflight
  /\ ~Committed(e)
  /\ inbox' = IF Staged(e) THEN inbox ELSE Append(inbox, [ev |-> e, st |-> "PENDING"])
  /\ inflight' = inflight \cup {e}
  /\ run' = [ev |-> e, half |-> FALSE]
  /\ UNCHANGED <<disk, log, notes, armed, marked, boot, todo, promised, healthy>>

Deliver(e) == Serving /\ Begin(e)

(* begin_event raised: the event is dropped before it changed anything.    *)
NotBegun(e) ==
  /\ "begin" \in Faults
  /\ WriteAhead(e)
  /\ e \notin inflight
  /\ healthy' = FALSE
  /\ UNCHANGED <<inbox, disk, log, notes, armed, inflight, marked, run, boot, promised>>

DropEvent(e) == Serving /\ NotBegun(e) /\ UNCHANGED todo

(* The handler has applied its first half and checkpoints, as the session  *)
(* boundary and the flattening directive do inside the bar handler.        *)
NestedCheckpoint(ok) ==
  /\ "nested" \in Faults
  /\ run # Idle
  /\ ~run.half
  /\ Checkpoint({}, Append(log, [ev |-> run.ev, whole |-> FALSE]), notes, armed, ok)
  /\ run' = [run EXCEPT !.half = TRUE]
  /\ UNCHANGED <<boot, todo, promised>>

(* The log with the running event applied to its end.                      *)
Applied == [i \in 1 .. IF run.half THEN Len(log) ELSE Len(log) + 1 |->
              IF i = Len(log) + 1 \/ (run.half /\ i = Len(log))
                THEN [ev |-> run.ev, whole |-> TRUE] ELSE log[i]]

ArmedAfter(e) == e \in Arming \/ (armed /\ e \notin Quotes)

(* Fault: the checkpoint does not name the handler's event.                *)
FinishUnmarked(ok) ==
  /\ run # Idle
  /\ Checkpoint({}, Applied, notes, ArmedAfter(run.ev), ok)
  /\ run' = Idle
  /\ todo' = IF ok THEN {i \in todo : inbox[i].ev # run.ev} ELSE todo
  /\ UNCHANGED <<boot, promised>>

(* The rest of the handler, and its checkpoint with the event's key.  At   *)
(* startup an event that is committed is done.                             *)
Finish(ok) ==
  /\ run # Idle
  /\ Checkpoint({run.ev}, Applied, notes, ArmedAfter(run.ev), ok)
  /\ run' = Idle
  /\ todo' = IF ok THEN {i \in todo : inbox[i].ev # run.ev} ELSE todo
  /\ UNCHANGED <<boot, promised>>

(* An exception leaves the handler, with its first half applied or not.    *)
Escape ==
  /\ "escape" \in Faults
  /\ boot = "serving"
  /\ run # Idle
  /\ log' \in {log} \cup IF run.half THEN {} ELSE {Append(log, [ev |-> run.ev, whole |-> FALSE])}
  /\ run' = Idle
  /\ UNCHANGED <<inbox, disk, notes, armed, inflight, marked, boot, todo, promised, healthy>>

-----------------------------------------------------------------------------
(* Changes outside events                                                  *)

(* POST /api/orders, a VIX regime, a stop tightened by the operator, a     *)
(* late fill: the change, then a checkpoint.                               *)
Note(ok, a) ==
  /\ Serving
  /\ notes < MaxNotes
  /\ a = armed \/ "orders" \in Faults
  /\ Checkpoint({}, log, notes + 1, a, ok)
  /\ promised' = IF ok THEN notes + 1 ELSE promised
  /\ UNCHANGED <<run, boot, todo>>

(* Fault: a checkpoint that was put off counts as saved.                   *)
IntentAnyTime(ok) ==
  /\ boot = "serving"
  /\ notes < MaxNotes
  /\ Checkpoint({}, log, notes + 1, armed, ok)
  /\ promised' = IF ok THEN notes + 1 ELSE promised
  /\ UNCHANGED <<run, boot, todo>>

(* A controller (OR15, tri, overnight, day one) saves the identity of an   *)
(* order before it sends it; never while an event is in flight.            *)
Intent(ok) ==
  /\ boot = "serving"
  /\ inflight = {}
  /\ notes < MaxNotes
  /\ Checkpoint({}, log, notes + 1, armed, ok)
  /\ promised' = IF ok THEN notes + 1 ELSE promised
  /\ UNCHANGED <<run, boot, todo>>

(* Fault: the clock retries only when no event is in flight.               *)
RetryWhenNothingInFlight(ok) ==
  /\ Serving
  /\ marked # {}
  /\ inflight = {}
  /\ Checkpoint({}, log, notes, armed, ok)
  /\ UNCHANGED <<run, boot, todo, promised>>

(* _runtime_clock_loop: a checkpoint that is owed is tried every second.   *)
RetryCheckpoint(ok) ==
  /\ Serving
  /\ marked # {}
  /\ Checkpoint({}, log, notes, armed, ok)
  /\ UNCHANGED <<run, boot, todo, promised>>

-----------------------------------------------------------------------------
(* Restart                                                                 *)

(* _restore_checkpoint: the state is what was last saved, the sets of keys *)
(* are empty.                                                              *)
Restart ==
  /\ log' = disk.log
  /\ notes' = disk.notes
  /\ armed' = disk.armed
  /\ inflight' = {}
  /\ marked' = {}
  /\ run' = Idle
  /\ boot' = "settle"
  /\ todo' = {}
  /\ healthy' = TRUE
  /\ UNCHANGED <<inbox, disk, promised>>

Crash == "crash" \in Faults /\ Restart

(* _settle_broker_orders and the overnight startup run before the replay:  *)
(* the order a quote was staged for may be filled by now.                  *)
BookLateFills(ok) ==
  /\ "orders" \in Faults
  /\ boot = "settle"
  /\ armed
  /\ Checkpoint({}, log, notes, FALSE, ok)
  /\ UNCHANGED <<run, boot, todo, promised>>

(* list_pending_events                                                     *)
StartReplay ==
  /\ boot = "settle"
  /\ boot' = "replay"
  /\ todo' = Pending
  /\ UNCHANGED <<inbox, disk, log, notes, armed, inflight, marked, run, promised, healthy>>

NextRow == CHOOSE i \in todo : \A j \in todo : i <= j
Replaying == boot = "replay" /\ run = Idle /\ todo # {}

(* Fault: the newest of the pending events first.                          *)
ReplayLast == Replaying /\ Begin(inbox[CHOOSE i \in todo : \A j \in todo : j <= i].ev)

(* The handler of the oldest pending event is called again.                *)
Replay == Replaying /\ Begin(inbox[NextRow].ev)

(* A quote that can no longer fill is handled without its key, and an      *)
(* event that cannot be staged again not at all: both stay pending.        *)
ReplaySkips ==
  /\ Replaying
  /\ LET e == inbox[NextRow].ev IN
       \/ ~WriteAhead(e) /\ UNCHANGED healthy
       \/ NotBegun(e)
  /\ inbox[NextRow].ev \notin marked
  /\ todo' = todo \ {NextRow}
  /\ UNCHANGED <<inbox, disk, log, notes, armed, inflight, marked, run, boot, promised>>

(* The replayed event was applied but not committed: one more try, or the  *)
(* startup is given up.                                                    *)
ReplayRetry ==
  /\ Replaying
  /\ inbox[NextRow].ev \in marked
  /\ \/ /\ Checkpoint({}, log, notes, armed, TRUE)
        /\ todo' = todo \ {NextRow}
        /\ UNCHANGED <<run, boot, promised>>
     \/ "save" \in Faults /\ Restart

(* Fault: the relay clients are started before the replay is over.         *)
StartServingEarly ==
  /\ boot = "replay"
  /\ run = Idle
  /\ boot' = "serving"
  /\ UNCHANGED <<inbox, disk, log, notes, armed, inflight, marked, run, todo, promised, healthy>>

StartServing ==
  /\ boot = "replay"
  /\ run = Idle
  /\ todo = {}
  /\ boot' = "serving"
  /\ UNCHANGED <<inbox, disk, log, notes, armed, inflight, marked, run, todo, promised, healthy>>

-----------------------------------------------------------------------------

Handlers ==
  \/ \E e \in Events : Deliver(e) \/ DropEvent(e)
  \/ \E ok \in BOOLEAN : NestedCheckpoint(ok) \/ Finish(ok)
  \/ Escape

Outside ==
  \/ \E ok, a \in BOOLEAN : Note(ok, a)
  \/ \E ok \in BOOLEAN : Intent(ok) \/ RetryCheckpoint(ok)

Startup ==
  \/ \E ok \in BOOLEAN : BookLateFills(ok)
  \/ StartReplay
  \/ Replay
  \/ ReplaySkips
  \/ ReplayRetry
  \/ StartServing

Next == Handlers \/ Outside \/ Startup \/ Crash

Spec == Init /\ [][Next]_vars

(* A handler that has begun ends and the clock loop tries an owed          *)
(* checkpoint every second; a disk that is asked again and again some day  *)
(* takes it; and crashes do not for ever come at the same step.            *)
FairSpec ==
  /\ Spec
  /\ SF_vars(Finish(TRUE))
  /\ SF_vars(RetryCheckpoint(TRUE))
  /\ SF_vars(StartReplay)
  /\ SF_vars(Replay)
  /\ SF_vars(ReplayRetry /\ marked' = {} /\ boot' = boot)
  /\ SF_vars(StartServing)

-----------------------------------------------------------------------------
(* Safety                                                                  *)

(* A checkpoint holds whole events only, in the order they were staged,    *)
(* and the inbox says COMMITTED of exactly these: so a restart, which      *)
(* replays what is PENDING, neither loses an event nor applies one twice.  *)
CheckpointIsWhole ==
  /\ Len(disk.log) <= Len(inbox)
  /\ \A i \in DOMAIN inbox :
       IF i <= Len(disk.log)
         THEN inbox[i].st = "COMMITTED" /\ disk.log[i] = [ev |-> inbox[i].ev, whole |-> TRUE]
         ELSE inbox[i].st = "PENDING"

(* No fault makes an event be taken for done that is not: whatever the     *)
(* inbox calls COMMITTED has its whole effect in the checkpoint.           *)
NoEventLost ==
  \A i \in DOMAIN inbox : inbox[i].st = "COMMITTED" =>
    \E j \in DOMAIN disk.log : disk.log[j] = [ev |-> inbox[i].ev, whole |-> TRUE]

(* The running process has applied every event once, also one the relay    *)
(* sent again while its checkpoint was owed.                               *)
AppliedOnce == \A i, j \in DOMAIN log : log[i].ev = log[j].ev => i = j

(* What a checkpoint reported as saved is saved: a controller sends no     *)
(* order whose identity a crash could forget.                              *)
PromiseKept == promised <= disk.notes

(* When the startup ends nothing staged is left behind: what is pending is *)
(* the event at work or one whose checkpoint is owed.                      *)
NothingLeftBehind ==
  boot = "serving" => \A i \in Pending : inbox[i].ev \in inflight

-----------------------------------------------------------------------------
(* Progress                                                                *)

(* A staged event is committed in the end, whatever crashes and failed     *)
(* checkpoints come between.                                               *)
StagedIsCommitted == \A e \in Events : Staged(e) ~> Committed(e)

(* A lockout of entries that an event's checkpoint caused ends.            *)
LockoutEnds == ~healthy /\ marked # {} ~> healthy

-----------------------------------------------------------------------------
(* What the inbox implements: a durable log that a crash does not touch.   *)

StagedEvents  == [i \in DOMAIN inbox |-> inbox[i].ev]
DurableEffect == [i \in DOMAIN disk.log |->
                    IF disk.log[i].whole THEN disk.log[i].ev ELSE disk.log[i]]

Durable == INSTANCE DurableLog WITH staged <- StagedEvents, effect <- DurableEffect

DurableSpec == Durable!Spec

=============================================================================
