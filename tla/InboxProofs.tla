----------------------------- MODULE InboxProofs -----------------------------
(***************************************************************************)
(* Theorems about DurableInbox, for every set of events, any number of     *)
(* notes and every set of faults that Covered describes: with a fault that *)
(* Covered rules out a checkpoint may not be whole, or a row may be left   *)
(* behind.  NothingLost, the last of them, needs no Covered: it is about   *)
(* every set of faults.                                                    *)
(***************************************************************************)
EXTENDS DurableInbox, SequenceTheorems, WellFoundedInduction, TLAPS

(* No exception leaves a handler; no checkpoint half way through a handler *)
(* while an older one is owed; and with crashes every event is staged, and *)
(* a quote staged for an order finds the order when it is replayed.        *)
Covered ==
  /\ "escape" \notin Faults
  /\ "save" \notin Faults \/ "nested" \notin Faults
  /\ "crash" \in Faults =>
       /\ "begin" \notin Faults
       /\ Quotes = {} \/ ("save" \notin Faults /\ "orders" \notin Faults)

-----------------------------------------------------------------------------
(* The inductive invariant.  The inbox is cut in three: rows up to Done    *)
(* are in the checkpoint, rows up to Whole are applied and owed to it, and *)
(* at most the next one is at work.                                        *)

Done  == Len(disk.log)
Whole == IF run.half THEN Len(log) - 1 ELSE Len(log)

Keys(lo, hi) == {inbox[i].ev : i \in lo .. hi}

(* Every event has one row.                                                *)
Distinct == \A i, j \in 1 .. Len(inbox) : inbox[i].ev = inbox[j].ev => i = j

(* What was applied is the beginning of the inbox, whole up to Whole.      *)
Prefix == \A i \in 1 .. Len(log) : log[i].ev = inbox[i].ev /\ (log[i].whole <=> i <= Whole)
Lens   == Done <= Whole /\ Whole <= Len(log) /\ Len(log) <= Len(inbox)

(* The marks are the rows applied and not saved; besides them only the     *)
(* event at work is in flight, and it is the next row.                     *)
Owed   == marked = Keys(Done + 1, Whole)
Flying ==
  /\ run = Idle => inflight = marked
  /\ run # Idle => inflight = marked \cup {run.ev} /\ Whole < Len(inbox) /\ inbox[Whole + 1].ev = run.ev

(* While serving the inbox ends with the event at work; during the replay  *)
(* it has the rows still to do, one at a time.                             *)
AtWork == boot = "serving" => todo = {} /\ Len(inbox) = Whole + (IF run = Idle THEN 0 ELSE 1)
AtStart ==
  /\ boot = "settle" => run = Idle /\ log = disk.log
  /\ boot = "replay" =>
       /\ todo = (Done + 1) .. Len(inbox)
       /\ Len(log) <= Done + 1
       /\ run # Idle => marked = {}
NoStart == "crash" \notin Faults => boot = "serving"

Notes == promised <= disk.notes /\ disk.notes <= notes

(* Nothing is owed where no checkpoint fails; and a quote that was staged  *)
(* is staged again.                                                        *)
NoFailure == "save" \notin Faults => marked = {} /\ Len(inbox) <= Done + 1
Rearmed ==
  "crash" \in Faults /\ Quotes # {} =>
    /\ armed = disk.armed
    /\ \A i \in (Done + 1) .. Len(inbox) : inbox[i].ev \in Quotes => armed

(* No row is taken out of the inbox or renamed, and the checkpoint grows.  *)
Kept ==
  /\ Len(inbox') = Len(inbox)
  /\ \A i \in 1 .. Len(inbox) : inbox'[i].ev = inbox[i].ev
  /\ Done <= Done'

IInv ==
  /\ TypeOK /\ CheckpointIsWhole
  /\ Distinct /\ Prefix /\ Lens /\ Owed /\ Flying
  /\ AtWork /\ AtStart /\ NoStart
  /\ Notes /\ NoFailure /\ Rearmed

-----------------------------------------------------------------------------
(* Lemmas                                                                  *)

(* No handler at work is no running event.                                 *)
LEMMA IdleFacts ==
  /\ Idle \notin Runs
  /\ Idle.half = FALSE
  /\ \A e \in Events, h \in BOOLEAN :
       [ev |-> e, half |-> h] \in Runs /\ [ev |-> e, half |-> h] # Idle
  /\ \A r \in Runs : r # Idle /\ r.ev \in Events /\ r.half \in BOOLEAN
<1>1. \A r \in Runs : DOMAIN r = {"ev", "half"}
  BY DEF Runs
<1>2. DOMAIN Idle = {"half"}
  BY DEF Idle
<1>3. Idle \notin Runs
  BY <1>1, <1>2
<1>4. Idle.half = FALSE
  BY DEF Idle
<1>5. \A e \in Events, h \in BOOLEAN : [ev |-> e, half |-> h] \in Runs
  BY DEF Runs
<1>6. \A r \in Runs : r.ev \in Events /\ r.half \in BOOLEAN
  BY DEF Runs
<1> QED BY <1>3, <1>4, <1>5, <1>6

(* A handler that has applied its first half is still at work on its event. *)
LEMMA HalfWay ==
  ASSUME NEW r \in Runs, NEW s, s = [r EXCEPT !.half = TRUE]
  PROVE  s \in Runs /\ s.ev = r.ev /\ s.half = TRUE /\ s # Idle
<1>1. s \in Runs
  BY DEF Runs
<1>2. s.ev = r.ev /\ s.half = TRUE
  BY DEF Runs
<1> QED BY <1>1, <1>2, IdleFacts

(* A function on 1 .. n is a sequence of length n.                         *)
LEMMA AsSeq ==
  ASSUME NEW S, NEW n \in Nat, NEW f \in [1 .. n -> S]
  PROVE  f \in Seq(S) /\ Len(f) = n /\ DOMAIN f = 1 .. n
<1>1. f \in Seq(S)
  BY SeqDef
<1>2. DOMAIN f = 1 .. n
  OBVIOUS
<1> QED BY <1>1, <1>2, LenProperties

(* The sizes and elements of the sequences.                                *)
LEMMA Sizes ==
  ASSUME TypeOK
  PROVE  /\ Len(inbox) \in Nat /\ Len(log) \in Nat /\ Done \in Nat
         /\ DOMAIN inbox = 1 .. Len(inbox) /\ DOMAIN log = 1 .. Len(log)
         /\ DOMAIN disk.log = 1 .. Done
         /\ disk.log \in Seq(Token) /\ disk.notes \in Nat /\ disk.armed \in BOOLEAN
         /\ \A i \in 1 .. Len(inbox) : inbox[i].ev \in Events /\ inbox[i] \in Row
         /\ run.half \in BOOLEAN
         /\ run # Idle => run \in Runs
         /\ Whole \in Int
<1> USE DEF TypeOK
<1>1. disk.log \in Seq(Token) /\ disk.notes \in Nat /\ disk.armed \in BOOLEAN
  BY NotesAssumption DEF State
<1>2. run.half \in BOOLEAN /\ (run # Idle => run \in Runs)
  BY IdleFacts
<1>3. Len(inbox) \in Nat /\ DOMAIN inbox = 1 .. Len(inbox)
  BY LenProperties
<1>4. Len(log) \in Nat /\ DOMAIN log = 1 .. Len(log)
  BY LenProperties
<1>5. Done \in Nat /\ DOMAIN disk.log = 1 .. Done
  BY <1>1, LenProperties DEF Done
<1>6. \A i \in 1 .. Len(inbox) : inbox[i] \in Row
  BY ElementOfSeq
<1>7. \A i \in 1 .. Len(inbox) : inbox[i].ev \in Events
  BY <1>6 DEF Row
<1> QED BY <1>1, <1>2, <1>3, <1>4, <1>5, <1>6, <1>7 DEF Whole

(* save_checkpoint changes the state of rows, and nothing else of them.    *)
Marked(in, keys) ==
  [i \in DOMAIN in |-> IF in[i].ev \in keys THEN [in[i] EXCEPT !.st = "COMMITTED"] ELSE in[i]]

LEMMA MarkedRows ==
  ASSUME NEW in \in Seq(Row), NEW keys
  PROVE  /\ Marked(in, keys) \in Seq(Row) /\ Len(Marked(in, keys)) = Len(in)
         /\ \A i \in 1 .. Len(in) :
              /\ Marked(in, keys)[i].ev = in[i].ev
              /\ Marked(in, keys)[i].st = IF in[i].ev \in keys THEN "COMMITTED" ELSE in[i].st
<1>1. Len(in) \in Nat /\ DOMAIN in = 1 .. Len(in)
  BY LenProperties
<1>2. \A i \in 1 .. Len(in) : in[i] \in Row
  BY ElementOfSeq
<1>3. Marked(in, keys) \in [1 .. Len(in) -> Row]
  BY <1>1, <1>2 DEF Row, Marked
<1>4. \A i \in 1 .. Len(in) :
              /\ Marked(in, keys)[i].ev = in[i].ev
              /\ Marked(in, keys)[i].st = IF in[i].ev \in keys THEN "COMMITTED" ELSE in[i].st
  BY <1>1, <1>2 DEF Row, Marked
<1> QED BY <1>1, <1>3, <1>4, AsSeq

(* begin_event appends a row.                                              *)
LEMMA AppendedRow ==
  ASSUME NEW in \in Seq(Row), NEW e \in Events, NEW out,
         out = Append(in, [ev |-> e, st |-> "PENDING"])
  PROVE  /\ out \in Seq(Row) /\ Len(out) = Len(in) + 1
         /\ out[Len(in) + 1].ev = e /\ out[Len(in) + 1].st = "PENDING"
         /\ \A i \in 1 .. Len(in) : out[i] = in[i]
<1> DEFINE row == [ev |-> e, st |-> "PENDING"]
<1>1. row \in Row
  BY DEF Row
<1>2. row.ev = e /\ row.st = "PENDING"
  OBVIOUS
<1> HIDE DEF row
<1>3. out = Append(in, row)
  BY DEF row
<1>4. out \in Seq(Row) /\ Len(out) = Len(in) + 1 /\ out[Len(in) + 1] = row
      /\ \A i \in 1 .. Len(in) : out[i] = in[i]
  BY <1>1, <1>3, AppendProperties
<1> QED BY <1>2, <1>4

(* At the end of a handler its event is applied whole at the end.          *)
LEMMA AppliedLog ==
  ASSUME IInv, run # Idle
  PROVE  /\ Applied \in Seq(Token) /\ Len(Applied) = Whole + 1
         /\ \A i \in 1 .. Whole + 1 : Applied[i].ev = inbox[i].ev /\ Applied[i].whole
<1> USE DEF IInv
<1>1. Whole \in Nat /\ Whole < Len(inbox) /\ inbox[Whole + 1].ev = run.ev
  BY Sizes DEF Lens, Flying
<1>2. run \in Runs /\ run.ev \in Events
  BY Sizes, IdleFacts
<1>3. \A i \in 1 .. Len(log) : log[i] \in Token
  BY ElementOfSeq DEF TypeOK
<1>4. (IF run.half THEN Len(log) ELSE Len(log) + 1) = Whole + 1
  BY Sizes DEF Whole
<1>5. Applied = [i \in 1 .. Whole + 1 |-> IF i = Whole + 1 THEN [ev |-> run.ev, whole |-> TRUE] ELSE log[i]]
  BY <1>1, <1>4, Sizes DEF Applied, Whole
<1>6. \A i \in 1 .. Whole + 1 : Applied[i] \in Token
  BY <1>1, <1>2, <1>3, <1>5 DEF Token, Lens
<1>7. Applied \in [1 .. Whole + 1 -> Token]
  BY <1>5, <1>6
<1>8. \A i \in 1 .. Whole + 1 : Applied[i].ev = inbox[i].ev /\ Applied[i].whole
  <2> TAKE i \in 1 .. Whole + 1
  <2>1. CASE i = Whole + 1
    BY <2>1, <1>1, <1>5
  <2>2. CASE i # Whole + 1
    <3>1. i \in 1 .. Len(log) /\ i <= Whole
      BY <2>2, <1>1, Sizes DEF Lens
    <3> QED BY <3>1, <2>2, <1>5 DEF Prefix
  <2> QED BY <2>1, <2>2
<1> QED BY <1>1, <1>7, <1>8, AsSeq

-----------------------------------------------------------------------------
(* The two ways a checkpoint ends.                                         *)

(* A token is what its fields say.                                         *)
LEMMA WholeToken ==
  ASSUME NEW t \in Token, NEW e, t.ev = e, t.whole
  PROVE  t = [ev |-> e, whole |-> TRUE]
BY DEF Token

(* Saved: the rows up to the end of the log are in the checkpoint, nothing *)
(* is owed and nobody is at work.                                          *)
LEMMA AfterSave ==
  ASSUME IInv,
         inbox' \in Seq(Row), Len(inbox') = Len(inbox),
         \A i \in 1 .. Len(inbox) :
           /\ inbox'[i].ev = inbox[i].ev
           /\ inbox'[i].st = IF i <= Len(log') THEN "COMMITTED" ELSE "PENDING",
         log' \in Seq(Token), Len(log') \in Done .. Len(inbox),
         \A i \in 1 .. Len(log') : log'[i].ev = inbox[i].ev /\ log'[i].whole,
         disk' = [log |-> log', notes |-> notes', armed |-> armed'],
         notes' \in notes .. MaxNotes, armed' \in BOOLEAN, promised' \in promised .. notes',
         marked' = {}, inflight' = {}, run' = Idle, boot' = boot, healthy' \in BOOLEAN,
         boot = "serving" => todo' = {} /\ Len(log') = Len(inbox),
         boot = "settle" => todo' = todo,
         boot = "replay" => todo' = (Len(log') + 1) .. Len(inbox),
         "crash" \in Faults /\ Quotes # {} =>
           \A i \in (Len(log') + 1) .. Len(inbox) : inbox[i].ev \in Quotes => armed'
  PROVE  IInv' /\ Kept
<1> USE DEF IInv
<1>0. /\ Len(inbox) \in Nat /\ Done \in Nat /\ notes \in 0 .. MaxNotes /\ promised \in 0 .. MaxNotes
      /\ boot \in {"settle", "replay", "serving"}
  BY Sizes DEF TypeOK
<1>1. disk'.log = log' /\ disk'.notes = notes' /\ disk'.armed = armed' /\ Done' = Len(log')
  BY DEF Done
<1>2. Len(log') \in Nat /\ notes' \in 0 .. MaxNotes /\ promised' \in 0 .. MaxNotes
  BY <1>0, NotesAssumption
<1>3. Whole' = Len(log') /\ run'.half = FALSE
  BY IdleFacts DEF Whole
<1>4. disk' \in State
  BY <1>2 DEF State
<1>5. todo' \in SUBSET (1 .. Len(inbox'))
  <2>1. todo \in SUBSET (1 .. Len(inbox))
    BY DEF TypeOK
  <2>2. (Len(log') + 1) .. Len(inbox) \subseteq 1 .. Len(inbox)
    BY <1>0, <1>2
  <2> QED BY <2>1, <2>2, <1>0
<1>6. TypeOK'
  BY <1>0, <1>2, <1>4, <1>5 DEF TypeOK
<1>7. DOMAIN inbox' = 1 .. Len(inbox)
  BY LenProperties
<1>8. CheckpointIsWhole'
  <2>1. \A i \in 1 .. Len(log') : log'[i] \in Token
    BY ElementOfSeq
  <2>2. \A i \in 1 .. Len(log') : log'[i] = [ev |-> inbox'[i].ev, whole |-> TRUE]
    <3> TAKE i \in 1 .. Len(log')
    <3>1. log'[i].ev = inbox'[i].ev /\ log'[i].whole
      BY <1>0
    <3> QED BY <2>1, <3>1, WholeToken
  <2> QED BY <2>2, <1>0, <1>1, <1>2, <1>7 DEF CheckpointIsWhole
<1>9. Distinct' /\ Prefix' /\ Lens'
  BY <1>0, <1>1, <1>2, <1>3 DEF Distinct, Prefix, Lens
<1>10. Owed' /\ Flying'
  BY <1>0, <1>1, <1>2, <1>3 DEF Owed, Flying, Keys
<1>11. AtWork' /\ AtStart' /\ NoStart'
  BY <1>0, <1>1, <1>2, <1>3 DEF AtWork, AtStart, NoStart
<1>12. Notes'
  BY <1>0, <1>1, <1>2 DEF Notes
<1>13. NoFailure'
  BY <1>0, <1>1, <1>2 DEF NoFailure
<1>14. Rearmed'
  BY <1>0, <1>1, <1>2 DEF Rearmed
<1>15. Kept
  BY <1>0, <1>1, <1>2 DEF Kept
<1> QED BY <1>15, <1>6, <1>8, <1>9, <1>10, <1>11, <1>12, <1>13, <1>14

(* Not saved: what was applied is owed, the rows and the checkpoint stay.  *)
LEMMA AfterFailure ==
  ASSUME IInv, Covered, "save" \in Faults,
         inbox' = inbox, disk' = disk,
         log' \in Seq(Token), Len(log') \in Whole .. Len(inbox),
         \A i \in 1 .. Len(log') : log'[i].ev = inbox[i].ev /\ log'[i].whole,
         notes' \in notes .. MaxNotes, armed' \in BOOLEAN, promised' = promised,
         marked' = Keys(Done + 1, Len(log')), inflight' = marked',
         run' = Idle, boot' = boot, todo' = todo, healthy' \in BOOLEAN,
         boot = "serving" => Len(log') = Len(inbox),
         boot = "settle" => log' = log,
         boot = "replay" => Len(log') <= Done + 1
  PROVE  IInv' /\ Kept
<1> USE DEF IInv
<1>0. /\ Len(inbox) \in Nat /\ Done \in Nat /\ notes \in 0 .. MaxNotes /\ promised \in 0 .. MaxNotes
      /\ boot \in {"settle", "replay", "serving"} /\ Whole \in Int /\ disk.notes \in Nat
      /\ \A i \in 1 .. Len(inbox) : inbox[i].ev \in Events
  BY Sizes DEF TypeOK
<1>1. Done' = Done
  BY DEF Done
<1>2. Len(log') \in Nat /\ notes' \in 0 .. MaxNotes
  BY <1>0, NotesAssumption DEF Lens
<1>3. Whole' = Len(log') /\ run'.half = FALSE
  BY IdleFacts DEF Whole
<1>4. marked' \in SUBSET Events
  BY <1>0, <1>2 DEF Keys, Lens
<1>6. TypeOK'
  BY <1>0, <1>2, <1>4 DEF TypeOK
<1>8. CheckpointIsWhole'
  BY DEF CheckpointIsWhole
<1>9. Distinct' /\ Prefix' /\ Lens'
  BY <1>0, <1>1, <1>2, <1>3 DEF Distinct, Prefix, Lens
<1>10. Owed' /\ Flying'
  BY <1>0, <1>1, <1>2, <1>3 DEF Owed, Flying, Keys
<1>11. AtWork' /\ AtStart' /\ NoStart'
  BY <1>0, <1>1, <1>2, <1>3 DEF AtWork, AtStart, NoStart
<1>12. Notes'
  BY <1>0, <1>1, <1>2 DEF Notes
<1>13. NoFailure'
  BY DEF NoFailure
<1>14. Rearmed'
  BY DEF Rearmed, Covered
<1>15. Kept
  BY <1>0, <1>1, <1>2 DEF Kept
<1> QED BY <1>15, <1>6, <1>8, <1>9, <1>10, <1>11, <1>12, <1>13, <1>14

-----------------------------------------------------------------------------
(* The actions                                                             *)

(* A checkpoint outside a handler: with nobody at work it is never put off *)
(* while something is in flight, for what is in flight is owed.            *)
LEMMA PlainKeeps ==
  ASSUME IInv, Covered, run = Idle,
         NEW n \in notes .. MaxNotes, NEW a \in BOOLEAN, NEW ok \in BOOLEAN,
         Checkpoint({}, log, n, a, ok),
         run' = run, boot' = boot,
         promised' = promised \/ (ok /\ promised' = n),
         boot \in {"serving", "settle"} => todo' = todo,
         boot = "settle" => "orders" \in Faults,
         boot = "replay" => ok /\ "save" \in Faults /\ todo' = (Len(log) + 1) .. Len(inbox)
  PROVE  IInv' /\ Kept
<1> USE DEF IInv
<1>0. /\ Len(inbox) \in Nat /\ Len(log) \in Nat /\ Done \in Nat
      /\ boot \in {"settle", "replay", "serving"} /\ DOMAIN inbox = 1 .. Len(inbox)
      /\ notes \in 0 .. MaxNotes /\ promised \in 0 .. MaxNotes /\ promised <= notes
  BY Sizes DEF TypeOK, Notes
<1>1. inflight = marked /\ Whole = Len(log)
  BY IdleFacts DEF Flying, Whole
<1>2. ~PutOff({})
  BY <1>1 DEF PutOff
<1>3. log' = log /\ notes' = n /\ (IF ok THEN Saved({}, log, n, a) ELSE NotSaved({}, a))
  BY <1>2 DEF Checkpoint
<1>4. \A i \in 1 .. Len(log) : log[i].ev = inbox[i].ev /\ log[i].whole
  BY <1>0, <1>1 DEF Prefix
<1>5. Done <= Len(log) /\ Len(log) <= Len(inbox)
  BY <1>1 DEF Lens
<1>6. boot = "serving" => todo = {} /\ Len(log) = Len(inbox)
  BY <1>1, <1>0 DEF AtWork
<1>7. CASE ok
  <2>1. Saved({}, log, n, a)
    BY <1>3, <1>7
  <2>2. /\ disk' = [log |-> log', notes |-> notes', armed |-> armed'] /\ armed' = a
        /\ inflight' = {} /\ marked' = {} /\ healthy' = TRUE
    BY <2>1, <1>1, <1>3 DEF Saved
  <2>3. inbox' = Marked(inbox, marked)
    BY <2>1 DEF Saved, Marked
  <2>4. /\ inbox' \in Seq(Row) /\ Len(inbox') = Len(inbox)
        /\ \A i \in 1 .. Len(inbox) :
             /\ inbox'[i].ev = inbox[i].ev
             /\ inbox'[i].st = IF inbox[i].ev \in marked THEN "COMMITTED" ELSE inbox[i].st
    <3>1. inbox \in Seq(Row)
      BY DEF TypeOK
    <3> QED BY <2>3, <3>1, MarkedRows
  <2>5. \A i \in 1 .. Len(inbox) : inbox[i].ev \in marked <=> i \in (Done + 1) .. Len(log)
    BY <1>0, <1>1, <1>5 DEF Owed, Keys, Distinct
  <2>6. \A i \in 1 .. Len(inbox) : inbox[i].st = IF i <= Done THEN "COMMITTED" ELSE "PENDING"
    BY <1>0 DEF CheckpointIsWhole, Done
  <2>7. \A i \in 1 .. Len(inbox) : inbox'[i].st = IF i <= Len(log') THEN "COMMITTED" ELSE "PENDING"
    BY <2>4, <2>5, <2>6, <1>0, <1>3, <1>5
  <2>8. log' \in Seq(Token) /\ notes' \in notes .. MaxNotes /\ promised' \in promised .. notes'
    BY <1>0, <1>3, NotesAssumption DEF TypeOK
  <2>9. "crash" \in Faults /\ Quotes # {} =>
          \A i \in (Len(log') + 1) .. Len(inbox) : inbox[i].ev \in Quotes => armed'
    BY <1>0, <1>3, <1>6 DEF Covered
  <2> QED BY <2>2, <2>4, <2>7, <2>8, <2>9, <1>0, <1>3, <1>4, <1>5, <1>6, AfterSave
<1>8. CASE ~ok
  <2>1. NotSaved({}, a)
    BY <1>3, <1>8
  <2>2. /\ "save" \in Faults /\ marked' = marked /\ inflight' = marked' /\ armed' \in BOOLEAN
        /\ healthy' = FALSE /\ inbox' = inbox /\ disk' = disk
    BY <2>1, <1>1 DEF NotSaved
  <2>3. marked' = Keys(Done + 1, Len(log'))
    BY <2>2, <1>1, <1>3 DEF Owed
  <2>4. log' \in Seq(Token) /\ notes' \in notes .. MaxNotes /\ promised' = promised /\ todo' = todo
    BY <1>0, <1>3, <1>8 DEF TypeOK
  <2>5. /\ Len(log') \in Whole .. Len(inbox)
        /\ \A i \in 1 .. Len(log') : log'[i].ev = inbox[i].ev /\ log'[i].whole
        /\ boot = "serving" => Len(log') = Len(inbox)
        /\ boot = "settle" => log' = log
        /\ boot # "replay"
    BY <1>0, <1>1, <1>3, <1>4, <1>5, <1>6, <1>8
  <2> QED BY <2>2, <2>3, <2>4, <2>5, <1>8, AfterFailure
<1> QED BY <1>7, <1>8

(* The end of a handler.                                                   *)
LEMMA FinishKeeps ==
  ASSUME IInv, Covered, NEW ok \in BOOLEAN, Finish(ok)
  PROVE  IInv' /\ Kept
<1> USE DEF IInv
<1>0. /\ Len(inbox) \in Nat /\ Len(log) \in Nat /\ Done \in Nat
      /\ boot \in {"settle", "replay", "serving"} /\ DOMAIN inbox = 1 .. Len(inbox)
      /\ notes \in 0 .. MaxNotes /\ promised \in 0 .. MaxNotes /\ promised <= notes
  BY Sizes DEF TypeOK, Notes
<1>1. /\ run # Idle /\ run' = Idle /\ boot' = boot /\ promised' = promised
      /\ Checkpoint({run.ev}, Applied, notes, ArmedAfter(run.ev), ok)
      /\ todo' = IF ok THEN {i \in todo : inbox[i].ev # run.ev} ELSE todo
  BY DEF Finish
<1>2. /\ Whole \in Nat /\ Whole + 1 <= Len(inbox) /\ Done <= Whole
      /\ inflight = marked \cup {run.ev} /\ inbox[Whole + 1].ev = run.ev
  BY <1>0, <1>1, Sizes DEF Flying, Lens
<1>3. /\ log' = Applied /\ notes' = notes
      /\ IF ok THEN Saved({run.ev}, Applied, notes, ArmedAfter(run.ev))
               ELSE NotSaved({run.ev}, ArmedAfter(run.ev))
  BY <1>1 DEF Checkpoint, PutOff
<1>4. /\ log' \in Seq(Token) /\ Len(log') = Whole + 1
      /\ \A i \in 1 .. Len(log') : log'[i].ev = inbox[i].ev /\ log'[i].whole
  BY <1>1, <1>2, <1>3, AppliedLog
<1>5. boot # "settle"
  BY <1>1 DEF AtStart
<1>6. boot = "serving" => todo = {} /\ Whole + 1 = Len(inbox)
  BY <1>1, <1>0 DEF AtWork
<1>7. marked \cup {run.ev} = Keys(Done + 1, Whole + 1)
  <2>1. marked = Keys(Done + 1, Whole)
    BY DEF Owed
  <2>2. (Done + 1) .. (Whole + 1) = ((Done + 1) .. Whole) \cup {Whole + 1}
    BY <1>0, <1>2
  <2> QED BY <2>1, <2>2, <1>2 DEF Keys
<1>8. ArmedAfter(run.ev) \in BOOLEAN
  BY DEF ArmedAfter, TypeOK
<1>9. boot = "replay" => marked = {} /\ Whole = Done /\ todo = (Done + 1) .. Len(inbox)
  <2>1. boot = "replay" => marked = {} /\ todo = (Done + 1) .. Len(inbox)
    BY <1>1 DEF AtStart
  <2>2. marked = {} => Whole = Done
    <3>1. SUFFICES ASSUME Whole > Done PROVE marked # {}
      BY <1>0, <1>2
    <3>2. inbox[Done + 1].ev \in marked
      BY <3>1, <1>0, <1>2 DEF Owed, Keys
    <3> QED BY <3>2
  <2> QED BY <2>1, <2>2
<1>10. CASE ok
  <2>1. Saved({run.ev}, Applied, notes, ArmedAfter(run.ev))
    BY <1>3, <1>10
  <2>2. /\ disk' = [log |-> log', notes |-> notes', armed |-> armed'] /\ armed' \in BOOLEAN
        /\ inflight' = {} /\ marked' = {} /\ healthy' = TRUE
    BY <2>1, <1>2, <1>3, <1>8 DEF Saved
  <2>12. PICK keys : keys = marked \cup {run.ev}
    OBVIOUS
  <2>3. inbox' = Marked(inbox, keys)
    BY <2>1, <2>12 DEF Saved, Marked
  <2>5. \A i \in 1 .. Len(inbox) : inbox[i].ev \in keys <=> i \in (Done + 1) .. (Whole + 1)
    BY <1>0, <1>2, <1>7, <2>12 DEF Keys, Distinct
  <2>4. /\ inbox' \in Seq(Row) /\ Len(inbox') = Len(inbox)
        /\ \A i \in 1 .. Len(inbox) :
             /\ inbox'[i].ev = inbox[i].ev
             /\ inbox'[i].st = IF inbox[i].ev \in keys THEN "COMMITTED" ELSE inbox[i].st
    <3>1. inbox \in Seq(Row)
      BY DEF TypeOK
    <3> HIDE DEF IInv
    <3> QED BY <2>3, <3>1, MarkedRows
  <2>6. \A i \in 1 .. Len(inbox) : inbox[i].st = IF i <= Done THEN "COMMITTED" ELSE "PENDING"
    BY <1>0 DEF CheckpointIsWhole, Done
  <2>7. \A i \in 1 .. Len(inbox) : inbox'[i].st = IF i <= Len(log') THEN "COMMITTED" ELSE "PENDING"
    BY <2>4, <2>5, <2>6, <1>0, <1>2, <1>4
  <2>8. notes' \in notes .. MaxNotes /\ promised' \in promised .. notes'
    BY <1>0, <1>1, <1>3, NotesAssumption
  <2>9. "crash" \in Faults /\ Quotes # {} =>
          \A i \in (Len(log') + 1) .. Len(inbox) : inbox[i].ev \in Quotes => armed'
    <3>1. "crash" \in Faults /\ Quotes # {} => Len(inbox) <= Done + 1
      BY DEF Covered, NoFailure
    <3> QED BY <3>1, <1>0, <1>2, <1>4
  <2>10. boot = "replay" => todo' = (Len(log') + 1) .. Len(inbox)
    <3> SUFFICES ASSUME boot = "replay" PROVE todo' = (Len(log') + 1) .. Len(inbox)
      OBVIOUS
    <3>1. todo' = {i \in (Done + 1) .. Len(inbox) : inbox[i].ev # run.ev}
      BY <1>1, <1>9, <1>10
    <3>2. \A i \in (Done + 1) .. Len(inbox) : inbox[i].ev # run.ev <=> i # Done + 1
      BY <1>0, <1>2, <1>9 DEF Distinct
    <3> QED BY <3>1, <3>2, <1>0, <1>4, <1>9
  <2>11. boot = "serving" => todo' = {} /\ Len(log') = Len(inbox)
    BY <1>1, <1>4, <1>6
  <2>13. Len(log') \in Done .. Len(inbox)
    BY <1>0, <1>2, <1>4
  <2> QED BY <2>2, <2>4, <2>7, <2>8, <2>9, <2>10, <2>11, <2>13, <1>1, <1>4, <1>5, AfterSave
<1>11. CASE ~ok
  <2>1. NotSaved({run.ev}, ArmedAfter(run.ev))
    BY <1>3, <1>11
  <2>2. /\ "save" \in Faults /\ marked' = marked \cup {run.ev} /\ inflight' = marked' /\ armed' \in BOOLEAN
        /\ healthy' = FALSE /\ inbox' = inbox /\ disk' = disk
    BY <2>1, <1>2, <1>8 DEF NotSaved
  <2>3. marked' = Keys(Done + 1, Len(log'))
    BY <2>2, <1>4, <1>7
  <2>4. notes' \in notes .. MaxNotes /\ todo' = todo
    BY <1>0, <1>1, <1>3, <1>11
  <2>5. /\ Len(log') \in Whole .. Len(inbox)
        /\ boot = "serving" => Len(log') = Len(inbox)
        /\ boot = "replay" => Len(log') <= Done + 1
    <3>1. Len(log') = Whole + 1
      BY <1>4
    <3>2. Len(log') \in Whole .. Len(inbox)
      BY <3>1, <1>0, <1>2
    <3>3. boot = "serving" => Len(log') = Len(inbox)
      BY <3>1, <1>6
    <3>4. boot = "replay" => Len(log') <= Done + 1
      BY <3>1, <1>0, <1>9
    <3> QED BY <3>2, <3>3, <3>4
  <2>6. run' = Idle /\ boot' = boot /\ promised' = promised /\ healthy' \in BOOLEAN
    BY <2>2, <1>1
  <2> HIDE DEF IInv
  <2> QED BY <2>2, <2>3, <2>4, <2>5, <2>6, <1>4, <1>5, AfterFailure
<1> QED BY <1>10, <1>11

(* A new event is staged behind the others.                                *)
LEMMA DeliverKeeps ==
  ASSUME IInv, Covered, NEW e \in Events, Deliver(e)
  PROVE  /\ IInv'
         /\ \A i \in 1 .. Len(inbox) : inbox[i].ev # e
         /\ inbox' = Append(inbox, [ev |-> e, st |-> "PENDING"])
<1> USE DEF IInv
<1>0. /\ Len(inbox) \in Nat /\ Len(log) \in Nat /\ Done \in Nat /\ DOMAIN inbox = 1 .. Len(inbox)
  BY Sizes
<1>1. boot = "serving" /\ run = Idle /\ e \notin inflight /\ ~Committed(e)
  BY DEF Deliver, Serving, Begin
<1>2. /\ inflight' = inflight \cup {e} /\ run' = [ev |-> e, half |-> FALSE]
      /\ inbox' = IF Staged(e) THEN inbox ELSE Append(inbox, [ev |-> e, st |-> "PENDING"])
      /\ UNCHANGED <<disk, log, notes, armed, marked, boot, todo, promised, healthy>>
  BY DEF Deliver, Begin
<1>3. Whole = Len(log) /\ inflight = marked /\ Len(inbox) = Len(log) /\ todo = {}
  BY <1>0, <1>1, IdleFacts DEF Whole, Flying, AtWork
<1>4. \A i \in 1 .. Len(inbox) : inbox[i].ev # e
  <2> SUFFICES ASSUME NEW i \in 1 .. Len(inbox), inbox[i].ev = e PROVE FALSE
    OBVIOUS
  <2>1. CASE i <= Done
    <3>1. inbox[i].st = "COMMITTED"
      BY <2>1, <1>0 DEF CheckpointIsWhole, Done
    <3>2. inbox[i] = [ev |-> e, st |-> "COMMITTED"]
      BY <3>1, Sizes DEF Row
    <3> QED BY <3>2, <1>0, <1>1 DEF Committed
  <2>2. CASE i > Done
    <3>1. i \in (Done + 1) .. Whole
      BY <2>2, <1>0, <1>3
    <3> QED BY <3>1, <1>1, <1>3 DEF Owed, Keys
  <2> QED BY <2>1, <2>2, <1>0
<1>5. inbox' = Append(inbox, [ev |-> e, st |-> "PENDING"])
  BY <1>0, <1>2, <1>4 DEF Staged
<1>6. /\ inbox' \in Seq(Row) /\ Len(inbox') = Len(inbox) + 1
      /\ inbox'[Len(inbox) + 1].ev = e /\ inbox'[Len(inbox) + 1].st = "PENDING"
      /\ \A i \in 1 .. Len(inbox) : inbox'[i] = inbox[i]
  <2>1. inbox \in Seq(Row)
    BY DEF TypeOK
  <2> QED BY <2>1, <1>5, AppendedRow
<1>7. run' \in Runs /\ run' # Idle /\ run'.ev = e /\ run'.half = FALSE
  BY <1>2, IdleFacts
<1>8. Done' = Done /\ Whole' = Whole /\ Len(log') = Len(log)
  BY <1>2, <1>3, <1>7 DEF Done, Whole
<1>9. TypeOK'
  <2>1. inflight' \in SUBSET Events /\ todo' \in SUBSET (1 .. Len(inbox'))
    BY <1>2, <1>3 DEF TypeOK
  <2> QED BY <2>1, <1>2, <1>6, <1>7 DEF TypeOK
<1>10. CheckpointIsWhole'
  <2>1. DOMAIN inbox' = 1 .. Len(inbox) + 1
    BY <1>6, LenProperties
  <2> QED BY <2>1, <1>0, <1>2, <1>3, <1>6 DEF CheckpointIsWhole, Lens, Done
<1>11. Distinct'
  BY <1>0, <1>4, <1>6 DEF Distinct
<1>12. Prefix' /\ Lens'
  BY <1>0, <1>2, <1>3, <1>6, <1>8 DEF Prefix, Lens
<1>13. Owed'
  BY <1>0, <1>2, <1>3, <1>6, <1>8 DEF Owed, Keys, Lens
<1>14. Flying'
  BY <1>0, <1>2, <1>3, <1>6, <1>7, <1>8 DEF Flying
<1>15. AtWork' /\ AtStart' /\ NoStart'
  BY <1>0, <1>1, <1>2, <1>3, <1>6, <1>7, <1>8 DEF AtWork, AtStart, NoStart
<1>16. Notes'
  BY <1>2 DEF Notes
<1>17. NoFailure'
  <2>1. "save" \notin Faults => Len(inbox) <= Done
    <3>1. marked = {} => Whole <= Done
      <4> SUFFICES ASSUME Whole > Done PROVE marked # {}
        BY <1>0, <1>3
      <4>1. inbox[Done + 1].ev \in marked
        BY <1>0, <1>3 DEF Owed, Keys
      <4> QED BY <4>1
    <3> QED BY <3>1, <1>3 DEF NoFailure
  <2> QED BY <2>1, <1>0, <1>2, <1>6, <1>8 DEF NoFailure
<1>18. Rearmed'
  <2>1. e \in Quotes => armed
    BY DEF Deliver, Begin, WriteAhead
  <2>2. \A i \in (Done' + 1) .. Len(inbox') : i \in (Done + 1) .. Len(inbox) \/ i = Len(inbox) + 1
    BY <1>0, <1>6, <1>8
  <2>3. Done \in Nat
    BY <1>0
  <2>4. \A i \in (Done + 1) .. Len(inbox) : inbox'[i].ev = inbox[i].ev
    BY <1>6, <1>0
  <2> QED BY <2>1, <2>2, <2>4, <1>2, <1>6 DEF Rearmed
<1> QED BY <1>4, <1>5, <1>9, <1>10, <1>11, <1>12, <1>13, <1>14, <1>15, <1>16, <1>17, <1>18

(* The oldest row to replay is the first one that is not in the checkpoint. *)
LEMMA FirstRow ==
  ASSUME IInv, Replaying
  PROVE  /\ NextRow = Done + 1 /\ NextRow \in 1 .. Len(inbox) /\ todo = (Done + 1) .. Len(inbox)
         /\ run = Idle /\ boot = "replay" /\ "crash" \in Faults
<1> USE DEF IInv
<1>1. Len(inbox) \in Nat /\ Done \in Nat
  BY Sizes
<1>2. run = Idle /\ boot = "replay" /\ todo # {} /\ todo = (Done + 1) .. Len(inbox) /\ "crash" \in Faults
  BY DEF Replaying, AtStart, NoStart
<1>3. Done + 1 \in todo /\ \A j \in todo : Done + 1 <= j
  BY <1>1, <1>2
<1>4. NextRow \in todo /\ \A j \in todo : NextRow <= j
  BY <1>3 DEF NextRow
<1> QED BY <1>1, <1>2, <1>3, <1>4

(* A row is handled again where the crash left it.                         *)
LEMMA ReplayKeeps ==
  ASSUME IInv, Covered, Replay
  PROVE  IInv' /\ Kept
<1> USE DEF IInv
<1>0. /\ Len(inbox) \in Nat /\ Len(log) \in Nat /\ Done \in Nat /\ DOMAIN inbox = 1 .. Len(inbox)
  BY Sizes
<1>1. /\ NextRow = Done + 1 /\ NextRow \in 1 .. Len(inbox) /\ todo = (Done + 1) .. Len(inbox)
      /\ run = Idle /\ boot = "replay"
  BY FirstRow DEF Replay
<1>2. PICK e : e = inbox[Done + 1].ev
  OBVIOUS
<1>3. Begin(e)
  BY <1>1, <1>2 DEF Replay
<1>4. e \in Events
  BY <1>1, <1>2, Sizes
<1>5. Staged(e)
  BY <1>0, <1>1, <1>2 DEF Staged
<1>6. /\ e \notin inflight /\ inflight' = inflight \cup {e} /\ run' = [ev |-> e, half |-> FALSE]
      /\ inbox' = inbox
      /\ UNCHANGED <<disk, log, notes, armed, marked, boot, todo, promised, healthy>>
  BY <1>3, <1>5 DEF Begin
<1>7. Whole = Len(log) /\ inflight = marked
  BY <1>1, IdleFacts DEF Whole, Flying
<1>8. Whole = Done
  <2>1. Done <= Whole /\ Whole <= Done + 1
    BY <1>1, <1>7 DEF Lens, AtStart
  <2>2. Whole >= Done + 1 => e \in marked
    BY <1>0, <1>2, <1>7 DEF Owed, Keys
  <2> QED BY <2>1, <2>2, <1>0, <1>6, <1>7
<1>9. marked = {}
  BY <1>0, <1>8 DEF Owed, Keys
<1>10. run' \in Runs /\ run' # Idle /\ run'.ev = e /\ run'.half = FALSE
  BY <1>4, <1>6, IdleFacts
<1>11. Done' = Done /\ Whole' = Whole
  BY <1>6, <1>7, <1>10 DEF Done, Whole
<1>12. TypeOK'
  BY <1>4, <1>6, <1>10 DEF TypeOK
<1>13. CheckpointIsWhole' /\ Distinct' /\ Notes' /\ NoFailure' /\ Rearmed'
  BY <1>6, <1>11 DEF CheckpointIsWhole, Distinct, Notes, NoFailure, Rearmed
<1>14. Prefix' /\ Lens'
  BY <1>6, <1>11 DEF Prefix, Lens
<1>15. Owed'
  BY <1>6, <1>11 DEF Owed, Keys
<1>16. Flying'
  BY <1>0, <1>1, <1>2, <1>6, <1>7, <1>8, <1>10, <1>11 DEF Flying
<1>17. AtWork' /\ AtStart' /\ NoStart'
  BY <1>1, <1>6, <1>9, <1>11 DEF AtWork, AtStart, NoStart
<1>18. Kept
  BY <1>0, <1>6, <1>11 DEF Kept
<1> QED BY <1>18, <1>6, <1>12, <1>13, <1>14, <1>15, <1>16, <1>17

(* The rows Covered leaves to the replay are all staged again.             *)
LEMMA NothingSkipped ==
  ASSUME IInv, Covered
  PROVE  ~ReplaySkips
<1> SUFFICES ASSUME ReplaySkips PROVE FALSE
  OBVIOUS
<1>1. /\ NextRow = Done + 1 /\ NextRow \in 1 .. Len(inbox) /\ "crash" \in Faults
      /\ NextRow \in (Done + 1) .. Len(inbox)
  BY FirstRow, Sizes DEF ReplaySkips, IInv
<1>2. "begin" \notin Faults
  BY <1>1 DEF Covered
<1>3. ~WriteAhead(inbox[NextRow].ev)
  BY <1>2 DEF ReplaySkips, NotBegun
<1>4. inbox[NextRow].ev \in Quotes /\ ~armed
  BY <1>3 DEF WriteAhead
<1> QED BY <1>1, <1>4 DEF IInv, Rearmed

(* A checkpoint half way through a handler is put off: nothing is owed     *)
(* where no checkpoint fails.                                              *)
LEMMA NestedKeeps ==
  ASSUME IInv, Covered, NEW ok \in BOOLEAN, NestedCheckpoint(ok)
  PROVE  IInv' /\ Kept
<1> USE DEF IInv
<1>0. /\ Len(inbox) \in Nat /\ Len(log) \in Nat /\ Done \in Nat /\ Whole \in Int
  BY Sizes
<1>1. run # Idle /\ ~run.half /\ run \in Runs /\ marked = {} /\ inflight # {}
  BY Sizes DEF NestedCheckpoint, Covered, NoFailure, Flying
<1>2. PutOff({})
  BY <1>1 DEF PutOff
<1>3. /\ log' = Append(log, [ev |-> run.ev, whole |-> FALSE]) /\ notes' = notes /\ armed' = armed
      /\ UNCHANGED <<inbox, disk, inflight, marked, healthy, boot, todo, promised>>
      /\ run' = [run EXCEPT !.half = TRUE]
  BY <1>2 DEF NestedCheckpoint, Checkpoint
<1>4. run' \in Runs /\ run'.ev = run.ev /\ run'.half = TRUE /\ run' # Idle
  BY <1>1, <1>3, HalfWay
<1>5. /\ log' \in Seq(Token) /\ Len(log') = Len(log) + 1
      /\ log'[Len(log) + 1].ev = run.ev /\ log'[Len(log) + 1].whole = FALSE
      /\ \A i \in 1 .. Len(log) : log'[i] = log[i]
  <2> DEFINE t == [ev |-> run.ev, whole |-> FALSE]
  <2>1. t \in Token /\ t.ev = run.ev /\ t.whole = FALSE
    BY <1>1, IdleFacts DEF Token
  <2> HIDE DEF t
  <2>2. log' = Append(log, t)
    BY <1>3 DEF t
  <2>3. log \in Seq(Token)
    BY DEF TypeOK
  <2> QED BY <2>1, <2>2, <2>3, AppendProperties
<1>6. Whole = Len(log) /\ Whole' = Whole /\ Done' = Done
  BY <1>0, <1>1, <1>3, <1>4, <1>5 DEF Whole, Done
<1>7. Whole < Len(inbox) /\ inbox[Whole + 1].ev = run.ev /\ inflight = marked \cup {run.ev}
  BY <1>1 DEF Flying
<1>8. TypeOK'
  BY <1>3, <1>4, <1>5 DEF TypeOK
<1>9. CheckpointIsWhole' /\ Distinct' /\ Notes' /\ NoFailure' /\ Rearmed'
  BY <1>3, <1>6 DEF CheckpointIsWhole, Distinct, Notes, NoFailure, Rearmed
<1>10. Prefix' /\ Lens'
  BY <1>0, <1>3, <1>5, <1>6, <1>7 DEF Prefix, Lens
<1>11. Owed' /\ Flying'
  BY <1>3, <1>4, <1>6, <1>7 DEF Owed, Keys, Flying
<1>12. AtWork' /\ NoStart'
  BY <1>1, <1>3, <1>4, <1>6 DEF AtWork, NoStart
<1>13. AtStart'
  <2>1. boot = "replay" => Whole = Done
    <3>1. marked = {} => Whole <= Done
      <4> SUFFICES ASSUME Whole > Done PROVE marked # {}
        BY <1>0
      <4>1. inbox[Done + 1].ev \in marked
        BY <1>0, <1>7 DEF Owed, Keys
      <4> QED BY <4>1
    <3> QED BY <3>1, <1>0, <1>1 DEF Lens
  <2> QED BY <2>1, <1>1, <1>0, <1>3, <1>4, <1>5, <1>6 DEF AtStart
<1>14. Kept
  BY <1>0, <1>3, <1>6 DEF Kept
<1> QED BY <1>14, <1>3, <1>8, <1>9, <1>10, <1>11, <1>12, <1>13

(* A restart goes back to the checkpoint.                                  *)
LEMMA RestartKeeps ==
  ASSUME IInv, Covered, "crash" \in Faults, Restart
  PROVE  IInv' /\ Kept
<1> USE DEF IInv
<1>0. /\ Len(inbox) \in Nat /\ Done \in Nat /\ disk.log \in Seq(Token) /\ disk.armed \in BOOLEAN
      /\ DOMAIN inbox = 1 .. Len(inbox) /\ notes \in 0 .. MaxNotes
  BY Sizes DEF TypeOK
<1>1. /\ log' = disk.log /\ notes' = disk.notes /\ armed' = disk.armed /\ inflight' = {} /\ marked' = {}
      /\ run' = Idle /\ boot' = "settle" /\ todo' = {} /\ healthy' = TRUE
      /\ UNCHANGED <<inbox, disk, promised>>
  BY DEF Restart
<1>2. Done' = Done /\ Whole' = Done /\ Len(log') = Done
  BY <1>1, IdleFacts DEF Done, Whole
<1>3. TypeOK'
  BY <1>0, <1>1 DEF TypeOK, State
<1>4. CheckpointIsWhole' /\ Distinct'
  BY <1>1 DEF CheckpointIsWhole, Distinct
<1>5. Done <= Len(inbox)
  BY DEF CheckpointIsWhole, Done
<1>6. \A i \in 1 .. Done : disk.log[i].ev = inbox[i].ev /\ disk.log[i].whole
  <2>1. \A i \in 1 .. Done : disk.log[i] = [ev |-> inbox[i].ev, whole |-> TRUE]
    BY <1>0, <1>5 DEF CheckpointIsWhole, Done
  <2> TAKE i \in 1 .. Done
  <2>2. disk.log[i] = [ev |-> inbox[i].ev, whole |-> TRUE]
    BY <2>1
  <2> QED BY ONLY <2>2
<1>7. Prefix' /\ Lens'
  BY <1>0, <1>1, <1>2, <1>5, <1>6 DEF Prefix, Lens
<1>8. Owed' /\ Flying'
  BY <1>0, <1>1, <1>2 DEF Owed, Keys, Flying
<1>9. AtWork' /\ AtStart' /\ NoStart'
  BY <1>1 DEF AtWork, AtStart, NoStart
<1>10. Notes'
  BY <1>0, <1>1, Sizes DEF Notes
<1>11. NoFailure' /\ Rearmed'
  BY <1>1, <1>2 DEF NoFailure, Rearmed
<1>12. Kept
  BY <1>0, <1>1, <1>2 DEF Kept
<1> QED BY <1>12, <1>1, <1>3, <1>4, <1>7, <1>8, <1>9, <1>10, <1>11

(* list_pending_events finds the rows that are not in the checkpoint.      *)
LEMMA StartReplayKeeps ==
  ASSUME IInv, StartReplay
  PROVE  IInv' /\ Kept
<1> USE DEF IInv
<1>0. Len(inbox) \in Nat /\ Done \in Nat /\ DOMAIN inbox = 1 .. Len(inbox)
  BY Sizes
<1>1. /\ boot = "settle" /\ run = Idle /\ log = disk.log
      /\ boot' = "replay" /\ todo' = Pending
      /\ UNCHANGED <<inbox, disk, log, notes, armed, inflight, marked, run, promised, healthy>>
  BY DEF StartReplay, AtStart
<1>2. Pending = (Done + 1) .. Len(inbox)
  <2>1. \A i \in 1 .. Len(inbox) : inbox[i].st = IF i <= Done THEN "COMMITTED" ELSE "PENDING"
    BY <1>0 DEF CheckpointIsWhole, Done
  <2> QED BY <2>1, <1>0 DEF Pending
<1>3. Done' = Done /\ Whole' = Whole
  BY <1>1 DEF Done, Whole
<1>4. TypeOK'
  <2>1. todo' \in SUBSET (1 .. Len(inbox'))
    BY <1>0, <1>1, <1>2
  <2> QED BY <2>1, <1>1 DEF TypeOK
<1>5. CheckpointIsWhole' /\ Distinct' /\ Notes' /\ NoFailure' /\ Rearmed'
  BY <1>1, <1>3 DEF CheckpointIsWhole, Distinct, Notes, NoFailure, Rearmed
<1>6. Prefix' /\ Lens' /\ Owed' /\ Flying'
  BY <1>1, <1>3 DEF Prefix, Lens, Owed, Keys, Flying
<1>7. AtWork' /\ AtStart' /\ NoStart'
  BY <1>0, <1>1, <1>2, <1>3 DEF AtWork, AtStart, NoStart, Done
<1>8. Kept
  BY <1>0, <1>1, <1>3 DEF Kept
<1> QED BY <1>8, <1>4, <1>5, <1>6, <1>7

(* The relay clients start when every row is in the checkpoint.            *)
LEMMA StartServingKeeps ==
  ASSUME IInv, StartServing
  PROVE  IInv' /\ Kept
<1> USE DEF IInv
<1>0. /\ Len(inbox) \in Nat /\ Len(log) \in Nat /\ Done \in Nat /\ DOMAIN inbox = 1 .. Len(inbox)
      /\ Whole \in Int
  BY Sizes
<1>1. /\ boot = "replay" /\ run = Idle /\ todo = {} /\ boot' = "serving"
      /\ UNCHANGED <<inbox, disk, log, notes, armed, inflight, marked, run, todo, promised, healthy>>
  BY DEF StartServing
<1>2. Whole = Len(inbox)
  <2>1. (Done + 1) .. Len(inbox) = {}
    BY <1>1 DEF AtStart
  <2>2. Len(inbox) <= Done
    <3>1. Len(inbox) >= Done + 1 => Len(inbox) \in (Done + 1) .. Len(inbox)
      BY <1>0
    <3> QED BY <3>1, <2>1, <1>0
  <2>3. Done <= Whole /\ Whole <= Len(log) /\ Len(log) <= Len(inbox)
    BY DEF Lens
  <2>4. Whole <= Len(inbox) /\ Len(inbox) <= Whole
    BY <2>2, <2>3, <1>0
  <2>5. \A m, n \in Int : m <= n /\ n <= m => m = n
    OBVIOUS
  <2>6. Whole \in Int /\ Len(inbox) \in Int
    BY <1>0
  <2> QED BY ONLY <2>4, <2>5, <2>6
<1>3. Done' = Done /\ Whole' = Whole
  BY <1>1 DEF Done, Whole
<1>4. TypeOK' /\ CheckpointIsWhole' /\ Distinct' /\ Notes' /\ NoFailure' /\ Rearmed'
  BY <1>1, <1>3 DEF TypeOK, CheckpointIsWhole, Distinct, Notes, NoFailure, Rearmed
<1>6. Prefix' /\ Lens' /\ Owed' /\ Flying'
  BY <1>1, <1>3 DEF Prefix, Lens, Owed, Keys, Flying
<1>7. AtWork' /\ AtStart' /\ NoStart'
  BY <1>0, <1>1, <1>2, <1>3 DEF AtWork, AtStart, NoStart
<1>8. Kept
  BY <1>0, <1>1, <1>3 DEF Kept
<1> QED BY <1>8, <1>4, <1>6, <1>7

(* A row applied but not saved is saved, or the process starts again.      *)
LEMMA ReplayRetryKeeps ==
  ASSUME IInv, Covered, ReplayRetry
  PROVE  IInv' /\ Kept
<1> USE DEF IInv
<1>0. /\ Len(inbox) \in Nat /\ Len(log) \in Nat /\ Done \in Nat /\ notes \in 0 .. MaxNotes
      /\ armed \in BOOLEAN /\ DOMAIN inbox = 1 .. Len(inbox)
  BY Sizes DEF TypeOK
<1>1. /\ NextRow = Done + 1 /\ NextRow \in 1 .. Len(inbox) /\ todo = (Done + 1) .. Len(inbox)
      /\ run = Idle /\ boot = "replay" /\ "crash" \in Faults
  BY FirstRow DEF ReplayRetry
<1>2. inbox[Done + 1].ev \in marked
  BY <1>1 DEF ReplayRetry
<1>3. "save" \in Faults
  BY <1>2 DEF NoFailure
<1>4. Len(log) = Done + 1
  <2>1. Whole = Len(log) /\ Len(log) <= Done + 1
    BY <1>1, IdleFacts DEF Whole, AtStart
  <2>2. \E i \in (Done + 1) .. Whole : inbox[i].ev = inbox[Done + 1].ev
    BY <1>2 DEF Owed, Keys
  <2> QED BY <2>1, <2>2, <1>0
<1>5. CASE /\ Checkpoint({}, log, notes, armed, TRUE)
           /\ todo' = todo \ {NextRow}
           /\ UNCHANGED <<run, boot, promised>>
  <2>1. todo' = (Len(log) + 1) .. Len(inbox)
    BY <1>0, <1>1, <1>4, <1>5
  <2>2. PICK n : n = notes
    OBVIOUS
  <2>3. PICK a : a = armed
    OBVIOUS
  <2>4. n \in notes .. MaxNotes /\ a \in BOOLEAN /\ Checkpoint({}, log, n, a, TRUE)
    <3>1. n \in notes .. MaxNotes /\ a \in BOOLEAN
      BY <2>2, <2>3, <1>0, NotesAssumption
    <3>2. Checkpoint({}, log, n, a, TRUE)
      BY <2>2, <2>3, <1>5
    <3> QED BY <3>1, <3>2
  <2>5. run' = run /\ boot' = boot /\ promised' = promised
    BY <1>5
  <2> HIDE DEF IInv
  <2> QED BY <2>1, <2>4, <2>5, <1>1, <1>3, PlainKeeps
<1>6. CASE Restart
  BY <1>1, <1>6, RestartKeeps
<1> QED BY <1>5, <1>6 DEF ReplayRetry

-----------------------------------------------------------------------------
(* The invariant is inductive.                                             *)

LEMMA InitInv == Init => IInv
<1> SUFFICES ASSUME Init PROVE IInv
  OBVIOUS
<1>1. /\ notes = 0 /\ armed = FALSE /\ inflight = {} /\ marked = {} /\ run = Idle
      /\ boot = "serving" /\ todo = {} /\ promised = 0 /\ healthy = TRUE
  BY DEF Init
<1>2. disk.log = <<>> /\ disk.notes = 0 /\ disk.armed = FALSE
  BY DEF Init
<1>3. inbox \in Seq(Row) /\ log \in Seq(Token) /\ Len(inbox) = 0 /\ Len(log) = 0 /\ Len(disk.log) = 0
  BY <1>2, EmptySeq DEF Init
<1>4. Done = 0 /\ Whole = 0
  BY <1>1, <1>3, IdleFacts DEF Done, Whole
<1>5. disk \in State
  <2>1. <<>> \in Seq(Token) /\ 0 \in 0 .. MaxNotes
    BY EmptySeq, NotesAssumption
  <2> QED BY <2>1 DEF Init, State
<1>6. TypeOK
  <2>1. notes \in 0 .. MaxNotes /\ promised \in 0 .. MaxNotes
    BY <1>1, NotesAssumption
  <2>2. /\ armed \in BOOLEAN /\ healthy \in BOOLEAN /\ inflight \in SUBSET Events
        /\ marked \in SUBSET Events /\ todo \in SUBSET (1 .. Len(inbox))
        /\ run \in Runs \cup {Idle} /\ boot \in {"settle", "replay", "serving"}
    BY <1>1
  <2> QED BY <2>1, <2>2, <1>3, <1>5 DEF TypeOK
<1>7. CheckpointIsWhole
  BY <1>3, <1>4, <1>6, Sizes DEF CheckpointIsWhole, Done
<1>8. Distinct /\ Prefix /\ Lens
  BY <1>3, <1>4 DEF Distinct, Prefix, Lens
<1>9. Owed /\ Flying
  BY <1>1, <1>4 DEF Owed, Keys, Flying
<1>10. AtWork /\ AtStart /\ NoStart
  BY <1>1, <1>3, <1>4 DEF AtWork, AtStart, NoStart
<1>11. Notes
  BY <1>1, <1>2 DEF Notes
<1>12. NoFailure
  BY <1>1, <1>3, <1>4 DEF NoFailure
<1>13. Rearmed
  <2>1. armed = disk.armed
    BY <1>1, <1>2
  <2>2. (Done + 1) .. Len(inbox) = {}
    BY <1>3, <1>4
  <2> QED BY <2>1, <2>2 DEF Rearmed
<1> QED BY <1>6, <1>7, <1>8, <1>9, <1>10, <1>11, <1>12, <1>13 DEF IInv

(* A step that touches nothing but healthy.                                *)
LEMMA QuietKeeps ==
  ASSUME IInv, healthy' \in BOOLEAN,
         UNCHANGED <<inbox, disk, log, notes, armed, inflight, marked, run, boot, todo, promised>>
  PROVE  IInv' /\ Kept
<1> USE DEF IInv
<1>1. Done' = Done /\ Whole' = Whole
  BY DEF Done, Whole
<1>2. TypeOK' /\ CheckpointIsWhole' /\ Distinct' /\ Prefix' /\ Lens'
  BY <1>1 DEF TypeOK, CheckpointIsWhole, Distinct, Prefix, Lens
<1>3. Owed' /\ Flying' /\ AtWork' /\ AtStart' /\ NoStart' /\ Notes' /\ NoFailure' /\ Rearmed'
  BY <1>1 DEF Owed, Keys, Flying, AtWork, AtStart, NoStart, Notes, NoFailure, Rearmed
<1>4. Kept
  BY <1>1, Sizes DEF Kept
<1> QED BY <1>2, <1>3, <1>4

(* Changes outside events: the checkpoint is made with nobody at work.     *)
LEMMA OutsideKeeps ==
  ASSUME IInv, Covered, NEW ok \in BOOLEAN, NEW a \in BOOLEAN,
         Note(ok, a) \/ Intent(ok) \/ RetryCheckpoint(ok) \/ BookLateFills(ok)
  PROVE  IInv' /\ Kept
<1>0. notes \in 0 .. MaxNotes /\ armed \in BOOLEAN /\ (boot = "settle" => run = Idle)
      /\ (inflight = {} => run = Idle)
  BY DEF IInv, TypeOK, AtStart, Flying
<1>1. PICK k : k = notes
  OBVIOUS
<1>2. PICK n : n = notes + 1
  OBVIOUS
<1>3. PICK w : w = armed
  OBVIOUS
<1>4. k \in notes .. MaxNotes /\ w \in BOOLEAN
  BY <1>0, <1>1, <1>3, NotesAssumption
<1>5. notes < MaxNotes => n \in notes .. MaxNotes
  BY <1>0, <1>2, NotesAssumption
<1>6. CASE Note(ok, a)
  <2>1. /\ run = Idle /\ boot = "serving" /\ n \in notes .. MaxNotes
        /\ run' = run /\ boot' = boot /\ todo' = todo
        /\ promised' = promised \/ (ok /\ promised' = n)
    BY <1>2, <1>5, <1>6 DEF Note, Serving
  <2>2. Checkpoint({}, log, n, a, ok)
    BY <1>2, <1>6 DEF Note
  <2> QED BY <2>1, <2>2, PlainKeeps
<1>7. CASE Intent(ok)
  <2>1. /\ run = Idle /\ boot = "serving" /\ n \in notes .. MaxNotes
        /\ run' = run /\ boot' = boot /\ todo' = todo
        /\ promised' = promised \/ (ok /\ promised' = n)
    BY <1>0, <1>2, <1>5, <1>7 DEF Intent
  <2>2. Checkpoint({}, log, n, w, ok)
    BY <1>2, <1>3, <1>7 DEF Intent
  <2> QED BY <2>1, <2>2, <1>4, PlainKeeps
<1>8. CASE RetryCheckpoint(ok)
  <2>1. /\ run = Idle /\ boot = "serving"
        /\ run' = run /\ boot' = boot /\ todo' = todo /\ promised' = promised
    BY <1>8 DEF RetryCheckpoint, Serving
  <2>2. Checkpoint({}, log, k, w, ok)
    BY <1>1, <1>3, <1>8 DEF RetryCheckpoint
  <2> QED BY <2>1, <2>2, <1>4, PlainKeeps
<1>9. CASE BookLateFills(ok)
  <2>1. /\ run = Idle /\ boot = "settle" /\ "orders" \in Faults
        /\ run' = run /\ boot' = boot /\ todo' = todo /\ promised' = promised
    BY <1>0, <1>9 DEF BookLateFills
  <2>2. Checkpoint({}, log, k, FALSE, ok)
    BY <1>1, <1>9 DEF BookLateFills
  <2>3. FALSE \in BOOLEAN
    OBVIOUS
  <2> QED BY <2>1, <2>2, <2>3, <1>4, PlainKeeps
<1> QED BY <1>6, <1>7, <1>8, <1>9

(* Every step keeps the invariant, and is either the staging of a new      *)
(* event or one that keeps the rows.                                       *)
LEMMA StepInv ==
  ASSUME IInv, Covered, Next
  PROVE  IInv' /\ (Kept \/ \E e \in Events : Deliver(e))
<1>1. ASSUME NEW e \in Events, Deliver(e) PROVE IInv'
  BY <1>1, DeliverKeeps
<1>2. ASSUME NEW e \in Events, DropEvent(e) PROVE IInv' /\ Kept
  <2>1. /\ healthy' \in BOOLEAN
        /\ UNCHANGED <<inbox, disk, log, notes, armed, inflight, marked, run, boot, todo, promised>>
    BY <1>2 DEF DropEvent, NotBegun
  <2> QED BY <2>1, QuietKeeps
<1>3. ASSUME NEW ok \in BOOLEAN, NestedCheckpoint(ok) PROVE IInv' /\ Kept
  BY <1>3, NestedKeeps
<1>4. ASSUME NEW ok \in BOOLEAN, Finish(ok) PROVE IInv' /\ Kept
  BY <1>4, FinishKeeps
<1>5. ~Escape
  BY DEF Escape, Covered
<1>6. ASSUME NEW ok \in BOOLEAN, NEW a \in BOOLEAN, Note(ok, a) PROVE IInv' /\ Kept
  BY <1>6, OutsideKeeps
<1>7. ASSUME NEW ok \in BOOLEAN, Intent(ok) \/ RetryCheckpoint(ok) \/ BookLateFills(ok)
      PROVE  IInv' /\ Kept
  <2>1. PICK a \in BOOLEAN : TRUE
    OBVIOUS
  <2> QED BY <1>7, <2>1, OutsideKeeps
<1>8. CASE StartReplay
  BY <1>8, StartReplayKeeps
<1>9. CASE Replay
  BY <1>9, ReplayKeeps
<1>10. ~ReplaySkips
  BY NothingSkipped
<1>11. CASE ReplayRetry
  BY <1>11, ReplayRetryKeeps
<1>12. CASE StartServing
  BY <1>12, StartServingKeeps
<1>13. CASE Crash
  BY <1>13, RestartKeeps DEF Crash
<1> QED BY <1>1, <1>2, <1>3, <1>4, <1>5, <1>6, <1>7, <1>8, <1>9, <1>10, <1>11, <1>12, <1>13
        DEF Next, Handlers, Outside, Startup

(* Under the faults that Covered describes the invariant always holds.     *)
THEOREM Inductive ==
  ASSUME Covered
  PROVE  Spec => []IInv
<1>1. Init => IInv
  BY InitInv
<1>2. IInv /\ [Next]_vars => IInv'
  <2> SUFFICES ASSUME IInv, [Next]_vars PROVE IInv'
    OBVIOUS
  <2>1. CASE Next
    BY <2>1, StepInv
  <2>2. CASE UNCHANGED vars
    <3>1. /\ healthy' \in BOOLEAN
          /\ UNCHANGED <<inbox, disk, log, notes, armed, inflight, marked, run, boot, todo, promised>>
      BY <2>2 DEF vars, IInv, TypeOK
    <3> QED BY <3>1, QuietKeeps
  <2> QED BY <2>1, <2>2
<1> QED BY <1>1, <1>2, PTL DEF Spec

-----------------------------------------------------------------------------
(* The theorems                                                            *)

(* The variables keep their types.                                         *)
THEOREM TypeCorrect ==
  ASSUME Covered
  PROVE  Spec => []TypeOK
<1>1. IInv => TypeOK
  BY DEF IInv
<1> QED BY <1>1, Inductive, PTL

(* The checkpoint of main.py holds whole events in the order staged, and   *)
(* the rows marked COMMITTED are exactly theirs.                           *)
THEOREM CheckpointWhole ==
  ASSUME Covered
  PROVE  Spec => []CheckpointIsWhole
<1>1. IInv => CheckpointIsWhole
  BY DEF IInv
<1> QED BY <1>1, Inductive, PTL

(* The running process applies an event once, whatever the relay repeats.  *)
THEOREM OnceOnly ==
  ASSUME Covered
  PROVE  Spec => []AppliedOnce
<1>1. IInv => AppliedOnce
  <2> SUFFICES ASSUME IInv, NEW i \in 1 .. Len(log), NEW j \in 1 .. Len(log), log[i].ev = log[j].ev
               PROVE  i = j
    BY Sizes DEF AppliedOnce, IInv
  <2>1. log[i].ev = inbox[i].ev /\ log[j].ev = inbox[j].ev
    BY DEF IInv, Prefix
  <2>2. i \in 1 .. Len(inbox) /\ j \in 1 .. Len(inbox)
    BY Sizes DEF IInv, Lens
  <2> QED BY <2>1, <2>2 DEF IInv, Distinct
<1> QED BY <1>1, Inductive, PTL

(* What a checkpoint reported as saved outlives a crash.                   *)
THEOREM PromisesKept ==
  ASSUME Covered
  PROVE  Spec => []PromiseKept
<1>1. IInv => PromiseKept
  BY DEF IInv, Notes, PromiseKept
<1> QED BY <1>1, Inductive, PTL

(* When the relay clients run, whatever is pending is at work or owed.     *)
THEOREM NoneLeftBehind ==
  ASSUME Covered
  PROVE  Spec => []NothingLeftBehind
<1>1. IInv => NothingLeftBehind
  <2> SUFFICES ASSUME IInv, boot = "serving", NEW i \in Pending
               PROVE  inbox[i].ev \in inflight
    BY DEF NothingLeftBehind
  <2>0. /\ Len(inbox) \in Nat /\ Done \in Nat /\ DOMAIN inbox = 1 .. Len(inbox) /\ Whole \in Int
    BY Sizes DEF IInv
  <2>1. i \in 1 .. Len(inbox) /\ i > Done
    <3>1. \A j \in 1 .. Len(inbox) : inbox[j].st = IF j <= Done THEN "COMMITTED" ELSE "PENDING"
      BY <2>0 DEF IInv, CheckpointIsWhole, Done
    <3> QED BY <3>1, <2>0 DEF Pending
  <2>2. CASE i <= Whole
    <3>1. inbox[i].ev \in marked
      BY <2>0, <2>1, <2>2 DEF IInv, Owed, Keys
    <3> QED BY <3>1 DEF IInv, Flying
  <2>3. CASE i > Whole
    <3>1. Len(inbox) = Whole + (IF run = Idle THEN 0 ELSE 1)
      BY DEF IInv, AtWork
    <3>2. i = Whole + 1 /\ run # Idle
      BY <2>0, <2>1, <2>3, <3>1
    <3> QED BY <3>2 DEF IInv, Flying
  <2> QED BY <2>0, <2>1, <2>2, <2>3
<1> QED BY <1>1, Inductive, PTL

-----------------------------------------------------------------------------
(* The inbox implements the durable log.                                   *)

(* What is durable is the beginning of what is staged.                     *)
Mirrored ==
  /\ StagedEvents \in Seq(Events) /\ Len(StagedEvents) = Len(inbox)
  /\ DurableEffect \in Seq(Events) /\ Len(DurableEffect) = Done
  /\ Done \in 0 .. Len(inbox) /\ Len(inbox) \in Nat
  /\ \A i \in 1 .. Len(inbox) : StagedEvents[i] = inbox[i].ev
  /\ \A i \in 1 .. Done : DurableEffect[i] = inbox[i].ev

LEMMA DurableState == IInv => Mirrored
<1> SUFFICES ASSUME IInv PROVE Mirrored
  OBVIOUS
<1>1. /\ Len(inbox) \in Nat /\ Done \in Nat /\ DOMAIN inbox = 1 .. Len(inbox)
      /\ DOMAIN disk.log = 1 .. Done /\ \A i \in 1 .. Len(inbox) : inbox[i].ev \in Events
  BY Sizes DEF IInv
<1>2. Done <= Len(inbox)
  BY DEF IInv, CheckpointIsWhole, Done
<1>3. StagedEvents \in [1 .. Len(inbox) -> Events]
  BY <1>1 DEF StagedEvents
<1>4. \A i \in 1 .. Done : disk.log[i] = [ev |-> inbox[i].ev, whole |-> TRUE]
  BY <1>1, <1>2 DEF IInv, CheckpointIsWhole, Done
<1>5. \A i \in 1 .. Done : DurableEffect[i] = inbox[i].ev
  <2> TAKE i \in 1 .. Done
  <2>1. disk.log[i] = [ev |-> inbox[i].ev, whole |-> TRUE]
    BY <1>4
  <2>2. disk.log[i].ev = inbox[i].ev /\ disk.log[i].whole
    BY ONLY <2>1
  <2>3. DurableEffect[i] = IF disk.log[i].whole THEN disk.log[i].ev ELSE disk.log[i]
    BY <1>1 DEF DurableEffect
  <2> QED BY <2>2, <2>3
<1>6. DOMAIN DurableEffect = 1 .. Done /\ DurableEffect = [i \in 1 .. Done |-> DurableEffect[i]]
  BY <1>1 DEF DurableEffect
<1>7. DurableEffect \in [1 .. Done -> Events]
  BY <1>1, <1>2, <1>5, <1>6
<1>8. \A i \in 1 .. Len(inbox) : StagedEvents[i] = inbox[i].ev
  BY <1>1 DEF StagedEvents
<1>9. /\ StagedEvents \in Seq(Events) /\ Len(StagedEvents) = Len(inbox)
      /\ DurableEffect \in Seq(Events) /\ Len(DurableEffect) = Done
  BY <1>1, <1>3, <1>7, AsSeq
<1> QED BY <1>1, <1>2, <1>5, <1>8, <1>9 DEF Mirrored

LEMMA DurableStateNext == (IInv => Mirrored)'
BY DurableState, PTL

(* A step that keeps the rows commits the beginning of them, or shows      *)
(* nothing: a crash is such a step.                                        *)
LEMMA KeptCommits ==
  ASSUME IInv, IInv', Kept
  PROVE  Durable!Next \/ UNCHANGED <<StagedEvents, DurableEffect>>
<1>1. /\ StagedEvents \in Seq(Events) /\ Len(StagedEvents) = Len(inbox)
      /\ DurableEffect \in Seq(Events) /\ Len(DurableEffect) = Done
      /\ Done \in 0 .. Len(inbox) /\ Len(inbox) \in Nat
      /\ \A i \in 1 .. Len(inbox) : StagedEvents[i] = inbox[i].ev
      /\ \A i \in 1 .. Done : DurableEffect[i] = inbox[i].ev
  BY DurableState DEF Mirrored
<1>2. /\ StagedEvents' \in Seq(Events) /\ Len(StagedEvents') = Len(inbox')
      /\ DurableEffect' \in Seq(Events) /\ Len(DurableEffect') = Done'
      /\ Done' \in 0 .. Len(inbox') /\ Len(inbox') \in Nat
      /\ \A i \in 1 .. Len(inbox') : StagedEvents'[i] = inbox'[i].ev
      /\ \A i \in 1 .. Done' : DurableEffect'[i] = inbox'[i].ev
  BY DurableStateNext DEF Mirrored
<1>3. Len(inbox') = Len(inbox) /\ (\A i \in 1 .. Len(inbox) : inbox'[i].ev = inbox[i].ev) /\ Done <= Done'
  BY DEF Kept
<1>4. StagedEvents' = StagedEvents
  <2>1. \A i \in 1 .. Len(StagedEvents') : StagedEvents'[i] = StagedEvents[i]
    BY <1>1, <1>2, <1>3
  <2> QED BY <2>1, <1>1, <1>2, <1>3, SeqEqual
<1>5. CASE Done' = Done
  <2>1. \A i \in 1 .. Len(DurableEffect') : DurableEffect'[i] = DurableEffect[i]
    BY <1>1, <1>2, <1>3, <1>5
  <2>2. DurableEffect' = DurableEffect
    BY <2>1, <1>1, <1>2, <1>5, SeqEqual
  <2> QED BY <2>2, <1>4
<1>6. CASE Done' # Done
  <2>1. PICK n : n = Done'
    OBVIOUS
  <2>2. n \in 1 .. Len(StagedEvents) /\ n > Len(DurableEffect)
    BY <2>1, <1>1, <1>2, <1>3, <1>6
  <2>3. \A i \in 1 .. n : StagedEvents[i] \in Events
    BY <2>2, <1>1, ElementOfSeq
  <2>4. /\ SubSeq(StagedEvents, 1, n) \in Seq(Events)
        /\ Len(SubSeq(StagedEvents, 1, n)) = n
        /\ \A i \in 1 .. n : SubSeq(StagedEvents, 1, n)[i] = StagedEvents[i]
    <3>1. 1 \in Int /\ n \in Int /\ 1 <= n
      BY <2>2
    <3>2. /\ SubSeq(StagedEvents, 1, n) \in Seq(Events)
          /\ Len(SubSeq(StagedEvents, 1, n)) = IF 1 <= n THEN n - 1 + 1 ELSE 0
          /\ \A i \in 1 .. n - 1 + 1 : SubSeq(StagedEvents, 1, n)[i] = StagedEvents[1 + i - 1]
      BY <2>3, <3>1, SubSeqProperties
    <3> QED BY <3>1, <3>2
  <2>5. DurableEffect' = SubSeq(StagedEvents, 1, n)
    <3>1. \A i \in 1 .. Len(DurableEffect') : DurableEffect'[i] = SubSeq(StagedEvents, 1, n)[i]
      <4> TAKE i \in 1 .. Len(DurableEffect')
      <4>1. i \in 1 .. n /\ i \in 1 .. Done' /\ i \in 1 .. Len(inbox)
        BY <2>1, <2>2, <1>1, <1>2
      <4> QED BY <4>1, <2>4, <1>1, <1>2, <1>3
    <3>2. Len(DurableEffect') = Len(SubSeq(StagedEvents, 1, n))
      BY <2>1, <2>4, <1>2
    <3> QED BY <3>1, <3>2, <2>4, <1>2, SeqEqual
  <2>6. Durable!Commit(n)
    BY <2>2, <2>5, <1>4 DEF Durable!Commit
  <2> QED BY <2>2, <2>6 DEF Durable!Next
<1> QED BY <1>5, <1>6

(* A new event is staged behind the others.                                *)
LEMMA DeliverStages ==
  ASSUME IInv, Covered, NEW e \in Events, Deliver(e)
  PROVE  Durable!Next
<1>1. /\ IInv' /\ \A i \in 1 .. Len(inbox) : inbox[i].ev # e
      /\ inbox' = Append(inbox, [ev |-> e, st |-> "PENDING"])
  BY DeliverKeeps
<1>2. /\ StagedEvents \in Seq(Events) /\ Len(StagedEvents) = Len(inbox) /\ Len(inbox) \in Nat
      /\ \A i \in 1 .. Len(inbox) : StagedEvents[i] = inbox[i].ev
  BY DurableState DEF Mirrored
<1>3. /\ StagedEvents' \in Seq(Events) /\ Len(StagedEvents') = Len(inbox')
      /\ \A i \in 1 .. Len(inbox') : StagedEvents'[i] = inbox'[i].ev
  BY <1>1, DurableStateNext DEF Mirrored
<1>4. /\ Len(inbox') = Len(inbox) + 1 /\ inbox'[Len(inbox) + 1].ev = e
      /\ \A i \in 1 .. Len(inbox) : inbox'[i] = inbox[i]
  <2>1. inbox \in Seq(Row)
    BY DEF IInv, TypeOK
  <2> QED BY <2>1, <1>1, AppendedRow
<1>5. /\ Append(StagedEvents, e) \in Seq(Events)
      /\ Len(Append(StagedEvents, e)) = Len(StagedEvents) + 1
      /\ \A i \in 1 .. Len(StagedEvents) : Append(StagedEvents, e)[i] = StagedEvents[i]
      /\ Append(StagedEvents, e)[Len(StagedEvents) + 1] = e
  BY <1>2, AppendProperties
<1>6. StagedEvents' = Append(StagedEvents, e)
  <2>1. \A i \in 1 .. Len(StagedEvents') : StagedEvents'[i] = Append(StagedEvents, e)[i]
    <3> TAKE i \in 1 .. Len(StagedEvents')
    <3>1. i \in 1 .. Len(inbox) \/ i = Len(inbox) + 1
      BY <1>2, <1>3, <1>4
    <3> QED BY <3>1, <1>2, <1>3, <1>4, <1>5
  <2> QED BY <2>1, <1>2, <1>3, <1>4, <1>5, SeqEqual
<1>7. DOMAIN StagedEvents = 1 .. Len(inbox)
  BY <1>2, LenProperties
<1>8. \A i \in DOMAIN StagedEvents : StagedEvents[i] # e
  BY <1>1, <1>2, <1>7
<1>9. DurableEffect' = DurableEffect
  <2>1. disk' = disk
    BY DEF Deliver, Begin
  <2> QED BY <2>1 DEF DurableEffect
<1>10. Durable!Stage(e)
  BY <1>6, <1>8, <1>9 DEF Durable!Stage
<1> QED BY <1>10 DEF Durable!Next

(* begin_event and save_checkpoint, with the replay at startup, implement  *)
(* a log of events that no crash touches.                                  *)
THEOREM DurableImplemented ==
  ASSUME Covered
  PROVE  Spec => DurableSpec
<1>1. Init => Durable!Init
  <2> SUFFICES ASSUME Init PROVE Durable!Init
    OBVIOUS
  <2>1. IInv
    BY InitInv
  <2>2. Len(inbox) = 0 /\ Done = 0
    BY EmptySeq DEF Init, Done
  <2>3. StagedEvents \in Seq(Events) /\ Len(StagedEvents) = 0
        /\ DurableEffect \in Seq(Events) /\ Len(DurableEffect) = 0
    BY <2>1, <2>2, DurableState DEF Mirrored
  <2>4. StagedEvents = <<>> /\ DurableEffect = <<>>
    BY <2>3, EmptySeq
  <2> QED BY <2>4 DEF Durable!Init
<1>2. IInv /\ [Next]_vars => [Durable!Next]_(Durable!vars)
  <2> SUFFICES ASSUME IInv, [Next]_vars
               PROVE  Durable!Next \/ UNCHANGED <<StagedEvents, DurableEffect>>
    BY DEF Durable!vars
  <2>1. CASE Next
    <3>1. IInv' /\ (Kept \/ \E e \in Events : Deliver(e))
      BY <2>1, StepInv
    <3>2. CASE Kept
      BY <3>1, <3>2, KeptCommits
    <3>3. CASE \E e \in Events : Deliver(e)
      BY <3>3, DeliverStages
    <3> QED BY <3>1, <3>2, <3>3
  <2>2. CASE UNCHANGED vars
    BY <2>2 DEF vars, StagedEvents, DurableEffect
  <2> QED BY <2>1, <2>2
<1> QED BY <1>1, <1>2, Inductive, PTL DEF Spec, DurableSpec, Durable!Spec

-----------------------------------------------------------------------------
(* No event is lost, whatever fails: without Covered.                      *)

HasWhole(l, e) == \E j \in DOMAIN l : l[j] = [ev |-> e, whole |-> TRUE]

(* What the checkpoint has and what is owed to it is applied; and only the *)
(* first half of an event is ever replaced by the whole of it.             *)
SavedIsApplied == \A e \in Events : HasWhole(disk.log, e) => HasWhole(log, e)
OwedIsApplied  == \A e \in marked : HasWhole(log, e)
HalfIsLast     == run.half => Len(log) > 0 /\ ~log[Len(log)].whole

NInv == TypeOK /\ NoEventLost /\ SavedIsApplied /\ OwedIsApplied /\ HalfIsLast

(* The types that a checkpoint may touch, and the others.                  *)
StoreOK ==
  /\ inbox \in Seq(Row) /\ disk \in State /\ log \in Seq(Token) /\ notes \in 0 .. MaxNotes
  /\ armed \in BOOLEAN /\ inflight \in SUBSET Events /\ marked \in SUBSET Events /\ healthy \in BOOLEAN

(* A checkpoint of a state that has every whole event of the log, and of   *)
(* the handler's own event its whole effect, loses nothing.                *)
LEMMA CheckpointLosesNothing ==
  ASSUME NInv, NEW own \in SUBSET Events, NEW l \in Seq(Token), NEW n \in 0 .. MaxNotes,
         NEW a \in BOOLEAN, NEW ok \in BOOLEAN, Checkpoint(own, l, n, a, ok),
         \A e \in Events : HasWhole(log, e) => HasWhole(l, e),
         \A e \in own : HasWhole(l, e)
  PROVE  /\ StoreOK' /\ Len(inbox') = Len(inbox)
         /\ NoEventLost' /\ SavedIsApplied' /\ OwedIsApplied'
<1>1. log' = l /\ notes' = n
  BY DEF Checkpoint
<1>2. /\ inbox \in Seq(Row) /\ DOMAIN inbox = 1 .. Len(inbox) /\ marked \in SUBSET Events
      /\ \A i \in 1 .. Len(inbox) : inbox[i].ev \in Events
  BY Sizes DEF NInv, TypeOK
<1>3. CASE /\ UNCHANGED <<inbox, disk>> /\ inflight' = inflight
           /\ marked' = marked \/ marked' = marked \cup own
           /\ armed' \in BOOLEAN /\ healthy' \in BOOLEAN
  <2>1. StoreOK' /\ Len(inbox') = Len(inbox)
    BY <1>1, <1>3 DEF NInv, TypeOK, StoreOK
  <2>2. NoEventLost'
    BY <1>3 DEF NInv, NoEventLost
  <2>3. SavedIsApplied'
    BY <1>1, <1>3 DEF NInv, SavedIsApplied
  <2>4. OwedIsApplied'
    BY <1>1, <1>2, <1>3 DEF NInv, OwedIsApplied
  <2> QED BY <2>1, <2>2, <2>3, <2>4
<1>4. CASE Saved(own, l, n, a)
  <2>1. disk' = [log |-> l, notes |-> n, armed |-> a] /\ armed' = a /\ marked' = {} /\ healthy' = TRUE
        /\ inbox' = Marked(inbox, marked \cup own) /\ inflight' \in SUBSET Events
    BY <1>4 DEF Saved, Marked, NInv, TypeOK
  <2>2. disk'.log = l /\ disk' \in State
    BY <2>1 DEF State
  <2>3. /\ inbox' \in Seq(Row) /\ Len(inbox') = Len(inbox)
        /\ \A i \in 1 .. Len(inbox) :
             /\ inbox'[i].ev = inbox[i].ev
             /\ inbox'[i].st = IF inbox[i].ev \in marked \cup own THEN "COMMITTED" ELSE inbox[i].st
    BY <1>2, <2>1, MarkedRows
  <2>4. DOMAIN inbox' = 1 .. Len(inbox)
    BY <2>3, LenProperties
  <2>5. StoreOK'
    BY <1>1, <2>1, <2>2, <2>3 DEF StoreOK
  <2>6. ASSUME NEW i \in 1 .. Len(inbox), inbox'[i].st = "COMMITTED"
        PROVE  HasWhole(l, inbox[i].ev)
    <3>1. CASE inbox[i].ev \in marked \cup own
      BY <1>2, <3>1 DEF NInv, OwedIsApplied
    <3>2. CASE inbox[i].ev \notin marked \cup own
      <4>1. inbox[i].st = "COMMITTED"
        BY <2>3, <2>6, <3>2
      <4>2. HasWhole(disk.log, inbox[i].ev)
        BY <1>2, <4>1 DEF NInv, NoEventLost, HasWhole
      <4> QED BY <1>2, <4>2 DEF NInv, SavedIsApplied
    <3> QED BY <3>1, <3>2
  <2>7. NoEventLost'
    BY <2>2, <2>3, <2>4, <2>6 DEF NoEventLost, HasWhole
  <2>8. SavedIsApplied' /\ OwedIsApplied'
    BY <1>1, <2>1, <2>2 DEF SavedIsApplied, OwedIsApplied
  <2> QED BY <2>3, <2>5, <2>7, <2>8
<1>5. CASE PutOff(own)
  BY <1>3, <1>5 DEF Checkpoint, NInv, TypeOK
<1>6. CASE NotSaved(own, a)
  BY <1>3, <1>6 DEF NotSaved
<1> QED BY <1>4, <1>5, <1>6 DEF Checkpoint

(* A longer log has the whole events of the shorter one.                   *)
LEMMA LongerLog ==
  ASSUME TypeOK, NEW t \in Token
  PROVE  /\ Append(log, t) \in Seq(Token)
         /\ Len(Append(log, t)) = Len(log) + 1 /\ Append(log, t)[Len(log) + 1] = t
         /\ \A e : HasWhole(log, e) => HasWhole(Append(log, t), e)
<1>1. /\ Append(log, t) \in Seq(Token) /\ Len(Append(log, t)) = Len(log) + 1
      /\ Append(log, t)[Len(log) + 1] = t
      /\ \A i \in 1 .. Len(log) : Append(log, t)[i] = log[i]
  BY AppendProperties DEF TypeOK
<1>2. DOMAIN log = 1 .. Len(log) /\ Len(log) \in Nat /\ DOMAIN Append(log, t) = 1 .. Len(log) + 1
  BY <1>1, Sizes, LenProperties
<1>3. \A i \in DOMAIN log : i \in DOMAIN Append(log, t) /\ Append(log, t)[i] = log[i]
  BY <1>1, <1>2
<1>4. \A e : HasWhole(log, e) => HasWhole(Append(log, t), e)
  <2> HIDE DEF HasWhole
  <2> SUFFICES ASSUME NEW e, HasWhole(log, e) PROVE HasWhole(Append(log, t), e)
    OBVIOUS
  <2>1. PICK j \in DOMAIN log : log[j] = [ev |-> e, whole |-> TRUE]
    BY DEF HasWhole
  <2> QED BY <1>3, <2>1 DEF HasWhole
<1> QED BY <1>1, <1>4

(* The log at the end of a handler: its event whole, no other event less.  *)
LEMMA AppliedWhole ==
  ASSUME NInv, run # Idle
  PROVE  /\ Applied \in Seq(Token) /\ HasWhole(Applied, run.ev)
         /\ \A e \in Events : HasWhole(log, e) => HasWhole(Applied, e)
<1> DEFINE len == IF run.half THEN Len(log) ELSE Len(log) + 1
           t   == [ev |-> run.ev, whole |-> TRUE]
<1>1. run \in Runs /\ run.ev \in Events /\ t \in Token /\ Len(log) \in Nat /\ DOMAIN log = 1 .. Len(log)
      /\ run.half \in BOOLEAN
  BY Sizes, IdleFacts DEF NInv, Token
<1>2. len \in Nat /\ len > 0 /\ len - 1 <= Len(log)
  BY <1>1 DEF NInv, HalfIsLast
<1>3. \A i \in 1 .. Len(log) : log[i] \in Token
  BY ElementOfSeq DEF NInv, TypeOK
<1>4. Applied = [i \in 1 .. len |-> IF i = len THEN t ELSE log[i]]
  BY <1>1 DEF Applied
<1>5. run.half => len = Len(log) /\ ~log[len].whole
  BY DEF NInv, HalfIsLast
<1>6. ~run.half => len = Len(log) + 1
  OBVIOUS
<1>t. t.whole = TRUE
  OBVIOUS
<1> HIDE DEF len, t
<1>7. Applied \in [1 .. len -> Token]
  BY <1>1, <1>2, <1>3, <1>4
<1>8. Applied \in Seq(Token) /\ DOMAIN Applied = 1 .. len
  BY <1>2, <1>7, AsSeq
<1>9. Applied[len] = t /\ len \in 1 .. len
  BY <1>2, <1>4
<1>10. ASSUME NEW e \in Events, HasWhole(log, e) PROVE HasWhole(Applied, e)
  <2>1. PICK j \in 1 .. Len(log) : log[j] = [ev |-> e, whole |-> TRUE]
    BY <1>1, <1>10 DEF HasWhole
  <2>2. log[j].whole = TRUE
    BY <2>1
  <2>3. j # len
    <3>1. CASE run.half
      BY <1>5, <2>2, <3>1
    <3>2. CASE ~run.half
      BY <1>1, <1>6, <3>2
    <3> QED BY <3>1, <3>2
  <2>4. j \in 1 .. len
    <3>1. j \in Nat /\ 1 <= j /\ j <= Len(log)
      BY <1>1
    <3>2. Len(log) <= len
      BY <1>1, <1>5, <1>6
    <3> QED BY <1>2, <3>1, <3>2
  <2> QED BY <1>4, <1>8, <2>1, <2>3, <2>4 DEF HasWhole
<1> QED BY <1>8, <1>9, <1>10 DEF HasWhole, t

-----------------------------------------------------------------------------
(* Each step.                                                              *)

(* The end of a handler and its checkpoint, in the middle of one, or none. *)
LEMMA CheckpointsKeep ==
  ASSUME NInv, NEW ok \in BOOLEAN, NEW b \in BOOLEAN,
         NestedCheckpoint(ok) \/ Finish(ok) \/ Note(ok, b) \/ Intent(ok) \/ RetryCheckpoint(ok)
         \/ BookLateFills(ok)
  PROVE  NInv'
<1>1. /\ notes \in 0 .. MaxNotes /\ (notes < MaxNotes => notes + 1 \in 0 .. MaxNotes)
      /\ log \in Seq(Token) /\ armed \in BOOLEAN /\ promised \in 0 .. MaxNotes
      /\ (run # Idle => run \in Runs /\ run.ev \in Events /\ run.half \in BOOLEAN)
      /\ Idle.half = FALSE
  BY NotesAssumption, Sizes, IdleFacts DEF NInv, TypeOK
<1>2. CASE NestedCheckpoint(ok)
  <2> DEFINE t == [ev |-> run.ev, whole |-> FALSE]
  <2>1. Checkpoint({}, Append(log, t), notes, armed, ok) /\ run # Idle
        /\ run' = [run EXCEPT !.half = TRUE] /\ UNCHANGED <<boot, todo, promised>>
    BY <1>2 DEF NestedCheckpoint
  <2>2. t \in Token /\ t.whole = FALSE
    BY <1>1, <2>1 DEF Token
  <2> HIDE DEF t
  <2>3. /\ Append(log, t) \in Seq(Token)
        /\ Len(Append(log, t)) = Len(log) + 1 /\ Append(log, t)[Len(log) + 1] = t
        /\ \A e : HasWhole(log, e) => HasWhole(Append(log, t), e)
    BY <2>2, LongerLog DEF NInv
  <2>4. StoreOK' /\ Len(inbox') = Len(inbox) /\ NoEventLost' /\ SavedIsApplied' /\ OwedIsApplied'
    <3> DEFINE l == Append(log, t)
    <3>1. l \in Seq(Token) /\ (\A e \in Events : HasWhole(log, e) => HasWhole(l, e))
          /\ Checkpoint({}, l, notes, armed, ok)
      BY <2>1, <2>3
    <3> HIDE DEF l
    <3> QED BY <1>1, <3>1, CheckpointLosesNothing
  <2>5. run' \in Runs /\ run'.half = TRUE
    BY <1>1, <2>1, HalfWay
  <2>6. HalfIsLast'
    <3>1. log' = Append(log, t) /\ Len(log) \in Nat
      BY <2>1, Sizes DEF Checkpoint, NInv
    <3> QED BY <2>2, <2>3, <3>1 DEF HalfIsLast
  <2> QED BY <2>1, <2>4, <2>5, <2>6 DEF NInv, TypeOK, StoreOK
<1>3. CASE Finish(ok)
  <2>1. Checkpoint({run.ev}, Applied, notes, ArmedAfter(run.ev), ok) /\ run # Idle /\ run' = Idle
        /\ todo' \subseteq todo /\ UNCHANGED <<boot, promised>>
    BY <1>3 DEF Finish
  <2>2. /\ Applied \in Seq(Token) /\ HasWhole(Applied, run.ev)
        /\ \A e \in Events : HasWhole(log, e) => HasWhole(Applied, e)
    BY <2>1, AppliedWhole
  <2>3. ArmedAfter(run.ev) \in BOOLEAN
    BY <1>1 DEF ArmedAfter
  <2>4. StoreOK' /\ Len(inbox') = Len(inbox) /\ NoEventLost' /\ SavedIsApplied' /\ OwedIsApplied'
    <3>1. PICK l : l = Applied
      OBVIOUS
    <3>2. PICK a : a = ArmedAfter(run.ev)
      OBVIOUS
    <3>3. PICK own : own = {run.ev}
      OBVIOUS
    <3>4. own \in SUBSET Events /\ l \in Seq(Token) /\ a \in BOOLEAN /\ Checkpoint(own, l, notes, a, ok)
          /\ (\A e \in Events : HasWhole(log, e) => HasWhole(l, e)) /\ (\A e \in own : HasWhole(l, e))
      BY <1>1, <2>1, <2>2, <2>3, <3>1, <3>2, <3>3
    <3> QED BY <1>1, <3>4, CheckpointLosesNothing
  <2>5. HalfIsLast'
    BY <1>1, <2>1 DEF HalfIsLast
  <2> QED BY <2>1, <2>4, <2>5 DEF NInv, TypeOK, StoreOK
<1>4. CASE Note(ok, b) \/ Intent(ok) \/ RetryCheckpoint(ok) \/ BookLateFills(ok)
  <2>1. PICK n \in 0 .. MaxNotes, a \in BOOLEAN : Checkpoint({}, log, n, a, ok) /\ promised' \in {promised, n}
    BY <1>1, <1>4 DEF Note, Intent, RetryCheckpoint, BookLateFills
  <2>2. UNCHANGED <<run, boot, todo>> /\ log' = log
    BY <1>4, <2>1 DEF Note, Intent, RetryCheckpoint, BookLateFills, Checkpoint
  <2>3. StoreOK' /\ Len(inbox') = Len(inbox) /\ NoEventLost' /\ SavedIsApplied' /\ OwedIsApplied'
    BY <1>1, <2>1, CheckpointLosesNothing
  <2>4. HalfIsLast'
    BY <2>2 DEF NInv, HalfIsLast
  <2>5. promised' \in 0 .. MaxNotes
    BY <1>1, <2>1
  <2> QED BY <2>2, <2>3, <2>4, <2>5 DEF NInv, TypeOK, StoreOK
<1> QED BY <1>2, <1>3, <1>4

(* A new row is pending; a row that is there stays.                        *)
LEMMA BeginLosesNothing ==
  ASSUME NInv, NEW e \in Events, Begin(e)
  PROVE  NInv'
<1>1. /\ inflight' = inflight \cup {e} /\ run' = [ev |-> e, half |-> FALSE]
      /\ UNCHANGED <<disk, log, notes, armed, marked, boot, todo, promised, healthy>>
      /\ inbox' = inbox \/ inbox' = Append(inbox, [ev |-> e, st |-> "PENDING"])
  BY DEF Begin
<1>2. run' \in Runs /\ run'.half = FALSE
  BY <1>1, IdleFacts
<1>3. /\ inbox' \in Seq(Row) /\ Len(inbox') \in Nat /\ Len(inbox) <= Len(inbox')
      /\ \A i \in 1 .. Len(inbox') : inbox'[i].st = "COMMITTED" =>
           i \in 1 .. Len(inbox) /\ inbox'[i] = inbox[i]
  <2>1. CASE inbox' = inbox
    BY <2>1, Sizes DEF NInv, TypeOK
  <2>2. CASE inbox' = Append(inbox, [ev |-> e, st |-> "PENDING"])
    <3>1. /\ inbox' \in Seq(Row) /\ Len(inbox') = Len(inbox) + 1
          /\ inbox'[Len(inbox) + 1].st = "PENDING"
          /\ \A i \in 1 .. Len(inbox) : inbox'[i] = inbox[i]
      BY <2>2, AppendedRow DEF NInv, TypeOK
    <3>2. Len(inbox) \in Nat
      BY Sizes DEF NInv
    <3> QED BY <3>1, <3>2
  <2> QED BY <1>1, <2>1, <2>2
<1>4. TypeOK'
  <2>1. todo \in SUBSET (1 .. Len(inbox')) /\ Len(inbox) \in Nat
    BY <1>3, Sizes DEF NInv, TypeOK
  <2> QED BY <1>1, <1>2, <1>3, <2>1 DEF NInv, TypeOK
<1>5. NoEventLost'
  <2>1. DOMAIN inbox' = 1 .. Len(inbox') /\ DOMAIN inbox = 1 .. Len(inbox)
    BY <1>3, LenProperties, Sizes DEF NInv
  <2> QED BY <1>1, <1>3, <2>1 DEF NInv, NoEventLost
<1>6. SavedIsApplied' /\ OwedIsApplied' /\ HalfIsLast'
  BY <1>1, <1>2 DEF NInv, SavedIsApplied, OwedIsApplied, HalfIsLast
<1> QED BY <1>4, <1>5, <1>6 DEF NInv

(* A set of numbers has a smallest one.                                    *)
LEMMA Smallest ==
  ASSUME NEW T \in SUBSET Nat, T # {}
  PROVE  \E i \in T : \A j \in T : i <= j
<1> DEFINE R == OpToRel(<, Nat)
<1>1. \A i, j \in Nat : <<j, i>> \in R <=> j < i
  BY DEF OpToRel
<1>2. IsWellFoundedOn(R, Nat)
  BY NatLessThanWellFounded
<1> HIDE DEF R
<1>3. PICK i \in T : \A j \in T : ~(<<j, i>> \in R)
  BY <1>2, WFMin
<1>4. \A j \in T : ~(j < i)
  <2>1. \A j \in T : j \in Nat
    OBVIOUS
  <2> QED BY <1>1, <1>3, <2>1
<1>5. \A j \in T : i \in Nat /\ j \in Nat
  OBVIOUS
<1>6. \A j \in T : i <= j
  BY <1>4, <1>5
<1> QED BY <1>3, <1>6

(* The rows to replay are rows of the inbox.                               *)
LEMMA RowToDo ==
  ASSUME TypeOK, Replaying
  PROVE  NextRow \in todo /\ inbox[NextRow].ev \in Events
<1>1. todo \in SUBSET (1 .. Len(inbox)) /\ todo # {}
  BY DEF TypeOK, Replaying
<1>2. \E i \in todo : \A j \in todo : i <= j
  <2>1. todo \in SUBSET Nat /\ todo # {}
    BY <1>1
  <2> QED BY <2>1, Smallest
<1>3. NextRow \in todo
  BY <1>2 DEF NextRow
<1> QED BY <1>1, <1>3, Sizes

(* What is restored is what was saved; the marks are forgotten with the    *)
(* state they were about.                                                  *)
LEMMA RestartLosesNothing ==
  ASSUME NInv, Restart
  PROVE  NInv'
<1>1. disk.log \in Seq(Token) /\ disk.notes \in 0 .. MaxNotes /\ disk.armed \in BOOLEAN
  BY DEF NInv, TypeOK, State
<1>2. /\ log' = disk.log /\ notes' = disk.notes /\ armed' = disk.armed /\ inflight' = {} /\ marked' = {}
      /\ run' = Idle /\ boot' = "settle" /\ todo' = {} /\ healthy' = TRUE /\ UNCHANGED <<inbox, disk, promised>>
  BY DEF Restart
<1>3. TypeOK'
  BY <1>1, <1>2 DEF NInv, TypeOK
<1>4. NoEventLost' /\ SavedIsApplied' /\ OwedIsApplied' /\ HalfIsLast'
  BY <1>2, IdleFacts DEF NInv, NoEventLost, SavedIsApplied, OwedIsApplied, HalfIsLast
<1> QED BY <1>3, <1>4 DEF NInv


(* The steps that only move the startup on, refuse an event or do nothing. *)
LEMMA QuietLosesNothing ==
  ASSUME NInv, UNCHANGED <<inbox, disk, log, marked, run>>, TypeOK'
  PROVE  NInv'
BY DEF NInv, NoEventLost, SavedIsApplied, OwedIsApplied, HalfIsLast

(* Half of an event in the log is not the whole of one.                    *)
LEMMA EscapeLosesNothing ==
  ASSUME NInv, Escape
  PROVE  NInv'
<1>1. /\ run # Idle /\ run' = Idle
      /\ UNCHANGED <<inbox, disk, notes, armed, inflight, marked, boot, todo, promised, healthy>>
      /\ log' = log \/ log' = Append(log, [ev |-> run.ev, whole |-> FALSE])
  BY DEF Escape
<1>2. [ev |-> run.ev, whole |-> FALSE] \in Token
  BY <1>1, IdleFacts DEF NInv, TypeOK, Token
<1>3. log' \in Seq(Token) /\ \A e : HasWhole(log, e) => HasWhole(log', e)
  BY <1>1, <1>2, LongerLog DEF NInv, TypeOK
<1>4. TypeOK'
  BY <1>1, <1>3 DEF NInv, TypeOK
<1>5. NoEventLost' /\ HalfIsLast'
  BY <1>1, IdleFacts DEF NInv, NoEventLost, HalfIsLast
<1>6. SavedIsApplied' /\ OwedIsApplied'
  BY <1>1, <1>3 DEF NInv, SavedIsApplied, OwedIsApplied
<1> QED BY <1>4, <1>5, <1>6 DEF NInv

(* One more try of a checkpoint that is owed, at startup.                  *)
LEMMA RetryLosesNothing ==
  ASSUME NInv, ReplayRetry
  PROVE  NInv'
<1>1. CASE Restart
  BY <1>1, RestartLosesNothing
<1>2. CASE /\ Checkpoint({}, log, notes, armed, TRUE)
           /\ todo' = todo \ {NextRow} /\ UNCHANGED <<run, boot, promised>>
  <2>1. log \in Seq(Token) /\ notes \in 0 .. MaxNotes /\ armed \in BOOLEAN /\ log' = log
    BY <1>2 DEF NInv, TypeOK, Checkpoint
  <2>2. StoreOK' /\ Len(inbox') = Len(inbox) /\ NoEventLost' /\ SavedIsApplied' /\ OwedIsApplied'
    <3>1. PICK ok \in BOOLEAN : Checkpoint({}, log, notes, armed, ok)
      BY <1>2
    <3> QED BY <2>1, <3>1, CheckpointLosesNothing
  <2>3. HalfIsLast'
    BY <1>2, <2>1 DEF NInv, HalfIsLast
  <2> QED BY <1>2, <2>2, <2>3 DEF NInv, TypeOK, StoreOK
<1> QED BY <1>1, <1>2 DEF ReplayRetry

LEMMA LosesNothing == NInv /\ [Next]_vars => NInv'
<1> SUFFICES ASSUME NInv, [Next]_vars PROVE NInv'
  OBVIOUS
<1>1. CASE UNCHANGED vars
  BY <1>1 DEF vars, NInv, TypeOK, NoEventLost, SavedIsApplied, OwedIsApplied, HalfIsLast
<1>2. ASSUME NEW e \in Events, Deliver(e) PROVE NInv'
  BY <1>2, BeginLosesNothing DEF Deliver
<1>3. ASSUME NEW e \in Events, DropEvent(e) PROVE NInv'
  BY <1>3, QuietLosesNothing DEF DropEvent, NotBegun, NInv, TypeOK
<1>4. ASSUME NEW ok \in BOOLEAN, NEW b \in BOOLEAN,
             NestedCheckpoint(ok) \/ Finish(ok) \/ Note(ok, b) \/ Intent(ok) \/ RetryCheckpoint(ok)
             \/ BookLateFills(ok)
      PROVE  NInv'
  BY <1>4, CheckpointsKeep
<1>5. CASE StartReplay
  <2>1. Pending \in SUBSET (1 .. Len(inbox))
    BY Sizes DEF NInv, Pending
  <2>2. TypeOK'
    BY <1>5, <2>1 DEF StartReplay, NInv, TypeOK
  <2> QED BY <1>5, <2>2, QuietLosesNothing DEF StartReplay
<1>6. CASE Replay
  BY <1>6, RowToDo, BeginLosesNothing DEF Replay, NInv
<1>7. CASE ReplaySkips
  <2>1. healthy' \in BOOLEAN
    BY <1>7 DEF ReplaySkips, NotBegun, NInv, TypeOK
  <2> QED BY <1>7, <2>1, QuietLosesNothing DEF ReplaySkips, NInv, TypeOK
<1>8. CASE StartServing
  BY <1>8, QuietLosesNothing DEF StartServing, NInv, TypeOK
<1>9. CASE Crash
  BY <1>9, RestartLosesNothing DEF Crash
<1> QED
  BY <1>1, <1>2, <1>3, <1>4, <1>5, <1>6, <1>7, <1>8, <1>9, EscapeLosesNothing, RetryLosesNothing
  DEF Next, Handlers, Outside, Startup

LEMMA NothingLostYet == Init => NInv
<1> SUFFICES ASSUME Init PROVE NInv
  OBVIOUS
<1>1. inbox = <<>> /\ log = <<>> /\ disk.log = <<>> /\ run = Idle /\ marked = {} /\ todo = {}
  BY DEF Init
<1>2. TypeOK
  <2>1. inbox \in Seq(Row) /\ log \in Seq(Token) /\ todo \in SUBSET (1 .. Len(inbox))
    BY <1>1, EmptySeq
  <2>2. 0 \in 0 .. MaxNotes
    BY NotesAssumption
  <2>3. disk \in State
    BY <2>2, EmptySeq DEF Init, State
  <2> QED BY <2>1, <2>2, <2>3 DEF Init, TypeOK
<1>3. DOMAIN inbox = {} /\ DOMAIN disk.log = {}
  BY <1>1, EmptySeq
<1> QED BY <1>1, <1>2, <1>3, IdleFacts DEF NInv, NoEventLost, SavedIsApplied, OwedIsApplied, HalfIsLast, HasWhole

(* The state is of its type and no event is taken for done that is not, in *)
(* every run, whatever fails in it: crashes, checkpoints that cannot be    *)
(* written, events that cannot be staged, checkpoints half way through a   *)
(* handler, exceptions that leave one.  _checkpoint_runtime marks only     *)
(* events whose handler has come to its end.                               *)
THEOREM NothingLost == Spec => [](TypeOK /\ NoEventLost)
<1>1. NInv => TypeOK /\ NoEventLost
  BY DEF NInv
<1> QED BY <1>1, NothingLostYet, LosesNothing, PTL DEF Spec

=============================================================================
