------------------------------ MODULE OrbMorning ------------------------------
(***************************************************************************)
(* ORB's morning: the scheduler, its jobs, the decision process and the    *)
(* writer of the scheduler's state, over one session day.  Sources:        *)
(* core/orb_scheduler.py, core/orb_facade_proc.py, the state writers of    *)
(* core/orb_integration.py, and of strategies/orbs/facade.py which board   *)
(* may be decided.                                                         *)
(*                                                                         *)
(* The clock loop ticks the scheduler, which collects finished jobs and    *)
(* starts the next ones.  A job runs on a worker thread and asks the       *)
(* decision process, a child that can die or be given up for not           *)
(* answering, or sends the picks.  Every step of the morning is saved by   *)
(* a writer thread, the latest snapshot only; the job that sends waits     *)
(* for it.                                                                 *)
(*                                                                         *)
(* Left out: sizing and calendar jobs, ORB switched off, pacing, history   *)
(* and verdict rows, the second day.  The contents of a board are its      *)
(* symbols; a board's id is its content.                                   *)
(*                                                                         *)
(* An operator whose comment starts with "Fault:" is not part of the model *)
(* but a plausible bug in the definition after it.                         *)
(***************************************************************************)
EXTENDS Integers

CONSTANTS
  Symbols,    \* symbols a board may offer
  MaxScans,   \* bound: secondary scans
  MaxFaults   \* bound: things that go wrong

ASSUME BoundsAssumption == MaxScans \in Nat /\ MaxFaults \in Nat

\* 9:15, 9:36:10, 9:38:30, 9:45, 10:15
PREP == 1   PREVIEW == 2   FINAL == 3   SECONDARY == 4   CUTOFF == 5

VARIABLES
  now,      \* the time
  up,       \* the process runs
  st,       \* OrbScheduler.state
  prepped,  \* _prepped_day (memory)
  board,    \* _board, the committed primary board, if any (memory)
  jobs,     \* _jobs
  pending,  \* _sched_pending: the snapshot the writer has not taken yet, if any
  failed,   \* _sched_error
  disk,     \* the saved scheduler state
  child,    \* the decision process: it runs; its last successful board of a wave
  sent,     \* symbols ORB executed today (the controller's durable state)
  primary,  \* history: how often the controller was asked to execute the primary wave
  scans,    \* secondary scans so far
  faults    \* how much went wrong

vars == <<now, up, st, prepped, board, jobs, pending, failed, disk, child, sent, primary, scans, faults>>

-----------------------------------------------------------------------------

StepStates == {"pending", "running", "done", "failed", "skipped", "interrupted"}
Waves    == {"primary", "secondary"}
Asking   == {"prep", "preview", "final", "secondary_scan", "decide"}
JobNames == Asking \cup {"execute"}
Boards   == SUBSET Symbols

\* `picks` are a scan's cards or a decision's picks, `taken` the symbols it must not use
Jobs  == [st : {"idle", "running", "sending", "done"}, late : BOOLEAN, res : {"none", "ok", "bad", "refused"},
          wave : Waves, picks : Boards, taken : Boards, on : Boards]
State == [prep : StepStates, preview : StepStates, final : StepStates, primary : StepStates,
          final_ok : BOOLEAN, judged : Boards]

Idle   == [st |-> "idle", late |-> FALSE, res |-> "none", wave |-> "primary", picks |-> {}, taken |-> {}, on |-> {}]
NewDay == [prep |-> "pending", preview |-> "pending", final |-> "pending", primary |-> "pending",
           final_ok |-> FALSE, judged |-> {}]

TypeOK ==
  /\ now \in PREP .. CUTOFF /\ {up, prepped, failed} \subseteq BOOLEAN
  /\ st \in State /\ disk \in State /\ pending \subseteq State
  /\ board \subseteq Boards /\ jobs \in [JobNames -> Jobs]
  /\ child \in [up : BOOLEAN, last : [Waves -> SUBSET Boards]]
  /\ sent \in Boards /\ primary \in Nat /\ scans \in 0 .. MaxScans /\ faults \in 0 .. MaxFaults

Running(j, name) == j[name].st # "idle"
Fails    == faults < MaxFaults /\ faults' = faults + 1
Unfaulty == UNCHANGED faults

\* What one call of the scheduler changes
World == [st |-> st, prepped |-> prepped, board |-> board, jobs |-> jobs, pending |-> pending, scans |-> scans]
Becomes(w) ==
  /\ st' = w.st /\ prepped' = w.prepped /\ board' = w.board /\ jobs' = w.jobs
  /\ pending' = w.pending /\ scans' = w.scans

Persist(w) == [w EXCEPT !.pending = {w.st}]
Step(w, name, s) == Persist([w EXCEPT !.st[name] = s])
\* _start does nothing when a job of the name is there
Start(w, name, j) ==
  IF Running(w.jobs, name) THEN w ELSE [w EXCEPT !.jobs[name] = [j EXCEPT !.st = "running"]]

(* _entry_gate                                                             *)
Gate(wave) == now < CUTOFF /\ sent # Symbols /\ (wave = "secondary" => now = SECONDARY)

StartDecide(w, wave, cards) ==
  Start(w, "decide", [Idle EXCEPT !.wave = wave, !.on = cards, !.taken = sent])

-----------------------------------------------------------------------------
(* tick: what is due                                                       *)

MaybePrep(w) ==
  IF w.prepped \/ now = CUTOFF \/ Running(w.jobs, "prep") THEN w
  ELSE Start(Step(w, "prep", "running"), "prep", Idle)

MaybePreview(w) ==
  IF now < PREVIEW \/ w.st.preview # "pending" THEN w
  ELSE IF now >= FINAL \/ w.st.final # "pending" THEN Step(w, "preview", "skipped")
  ELSE IF ~w.prepped \/ Running(w.jobs, "preview") THEN w
  ELSE Start(Step(w, "preview", "running"), "preview", Idle)

MaybeFinal(w) ==
  IF now < FINAL \/ w.st.final # "pending" THEN w
  ELSE IF now = CUTOFF THEN Step(Step(w, "final", "skipped"), "primary", "skipped")
  ELSE IF Running(w.jobs, "prep") \/ Running(w.jobs, "preview") THEN w
  ELSE Start(Step(w, "final", "running"), "final", Idle)

(* The decision is claimed before the decider runs; without the board in   *)
(* memory (a restart) the scan is made again.                              *)
MaybePrimary(w) ==
  IF w.st.final # "done" \/ w.st.primary # "pending" \/ Running(w.jobs, "decide") \/ Running(w.jobs, "execute") THEN w
  ELSE IF ~Gate("primary") THEN Step(w, "primary", "skipped")
  ELSE IF w.board = {} THEN [w EXCEPT !.st.final = "pending"]
  ELSE StartDecide(Step(w, "primary", "running"), "primary", CHOOSE b \in w.board : TRUE)

MaybeSecondary(w) ==
  IF \/ now # SECONDARY \/ ~w.st.final_ok \/ sent = Symbols \/ w.scans = MaxScans
     \/ \E name \in {"secondary_scan", "decide", "execute"} : Running(w.jobs, name)
  THEN w
  ELSE Start(Persist([w EXCEPT !.scans = @ + 1]), "secondary_scan", [Idle EXCEPT !.wave = "secondary", !.taken = sent])

environment == <<now, up, failed, disk, child, sent, primary>>

Advance ==
  /\ up
  /\ \E w \in {MaybeSecondary(MaybePrimary(MaybeFinal(MaybePreview(MaybePrep(World)))))} :
       w # World /\ Becomes(w)
  /\ UNCHANGED <<environment, faults>>

-----------------------------------------------------------------------------
(* tick: _collect                                                          *)

OnPrep(w, j) == Step([w EXCEPT !.prepped = @ \/ j.res = "ok"], "prep", IF j.res = "ok" THEN "done" ELSE "failed")
OnPreview(w, j) == Step(w, "preview", IF j.res = "ok" THEN "done" ELSE "failed")

(* Fault: a failed scan leaves the decision open                           *)
OnFinalAlone(w, j) ==
  IF j.res = "ok" THEN Step([w EXCEPT !.st.final_ok = TRUE, !.board = {j.picks}], "final", "done")
  ELSE Step(w, "final", "failed")

OnFinal(w, j) ==
  IF j.res = "ok" THEN Step([w EXCEPT !.st.final_ok = TRUE, !.board = {j.picks}], "final", "done")
  ELSE Step(Step(w, "final", "failed"), "primary", "skipped")

\* the step of a primary wave; a secondary wave has none
Claim(w, wave, s) == IF wave = "primary" THEN Step(w, "primary", s) ELSE Persist(w)

OnDecide(w, j) ==
  IF j.res = "bad" THEN Claim(w, j.wave, "failed")
  ELSE IF j.res = "refused" \/ j.picks = {} \/ ~Gate(j.wave) THEN Claim(w, j.wave, "done")
  ELSE Start(Claim(w, j.wave, "running"), "execute", [Idle EXCEPT !.wave = j.wave, !.picks = j.picks])

OnSecondaryScan(w, j) ==
  IF j.res = "bad" \/ j.picks \subseteq w.st.judged \/ ~Gate("secondary") THEN Persist(w)
  ELSE StartDecide(Persist([w EXCEPT !.st.judged = @ \cup j.picks]), "secondary", j.picks)

OnExecute(w, j) == Claim(w, j.wave, "done")

On(name, w, j) ==
  CASE name = "prep"    -> OnPrep(w, j)
    [] name = "preview" -> OnPreview(w, j)
    [] name = "final"   -> OnFinal(w, j)
    [] name = "decide"  -> OnDecide(w, j)
    [] name = "execute" -> OnExecute(w, j)
    [] OTHER            -> OnSecondaryScan(w, j)

(* Fault: a late answer is better than none                                *)
DoneLate(name, j) == On(name, [World EXCEPT !.jobs[name] = Idle], j)

(* The job is forgotten; its answer counts only in time                    *)
Done(name, j) ==
  IF j.late THEN [World EXCEPT !.jobs[name] = Idle] ELSE On(name, [World EXCEPT !.jobs[name] = Idle], j)

Collect(name) ==
  /\ up /\ jobs[name].st = "done"
  /\ \E w \in {Done(name, jobs[name])} : Becomes(w)
  /\ UNCHANGED <<environment, faults>>

(* _on_late: past its deadline, a job's step has failed.  Sending has none. *)
Late(name) ==
  /\ up /\ name \in Asking /\ jobs[name].st = "running" /\ ~jobs[name].late
  /\ Fails
  /\ LET w == [World EXCEPT !.jobs[name].late = TRUE]
     IN  Becomes(CASE name = "final" -> Step(Step(w, "final", "failed"), "primary", "skipped")
                   [] name = "decide" -> Claim(w, jobs[name].wave, "failed")
                   [] name = "secondary_scan" -> Persist(w)
                   [] OTHER -> Step(w, name, "failed"))
  /\ UNCHANGED environment

-----------------------------------------------------------------------------
(* The worker threads                                                      *)

loop == <<now, up, st, prepped, board, pending, failed, disk, scans>>

Answer(name, j) == jobs' = [jobs EXCEPT ![name] = [j EXCEPT !.st = "done", !.late = jobs[name].late]]

(* A call that the decision process answers, or that fails                 *)
AnswerPlain(name) ==
  /\ name \in {"prep", "preview"} /\ jobs[name].st = "running"
  /\ \E r \in {"ok", "bad"} : (r = "ok" => child.up) /\ Answer(name, [jobs[name] EXCEPT !.res = r])
  /\ UNCHANGED <<loop, child, sent, primary, faults>>

(* facade.scan: a good scan is the last board of its wave                  *)
AnswerScan(name) ==
  /\ name \in {"final", "secondary_scan"} /\ jobs[name].st = "running"
  /\ LET j == jobs[name]
         wave == IF name = "final" THEN "primary" ELSE "secondary"
     IN  \/ /\ child.up
            /\ \E cards \in SUBSET (Symbols \ j.taken) :
                 /\ child' = [child EXCEPT !.last[wave] = {cards}]
                 /\ Answer(name, [j EXCEPT !.res = "ok", !.picks = cards])
         \/ Answer(name, [j EXCEPT !.res = "bad"]) /\ UNCHANGED child
  /\ UNCHANGED <<loop, sent, primary, faults>>

(* facade.decide: only its own last board of the wave, before the cutoff   *)
AnswerDecide ==
  /\ jobs["decide"].st = "running"
  /\ LET j == jobs["decide"]
         fit == child.up /\ j.on \in child.last[j.wave] /\ j.on # {} /\ now < CUTOFF
     IN  IF fit THEN \E picks \in SUBSET (j.on \ j.taken) :
                       Answer("decide", [j EXCEPT !.res = "ok", !.picks = picks])
         ELSE Answer("decide", [j EXCEPT !.res = IF child.up THEN "refused" ELSE "bad"])
  /\ UNCHANGED <<loop, child, sent, primary, faults>>

(* Fault: the orders do not wait for the claim                             *)
FlushNothing == jobs' = [jobs EXCEPT !["execute"].st = "sending"] /\ Unfaulty

(* flush_scheduler_state: until the writer is done, and not for ever       *)
Flush ==
  \/ pending = {} /\ ~failed /\ jobs' = [jobs EXCEPT !["execute"].st = "sending"] /\ Unfaulty
  \/ pending = {} /\ failed /\ Answer("execute", [jobs["execute"] EXCEPT !.res = "bad"]) /\ Unfaulty
  \/ pending # {} /\ Answer("execute", [jobs["execute"] EXCEPT !.res = "bad"]) /\ Fails

WaitForClaim == jobs["execute"].st = "running" /\ Flush /\ UNCHANGED <<loop, child, sent, primary>>

(* controller.execute: some of the picks go out, none of them a second     *)
(* time today, none while the decision process is down or past the cutoff. *)
Send ==
  /\ jobs["execute"].st = "sending"
  /\ LET j == jobs["execute"]
     IN  /\ \E out \in SUBSET IF child.up /\ now < CUTOFF THEN j.picks \ sent ELSE {} : sent' = sent \cup out
         /\ Answer("execute", [j EXCEPT !.res = "ok"])
         /\ primary' = IF j.wave = "primary" THEN primary + 1 ELSE primary
  /\ UNCHANGED <<loop, child, faults>>

(* _sched_writer: the latest snapshot; one that cannot be written is lost  *)
Write ==
  /\ up /\ pending # {} /\ pending' = {}
  /\ \/ disk' \in pending /\ failed' = FALSE /\ Unfaulty
     \/ UNCHANGED disk /\ failed' = TRUE /\ Fails
  /\ UNCHANGED <<now, up, st, prepped, board, jobs, child, sent, primary, scans>>

-----------------------------------------------------------------------------
(* The decision process, the clock, crashes                                *)

(* It died, or was given up over one call: every call under way fails.     *)
ChildDown ==
  /\ up /\ child.up /\ Fails
  /\ child' = [up |-> FALSE, last |-> [w \in Waves |-> {}]]
  /\ jobs' = [n \in JobNames |-> IF n \in Asking /\ jobs[n].st = "running"
                                 THEN [jobs[n] EXCEPT !.st = "done", !.res = "bad"] ELSE jobs[n]]
  /\ UNCHANGED <<loop, sent, primary>>

(* _check_facade starts another, which knows no board                      *)
ChildUp ==
  /\ up /\ ~child.up /\ child' = [child EXCEPT !.up = TRUE]
  /\ UNCHANGED <<loop, jobs, sent, primary, faults>>

Later ==
  /\ now < CUTOFF /\ now' = now + 1
  /\ UNCHANGED <<up, st, prepped, board, jobs, pending, failed, disk, child, sent, primary, scans, faults>>

Crash ==
  /\ up /\ Fails /\ up' = FALSE
  /\ jobs' = [n \in JobNames |-> Idle] /\ pending' = {} /\ failed' = FALSE
  /\ prepped' = FALSE /\ board' = {} /\ child' = [up |-> FALSE, last |-> [w \in Waves |-> {}]]
  /\ UNCHANGED <<now, st, disk, sent, primary, scans>>

(* Fault: a decision that was interrupted is made again                    *)
RestoredAgain(s) ==
  [s EXCEPT !.prep = IF @ = "running" THEN "pending" ELSE @, !.preview = IF @ = "running" THEN "pending" ELSE @,
            !.final = IF @ = "running" THEN "pending" ELSE @, !.primary = IF @ = "running" THEN "pending" ELSE @]

(* from_state                                                              *)
Restored(s) ==
  [s EXCEPT !.prep = IF @ = "running" THEN "pending" ELSE @, !.preview = IF @ = "running" THEN "pending" ELSE @,
            !.final = IF @ = "running" THEN "pending" ELSE @, !.primary = IF @ = "running" THEN "interrupted" ELSE @]

Restart ==
  /\ ~up /\ up' = TRUE /\ st' = Restored(disk)
  /\ UNCHANGED <<now, prepped, board, jobs, pending, failed, disk, child, sent, primary, scans, faults>>

-----------------------------------------------------------------------------
(* Specification                                                           *)

Init ==
  /\ now = PREP /\ up = TRUE /\ st = NewDay /\ disk = NewDay /\ prepped = FALSE /\ board = {}
  /\ jobs = [n \in JobNames |-> Idle] /\ pending = {} /\ failed = FALSE
  /\ child = [up |-> TRUE, last |-> [w \in Waves |-> {}]]
  /\ sent = {} /\ primary = 0 /\ scans = 0 /\ faults = 0

Collects == \E name \in JobNames : Collect(name)
Workers ==
  \/ \E name \in {"prep", "preview"} : AnswerPlain(name)
  \/ \E name \in {"final", "secondary_scan"} : AnswerScan(name)
  \/ AnswerDecide \/ WaitForClaim \/ Send

Next ==
  \/ Advance \/ Collects \/ Workers \/ Write \/ ChildDown \/ ChildUp \/ Later \/ Crash \/ Restart
  \/ \E name \in Asking : Late(name)

Spec == Init /\ [][Next]_vars

(* The loop ticks, the threads run, the clock goes on                      *)
FairSpec ==
  Spec /\ WF_vars(Advance) /\ WF_vars(Collects) /\ WF_vars(Workers) /\ WF_vars(Write) /\ WF_vars(ChildUp)
       /\ WF_vars(Later) /\ WF_vars(Restart)

-----------------------------------------------------------------------------
(* Properties                                                              *)

(* "once claimed it never runs twice in a day" (orb_scheduler.py): wherever *)
(* the process dies and whatever save fails, the primary wave is sent at   *)
(* most once, only while its step is open, and a restart knows of it.      *)
PrimaryOnce ==
  /\ primary <= 1
  /\ primary = 1 => disk.primary # "pending"
  /\ jobs["execute"].st # "idle" /\ jobs["execute"].wave = "primary" => st.primary = "running"

(* A step that failed or was skipped is never taken up again, by a late     *)
(* answer or otherwise.                                                    *)
ClosedStays ==
  [][up /\ up' => (st.primary \in {"done", "failed", "skipped", "interrupted"} => st'.primary = st.primary)]_vars

(* Every morning ends with a verdict on the 9:38 board, or with the reason *)
(* why there is none.                                                      *)
MorningEnds == <>[](up /\ st.primary \in {"done", "failed", "skipped", "interrupted"})

(* A symbol counts as judged only if the decider was asked about it.       *)
JudgedIsDecided ==
  [][up /\ up' /\ st'.judged # st.judged
       => jobs["decide"].st = "idle" /\ jobs'["decide"].st = "running"]_vars
=============================================================================
