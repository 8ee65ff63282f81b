---------------------------- MODULE MorningProofs ----------------------------
(***************************************************************************)
(* Theorems about a morning (MCMornings), each for its own turn.           *)
(*                                                                         *)
(* The scheduler (OrbMorning), for every set of symbols, any number of     *)
(* scans and any number of faults: the primary wave of a morning is sent   *)
(* once, and a step that is closed stays closed.  A tick is a chain of     *)
(* operators on what one call of the scheduler may change (a world), so    *)
(* the invariant is stated of worlds and each link of the chain is shown   *)
(* to keep it.                                                             *)
(*                                                                         *)
(* The owners (StockOwners), for every set of stocks and any lists of      *)
(* them, overlapping or not, any limits and any number of faults: two      *)
(* parts of the system never have orders or shares of the same stock, and  *)
(* the slots are shared.                                                   *)
(*                                                                         *)
(* The loss of a day (LossBudget), for any equity, limits and results: it  *)
(* is measured of the session itself, and an approved order fits into what *)
(* is left.                                                                *)
(*                                                                         *)
(* The operator's desk.  MCMornings reaches BracketLifecycle through an    *)
(* instance, and so do its theorems (BracketProofs).  Both instances have  *)
(* the same substitution; that their actions are the same is proved action *)
(* by action.                                                              *)
(***************************************************************************)
EXTENDS MCMornings, FiniteSetTheorems, TLAPS

-----------------------------------------------------------------------------
(* The scheduler: the inductive invariant                                  *)

(* What a saved state says: while the 9:38 scan is open nothing was decided. *)
Sound(s) == s.final \in {"pending", "running"} => s.primary = "pending"

Worlds ==
  [st : State, prepped : BOOLEAN, board : SUBSET Boards, jobs : [JobNames -> Jobs], pending : SUBSET State,
   scans : 0 .. MaxScans]

Present(w, name) == w.jobs[name].st # "idle"
Primary(w, name) == Present(w, name) /\ w.jobs[name].wave = "primary"

(* A scan that still counts is of a step under way.                        *)
ScanOpen(w) == Present(w, "final") /\ ~w.jobs["final"].late => w.st.final = "running"

(* A primary decision that still counts is of a claimed step, and nothing  *)
(* was sent for it.                                                        *)
DecideOpen(w) ==
  Primary(w, "decide") /\ ~w.jobs["decide"].late
    => w.st.primary = "running" /\ ~Primary(w, "execute") /\ primary = 0

(* So is the job that sends its picks; once it is past the flush, the      *)
(* claim is on disk.                                                       *)
SendOpen(w) ==
  Primary(w, "execute") =>
    /\ w.st.primary = "running"
    /\ w.jobs["execute"].st \in {"running", "sending"} => primary = 0
    /\ w.jobs["execute"].st = "sending" => disk.primary # "pending"

(* What the writer has to write is the claim as it is, and when it has     *)
(* nothing to write and nothing failed, the claim is written.              *)
Saving(w) ==
  /\ \A p \in w.pending : Sound(p) /\ p.primary = w.st.primary
  /\ disk.primary # "pending" => w.st.primary # "pending"
  /\ w.pending = {} /\ ~failed /\ w.st.primary # "pending" => disk.primary # "pending"

Good(w) == Sound(w.st) /\ ScanOpen(w) /\ DecideOpen(w) /\ SendOpen(w) /\ Saving(w)

(* What the disk knows.                                                    *)
Known == Sound(disk) /\ primary <= 1 /\ (primary = 1 => disk.primary # "pending")

MInv ==
  /\ TypeOK /\ Known
  /\ up => Good(World)
  /\ ~up => jobs = [n \in JobNames |-> Idle] /\ pending = {}
(* A step of the primary wave that was ended stays ended.                  *)
Closed == {"done", "failed", "skipped", "interrupted"}
Ended(s, r) == s.primary \in Closed => r.primary = s.primary

-----------------------------------------------------------------------------
(* Worlds                                                                  *)

LEMMA WorldOK ==
  ASSUME TypeOK
  PROVE  /\ World \in Worlds
         /\ World.st = st /\ World.prepped = prepped /\ World.board = board /\ World.jobs = jobs
         /\ World.pending = pending /\ World.scans = scans
BY DEF TypeOK, World, Worlds

LEMMA IdleJob == Idle \in Jobs /\ Idle.st = "idle"
BY DEF Idle, Jobs, Waves, Boards

LEMMA Fields ==
  ASSUME NEW w \in Worlds
  PROVE  /\ w.st \in State /\ w.prepped \in BOOLEAN /\ w.board \in SUBSET Boards
         /\ w.jobs \in [JobNames -> Jobs] /\ w.pending \in SUBSET State /\ w.scans \in 0 .. MaxScans
         /\ w.st.prep \in StepStates /\ w.st.preview \in StepStates /\ w.st.final \in StepStates
         /\ w.st.primary \in StepStates /\ w.st.final_ok \in BOOLEAN /\ w.st.judged \in Boards
         /\ \A n \in JobNames : w.jobs[n] \in Jobs
BY DEF Worlds, State

(* A step of the state is set, and the state given to the writer.          *)
LEMMA StepFacts ==
  ASSUME NEW w \in Worlds, NEW r \in State, NEW v, v = Persist([w EXCEPT !.st = r])
  PROVE  v \in Worlds /\ v.st = r /\ v.pending = {v.st} /\ v.jobs = w.jobs
<1>1. PICK u : u = [w EXCEPT !.st = r]
  OBVIOUS
<1>2. u \in Worlds /\ u.st = r /\ u.jobs = w.jobs
  BY <1>1 DEF Worlds
<1>3. v = [u EXCEPT !.pending = {r}]
  BY <1>1, <1>2 DEF Persist
<1> QED BY <1>2, <1>3 DEF Worlds

LEMMA StepPrep ==
  ASSUME NEW w \in Worlds, NEW s \in StepStates, NEW v, v = Step(w, "prep", s)
  PROVE  /\ v \in Worlds /\ v.pending = {v.st} /\ v.jobs = w.jobs
         /\ v.st.final = w.st.final /\ v.st.primary = w.st.primary
<1>1. PICK r : r = [w.st EXCEPT !.prep = s]
  OBVIOUS
<1>2. r \in State /\ r.final = w.st.final /\ r.primary = w.st.primary
  BY <1>1, Fields DEF State
<1>3. v = Persist([w EXCEPT !.st = r])
  BY <1>1 DEF Step, Worlds
<1> QED BY <1>2, <1>3, StepFacts

LEMMA StepPreview ==
  ASSUME NEW w \in Worlds, NEW s \in StepStates, NEW v, v = Step(w, "preview", s)
  PROVE  /\ v \in Worlds /\ v.pending = {v.st} /\ v.jobs = w.jobs
         /\ v.st.final = w.st.final /\ v.st.primary = w.st.primary
<1>1. PICK r : r = [w.st EXCEPT !.preview = s]
  OBVIOUS
<1>2. r \in State /\ r.final = w.st.final /\ r.primary = w.st.primary
  BY <1>1, Fields DEF State
<1>3. v = Persist([w EXCEPT !.st = r])
  BY <1>1 DEF Step, Worlds
<1> QED BY <1>2, <1>3, StepFacts

LEMMA StepFinal ==
  ASSUME NEW w \in Worlds, NEW s \in StepStates, NEW v, v = Step(w, "final", s)
  PROVE  /\ v \in Worlds /\ v.pending = {v.st} /\ v.jobs = w.jobs
         /\ v.st.final = s /\ v.st.primary = w.st.primary
<1>1. PICK r : r = [w.st EXCEPT !.final = s]
  OBVIOUS
<1>2. r \in State /\ r.final = s /\ r.primary = w.st.primary
  BY <1>1, Fields DEF State
<1>3. v = Persist([w EXCEPT !.st = r])
  BY <1>1 DEF Step, Worlds
<1> QED BY <1>2, <1>3, StepFacts

LEMMA StepPrimary ==
  ASSUME NEW w \in Worlds, NEW s \in StepStates, NEW v, v = Step(w, "primary", s)
  PROVE  /\ v \in Worlds /\ v.pending = {v.st} /\ v.jobs = w.jobs
         /\ v.st.final = w.st.final /\ v.st.primary = s
<1>1. PICK r : r = [w.st EXCEPT !.primary = s]
  OBVIOUS
<1>2. r \in State /\ r.final = w.st.final /\ r.primary = s
  BY <1>1, Fields DEF State
<1>3. v = Persist([w EXCEPT !.st = r])
  BY <1>1 DEF Step, Worlds
<1> QED BY <1>2, <1>3, StepFacts

(* A job is started, if there is none of its name.                         *)
LEMMA StartFacts ==
  ASSUME NEW w \in Worlds, NEW name \in JobNames, NEW j \in Jobs, NEW v, v = Start(w, name, j)
  PROVE  /\ v \in Worlds /\ v.st = w.st /\ v.pending = w.pending /\ v.prepped = w.prepped
         /\ v.board = w.board /\ v.scans = w.scans
         /\ name # "final" => v.jobs["final"] = w.jobs["final"]
         /\ name # "decide" => v.jobs["decide"] = w.jobs["decide"]
         /\ name # "execute" => v.jobs["execute"] = w.jobs["execute"]
         /\ IF Present(w, name) THEN v = w
            ELSE v.jobs[name].st = "running" /\ v.jobs[name].wave = j.wave /\ v.jobs[name].late = j.late
<1>1. CASE Present(w, name)
  BY <1>1 DEF Start, Running, Present
<1>2. CASE ~Present(w, name)
  <2> DEFINE r == [j EXCEPT !.st = "running"]
  <2>1. r \in Jobs /\ r.st = "running" /\ r.wave = j.wave /\ r.late = j.late
    BY DEF Jobs
  <2>2. v = [w EXCEPT !.jobs = [w.jobs EXCEPT ![name] = r]]
    BY <1>2 DEF Start, Running, Present, Worlds
  <2> HIDE DEF r
  <2>3. w.jobs \in [JobNames -> Jobs]
    BY Fields
  <2>4. v.jobs = [w.jobs EXCEPT ![name] = r] /\ v \in Worlds
    BY <2>1, <2>2, <2>3 DEF Worlds
  <2>5. /\ v.st = w.st /\ v.pending = w.pending /\ v.prepped = w.prepped
        /\ v.board = w.board /\ v.scans = w.scans
    BY <2>2 DEF Worlds
  <2>6. {"final", "decide", "execute"} \subseteq JobNames
    BY DEF JobNames, Asking
  <2>7. v.jobs[name] = r /\ \A n \in {"final", "decide", "execute"} : n # name => v.jobs[n] = w.jobs[n]
    BY <2>3, <2>4, <2>6
  <2> QED BY <1>2, <2>1, <2>4, <2>5, <2>7
<1> QED BY <1>1, <1>2

-----------------------------------------------------------------------------
(* tick: what is due                                                       *)

(* The claim, the scan and the jobs that hang on them are not touched.     *)
LEMMA Apart ==
  ASSUME NEW w \in Worlds, NEW v \in Worlds, Good(w),
         v.st.final = w.st.final, v.st.primary = w.st.primary,
         v.jobs["final"] = w.jobs["final"], v.jobs["decide"] = w.jobs["decide"],
         v.jobs["execute"] = w.jobs["execute"],
         v.pending = w.pending \/ v.pending = {v.st}
  PROVE  Good(v) /\ Ended(w.st, v.st)
<1>1. Sound(v.st)
  BY DEF Good, Sound
<1>2. ScanOpen(v)
  BY DEF Good, ScanOpen, Present
<1>3. DecideOpen(v) /\ SendOpen(v)
  BY DEF Good, DecideOpen, SendOpen, Primary, Present
<1>4. Saving(v)
  <2>1. \A p \in v.pending : Sound(p) /\ p.primary = v.st.primary
    BY <1>1 DEF Good, Saving
  <2>2. disk.primary # "pending" => v.st.primary # "pending"
    BY DEF Good, Saving
  <2>3. v.pending = {} /\ ~failed /\ v.st.primary # "pending" => disk.primary # "pending"
    BY DEF Good, Saving
  <2> QED BY <2>1, <2>2, <2>3 DEF Saving
<1> QED BY <1>1, <1>2, <1>3, <1>4 DEF Good, Ended

LEMMA PrepKeeps ==
  ASSUME NEW w \in Worlds, Good(w), NEW v, v = MaybePrep(w)
  PROVE  v \in Worlds /\ Good(v) /\ Ended(w.st, v.st)
<1>1. CASE v = w
  BY <1>1 DEF Ended
<1>2. CASE v = Start(Step(w, "prep", "running"), "prep", Idle)
  <2>1. PICK u : u = Step(w, "prep", "running")
    OBVIOUS
  <2>2. /\ u \in Worlds /\ u.pending = {u.st} /\ u.jobs = w.jobs
        /\ u.st.final = w.st.final /\ u.st.primary = w.st.primary
    BY <2>1, StepPrep DEF StepStates
  <2>3. /\ v \in Worlds /\ v.st = u.st /\ v.pending = u.pending
        /\ v.jobs["final"] = u.jobs["final"] /\ v.jobs["decide"] = u.jobs["decide"]
        /\ v.jobs["execute"] = u.jobs["execute"]
    <3>1. v = Start(u, "prep", Idle) /\ "prep" \in JobNames
      BY <1>2, <2>1 DEF JobNames, Asking
    <3> QED BY <2>2, <3>1, StartFacts, IdleJob
  <2> QED BY <2>2, <2>3, Apart
<1> QED BY <1>1, <1>2 DEF MaybePrep

LEMMA PreviewKeeps ==
  ASSUME NEW w \in Worlds, Good(w), NEW v, v = MaybePreview(w)
  PROVE  v \in Worlds /\ Good(v) /\ Ended(w.st, v.st)
<1>1. CASE v = w
  BY <1>1 DEF Ended
<1>2. CASE v = Step(w, "preview", "skipped")
  <2>1. /\ v \in Worlds /\ v.pending = {v.st} /\ v.jobs = w.jobs
        /\ v.st.final = w.st.final /\ v.st.primary = w.st.primary
    BY <1>2, StepPreview DEF StepStates
  <2> QED BY <2>1, Apart
<1>3. CASE v = Start(Step(w, "preview", "running"), "preview", Idle)
  <2>1. PICK u : u = Step(w, "preview", "running")
    OBVIOUS
  <2>2. /\ u \in Worlds /\ u.pending = {u.st} /\ u.jobs = w.jobs
        /\ u.st.final = w.st.final /\ u.st.primary = w.st.primary
    BY <2>1, StepPreview DEF StepStates
  <2>3. /\ v \in Worlds /\ v.st = u.st /\ v.pending = u.pending
        /\ v.jobs["final"] = u.jobs["final"] /\ v.jobs["decide"] = u.jobs["decide"]
        /\ v.jobs["execute"] = u.jobs["execute"]
    <3>1. /\ v = Start(u, "preview", Idle) /\ "preview" \in JobNames
      BY <1>3, <2>1 DEF JobNames, Asking
    <3> QED BY <2>2, <3>1, StartFacts, IdleJob
  <2> QED BY <2>2, <2>3, Apart
<1> QED BY <1>1, <1>2, <1>3 DEF MaybePreview

LEMMA FinalKeeps ==
  ASSUME NEW w \in Worlds, Good(w), NEW v, v = MaybeFinal(w)
  PROVE  v \in Worlds /\ Good(v) /\ Ended(w.st, v.st)
<1>1. CASE v = w
  BY <1>1 DEF Ended
<1>2. CASE w.st.final = "pending" /\ v = Step(Step(w, "final", "skipped"), "primary", "skipped")
  <2>1. PICK u : u = Step(w, "final", "skipped")
    OBVIOUS
  <2>2. u \in Worlds /\ u.jobs = w.jobs /\ u.st.final = "skipped" /\ u.st.primary = w.st.primary
    BY <2>1, StepFinal DEF StepStates
  <2>3. /\ v \in Worlds /\ v.pending = {v.st} /\ v.jobs = w.jobs
        /\ v.st.final = "skipped" /\ v.st.primary = "skipped"
    BY <1>2, <2>1, <2>2, StepPrimary DEF StepStates
  <2>4. w.st.primary = "pending"
    BY <1>2 DEF Good, Sound
  <2>5. Sound(v.st) /\ Ended(w.st, v.st)
    BY <2>3, <2>4 DEF Sound, Ended, Closed
  <2>6. ScanOpen(v)
    BY <1>2, <2>3 DEF Good, ScanOpen, Present
  <2>7. DecideOpen(v) /\ SendOpen(v)
    BY <2>3, <2>4 DEF Good, DecideOpen, SendOpen, Primary, Present
  <2>8. Saving(v)
    BY <2>3, <2>5 DEF Saving
  <2> QED BY <2>3, <2>5, <2>6, <2>7, <2>8 DEF Good
<1>3. CASE w.st.final = "pending" /\ v = Start(Step(w, "final", "running"), "final", Idle)
  <2>1. PICK u : u = Step(w, "final", "running")
    OBVIOUS
  <2>2. /\ u \in Worlds /\ u.pending = {u.st} /\ u.jobs = w.jobs /\ u.st.final = "running"
        /\ u.st.primary = w.st.primary
    BY <2>1, StepFinal DEF StepStates
  <2>3. /\ v \in Worlds /\ v.st = u.st /\ v.pending = u.pending
        /\ v.jobs["decide"] = u.jobs["decide"] /\ v.jobs["execute"] = u.jobs["execute"]
    <3>1. v = Start(u, "final", Idle) /\ "final" \in JobNames
      BY <1>3, <2>1 DEF JobNames, Asking
    <3> QED BY <2>2, <3>1, StartFacts, IdleJob
  <2>4. w.st.primary = "pending"
    BY <1>3 DEF Good, Sound
  <2>5. Sound(v.st) /\ Ended(w.st, v.st) /\ ScanOpen(v)
    BY <2>2, <2>3, <2>4 DEF Sound, Ended, ScanOpen
  <2>6. DecideOpen(v) /\ SendOpen(v)
    BY <2>2, <2>3 DEF Good, DecideOpen, SendOpen, Primary, Present
  <2>7. Saving(v)
    <3>1. disk.primary # "pending" => v.st.primary # "pending"
      BY <2>2, <2>3 DEF Good, Saving
    <3> QED BY <2>2, <2>3, <2>5, <3>1 DEF Saving
  <2> QED BY <2>3, <2>5, <2>6, <2>7 DEF Good
<1> QED BY <1>1, <1>2, <1>3 DEF MaybeFinal

(* The wave is claimed once: nothing was sent while its step is pending.   *)
LEMMA PrimaryKeeps ==
  ASSUME TypeOK, Known, NEW w \in Worlds, Good(w), NEW v, v = MaybePrimary(w)
  PROVE  v \in Worlds /\ Good(v) /\ Ended(w.st, v.st)
<1>1. CASE v = w
  BY <1>1 DEF Ended
<1>2. CASE w.st.final = "done" /\ w.st.primary = "pending" /\ v = Step(w, "primary", "skipped")
  <2>1. /\ v \in Worlds /\ v.pending = {v.st} /\ v.jobs = w.jobs
        /\ v.st.final = "done" /\ v.st.primary = "skipped"
    BY <1>2, StepPrimary DEF StepStates
  <2>2. Sound(v.st) /\ Ended(w.st, v.st)
    BY <1>2, <2>1 DEF Sound, Ended, Closed
  <2>3. ScanOpen(v) /\ DecideOpen(v) /\ SendOpen(v)
    BY <1>2, <2>1 DEF Good, ScanOpen, DecideOpen, SendOpen, Primary, Present
  <2>4. Saving(v)
    BY <2>1, <2>2 DEF Saving
  <2> QED BY <2>1, <2>2, <2>3, <2>4 DEF Good
<1>3. CASE w.st.final = "done" /\ w.st.primary = "pending" /\ v = [w EXCEPT !.st.final = "pending"]
  <2>1. PICK s : s = [w.st EXCEPT !.final = "pending"]
    OBVIOUS
  <2>2. s \in State /\ s.final = "pending" /\ s.primary = w.st.primary
    BY <2>1, Fields DEF State, StepStates
  <2>3. v = [w EXCEPT !.st = s]
    BY <1>3, <2>1 DEF Worlds
  <2>4. v \in Worlds /\ v.st = s /\ v.jobs = w.jobs /\ v.pending = w.pending
    BY <2>2, <2>3 DEF Worlds
  <2>5. Sound(v.st) /\ Ended(w.st, v.st)
    BY <1>3, <2>2, <2>4 DEF Sound, Ended
  <2>6. ScanOpen(v) /\ DecideOpen(v) /\ SendOpen(v)
    BY <1>3, <2>2, <2>4 DEF Good, ScanOpen, DecideOpen, SendOpen, Primary, Present
  <2>7. Saving(v)
    BY <2>2, <2>4 DEF Good, Saving
  <2> QED BY <2>4, <2>5, <2>6, <2>7 DEF Good
<1>4. CASE /\ w.st.final = "done" /\ w.st.primary = "pending" /\ w.board # {}
           /\ ~Running(w.jobs, "decide") /\ ~Running(w.jobs, "execute")
           /\ v = StartDecide(Step(w, "primary", "running"), "primary", CHOOSE b \in w.board : TRUE)
  <2>1. PICK u : u = Step(w, "primary", "running")
    OBVIOUS
  <2>2. PICK b \in Boards : b = CHOOSE x \in w.board : TRUE
    BY <1>4, Fields
  <2>3. PICK j : j = [Idle EXCEPT !.wave = "primary", !.on = b, !.taken = sent]
    OBVIOUS
  <2>4. j \in Jobs /\ j.wave = "primary" /\ j.late = FALSE
    BY <2>2, <2>3 DEF Idle, Jobs, Waves, Boards, TypeOK
  <2>5. /\ u \in Worlds /\ u.pending = {u.st} /\ u.jobs = w.jobs /\ u.st.final = "done"
        /\ u.st.primary = "running"
    BY <1>4, <2>1, StepPrimary DEF StepStates
  <2>6. ~Present(u, "decide") /\ ~Present(u, "execute")
    BY <1>4, <2>5 DEF Running, Present
  <2>7. v = Start(u, "decide", j)
    BY <1>4, <2>1, <2>2, <2>3 DEF StartDecide
  <2>8. /\ v \in Worlds /\ v.st = u.st /\ v.pending = u.pending
        /\ v.jobs["final"] = w.jobs["final"] /\ ~Present(v, "execute")
    <3>1. "decide" \in JobNames
      BY DEF JobNames, Asking
    <3>2. /\ v \in Worlds /\ v.st = u.st /\ v.pending = u.pending
          /\ v.jobs["final"] = u.jobs["final"] /\ v.jobs["execute"] = u.jobs["execute"]
      BY <2>4, <2>5, <2>7, <3>1, StartFacts
    <3> QED BY <2>5, <2>6, <3>2 DEF Present
  <2>9. primary = 0
    <3>1. disk.primary = "pending"
      BY <1>4 DEF Good, Saving
    <3> QED BY <3>1 DEF Known, TypeOK
  <2>10. Sound(v.st) /\ Ended(w.st, v.st)
    BY <1>4, <2>5, <2>8 DEF Sound, Ended, Closed
  <2>11. ScanOpen(v)
    BY <1>4, <2>8 DEF Good, ScanOpen, Present
  <2>12. DecideOpen(v) /\ SendOpen(v)
    BY <2>5, <2>8, <2>9 DEF DecideOpen, SendOpen, Primary
  <2>13. Saving(v)
    BY <2>5, <2>8, <2>10 DEF Saving
  <2> QED BY <2>8, <2>10, <2>11, <2>12, <2>13 DEF Good
<1> QED BY <1>1, <1>2, <1>3, <1>4 DEF MaybePrimary

LEMMA SecondaryKeeps ==
  ASSUME TypeOK, NEW w \in Worlds, Good(w), NEW v, v = MaybeSecondary(w)
  PROVE  v \in Worlds /\ Good(v) /\ Ended(w.st, v.st)
<1>1. CASE v = w
  BY <1>1 DEF Ended
<1>2. CASE /\ w.scans # MaxScans
           /\ v = Start(Persist([w EXCEPT !.scans = @ + 1]), "secondary_scan",
                        [Idle EXCEPT !.wave = "secondary", !.taken = sent])
  <2>1. PICK u : u = Persist([w EXCEPT !.scans = @ + 1])
    OBVIOUS
  <2>2. PICK j : j = [Idle EXCEPT !.wave = "secondary", !.taken = sent]
    OBVIOUS
  <2>3. j \in Jobs
    BY <2>2 DEF Idle, Jobs, Waves, Boards, TypeOK
  <2>4. w.scans + 1 \in 0 .. MaxScans
    BY <1>2, Fields, BoundsAssumption
  <2>5. u \in Worlds /\ u.st = w.st /\ u.jobs = w.jobs /\ u.pending = {u.st}
    BY <2>1, <2>4 DEF Persist, Worlds
  <2>6. /\ v \in Worlds /\ v.st = u.st /\ v.pending = u.pending
        /\ v.jobs["final"] = u.jobs["final"] /\ v.jobs["decide"] = u.jobs["decide"]
        /\ v.jobs["execute"] = u.jobs["execute"]
    <3>1. /\ v = Start(u, "secondary_scan", j) /\ "secondary_scan" \in JobNames
      BY <1>2, <2>1, <2>2 DEF JobNames, Asking
    <3> QED BY <2>3, <2>5, <3>1, StartFacts
  <2> QED BY <2>5, <2>6, Apart
<1> QED BY <1>1, <1>2 DEF MaybeSecondary

-----------------------------------------------------------------------------
(* tick: finished and late jobs                                            *)

(* The 9:38 scan has ended, and with it, if it failed, the decision.       *)
LEMMA ScanEnds ==
  ASSUME NEW w \in Worlds, NEW v \in Worlds, Good(w), ScanOpen(v),
         v.st.final \notin {"pending", "running"}, v.pending = {v.st},
         v.jobs["decide"] = w.jobs["decide"], v.jobs["execute"] = w.jobs["execute"],
         v.st.primary = w.st.primary \/ (w.st.primary = "pending" /\ v.st.primary # "pending")
  PROVE  Good(v) /\ Ended(w.st, v.st)
<1>1. Sound(v.st) /\ Ended(w.st, v.st)
  BY DEF Sound, Ended, Closed
<1>2. DecideOpen(v) /\ SendOpen(v)
  BY DEF Good, DecideOpen, SendOpen, Primary, Present
<1>3. disk.primary # "pending" => v.st.primary # "pending"
  BY DEF Good, Saving
<1>4. Saving(v)
  BY <1>1, <1>3 DEF Saving
<1> QED BY <1>1, <1>2, <1>4 DEF Good

(* A claimed wave that no job stands for any more.                         *)
LEMMA ClaimEnds ==
  ASSUME NEW w \in Worlds, Good(w), w.st.primary = "running", ~Primary(w, "execute"),
         Primary(w, "decide") => w.jobs["decide"].late,
         NEW s \in {"failed", "done", "running"}, NEW v, v = Step(w, "primary", s)
  PROVE  /\ v \in Worlds /\ v.jobs = w.jobs /\ v.st.primary = s /\ v.pending = {v.st}
         /\ Good(v) /\ Ended(w.st, v.st)
<1>1. /\ v \in Worlds /\ v.jobs = w.jobs /\ v.st.primary = s /\ v.pending = {v.st}
      /\ v.st.final = w.st.final
  BY StepPrimary DEF StepStates
<1>2. Sound(v.st) /\ Ended(w.st, v.st)
  BY <1>1 DEF Good, Sound, Ended, Closed
<1>3. ScanOpen(v) /\ DecideOpen(v) /\ SendOpen(v)
  BY <1>1 DEF Good, ScanOpen, DecideOpen, SendOpen, Primary, Present
<1>4. Saving(v)
  BY <1>1, <1>2 DEF Saving
<1> QED BY <1>1, <1>2, <1>3, <1>4 DEF Good

LEMMA PersistKeeps ==
  ASSUME NEW w \in Worlds, Good(w), NEW v, v = Persist(w)
  PROVE  v \in Worlds /\ v.st = w.st /\ v.jobs = w.jobs /\ v.pending = {v.st} /\ Good(v) /\ Ended(w.st, v.st)
<1>1. v \in Worlds /\ v.st = w.st /\ v.jobs = w.jobs /\ v.pending = {v.st}
  BY DEF Persist, Worlds
<1> QED BY <1>1, Apart

(* A finished job is taken out; what is left is as good.                   *)
LEMMA TakenOut ==
  ASSUME TypeOK, Good(World), NEW name \in JobNames, NEW w, w = [World EXCEPT !.jobs[name] = Idle]
  PROVE  /\ w \in Worlds /\ Good(w) /\ w.st = st /\ w.pending = pending /\ ~Present(w, name)
         /\ name # "final" => w.jobs["final"] = jobs["final"]
         /\ name # "decide" => w.jobs["decide"] = jobs["decide"]
         /\ name # "execute" => w.jobs["execute"] = jobs["execute"]
<1>1. World \in Worlds /\ World.st = st /\ World.jobs = jobs /\ World.pending = pending
  BY WorldOK
<1>2. PICK q : q = [jobs EXCEPT ![name] = Idle]
  OBVIOUS
<1>3. q \in [JobNames -> Jobs] /\ q[name] = Idle
  BY <1>2, IdleJob DEF TypeOK
<1>4. /\ name # "final" => q["final"] = jobs["final"]
      /\ name # "decide" => q["decide"] = jobs["decide"]
      /\ name # "execute" => q["execute"] = jobs["execute"]
  <2>1. {"final", "decide", "execute"} \subseteq JobNames
    BY DEF JobNames, Asking
  <2> QED BY <1>2, <2>1 DEF TypeOK
<1>5. w = [World EXCEPT !.jobs = q]
  BY <1>1, <1>2 DEF Worlds
<1>6. w \in Worlds /\ w.st = st /\ w.pending = pending /\ w.jobs = q
  BY <1>1, <1>3, <1>5 DEF Worlds
<1>7. ~Present(w, name)
  BY <1>3, <1>6, IdleJob DEF Present
<1>8. ScanOpen(w) /\ DecideOpen(w) /\ SendOpen(w)
  <2>1. ScanOpen(w)
    BY <1>1, <1>4, <1>6, <1>7 DEF Good, ScanOpen, Present
  <2>2. Primary(w, "decide") => w.jobs["decide"] = jobs["decide"] /\ Primary(World, "decide")
    BY <1>1, <1>4, <1>6, <1>7 DEF Primary, Present
  <2>3. Primary(w, "execute") => w.jobs["execute"] = jobs["execute"] /\ Primary(World, "execute")
    BY <1>1, <1>4, <1>6, <1>7 DEF Primary, Present
  <2>4. DecideOpen(w)
    BY <1>1, <1>6, <2>2, <2>3 DEF Good, DecideOpen
  <2>5. SendOpen(w)
    BY <1>1, <1>6, <2>3 DEF Good, SendOpen
  <2> QED BY <2>1, <2>4, <2>5
<1>9. Sound(w.st) /\ Saving(w)
  BY <1>1, <1>6 DEF Good, Saving
<1> QED BY <1>4, <1>6, <1>7, <1>8, <1>9 DEF Good

LEMMA OnFinalKeeps ==
  ASSUME NEW w \in Worlds, Good(w), ~Present(w, "final"), w.st.final = "running", NEW j \in Jobs,
         NEW v, v = OnFinal(w, j)
  PROVE  v \in Worlds /\ Good(v) /\ Ended(w.st, v.st)
<1>1. CASE v = Step([w EXCEPT !.st.final_ok = TRUE, !.board = {j.picks}], "final", "done")
  <2>1. PICK u : u = [w EXCEPT !.st.final_ok = TRUE, !.board = {j.picks}]
    OBVIOUS
  <2>2. PICK s : s = [w.st EXCEPT !.final_ok = TRUE]
    OBVIOUS
  <2>3. s \in State /\ s.primary = w.st.primary
    BY <2>2, Fields DEF State
  <2>4. u = [[w EXCEPT !.st = s] EXCEPT !.board = {j.picks}]
    BY <2>1, <2>2 DEF Worlds
  <2>5. {j.picks} \in SUBSET Boards
    BY DEF Jobs
  <2>6. u \in Worlds /\ u.st = s /\ u.jobs = w.jobs
    BY <2>3, <2>4, <2>5 DEF Worlds
  <2>7. /\ v \in Worlds /\ v.pending = {v.st} /\ v.jobs = w.jobs /\ v.st.final = "done"
        /\ v.st.primary = w.st.primary
    <3>1. v = Step(u, "final", "done") /\ "done" \in StepStates
      BY <1>1, <2>1 DEF StepStates
    <3>2. /\ v \in Worlds /\ v.pending = {v.st} /\ v.jobs = u.jobs /\ v.st.final = "done"
          /\ v.st.primary = u.st.primary
      BY <2>6, <3>1, StepFinal
    <3> QED BY <2>3, <2>6, <3>2
  <2>8. ScanOpen(v)
    BY <2>7 DEF ScanOpen, Present
  <2> QED BY <2>7, <2>8, ScanEnds
<1>2. CASE v = Step(Step(w, "final", "failed"), "primary", "skipped")
  <2>1. PICK u : u = Step(w, "final", "failed")
    OBVIOUS
  <2>2. u \in Worlds /\ u.jobs = w.jobs /\ u.st.final = "failed"
    BY <2>1, StepFinal DEF StepStates
  <2>3. /\ v \in Worlds /\ v.pending = {v.st} /\ v.jobs = w.jobs /\ v.st.final = "failed"
        /\ v.st.primary = "skipped"
    BY <1>2, <2>1, <2>2, StepPrimary DEF StepStates
  <2>4. w.st.primary = "pending"
    BY DEF Good, Sound
  <2>5. ScanOpen(v)
    BY <2>3 DEF ScanOpen, Present
  <2> QED BY <2>3, <2>4, <2>5, ScanEnds
<1> QED BY <1>1, <1>2 DEF OnFinal

LEMMA OnDecideKeeps ==
  ASSUME NEW w \in Worlds, Good(w), ~Present(w, "decide"), NEW j \in Jobs,
         j.wave = "primary" => w.st.primary = "running" /\ ~Primary(w, "execute") /\ primary = 0,
         NEW v, v = OnDecide(w, j)
  PROVE  v \in Worlds /\ Good(v) /\ Ended(w.st, v.st)
<1>1. ASSUME NEW s \in {"failed", "done", "running"}, NEW u, u = Claim(w, j.wave, s)
      PROVE  /\ u \in Worlds /\ Good(u) /\ Ended(w.st, u.st) /\ u.jobs = w.jobs
             /\ j.wave = "primary" => u.st.primary = s
  <2>1. CASE j.wave = "primary"
    <3>1. Primary(w, "decide") => w.jobs["decide"].late
      BY DEF Primary
    <3> QED BY <1>1, <2>1, <3>1, ClaimEnds DEF Claim
  <2>2. CASE j.wave # "primary"
    BY <1>1, <2>2, PersistKeeps DEF Claim
  <2> QED BY <2>1, <2>2
<1>2. CASE v = Claim(w, j.wave, "failed")
  BY <1>1, <1>2
<1>3. CASE v = Claim(w, j.wave, "done")
  BY <1>1, <1>3
<1>4. CASE v = Start(Claim(w, j.wave, "running"), "execute", [Idle EXCEPT !.wave = j.wave, !.picks = j.picks])
  <2>1. PICK u : u = Claim(w, j.wave, "running")
    OBVIOUS
  <2>2. PICK k : k = [Idle EXCEPT !.wave = j.wave, !.picks = j.picks]
    OBVIOUS
  <2>3. k \in Jobs /\ k.wave = j.wave
    <3>1. j.wave \in Waves /\ j.picks \in Boards
      BY DEF Jobs
    <3> QED BY <2>2, <3>1 DEF Idle, Jobs, Boards
  <2>4. /\ u \in Worlds /\ Good(u) /\ Ended(w.st, u.st) /\ u.jobs = w.jobs
        /\ j.wave = "primary" => u.st.primary = "running"
    BY <1>1, <2>1
  <2>5. "execute" \in JobNames /\ v = Start(u, "execute", k)
    BY <1>4, <2>1, <2>2 DEF JobNames
  <2>6. /\ v \in Worlds /\ v.st = u.st /\ v.pending = u.pending
        /\ v.jobs["final"] = w.jobs["final"] /\ v.jobs["decide"] = w.jobs["decide"]
        /\ IF Present(u, "execute") THEN v = u
           ELSE v.jobs["execute"].st = "running" /\ v.jobs["execute"].wave = j.wave
    BY <2>3, <2>4, <2>5, StartFacts
  <2>7. CASE Present(u, "execute")
    BY <2>4, <2>6, <2>7
  <2>8. CASE ~Present(u, "execute")
    <3>1. ScanOpen(v)
      BY <2>4, <2>6 DEF Good, ScanOpen, Present
    <3>2. DecideOpen(v)
      BY <2>6 DEF DecideOpen, Primary, Present
    <3>3. SendOpen(v)
      BY <2>4, <2>6, <2>8 DEF SendOpen, Primary
    <3>4. Sound(v.st) /\ Saving(v)
      BY <2>4, <2>6 DEF Good, Saving
    <3> QED BY <2>4, <2>6, <3>1, <3>2, <3>3, <3>4 DEF Good
  <2> QED BY <2>7, <2>8
<1> QED BY <1>2, <1>3, <1>4 DEF OnDecide

LEMMA OnScanKeeps ==
  ASSUME TypeOK, NEW w \in Worlds, Good(w), NEW j \in Jobs, NEW v, v = OnSecondaryScan(w, j)
  PROVE  v \in Worlds /\ Good(v) /\ Ended(w.st, v.st)
<1>1. CASE v = Persist(w)
  BY <1>1, PersistKeeps
<1>2. CASE v = StartDecide(Persist([w EXCEPT !.st.judged = @ \cup j.picks]), "secondary", j.picks)
  <2>1. PICK x : x = [w EXCEPT !.st.judged = @ \cup j.picks]
    OBVIOUS
  <2>2. PICK s : s = [w.st EXCEPT !.judged = @ \cup j.picks]
    OBVIOUS
  <2>3. j.picks \in Boards
    BY DEF Jobs
  <2>4. s \in State /\ s.primary = w.st.primary /\ s.final = w.st.final
    BY <2>2, <2>3, Fields DEF State, Boards
  <2>5. x = [w EXCEPT !.st = s]
    BY <2>1, <2>2 DEF Worlds
  <2>6. x \in Worlds /\ x.st = s /\ x.jobs = w.jobs /\ x.pending = w.pending
    BY <2>4, <2>5 DEF Worlds
  <2>7. Good(x)
    BY <2>4, <2>6, Apart
  <2>8. PICK u : u = Persist(x)
    OBVIOUS
  <2>9. u \in Worlds /\ Good(u) /\ u.st = s /\ u.jobs = w.jobs
    BY <2>6, <2>7, <2>8, PersistKeeps
  <2>10. PICK k : k = [Idle EXCEPT !.wave = "secondary", !.on = j.picks, !.taken = sent]
    OBVIOUS
  <2>11. k \in Jobs /\ k.wave = "secondary"
    BY <2>3, <2>10 DEF Idle, Jobs, Waves, Boards, TypeOK
  <2>12. "decide" \in JobNames /\ v = Start(u, "decide", k)
    BY <1>2, <2>1, <2>8, <2>10 DEF StartDecide, JobNames, Asking
  <2>13. /\ v \in Worlds /\ v.st = u.st /\ v.pending = u.pending
         /\ v.jobs["final"] = u.jobs["final"] /\ v.jobs["execute"] = u.jobs["execute"]
         /\ IF Present(u, "decide") THEN v = u ELSE v.jobs["decide"].wave = "secondary"
    BY <2>9, <2>11, <2>12, StartFacts
  <2>14. Good(v)
    <3>1. CASE Present(u, "decide")
      BY <2>9, <2>13, <3>1
    <3>2. CASE ~Present(u, "decide")
      <4>1. ScanOpen(v) /\ SendOpen(v)
        BY <2>9, <2>13 DEF Good, ScanOpen, SendOpen, Primary, Present
      <4>2. DecideOpen(v)
        BY <2>13, <3>2 DEF DecideOpen, Primary
      <4>3. Sound(v.st) /\ Saving(v)
        BY <2>9, <2>13 DEF Good, Saving
      <4> QED BY <4>1, <4>2, <4>3 DEF Good
    <3> QED BY <3>1, <3>2
  <2> QED BY <2>4, <2>9, <2>13, <2>14 DEF Ended
<1> QED BY <1>1, <1>2 DEF OnSecondaryScan

LEMMA CollectKeeps ==
  ASSUME TypeOK, Known, Good(World), NEW name \in JobNames, jobs[name].st = "done",
         NEW v, v = Done(name, jobs[name])
  PROVE  v \in Worlds /\ Good(v) /\ Ended(st, v.st)
<1>1. PICK w : w = [World EXCEPT !.jobs[name] = Idle]
  OBVIOUS
<1>2. /\ w \in Worlds /\ Good(w) /\ w.st = st /\ w.pending = pending /\ ~Present(w, name)
      /\ name # "final" => w.jobs["final"] = jobs["final"]
      /\ name # "decide" => w.jobs["decide"] = jobs["decide"]
      /\ name # "execute" => w.jobs["execute"] = jobs["execute"]
  BY <1>1, TakenOut
<1>3. World.st = st /\ World.jobs = jobs
  BY WorldOK
<1>4. PICK j : j = jobs[name]
  OBVIOUS
<1>5. j \in Jobs /\ j.wave \in Waves /\ j.st = "done"
  BY <1>4 DEF TypeOK, Jobs
<1>6. CASE v = w
  BY <1>2, <1>6 DEF Ended
<1>7. CASE ~j.late /\ v = On(name, w, j)
  <2>1. CASE name = "prep"
    <3>1. v = OnPrep(w, j)
      BY <1>7, <2>1 DEF On
    <3>2. PICK u : u = [w EXCEPT !.prepped = @ \/ j.res = "ok"]
      OBVIOUS
    <3>3. u \in Worlds /\ u.st = w.st /\ u.jobs = w.jobs
      BY <1>2, <3>2 DEF Worlds
    <3>4. PICK s \in {"done", "failed"} : v = Step(u, "prep", s)
      BY <3>1, <3>2 DEF OnPrep
    <3>5. s \in StepStates
      BY DEF StepStates
    <3>6. /\ v \in Worlds /\ v.pending = {v.st} /\ v.jobs = u.jobs
          /\ v.st.final = u.st.final /\ v.st.primary = u.st.primary
      BY <3>3, <3>4, <3>5, StepPrep
    <3> QED BY <1>2, <3>3, <3>6, Apart
  <2>2. CASE name = "preview"
    <3>1. PICK s \in {"done", "failed"} : v = Step(w, "preview", s)
      BY <1>7, <2>2 DEF On, OnPreview
    <3>2. s \in StepStates
      BY DEF StepStates
    <3>3. /\ v \in Worlds /\ v.pending = {v.st} /\ v.jobs = w.jobs
          /\ v.st.final = w.st.final /\ v.st.primary = w.st.primary
      BY <1>2, <3>1, <3>2, StepPreview
    <3> QED BY <1>2, <3>3, Apart
  <2>3. CASE name = "final"
    <3>1. v = OnFinal(w, j)
      BY <1>7, <2>3 DEF On
    <3>2. w.st.final = "running"
      BY <1>2, <1>3, <1>4, <1>5, <1>7, <2>3 DEF Good, ScanOpen, Present
    <3> QED BY <1>2, <1>5, <2>3, <3>1, <3>2, OnFinalKeeps
  <2>4. CASE name = "decide"
    <3>1. v = OnDecide(w, j)
      BY <1>7, <2>4 DEF On
    <3>2. j.wave = "primary" => st.primary = "running" /\ ~Primary(World, "execute") /\ primary = 0
      BY <1>3, <1>4, <1>5, <1>7, <2>4 DEF Good, DecideOpen, Primary, Present
    <3>3. Primary(w, "execute") => Primary(World, "execute")
      BY <1>2, <1>3, <2>4 DEF Primary, Present
    <3> QED BY <1>2, <1>5, <2>4, <3>1, <3>2, <3>3, OnDecideKeeps
  <2>5. CASE name = "execute"
    <3>1. v = Claim(w, j.wave, "done")
      BY <1>7, <2>5 DEF On, OnExecute
    <3>2. CASE j.wave = "primary"
      <4>1. Primary(World, "execute")
        BY <1>3, <1>4, <1>5, <2>5, <3>2 DEF Primary, Present
      <4>2. w.st.primary = "running"
        BY <1>2, <1>3, <4>1 DEF Good, SendOpen
      <4>3. ~Primary(w, "execute")
        BY <1>2, <2>5 DEF Primary
      <4>4. Primary(w, "decide") => w.jobs["decide"].late
        BY <1>2, <1>3, <2>5, <4>1 DEF Good, DecideOpen, Primary, Present
      <4> QED BY <1>2, <3>1, <3>2, <4>2, <4>3, <4>4, ClaimEnds DEF Claim
    <3>3. CASE j.wave # "primary"
      BY <1>2, <3>1, <3>3, PersistKeeps DEF Claim
    <3> QED BY <3>2, <3>3
  <2>6. CASE name = "secondary_scan"
    <3>1. v = OnSecondaryScan(w, j)
      BY <1>7, <2>6 DEF On
    <3> QED BY <1>2, <1>5, <3>1, OnScanKeeps
  <2> QED BY <2>1, <2>2, <2>3, <2>4, <2>5, <2>6 DEF JobNames, Asking
<1> QED BY <1>1, <1>4, <1>6, <1>7 DEF Done

(* A job is marked as late: it counts less.                                *)
LEMMA LateJob ==
  ASSUME TypeOK, Good(World), NEW name \in Asking, NEW w, w = [World EXCEPT !.jobs[name].late = TRUE]
  PROVE  /\ w \in Worlds /\ Good(w) /\ w.st = st /\ w.pending = pending /\ w.jobs[name].late
         /\ w.jobs["execute"] = jobs["execute"]
         /\ name # "final" => w.jobs["final"] = jobs["final"]
         /\ name # "decide" => w.jobs["decide"] = jobs["decide"]
<1>1. World \in Worlds /\ World.st = st /\ World.jobs = jobs /\ World.pending = pending
  BY WorldOK
<1>2. PICK k : k = [jobs[name] EXCEPT !.late = TRUE]
  OBVIOUS
<1>3. name \in JobNames /\ name # "execute" /\ {"final", "decide", "execute"} \subseteq JobNames
  BY DEF JobNames, Asking
<1>4. k \in Jobs /\ k.late = TRUE /\ k.st = jobs[name].st /\ k.wave = jobs[name].wave
  BY <1>2, <1>3 DEF TypeOK, Jobs
<1>5. PICK q : q = [jobs EXCEPT ![name] = k]
  OBVIOUS
<1>6. q \in [JobNames -> Jobs] /\ q[name] = k
  BY <1>3, <1>4, <1>5 DEF TypeOK
<1>7. /\ name # "final" => q["final"] = jobs["final"]
      /\ name # "decide" => q["decide"] = jobs["decide"]
      /\ q["execute"] = jobs["execute"]
  BY <1>3, <1>5 DEF TypeOK
<1>8. w = [World EXCEPT !.jobs = q]
  BY <1>1, <1>2, <1>5 DEF Worlds
<1>9. w \in Worlds /\ w.st = st /\ w.pending = pending /\ w.jobs = q
  BY <1>1, <1>6, <1>8 DEF Worlds
<1>10. Primary(w, "execute") <=> Primary(World, "execute")
  BY <1>1, <1>7, <1>9 DEF Primary, Present
<1>11. ScanOpen(w)
  BY <1>1, <1>4, <1>6, <1>7, <1>9 DEF Good, ScanOpen, Present
<1>12. DecideOpen(w)
  <2>1. CASE name = "decide"
    BY <1>4, <1>6, <1>9, <2>1 DEF DecideOpen
  <2>2. CASE name # "decide"
    BY <1>1, <1>7, <1>9, <1>10, <2>2 DEF Good, DecideOpen, Primary, Present
  <2> QED BY <2>1, <2>2
<1>13. SendOpen(w)
  BY <1>1, <1>7, <1>9, <1>10 DEF Good, SendOpen
<1>14. Sound(w.st) /\ Saving(w)
  BY <1>1, <1>9 DEF Good, Saving
<1> QED BY <1>4, <1>6, <1>7, <1>9, <1>11, <1>12, <1>13, <1>14 DEF Good

(* Past its deadline a job's step has failed.                              *)
LateWorld(name, wave, w) ==
  CASE name = "final" -> Step(Step(w, "final", "failed"), "primary", "skipped")
    [] name = "decide" -> Claim(w, wave, "failed")
    [] name = "secondary_scan" -> Persist(w)
    [] OTHER -> Step(w, name, "failed")

LEMMA LateKeeps ==
  ASSUME NEW name \in Asking, NEW wave \in Waves, NEW w \in Worlds, Good(w), w.jobs[name].late,
         name = "final" => w.st.final = "running",
         name = "decide" /\ wave = "primary" => w.st.primary = "running" /\ ~Primary(w, "execute"),
         NEW v, v = LateWorld(name, wave, w)
  PROVE  v \in Worlds /\ Good(v) /\ Ended(w.st, v.st)
<1>1. CASE name = "final"
  <2>1. PICK u : u = Step(w, "final", "failed")
    OBVIOUS
  <2>2. u \in Worlds /\ u.jobs = w.jobs /\ u.st.final = "failed"
    BY <2>1, StepFinal DEF StepStates
  <2>3. v = Step(u, "primary", "skipped")
    BY <1>1, <2>1 DEF LateWorld
  <2>4. /\ v \in Worlds /\ v.pending = {v.st} /\ v.jobs = w.jobs /\ v.st.final = "failed"
        /\ v.st.primary = "skipped"
    BY <2>2, <2>3, StepPrimary DEF StepStates
  <2>5. w.st.primary = "pending"
    BY <1>1 DEF Good, Sound
  <2>6. ScanOpen(v)
    BY <1>1, <2>4 DEF ScanOpen
  <2> QED BY <2>4, <2>5, <2>6, ScanEnds
<1>2. CASE name = "decide"
  <2>1. v = Claim(w, wave, "failed")
    BY <1>2 DEF LateWorld
  <2>2. CASE wave = "primary"
    BY <1>2, <2>1, <2>2, ClaimEnds DEF Claim
  <2>3. CASE wave # "primary"
    BY <2>1, <2>3, PersistKeeps DEF Claim
  <2> QED BY <2>2, <2>3
<1>3. CASE name = "secondary_scan"
  BY <1>3, PersistKeeps DEF LateWorld
<1>4. CASE name \in {"prep", "preview"}
  <2>1. v = Step(w, name, "failed") /\ "failed" \in StepStates
    BY <1>4 DEF StepStates, LateWorld
  <2>2. /\ v \in Worlds /\ v.pending = {v.st} /\ v.jobs = w.jobs
        /\ v.st.final = w.st.final /\ v.st.primary = w.st.primary
    BY <1>4, <2>1, StepPrep, StepPreview
  <2> QED BY <2>2, Apart
<1> QED BY <1>1, <1>2, <1>3, <1>4 DEF Asking

-----------------------------------------------------------------------------
(* Each step                                                               *)

(* What the scheduler made of the world is the next state.                 *)
LEMMA Turn ==
  ASSUME MInv, up, NEW v \in Worlds, Good(v), Becomes(v), UNCHANGED environment, faults' \in 0 .. MaxFaults
  PROVE  MInv'
<1>1. /\ st' = v.st /\ prepped' = v.prepped /\ board' = v.board /\ jobs' = v.jobs
      /\ pending' = v.pending /\ scans' = v.scans
  BY DEF Becomes
<1>2. /\ v.st \in State /\ v.prepped \in BOOLEAN /\ v.board \in SUBSET Boards
      /\ v.jobs \in [JobNames -> Jobs] /\ v.pending \in SUBSET State /\ v.scans \in 0 .. MaxScans
  BY Fields
<1>3. UNCHANGED <<now, up, failed, disk, child, sent, primary>>
  BY DEF environment
<1>4. TypeOK'
  BY <1>1, <1>2, <1>3 DEF MInv, TypeOK
<1>5. Known'
  BY <1>3 DEF MInv, Known
<1>6. World'.st = v.st /\ World'.jobs = v.jobs /\ World'.pending = v.pending
  BY <1>1 DEF World
<1>7. Good(World)'
  <2>1. Sound(World.st)' /\ ScanOpen(World)' /\ Saving(World)'
    BY <1>3, <1>6 DEF Good, Sound, ScanOpen, Saving, Present
  <2>2. DecideOpen(World)' /\ SendOpen(World)'
    BY <1>3, <1>6 DEF Good, DecideOpen, SendOpen, Primary, Present
  <2> QED BY <2>1, <2>2 DEF Good
<1> QED BY <1>3, <1>4, <1>5, <1>7 DEF MInv

LEMMA AdvanceKeeps ==
  ASSUME MInv, Advance
  PROVE  MInv' /\ Ended(st, st')
<1> DEFINE a == MaybePrep(World)
           b == MaybePreview(a)
           c == MaybeFinal(b)
           d == MaybePrimary(c)
           e == MaybeSecondary(d)
<1>1. up /\ Becomes(e) /\ UNCHANGED <<environment, faults>>
  BY DEF Advance
<1>2. World \in Worlds /\ World.st = st /\ Good(World) /\ TypeOK /\ Known
  BY <1>1, WorldOK DEF MInv
<1>3. a \in Worlds /\ Good(a) /\ Ended(World.st, a.st)
  BY <1>2, PrepKeeps
<1> HIDE DEF a
<1>4. b \in Worlds /\ Good(b) /\ Ended(a.st, b.st)
  BY <1>3, PreviewKeeps
<1> HIDE DEF b
<1>5. c \in Worlds /\ Good(c) /\ Ended(b.st, c.st)
  BY <1>4, FinalKeeps
<1> HIDE DEF c
<1>6. d \in Worlds /\ Good(d) /\ Ended(c.st, d.st)
  BY <1>2, <1>5, PrimaryKeeps
<1> HIDE DEF d
<1>7. e \in Worlds /\ Good(e) /\ Ended(d.st, e.st)
  BY <1>2, <1>6, SecondaryKeeps
<1> HIDE DEF e
<1>8. faults' \in 0 .. MaxFaults /\ UNCHANGED environment /\ st' = e.st
  BY <1>1, <1>2 DEF TypeOK, Becomes
<1>9. Ended(st, e.st)
  BY <1>2, <1>3, <1>4, <1>5, <1>6, <1>7 DEF Ended
<1>10. MInv'
  BY <1>1, <1>7, <1>8, Turn
<1> QED BY <1>8, <1>9, <1>10

LEMMA CollectStep ==
  ASSUME MInv, NEW name \in JobNames, Collect(name)
  PROVE  MInv' /\ Ended(st, st')
<1>1. up /\ jobs[name].st = "done" /\ UNCHANGED <<environment, faults>>
  BY DEF Collect
<1>2. PICK v : v = Done(name, jobs[name]) /\ Becomes(v)
  BY DEF Collect
<1>3. TypeOK /\ Known /\ Good(World)
  BY <1>1 DEF MInv
<1>4. v \in Worlds /\ Good(v) /\ Ended(st, v.st)
  BY <1>1, <1>2, <1>3, CollectKeeps
<1>5. faults' \in 0 .. MaxFaults /\ UNCHANGED environment /\ st' = v.st
  BY <1>1, <1>2, <1>3 DEF TypeOK, Becomes
<1>6. MInv'
  BY <1>1, <1>2, <1>4, <1>5, Turn
<1> QED BY <1>4, <1>5, <1>6

LEMMA LateStep ==
  ASSUME MInv, NEW name \in Asking, Late(name)
  PROVE  MInv' /\ Ended(st, st')
<1>1. up /\ jobs[name].st = "running" /\ ~jobs[name].late /\ Fails /\ UNCHANGED environment
  BY DEF Late
<1>2. PICK w : w = [World EXCEPT !.jobs[name].late = TRUE]
  OBVIOUS
<1>3. PICK wave : wave = jobs[name].wave
  OBVIOUS
<1>4. PICK v : v = LateWorld(name, wave, w) /\ Becomes(v)
  <2>1. Becomes(LateWorld(name, wave, w))
    BY <1>2, <1>3 DEF Late, LateWorld
  <2> QED BY <2>1
<1>5. TypeOK /\ Known /\ Good(World) /\ World.st = st /\ World.jobs = jobs
  BY <1>1, WorldOK DEF MInv
<1>6. /\ w \in Worlds /\ Good(w) /\ w.st = st /\ w.jobs[name].late
      /\ w.jobs["execute"] = jobs["execute"]
  BY <1>2, <1>5, LateJob
<1>7. wave \in Waves
  BY <1>3, <1>5 DEF TypeOK, Jobs, JobNames
<1>8. name = "final" => w.st.final = "running"
  BY <1>1, <1>5, <1>6 DEF Good, ScanOpen, Present
<1>9. name = "decide" /\ wave = "primary" => w.st.primary = "running" /\ ~Primary(w, "execute")
  <2>1. name = "decide" /\ wave = "primary" => st.primary = "running" /\ ~Primary(World, "execute")
    BY <1>1, <1>3, <1>5 DEF Good, DecideOpen, Primary, Present
  <2> QED BY <1>5, <1>6, <2>1 DEF Primary, Present
<1>10. v \in Worlds /\ Good(v) /\ Ended(w.st, v.st)
  BY <1>4, <1>6, <1>7, <1>8, <1>9, LateKeeps
<1>11. faults' \in 0 .. MaxFaults /\ st' = v.st
  BY <1>1, <1>4, <1>5, BoundsAssumption DEF TypeOK, Becomes, Fails
<1>12. MInv'
  BY <1>1, <1>4, <1>10, <1>11, Turn
<1> QED BY <1>6, <1>10, <1>11, <1>12

(* A worker thread that answers changes nothing that is claimed.           *)
LEMMA AnswerFacts ==
  ASSUME TypeOK, NEW name \in JobNames, NEW j \in Jobs, Answer(name, j)
  PROVE  /\ jobs' \in [JobNames -> Jobs]
         /\ jobs'[name].st = "done" /\ jobs'[name].late = jobs[name].late /\ jobs'[name].wave = j.wave
         /\ name # "final" => jobs'["final"] = jobs["final"]
         /\ name # "decide" => jobs'["decide"] = jobs["decide"]
         /\ name # "execute" => jobs'["execute"] = jobs["execute"]
<1>1. PICK k : k = [j EXCEPT !.st = "done", !.late = jobs[name].late]
  OBVIOUS
<1>2. jobs[name].late \in BOOLEAN
  BY DEF TypeOK, Jobs
<1>3. k \in Jobs /\ k.st = "done" /\ k.late = jobs[name].late /\ k.wave = j.wave
  BY <1>1, <1>2 DEF Jobs
<1>4. jobs' = [jobs EXCEPT ![name] = k]
  BY <1>1 DEF Answer
<1>5. {"final", "decide", "execute"} \subseteq JobNames
  BY DEF JobNames, Asking
<1>6. jobs' \in [JobNames -> Jobs] /\ jobs'[name] = k
  BY <1>3, <1>4 DEF TypeOK
<1>7. /\ name # "final" => jobs'["final"] = jobs["final"]
      /\ name # "decide" => jobs'["decide"] = jobs["decide"]
      /\ name # "execute" => jobs'["execute"] = jobs["execute"]
  BY <1>4, <1>5 DEF TypeOK
<1> QED BY <1>3, <1>6, <1>7

(* Jobs go on: none starts or changes its wave, and what is sent stays.    *)
LEMMA JobsGoOn ==
  ASSUME MInv, up, UNCHANGED loop, primary' = primary, TypeOK',
         jobs'["final"].st # "idle" => jobs["final"].st # "idle",
         jobs'["final"].late = jobs["final"].late,
         jobs'["decide"].st # "idle" => jobs["decide"].st # "idle",
         jobs'["decide"].late = jobs["decide"].late, jobs'["decide"].wave = jobs["decide"].wave,
         jobs'["execute"].st # "idle" => jobs["execute"].st # "idle",
         jobs'["execute"].wave = jobs["execute"].wave,
         jobs'["execute"].st = "running" => jobs["execute"].st = "running",
         jobs'["execute"].st = "sending" =>
           \/ jobs["execute"].st = "sending"
           \/ jobs["execute"].st = "running" /\ pending = {} /\ ~failed
  PROVE  MInv'
<1>1. UNCHANGED <<now, up, st, prepped, board, pending, failed, disk, scans>>
  BY DEF loop
<1>2. Known' /\ Good(World)
  BY <1>1 DEF MInv, Known
<1>3. /\ World.st = st /\ World.jobs = jobs /\ World.pending = pending
      /\ World'.st = st /\ World'.jobs = jobs' /\ World'.pending = pending
  BY <1>1 DEF World
<1>4. Sound(World.st)' /\ Saving(World)' /\ ScanOpen(World)'
  <2>1. Sound(World.st)' /\ Saving(World)'
    BY <1>1, <1>2, <1>3 DEF Good, Sound, Saving
  <2>2. ScanOpen(World)'
    BY <1>1, <1>2, <1>3 DEF Good, ScanOpen, Present
  <2> QED BY <2>1, <2>2
<1>5. Primary(World, "execute")' => Primary(World, "execute")
  BY <1>3 DEF Primary, Present
<1>6. Primary(World, "decide")' => Primary(World, "decide")
  BY <1>3 DEF Primary, Present
<1>7. DecideOpen(World)'
  BY <1>2, <1>3, <1>5, <1>6 DEF Good, DecideOpen
<1>8. SendOpen(World)'
  <2> SUFFICES ASSUME Primary(World, "execute")'
               PROVE  /\ st.primary = "running"
                      /\ jobs'["execute"].st \in {"running", "sending"} => primary = 0
                      /\ jobs'["execute"].st = "sending" => disk.primary # "pending"
    BY <1>1, <1>3 DEF SendOpen
  <2>1. /\ st.primary = "running"
        /\ jobs["execute"].st \in {"running", "sending"} => primary = 0
        /\ jobs["execute"].st = "sending" => disk.primary # "pending"
    BY <1>2, <1>3, <1>5 DEF Good, SendOpen
  <2>2. pending = {} /\ ~failed => disk.primary # "pending"
    BY <1>2, <1>3, <2>1 DEF Good, Saving
  <2> QED BY <2>1, <2>2
<1> QED BY <1>1, <1>2, <1>4, <1>7, <1>8 DEF MInv, Good

(* A job can only be at work while the process is.                         *)
LEMMA AtWork ==
  ASSUME MInv, NEW name \in JobNames, jobs[name].st # "idle"
  PROVE  up
BY IdleJob DEF MInv

LEMMA WorkersKeep ==
  ASSUME MInv, Workers
  PROVE  MInv' /\ st' = st
<1>1. TypeOK /\ jobs \in [JobNames -> Jobs] /\ child.last \in [Waves -> SUBSET Boards] /\ child.up \in BOOLEAN
  BY DEF MInv, TypeOK
<1>2. ASSUME NEW name \in {"prep", "preview"}, AnswerPlain(name) PROVE MInv' /\ st' = st
  <2>1. /\ name \in JobNames /\ jobs[name].st = "running"
        /\ UNCHANGED loop /\ UNCHANGED <<child, sent, primary, faults>>
    BY <1>2 DEF AnswerPlain, JobNames, Asking
  <2>2. PICK r \in {"ok", "bad"} : Answer(name, [jobs[name] EXCEPT !.res = r])
    BY <1>2 DEF AnswerPlain
  <2>3. PICK j : j = [jobs[name] EXCEPT !.res = r]
    OBVIOUS
  <2>4. j \in Jobs
    BY <1>1, <2>1, <2>3 DEF Jobs
  <2>5. /\ jobs' \in [JobNames -> Jobs] /\ jobs'["final"] = jobs["final"]
        /\ jobs'["decide"] = jobs["decide"] /\ jobs'["execute"] = jobs["execute"]
    BY <1>1, <1>2, <2>1, <2>2, <2>3, <2>4, AnswerFacts
  <2>6. TypeOK'
    BY <1>1, <2>1, <2>5 DEF TypeOK, loop
  <2> QED BY <2>1, <2>5, <2>6, AtWork, JobsGoOn DEF loop
<1>3. ASSUME NEW name \in {"final", "secondary_scan"}, AnswerScan(name) PROVE MInv' /\ st' = st
  <2>1. /\ name \in JobNames /\ jobs[name].st = "running" /\ jobs[name] \in Jobs
        /\ UNCHANGED loop /\ UNCHANGED <<sent, primary, faults>>
    BY <1>1, <1>3 DEF AnswerScan, JobNames, Asking
  <2>2. PICK j \in Jobs : Answer(name, j) /\ j.wave = jobs[name].wave
                          /\ child' \in [up : BOOLEAN, last : [Waves -> SUBSET Boards]]
    <3>1. CASE Answer(name, [jobs[name] EXCEPT !.res = "bad"]) /\ UNCHANGED child
      <4>1. PICK j : j = [jobs[name] EXCEPT !.res = "bad"]
        OBVIOUS
      <4>2. j \in Jobs /\ j.wave = jobs[name].wave
        BY <2>1, <4>1 DEF Jobs
      <4> QED BY <1>1, <3>1, <4>1, <4>2 DEF TypeOK
    <3>2. CASE \E cards \in SUBSET (Symbols \ jobs[name].taken) :
                 /\ child' = [child EXCEPT !.last[IF name = "final" THEN "primary" ELSE "secondary"] = {cards}]
                 /\ Answer(name, [jobs[name] EXCEPT !.res = "ok", !.picks = cards])
      <4>1. PICK cards \in SUBSET (Symbols \ jobs[name].taken) :
                 /\ child' = [child EXCEPT !.last[IF name = "final" THEN "primary" ELSE "secondary"] = {cards}]
                 /\ Answer(name, [jobs[name] EXCEPT !.res = "ok", !.picks = cards])
        BY <3>2
      <4>2. PICK j : j = [jobs[name] EXCEPT !.res = "ok", !.picks = cards]
        OBVIOUS
      <4>3. cards \in Boards
        BY DEF Boards
      <4>4. j \in Jobs /\ j.wave = jobs[name].wave
        BY <2>1, <4>2, <4>3 DEF Jobs
      <4>5. PICK wave \in Waves : child' = [child EXCEPT !.last[wave] = {cards}]
        BY <4>1 DEF Waves
      <4>6. child' = [child EXCEPT !.last = [child.last EXCEPT ![wave] = {cards}]]
        BY <1>1, <4>5 DEF TypeOK
      <4>7. [child.last EXCEPT ![wave] = {cards}] \in [Waves -> SUBSET Boards]
        BY <1>1, <4>3
      <4>8. child' \in [up : BOOLEAN, last : [Waves -> SUBSET Boards]]
        BY <1>1, <4>6, <4>7 DEF TypeOK
      <4> QED BY <4>1, <4>2, <4>4, <4>8
    <3> QED BY <1>3, <3>1, <3>2 DEF AnswerScan
  <2>3. /\ jobs' \in [JobNames -> Jobs]
        /\ jobs'[name].st = "done" /\ jobs'[name].late = jobs[name].late /\ jobs'[name].wave = j.wave
        /\ name # "final" => jobs'["final"] = jobs["final"]
        /\ jobs'["decide"] = jobs["decide"] /\ jobs'["execute"] = jobs["execute"]
    BY <1>1, <1>3, <2>1, <2>2, AnswerFacts
  <2>4. TypeOK'
    BY <1>1, <2>1, <2>2, <2>3 DEF TypeOK, loop
  <2>5. up
    BY <2>1, AtWork
  <2>6. (jobs'["final"].st # "idle" => jobs["final"].st # "idle") /\ jobs'["final"].late = jobs["final"].late
    BY <2>1, <2>3
  <2>7. MInv'
    BY <2>1, <2>3, <2>4, <2>5, <2>6, JobsGoOn
  <2> QED BY <2>1, <2>7 DEF loop
<1>4. CASE AnswerDecide
  <2>1. /\ "decide" \in JobNames /\ jobs["decide"].st = "running" /\ jobs["decide"] \in Jobs
        /\ UNCHANGED loop /\ UNCHANGED <<child, sent, primary, faults>>
    BY <1>1, <1>4 DEF AnswerDecide, JobNames, Asking
  <2>2. PICK j \in Jobs : Answer("decide", j) /\ j.wave = jobs["decide"].wave
    <3>1. CASE \E picks \in SUBSET (jobs["decide"].on \ jobs["decide"].taken) :
                 Answer("decide", [jobs["decide"] EXCEPT !.res = "ok", !.picks = picks])
      <4>1. PICK picks \in SUBSET (jobs["decide"].on \ jobs["decide"].taken) :
                 Answer("decide", [jobs["decide"] EXCEPT !.res = "ok", !.picks = picks])
        BY <3>1
      <4>2. PICK j : j = [jobs["decide"] EXCEPT !.res = "ok", !.picks = picks]
        OBVIOUS
      <4>3. picks \in Boards
        BY <2>1 DEF Jobs, Boards
      <4>4. j \in Jobs /\ j.wave = jobs["decide"].wave
        BY <2>1, <4>2, <4>3 DEF Jobs
      <4> QED BY <4>1, <4>2, <4>4
    <3>2. CASE Answer("decide", [jobs["decide"] EXCEPT !.res = IF child.up THEN "refused" ELSE "bad"])
      <4>1. PICK r \in {"refused", "bad"} : Answer("decide", [jobs["decide"] EXCEPT !.res = r])
        BY <3>2
      <4>2. PICK j : j = [jobs["decide"] EXCEPT !.res = r]
        OBVIOUS
      <4>3. j \in Jobs /\ j.wave = jobs["decide"].wave
        BY <2>1, <4>2 DEF Jobs
      <4> QED BY <4>1, <4>2, <4>3
    <3> QED BY <1>4, <3>1, <3>2 DEF AnswerDecide
  <2>3. /\ jobs' \in [JobNames -> Jobs]
        /\ jobs'["decide"].late = jobs["decide"].late /\ jobs'["decide"].wave = j.wave
        /\ jobs'["final"] = jobs["final"] /\ jobs'["execute"] = jobs["execute"]
    BY <1>1, <2>1, <2>2, AnswerFacts
  <2>4. TypeOK'
    BY <1>1, <2>1, <2>3 DEF TypeOK, loop
  <2>5. up
    BY <2>1, AtWork
  <2>6. MInv'
    BY <2>1, <2>2, <2>3, <2>4, <2>5, JobsGoOn
  <2> QED BY <2>1, <2>6 DEF loop
<1>5. CASE WaitForClaim
  <2>1. /\ "execute" \in JobNames /\ jobs["execute"].st = "running" /\ jobs["execute"] \in Jobs
        /\ UNCHANGED loop /\ UNCHANGED <<child, sent, primary>>
    BY <1>1, <1>5 DEF WaitForClaim, JobNames
  <2>2. faults' \in 0 .. MaxFaults
    BY <1>1, <1>5, BoundsAssumption DEF WaitForClaim, Flush, Fails, Unfaulty, TypeOK
  <2>3. /\ jobs' \in [JobNames -> Jobs] /\ jobs'["final"] = jobs["final"] /\ jobs'["decide"] = jobs["decide"]
        /\ jobs'["execute"].wave = jobs["execute"].wave
        /\ \/ jobs'["execute"].st = "done"
           \/ jobs'["execute"].st = "sending" /\ pending = {} /\ ~failed
    <3>1. CASE pending = {} /\ ~failed /\ jobs' = [jobs EXCEPT !["execute"].st = "sending"]
      <4>1. PICK k : k = [jobs["execute"] EXCEPT !.st = "sending"]
        OBVIOUS
      <4>2. k \in Jobs /\ k.wave = jobs["execute"].wave /\ k.st = "sending"
        BY <2>1, <4>1 DEF Jobs
      <4>3. jobs' = [jobs EXCEPT !["execute"] = k]
        BY <3>1, <4>1
      <4>4. {"final", "decide", "execute"} \subseteq JobNames
        BY DEF JobNames, Asking
      <4> QED BY <1>1, <3>1, <4>2, <4>3, <4>4
    <3>2. CASE Answer("execute", [jobs["execute"] EXCEPT !.res = "bad"])
      <4>1. PICK k : k = [jobs["execute"] EXCEPT !.res = "bad"]
        OBVIOUS
      <4>2. k \in Jobs /\ k.wave = jobs["execute"].wave
        BY <2>1, <4>1 DEF Jobs
      <4> QED BY <1>1, <2>1, <3>2, <4>1, <4>2, AnswerFacts
    <3> QED BY <1>5, <3>1, <3>2 DEF WaitForClaim, Flush
  <2>4. TypeOK'
    BY <1>1, <2>1, <2>2, <2>3 DEF TypeOK, loop
  <2>5. up
    BY <2>1, AtWork
  <2>6. MInv'
    BY <2>1, <2>3, <2>4, <2>5, JobsGoOn
  <2> QED BY <2>1, <2>6 DEF loop
<1>6. CASE Send
  <2>1. /\ "execute" \in JobNames /\ jobs["execute"].st = "sending" /\ jobs["execute"] \in Jobs
        /\ UNCHANGED loop /\ UNCHANGED <<child, faults>>
        /\ primary' = IF jobs["execute"].wave = "primary" THEN primary + 1 ELSE primary
    BY <1>1, <1>6 DEF Send, JobNames
  <2>2. PICK k : k = [jobs["execute"] EXCEPT !.res = "ok"]
    OBVIOUS
  <2>3. k \in Jobs /\ k.wave = jobs["execute"].wave /\ k.picks = jobs["execute"].picks
    BY <2>1, <2>2 DEF Jobs
  <2>4. Answer("execute", k)
    BY <1>6, <2>2 DEF Send
  <2>5. /\ jobs' \in [JobNames -> Jobs] /\ jobs'["final"] = jobs["final"] /\ jobs'["decide"] = jobs["decide"]
        /\ jobs'["execute"].st = "done" /\ jobs'["execute"].wave = jobs["execute"].wave
    BY <1>1, <2>1, <2>3, <2>4, AnswerFacts
  <2>6. sent' \in Boards
    <3>1. jobs["execute"].picks \in Boards /\ sent \in Boards
      BY <1>1, <2>1 DEF Jobs, TypeOK
    <3>2. PICK out \in SUBSET (IF child.up /\ now < CUTOFF THEN jobs["execute"].picks \ sent ELSE {}) :
            sent' = sent \cup out
      BY <1>6 DEF Send
    <3> QED BY <3>1, <3>2 DEF Boards
  <2>7. TypeOK' /\ UNCHANGED <<now, up, st, prepped, board, pending, failed, disk, scans>>
    <3>1. primary' \in Nat
      BY <1>1, <2>1 DEF TypeOK
    <3> QED BY <1>1, <2>1, <2>5, <2>6, <3>1 DEF TypeOK, loop
  <2>8. up
    BY <2>1, AtWork
  <2>9. Known /\ Good(World) /\ World.st = st /\ World.jobs = jobs /\ World.pending = pending
    BY <2>8 DEF MInv, World
  <2>10. World'.st = st /\ World'.jobs = jobs' /\ World'.pending = pending
    BY <2>7 DEF World
  <2>11. CASE jobs["execute"].wave = "primary"
    <3>1. Primary(World, "execute")
      BY <2>1, <2>9, <2>11 DEF Primary, Present
    <3>2. st.primary = "running" /\ primary = 0 /\ disk.primary # "pending"
      BY <2>1, <2>9, <3>1 DEF Good, SendOpen
    <3>3. Known' /\ primary' = 1
      BY <2>1, <2>7, <2>9, <2>11, <3>2 DEF Known
    <3>4. Sound(World.st)' /\ ScanOpen(World)' /\ Saving(World)'
      BY <2>5, <2>7, <2>9, <2>10 DEF Good, Sound, ScanOpen, Saving, Present
    <3>5. DecideOpen(World)'
      <4>1. Primary(World, "decide") => jobs["decide"].late
        BY <2>9, <3>1 DEF Good, DecideOpen
      <4> QED BY <2>5, <2>9, <2>10, <4>1 DEF DecideOpen, Primary, Present
    <3>6. SendOpen(World)'
      BY <2>5, <2>7, <2>10, <3>2 DEF SendOpen
    <3> QED BY <2>7, <2>8, <3>3, <3>4, <3>5, <3>6 DEF MInv, Good
  <2>12. CASE jobs["execute"].wave # "primary"
    <3>1. primary' = primary
      BY <2>1, <2>12
    <3>2. MInv'
      BY <2>1, <2>5, <2>7, <2>8, <3>1, JobsGoOn
    <3> QED BY <2>7, <3>2
  <2> QED BY <2>7, <2>11, <2>12
<1> QED BY <1>2, <1>3, <1>4, <1>5, <1>6 DEF Workers

(* The writer: the claim is written as it is, or the failure is known.     *)
LEMMA WriteKeeps ==
  ASSUME MInv, Write
  PROVE  MInv' /\ st' = st
<1>1. /\ up /\ pending # {} /\ pending' = {}
      /\ UNCHANGED <<now, up, st, prepped, board, jobs, child, sent, primary, scans>>
      /\ \/ disk' \in pending /\ failed' = FALSE /\ Unfaulty
         \/ UNCHANGED disk /\ failed' = TRUE /\ Fails
  BY DEF Write
<1>2. Known /\ Good(World) /\ TypeOK /\ World.st = st /\ World.jobs = jobs /\ World.pending = pending
  BY <1>1 DEF MInv, World
<1>3. World'.st = st /\ World'.jobs = jobs /\ World'.pending = {}
  BY <1>1 DEF World
<1>4. faults' \in 0 .. MaxFaults
  BY <1>1, <1>2, BoundsAssumption DEF TypeOK, Unfaulty, Fails
<1>5. disk' \in State /\ Sound(disk')
  BY <1>1, <1>2 DEF Good, Saving, Known, TypeOK
<1>6. TypeOK'
  BY <1>1, <1>2, <1>4, <1>5 DEF TypeOK
<1>7. disk.primary # "pending" => disk'.primary # "pending"
  BY <1>1, <1>2 DEF Good, Saving
<1>8. Known'
  BY <1>1, <1>2, <1>5, <1>7 DEF Known
<1>9. Saving(World)'
  <2>1. CASE disk' \in pending /\ failed' = FALSE
    <3>1. disk'.primary = st.primary
      BY <1>2, <2>1 DEF Good, Saving
    <3> QED BY <1>3, <3>1 DEF Saving
  <2>2. CASE UNCHANGED disk /\ failed' = TRUE
    BY <1>2, <1>3, <2>2 DEF Good, Saving
  <2> QED BY <1>1, <2>1, <2>2
<1>10. Sound(World.st)' /\ ScanOpen(World)'
  BY <1>2, <1>3 DEF Good, Sound, ScanOpen, Present
<1>11. DecideOpen(World)'
  BY <1>1, <1>2, <1>3 DEF Good, DecideOpen, Primary, Present
<1>12. SendOpen(World)'
  BY <1>1, <1>2, <1>3, <1>7 DEF Good, SendOpen, Primary, Present
<1> QED BY <1>1, <1>6, <1>8, <1>9, <1>10, <1>11, <1>12 DEF MInv, Good

LEMMA ChildDownKeeps ==
  ASSUME MInv, ChildDown
  PROVE  MInv' /\ st' = st
<1>1. up /\ Fails /\ UNCHANGED loop /\ UNCHANGED <<sent, primary>> /\ TypeOK
  BY DEF ChildDown, MInv
<1>2. child' \in [up : BOOLEAN, last : [Waves -> SUBSET Boards]]
  BY DEF ChildDown
<1>3. ASSUME NEW n \in JobNames
      PROVE  /\ jobs'[n] \in Jobs /\ jobs'[n].late = jobs[n].late /\ jobs'[n].wave = jobs[n].wave
             /\ jobs'[n].st # "idle" => jobs[n].st # "idle"
             /\ jobs'[n].st \in {"running", "sending"} => jobs'[n].st = jobs[n].st
  <2>1. jobs[n] \in Jobs
    BY <1>1 DEF TypeOK
  <2>2. \/ jobs'[n] = jobs[n]
        \/ jobs'[n] = [jobs[n] EXCEPT !.st = "done", !.res = "bad"] /\ jobs[n].st = "running"
    BY DEF ChildDown
  <2>3. CASE jobs'[n] = jobs[n]
    BY <2>1, <2>3
  <2>4. CASE jobs'[n] = [jobs[n] EXCEPT !.st = "done", !.res = "bad"] /\ jobs[n].st = "running"
    BY <2>1, <2>4 DEF Jobs
  <2> QED BY <2>2, <2>3, <2>4
<1>4. jobs' \in [JobNames -> Jobs]
  <2>1. jobs' = [n \in JobNames |-> jobs'[n]]
    BY DEF ChildDown
  <2> QED BY <1>3, <2>1
<1>5. faults' \in 0 .. MaxFaults
  BY <1>1, BoundsAssumption DEF TypeOK, Fails
<1>6. TypeOK'
  BY <1>1, <1>2, <1>4, <1>5 DEF TypeOK, loop
<1>7. "final" \in JobNames /\ "decide" \in JobNames /\ "execute" \in JobNames
  BY DEF JobNames, Asking
<1>8. MInv'
  BY <1>1, <1>3, <1>6, <1>7, JobsGoOn
<1> QED BY <1>1, <1>8 DEF loop

(* The invariant speaks of these variables and of the types of the others. *)
LEMMA RestKeeps ==
  ASSUME MInv, UNCHANGED <<up, st, board, jobs, pending, failed, disk, primary, scans>>, TypeOK'
  PROVE  MInv'
<1>1. World'.st = World.st /\ World'.jobs = World.jobs /\ World'.pending = World.pending
  BY DEF World
<1>2. Known' /\ (up => Good(World))
  BY DEF MInv, Known
<1>3. up => Good(World)'
  <2>1. up => Sound(World.st)' /\ ScanOpen(World)' /\ Saving(World)'
    BY <1>1, <1>2 DEF Good, Sound, ScanOpen, Saving, Present
  <2>2. up => DecideOpen(World)' /\ SendOpen(World)'
    BY <1>1, <1>2 DEF Good, DecideOpen, SendOpen, Primary, Present
  <2> QED BY <2>1, <2>2 DEF Good
<1> QED BY <1>2, <1>3 DEF MInv

LEMMA CrashKeeps ==
  ASSUME MInv, Crash
  PROVE  MInv'
<1>1. /\ up' = FALSE /\ jobs' = [n \in JobNames |-> Idle] /\ pending' = {} /\ failed' = FALSE
      /\ prepped' = FALSE /\ board' = {} /\ child' = [up |-> FALSE, last |-> [w \in Waves |-> {}]]
      /\ UNCHANGED <<now, st, disk, sent, primary, scans>> /\ Fails
  BY DEF Crash
<1>2. child' \in [up : BOOLEAN, last : [Waves -> SUBSET Boards]] /\ jobs' \in [JobNames -> Jobs]
  BY <1>1, IdleJob
<1>3. TypeOK'
  <2>1. faults' \in 0 .. MaxFaults
    BY <1>1, BoundsAssumption DEF MInv, TypeOK, Fails
  <2>2. {up', prepped', failed'} \subseteq BOOLEAN /\ board' \subseteq Boards /\ pending' \subseteq State
    BY <1>1
  <2> QED BY <1>1, <1>2, <2>1, <2>2 DEF MInv, TypeOK
<1>4. Known'
  BY <1>1 DEF MInv, Known
<1> QED BY <1>1, <1>3, <1>4 DEF MInv

(* What was claimed when the process died is not taken up again.           *)
LEMMA RestartKeeps ==
  ASSUME MInv, Restart
  PROVE  MInv'
<1>1. /\ ~up /\ up' = TRUE /\ st' = Restored(disk)
      /\ UNCHANGED <<now, prepped, board, jobs, pending, failed, disk, child, sent, primary, scans, faults>>
  BY DEF Restart
<1>2. TypeOK /\ Known /\ jobs = [n \in JobNames |-> Idle] /\ pending = {}
  BY <1>1 DEF MInv
<1>3. disk \in State /\ disk.prep \in StepStates /\ disk.preview \in StepStates
      /\ disk.final \in StepStates /\ disk.primary \in StepStates
  BY <1>2 DEF TypeOK, State
<1>4. /\ st'.final = IF disk.final = "running" THEN "pending" ELSE disk.final
      /\ st'.primary = IF disk.primary = "running" THEN "interrupted" ELSE disk.primary
  BY <1>1, <1>3 DEF Restored, State
<1>5. st' \in State
  <2> DEFINE run(x) == IF x = "running" THEN "pending" ELSE x
             prim   == IF disk.primary = "running" THEN "interrupted" ELSE disk.primary
  <2>1. "pending" \in StepStates /\ "interrupted" \in StepStates
    BY DEF StepStates
  <2>2. run(disk.prep) \in StepStates /\ run(disk.preview) \in StepStates /\ run(disk.final) \in StepStates
        /\ prim \in StepStates
    BY <1>3, <2>1
  <2>3. disk.final_ok \in BOOLEAN /\ disk.judged \in Boards
    BY <1>3 DEF State
  <2>4. st' = [prep |-> run(disk.prep), preview |-> run(disk.preview), final |-> run(disk.final),
               primary |-> prim, final_ok |-> disk.final_ok, judged |-> disk.judged]
    BY <1>1, <1>3 DEF Restored, State
  <2> HIDE DEF run, prim
  <2> QED BY <2>2, <2>3, <2>4 DEF State
<1>6. TypeOK'
  BY <1>1, <1>2, <1>5 DEF TypeOK
<1>7. Known'
  BY <1>1, <1>2 DEF Known
<1>8. World'.st = st' /\ World'.jobs = jobs /\ World'.pending = {}
  BY <1>1, <1>2 DEF World
<1>9. "final" \in JobNames /\ "decide" \in JobNames /\ "execute" \in JobNames
  BY DEF JobNames, Asking
<1>10. jobs["final"].st = "idle" /\ jobs["decide"].st = "idle" /\ jobs["execute"].st = "idle"
  BY <1>2, <1>9, IdleJob
<1>11. ScanOpen(World)' /\ DecideOpen(World)' /\ SendOpen(World)'
  BY <1>8, <1>10 DEF ScanOpen, DecideOpen, SendOpen, Primary, Present
<1>12. Sound(World.st)'
  BY <1>2, <1>4, <1>8 DEF Known, Sound
<1>13. Saving(World)'
  BY <1>1, <1>4, <1>8 DEF Saving
<1> QED BY <1>1, <1>6, <1>7, <1>11, <1>12, <1>13 DEF MInv, Good

-----------------------------------------------------------------------------
(* The invariant                                                           *)

LEMMA MorningBegins == Init => MInv
<1> SUFFICES ASSUME Init PROVE MInv
  OBVIOUS
<1>1. NewDay \in State /\ NewDay.primary = "pending" /\ NewDay.final = "pending"
  BY DEF NewDay, State, StepStates, Boards
<1>2. TypeOK
  <2>1. child \in [up : BOOLEAN, last : [Waves -> SUBSET Boards]]
    BY DEF Init
  <2>2. jobs \in [JobNames -> Jobs]
    BY IdleJob DEF Init
  <2>3. now \in PREP .. CUTOFF
    BY DEF Init, PREP, CUTOFF
  <2>4. {up, prepped, failed} \subseteq BOOLEAN /\ board \subseteq Boards /\ pending \subseteq State
    BY DEF Init
  <2>5. sent \in Boards /\ primary \in Nat /\ scans \in 0 .. MaxScans /\ faults \in 0 .. MaxFaults
    BY BoundsAssumption DEF Init, Boards
  <2> QED BY <1>1, <2>1, <2>2, <2>3, <2>4, <2>5 DEF Init, TypeOK
<1>3. Known
  BY <1>1 DEF Init, Known, Sound
<1>4. World.st = st /\ World.jobs = jobs /\ World.pending = pending
  BY DEF World
<1>5. jobs["final"].st = "idle" /\ jobs["decide"].st = "idle" /\ jobs["execute"].st = "idle"
  BY IdleJob DEF Init, JobNames, Asking
<1>6. Good(World)
  <2>1. ScanOpen(World) /\ DecideOpen(World) /\ SendOpen(World)
    BY <1>4, <1>5 DEF ScanOpen, DecideOpen, SendOpen, Primary, Present
  <2>2. Sound(World.st) /\ Saving(World)
    BY <1>1, <1>4 DEF Init, Sound, Saving
  <2> QED BY <2>1, <2>2 DEF Good
<1> QED BY <1>2, <1>3, <1>6 DEF Init, MInv

LEMMA MorningStep ==
  ASSUME MInv, [Next]_vars
  PROVE  MInv' /\ (up /\ up' => Ended(st, st'))
<1>1. CASE UNCHANGED vars
  <2>1. TypeOK'
    BY <1>1 DEF MInv, TypeOK, vars
  <2> QED BY <1>1, <2>1, RestKeeps DEF vars, Ended
<1>2. CASE Advance
  BY <1>2, AdvanceKeeps
<1>3. CASE Collects
  BY <1>3, CollectStep DEF Collects
<1>4. CASE Workers
  BY <1>4, WorkersKeep DEF Ended
<1>5. CASE Write
  BY <1>5, WriteKeeps DEF Ended
<1>6. CASE ChildDown
  BY <1>6, ChildDownKeeps DEF Ended
<1>7. CASE ChildUp
  <2>1. TypeOK'
    BY <1>7 DEF ChildUp, loop, MInv, TypeOK
  <2> QED BY <1>7, <2>1, RestKeeps DEF ChildUp, loop, Ended
<1>8. CASE Later
  <2>1. TypeOK'
    BY <1>8 DEF Later, MInv, TypeOK, PREP, CUTOFF
  <2> QED BY <1>8, <2>1, RestKeeps DEF Later, Ended
<1>9. CASE Crash
  BY <1>9, CrashKeeps DEF Crash
<1>10. CASE Restart
  BY <1>10, RestartKeeps DEF Restart
<1>11. CASE \E name \in Asking : Late(name)
  BY <1>11, LateStep
<1> QED BY <1>1, <1>2, <1>3, <1>4, <1>5, <1>6, <1>7, <1>8, <1>9, <1>10, <1>11 DEF Next

-----------------------------------------------------------------------------
(* Theorems                                                                *)

(* The variables of a morning keep their types.                            *)
THEOREM MorningTypes == Spec => []TypeOK
<1>1. MInv => TypeOK
  BY DEF MInv
<1> QED BY <1>1, MorningBegins, MorningStep, PTL DEF Spec

(* "once claimed it never runs twice in a day": the picks of the primary   *)
(* wave go out at most once, whatever crash, late answer, failed save or   *)
(* death of the decision process comes between; when they went out the     *)
(* claim is on disk; and a job that sends them has the claim.              *)
THEOREM OncePerMorning == Spec => []PrimaryOnce
<1>1. MInv => PrimaryOnce
  <2> SUFFICES ASSUME MInv PROVE PrimaryOnce
    OBVIOUS
  <2>1. primary <= 1 /\ (primary = 1 => disk.primary # "pending")
    BY DEF MInv, Known
  <2>2. "execute" \in JobNames
    BY DEF JobNames
  <2>3. ASSUME jobs["execute"].st # "idle", jobs["execute"].wave = "primary"
        PROVE  st.primary = "running"
    <3>1. up
      BY <2>2, <2>3, AtWork
    <3>2. Good(World) /\ World.st = st /\ World.jobs = jobs
      BY <3>1 DEF MInv, World
    <3> QED BY <2>3, <3>2 DEF Good, SendOpen, Primary, Present
  <2> QED BY <2>1, <2>3 DEF PrimaryOnce
<1> QED BY <1>1, MorningBegins, MorningStep, PTL DEF Spec

(* A primary step that is done, failed, skipped or interrupted stays so as *)
(* long as the process runs: no late answer takes it up again.             *)
THEOREM StaysClosed == Spec => ClosedStays
<1> DEFINE A == up /\ up' =>
                  (st.primary \in {"done", "failed", "skipped", "interrupted"} => st'.primary = st.primary)
<1>1. ASSUME MInv, [Next]_vars PROVE A
  BY <1>1, MorningStep DEF Ended, Closed
<1>2. ASSUME MInv, [Next]_vars PROVE [A]_vars
  BY <1>1, <1>2
<1>3. ASSUME MInv, [Next]_vars PROVE MInv'
  BY <1>3, MorningStep
<1> HIDE DEF A
<1>4. Spec => [][A]_vars
  BY <1>2, <1>3, MorningBegins, PTL DEF Spec
<1> QED BY <1>4 DEF A, ClosedStays

-----------------------------------------------------------------------------
(* The owners: the inductive invariant                                     *)

(* The engine has nothing of the stock, and nothing can still come.        *)
Clear(s) == oEnt[s].st = "none" /\ ~Owners!Dead(s)

Entered(s) ==
  /\ oEnt[s].st = "none" => oEnt[s].at = "none" /\ oEnt[s].arm = "none"
  /\ oEnt[s].st = "held" => oEnt[s].at = "shares"
  /\ oEnt[s].st = "working" => oEnt[s].arm \in Owners!Arms

(* An order the validator is at: the plans and holds look away, and once   *)
(* it is claimed ORB does too.                                             *)
AskedFor(s) ==
  oAsked # Owners!Nobody /\ oAsked[1] = s =>
    /\ oOne[s] = "free" /\ oNight[s] = "free" /\ oEnt[s].st = "none"
    /\ oAsked[3] => oOrb[s] = "free"

(* ORB's late check is the last one: what it saw stays so.                 *)
OrbAlone(s) == oOrb[s] \in {"checked", "live"} => Clear(s)

(* A plan that passed its gates keeps the engine and ORB out.              *)
OneAlone(s) ==
  /\ oOne[s] \in {"admitted", "live"} => Clear(s) /\ oOrb[s] = "free"
  /\ oOne[s] = "live" => oNight[s] \notin {"flat", "live"}

(* A hold past its local gates keeps ORB out and has no working entry, and *)
(* once Alpaca was read there is no entry.                                 *)
NightAlone(s) ==
  /\ oNight[s] \in {"gated", "flat", "live"} => oOrb[s] = "free" /\ oEnt[s].st # "working"
  /\ oNight[s] \in {"flat", "live"} => Clear(s)

Separate(s) == Entered(s) /\ AskedFor(s) /\ OrbAlone(s) /\ OneAlone(s) /\ NightAlone(s)

(* The stocks that take a slot of the intraday arm                         *)
Taking == {s \in Stocks : oEnt[s].arm = "day" \/ oOne[s] \in {"admitted", "live"}}

OInv == Owners!TypeOK /\ (\A s \in Stocks : Separate(s)) /\ Cardinality(Taking) <= Slots
-----------------------------------------------------------------------------
(* The owners: lemmas                                                      *)

EntrySet == [arm : Owners!Arms \cup {"none", "late"}, st : {"none", "working", "held"}, at : {"none", "order", "shares"}]

(* Cardinality in the instance is Cardinality.                             *)
LEMMA SameCount == \A S : Owners!Cardinality(S) = Cardinality(S)
BY DEF Owners!Cardinality, Cardinality

LEMMA OwnerTypes ==
  ASSUME Owners!TypeOK, NEW s \in Stocks
  PROVE  /\ oEnt \in [Stocks -> EntrySet] /\ oEnt[s] \in EntrySet
         /\ oEnt[s].st \in {"none", "working", "held"} /\ oEnt[s].at \in {"none", "order", "shares"}
         /\ oOrb[s] \in {"free", "reserved", "checked", "live"}
         /\ oOne[s] \in {"free", "claimed", "admitted", "live"}
         /\ oNight[s] \in {"free", "reserved", "gated", "flat", "live"}
         /\ Owners!NoOrder \in EntrySet
BY DEF Owners!TypeOK, EntrySet, Owners!NoOrder

(* A stock that a step does not touch.                                     *)
LEMMA OtherStocks ==
  ASSUME NEW u \in Stocks, Separate(u),
         oEnt'[u] = oEnt[u], oOrb'[u] = oOrb[u], oOne'[u] = oOne[u], oNight'[u] = oNight[u],
         Owners!Dead(u)' => Owners!Dead(u),
         oAsked' = oAsked \/ oAsked' = Owners!Nobody \/ oAsked'[1] # u
  PROVE  Separate(u)'
<1>1. Entered(u)'
  BY DEF Separate, Entered
<1>2. Clear(u) => Clear(u)'
  BY DEF Clear
<1>3. AskedFor(u)'
  BY DEF Separate, AskedFor
<1>4. OrbAlone(u)' /\ OneAlone(u)' /\ NightAlone(u)'
  BY <1>2 DEF Separate, OrbAlone, OneAlone, NightAlone
<1> QED BY <1>1, <1>3, <1>4 DEF Separate

(* No stock is taken.                                                      *)
LEMMA NoneTaken ==
  ASSUME OInv,
         \A u \in Stocks : oEnt'[u].arm = "day" => oEnt[u].arm = "day",
         \A u \in Stocks : oOne'[u] \in {"admitted", "live"} => oOne[u] \in {"admitted", "live"}
  PROVE  Cardinality(Taking)' <= Slots
<1>1. Taking' \subseteq Taking
  BY DEF Taking
<1>2. IsFiniteSet(Taking)
  BY FS_Subset, OwnersAssumption DEF Taking
<1>3. Cardinality(Taking') <= Cardinality(Taking) /\ Cardinality(Taking) \in Nat /\ Cardinality(Taking') \in Nat
  BY <1>1, <1>2, FS_Subset, FS_CardinalityType
<1> QED BY <1>3, OwnersAssumption DEF OInv

(* One more stock is taken while another part of them leaves a slot.       *)
LEMMA OneTaken ==
  ASSUME Owners!TypeOK, NEW s \in Stocks, NEW C \in SUBSET Stocks, Cardinality(C) < Slots,
         Taking' \subseteq C \cup {s}
  PROVE  Cardinality(Taking)' <= Slots
<1>1. IsFiniteSet(C)
  BY FS_Subset, OwnersAssumption
<1>2. IsFiniteSet(C \cup {s}) /\ Cardinality(C) \in Nat
      /\ Cardinality(C \cup {s}) = IF s \in C THEN Cardinality(C) ELSE Cardinality(C) + 1
  BY <1>1, FS_AddElement, FS_CardinalityType
<1>3. Cardinality(Taking') <= Cardinality(C \cup {s}) /\ Cardinality(Taking') \in Nat
  BY <1>2, FS_Subset, FS_CardinalityType
<1> QED BY <1>2, <1>3, OwnersAssumption

-----------------------------------------------------------------------------
(* The engine                                                              *)

(* A step about the entry of one stock, with no order at the validator: a  *)
(* stock that was clear stays so, and nothing begins to work.              *)
LEMMA EntryStep ==
  ASSUME OInv, NEW s \in Stocks, NEW r \in EntrySet, oAsked = Owners!Nobody,
         oEnt' = [oEnt EXCEPT ![s] = r],
         r.st = "none" => r.at = "none" /\ r.arm = "none",
         r.st = "held" => r.at = "shares",
         Clear(s) => r.st = "none" /\ ~Owners!Dead(s)',
         r.st = "working" => oEnt[s].st = "working" /\ r.arm = oEnt[s].arm,
         r.arm = "day" => oEnt[s].arm = "day",
         oDead' \in SUBSET (Stocks \X Owners!Arms), \A u \in Stocks \ {s} : Owners!Dead(u)' => Owners!Dead(u),
         oStaged' \in SUBSET Swung, oFaults' \in 0 .. OwnerFaults, UNCHANGED <<oOrb, oOne, oNight, oAsked>>
  PROVE  OInv'
<1>1. oEnt \in [Stocks -> EntrySet] /\ oEnt'[s] = r /\ \A u \in Stocks \ {s} : oEnt'[u] = oEnt[u]
  BY OwnerTypes DEF OInv
<1>2. Owners!TypeOK'
  <2>1. oEnt' \in [Stocks -> EntrySet]
    BY <1>1
  <2> QED BY <2>1 DEF OInv, Owners!TypeOK, EntrySet
<1>3. \A u \in Stocks \ {s} : Separate(u)'
  BY <1>1, OtherStocks DEF OInv
<1>4. Separate(s)'
  <2>1. Entered(s)'
    BY <1>1 DEF Entered, OInv, Separate
  <2>2. AskedFor(s)'
    BY DEF AskedFor
  <2>3. Clear(s) => Clear(s)'
    BY <1>1 DEF Clear
  <2>4. OrbAlone(s)' /\ OneAlone(s)'
    BY <2>3 DEF OInv, Separate, OrbAlone, OneAlone
  <2>5. NightAlone(s)'
    BY <1>1, <2>3 DEF OInv, Separate, NightAlone
  <2> QED BY <2>1, <2>2, <2>4, <2>5 DEF Separate
<1>5. Cardinality(Taking)' <= Slots
  <2>1. \A u \in Stocks : oEnt'[u].arm = "day" => oEnt[u].arm = "day"
    BY <1>1
  <2> QED BY <2>1, NoneTaken
<1> QED BY <1>2, <1>3, <1>4, <1>5 DEF OInv

(* What the engine gives up of a stock is of that stock.                   *)
LEMMA GivesUp ==
  ASSUME OInv, NEW s \in Stocks, oDead' = oDead \cup Owners!GivenUp(s)
  PROVE  /\ oDead' \in SUBSET (Stocks \X Owners!Arms) /\ \A u \in Stocks \ {s} : Owners!Dead(u)' => Owners!Dead(u)
         /\ oEnt[s].at # "order" => oDead' = oDead
<1>1. oDead \in SUBSET (Stocks \X Owners!Arms) /\ oEnt[s].st \in {"none", "working", "held"} /\ Entered(s)
  BY OwnerTypes DEF OInv, Owners!TypeOK, Separate
<1>2. CASE oEnt[s].at = "order"
  <2>1. oEnt[s].arm \in Owners!Arms
    BY <1>1, <1>2 DEF Entered
  <2>2. oDead' = oDead \cup {<<s, oEnt[s].arm>>}
    BY <1>2 DEF Owners!GivenUp
  <2>3. ASSUME NEW u \in Stocks \ {s}, Owners!Dead(u)' PROVE Owners!Dead(u)
    <3>1. PICK arm \in Owners!Arms : <<u, arm>> \in oDead'
      BY <2>3 DEF Owners!Dead
    <3>2. <<u, arm>> # <<s, oEnt[s].arm>>
      OBVIOUS
    <3>3. <<u, arm>> \in oDead
      BY <2>2, <3>1, <3>2
    <3> QED BY <3>3 DEF Owners!Dead
  <2>4. oDead' \in SUBSET (Stocks \X Owners!Arms)
    BY <1>1, <2>1, <2>2
  <2> QED BY <1>2, <2>3, <2>4
<1>3. CASE oEnt[s].at # "order"
  BY <1>1, <1>3 DEF Owners!GivenUp, Owners!Dead
<1> QED BY <1>2, <1>3

LEMMA PostKeeps ==
  ASSUME OInv, NEW s \in Stocks, Owners!PostEntry(s) \/ Owners!PostUnsettled(s) \/ Owners!Book(s)
  PROVE  OInv'
<1>1. /\ oAsked = Owners!Nobody /\ oEnt[s].st = "working" /\ UNCHANGED <<oDead, oAsked, oStaged, oOrb, oOne, oNight>>
      /\ oFaults' \in 0 .. OwnerFaults
  BY OwnersAssumption DEF Owners!PostEntry, Owners!PostUnsettled, Owners!Book, Owners!Loop, Owners!Engine, OInv, Owners!TypeOK
<1>2. oEnt[s] \in EntrySet /\ Owners!NoOrder \in EntrySet /\ oEnt \in [Stocks -> EntrySet]
  BY OwnerTypes DEF OInv
<1>3. PICK r \in EntrySet :
        /\ oEnt' = [oEnt EXCEPT ![s] = r]
        /\ r = Owners!NoOrder \/ r = [oEnt[s] EXCEPT !.st = "held", !.at = "shares"] \/ r = [oEnt[s] EXCEPT !.at = "order"]
  <2>1. [oEnt[s] EXCEPT !.st = "held", !.at = "shares"] \in EntrySet /\ [oEnt[s] EXCEPT !.at = "order"] \in EntrySet
    BY <1>2 DEF EntrySet
  <2>2. CASE oEnt' = [oEnt EXCEPT ![s] = Owners!NoOrder]
    BY <1>2, <2>2
  <2>3. CASE oEnt' = [oEnt EXCEPT ![s].st = "held", ![s].at = "shares"]
    <3>1. oEnt' = [oEnt EXCEPT ![s] = [oEnt[s] EXCEPT !.st = "held", !.at = "shares"]]
      BY <1>2, <2>3
    <3> QED BY <2>1, <3>1
  <2>4. CASE oEnt' = [oEnt EXCEPT ![s].at = "order"]
    <3>1. oEnt' = [oEnt EXCEPT ![s] = [oEnt[s] EXCEPT !.at = "order"]]
      BY <1>2, <2>4
    <3> QED BY <2>1, <3>1
  <2> QED BY <2>2, <2>3, <2>4 DEF Owners!PostEntry, Owners!PostUnsettled, Owners!Book
<1>4. /\ r.st = "none" => r.at = "none" /\ r.arm = "none"
      /\ r.st = "held" => r.at = "shares"
      /\ r.st = "working" => r.arm = oEnt[s].arm
      /\ r.arm = "day" => oEnt[s].arm = "day"
  <2>1. CASE r = Owners!NoOrder
    BY <2>1 DEF Owners!NoOrder
  <2>2. CASE r = [oEnt[s] EXCEPT !.st = "held", !.at = "shares"]
    <3>1. r.st = "held" /\ r.at = "shares" /\ r.arm = oEnt[s].arm
      BY <1>2, <2>2 DEF EntrySet
    <3> QED BY <3>1
  <2>3. CASE r = [oEnt[s] EXCEPT !.at = "order"]
    <3>1. r.st = "working" /\ r.arm = oEnt[s].arm
      BY <1>1, <1>2, <2>3 DEF EntrySet
    <3> QED BY <3>1
  <2> QED BY <1>3, <2>1, <2>2, <2>3
<1>5. ~Clear(s)
  BY <1>1 DEF Clear
<1>6. oDead' \in SUBSET (Stocks \X Owners!Arms) /\ oStaged' \in SUBSET Swung /\ \A u \in Stocks \ {s} : Owners!Dead(u)' => Owners!Dead(u)
  BY <1>1 DEF OInv, Owners!TypeOK, Owners!Dead
<1> QED BY <1>1, <1>3, <1>4, <1>5, <1>6, EntryStep

LEMMA EndKeeps ==
  ASSUME OInv, NEW s \in Stocks, Owners!Cancel(s) \/ Owners!CloseTrade(s)
  PROVE  OInv'
<1>1. /\ oAsked = Owners!Nobody /\ oEnt[s].st # "none" /\ oEnt' = [oEnt EXCEPT ![s] = Owners!NoOrder]
      /\ UNCHANGED <<oAsked, oOrb, oOne, oNight>> /\ oFaults' = oFaults
      /\ oStaged' = oStaged \/ oStaged' = oStaged \ {s}
      /\ oDead' = oDead \/ oDead' = oDead \cup Owners!GivenUp(s)
  BY DEF Owners!Cancel, Owners!CloseTrade, Owners!Loop, Owners!Engine
<1>2. Owners!NoOrder \in EntrySet /\ Owners!NoOrder.st = "none" /\ Owners!NoOrder.at = "none" /\ Owners!NoOrder.arm = "none"
  BY DEF Owners!NoOrder, EntrySet
<1>3. ~Clear(s)
  BY <1>1 DEF Clear
<1>4. oDead' \in SUBSET (Stocks \X Owners!Arms) /\ \A u \in Stocks \ {s} : Owners!Dead(u)' => Owners!Dead(u)
  <2>1. CASE oDead' = oDead
    BY <2>1 DEF OInv, Owners!TypeOK, Owners!Dead
  <2>2. CASE oDead' = oDead \cup Owners!GivenUp(s)
    BY <2>2, GivesUp
  <2> QED BY <1>1, <2>1, <2>2
<1>5. oStaged' \in SUBSET Swung /\ oFaults' \in 0 .. OwnerFaults
  BY <1>1 DEF OInv, Owners!TypeOK
<1> QED BY <1>1, <1>2, <1>3, <1>4, <1>5, EntryStep

(* An order that was given up is found dead or filled.                     *)
LEMMA SettleKeeps ==
  ASSUME OInv, NEW s \in Stocks, NEW arm \in Owners!Arms, NEW filled \in BOOLEAN, Owners!Settle(s, arm, filled)
  PROVE  OInv'
<1>1. /\ oAsked = Owners!Nobody /\ <<s, arm>> \in oDead /\ oDead' = oDead \ {<<s, arm>>}
      /\ UNCHANGED <<oAsked, oStaged, oOrb, oOne, oNight>> /\ oFaults' = oFaults
  BY DEF Owners!Settle, Owners!Loop, Owners!Engine
<1>2. oEnt[s] \in EntrySet /\ oEnt \in [Stocks -> EntrySet] /\ Entered(s)
  BY OwnerTypes DEF OInv, Separate
<1>3. PICK r \in EntrySet :
        /\ oEnt' = [oEnt EXCEPT ![s] = r]
        /\ r = oEnt[s] \/ (r.st = "held" /\ r.at = "shares" /\ (r.arm = "day" => oEnt[s].arm = "day"))
  <2>1. CASE filled
    <3>1. PICK a \in Owners!Arms \cup {"none", "late"} :
            /\ oEnt' = [oEnt EXCEPT ![s] = [arm |-> a, st |-> "held", at |-> "shares"]]
            /\ a = "day" => oEnt[s].arm = "day"
      <4>1. PICK a : a = IF oEnt[s].st # "none" THEN oEnt[s].arm ELSE IF arm = "swing" THEN arm ELSE "late"
        OBVIOUS
      <4>2. a \in Owners!Arms \cup {"none", "late"} /\ (a = "day" => oEnt[s].arm = "day")
        BY <1>2, <4>1 DEF EntrySet
      <4>3. oEnt' = [oEnt EXCEPT ![s] = [arm |-> a, st |-> "held", at |-> "shares"]]
        BY <1>2, <2>1, <4>1 DEF Owners!Settle
      <4> QED BY <4>2, <4>3
    <3>2. PICK r : r = [arm |-> a, st |-> "held", at |-> "shares"]
      OBVIOUS
    <3>3. r \in EntrySet /\ r.st = "held" /\ r.at = "shares" /\ r.arm = a
      BY <3>1, <3>2 DEF EntrySet
    <3> QED BY <3>1, <3>2, <3>3
  <2>2. CASE ~filled
    <3>1. oEnt' = [oEnt EXCEPT ![s] = oEnt[s]]
      BY <1>2, <2>2 DEF Owners!Settle
    <3> QED BY <1>2, <3>1
  <2> QED BY <2>1, <2>2
<1>4. ~Clear(s)
  BY <1>1 DEF Clear, Owners!Dead
<1>5. /\ r.st = "none" => r.at = "none" /\ r.arm = "none"
      /\ r.st = "held" => r.at = "shares"
      /\ r.st = "working" => oEnt[s].st = "working" /\ r.arm = oEnt[s].arm
      /\ r.arm = "day" => oEnt[s].arm = "day"
  BY <1>2, <1>3 DEF Entered
<1>6. oDead' \in SUBSET (Stocks \X Owners!Arms) /\ oStaged' \in SUBSET Swung /\ oFaults' \in 0 .. OwnerFaults
      /\ \A u \in Stocks \ {s} : Owners!Dead(u)' => Owners!Dead(u)
  BY <1>1 DEF OInv, Owners!TypeOK, Owners!Dead
<1> QED BY <1>1, <1>3, <1>4, <1>5, <1>6, EntryStep

(* Between the first look and the order working: the handler holds the     *)
(* loop, so the plans and holds that look in its pauses are not there.     *)
LEMMA AskKeeps ==
  ASSUME OInv, NEW s \in Stocks, NEW arm \in Owners!Arms, Owners!Ask(s, arm)
  PROVE  OInv'
<1>1. /\ oEnt[s].st = "none" /\ oOne[s] = "free" /\ oNight[s] = "free" /\ oAsked' = <<s, arm, FALSE>>
      /\ UNCHANGED <<oEnt, oDead, oFaults, oStaged, oOrb, oOne, oNight>>
  BY DEF Owners!Ask, Owners!Engine, Owners!OneClaims, Owners!NightHas
<1>2. Owners!TypeOK'
  BY <1>1 DEF OInv, Owners!TypeOK
<1>3. \A u \in Stocks \ {s} : Separate(u)'
  BY <1>1, OtherStocks DEF OInv, Owners!Dead
<1>4. Separate(s)'
  BY <1>1 DEF OInv, Separate, Entered, AskedFor, OrbAlone, OneAlone, NightAlone, Clear, Owners!Dead
<1>5. Cardinality(Taking)' <= Slots
  BY <1>1, NoneTaken
<1> QED BY <1>2, <1>3, <1>4, <1>5 DEF OInv

LEMMA ClaimKeeps ==
  ASSUME OInv, Owners!Claim
  PROVE  OInv'
<1>1. oAsked # Owners!Nobody /\ UNCHANGED <<oEnt, oDead, oFaults, oStaged, oOrb, oOne, oNight>>
  BY DEF Owners!Claim, Owners!Loop, Owners!Engine
<1>2. oAsked \in Stocks \X Owners!Arms \X BOOLEAN
  BY <1>1 DEF OInv, Owners!TypeOK
<1>3. \/ oAsked' = Owners!Nobody
      \/ oAsked' = <<oAsked[1], oAsked[2], TRUE>> /\ oOrb[oAsked[1]] = "free"
  BY DEF Owners!Claim, Owners!MayClaim, Owners!ClaimForAdt, Owners!OrbOwns
<1>4. CASE oAsked' = Owners!Nobody
  <2>1. Owners!TypeOK'
    BY <1>1, <1>4 DEF OInv, Owners!TypeOK
  <2>2. \A u \in Stocks : Separate(u)'
    BY <1>1, <1>4, OtherStocks DEF OInv, Owners!Dead
  <2>3. Cardinality(Taking)' <= Slots
    BY <1>1, NoneTaken
  <2> QED BY <2>1, <2>2, <2>3 DEF OInv
<1>5. CASE oAsked' = <<oAsked[1], oAsked[2], TRUE>> /\ oOrb[oAsked[1]] = "free"
  <2>1. oAsked' \in Stocks \X Owners!Arms \X BOOLEAN /\ oAsked'[1] = oAsked[1]
    BY <1>2, <1>5
  <2>2. Owners!TypeOK'
    BY <1>1, <2>1 DEF OInv, Owners!TypeOK
  <2>3. ASSUME NEW u \in Stocks PROVE Separate(u)'
    <3>1. CASE u # oAsked[1]
      BY <1>1, <2>1, <3>1, OtherStocks DEF OInv, Owners!Dead
    <3>2. CASE u = oAsked[1]
      BY <1>1, <1>5, <2>1, <3>2 DEF OInv, Separate, Entered, AskedFor, OrbAlone, OneAlone, NightAlone, Clear, Owners!Dead
    <3> QED BY <3>1, <3>2
  <2>4. Cardinality(Taking)' <= Slots
    BY <1>1, NoneTaken
  <2> QED BY <2>2, <2>3, <2>4 DEF OInv
<1> QED BY <1>3, <1>4, <1>5

LEMMA AdmitKeeps ==
  ASSUME OInv, Owners!Admit
  PROVE  OInv'
<1>1. oAsked[3] /\ oAsked' = Owners!Nobody /\ UNCHANGED <<oDead, oFaults, oStaged, oOrb, oOne, oNight>>
  BY DEF Owners!Admit, Owners!Engine
<1>2. oAsked # Owners!Nobody
  <2>1. Owners!Nobody[3] = FALSE
    BY DEF Owners!Nobody
  <2> QED BY <1>1, <2>1
<1>3. PICK s \in Stocks, arm \in Owners!Arms : oAsked[1] = s /\ oAsked[2] = arm
  BY <1>2 DEF OInv, Owners!TypeOK
<1>4. oOne[s] = "free" /\ oNight[s] = "free" /\ oOrb[s] = "free" /\ oEnt[s].st = "none"
  BY <1>1, <1>2, <1>3 DEF OInv, Separate, AskedFor
<1>5. oEnt \in [Stocks -> EntrySet]
  BY OwnerTypes DEF OInv
<1>6. CASE oEnt' = oEnt
  <2>1. Owners!TypeOK'
    BY <1>1, <1>6 DEF OInv, Owners!TypeOK
  <2>2. \A u \in Stocks : Separate(u)'
    BY <1>1, <1>6, OtherStocks DEF OInv, Owners!Dead
  <2>3. Cardinality(Taking)' <= Slots
    BY <1>1, <1>6, NoneTaken
  <2> QED BY <2>1, <2>2, <2>3 DEF OInv
<1>7. CASE Owners!SlotFree(s, arm) /\ oEnt' = [oEnt EXCEPT ![s] = [arm |-> arm, st |-> "working", at |-> "none"]]
  <2>1. PICK r : r = [arm |-> arm, st |-> "working", at |-> "none"]
    OBVIOUS
  <2>2. r \in EntrySet /\ r.arm = arm /\ r.st = "working"
    BY <2>1 DEF EntrySet
  <2>3. oEnt' \in [Stocks -> EntrySet] /\ oEnt'[s] = r /\ \A u \in Stocks \ {s} : oEnt'[u] = oEnt[u]
    BY <1>5, <1>7, <2>1, <2>2
  <2>4. Owners!TypeOK'
    BY <1>1, <2>3 DEF OInv, Owners!TypeOK, EntrySet
  <2>5. \A u \in Stocks \ {s} : Separate(u)'
    BY <1>1, <2>3, OtherStocks DEF OInv, Owners!Dead
  <2>6. Separate(s)'
    BY <1>1, <1>4, <2>2, <2>3 DEF Separate, Entered, AskedFor, OrbAlone, OneAlone, NightAlone
  <2>7. Cardinality(Taking)' <= Slots
    <3>1. CASE arm # "day"
      <4>1. \A u \in Stocks : oEnt'[u].arm = "day" => oEnt[u].arm = "day"
        BY <2>2, <2>3, <3>1
      <4> QED BY <1>1, <4>1, NoneTaken
    <3>2. CASE arm = "day"
      <4>1. s \notin Owners!Committed
        BY <1>4 DEF Owners!Committed
      <4>2. Cardinality(Owners!Committed) < Slots
        BY SameCount, <1>7, <3>2, <4>1 DEF Owners!SlotFree
      <4>3. Taking' \subseteq Owners!Committed \cup {s}
        <5> SUFFICES ASSUME NEW u \in Stocks \ {s}, oEnt[u].arm = "day" \/ oOne[u] \in {"admitted", "live"}
                     PROVE  u \in Owners!Committed
          BY <1>1, <2>3 DEF Taking
        <5>1. oEnt[u].arm = "day" => oEnt[u].st # "none"
          BY DEF OInv, Separate, Entered
        <5> QED BY <5>1 DEF Owners!Committed
      <4>4. Owners!Committed \in SUBSET Stocks
        BY DEF Owners!Committed
      <4>5. Owners!TypeOK
        BY DEF OInv
      <4> QED BY <4>2, <4>3, <4>4, <4>5, OneTaken
    <3> QED BY <3>1, <3>2
  <2> QED BY <2>4, <2>5, <2>6, <2>7 DEF OInv
<1> QED BY <1>3, <1>6, <1>7 DEF Owners!Admit

(* The swing arm's reservations                                            *)
LEMMA StageKeeps ==
  ASSUME OInv, NEW s \in Stocks, Owners!Stage(s) \/ Owners!Unstage(s)
  PROVE  OInv'
<1>1. oStaged' \in SUBSET Swung /\ UNCHANGED <<oEnt, oDead, oOrb, oOne, oNight, oAsked, oFaults>>
  BY DEF Owners!Stage, Owners!Unstage, OInv, Owners!TypeOK
<1>2. Owners!TypeOK'
  BY <1>1 DEF OInv, Owners!TypeOK
<1>3. \A u \in Stocks : Separate(u)'
  BY <1>1, OtherStocks DEF OInv, Owners!Dead
<1>4. Cardinality(Taking)' <= Slots
  BY <1>1, NoneTaken
<1> QED BY <1>2, <1>3, <1>4 DEF OInv

-----------------------------------------------------------------------------
(* ORB's threads                                                           *)

LEMMA OrbKeeps ==
  ASSUME OInv, NEW s \in Stocks, Owners!OrbReserve(s) \/ Owners!OrbCheck(s) \/ Owners!OrbPost(s) \/ Owners!OrbDone(s)
  PROVE  OInv'
<1>1. PICK x \in {"free", "reserved", "checked", "live"} :
        /\ oOrb' = [oOrb EXCEPT ![s] = x]
        /\ x = "reserved" => ~Owners!Occupied(s)
        /\ x = "checked" => ~Owners!Occupied(s) /\ Owners!AlpacaFlat(s)
        /\ x = "live" => oOrb[s] = "checked"
        /\ x \in {"checked", "live"} => oOrb[s] # "free"
  BY DEF Owners!OrbReserve, Owners!OrbCheck, Owners!OrbPost, Owners!OrbDone, Owners!Orb
<1>2. UNCHANGED <<oEnt, oDead, oStaged, oOne, oNight, oAsked, oFaults>>
  BY DEF Owners!OrbReserve, Owners!OrbCheck, Owners!OrbPost, Owners!OrbDone, Owners!Orb
<1>3. oOrb \in [Stocks -> {"free", "reserved", "checked", "live"}] /\ Separate(s)
  BY DEF OInv, Owners!TypeOK
<1>4. oOrb'[s] = x /\ \A u \in Stocks \ {s} : oOrb'[u] = oOrb[u]
  BY <1>1, <1>3
<1>5. Owners!TypeOK'
  <2>1. oOrb' \in [Stocks -> {"free", "reserved", "checked", "live"}]
    BY <1>1, <1>3
  <2> QED BY <1>2, <2>1 DEF OInv, Owners!TypeOK
<1>6. \A u \in Stocks \ {s} : Separate(u)'
  BY <1>2, <1>4, OtherStocks DEF OInv, Owners!Dead
<1>7. Clear(s) => Clear(s)'
  BY <1>2 DEF Clear, Owners!Dead
<1>8. Entered(s)'
  BY <1>2, <1>3 DEF Separate, Entered
<1>9. AskedFor(s)'
  BY <1>1, <1>2, <1>3, <1>4 DEF Separate, AskedFor, Owners!Occupied
<1>10. OrbAlone(s)'
  <2>1. x = "checked" => Clear(s)
    BY <1>1 DEF Owners!Occupied, Owners!AlpacaFlat, Clear
  <2> QED BY <1>1, <1>3, <1>4, <1>7, <2>1 DEF Separate, OrbAlone
<1>11. x # "free" => oOne[s] \notin {"admitted", "live"} /\ oNight[s] \notin {"gated", "flat", "live"}
  BY <1>1, <1>3 DEF Separate, OneAlone, NightAlone, Owners!Occupied, Owners!NightHas, Owners!OneClaims
<1>12. OneAlone(s)' /\ NightAlone(s)'
  BY <1>2, <1>3, <1>4, <1>7, <1>11 DEF Separate, OneAlone, NightAlone
<1>13. Cardinality(Taking)' <= Slots
  BY <1>2, NoneTaken
<1> QED BY <1>5, <1>6, <1>8, <1>9, <1>10, <1>12, <1>13 DEF Separate, OInv

-----------------------------------------------------------------------------
(* The day-one plans                                                       *)

LEMMA OneKeeps ==
  ASSUME OInv, NEW s \in Stocks, Owners!OneClaim(s) \/ Owners!OneGates(s) \/ Owners!OneSend(s) \/ Owners!OneDone(s)
  PROVE  OInv'
<1>1. PICK x \in {"free", "claimed", "admitted", "live"} :
        /\ oOne' = [oOne EXCEPT ![s] = x]
        /\ oAsked = Owners!Nobody \/ x = "free" \/ oOne[s] = "admitted"
        /\ x \in {"admitted", "live"} => ~Owners!HeldForOne(s) /\ Owners!AlpacaFlat(s) /\ Owners!OneSlot(s)
  BY DEF Owners!OneClaim, Owners!OneGates, Owners!OneSend, Owners!OneDone, Owners!One, Owners!Loop
<1>2. UNCHANGED <<oEnt, oDead, oStaged, oOrb, oNight, oAsked, oFaults>>
  BY DEF Owners!OneClaim, Owners!OneGates, Owners!OneSend, Owners!OneDone, Owners!One
<1>3. oOne \in [Stocks -> {"free", "claimed", "admitted", "live"}] /\ Separate(s)
  BY DEF OInv, Owners!TypeOK
<1>4. oOne'[s] = x /\ \A u \in Stocks \ {s} : oOne'[u] = oOne[u]
  BY <1>1, <1>3
<1>5. Owners!TypeOK'
  <2>1. oOne' \in [Stocks -> {"free", "claimed", "admitted", "live"}]
    BY <1>1, <1>3
  <2> QED BY <1>2, <2>1 DEF OInv, Owners!TypeOK
<1>6. \A u \in Stocks \ {s} : Separate(u)'
  BY <1>2, <1>4, OtherStocks DEF OInv, Owners!Dead
<1>7. Clear(s) => Clear(s)'
  BY <1>2 DEF Clear, Owners!Dead
<1>8. Entered(s)' /\ OrbAlone(s)' /\ NightAlone(s)'
  BY <1>2, <1>3, <1>7 DEF Separate, Entered, OrbAlone, NightAlone
<1>9. AskedFor(s)'
  BY <1>1, <1>2, <1>3, <1>4 DEF Separate, AskedFor
<1>10. OneAlone(s)'
  <2>1. x \in {"admitted", "live"} => Clear(s) /\ oOrb[s] = "free" /\ oNight[s] = "free"
    BY <1>1 DEF Owners!HeldForOne, Owners!OrbOwns, Owners!NightHas, Owners!AlpacaFlat, Clear
  <2> QED BY <1>2, <1>4, <1>7, <2>1 DEF OneAlone
<1>11. Cardinality(Taking)' <= Slots
  <2>1. CASE x \notin {"admitted", "live"}
    <3>1. \A u \in Stocks : oOne'[u] \in {"admitted", "live"} => oOne[u] \in {"admitted", "live"}
      BY <1>4, <2>1
    <3> QED BY <1>2, <3>1, NoneTaken
  <2>2. CASE x \in {"admitted", "live"}
    <3>1. Cardinality(Owners!Committed \ {s}) < Slots
      BY SameCount, <1>1, <2>2 DEF Owners!OneSlot, Owners!HeldForOne
    <3>2. Taking' \subseteq (Owners!Committed \ {s}) \cup {s}
      <4> SUFFICES ASSUME NEW u \in Stocks \ {s}, oEnt[u].arm = "day" \/ oOne[u] \in {"admitted", "live"}
                   PROVE  u \in Owners!Committed
        BY <1>2, <1>4 DEF Taking
      <4>1. oEnt[u].arm = "day" => oEnt[u].st # "none"
        BY DEF OInv, Separate, Entered
      <4> QED BY <4>1 DEF Owners!Committed
    <3>3. Owners!Committed \ {s} \in SUBSET Stocks /\ Owners!TypeOK
      BY DEF Owners!Committed, OInv
    <3> QED BY <3>1, <3>2, <3>3, OneTaken
  <2> QED BY <2>1, <2>2
<1> QED BY <1>5, <1>6, <1>8, <1>9, <1>10, <1>11 DEF Separate, OInv

-----------------------------------------------------------------------------
(* The overnight holds                                                     *)

(* A step of a hold that leaves the engine alone                           *)
LEMMA NightKeeps ==
  ASSUME OInv, NEW s \in Stocks, Owners!NightClaim(s) \/ Owners!NightRead(s) \/ Owners!NightSend(s) \/ Owners!NightDone(s)
  PROVE  OInv'
<1>1. PICK x \in {"free", "reserved", "gated", "flat", "live"} :
        /\ oNight' = [oNight EXCEPT ![s] = x]
        /\ oAsked = Owners!Nobody \/ x = "free" \/ oNight[s] # "free"
        /\ x # "gated"
        /\ x = "flat" => oNight[s] = "gated" /\ Owners!AlpacaFlat(s)
        /\ x = "live" => oNight[s] = "flat"
  BY DEF Owners!NightClaim, Owners!NightRead, Owners!NightSend, Owners!NightDone, Owners!Night, Owners!Loop
<1>2. UNCHANGED <<oEnt, oDead, oStaged, oOrb, oOne, oAsked, oFaults>>
  BY DEF Owners!NightClaim, Owners!NightRead, Owners!NightSend, Owners!NightDone, Owners!Night
<1>3. oNight \in [Stocks -> {"free", "reserved", "gated", "flat", "live"}] /\ Separate(s) /\ oEnt[s] \in EntrySet
  BY OwnerTypes DEF OInv, Owners!TypeOK
<1>4. oNight'[s] = x /\ \A u \in Stocks \ {s} : oNight'[u] = oNight[u]
  BY <1>1, <1>3
<1>5. Owners!TypeOK'
  <2>1. oNight' \in [Stocks -> {"free", "reserved", "gated", "flat", "live"}]
    BY <1>1, <1>3
  <2> QED BY <1>2, <2>1 DEF OInv, Owners!TypeOK
<1>6. \A u \in Stocks \ {s} : Separate(u)'
  BY <1>2, <1>4, OtherStocks DEF OInv, Owners!Dead
<1>7. Clear(s) => Clear(s)'
  BY <1>2 DEF Clear, Owners!Dead
<1>8. Entered(s)' /\ OrbAlone(s)'
  BY <1>2, <1>3, <1>7 DEF Separate, Entered, OrbAlone
<1>9. AskedFor(s)'
  BY <1>1, <1>2, <1>3, <1>4 DEF Separate, AskedFor
<1>10. x = "flat" => Clear(s) /\ oOne[s] # "live"
  <2>1. x = "flat" => oEnt[s].at = "none" /\ ~Owners!Dead(s) /\ oEnt[s].st # "working" /\ oOne[s] # "live"
    BY <1>1, <1>3 DEF Owners!AlpacaFlat, Separate, NightAlone
  <2>2. oEnt[s].st \in {"none", "working", "held"}
    BY <1>3 DEF EntrySet
  <2> QED BY <1>3, <2>1, <2>2 DEF Separate, Entered, Clear
<1>11. OneAlone(s)' /\ NightAlone(s)'
  BY <1>1, <1>2, <1>3, <1>4, <1>7, <1>10 DEF Separate, OneAlone, NightAlone
<1>12. Cardinality(Taking)' <= Slots
  BY <1>2, NoneTaken
<1> QED BY <1>5, <1>6, <1>8, <1>9, <1>11, <1>12 DEF Separate, OInv

(* The local gates cancel the engine's working entry.                      *)
LEMMA GateKeeps ==
  ASSUME OInv, NEW s \in Stocks, Owners!NightGate(s)
  PROVE  OInv'
<1>1. /\ oAsked = Owners!Nobody /\ oOrb[s] = "free" /\ oEnt[s].st # "held" /\ oNight[s] = "reserved"
      /\ oNight' = [oNight EXCEPT ![s] = "gated"] /\ UNCHANGED <<oStaged, oOrb, oOne, oAsked, oFaults>>
  BY DEF Owners!NightGate, Owners!Night, Owners!Loop, Owners!HeldForNight, Owners!OrbOwns
<1>2. /\ oEnt \in [Stocks -> EntrySet] /\ Owners!NoOrder \in EntrySet /\ oEnt[s].st \in {"none", "working", "held"}
      /\ oNight \in [Stocks -> {"free", "reserved", "gated", "flat", "live"}] /\ Separate(s)
  BY OwnerTypes DEF OInv, Owners!TypeOK
<1>3. Owners!NoOrder.st = "none" /\ Owners!NoOrder.at = "none" /\ Owners!NoOrder.arm = "none"
  BY DEF Owners!NoOrder
<1>4. \/ oEnt' = oEnt /\ oDead' = oDead /\ (oEnt[s].st = "working" => Owners!Swings(s))
      \/ oEnt' = [oEnt EXCEPT ![s] = Owners!NoOrder] /\ oDead' = oDead \cup Owners!GivenUp(s) /\ oEnt[s].st = "working"
  BY DEF Owners!NightGate
<1>5. ~Owners!Swings(s)
  BY DEF Owners!NightGate, Owners!HeldForNight
<1>6. oNight'[s] = "gated" /\ \A u \in Stocks \ {s} : oNight'[u] = oNight[u]
  BY <1>1, <1>2
<1>7. oEnt' \in [Stocks -> EntrySet] /\ oEnt'[s].st = "none" /\ oEnt'[s].at = "none" /\ oEnt'[s].arm = "none"
      /\ \A u \in Stocks \ {s} : oEnt'[u] = oEnt[u]
  <2>1. CASE oEnt' = oEnt
    <3>1. oEnt[s].st = "none"
      BY <1>1, <1>2, <1>3, <1>4, <1>5, <2>1
    <3> QED BY <1>2, <2>1, <3>1 DEF Separate, Entered
  <2>2. CASE oEnt' = [oEnt EXCEPT ![s] = Owners!NoOrder]
    BY <1>2, <1>3, <2>2
  <2> QED BY <1>4, <2>1, <2>2
<1>8. oDead' \in SUBSET (Stocks \X Owners!Arms) /\ \A u \in Stocks \ {s} : Owners!Dead(u)' => Owners!Dead(u)
  <2>1. CASE oDead' = oDead
    BY <2>1 DEF OInv, Owners!TypeOK, Owners!Dead
  <2>2. CASE oDead' = oDead \cup Owners!GivenUp(s)
    BY <2>2, GivesUp
  <2> QED BY <1>4, <2>1, <2>2
<1>9. Clear(s) => Clear(s)'
  BY <1>4, <1>7 DEF Clear, Owners!Dead
<1>10. Owners!TypeOK'
  <2>1. oNight' \in [Stocks -> {"free", "reserved", "gated", "flat", "live"}]
    BY <1>1, <1>2
  <2> QED BY <1>1, <1>7, <1>8, <2>1 DEF OInv, Owners!TypeOK, EntrySet
<1>11. \A u \in Stocks \ {s} : Separate(u)'
  BY <1>1, <1>6, <1>7, <1>8, OtherStocks DEF OInv
<1>12. Separate(s)'
  <2>1. Entered(s)' /\ AskedFor(s)'
    BY <1>1, <1>7 DEF Entered, AskedFor
  <2>2. OrbAlone(s)' /\ OneAlone(s)' /\ NightAlone(s)'
    BY <1>1, <1>2, <1>6, <1>7, <1>9 DEF Separate, OrbAlone, OneAlone, NightAlone
  <2> QED BY <2>1, <2>2 DEF Separate
<1>13. Cardinality(Taking)' <= Slots
  <2>1. \A u \in Stocks : oEnt'[u].arm = "day" => oEnt[u].arm = "day"
    BY <1>7
  <2> QED BY <1>1, <2>1, NoneTaken
<1> QED BY <1>10, <1>11, <1>12, <1>13 DEF OInv

-----------------------------------------------------------------------------
(* A restart forgets ORB's reservations and the order under way.           *)
LEMMA OwnersCrash ==
  ASSUME OInv, Owners!Crash
  PROVE  OInv'
<1>1. /\ oFaults' \in 0 .. OwnerFaults /\ oAsked' = Owners!Nobody /\ UNCHANGED <<oEnt, oDead, oStaged, oOne, oNight>>
      /\ oOrb' = [u \in Stocks |-> IF oOrb[u] = "live" THEN "live" ELSE "free"]
  BY OwnersAssumption DEF Owners!Crash, OInv, Owners!TypeOK
<1>2. \A u \in Stocks : oOrb'[u] = oOrb[u] \/ oOrb'[u] = "free"
  BY <1>1
<1>3. Owners!TypeOK'
  BY <1>1 DEF OInv, Owners!TypeOK
<1>4. ASSUME NEW u \in Stocks PROVE Separate(u)'
  <2>1. Separate(u)
    BY DEF OInv
  <2>2. Clear(u) => Clear(u)'
    BY <1>1 DEF Clear, Owners!Dead
  <2>3. Entered(u)' /\ AskedFor(u)'
    BY <1>1, <2>1 DEF Separate, Entered, AskedFor
  <2>4. OrbAlone(u)' /\ OneAlone(u)' /\ NightAlone(u)'
    BY <1>1, <1>2, <2>1, <2>2 DEF Separate, OrbAlone, OneAlone, NightAlone
  <2> QED BY <2>3, <2>4 DEF Separate
<1>5. Cardinality(Taking)' <= Slots
  BY <1>1, NoneTaken
<1> QED BY <1>3, <1>4, <1>5 DEF OInv

-----------------------------------------------------------------------------
(* The theorems                                                            *)

LEMMA OwnersInit == ASSUME Owners!Init PROVE OInv
<1>1. Owners!NoOrder \in EntrySet /\ Owners!NoOrder.st = "none" /\ Owners!NoOrder.at = "none" /\ Owners!NoOrder.arm = "none"
  BY DEF Owners!NoOrder, EntrySet
<1>2. oEnt \in [Stocks -> EntrySet] /\ \A u \in Stocks : oEnt[u] = Owners!NoOrder
  BY <1>1 DEF Owners!Init
<1>3. Owners!TypeOK
  BY <1>2, OwnersAssumption DEF Owners!Init, Owners!TypeOK, EntrySet
<1>4. \A u \in Stocks : Separate(u)
  BY <1>1, <1>2 DEF Owners!Init, Separate, Entered, AskedFor, OrbAlone, OneAlone, NightAlone, Clear, Owners!Dead
<1>5. Taking = {}
  BY <1>1, <1>2 DEF Owners!Init, Taking
<1>6. Cardinality(Taking) <= Slots
  BY <1>5, FS_EmptySet, OwnersAssumption
<1> QED BY <1>3, <1>4, <1>6 DEF OInv

LEMMA OwnersStep == ASSUME OInv, [Owners!Next]_owners PROVE OInv'
<1>1. ASSUME NEW s \in Stocks, Owners!Stage(s) \/ Owners!Unstage(s) PROVE OInv'
  BY <1>1, StageKeeps
<1>2. ASSUME NEW s \in Stocks, NEW arm \in Owners!Arms, Owners!Ask(s, arm) PROVE OInv'
  BY <1>2, AskKeeps
<1>3. CASE Owners!Claim
  BY <1>3, ClaimKeeps
<1>4. CASE Owners!Admit
  BY <1>4, AdmitKeeps
<1>5. ASSUME NEW s \in Stocks, Owners!PostEntry(s) \/ Owners!PostUnsettled(s) \/ Owners!Book(s) PROVE OInv'
  BY <1>5, PostKeeps
<1>6. ASSUME NEW s \in Stocks, Owners!Cancel(s) \/ Owners!CloseTrade(s) PROVE OInv'
  BY <1>6, EndKeeps
<1>7. ASSUME NEW s \in Stocks, NEW arm \in Owners!Arms, NEW b \in BOOLEAN, Owners!Settle(s, arm, b) PROVE OInv'
  BY <1>7, SettleKeeps
<1>8. ASSUME NEW s \in Stocks, Owners!OrbReserve(s) \/ Owners!OrbCheck(s) \/ Owners!OrbPost(s) \/ Owners!OrbDone(s) PROVE OInv'
  BY <1>8, OrbKeeps
<1>9. ASSUME NEW s \in Spys \cup Coins, Owners!OneClaim(s) \/ Owners!OneGates(s) \/ Owners!OneSend(s) \/ Owners!OneDone(s) PROVE OInv'
  <2>1. s \in Stocks
    BY OwnersAssumption
  <2> QED BY <1>9, <2>1, OneKeeps
<1>10. ASSUME NEW s \in Nightly, Owners!NightClaim(s) \/ Owners!NightGate(s) \/ Owners!NightRead(s) \/ Owners!NightSend(s) \/ Owners!NightDone(s)
       PROVE  OInv'
  <2>1. s \in Stocks
    BY OwnersAssumption
  <2>2. CASE Owners!NightGate(s)
    BY <2>1, <2>2, GateKeeps
  <2>3. CASE Owners!NightClaim(s) \/ Owners!NightRead(s) \/ Owners!NightSend(s) \/ Owners!NightDone(s)
    BY <2>1, <2>3, NightKeeps
  <2> QED BY <1>10, <2>2, <2>3
<1>11. CASE Owners!Crash
  BY <1>11, OwnersCrash
<1>12. CASE UNCHANGED owners
  <2>1. UNCHANGED <<oEnt, oDead, oStaged, oOrb, oOne, oNight, oAsked, oFaults>>
    BY <1>12 DEF owners
  <2>2. Owners!TypeOK'
    BY <2>1 DEF OInv, Owners!TypeOK
  <2>3. \A u \in Stocks : Separate(u)'
    BY <2>1, OtherStocks DEF OInv, Owners!Dead
  <2>4. Cardinality(Taking)' <= Slots
    BY <2>1, NoneTaken
  <2> QED BY <2>2, <2>3, <2>4 DEF OInv
<1> QED BY <1>1, <1>2, <1>3, <1>4, <1>5, <1>6, <1>7, <1>8, <1>9, <1>10, <1>11, <1>12 DEF Owners!Next

LEMMA OnlyOne == ASSUME NEW S, NEW x, S = {x} \/ S = {} PROVE Cardinality(S) <= 1
<1>1. CASE S = {x}
  <2>1. Cardinality(S) = 1
    BY <1>1, FS_Singleton
  <2> QED BY <2>1
<1>2. CASE S = {}
  <2>1. Cardinality(S) = 0
    BY <1>2, FS_EmptySet
  <2> QED BY <2>1
<1> QED BY <1>1, <1>2

LEMMA ApartMeansOne == ASSUME OInv PROVE Owners!OneOwner
<1> SUFFICES ASSUME NEW s \in Stocks PROVE Cardinality(Owners!Traders(s)) <= 1
  BY SameCount DEF Owners!OneOwner
<1>1. Separate(s) /\ oEnt[s].st \in {"none", "working", "held"}
  BY OwnerTypes DEF OInv
<1>2. Clear(s) => oEnt[s].at = "none" /\ ~Owners!Dead(s)
  BY <1>1 DEF Clear, Separate, Entered
<1>3. CASE oOrb[s] = "live"
  <2>1. Owners!Traders(s) = {"orb"}
    BY <1>1, <1>2, <1>3 DEF Separate, OrbAlone, OneAlone, NightAlone, Owners!Traders
  <2> QED BY <2>1, OnlyOne
<1>4. CASE oOne[s] = "live"
  <2>1. Owners!Traders(s) = {"one"}
    BY <1>1, <1>2, <1>4 DEF Separate, OneAlone, NightAlone, Owners!Traders
  <2> QED BY <2>1, OnlyOne
<1>5. CASE oOrb[s] # "live" /\ oOne[s] # "live" /\ oNight[s] = "live"
  <2>1. Owners!Traders(s) = {"night"}
    BY <1>1, <1>2, <1>5 DEF Separate, NightAlone, Owners!Traders
  <2> QED BY <2>1, OnlyOne
<1>6. CASE oOrb[s] # "live" /\ oOne[s] # "live" /\ oNight[s] # "live"
  <2>1. Owners!Traders(s) = {"engine"} \/ Owners!Traders(s) = {}
    BY <1>6 DEF Owners!Traders
  <2> QED BY <2>1, OnlyOne
<1> QED BY <1>3, <1>4, <1>5, <1>6

OwnersTurn == turn = "owners" => OInv

LEMMA OwnersGoOn == OwnersTurn /\ [PartsNext]_all => OwnersTurn'
<1> SUFFICES ASSUME OwnersTurn, [PartsNext]_all, turn' = "owners" PROVE OwnersTurn'
  BY DEF OwnersTurn
<1>1. turn = "owners" /\ (Owners!Next \/ UNCHANGED owners)
  BY DEF PartsNext, all, InOrb, InOwners, InLoss, InDesk
<1> QED BY <1>1, OwnersStep DEF OwnersTurn

(* Who has orders or shares of a stock, and who may yet have, keep apart:  *)
(* a part that passed its last look is alone with the stock (_late_checks, *)
(* _entry_recheck, _local_gates).                                          *)
THEOREM OwnersApart == MorningsSpec => []OwnersTurn
<1>1. MorningsInit => OwnersTurn
  BY OwnersInit DEF MorningsInit, OwnersTurn
<1> QED BY <1>1, OwnersGoOn, PTL DEF MorningsSpec

-----------------------------------------------------------------------------
(* The loss of a day                                                       *)

Dated(l) == l \in [date : Nat, amount : Int]

(* The books of session s explain its equity: what it began with, what its *)
(* own trades made, and the sale of the night that is booked in it.        *)
Explains(s, e, first, l, t) ==
  /\ s \in Nat \ {0} /\ s <= bDay /\ e \in Int /\ first \in Int /\ t \in Int /\ Dated(l) /\ l.date <= s
  /\ e = first + t + Budget!OffsetFor(l, s)

LossInv ==
  /\ bDay \in Nat
  /\ bHold \in [n : Nat, state : {"none", "held", "sold"}, date : Nat, result : Int]
  /\ Explains(bSession, bEquity, bStart, bLedger, bToday)
  /\ bOff = Budget!OffsetFor(bLedger, bSession) /\ bLimit = Budget!LimitOf(bStart)
  /\ Explains(bDisk.session, bDisk.equity, bDisk.start, bDisk.ledger, bDisk.today)

LEMMA LossOffset == ASSUME NEW l, Dated(l), NEW s PROVE Budget!OffsetFor(l, s) \in Int
BY DEF Dated, Budget!OffsetFor

LEMMA LossLimit == ASSUME NEW e \in Int PROVE Budget!LimitOf(e) \in Int
<1>1. e \div Share \in Int
  BY LossAssumption
<1> QED BY <1>1, LossAssumption DEF Budget!LimitOf, Budget!Least

LEMMA LossMoves == Budget!Moves \subseteq Int
<1> SUFFICES ASSUME NEW x \in Budget!Moves PROVE x \in Int
  OBVIOUS
<1>1. CASE x \in Gains
  BY <1>1, LossAssumption
<1>2. ASSUME NEW l \in Losses, x = -l PROVE x \in Int
  BY <1>2, LossAssumption
<1> QED BY <1>1, <1>2 DEF Budget!Moves

LEMMA LossStarts == Budget!Init => LossInv
<1> SUFFICES ASSUME Budget!Init PROVE LossInv
  OBVIOUS
<1>1. Dated(Budget!NoOffset) /\ Budget!NoOffset.date = 0
  BY DEF Dated, Budget!NoOffset
<1>2. Budget!OffsetFor(Budget!NoOffset, 1) = 0
  BY <1>1 DEF Budget!OffsetFor
<1>3. Explains(bSession, bEquity, bStart, bLedger, bToday)
  BY <1>1, <1>2, LossAssumption DEF Budget!Init, Explains
<1>4. Explains(bDisk.session, bDisk.equity, bDisk.start, bDisk.ledger, bDisk.today)
  BY <1>1, <1>2, LossAssumption DEF Budget!Init, Explains
<1> QED BY <1>2, <1>3, <1>4 DEF Budget!Init, LossInv, Budget!NoHold

(* Each step of the day keeps the books explained: an event moves the      *)
(* equity and the session's own result together, the boundary finds no     *)
(* offset of its own day, a sale moves equity and offset together, and a   *)
(* restart takes back all of them at once.                                 *)
LEMMA LossStep == LossInv /\ (Budget!Next \/ UNCHANGED loss) => LossInv'
<1> SUFFICES ASSUME LossInv, Budget!Next \/ UNCHANGED loss PROVE LossInv'
  OBVIOUS
<1> DEFINE Now  == Explains(bSession, bEquity, bStart, bLedger, bToday)
           Then == Explains(bDisk.session, bDisk.equity, bDisk.start, bDisk.ledger, bDisk.today)
<1>1. CASE UNCHANGED loss
  BY <1>1 DEF loss, LossInv, Explains
<1>2. ASSUME NEW x \in Budget!Moves, Budget!Event(x) PROVE LossInv'
  <2>1. bEquity' = bEquity + x /\ bToday' = bToday + x /\ x \in Int
    BY <1>2, LossMoves DEF Budget!Event
  <2>2. Now'
    BY <1>2, <2>1, LossOffset DEF LossInv, Explains, Budget!Event
  <2>3. Then'
    BY <1>2 DEF LossInv, Explains, Budget!Event
  <2> QED BY <1>2, <2>2, <2>3 DEF LossInv, Budget!Event
<1>3. ASSUME NEW x \in Budget!Moves, Budget!Sell(x) PROVE LossInv'
  <2>1. bHold' \in [n : Nat, state : {"none", "held", "sold"}, date : Nat, result : Int]
    BY <1>3, LossMoves DEF LossInv, Budget!Sell
  <2> QED BY <1>3, <2>1 DEF LossInv, Explains, Budget!Sell
<1>4. CASE Budget!Boundary
  <2>1. Budget!OffsetFor(bLedger, bDay) = 0
    BY <1>4 DEF LossInv, Explains, Dated, Budget!OffsetFor, Budget!Boundary
  <2>2. Now'
    BY <1>4, <2>1 DEF LossInv, Explains, Dated, Budget!Boundary
  <2>3. Then'
    BY <1>4 DEF LossInv, Explains, Budget!Boundary
  <2> QED BY <1>4, <2>2, <2>3 DEF LossInv, Budget!Boundary
<1>5. CASE Budget!NewDay
  BY <1>5 DEF LossInv, Explains, Budget!NewDay
<1>6. CASE Budget!Buy
  BY <1>6 DEF LossInv, Explains, Budget!Buy
<1>7. CASE Budget!BookSale
  <2> DEFINE l == Budget!WithSale(bLedger, bHold.result)
  <2>1. Dated(l) /\ l.date = bSession /\ bHold.result \in Int
    BY DEF LossInv, Explains, Dated, Budget!WithSale
  <2>2. Budget!OffsetFor(l, bSession) = bHold.result + Budget!OffsetFor(bLedger, bSession)
    BY DEF LossInv, Explains, Dated, Budget!WithSale, Budget!OffsetFor
  <2>3. bEquity' = bEquity + bHold.result /\ bLedger' = l /\ bOff' = Budget!OffsetFor(l, bSession)
    BY <1>7 DEF Budget!BookSale
  <2> HIDE DEF l
  <2>4. Now'
    BY <1>7, <2>1, <2>2, <2>3, LossOffset DEF LossInv, Explains, Budget!BookSale
  <2>5. Then'
    BY <1>7 DEF LossInv, Explains, Budget!BookSale
  <2> QED BY <1>7, <2>3, <2>4, <2>5 DEF LossInv, Budget!BookSale
<1>8. CASE Budget!Save
  <2>1. Then'
    BY <1>8 DEF LossInv, Explains, Budget!Save, Budget!Saved
  <2> QED BY <1>8, <2>1 DEF LossInv, Explains, Budget!Save
<1>9. CASE Budget!Crash
  BY <1>9 DEF LossInv, Explains, Budget!Crash
<1> QED BY <1>1, <1>2, <1>3, <1>4, <1>5, <1>6, <1>7, <1>8, <1>9 DEF Budget!Next

LEMMA LossMeasured == LossInv => Budget!MeasuredIsTheSessions
<1> SUFFICES ASSUME LossInv PROVE bStart - (bEquity - bOff) = -bToday
  BY DEF Budget!MeasuredIsTheSessions, Budget!Drawdown
<1> QED BY LossOffset DEF LossInv, Explains

(* An intraday order of n shares with stops d away, approved while r is    *)
(* reserved, takes no more than what the measured loss and r leave.        *)
LEMMA LossFits ==
  ASSUME NEW lim \in Int, NEW dd \in Nat, NEW r \in Nat, NEW d \in 1 .. 2, NEW cap \in {1, 2}, NEW n \in Nat \ {0},
         LET left == Budget!Most(0, lim - dd - r)
         IN  left # 0 /\ n <= Budget!Least(left, cap) \div d
  PROVE  dd + r + n * d <= lim
<1> DEFINE left == Budget!Most(0, lim - dd - r)  most == Budget!Least(left, cap)
<1>1. left = lim - dd - r /\ left > 0
  BY DEF Budget!Most
<1>2. most \in Int /\ most <= left
  BY <1>1 DEF Budget!Least
<1> HIDE DEF left, most
<1>3. n * d <= most
  <2>1. CASE d = 1
    BY <1>2, <2>1 DEF most, left
  <2>2. CASE d = 2
    BY <1>2, <2>2 DEF most, left
  <2> QED BY <2>1, <2>2
<1> QED BY <1>1, <1>2, <1>3

LEMMA LossApproves == LossInv => Budget!ApprovedFitsTheDay
<1> SUFFICES ASSUME LossInv,
                    NEW r \in [exit : {FALSE}, swing : {FALSE}, fixed : BOOLEAN, lockout : {FALSE}, full : {FALSE},
                               crowded : {FALSE}, large : {FALSE}, geometry : {"fits"}, dist : 1 .. 2, room : {3}, qty : 1 .. 2],
                    NEW res \in {0, 1, 2, Budget!Unreadable},
                    Budget!Verdict(r, res).qty > 0
             PROVE  /\ res # Budget!Unreadable
                    /\ Budget!Most(0, -bToday) + res + Budget!Verdict(r, res).qty * r.dist <= Budget!LimitOf(bStart)
  BY DEF Budget!ApprovedFitsTheDay
<1> DEFINE dd == Budget!Drawdown(bStart, bEquity, bOff)  n == Budget!Verdict(r, res).qty
           left == Budget!Remaining(res)
<1>1. dd = Budget!Most(0, -bToday) /\ dd \in Nat
  BY LossMeasured DEF Budget!MeasuredIsTheSessions, Budget!Most, LossInv, Explains
<1>2. bLimit = Budget!LimitOf(bStart) /\ bLimit \in Int
  BY LossLimit DEF LossInv, Explains
<1>3. \A code : Budget!Refused(code).qty = 0
  BY DEF Budget!Refused
<1>4. left # 0 /\ n = Budget!IntradayVerdict(r, res).qty
  <2> DEFINE halted == bStatus # "ARMED" \/ dd >= bLimit
  <2>1. ~r.exit /\ ~r.swing
    OBVIOUS
  <2>2. Budget!Verdict(r, res) =
          IF halted THEN Budget!Refused("CIRCUIT_BREAKER_HALTED")
          ELSE IF left = 0 THEN Budget!Refused("EXHAUSTED_DAILY_LOSS_BUDGET")
          ELSE Budget!IntradayVerdict(r, res)
    BY <2>1 DEF Budget!Verdict
  <2> HIDE DEF halted, left
  <2>3. Budget!Verdict(r, res).qty # 0
    OBVIOUS
  <2> QED BY <1>3, <2>2, <2>3
<1>5. res # Budget!Unreadable
  <2> SUFFICES ASSUME res = Budget!Unreadable PROVE left = 0
    BY <1>4
  <2> QED BY <1>1, <1>2 DEF Budget!Remaining, Budget!Reserved, Budget!Most
<1>6. left = Budget!Most(0, bLimit - dd - res) /\ res \in Nat
  BY <1>5 DEF Budget!Remaining, Budget!Reserved
<1> DEFINE cap == IF bLevel = "WARNING" THEN 1 ELSE 2
<1>7. Budget!Authorized(r, res) = Budget!Least(Budget!Least(left, cap) \div r.dist, 3)
  BY DEF Budget!Authorized, Budget!TradeRisk
<1>8. Budget!Least(left, cap) \div r.dist \in Int
  <2>1. Budget!Least(left, cap) \in Int /\ r.dist \in {1, 2}
    BY <1>1, <1>2, <1>6 DEF Budget!Least, Budget!Most
  <2> QED BY <2>1
<1>9. Budget!Authorized(r, res) >= 1 /\ n = Budget!Least(r.qty, Budget!Authorized(r, res))
  <2> DEFINE m == Budget!Authorized(r, res)
  <2>1. ~r.lockout /\ ~r.full /\ ~r.crowded /\ r.geometry = "fits"
    OBVIOUS
  <2>2. Budget!IntradayVerdict(r, res) =
          IF m < 1 THEN Budget!Refused("INSUFFICIENT_RISK_BUDGET")
          ELSE [code |-> "Approved", qty |-> Budget!Least(r.qty, m)]
    BY <2>1 DEF Budget!IntradayVerdict
  <2>3. m \in Int
    BY <1>7, <1>8 DEF Budget!Least
  <2> QED BY <1>3, <1>4, <2>2, <2>3
<1>10. n \in Nat \ {0} /\ n <= Budget!Least(left, cap) \div r.dist
  BY <1>9, <1>7, <1>8 DEF Budget!Least
<1> HIDE DEF dd, n, left, cap
<1>11. dd + res + n * r.dist <= bLimit
  BY <1>1, <1>2, <1>4, <1>6, <1>10, LossFits DEF cap
<1> QED BY <1>1, <1>2, <1>5, <1>11 DEF n

LossTurn == turn = "loss" => LossInv

LEMMA LossGoesOn == LossTurn /\ [PartsNext]_all => LossTurn'
<1> SUFFICES ASSUME LossTurn, [PartsNext]_all, turn' = "loss" PROVE LossTurn'
  BY DEF LossTurn
<1>1. turn = "loss" /\ (Budget!Next \/ UNCHANGED loss)
  BY DEF PartsNext, all, InOrb, InOwners, InLoss, InDesk
<1> QED BY <1>1, LossStep DEF LossTurn

(* At Alpaca a stock has orders or shares of one part only, and strategies *)
(* and day-one plans together never hold, or may come to hold, more stocks *)
(* than the slots, however the loop, ORB's threads and the workers         *)
(* interleave, for any lists of stocks (claim_for_adt, _late_checks,       *)
(* _entry_recheck, _local_gates, pre_trade_risk_validator,                 *)
(* day_one_admission).  The loss measured against the limit of a day is    *)
(* that of its own trades, whenever the night's sale is booked and         *)
(* whatever a restart loses, and an approved order cannot take more than   *)
(* is left, for any limits and results (risk.py, apply_risk_offset).       *)
THEOREM OwnersShareStocks == MorningsSpec => []OwnersShare
<1>1. OInv => Owners!SlotsShared
  BY SameCount DEF OInv, Taking, Owners!SlotsShared
<1>2. OwnersTurn /\ LossTurn => OwnersShare
  BY <1>1, ApartMeansOne, LossMeasured, LossApproves DEF OwnersTurn, LossTurn, OwnersShare
<1>3. MorningsInit => LossTurn
  BY LossStarts DEF MorningsInit, LossTurn
<1>4. MorningsSpec => []LossTurn
  BY <1>3, LossGoesOn, PTL DEF MorningsSpec
<1> QED BY <1>2, <1>4, OwnersApart, PTL

-----------------------------------------------------------------------------
DeskP == INSTANCE BracketProofs WITH NB <- 1, Exits <- DeskExits, Covers <- DeskCovers, Qtys <- {2}, Caps <- {0, 1},
  MaxStop <- 1, Breakeven <- 1, CancelKinds <- {"entry", "stop", "t1", "t2", "exit"}, Reduce <- TRUE,
  Blind <- TRUE, Elsewhere <- TRUE, pos <- dPos, ord <- dOrd, xpar <- dXpar, nb <- dNb, br <- dBr, symBr <- dSymBr,
  mapped <- dMapped, entryMap <- dEntryMap, pend <- dPend, phase <- dPhase, room <- dRoom,
  halted <- dHalted, closing <- dClosing, trade <- dTrade

-----------------------------------------------------------------------------
(* The desk: the same words                                                *)

LEMMA SameSets ==
  /\ Desk!Brackets = DeskP!Brackets /\ Desk!Orders = DeskP!Orders /\ Desk!Runners = DeskP!Runners
  /\ Desk!None = DeskP!None /\ Desk!NoCap = DeskP!NoCap /\ Desk!NoOrder = DeskP!NoOrder
  /\ Desk!NoBracket = DeskP!NoBracket
BY DEF Desk!Brackets, DeskP!Brackets, Desk!Orders, DeskP!Orders, Desk!Legs, DeskP!Legs, Desk!Kinds, DeskP!Kinds,
     Desk!Runners, DeskP!Runners, Desk!None, DeskP!None, Desk!NoCap, DeskP!NoCap, Desk!NoOrder, DeskP!NoOrder,
     Desk!NoBracket, DeskP!NoBracket

LEMMA SameWords ==
  /\ Desk!Idle = DeskP!Idle
  /\ \A b : /\ Desk!Entry(b) = DeskP!Entry(b) /\ Desk!Stop(b) = DeskP!Stop(b)
            /\ Desk!T1(b) = DeskP!T1(b) /\ Desk!T2(b) = DeskP!T2(b) /\ Desk!Live(b) = DeskP!Live(b)
            /\ Desk!Current(b) = DeskP!Current(b) /\ Desk!Children(b) = DeskP!Children(b)
            /\ Desk!OpenT2(b) = DeskP!OpenT2(b) /\ Desk!OpenBoth(b) = DeskP!OpenBoth(b)
  /\ \A o : /\ Desk!Kind(o) = DeskP!Kind(o) /\ Desk!Rank(o) = DeskP!Rank(o)
            /\ Desk!Buys(o) = DeskP!Buys(o) /\ Desk!Reduces(o) = DeskP!Reduces(o)
BY SameSets DEF Desk!Idle, DeskP!Idle, Desk!Entry, DeskP!Entry, Desk!Stop, DeskP!Stop, Desk!T1, DeskP!T1, Desk!T2,
     DeskP!T2, Desk!Live, DeskP!Live, Desk!Current, DeskP!Current, Desk!Children, DeskP!Children, Desk!OpenT2,
     DeskP!OpenT2, Desk!OpenBoth, DeskP!OpenBoth, Desk!Kind, DeskP!Kind, Desk!Rank, DeskP!Rank, Desk!Buys,
     DeskP!Buys, Desk!Reduces, DeskP!Reduces

LEMMA SameSums ==
  /\ \A n, m : Desk!Smaller(n, m) = DeskP!Smaller(n, m)
  /\ \A n : /\ Desk!Floor0(n) = DeskP!Floor0(n) /\ Desk!Halve(n) = DeskP!Halve(n)
            /\ Desk!Accepted(n) = DeskP!Accepted(n) /\ Desk!Ratchet(n) = DeskP!Ratchet(n)
  /\ \A r, q : Desk!Filled(r, q) = DeskP!Filled(r, q)
  /\ \A x : Desk!Open(x) = DeskP!Open(x)
  /\ \A x : Desk!Working(x) = DeskP!Working(x)
  /\ Desk!Unsold = DeskP!Unsold
BY DEF Desk!Smaller, DeskP!Smaller, Desk!Floor0, DeskP!Floor0, Desk!Halve, DeskP!Halve, Desk!Accepted,
     DeskP!Accepted, Desk!Ratchet, DeskP!Ratchet, Desk!Filled, DeskP!Filled, Desk!Open, DeskP!Open, Desk!Working,
     DeskP!Working, Desk!Unsold, DeskP!Unsold

LEMMA SameBook ==
  /\ \A f, S : Desk!Cancel(f, S) = DeskP!Cancel(f, S)
  /\ \A f, x, q : Desk!Resize(f, x, q) = DeskP!Resize(f, x, q)
  /\ \A f, x, q : Desk!Offer(f, x, q) = DeskP!Offer(f, x, q)
  /\ \A u, b : Desk!Record(u, b) = DeskP!Record(u, b)
  /\ \A u, b, q : Desk!Tally(u, b, q) = DeskP!Tally(u, b, q)
<1>1. \A f, S : Desk!Cancel(f, S) = DeskP!Cancel(f, S)
  BY SameSets, SameSums DEF Desk!Cancel, DeskP!Cancel
<1>2. \A f, x, q : Desk!Resize(f, x, q) = DeskP!Resize(f, x, q)
  BY SameSums DEF Desk!Resize, DeskP!Resize
<1>3. \A f, x, q : Desk!Offer(f, x, q) = DeskP!Offer(f, x, q)
  BY <1>1, <1>2 DEF Desk!Offer, DeskP!Offer
<1> QED
  BY <1>1, <1>2, <1>3 DEF Desk!Record, DeskP!Record, Desk!Tally, DeskP!Tally

LEMMA SameParts ==
  /\ \A o, cap : Desk!FillNow(o, cap) => DeskP!FillNow(o, cap)
  /\ \A o, q : Desk!TakePiece(o, q) => DeskP!TakePiece(o, q)
  /\ \A o : Desk!TakeFill(o) => DeskP!TakeFill(o)
  /\ \A b, state, q : Desk!Complete(b, state, q) => DeskP!Complete(b, state, q)
  /\ \A o, b, q : Desk!ExitFill(o, b, q) => DeskP!ExitFill(o, b, q)
  /\ \A o, b, q : Desk!LateChild(o, b, q) => DeskP!LateChild(o, b, q)
  /\ \A b, r : Desk!ScaleTargets(b, r) => DeskP!ScaleTargets(b, r)
  /\ \A l : Desk!MoveStop(l) => DeskP!MoveStop(l)
  /\ \A f : Desk!ReleaseDead(f) => DeskP!ReleaseDead(f)
  /\ \A f, x, b : Desk!Liquidate(f, x, b) => DeskP!Liquidate(f, x, b)
  /\ Desk!ReleaseForFlattening => DeskP!ReleaseForFlattening
<1>1. \A o, cap : Desk!FillNow(o, cap) => DeskP!FillNow(o, cap)
  BY SameSets, SameWords, SameSums, SameBook DEF Desk!FillNow, DeskP!FillNow
<1>a. \A o, q : Desk!TakePiece(o, q) => DeskP!TakePiece(o, q)
  BY SameSets, SameWords, SameSums, SameBook DEF Desk!TakePiece, DeskP!TakePiece
<1>2. \A o : Desk!TakeFill(o) => DeskP!TakeFill(o)
  BY <1>a DEF Desk!TakeFill, DeskP!TakeFill
<1>3. \A b, state, q : Desk!Complete(b, state, q) => DeskP!Complete(b, state, q)
  BY SameSets, SameWords, SameSums, SameBook DEF Desk!Complete, DeskP!Complete
<1>4. \A o, b, q : Desk!ExitFill(o, b, q) => DeskP!ExitFill(o, b, q)
  BY SameSets, SameWords, SameSums, SameBook DEF Desk!ExitFill, DeskP!ExitFill
<1>5. \A o, b, q : Desk!LateChild(o, b, q) => DeskP!LateChild(o, b, q)
  BY SameSets, SameWords, SameSums, SameBook, <1>4 DEF Desk!LateChild, DeskP!LateChild
<1>6. \A b, r : Desk!ScaleTargets(b, r) => DeskP!ScaleTargets(b, r)
  BY ZenonT(60), SameSets, SameWords, SameSums, SameBook DEF Desk!ScaleTargets, DeskP!ScaleTargets
<1>7. \A l : Desk!MoveStop(l) => DeskP!MoveStop(l)
  BY SameSets, SameWords, SameSums, SameBook DEF Desk!MoveStop, DeskP!MoveStop
<1>8. \A f : Desk!ReleaseDead(f) => DeskP!ReleaseDead(f)
  BY SameSets, SameWords, SameSums, SameBook DEF Desk!ReleaseDead, DeskP!ReleaseDead
<1>9. \A f, x, b : Desk!Liquidate(f, x, b) => DeskP!Liquidate(f, x, b)
  BY SameSets, SameWords, SameSums, SameBook DEF Desk!Liquidate, DeskP!Liquidate
<1>10. Desk!ReleaseForFlattening => DeskP!ReleaseForFlattening
  BY SameSets, SameWords, SameSums, SameBook DEF Desk!ReleaseForFlattening, DeskP!ReleaseForFlattening
<1> QED BY <1>a, <1>1, <1>2, <1>3, <1>4, <1>5, <1>6, <1>7, <1>8, <1>9, <1>10

LEMMA SameMatch == Desk!Match => DeskP!Match
<1>1. \A b, cap : Desk!MatchStop(b, cap) => DeskP!MatchStop(b, cap)
  BY SameSets, SameWords, SameSums, SameBook, SameParts DEF Desk!MatchStop, DeskP!MatchStop
<1>2. \A o, cap : Desk!MatchOther(o, cap) => DeskP!MatchOther(o, cap)
  BY SameSets, SameWords, SameSums, SameBook, SameParts DEF Desk!MatchOther, DeskP!MatchOther
<1> QED
  BY SameSets, <1>1, <1>2 DEF Desk!Match, DeskP!Match

LEMMA SameReconcile == Desk!Reconcile => DeskP!Reconcile
<1>1. \A b : Desk!ReconcileEntry(b) => DeskP!ReconcileEntry(b)
  BY SameParts DEF Desk!ReconcileEntry, DeskP!ReconcileEntry, Desk!Entry, DeskP!Entry, Desk!Stop, DeskP!Stop, Desk!T1, DeskP!T1, Desk!T2, DeskP!T2,
     Desk!Smaller, DeskP!Smaller, Desk!Accepted, DeskP!Accepted, Desk!Halve, DeskP!Halve, Desk!Orders, DeskP!Orders, Desk!Legs, DeskP!Legs, Desk!Kinds, DeskP!Kinds,
     Desk!Brackets, DeskP!Brackets
<1>2. \A b : Desk!ReconcileStop(b) => DeskP!ReconcileStop(b)
  BY SameSets, SameWords, SameSums, SameBook, SameParts DEF Desk!ReconcileStop, DeskP!ReconcileStop
<1>3. \A b : Desk!ReconcileT1(b) => DeskP!ReconcileT1(b)
  BY SameSets, SameWords, SameSums, SameBook, SameParts DEF Desk!ReconcileT1, DeskP!ReconcileT1
<1>4. \A b : Desk!ReconcileT2(b) => DeskP!ReconcileT2(b)
  BY SameSets, SameWords, SameSums, SameBook, SameParts DEF Desk!ReconcileT2, DeskP!ReconcileT2
<1>5. \A x, q : Desk!ReconcileExit(x, q) => DeskP!ReconcileExit(x, q)
  BY SameSets, SameWords, SameSums, SameBook, SameParts DEF Desk!ReconcileExit, DeskP!ReconcileExit
<1> QED
  BY SameSets, <1>1, <1>2, <1>3, <1>4, <1>5 DEF Desk!Reconcile, DeskP!Reconcile

LEMMA SameOperator == Desk!Operator => DeskP!Operator
<1>1. \A l : Desk!TightenStop(l) => DeskP!TightenStop(l)
  BY SameSets, SameWords, SameSums, SameBook, SameParts DEF Desk!TightenStop, DeskP!TightenStop
<1>2. \A x : Desk!ManualFlatten(x) => DeskP!ManualFlatten(x)
  BY SameSets, SameWords, SameSums, SameBook, SameParts DEF Desk!ManualFlatten, DeskP!ManualFlatten
<1>3. \A o : Desk!CancelOrder(o) => DeskP!CancelOrder(o)
  BY SameSets, SameWords, SameSums, SameBook, SameParts DEF Desk!CancelOrder, DeskP!CancelOrder
<1>4. Desk!CancelElsewhere => DeskP!CancelElsewhere
  BY SameSets, SameWords, SameSums, SameBook, SameParts DEF Desk!CancelElsewhere, DeskP!CancelElsewhere
<1>5. \A x, q : Desk!SubmitReducing(x, q) => DeskP!SubmitReducing(x, q)
  BY SameSets, SameWords, SameSums, SameBook, SameParts DEF Desk!SubmitReducing, DeskP!SubmitReducing
<1> QED
  BY SameSets, <1>1, <1>2, <1>3, <1>4, <1>5 DEF Desk!Operator, DeskP!Operator

LEMMA SameNext == Desk!Next => DeskP!Next
<1>1. \A q, r : Desk!EnterSignal(q, r) => DeskP!EnterSignal(q, r)
  BY SameSets, SameWords, SameSums, SameBook, SameParts DEF Desk!EnterSignal, DeskP!EnterSignal
<1>2. \A l : Desk!TrailStop(l) => DeskP!TrailStop(l)
  BY SameSets, SameWords, SameSums, SameBook, SameParts DEF Desk!TrailStop, DeskP!TrailStop
<1>3. \A x, halt : Desk!FlattenAll(x, halt) => DeskP!FlattenAll(x, halt)
  BY SameSets, SameWords, SameSums, SameBook, SameParts DEF Desk!FlattenAll, DeskP!FlattenAll
<1>4. Desk!OrderPurge => DeskP!OrderPurge
  BY SameSets, SameWords, SameSums, SameBook, SameParts DEF Desk!OrderPurge, DeskP!OrderPurge
<1>5. Desk!CheckpointFailed => DeskP!CheckpointFailed
  BY SameSets, SameWords, SameSums, SameBook, SameParts DEF Desk!CheckpointFailed, DeskP!CheckpointFailed
<1>6. \A x : Desk!ContradictionExit(x) => DeskP!ContradictionExit(x)
  BY SameSets, SameWords, SameSums, SameBook, SameParts DEF Desk!ContradictionExit, DeskP!ContradictionExit
<1>7. \A x : Desk!SessionBoundary(x) => DeskP!SessionBoundary(x)
  BY SameSets, SameWords, SameSums, SameBook, SameParts DEF Desk!SessionBoundary, DeskP!SessionBoundary
<1>a. Desk!SessionIncomplete => DeskP!SessionIncomplete
  BY DEF Desk!SessionIncomplete, DeskP!SessionIncomplete
<1>8. Desk!SessionReset => DeskP!SessionReset
  BY SameSets, SameWords, SameSums, SameBook, SameParts DEF Desk!SessionReset, DeskP!SessionReset
<1> QED
  BY SameSets, SameMatch, SameReconcile, SameOperator, <1>1, <1>2, <1>3, <1>4, <1>5, <1>6, <1>7,
       <1>a, <1>8 DEF Desk!Next, DeskP!Next

LEMMA SameStart == Desk!Init => DeskP!Init
BY SameSets DEF Desk!Init, DeskP!Init

LEMMA DeskAssumptions == DeskP!BoundsAssumption /\ DeskP!OperatorAssumption /\ DeskP!IdsAssumption
<1>1. DeskP!BoundsAssumption
  BY DEF DeskP!BoundsAssumption
<1>2. DeskP!OperatorAssumption
  BY DEF DeskP!OperatorAssumption, DeskP!Kinds
<1>3. DeskP!IdsAssumption
  BY DeskAssumption DEF DeskP!IdsAssumption, DeskP!Legs, DeskP!Kinds, DeskP!Brackets, Desk!Legs, Desk!Kinds, Desk!Brackets
<1> QED BY <1>1, <1>2, <1>3

-----------------------------------------------------------------------------
(* The desk                                                                *)

DeskTurn == turn = "desk" => DeskP!DayInv

LEMMA DeskInit == MorningsInit => DeskTurn
BY SameStart, DeskAssumptions, DeskP!FirstDay DEF MorningsInit, DeskTurn

LEMMA DeskStep == DeskTurn /\ [PartsNext]_all => DeskTurn'
<1> SUFFICES ASSUME DeskTurn, [PartsNext]_all, turn' = "desk" PROVE DeskTurn'
  BY DEF DeskTurn
<1>1. turn = "desk" /\ (Desk!Next \/ UNCHANGED desk)
  BY DEF PartsNext, all, InOrb, InOwners, InLoss, InDesk
<1>2. UNCHANGED desk => UNCHANGED DeskP!vars
  BY DEF desk, DeskP!vars
<1> QED BY <1>1, <1>2, SameNext, DeskAssumptions, DeskP!NextDay DEF DeskTurn

(* Whatever the operator cancels and sends, whichever signals are taken    *)
(* beside a liquidation, and however often the broker refuses the sale at  *)
(* the boundary: nothing in the market belongs to a bracket that was       *)
(* cleared, and no share is carried over.                                  *)
THEOREM DeskDayStartsFlat == MorningsSpec => []DeskStartsFlat
<1>1. DeskTurn => DeskStartsFlat
  <2>1. DeskP!DayInv => DeskP!DayStartsFlat
    BY DeskAssumptions, DeskP!DayIsFlat
  <2>2. DeskP!DayStartsFlat => Desk!DayStartsFlat
    BY SameSets, SameSums DEF Desk!DayStartsFlat, DeskP!DayStartsFlat, Desk!Kinds, DeskP!Kinds
  <2> QED BY <2>1, <2>2 DEF DeskTurn, DeskStartsFlat
<1> QED BY <1>1, DeskInit, DeskStep, PTL DEF MorningsSpec

=============================================================================
