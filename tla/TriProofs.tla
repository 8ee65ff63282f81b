------------------------------ MODULE TriProofs ------------------------------
(***************************************************************************)
(* Theorems about TriPlan, for an entry of any number of shares, one or    *)
(* two tranches, any number of close orders and any number of faults, and  *)
(* for a venue where a POST that timed out does not arrive after it was    *)
(* looked for.                                                             *)
(*                                                                         *)
(* The state is proved about as a world: the plan as it is, the requests   *)
(* under way, the orders and the shares at Alpaca.  A tick changes the     *)
(* plan and the requests step by step inside one action (EntryPoll, then   *)
(* each tranche, then the clock), so the invariant is stated of worlds,    *)
(* and each link of that chain is shown to keep it.  The checkpoint is     *)
(* related to the world by Agree: what a restart forgets of an order is    *)
(* what reading it again finds out.                                        *)
(***************************************************************************)
EXTENDS TriPlan, SumProofs

-----------------------------------------------------------------------------
(* The inductive invariant                                                 *)

SoldBy(t) == {Oco(t)} \cup {Close(t, j) : j \in 1 .. MaxCloses}

(* the sell order at work for a tranche: its protection, then its last close *)
Cur(q, t) == IF q.tr[t].n = 0 THEN Oco(t) ELSE Close(t, q.tr[t].n)

Over(a, k)  == a[k].st \notin {"wire", "open"}
Ahead(a, k) == IF Over(a, k) THEN 0 ELSE a[k].qty - a[k].filled
Untouched(q, a, k) == a[k].st = "none" /\ q.ord[k] = New
Settled(q, a, k) == Over(a, k) /\ a[k].filled = q.ord[k].booked
Sold(q, a, t) == q.tr[t].closed + a[Cur(q, t)].filled - q.ord[Cur(q, t)].booked

OrderOK(o) ==
  /\ o.filled <= o.qty
  /\ o.st \in {"wire", "open"} => o.filled < o.qty
  /\ o.st \in {"none", "wire", "gone"} => o.filled = 0

RecOK(q, a, k) ==
  /\ q.ord[k].booked <= a[k].filled
  /\ q.ord[k].final => a[k].st = "final" /\ a[k].filled = q.ord[k].booked

TrancheOK(q, a, t) ==
  /\ q.tr[t].qty = 0 => q.tr[t].closed = 0 /\ ~q.tr[t].bound /\ ~q.tr[t].final /\ Untouched(q, a, Oco(t))
  /\ q.tr[t].n > 0 => q.tr[t].final
  /\ q.tr[t].final => Settled(q, a, Oco(t))
  /\ q.tr[t].bound => a[Oco(t)].st \in {"open", "final"}
  /\ \A j \in 1 .. MaxCloses : /\ j < q.tr[t].n => Settled(q, a, Close(t, j))
                               /\ j > q.tr[t].n => Untouched(q, a, Close(t, j))
  /\ Sold(q, a, t) + Ahead(a, Cur(q, t)) <= q.tr[t].qty
  /\ q.ord[Cur(q, t)].booked <= q.tr[t].closed
  /\ \A k \in SoldBy(t) : RecOK(q, a, k)

JobOK(q, j, a, t) ==
  j.at # "idle" =>
    /\ q.phase \in Active /\ q.tr[t].qty > 0
    /\ j.key = Cur(q, t)
    /\ q.tr[t].final => /\ q.tr[t].n > 0 /\ Left(q.tr[t]) > 0
                        /\ ~q.ord[j.key].final /\ j.qty = Left(q.tr[t]) + q.ord[j.key].booked
    /\ ~q.tr[t].final /\ ~q.tr[t].bound => j.qty = Left(q.tr[t]) /\ (~j.leave => j.qty > 0)
    /\ j.at = "post" => a[j.key].st \in {"none", "gone"} /\ j.qty > 0
    /\ j.at = "done" /\ j.row.why = "row" =>
         /\ a[j.key].st \in {"open", "final"} /\ j.row.f <= a[j.key].filled
         /\ j.row.final => a[j.key].st = "final" /\ j.row.f = a[j.key].filled
    /\ j.at = "done" /\ j.row.why \in {"none", "hard"} /\ ~q.tr[t].final => a[j.key].st \in {"none", "gone"}

EntryOK(q, a) ==
  /\ q.ord[Entry].booked <= a[Entry].filled
  /\ q.ord[Entry].final = q.final
  /\ q.final => Settled(q, a, Entry)

EntryJobOK(q, j, a) ==
  j.at # "idle" =>
    /\ q.phase \in Active /\ ~q.final /\ j.key = Entry /\ j.qty = Ordered
    /\ j.at = "post" => a[Entry].st \in {"none", "gone"}
    /\ j.at = "done" /\ j.row.why = "row" =>
         j.row.f <= a[Entry].filled /\ (j.row.final => Over(a, Entry) /\ j.row.f = a[Entry].filled)
    /\ j.at = "done" /\ j.row.why # "row" => ~j.row.final
    /\ j.at = "done" /\ j.row.why = "hard" => a[Entry].st \in {"none", "gone"} /\ j.row.f = 0

PartsOK(q) ==
  /\ \E m \in 0 .. Ordered : Opened(q) = 1 .. m /\ m <= Given(q)
  /\ Given(q) <= Filled(q)
  /\ q.final /\ Opened(q) # {} => Given(q) = Filled(q)

Ended(q) == q.final /\ Opened(q) # {} /\ \A t \in Opened(q) : q.tr[t].closed = q.tr[t].qty /\ q.tr[t].final

PhaseOK(q, a) ==
  /\ q.phase = "WAITING_ENTRY" => a[Entry].st = "none"
  /\ q.phase \in {"WAITING_ENTRY", "SKIPPED"} => Opened(q) = {} /\ Over(a, Entry) /\ a[Entry].filled = 0
  /\ q.phase = "CLOSED" => Ended(q)

SharesOK(q, a, sh) == sh = a[Entry].filled - SumFunction([t \in Tranches |-> Sold(q, a, t)])

World(q, J, a, sh) ==
  /\ \A k \in Keys : OrderOK(a[k])
  /\ EntryOK(q, a) /\ PartsOK(q) /\ PhaseOK(q, a) /\ SharesOK(q, a, sh)
  /\ \A t \in Tranches : TrancheOK(q, a, t) /\ JobOK(q, J[t], a, t)
  /\ EntryJobOK(q, J[0], a)

(* two plans with the same book, which differ at most in who is to go      *)
Alike(q, r) ==
  /\ r.ord = q.ord /\ r.final = q.final
  /\ \A t \in Tranches : /\ r.tr[t].qty = q.tr[t].qty /\ r.tr[t].closed = q.tr[t].closed
                         /\ r.tr[t].bound = q.tr[t].bound /\ r.tr[t].final = q.tr[t].final /\ r.tr[t].n = q.tr[t].n

Agree(q, r, a) ==
  /\ Alike(q, r)
  /\ \/ q.phase = r.phase
     \/ {q.phase, r.phase} \subseteq Active
     \/ r.phase = "WAITING_ENTRY" /\ q.phase = "SKIPPED" /\ a[Entry].st = "none"

IInv ==
  /\ TypeOK /\ World(p, jobs, alp, shares) /\ Agree(p, saved, alp)
  /\ ~up => \A i \in {0} \cup Tranches : jobs[i] = NoJob

-----------------------------------------------------------------------------
(* The keys of the orders                                                  *)

LEMMA KeyFacts ==
  /\ Entry \in Keys
  /\ \A t \in Tranches : Oco(t) \in Keys /\ Oco(t) \in Sells /\ Oco(t) \in SoldBy(t) /\ Oco(t) # Entry
  /\ \A t \in Tranches, j \in 1 .. MaxCloses :
       Close(t, j) \in Keys /\ Close(t, j) \in Sells /\ Close(t, j) \in SoldBy(t) /\ Close(t, j) # Entry
  /\ \A t, u \in Tranches : \A j, l \in 1 .. MaxCloses :
       Oco(t) # Close(u, l) /\ (Close(t, j) = Close(u, l) => t = u /\ j = l)
  /\ \A t, u \in Tranches : Oco(t) = Oco(u) => t = u
  /\ \A k \in Sells : \E t \in Tranches : k \in SoldBy(t)
  /\ \A k \in Keys : k = Entry \/ \E t \in Tranches : k \in SoldBy(t)
  /\ \A t \in Tranches : SoldBy(t) \subseteq Keys /\ SoldBy(t) \subseteq Sells /\ Entry \notin SoldBy(t)
  /\ \A t, u \in Tranches : t # u => SoldBy(t) \cap SoldBy(u) = {}
  /\ Entry \notin Sells
<1>1. \A t \in Tranches : Oco(t) # Entry
  BY DEF Oco, Entry
<1>2. \A t, j : Close(t, j) # Entry
  BY DEF Close, Entry
<1>3. \A t, u, j, l : (Oco(t) # Close(u, l)) /\ (Close(t, j) = Close(u, l) => t = u /\ j = l)
  BY DEF Oco, Close
<1>4. \A t, u : Oco(t) = Oco(u) => t = u
  BY DEF Oco
<1> HIDE DEF Oco, Close, Entry
<1>5. \A t \in Tranches : Oco(t) \in Sells /\ \A j \in 1 .. MaxCloses : Close(t, j) \in Sells
  BY DEF Sells
<1>6. \A k \in Sells : (\E t \in Tranches : k = Oco(t)) \/ \E t \in Tranches, j \in 1 .. MaxCloses : k = Close(t, j)
  BY DEF Sells
<1>7. \A k \in Sells : \E t \in Tranches : k \in SoldBy(t)
  BY <1>6 DEF SoldBy
<1>8. \A t \in Tranches : SoldBy(t) \subseteq Sells
  BY <1>5 DEF SoldBy
<1>9. Entry \notin Sells
  BY <1>1, <1>2, <1>6
<1>10. Keys = {Entry} \cup Sells
  BY DEF Keys
<1>11. \A t, u \in Tranches : t # u => SoldBy(t) \cap SoldBy(u) = {}
  BY <1>3, <1>4 DEF SoldBy
<1>12. \A t \in Tranches : Oco(t) \in SoldBy(t) /\ \A j \in 1 .. MaxCloses : Close(t, j) \in SoldBy(t)
  BY DEF SoldBy
<1>13. \A k \in Keys : k = Entry \/ \E t \in Tranches : k \in SoldBy(t)
  BY <1>7, <1>10
<1>14. \A t \in Tranches : SoldBy(t) \subseteq Keys /\ SoldBy(t) \subseteq Sells /\ Entry \notin SoldBy(t)
  BY <1>8, <1>9, <1>10
<1>15. Entry \in Keys /\ \A t \in Tranches : Oco(t) \in Keys /\ \A j \in 1 .. MaxCloses : Close(t, j) \in Keys
  BY <1>5, <1>10
<1> QED BY <1>1, <1>2, <1>3, <1>4, <1>5, <1>7, <1>9, <1>11, <1>12, <1>13, <1>14, <1>15

LEMMA TrancheFacts == IsFiniteSet(Tranches) /\ Tranches \subseteq Nat \ {0} /\ 0 \notin Tranches /\ 1 \in Tranches
BY TriAssumption, FS_Interval DEF Tranches

(* The order at work                                                       *)
LEMMA CurFacts ==
  ASSUME NEW q \in Plan, NEW t \in Tranches
  PROVE  /\ Cur(q, t) \in SoldBy(t) /\ Cur(q, t) \in Keys /\ Cur(q, t) \in Sells /\ Cur(q, t) # Entry
         /\ q.tr[t] \in Tranche /\ q.tr[t].n \in 0 .. MaxCloses
         /\ q.tr[t].n = 0 => Cur(q, t) = Oco(t)
         /\ q.tr[t].n > 0 => Cur(q, t) = Close(t, q.tr[t].n) /\ q.tr[t].n \in 1 .. MaxCloses
<1>1. q.tr[t] \in Tranche /\ q.tr[t].n \in 0 .. MaxCloses
  BY DEF Plan, Tranche
<1>2. CASE q.tr[t].n = 0
  BY <1>1, <1>2, KeyFacts DEF Cur
<1>3. CASE q.tr[t].n # 0
  BY <1>1, <1>3, KeyFacts, TriAssumption DEF Cur
<1> QED BY <1>1, <1>2, <1>3

-----------------------------------------------------------------------------
(* What depends on the book only                                           *)

LEMMA SameOpened ==
  ASSUME NEW q, NEW r, \A t \in Tranches : r.tr[t].qty = q.tr[t].qty
  PROVE  Opened(r) = Opened(q) /\ Given(r) = Given(q)
<1>1. [t \in Tranches |-> r.tr[t].qty] = [t \in Tranches |-> q.tr[t].qty]
  OBVIOUS
<1> QED BY <1>1 DEF Opened, Given

LEMMA SameShares ==
  ASSUME NEW q, NEW r, NEW a, NEW b, NEW sh, SharesOK(q, a, sh), b[Entry].filled = a[Entry].filled,
         \A t \in Tranches : Sold(r, b, t) = Sold(q, a, t)
  PROVE  SharesOK(r, b, sh)
<1>1. [t \in Tranches |-> Sold(r, b, t)] = [t \in Tranches |-> Sold(q, a, t)]
  OBVIOUS
<1> QED BY <1>1 DEF SharesOK

(* the steps between phases at which the book stays as it is               *)
Steps(q, r, a) ==
  \/ r.phase = q.phase
  \/ r.phase \in Active /\ q.phase \in Active
  \/ q.phase = "WAITING_ENTRY" /\ r.phase \in {"SKIPPED", "ENTERING"}
  \/ q.phase = "SKIPPED" /\ r.phase = "WAITING_ENTRY" /\ a[Entry].st = "none"

LEMMA AlikeTranche ==
  ASSUME NEW q \in Plan, NEW r \in Plan, NEW a \in [Keys -> Order], NEW t \in Tranches, Alike(q, r),
         TrancheOK(q, a, t)
  PROVE  TrancheOK(r, a, t) /\ Cur(r, t) = Cur(q, t) /\ Sold(r, a, t) = Sold(q, a, t)
<1>1. r.ord = q.ord /\ r.tr[t].qty = q.tr[t].qty /\ r.tr[t].closed = q.tr[t].closed
      /\ r.tr[t].bound = q.tr[t].bound /\ r.tr[t].final = q.tr[t].final /\ r.tr[t].n = q.tr[t].n
  BY DEF Alike
<1>2. Cur(r, t) = Cur(q, t)
  BY <1>1 DEF Cur
<1>3. Sold(r, a, t) = Sold(q, a, t)
  BY <1>1, <1>2 DEF Sold
<1> QED BY <1>1, <1>2, <1>3 DEF TrancheOK, Untouched, Settled, RecOK

LEMMA AlikeJob ==
  ASSUME NEW q \in Plan, NEW r \in Plan, NEW a \in [Keys -> Order], NEW t \in Tranches, Alike(q, r),
         NEW j, JobOK(q, j, a, t), q.phase \in Active => r.phase \in Active
  PROVE  JobOK(r, j, a, t)
<1>1. r.ord = q.ord /\ r.tr[t].qty = q.tr[t].qty /\ r.tr[t].closed = q.tr[t].closed
      /\ r.tr[t].bound = q.tr[t].bound /\ r.tr[t].final = q.tr[t].final /\ r.tr[t].n = q.tr[t].n
  BY DEF Alike
<1>2. Cur(r, t) = Cur(q, t)
  BY <1>1 DEF Cur
<1>3. Left(r.tr[t]) = Left(q.tr[t])
  BY <1>1 DEF Left
<1> QED BY <1>1, <1>2, <1>3 DEF JobOK

LEMMA AlikeWorld ==
  ASSUME NEW q \in Plan, NEW r \in Plan, NEW a \in [Keys -> Order], NEW J \in [{0} \cup Tranches -> Job],
         NEW sh, Alike(q, r), Steps(q, r, a), World(q, J, a, sh)
  PROVE  World(r, J, a, sh)
<1>1. q.phase \in Active => r.phase \in Active
  BY DEF Steps, Active
<1>2. \A t \in Tranches : TrancheOK(q, a, t) /\ JobOK(q, J[t], a, t)
  BY DEF World
<1>3. \A t \in Tranches : TrancheOK(r, a, t) /\ Sold(r, a, t) = Sold(q, a, t)
  BY <1>2, AlikeTranche
<1>4. \A t \in Tranches : JobOK(r, J[t], a, t)
  BY <1>1, <1>2, AlikeJob
<1>5. Opened(r) = Opened(q) /\ Given(r) = Given(q) /\ Filled(r) = Filled(q)
  BY SameOpened DEF Alike, Filled
<1>6. EntryOK(r, a)
  BY DEF Alike, World, EntryOK, Settled
<1>7. PartsOK(r)
  BY <1>5 DEF World, PartsOK, Alike
<1>8. PhaseOK(r, a)
  <2>1. PhaseOK(q, a)
    BY DEF World
  <2>2. Ended(q) => Ended(r)
    BY <1>5 DEF Ended, Alike, Opened
  <2> QED BY <1>5, <2>1, <2>2 DEF PhaseOK, Steps, Active
<1>9. SharesOK(r, a, sh)
  BY <1>3, SameShares DEF World
<1>10. EntryJobOK(r, J[0], a)
  BY <1>1 DEF World, EntryJobOK, Alike
<1> QED BY <1>3, <1>4, <1>6, <1>7, <1>8, <1>9, <1>10 DEF World

-----------------------------------------------------------------------------
(* A step of the plan which is about one tranche                           *)

(* r is q but for the tranche t and the records of its orders              *)
Off(q, r, t) ==
  /\ \A k \in Keys \ SoldBy(t) : r.ord[k] = q.ord[k]
  /\ \A u \in Tranches \ {t} : r.tr[u] = q.tr[u]
  /\ r.tr[t].qty = q.tr[t].qty /\ r.final = q.final /\ r.phase = q.phase

LEMMA OtherTranche ==
  ASSUME NEW q \in Plan, NEW r \in Plan, NEW a \in [Keys -> Order], NEW t \in Tranches, NEW u \in Tranches \ {t},
         Off(q, r, t), NEW j, TrancheOK(q, a, u), JobOK(q, j, a, u)
  PROVE  TrancheOK(r, a, u) /\ Sold(r, a, u) = Sold(q, a, u) /\ JobOK(r, j, a, u)
<1>1. r.tr[u] = q.tr[u] /\ r.phase = q.phase /\ \A k \in SoldBy(u) : r.ord[k] = q.ord[k]
  <2>1. SoldBy(u) \subseteq Keys \ SoldBy(t)
    BY KeyFacts
  <2> QED BY <2>1 DEF Off
<1>2. Cur(r, u) = Cur(q, u) /\ Cur(q, u) \in SoldBy(u)
  BY <1>1, CurFacts DEF Cur
<1>3. Oco(u) \in SoldBy(u) /\ \A i \in 1 .. MaxCloses : Close(u, i) \in SoldBy(u)
  BY KeyFacts
<1>4. r.ord[Cur(r, u)] = q.ord[Cur(q, u)] /\ r.ord[Oco(u)] = q.ord[Oco(u)]
      /\ \A i \in 1 .. MaxCloses : r.ord[Close(u, i)] = q.ord[Close(u, i)]
  BY <1>1, <1>2, <1>3
<1>5. Sold(r, a, u) = Sold(q, a, u)
  BY <1>1, <1>2, <1>4 DEF Sold
<1>6. TrancheOK(r, a, u)
  BY <1>1, <1>2, <1>4, <1>5 DEF TrancheOK, Untouched, Settled, RecOK
<1>7. JobOK(r, j, a, u)
  BY <1>1, <1>2, <1>4 DEF JobOK
<1> QED BY <1>5, <1>6, <1>7

LEMMA OneTranche ==
  ASSUME NEW q \in Plan, NEW r \in Plan, NEW a \in [Keys -> Order], NEW t \in Tranches, NEW sh,
         NEW J \in [{0} \cup Tranches -> Job], NEW K \in [{0} \cup Tranches -> Job],
         World(q, J, a, sh), Off(q, r, t), q.phase # "CLOSED",
         \A u \in ({0} \cup Tranches) \ {t} : K[u] = J[u],
         TrancheOK(r, a, t), JobOK(r, K[t], a, t), Sold(r, a, t) = Sold(q, a, t)
  PROVE  World(r, K, a, sh)
<1>1. \A u \in Tranches : TrancheOK(q, a, u) /\ JobOK(q, J[u], a, u)
  BY DEF World
<1>2. \A u \in Tranches : TrancheOK(r, a, u) /\ JobOK(r, K[u], a, u) /\ Sold(r, a, u) = Sold(q, a, u)
  <2> SUFFICES ASSUME NEW u \in Tranches \ {t} PROVE TrancheOK(r, a, u) /\ JobOK(r, K[u], a, u) /\ Sold(r, a, u) = Sold(q, a, u)
    OBVIOUS
  <2>1. K[u] = J[u]
    OBVIOUS
  <2> QED BY <1>1, <2>1, OtherTranche
<1>3. K[0] = J[0]
  BY TrancheFacts
<1>4. r.ord[Entry] = q.ord[Entry] /\ r.final = q.final /\ r.phase = q.phase
  BY KeyFacts DEF Off
<1>5. \A u \in Tranches : r.tr[u].qty = q.tr[u].qty
  BY DEF Off
<1>6. Opened(r) = Opened(q) /\ Given(r) = Given(q) /\ Filled(r) = Filled(q)
  BY <1>4, <1>5, SameOpened DEF Filled
<1>7. EntryOK(r, a) /\ EntryJobOK(r, K[0], a)
  BY <1>3, <1>4 DEF World, EntryOK, Settled, EntryJobOK
<1>8. PartsOK(r) /\ PhaseOK(r, a)
  BY <1>4, <1>6 DEF World, PartsOK, PhaseOK
<1>9. SharesOK(r, a, sh)
  BY <1>2, SameShares DEF World
<1> QED BY <1>2, <1>7, <1>8, <1>9 DEF World

-----------------------------------------------------------------------------
(* A tick at work                                                          *)

Works == [p : Plan, jobs : [{0} \cup Tranches -> Job], failed : BOOLEAN, refused : SUBSET Tranches]

LEMMA JobTypes == NoJob \in Job /\ NoRow \in Row /\ 0 \in Qty /\ NoJob.at = "idle" /\ Ordered \in Qty
<1>1. 0 \in Qty /\ Ordered \in Qty
  BY TriAssumption DEF Qty
<1>2. NoRow \in Row
  BY <1>1 DEF NoRow, Row
<1> QED BY <1>1, <1>2, KeyFacts DEF NoJob, Job

LEMMA IdleShape ==
  ASSUME NEW w \in Works, NEW i \in {0} \cup Tranches
  PROVE  /\ Idle(w, i) \in Works /\ Idle(w, i).p = w.p
         /\ Idle(w, i).jobs = [w.jobs EXCEPT ![i] = NoJob]
         /\ Idle(w, i).failed = w.failed /\ Idle(w, i).refused = w.refused
BY JobTypes DEF Works, Idle

LEMMA AskedShape ==
  ASSUME NEW w \in Works, NEW i \in {0} \cup Tranches, NEW j \in Job
  PROVE  /\ Asked(w, i, j) \in Works /\ Asked(w, i, j).p = w.p
         /\ Asked(w, i, j).jobs = [w.jobs EXCEPT ![i] = [j EXCEPT !.at = "ask"]]
         /\ Asked(w, i, j).failed = w.failed /\ Asked(w, i, j).refused = w.refused
<1>1. [j EXCEPT !.at = "ask"] \in Job
  BY DEF Job
<1> QED BY <1>1 DEF Works, Asked

LEMMA BadShape ==
  ASSUME NEW w \in Works
  PROVE  /\ Bad(w) \in Works /\ Bad(w).jobs = w.jobs /\ Bad(w).refused = w.refused
         /\ Bad(w).p = [w.p EXCEPT !.bad = TRUE] /\ Bad(w).p \in Plan
<1>1. w.p \in Plan
  BY DEF Works
<1>2. [w.p EXCEPT !.bad = TRUE] \in Plan
  BY <1>1 DEF Plan
<1>3. Bad(w) = [w EXCEPT !.p = [w.p EXCEPT !.bad = TRUE], !.failed = TRUE]
  BY DEF Bad, Works, Plan
<1> HIDE DEF Bad
<1> QED BY <1>2, <1>3 DEF Works

(* r is q with the answer row in the record of k, and c closed of t        *)
BookedAs(r, q, k, row) ==
  \E e \in BOOLEAN : r = [q EXCEPT !.ord = [q.ord EXCEPT ![k] = [booked |-> row.f, seen |-> e, final |-> row.final]]]
SoldAs(r, q, k, row, t, c) ==
  \E e \in BOOLEAN : r = [q EXCEPT !.ord = [q.ord EXCEPT ![k] = [booked |-> row.f, seen |-> e, final |-> row.final]],
                                   !.tr = [q.tr EXCEPT ![t] = [q.tr[t] EXCEPT !.closed = c]]]

(* An answer that fits sets the record to what it says.                    *)
LEMMA BookedShape ==
  ASSUME NEW w \in Works, NEW k \in Keys, NEW row \in Row, NEW size \in Int, Fits(w, k, row, size)
  PROVE  /\ Booked(w, k, row, size) \in Works /\ Booked(w, k, row, size).jobs = w.jobs
         /\ Booked(w, k, row, size).failed = w.failed /\ Booked(w, k, row, size).refused = w.refused
         /\ BookedAs(Booked(w, k, row, size).p, w.p, k, row)
         /\ Booked(w, k, row, size).p \in Plan
         /\ w.p.ord[k].booked <= row.f /\ row.f <= size
<1>1. w.p \in Plan /\ w.p.ord \in [Keys -> Rec] /\ w.p.ord[k] \in Rec
  BY DEF Works, Plan
<1>2. row.f \in Qty /\ row.f \in Int /\ w.p.ord[k].booked \in Int /\ row.final \in BOOLEAN
      /\ w.p.ord[k].seen \in BOOLEAN
  BY <1>1, TriAssumption DEF Row, Rec, Qty
<1>3. w.p.ord[k].booked <= row.f /\ row.f <= size
  BY <1>2 DEF Fits, News
<1> DEFINE e == w.p.ord[k].seen \/ row.why = "row"
           rec == [booked |-> row.f, seen |-> e, final |-> row.final]
<1>4. rec \in Rec
  BY <1>2 DEF Rec
<1>5. w.p.ord[k].booked + (row.f - w.p.ord[k].booked) = row.f
  BY <1>2
<1>6. Booked(w, k, row, size) = [w EXCEPT !.p = [w.p EXCEPT !.ord = [w.p.ord EXCEPT ![k] = rec]]]
  BY <1>1, <1>5 DEF Booked, News, Works, Plan
<1>7. [w.p EXCEPT !.ord = [w.p.ord EXCEPT ![k] = rec]] \in Plan
  BY <1>1, <1>4 DEF Plan
<1>8. e \in BOOLEAN
  BY <1>2
<1> HIDE DEF rec
<1>9. /\ Booked(w, k, row, size) \in Works /\ Booked(w, k, row, size).jobs = w.jobs
      /\ Booked(w, k, row, size).failed = w.failed /\ Booked(w, k, row, size).refused = w.refused
      /\ Booked(w, k, row, size).p = [w.p EXCEPT !.ord = [w.p.ord EXCEPT ![k] = rec]]
  BY <1>6, <1>7 DEF Works
<1>10. BookedAs(Booked(w, k, row, size).p, w.p, k, row)
  BY <1>8, <1>9 DEF rec, BookedAs
<1> QED BY <1>3, <1>7, <1>9, <1>10

(* What an answer says of an order                                         *)
RowOK(row, a, k) ==
  /\ a[k].st \in {"open", "final"} /\ row.f <= a[k].filled
  /\ row.final => a[k].st = "final" /\ row.f = a[k].filled

(* A sale is booked: what was new is now closed.                           *)
LEMMA SaleShape ==
  ASSUME NEW w \in Works, NEW t \in Tranches, NEW row \in Row, NEW size \in Int, NEW a \in [Keys -> Order],
         w.p.tr[t].qty > 0, TrancheOK(w.p, a, t), RowOK(row, a, Cur(w.p, t)), OrderOK(a[Cur(w.p, t)]),
         Fits(w, Cur(w.p, t), row, size)
  PROVE  LET b == BookedSale(w, t, Cur(w.p, t), row, size)
             c == w.p.tr[t].closed + row.f - w.p.ord[Cur(w.p, t)].booked
         IN  /\ b \in Works /\ b.jobs = w.jobs /\ b.failed = w.failed /\ b.refused = w.refused
             /\ b.p \in Plan /\ c \in Qty /\ w.p.ord[Cur(w.p, t)].booked <= row.f
             /\ SoldAs(b.p, w.p, Cur(w.p, t), row, t, c)
<1> DEFINE k == Cur(w.p, t)
           B == Booked(w, k, row, size)
           c == w.p.tr[t].closed + row.f - w.p.ord[k].booked
           b == BookedSale(w, t, k, row, size)
<1>1. w.p \in Plan /\ k \in Keys /\ w.p.tr \in [Tranches -> Tranche] /\ w.p.tr[t] \in Tranche
  BY CurFacts DEF Works, Plan
<1>2. w.p.ord[k].booked \in Nat /\ w.p.tr[t].closed \in Nat /\ row.f \in Nat /\ w.p.tr[t].qty \in 0 .. Ordered
      /\ a[k].filled \in Nat /\ a[k].qty \in Nat
  BY <1>1, TriAssumption DEF Plan, Rec, Tranche, Row, Qty, Order
<1>0. Fits(w, k, row, size) /\ OrderOK(a[k])
  OBVIOUS
<1> HIDE DEF k
<1>3. PICK e \in BOOLEAN :
        B.p = [w.p EXCEPT !.ord = [w.p.ord EXCEPT ![k] = [booked |-> row.f, seen |-> e, final |-> row.final]]]
  <2>1. BookedAs(B.p, w.p, k, row)
    BY <1>0, <1>1, BookedShape
  <2> QED BY <2>1 DEF BookedAs
<1>4. B \in Works /\ B.jobs = w.jobs /\ B.failed = w.failed /\ B.refused = w.refused /\ B.p \in Plan
      /\ w.p.ord[k].booked <= row.f
  BY <1>0, <1>1, BookedShape
<1>5. B.p.ord[k].booked = row.f /\ B.p.tr = w.p.tr
  BY <1>1, <1>3 DEF Plan
<1>6. c \in Qty
  <2>1. Sold(w.p, a, t) = w.p.tr[t].closed + a[k].filled - w.p.ord[k].booked
    BY DEF Sold, k
  <2>2. Sold(w.p, a, t) + Ahead(a, k) <= w.p.tr[t].qty
    BY DEF TrancheOK, k
  <2>3. Ahead(a, k) >= 0 /\ row.f <= a[k].filled
    <3>1. row.f <= a[k].filled
      BY DEF RowOK, k
    <3>2. Ahead(a, k) \in Int
      BY <1>2 DEF Ahead
    <3>3. a[k].st = "open" => Ahead(a, k) = a[k].qty - a[k].filled
      BY DEF Ahead, Over
    <3>4. a[k].st = "final" => Ahead(a, k) = 0
      BY DEF Ahead, Over
    <3>5. a[k].st \in {"open", "final"}
      BY DEF RowOK, k
    <3>6. a[k].filled <= a[k].qty
      BY <1>0 DEF OrderOK
    <3> QED BY <1>2, <3>1, <3>2, <3>3, <3>4, <3>5, <3>6
  <2>4. Ahead(a, k) \in Int
    BY <1>2 DEF Ahead
  <2>5. c \in Nat /\ c <= w.p.tr[t].qty
    BY <1>2, <1>4, <2>1, <2>2, <2>3, <2>4
  <2> QED BY <1>2, <2>5, TriAssumption DEF Qty
<1> DEFINE T == [w.p.tr EXCEPT ![t] = [w.p.tr[t] EXCEPT !.closed = c]]
<1>7. b = [B EXCEPT !.p = [B.p EXCEPT !.tr = T]]
  BY <1>1, <1>4, <1>5 DEF BookedSale, Works, Plan
<1>8. T \in [Tranches -> Tranche]
  BY <1>1, <1>6 DEF Tranche
<1>9. [B.p EXCEPT !.tr = T] \in Plan
  BY <1>4, <1>8 DEF Plan
<1> HIDE DEF T, c, B, b
<1>10. b \in Works /\ b.jobs = w.jobs /\ b.failed = w.failed /\ b.refused = w.refused /\ b.p = [B.p EXCEPT !.tr = T]
  BY <1>4, <1>7, <1>9 DEF Works
<1>11. b.p = [w.p EXCEPT !.ord = [w.p.ord EXCEPT ![k] = [booked |-> row.f, seen |-> e, final |-> row.final]],
                         !.tr = T]
  BY <1>1, <1>3, <1>10 DEF Plan
<1>12. SoldAs(b.p, w.p, k, row, t, c)
  BY <1>11 DEF T, SoldAs
<1> QED BY <1>4, <1>6, <1>9, <1>10, <1>12 DEF c, b, k

LEMMA SaleKeeps ==
  ASSUME NEW q \in Plan, NEW r \in Plan, NEW t \in Tranches, NEW a \in [Keys -> Order], NEW row \in Row, NEW c \in Int,
         q.tr[t].qty > 0, TrancheOK(q, a, t), RowOK(row, a, Cur(q, t)), q.ord[Cur(q, t)].booked <= row.f,
         c = q.tr[t].closed + row.f - q.ord[Cur(q, t)].booked, SoldAs(r, q, Cur(q, t), row, t, c)
  PROVE  /\ Off(q, r, t) /\ TrancheOK(r, a, t) /\ Sold(r, a, t) = Sold(q, a, t) /\ Cur(r, t) = Cur(q, t)
         /\ r.tr[t] = [q.tr[t] EXCEPT !.closed = c]
         /\ r.ord[Cur(q, t)].booked = row.f /\ r.ord[Cur(q, t)].final = row.final
<1> DEFINE k == Cur(q, t)
<1>1. PICK e \in BOOLEAN : r = [q EXCEPT !.ord = [q.ord EXCEPT ![k] = [booked |-> row.f, seen |-> e, final |-> row.final]],
                                   !.tr = [q.tr EXCEPT ![t] = [q.tr[t] EXCEPT !.closed = c]]]
  BY DEF SoldAs
<1>2. k \in Keys /\ k \in SoldBy(t) /\ q.tr[t] \in Tranche /\ q.tr \in [Tranches -> Tranche] /\ q.ord \in [Keys -> Rec]
  BY CurFacts DEF Plan
<1>3. q.ord[k].booked \in Nat /\ q.tr[t].closed \in Nat /\ row.f \in Nat /\ q.tr[t].qty \in 0 .. Ordered
      /\ a[k].filled \in Nat /\ a[k].qty \in Nat
  BY <1>2, TriAssumption DEF Plan, Rec, Tranche, Row, Qty, Order
<1>4. r.tr[t] = [q.tr[t] EXCEPT !.closed = c] /\ r.final = q.final /\ r.phase = q.phase
      /\ \A u \in Tranches \ {t} : r.tr[u] = q.tr[u]
  BY <1>1, <1>2 DEF Plan
<1>5. r.ord[k].booked = row.f /\ r.ord[k].final = row.final /\ \A l \in Keys \ {k} : r.ord[l] = q.ord[l]
  BY <1>1, <1>2 DEF Plan
<1>6. r.tr[t].qty = q.tr[t].qty /\ r.tr[t].bound = q.tr[t].bound /\ r.tr[t].final = q.tr[t].final
      /\ r.tr[t].n = q.tr[t].n /\ r.tr[t].closed = c
  BY <1>2, <1>4 DEF Tranche
<1>7. Cur(r, t) = Cur(q, t)
  BY <1>6 DEF Cur
<1>8. Off(q, r, t)
  BY <1>2, <1>4, <1>5, <1>6 DEF Off
<1>9. Sold(r, a, t) = Sold(q, a, t)
  BY <1>3, <1>5, <1>6, <1>7 DEF Sold
<1>10. RowOK(row, a, k)
  OBVIOUS
<1>11. q.tr[t].n = 0 => k = Oco(t)
  BY CurFacts
<1>12. q.tr[t].n > 0 => k = Close(t, q.tr[t].n) /\ q.tr[t].n \in 1 .. MaxCloses
  BY CurFacts
<1>13. Oco(t) \in Keys /\ \A j \in 1 .. MaxCloses : Close(t, j) \in Keys /\ Close(t, j) # Oco(t)
  BY KeyFacts
<1>14. \A i, j \in 1 .. MaxCloses : Close(t, i) = Close(t, j) => i = j
  BY KeyFacts
<1>15. q.tr[t].n \in 0 .. MaxCloses
  BY CurFacts
<1> HIDE DEF k
<1>16. \A l \in SoldBy(t) : RecOK(r, a, l)
  <2> TAKE l \in SoldBy(t)
  <2>1. CASE l = k
    BY <1>5, <1>10, <2>1 DEF RecOK, RowOK
  <2>2. CASE l # k
    <3>1. RecOK(q, a, l) /\ l \in Keys
      BY KeyFacts DEF TrancheOK
    <3> QED BY <1>5, <2>2, <3>1 DEF RecOK
  <2> QED BY <2>1, <2>2
<1>17. r.tr[t].final => Settled(r, a, Oco(t))
  <2> SUFFICES ASSUME q.tr[t].final PROVE Settled(r, a, Oco(t))
    BY <1>6
  <2>1. Settled(q, a, Oco(t))
    BY DEF TrancheOK
  <2>2. CASE k = Oco(t)
    <3>1. q.ord[k].booked = a[k].filled /\ q.ord[k].booked <= row.f /\ row.f <= a[k].filled
      BY <1>10, <2>1, <2>2 DEF Settled, RowOK, k
    <3> QED BY <1>3, <1>5, <2>1, <2>2, <3>1 DEF Settled
  <2>3. CASE k # Oco(t)
    BY <1>5, <1>13, <2>1, <2>3 DEF Settled
  <2> QED BY <2>2, <2>3
<1>18. \A j \in 1 .. MaxCloses : (j < r.tr[t].n => Settled(r, a, Close(t, j)))
                              /\ (j > r.tr[t].n => Untouched(r, a, Close(t, j)))
  <2> TAKE j \in 1 .. MaxCloses
  <2>1. j # q.tr[t].n => Close(t, j) # k
    BY <1>11, <1>12, <1>13, <1>14, <1>15, TriAssumption
  <2>2. j # q.tr[t].n => r.ord[Close(t, j)] = q.ord[Close(t, j)]
    BY <1>5, <1>13, <2>1
  <2>3. (j < q.tr[t].n => Settled(q, a, Close(t, j))) /\ (j > q.tr[t].n => Untouched(q, a, Close(t, j)))
    BY DEF TrancheOK
  <2> QED BY <1>6, <1>15, <2>2, <2>3, TriAssumption DEF Settled, Untouched
<1>19. Sold(r, a, t) + Ahead(a, Cur(r, t)) <= r.tr[t].qty
  BY <1>6, <1>7, <1>9 DEF TrancheOK
<1>20. r.ord[Cur(r, t)].booked <= r.tr[t].closed
  <2>1. q.ord[k].booked <= q.tr[t].closed
    BY DEF TrancheOK, k
  <2> QED BY <1>3, <1>5, <1>6, <1>7, <2>1 DEF k
<1>21. r.tr[t].bound => a[Oco(t)].st \in {"open", "final"}
  BY <1>6 DEF TrancheOK
<1>22. r.tr[t].n > 0 => r.tr[t].final
  BY <1>6 DEF TrancheOK
<1>23. TrancheOK(r, a, t)
  BY <1>6, <1>16, <1>17, <1>18, <1>19, <1>20, <1>21, <1>22 DEF TrancheOK
<1> QED BY <1>4, <1>5, <1>7, <1>8, <1>9, <1>23 DEF k

(* the flags of a tranche are set                                          *)
LEMMA FlagKeeps ==
  ASSUME NEW q \in Plan, NEW r \in Plan, NEW t \in Tranches, NEW a \in [Keys -> Order], NEW x \in Tranche,
         TrancheOK(q, a, t), r.ord = q.ord, r.tr = [q.tr EXCEPT ![t] = x], r.final = q.final, r.phase = q.phase,
         x.qty = q.tr[t].qty, x.closed = q.tr[t].closed, x.n = q.tr[t].n, x.qty > 0,
         q.tr[t].final => x.final,
         x.bound => a[Oco(t)].st \in {"open", "final"}, x.final => Settled(q, a, Oco(t))
  PROVE  /\ Off(q, r, t) /\ TrancheOK(r, a, t) /\ Sold(r, a, t) = Sold(q, a, t) /\ Cur(r, t) = Cur(q, t)
         /\ r.tr[t] = x
<1>1. r.tr[t] = x /\ \A u \in Tranches \ {t} : r.tr[u] = q.tr[u]
  BY DEF Plan
<1>2. Cur(r, t) = Cur(q, t)
  BY <1>1 DEF Cur
<1>3. Sold(r, a, t) = Sold(q, a, t)
  BY <1>1, <1>2 DEF Sold
<1>4. TrancheOK(r, a, t)
  BY <1>1, <1>2, <1>3 DEF TrancheOK, Settled, Untouched, RecOK
<1>5. Off(q, r, t)
  BY <1>1 DEF Off
<1> QED BY <1>1, <1>2, <1>3, <1>4, <1>5

-----------------------------------------------------------------------------
(* What a tick does with a tranche                                         *)

WOK(w, a, sh) ==
  /\ w \in Works /\ World(w.p, w.jobs, a, sh)
  /\ w.p.phase \in Active \cup {"SKIPPED"}

(* What is left to close of a tranche                                      *)
LEMMA LeftFacts ==
  ASSUME NEW q \in Plan, NEW t \in Tranches, NEW a \in [Keys -> Order], TrancheOK(q, a, t), OrderOK(a[Cur(q, t)])
  PROVE  /\ Left(q.tr[t]) \in Qty /\ q.tr[t].closed <= q.tr[t].qty /\ Left(q.tr[t]) \in Nat
         /\ Sold(q, a, t) \in Nat /\ Sold(q, a, t) <= q.tr[t].qty
         /\ Left(q.tr[t]) + q.ord[Cur(q, t)].booked \in Qty
<1> DEFINE k == Cur(q, t)
<1>1. k \in Keys /\ k \in SoldBy(t) /\ q.tr[t] \in Tranche
  BY CurFacts
<1>2. q.ord[k].booked \in Nat /\ q.tr[t].closed \in Nat /\ q.tr[t].qty \in 0 .. Ordered
      /\ a[k].filled \in Nat /\ a[k].qty \in Nat
  BY <1>1, TriAssumption DEF Plan, Rec, Tranche, Qty, Order
<1>3. Sold(q, a, t) + Ahead(a, k) <= q.tr[t].qty /\ q.ord[k].booked <= q.tr[t].closed /\ RecOK(q, a, k)
  BY <1>1 DEF TrancheOK
<1>4. a[k].filled <= a[k].qty
  BY DEF OrderOK
<1>5. Sold(q, a, t) = q.tr[t].closed + a[k].filled - q.ord[k].booked
  BY DEF Sold
<1> HIDE DEF k
<1>6. Ahead(a, k) \in Nat
  BY <1>2, <1>4 DEF Ahead
<1>7. q.ord[k].booked <= a[k].filled
  BY <1>3 DEF RecOK
<1>8. Sold(q, a, t) \in Nat /\ Sold(q, a, t) <= q.tr[t].qty /\ q.tr[t].closed <= q.tr[t].qty
  BY <1>2, <1>3, <1>5, <1>6, <1>7
<1>9. q.tr[t].qty - q.tr[t].closed \in Nat /\ q.tr[t].qty - q.tr[t].closed <= Ordered
      /\ q.tr[t].qty - q.tr[t].closed + q.ord[k].booked \in Nat
      /\ q.tr[t].qty - q.tr[t].closed + q.ord[k].booked <= Ordered
  BY <1>2, <1>3, <1>8, TriAssumption
<1> QED BY <1>8, <1>9, TriAssumption DEF Left, Qty, k

LEMMA WFacts ==
  ASSUME NEW w, NEW a \in [Keys -> Order], NEW sh, WOK(w, a, sh), NEW t \in Tranches
  PROVE  /\ w \in Works /\ w.p \in Plan /\ w.p.tr[t] \in Tranche /\ w.jobs \in [{0} \cup Tranches -> Job]
         /\ w.jobs[t] \in Job /\ w.jobs[t].row \in Row
         /\ TrancheOK(w.p, a, t) /\ JobOK(w.p, w.jobs[t], a, t) /\ OrderOK(a[Cur(w.p, t)])
         /\ w.p.phase # "CLOSED" /\ (w.p.tr[t].qty > 0 => w.p.phase \in Active)
<1>1. w \in Works /\ w.p \in Plan /\ w.jobs \in [{0} \cup Tranches -> Job]
  BY DEF WOK, Works
<1>2. w.p.tr[t] \in Tranche /\ Cur(w.p, t) \in Keys
  BY <1>1, CurFacts
<1>3. w.jobs[t] \in Job /\ w.jobs[t].row \in Row
  BY <1>1 DEF Job
<1>4. World(w.p, w.jobs, a, sh)
  BY DEF WOK
<1>5. TrancheOK(w.p, a, t) /\ JobOK(w.p, w.jobs[t], a, t) /\ OrderOK(a[Cur(w.p, t)])
  BY <1>2, <1>4 DEF World
<1>6. w.p.phase # "CLOSED"
  BY DEF WOK, Active
<1>7. w.p.tr[t].qty > 0 => w.p.phase \in Active
  <2>1. w.p.phase = "SKIPPED" => Opened(w.p) = {}
    BY <1>4 DEF World, PhaseOK
  <2> QED BY <2>1 DEF WOK, Opened
<1> QED BY <1>1, <1>2, <1>3, <1>5, <1>6, <1>7

LEMMA Put ==
  ASSUME NEW w, NEW z \in Works, NEW a \in [Keys -> Order], NEW sh, WOK(w, a, sh), NEW t \in Tranches,
         Off(w.p, z.p, t), NEW j \in Job, z.jobs = [w.jobs EXCEPT ![t] = j],
         TrancheOK(z.p, a, t), JobOK(z.p, j, a, t), Sold(z.p, a, t) = Sold(w.p, a, t)
  PROVE  WOK(z, a, sh)
<1>1. w \in Works /\ w.p \in Plan /\ w.jobs \in [{0} \cup Tranches -> Job] /\ w.p.phase # "CLOSED"
  BY WFacts
<1>2. z.p \in Plan /\ z.jobs \in [{0} \cup Tranches -> Job]
  BY DEF Works
<1>3. z.jobs[t] = j /\ \A u \in ({0} \cup Tranches) \ {t} : z.jobs[u] = w.jobs[u]
  BY <1>1
<1>4. World(w.p, w.jobs, a, sh)
  BY DEF WOK
<1>5. World(z.p, z.jobs, a, sh)
  BY <1>1, <1>2, <1>3, <1>4, OneTranche
<1>6. z.p.phase = w.p.phase
  BY DEF Off
<1> QED BY <1>5, <1>6 DEF WOK

LEMMA IdleJobOK == ASSUME NEW q, NEW a, NEW t PROVE JobOK(q, NoJob, a, t) /\ EntryJobOK(q, NoJob, a)
BY DEF JobOK, EntryJobOK, NoJob

LEMMA OffItself == ASSUME NEW q, NEW t PROVE Off(q, q, t)
BY DEF Off

(* A request that was answered is over, another one is made.               *)
LEMMA IdleOK ==
  ASSUME NEW w, NEW a \in [Keys -> Order], NEW sh, WOK(w, a, sh), NEW t \in Tranches
  PROVE  /\ WOK(Idle(w, t), a, sh) /\ Idle(w, t).p = w.p /\ Idle(w, t).jobs[t] = NoJob
         /\ Idle(w, t).failed = w.failed /\ Idle(w, t).refused = w.refused
<1>1. w \in Works /\ w.p \in Plan /\ TrancheOK(w.p, a, t) /\ w.jobs \in [{0} \cup Tranches -> Job]
  BY WFacts
<1> QED BY <1>1, IdleShape, OffItself, IdleJobOK, JobTypes, Put

LEMMA AskedOK ==
  ASSUME NEW w, NEW a \in [Keys -> Order], NEW sh, WOK(w, a, sh), NEW t \in Tranches, NEW j \in Job,
         JobOK(w.p, [j EXCEPT !.at = "ask"], a, t)
  PROVE  WOK(Asked(w, t, j), a, sh)
<1>1. w \in Works /\ w.p \in Plan /\ TrancheOK(w.p, a, t)
  BY WFacts
<1>2. [j EXCEPT !.at = "ask"] \in Job
  BY DEF Job
<1>3. t \in {0} \cup Tranches
  OBVIOUS
<1>4. Asked(w, t, j) \in Works /\ Asked(w, t, j).p = w.p
      /\ Asked(w, t, j).jobs = [w.jobs EXCEPT ![t] = [j EXCEPT !.at = "ask"]]
  BY <1>1, <1>3, AskedShape
<1>5. Off(w.p, w.p, t)
  BY OffItself
<1> QED BY <1>1, <1>2, <1>4, <1>5, Put

(* An answer that does not fit                                             *)
LEMMA BadOK ==
  ASSUME NEW w, NEW a \in [Keys -> Order], NEW sh, WOK(w, a, sh), NEW t \in Tranches
  PROVE  WOK(Bad(w), a, sh)
<1>1. w \in Works /\ w.p \in Plan
  BY WFacts
<1>2. Bad(w) \in Works /\ Bad(w).jobs = w.jobs /\ Bad(w).p = [w.p EXCEPT !.bad = TRUE] /\ Bad(w).p \in Plan
  BY <1>1, BadShape
<1>3. Alike(w.p, Bad(w).p) /\ Bad(w).p.phase = w.p.phase
  BY <1>1, <1>2 DEF Plan, Alike
<1>4. World(Bad(w).p, w.jobs, a, sh)
  BY <1>1, <1>2, <1>3, AlikeWorld DEF Steps, WOK, Works
<1> QED BY <1>2, <1>3, <1>4 DEF WOK

LEMMA SaleUnfit ==
  ASSUME NEW w, NEW a \in [Keys -> Order], NEW sh, WOK(w, a, sh), NEW t \in Tranches, NEW k \in Keys,
         NEW row \in Row, NEW size, ~Fits(w, k, row, size)
  PROVE  WOK(BookedSale(w, t, k, row, size), a, sh) /\ BookedSale(w, t, k, row, size).p.tr = w.p.tr
         /\ BookedSale(w, t, k, row, size).p.ord = w.p.ord /\ BookedSale(w, t, k, row, size).jobs = w.jobs
<1>1. w \in Works /\ w.p \in Plan /\ w.p.tr[t] \in Tranche /\ w.p.tr \in [Tranches -> Tranche] /\ w.p.ord[k] \in Rec
  BY WFacts DEF Plan
<1>2. Bad(w) \in Works /\ Bad(w).jobs = w.jobs /\ Bad(w).p = [w.p EXCEPT !.bad = TRUE] /\ Bad(w).p \in Plan
  BY <1>1, BadShape
<1>3. Bad(w).p.tr = w.p.tr /\ Bad(w).p.ord = w.p.ord
  BY <1>1, <1>2 DEF Plan
<1>4. Booked(w, k, row, size) = Bad(w)
  BY DEF Booked
<1>5. w.p.tr[t].closed + w.p.ord[k].booked - w.p.ord[k].booked = w.p.tr[t].closed
  BY <1>1, TriAssumption DEF Tranche, Rec, Qty
<1>6. [w.p.tr EXCEPT ![t] = [w.p.tr[t] EXCEPT !.closed = w.p.tr[t].closed]] = w.p.tr
  BY <1>1 DEF Tranche
<1>7. BookedSale(w, t, k, row, size) = [Bad(w) EXCEPT !.p = [Bad(w).p EXCEPT !.tr = w.p.tr]]
  BY ZenonT(60), <1>2, <1>3, <1>4, <1>5, <1>6 DEF BookedSale
<1>8. [Bad(w).p EXCEPT !.tr = w.p.tr] = Bad(w).p
  BY <1>2, <1>3 DEF Plan
<1>9. [Bad(w) EXCEPT !.p = Bad(w).p] = Bad(w)
  BY <1>2 DEF Works
<1>10. BookedSale(w, t, k, row, size) = Bad(w)
  BY <1>7, <1>8, <1>9
<1>11. WOK(Bad(w), a, sh)
  BY BadOK
<1> QED BY <1>2, <1>3, <1>10, <1>11

(* An answer is booked for the order at work.                              *)
LEMMA SaleOK ==
  ASSUME NEW w, NEW a \in [Keys -> Order], NEW sh, WOK(w, a, sh), NEW t \in Tranches, w.jobs[t] = NoJob,
         NEW row \in Row, NEW size \in Int, w.p.tr[t].qty > 0, NEW k, k = Cur(w.p, t), RowOK(row, a, k),
         Fits(w, k, row, size), NEW b, b = BookedSale(w, t, k, row, size)
  PROVE  /\ WOK(b, a, sh) /\ b.jobs = w.jobs /\ Cur(b.p, t) = k
         /\ b.p.tr[t].qty = w.p.tr[t].qty /\ b.p.tr[t].n = w.p.tr[t].n
         /\ b.p.tr[t].final = w.p.tr[t].final /\ b.p.tr[t].bound = w.p.tr[t].bound
         /\ b.p.ord[k].booked = row.f
<1> DEFINE c == w.p.tr[t].closed + row.f - w.p.ord[Cur(w.p, t)].booked
<1>1. w \in Works /\ w.p \in Plan /\ w.p.tr[t] \in Tranche /\ TrancheOK(w.p, a, t) /\ OrderOK(a[Cur(w.p, t)])
  BY WFacts
<1>2. b \in Works /\ b.jobs = w.jobs /\ b.p \in Plan /\ c \in Qty /\ w.p.ord[Cur(w.p, t)].booked <= row.f
      /\ SoldAs(b.p, w.p, Cur(w.p, t), row, t, c)
  BY <1>1, SaleShape
<1>3. c \in Int
  BY <1>2, TriAssumption DEF Qty
<1>4. c = w.p.tr[t].closed + row.f - w.p.ord[Cur(w.p, t)].booked
  OBVIOUS
<1> HIDE DEF c
<1>5. /\ Off(w.p, b.p, t) /\ TrancheOK(b.p, a, t) /\ Sold(b.p, a, t) = Sold(w.p, a, t) /\ Cur(b.p, t) = Cur(w.p, t)
      /\ b.p.tr[t] = [w.p.tr[t] EXCEPT !.closed = c]
      /\ b.p.ord[Cur(w.p, t)].booked = row.f
  <2>1. w.p \in Plan /\ b.p \in Plan /\ w.p.tr[t].qty > 0 /\ TrancheOK(w.p, a, t) /\ RowOK(row, a, Cur(w.p, t))
    BY <1>1, <1>2
  <2> QED BY SMTT(60), <1>2, <1>3, <1>4, <2>1, SaleKeeps
<1>6. JobOK(b.p, NoJob, a, t)
  BY IdleJobOK
<1>7. b.jobs = [w.jobs EXCEPT ![t] = NoJob]
  BY <1>1, <1>2 DEF Works
<1>8. WOK(b, a, sh)
  BY <1>2, <1>5, <1>6, <1>7, JobTypes, Put
<1>9. b.p.tr[t].qty = w.p.tr[t].qty /\ b.p.tr[t].n = w.p.tr[t].n /\ b.p.tr[t].final = w.p.tr[t].final
      /\ b.p.tr[t].bound = w.p.tr[t].bound
  BY <1>1, <1>5 DEF Tranche
<1> QED BY <1>2, <1>5, <1>8, <1>9

(* The flags of a tranche without a request are set, and those of the plan. *)
LEMMA FlagOK ==
  ASSUME NEW w, NEW a \in [Keys -> Order], NEW sh, WOK(w, a, sh), NEW t \in Tranches, w.jobs[t] = NoJob,
         NEW z \in Works, NEW x \in Tranche, z.jobs = w.jobs, z.p.ord = w.p.ord,
         z.p.tr = [w.p.tr EXCEPT ![t] = x], z.p.final = w.p.final, z.p.phase = w.p.phase,
         x.qty = w.p.tr[t].qty, x.closed = w.p.tr[t].closed, x.n = w.p.tr[t].n, x.qty > 0,
         w.p.tr[t].final => x.final,
         x.bound => a[Oco(t)].st \in {"open", "final"}, x.final => Settled(w.p, a, Oco(t))
  PROVE  WOK(z, a, sh)
<1>1. w \in Works /\ w.p \in Plan /\ z.p \in Plan /\ TrancheOK(w.p, a, t)
  BY WFacts DEF Works
<1>2. Off(w.p, z.p, t) /\ TrancheOK(z.p, a, t) /\ Sold(z.p, a, t) = Sold(w.p, a, t)
  BY <1>1, FlagKeeps
<1>3. z.jobs = [w.jobs EXCEPT ![t] = NoJob]
  BY <1>1 DEF Works
<1> QED BY <1>2, <1>3, IdleJobOK, JobTypes, Put

LEMMA DueOK ==
  ASSUME NEW w, NEW a \in [Keys -> Order], NEW sh, WOK(w, a, sh), NEW t \in Tranches
  PROVE  WOK(Due(w, t), a, sh)
<1>1. w \in Works /\ w.p \in Plan /\ w.p.tr \in [Tranches -> Tranche] /\ w.p.tr[t] \in Tranche
      /\ w.jobs \in [{0} \cup Tranches -> Job]
  BY WFacts DEF Plan
<1> DEFINE e == w.p.tr[t].qty > 0 /\ (w.p.tr[t].exit \/ now >= EXIT \/ w.p.exit)
           x == [w.p.tr[t] EXCEPT !.exit = e]
           r == [w.p EXCEPT !.tr = [w.p.tr EXCEPT ![t] = x]]
<1>2. e \in BOOLEAN
  OBVIOUS
<1>3. Due(w, t) = [w EXCEPT !.p = r]
  BY <1>1 DEF Due, Works, Plan
<1> HIDE DEF e
<1>4. x \in Tranche
  BY <1>1, <1>2 DEF Tranche
<1>5. r \in Plan
  BY <1>1, <1>4 DEF Plan
<1>6. Alike(w.p, r) /\ r.phase = w.p.phase
  BY <1>1 DEF Plan, Tranche, Alike
<1> HIDE DEF r
<1>7. World(r, w.jobs, a, sh)
  BY <1>1, <1>5, <1>6, AlikeWorld DEF Steps, WOK
<1>8. Due(w, t) \in Works /\ Due(w, t).p = r /\ Due(w, t).jobs = w.jobs
  BY <1>1, <1>3, <1>5 DEF Works
<1> QED BY <1>6, <1>7, <1>8 DEF WOK

LEMMA ProtectOK ==
  ASSUME NEW w, NEW a \in [Keys -> Order], NEW sh, WOK(w, a, sh), NEW t \in Tranches,
         w.p.tr[t].qty > 0, ~w.p.tr[t].final, ~w.p.tr[t].bound
  PROVE  WOK(Protect(w, t), a, sh)
<1> DEFINE j == w.jobs[t]  tr == w.p.tr[t]  i == Idle(w, t)  k == Oco(t)
<1>1. w \in Works /\ w.p \in Plan /\ tr \in Tranche /\ w.jobs \in [{0} \cup Tranches -> Job]
      /\ j \in Job /\ j.row \in Row /\ TrancheOK(w.p, a, t) /\ JobOK(w.p, j, a, t) /\ OrderOK(a[Cur(w.p, t)])
      /\ w.p.phase \in Active
  BY WFacts
<1>2. WOK(i, a, sh) /\ i.p = w.p /\ i.jobs[t] = NoJob /\ i.failed = w.failed /\ i.refused = w.refused
  BY IdleOK
<1>3. tr.n = 0 /\ Cur(w.p, t) = k /\ k \in Keys
  <2>1. tr.n = 0
    BY <1>1, TriAssumption DEF TrancheOK, Tranche
  <2> QED BY <1>1, <2>1, CurFacts
<1>4. i \in Works
  BY <1>2 DEF WOK
<1>5. w.p.tr \in [Tranches -> Tranche] /\ a[k] \in Order
  BY <1>1, <1>3 DEF Plan
<1>6. CASE j.at = "idle"
  <2> DEFINE new == [NoJob EXCEPT !.key = Oco(t), !.qty = Left(tr), !.leave = tr.exit \/ Left(tr) = 0]
  <2>1. Left(tr) \in Qty /\ Left(tr) \in Nat
    BY <1>1, LeftFacts
  <2>2. (tr.exit \/ Left(tr) = 0) \in BOOLEAN
    OBVIOUS
  <2>3. new \in Job /\ new.key = k /\ new.qty = Left(tr) /\ (~new.leave => Left(tr) # 0)
    BY <1>1, <1>3, <2>1, <2>2, JobTypes DEF NoJob, Job
  <2> HIDE DEF new
  <2> DEFINE ask == [new EXCEPT !.at = "ask"]
  <2>4. ask.at = "ask" /\ ask.key = k /\ ask.qty = Left(tr) /\ (~ask.leave => Left(tr) # 0)
    BY <2>3 DEF Job
  <2> HIDE DEF ask
  <2>5. JobOK(w.p, ask, a, t)
    BY <1>1, <1>3, <2>1, <2>4 DEF JobOK
  <2>6. WOK(Asked(w, t, new), a, sh)
    BY <2>3, <2>5, AskedOK DEF ask
  <2>7. Protect(w, t) = Asked(w, t, new)
    BY <1>6 DEF Protect, new
  <2> QED BY <2>6, <2>7
<1>7. CASE j.at = "done" /\ j.row.why = "row"
  <2> DEFINE b == BookedSale(i, t, k, j.row, tr.qty)
             f == Fits(w, k, j.row, tr.qty)
             x == [b.p.tr[t] EXCEPT !.bound = f]
             z == [b EXCEPT !.p = [b.p EXCEPT !.tr = [b.p.tr EXCEPT ![t] = x]]]
  <2>1. f = Fits(i, k, j.row, tr.qty) /\ f \in BOOLEAN
    BY <1>2 DEF Fits
  <2>2. RowOK(j.row, a, k)
    BY <1>1, <1>3, <1>7 DEF JobOK, RowOK
  <2>3. tr.qty \in Int
    BY <1>1, TriAssumption DEF Tranche, Qty
  <2>4. /\ WOK(b, a, sh) /\ b.jobs[t] = NoJob /\ b.p.tr[t].qty = tr.qty /\ b.p.tr[t].n = tr.n
        /\ b.p.tr[t].final = tr.final
    <3>1. CASE f
      <4>1. Fits(i, Cur(i.p, t), j.row, tr.qty) /\ RowOK(j.row, a, Cur(i.p, t)) /\ i.p.tr[t].qty > 0
        BY <1>2, <1>3, <2>1, <2>2, <3>1
      <4>2. k = Cur(i.p, t) /\ i.p.tr[t] = tr /\ j.row \in Row
        BY <1>1, <1>2, <1>3
      <4>3. b = BookedSale(i, t, k, j.row, tr.qty)
        OBVIOUS
      <4> HIDE DEF b, i, f, k, tr
      <4>4. /\ WOK(b, a, sh) /\ b.jobs = i.jobs
            /\ b.p.tr[t].qty = i.p.tr[t].qty /\ b.p.tr[t].n = i.p.tr[t].n
            /\ b.p.tr[t].final = i.p.tr[t].final
        BY SMTT(60), <1>2, <2>3, <4>1, <4>2, <4>3, SaleOK
      <4> QED BY <1>2, <4>2, <4>4
    <3>2. CASE ~f
      <4>1. ~Fits(i, k, j.row, tr.qty)
        BY <2>1, <3>2
      <4>2. j.row \in Row /\ k \in Keys /\ WOK(i, a, sh)
        BY <1>1, <1>2, <1>3
      <4>3. i.p.tr = w.p.tr /\ i.jobs[t] = NoJob /\ w.p.tr[t] = tr
        BY <1>1, <1>2
      <4>4. b = BookedSale(i, t, k, j.row, tr.qty)
        OBVIOUS
      <4> HIDE DEF b, f, i, j, k, tr
      <4>5. WOK(b, a, sh) /\ b.p.tr = i.p.tr /\ b.jobs = i.jobs
        BY SMTT(60), <4>1, <4>2, <4>4, SaleUnfit
      <4> QED BY <4>3, <4>5
    <3> QED BY <3>1, <3>2
  <2> HIDE DEF f, b
  <2>5. b \in Works /\ b.p \in Plan /\ b.p.tr \in [Tranches -> Tranche] /\ b.p.tr[t] \in Tranche
    BY <2>4, WFacts DEF Plan
  <2>6. x \in Tranche
    BY <2>1, <2>5 DEF Tranche
  <2>7. z \in Works /\ z.jobs = b.jobs /\ z.p.ord = b.p.ord /\ z.p.tr = [b.p.tr EXCEPT ![t] = x]
        /\ z.p.final = b.p.final /\ z.p.phase = b.p.phase
    <3>1. [b.p EXCEPT !.tr = [b.p.tr EXCEPT ![t] = x]] \in Plan
      BY <2>5, <2>6 DEF Plan
    <3> HIDE DEF x
    <3> QED BY <2>5, <3>1 DEF Works, Plan
  <2>8. x.qty = b.p.tr[t].qty /\ x.closed = b.p.tr[t].closed /\ x.n = b.p.tr[t].n /\ x.qty > 0
        /\ x.final = b.p.tr[t].final /\ ~x.final
    BY <2>4, <2>5 DEF Tranche
  <2>9. a[Oco(t)].st \in {"open", "final"}
    BY <2>2 DEF RowOK
  <2>10. WOK(z, a, sh)
    <3> HIDE DEF x, z
    <3> QED BY <2>4, <2>6, <2>7, <2>8, <2>9, FlagOK
  <2>11. Protect(w, t) = z
    BY <1>7, <2>5 DEF Protect, b, f, Works, Plan
  <2> QED BY <2>10, <2>11
<1>8. j.at = "done" /\ j.row.why \in {"none", "hard"} => Settled(w.p, a, Oco(t))
  <2> SUFFICES ASSUME j.at = "done" /\ j.row.why \in {"none", "hard"} PROVE Settled(w.p, a, Oco(t))
    OBVIOUS
  <2>1. a[k].st \in {"none", "gone"}
    BY <1>1, <1>3 DEF JobOK
  <2>2. OrderOK(a[k]) /\ RecOK(w.p, a, k) /\ w.p.ord[k].booked \in Nat
    <3>1. OrderOK(a[k]) /\ RecOK(w.p, a, k)
      BY <1>1, <1>3, KeyFacts DEF TrancheOK
    <3> QED BY <1>1, <1>3, <3>1, TriAssumption DEF Plan, Rec, Qty
  <2> QED BY <2>1, <2>2 DEF OrderOK, RecOK, Settled, Over
<1>9. CASE j.at = "done" /\ j.row.why = "none"
  <2> DEFINE x == [tr EXCEPT !.final = TRUE]
             r == [w.p EXCEPT !.tr = [w.p.tr EXCEPT ![t] = x]]
             z == [i EXCEPT !.p = r]
  <2>1. x \in Tranche /\ x.qty = tr.qty /\ x.closed = tr.closed /\ x.n = tr.n /\ x.final /\ ~x.bound
    BY <1>1 DEF Tranche
  <2> HIDE DEF x
  <2>2. r \in Plan /\ r.ord = w.p.ord /\ r.tr = [w.p.tr EXCEPT ![t] = x] /\ r.final = w.p.final /\ r.phase = w.p.phase
    BY <1>1, <1>5, <2>1 DEF Plan
  <2> HIDE DEF r
  <2>3. z \in Works /\ z.p = r /\ z.jobs = i.jobs
    BY <1>4, <2>2 DEF Works
  <2> HIDE DEF z
  <2>4. WOK(z, a, sh)
    BY <1>2, <1>8, <1>9, <2>1, <2>2, <2>3, FlagOK
  <2>5. Protect(w, t) = z
    BY <1>2, <1>4, <1>5, <1>9 DEF Protect, z, r, x, Works, Plan
  <2> QED BY <2>4, <2>5
<1>10. CASE j.at = "done" /\ j.row.why = "hard"
  <2> DEFINE x == [tr EXCEPT !.final = TRUE, !.exit = TRUE]
             r == [w.p EXCEPT !.tr = [w.p.tr EXCEPT ![t] = x], !.bad = TRUE, !.exit = TRUE]
             z == [i EXCEPT !.p = r, !.refused = w.refused \cup {t}]
  <2>1. x \in Tranche /\ x.qty = tr.qty /\ x.closed = tr.closed /\ x.n = tr.n /\ x.final /\ ~x.bound
    BY <1>1 DEF Tranche
  <2> HIDE DEF x
  <2>2. r \in Plan /\ r.ord = w.p.ord /\ r.tr = [w.p.tr EXCEPT ![t] = x] /\ r.final = w.p.final /\ r.phase = w.p.phase
    BY <1>1, <1>5, <2>1 DEF Plan
  <2> HIDE DEF r
  <2>3. z \in Works /\ z.p = r /\ z.jobs = i.jobs
    BY <1>1, <1>4, <2>2 DEF Works
  <2> HIDE DEF z
  <2>4. WOK(z, a, sh)
    BY SMTT(60), <1>2, <1>8, <1>10, <2>1, <2>2, <2>3, FlagOK
  <2>5. Protect(w, t) = z
    <3>1. Protect(w, t) = [i EXCEPT !.p.tr[t].final = TRUE, !.p.tr[t].exit = TRUE, !.p.bad = TRUE, !.p.exit = TRUE,
                                    !.refused = @ \cup {t}]
      BY <1>10 DEF Protect
    <3> HIDE DEF i
    <3> DEFINE y == [i EXCEPT !.p.tr[t].final = TRUE]
               v == [y EXCEPT !.p.tr[t].exit = TRUE]
               u == [v EXCEPT !.p.bad = TRUE, !.p.exit = TRUE]
    <3>2. y = [i EXCEPT !.p = [w.p EXCEPT !.tr = [w.p.tr EXCEPT ![t] = [tr EXCEPT !.final = TRUE]]]]
      BY <1>1, <1>2, <1>4, <1>5 DEF Works, Plan
    <3>3. v = [i EXCEPT !.p = [w.p EXCEPT !.tr = [w.p.tr EXCEPT ![t] = x]]]
      <4>1. y.p = [w.p EXCEPT !.tr = [w.p.tr EXCEPT ![t] = [tr EXCEPT !.final = TRUE]]]
        BY <1>4, <3>2 DEF Works
      <4> HIDE DEF y
      <4>2. y.p.tr[t] = [tr EXCEPT !.final = TRUE]
        BY <1>1, <1>5, <4>1 DEF Plan
      <4>3. [y.p.tr EXCEPT ![t] = [y.p.tr[t] EXCEPT !.exit = TRUE]] = [w.p.tr EXCEPT ![t] = x]
        BY <1>1, <1>5, <4>1, <4>2 DEF Plan, x
      <4>4. [y.p EXCEPT !.tr = [w.p.tr EXCEPT ![t] = x]] = [w.p EXCEPT !.tr = [w.p.tr EXCEPT ![t] = x]]
        BY <1>1, <4>1 DEF Plan
      <4>5. v = [y EXCEPT !.p = [w.p EXCEPT !.tr = [w.p.tr EXCEPT ![t] = x]]]
        BY <4>3, <4>4
      <4> QED BY <1>4, <3>2, <4>5 DEF Works
    <3>4. u = [i EXCEPT !.p = r]
      <4> HIDE DEF x, v
      <4> QED BY <1>1, <1>4, <3>3 DEF r, Works, Plan
    <3>5. [u EXCEPT !.refused = u.refused \cup {t}] = [i EXCEPT !.p = r, !.refused = w.refused \cup {t}]
      <4> HIDE DEF x, u, r
      <4> QED BY <1>2, <1>4, <3>4 DEF Works
    <3>6. Protect(w, t) = [u EXCEPT !.refused = u.refused \cup {t}]
      BY <3>1
    <3> QED BY <3>5, <3>6 DEF z
  <2> QED BY <2>4, <2>5
<1>11. CASE j.at = "done" /\ j.row.why = "error"
  <2>1. Protect(w, t) = [i EXCEPT !.failed = TRUE]
    BY <1>11 DEF Protect
  <2>2. [i EXCEPT !.failed = TRUE] \in Works /\ [i EXCEPT !.failed = TRUE].p = i.p /\ [i EXCEPT !.failed = TRUE].jobs = i.jobs
    BY <1>4 DEF Works
  <2> QED BY <1>2, <2>1, <2>2 DEF WOK
<1>12. CASE j.at = "done" /\ j.row.why = "defer"
  BY <1>2, <1>12 DEF Protect
<1>13. CASE j.at \notin {"idle", "done"}
  <2>1. Protect(w, t) = w
    BY <1>13 DEF Protect
  <2> QED BY <2>1
<1>14. j.row.why \in {"row", "none", "defer", "error", "hard"}
  BY <1>1 DEF Row
<1> QED BY <1>6, <1>7, <1>9, <1>10, <1>11, <1>12, <1>13, <1>14

LEMMA PollOK ==
  ASSUME NEW w, NEW a \in [Keys -> Order], NEW sh, WOK(w, a, sh), NEW t \in Tranches,
         w.p.tr[t].qty > 0, ~w.p.tr[t].final, w.p.tr[t].bound = TRUE
  PROVE  WOK(Poll(w, t), a, sh)
<1> DEFINE j == w.jobs[t]  tr == w.p.tr[t]  i == Idle(w, t)  k == Oco(t)
<1>1. w \in Works /\ w.p \in Plan /\ tr \in Tranche /\ w.jobs \in [{0} \cup Tranches -> Job]
      /\ j \in Job /\ j.row \in Row /\ TrancheOK(w.p, a, t) /\ JobOK(w.p, j, a, t) /\ OrderOK(a[Cur(w.p, t)])
      /\ w.p.phase \in Active
  BY WFacts
<1>2. WOK(i, a, sh) /\ i.p = w.p /\ i.jobs[t] = NoJob /\ i.failed = w.failed /\ i.refused = w.refused
  BY IdleOK
<1>3. tr.n = 0 /\ Cur(w.p, t) = k /\ k \in Keys
  <2>1. tr.n = 0
    BY <1>1, TriAssumption DEF TrancheOK, Tranche
  <2> QED BY <1>1, <2>1, CurFacts
<1>4. i \in Works
  BY <1>2 DEF WOK
<1>5. CASE j.at = "idle"
  <2> DEFINE new == [NoJob EXCEPT !.key = Oco(t), !.leave = tr.exit \/ Left(tr) = 0]
  <2>2. (tr.exit \/ Left(tr) = 0) \in BOOLEAN
    BY <1>1 DEF Tranche
  <2>3. new \in Job /\ new.key = k
    BY <1>3, <2>2, JobTypes DEF NoJob, Job
  <2> HIDE DEF new
  <2> DEFINE ask == [new EXCEPT !.at = "ask"]
  <2>4. ask.at = "ask" /\ ask.key = k
    BY <2>3 DEF Job
  <2> HIDE DEF ask
  <2>5. JobOK(w.p, ask, a, t)
    BY <1>1, <1>3, <2>4 DEF JobOK
  <2>6. WOK(Asked(w, t, new), a, sh)
    BY <2>3, <2>5, AskedOK DEF ask
  <2>7. Poll(w, t) = Asked(w, t, new)
    BY <1>5 DEF Poll, new
  <2> QED BY <2>6, <2>7
<1>6. CASE j.at = "done" /\ j.row.why # "row"
  <2>1. Poll(w, t) = [i EXCEPT !.failed = TRUE]
    BY <1>6 DEF Poll
  <2>2. [i EXCEPT !.failed = TRUE] \in Works /\ [i EXCEPT !.failed = TRUE].p = i.p /\ [i EXCEPT !.failed = TRUE].jobs = i.jobs
    BY <1>4 DEF Works
  <2> QED BY <1>2, <2>1, <2>2 DEF WOK
<1>7. CASE j.at = "done" /\ j.row.why = "row" /\ ~Fits(w, k, j.row, tr.qty)
  <2>1. ~Fits(i, k, j.row, tr.qty)
    BY <1>2, <1>7 DEF Fits
  <2>2. WOK(BookedSale(i, t, k, j.row, tr.qty), a, sh)
    BY <1>1, <1>2, <1>3, <2>1, SaleUnfit
  <2>3. Poll(w, t) = BookedSale(i, t, k, j.row, tr.qty)
    BY <1>7 DEF Poll
  <2> QED BY <2>2, <2>3
<1>8. CASE j.at = "done" /\ j.row.why = "row" /\ Fits(w, k, j.row, tr.qty)
  <2> DEFINE b == BookedSale(i, t, k, j.row, tr.qty)
             e == b.p.tr[t].exit \/ (j.row.final /\ Left(b.p.tr[t]) > 0)
             y == [b.p.tr[t] EXCEPT !.final = j.row.final]
             x == [y EXCEPT !.exit = e]
             z == [b EXCEPT !.p = [b.p EXCEPT !.tr = [b.p.tr EXCEPT ![t] = x]]]
  <2>1. Fits(i, k, j.row, tr.qty)
    BY <1>2, <1>8 DEF Fits
  <2>2. RowOK(j.row, a, k)
    BY <1>1, <1>3, <1>8 DEF JobOK, RowOK
  <2>3. tr.qty \in Int
    BY <1>1, TriAssumption DEF Tranche, Qty
  <2>4. /\ WOK(b, a, sh) /\ b.jobs = i.jobs
        /\ b.p.tr[t].qty = i.p.tr[t].qty /\ b.p.tr[t].n = i.p.tr[t].n
        /\ b.p.tr[t].final = i.p.tr[t].final /\ b.p.tr[t].bound = i.p.tr[t].bound
        /\ b.p.ord[k].booked = j.row.f
    <3>1. k = Cur(i.p, t) /\ i.p.tr[t] = tr /\ j.row \in Row
      BY <1>1, <1>2, <1>3
    <3>2. b = BookedSale(i, t, k, j.row, tr.qty)
      OBVIOUS
    <3> HIDE DEF b, i, k, tr, j
    <3> QED BY SMTT(60), <1>2, <1>8, <2>1, <2>2, <2>3, <3>1, <3>2, SaleOK
  <2> HIDE DEF b, e
  <2>5. b \in Works /\ b.p \in Plan /\ b.p.tr \in [Tranches -> Tranche] /\ b.p.tr[t] \in Tranche
    BY <2>4, WFacts DEF Plan
  <2>6. e \in BOOLEAN /\ j.row.final \in BOOLEAN
    BY <1>1, <2>5 DEF e, Tranche, Row
  <2>7. y \in Tranche /\ y.final = j.row.final
    BY <2>5, <2>6 DEF Tranche
  <2>8. x \in Tranche /\ x.qty = b.p.tr[t].qty /\ x.closed = b.p.tr[t].closed /\ x.n = b.p.tr[t].n /\ x.qty > 0
        /\ x.final = j.row.final /\ ~b.p.tr[t].final
    BY <1>2, <2>4, <2>5, <2>6, <2>7 DEF Tranche
  <2>9. a[Oco(t)].st \in {"open", "final"} /\ (j.row.final => Settled(b.p, a, Oco(t)))
    BY <2>2, <2>4 DEF RowOK, Settled, Over
  <2>10. z \in Works /\ z.jobs = b.jobs /\ z.p.ord = b.p.ord /\ z.p.tr = [b.p.tr EXCEPT ![t] = x]
        /\ z.p.final = b.p.final /\ z.p.phase = b.p.phase
    <3>1. [b.p EXCEPT !.tr = [b.p.tr EXCEPT ![t] = x]] \in Plan
      BY <2>5, <2>8 DEF Plan
    <3> HIDE DEF x
    <3> QED BY <2>5, <3>1 DEF Works, Plan
  <2>11. WOK(z, a, sh)
    <3>1. b.jobs[t] = NoJob
      BY <1>2, <2>4
    <3> HIDE DEF x, z
    <3> QED BY <2>4, <2>8, <2>9, <2>10, <3>1, FlagOK
  <2>12. Poll(w, t) = z
    <3> DEFINE fin == [b EXCEPT !.p.tr[t].final = j.row.final]
    <3>1. Poll(w, t) = [fin EXCEPT !.p.tr[t].exit = fin.p.tr[t].exit \/ (j.row.final /\ Left(b.p.tr[t]) > 0)]
      BY <1>8 DEF Poll, b
    <3>2. fin = [b EXCEPT !.p = [b.p EXCEPT !.tr = [b.p.tr EXCEPT ![t] = y]]]
      BY <2>5 DEF Works, Plan
    <3>3. fin \in Works /\ fin.p = [b.p EXCEPT !.tr = [b.p.tr EXCEPT ![t] = y]]
      <4>1. [b.p EXCEPT !.tr = [b.p.tr EXCEPT ![t] = y]] \in Plan
        BY <2>5, <2>7 DEF Plan
      <4> HIDE DEF y, fin
      <4> QED BY <2>5, <3>2, <4>1 DEF Works
    <3>4. fin.p.tr[t] = y /\ y.exit = b.p.tr[t].exit /\ fin.p.tr = [b.p.tr EXCEPT ![t] = y]
      <4> HIDE DEF fin
      <4> QED BY <2>5, <3>3 DEF Plan, Tranche
    <3> HIDE DEF fin
    <3>5. Poll(w, t) = [fin EXCEPT !.p.tr[t].exit = e]
      BY <3>1, <3>4 DEF e
    <3>6. Poll(w, t) = [fin EXCEPT !.p = [fin.p EXCEPT !.tr = [fin.p.tr EXCEPT ![t] = x]]]
      BY <3>4, <3>5
    <3>7. [fin.p EXCEPT !.tr = [fin.p.tr EXCEPT ![t] = x]] = [b.p EXCEPT !.tr = [b.p.tr EXCEPT ![t] = x]]
      <4> HIDE DEF x, y
      <4> QED BY <2>5, <3>3, <3>4 DEF Plan
    <3> HIDE DEF x
    <3> QED BY <2>5, <3>2, <3>6, <3>7 DEF Works
  <2> QED BY <2>11, <2>12
<1>9. CASE j.at \notin {"idle", "done"}
  <2>1. Poll(w, t) = w
    BY <1>9 DEF Poll
  <2> QED BY <2>1
<1> QED BY <1>5, <1>6, <1>7, <1>8, <1>9

LEMMA ProtectedOK ==
  ASSUME NEW w, NEW a \in [Keys -> Order], NEW sh, WOK(w, a, sh), NEW t \in Tranches
  PROVE  WOK(Protected(w, t), a, sh)
<1>1. w.p.tr[t].qty \in Nat /\ w.p.tr[t].final \in BOOLEAN /\ w.p.tr[t].bound \in BOOLEAN
  <2>1. w.p.tr[t] \in Tranche
    BY WFacts
  <2> QED BY <2>1, TriAssumption DEF Tranche, Qty
<1>2. CASE w.p.tr[t].qty = 0 \/ w.p.tr[t].final
  <2>1. Protected(w, t) = w
    BY <1>1, <1>2 DEF Protected
  <2> QED BY <2>1
<1>3. CASE w.p.tr[t].qty > 0 /\ ~w.p.tr[t].final /\ ~w.p.tr[t].bound
  <2>1. Protected(w, t) = Protect(w, t)
    BY <1>1, <1>3 DEF Protected
  <2> QED BY <1>3, <2>1, ProtectOK
<1>4. CASE w.p.tr[t].qty > 0 /\ ~w.p.tr[t].final /\ w.p.tr[t].bound
  <2>1. Protected(w, t) = Poll(w, t)
    BY <1>1, <1>4 DEF Protected
  <2> QED BY <1>4, <2>1, PollOK
<1> QED BY <1>1, <1>2, <1>3, <1>4

IsNext(q, t, k) ==
  \/ k = q.tr[t].n /\ ~q.ord[Close(t, k)].final
  \/ k = q.tr[t].n + 1 /\ (q.tr[t].n = 0 \/ q.ord[Close(t, q.tr[t].n)].final = TRUE)

Numbered(q, t, k) == [q.tr[t] EXCEPT !.n = k]

(* r is q with another record x of the tranche t                            *)
Rewritten(q, r, t, x) ==
  r.tr = [q.tr EXCEPT ![t] = x] /\ r.ord = q.ord /\ r.final = q.final /\ r.phase = q.phase

(* The next close order of a tranche: the one at work, or a new one         *)
LEMMA NextKeeps ==
  ASSUME NEW q \in Plan, NEW r \in Plan, NEW t \in Tranches, NEW a \in [Keys -> Order], NEW k \in 1 .. MaxCloses,
         TrancheOK(q, a, t), q.tr[t].final = TRUE, \A l \in Keys : OrderOK(a[l]), IsNext(q, t, k),
         Numbered(q, t, k) \in Tranche, Rewritten(q, r, t, Numbered(q, t, k))
  PROVE  /\ Off(q, r, t) /\ TrancheOK(r, a, t) /\ Sold(r, a, t) = Sold(q, a, t)
         /\ Cur(r, t) = Close(t, k) /\ ~r.ord[Close(t, k)].final
<1> DEFINE x == Numbered(q, t, k)
<1>0. x.n = k /\ x.qty = q.tr[t].qty /\ x.closed = q.tr[t].closed /\ x.bound = q.tr[t].bound /\ x.final = q.tr[t].final
      /\ r.tr = [q.tr EXCEPT ![t] = x]
  BY DEF Rewritten, Plan, Tranche, Numbered
<1> HIDE DEF x
<1>1. q.tr[t] \in Tranche /\ q.tr \in [Tranches -> Tranche] /\ q.ord \in [Keys -> Rec] /\ q.tr[t].n \in 0 .. MaxCloses
  BY CurFacts DEF Plan
<1>2. r.ord = q.ord /\ r.final = q.final /\ r.phase = q.phase
  BY DEF Rewritten
<1>3. r.tr[t] = x /\ \A u \in Tranches \ {t} : r.tr[u] = q.tr[u]
  BY <1>0, <1>1
<1>4. /\ r.tr[t].n = k /\ r.tr[t].qty = q.tr[t].qty /\ r.tr[t].closed = q.tr[t].closed
      /\ r.tr[t].bound = q.tr[t].bound /\ r.tr[t].final = q.tr[t].final
  BY <1>0, <1>3
<1>5. Off(q, r, t)
  BY <1>2, <1>3, <1>4 DEF Off
<1>6. Cur(r, t) = Close(t, k)
  BY <1>4, TriAssumption DEF Cur
<1>7. CASE k = q.tr[t].n /\ ~q.ord[Close(t, k)].final
  <2>1. Alike(q, r)
    BY <1>2, <1>3, <1>4, <1>7 DEF Alike
  <2>2. TrancheOK(r, a, t) /\ Sold(r, a, t) = Sold(q, a, t)
    BY <2>1, AlikeTranche
  <2> QED BY <1>2, <1>3, <1>5, <1>6, <1>7, <2>2
<1>8. CASE k = q.tr[t].n + 1 /\ (q.tr[t].n = 0 \/ q.ord[Close(t, q.tr[t].n)].final = TRUE)
  <2>1. Close(t, k) \in Keys /\ a[Close(t, k)] \in Order /\ Cur(q, t) \in Keys /\ Cur(q, t) \in SoldBy(t)
    BY KeyFacts, CurFacts
  <2>2. Untouched(q, a, Close(t, k))
    BY <1>1, <1>8 DEF TrancheOK
  <2>3. q.ord[Close(t, k)].booked = 0 /\ ~q.ord[Close(t, k)].final /\ a[Close(t, k)].st = "none"
    BY <2>2 DEF Untouched, New
  <2>4. Settled(q, a, Cur(q, t))
    <3>1. CASE q.tr[t].n = 0
      <4>1. Cur(q, t) = Oco(t)
        BY <3>1, CurFacts
      <4> QED BY <4>1 DEF TrancheOK
    <3>2. CASE q.tr[t].n # 0
      <4>1. Cur(q, t) = Close(t, q.tr[t].n) /\ q.ord[Close(t, q.tr[t].n)].final
        BY <1>8, <3>2 DEF Cur
      <4>2. RecOK(q, a, Cur(q, t))
        BY <2>1 DEF TrancheOK
      <4> QED BY <4>1, <4>2 DEF RecOK, Settled, Over
    <3> QED BY <3>1, <3>2
  <2>5. a[Cur(q, t)].filled = q.ord[Cur(q, t)].booked /\ q.ord[Cur(q, t)].booked \in Nat /\ q.tr[t].closed \in Nat
    BY <1>1, <2>1, <2>4, TriAssumption DEF Settled, Rec, Tranche, Qty
  <2>6. Sold(q, a, t) = q.tr[t].closed
    BY <2>5 DEF Sold
  <2>7. RecOK(q, a, Close(t, k)) /\ \A l \in SoldBy(t) : RecOK(q, a, l)
    BY KeyFacts DEF TrancheOK
  <2>8. a[Close(t, k)].filled = 0
    BY <2>1, <2>3 DEF OrderOK
  <2>9. Sold(r, a, t) = q.tr[t].closed
    BY <1>2, <1>4, <1>6, <2>3, <2>5, <2>8 DEF Sold
  <2>10. Ahead(a, Cur(r, t)) = 0 /\ Sold(q, a, t) + Ahead(a, Cur(q, t)) <= q.tr[t].qty /\ Ahead(a, Cur(q, t)) = 0
    BY <1>6, <2>3, <2>4 DEF Ahead, Over, Settled, TrancheOK
  <2>11. \A j \in 1 .. MaxCloses : (j < k => Settled(r, a, Close(t, j))) /\ (j > k => Untouched(r, a, Close(t, j)))
    <3> TAKE j \in 1 .. MaxCloses
    <3>1. (j < q.tr[t].n => Settled(q, a, Close(t, j))) /\ (j > q.tr[t].n => Untouched(q, a, Close(t, j)))
      BY DEF TrancheOK
    <3>2. j = q.tr[t].n => Settled(q, a, Close(t, j))
      BY <1>1, <2>4, TriAssumption DEF Cur
    <3> QED BY <1>1, <1>2, <1>8, <3>1, <3>2, TriAssumption DEF Settled, Untouched
  <2>12. TrancheOK(r, a, t)
    <3>1. Sold(r, a, t) + Ahead(a, Cur(r, t)) <= r.tr[t].qty
      BY <1>4, <2>6, <2>9, <2>10
    <3>2. r.ord[Cur(r, t)].booked <= r.tr[t].closed
      BY <1>2, <1>4, <1>6, <2>3, <2>5
    <3>3. \A l \in SoldBy(t) : RecOK(r, a, l)
      BY <1>2, <2>7 DEF RecOK
    <3>4. r.tr[t].final => Settled(r, a, Oco(t))
      BY <1>2, <1>4 DEF TrancheOK, Settled
    <3>5. r.tr[t].bound => a[Oco(t)].st \in {"open", "final"}
      BY <1>4 DEF TrancheOK
    <3>6. r.tr[t].qty = 0 => r.tr[t].closed = 0 /\ ~r.tr[t].bound /\ ~r.tr[t].final /\ Untouched(r, a, Oco(t))
      BY <1>4 DEF TrancheOK
    <3> QED BY <1>4, <2>11, <3>1, <3>2, <3>3, <3>4, <3>5, <3>6 DEF TrancheOK
  <2> QED BY <1>2, <1>3, <1>5, <1>6, <2>3, <2>6, <2>9, <2>12
<1> QED BY <1>7, <1>8 DEF IsNext

LEMMA AskCloseOK ==
  ASSUME NEW w, NEW a \in [Keys -> Order], NEW sh, WOK(w, a, sh), NEW t \in Tranches,
         w.jobs[t].at = "idle", w.p.tr[t].final = TRUE, Left(w.p.tr[t]) > 0
  PROVE  WOK(AskClose(w, t), a, sh)
<1> DEFINE tr == w.p.tr[t]  k == NextClose(w, t)
<1>1. w \in Works /\ w.p \in Plan /\ tr \in Tranche /\ w.jobs \in [{0} \cup Tranches -> Job]
      /\ TrancheOK(w.p, a, t) /\ OrderOK(a[Cur(w.p, t)]) /\ (tr.qty > 0 => w.p.phase \in Active)
  BY WFacts
<1>2. tr.n \in 0 .. MaxCloses /\ w.p.tr \in [Tranches -> Tranche] /\ w.p.ord \in [Keys -> Rec]
  BY <1>1, CurFacts DEF Plan
<1>3. Left(tr) \in Qty /\ tr.closed \in Nat /\ tr.qty \in Nat /\ Left(tr) \in Nat
      /\ Left(tr) + w.p.ord[Cur(w.p, t)].booked \in Qty
  BY <1>1, LeftFacts, TriAssumption DEF Tranche, Qty
<1>4. tr.qty > 0
  BY <1>3 DEF Left
<1>5. \A l \in Keys : OrderOK(a[l])
  BY DEF WOK, World
<1>6. k \in 1 .. MaxCloses + 1 /\ IsNext(w.p, t, k)
  <2>1. CASE tr.n > 0 /\ ~w.p.ord[Close(t, tr.n)].final
    <3>1. k = tr.n
      BY <2>1 DEF NextClose
    <3> QED BY <1>2, <2>1, <3>1, TriAssumption DEF IsNext
  <2>2. CASE ~(tr.n > 0 /\ ~w.p.ord[Close(t, tr.n)].final)
    <3>1. k = tr.n + 1
      BY <2>2 DEF NextClose
    <3>2. tr.n > 0 => w.p.ord[Close(t, tr.n)].final = TRUE
      <4>1. tr.n > 0 => Close(t, tr.n) \in Keys
        BY <1>2, KeyFacts, TriAssumption
      <4> QED BY <1>2, <2>2, <4>1 DEF Rec
    <3> QED BY <1>2, <3>1, <3>2, TriAssumption DEF IsNext
  <2> QED BY <2>1, <2>2
<1> HIDE DEF k
<1>7. CASE k > MaxCloses
  <2>1. AskClose(w, t) = w
    BY <1>7 DEF AskClose, k
  <2> QED BY <2>1
<1>8. CASE ~(k > MaxCloses)
  <2>1. k \in 1 .. MaxCloses
    BY <1>6, <1>8, TriAssumption
  <2> DEFINE x == [tr EXCEPT !.n = k]
             r == [w.p EXCEPT !.tr = [w.p.tr EXCEPT ![t] = x]]
             v == [w EXCEPT !.p = r]
             key == Close(t, k)
             q == Left(tr) + w.p.ord[key].booked
             new == [NoJob EXCEPT !.key = key, !.qty = q]
  <2>2. x \in Tranche /\ x.final = tr.final /\ x.bound = tr.bound /\ x.qty = tr.qty /\ x.closed = tr.closed /\ x.n = k
    BY <1>1, <2>1, TriAssumption DEF Tranche
  <2>3. r \in Plan /\ r.phase = w.p.phase
    <3> HIDE DEF x
    <3> QED BY <1>1, <1>2, <2>2 DEF Plan
  <2>4. /\ Off(w.p, r, t) /\ TrancheOK(r, a, t) /\ Sold(r, a, t) = Sold(w.p, a, t)
        /\ Cur(r, t) = key /\ ~r.ord[key].final /\ r.ord = w.p.ord /\ r.tr[t] = x
    <3>1. Rewritten(w.p, r, t, x)
      <4> HIDE DEF x
      <4> QED BY <1>1, <2>2 DEF Plan, Rewritten
    <3>2. x = Numbered(w.p, t, k)
      BY DEF Numbered
    <3> HIDE DEF r, x
    <3>5. w.p \in Plan /\ r \in Plan /\ k \in 1 .. MaxCloses /\ TrancheOK(w.p, a, t) /\ w.p.tr[t].final = TRUE
      /\ (\A l \in Keys : OrderOK(a[l])) /\ IsNext(w.p, t, k) /\ Numbered(w.p, t, k) \in Tranche /\ Rewritten(w.p, r, t, Numbered(w.p, t, k))
      BY <1>1, <1>5, <1>6, <2>1, <2>2, <2>3, <3>1, <3>2
    <3>3. Off(w.p, r, t) /\ TrancheOK(r, a, t)
      BY <3>5, NextKeeps
    <3>4. Sold(r, a, t) = Sold(w.p, a, t) /\ Cur(r, t) = Close(t, k)
      BY ZenonT(60), <3>5, NextKeeps
    <3>6. ~r.ord[Close(t, k)].final
      BY <3>5, NextKeeps
    <3>7. r.ord = w.p.ord /\ r.tr[t] = x
      BY <1>2, <3>1 DEF Rewritten
    <3> QED BY <3>3, <3>4, <3>6, <3>7
  <2> HIDE DEF x, r
  <2>5. v \in Works /\ v.p = r /\ v.jobs = w.jobs
    BY <1>1, <2>3 DEF Works
  <2>6. key \in Keys /\ key # Entry
    BY <2>1, KeyFacts
  <2>7. OrderOK(a[Cur(r, t)])
    BY <1>5, <2>4, <2>6
  <2>8. Left(r.tr[t]) = Left(tr)
    BY <2>2, <2>4 DEF Left
  <2>9. q \in Qty
    BY <2>3, <2>4, <2>7, <2>8, LeftFacts
  <2>10. q \in Nat /\ q > 0
    <3>1. w.p.ord[key].booked \in Nat
      BY <1>2, <2>6, TriAssumption DEF Rec, Qty
    <3> QED BY <1>3, <3>1
  <2> HIDE DEF v, key, q
  <2>11. new \in Job /\ new.key = key /\ new.qty = q
    BY <2>6, <2>9, JobTypes DEF NoJob, Job
  <2> DEFINE ask == [new EXCEPT !.at = "ask"]
  <2> HIDE DEF new
  <2>12. ask \in Job /\ ask.at = "ask" /\ ask.key = key /\ ask.qty = q
    BY <2>11 DEF Job
  <2> HIDE DEF ask
  <2>13. JobOK(r, ask, a, t)
    <3>1. r.phase \in Active /\ r.tr[t].qty > 0 /\ r.tr[t].n > 0 /\ r.tr[t].final
      BY <1>1, <1>4, <2>1, <2>2, <2>3, <2>4
    <3>2. ask.qty = Left(r.tr[t]) + r.ord[ask.key].booked
      BY <2>4, <2>8, <2>12 DEF q
    <3> QED BY <2>4, <2>8, <2>12, <3>1, <3>2 DEF JobOK
  <2>14. Asked(v, t, new) \in Works /\ Asked(v, t, new).p = r /\ Asked(v, t, new).jobs = [w.jobs EXCEPT ![t] = ask]
    <3>1. t \in {0} \cup Tranches
      OBVIOUS
    <3> QED BY <2>5, <2>11, <3>1, AskedShape DEF ask
  <2>15. WOK(Asked(v, t, new), a, sh)
    BY <2>4, <2>12, <2>13, <2>14, Put
  <2>16. AskClose(w, t) = Asked(v, t, new)
    <3>1. [w EXCEPT !.p.tr[t].n = k] = v
      BY <1>1, <1>2 DEF v, r, x, Works, Plan
    <3> QED BY <1>8, <3>1 DEF AskClose, new, k, q, key
  <2> QED BY <2>15, <2>16
<1> QED BY <1>7, <1>8

LEMMA CloseTrancheOK ==
  ASSUME NEW w, NEW a \in [Keys -> Order], NEW sh, WOK(w, a, sh), NEW t \in Tranches, w.p.tr[t].final = TRUE,
         Left(w.p.tr[t]) > 0
  PROVE  WOK(CloseTranche(w, t), a, sh)
<1> DEFINE j == w.jobs[t]  tr == w.p.tr[t]  i == Idle(w, t)
<1>1. w \in Works /\ w.p \in Plan /\ tr \in Tranche /\ w.jobs \in [{0} \cup Tranches -> Job]
      /\ j \in Job /\ j.row \in Row /\ TrancheOK(w.p, a, t) /\ JobOK(w.p, j, a, t) /\ OrderOK(a[Cur(w.p, t)])
  BY WFacts
<1>2. WOK(i, a, sh) /\ i.p = w.p /\ i.jobs[t] = NoJob /\ i.failed = w.failed /\ i.refused = w.refused
  BY IdleOK
<1>3. i \in Works /\ Cur(w.p, t) \in Keys
  BY <1>1, <1>2, CurFacts DEF WOK
<1>4. CASE j.at = "idle"
  <2>1. WOK(AskClose(w, t), a, sh)
    BY <1>4, AskCloseOK
  <2>2. CloseTranche(w, t) = AskClose(w, t)
    BY <1>4 DEF CloseTranche
  <2> QED BY <2>1, <2>2
<1>5. CASE j.at = "done" /\ j.row.why = "row"
  <2>1. CloseTranche(w, t) = BookedSale(i, t, j.key, j.row, j.qty)
    BY <1>5 DEF CloseTranche
  <2>2. j.key = Cur(w.p, t) /\ RowOK(j.row, a, j.key) /\ tr.qty > 0
    BY <1>1, <1>5 DEF JobOK, RowOK
  <2>3. j.qty \in Int
    BY <1>1, TriAssumption DEF Job, Qty
  <2>4. CASE Fits(i, j.key, j.row, j.qty)
    <3> DEFINE key == j.key  row == j.row  size == j.qty  b == BookedSale(i, t, key, row, size)
    <3>1. WOK(i, a, sh) /\ i.jobs[t] = NoJob /\ row \in Row /\ size \in Int /\ i.p.tr[t].qty > 0 /\ key = Cur(i.p, t)
          /\ RowOK(row, a, key) /\ Fits(i, key, row, size) /\ b = BookedSale(i, t, key, row, size)
      BY <1>1, <1>2, <2>2, <2>3, <2>4
    <3> HIDE DEF i, j, key, row, size, b
    <3>2. WOK(b, a, sh)
      BY <3>1, SaleOK
    <3> QED BY <2>1, <3>2 DEF b, key, row, size
  <2>5. CASE ~Fits(i, j.key, j.row, j.qty)
    <3>1. j.key \in Keys /\ j.row \in Row
      BY <1>1 DEF Job
    <3> HIDE DEF i, j
    <3>2. WOK(BookedSale(i, t, j.key, j.row, j.qty), a, sh)
      BY <1>2, <2>5, <3>1, SaleUnfit
    <3> QED BY <2>1, <3>2
  <2> QED BY <2>4, <2>5
<1>6. CASE j.at = "done" /\ j.row.why = "hard"
  <2>1. CloseTranche(w, t) = Bad(i)
    BY <1>6 DEF CloseTranche
  <2>2. WOK(Bad(i), a, sh)
    BY <1>2, BadOK
  <2> QED BY <2>1, <2>2
<1>7. CASE j.at = "done" /\ j.row.why \notin {"row", "hard"}
  <2> DEFINE f == i.failed \/ j.row.why = "error"
  <2>1. CloseTranche(w, t) = [i EXCEPT !.failed = f]
    BY <1>7 DEF CloseTranche
  <2>2. f \in BOOLEAN
    OBVIOUS
  <2> HIDE DEF f, i
  <2>3. [i EXCEPT !.failed = f] \in Works /\ [i EXCEPT !.failed = f].p = i.p /\ [i EXCEPT !.failed = f].jobs = i.jobs
    BY <1>3, <2>2 DEF Works
  <2> QED BY <1>2, <2>1, <2>3 DEF WOK
<1>8. CASE j.at \notin {"idle", "done"}
  <2>1. CloseTranche(w, t) = w
    BY <1>8 DEF CloseTranche
  <2> QED BY <2>1
<1> QED BY <1>4, <1>5, <1>6, <1>7, <1>8

LEMMA ClosedOK ==
  ASSUME NEW w, NEW a \in [Keys -> Order], NEW sh, WOK(w, a, sh), NEW t \in Tranches
  PROVE  WOK(Closed(w, t), a, sh)
<1>1. w.p.tr[t].final \in BOOLEAN
  <2>1. w.p.tr[t] \in Tranche
    BY WFacts
  <2> QED BY <2>1 DEF Tranche
<1>2. CASE w.p.tr[t].final /\ w.p.tr[t].exit /\ Left(w.p.tr[t]) > 0 /\ t \notin w.refused
  <2>1. Closed(w, t) = CloseTranche(w, t)
    BY <1>2 DEF Closed
  <2>2. WOK(CloseTranche(w, t), a, sh)
    BY <1>1, <1>2, CloseTrancheOK
  <2> QED BY <2>1, <2>2
<1>3. CASE ~(w.p.tr[t].final /\ w.p.tr[t].exit /\ Left(w.p.tr[t]) > 0 /\ t \notin w.refused)
  <2>1. Closed(w, t) = w
    BY <1>3 DEF Closed
  <2> QED BY <2>1
<1> QED BY <1>2, <1>3

-----------------------------------------------------------------------------
(* What a tick does with the entry                                         *)

LEMMA GivenFacts ==
  ASSUME NEW q \in Plan
  PROVE  /\ Given(q) = Sum([t \in Tranches |-> q.tr[t].qty], Tranches) /\ Given(q) \in Nat
         /\ \A t \in Tranches : q.tr[t].qty \in Nat /\ q.tr[t] \in Tranche
         /\ (\A t \in Tranches : q.tr[t].qty = 0) => Given(q) = 0
<1> DEFINE f == [t \in Tranches |-> q.tr[t].qty]
           z == [t \in Tranches |-> 0]
<1>1. \A t \in Tranches : q.tr[t].qty \in Nat /\ q.tr[t] \in Tranche
  BY TriAssumption DEF Plan, Tranche, Qty
<1>2. Given(q) = Sum(f, Tranches)
  <2>1. DOMAIN f = Tranches
    OBVIOUS
  <2>2. Given(q) = SumFunction(f)
    BY DEF Given
  <2> HIDE DEF f
  <2> QED BY <2>1, <2>2, SumFunctionIs
<1>3. Sum(f, Tranches) \in Int /\ Sum(z, Tranches) = 0 /\ Sum(z, Tranches) <= Sum(f, Tranches)
  <2>1. \A x \in Tranches : f[x] \in Int /\ z[x] \in Int /\ z[x] <= f[x] /\ z[x] = 0
    BY <1>1
  <2> HIDE DEF f, z
  <2> QED BY <2>1, TrancheFacts, SumType, SumZero, SumMonotone
<1>4. (\A t \in Tranches : q.tr[t].qty = 0) => Sum(f, Tranches) = 0
  <2> SUFFICES ASSUME \A t \in Tranches : q.tr[t].qty = 0 PROVE Sum(f, Tranches) = 0
    OBVIOUS
  <2>1. \A x \in Tranches : f[x] = 0
    OBVIOUS
  <2> HIDE DEF f
  <2> QED BY <2>1, TrancheFacts, SumZero
<1> QED BY <1>1, <1>2, <1>3, <1>4

(* a tick has booked what Alpaca says of the entry, and not yet opened it   *)
Unopened(q, J, a, sh) ==
  /\ q \in Plan /\ J \in [{0} \cup Tranches -> Job] /\ J[0] = NoJob /\ q.phase \in Active
  /\ \A k \in Keys : OrderOK(a[k])
  /\ EntryOK(q, a) /\ SharesOK(q, a, sh)
  /\ \E m \in 0 .. Ordered : Opened(q) = 1 .. m /\ m <= Given(q)
  /\ Given(q) <= Filled(q)
  /\ \A t \in Tranches : TrancheOK(q, a, t) /\ JobOK(q, J[t], a, t)

(* a tranche is opened                                                     *)
Parted(n, e) == [NoTranche EXCEPT !.qty = n, !.exit = e]

LEMMA PartedFacts ==
  ASSUME NEW n \in Qty, NEW e \in BOOLEAN
  PROVE  /\ Parted(n, e) \in Tranche /\ Parted(n, e).qty = n /\ Parted(n, e).closed = 0 /\ Parted(n, e).n = 0
         /\ ~Parted(n, e).bound /\ ~Parted(n, e).final
<1>1. 0 \in 0 .. MaxCloses /\ 0 \in Qty
  BY TriAssumption DEF Qty
<1>2. NoTranche \in Tranche /\ NoTranche.closed = 0 /\ NoTranche.n = 0 /\ ~NoTranche.bound /\ ~NoTranche.final
  BY <1>1 DEF NoTranche, Tranche
<1> HIDE DEF NoTranche
<1> DEFINE x == [NoTranche EXCEPT !.qty = n]
<1>3. x \in Tranche /\ x.qty = n /\ x.closed = 0 /\ x.n = 0 /\ ~x.bound /\ ~x.final
  BY <1>2 DEF Tranche
<1>4. Parted(n, e) = [x EXCEPT !.exit = e]
  BY <1>2 DEF Parted, Tranche
<1> HIDE DEF x
<1> QED BY <1>3, <1>4 DEF Tranche

LEMMA NewTranche ==
  ASSUME NEW q \in Plan, NEW r \in Plan, NEW a \in [Keys -> Order], NEW t \in Tranches, NEW j, NEW n \in Qty,
         NEW e \in BOOLEAN, TrancheOK(q, a, t), JobOK(q, j, a, t), \A k \in Keys : OrderOK(a[k]), q.tr[t].qty = 0,
         n > 0, r.tr[t] = Parted(n, e), r.ord = q.ord
  PROVE  TrancheOK(r, a, t) /\ JobOK(r, j, a, t) /\ Sold(r, a, t) = Sold(q, a, t)
<1>1. r.tr[t].qty = n /\ r.tr[t].closed = 0 /\ r.tr[t].n = 0 /\ ~r.tr[t].bound /\ ~r.tr[t].final
  BY PartedFacts
<1>2. q.tr[t] \in Tranche /\ q.tr[t].n \in 0 .. MaxCloses /\ Oco(t) \in Keys
  BY CurFacts, KeyFacts
<1>3. q.tr[t].closed = 0 /\ ~q.tr[t].final /\ Untouched(q, a, Oco(t)) /\ q.tr[t].n = 0
  BY <1>2, TriAssumption DEF TrancheOK
<1>4. Cur(q, t) = Oco(t) /\ Cur(r, t) = Oco(t)
  BY <1>1, <1>3 DEF Cur
<1>5. q.ord[Oco(t)].booked = 0 /\ a[Oco(t)].st = "none" /\ a[Oco(t)].filled = 0
  BY <1>2, <1>3 DEF Untouched, New, OrderOK
<1>6. Sold(r, a, t) = 0 /\ Sold(q, a, t) = 0
  BY <1>1, <1>3, <1>4, <1>5 DEF Sold
<1>7. Ahead(a, Oco(t)) = 0
  BY <1>5 DEF Ahead, Over
<1>8. j.at = "idle"
  BY DEF JobOK
<1>9. JobOK(r, j, a, t)
  BY <1>8 DEF JobOK
<1>10. \A i \in 1 .. MaxCloses : Untouched(r, a, Close(t, i))
  <2> TAKE i \in 1 .. MaxCloses
  <2>1. Untouched(q, a, Close(t, i))
    BY <1>3 DEF TrancheOK
  <2> QED BY <2>1 DEF Untouched
<1>11. \A k \in SoldBy(t) : RecOK(r, a, k)
  BY DEF TrancheOK, RecOK
<1>12. TrancheOK(r, a, t)
  <2>1. Sold(r, a, t) + Ahead(a, Cur(r, t)) <= r.tr[t].qty
    BY <1>1, <1>4, <1>6, <1>7, TriAssumption DEF Qty
  <2>2. r.ord[Cur(r, t)].booked <= r.tr[t].closed
    BY <1>1, <1>4, <1>5
  <2>3. \A i \in 1 .. MaxCloses : i > r.tr[t].n /\ ~(i < r.tr[t].n)
    BY <1>1
  <2> QED BY <1>1, <1>10, <1>11, <2>1, <2>2, <2>3 DEF TrancheOK
<1> QED BY <1>6, <1>9, <1>12

(* A tranche with its orders as they are                                   *)
LEMMA SameTranche ==
  ASSUME NEW q \in Plan, NEW r \in Plan, NEW a \in [Keys -> Order], NEW t \in Tranches, NEW j,
         TrancheOK(q, a, t), JobOK(q, j, a, t), r.tr[t] = q.tr[t], r.ord = q.ord,
         q.phase \in Active => r.phase \in Active
  PROVE  TrancheOK(r, a, t) /\ JobOK(r, j, a, t) /\ Sold(r, a, t) = Sold(q, a, t)
<1>1. Cur(r, t) = Cur(q, t)
  BY DEF Cur
<1>2. Sold(r, a, t) = Sold(q, a, t)
  BY <1>1 DEF Sold
<1>3. TrancheOK(r, a, t)
  BY <1>1, <1>2 DEF TrancheOK, Untouched, Settled, RecOK
<1>4. JobOK(r, j, a, t)
  BY <1>1 DEF JobOK
<1> QED BY <1>2, <1>3, <1>4

(* What the first two tranches hold when there is no other                  *)
LEMMA TwoParts ==
  ASSUME NEW q \in Plan, NEW x \in Nat, NEW y \in Nat, 2 \in Tranches \/ y = 0,
         \A t \in Tranches : q.tr[t].qty = IF t = 1 THEN x ELSE IF t = 2 THEN y ELSE 0
  PROVE  Given(q) = x + y
<1> DEFINE f == [t \in Tranches |-> q.tr[t].qty]
           z == [t \in Tranches |-> 0]
           g == [t \in Tranches |-> IF t = 1 THEN x ELSE 0]
<1>1. \A t \in Tranches : f[t] = (IF t = 1 THEN x ELSE IF t = 2 THEN y ELSE 0) /\ f[t] \in Int
  OBVIOUS
<1>2. \A t \in Tranches : z[t] = 0 /\ z[t] \in Int /\ g[t] \in Int /\ g[t] = IF t = 1 THEN x ELSE 0
  OBVIOUS
<1>3. Given(q) = Sum(f, Tranches)
  BY GivenFacts
<1>4. 1 \in Tranches /\ IsFiniteSet(Tranches)
  BY TrancheFacts
<1> HIDE DEF f, g, z
<1>5. Sum(z, Tranches) = 0
  BY <1>2, <1>4, SumZero
<1>6. Sum(g, Tranches) = x
  <2>1. \A t \in Tranches : z[t] \in Int /\ g[t] \in Int /\ (t # 1 => g[t] = z[t])
    BY <1>2
  <2>2. Sum(g, Tranches) = Sum(z, Tranches) + g[1] - z[1]
    BY <1>4, <2>1, SumChange
  <2> QED BY <1>2, <1>4, <1>5, <2>2
<1>7. CASE 2 \in Tranches
  <2>1. \A t \in Tranches : g[t] \in Int /\ f[t] \in Int /\ (t # 2 => f[t] = g[t])
    BY <1>1, <1>2
  <2>2. Sum(f, Tranches) = Sum(g, Tranches) + f[2] - g[2]
    BY <1>4, <1>7, <2>1, SumChange
  <2>3. f[2] = y /\ g[2] = 0
    BY <1>1, <1>2, <1>7
  <2> QED BY <1>3, <1>6, <2>2, <2>3
<1>8. CASE 2 \notin Tranches
  <2>1. \A t \in Tranches : g[t] \in Int /\ f[t] \in Int /\ (t # 1 => f[t] = g[t])
    BY <1>1, <1>2, <1>8
  <2>2. Sum(f, Tranches) = Sum(g, Tranches) + f[1] - g[1]
    BY <1>4, <2>1, SumChange
  <2>3. f[1] = x /\ g[1] = x
    BY <1>1, <1>2, <1>4
  <2> QED BY <1>3, <1>6, <1>8, <2>2, <2>3
<1> QED BY <1>7, <1>8

(* the tranches of n shares: x in the first, y in the second               *)
Split(q, r, n, x, y, e) ==
  /\ x \in 1 .. n /\ y = n - x /\ e \in BOOLEAN
  /\ r.tr[1] = Parted(x, e)
  /\ y > 0 => 2 \in Tranches /\ r.tr[2] = Parted(y, e)
  /\ \A t \in Tranches : t # 1 /\ ~(t = 2 /\ y > 0) => r.tr[t] = q.tr[t]
  /\ r.ord = q.ord /\ r.final = q.final /\ r.phase \in Active

(* The filled shares become the tranches                                   *)
LEMMA SplitOK ==
  ASSUME NEW q, NEW r \in Plan, NEW J, NEW a \in [Keys -> Order], NEW sh, Unopened(q, J, a, sh), Opened(q) = {},
         NEW n \in 1 .. Ordered, n = Filled(q), NEW x, NEW y, NEW e, Split(q, r, n, x, y, e)
  PROVE  Unopened(r, J, a, sh) /\ Opened(r) # {} /\ Given(r) = Filled(r)
<1>1. q \in Plan /\ q.phase \in Active /\ \A k \in Keys : OrderOK(a[k])
  BY DEF Unopened
<1>2. x \in Nat /\ x > 0 /\ y \in Nat /\ x + y = n /\ x \in Qty /\ y \in Qty /\ e \in BOOLEAN
  BY TriAssumption DEF Split, Qty
<1>3. \A t \in Tranches : q.tr[t].qty = 0 /\ TrancheOK(q, a, t) /\ JobOK(q, J[t], a, t)
  <2>1. \A t \in Tranches : q.tr[t].qty \in Nat
    BY <1>1, GivenFacts
  <2>2. \A t \in Tranches : ~(q.tr[t].qty > 0)
    BY DEF Opened
  <2> QED BY <2>1, <2>2 DEF Unopened
<1>4. \A t \in Tranches : TrancheOK(r, a, t) /\ JobOK(r, J[t], a, t) /\ Sold(r, a, t) = Sold(q, a, t)
  <2> TAKE t \in Tranches
  <2>1. TrancheOK(q, a, t) /\ JobOK(q, J[t], a, t) /\ q.tr[t].qty = 0 /\ r.ord = q.ord /\ r.phase \in Active
    BY <1>3 DEF Split
  <2>2. CASE t = 1
    <3>1. r.tr[t] = Parted(x, e)
      BY <2>2 DEF Split
    <3> QED BY <1>1, <1>2, <2>1, <3>1, NewTranche
  <2>3. CASE t = 2 /\ y > 0
    <3>1. r.tr[t] = Parted(y, e)
      BY <2>3 DEF Split
    <3> QED BY <1>1, <1>2, <2>1, <2>3, <3>1, NewTranche
  <2>4. CASE t # 1 /\ ~(t = 2 /\ y > 0)
    <3>1. r.tr[t] = q.tr[t]
      BY <2>4 DEF Split
    <3> QED BY <1>1, <2>1, <3>1, SameTranche
  <2> QED BY <2>2, <2>3, <2>4
<1>5. \A t \in Tranches : r.tr[t].qty = IF t = 1 THEN x ELSE IF t = 2 THEN y ELSE 0
  <2> TAKE t \in Tranches
  <2>1. CASE t = 1
    <3>1. r.tr[t] = Parted(x, e)
      BY <2>1 DEF Split
    <3> QED BY <1>2, <2>1, <3>1, PartedFacts
  <2>2. CASE t = 2 /\ y > 0
    <3>1. r.tr[t] = Parted(y, e)
      BY <2>2 DEF Split
    <3> QED BY <1>2, <2>2, <3>1, PartedFacts
  <2>3. CASE t # 1 /\ ~(t = 2 /\ y > 0)
    <3>1. r.tr[t] = q.tr[t]
      BY <2>3 DEF Split
    <3> QED BY <1>2, <1>3, <2>3, <3>1
  <2> QED BY <2>1, <2>2, <2>3
<1>6. Given(r) = n
  <2>1. 2 \in Tranches \/ y = 0
    BY <1>2 DEF Split
  <2> QED BY <1>2, <1>5, <2>1, TwoParts
<1>7. Filled(r) = n /\ EntryOK(r, a)
  BY DEF Split, Filled, Unopened, EntryOK, Settled
<1>8. \E m \in 0 .. Ordered : Opened(r) = 1 .. m /\ m <= Given(r) /\ m > 0
  <2>1. CASE y > 0
    <3>1. 2 \in Tranches /\ 1 \in Tranches
      BY <2>1, TrancheFacts DEF Split
    <3>2. \A t \in Tranches : r.tr[t].qty > 0 <=> t \in {1, 2}
      BY <1>2, <1>5, <2>1
    <3>3. Opened(r) = {1, 2}
      BY <3>1, <3>2 DEF Opened
    <3>4. Opened(r) = 1 .. 2
      BY <3>3
    <3>5. 2 \in 0 .. Ordered /\ 2 <= n
      BY <1>2, <2>1, <3>1, TriAssumption DEF Tranches
    <3> QED BY <1>6, <3>4, <3>5
  <2>2. CASE y = 0
    <3>1. Opened(r) = 1 .. 1 /\ 1 \in 0 .. Ordered
      BY <1>2, <1>5, <2>2, TrancheFacts DEF Opened, Tranches
    <3> QED BY <1>6, <3>1
  <2> QED BY <1>2, <2>1, <2>2
<1>9. SharesOK(r, a, sh)
  BY <1>4, SameShares DEF Unopened
<1>10. J \in [{0} \cup Tranches -> Job] /\ J[0] = NoJob /\ r.phase \in Active
  BY DEF Unopened, Split
<1> QED BY <1>1, <1>4, <1>6, <1>7, <1>8, <1>9, <1>10 DEF Unopened

LEMMA OpenTranchesOK ==
  ASSUME NEW q, NEW J, NEW a \in [Keys -> Order], NEW sh, Unopened(q, J, a, sh), NEW risky \in BOOLEAN
  PROVE  Unopened(OpenTranches(q, risky), J, a, sh)
<1> DEFINE n == Filled(q)
           leave == q.exit \/ risky
           parts == IF Halves /\ n > 1 THEN <<n \div 2, n - n \div 2>> ELSE <<n>>
           x == IF Halves /\ n > 1 THEN n \div 2 ELSE n
           y == n - x
           T == [t \in Tranches |-> IF t \in DOMAIN parts THEN [NoTranche EXCEPT !.qty = parts[t], !.exit = leave]
                                                          ELSE q.tr[t]]
           r == [q EXCEPT !.tr = T, !.exit = leave, !.bad = q.bad \/ risky, !.phase = IF leave THEN "EXITING" ELSE "HOLDING"]
<1>1. q \in Plan /\ q.exit \in BOOLEAN /\ q.bad \in BOOLEAN /\ q.tr \in [Tranches -> Tranche] /\ n \in Qty /\ n \in Nat
  BY KeyFacts, TriAssumption DEF Unopened, Plan, Filled, Rec, Qty
<1>2. CASE Opened(q) # {} \/ n = 0
  <2>1. OpenTranches(q, risky) = q
    BY <1>2 DEF OpenTranches
  <2> QED BY <2>1
<1>3. CASE ~(Opened(q) # {} \/ n = 0)
  <2>1. n \in 1 .. Ordered /\ Opened(q) = {} /\ n = Filled(q)
    BY <1>1, <1>3, TriAssumption DEF Qty
  <2>2. OpenTranches(q, risky) = r
    BY <1>3 DEF OpenTranches
  <2>3. leave \in BOOLEAN /\ (q.bad \/ risky) \in BOOLEAN
    BY <1>1
  <2>4. x \in 1 .. n /\ y \in Nat /\ y < n /\ x \in Qty /\ y \in Qty
    <3>1. CASE Halves /\ n > 1
      BY <1>1, <2>1, <3>1, TriAssumption DEF Qty
    <3>2. CASE ~(Halves /\ n > 1)
      BY <1>1, <2>1, <3>2, TriAssumption DEF Qty
    <3> QED BY <3>1, <3>2
  <2>5. \A t \in Tranches : T[t] = IF t = 1 THEN Parted(x, leave) ELSE IF t = 2 /\ y > 0 THEN Parted(y, leave) ELSE q.tr[t]
    <3>1. CASE Halves /\ n > 1
      <4>1. DOMAIN parts = {1, 2} /\ parts[1] = x /\ parts[2] = y /\ y > 0
        BY <1>1, <3>1
      <4> HIDE DEF parts, x, y, leave
      <4> QED BY <4>1 DEF Parted
    <3>2. CASE ~(Halves /\ n > 1)
      <4>1. DOMAIN parts = {1} /\ parts[1] = x /\ ~(y > 0)
        BY <1>1, <3>2
      <4> HIDE DEF parts, x, y, leave
      <4> QED BY <4>1 DEF Parted
    <3> QED BY <3>1, <3>2
  <2>6. y > 0 => 2 \in Tranches
    <3>1. y > 0 => n > 1
      BY <2>1, <2>4
    <3> HIDE DEF x, y
    <3> QED BY <2>1, <3>1, TriAssumption DEF Tranches
  <2> HIDE DEF x, y, n, leave, parts
  <2>7. T \in [Tranches -> Tranche]
    <3>1. \A t \in Tranches : T[t] \in Tranche
      <4> TAKE t \in Tranches
      <4>1. Parted(x, leave) \in Tranche /\ Parted(y, leave) \in Tranche /\ q.tr[t] \in Tranche
        BY <1>1, <2>3, <2>4, PartedFacts
      <4> HIDE DEF T
      <4> QED BY <2>5, <4>1
    <3> QED BY <3>1
  <2> HIDE DEF T
  <2>8. r \in Plan /\ r.tr = T /\ r.ord = q.ord /\ r.final = q.final /\ r.phase \in Active
    BY <1>1, <2>3, <2>7 DEF Plan, Active
  <2> HIDE DEF r
  <2>9. Split(q, r, n, x, y, leave)
    BY <2>3, <2>4, <2>5, <2>6, <2>8, TrancheFacts DEF Split, y
  <2>10. Unopened(r, J, a, sh)
    BY <2>1, <2>8, <2>9, SplitOK
  <2> QED BY <2>2, <2>10
<1> QED BY <1>2, <1>3

(* What was filled after the tranches were opened is one more              *)
LEMMA OpenLateOK ==
  ASSUME NEW q, NEW J, NEW a \in [Keys -> Order], NEW sh, Unopened(q, J, a, sh)
  PROVE  /\ Unopened(OpenLate(q), J, a, sh)
         /\ Opened(OpenLate(q)) # {} => Given(OpenLate(q)) = Filled(OpenLate(q))
<1>1. q \in Plan /\ q.tr \in [Tranches -> Tranche] /\ Filled(q) \in Qty /\ Filled(q) \in Nat /\ Given(q) \in Nat
      /\ Filled(q) <= Ordered /\ Given(q) <= Filled(q)
  <2>1. q \in Plan /\ Given(q) <= Filled(q)
    BY DEF Unopened
  <2>2. q.tr \in [Tranches -> Tranche] /\ Filled(q) \in Qty
    BY <2>1, KeyFacts DEF Plan, Filled, Rec
  <2>3. Given(q) \in Nat
    BY <2>1, GivenFacts
  <2> QED BY <2>1, <2>2, <2>3, TriAssumption DEF Qty
<1>2. CASE Opened(q) = {} \/ Filled(q) <= Given(q)
  <2>1. OpenLate(q) = q
    BY <1>2 DEF OpenLate
  <2> QED BY <1>1, <1>2, <2>1
<1>3. CASE Opened(q) # {} /\ ~(Filled(q) <= Given(q))
  <2>1. PICK m \in 0 .. Ordered : Opened(q) = 1 .. m /\ m <= Given(q)
    BY DEF Unopened
  <2>2. Cardinality(Opened(q)) = m
    BY <2>1, TriAssumption, FS_Interval
  <2> DEFINE t == m + 1
             n == Filled(q) - Given(q)
             x == Parted(n, TRUE)
             r == [q EXCEPT !.tr = [q.tr EXCEPT ![t] = x]]
  <2>3. t \in Tranches /\ t \notin Opened(q) /\ n \in Qty /\ n \in Nat /\ n > 0
    BY <1>1, <1>3, <2>1, TriAssumption DEF Tranches, Qty
  <2>4. OpenLate(q) = r
    BY <1>1, <1>3, <2>2 DEF OpenLate, Plan, Parted
  <2>5. x \in Tranche /\ x.qty = n
    BY <2>3, PartedFacts
  <2> HIDE DEF x, n
  <2>6. r \in Plan /\ r.tr = [q.tr EXCEPT ![t] = x] /\ r.ord = q.ord /\ r.final = q.final /\ r.phase = q.phase
    BY <1>1, <2>5 DEF Plan
  <2> HIDE DEF r
  <2>7. r.tr[t] = x /\ \A u \in Tranches \ {t} : r.tr[u] = q.tr[u]
    BY <1>1, <2>3, <2>6
  <2> HIDE DEF t
  <2>8. \A u \in Tranches : TrancheOK(q, a, u) /\ JobOK(q, J[u], a, u) /\ q.tr[u].qty \in Nat
    BY <1>1, GivenFacts DEF Unopened
  <2>9. q.tr[t].qty = 0
    BY <2>3, <2>8 DEF Opened
  <2>10. \A u \in Tranches : TrancheOK(r, a, u) /\ JobOK(r, J[u], a, u) /\ Sold(r, a, u) = Sold(q, a, u)
    <3> TAKE u \in Tranches
    <3>1. CASE u = t
      <4>1. r.tr[u] = Parted(n, TRUE) /\ q.tr[u].qty = 0 /\ \A k \in Keys : OrderOK(a[k])
        BY <2>7, <2>9, <3>1 DEF x, Unopened
      <4> QED BY ZenonT(60), <1>1, <2>3, <2>6, <2>8, <4>1, NewTranche
    <3>2. CASE u # t
      <4>1. r.tr[u] = q.tr[u]
        BY <2>7, <3>2
      <4>2. q.phase \in Active => r.phase \in Active
        BY <2>6
      <4> QED BY <1>1, <2>6, <2>8, <4>1, <4>2, SameTranche
    <3> QED BY <3>1, <3>2
  <2>11. Given(r) = Filled(q)
    <3> DEFINE f == [u \in Tranches |-> q.tr[u].qty]
               g == [u \in Tranches |-> r.tr[u].qty]
    <3>1. Given(q) = Sum(f, Tranches) /\ Given(r) = Sum(g, Tranches)
      BY <1>1, <2>6, GivenFacts
    <3>2. \A u \in Tranches : f[u] \in Int /\ g[u] \in Int /\ (u # t => g[u] = f[u])
      <4>1. (\A u \in Tranches : q.tr[u].qty \in Nat) /\ (\A u \in Tranches : r.tr[u].qty \in Nat)
        BY <1>1, <2>6, GivenFacts
      <4>2. \A u \in Tranches : u # t => r.tr[u].qty = q.tr[u].qty
        BY <2>7
      <4> QED BY <4>1, <4>2
    <3>3. f[t] = 0 /\ g[t] = n
      BY <2>3, <2>5, <2>7, <2>9
    <3> HIDE DEF f, g
    <3>4. Sum(g, Tranches) = Sum(f, Tranches) + g[t] - f[t]
      <4>1. t \in Tranches /\ IsFiniteSet(Tranches)
        BY <2>3, TrancheFacts
      <4> QED BY <3>2, <4>1, SumChange
    <3> QED BY <1>1, <3>1, <3>3, <3>4 DEF n
  <2>12. Opened(r) = 1 .. t /\ t \in 0 .. Ordered
    <3>1. \A u \in Tranches : u \in Opened(r) <=> u = t \/ u \in Opened(q)
      BY <2>3, <2>5, <2>7 DEF Opened
    <3>2. Opened(r) = Opened(q) \cup {t}
      <4>1. Opened(r) \subseteq Tranches /\ Opened(q) \subseteq Tranches
        BY DEF Opened
      <4> QED BY <2>3, <3>1, <4>1
    <3>3. (1 .. m) \cup {m + 1} = 1 .. m + 1
      BY <2>1
    <3>4. m + 1 \in 0 .. Ordered
      BY <2>1, <2>3 DEF t, Tranches
    <3> QED BY <2>1, <3>2, <3>3, <3>4 DEF t
  <2>13. t <= Filled(q)
    BY <1>1, <1>3, <2>1 DEF t
  <2>14. Filled(r) = Filled(q) /\ EntryOK(r, a) /\ r.phase \in Active
    BY <2>6 DEF Filled, Unopened, EntryOK, Settled
  <2>15. SharesOK(r, a, sh)
    BY <2>10, SameShares DEF Unopened
  <2>16. Unopened(r, J, a, sh)
    <3>1. \E i \in 0 .. Ordered : Opened(r) = 1 .. i /\ i <= Given(r)
      BY <2>11, <2>12, <2>13
    <3>2. Given(r) <= Filled(r)
      BY <1>1, <2>11, <2>14
    <3> QED BY <2>6, <2>10, <2>14, <2>15, <3>1, <3>2 DEF Unopened
  <2> QED BY <2>4, <2>11, <2>14, <2>16
<1> QED BY <1>2, <1>3

LEMMA EntrySeenOK ==
  ASSUME NEW q, NEW J, NEW a \in [Keys -> Order], NEW sh, Unopened(q, J, a, sh), NEW risky \in BOOLEAN
  PROVE  /\ EntrySeen(q, risky) \in Plan /\ World(EntrySeen(q, risky), J, a, sh)
         /\ EntrySeen(q, risky).phase \in Active \cup {"SKIPPED"}
<1>1. q \in Plan /\ q.phase \in Active /\ J \in [{0} \cup Tranches -> Job] /\ J[0] = NoJob
  BY DEF Unopened
<1>2. CASE q.final /\ Filled(q) = 0
  <2> DEFINE r == [q EXCEPT !.phase = "SKIPPED"]
  <2>1. EntrySeen(q, risky) = r
    BY <1>2 DEF EntrySeen
  <2>2. r \in Plan /\ r.phase = "SKIPPED" /\ r.tr = q.tr /\ r.ord = q.ord /\ r.final = q.final
    BY <1>1 DEF Plan
  <2> HIDE DEF r
  <2>3. Opened(q) = {} /\ Given(q) = 0
    <3>1. PICK m \in 0 .. Ordered : Opened(q) = 1 .. m /\ m <= Given(q)
      BY DEF Unopened
    <3>2. Given(q) \in Nat /\ Given(q) <= 0
      BY <1>1, <1>2, GivenFacts DEF Unopened
    <3>3. m = 0 /\ Given(q) = 0
      BY <3>1, <3>2, TriAssumption
    <3> QED BY <3>1, <3>3
  <2>4. \A t \in Tranches : q.tr[t].qty = 0 /\ TrancheOK(q, a, t) /\ JobOK(q, J[t], a, t)
    <3>1. \A t \in Tranches : q.tr[t].qty \in Nat
      BY <1>1, GivenFacts
    <3>2. \A t \in Tranches : ~(q.tr[t].qty > 0)
      BY <2>3 DEF Opened
    <3> QED BY <3>1, <3>2 DEF Unopened
  <2>5. \A t \in Tranches : J[t].at = "idle"
    BY <2>4 DEF JobOK
  <2>6. Alike(q, r)
    BY <2>2 DEF Alike
  <2>7. \A t \in Tranches : TrancheOK(r, a, t) /\ Sold(r, a, t) = Sold(q, a, t)
    BY <1>1, <2>2, <2>4, <2>6, AlikeTranche
  <2>8. \A t \in Tranches : JobOK(r, J[t], a, t)
    BY <2>5 DEF JobOK
  <2>9. Opened(r) = {} /\ Given(r) = 0 /\ Filled(r) = 0
    BY <1>2, <2>2, <2>3 DEF Opened, Given, Filled
  <2>10. EntryOK(r, a) /\ Settled(q, a, Entry) /\ a[Entry].filled = 0
    BY <1>2, <2>2 DEF Unopened, EntryOK, Settled, Filled
  <2>11. PartsOK(r)
    <3>1. Opened(r) = 1 .. 0 /\ 0 \in 0 .. Ordered
      BY <2>9, TriAssumption
    <3> QED BY <2>9, <3>1 DEF PartsOK
  <2>12. PhaseOK(r, a)
    BY <2>2, <2>9, <2>10 DEF PhaseOK, Settled
  <2>13. SharesOK(r, a, sh)
    BY <2>7, SameShares DEF Unopened
  <2>14. World(r, J, a, sh)
    BY <1>1, <2>7, <2>8, <2>10, <2>11, <2>12, <2>13, IdleJobOK DEF World, Unopened
  <2> QED BY <2>1, <2>2, <2>14
<1>3. CASE ~(q.final /\ Filled(q) = 0)
  <2> DEFINE o == IF q.final \/ q.exit \/ now >= STUCK THEN OpenTranches(q, risky) ELSE q
             r == OpenLate(o)
  <2>1. EntrySeen(q, risky) = r
    BY <1>3 DEF EntrySeen
  <2>2. Unopened(o, J, a, sh)
    BY OpenTranchesOK
  <2> HIDE DEF o
  <2>3. Unopened(r, J, a, sh) /\ (Opened(r) # {} => Given(r) = Filled(r))
    BY <2>2, OpenLateOK
  <2> HIDE DEF r
  <2>4. PartsOK(r)
    BY <2>3 DEF Unopened, PartsOK
  <2>5. r \in Plan /\ r.phase \in Active /\ PhaseOK(r, a)
    BY <2>3 DEF Unopened, PhaseOK, Active
  <2>6. World(r, J, a, sh)
    BY <1>1, <2>3, <2>4, <2>5, IdleJobOK DEF Unopened, World
  <2> QED BY <2>1, <2>5, <2>6
<1> QED BY <1>2, <1>3
(* A tranche whose record and orders are as they were                      *)
LEMMA ApartTranche ==
  ASSUME NEW q \in Plan, NEW r \in Plan, NEW a \in [Keys -> Order], NEW b \in [Keys -> Order], NEW t \in Tranches,
         NEW j, TrancheOK(q, a, t), JobOK(q, j, a, t), r.tr[t] = q.tr[t],
         \A k \in SoldBy(t) : r.ord[k] = q.ord[k] /\ b[k] = a[k], q.phase \in Active => r.phase \in Active
  PROVE  TrancheOK(r, b, t) /\ JobOK(r, j, b, t) /\ Sold(r, b, t) = Sold(q, a, t)
<1>1. Cur(r, t) = Cur(q, t) /\ Cur(q, t) \in SoldBy(t)
  BY CurFacts DEF Cur
<1>2. Oco(t) \in SoldBy(t) /\ \A i \in 1 .. MaxCloses : Close(t, i) \in SoldBy(t)
  BY KeyFacts
<1>3. r.ord[Cur(q, t)] = q.ord[Cur(q, t)] /\ r.ord[Oco(t)] = q.ord[Oco(t)]
      /\ b[Cur(q, t)] = a[Cur(q, t)] /\ b[Oco(t)] = a[Oco(t)]
      /\ \A i \in 1 .. MaxCloses : r.ord[Close(t, i)] = q.ord[Close(t, i)] /\ b[Close(t, i)] = a[Close(t, i)]
  BY <1>1, <1>2
<1>4. Sold(r, b, t) = Sold(q, a, t)
  BY <1>1, <1>3 DEF Sold
<1>5. TrancheOK(r, b, t)
  BY <1>1, <1>3, <1>4 DEF TrancheOK, Untouched, Settled, RecOK, Over, Ahead
<1>6. JobOK(r, j, b, t)
  BY <1>1, <1>3 DEF JobOK
<1> QED BY <1>4, <1>5, <1>6

(* the entry as an answer shows it                                         *)
EntryRowOK(row, a) == row.f <= a[Entry].filled /\ (row.final => Over(a, Entry) /\ row.f = a[Entry].filled)

LEMMA EntryBooked ==
  ASSUME NEW w, NEW a \in [Keys -> Order], NEW sh, WOK(w, a, sh), w.p.phase \in Active, NEW row \in Row,
         EntryRowOK(row, a), Fits(w, Entry, row, Ordered), w.jobs[0] = NoJob, NEW b, b = Booked(w, Entry, row, Ordered)
  PROVE  b \in Works /\ Unopened([b.p EXCEPT !.final = row.final], b.jobs, a, sh)
<1>1. w \in Works /\ w.p \in Plan /\ World(w.p, w.jobs, a, sh) /\ Entry \in Keys /\ Ordered \in Int
      /\ w.jobs \in [{0} \cup Tranches -> Job]
  BY KeyFacts, TriAssumption DEF WOK, Works
<1>2. /\ b \in Works /\ b.jobs = w.jobs /\ b.p \in Plan /\ BookedAs(b.p, w.p, Entry, row)
      /\ w.p.ord[Entry].booked <= row.f
  BY <1>1, BookedShape
<1>3. PICK e \in BOOLEAN :
        b.p = [w.p EXCEPT !.ord = [w.p.ord EXCEPT ![Entry] = [booked |-> row.f, seen |-> e, final |-> row.final]]]
  BY <1>2 DEF BookedAs
<1>4. w.p.ord \in [Keys -> Rec]
  BY <1>1 DEF Plan
<1>5. /\ b.p.tr = w.p.tr /\ b.p.phase = w.p.phase
      /\ b.p.ord[Entry].booked = row.f /\ b.p.ord[Entry].final = row.final
      /\ \A k \in Keys \ {Entry} : b.p.ord[k] = w.p.ord[k]
  BY <1>1, <1>3, <1>4 DEF Plan
<1> DEFINE r == [b.p EXCEPT !.final = row.final]
<1>6. r \in Plan /\ r.tr = b.p.tr /\ r.phase = b.p.phase /\ r.ord = b.p.ord /\ r.final = row.final
  BY <1>2 DEF Plan, Row
<1> HIDE DEF r
<1>7. \A t \in Tranches : TrancheOK(r, a, t) /\ JobOK(r, w.jobs[t], a, t) /\ Sold(r, a, t) = Sold(w.p, a, t)
  <2> TAKE t \in Tranches
  <2>1. TrancheOK(w.p, a, t) /\ JobOK(w.p, w.jobs[t], a, t)
    BY <1>1 DEF World
  <2>2. r.tr[t] = w.p.tr[t] /\ r.phase = w.p.phase /\ \A k \in SoldBy(t) : r.ord[k] = w.p.ord[k] /\ a[k] = a[k]
    BY <1>5, <1>6, KeyFacts
  <2> QED BY <1>1, <1>6, <2>1, <2>2, ApartTranche
<1>8. Opened(r) = Opened(w.p) /\ Given(r) = Given(w.p)
  BY <1>5, <1>6, SameOpened
<1>9. Given(r) <= Filled(r)
  <2>1. Given(w.p) <= w.p.ord[Entry].booked
    BY <1>1 DEF World, PartsOK, Filled
  <2>2. Given(w.p) \in Nat /\ w.p.ord[Entry].booked \in Int /\ row.f \in Int
    <3>1. Given(w.p) \in Nat
      BY <1>1, GivenFacts
    <3> QED BY <1>1, <1>4, <3>1, TriAssumption DEF Rec, Qty, Row
  <2> QED BY <1>2, <1>5, <1>6, <1>8, <2>1, <2>2 DEF Filled
<1>10. EntryOK(r, a)
  BY <1>5, <1>6 DEF EntryOK, EntryRowOK, Settled
<1>11. SharesOK(r, a, sh)
  BY <1>1, <1>7, SameShares DEF World
<1>12. \E m \in 0 .. Ordered : Opened(r) = 1 .. m /\ m <= Given(r)
  BY <1>1, <1>8 DEF World, PartsOK
<1>13. \A k \in Keys : OrderOK(a[k])
  BY <1>1 DEF World
<1>14. r.phase \in Active
  BY <1>5, <1>6
<1>15. Unopened(r, w.jobs, a, sh)
  BY <1>1, <1>6, <1>7, <1>9, <1>10, <1>11, <1>12, <1>13, <1>14 DEF Unopened
<1> QED BY <1>2, <1>15 DEF r

(* A request of the entry is over, another one is made.                     *)
LEMMA EntryPut ==
  ASSUME NEW w, NEW z \in Works, NEW a \in [Keys -> Order], NEW sh, WOK(w, a, sh), z.p = w.p, NEW j \in Job,
         z.jobs = [w.jobs EXCEPT ![0] = j], EntryJobOK(w.p, j, a)
  PROVE  WOK(z, a, sh)
<1>1. w \in Works /\ w.jobs \in [{0} \cup Tranches -> Job]
  BY DEF WOK, Works
<1>2. z.jobs[0] = j /\ \A t \in Tranches : z.jobs[t] = w.jobs[t]
  BY <1>1, TrancheFacts
<1> QED BY <1>2 DEF WOK, World

LEMMA EntryPollOK ==
  ASSUME NEW w, NEW a \in [Keys -> Order], NEW sh, WOK(w, a, sh), w.p.phase \in Active, NEW risky \in BOOLEAN
  PROVE  WOK(EntryPoll(w, risky), a, sh)
<1> DEFINE j == w.jobs[0]  row == EntryAnswer(j.row)  i == Idle(w, 0)  b == Booked(i, Entry, row, Ordered)
<1>1. w \in Works /\ w.p \in Plan /\ w.jobs \in [{0} \cup Tranches -> Job] /\ j \in Job /\ 0 \in {0} \cup Tranches
  BY DEF WOK, Works
<1>2. j.row \in Row /\ EntryJobOK(w.p, j, a) /\ w.p.final \in BOOLEAN /\ OrderOK(a[Entry])
  BY <1>1, KeyFacts DEF Job, WOK, World, Plan
<1>3. /\ row \in Row /\ row.f = j.row.f /\ row.why = j.row.why
      /\ row.final = IF j.row.why = "hard" THEN TRUE ELSE j.row.final
  BY <1>2 DEF EntryAnswer, Row
<1>4. i \in Works /\ i.p = w.p /\ i.jobs = [w.jobs EXCEPT ![0] = NoJob] /\ i.failed = w.failed /\ i.refused = w.refused
  BY <1>1, IdleShape
<1>5. WOK(i, a, sh) /\ i.jobs[0] = NoJob
  BY <1>1, <1>4, EntryPut, IdleJobOK, JobTypes
<1>6. CASE ~w.p.final /\ j.at = "idle"
  <2> DEFINE new == [NoJob EXCEPT !.leave = CancelEntry(w.p), !.qty = Ordered]
             ask == [new EXCEPT !.at = "ask"]
  <2>1. EntryPoll(w, risky) = Asked(w, 0, new)
    BY <1>6 DEF EntryPoll
  <2>2. CancelEntry(w.p) \in BOOLEAN
    BY DEF CancelEntry
  <2>3. new \in Job /\ new.key = Entry /\ new.qty = Ordered
    <3>1. NoJob \in Job /\ NoJob.key = Entry /\ Ordered \in Qty
      BY JobTypes DEF NoJob
    <3> HIDE DEF NoJob
    <3> QED BY <2>2, <3>1 DEF Job
  <2> HIDE DEF new
  <2>4. ask \in Job /\ ask.at = "ask" /\ ask.key = Entry /\ ask.qty = Ordered
    BY <2>3 DEF Job
  <2>5. Asked(w, 0, new) \in Works /\ Asked(w, 0, new).p = w.p /\ Asked(w, 0, new).jobs = [w.jobs EXCEPT ![0] = ask]
    BY <1>1, <2>3, AskedShape
  <2> HIDE DEF ask
  <2>6. EntryJobOK(w.p, ask, a)
    BY <1>6, <2>4 DEF EntryJobOK
  <2>7. WOK(Asked(w, 0, new), a, sh)
    BY <2>4, <2>5, <2>6, EntryPut
  <2> QED BY <2>1, <2>7
<1>7. CASE ~w.p.final /\ j.at = "done" /\ ~row.final /\ row.why # "row"
  <2> DEFINE f == row.why = "error"
  <2>1. EntryPoll(w, risky) = [i EXCEPT !.failed = f]
    <3>1. ~(~w.p.final /\ j.at = "idle")
      BY <1>7
    <3> HIDE DEF i, row, b
    <3> QED BY <1>7, <3>1, Zenon DEF EntryPoll, i, row, b
  <2>2. f \in BOOLEAN
    OBVIOUS
  <2> HIDE DEF f, i
  <2>3. [i EXCEPT !.failed = f] \in Works /\ [i EXCEPT !.failed = f].p = i.p /\ [i EXCEPT !.failed = f].jobs = i.jobs
    BY <1>4, <2>2 DEF Works
  <2> QED BY <1>5, <2>1, <2>3 DEF WOK
<1>8. CASE ~w.p.final /\ j.at = "done" /\ (row.final \/ row.why = "row")
  <2>1. CASE ~Fits(w, Entry, row, Ordered)
    <3>1. EntryPoll(w, risky) = b
      BY <1>8, <2>1 DEF EntryPoll
    <3>2. ~Fits(i, Entry, row, Ordered)
      BY <1>4, <2>1 DEF Fits
    <3>3. b = Bad(i)
      BY <3>2 DEF Booked
    <3>4. WOK(Bad(i), a, sh)
      BY <1>5, TrancheFacts, BadOK
    <3> QED BY <3>1, <3>3, <3>4
  <2>2. CASE Fits(w, Entry, row, Ordered)
    <3> DEFINE x == [b.p EXCEPT !.final = row.final]
    <3>1. EntryPoll(w, risky) = [b EXCEPT !.p = EntrySeen(x, risky)]
      BY <1>8, <2>2 DEF EntryPoll
    <3>2. Fits(i, Entry, row, Ordered) /\ i.p.phase \in Active
      BY <1>4, <2>2 DEF Fits
    <3>3. EntryRowOK(row, a)
      <4>1. CASE j.row.why = "hard"
        BY <1>2, <1>3, <1>8, <4>1 DEF EntryJobOK, EntryRowOK, OrderOK, Over
      <4>2. CASE j.row.why # "hard"
        BY <1>2, <1>3, <1>8, <4>2 DEF EntryJobOK, EntryRowOK
      <4> QED BY <4>1, <4>2
    <3>4. row \in Row /\ b = Booked(i, Entry, row, Ordered)
      BY <1>3
    <3> HIDE DEF i, row, b
    <3>5. b \in Works /\ Unopened(x, b.jobs, a, sh)
      BY <1>5, <3>2, <3>3, <3>4, EntryBooked
    <3> HIDE DEF x
    <3> DEFINE y == EntrySeen(x, risky)
    <3>6. y \in Plan /\ World(y, b.jobs, a, sh) /\ y.phase \in Active \cup {"SKIPPED"}
      BY <3>5, EntrySeenOK
    <3> HIDE DEF y
    <3>7. [b EXCEPT !.p = y] \in Works /\ [b EXCEPT !.p = y].p = y /\ [b EXCEPT !.p = y].jobs = b.jobs
      BY <3>5, <3>6 DEF Works
    <3>8. WOK([b EXCEPT !.p = y], a, sh)
      BY <3>6, <3>7 DEF WOK
    <3> QED BY <3>1, <3>8 DEF y
  <2> QED BY <2>1, <2>2
<1>9. CASE w.p.final \/ j.at \notin {"idle", "done"}
  <2>1. EntryPoll(w, risky) = w
    BY <1>9 DEF EntryPoll
  <2> QED BY <2>1
<1> QED BY <1>6, <1>7, <1>8, <1>9

-----------------------------------------------------------------------------
(* A tick                                                                  *)

LEMMA CompleteOK ==
  ASSUME NEW w, NEW a \in [Keys -> Order], NEW sh, WOK(w, a, sh)
  PROVE  Complete(w.p) \in Plan /\ World(Complete(w.p), w.jobs, a, sh)
<1> DEFINE q == w.p  r == [q EXCEPT !.phase = "CLOSED"]
<1>1. q \in Plan /\ World(q, w.jobs, a, sh) /\ w.jobs \in [{0} \cup Tranches -> Job]
  BY DEF WOK, Works
<1>2. CASE q.phase \in Active /\ q.final /\ Opened(q) # {}
             /\ \A t \in Opened(q) : q.tr[t].closed = q.tr[t].qty /\ q.tr[t].final
  <2>1. Complete(q) = r
    BY <1>2 DEF Complete
  <2>2. r \in Plan /\ r.phase = "CLOSED" /\ r.tr = q.tr /\ r.ord = q.ord /\ r.final = q.final
    BY <1>1 DEF Plan
  <2> HIDE DEF r
  <2>3. Alike(q, r)
    BY <2>2 DEF Alike
  <2>4. \A t \in Tranches : TrancheOK(q, a, t) /\ JobOK(q, w.jobs[t], a, t)
    BY <1>1 DEF World
  <2>5. \A t \in Tranches : TrancheOK(r, a, t) /\ Sold(r, a, t) = Sold(q, a, t)
    BY <1>1, <2>2, <2>3, <2>4, AlikeTranche
  <2>6. \A t \in Tranches : w.jobs[t].at = "idle"
    <3> TAKE t \in Tranches
    <3> SUFFICES ASSUME w.jobs[t].at # "idle" PROVE FALSE
      OBVIOUS
    <3>1. q.tr[t].qty > 0 /\ (q.tr[t].final => Left(q.tr[t]) > 0)
      BY <2>4 DEF JobOK
    <3>2. t \in Opened(q)
      BY <3>1 DEF Opened
    <3>3. q.tr[t].closed = q.tr[t].qty /\ q.tr[t].final /\ q.tr[t].qty \in Nat
      BY <1>1, <1>2, <3>2, GivenFacts
    <3> QED BY <3>1, <3>3 DEF Left
  <2>7. \A t \in Tranches : JobOK(r, w.jobs[t], a, t)
    BY <2>6 DEF JobOK
  <2>8. w.jobs[0].at = "idle"
    BY <1>1, <1>2 DEF World, EntryJobOK
  <2>9. EntryJobOK(r, w.jobs[0], a)
    BY <2>8 DEF EntryJobOK
  <2>10. Opened(r) = Opened(q) /\ Given(r) = Given(q) /\ Filled(r) = Filled(q)
    BY <2>2, <2>3, SameOpened DEF Alike, Filled
  <2>11. EntryOK(r, a) /\ PartsOK(r)
    BY <1>1, <2>2, <2>10 DEF World, EntryOK, Settled, PartsOK
  <2>12. Ended(r)
    BY <1>2, <2>2, <2>10 DEF Ended
  <2>13. PhaseOK(r, a)
    BY <2>2, <2>12 DEF PhaseOK
  <2>14. SharesOK(r, a, sh)
    BY <1>1, <2>5, SameShares DEF World
  <2>15. World(r, w.jobs, a, sh)
    BY <1>1, <2>5, <2>7, <2>9, <2>11, <2>13, <2>14 DEF World
  <2> QED BY <2>1, <2>2, <2>15
<1>3. CASE ~(q.phase \in Active /\ q.final /\ Opened(q) # {}
              /\ \A t \in Opened(q) : q.tr[t].closed = q.tr[t].qty /\ q.tr[t].final)
  <2>1. Complete(q) = q
    BY <1>3 DEF Complete
  <2> QED BY <1>1, <2>1
<1> QED BY <1>2, <1>3

(* the tick goes through the tranches in their order                       *)
TickStep(S, t) == {Closed(x, t) : x \in {Protected(y, t) : y \in {Due(w, t) : w \in S}}}
TickRun(m, B, k) == m = [t \in 0 .. k |-> IF t = 0 THEN B ELSE TickStep(m[t - 1], t)]

LEMMA UpToSubset == ASSUME NEW C \in SUBSET Nat, C # {}
                    PROVE  \E k \in C : \A l \in C : k <= l
<1>1. PICK n \in C : TRUE
  OBVIOUS
<1> DEFINE S == 1 .. n
           D == {1 .. k : k \in C \cap (0 .. n)}
<1>2. n \in Nat /\ 1 .. n \in D
  OBVIOUS
<1>3. IsFiniteSet(S)
  BY <1>2, FS_Interval
<1>4. D \in SUBSET SUBSET S
  BY <1>2
<1>5. D # {}
  BY <1>2
<1> HIDE DEF D, S
<1>6. PICK M \in D : \A y \in D : y \subseteq M => y = M
  BY <1>3, <1>4, <1>5, MinSubset
<1>7. PICK k \in C \cap (0 .. n) : M = 1 .. k
  BY <1>6 DEF D
<1>8. \A l \in C : k <= l
  <2> TAKE l \in C
  <2> SUFFICES ASSUME l < k PROVE FALSE
    BY <1>7
  <2>1. 1 .. l \in D
    BY <1>2, <1>7 DEF D
  <2>2. 1 .. l \subseteq 1 .. k /\ k \in 1 .. k /\ k \notin 1 .. l
    BY <1>7
  <2> QED BY <1>6, <1>7, <2>1, <2>2
<1> QED BY <1>7, <1>8

LEMMA TickRuns ==
  ASSUME NEW B, NEW n \in Nat
  PROVE  \E m : TickRun(m, B, n)
<1> DEFINE C == {k \in Nat : ~ \E m : TickRun(m, B, k)}
<1> SUFFICES ASSUME C # {} PROVE FALSE
  OBVIOUS
<1>1. PICK k \in C : \A l \in C : k <= l
  <2>1. C \in SUBSET Nat
    OBVIOUS
  <2> HIDE DEF C
  <2> QED BY <2>1, UpToSubset
<1>2. k \in Nat /\ ~ \E m : TickRun(m, B, k)
  OBVIOUS
<1>3. CASE k = 0
  <2> DEFINE m == [t \in 0 .. 0 |-> B]
  <2>1. TickRun(m, B, 0)
    BY DEF TickRun
  <2> QED BY <1>2, <1>3, <2>1
<1>4. CASE k > 0
  <2>1. k - 1 \in Nat /\ k - 1 \notin C
    BY <1>1, <1>2, <1>4
  <2>2. PICK g : TickRun(g, B, k - 1)
    BY <2>1
  <2> DEFINE m == [t \in 0 .. k |-> IF t = k THEN TickStep(g[k - 1], k) ELSE g[t]]
  <2>3. \A t \in 0 .. k - 1 : m[t] = g[t] /\ g[t] = IF t = 0 THEN B ELSE TickStep(g[t - 1], t)
    BY <1>2, <1>4, <2>1, <2>2 DEF TickRun
  <2>4. \A t \in 0 .. k : m[t] = IF t = 0 THEN B ELSE TickStep(m[t - 1], t)
    <3> TAKE t \in 0 .. k
    <3>1. CASE t = k
      <4>1. m[t] = TickStep(g[k - 1], k) /\ t # 0
        BY <1>2, <1>4, <3>1
      <4>2. m[k - 1] = g[k - 1]
        BY <1>2, <1>4, <2>3
      <4> QED BY <3>1, <4>1, <4>2
    <3>2. CASE t = 0
      <4>1. t \in 0 .. k - 1
        BY <1>2, <1>4, <3>2
      <4> HIDE DEF m
      <4> QED BY <2>3, <3>2, <4>1
    <3>3. CASE t # k /\ t # 0
      <4>1. t \in 0 .. k - 1 /\ t - 1 \in 0 .. k - 1
        BY <1>2, <3>3
      <4> HIDE DEF m
      <4> QED BY <2>3, <3>3, <4>1
    <3> QED BY <3>1, <3>2, <3>3
  <2>5. m = [t \in 0 .. k |-> IF t = 0 THEN B ELSE TickStep(m[t - 1], t)]
    <3>1. m = [t \in 0 .. k |-> m[t]]
      OBVIOUS
    <3> HIDE DEF m
    <3> QED BY <2>4, <3>1
  <2> HIDE DEF m
  <2>6. TickRun(m, B, k)
    BY <2>5 DEF TickRun
  <2> QED BY <1>2, <2>6
<1> QED BY <1>2, <1>3, <1>4

(* what the tick begins with                                               *)
Begun(q) == [p |-> q, jobs |-> jobs, failed |-> FALSE, refused |-> {}]

LEMMA TickedIs ==
  ASSUME NEW q, NEW risky
  PROVE  \E m : /\ TickRun(m, {EntryPoll(w, risky) : w \in {Begun(q)}}, Ordered)
                /\ Ticked(q, risky) = {IF w.failed THEN w ELSE [w EXCEPT !.p = Complete(w.p)] : w \in m[Ordered]}
<1> DEFINE B == {EntryPoll(w, risky) : w \in {Begun(q)}}
           m == CHOOSE m : TickRun(m, B, Ordered)
<1>1. TickRun(m, B, Ordered)
  <2>1. \E f : TickRun(f, B, Ordered)
    BY TickRuns, TriAssumption
  <2> QED BY <2>1
<1>2. Ticked(q, risky) = {IF w.failed THEN w ELSE [w EXCEPT !.p = Complete(w.p)] : w \in m[Ordered]}
  BY DEF Ticked, TickRun, TickStep, Begun
<1> HIDE DEF m
<1> QED BY <1>1, <1>2

LEMMA TickedOK ==
  ASSUME NEW q \in Plan, NEW a \in [Keys -> Order], NEW sh, jobs \in [{0} \cup Tranches -> Job],
         World(q, jobs, a, sh), q.phase \in Active, NEW risky \in BOOLEAN, NEW z \in Ticked(q, risky)
  PROVE  z.p \in Plan /\ z.jobs \in [{0} \cup Tranches -> Job] /\ World(z.p, z.jobs, a, sh)
<1> DEFINE B == {EntryPoll(w, risky) : w \in {Begun(q)}}
<1>1. WOK(Begun(q), a, sh) /\ Begun(q).p = q
  <2>1. Begun(q) \in Works /\ Begun(q).p = q /\ Begun(q).jobs = jobs
    BY DEF Begun, Works
  <2> QED BY <2>1 DEF WOK
<1>2. \A w \in B : WOK(w, a, sh)
  <2>1. WOK(EntryPoll(Begun(q), risky), a, sh)
    BY <1>1, EntryPollOK
  <2> QED BY <2>1
<1> HIDE DEF B
<1>3. PICK m : TickRun(m, B, Ordered)
               /\ Ticked(q, risky) = {IF w.failed THEN w ELSE [w EXCEPT !.p = Complete(w.p)] : w \in m[Ordered]}
  BY TickedIs DEF B
<1>4. \A t \in 0 .. Ordered : m[t] = IF t = 0 THEN B ELSE TickStep(m[t - 1], t)
  BY <1>3 DEF TickRun
<1>5. \A t \in 0 .. Ordered : \A w \in m[t] : WOK(w, a, sh)
  <2> DEFINE C == {t \in 0 .. Ordered : ~ \A w \in m[t] : WOK(w, a, sh)}
  <2> SUFFICES ASSUME C # {} PROVE FALSE
    OBVIOUS
  <2>1. PICK k \in C : \A l \in C : k <= l
    <3>1. C \in SUBSET Nat
      BY TriAssumption
    <3> HIDE DEF C
    <3> QED BY <3>1, UpToSubset
  <2>2. k \in 0 .. Ordered /\ ~ \A w \in m[k] : WOK(w, a, sh)
    OBVIOUS
  <2>3. k # 0
    BY <1>2, <1>4, <2>2
  <2>4. k \in Tranches /\ k - 1 \in 0 .. Ordered /\ k - 1 \notin C
    BY <2>1, <2>2, <2>3, TriAssumption DEF Tranches
  <2>5. \A w \in m[k - 1] : WOK(w, a, sh)
    BY <2>4
  <2>6. m[k] = TickStep(m[k - 1], k)
    BY <1>4, <2>2, <2>3
  <2> HIDE DEF C
  <2>7. \A w \in TickStep(m[k - 1], k) : WOK(w, a, sh)
    <3> TAKE w \in TickStep(m[k - 1], k)
    <3>1. PICK v \in m[k - 1] : w = Closed(Protected(Due(v, k), k), k)
      BY DEF TickStep
    <3>2. WOK(Due(v, k), a, sh)
      BY <2>4, <2>5, DueOK
    <3>3. WOK(Protected(Due(v, k), k), a, sh)
      BY <2>4, <3>2, ProtectedOK
    <3>4. WOK(Closed(Protected(Due(v, k), k), k), a, sh)
      BY <2>4, <3>3, ClosedOK
    <3> QED BY <3>1, <3>4
  <2> QED BY <2>2, <2>6, <2>7
<1>6. PICK w \in m[Ordered] : z = IF w.failed THEN w ELSE [w EXCEPT !.p = Complete(w.p)]
  BY <1>3
<1>7. WOK(w, a, sh) /\ w \in Works
  BY <1>5, <1>6, TriAssumption DEF WOK
<1>8. Complete(w.p) \in Plan /\ World(Complete(w.p), w.jobs, a, sh)
  BY <1>7, CompleteOK
<1>9. CASE w.failed
  BY <1>6, <1>7, <1>9 DEF WOK, Works
<1>10. CASE ~w.failed
  <2>1. z = [w EXCEPT !.p = Complete(w.p)]
    BY <1>6, <1>10
  <2>2. z.p = Complete(w.p) /\ z.jobs = w.jobs /\ w.jobs \in [{0} \cup Tranches -> Job]
    BY <1>7, <2>1 DEF Works
  <2> QED BY <1>8, <2>2
<1> QED BY <1>9, <1>10

-----------------------------------------------------------------------------
(* Alpaca                                                                  *)

(* what an order may become while nobody places it                         *)
Became(o, n) ==
  \/ n = o
  \/ /\ o.st \in {"open", "wire"} /\ n.qty = o.qty /\ o.filled <= n.filled /\ OrderOK(n)
     /\ o.st = "open" => n.st \in {"open", "final"}
     /\ o.st = "wire" => n.st \in {"open", "gone"} /\ n.filled = 0

LEMMA TrancheMoved ==
  ASSUME NEW q \in Plan, NEW a \in [Keys -> Order], NEW b \in [Keys -> Order], NEW t \in Tranches,
         NEW j \in Job, TrancheOK(q, a, t), JobOK(q, j, a, t), \A k \in Keys : OrderOK(a[k]) /\ Became(a[k], b[k])
  PROVE  TrancheOK(q, b, t) /\ JobOK(q, j, b, t)
<1> DEFINE k == Cur(q, t)
<1>1. k \in Keys /\ k \in SoldBy(t) /\ q.tr[t] \in Tranche /\ q.ord[k] \in Rec
  BY CurFacts DEF Plan
<1>2. \A l \in Keys : Over(a, l) => b[l] = a[l]
  BY DEF Over, Became
<1>3. Oco(t) \in Keys /\ \A i \in 1 .. MaxCloses : Close(t, i) \in Keys
  BY KeyFacts
<1>4. \A l \in Keys : Settled(q, a, l) => Settled(q, b, l)
  BY <1>2 DEF Settled, Over
<1>5. \A l \in Keys : Untouched(q, a, l) => Untouched(q, b, l)
  BY <1>2 DEF Untouched, Over
<1>6. \A l \in SoldBy(t) : RecOK(q, b, l)
  <2> TAKE l \in SoldBy(t)
  <2>1. RecOK(q, a, l) /\ l \in Keys /\ Became(a[l], b[l])
    BY KeyFacts DEF TrancheOK
  <2>2. CASE b[l] = a[l]
    BY <2>1, <2>2 DEF RecOK
  <2>3. CASE b[l] # a[l]
    <3>1. a[l].filled <= b[l].filled /\ ~q.ord[l].final
      BY <2>1, <2>3 DEF Became, RecOK
    <3>2. a[l].filled \in Nat /\ b[l].filled \in Nat /\ q.ord[l].booked \in Nat
      BY <2>1, TriAssumption DEF Order, Qty, Plan, Rec
    <3> QED BY <2>1, <3>1, <3>2 DEF RecOK
  <2> QED BY <2>2, <2>3
<1>7. q.tr[t].bound => b[Oco(t)].st \in {"open", "final"}
  BY <1>3 DEF TrancheOK, Became
<1>8. Sold(q, b, t) + Ahead(b, k) <= q.tr[t].qty
  <2>1. Sold(q, a, t) + Ahead(a, k) <= q.tr[t].qty
    BY DEF TrancheOK
  <2>2. Sold(q, a, t) = q.tr[t].closed + a[k].filled - q.ord[k].booked
        /\ Sold(q, b, t) = q.tr[t].closed + b[k].filled - q.ord[k].booked
    BY DEF Sold
  <2>3. q.tr[t].closed \in Nat /\ q.ord[k].booked \in Nat /\ q.tr[t].qty \in Nat /\ a[k].filled \in Nat /\ a[k].qty \in Nat
        /\ b[k].filled \in Nat /\ b[k].qty \in Nat
    BY <1>1, TriAssumption DEF Tranche, Rec, Order, Qty
  <2>4. Became(a[k], b[k])
    BY <1>1
  <2> HIDE DEF k
  <2>5. CASE b[k] = a[k]
    BY <2>1, <2>2, <2>5 DEF Ahead, Over
  <2>6. CASE b[k] # a[k]
    <3>1. a[k].st \in {"open", "wire"} /\ b[k].qty = a[k].qty /\ b[k].filled <= b[k].qty
      BY <2>4, <2>6 DEF Became, OrderOK
    <3>2. Ahead(a, k) = a[k].qty - a[k].filled
      BY <3>1 DEF Ahead, Over
    <3>3. Ahead(b, k) = 0 \/ Ahead(b, k) = b[k].qty - b[k].filled
      BY DEF Ahead
    <3> QED BY <2>1, <2>2, <2>3, <3>1, <3>2, <3>3
  <2> QED BY <2>5, <2>6
<1>9. TrancheOK(q, b, t)
  BY <1>3, <1>4, <1>5, <1>6, <1>7, <1>8 DEF TrancheOK
<1>10. JobOK(q, j, b, t)
  <2> SUFFICES ASSUME j.at # "idle" PROVE JobOK(q, j, b, t)
    BY DEF JobOK
  <2>1. j.key = k
    BY DEF JobOK
  <2>2. Became(a[k], b[k])
    BY <1>1
  <2> HIDE DEF k
  <2>3. CASE b[k] = a[k]
    BY <2>1, <2>3 DEF JobOK, k
  <2>4. CASE b[k] # a[k]
    <3>1. a[k].st \in {"open", "wire"} /\ a[k].filled <= b[k].filled /\ (a[k].st = "open" => b[k].st \in {"open", "final"})
      BY <2>2, <2>4 DEF Became
    <3>2. j.at # "post" /\ ~(j.at = "done" /\ j.row.why \in {"none", "hard"} /\ ~q.tr[t].final)
      BY <2>1, <3>1 DEF JobOK
    <3>3. j.at = "done" /\ j.row.why = "row" => ~j.row.final /\ b[k].st \in {"open", "final"} /\ j.row.f <= a[k].filled
      BY <2>1, <3>1 DEF JobOK
    <3>4. j.at = "done" /\ j.row.why = "row" => j.row.f <= b[k].filled
      <4>1. b[k].st \in {"open", "final"} /\ j.row.f <= a[k].filled => j.row.f <= b[k].filled
        <5>1. j.row.f \in Nat /\ a[k].filled \in Nat /\ b[k].filled \in Nat
          BY <1>1, TriAssumption DEF Job, Row, Order, Qty, k
        <5> QED BY <3>1, <5>1
      <4> QED BY <3>3, <4>1
    <3> QED BY <2>1, <3>2, <3>3, <3>4 DEF JobOK, k
  <2> QED BY <2>3, <2>4
<1> QED BY <1>9, <1>10

(* Orders live on, while the plan stays as it is.                          *)
LEMMA MovesOK ==
  ASSUME NEW q \in Plan, NEW a \in [Keys -> Order], NEW b \in [Keys -> Order], NEW J \in [{0} \cup Tranches -> Job],
         NEW sh, NEW sh2, World(q, J, a, sh), \A k \in Keys : Became(a[k], b[k]), SharesOK(q, b, sh2)
  PROVE  World(q, J, b, sh2)
<1>1. \A k \in Keys : OrderOK(a[k]) /\ Became(a[k], b[k])
  BY DEF World
<1>2. \A t \in Tranches : TrancheOK(q, b, t) /\ JobOK(q, J[t], b, t)
  <2> TAKE t \in Tranches
  <2>1. TrancheOK(q, a, t) /\ JobOK(q, J[t], a, t) /\ J[t] \in Job
    BY DEF World
  <2> QED BY <1>1, <2>1, TrancheMoved
<1>3. \A k \in Keys : OrderOK(b[k])
  BY <1>1 DEF Became
<1>4. Entry \in Keys /\ Became(a[Entry], b[Entry]) /\ EntryOK(q, a) /\ PhaseOK(q, a) /\ EntryJobOK(q, J[0], a) /\ PartsOK(q)
  BY <1>1, KeyFacts DEF World
<1>5. EntryOK(q, b) /\ PhaseOK(q, b) /\ EntryJobOK(q, J[0], b)
  <2>1. CASE b[Entry] = a[Entry]
    BY <1>4, <2>1 DEF EntryOK, Settled, Over, PhaseOK, EntryJobOK
  <2>2. CASE b[Entry] # a[Entry]
    <3>1. a[Entry].st \in {"open", "wire"} /\ a[Entry].filled <= b[Entry].filled
      BY <1>4, <2>2 DEF Became
    <3>2. ~Over(a, Entry)
      BY <3>1 DEF Over
    <3>3. a[Entry].filled \in Nat /\ b[Entry].filled \in Nat /\ q.ord[Entry].booked \in Nat
          /\ J[0].row.f \in Nat
      BY <1>4, TriAssumption DEF Order, Qty, Plan, Rec, Job, Row
    <3>4. EntryOK(q, b)
      BY <1>4, <3>1, <3>2, <3>3 DEF EntryOK, Settled
    <3>5. PhaseOK(q, b)
      BY <1>4, <3>2 DEF PhaseOK
    <3>6. EntryJobOK(q, J[0], b)
      <4> SUFFICES ASSUME J[0].at # "idle" PROVE EntryJobOK(q, J[0], b)
        BY DEF EntryJobOK
      <4>1. J[0].at # "post" /\ ~(J[0].at = "done" /\ J[0].row.why = "hard")
        BY <1>4, <3>1 DEF EntryJobOK
      <4>2. J[0].at = "done" /\ J[0].row.why = "row" => ~J[0].row.final /\ J[0].row.f <= a[Entry].filled
        BY <1>4, <3>2 DEF EntryJobOK
      <4>3. J[0].at = "done" /\ J[0].row.why = "row" => J[0].row.f <= b[Entry].filled
        BY <3>1, <3>3, <4>2
      <4> QED BY <1>4, <4>1, <4>2, <4>3 DEF EntryJobOK
    <3> QED BY <3>4, <3>5, <3>6
  <2> QED BY <2>1, <2>2
<1> QED BY <1>2, <1>3, <1>4, <1>5 DEF World

(* No order was filled.                                                    *)
LEMMA UnfilledMoves ==
  ASSUME NEW q \in Plan, NEW a \in [Keys -> Order], NEW b \in [Keys -> Order], NEW J \in [{0} \cup Tranches -> Job],
         NEW sh, World(q, J, a, sh), \A k \in Keys : Became(a[k], b[k]) /\ b[k].filled = a[k].filled
  PROVE  World(q, J, b, sh)
<1>1. \A t \in Tranches : Sold(q, b, t) = Sold(q, a, t)
  BY CurFacts DEF Sold
<1>2. SharesOK(q, b, sh)
  BY <1>1, KeyFacts, SameShares DEF World
<1> QED BY <1>2, MovesOK

(* A thread's answer                                                       *)
LEMMA JobPut ==
  ASSUME NEW q, NEW a, NEW J \in [{0} \cup Tranches -> Job], NEW sh, World(q, J, a, sh),
         NEW K, NEW i \in {0} \cup Tranches, NEW j, K = [J EXCEPT ![i] = j],
         i = 0 => EntryJobOK(q, j, a), i # 0 => JobOK(q, j, a, i)
  PROVE  World(q, K, a, sh)
<1>1. K[i] = j /\ \A u \in {0} \cup Tranches : u # i => K[u] = J[u]
  OBVIOUS
<1>2. \A t \in Tranches : JobOK(q, K[t], a, t)
  BY <1>1, TrancheFacts DEF World
<1>3. EntryJobOK(q, K[0], a)
  BY <1>1 DEF World
<1> QED BY <1>2, <1>3 DEF World

(* Alpaca never holds fewer than no shares, nor more than were ordered.     *)
LEMMA SharesBound ==
  ASSUME NEW q \in Plan, NEW a \in [Keys -> Order], NEW J, NEW sh, World(q, J, a, sh)
  PROVE  sh \in 0 .. Ordered
<1> DEFINE f == [t \in Tranches |-> Sold(q, a, t)]
           g == [t \in Tranches |-> q.tr[t].qty]
           z == [t \in Tranches |-> 0]
<1>1. \A t \in Tranches : Sold(q, a, t) \in Nat /\ Sold(q, a, t) <= q.tr[t].qty /\ q.tr[t].qty \in Nat
  <2> TAKE t \in Tranches
  <2>1. TrancheOK(q, a, t) /\ OrderOK(a[Cur(q, t)])
    BY CurFacts DEF World
  <2>2. q.tr[t].qty \in Nat
    BY GivenFacts
  <2> QED BY <2>1, <2>2, LeftFacts
<1>2. \A t \in Tranches : f[t] \in Int /\ g[t] \in Int /\ z[t] \in Int /\ z[t] = 0 /\ z[t] <= f[t] /\ f[t] <= g[t]
  BY <1>1
<1>3. Given(q) = Sum(g, Tranches) /\ Given(q) \in Nat
  BY GivenFacts
<1>4. sh = a[Entry].filled - Sum(f, Tranches)
  <2>1. sh = a[Entry].filled - SumFunction(f)
    BY DEF World, SharesOK
  <2>2. DOMAIN f = Tranches
    OBVIOUS
  <2> HIDE DEF f
  <2> QED BY <2>1, <2>2, SumFunctionIs
<1> HIDE DEF f, g, z
<1>5. Sum(f, Tranches) \in Int /\ Sum(z, Tranches) = 0 /\ Sum(z, Tranches) <= Sum(f, Tranches)
      /\ Sum(f, Tranches) <= Sum(g, Tranches)
  BY <1>2, TrancheFacts, SumType, SumZero, SumMonotone
<1>6. Given(q) <= Filled(q) /\ Filled(q) <= a[Entry].filled
  BY DEF World, PartsOK, EntryOK, Filled
<1>7. a[Entry].filled \in Nat /\ a[Entry].filled <= Ordered /\ Filled(q) \in Nat
  BY KeyFacts, TriAssumption DEF Order, Qty, Filled, Plan, Rec
<1> QED BY <1>3, <1>4, <1>5, <1>6, <1>7, TriAssumption

(* One order is filled.                                                    *)
LEMMA SaleFilled ==
  ASSUME NEW q \in Plan, NEW a \in [Keys -> Order], NEW b \in [Keys -> Order], NEW J \in [{0} \cup Tranches -> Job],
         NEW sh \in Int, World(q, J, a, sh), NEW t \in Tranches, NEW n \in Nat,
         b[Cur(q, t)].filled = a[Cur(q, t)].filled + n, \A k \in Keys : k # Cur(q, t) => b[k] = a[k]
  PROVE  SharesOK(q, b, sh - n)
<1> DEFINE f == [u \in Tranches |-> Sold(q, a, u)]
           g == [u \in Tranches |-> Sold(q, b, u)]
<1>1. \A u \in Tranches : Sold(q, a, u) \in Int
  <2> TAKE u \in Tranches
  <2>1. TrancheOK(q, a, u) /\ OrderOK(a[Cur(q, u)])
    BY CurFacts DEF World
  <2> QED BY <2>1, LeftFacts
<1>2. \A u \in Tranches : u # t => Sold(q, b, u) = Sold(q, a, u)
  <2> TAKE u \in Tranches
  <2> SUFFICES ASSUME u # t PROVE Sold(q, b, u) = Sold(q, a, u)
    OBVIOUS
  <2>1. Cur(q, u) \in SoldBy(u) /\ Cur(q, t) \in SoldBy(t) /\ Cur(q, u) \in Keys
    BY CurFacts
  <2>2. Cur(q, u) # Cur(q, t)
    BY <2>1, KeyFacts
  <2> QED BY <2>1, <2>2 DEF Sold
<1>3. Sold(q, b, t) = Sold(q, a, t) + n
  <2>1. a[Cur(q, t)].filled \in Int /\ q.ord[Cur(q, t)].booked \in Int /\ q.tr[t].closed \in Int
    BY CurFacts, TriAssumption DEF Order, Qty, Plan, Rec, Tranche
  <2> QED BY <2>1 DEF Sold
<1>4. \A u \in Tranches : f[u] \in Int /\ g[u] \in Int /\ (u # t => g[u] = f[u])
  BY <1>1, <1>2, <1>3
<1>5. g[t] - f[t] = n
  BY <1>1, <1>3
<1>6. SumFunction(f) = Sum(f, Tranches) /\ SumFunction(g) = Sum(g, Tranches)
  <2>1. DOMAIN f = Tranches /\ DOMAIN g = Tranches
    OBVIOUS
  <2> HIDE DEF f, g
  <2> QED BY <2>1, SumFunctionIs
<1>7. sh = a[Entry].filled - SumFunction(f)
  BY DEF World, SharesOK
<1>8. b[Entry].filled = a[Entry].filled /\ a[Entry].filled \in Int
  BY CurFacts, KeyFacts, TriAssumption DEF Order, Qty
<1>9. sh - n = b[Entry].filled - SumFunction(g)
  <2> HIDE DEF f, g
  <2>1. Sum(g, Tranches) = Sum(f, Tranches) + g[t] - f[t]
    <3>1. t \in Tranches /\ IsFiniteSet(Tranches)
      BY TrancheFacts
    <3> QED BY <1>4, <3>1, SumChange
  <2>2. Sum(f, Tranches) \in Int /\ g[t] \in Int /\ f[t] \in Int
    BY <1>4, TrancheFacts, SumType
  <2> QED BY <1>5, <1>6, <1>7, <1>8, <2>1, <2>2
<1> QED BY <1>9 DEF SharesOK

LEMMA EntryFilled ==
  ASSUME NEW q \in Plan, NEW a \in [Keys -> Order], NEW b \in [Keys -> Order], NEW J \in [{0} \cup Tranches -> Job],
         NEW sh \in Int, World(q, J, a, sh), NEW n \in Nat,
         b[Entry].filled = a[Entry].filled + n, \A k \in Keys : k # Entry => b[k] = a[k]
  PROVE  SharesOK(q, b, sh + n)
<1> DEFINE f == [u \in Tranches |-> Sold(q, a, u)]
           g == [u \in Tranches |-> Sold(q, b, u)]
<1>1. \A u \in Tranches : Sold(q, b, u) = Sold(q, a, u) /\ Sold(q, a, u) \in Int
  <2> TAKE u \in Tranches
  <2>1. TrancheOK(q, a, u) /\ OrderOK(a[Cur(q, u)]) /\ Cur(q, u) \in Keys /\ Cur(q, u) # Entry
    BY CurFacts DEF World
  <2>2. Sold(q, a, u) \in Int
    BY <2>1, LeftFacts
  <2> QED BY <2>1, <2>2 DEF Sold
<1>2. g = f
  BY <1>1
<1>3. sh = a[Entry].filled - SumFunction(f) /\ SumFunction(f) \in Int
  <2>1. sh = a[Entry].filled - SumFunction(f)
    BY DEF World, SharesOK
  <2>2. DOMAIN f = Tranches /\ \A u \in Tranches : f[u] \in Int
    BY <1>1
  <2> HIDE DEF f
  <2>3. SumFunction(f) = Sum(f, Tranches) /\ Sum(f, Tranches) \in Int
    BY <2>2, SumFunctionIs, SumType, TrancheFacts
  <2> QED BY <2>1, <2>3
<1>4. a[Entry].filled \in Int
  BY KeyFacts, TriAssumption DEF Order, Qty
<1>5. sh + n = b[Entry].filled - SumFunction(g)
  <2> HIDE DEF f, g
  <2> QED BY <1>2, <1>3, <1>4
<1> QED BY <1>5 DEF SharesOK

(* what a POST makes of an order                                           *)
Placed(a, b, k, n) ==
  /\ a[k].st \in {"none", "gone"} /\ b[k].st \in {"open", "wire"} /\ b[k].filled = 0 /\ b[k].qty = n
  /\ \A l \in Keys : l # k => b[l] = a[l]

LEMMA EntryPlaced ==
  ASSUME NEW q \in Plan, NEW a \in [Keys -> Order], NEW b \in [Keys -> Order], NEW J \in [{0} \cup Tranches -> Job],
         NEW sh, World(q, J, a, sh), J[0].at = "idle", q.phase \in Active, ~q.final, Placed(a, b, Entry, Ordered)
  PROVE  World(q, J, b, sh)
<1>1. Entry \in Keys /\ \A k \in Keys : OrderOK(a[k])
  BY KeyFacts DEF World
<1>2. a[Entry].filled = 0 /\ b[Entry].filled = 0
  BY <1>1 DEF Placed, OrderOK
<1>3. \A k \in Keys : OrderOK(b[k])
  <2> TAKE k \in Keys
  <2>1. CASE k = Entry
    BY <1>2, <2>1, TriAssumption DEF Placed, OrderOK
  <2>2. CASE k # Entry
    BY <1>1, <2>2 DEF Placed
  <2> QED BY <2>1, <2>2
<1>4. \A t \in Tranches : TrancheOK(q, b, t) /\ JobOK(q, J[t], b, t) /\ Sold(q, b, t) = Sold(q, a, t)
  <2> TAKE t \in Tranches
  <2>1. TrancheOK(q, a, t) /\ JobOK(q, J[t], a, t)
    BY DEF World
  <2>2. \A k \in SoldBy(t) : q.ord[k] = q.ord[k] /\ b[k] = a[k]
    BY KeyFacts DEF Placed
  <2> QED BY <2>1, <2>2, ApartTranche
<1>5. EntryOK(q, b)
  BY <1>2 DEF World, EntryOK
<1>6. PhaseOK(q, b)
  BY DEF PhaseOK, Active
<1>7. SharesOK(q, b, sh)
  BY <1>2, <1>4, SameShares DEF World
<1>8. EntryJobOK(q, J[0], b)
  BY DEF EntryJobOK
<1> QED BY <1>3, <1>4, <1>5, <1>6, <1>7, <1>8 DEF World

LEMMA SalePlaced ==
  ASSUME NEW q \in Plan, NEW a \in [Keys -> Order], NEW b \in [Keys -> Order], NEW J \in [{0} \cup Tranches -> Job],
         NEW sh, World(q, J, a, sh), NEW t \in Tranches, J[t].at = "idle", q.tr[t].qty > 0,
         q.tr[t].final => q.tr[t].n > 0, ~q.tr[t].final => ~q.tr[t].bound, ~q.ord[Cur(q, t)].final,
         NEW n \in Nat, n > 0, n = Left(q.tr[t]) + q.ord[Cur(q, t)].booked, Placed(a, b, Cur(q, t), n)
  PROVE  World(q, J, b, sh)
<1> DEFINE k == Cur(q, t)
<1>1. k \in Keys /\ k \in SoldBy(t) /\ k # Entry /\ (\A l \in Keys : OrderOK(a[l])) /\ TrancheOK(q, a, t)
      /\ q.tr[t] \in Tranche /\ q.tr[t].n \in 0 .. MaxCloses
  BY CurFacts DEF World
<1>2. q.ord[k].booked \in Nat /\ q.tr[t].closed \in Nat /\ q.tr[t].qty \in Nat
  BY <1>1, TriAssumption DEF Plan, Rec, Tranche, Qty
<1>3. a[k].filled = 0 /\ b[k].filled = 0 /\ b[k].qty = n /\ b[k].st \in {"open", "wire"}
      /\ \A l \in Keys : l # k => b[l] = a[l]
  BY <1>1 DEF Placed, OrderOK
<1>4. \A l \in Keys : OrderOK(b[l])
  <2> TAKE l \in Keys
  <2>1. CASE l = k
    BY <1>3, <2>1 DEF OrderOK
  <2>2. CASE l # k
    BY <1>1, <1>3, <2>2
  <2> QED BY <2>1, <2>2
<1>5. q.ord[k].booked = 0
  <2>1. RecOK(q, a, k)
    BY <1>1 DEF TrancheOK
  <2> QED BY <1>2, <1>3, <2>1 DEF RecOK
<1>6. Sold(q, b, t) = Sold(q, a, t) /\ Sold(q, b, t) = q.tr[t].closed
  BY <1>2, <1>3, <1>5 DEF Sold
<1>7. Ahead(b, k) = n
  BY <1>3 DEF Ahead, Over
<1>8. Sold(q, b, t) + Ahead(b, k) <= q.tr[t].qty
  BY <1>2, <1>5, <1>6, <1>7 DEF Left
<1>9. q.tr[t].n = 0 => k = Oco(t)
  BY CurFacts
<1>10. q.tr[t].n > 0 => k = Close(t, q.tr[t].n) /\ q.tr[t].n \in 1 .. MaxCloses
  BY CurFacts
<1>11. Oco(t) \in Keys /\ \A j \in 1 .. MaxCloses : Close(t, j) \in Keys /\ Close(t, j) # Oco(t)
  BY KeyFacts
<1>12. \A i, j \in 1 .. MaxCloses : Close(t, i) = Close(t, j) => i = j
  BY KeyFacts
<1> HIDE DEF k
<1>13. q.tr[t].n > 0 => b[Oco(t)] = a[Oco(t)]
  BY <1>3, <1>10, <1>11
<1>14. \A j \in 1 .. MaxCloses : j # q.tr[t].n => b[Close(t, j)] = a[Close(t, j)]
  <2> TAKE j \in 1 .. MaxCloses
  <2>1. j # q.tr[t].n => Close(t, j) # k
    BY <1>1, <1>9, <1>10, <1>11, <1>12, TriAssumption
  <2> QED BY <1>3, <1>11, <2>1
<1>15. TrancheOK(q, b, t)
  <2>1. q.tr[t].qty = 0 => q.tr[t].closed = 0 /\ ~q.tr[t].bound /\ ~q.tr[t].final /\ Untouched(q, b, Oco(t))
    BY <1>2
  <2>2. q.tr[t].final => Settled(q, b, Oco(t))
    BY <1>1, <1>13 DEF TrancheOK, Settled, Over
  <2>3. q.tr[t].bound => b[Oco(t)].st \in {"open", "final"}
    BY <1>1, <1>13 DEF TrancheOK
  <2>4. \A j \in 1 .. MaxCloses : (j < q.tr[t].n => Settled(q, b, Close(t, j))) /\ (j > q.tr[t].n => Untouched(q, b, Close(t, j)))
    <3> TAKE j \in 1 .. MaxCloses
    <3>1. (j < q.tr[t].n => Settled(q, a, Close(t, j))) /\ (j > q.tr[t].n => Untouched(q, a, Close(t, j)))
      BY <1>1 DEF TrancheOK
    <3>2. j # q.tr[t].n => b[Close(t, j)] = a[Close(t, j)]
      BY <1>14
    <3> QED BY <1>1, <3>1, <3>2, TriAssumption DEF Settled, Untouched, Over
  <2>5. \A l \in SoldBy(t) : RecOK(q, b, l)
    <3> TAKE l \in SoldBy(t)
    <3>1. RecOK(q, a, l) /\ l \in Keys
      BY <1>1, KeyFacts DEF TrancheOK
    <3>2. CASE l = k
      BY <1>3, <1>5, <3>2 DEF RecOK, k
    <3>3. CASE l # k
      BY <1>3, <3>1, <3>3 DEF RecOK
    <3> QED BY <3>2, <3>3
  <2>6. q.ord[Cur(q, t)].booked <= q.tr[t].closed /\ (q.tr[t].n > 0 => q.tr[t].final)
    BY <1>1 DEF TrancheOK
  <2> QED BY <1>8, <2>1, <2>2, <2>3, <2>4, <2>5, <2>6 DEF TrancheOK, k
<1>16. JobOK(q, J[t], b, t)
  BY DEF JobOK
<1>17. \A u \in Tranches : u # t => TrancheOK(q, b, u) /\ JobOK(q, J[u], b, u) /\ Sold(q, b, u) = Sold(q, a, u)
  <2> TAKE u \in Tranches
  <2> SUFFICES ASSUME u # t PROVE TrancheOK(q, b, u) /\ JobOK(q, J[u], b, u) /\ Sold(q, b, u) = Sold(q, a, u)
    OBVIOUS
  <2>1. TrancheOK(q, a, u) /\ JobOK(q, J[u], a, u)
    BY DEF World
  <2>2. \A l \in SoldBy(u) : q.ord[l] = q.ord[l] /\ b[l] = a[l]
    <3>1. SoldBy(u) \cap SoldBy(t) = {} /\ SoldBy(u) \subseteq Keys
      BY KeyFacts
    <3> QED BY <1>1, <1>3, <3>1
  <2> QED BY <2>1, <2>2, ApartTranche
<1>18. \A u \in Tranches : TrancheOK(q, b, u) /\ JobOK(q, J[u], b, u) /\ Sold(q, b, u) = Sold(q, a, u)
  BY <1>6, <1>15, <1>16, <1>17
<1>19. b[Entry] = a[Entry]
  BY <1>1, <1>3, KeyFacts
<1>20. EntryOK(q, b) /\ PhaseOK(q, b) /\ EntryJobOK(q, J[0], b) /\ PartsOK(q)
  BY <1>19 DEF World, EntryOK, PhaseOK, EntryJobOK, Settled, Over
<1>21. SharesOK(q, b, sh)
  BY <1>18, <1>19, SameShares DEF World
<1> QED BY <1>4, <1>18, <1>20, <1>21 DEF World

-----------------------------------------------------------------------------
(* The worker threads                                                      *)

Done(j, row) == [j EXCEPT !.at = "done", !.row = row]

(* what an answer may say                                                  *)
SaleAnswer(q, j, row, a, t) ==
  /\ row.why = "row" => RowOK(row, a, j.key)
  /\ row.why \in {"none", "hard"} /\ ~q.tr[t].final => a[j.key].st \in {"none", "gone"}

EntryAnswered(row, a) ==
  /\ row.why = "row" => EntryRowOK(row, a)
  /\ row.why # "row" => ~row.final
  /\ row.why = "hard" => a[Entry].st \in {"none", "gone"} /\ row.f = 0

LEMMA DoneFacts ==
  ASSUME NEW j \in Job, NEW row \in Row
  PROVE  /\ Done(j, row) \in Job /\ Done(j, row).at = "done" /\ Done(j, row).row = row
         /\ Done(j, row).key = j.key /\ Done(j, row).leave = j.leave /\ Done(j, row).qty = j.qty
<1> DEFINE x == [j EXCEPT !.at = "done"]
<1>1. x \in Job /\ x.at = "done" /\ x.key = j.key /\ x.leave = j.leave /\ x.qty = j.qty
  BY DEF Job
<1>2. Done(j, row) = [x EXCEPT !.row = row]
  BY DEF Done, Job
<1> HIDE DEF x
<1> QED BY <1>1, <1>2 DEF Job

LEMMA AnswersShape ==
  ASSUME jobs \in [{0} \cup Tranches -> Job], NEW i \in {0} \cup Tranches, NEW row \in Row, Answers(i, row)
  PROVE  jobs' = [jobs EXCEPT ![i] = Done(jobs[i], row)] /\ jobs' \in [{0} \cup Tranches -> Job]
<1>1. Done(jobs[i], row) \in Job
  BY DoneFacts
<1>2. jobs' = [jobs EXCEPT ![i] = Done(jobs[i], row)]
  BY DEF Answers, Done
<1> QED BY <1>1, <1>2

LEMMA EntryAnswers ==
  ASSUME p \in Plan, jobs \in [{0} \cup Tranches -> Job], NEW a \in [Keys -> Order], NEW sh, World(p, jobs, a, sh),
         NEW row \in Row, Answers(0, row), jobs[0].at # "idle", EntryAnswered(row, a)
  PROVE  World(p, jobs', a, sh)
<1> DEFINE j == Done(jobs[0], row)
<1>1. 0 \in {0} \cup Tranches /\ jobs[0] \in Job
  OBVIOUS
<1>2. jobs' = [jobs EXCEPT ![0] = j] /\ j.at = "done" /\ j.row = row /\ j.key = jobs[0].key /\ j.qty = jobs[0].qty
  BY <1>1, AnswersShape, DoneFacts
<1>3. EntryJobOK(p, jobs[0], a)
  BY DEF World
<1> HIDE DEF j
<1>4. EntryJobOK(p, j, a)
  BY <1>2, <1>3 DEF EntryJobOK, EntryAnswered, EntryRowOK
<1> QED BY <1>1, <1>2, <1>4, JobPut

LEMMA SaleAnswers ==
  ASSUME p \in Plan, jobs \in [{0} \cup Tranches -> Job], NEW a \in [Keys -> Order], NEW sh, World(p, jobs, a, sh),
         NEW t \in Tranches, NEW row \in Row, Answers(t, row), jobs[t].at # "idle", SaleAnswer(p, jobs[t], row, a, t)
  PROVE  World(p, jobs', a, sh)
<1> DEFINE j == Done(jobs[t], row)
<1>1. t \in {0} \cup Tranches /\ jobs[t] \in Job /\ t # 0
  BY TrancheFacts
<1>2. /\ jobs' = [jobs EXCEPT ![t] = j] /\ j.at = "done" /\ j.row = row /\ j.key = jobs[t].key /\ j.qty = jobs[t].qty
      /\ j.leave = jobs[t].leave
  BY <1>1, AnswersShape, DoneFacts
<1>3. JobOK(p, jobs[t], a, t)
  BY DEF World
<1> HIDE DEF j
<1>4. JobOK(p, j, a, t)
  BY <1>2, <1>3 DEF JobOK, SaleAnswer, RowOK
<1> QED BY <1>1, <1>2, <1>4, JobPut

(* the rows that are not an order                                          *)
LEMMA NoRowFacts ==
  ASSUME NEW why \in {"row", "none", "defer", "error", "hard"}
  PROVE  [NoRow EXCEPT !.why = why] \in Row /\ [NoRow EXCEPT !.why = why].why = why
         /\ [NoRow EXCEPT !.why = why].f = 0 /\ ~[NoRow EXCEPT !.why = why].final
BY JobTypes DEF NoRow, Row

(* what a step of a thread keeps                                           *)
Worked ==
  /\ alp' \in [Keys -> Order] /\ jobs' \in [{0} \cup Tranches -> Job] /\ World(p, jobs', alp', shares)
  /\ alp[Entry].st = "none" /\ p.phase \notin Active => alp'[Entry].st = "none"

LEMMA WithoutEntry ==
  ASSUME TypeOK, World(p, jobs, alp, shares), jobs[0].at # "idle", UNCHANGED alp,
         NEW why \in {"none", "defer", "error", "hard"}, Without(0, why),
         why = "hard" => alp[Entry].st \in {"none", "gone"}
  PROVE  Worked
<1> DEFINE row == [NoRow EXCEPT !.why = why]
<1>1. row \in Row /\ row.why = why /\ row.f = 0 /\ ~row.final
  BY NoRowFacts
<1>2. Answers(0, row)
  BY DEF Without
<1> HIDE DEF row
<1>3. EntryAnswered(row, alp)
  BY <1>1 DEF EntryAnswered
<1>4. p \in Plan /\ jobs \in [{0} \cup Tranches -> Job] /\ alp \in [Keys -> Order] /\ 0 \in {0} \cup Tranches
  BY DEF TypeOK
<1>5. World(p, jobs', alp, shares)
  BY <1>1, <1>2, <1>3, <1>4, EntryAnswers
<1>6. jobs' \in [{0} \cup Tranches -> Job]
  BY <1>1, <1>2, <1>4, AnswersShape
<1> QED BY <1>4, <1>5, <1>6 DEF Worked

LEMMA WithoutSale ==
  ASSUME TypeOK, World(p, jobs, alp, shares), NEW t \in Tranches, jobs[t].at # "idle", UNCHANGED alp,
         NEW why \in {"none", "defer", "error", "hard"}, Without(t, why),
         why \in {"none", "hard"} /\ ~p.tr[t].final => alp[jobs[t].key].st \in {"none", "gone"}
  PROVE  Worked
<1> DEFINE row == [NoRow EXCEPT !.why = why]
<1>1. row \in Row /\ row.why = why
  BY NoRowFacts
<1>2. Answers(t, row)
  BY DEF Without
<1> HIDE DEF row
<1>3. SaleAnswer(p, jobs[t], row, alp, t)
  BY <1>1 DEF SaleAnswer
<1>4. p \in Plan /\ jobs \in [{0} \cup Tranches -> Job] /\ alp \in [Keys -> Order] /\ t \in {0} \cup Tranches
  BY DEF TypeOK
<1>5. World(p, jobs', alp, shares)
  BY <1>1, <1>2, <1>3, <1>4, SaleAnswers
<1>6. jobs' \in [{0} \cup Tranches -> Job]
  BY <1>1, <1>2, <1>4, AnswersShape
<1> QED BY <1>4, <1>5, <1>6 DEF Worked

(* An order is read, after it was cancelled or not.                        *)
LEMMA ReadMoves ==
  ASSUME TypeOK, World(p, jobs, alp, shares), NEW i, NEW k \in Keys, NEW leave, Known(k), ReadOrder(i, k, leave)
  PROVE  /\ alp' \in [Keys -> Order] /\ World(p, jobs, alp', shares)
         /\ alp'[k].st \in {"open", "final"} /\ (alp[Entry].st = "none" => alp'[Entry].st = "none")
         /\ Answers(i, RowOf(alp'[k]))
<1>1. p \in Plan /\ jobs \in [{0} \cup Tranches -> Job] /\ alp \in [Keys -> Order] /\ \A l \in Keys : OrderOK(alp[l])
  BY DEF TypeOK, World
<1>2. Answers(i, RowOf(alp'[k]))
  BY DEF ReadOrder
<1>3. CASE alp' = alp
  BY <1>1, <1>2, <1>3 DEF Known
<1>4. CASE alp[k].st = "open" /\ alp' = [alp EXCEPT ![k].st = "final"]
  <2> DEFINE o == [alp[k] EXCEPT !.st = "final"]
  <2>1. o \in Order /\ o.st = "final" /\ o.filled = alp[k].filled /\ o.qty = alp[k].qty
    BY <1>1 DEF Order
  <2>2. alp' = [alp EXCEPT ![k] = o]
    BY <1>1, <1>4
  <2> HIDE DEF o
  <2>3. alp' \in [Keys -> Order] /\ alp'[k] = o /\ \A l \in Keys : l # k => alp'[l] = alp[l]
    BY <1>1, <2>1, <2>2
  <2>4. Became(alp[k], o)
    <3>1. o.filled <= o.qty /\ alp[k].filled <= o.filled
      BY <1>1, <2>1, TriAssumption DEF OrderOK, Order, Qty
    <3> QED BY <1>4, <2>1, <3>1 DEF Became, OrderOK
  <2>5. \A l \in Keys : Became(alp[l], alp'[l]) /\ alp'[l].filled = alp[l].filled
    <3> TAKE l \in Keys
    <3>1. CASE l = k
      BY <2>1, <2>3, <2>4, <3>1
    <3>2. CASE l # k
      BY <2>3, <3>2 DEF Became
    <3> QED BY <3>1, <3>2
  <2>6. World(p, jobs, alp', shares)
    BY <1>1, <2>3, <2>5, UnfilledMoves
  <2>7. alp[Entry].st = "none" => alp'[Entry].st = "none"
    BY <1>4, <2>3, KeyFacts
  <2> QED BY <1>2, <2>1, <2>3, <2>6, <2>7
<1> QED BY <1>3, <1>4 DEF ReadOrder

LEMMA RowOfFacts ==
  ASSUME NEW o \in Order
  PROVE  /\ RowOf(o) \in Row /\ RowOf(o).f = o.filled /\ RowOf(o).why = "row" /\ (RowOf(o).final <=> o.st = "final")
BY DEF Order, RowOf, Row

LEMMA ReadEntry ==
  ASSUME TypeOK, World(p, jobs, alp, shares), jobs[0].at # "idle", NEW leave, Known(Entry), ReadOrder(0, Entry, leave)
  PROVE  Worked
<1>1. p \in Plan /\ jobs \in [{0} \cup Tranches -> Job] /\ 0 \in {0} \cup Tranches /\ Entry \in Keys
  BY KeyFacts DEF TypeOK
<1>2. /\ alp' \in [Keys -> Order] /\ World(p, jobs, alp', shares)
      /\ alp'[Entry].st \in {"open", "final"} /\ (alp[Entry].st = "none" => alp'[Entry].st = "none")
      /\ Answers(0, RowOf(alp'[Entry]))
  BY <1>1, ReadMoves
<1> DEFINE row == RowOf(alp'[Entry])
<1>3. row \in Row /\ row.f = alp'[Entry].filled /\ row.why = "row" /\ (row.final <=> alp'[Entry].st = "final")
      /\ row.f \in Nat
  BY <1>1, <1>2, RowOfFacts, TriAssumption DEF Order, Qty
<1>4. Answers(0, row)
  BY <1>2
<1> HIDE DEF row
<1>5. EntryAnswered(row, alp')
  BY <1>3 DEF EntryAnswered, EntryRowOK, Over
<1>6. World(p, jobs', alp', shares)
  BY <1>1, <1>2, <1>3, <1>4, <1>5, EntryAnswers
<1>7. jobs' \in [{0} \cup Tranches -> Job]
  BY <1>1, <1>3, <1>4, AnswersShape
<1> QED BY <1>2, <1>6, <1>7 DEF Worked

LEMMA ReadSale ==
  ASSUME TypeOK, World(p, jobs, alp, shares), NEW t \in Tranches, jobs[t].at # "idle", NEW k, k = jobs[t].key,
         NEW leave, Known(k), ReadOrder(t, k, leave)
  PROVE  Worked
<1>1. p \in Plan /\ jobs \in [{0} \cup Tranches -> Job] /\ jobs[t] \in Job /\ k \in Keys /\ t \in {0} \cup Tranches
  BY DEF TypeOK, Job
<1>2. /\ alp' \in [Keys -> Order] /\ World(p, jobs, alp', shares)
      /\ alp'[k].st \in {"open", "final"} /\ (alp[Entry].st = "none" => alp'[Entry].st = "none")
      /\ Answers(t, RowOf(alp'[k]))
  BY <1>1, ReadMoves
<1> DEFINE row == RowOf(alp'[k])
<1>3. row \in Row /\ row.f = alp'[k].filled /\ row.why = "row" /\ (row.final <=> alp'[k].st = "final") /\ row.f \in Nat
  BY <1>1, <1>2, RowOfFacts, TriAssumption DEF Order, Qty
<1>4. Answers(t, row)
  BY <1>2
<1> HIDE DEF row
<1>5. SaleAnswer(p, jobs[t], row, alp', t)
  BY <1>2, <1>3 DEF SaleAnswer, RowOK
<1>6. World(p, jobs', alp', shares)
  BY <1>1, <1>2, <1>3, <1>4, <1>5, SaleAnswers
<1>7. jobs' \in [{0} \cup Tranches -> Job]
  BY <1>1, <1>3, <1>4, AnswersShape
<1> QED BY <1>2, <1>6, <1>7 DEF Worked

(* A thread goes on to send its order.                                     *)
LEMMA GoesShape ==
  ASSUME jobs \in [{0} \cup Tranches -> Job], NEW i \in {0} \cup Tranches, Goes(i)
  PROVE  \E j \in Job : /\ jobs' = [jobs EXCEPT ![i] = j] /\ jobs' \in [{0} \cup Tranches -> Job]
                        /\ j.at = "post" /\ j.key = jobs[i].key /\ j.qty = jobs[i].qty /\ j.leave = jobs[i].leave
<1> DEFINE j == [jobs[i] EXCEPT !.at = "post"]
<1>1. jobs[i] \in Job
  OBVIOUS
<1>2. j \in Job /\ j.at = "post" /\ j.key = jobs[i].key /\ j.qty = jobs[i].qty /\ j.leave = jobs[i].leave
  BY <1>1 DEF Job
<1>3. jobs' = [jobs EXCEPT ![i] = j]
  BY DEF Goes
<1> HIDE DEF j
<1>4. jobs' \in [{0} \cup Tranches -> Job]
  BY <1>2, <1>3
<1> QED BY <1>2, <1>3, <1>4

LEMMA AskEntryOK ==
  ASSUME ~LateArrival, TypeOK, World(p, jobs, alp, shares), jobs[0].at = "ask", AskEntry
  PROVE  Worked
<1>1. p \in Plan /\ jobs \in [{0} \cup Tranches -> Job] /\ alp \in [Keys -> Order] /\ Entry \in Keys
      /\ 0 \in {0} \cup Tranches /\ EntryJobOK(p, jobs[0], alp) /\ OrderOK(alp[Entry])
  BY KeyFacts DEF TypeOK, World
<1>2. CASE Known(Entry) /\ ReadOrder(0, Entry, jobs[0].leave)
  BY <1>2, ReadEntry
<1>3. CASE Unknown(Entry) /\ UNCHANGED alp /\ Without(0, "error")
  BY <1>3, WithoutEntry
<1>4. CASE Unknown(Entry) /\ UNCHANGED alp /\ Without(0, "hard")
  <2>1. alp[Entry].st \in {"none", "gone"}
    BY <1>4 DEF Unknown
  <2> QED BY <1>4, <2>1, WithoutEntry
<1>5. CASE Unknown(Entry) /\ UNCHANGED alp /\ Answers(0, Expired)
  <2>1. alp[Entry].st \in {"none", "gone"} /\ alp[Entry].filled = 0
    BY <1>1, <1>5 DEF Unknown, OrderOK
  <2>2. Expired \in Row /\ Expired.f = 0 /\ Expired.why = "row"
    BY JobTypes DEF Expired, Row
  <2>3. EntryAnswered(Expired, alp)
    BY <2>1, <2>2 DEF EntryAnswered, EntryRowOK, Over
  <2>4. World(p, jobs', alp, shares)
    BY <1>1, <1>5, <2>2, <2>3, EntryAnswers
  <2>5. jobs' \in [{0} \cup Tranches -> Job]
    BY <1>1, <1>5, <2>2, AnswersShape
  <2> QED BY <1>1, <1>5, <2>4, <2>5 DEF Worked
<1>6. CASE Unknown(Entry) /\ UNCHANGED alp /\ Goes(0)
  <2>1. alp[Entry].st \in {"none", "gone"}
    BY <1>6 DEF Unknown
  <2>2. PICK j \in Job : /\ jobs' = [jobs EXCEPT ![0] = j] /\ jobs' \in [{0} \cup Tranches -> Job]
                        /\ j.at = "post" /\ j.key = jobs[0].key /\ j.qty = jobs[0].qty /\ j.leave = jobs[0].leave
    BY <1>1, <1>6, GoesShape
  <2>3. EntryJobOK(p, j, alp)
    BY <1>1, <2>1, <2>2 DEF EntryJobOK
  <2>4. World(p, jobs', alp, shares)
    BY <1>1, <2>2, <2>3, JobPut
  <2> QED BY <1>1, <1>6, <2>2, <2>4 DEF Worked
<1> QED BY <1>2, <1>3, <1>4, <1>5, <1>6 DEF AskEntry

LEMMA SaleGoes ==
  ASSUME TypeOK, World(p, jobs, alp, shares), NEW t \in Tranches, jobs[t].at = "ask", UNCHANGED alp, Goes(t),
         alp[jobs[t].key].st \in {"none", "gone"}, jobs[t].qty > 0
  PROVE  Worked
<1>1. p \in Plan /\ jobs \in [{0} \cup Tranches -> Job] /\ alp \in [Keys -> Order] /\ t \in {0} \cup Tranches /\ t # 0
      /\ JobOK(p, jobs[t], alp, t)
  BY TrancheFacts DEF TypeOK, World
<1>2. PICK j \in Job : /\ jobs' = [jobs EXCEPT ![t] = j] /\ jobs' \in [{0} \cup Tranches -> Job]
                      /\ j.at = "post" /\ j.key = jobs[t].key /\ j.qty = jobs[t].qty /\ j.leave = jobs[t].leave
  BY <1>1, GoesShape
<1>3. JobOK(p, j, alp, t)
  BY <1>1, <1>2 DEF JobOK
<1>4. World(p, jobs', alp, shares)
  BY <1>1, <1>2, <1>3, JobPut
<1> QED BY <1>1, <1>2, <1>4 DEF Worked

(* Which order a request is about                                          *)
LEMMA KeyOfJob ==
  ASSUME p \in Plan, NEW a, NEW t \in Tranches, NEW j \in Job, JobOK(p, j, a, t), j.at # "idle", TrancheOK(p, a, t)
  PROVE  /\ j.key = Cur(p, t) /\ j.key \in Keys /\ j.key # Entry
         /\ j.key = Oco(t) => ~p.tr[t].final /\ p.tr[t].n = 0
         /\ j.key # Oco(t) => p.tr[t].final /\ p.tr[t].n > 0
         /\ p.tr[t].qty > 0
<1>1. j.key = Cur(p, t) /\ p.tr[t].qty > 0 /\ (p.tr[t].final => p.tr[t].n > 0)
  BY DEF JobOK
<1>2. p.tr[t].n = 0 => Cur(p, t) = Oco(t)
  BY CurFacts
<1>3. p.tr[t].n > 0 => Cur(p, t) = Close(t, p.tr[t].n) /\ p.tr[t].n \in 1 .. MaxCloses /\ Close(t, p.tr[t].n) # Oco(t)
  BY CurFacts, KeyFacts
<1>4. p.tr[t].n > 0 => p.tr[t].final
  BY DEF TrancheOK
<1>5. p.tr[t].n \in 0 .. MaxCloses
  BY CurFacts
<1>6. Cur(p, t) \in Keys /\ Cur(p, t) # Entry
  BY CurFacts
<1> HIDE DEF Cur, Oco, Close, Entry
<1> QED BY <1>1, <1>2, <1>3, <1>4, <1>5, <1>6, TriAssumption

LEMMA AskSaleOK ==
  ASSUME ~LateArrival, TypeOK, World(p, jobs, alp, shares), NEW t \in Tranches, jobs[t].at = "ask", Ask(t)
  PROVE  Worked
<1> DEFINE k == jobs[t].key
<1>1. p \in Plan /\ jobs \in [{0} \cup Tranches -> Job] /\ alp \in [Keys -> Order] /\ t # 0 /\ jobs[t] \in Job
      /\ JobOK(p, jobs[t], alp, t) /\ TrancheOK(p, alp, t) /\ jobs[t].at # "idle"
  BY TrancheFacts DEF TypeOK, World
<1>2. /\ k = Cur(p, t) /\ k \in Keys /\ k # Entry /\ p.tr[t].qty > 0
      /\ k = Oco(t) => ~p.tr[t].final /\ p.tr[t].n = 0
      /\ k # Oco(t) => p.tr[t].final /\ p.tr[t].n > 0
  BY <1>1, KeyOfJob
<1>3. Unknown(k) => alp[k].st \in {"none", "gone"}
  BY DEF Unknown
<1>4. CASE k # Oco(t)
  <2>1. AskToClose(t)
    BY <1>1, <1>4 DEF Ask
  <2>2. jobs[t].qty > 0
    <3>1. jobs[t].qty = Left(p.tr[t]) + p.ord[k].booked /\ Left(p.tr[t]) > 0
      BY <1>1, <1>2, <1>4 DEF JobOK
    <3>2. p.ord[k].booked \in Nat /\ Left(p.tr[t]) \in Int
      BY <1>1, <1>2, CurFacts, TriAssumption DEF Plan, Rec, Qty, Left, Tranche
    <3> QED BY <3>1, <3>2
  <2>3. CASE Known(k) /\ ReadOrder(t, k, FALSE)
    BY <1>1, <2>3, ReadSale
  <2>4. CASE Unknown(k) /\ UNCHANGED alp /\ Without(t, "none")
    BY <1>1, <1>2, <1>4, <2>4, WithoutSale
  <2>5. CASE Unknown(k) /\ UNCHANGED alp /\ Without(t, "hard")
    BY <1>1, <1>2, <1>4, <2>5, WithoutSale
  <2>6. CASE Unknown(k) /\ UNCHANGED alp /\ Goes(t)
    BY <1>1, <1>3, <2>2, <2>6, SaleGoes
  <2> QED BY <2>1, <2>3, <2>4, <2>5, <2>6 DEF AskToClose
<1>5. CASE k = Oco(t) /\ ~p.tr[t].bound
  <2>1. AskProtect(t)
    BY <1>1, <1>5 DEF Ask
  <2>2. CASE Known(k) /\ ReadOrder(t, k, FALSE)
    BY <1>1, <2>2, ReadSale
  <2>3. CASE Unknown(k) /\ UNCHANGED alp /\ Without(t, "none")
    BY <1>1, <1>3, <2>3, WithoutSale
  <2>4. CASE Unknown(k) /\ UNCHANGED alp /\ Without(t, "defer")
    BY <1>1, <2>4, WithoutSale
  <2>5. CASE Unknown(k) /\ UNCHANGED alp /\ ~jobs[t].leave /\ Goes(t)
    <3>1. jobs[t].qty > 0
      BY <1>1, <1>2, <1>5, <2>5 DEF JobOK
    <3> QED BY <1>1, <1>3, <2>5, <3>1, SaleGoes
  <2>6. jobs[t].leave \in BOOLEAN
    BY <1>1 DEF Job
  <2> QED BY <1>5, <2>1, <2>2, <2>3, <2>4, <2>5, <2>6 DEF AskProtect
<1>6. CASE k = Oco(t) /\ p.tr[t].bound
  <2>1. ReadOrder(t, Oco(t), jobs[t].leave /\ MarketOpen)
    BY <1>1, <1>6 DEF Ask
  <2>2. Known(k)
    BY <1>1, <1>6 DEF TrancheOK, Known
  <2> HIDE DEF k
  <2>3. ReadOrder(t, k, jobs[t].leave /\ MarketOpen)
    BY <1>6, <2>1
  <2>4. k = jobs[t].key
    BY DEF k
  <2> QED BY <1>1, <2>2, <2>3, <2>4, ReadSale
<1> QED BY <1>4, <1>5, <1>6

(* An order is placed.                                                     *)
NewOrder(st, n) == [st |-> st, filled |-> 0, qty |-> n]

LEMMA PlacedShape ==
  ASSUME alp \in [Keys -> Order], NEW k \in Keys, NEW n \in Qty, NEW st \in {"open", "wire"},
         alp[k].st \in {"none", "gone"}, alp' = [alp EXCEPT ![k] = NewOrder(st, n)]
  PROVE  alp' \in [Keys -> Order] /\ Placed(alp, alp', k, n) /\ alp'[k].st = st /\ alp'[k].filled = 0
<1>1. NewOrder(st, n) \in Order /\ NewOrder(st, n).st = st /\ NewOrder(st, n).filled = 0 /\ NewOrder(st, n).qty = n
  BY JobTypes DEF NewOrder, Order
<1>2. alp' \in [Keys -> Order] /\ alp'[k] = NewOrder(st, n) /\ \A l \in Keys : l # k => alp'[l] = alp[l]
  BY <1>1
<1> QED BY <1>1, <1>2 DEF Placed

LEMMA SendEntryPlaced ==
  ASSUME TypeOK, World(p, jobs, alp, shares), jobs[0].at = "post", NEW st \in {"open", "wire"},
         alp' = [alp EXCEPT ![Entry] = NewOrder(st, jobs[0].qty)],
         NEW why \in {"row", "error"}, why = "row" => st = "open", Answers(0, [NoRow EXCEPT !.why = why])
  PROVE  Worked
<1> DEFINE row == [NoRow EXCEPT !.why = why]
           J1 == [jobs EXCEPT ![0] = NoJob]
           j == Done(jobs[0], row)
<1>1. p \in Plan /\ jobs \in [{0} \cup Tranches -> Job] /\ alp \in [Keys -> Order] /\ Entry \in Keys
      /\ 0 \in {0} \cup Tranches /\ jobs[0] \in Job /\ EntryJobOK(p, jobs[0], alp) /\ p.final \in BOOLEAN
  BY KeyFacts DEF TypeOK, World, Plan
<1>2. jobs[0].qty = Ordered /\ p.phase \in Active /\ ~p.final /\ jobs[0].key = Entry /\ alp[Entry].st \in {"none", "gone"}
  BY <1>1 DEF EntryJobOK
<1>3. Ordered \in Qty
  BY JobTypes
<1>4. alp' \in [Keys -> Order] /\ Placed(alp, alp', Entry, Ordered) /\ alp'[Entry].st = st /\ alp'[Entry].filled = 0
  BY <1>1, <1>2, <1>3, PlacedShape
<1>5. row \in Row /\ row.why = why /\ row.f = 0 /\ ~row.final
  BY NoRowFacts
<1>6. J1 \in [{0} \cup Tranches -> Job] /\ J1[0].at = "idle"
  BY <1>1, JobTypes
<1>7. World(p, J1, alp, shares)
  BY <1>1, IdleJobOK, JobPut
<1> HIDE DEF row
<1>8. jobs' = [jobs EXCEPT ![0] = j] /\ jobs' \in [{0} \cup Tranches -> Job]
      /\ j.at = "done" /\ j.row = row /\ j.key = Entry /\ j.qty = Ordered
  <2>1. Answers(0, row)
    BY DEF row
  <2> QED BY <1>1, <1>2, <1>5, <2>1, AnswersShape, DoneFacts
<1>9. jobs' = [J1 EXCEPT ![0] = j]
  BY <1>1, <1>8
<1> HIDE DEF J1, j
<1>10. World(p, J1, alp', shares)
  BY <1>1, <1>2, <1>4, <1>6, <1>7, EntryPlaced
<1>11. EntryJobOK(p, j, alp')
  BY <1>2, <1>4, <1>5, <1>8 DEF EntryJobOK
<1>12. World(p, jobs', alp', shares)
  BY <1>1, <1>6, <1>9, <1>10, <1>11, JobPut
<1> QED BY <1>2, <1>4, <1>8, <1>12 DEF Worked

LEMMA SendSalePlaced ==
  ASSUME TypeOK, World(p, jobs, alp, shares), NEW t \in Tranches, jobs[t].at = "post", NEW st \in {"open", "wire"},
         alp' = [alp EXCEPT ![jobs[t].key] = NewOrder(st, jobs[t].qty)],
         NEW why \in {"row", "error"}, why = "row" => st = "open", Answers(t, [NoRow EXCEPT !.why = why])
  PROVE  Worked
<1> DEFINE row == [NoRow EXCEPT !.why = why]
           J1 == [jobs EXCEPT ![t] = NoJob]
           j == Done(jobs[t], row)
           k == Cur(p, t)
           n == jobs[t].qty
<1>1. p \in Plan /\ jobs \in [{0} \cup Tranches -> Job] /\ alp \in [Keys -> Order] /\ t \in {0} \cup Tranches /\ t # 0
      /\ jobs[t] \in Job /\ JobOK(p, jobs[t], alp, t) /\ TrancheOK(p, alp, t) /\ p.tr[t] \in Tranche /\ jobs[t].at # "idle"
      /\ \A l \in Keys : OrderOK(alp[l])
  BY TrancheFacts, CurFacts DEF TypeOK, World
<1>2. /\ jobs[t].key = k /\ k \in Keys /\ k # Entry /\ p.tr[t].qty > 0
      /\ k = Oco(t) => ~p.tr[t].final /\ p.tr[t].n = 0
      /\ k # Oco(t) => p.tr[t].final /\ p.tr[t].n > 0
  BY <1>1, KeyOfJob
<1>3. n \in Qty /\ n \in Nat /\ n > 0 /\ alp[k].st \in {"none", "gone"} /\ p.phase \in Active
  BY <1>1, <1>2, TriAssumption DEF JobOK, Job, Qty
<1>4. RecOK(p, alp, k) /\ alp[k].filled = 0 /\ p.ord[k].booked \in Nat
  <2>1. k \in SoldBy(t) /\ p.ord[k] \in Rec
    BY <1>1, <1>2, CurFacts DEF Plan
  <2> QED BY <1>1, <1>2, <1>3, <2>1, TriAssumption DEF TrancheOK, OrderOK, Rec, Qty
<1>5. p.ord[k].booked = 0 /\ ~p.ord[k].final
  <2>1. p.ord[k].booked <= 0 /\ ~p.ord[k].final
    BY <1>3, <1>4 DEF RecOK
  <2> QED BY <1>4, <2>1
<1>6. ~p.tr[t].final => ~p.tr[t].bound
  <2>1. ~p.tr[t].final => k = Oco(t)
    BY <1>2
  <2> QED BY <1>1, <1>3, <2>1 DEF TrancheOK
<1>7. n = Left(p.tr[t]) + p.ord[k].booked
  <2>1. CASE p.tr[t].final
    BY <1>1, <1>2, <2>1 DEF JobOK
  <2>2. CASE ~p.tr[t].final
    <3>1. n = Left(p.tr[t]) /\ Left(p.tr[t]) \in Int
      BY <1>1, <1>3, <1>6, <2>2 DEF JobOK
    <3> QED BY <1>5, <3>1
  <2> QED BY <2>1, <2>2
<1>8. alp' \in [Keys -> Order] /\ Placed(alp, alp', k, n) /\ alp'[k].st = st /\ alp'[k].filled = 0
  <2>1. alp' = [alp EXCEPT ![k] = NewOrder(st, n)]
    BY <1>2
  <2> QED BY ZenonT(60), <1>1, <1>2, <1>3, <2>1, PlacedShape
<1>9. row \in Row /\ row.why = why /\ row.f = 0 /\ ~row.final
  BY NoRowFacts
<1>10. J1 \in [{0} \cup Tranches -> Job] /\ J1[t].at = "idle"
  BY <1>1, JobTypes
<1>11. World(p, J1, alp, shares)
  BY <1>1, IdleJobOK, JobPut
<1> HIDE DEF row, k, n
<1>12. /\ jobs' = [jobs EXCEPT ![t] = j] /\ jobs' \in [{0} \cup Tranches -> Job] /\ j.at = "done" /\ j.row = row
       /\ j.key = jobs[t].key /\ j.qty = jobs[t].qty /\ j.leave = jobs[t].leave
  <2>1. Answers(t, row)
    BY DEF row
  <2> QED BY <1>1, <1>9, <2>1, AnswersShape, DoneFacts
<1>13. jobs' = [J1 EXCEPT ![t] = j]
  BY <1>1, <1>12
<1> HIDE DEF J1, j
<1>14. World(p, J1, alp', shares)
  BY <1>1, <1>2, <1>3, <1>5, <1>6, <1>7, <1>8, <1>10, <1>11, SalePlaced DEF k
<1>15. JobOK(p, j, alp', t)
  <2>1. j.row.why \in {"row", "error"} /\ (j.row.why = "row" => alp'[k].st = "open" /\ j.row.f = 0 /\ ~j.row.final)
    BY <1>8, <1>9, <1>12
  <2>2. j.at = "done" /\ j.key = k
    BY <1>2, <1>12
  <2> QED BY <1>1, <1>8, <1>12, <2>1, <2>2 DEF JobOK, k
<1>16. World(p, jobs', alp', shares)
  BY <1>1, <1>10, <1>13, <1>14, <1>15, JobPut
<1>17. alp'[Entry] = alp[Entry]
  BY <1>2, <1>8, KeyFacts DEF Placed
<1> QED BY <1>8, <1>12, <1>16, <1>17 DEF Worked

LEMMA SendOK ==
  ASSUME TypeOK, World(p, jobs, alp, shares), NEW i \in {0} \cup Tranches, jobs[i].at = "post", Send(i)
  PROVE  Worked
<1>1. alp[jobs[i].key].st \in {"none", "gone"}
  <2>1. CASE i = 0
    BY <2>1 DEF World, EntryJobOK
  <2>2. CASE i # 0
    BY <2>2 DEF World, JobOK
  <2> QED BY <2>1, <2>2
<1>2. ~Known(jobs[i].key)
  BY <1>1 DEF Known
<1>3. jobs[0].at = "post" => jobs[0].key = Entry
  BY DEF World, EntryJobOK
<1>4. CASE alp' = [alp EXCEPT ![jobs[i].key] = NewOrder("open", jobs[i].qty)] /\ Answers(i, [NoRow EXCEPT !.why = "row"])
  <2>1. CASE i = 0
    BY <1>3, <1>4, <2>1, SendEntryPlaced
  <2>2. CASE i # 0
    BY <1>4, <2>2, SendSalePlaced
  <2> QED BY <2>1, <2>2
<1>5. CASE alp' = [alp EXCEPT ![jobs[i].key] = NewOrder("wire", jobs[i].qty)] /\ Without(i, "error")
  <2>1. CASE i = 0
    BY <1>3, <1>5, <2>1, SendEntryPlaced DEF Without
  <2>2. CASE i # 0
    BY <1>5, <2>2, SendSalePlaced DEF Without
  <2> QED BY <2>1, <2>2
<1>6. CASE UNCHANGED alp /\ Without(i, "hard")
  <2>1. CASE i = 0
    BY <1>1, <1>3, <1>6, <2>1, WithoutEntry
  <2>2. CASE i # 0
    BY <1>1, <1>6, <2>2, WithoutSale
  <2> QED BY <2>1, <2>2
<1> QED BY <1>2, <1>4, <1>5, <1>6 DEF Send, NewOrder

LEMMA WorkOK ==
  ASSUME ~LateArrival, TypeOK, World(p, jobs, alp, shares), NEW i \in {0} \cup Tranches, Work(i)
  PROVE  Worked
<1>1. CASE jobs[i].at = "ask" /\ Ask(i)
  <2>1. CASE i = 0
    <3>1. AskEntry
      BY <1>1, <2>1 DEF Ask
    <3> QED BY <1>1, <2>1, <3>1, AskEntryOK
  <2>2. CASE i # 0
    BY <1>1, <2>2, AskSaleOK
  <2> QED BY <2>1, <2>2
<1>2. CASE jobs[i].at = "post" /\ Send(i)
  BY <1>2, SendOK
<1> QED BY <1>1, <1>2 DEF Work

LEMMA UnreadOK ==
  ASSUME TypeOK, World(p, jobs, alp, shares), NEW i \in {0} \cup Tranches, Unread(i)
  PROVE  Worked
<1>1. jobs[i].at = "ask" /\ Without(i, "error") /\ UNCHANGED alp
  BY DEF Unread
<1>2. CASE i = 0
  BY <1>1, <1>2, WithoutEntry
<1>3. CASE i # 0
  BY <1>1, <1>3, WithoutSale
<1> QED BY <1>2, <1>3

-----------------------------------------------------------------------------
(* The event loop                                                          *)

LEMMA EndsShape ==
  ASSUME NEW q \in Plan
  PROVE  Ends(q) \in Plan /\ Alike(q, Ends(q)) /\ Ends(q).phase = "EXITING"
<1> DEFINE T == [t \in Tranches |-> [q.tr[t] EXCEPT !.exit = q.tr[t].qty > 0]]
<1>1. Ends(q) = [q EXCEPT !.exit = TRUE, !.phase = "EXITING", !.tr = T]
  BY DEF Ends
<1>2. \A t \in Tranches : /\ T[t] \in Tranche /\ T[t].qty = q.tr[t].qty /\ T[t].closed = q.tr[t].closed
                          /\ T[t].bound = q.tr[t].bound /\ T[t].final = q.tr[t].final /\ T[t].n = q.tr[t].n
  <2> TAKE t \in Tranches
  <2> DEFINE e == q.tr[t].qty > 0
  <2>1. q.tr[t] \in Tranche /\ e \in BOOLEAN
    BY DEF Plan
  <2>2. T[t] = [q.tr[t] EXCEPT !.exit = e]
    OBVIOUS
  <2> HIDE DEF e, T
  <2> QED BY <2>1, <2>2 DEF Tranche
<1>3. T \in [Tranches -> Tranche]
  BY <1>2
<1> HIDE DEF T
<1>4. /\ Ends(q) \in Plan /\ Ends(q).tr = T /\ Ends(q).ord = q.ord /\ Ends(q).final = q.final
      /\ Ends(q).phase = "EXITING"
  BY <1>1, <1>3 DEF Plan, Active
<1> QED BY <1>2, <1>4 DEF Alike

LEMMA SkipShape ==
  ASSUME NEW q \in Plan
  PROVE  /\ Skip(q) \in Plan /\ Alike(q, Skip(q))
         /\ Skip(q).phase = IF q.phase \in Active THEN q.phase ELSE "SKIPPED"
<1>1. CASE q.phase \in Active
  BY <1>1 DEF Skip, Plan, Alike
<1>2. CASE q.phase \notin Active
  BY <1>2 DEF Skip, Plan, Alike
<1> QED BY <1>1, <1>2

LEMMA AlikeTwice ==
  ASSUME NEW q, NEW r, NEW x, Alike(q, r), Alike(r, x)
  PROVE  Alike(q, x) /\ Alike(q, q)
BY DEF Alike

LEMMA ClockedOK ==
  ASSUME NEW q \in Plan, NEW a
  PROVE  Clocked(q) \in Plan /\ Alike(q, Clocked(q)) /\ Steps(q, Clocked(q), a)
<1> DEFINE c == CASE q.phase = "WAITING_ENTRY" /\ now > DUE -> Skip(q)
                  [] q.phase \in Active /\ now = NEXT -> [q EXCEPT !.bad = TRUE, !.exit = TRUE]
                  [] OTHER -> q
<1>1. Clocked(q) = IF c.bad /\ c.phase \in Active THEN Ends(c) ELSE c
  BY DEF Clocked
<1>2. c \in Plan /\ Alike(q, c) /\ Steps(q, c, a) /\ (c.phase \in Active => q.phase \in Active)
  <2>1. CASE q.phase = "WAITING_ENTRY" /\ now > DUE
    <3>2. q.phase \notin Active
      BY <2>1 DEF Active
    <3>1. c = Skip(q)
      <4> HIDE DEF Skip
      <4> QED BY <2>1, <3>2
    <3> HIDE DEF c
    <3> QED BY <2>1, <3>1, <3>2, SkipShape DEF Steps, Active
  <2>2. CASE q.phase \in Active /\ now = NEXT
    <3>1. c = [q EXCEPT !.bad = TRUE, !.exit = TRUE]
      BY <2>2 DEF Active
    <3> HIDE DEF c
    <3> QED BY <2>2, <3>1 DEF Plan, Alike, Steps
  <2>3. CASE ~(q.phase = "WAITING_ENTRY" /\ now > DUE) /\ ~(q.phase \in Active /\ now = NEXT)
    <3>1. c = q
      BY <2>3
    <3> HIDE DEF c
    <3> QED BY <3>1 DEF Alike, Steps
  <2> QED BY <2>1, <2>2, <2>3
<1> HIDE DEF c
<1>3. CASE c.bad /\ c.phase \in Active
  <2>1. Clocked(q) = Ends(c)
    BY <1>1, <1>3
  <2>2. Ends(c) \in Plan /\ Alike(c, Ends(c)) /\ Ends(c).phase = "EXITING"
    BY <1>2, EndsShape
  <2> QED BY <1>2, <1>3, <2>1, <2>2, AlikeTwice DEF Steps, Active
<1>4. CASE ~(c.bad /\ c.phase \in Active)
  BY <1>1, <1>2, <1>4
<1> QED BY <1>3, <1>4

(* what a step of the loop keeps                                           *)
Looped ==
  /\ p' \in Plan /\ jobs' \in [{0} \cup Tranches -> Job] /\ World(p', jobs', alp, shares)
  /\ saved' \in Plan /\ Agree(p', saved', alp)

LEMMA TickOK ==
  ASSUME TypeOK, World(p, jobs, alp, shares), Tick, saved' = p'
  PROVE  Looped
<1>1. p \in Plan /\ jobs \in [{0} \cup Tranches -> Job] /\ alp \in [Keys -> Order]
  BY DEF TypeOK
<1> DEFINE q == Clocked(p)
<1>2. q \in Plan /\ Alike(p, q) /\ Steps(p, q, alp)
  BY <1>1, ClockedOK
<1>3. World(q, jobs, alp, shares)
  BY <1>1, <1>2, AlikeWorld
<1>4. \/ q.phase \notin Active /\ p' = q /\ UNCHANGED jobs
      \/ q.phase \in Active /\ \E risky \in BOOLEAN : \E w \in Ticked(q, risky) : p' = w.p /\ jobs' = w.jobs
  BY DEF Tick
<1> HIDE DEF q
<1>5. p' \in Plan /\ jobs' \in [{0} \cup Tranches -> Job] /\ World(p', jobs', alp, shares)
  <2>1. CASE q.phase \notin Active /\ p' = q /\ UNCHANGED jobs
    BY <1>1, <1>2, <1>3, <2>1
  <2>2. CASE q.phase \in Active /\ \E risky \in BOOLEAN : \E w \in Ticked(q, risky) : p' = w.p /\ jobs' = w.jobs
    <3>1. PICK risky \in BOOLEAN : \E w \in Ticked(q, risky) : p' = w.p /\ jobs' = w.jobs
      BY <2>2
    <3>2. PICK w \in Ticked(q, risky) : p' = w.p /\ jobs' = w.jobs
      BY <3>1
    <3>3. w.p \in Plan /\ w.jobs \in [{0} \cup Tranches -> Job] /\ World(w.p, w.jobs, alp, shares)
      BY <1>1, <1>2, <1>3, <2>2, TickedOK
    <3> QED BY <3>2, <3>3
  <2> QED BY <1>4, <2>1, <2>2
<1>6. Agree(p', p', alp)
  BY DEF Agree, Alike
<1> QED BY <1>5, <1>6 DEF Looped

LEMMA TickEntryOK ==
  ASSUME TypeOK, World(p, jobs, alp, shares), Agree(p, saved, alp), TickEntry
  PROVE  Looped
<1>1. p \in Plan /\ jobs \in [{0} \cup Tranches -> Job] /\ alp \in [Keys -> Order] /\ saved \in Plan
      /\ p.phase = "WAITING_ENTRY" /\ UNCHANGED jobs
  BY DEF TypeOK, TickEntry
<1>2. alp[Entry].st = "none"
  BY <1>1 DEF World, PhaseOK
<1>3. saved.phase = "WAITING_ENTRY"
  BY <1>1 DEF Agree, Active
<1>4. CASE p' = Skip(p) /\ saved' = p'
  <2>1. p' \in Plan /\ Alike(p, p') /\ p'.phase = "SKIPPED"
    BY <1>1, <1>4, SkipShape DEF Active
  <2>2. World(p', jobs, alp, shares)
    BY <1>1, <2>1, AlikeWorld DEF Steps
  <2>3. Agree(p', saved', alp)
    BY <1>4 DEF Agree, Alike
  <2> QED BY <1>1, <1>4, <2>1, <2>2, <2>3 DEF Looped
<1>5. CASE Prepare(TRUE) /\ saved' = p'
  <2>1. p' \in Plan /\ Alike(p, p') /\ p'.phase = "ENTERING"
    BY <1>1, <1>5 DEF Prepare, Plan, Active, Alike
  <2>2. World(p', jobs, alp, shares)
    BY <1>1, <2>1, AlikeWorld DEF Steps
  <2>3. Agree(p', saved', alp)
    BY <1>5 DEF Agree, Alike
  <2> QED BY <1>1, <1>5, <2>1, <2>2, <2>3 DEF Looped
<1>6. CASE Prepare(FALSE) /\ UNCHANGED saved
  <2>1. p' \in Plan /\ Alike(p, p') /\ Alike(p', p) /\ p'.phase = "SKIPPED"
    BY <1>1, <1>6 DEF Prepare, Plan, Active, Alike
  <2>2. World(p', jobs, alp, shares)
    BY <1>1, <2>1, AlikeWorld DEF Steps
  <2>3. Agree(p', saved, alp)
    BY <1>2, <1>3, <2>1, AlikeTwice DEF Agree
  <2> QED BY <1>1, <1>6, <2>1, <2>2, <2>3 DEF Looped
<1> QED BY <1>4, <1>5, <1>6 DEF TickEntry

LEMMA RequestExitOK ==
  ASSUME TypeOK, World(p, jobs, alp, shares), Agree(p, saved, alp), RequestExit
  PROVE  Looped
<1>1. p \in Plan /\ jobs \in [{0} \cup Tranches -> Job] /\ alp \in [Keys -> Order] /\ saved \in Plan
      /\ UNCHANGED <<jobs, saved>>
  BY DEF TypeOK, RequestExit
<1>2. CASE p.phase \in Active
  <2>1. p' = Ends(p)
    BY <1>2 DEF RequestExit
  <2>2. p' \in Plan /\ Alike(p, p') /\ p'.phase = "EXITING"
    BY <1>1, <2>1, EndsShape
  <2>3. World(p', jobs, alp, shares)
    BY <1>1, <1>2, <2>2, AlikeWorld DEF Steps, Active
  <2>4. Alike(p', p) /\ saved.phase \in Active
    BY <1>2, <2>2 DEF Agree, Alike, Active
  <2>5. Agree(p', saved, alp)
    BY <2>2, <2>4, AlikeTwice DEF Agree, Active
  <2> QED BY <1>1, <2>2, <2>3, <2>5 DEF Looped
<1>3. CASE p.phase = "WAITING_ENTRY"
  <2>1. p' = Skip(p)
    BY <1>3 DEF RequestExit, Active
  <2>2. p' \in Plan /\ Alike(p, p') /\ p'.phase = "SKIPPED"
    BY <1>1, <1>3, <2>1, SkipShape DEF Active
  <2>3. World(p', jobs, alp, shares)
    BY <1>1, <1>3, <2>2, AlikeWorld DEF Steps, Active
  <2>4. Alike(p', p) /\ saved.phase = "WAITING_ENTRY" /\ alp[Entry].st = "none"
    BY <1>3, <2>2 DEF Agree, Alike, Active, World, PhaseOK
  <2>5. Agree(p', saved, alp)
    BY <2>2, <2>4, AlikeTwice DEF Agree
  <2> QED BY <1>1, <2>2, <2>3, <2>5 DEF Looped
<1> QED BY <1>2, <1>3 DEF RequestExit

LEMMA RestartOK ==
  ASSUME TypeOK, World(p, jobs, alp, shares), Agree(p, saved, alp), Restart
  PROVE  Looped
<1>1. p \in Plan /\ jobs \in [{0} \cup Tranches -> Job] /\ alp \in [Keys -> Order] /\ saved \in Plan
      /\ UNCHANGED <<jobs, saved>> /\ p' = saved
  BY DEF TypeOK, Restart
<1>2. Steps(p, saved, alp) /\ Alike(p, saved)
  BY DEF Agree, Steps, Active
<1>3. World(saved, jobs, alp, shares)
  BY <1>1, <1>2, AlikeWorld
<1>4. Agree(p', saved', alp)
  BY <1>1 DEF Agree, Alike
<1> QED BY <1>1, <1>3, <1>4 DEF Looped

LEMMA CrashOK ==
  ASSUME TypeOK, World(p, jobs, alp, shares), Crash
  PROVE  jobs' \in [{0} \cup Tranches -> Job] /\ World(p, jobs', alp, shares)
         /\ \A i \in {0} \cup Tranches : jobs'[i] = NoJob
<1>1. jobs' = [i \in {0} \cup Tranches |-> NoJob]
  BY DEF Crash, TypeOK
<1>2. \A i \in {0} \cup Tranches : jobs'[i] = NoJob
  BY <1>1
<1> QED BY <1>1, <1>2, JobTypes, IdleJobOK DEF World

-----------------------------------------------------------------------------
(* The orders at Alpaca                                                    *)

(* what a step of Alpaca or of the clock keeps                             *)
Traded == alp' \in [Keys -> Order] /\ World(p, jobs, alp', shares') /\ (alp[Entry].st = "none" => alp'[Entry].st = "none")

LEMMA OneMove ==
  ASSUME alp \in [Keys -> Order], NEW k \in Keys, NEW n \in Order, alp' = [alp EXCEPT ![k] = n], Became(alp[k], n),
         alp[k].st # "none"
  PROVE  /\ alp' \in [Keys -> Order] /\ alp'[k] = n /\ \A l \in Keys : Became(alp[l], alp'[l]) /\ (l # k => alp'[l] = alp[l])
         /\ alp[Entry].st = "none" => alp'[Entry].st = "none"
<1>1. alp' \in [Keys -> Order] /\ alp'[k] = n /\ \A l \in Keys : l # k => alp'[l] = alp[l]
  OBVIOUS
<1>2. \A l \in Keys : Became(alp[l], alp'[l])
  BY <1>1 DEF Became
<1>3. alp[Entry].st = "none" => alp'[Entry].st = "none"
  BY <1>1, KeyFacts
<1> QED BY <1>1, <1>2, <1>3

(* An order that lives is the entry, or the one at work for its tranche.    *)
LEMMA Living ==
  ASSUME p \in Plan, NEW a, NEW J, NEW sh, World(p, J, a, sh), NEW k \in Keys, ~Over(a, k)
  PROVE  k = Entry \/ \E t \in Tranches : k = Cur(p, t)
<1> SUFFICES ASSUME k # Entry PROVE \E t \in Tranches : k = Cur(p, t)
  OBVIOUS
<1>1. PICK t \in Tranches : k \in SoldBy(t)
  BY KeyFacts
<1>2. TrancheOK(p, a, t)
  BY DEF World
<1>3. p.tr[t].n \in 0 .. MaxCloses
  BY CurFacts
<1>4. CASE k = Oco(t)
  <2>1. ~p.tr[t].final
    BY <1>2, <1>4 DEF TrancheOK, Settled
  <2>2. p.tr[t].n = 0
    BY <1>2, <1>3, <2>1 DEF TrancheOK
  <2> QED BY <1>4, <2>2 DEF Cur
<1>5. CASE \E j \in 1 .. MaxCloses : k = Close(t, j)
  <2>1. PICK j \in 1 .. MaxCloses : k = Close(t, j)
    BY <1>5
  <2>2. ~(j < p.tr[t].n) /\ ~(j > p.tr[t].n)
    BY <1>2, <2>1 DEF TrancheOK, Settled, Untouched, Over
  <2>3. j = p.tr[t].n
    BY <1>3, <2>2, TriAssumption
  <2> QED BY <2>1, <2>3, TriAssumption DEF Cur
<1> QED BY <1>1, <1>4, <1>5 DEF SoldBy

LEMMA FillOK ==
  ASSUME TypeOK, World(p, jobs, alp, shares), NEW k \in Keys, Fill(k)
  PROVE  Traded
<1>1. p \in Plan /\ jobs \in [{0} \cup Tranches -> Job] /\ alp \in [Keys -> Order] /\ alp[k] \in Order
      /\ OrderOK(alp[k]) /\ alp[k].st = "open" /\ shares \in Int
  BY TriAssumption DEF TypeOK, World, Fill
<1>2. PICK m \in 1 .. alp[k].qty - alp[k].filled :
        /\ alp' = [alp EXCEPT ![k].filled = @ + m,
                              ![k].st = IF alp[k].filled + m = alp[k].qty THEN "final" ELSE "open"]
        /\ shares' = IF k = Entry THEN shares + m ELSE shares - m
  BY DEF Fill
<1> DEFINE x == [alp[k] EXCEPT !.filled = alp[k].filled + m]
           n == [x EXCEPT !.st = IF alp[k].filled + m = alp[k].qty THEN "final" ELSE "open"]
<1>3. alp[k].qty \in 0 .. Ordered /\ alp[k].filled \in Nat /\ m \in Nat /\ m > 0 /\ alp[k].filled + m <= alp[k].qty
  BY <1>1, <1>2, TriAssumption DEF Order, Qty
<1>4. alp[k].filled + m \in Qty
  BY <1>3, TriAssumption DEF Qty
<1>5. x \in Order /\ x.filled = alp[k].filled + m /\ x.qty = alp[k].qty
  BY <1>1, <1>4 DEF Order
<1>6. alp' = [alp EXCEPT ![k] = n]
  BY <1>1, <1>2 DEF Order
<1> HIDE DEF x
<1>7. n \in Order /\ n.filled = alp[k].filled + m /\ n.qty = alp[k].qty
      /\ n.st = IF alp[k].filled + m = alp[k].qty THEN "final" ELSE "open"
  BY <1>5 DEF Order
<1> HIDE DEF n
<1>8. Became(alp[k], n)
  <2>1. OrderOK(n)
    BY <1>3, <1>7 DEF OrderOK
  <2> QED BY <1>1, <1>3, <1>7, <2>1 DEF Became
<1>9. /\ alp' \in [Keys -> Order] /\ alp'[k] = n /\ \A l \in Keys : Became(alp[l], alp'[l]) /\ (l # k => alp'[l] = alp[l])
      /\ alp[Entry].st = "none" => alp'[Entry].st = "none"
  BY <1>1, <1>6, <1>7, <1>8, OneMove
<1>10. SharesOK(p, alp', shares')
  <2>1. CASE k = Entry
    <3>1. alp'[Entry].filled = alp[Entry].filled + m /\ \A l \in Keys : l # Entry => alp'[l] = alp[l]
      BY <1>7, <1>9, <2>1
    <3>2. SharesOK(p, alp', shares + m)
      BY <1>1, <1>3, <1>9, <3>1, EntryFilled
    <3> QED BY <1>2, <2>1, <3>2
  <2>2. CASE k # Entry
    <3>1. PICK t \in Tranches : k = Cur(p, t)
      BY <1>1, <2>2, Living DEF Over
    <3>2. alp'[Cur(p, t)].filled = alp[Cur(p, t)].filled + m /\ \A l \in Keys : l # Cur(p, t) => alp'[l] = alp[l]
      BY <1>7, <1>9, <3>1
    <3>3. SharesOK(p, alp', shares - m)
      BY <1>1, <1>3, <1>9, <3>2, SaleFilled
    <3> QED BY <1>2, <2>2, <3>3
  <2> QED BY <2>1, <2>2
<1>11. World(p, jobs, alp', shares')
  BY <1>1, <1>9, <1>10, MovesOK
<1> QED BY <1>9, <1>11 DEF Traded

(* An order changes its state only.                                        *)
LEMMA Restated ==
  ASSUME TypeOK, World(p, jobs, alp, shares), NEW k \in Keys, NEW st, shares' = shares,
         \/ alp[k].st = "open" /\ st = "final"
         \/ alp[k].st = "wire" /\ st \in {"open", "gone"},
         alp' = [alp EXCEPT ![k].st = st]
  PROVE  Traded
<1>1. p \in Plan /\ jobs \in [{0} \cup Tranches -> Job] /\ alp \in [Keys -> Order] /\ alp[k] \in Order /\ OrderOK(alp[k])
  BY DEF TypeOK, World
<1> DEFINE n == [alp[k] EXCEPT !.st = st]
<1>2. n \in Order /\ n.st = st /\ n.filled = alp[k].filled /\ n.qty = alp[k].qty
  BY <1>1 DEF Order
<1>3. alp' = [alp EXCEPT ![k] = n]
  BY <1>1
<1> HIDE DEF n
<1>4. alp[k].filled \in Nat /\ alp[k].qty \in Nat
  BY <1>1, TriAssumption DEF Order, Qty
<1>5. Became(alp[k], n)
  BY <1>1, <1>2, <1>4 DEF Became, OrderOK
<1>6. /\ alp' \in [Keys -> Order] /\ alp'[k] = n /\ \A l \in Keys : Became(alp[l], alp'[l]) /\ (l # k => alp'[l] = alp[l])
      /\ alp[Entry].st = "none" => alp'[Entry].st = "none"
  <2>1. alp[k].st # "none"
    OBVIOUS
  <2> QED BY <1>1, <1>2, <1>3, <1>5, <2>1, OneMove
<1>7. \A l \in Keys : Became(alp[l], alp'[l]) /\ alp'[l].filled = alp[l].filled
  BY <1>2, <1>6
<1>8. World(p, jobs, alp', shares)
  BY <1>1, <1>6, <1>7, UnfilledMoves
<1> QED BY <1>6, <1>8 DEF Traded

LEMMA ArriveOK ==
  ASSUME TypeOK, World(p, jobs, alp, shares), NEW k \in Keys, Arrive(k)
  PROVE  Traded
<1>1. PICK st \in {"open", "gone"} : alp' = [alp EXCEPT ![k].st = st]
  BY DEF Arrive
<1>2. alp[k].st = "wire" /\ shares' = shares
  BY DEF Arrive
<1> QED BY <1>1, <1>2, Restated

LEMMA KillOK ==
  ASSUME TypeOK, World(p, jobs, alp, shares), NEW t \in Tranches, Kill(t)
  PROVE  Traded
<1>1. alp[Oco(t)].st = "open" /\ alp' = [alp EXCEPT ![Oco(t)].st = "final"] /\ shares' = shares /\ Oco(t) \in Keys
  BY KeyFacts DEF Kill
<1> QED BY <1>1, Restated

LEMMA LaterOK ==
  ASSUME TypeOK, World(p, jobs, alp, shares), Later
  PROVE  Traded
<1>1. p \in Plan /\ jobs \in [{0} \cup Tranches -> Job] /\ alp \in [Keys -> Order] /\ \A k \in Keys : OrderOK(alp[k])
  BY DEF TypeOK, World
<1>2. /\ alp' = [k \in Keys |-> IF now' = CLOSED /\ alp[k].st = "open" /\ k[1] # "oco"
                                THEN [alp[k] EXCEPT !.st = "final"] ELSE alp[k]]
      /\ shares' = shares
  BY DEF Later
<1>3. \A k \in Keys : /\ alp'[k] \in Order /\ alp'[k].filled = alp[k].filled /\ Became(alp[k], alp'[k])
                      /\ (alp[k].st = "none" => alp'[k] = alp[k])
  <2> TAKE k \in Keys
  <2>1. CASE now' = CLOSED /\ alp[k].st = "open" /\ k[1] # "oco"
    <3> DEFINE n == [alp[k] EXCEPT !.st = "final"]
    <3>1. alp'[k] = n
      BY <1>2, <2>1
    <3>2. n \in Order /\ n.st = "final" /\ n.filled = alp[k].filled /\ n.qty = alp[k].qty /\ alp[k].filled \in Nat
          /\ alp[k].qty \in Nat
      BY <1>1, TriAssumption DEF Order, Qty
    <3> HIDE DEF n
    <3>3. Became(alp[k], n)
      BY <1>1, <2>1, <3>2 DEF Became, OrderOK
    <3> QED BY <2>1, <3>1, <3>2, <3>3
  <2>2. CASE ~(now' = CLOSED /\ alp[k].st = "open" /\ k[1] # "oco")
    <3>1. alp'[k] = alp[k]
      BY <1>2, <2>2
    <3> QED BY <1>1, <3>1 DEF Became
  <2> QED BY <2>1, <2>2
<1>4. alp' \in [Keys -> Order]
  BY <1>2, <1>3
<1>5. World(p, jobs, alp', shares)
  BY <1>1, <1>3, <1>4, UnfilledMoves
<1>6. alp[Entry].st = "none" => alp'[Entry].st = "none"
  BY <1>3, KeyFacts
<1> QED BY <1>2, <1>4, <1>5, <1>6 DEF Traded

-----------------------------------------------------------------------------
(* The invariant                                                           *)

Written == Tick => saved' = p'

LEMMA InitHolds ==
  ASSUME Init PROVE IInv
<1>1. NoJob \in Job /\ NoJob.at = "idle" /\ 0 \in Qty /\ Ordered \in Nat /\ Ordered > 0 /\ MaxCloses \in Nat /\ MaxFaults \in Nat
  BY JobTypes, TriAssumption
<1>2. NoTranche \in Tranche /\ NoTranche.qty = 0 /\ NoTranche.closed = 0 /\ ~NoTranche.bound /\ ~NoTranche.final /\ NoTranche.n = 0
  BY <1>1 DEF NoTranche, Tranche
<1>3. New \in Rec /\ New.booked = 0 /\ ~New.final /\ New.final = FALSE
  BY <1>1 DEF New, Rec
<1>4. p = Waiting /\ saved = Waiting /\ jobs = [i \in {0} \cup Tranches |-> NoJob] /\ shares = 0
      /\ alp = [k \in Keys |-> [st |-> "none", filled |-> 0, qty |-> 0]]
  BY DEF Init
<1>5. alp \in [Keys -> Order] /\ \A k \in Keys : alp[k].st = "none" /\ alp[k].filled = 0 /\ alp[k].qty = 0
  BY <1>1, <1>4 DEF Order
<1>6. jobs \in [{0} \cup Tranches -> Job] /\ \A i \in {0} \cup Tranches : jobs[i] = NoJob
  BY <1>1, <1>4
<1> HIDE DEF NoTranche, New, NoJob
<1>7. /\ p \in Plan /\ p.phase = "WAITING_ENTRY" /\ ~p.final /\ p.final = FALSE
      /\ (\A t \in Tranches : p.tr[t] = NoTranche) /\ (\A k \in Keys : p.ord[k] = New)
  BY <1>2, <1>3, <1>4 DEF Waiting, Plan
<1>8. TypeOK
  <2>1. now \in DUE .. NEXT
    BY DEF Init, DUE, NEXT
  <2>2. shares \in -Ordered .. Ordered /\ faults \in 0 .. MaxFaults
    BY <1>1 DEF Init
  <2> QED BY <1>4, <1>5, <1>6, <1>7, <2>1, <2>2 DEF TypeOK, Init
<1>9. \A k \in Keys : OrderOK(alp[k]) /\ Over(alp, k) /\ Ahead(alp, k) = 0
  BY <1>5 DEF OrderOK, Over, Ahead
<1>10. \A t \in Tranches : Opened(p) = {} /\ p.tr[t].qty = 0
  BY <1>2, <1>7 DEF Opened
<1>11. Opened(p) = {}
  BY <1>10, TrancheFacts
<1>12. Given(p) = 0
  BY <1>7, <1>10, GivenFacts
<1>13. Filled(p) = 0 /\ EntryOK(p, alp)
  <2>1. Entry \in Keys
    BY KeyFacts
  <2>2. p.ord[Entry] = New /\ alp[Entry].filled = 0
    BY <1>5, <1>7, <2>1
  <2>3. p.ord[Entry].booked = 0 /\ p.ord[Entry].final = p.final
    BY <1>3, <1>7, <2>2
  <2> QED BY <1>7, <2>2, <2>3 DEF Filled, EntryOK
<1>14. PartsOK(p)
  <2>1. Opened(p) = 1 .. 0 /\ 0 \in 0 .. Ordered
    BY <1>1, <1>11
  <2> QED BY <1>7, <1>12, <1>13, <2>1 DEF PartsOK
<1>15. PhaseOK(p, alp)
  BY <1>5, <1>7, <1>9, <1>11, KeyFacts DEF PhaseOK
<1>16. \A t \in Tranches : TrancheOK(p, alp, t) /\ Sold(p, alp, t) = 0
  <2> TAKE t \in Tranches
  <2>1. /\ p.tr[t].qty = 0 /\ p.tr[t].closed = 0 /\ ~p.tr[t].bound /\ ~p.tr[t].final /\ p.tr[t].n = 0
    BY <1>2, <1>7
  <2>2. \A k \in SoldBy(t) : p.ord[k] = New /\ alp[k].st = "none" /\ alp[k].filled = 0 /\ RecOK(p, alp, k)
    BY <1>3, <1>5, <1>7, KeyFacts DEF RecOK
  <2>3. Cur(p, t) \in SoldBy(t) /\ Cur(p, t) \in Keys
    BY <1>7, CurFacts
  <2>4. Sold(p, alp, t) = 0 /\ Ahead(alp, Cur(p, t)) = 0
    BY <1>3, <1>9, <2>1, <2>2, <2>3 DEF Sold
  <2>5. \A k \in SoldBy(t) : Untouched(p, alp, k)
    BY <2>2 DEF Untouched
  <2>6. \A i \in 1 .. MaxCloses : Untouched(p, alp, Close(t, i)) /\ ~(i < p.tr[t].n)
    BY <2>1, <2>5, KeyFacts
  <2>7. Untouched(p, alp, Oco(t))
    BY <2>5, KeyFacts
  <2>8. p.ord[Cur(p, t)].booked <= p.tr[t].closed
    BY <1>3, <2>1, <2>2, <2>3
  <2>9. Sold(p, alp, t) + Ahead(alp, Cur(p, t)) <= p.tr[t].qty
    BY <2>1, <2>4
  <2> QED BY <2>1, <2>2, <2>4, <2>6, <2>7, <2>8, <2>9 DEF TrancheOK
<1>17. SharesOK(p, alp, shares)
  <2> DEFINE f == [t \in Tranches |-> Sold(p, alp, t)]
  <2>1. DOMAIN f = Tranches /\ \A t \in Tranches : f[t] = 0
    BY <1>16
  <2>2. SumFunction(f) = 0
    <3> HIDE DEF f
    <3> QED BY <2>1, SumFunctionIs, SumZero, TrancheFacts
  <2>3. alp[Entry].filled = 0
    BY <1>5, KeyFacts
  <2>4. shares = alp[Entry].filled - SumFunction(f)
    <3> HIDE DEF f
    <3> QED BY <1>4, <2>2, <2>3
  <2> QED BY <2>4 DEF SharesOK
<1>18. (\A t \in Tranches : JobOK(p, jobs[t], alp, t)) /\ EntryJobOK(p, jobs[0], alp)
  BY <1>6, IdleJobOK
<1>19. World(p, jobs, alp, shares)
  BY <1>9, <1>13, <1>14, <1>15, <1>16, <1>17, <1>18 DEF World
<1>20. Agree(p, saved, alp)
  BY <1>4 DEF Agree, Alike
<1> QED BY <1>6, <1>8, <1>19, <1>20 DEF IInv

LEMMA StepKeeps ==
  ASSUME ~LateArrival, IInv, [Next]_vars, Written PROVE IInv'
<1>1. /\ TypeOK /\ World(p, jobs, alp, shares) /\ Agree(p, saved, alp)
      /\ ~up => \A i \in {0} \cup Tranches : jobs[i] = NoJob
  BY DEF IInv
<1>2. p \in Plan /\ saved \in Plan /\ jobs \in [{0} \cup Tranches -> Job] /\ alp \in [Keys -> Order]
      /\ now \in DUE .. NEXT /\ up \in BOOLEAN /\ shares \in -Ordered .. Ordered /\ faults \in 0 .. MaxFaults
  BY <1>1 DEF TypeOK
<1> DEFINE Clock == now' \in DUE .. NEXT /\ faults' \in 0 .. MaxFaults
           Same == UNCHANGED <<now, faults>>
<1>3. ASSUME p' \in Plan, saved' \in Plan, jobs' \in [{0} \cup Tranches -> Job], alp' \in [Keys -> Order],
             Clock, up' \in BOOLEAN, World(p', jobs', alp', shares'), Agree(p', saved', alp'),
             ~up' => \A i \in {0} \cup Tranches : jobs'[i] = NoJob
      PROVE  IInv'
  <2>1. shares' \in 0 .. Ordered
    BY <1>3, SharesBound
  <2>2. shares' \in -Ordered .. Ordered
    BY <2>1, TriAssumption
  <2>3. TypeOK'
    BY <1>3, <2>2 DEF TypeOK
  <2> QED BY <1>3, <2>3 DEF IInv, World, EntryOK, PartsOK, PhaseOK, SharesOK, TrancheOK, JobOK, EntryJobOK, Agree
<1>4. Fails \/ Unfaulty => faults' \in 0 .. MaxFaults
  BY <1>2, TriAssumption DEF Fails, Unfaulty
<1>5. ASSUME Looped, UNCHANGED <<alp, shares>>, Clock, up' = TRUE PROVE IInv'
  <2>1. /\ p' \in Plan /\ jobs' \in [{0} \cup Tranches -> Job] /\ World(p', jobs', alp, shares)
        /\ saved' \in Plan /\ Agree(p', saved', alp)
    BY <1>5 DEF Looped
  <2>2. World(p', jobs', alp', shares') /\ Agree(p', saved', alp') /\ alp' \in [Keys -> Order]
    BY <1>2, <1>5, <2>1
  <2> QED BY <1>3, <1>5, <2>1, <2>2
<1>6. ASSUME Worked, UNCHANGED <<p, saved, shares>>, Clock, up' = TRUE PROVE IInv'
  <2>1. /\ alp' \in [Keys -> Order] /\ jobs' \in [{0} \cup Tranches -> Job] /\ World(p, jobs', alp', shares)
        /\ alp[Entry].st = "none" /\ p.phase \notin Active => alp'[Entry].st = "none"
    BY <1>6 DEF Worked
  <2>2. Agree(p, saved, alp')
    BY <1>1, <2>1 DEF Agree, Active
  <2>3. World(p', jobs', alp', shares') /\ Agree(p', saved', alp')
    BY <1>6, <2>1, <2>2
  <2> QED BY <1>2, <1>3, <1>6, <2>1, <2>3
<1>7. ASSUME Traded, UNCHANGED <<p, saved, jobs, up>>, Clock PROVE IInv'
  <2>1. alp' \in [Keys -> Order] /\ World(p, jobs, alp', shares') /\ (alp[Entry].st = "none" => alp'[Entry].st = "none")
    BY <1>7 DEF Traded
  <2>2. Agree(p, saved, alp')
    BY <1>1, <2>1 DEF Agree
  <2>3. World(p', jobs', alp', shares') /\ Agree(p', saved', alp')
    BY <1>7, <2>1, <2>2
  <2> QED BY <1>1, <1>2, <1>3, <1>7, <2>1, <2>3
<1>8. CASE Tick
  <2>1. saved' = p'
    BY <1>8 DEF Written
  <2>2. Looped
    BY <1>1, <1>8, <2>1, TickOK
  <2>3. Fails \/ Unfaulty
    BY <1>8 DEF Tick, Saves
  <2>4. Clock /\ up' = TRUE /\ UNCHANGED <<alp, shares>>
    BY <1>2, <1>4, <1>8, <2>3 DEF Tick
  <2> QED BY <1>5, <2>2, <2>4
<1>9. CASE TickEntry
  <2>1. Looped
    BY <1>1, <1>9, TickEntryOK
  <2>2. Fails \/ Unfaulty
    BY <1>9 DEF TickEntry
  <2>3. Clock /\ up' = TRUE /\ UNCHANGED <<alp, shares>>
    BY <1>2, <1>4, <1>9, <2>2 DEF TickEntry
  <2> QED BY <1>5, <2>1, <2>3
<1>10. CASE RequestExit
  <2>1. Looped
    BY <1>1, <1>10, RequestExitOK
  <2>2. Clock /\ up' = TRUE /\ UNCHANGED <<alp, shares>>
    BY <1>2, <1>10 DEF RequestExit
  <2> QED BY <1>5, <2>1, <2>2
<1>11. CASE Restart
  <2>1. Looped
    BY <1>1, <1>11, RestartOK
  <2>2. Clock /\ up' = TRUE /\ UNCHANGED <<alp, shares>>
    BY <1>2, <1>11 DEF Restart
  <2> QED BY <1>5, <2>1, <2>2
<1>12. CASE Crash
  <2>1. /\ jobs' \in [{0} \cup Tranches -> Job] /\ World(p, jobs', alp, shares)
        /\ \A i \in {0} \cup Tranches : jobs'[i] = NoJob
    BY <1>1, <1>12, CrashOK
  <2>2. Clock /\ up' = FALSE /\ UNCHANGED <<p, saved, alp, shares>>
    BY <1>2, <1>4, <1>12 DEF Crash
  <2>3. World(p', jobs', alp', shares') /\ Agree(p', saved', alp')
    BY <1>1, <2>1, <2>2
  <2> QED BY <1>2, <1>3, <2>1, <2>2, <2>3
<1>13. ASSUME NEW i \in {0} \cup Tranches, Work(i) PROVE IInv'
  <2>1. Worked
    BY <1>1, <1>13, WorkOK
  <2>2. Fails \/ Unfaulty
    BY <1>13 DEF Work, Ask, AskEntry, AskProtect, AskToClose, Send, ReadOrder, Unfaulty
  <2>3. Clock /\ up' = TRUE /\ UNCHANGED <<p, saved, shares>>
    BY <1>2, <1>4, <1>13, <2>2 DEF Work
  <2> QED BY <1>6, <2>1, <2>3
<1>14. ASSUME NEW i \in {0} \cup Tranches, Unread(i) PROVE IInv'
  <2>1. Worked
    BY <1>1, <1>14, UnreadOK
  <2>2. Clock /\ up' = TRUE /\ UNCHANGED <<p, saved, shares>>
    BY <1>2, <1>4, <1>14 DEF Unread
  <2> QED BY <1>6, <2>1, <2>2
<1>15. ASSUME NEW k \in Keys, Fill(k) PROVE IInv'
  <2>1. Traded
    BY <1>1, <1>15, FillOK
  <2>2. Clock /\ UNCHANGED <<p, saved, jobs, up>>
    BY <1>2, <1>15 DEF Fill
  <2> QED BY <1>7, <2>1, <2>2
<1>16. ASSUME NEW k \in Keys, Arrive(k) PROVE IInv'
  <2>1. Traded
    BY <1>1, <1>16, ArriveOK
  <2>2. Clock /\ UNCHANGED <<p, saved, jobs, up>>
    BY <1>2, <1>16 DEF Arrive
  <2> QED BY <1>7, <2>1, <2>2
<1>17. ASSUME NEW t \in Tranches, Kill(t) PROVE IInv'
  <2>1. Traded
    BY <1>1, <1>17, KillOK
  <2>2. Clock /\ UNCHANGED <<p, saved, jobs, up>>
    BY <1>2, <1>4, <1>17 DEF Kill
  <2> QED BY <1>7, <2>1, <2>2
<1>18. CASE Later
  <2>1. Traded
    BY <1>1, <1>18, LaterOK
  <2>2. Clock /\ UNCHANGED <<p, saved, jobs, up>>
    <3>1. now \in Int /\ now >= DUE /\ now < NEXT /\ now' = now + 1
      BY <1>2, <1>18 DEF Later, DUE, NEXT
    <3>2. now' \in DUE .. NEXT
      BY <3>1 DEF DUE, NEXT
    <3> QED BY <1>2, <1>18, <3>2 DEF Later
  <2> QED BY <1>7, <2>1, <2>2
<1>19. CASE UNCHANGED vars
  <2>1. UNCHANGED <<now, up, p, saved, jobs, alp, shares, faults>>
    BY <1>19 DEF vars
  <2>2. World(p', jobs', alp', shares') /\ Agree(p', saved', alp')
    BY <1>1, <2>1
  <2>3. ~up' => \A i \in {0} \cup Tranches : jobs'[i] = NoJob
    BY <1>1, <2>1
  <2> QED BY <1>2, <1>3, <2>1, <2>2, <2>3
<1> QED BY <1>8, <1>9, <1>10, <1>11, <1>12, <1>13, <1>14, <1>15, <1>16, <1>17, <1>18, <1>19 DEF Next

-----------------------------------------------------------------------------
(* What it means                                                           *)

LEMMA EmptyTranche ==
  ASSUME p \in Plan, alp \in [Keys -> Order], World(p, jobs, alp, shares), NEW t \in Tranches,
         p.tr[t].closed = p.tr[t].qty
  PROVE  Sold(p, alp, t) = p.tr[t].qty /\ \A k \in SoldBy(t) : Over(alp, k)
<1>1. TrancheOK(p, alp, t) /\ (\A l \in Keys : OrderOK(alp[l])) /\ p.tr[t] \in Tranche
      /\ Cur(p, t) \in Keys /\ Cur(p, t) \in SoldBy(t)
  BY CurFacts DEF World
<1> DEFINE k == Cur(p, t)
<1>2. p.ord[k].booked \in Nat /\ p.tr[t].closed \in Nat /\ p.tr[t].qty \in Nat /\ alp[k].filled \in Nat /\ alp[k].qty \in Nat
  BY <1>1, TriAssumption DEF Plan, Rec, Tranche, Qty, Order
<1>3. RecOK(p, alp, k) /\ Sold(p, alp, t) + Ahead(alp, k) <= p.tr[t].qty /\ OrderOK(alp[k])
  BY <1>1 DEF TrancheOK
<1>4. Sold(p, alp, t) = p.tr[t].closed + alp[k].filled - p.ord[k].booked
  BY DEF Sold
<1>5. alp[k].filled >= p.ord[k].booked
  BY <1>2, <1>3 DEF RecOK
<1> HIDE DEF k
<1>6. Ahead(alp, k) \in Nat /\ (~Over(alp, k) => Ahead(alp, k) > 0)
  BY <1>2, <1>3 DEF Ahead, Over, OrderOK
<1>7. Sold(p, alp, t) = p.tr[t].qty /\ Over(alp, k)
  BY <1>2, <1>3, <1>4, <1>5, <1>6
<1>8. \A l \in SoldBy(t) : Over(alp, l)
  <2> TAKE l \in SoldBy(t)
  <2> SUFFICES ASSUME ~Over(alp, l) PROVE FALSE
    OBVIOUS
  <2>1. l \in Keys /\ l # Entry
    BY KeyFacts
  <2>2. PICK u \in Tranches : l = Cur(p, u)
    BY <2>1, Living
  <2>3. l \in SoldBy(u)
    BY <2>2, CurFacts
  <2>4. u = t
    BY <2>3, KeyFacts
  <2> QED BY <1>7, <2>2, <2>4 DEF k
<1> QED BY <1>7, <1>8

LEMMA PlanIsRealThen ==
  ASSUME IInv PROVE PlanIsReal
<1>1. p \in Plan /\ jobs \in [{0} \cup Tranches -> Job] /\ alp \in [Keys -> Order] /\ World(p, jobs, alp, shares)
  BY DEF IInv, TypeOK
<1>2. shares \in Nat
  BY <1>1, SharesBound, TriAssumption
<1>3. BookIsReal
  <2>1. \A t \in Tranches : p.tr[t].closed <= p.tr[t].qty
    <3> TAKE t \in Tranches
    <3>1. TrancheOK(p, alp, t) /\ OrderOK(alp[Cur(p, t)])
      BY <1>1, CurFacts DEF World
    <3> QED BY <1>1, <3>1, LeftFacts
  <2>2. \A k \in Keys : p.ord[k].booked <= alp[k].filled
    <3> TAKE k \in Keys
    <3>1. CASE k = Entry
      BY <1>1, <3>1 DEF World, EntryOK
    <3>2. CASE k # Entry
      <4>1. PICK t \in Tranches : k \in SoldBy(t)
        BY <3>2, KeyFacts
      <4> QED BY <1>1, <4>1 DEF World, TrancheOK, RecOK
    <3> QED BY <3>1, <3>2
  <2>3. Given(p) <= Filled(p)
    BY <1>1 DEF World, PartsOK
  <2> QED BY <1>2, <2>1, <2>2, <2>3 DEF BookIsReal
<1>4. NothingLeft
  <2> SUFFICES ASSUME p.phase \notin Active PROVE shares = 0 /\ \A k \in Keys : Over(alp, k)
    BY DEF NothingLeft, Over
  <2> DEFINE f == [t \in Tranches |-> Sold(p, alp, t)]
             g == [t \in Tranches |-> p.tr[t].qty]
  <2>1. p.phase \in {"WAITING_ENTRY", "SKIPPED", "CLOSED"}
    BY <1>1 DEF Plan, Active
  <2>2. \A t \in Tranches : p.tr[t].qty \in Nat /\ (t \notin Opened(p) => p.tr[t].qty = 0 /\ p.tr[t].closed = 0)
    <3> TAKE t \in Tranches
    <3>1. p.tr[t].qty \in Nat /\ TrancheOK(p, alp, t)
      BY <1>1, GivenFacts DEF World
    <3>2. t \notin Opened(p) => p.tr[t].qty = 0
      BY <3>1 DEF Opened
    <3> QED BY <3>1, <3>2 DEF TrancheOK
  <2>3. \A t \in Tranches : p.tr[t].closed = p.tr[t].qty
    <3>1. p.phase = "CLOSED" => \A t \in Opened(p) : p.tr[t].closed = p.tr[t].qty
      BY <1>1 DEF World, PhaseOK, Ended
    <3>2. p.phase # "CLOSED" => Opened(p) = {}
      BY <1>1, <2>1 DEF World, PhaseOK
    <3> QED BY <2>2, <3>1, <3>2
  <2>4. \A t \in Tranches : Sold(p, alp, t) = p.tr[t].qty /\ \A k \in SoldBy(t) : Over(alp, k)
    BY <1>1, <2>3, EmptyTranche
  <2>5. Over(alp, Entry) /\ alp[Entry].filled = Given(p)
    <3>1. CASE p.phase = "CLOSED"
      <4>1. p.final /\ Opened(p) # {}
        BY <1>1, <3>1 DEF World, PhaseOK, Ended
      <4>2. Settled(p, alp, Entry) /\ Given(p) = Filled(p)
        BY <1>1, <4>1 DEF World, EntryOK, PartsOK
      <4> QED BY <4>2 DEF Settled, Filled
    <3>2. CASE p.phase # "CLOSED"
      <4>1. Opened(p) = {} /\ Over(alp, Entry) /\ alp[Entry].filled = 0
        BY <1>1, <2>1, <3>2 DEF World, PhaseOK
      <4>2. Given(p) = 0
        BY <1>1, <2>2, <4>1, GivenFacts
      <4> QED BY <4>1, <4>2
    <3> QED BY <3>1, <3>2
  <2>6. f = g
    BY <2>4
  <2>7. shares = alp[Entry].filled - SumFunction(f) /\ Given(p) = SumFunction(g) /\ Given(p) \in Nat
    BY <1>1, GivenFacts DEF World, SharesOK, Given
  <2> HIDE DEF f, g
  <2>8. shares = 0
    BY <2>5, <2>6, <2>7
  <2>9. \A k \in Keys : Over(alp, k)
    BY <2>4, <2>5, KeyFacts
  <2> QED BY <2>8, <2>9
<1> QED BY <1>3, <1>4 DEF PlanIsReal

(* A plan that is over has left no share and no living order at Alpaca,    *)
(* and its book has only shares that were traded, each once and within its *)
(* tranche, whatever answer or process is lost, where each tick's          *)
(* checkpoint is written (tri_execution.py, _prepare_entry, _book,         *)
(* _close_tranche, _maybe_complete; section 7 of the README has the ticks  *)
(* whose checkpoints fail).                                                *)
THEOREM PlanStaysReal == ~LateArrival => (Spec /\ [][Written]_vars => []PlanIsReal)
<1> SUFFICES ASSUME ~LateArrival PROVE Spec /\ [][Written]_vars => []PlanIsReal
  OBVIOUS
<1>1. Init => IInv
  BY InitHolds
<1>2. IInv /\ [Next]_vars /\ [Written]_vars => IInv'
  <2>1. UNCHANGED vars => Written
    BY DEF vars, Written, Tick, Saves
  <2>2. IInv /\ [Next]_vars /\ Written => IInv'
    BY StepKeeps
  <2> QED BY <2>1, <2>2
<1>3. IInv => PlanIsReal
  BY PlanIsRealThen
<1> QED BY <1>1, <1>2, <1>3, PTL DEF Spec
=============================================================================
