--------------------------------- MODULE NewsRead ---------------------------------
(***************************************************************************)
(* The news the ORB selection asks for: batches of symbols, each read page *)
(* by page with a few attempts a page, all under one time budget, and one  *)
(* verdict a symbol out of whatever was found.                             *)
(* Source: strategies/orbs/adaptive.py (fetch_earnings_headlines,          *)
(* _relay_page).                                                           *)
(*                                                                         *)
(* One symbol a batch and one article a page, the newest page first.  An   *)
(* article is its tier: T3 (dilution), T1 (a beat), none, or one outside   *)
(* of the forty-eight hours.                                               *)
(***************************************************************************)
EXTENDS Integers, FiniteSets

CONSTANTS
  Batches, Pages,       \* numbers of batches and of pages in one
  Attempts, PageCap,    \* NEWS_PAGE_ATTEMPTS, NEWS_PAGE_CAP
  PerTry, Budget,       \* of one attempt, budget_s
  Pauses,               \* between attempts
  MaxFaults             \* bound

Tiers == {"T3", "T1"}
None  == "none"

VARIABLES
  world,    \* the articles the provider has
  now,
  at,       \* the page asked for, and how many of the batch were read
  attempt,
  until,    \* when the attempt or the pause ends at the latest
  st,       \* "asking", "pausing", "done" or "error"
  rows,     \* candidates: the places and tiers collected
  found,    \* the verdicts
  faults

vars == <<world, now, at, attempt, until, st, rows, found, faults>>

Article == Tiers \cup {None, "outside"}
Row     == [batch : 1 .. Batches, page : 1 .. Pages, tier : Tiers]

TypeOK ==
  /\ world \in [1 .. Batches -> [1 .. Pages -> Article]] /\ now \in Nat
  /\ at \in [batch : 1 .. Batches, page : 1 .. Pages, read : 0 .. PageCap]
  /\ attempt \in 1 .. Attempts /\ st \in {"asking", "pausing", "done", "error"}
  /\ rows \subseteq Row /\ faults \in 0 .. MaxFaults

Smaller(a, b) == IF a < b THEN a ELSE b

Init ==
  /\ world \in [1 .. Batches -> [1 .. Pages -> Article]]
  /\ now = 0 /\ at = [batch |-> 1, page |-> 1, read |-> 0] /\ attempt = 1
  /\ until = Smaller(PerTry, Budget) /\ st = "asking"
  /\ rows = {} /\ found = <<>> /\ faults = 0

-----------------------------------------------------------------------------
(* The verdict                                                             *)

Priority == [T3 |-> 4, T1 |-> 3]

(* Fault: the newest row wins.                                             *)
NewestRow(mine) == CHOOSE r \in mine : \A s \in mine : r.page <= s.page

\* By tier, then by time: a page that comes later is older
Chosen(mine) ==
  CHOOSE r \in mine : \A s \in mine :
    Priority[r.tier] > Priority[s.tier] \/ (Priority[r.tier] = Priority[s.tier] /\ r.page <= s.page)

Verdicts(all) ==
  [b \in {r.batch : r \in all} |-> Chosen({r \in all : r.batch = b}).tier]

-----------------------------------------------------------------------------
(* The read                                                                *)

RowsOf(b, p) == IF world[b][p] \in Tiers THEN {[batch |-> b, page |-> p, tier |-> world[b][p]]} ELSE {}

\* The next page is asked for if time is left and the cap is not reached
Ask(place) ==
  /\ at' = place /\ attempt' = 1
  /\ IF now >= Budget \/ place.read >= PageCap
     THEN st' = "error" /\ UNCHANGED until
     ELSE st' = "asking" /\ until' = Smaller(now + PerTry, Budget)

(* Fault: the last page of a batch ends the read.                          *)
LastOfItsBatch(place) == place.page = Pages

LastPage(place) == place.page = Pages /\ place.batch = Batches

\* loops: the token of the next page leads back to this one
Answered(loops) ==
  LET all  == rows \cup RowsOf(at.batch, at.page)
      read == at.read + 1 IN
  /\ st = "asking"
  /\ loops => faults < MaxFaults
  /\ faults' = IF loops THEN faults + 1 ELSE faults
  /\ rows' = all
  /\ IF loops THEN Ask([at EXCEPT !.read = read]) /\ UNCHANGED found
     ELSE IF LastPage(at)
     THEN st' = "done" /\ found' = Verdicts(all) /\ UNCHANGED <<at, attempt, until>>
     ELSE /\ Ask(IF at.page < Pages THEN [at EXCEPT !.page = @ + 1, !.read = read]
                 ELSE [batch |-> at.batch + 1, page |-> 1, read |-> 0])
          /\ UNCHANGED found
  /\ UNCHANGED <<world, now>>

\* A transport error, or a status that may be tried again
Glitch(pause) ==
  /\ st = "asking" /\ faults < MaxFaults
  /\ faults' = faults + 1
  /\ IF attempt >= Attempts \/ pause > Budget - now
     THEN st' = "error" /\ UNCHANGED <<attempt, until>>
     ELSE st' = "pausing" /\ attempt' = attempt + 1 /\ until' = now + pause
  /\ UNCHANGED <<world, now, at, rows, found>>

Again ==
  /\ st = "pausing" /\ now = until
  /\ IF now >= Budget THEN st' = "error" /\ UNCHANGED until
     ELSE st' = "asking" /\ until' = Smaller(now + PerTry, Budget)
  /\ UNCHANGED <<world, now, at, attempt, rows, found, faults>>

\* Another status, a malformed page, an article without a time: the caller sits the wave out
Defect ==
  /\ st = "asking" /\ faults < MaxFaults
  /\ faults' = faults + 1 /\ st' = "error"
  /\ UNCHANGED <<world, now, at, attempt, until, rows, found>>

Tick ==
  /\ st \in {"asking", "pausing"} /\ now < until
  /\ now' = now + 1
  /\ UNCHANGED <<world, at, attempt, until, st, rows, found, faults>>

Next ==
  \/ \E loops \in BOOLEAN : Answered(loops)
  \/ \E pause \in Pauses : Glitch(pause)
  \/ Again \/ Defect \/ Tick

Spec == Init /\ [][Next]_vars

-----------------------------------------------------------------------------
(* Properties                                                              *)

(* News is whole or it is none: a read that ends with verdicts has every   *)
(* page of every batch in them, and an offering within the hours asked for *)
(* is a symbol's verdict whatever else is said of it.  A read that cannot  *)
(* be completed ends without a verdict, and in time.                       *)
NewsIsWhole ==
  /\ st = "done" => \A b \in 1 .. Batches :
       LET tiers == {world[b][p] : p \in 1 .. Pages} IN
       IF tiers \cap Tiers = {} THEN b \notin DOMAIN found
       ELSE b \in DOMAIN found /\ found[b] = IF "T3" \in tiers THEN "T3" ELSE "T1"
  /\ st # "done" => found = <<>>
  /\ now <= Budget

=============================================================================
