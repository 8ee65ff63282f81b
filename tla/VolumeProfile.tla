------------------------------- MODULE VolumeProfile -------------------------------
(***************************************************************************)
(* The volume profile of one stock: built for a session from the bars of   *)
(* the sessions before it by a task that a later session supersedes, cut   *)
(* into nodes of high volume, and asked for what a dip landed on and what  *)
(* stands in the way.                                                      *)
(* Sources: core/volume_profile.py, main.py (rebuild_volume_profiles,      *)
(* _schedule_profile_rebuild).                                             *)
(*                                                                         *)
(* Prices are in halves of a bucket and a session is its set of bars; the  *)
(* reference close, invalid bars and bars of thousands of buckets are left *)
(* out, and the deadline is one of the ways a build fails.                 *)
(***************************************************************************)
EXTENDS Integers, FiniteSets, FiniteSetsExt, Sequences, SequencesExt

CONSTANTS
  Trading,        \* for each day whether the exchange opens
  Markets,        \* the sets of bars a session may have
  Sessions,       \* VOLUME_PROFILE_SESSIONS
  MinBars,        \* min_bars_per_session
  Top,            \* the highest bucket
  MaxFaults       \* bound: lost bars, failed builds, restarts

Days == DOMAIN Trading

VARIABLES
  hist,     \* ghost: the bars of every day
  day,
  gen,      \* profile_generation
  tasks,    \* rebuilds at work: their generation, session and bars
  store,    \* the profile kept: none or one
  faults

vars == <<hist, day, gen, tasks, store, faults>>

\* A bar is its low, high and volume
BarType == [low : 0 .. 2 * Top, high : 0 .. 2 * Top, vol : Nat]
Task    == [gen : Nat, for : Days, bars : [Days -> SUBSET BarType]]
Node    == [low : 0 .. Top, high : 0 .. Top + 1, vol : Nat]

\* What the market may have done: a day without a session has no bars
Histories == {h \in [Days -> Markets \cup {{}}] : \A d \in Days : h[d] = {} <=> ~Trading[d]}

TypeOK ==
  /\ hist \in Histories /\ day \in Days /\ gen \in Nat /\ faults \in 0 .. MaxFaults
  /\ \A t \in tasks : t.gen \in 0 .. gen /\ t.for \in Days
  /\ Cardinality(store) <= 1 /\ \A p \in store : p.for \in Days /\ p.nodes \subseteq Node

-----------------------------------------------------------------------------
(* The profile                                                             *)

Buckets == 0 .. Top

\* The sessions a profile is made of: the last ones before its day, or too few
Before(d)   == {c \in Days : c < d /\ Trading[c]}
Expected(d) == {c \in Before(d) : Cardinality({e \in Before(d) : e >= c}) <= Sessions}

Over(a, b) == IF a > b THEN a ELSE b
Least(a, b) == IF a < b THEN a ELSE b

\* Twelfths of a bar's volume that fall into a bucket, by the length of its range in it
Share(bar, i) ==
  LET span == bar.high - bar.low IN
  IF span = 0 THEN IF bar.low \div 2 = i THEN 12 * bar.vol ELSE 0
  ELSE (Over(0, Least(bar.high, 2 * i + 2) - Over(bar.low, 2 * i)) * 12 * bar.vol) \div span

Volume(bars, i) == MapThenSumSet(LAMBDA bar : Share(bar, i), bars)

\* Twice the median of the buckets that are not empty
Median2(v) ==
  LET s == SortSeq(SelectSeq([i \in 1 .. Top + 1 |-> v[i - 1]], LAMBDA x : x > 0), <)
      n == Len(s) IN
  IF n % 2 = 1 THEN 2 * s[n \div 2 + 1] ELSE s[n \div 2] + s[n \div 2 + 1]

\* threshold is one and a half
High(v) == {i \in Buckets : v[i] > 0 /\ 4 * v[i] >= 3 * Median2(v)}

NodeOf(v, run) ==
  [low |-> run[1], high |-> run[Len(run)] + 1, vol |-> FoldSeq(LAMBDA i, sum : sum + v[i], 0, run)]

(* Fault: the run that reaches the last bucket is not closed.              *)
LastRunLost(v, acc) == acc.nodes
LastRun(v, acc)     == IF acc.run = <<>> THEN acc.nodes ELSE acc.nodes \cup {NodeOf(v, acc.run)}

\* build_profile: one pass over the buckets, in order; those without volume are not there
Nodes(v) ==
  LET high == High(v)
      Step(acc, i) ==
        IF i \in high /\ (acc.run = <<>> \/ i = acc.run[Len(acc.run)] + 1)
        THEN [acc EXCEPT !.run = Append(@, i)]
        ELSE [nodes |-> LastRun(v, acc), run |-> IF i \in high THEN <<i>> ELSE <<>>]
      there == SelectSeq([i \in 1 .. Top + 1 |-> i - 1], LAMBDA i : v[i] > 0)
  IN LastRun(v, FoldLeft(Step, [nodes |-> {}, run |-> <<>>], there))

\* support_node for a long with no tolerance: the node the low is in
SupportOf(nodes, price) == {n \in nodes : price \in 2 * n.low .. 2 * n.high}

\* path_obstacle: the first node on the road that covers at least a tenth of it
Overlap(n, lo, hi) == Least(2 * n.high, hi) - Over(2 * n.low, lo)

(* Fault: the first node of a short's road is the lowest one.              *)
FirstFromBelow(on, long) == {n \in on : \A m \in on : n.low <= m.low}
First(on, long) == {n \in on : \A m \in on : IF long THEN n.low <= m.low ELSE n.high >= m.high}

Obstacle(nodes, entry, target, long, excluded) ==
  LET lo == IF long THEN entry ELSE target
      hi == IF long THEN target ELSE entry
      OnTheRoad(n) == Overlap(n, lo, hi) > 0 /\ 10 * Overlap(n, lo, hi) >= hi - lo IN
  First({n \in nodes \ excluded : hi > lo /\ OnTheRoad(n)}, long)

\* build_profile: an error, or the profile of a day
Whole(t) == \A d \in Expected(t.for) : Cardinality(t.bars[d]) >= Least(MinBars, Cardinality(hist[d]))
Built(t) ==
  LET v == [i \in Buckets |-> MapThenSumSet(LAMBDA d : Volume(t.bars[d], i), Expected(t.for))] IN
  IF Cardinality(Expected(t.for)) < Sessions \/ ~Whole(t) \/ \A i \in Buckets : v[i] = 0
  THEN {}
  ELSE {[for |-> t.for, sessions |-> Expected(t.for), volumes |-> v, nodes |-> Nodes(v)]}

-----------------------------------------------------------------------------
(* The rebuild                                                             *)

Init ==
  /\ hist \in Histories /\ day = Min(Days) /\ gen = 1 /\ store = {} /\ faults = 0
  /\ tasks = {[gen |-> 1, for |-> day, bars |-> [d \in Days |-> IF d < day THEN hist[d] ELSE {}]]}

(* Fault: an earlier rebuild is not told apart.                            *)
AnyGeneration(t) == TRUE
Current(t) == t.gen = gen

Asked(d) == [gen |-> gen + 1, for |-> d, bars |-> [c \in Days |-> IF c < d THEN hist[c] ELSE {}]]

\* _check_session_boundary: the new day asks for its own and cancels the rebuild at work, whose
\* wait_for drops the cancellation when the answer is there already
NextDay ==
  /\ day + 1 \in Days
  /\ day' = day + 1 /\ gen' = gen + 1
  /\ \E going \in SUBSET tasks : tasks' = going \cup {Asked(day + 1)}
  /\ UNCHANGED <<hist, store, faults>>

\* Some bars of a session are not in the answer
Lose(t, d) ==
  /\ faults < MaxFaults /\ t.bars[d] # {}
  /\ faults' = faults + 1
  /\ \E bar \in t.bars[d] : tasks' = (tasks \ {t}) \cup {[t EXCEPT !.bars[d] = @ \ {bar}]}
  /\ UNCHANGED <<hist, day, gen, store>>

\* Only the rebuild of this generation touches the store; one that fails empties it
Publish(t, fails) ==
  /\ fails => faults < MaxFaults
  /\ faults' = IF fails THEN faults + 1 ELSE faults
  /\ tasks' = tasks \ {t}
  /\ store' = IF ~Current(t) THEN store ELSE IF fails THEN {} ELSE Built(t)
  /\ UNCHANGED <<hist, day, gen>>

Restart ==
  /\ faults < MaxFaults
  /\ faults' = faults + 1 /\ gen' = gen + 1 /\ store' = {} /\ tasks' = {Asked(day)}
  /\ UNCHANGED <<hist, day>>

Next ==
  \/ NextDay \/ Restart
  \/ \E t \in tasks :
       \/ \E d \in Days : Lose(t, d)
       \/ \E fails \in BOOLEAN : Publish(t, fails)

Spec == Init /\ [][Next]_vars

-----------------------------------------------------------------------------
(* Properties                                                              *)

\* is_valid_for: a profile of another session is no profile
Usable == {p \in store : p.for = day}

Turned(nodes) == {[n EXCEPT !.low = Top + 1 - n.high, !.high = Top + 1 - n.low] : n \in nodes}

(* The profile kept is the one of the last session asked for or waits to   *)
(* be replaced by it, never one of an earlier session that came later; its *)
(* volume is that of the sessions before it and of nothing else, its nodes *)
(* are the longest runs of high buckets, and a road down is judged as its  *)
(* mirror image up.                                                        *)
ProfileIsHonest ==
  /\ store # Usable => \E t \in tasks : t.gen = gen
  /\ \A p \in Usable :
       LET v == p.volumes
           far == 2 * Top + 2 IN
       /\ faults = 0 => MapThenSumSet(LAMBDA i : v[i], Buckets) =
            12 * MapThenSumSet(LAMBDA d : MapThenSumSet(LAMBDA bar : bar.vol, hist[d]), Expected(day))
       /\ UNION {n.low .. n.high - 1 : n \in p.nodes} = High(v)
       /\ \A n, m \in p.nodes : n # m => n.high < m.low \/ m.high < n.low
       /\ \A entry, target \in 0 .. far :
            entry < target =>
              Obstacle(Turned(p.nodes), far - entry, far - target, FALSE, Turned(SupportOf(p.nodes, entry))) =
              Turned(Obstacle(p.nodes, entry, target, TRUE, SupportOf(p.nodes, entry)))

=============================================================================
