--------------------------------- MODULE FenceFlow ---------------------------------
(***************************************************************************)
(* The flow rules of a break of the opening range: the aggressors' delta   *)
(* since the open and the speed of the tape as the price hits the fence,   *)
(* kept print by print in a state of bounded size.                         *)
(* Source: strategies/orbs/flow.py (DeltaState, VelocityState, CrossState, *)
(* flow_fields).                                                           *)
(*                                                                         *)
(* A print is outside the range on one side, inside it, or only counted    *)
(* (an odd lot or a volume-only print), and was bought, sold or neither.   *)
(* Every print has one share.  Time is in ticks, of which the counts see   *)
(* the whole seconds only.                                                 *)
(***************************************************************************)
EXTENDS Integers, Sequences, FiniteSets

CONSTANTS
  PerSecond,           \* ticks of a second
  BurstS, BaseS,       \* VELOCITY_BURST_S, VELOCITY_BASE_S
  MinTrades, MinRatio, \* VELOCITY_MIN_TRADES, VELOCITY_MIN_RATIO
  DeltaMin,            \* DELTA_MIN in percent
  Slack,               \* of VelocityState.WINDOW
  Prints,              \* the kinds of print, of Places and Aggressors
  Gaps,                \* ticks from one print to the next
  MaxPrints            \* bound

None == [at |-> -1, passed |-> FALSE]

VARIABLES
  hist,    \* the prints
  counts,  \* VelocityState
  cross,   \* CrossState
  delta,   \* DeltaState
  out      \* the verdicts on the last print

vars == <<hist, counts, cross, delta, out>>

Sides == {"long", "short"}
Places == Sides \cup {"inside", "counted"}
Aggressors == {"buy", "sell", "none"}
NoBreak == [some |-> FALSE]
Second(at) == at \div PerSecond

TypeOK ==
  /\ Prints \subseteq Places \X Aggressors /\ Len(hist) <= MaxPrints /\ DOMAIN counts \subseteq Nat /\ delta.buy \in Nat /\ delta.sell \in Nat
  /\ DOMAIN cross = Sides

Init ==
  /\ hist = <<>> /\ counts = [s \in {} |-> 0] /\ cross = [s \in Sides |-> None]
  /\ delta = [buy |-> 0, sell |-> 0] /\ out = NoBreak

-----------------------------------------------------------------------------
(* Velocity                                                                *)

Window == BurstS + BaseS + Slack

\* Fault: the counts are forgotten one base too early
PrunedHard(c, sec) == IF Cardinality(DOMAIN c) > BaseS THEN [s \in {k \in DOMAIN c : k > sec - BaseS} |-> c[s]] ELSE c
\* What is too old is forgotten when there is too much
Pruned(c, sec) == IF Cardinality(DOMAIN c) > Window THEN [s \in {k \in DOMAIN c : k > sec - Window} |-> c[s]] ELSE c

\* VelocityState.add
Counted(c, sec) ==
  Pruned([s \in DOMAIN c \cup {sec} |-> (IF s \in DOMAIN c THEN c[s] ELSE 0) + (IF s = sec THEN 1 ELSE 0)], sec)

SumOver(c, secs) ==
  LET S == DOMAIN c \cap secs
      total[T \in SUBSET S] == IF T = {} THEN 0 ELSE LET x == CHOOSE x \in T : TRUE IN c[x] + total[T \ {x}]
  IN total[S]

\* velocity_pass
Fast(burst, base) ==
  /\ burst >= MinTrades
  /\ base = 0 \/ burst * BaseS >= MinRatio * base * BurstS

\* VelocityState.measure
Measured(c, sec) ==
  Fast(SumOver(c, sec - BurstS + 1 .. sec), SumOver(c, sec - BurstS - BaseS + 1 .. sec - BurstS))

-----------------------------------------------------------------------------
(* The excursion past the fence                                            *)

\* Fault: an excursion may be measured as long as it lasts
AsLongAsItLasts(cur, at) == cur # None /\ ~cur.passed
\* Its verdict is frozen after its first seconds, and once it has passed
Open(cur, at) == cur # None /\ ~cur.passed /\ at - cur.at < BurstS * PerSecond

\* refresh: every print measures an open excursion
Refreshed(x, c, at) ==
  [s \in Sides |-> IF Open(x[s], at) THEN [x[s] EXCEPT !.passed = Measured(c, Second(at))] ELSE x[s]]

\* Fault: the excursion on the other side goes on
KeepsTheOther(x, side) == x
\* A print on one side ends the excursion on the other
OnlyThis(x, side) == [s \in Sides |-> IF s = side THEN x[s] ELSE None]

\* update: a print that decides prices starts an excursion or ends it
Updated(x, c, at, place) ==
  IF place = "counted" THEN x
  ELSE IF place = "inside" THEN [s \in Sides |-> None]
  ELSE LET y == OnlyThis(x, place)
       IN [y EXCEPT ![place] = IF @ = None THEN [at |-> at, passed |-> Measured(c, Second(at))]
                               ELSE IF Open(@, at) THEN [@ EXCEPT !.passed = Measured(c, Second(at))] ELSE @]

-----------------------------------------------------------------------------
(* Prints                                                                  *)

\* DeltaState.add, of a print that can be classified
Delta(d, side) ==
  [buy |-> d.buy + (IF side = "buy" THEN 1 ELSE 0), sell |-> d.sell + (IF side = "sell" THEN 1 ELSE 0)]

\* delta_pass
Confirms(d, place) ==
  LET against == IF place = "long" THEN d.sell ELSE d.buy
      with    == IF place = "long" THEN d.buy ELSE d.sell
  IN with + against > 0 /\ 100 * (with - against) >= DeltaMin * (with + against)

\* flow_fields
Fields(x, d, place) ==
  IF place \in Sides
  THEN [some |-> TRUE, place |-> place, delta |-> Confirms(d, place), velocity |-> x[place].passed]
  ELSE NoBreak

Trade(p, gap) ==
  LET place == p[1]
      side  == p[2]
      at == IF hist = <<>> THEN 0 ELSE hist[Len(hist)].at + gap
  IN /\ Len(hist) < MaxPrints
     /\ hist' = Append(hist, [at |-> at, place |-> place, side |-> side])
     /\ counts' = Counted(counts, Second(at))
     /\ cross' = Updated(Refreshed(cross, counts', at), counts', at, place)
     /\ delta' = Delta(delta, side)
     /\ out' = Fields(cross', delta', place)

Next == \E p \in Prints, gap \in Gaps : Trade(p, gap)

Spec == Init /\ [][Next]_vars

-----------------------------------------------------------------------------
(* Properties                                                              *)

\* The prints of the seconds secs up to the k-th print
Trades(k, secs) == Cardinality({j \in 1 .. k : Second(hist[j].at) \in secs})
FastAt(k) ==
  LET sec == Second(hist[k].at)
  IN Fast(Trades(k, sec - BurstS + 1 .. sec), Trades(k, sec - BurstS - BaseS + 1 .. sec - BurstS))

\* The first print of the excursion of the last one
Start(place) ==
  CHOOSE i \in DOMAIN hist :
    /\ hist[i].place = place /\ \A j \in i .. Len(hist) : hist[j].place \in {place, "counted"}
    /\ \A h \in 1 .. i - 1 : (\A j \in h .. Len(hist) : hist[j].place \in {place, "counted"}) => hist[h].place # place

\* The verdicts on a break are those of the whole tape so far: its excursion was fast at one of the prints of its
\* first seconds, of any kind, seen with the prints before it only, however slow or fast it was later; and the
\* aggressors since the open are on its side
\* (flow.py:176, "Rule 2 is judged AS PRICE HITS THE FENCE").
BreakIsJudgedAtTheFence ==
  out.some =>
    /\ out.velocity =
         \E k \in Start(out.place) .. Len(hist) :
           /\ hist[k].at - hist[Start(out.place)].at < BurstS * PerSecond
           /\ FastAt(k)
    /\ out.delta =
         LET bought == Cardinality({k \in DOMAIN hist : hist[k].side = "buy"})
             sold   == Cardinality({k \in DOMAIN hist : hist[k].side = "sell"})
             lead   == IF out.place = "long" THEN bought - sold ELSE sold - bought
         IN bought + sold > 0 /\ 100 * lead >= DeltaMin * (bought + sold)
=============================================================================
