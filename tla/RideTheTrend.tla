------------------------------- MODULE RideTheTrend -------------------------------
(***************************************************************************)
(* Ride the Trend v2 for one stock and one session: an impulse, a thin     *)
(* pullback to the VWAP zone, and a resumption, found bar by bar, then the *)
(* gates of the tape, the cooldown and the daily budget, with feed gaps,   *)
(* bars of no volume, pauses and restarts on the way.                      *)
(* Sources: strategies/vwap_pullback_v2.py, main.py (notify_admitted, the  *)
(* rebuild of _restore_checkpoint).                                        *)
(*                                                                         *)
(* What a bar is to the machine is chosen: whether it makes a new extreme, *)
(* whether it touches the zone, how steep the resumption is and which gate *)
(* of the tape fails.  Volumes are kept in units of the frozen reference,  *)
(* and lows in the direction of the setup, so that the short side is the   *)
(* same machine.  A bad, late or repeated bar changes nothing and is left  *)
(* out, as are the stop's distance and the events it reports.              *)
(***************************************************************************)
EXTENDS Integers, Sequences

CONSTANTS
  RefBars, RefMinStart,        \* ref_bars, ref_min_start
  TouchMin, TouchMax,          \* touch_min_bars, touch_max_bars
  PullbackMax, ResumeMaxAge,   \* pullback_max_bars, resume_max_age
  Thin,                        \* pvr_thin_max
  Cooldown, MaxSignals,        \* cooldown_bars, max_signals_per_day
  FeedGap,                     \* minutes without a bar that break the session's history
  OpenAt, CloseAt,             \* the window, in minutes
  Vols, Lows,                  \* of a bar
  MaxRestarts                  \* bound

None == -1

VARIABLES
  n,         \* bars accepted
  clock,     \* the minute of the next bar
  st,        \* the machine
  broken,    \* ghost: the bars accepted before the last feed gap or restart
  last,      \* ghost: the bar of the last admitted signal
  out,       \* the signal of the last bar
  restarts

vars == <<n, clock, st, broken, last, out, restarts>>

Bar == [vol : Vols, low : Lows]

\* leg: the bars after the impulse; touch and ext are places in it
Fresh == [state |-> "IDLE", side |-> "NONE", leg |-> <<>>, touch |-> 0, ext |-> 0,
          gap |-> None, cool |-> None, admitted |-> 0]
NoSignal == [some |-> FALSE]

TypeOK ==
  /\ n \in Nat /\ clock \in 0 .. CloseAt + FeedGap + 1 /\ broken \in 0 .. n /\ restarts \in 0 .. MaxRestarts
  /\ st.state \in {"IDLE", "IMPULSE", "PULLBACK", "RESUMING"} /\ st.leg \in Seq(Bar)
  /\ st.ext \in 0 .. Len(st.leg) /\ st.touch \in 0 .. Len(st.leg) /\ last \in None .. n

Init ==
  /\ n = 0 /\ clock = 0 /\ st = Fresh /\ broken = 0 /\ last = None /\ out = NoSignal /\ restarts = 0

Over(a, b) == IF a > b THEN a ELSE b

-----------------------------------------------------------------------------
(* One bar                                                                 *)

\* _to_idle
Idle(s) == [s EXCEPT !.state = "IDLE", !.side = "NONE", !.leg = <<>>, !.touch = 0, !.ext = 0]

RefOk(s, i) == i - RefBars >= Over(RefMinStart, s.gap)

\* The volume of the first k bars of the leg against the reference
LegVolume[leg \in Seq(Bar), k \in Nat] == IF k = 0 THEN 0 ELSE LegVolume[leg, k - 1] + leg[k].vol
ThinTo(leg, k) == LegVolume[leg, k] <= Thin * k

\* The first of the lowest bars
LowestOf(leg) ==
  CHOOSE k \in DOMAIN leg : \A j \in DOMAIN leg : leg[k].low < leg[j].low \/ (leg[k].low = leg[j].low /\ k <= j)

\* Gates of the tape, in the order they are asked: a missing answer ends the setup, one that is against it
\* waits for the next bar, but for the aggression of the leg and the nodes under the dip
Gates == {"leg_delta", "velocity", "book", "resumption", "rolling", "session", "spread", "support", "overhead"}
Ends  == {"leg_delta", "support"}
AfterGate(s, gate, answer) == IF answer = "missing" \/ gate \in Ends THEN Idle(s) ELSE s

Stay(s) == {[st |-> s, signal |-> FALSE]}

\* IMPULSE: the first touch of the zone, neither too early nor too late, on a thin leg that was not aggressive
Touch(s, touched) ==
  LET len == Len(s.leg)
  IN IF touched
     THEN IF len < TouchMin \/ ~ThinTo(s.leg, len) THEN Stay(Idle(s))
          ELSE Stay([s EXCEPT !.state = "PULLBACK", !.touch = len, !.ext = LowestOf(s.leg)]) \cup Stay(Idle(s))
     ELSE Stay(IF len >= TouchMax THEN Idle(s) ELSE s)

\* Fault: the leg is judged at its first touch only
ThinAtTheTouch(s) == ThinTo(s.leg, s.touch)
\* The leg is measured again through its final extreme
ThinWhole(s) == ThinTo(s.leg, s.ext)

\* One gate is not passed
GateFails(s) == UNION {Stay(AfterGate(s, g, a)) : g \in Gates, a \in {"missing", "against"}}

\* An entry's last tests: the window, the cooldown and the budget
MayEmit(s, i, t) == t + 1 >= OpenAt /\ i > s.cool /\ s.admitted < MaxSignals

\* Fault: the bars of a resumption are not compared with the extreme
NewExtremeInPullback(s) == s.state = "PULLBACK" /\ s.leg[Len(s.leg)].low < s.leg[s.ext].low
NewExtreme(s) == s.leg[Len(s.leg)].low < s.leg[s.ext].low

\* RESUMING, on the first bar that closed up or a later one
Resume(s, i, t, up) ==
  LET len == Len(s.leg)
  IN IF NewExtreme(s) THEN Stay([s EXCEPT !.state = "PULLBACK", !.ext = len])
     ELSE IF len - s.ext > ResumeMaxAge THEN Stay(Idle(s))
     ELSE IF ~up THEN Stay(s)
     ELSE Stay(s)                                               \* the slope is too slow
          \cup Stay(Idle(s))                                    \* chased, or the operator paused it
          \cup IF ~ThinWhole(s) THEN {}
               ELSE GateFails(s)
                    \cup {[st |-> Idle(s), signal |-> MayEmit(s, i, t)]}

\* PULLBACK: the extreme is followed until a bar closes in the setup's direction
Pullback(s, i, t, up) ==
  LET len == Len(s.leg)
  IN IF len - s.touch > PullbackMax THEN Stay(Idle(s))
     ELSE IF NewExtreme(s) THEN Stay([s EXCEPT !.ext = len])
     ELSE IF up THEN Resume([s EXCEPT !.state = "RESUMING"], i, t, up)
     ELSE Stay(s)

\* Fault: the history before a gap goes on counting
GapKept(s, i) == [s EXCEPT !.gap = i]
\* FEED_GAP
GapSeen(s, i) == [Idle(s) EXCEPT !.gap = i]

\* evaluate_bar: news is the side of a new extreme on the right side of the VWAP, both, or none; hit says that
\* the bar touched the zone, when the machine waits for that, or else that it closed in the setup's direction
Evaluated(s0, i, t, b, gap, news, hit) ==
  LET s1 == IF gap THEN GapSeen(s0, i) ELSE s0
      s  == [s1 EXCEPT !.leg = IF s1.state = "IDLE" THEN @ ELSE Append(@, b)]
  IN IF b.vol = 0 THEN Stay(s)
     ELSE IF t + 1 >= CloseAt THEN Stay(Idle(s))
     ELSE IF ~RefOk(s, i) THEN Stay(s)
     ELSE IF news = "BOTH" THEN Stay(Idle(s))
     ELSE IF news # "NONE" THEN Stay([Idle(s) EXCEPT !.state = "IMPULSE", !.side = news])
     ELSE CASE s.state = "IDLE"     -> Stay(s)
            [] s.state = "IMPULSE"  -> Touch(s, hit)
            [] s.state = "PULLBACK" -> Pullback(s, i, t, hit)
            [] s.state = "RESUMING" -> Resume(s, i, t, hit)

-----------------------------------------------------------------------------
(* The session                                                             *)

\* notify_admitted
Admitted(s, i) == [s EXCEPT !.admitted = @ + 1, !.cool = Over(@, i + Cooldown)]

\* The signal's evidence: the machine's state on the bar it is emitted, before it goes idle
Evidence(b) == [some |-> TRUE, leg |-> Append(st.leg, b), ext |-> st.ext, touch |-> st.touch,
                from |-> n - Len(st.leg) - 1, i |-> n, prev |-> last, at |-> clock]

\* A bar comes, with or without a gap before it; a signal may be admitted as an order or refused
OnBar(b, wait, news, hit) ==
  /\ clock <= CloseAt /\ clock' = clock + 1 + wait /\ n' = n + 1
  /\ \E o \in Evaluated(st, n, clock + wait, b, wait > 0, news, hit), admit \in BOOLEAN :
       /\ admit => o.signal
       /\ st' = IF admit THEN Admitted(o.st, n) ELSE o.st
       /\ last' = IF admit THEN n ELSE last
       /\ out' = IF o.signal THEN Evidence(b) ELSE NoSignal
  /\ broken' = IF wait > 0 THEN n ELSE broken
  /\ UNCHANGED restarts

\* Fault: a setup in progress outlives the restart
RebuiltInProgress(s) == s
\* after_restore: the bars are replayed for the gap they hold, a setup in progress has lost its tape
Rebuilt(s) == Idle(s)
\* Fault: a stock whose bars cannot be replayed starts afresh
RebuiltAfresh == Fresh
\* A stock whose bars cannot be replayed has no budget left
NotRebuilt == [Fresh EXCEPT !.admitted = MaxSignals]

Restart ==
  /\ restarts < MaxRestarts /\ restarts' = restarts + 1 /\ out' = NoSignal /\ broken' = n
  /\ st' \in {Rebuilt(st), NotRebuilt}
  /\ UNCHANGED <<n, clock, last>>

Next ==
  \/ \E b \in Bar, wait \in {0, FeedGap}, news \in {"NONE", "LONG", "BOTH"}, hit \in BOOLEAN :
       (news # "NONE" => ~hit) /\ OnBar(b, wait, news, hit)
  \/ Restart

Spec == Init /\ [][Next]_vars

-----------------------------------------------------------------------------
(* Properties                                                              *)

\* A signal is earned by the bars it is made of, all of them after the last feed gap and the last restart:
\* no evaluated bar since the impulse was lower than the extreme its stop stands on, the extreme is recent
\* and the whole leg down to it was thin.  It comes after the cooldown of the last admitted one and within the
\* day's budget, whatever was rebuilt
\* (vwap_pullback_v2.py:543, "must not enter on the early numbers"; 1008,
\* "Durable limits come from the stored state").
SignalIsEarned ==
  out.some =>
    LET len == Len(out.leg)
        ext == IF out.ext = 0 THEN LowestOf(out.leg) ELSE out.ext
    IN /\ out.from >= broken
       /\ \A k \in 1 .. len : (k <= out.touch \/ out.leg[k].vol > 0) => out.leg[ext].low <= out.leg[k].low
       /\ len - ext \in 1 .. ResumeMaxAge
       /\ ThinTo(out.leg, ext)
       /\ out.at + 1 \in OpenAt .. CloseAt - 1
       /\ out.prev # None => out.i - out.prev > Cooldown /\ st.admitted <= MaxSignals
=============================================================================
