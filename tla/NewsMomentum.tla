------------------------------- MODULE NewsMomentum -------------------------------
(***************************************************************************)
(* Headlines of one stock: recorded as catalysts until a bar of the        *)
(* regular session confirms one by its volume and its candle, or used at   *)
(* once against a position they contradict.                                *)
(* Sources: ingestion/news_ws.py, strategies/news_momentum.py, main.py     *)
(* (handle_news_event, the exits of execute_strategy_signal).              *)
(*                                                                         *)
(* Headlines and bars come over two streams, each late by itself.  A score *)
(* is 1 beyond the bound of a contradiction and 2 beyond that of a         *)
(* catalyst.  Positions of all owners come and go by themselves; whether   *)
(* an entry passes admission is chosen, and an admitted one fills at once. *)
(* The watch list, the ten catalysts kept, prices and stops are left out,  *)
(* and an article that is sent again with an edit.                         *)
(***************************************************************************)
EXTENDS Integers, Sequences, SequencesExt

CONSTANTS
  Minute, Ttl,             \* the length of a bar, catalyst_ttl_seconds
  OpenAt, End,             \* the first bar of the session, the end of the model
  Span, Few,               \* bars of the volume average, bars below which the floor holds
  VolFloor, VolDefault, Surge,   \* the floor, the average of no volume, volume_surge_multiplier
  Scores, Vols,            \* of a headline, of a bar
  NewsDelay, BarDelay, MaxNews, MaxFaults   \* bounds

Owners == {"intraday", "orb", "swing", "night"}   \* "night" stands for every arm that ignores the news
Sides  == {"LONG", "SHORT"}
Flat   == [owner |-> "none", side |-> "NONE"]

VARIABLES
  now,      \* the clock
  made,     \* the headlines published, in order: time and score
  wire,     \* the headlines not handled yet
  seen,     \* ghost: the position each handled headline found
  pending,  \* pending_catalysts of the stock, each with its place in the list
  vols,     \* volumes of recent_bars, the last Span
  bar,      \* the start of the next bar to be handled
  held,     \* account.positions of the stock
  acts,     \* ghost: what each headline led to
  faults

vars == <<now, made, wire, seen, pending, vols, bar, held, acts, faults>>

Headline == [at : Nat, score : Int]
Catalyst == [id : Nat, nth : Nat, done : BOOLEAN]
Act      == [id : Nat, kind : {"enter", "exit"}, side : Sides, owner : Owners, bar : Nat]

TypeOK ==
  /\ now \in 0 .. End /\ made \in Seq(Headline) /\ wire \subseteq DOMAIN made
  /\ pending \subseteq Catalyst /\ vols \in Seq(Nat) /\ bar \in Nat
  /\ acts \in SUBSET Act /\ faults \in 0 .. MaxFaults

Init ==
  /\ now = 0 /\ made = <<>> /\ wire = {} /\ seen = <<>> /\ pending = {} /\ vols = <<>> /\ bar = 0
  /\ held = Flat /\ acts = {} /\ faults = 0

Strong(score)     == score >= 2 \/ score <= -2
SideOf(score)     == IF score > 0 THEN "LONG" ELSE "SHORT"
Against(score, s) == (s = "LONG" /\ score < 0) \/ (s = "SHORT" /\ score > 0)
Age(id, start)    == start - made[id].at

-----------------------------------------------------------------------------
(* A headline                                                              *)

\* monitored_positions, set from the account before every headline, whatever on_bar assumed
Watched == held.side

\* execute_strategy_signal, an exit: ORB closes its own shares, other arms ignore the headline
(* Fault: whatever is held is sold.                                        *)
SellsAll(owner) == owner # "none"

Sells(owner) == owner = "intraday"
Asks(owner)  == owner = "orb"

\* The end of the list
EndOfList == Max({0} \cup {c.nth : c \in pending}) + 1

\* handle_news_event and on_news
Arrives(id) ==
  LET score == made[id].score
      hit   == Against(score, Watched)
      acted == hit /\ (Sells(held.owner) \/ Asks(held.owner)) IN
  /\ id \in wire
  /\ wire' = wire \ {id}
  /\ seen' = [i \in DOMAIN seen \cup {id} |-> IF i = id THEN held ELSE seen[i]]
  /\ pending' = IF ~hit /\ Strong(score) THEN pending \cup {[id |-> id, nth |-> EndOfList, done |-> FALSE]}
                ELSE pending
  /\ held' = IF hit /\ Sells(held.owner) THEN Flat ELSE held
  /\ acts' = IF acted THEN acts \cup {[id |-> id, kind |-> "exit", side |-> held.side,
                                       owner |-> held.owner, bar |-> bar]}
             ELSE acts
  /\ UNCHANGED <<now, made, vols, bar, faults>>

-----------------------------------------------------------------------------
(* A bar                                                                   *)

Total(s)    == FoldSeq(LAMBDA x, y : x + y, 0, s)
LastN(s, n) == SubSeq(s, IF Len(s) > n THEN Len(s) - n + 1 ELSE 1, Len(s))

\* More than Surge times the average of the bars before it
Confirms(vol) ==
  LET prior == LastN(vols, Span)
      n     == Len(prior) IN
  /\ n >= Few /\ Total(prior) = 0 => vol > Surge * VolDefault
  /\ n < Few => vol > Surge * VolFloor
  /\ vol * n > Surge * Total(prior) \/ Total(prior) = 0

(* Fault: a catalyst of any age.                                           *)
ValidForEver(c, start) == ~c.done /\ Age(c.id, start) >= 0
(* Fault: a headline within the bar may use that bar.                      *)
ValidWithinTheBar(c, start) == ~c.done /\ Age(c.id, start) \in -Minute .. Ttl
(* Fault: a used catalyst stays valid.                                     *)
ValidTwice(c, start) == Age(c.id, start) \in 0 .. Ttl

Valid(c, start) == ~c.done /\ Age(c.id, start) \in 0 .. Ttl
Keeps(c, start) == ~c.done /\ Age(c.id, start) \in -Minute .. Ttl

\* The list is cut before the catalyst is marked, so a used one stays until the next bar
AfterBar(start, used) == {[c EXCEPT !.done = @ \/ c.id = used] : c \in {c \in pending : Keeps(c, start)}}

Newest(S) == CHOOSE c \in S : \A o \in S : o.nth <= c.nth

\* on_bar and the entry of execute_strategy_signal; candle is the side of the bar's candle
Bar(vol, candle, admitted) ==
  LET valid  == {c \in pending : Valid(c, bar)}
      newest == Newest(valid)
      side   == SideOf(made[newest.id].score)
      fires  == valid # {} /\ Confirms(vol) /\ candle = side
      used   == IF fires THEN newest.id ELSE 0 IN
  /\ now >= bar + Minute
  /\ bar' = bar + Minute
  /\ IF bar < OpenAt
     THEN ~admitted /\ UNCHANGED <<vols, pending, held, acts>>
     ELSE /\ vols' = LastN(Append(vols, vol), Span)
          /\ pending' = AfterBar(bar, used)
          /\ admitted => fires /\ held = Flat
          /\ held' = IF admitted THEN [owner |-> "intraday", side |-> side] ELSE held
          /\ acts' = IF fires THEN acts \cup {[id |-> newest.id, kind |-> "enter", side |-> side,
                                                owner |-> "intraday", bar |-> bar]}
                     ELSE acts
  /\ UNCHANGED <<now, made, wire, seen, faults>>

-----------------------------------------------------------------------------
(* The world                                                               *)

\* Neither stream is later than its bound
Tick ==
  /\ now < End
  /\ \A id \in wire : now < made[id].at + NewsDelay
  /\ now < bar + Minute + BarDelay
  /\ now' = now + 1
  /\ UNCHANGED <<made, wire, seen, pending, vols, bar, held, acts, faults>>

Publish(score) ==
  /\ Len(made) < MaxNews
  /\ made' = Append(made, [at |-> now, score |-> score]) /\ wire' = wire \cup {Len(made) + 1}
  /\ UNCHANGED <<now, seen, pending, vols, bar, held, acts, faults>>

\* A minute without a trade has no bar
NoBar ==
  /\ faults < MaxFaults /\ now >= bar + Minute
  /\ faults' = faults + 1 /\ bar' = bar + Minute
  /\ UNCHANGED <<now, made, wire, seen, pending, vols, held, acts>>

Opens(owner, side) ==
  /\ held = Flat /\ faults < MaxFaults
  /\ held' = [owner |-> owner, side |-> side] /\ faults' = faults + 1
  /\ UNCHANGED <<now, made, wire, seen, pending, vols, bar, acts>>

Closes ==
  /\ held # Flat /\ held' = Flat
  /\ UNCHANGED <<now, made, wire, seen, pending, vols, bar, acts, faults>>

Next ==
  \/ Tick
  \/ \E score \in Scores : Publish(score)
  \/ \E id \in wire : Arrives(id)
  \/ \E vol \in Vols, candle \in Sides, admitted \in BOOLEAN : Bar(vol, candle, admitted)
  \/ NoBar
  \/ \E owner \in Owners, side \in Sides : Opens(owner, side)
  \/ Closes

Spec == Init /\ [][Next]_vars

-----------------------------------------------------------------------------
(* Properties                                                              *)

(* A headline leads to one act at most, however late it and the bars are:  *)
(* an entry its own way, confirmed by a bar that began after it and not    *)
(* long after, or an exit of the shares it speaks against, of an owner     *)
(* that acts on news.  And no such shares are kept through it, nor is an   *)
(* entry made later on a headline that was spent on shares it spoke        *)
(* against.                                                                *)
HeadlineActsOnce ==
  /\ \A a, b \in acts : a.id = b.id => a = b
  /\ \A a \in acts : a.kind = "enter" =>
       /\ a.bar \in made[a.id].at .. made[a.id].at + Ttl
       /\ Strong(made[a.id].score) /\ a.side = SideOf(made[a.id].score)
       /\ ~Against(made[a.id].score, seen[a.id].side)
  /\ \A id \in DOMAIN seen :
       (\E a \in acts : a.id = id /\ a.kind = "exit" /\ a.side = seen[id].side /\ a.owner = seen[id].owner) <=>
       (Against(made[id].score, seen[id].side) /\ seen[id].owner \in {"intraday", "orb"})

(* What the comment of on_bar promises: a headline published after the     *)
(* close of a bar is preserved for the bars that follow.                   *)
LaterNewsIsPreserved ==
  [][\A c \in pending :
       bar' > bar /\ ~c.done /\ made[c.id].at >= bar + Minute => c \in pending']_vars

=============================================================================
