------------------------------ MODULE DayProofs ------------------------------
(***************************************************************************)
(* Theorems about DayClose, for every set of symbols, every assignment of  *)
(* owners, every number of days and every set of faults; and about what an *)
(* entry has to pass during the session (MCSessions), for every calendar,  *)
(* tape, limit and number of faults.                                       *)
(*                                                                         *)
(* The invariant of the close says of a book what has to be true of it     *)
(* wherever it is kept: in memory, in the checkpoint, and half way through *)
(* a handler.  So it is a predicate Sound(b, d, k) of a book b on day d in *)
(* slot k, and each operator the handlers are composed of gets a lemma     *)
(* saying that it keeps a book sound and what it may take away from it.    *)
(*                                                                         *)
(* The second half is about the index, the filters, the headlines and Ride *)
(* the Trend, each with an inductive invariant of its own.                 *)
(***************************************************************************)
EXTENDS MCSessions, Sequences, FiniteSets, WellFoundedInduction, NaturalsInduction, TLAPS

-----------------------------------------------------------------------------
(* Names                                                                   *)

(* The schedule, slot by slot.                                             *)
LEMMA Names ==
  /\ DOMAIN PhaseOf = 0 .. 6
  /\ PhaseOf[0] = "PRE_MARKET" /\ PhaseOf[1] = "NORMAL_TRADING" /\ PhaseOf[2] = "ENTRY_LOCKOUT"
  /\ PhaseOf[3] = "ORDER_PURGE" /\ PhaseOf[4] = "MANDATORY_LIQUIDATION"
  /\ PhaseOf[5] = "ZERO_AUDIT" /\ PhaseOf[6] = "MARKET_CLOSED"
BY DEF PhaseOf, Pre, Open, Audit, Closed

(* Every slot has a phase.                                                 *)
LEMMA SlotPhase == \A k \in Pre .. Closed : PhaseOf[k] \in Phases
BY DEF Phases

(* The seven phases by name.                                               *)
LEMMA AllPhases == Phases = OncePhases \cup {"PRE_MARKET", "NORMAL_TRADING", "MARKET_CLOSED"}
BY Names DEF Phases, OncePhases, Pre, Closed

-----------------------------------------------------------------------------
(* What is said of a book                                                  *)

(* Owners whose positions are held overnight on purpose, owners whose      *)
(* positions are closed before the night, and the phases a closed day ends *)
(* in.                                                                     *)
Kept  == Of("swing") \cup Of("hold")
Ours  == Of("day") \cup Of("plan") \cup Of("orb")
Final == {"ZERO_AUDIT", "MARKET_CLOSED"}

(* What the account status and the day counter claim of a book.            *)
NoDay(b) == (b.held \cup b.entries) \cap Of("day") = {}
Flat(b)  == b.status = "EOD_FLAT" => (b.held \cup b.entries \cup b.exits) \cap Ours = {}
Counted(b) == \A s \in Of("swing") : b.days[s] <= b.session - b.since[s] + 1

(* Nothing cancelled here is still open at Alpaca.                         *)
Punctual == "late" \notin Faults

(* A book b is sound on day d in slot k.                                   *)
Sound(b, d, k) ==
  /\ b \in Bots
  /\ b.session <= d
  /\ Counted(b)
  /\ Punctual => Flat(b)
  /\ b.session = d /\ b.status = "EOD_FLAT" => k >= Audit
  /\ b.session = d /\ b.audited => k >= Audit /\ b.phase \in Final /\ (Punctual => NoDay(b))
  /\ b.session = d /\ b.done # {} => k > Open /\ b.phase # "NORMAL_TRADING"

(* c is b with orders and positions taken away, none that is held          *)
(* overnight; Shrinks: and with the same phase and status.                 *)
Trimmed(b, c) ==
  /\ c \in Bots
  /\ c.held \subseteq b.held /\ c.entries \subseteq b.entries
  /\ c.exits \subseteq b.exits \cup b.held
  /\ b.held \cap Kept \subseteq c.held
  /\ b.exits \cap Of("swing") \subseteq c.exits
  /\ c.session = b.session /\ c.since = b.since /\ c.days = b.days

Shrinks(b, c) ==
  /\ Trimmed(b, c)
  /\ c.phase = b.phase /\ c.done = b.done /\ c.audited = b.audited /\ c.status = b.status

-----------------------------------------------------------------------------
(* The operators of the handlers                                           *)

(* A symbol has one owner.                                                 *)
LEMMA Apart ==
  \A c, d \in Classes : c # d => Of(c) \cap Of(d) = {}
BY DEF Of

(* What an owner trades are symbols.                                       *)
LEMMA OfSymbols == \A c \in Classes : Of(c) \subseteq Symbols
BY DEF Of

(* Handlers that only shrink the book compose.                             *)
LEMMA ShrinksAgain ==
  ASSUME NEW b, NEW c, NEW d, Shrinks(b, c), Shrinks(c, d)
  PROVE  Shrinks(b, d)
BY DEF Shrinks, Trimmed

(* A book that is only shrunk stays sound.                                 *)
LEMMA ShrinksSound ==
  ASSUME NEW d, NEW k, NEW b, Sound(b, d, k), NEW c, Shrinks(b, c)
  PROVE  Sound(c, d, k)
BY DEF Shrinks, Trimmed, Sound, Counted, Flat, NoDay

(* Cancelling orders only shrinks the book (cancel_all_orders).            *)
LEMMA CancelledShrinks ==
  ASSUME NEW b \in Bots, NEW keep, Of("swing") \subseteq keep
  PROVE  /\ Shrinks(b, Cancelled(b, keep))
         /\ Cancelled(b, keep).held = b.held
         /\ Cancelled(b, keep).entries = b.entries \cap keep
         /\ Cancelled(b, keep).exits = b.exits \cap keep
BY DEF Cancelled, Bots, Shrinks, Trimmed

(* So does the phase-2 purge; the stops of held positions stay.            *)
LEMMA PurgedShrinks ==
  ASSUME NEW b \in Bots
  PROVE  Shrinks(b, Purged(b))
BY DEF Purged, Bots, Shrinks, Trimmed

(* Asking a controller for its exits changes no position and no order.     *)
LEMMA AskedShrinks ==
  ASSUME NEW b \in Bots, NEW c
  PROVE  /\ Shrinks(b, Asked(b, c))
         /\ Asked(b, c).held = b.held /\ Asked(b, c).entries = b.entries
         /\ Asked(b, c).exits = b.exits
BY DEF Asked, Active, Bots, Shrinks, Trimmed

(* Selling positions that are not to be held overnight shrinks the book.   *)
LEMMA SoldShrinks ==
  ASSUME NEW b \in Bots, NEW S \in SUBSET b.held, S \cap Kept = {}, NEW R
  PROVE  /\ Shrinks(b, Sold(b, S, R))
         /\ Sold(b, S, R).held = b.held \ (S \ Unfilled(R))
         /\ Sold(b, S, R).entries = b.entries
<1> DEFINE c == Sold(b, S, R)
<1>1. c \in Bots /\ c.held = b.held \ (S \ Unfilled(R)) /\ c.entries = b.entries
      /\ c.exits = (b.exits \ S) \cup (S \cap Unfilled(R))
      /\ c.session = b.session /\ c.since = b.since /\ c.days = b.days
      /\ c.phase = b.phase /\ c.done = b.done /\ c.audited = b.audited /\ c.status = b.status
  BY DEF Sold, Bots
<1> HIDE DEF c
<1>2. Shrinks(b, c)
  BY <1>1 DEF Shrinks, Trimmed, Kept
<1> QED BY <1>1, <1>2 DEF c

(* A new session is well typed while no swing position has been counted    *)
(* MaxDay times.                                                           *)
LEMMA NewSessionFields ==
  ASSUME NEW b \in Bots, NEW d \in 1 .. MaxDay,
         \A s \in Of("swing") : b.days[s] < MaxDay
  PROVE  NewSession(b, d) \in Bots
<1>1. NextDays(b) \in [Of("swing") -> 0 .. MaxDay]
  BY DayAssumption DEF NextDays, Bots
<1>2. "NORMAL_TRADING" \in Phases
  BY AllPhases
<1> QED BY <1>1, <1>2 DEF NewSession, Bots

(* What a sweep sells is held, never held overnight on purpose, and covers *)
(* every intraday position.                                                *)
LEMMA TargetsApart ==
  ASSUME NEW b \in Bots
  PROVE  /\ Targets(b) \subseteq b.held
         /\ Targets(b) \cap Kept = {}
         /\ shield \subseteq Of("dayone") => b.held \cap Of("day") \subseteq Targets(b)
<1>1. \A c \in {"swing", "hold", "dayone", "plan", "orb"} : Of("day") \cap Of(c) = {}
  BY Apart DEF Classes
<1> QED BY <1>1 DEF Targets, Exempt, Kept

(* After cancel_all_orders(arm=INTRADAY) no intraday entry works.          *)
LEMMA IntradayShrinks ==
  ASSUME NEW b \in Bots
  PROVE  /\ Shrinks(b, CancelIntraday(b))
         /\ CancelIntraday(b).entries \cap Of("day") = {}
         /\ CancelIntraday(b).held = b.held
<1>1. Of("day") \cap (Of("swing") \cup Of("plan")) = {}
  BY Apart DEF Classes
<1> QED BY <1>1, CancelledShrinks DEF CancelIntraday

(* The sweep shrinks the book, to no intraday position if Alpaca fills all *)
(* of its orders.                                                          *)
LEMMA LiquidatedShrinks ==
  ASSUME NEW b \in Bots, NEW R
  PROVE  /\ Shrinks(b, Liquidated(b, R))
         /\ Liquidated(b, R).entries = b.entries
         /\ shield \subseteq Of("dayone") /\ Unfilled(R) = {} =>
              Liquidated(b, R).held \cap Of("day") = {}
<1> DEFINE p == Asked(b, "plan")
           a == Asked(p, "orb")
           l == Sold(a, Targets(a), R)
<1>1. /\ Shrinks(b, p) /\ p \in Bots /\ p.entries = b.entries
  BY AskedShrinks DEF Shrinks, Trimmed
<1> HIDE DEF p
<1>2. /\ Shrinks(p, a) /\ a \in Bots /\ a.entries = p.entries
  BY <1>1, AskedShrinks DEF Shrinks, Trimmed
<1> HIDE DEF a
<1>3. /\ Targets(a) \subseteq a.held /\ Targets(a) \cap Kept = {}
      /\ shield \subseteq Of("dayone") => a.held \cap Of("day") \subseteq Targets(a)
  BY <1>2, TargetsApart
<1>4. /\ Shrinks(a, l)
      /\ l.held = a.held \ (Targets(a) \ Unfilled(R))
      /\ l.entries = a.entries
  BY <1>2, <1>3, SoldShrinks
<1>5. Liquidated(b, R) = l
  BY DEF Liquidated, l, a, p
<1> HIDE DEF l
<1>6. Shrinks(b, l)
  BY <1>1, <1>2, <1>4, ShrinksAgain
<1> QED BY <1>1, <1>2, <1>3, <1>4, <1>5, <1>6

(* The audit is one of the phases.                                         *)
LEMMA FinalPhases == "ZERO_AUDIT" \in Phases /\ "ZERO_AUDIT" \in OncePhases
BY AllPhases DEF OncePhases

(* A flat book may be certified in its audit window.                       *)
LEMMA CertifiedSound ==
  ASSUME NEW d, NEW k, NEW b, Sound(b, d, k), b.phase = "ZERO_AUDIT",
         b.session = d => k >= Audit,
         NEW safe, safe \subseteq Of("dayone"), IsFlat(b, safe)
  PROVE  /\ Sound(Certified(b), d, k)
         /\ Trimmed(b, Certified(b))
         /\ Certified(b).phase = "ZERO_AUDIT"
         /\ Certified(b).held = b.held /\ Certified(b).entries = b.entries
         /\ NoDay(Certified(b))
<1> DEFINE c == Certified(b)
<1>1. /\ c \in Bots /\ c.held = b.held /\ c.entries = b.entries /\ c.exits = b.exits
      /\ c.session = b.session /\ c.since = b.since /\ c.days = b.days
      /\ c.phase = b.phase /\ c.done = b.done
  BY DEF Certified, Bots, Sound
<1>2. Ours \cap (Of("swing") \cup Of("hold") \cup safe) = {}
  BY Apart DEF Ours, Classes
<1>3. (b.held \cup b.entries \cup b.exits) \cap Ours = {}
  BY <1>2 DEF IsFlat
<1> HIDE DEF c
<1>4. Sound(c, d, k) /\ NoDay(c)
  BY <1>1, <1>3 DEF Sound, Counted, Flat, NoDay, Ours, Final
<1>5. Trimmed(b, c)
  BY <1>1 DEF Trimmed
<1> QED BY <1>1, <1>4, <1>5 DEF c

(* Steps that only take away compose.                                      *)
LEMMA TrimmedAgain ==
  ASSUME NEW b, NEW c, NEW d, Trimmed(b, c), Trimmed(c, d)
  PROVE  Trimmed(b, d)
BY DEF Trimmed

(* A sound book stays sound when its controllers are asked.                *)
LEMMA AskedSound ==
  ASSUME NEW d, NEW k, NEW b, Sound(b, d, k), NEW c
  PROVE  Sound(Asked(b, c), d, k) /\ Shrinks(b, Asked(b, c))
<1>1. b \in Bots
  BY DEF Sound
<1>2. Shrinks(b, Asked(b, c))
  BY <1>1, AskedShrinks
<1> QED BY <1>2, ShrinksSound

(* A sound book stays sound when its intraday orders are cancelled.        *)
LEMMA IntradaySound ==
  ASSUME NEW d, NEW k, NEW b, Sound(b, d, k)
  PROVE  Sound(CancelIntraday(b), d, k) /\ Shrinks(b, CancelIntraday(b))
<1>1. b \in Bots
  BY DEF Sound
<1>2. Shrinks(b, CancelIntraday(b))
  BY <1>1, IntradayShrinks
<1> QED BY <1>2, ShrinksSound

(* A sound book stays sound when it is swept.                              *)
LEMMA LiquidatedSound ==
  ASSUME NEW d, NEW k, NEW b, Sound(b, d, k), NEW R
  PROVE  Sound(Liquidated(b, R), d, k) /\ Shrinks(b, Liquidated(b, R))
<1>1. b \in Bots
  BY DEF Sound
<1>2. Shrinks(b, Liquidated(b, R))
  BY <1>1, LiquidatedShrinks
<1> QED BY <1>2, ShrinksSound

-----------------------------------------------------------------------------
(* Handlers                                                                *)

(* The audit and the sweep: sound, and nothing intraday left if all fills. *)
LEMMA SweptSound ==
  ASSUME NEW d, NEW k \in Int, NEW b, Sound(b, d, k), b.session = d => k >= Audit,
         shield \subseteq Of("dayone"), NEW R
  PROVE  /\ Sound(Swept(b, R), d, k)
         /\ Trimmed(b, Swept(b, R))
         /\ Swept(b, R).phase = "ZERO_AUDIT"
         /\ Unfilled(R) = {} => NoDay(Swept(b, R))
<1> DEFINE z == [b EXCEPT !.phase = "ZERO_AUDIT", !.done = @ \cup {"ZERO_AUDIT"}]
           p == Asked(z, "plan")
           a == Asked(p, "orb")
           c == CancelIntraday(a)
           l == Liquidated(c, R)
           n == [l EXCEPT !.audited = FALSE]
<1>1. Sound(z, d, k) /\ Trimmed(b, z) /\ z.phase = "ZERO_AUDIT" /\ z.session = b.session
  <2>1. /\ z \in Bots /\ z.held = b.held /\ z.entries = b.entries /\ z.exits = b.exits
        /\ z.session = b.session /\ z.since = b.since /\ z.days = b.days
        /\ z.phase = "ZERO_AUDIT" /\ z.audited = b.audited /\ z.status = b.status
    BY FinalPhases DEF Sound, Bots
  <2> HIDE DEF z
  <2>2. Sound(z, d, k)
    BY <2>1 DEF Sound, Counted, Flat, NoDay, Final, Audit, Open
  <2> QED BY <2>1, <2>2 DEF Trimmed, Sound
<1> HIDE DEF z
<1>2. Shrinks(z, p) /\ Sound(p, d, k)
  BY <1>1, AskedSound
<1> HIDE DEF p
<1>3. Shrinks(p, a) /\ Sound(a, d, k)
  BY <1>2, AskedSound
<1> HIDE DEF a
<1>4. Shrinks(a, c) /\ Sound(c, d, k) /\ c.entries \cap Of("day") = {}
  <2>1. a \in Bots
    BY <1>3 DEF Sound
  <2> QED BY <2>1, <1>3, IntradayShrinks, IntradaySound
<1> HIDE DEF c
<1>5. /\ Shrinks(c, l) /\ Sound(l, d, k) /\ l.entries = c.entries
      /\ Unfilled(R) = {} => l.held \cap Of("day") = {}
  <2>1. c \in Bots
    BY <1>4 DEF Sound
  <2> QED BY <2>1, <1>4, LiquidatedShrinks, LiquidatedSound
<1> HIDE DEF l, n
<1>6. /\ Trimmed(b, a) /\ a.phase = "ZERO_AUDIT" /\ a.session = b.session
      /\ Trimmed(b, l) /\ l.phase = "ZERO_AUDIT" /\ l.session = b.session
  <2>1. Shrinks(z, a) /\ Shrinks(z, l)
    BY <1>2, <1>3, <1>4, <1>5, ShrinksAgain
  <2> QED BY <2>1, <1>1, TrimmedAgain DEF Shrinks, Trimmed
<1>7. Swept(b, R) = IF IsFlat(a, shield) THEN Certified(a)
                    ELSE IF c.held # {} /\ IsFlat(l, {}) THEN Certified(l) ELSE n
  BY DEF Swept, n, l, c, a, p, z
<1>8. CASE IsFlat(a, shield)
  <2>1. /\ Sound(Certified(a), d, k) /\ Trimmed(a, Certified(a))
        /\ Certified(a).phase = "ZERO_AUDIT" /\ NoDay(Certified(a))
    BY <1>8, <1>6, <1>3, CertifiedSound
  <2>2. Swept(b, R) = Certified(a)
    BY <1>7, <1>8
  <2> QED BY <2>1, <2>2, <1>6, TrimmedAgain
<1>9. CASE ~IsFlat(a, shield) /\ c.held # {} /\ IsFlat(l, {})
  <2>1. /\ Sound(Certified(l), d, k) /\ Trimmed(l, Certified(l))
        /\ Certified(l).phase = "ZERO_AUDIT" /\ NoDay(Certified(l))
    BY <1>9, <1>6, <1>5, CertifiedSound
  <2>2. Swept(b, R) = Certified(l)
    BY <1>7, <1>9
  <2> QED BY <2>1, <2>2, <1>6, TrimmedAgain
<1>10. CASE ~IsFlat(a, shield) /\ ~(c.held # {} /\ IsFlat(l, {}))
  <2>1. /\ n \in Bots /\ n.held = l.held /\ n.entries = l.entries /\ n.exits = l.exits
        /\ n.session = l.session /\ n.since = l.since /\ n.days = l.days
        /\ n.phase = l.phase /\ n.done = l.done /\ n.audited = FALSE /\ n.status = l.status
    BY <1>5 DEF Bots, Sound, n
  <2>2. Sound(n, d, k)
    BY <2>1, <1>5 DEF Sound, Counted, Flat
  <2>3. Trimmed(b, n)
    BY <2>1, <1>6 DEF Trimmed
  <2>4. Unfilled(R) = {} => NoDay(n)
    BY <2>1, <1>5, <1>4 DEF NoDay
  <2>5. Swept(b, R) = n
    BY <1>7, <1>10
  <2> QED BY <2>1, <2>2, <2>3, <2>4, <2>5, <1>6
<1> QED BY <1>8, <1>9, <1>10

(* The phases check_time_tick issues a directive for.                      *)
Directives == OncePhases \cup {"MARKET_CLOSED"}

(* Each directive leaves a sound book; the audit may only certify one that *)
(* is flat.                                                                *)
LEMMA DirectiveSound ==
  ASSUME NEW d, NEW k \in Int, NEW b, Sound(b, d, k), NEW kind \in Directives,
         kind = "ZERO_AUDIT" /\ b.session = d => k >= Audit,
         shield \subseteq Of("dayone"), NEW R
  PROVE  /\ Sound(Directive(b, kind, R), d, k)
         /\ Trimmed(b, Directive(b, kind, R))
         /\ kind # "ZERO_AUDIT" => Directive(b, kind, R).phase = b.phase
         /\ kind = "ZERO_AUDIT" => Directive(b, kind, R).phase = "ZERO_AUDIT"
         /\ kind = "ZERO_AUDIT" /\ Unfilled(R) = {} => NoDay(Directive(b, kind, R))
<1>1. Shrinks(b, b)
  BY DEF Shrinks, Trimmed, Sound
<1>2. Shrinks(b, CancelIntraday(b)) /\ Sound(CancelIntraday(b), d, k)
  BY IntradaySound
<1>3. CASE kind = "ENTRY_LOCKOUT"
  BY <1>3, <1>1 DEF Directive, Shrinks
<1>4. CASE kind = "ORDER_PURGE"
  <2> DEFINE a == Asked(b, "orb")
  <2>1. Shrinks(b, a) /\ a \in Bots
    BY AskedShrinks DEF Sound, Shrinks, Trimmed
  <2>2. Directive(b, kind, R) = Purged(a)
    BY <1>4 DEF Directive
  <2> HIDE DEF a
  <2>3. Shrinks(b, Purged(a))
    BY <2>1, PurgedShrinks, ShrinksAgain
  <2> QED BY <2>2, <2>3, <1>4, ShrinksSound DEF Shrinks
<1>5. CASE kind = "MANDATORY_LIQUIDATION"
  <2> DEFINE c == CancelIntraday(b)
             l == Liquidated(c, R)
  <2>1. Directive(b, kind, R) = l
    BY <1>5 DEF Directive
  <2> HIDE DEF c
  <2>2. Shrinks(c, l)
    BY <1>2, LiquidatedShrinks DEF Sound, c
  <2> HIDE DEF l
  <2>3. Shrinks(b, l)
    BY <1>2, <2>2, ShrinksAgain DEF c
  <2> QED BY <2>1, <2>3, <1>5, ShrinksSound DEF Shrinks
<1>6. CASE kind = "ZERO_AUDIT"
  <2> DEFINE c == CancelIntraday(b)
  <2>1. Directive(b, kind, R) = Swept(c, R)
    BY <1>6 DEF Directive
  <2>2. Sound(c, d, k) /\ Trimmed(b, c) /\ c.session = b.session
    BY <1>2 DEF Shrinks, Trimmed
  <2> HIDE DEF c
  <2> QED BY <2>1, <2>2, <1>6, SweptSound, TrimmedAgain
<1>7. CASE kind = "MARKET_CLOSED"
  BY <1>7, <1>2 DEF Directive, Shrinks
<1> QED BY <1>3, <1>4, <1>5, <1>6, <1>7 DEF Directives, OncePhases

(* A tick issues no directive outside the phase windows.                   *)
LEMMA DueKind ==
  ASSUME slot \in Pre .. Closed, NEW b, Due(b)
  PROVE  PhaseOf[slot] \in Directives
BY Names DEF Due, Directives, Phases, OncePhases, Pre, Closed

(* A tick leaves the book alone and cannot bring a phase before its time.  *)
LEMMA TickedSound ==
  ASSUME slot \in Pre .. Closed, NEW b, Sound(b, day, slot)
  PROVE  /\ Sound(Ticked(b), day, slot)
         /\ Trimmed(b, Ticked(b))
         /\ Ticked(b).held = b.held /\ Ticked(b).entries = b.entries
         /\ b.session = day /\ slot # Open => Ticked(b).phase # "NORMAL_TRADING"
         /\ Due(b) => Ticked(b).phase = PhaseOf[slot]
         /\ slot >= Audit => Ticked(b).phase \in Final \/ Ticked(b).phase = b.phase
         /\ slot >= Audit /\ b.phase = "NORMAL_TRADING" /\ b.done = {} =>
              Ticked(b).phase \in Final
<1> DEFINE t == Ticked(b)
           x == OncePhases \cap {PhaseOf[slot]}
<1>1. /\ t \in Bots /\ t.held = b.held /\ t.entries = b.entries /\ t.exits = b.exits
      /\ t.session = b.session /\ t.since = b.since /\ t.days = b.days
      /\ t.audited = b.audited /\ t.status = b.status
      /\ t.phase = IF Due(b) \/ slot \in {Pre, Open} THEN PhaseOf[slot] ELSE b.phase
      /\ t.done = b.done \cup (IF Due(b) THEN x ELSE {})
  BY SlotPhase DEF Ticked, Bots, Sound
<1> HIDE DEF t
<1>2. slot \in Int /\ (slot <= Open => x = {} /\ slot \in {0, 1})
  BY Names DEF Pre, Open, Closed, OncePhases
<1>3. slot >= Audit => PhaseOf[slot] \in Final
  BY Names DEF Pre, Audit, Closed, Final
<1>4. slot # Open => PhaseOf[slot] # "NORMAL_TRADING"
  BY Names DEF Pre, Open, Closed
<1>5. b.session = day /\ slot # Open => t.phase # "NORMAL_TRADING"
  <2> SUFFICES ASSUME b.session = day, slot # Open, t.phase = "NORMAL_TRADING"
               PROVE  FALSE
    OBVIOUS
  <2>1. ~Due(b) /\ slot # Pre /\ b.phase = "NORMAL_TRADING"
    BY <1>1, <1>4
  <2>2. b.done = {}
    BY <2>1 DEF Sound
  <2>3. slot \in 2 .. 6
    BY <2>1 DEF Pre, Open, Closed
  <2>4. PhaseOf[slot] \in OncePhases \/ PhaseOf[slot] = "MARKET_CLOSED"
    BY <2>3, Names DEF OncePhases
  <2> QED BY <2>1, <2>2, <2>4 DEF Due
<1>6. slot >= Audit => t.phase \in Final \/ t.phase = b.phase
  BY <1>1, <1>3
<1>7. ASSUME slot >= Audit, b.phase = "NORMAL_TRADING", b.done = {}
      PROVE  t.phase \in Final
  <2>1. slot \in {5, 6}
    BY <1>7 DEF Pre, Audit, Closed
  <2>2. Due(b)
    BY <2>1, <1>7, Names DEF Due, OncePhases
  <2> QED BY <2>2, <1>1, <1>3, <1>7
<1>8. ASSUME b.session = day, t.done # {}
      PROVE  slot > Open /\ t.phase # "NORMAL_TRADING"
  <2>1. slot > Open
    BY <1>8, <1>1, <1>2 DEF Sound, Open
  <2> QED BY <2>1, <1>5, <1>8 DEF Open
<1>9. ASSUME b.session = day, t.audited
      PROVE  slot >= Audit /\ t.phase \in Final /\ (Punctual => NoDay(t))
  BY <1>9, <1>1, <1>6 DEF Sound, NoDay
<1>10. Sound(t, day, slot)
  BY <1>1, <1>8, <1>9 DEF Sound, Counted, Flat
<1>11. Trimmed(b, t)
  BY <1>1 DEF Trimmed
<1> QED BY <1>1, <1>5, <1>6, <1>7, <1>10, <1>11 DEF t

(* What a boundary may do to the book: begin a session, but keep what is   *)
(* held overnight and open nothing.                                        *)
Handed(b, c) ==
  /\ c \in Bots
  /\ c.held \subseteq b.held /\ c.entries \subseteq b.entries
  /\ b.held \cap Kept \subseteq c.held
  /\ b.exits \cap Of("swing") \subseteq c.exits

(* A session that has just begun.                                          *)
Begun(c) == c.phase = "NORMAL_TRADING" /\ c.done = {} /\ ~c.audited /\ NoDay(c)

(* A session that begins counts once for each swing position, because the  *)
(* book was sound in the session before it.                                *)
LEMMA NewSessionSound ==
  ASSUME NEW m, NEW k, NEW b, Sound(b, m, k),
         NEW d \in 1 .. MaxDay, d <= m, b.session < d, NoDay(b)
  PROVE  /\ Sound(NewSession(b, d), m, k)
         /\ Handed(b, NewSession(b, d))
         /\ NewSession(b, d).session = d
         /\ Begun(NewSession(b, d))
<1> DEFINE c == NewSession(b, d)
<1>1. b \in Bots /\ Counted(b) /\ b.session \in Int
      /\ b.since \in [Of("swing") -> 1 .. MaxDay] /\ b.days \in [Of("swing") -> 0 .. MaxDay]
  BY DEF Sound, Bots
<1>2. \A s \in Of("swing") : b.days[s] < MaxDay
  BY <1>1, DayAssumption DEF Counted
<1>3. c \in Bots
  BY <1>1, <1>2, NewSessionFields
<1>4. /\ c.held = b.held /\ c.entries = b.entries /\ c.exits = b.exits
      /\ c.session = d /\ c.since = b.since /\ c.days = NextDays(b)
      /\ c.phase = "NORMAL_TRADING" /\ c.done = {} /\ c.audited = FALSE /\ c.status = "ACTIVE"
  BY <1>1 DEF NewSession, Bots
<1> HIDE DEF c
<1>5. Counted(c)
  <2> SUFFICES ASSUME NEW s \in Of("swing")
               PROVE  c.days[s] <= c.session - c.since[s] + 1
    BY DEF Counted
  <2>1. c.days[s] \in Int /\ c.days[s] <= b.days[s] + 1
    BY <1>1, <1>4 DEF NextDays
  <2>2. b.days[s] <= b.session - b.since[s] + 1
    BY <1>1 DEF Counted
  <2>3. b.days[s] \in Int /\ b.since[s] \in Int /\ d \in Int
    BY <1>1
  <2> QED BY <2>1, <2>2, <2>3, <1>1, <1>4
<1>6. Sound(c, m, k)
  BY <1>3, <1>4, <1>5 DEF Sound, Flat
<1>7. Handed(b, c) /\ Begun(c)
  BY <1>3, <1>4 DEF Handed, Begun, NoDay
<1> QED BY <1>4, <1>6, <1>7 DEF c

(* What is allowed to a directive is allowed to a boundary.                *)
LEMMA TrimmedHanded ==
  /\ \A b, c : Trimmed(b, c) => Handed(b, c)
  /\ \A b, c, d : Handed(b, c) /\ Handed(c, d) => Handed(b, d)
BY DEF Trimmed, Handed

(* The boundary leaves a sound book; if it begins the session, no intraday *)
(* position or entry is left in it.                                        *)
LEMMA BoundarySound ==
  ASSUME NEW m, NEW k, NEW b, Sound(b, m, k), NEW d \in 1 .. MaxDay, d <= m,
         shield \subseteq Of("dayone"), NEW R
  PROVE  /\ Sound(Boundary(b, d, R), m, k)
         /\ Handed(b, Boundary(b, d, R))
         /\ \/ Shrinks(b, Boundary(b, d, R))
            \/ b.session < d /\ Boundary(b, d, R).session = d /\ Begun(Boundary(b, d, R))
<1> DEFINE o == Asked(b, "orb")
           a == Cancelled(o, Of("swing"))
           S == a.held \ (Exempt \cup Of("orb"))
           l == Sold(a, S, R)
<1>1. Shrinks(b, b) /\ Shrinks(b, Asked(b, "plan")) /\ Sound(Asked(b, "plan"), m, k)
  BY AskedSound DEF Shrinks, Trimmed, Sound
<1>2. Shrinks(b, o) /\ Sound(o, m, k)
  BY AskedSound
<1> HIDE DEF o
<1>3. o \in Bots
  BY <1>2 DEF Sound
<1>4. Shrinks(o, a) /\ a.entries \subseteq Of("swing")
  BY <1>3, CancelledShrinks
<1>5. a \in Bots
  BY <1>4 DEF Shrinks, Trimmed
<1> HIDE DEF a
<1>6. S \in SUBSET a.held /\ S \cap Kept = {}
  BY DEF Exempt, Kept
<1> HIDE DEF S
<1>7. Shrinks(a, l) /\ l.entries = a.entries
  BY <1>5, <1>6, SoldShrinks
<1> HIDE DEF l
<1>8. Shrinks(b, l)
  BY <1>2, <1>4, <1>7, ShrinksAgain
<1>9. Sound(l, m, k) /\ l.session = b.session
  BY <1>8, ShrinksSound DEF Shrinks, Trimmed
<1>10. Boundary(b, d, R) = IF b.session >= d THEN b
         ELSE IF PlanBusy(b) THEN Asked(b, "plan")
         ELSE IF l.held \subseteq Exempt \cup Of("orb") THEN NewSession(l, d) ELSE l
  BY DEF Boundary, l, S, a, o
<1>11. CASE b.session >= d
  BY <1>10, <1>11, <1>1, TrimmedHanded DEF Shrinks
<1>12. CASE ~(b.session >= d) /\ PlanBusy(b)
  BY <1>10, <1>12, <1>1, TrimmedHanded DEF Shrinks
<1>13. CASE ~(b.session >= d) /\ ~PlanBusy(b) /\ ~(l.held \subseteq Exempt \cup Of("orb"))
  BY <1>10, <1>13, <1>8, <1>9, TrimmedHanded DEF Shrinks
<1>14. CASE ~(b.session >= d) /\ ~PlanBusy(b) /\ l.held \subseteq Exempt \cup Of("orb")
  <2>1. Boundary(b, d, R) = NewSession(l, d)
    BY <1>10, <1>14
  <2>2. \A c \in {"swing", "hold", "dayone", "orb"} : Of("day") \cap Of(c) = {}
    BY Apart DEF Classes
  <2>3. NoDay(l)
    BY <2>2, <1>14, <1>7, <1>4 DEF NoDay, Exempt
  <2>4. b.session < d
    BY <1>14 DEF Sound, Bots
  <2>5. /\ Sound(NewSession(l, d), m, k) /\ Handed(l, NewSession(l, d))
        /\ NewSession(l, d).session = d /\ Begun(NewSession(l, d))
    BY <2>3, <2>4, <1>9, NewSessionSound
  <2>6. Handed(b, NewSession(l, d))
    BY <2>5, <1>8, TrimmedHanded DEF Shrinks
  <2> QED BY <2>1, <2>4, <2>5, <2>6
<1> QED BY <1>11, <1>12, <1>13, <1>14

(* So does a boundary that gives up because its row cannot be staged.      *)
LEMMA UnstagedSound ==
  ASSUME NEW m, NEW k, NEW b, Sound(b, m, k), NEW d
  PROVE  Sound(Unstaged(b, d), m, k) /\ Shrinks(b, Unstaged(b, d))
<1>1. Shrinks(b, b)
  BY DEF Shrinks, Trimmed, Sound
<1> QED BY <1>1, AskedSound DEF Unstaged

-----------------------------------------------------------------------------
(* The invariant and the steps                                             *)

(* An interrupted row waits for the restart, and is not of the future.     *)
Booting ==
  /\ staged.kind \in Phases => boot # "serving"
  /\ staged.kind = "ZERO_AUDIT" => bot.session <= staged.day
  /\ staged.kind = "ZERO_AUDIT" /\ staged.day = day => slot >= Audit
  /\ staged # NoRow => staged.day <= day

(* What fresh and clean promise.                                           *)
Watching ==
  /\ fresh \/ clean => boot = "serving"
  /\ fresh /\ bot.session = day /\ slot # Open => bot.phase # "NORMAL_TRADING"
  /\ clean => /\ slot >= Audit
              /\ bot.session = day => bot.phase \in Final /\ (Punctual => NoDay(bot))

(* The inductive invariant.                                                *)
IInv ==
  /\ TypeOK
  /\ Sound(bot, day, slot)
  /\ Sound(saved, day, slot)
  /\ Punctual => live = {}
  /\ Booting
  /\ Watching

(* The initial states satisfy the invariant.                               *)
LEMMA Initial == Init => IInv
<1> SUFFICES ASSUME Init
             PROVE  IInv
  OBVIOUS
<1>1. bot \in Bots
  BY AllPhases, DayAssumption DEF Init, Bots
<1>2. TypeOK
  <2>1. 1 \in 1 .. MaxDay /\ Pre \in Pre .. Closed
    BY DayAssumption DEF Pre, Closed
  <2> QED BY <1>1, <2>1 DEF Init, TypeOK
<1>3. Sound(bot, day, slot)
  BY <1>1 DEF Init, Sound, Counted, Flat
<1>4. NoRow.kind \notin Phases /\ NoRow.kind # "ZERO_AUDIT"
  BY AllPhases DEF NoRow, OncePhases
<1> QED BY <1>2, <1>3, <1>4 DEF Init, IInv, Booting, Watching

(* A handler that moves neither the phase nor the session.                 *)
LEMMA BookStep ==
  ASSUME IInv, boot = "serving",
         UNCHANGED <<day, slot, staged, boot, fresh, clean>>,
         Sound(bot', day, slot),
         saved' = bot' \/ saved' = saved,
         shield' \subseteq Of("dayone"), live' \subseteq Symbols, Punctual => live' = {},
         bot'.session = bot.session, bot'.phase = bot.phase,
         clean /\ bot.session = day /\ Punctual => NoDay(bot')
  PROVE  IInv'
<1>1. Sound(saved', day, slot)
  BY DEF IInv
<1>2. bot' \in Bots /\ saved' \in Bots
  BY <1>1 DEF Sound
<1>3. TypeOK'
  BY <1>2 DEF IInv, TypeOK
<1>4. Booting'
  BY FinalPhases DEF IInv, Booting
<1>5. Watching'
  BY DEF IInv, Watching, NoDay
<1>6. Sound(bot, day, slot)' /\ Sound(saved, day, slot)'
  BY <1>1 DEF Sound, Counted, Flat, NoDay
<1> QED BY <1>3, <1>4, <1>5, <1>6 DEF IInv

(* Checkpoint keeps the invariant.                                         *)
LEMMA CheckpointStep == ASSUME IInv, Checkpoint PROVE IInv'
<1> QED BY BookStep DEF Checkpoint, IInv, TypeOK, Watching

(* Shield keeps the invariant.                                             *)
LEMMA ShieldStep == ASSUME IInv, NEW s \in Symbols, Shield(s) PROVE IInv'
<1>1. shield' \subseteq Of("dayone")
  BY DEF Shield, IInv, TypeOK
<1> QED BY <1>1, BookStep DEF Shield, IInv, TypeOK, Watching

(* Enter keeps the invariant, and happens in normal trading only once a    *)
(* tick has run.                                                           *)
LEMMA EnterStep ==
  ASSUME IInv, NEW s \in Symbols, Enter(s)
  PROVE  /\ IInv'
         /\ fresh' /\ bot.session = day => slot = Open
         /\ bot.held \subseteq bot'.held /\ bot.exits \subseteq bot'.exits
<1>1. /\ bot' \in Bots /\ bot'.held = bot.held /\ bot'.entries = bot.entries \cup {s}
      /\ bot'.exits = bot.exits /\ bot'.session = bot.session
      /\ bot'.since = bot.since /\ bot'.days = bot.days /\ bot'.phase = bot.phase
      /\ bot'.done = bot.done /\ bot'.audited = bot.audited /\ bot'.status = bot.status
      /\ bot.phase = "NORMAL_TRADING" /\ bot.status = "ACTIVE"
  BY DEF Enter, IInv, TypeOK, Bots
<1>2. bot.phase \notin Final
  BY <1>1 DEF Final
<1>3. Sound(bot', day, slot)
  BY <1>1, <1>2 DEF IInv, Sound, Counted, Flat
<1>4. clean => bot.session # day
  BY <1>2 DEF IInv, Watching
<1>5. IInv'
  BY <1>1, <1>3, <1>4, BookStep DEF Enter, IInv, TypeOK
<1> QED BY <1>1, <1>5 DEF Enter, IInv, Watching

(* EntryEnds keeps the invariant and sells nothing.                        *)
LEMMA EntryEndsStep ==
  ASSUME IInv, NEW s \in Symbols, EntryEnds(s)
  PROVE  /\ IInv' /\ bot'.entries \subseteq bot.entries
         /\ bot.held \subseteq bot'.held /\ bot.exits \subseteq bot'.exits
<1>1. /\ bot' \in Bots
      /\ bot'.held = bot.held \/ bot'.held = bot.held \cup {s}
      /\ bot'.exits = bot.exits \/ bot'.exits = bot.exits \cup {s}
      /\ bot'.entries = bot.entries \ {s} /\ bot'.session = bot.session
      /\ bot'.since = bot.since /\ bot'.days = bot.days /\ bot'.phase = bot.phase
      /\ bot'.done = bot.done /\ bot'.audited = bot.audited /\ bot'.status = bot.status
  BY DEF EntryEnds, IInv, TypeOK, Bots
<1>2. s \in bot.entries /\ s \in Of("day")
  BY DEF EntryEnds
<1>3. ~NoDay(bot) /\ (bot.entries \cap Ours # {})
  BY <1>2 DEF NoDay, Ours
<1>4. Sound(bot', day, slot)
  BY <1>1, <1>3 DEF IInv, Sound, Counted, Flat
<1>5. clean /\ Punctual => bot.session # day
  BY <1>3 DEF IInv, Watching
<1>6. IInv'
  BY <1>1, <1>4, <1>5, BookStep DEF EntryEnds, IInv, TypeOK
<1> QED BY <1>1, <1>6

(* ExitFills keeps the invariant and enters nothing.                       *)
LEMMA ExitFillsStep ==
  ASSUME IInv, NEW s \in Symbols, ExitFills(s)
  PROVE  IInv' /\ bot'.entries \subseteq bot.entries
<1>1. /\ bot' \in Bots /\ bot'.held = bot.held \ {s} /\ bot'.exits = bot.exits \ {s}
      /\ bot'.entries = bot.entries /\ bot'.session = bot.session
      /\ bot'.since = bot.since /\ bot'.days = bot.days /\ bot'.phase = bot.phase
      /\ bot'.done = bot.done /\ bot'.audited = bot.audited /\ bot'.status = bot.status
  BY DEF ExitFills, IInv, TypeOK, Bots
<1>2. Sound(bot', day, slot)
  BY <1>1 DEF IInv, Sound, Counted, Flat, NoDay
<1>3. clean /\ bot.session = day /\ Punctual => NoDay(bot')
  BY <1>1 DEF IInv, Watching, NoDay
<1>4. IInv'
  BY <1>1, <1>2, <1>3, BookStep DEF ExitFills, IInv, TypeOK
<1> QED BY <1>1, <1>4

(* OwnerOpens keeps the invariant: a flat account is entered by overnight  *)
(* holds only.                                                             *)
LEMMA OwnerOpensStep ==
  ASSUME IInv, NEW s \in Symbols, OwnerOpens(s)
  PROVE  /\ IInv' /\ bot'.entries = bot.entries
         /\ bot.held \subseteq bot'.held /\ bot.exits \subseteq bot'.exits
<1> DEFINE since == [x \in Of("swing") |-> IF x = s THEN bot.session ELSE bot.since[x]]
           days == [x \in Of("swing") |-> IF x = s THEN 1 ELSE bot.days[x]]
<1>1. /\ bot \in Bots /\ bot.session \in 1 .. MaxDay
      /\ bot.since \in [Of("swing") -> 1 .. MaxDay] /\ bot.days \in [Of("swing") -> 0 .. MaxDay]
  BY DEF IInv, TypeOK, Bots
<1>2. since \in [Of("swing") -> 1 .. MaxDay] /\ days \in [Of("swing") -> 0 .. MaxDay]
  BY <1>1, DayAssumption
<1>3. /\ bot' \in Bots /\ bot'.held = bot.held \cup {s}
      /\ bot'.exits = bot.exits \/ (bot'.exits = bot.exits \cup {s} /\ Class[s] = "swing")
      /\ bot'.entries = bot.entries /\ bot'.session = bot.session
      /\ bot'.since = since /\ bot'.days = days /\ bot'.phase = bot.phase
      /\ bot'.done = bot.done /\ bot'.audited = bot.audited /\ bot'.status = bot.status
  BY <1>1, <1>2 DEF OwnerOpens, Bots
<1>4. Counted(bot')
  BY <1>1, <1>3 DEF Counted, IInv, Sound
<1>5. Punctual => Flat(bot')
  <2>1. Class[s] \in {"swing", "hold"} => s \notin Ours
    BY DEF Ours, Of
  <2>2. bot.status = "EOD_FLAT" => Class[s] = "hold"
    BY DEF OwnerOpens
  <2> QED BY <2>1, <2>2, <1>3 DEF IInv, Sound, Flat
<1>6. s \notin Of("day")
  BY DEF OwnerOpens
<1>7. Sound(bot', day, slot)
  BY <1>3, <1>4, <1>5, <1>6 DEF IInv, Sound, NoDay
<1>8. clean /\ bot.session = day /\ Punctual => NoDay(bot')
  BY <1>3, <1>6 DEF IInv, Watching, NoDay
<1>9. IInv'
  BY <1>3, <1>7, <1>8, BookStep DEF OwnerOpens, IInv, TypeOK
<1> QED BY <1>3, <1>9

(* OwnerCloses keeps the invariant and enters nothing.                     *)
LEMMA OwnerClosesStep ==
  ASSUME IInv, NEW s \in Symbols, OwnerCloses(s)
  PROVE  IInv' /\ bot'.entries = bot.entries
<1>1. /\ bot' \in Bots /\ bot'.held = bot.held \ {s} /\ bot'.exits = bot.exits \ {s}
      /\ bot'.entries = bot.entries /\ bot'.session = bot.session
      /\ bot'.since = bot.since /\ bot'.days = bot.days /\ bot'.phase = bot.phase
      /\ bot'.done = bot.done /\ bot'.audited = bot.audited /\ bot'.status = bot.status
  BY DEF OwnerCloses, IInv, TypeOK, Bots
<1>2. Sound(bot', day, slot)
  BY <1>1 DEF IInv, Sound, Counted, Flat, NoDay
<1>3. clean /\ bot.session = day /\ Punctual => NoDay(bot')
  BY <1>1 DEF IInv, Watching, NoDay
<1>4. shield' \subseteq Of("dayone")
  BY DEF OwnerCloses, IInv, TypeOK
<1>5. IInv'
  BY <1>1, <1>2, <1>3, <1>4, BookStep DEF OwnerCloses, IInv, TypeOK
<1> QED BY <1>1, <1>5

(* LateFill keeps the part of the invariant that allows for late fills.    *)
LEMMA LateFillStep ==
  ASSUME IInv, NEW s \in Symbols, LateFill(s)
  PROVE  /\ IInv' /\ bot'.entries = bot.entries
         /\ bot.held \subseteq bot'.held /\ bot.exits = bot'.exits
<1>1. /\ bot' \in Bots /\ bot'.held = bot.held \cup {s} /\ bot'.exits = bot.exits
      /\ bot'.entries = bot.entries /\ bot'.session = bot.session
      /\ bot'.since = bot.since /\ bot'.days = bot.days /\ bot'.phase = bot.phase
      /\ bot'.done = bot.done /\ bot'.audited = bot.audited /\ bot'.status = bot.status
  BY DEF LateFill, IInv, TypeOK, Bots
<1>2. ~Punctual
  BY DEF LateFill, IInv
<1>3. Sound(bot', day, slot)
  BY <1>1, <1>2 DEF IInv, Sound, Counted
<1>4. live' \subseteq Symbols
  BY DEF LateFill, IInv, TypeOK
<1>5. IInv'
  BY <1>1, <1>2, <1>3, <1>4, BookStep DEF LateFill, IInv, TypeOK
<1> QED BY <1>1, <1>5

(* Without late fills nothing cancelled here stays open at Alpaca.         *)
LEMMA LiveOK ==
  ASSUME IInv, NEW b, LeaveLive(b)
  PROVE  live' \subseteq Symbols /\ (Punctual => live' = {})
<1>1. bot.entries \subseteq Symbols
  BY DEF IInv, TypeOK, Bots
<1> QED BY <1>1 DEF IInv, TypeOK, LeaveLive, Punctual

(* The breaker keeps the invariant and what is held overnight.             *)
LEMMA TripStep ==
  ASSUME IInv, NEW R, Trip(R)
  PROVE  IInv' /\ Handed(bot, bot')
<1> DEFINE h == [bot EXCEPT !.status = "CIRCUIT_HALTED"]
           p == Asked(h, "plan")
           o == Asked(p, "orb")
           a == Asked(o, "dayone")
           c == CancelIntraday(a)
           b == Sold(c, Targets(a), R)
<1>1. bot' = b
  BY DEF Trip
<1>2. /\ h \in Bots /\ h.held = bot.held /\ h.entries = bot.entries /\ h.exits = bot.exits
      /\ h.session = bot.session /\ h.since = bot.since /\ h.days = bot.days
      /\ h.phase = bot.phase /\ h.done = bot.done /\ h.audited = bot.audited
      /\ h.status = "CIRCUIT_HALTED"
  BY DEF IInv, TypeOK, Bots
<1> HIDE DEF h
<1>3. Sound(h, day, slot) /\ Trimmed(bot, h)
  BY <1>2 DEF IInv, Sound, Counted, Flat, NoDay, Trimmed
<1>4. Sound(p, day, slot) /\ Shrinks(h, p)
  BY <1>3, AskedSound
<1> HIDE DEF p
<1>5. Sound(o, day, slot) /\ Shrinks(p, o)
  BY <1>4, AskedSound
<1> HIDE DEF o
<1>6. Sound(a, day, slot) /\ Shrinks(o, a)
  BY <1>5, AskedSound
<1> HIDE DEF a
<1>7. a \in Bots
  BY <1>6 DEF Sound
<1>8. Sound(c, day, slot) /\ Shrinks(a, c) /\ c.held = a.held
  BY <1>6, <1>7, IntradaySound, IntradayShrinks
<1> HIDE DEF c
<1>9. c \in Bots /\ Targets(a) \in SUBSET c.held /\ Targets(a) \cap Kept = {}
  BY <1>7, <1>8, TargetsApart DEF Sound
<1>10. Shrinks(c, b)
  BY <1>9, SoldShrinks
<1> HIDE DEF b
<1>11. Shrinks(h, b)
  BY <1>4, <1>5, <1>6, <1>8, <1>10, ShrinksAgain
<1>12. Sound(b, day, slot) /\ Trimmed(bot, b) /\ b.phase = bot.phase /\ b.session = bot.session
  BY <1>11, <1>3, <1>2, ShrinksSound, TrimmedAgain DEF Shrinks, Trimmed
<1>13. clean /\ bot.session = day /\ Punctual => NoDay(bot')
  BY <1>1, <1>12 DEF IInv, Watching, NoDay, Trimmed
<1>14. live' \subseteq Symbols /\ (Punctual => live' = {})
  BY LiveOK DEF Trip
<1>15. IInv'
  BY <1>1, <1>12, <1>13, <1>14, BookStep DEF Trip, IInv, TypeOK
<1> QED BY <1>1, <1>12, <1>15, TrimmedHanded

(* A step of the startup.                                                  *)
LEMMA RestartStep ==
  ASSUME IInv, boot # "serving",
         UNCHANGED <<day, slot, shield, fresh, clean>>,
         Sound(bot', day, slot), Sound(saved', day, slot),
         live' \subseteq Symbols, Punctual => live' = {},
         boot' \in {"boundary", "replay", "serving"},
         \/ staged' = NoRow
         \/ staged' = staged /\ staged.kind = "SESSION_BOUNDARY"
         \/ staged' = staged /\ bot' = bot /\ boot' # "serving"
  PROVE  IInv'
<1>1. bot' \in Bots /\ saved' \in Bots
  BY DEF Sound
<1>2. TypeOK'
  BY <1>1 DEF IInv, TypeOK
<1>3. /\ "SESSION_BOUNDARY" \notin Phases /\ NoRow.kind \notin Phases
      /\ NoRow.kind # "ZERO_AUDIT"
  BY AllPhases DEF OncePhases, NoRow
<1>4. Booting'
  BY <1>3 DEF IInv, Booting
<1>5. fresh' = FALSE /\ clean' = FALSE
  BY DEF IInv, Watching, TypeOK
<1>6. Watching'
  BY <1>5 DEF Watching
<1>7. Sound(bot, day, slot)' /\ Sound(saved, day, slot)'
  BY DEF Sound, Counted, Flat, NoDay
<1> QED BY <1>2, <1>4, <1>6, <1>7 DEF IInv

(* The process dies.                                                       *)
LEMMA CrashStep ==
  ASSUME IInv, boot = "serving", boot' = "boundary", ~fresh', ~clean',
         UNCHANGED <<day, slot, shield>>,
         fresh' \in BOOLEAN, clean' \in BOOLEAN,
         Sound(bot', day, slot), Sound(saved', day, slot),
         live' \subseteq Symbols, Punctual => live' = {},
         \/ staged' = staged
         \/ staged' = [kind |-> "SESSION_BOUNDARY", day |-> day]
         \/ staged' = [kind |-> PhaseOf[slot], day |-> day] /\ PhaseOf[slot] \in Directives
  PROVE  IInv'
<1>1. bot' \in Bots /\ saved' \in Bots /\ bot'.session <= day
  BY DEF Sound
<1>2. staged' \in Rows \cup {NoRow}
  BY DEF IInv, TypeOK, Rows, Directives
<1>3. TypeOK'
  BY <1>1, <1>2 DEF IInv, TypeOK
<1>4. PhaseOf[slot] = "ZERO_AUDIT" => slot >= Audit
  BY Names DEF IInv, TypeOK, Pre, Closed, Audit
<1>5. Booting'
  <2>1. CASE staged' = staged
    BY <2>1, FinalPhases DEF IInv, Booting
  <2>2. CASE staged' = [kind |-> "SESSION_BOUNDARY", day |-> day]
    BY <2>2 DEF IInv, TypeOK, Booting
  <2>3. CASE staged' = [kind |-> PhaseOf[slot], day |-> day]
    BY <2>3, <1>1, <1>4 DEF IInv, TypeOK, Booting
  <2> QED BY <2>1, <2>2, <2>3
<1>6. Watching'
  BY DEF Watching
<1>7. Sound(bot, day, slot)' /\ Sound(saved, day, slot)'
  BY DEF Sound, Counted, Flat, NoDay
<1> QED BY <1>3, <1>5, <1>6, <1>7 DEF IInv

(* Crash keeps the invariant.                                              *)
LEMMA CrashHere == ASSUME IInv, Crash PROVE IInv' /\ bot' = saved
<1>1. Sound(bot', day, slot) /\ Sound(saved', day, slot)
  BY DEF Crash, IInv
<1> QED BY <1>1, CrashStep DEF Crash, IInv, TypeOK

(* CrashInBoundary keeps the invariant.                                    *)
LEMMA CrashInBoundaryStep == ASSUME IInv, CrashInBoundary PROVE IInv' /\ bot' = saved
<1>1. Sound(bot', day, slot) /\ Sound(saved', day, slot)
  BY DEF CrashInBoundary, IInv
<1> QED BY <1>1, CrashStep DEF CrashInBoundary, IInv, TypeOK

(* CrashInDirective keeps the invariant; the row it leaves is of this day  *)
(* and window.                                                             *)
LEMMA CrashInDirectiveStep ==
  ASSUME IInv, NEW R, CrashInDirective(R)
  PROVE  IInv' /\ ~fresh' /\ (bot' = saved \/ Handed(bot, bot'))
<1> DEFINE b == Boundary(bot, day, R)
<1>0. Sound(bot, day, slot) /\ day \in 1 .. MaxDay /\ slot \in Pre .. Closed
      /\ shield \subseteq Of("dayone")
  BY DEF IInv, TypeOK
<1>1. Sound(b, day, slot) /\ Handed(bot, b)
  BY <1>0, BoundarySound
<1>2. /\ saved' = b \/ saved' = saved
      /\ bot' = saved' /\ Due(b) /\ boot = "serving" /\ boot' = "boundary"
      /\ staged' = [kind |-> PhaseOf[slot], day |-> day]
      /\ fresh' = FALSE /\ clean' = FALSE /\ LeaveLive(b)
      /\ UNCHANGED <<day, slot, shield>>
  BY DEF CrashInDirective
<1> HIDE DEF b
<1>3. PhaseOf[slot] \in Directives
  BY <1>0, <1>2, DueKind
<1>4. Sound(bot', day, slot) /\ Sound(saved', day, slot)
  BY <1>1, <1>2 DEF IInv
<1>5. live' \subseteq Symbols /\ (Punctual => live' = {})
  BY <1>2, LiveOK
<1>6. IInv'
  BY <1>2, <1>3, <1>4, <1>5, CrashStep
<1> QED BY <1>1, <1>2, <1>6

(* StartupBoundary keeps the invariant and what is held overnight.         *)
LEMMA StartupBoundaryStep ==
  ASSUME IInv, NEW R, StartupBoundary(R)
  PROVE  IInv' /\ Handed(bot, bot')
<1> DEFINE b == Boundary(bot, day, R)
<1>0. Sound(bot, day, slot) /\ day \in 1 .. MaxDay /\ shield \subseteq Of("dayone")
  BY DEF IInv, TypeOK
<1>1. Sound(b, day, slot) /\ Handed(bot, b)
  BY <1>0, BoundarySound
<1>2. /\ boot = "boundary" /\ boot' = "replay"
      /\ (bot' = b /\ staged = NoRow) \/ bot' = bot
      /\ saved' = bot' \/ saved' = saved
      /\ LeaveLive(bot')
      /\ UNCHANGED <<day, slot, staged, shield, fresh, clean>>
  BY DEF StartupBoundary
<1> HIDE DEF b
<1>3. Sound(bot', day, slot) /\ Sound(saved', day, slot) /\ Handed(bot, bot')
  BY <1>0, <1>1, <1>2 DEF IInv, Handed, Sound
<1>4. live' \subseteq Symbols /\ (Punctual => live' = {})
  BY <1>2, LiveOK
<1> QED BY <1>2, <1>3, <1>4, RestartStep

(* ReplayBoundary keeps the invariant, with the day of its row.            *)
LEMMA ReplayBoundaryStep ==
  ASSUME IInv, NEW R, ReplayBoundary(R)
  PROVE  IInv' /\ Handed(bot, bot')
<1> DEFINE b == Boundary(bot, staged.day, R)
<1>0. /\ Sound(bot, day, slot) /\ shield \subseteq Of("dayone")
      /\ staged.day \in 1 .. MaxDay /\ staged.day <= day
  BY DEF IInv, TypeOK, ReplayBoundary, NoRow, Rows, Booting
<1>1. Sound(b, day, slot) /\ Handed(bot, b)
  BY <1>0, BoundarySound
<1>2. /\ boot = "replay" /\ boot' = "serving" /\ staged.kind = "SESSION_BOUNDARY"
      /\ bot' = b /\ LeaveLive(b)
      /\ saved' = b \/ saved' = saved
      /\ staged' = NoRow \/ staged' = staged
      /\ UNCHANGED <<day, slot, shield, fresh, clean>>
  BY DEF ReplayBoundary
<1> HIDE DEF b
<1>3. Sound(bot', day, slot) /\ Sound(saved', day, slot)
  BY <1>1, <1>2 DEF IInv
<1>4. live' \subseteq Symbols /\ (Punctual => live' = {})
  BY <1>2, LiveOK
<1> QED BY <1>1, <1>2, <1>3, <1>4, RestartStep

(* ReplayDirective keeps the invariant: an audit of an earlier day meets a *)
(* session of that day or before, never the current one.                   *)
LEMMA ReplayDirectiveStep ==
  ASSUME IInv, NEW R, ReplayDirective(R)
  PROVE  IInv' /\ Handed(bot, bot')
<1> DEFINE b == Directive(bot, staged.kind, R)
<1>0. Sound(bot, day, slot) /\ shield \subseteq Of("dayone") /\ slot \in Int
  BY DEF IInv, TypeOK, Pre, Closed
<1>1. /\ boot = "replay" /\ boot' = "serving" /\ staged.kind \in Phases
      /\ bot' = b /\ saved' = b /\ LeaveLive(b) /\ staged' = NoRow
      /\ UNCHANGED <<day, slot, shield, fresh, clean>>
  BY DEF ReplayDirective
<1>2. staged.kind \in Directives /\ staged # NoRow
  BY <1>1, AllPhases DEF IInv, TypeOK, Rows, NoRow, Directives, OncePhases
<1>3. staged.kind = "ZERO_AUDIT" /\ bot.session = day => slot >= Audit
  <2>1. staged.day \in Int /\ day \in Int
    BY <1>2 DEF IInv, TypeOK, Rows, NoRow
  <2> QED BY <2>1, <1>2 DEF IInv, Booting
<1>4. Sound(b, day, slot) /\ Trimmed(bot, b)
  BY <1>0, <1>2, <1>3, DirectiveSound
<1> HIDE DEF b
<1>5. live' \subseteq Symbols /\ (Punctual => live' = {})
  BY <1>1, LiveOK
<1> QED BY <1>1, <1>4, <1>5, RestartStep, TrimmedHanded

(* StartServing keeps the invariant.                                       *)
LEMMA StartServingStep == ASSUME IInv, StartServing PROVE IInv'
<1>1. Sound(bot', day, slot) /\ Sound(saved', day, slot)
  BY DEF StartServing, IInv
<1> QED BY <1>1, RestartStep DEF StartServing, IInv, TypeOK

(* Advance keeps the invariant: what a session may not be before its audit *)
(* window, it is not on a later day either.                                *)
LEMMA AdvanceStep == ASSUME IInv, Advance PROVE IInv'
<1>1. /\ day \in Int /\ slot \in Int /\ slot \in Pre .. Closed /\ day \in 1 .. MaxDay
      /\ bot \in Bots /\ saved \in Bots /\ bot.session \in Int /\ saved.session \in Int
  BY DEF IInv, TypeOK, Bots, Pre, Closed
<1>2. /\ \/ day' = day /\ slot' = slot + 1 /\ slot < Closed
         \/ day' = day + 1 /\ slot' = Pre /\ day < MaxDay /\ ~(slot < Closed)
      /\ UNCHANGED <<bot, saved, staged, boot, shield, live>>
  BY DEF Advance
<1>3. fresh' = FALSE /\ clean' \in BOOLEAN /\ (clean' => clean /\ slot < Closed)
  BY DEF Advance
<1>4. day' \in 1 .. MaxDay /\ slot' \in Pre .. Closed /\ slot' \in Int
  BY <1>1, <1>2, DayAssumption DEF Pre, Closed
<1>5. TypeOK'
  BY <1>2, <1>3, <1>4 DEF IInv, TypeOK
<1>6. Sound(bot, day', slot') /\ Sound(saved, day', slot')
  BY <1>1, <1>2 DEF IInv, Sound, Audit, Open
<1>7. Sound(bot, day, slot)' /\ Sound(saved, day, slot)'
  BY <1>2, <1>6 DEF Sound, Counted, Flat, NoDay
<1>8. Booting'
  <2>1. staged # NoRow => staged.day \in Int /\ staged.day <= day
    BY DEF IInv, TypeOK, Rows, Booting
  <2>2. NoRow.kind # "ZERO_AUDIT"
    BY DEF NoRow
  <2> QED BY <1>1, <1>2, <2>1, <2>2 DEF IInv, Booting, Audit
<1>9. Watching'
  <2>1. clean' => boot = "serving" /\ slot >= Audit /\ slot' = slot + 1 /\ day' = day
    BY <1>2, <1>3 DEF IInv, Watching
  <2>2. clean' /\ bot.session = day' => bot.phase \in Final /\ (Punctual => NoDay(bot))
    BY <1>3, <2>1 DEF IInv, Watching
  <2> QED BY <1>1, <1>2, <1>3, <2>1, <2>2 DEF Watching, NoDay, Audit
<1> QED BY <1>2, <1>5, <1>7, <1>8, <1>9 DEF IInv

(* ClockStep keeps the invariant and what is held overnight.               *)
LEMMA ClockStepStep ==
  ASSUME IInv, NEW R, NEW lostB \in BOOLEAN, NEW lostD \in BOOLEAN, ClockStep(R, lostB, lostD)
  PROVE  IInv' /\ Handed(bot, bot')
<1> DEFINE b == IF lostB THEN Unstaged(bot, day) ELSE Boundary(bot, day, R)
           t == Ticked(b)
           d == IF Due(b) /\ ~lostD THEN Directive(t, PhaseOf[slot], R) ELSE t
<1>0. /\ Sound(bot, day, slot) /\ shield \subseteq Of("dayone") /\ slot \in Int
      /\ slot \in Pre .. Closed /\ day \in 1 .. MaxDay
  BY DEF IInv, TypeOK, Pre, Closed
<1>1. /\ boot = "serving" /\ bot' = d /\ LeaveLive(d) /\ fresh' = TRUE
      /\ saved' \in {d, b, saved}
      /\ clean' \in BOOLEAN
      /\ clean' => clean \/ (slot = Audit /\ R = {} /\ ~lostB /\ ~lostD)
      /\ UNCHANGED <<day, slot, staged, boot, shield>>
  BY DEF ClockStep
<1>2. /\ Sound(b, day, slot) /\ Handed(bot, b)
      /\ Shrinks(bot, b) \/ (bot.session < day /\ b.session = day /\ Begun(b))
  <2>1. CASE lostB
    BY <2>1, <1>0, UnstagedSound, TrimmedHanded DEF Shrinks
  <2>2. CASE ~lostB
    BY <2>2, <1>0, BoundarySound
  <2> QED BY <2>1, <2>2
<1> HIDE DEF b
<1>3. /\ Sound(t, day, slot) /\ Trimmed(b, t)
      /\ t.held = b.held /\ t.entries = b.entries
      /\ b.session = day /\ slot # Open => t.phase # "NORMAL_TRADING"
      /\ Due(b) => t.phase = PhaseOf[slot]
      /\ slot >= Audit => t.phase \in Final \/ t.phase = b.phase
      /\ slot >= Audit /\ b.phase = "NORMAL_TRADING" /\ b.done = {} => t.phase \in Final
  BY <1>0, <1>2, TickedSound
<1> HIDE DEF t
<1>4. PhaseOf[slot] = "ZERO_AUDIT" <=> slot = Audit
  BY <1>0, Names DEF Pre, Audit, Closed
<1>5. /\ Sound(d, day, slot) /\ Trimmed(t, d)
      /\ d.phase = t.phase \/ d.phase = "ZERO_AUDIT"
      /\ Due(b) /\ ~lostD /\ slot = Audit =>
           d.phase = "ZERO_AUDIT" /\ (Unfilled(R) = {} => NoDay(d))
  <2>1. CASE Due(b) /\ ~lostD
    <3>1. PhaseOf[slot] \in Directives
      BY <1>0, <2>1, DueKind
    <3>2. PhaseOf[slot] = "ZERO_AUDIT" /\ t.session = day => slot >= Audit
      BY <1>4 DEF Audit
    <3> QED BY <1>0, <1>3, <1>4, <2>1, <3>1, <3>2, DirectiveSound
  <2>2. CASE ~(Due(b) /\ ~lostD)
    BY <2>2, <1>3 DEF Trimmed, Sound
  <2> QED BY <2>1, <2>2
<1> HIDE DEF d
<1>6. Trimmed(b, d) /\ Handed(bot, d) /\ d.session = b.session
  BY <1>2, <1>3, <1>5, TrimmedAgain, TrimmedHanded DEF Trimmed
<1>7. Sound(saved', day, slot)
  BY <1>1, <1>2, <1>5 DEF IInv
<1>8. TypeOK'
  <2>1. d \in Bots /\ saved' \in Bots
    BY <1>5, <1>7 DEF Sound
  <2>2. live' \subseteq Symbols
    BY <1>1, LiveOK
  <2> QED BY <1>1, <2>1, <2>2 DEF IInv, TypeOK
<1>9. Booting'
  BY <1>1, FinalPhases DEF IInv, Booting
<1>10. d.session = day /\ slot # Open => d.phase # "NORMAL_TRADING"
  BY <1>3, <1>5, <1>6
<1>11. ASSUME clean', d.session = day
       PROVE  slot >= Audit /\ d.phase \in Final /\ (Punctual => NoDay(d))
  <2>1. slot >= Audit
    <3>1. CASE clean
      BY <3>1 DEF IInv, Watching
    <3>2. CASE slot = Audit
      BY <3>2 DEF Audit
    <3> QED BY <3>1, <3>2, <1>1, <1>11
  <2>2. NoDay(b) => NoDay(d)
    BY <1>6 DEF NoDay, Trimmed
  <2>3. b.phase \in Final => d.phase \in Final
    BY <1>3, <1>5, <2>1 DEF Final
  <2>4. CASE Begun(b)
    <3>1. t.phase \in Final /\ NoDay(b)
      BY <2>4, <2>1, <1>3 DEF Begun
    <3> QED BY <3>1, <2>1, <2>2, <1>5 DEF Final
  <2>5. CASE clean /\ ~Begun(b)
    <3>1. Shrinks(bot, b) /\ bot.session = day
      BY <2>5, <1>2, <1>6, <1>11 DEF Shrinks, Trimmed
    <3>2. bot.phase \in Final /\ (Punctual => NoDay(bot))
      BY <2>5, <3>1 DEF IInv, Watching
    <3>3. b.phase \in Final /\ (Punctual => NoDay(b))
      BY <3>1, <3>2 DEF Shrinks, Trimmed, NoDay
    <3> QED BY <3>3, <2>1, <2>2, <2>3
  <2>6. CASE ~clean /\ Due(b)
    <3>1. slot = Audit /\ R = {} /\ ~lostD
      BY <2>6, <1>1, <1>11
    <3>2. Unfilled(R) = {}
      BY <3>1 DEF Unfilled, MarketOpen, Open, Audit
    <3> QED BY <2>1, <2>6, <3>1, <3>2, <1>5 DEF Final
  <2>7. CASE ~clean /\ ~Due(b)
    <3>1. PhaseOf[slot] = "ZERO_AUDIT"
      BY <2>7, <1>1, <1>4, <1>11
    <3>2. b.audited
      BY <3>1, <2>7, <1>2 DEF Due, Sound, Bots
    <3>3. b.phase \in Final /\ (Punctual => NoDay(b))
      BY <3>2, <1>2, <1>6, <1>11 DEF Sound
    <3> QED BY <3>3, <2>1, <2>2, <2>3
  <2> QED BY <2>4, <2>5, <2>6, <2>7
<1>12. Watching'
  <2>1. clean' => slot >= Audit
    <3>1. CASE clean
      BY <3>1 DEF IInv, Watching
    <3>2. CASE slot = Audit
      BY <3>2 DEF Audit
    <3> QED BY <3>1, <3>2, <1>1
  <2> QED BY <2>1, <1>1, <1>10, <1>11 DEF Watching, NoDay
<1>13. Sound(bot, day, slot)' /\ Sound(saved, day, slot)'
  BY <1>1, <1>5, <1>7 DEF Sound, Counted, Flat, NoDay
<1>14. Punctual => live' = {}
  BY <1>1, LiveOK
<1>15. IInv'
  BY <1>8, <1>9, <1>12, <1>13, <1>14 DEF IInv
<1> QED BY <1>1, <1>6, <1>15

(* So does a step that changes nothing.                                    *)
LEMMA Stutter == ASSUME IInv, UNCHANGED vars PROVE IInv'
BY DEF vars, IInv, TypeOK, Sound, Counted, Flat, NoDay, Booting, Watching

(* Every step keeps the invariant.                                         *)
LEMMA Inductive == IInv /\ [Next]_vars => IInv'
<1> SUFFICES ASSUME IInv, [Next]_vars
             PROVE  IInv'
  OBVIOUS
<1>1. ASSUME NEW R \in Refusals, NEW lostB \in Losses, NEW lostD \in Losses,
             ClockStep(R, lostB, lostD)
      PROVE  IInv'
  BY <1>1, ClockStepStep DEF Losses
<1>2. ASSUME NEW R \in Refusals,
             CrashInDirective(R) \/ StartupBoundary(R) \/ ReplayBoundary(R)
               \/ ReplayDirective(R) \/ Trip(R)
      PROVE  IInv'
  BY <1>2, CrashInDirectiveStep, StartupBoundaryStep, ReplayBoundaryStep,
     ReplayDirectiveStep, TripStep
<1>3. CASE CrashInBoundary \/ Crash \/ StartServing \/ Checkpoint \/ Advance
  BY <1>3, CrashInBoundaryStep, CrashHere, StartServingStep, CheckpointStep, AdvanceStep
<1>4. ASSUME NEW s \in Symbols,
             Enter(s) \/ EntryEnds(s) \/ ExitFills(s) \/ OwnerOpens(s) \/ OwnerCloses(s)
               \/ Shield(s) \/ LateFill(s)
      PROVE  IInv'
  BY <1>4, EnterStep, EntryEndsStep, ExitFillsStep, OwnerOpensStep, OwnerClosesStep,
     ShieldStep, LateFillStep
<1> QED BY <1>1, <1>2, <1>3, <1>4, Stutter DEF Next

(* The invariant holds in every reachable state.                           *)
LEMMA Always == Spec => []IInv
BY Initial, Inductive, PTL DEF Spec

-----------------------------------------------------------------------------
(* What follows for every state                                            *)

(* The types hold: in particular no swing position is counted more often   *)
(* than there are days.                                                    *)
THEOREM TypeCorrect == Spec => []TypeOK
<1>1. IInv => TypeOK
  BY DEF IInv
<1> QED BY <1>1, Always, PTL

(* However often a boundary is tried, interrupted by a crash and replayed, *)
(* a session counts once towards the days a swing position is held.        *)
THEOREM CountedOnce == Spec => []DaysCountedOnce
<1>1. IInv => DaysCountedOnce
  BY DEF IInv, Sound, Counted, DaysCountedOnce
<1> QED BY <1>1, Always, PTL

(* No session is blocked as flat before its own audit window, whatever a   *)
(* restart replays.                                                        *)
THEOREM BlockedAfterAudit == Spec => []BlockedOnlyAfterAudit
<1>1. IInv => BlockedOnlyAfterAudit
  BY DEF IInv, Sound, BlockedOnlyAfterAudit
<1> QED BY <1>1, Always, PTL

(* The account is called flat only when no intraday, plan or ORB position  *)
(* or order is left, provided nothing that was cancelled here fills later  *)
(* at Alpaca.                                                              *)
THEOREM CertifiedFlat ==
  ASSUME "late" \notin Faults
  PROVE  Spec => []EodFlatMeansFlat
<1>1. IInv => EodFlatMeansFlat
  BY DEF IInv, Sound, Punctual, Flat, Ours, EodFlatMeansFlat
<1> QED BY <1>1, Always, PTL

(* One fault-free step in the audit window and the book holds nothing      *)
(* intraday at the close, whatever was refused, lost or interrupted before *)
(* it.                                                                     *)
THEOREM ClosesFlat ==
  ASSUME "late" \notin Faults
  PROVE  Spec => []FlatAtClose
<1>1. IInv => FlatAtClose
  BY DEF IInv, Watching, Punctual, NoDay, FlatAtClose
<1> QED BY <1>1, Always, PTL

-----------------------------------------------------------------------------
(* What follows for every step                                             *)

(* What every step does to the entries and to what is held overnight.      *)
LEMMA StepFacts ==
  ASSUME IInv, Next
  PROVE  /\ bot'.entries \subseteq bot.entries \/ ~fresh'
           \/ (bot.session = day => slot = Open)
         /\ \/ \E s \in Symbols : OwnerCloses(s) \/ ExitFills(s)
            \/ bot' = saved
            \/ /\ bot.held \cap (Of("swing") \cup Of("hold")) \subseteq bot'.held
               /\ bot.exits \cap Of("swing") \subseteq bot'.exits
<1>1. CASE Handed(bot, bot')
  BY <1>1 DEF Handed, Kept
<1>2. ASSUME NEW R \in Refusals, NEW lostB \in Losses, NEW lostD \in Losses,
             ClockStep(R, lostB, lostD)
      PROVE  Handed(bot, bot')
  BY <1>2, ClockStepStep DEF Losses
<1>3. ASSUME NEW R \in Refusals,
             StartupBoundary(R) \/ ReplayBoundary(R) \/ ReplayDirective(R) \/ Trip(R)
      PROVE  Handed(bot, bot')
  BY <1>3, StartupBoundaryStep, ReplayBoundaryStep, ReplayDirectiveStep, TripStep
<1>4. ASSUME NEW R \in Refusals, CrashInDirective(R)
      PROVE  ~fresh' /\ (bot' = saved \/ Handed(bot, bot'))
  BY <1>4, CrashInDirectiveStep
<1>5. CASE CrashInBoundary \/ Crash
  <2>1. bot' = saved
    BY <1>5, CrashInBoundaryStep, CrashHere
  <2>2. ~fresh'
    BY <1>5 DEF CrashInBoundary, Crash
  <2> QED BY <2>1, <2>2
<1>6. CASE bot' = bot
  BY <1>6
<1>7. ASSUME NEW s \in Symbols, Enter(s) \/ EntryEnds(s) \/ OwnerOpens(s) \/ LateFill(s)
      PROVE  /\ bot.held \subseteq bot'.held /\ bot.exits \subseteq bot'.exits
             /\ bot'.entries \subseteq bot.entries \/ ~fresh'
                 \/ (bot.session = day => slot = Open)
  <2>1. CASE Enter(s)
    BY <2>1, EnterStep
  <2>2. CASE EntryEnds(s) \/ OwnerOpens(s) \/ LateFill(s)
    BY <2>2, EntryEndsStep, OwnerOpensStep, LateFillStep
  <2> QED BY <1>7, <2>1, <2>2
<1>8. ASSUME NEW s \in Symbols, OwnerCloses(s) \/ ExitFills(s)
      PROVE  bot'.entries \subseteq bot.entries
  BY <1>8, OwnerClosesStep, ExitFillsStep
<1>9. StartServing \/ Checkpoint \/ Advance \/ (\E s \in Symbols : Shield(s)) => bot' = bot
  BY DEF StartServing, Checkpoint, Advance, Shield
<1>10. CASE \E s \in Symbols : Enter(s) \/ EntryEnds(s) \/ OwnerOpens(s) \/ LateFill(s)
  BY <1>10, <1>7
<1>11. CASE \E s \in Symbols : OwnerCloses(s) \/ ExitFills(s)
  BY <1>11, <1>8
<1>12. CASE \E R \in Refusals : CrashInDirective(R)
  BY <1>12, <1>4, <1>1
<1> QED BY <1>1, <1>2, <1>3, <1>5, <1>6, <1>9, <1>10, <1>11, <1>12 DEF Next

(* Once the session has begun and a tick has run in the slot, no intraday  *)
(* entry is accepted outside normal trading.                               *)
THEOREM Lockout == Spec => LockoutHolds
<1>1. ASSUME IInv, [Next]_vars
      PROVE  [(bot'.entries \ bot.entries # {} /\ fresh' /\ bot.session = day) => slot = Open]_vars
  <2>1. CASE Next
    BY <2>1, <1>1, StepFacts
  <2>2. CASE UNCHANGED vars
    BY <2>2
  <2> QED BY <1>1, <2>1, <2>2
<1> QED BY <1>1, Always, PTL DEF Spec, LockoutHolds

(* No phase, sweep, boundary, breaker or replay sells what is held         *)
(* overnight or takes the stop of a swing position away.                   *)
THEOREM OvernightKept == Spec => OvernightIsKept
<1>1. ASSUME IInv, [Next]_vars
      PROVE  [\/ \E s \in Symbols : OwnerCloses(s) \/ ExitFills(s)
              \/ bot' = saved
              \/ /\ bot.held \cap (Of("swing") \cup Of("hold")) \subseteq bot'.held
                 /\ bot.exits \cap Of("swing") \subseteq bot'.exits]_vars
  <2>1. CASE Next
    BY <2>1, <1>1, StepFacts
  <2>2. CASE UNCHANGED vars
    BY <2>2
  <2> QED BY <1>1, <2>1, <2>2
<1> QED BY <1>1, Always, PTL DEF Spec, OvernightIsKept

-----------------------------------------------------------------------------
(* Least and greatest                                                      *)

(* Every set of naturals has a least one.                                  *)
LEMMA LeastNat ==
  ASSUME NEW T \in SUBSET Nat, T # {}
  PROVE  \E x \in T : \A y \in T : x <= y
<1>1. PICK x \in T : \A y \in T : ~(<<y, x>> \in OpToRel(<, Nat))
  BY NatLessThanWellFounded, WFMin
<1>2. \A y \in T : ~(y < x)
  BY <1>1 DEF OpToRel
<1> QED BY <1>2

(* Every set of integers that is bounded has a greatest one.               *)
LEMMA Greatest ==
  ASSUME NEW S \in SUBSET Int, S # {}, NEW top \in Int, \A x \in S : x <= top
  PROVE  \E m \in S : \A x \in S : m >= x
<1> DEFINE D == {top - x : x \in S}
<1>1. D \in SUBSET Nat /\ D # {}
  <2>1. \A x \in S : top - x \in Nat
    OBVIOUS
  <2>2. \A d \in D : d \in Nat
    BY <2>1
  <2>3. PICK x \in S : TRUE
    OBVIOUS
  <2>4. top - x \in D
    OBVIOUS
  <2> QED BY <2>2, <2>4
<1>2. PICK d \in D : \A e \in D : d <= e
  BY <1>1, LeastNat
<1>3. PICK m \in S : d = top - m
  BY <1>2
<1>4. \A x \in S : m >= x
  <2> SUFFICES ASSUME NEW x \in S PROVE m >= x
    OBVIOUS
  <2>1. d <= top - x
    BY <1>2
  <2> QED BY <2>1, <1>3
<1> QED BY <1>4

-----------------------------------------------------------------------------
(* The volatility index                                                    *)

(* It is the maximum that VixGauge takes.                                 *)
LEMMA VixMax ==
  ASSUME NEW S \in SUBSET Int, S # {}, NEW top \in Int, \A x \in S : x <= top
  PROVE  Vix!Max(S) \in S /\ \A x \in S : x <= Vix!Max(S)
<1>1. Vix!Max(S) \in S /\ \A x \in S : Vix!Max(S) >= x
  BY Greatest DEF Vix!Max
<1> QED BY <1>1

(* The engine e and the print b behind its size: a size larger than        *)
(* neutral is that print's own, none is larger than the print allows, and  *)
(* the stop is the print's.                                                *)
Pair(e, b) ==
  /\ e \in [size : Int, stop : Int] /\ b \in [at : Int, val : 1 .. 4]
  /\ e.size < Vix!Neutral => e.size = b.val
  /\ e.size >= b.val /\ e.stop = b.val

(* The print b is current at t: recent in the session, and no older than   *)
(* the last weekday's close outside of it.                                 *)
FreshAt(b, t) == IF Vix!MarketHours(t) THEN t - b.at <= MaxAge ELSE b.at >= Vix!LastClose(t)

(* What the process and its checkpoint hold are such pairs, the last poll  *)
(* is no further away than its interval, and what is larger than neutral   *)
(* was current then.                                                       *)
VixInv ==
  /\ vNow \in Nat /\ vIndex \in [at : Int, val : 1 .. 4]
  /\ Pair(vEng, vBasis) /\ Pair(vDisk.eng, vDisk.basis)
  /\ vUp = FALSE => vPolled = Vix!None
  /\ vUp /\ vPolled # Vix!None =>
       /\ vPolled \in Nat /\ vPolled <= vNow /\ vNow <= vPolled + Poll
       /\ vEng.size < Vix!Neutral => FreshAt(vBasis, vPolled)

(* No close of a weekday up to t is later than the last one.               *)
LEMMA LastCloseIs ==
  ASSUME NEW t \in Nat
  PROVE  /\ Vix!LastClose(t) \in Int /\ -DayLen + VixClose <= Vix!LastClose(t)
         /\ \A c \in 0 .. t : Vix!Weekday(c) /\ Vix!Minute(c) = VixClose => c <= Vix!LastClose(t)
<1> DEFINE S == {-DayLen + VixClose} \cup {c \in 0 .. t : Vix!Weekday(c) /\ Vix!Minute(c) = VixClose}  top == t + VixClose
<1>1. S \in SUBSET Int /\ S # {} /\ top \in Int /\ \A c \in S : c <= top
  BY VixAssumption
<1>2. Vix!LastClose(t) = Vix!Max(S)
  BY DEF Vix!LastClose
<1> HIDE DEF S, top
<1>3. Vix!Max(S) \in Int /\ \A c \in S : c <= Vix!Max(S)
  BY <1>1, VixMax
<1> QED BY <1>2, <1>3 DEF S

(* The first print is that of the day before, and the size is neutral.     *)
LEMMA VixStarts == Vix!Init => VixInv
<1>1. [size |-> 2, stop |-> 2].size = 2 /\ [size |-> 2, stop |-> 2].stop = 2
  OBVIOUS
<1> QED BY VixAssumption DEF Vix!Init, VixInv, Pair, Vix!Neutral, Vix!None

(* The guard of a stale print leaves a pair, and nothing larger than       *)
(* neutral.                                                                *)
LEMMA Guarded ==
  ASSUME NEW e, NEW b, Pair(e, b)
  PROVE  Pair(Vix!StaleGuard(e), b) /\ Vix!StaleGuard(e).size >= Vix!Neutral
BY DEF Pair, Vix!StaleGuard, Vix!Neutral

(* Handling a print leaves pairs in memory and in the checkpoint.          *)
LEMMA Handled ==
  ASSUME VixInv, NEW e, NEW b, Vix!Handle(e, b), Pair(e, b)
  PROVE  Pair(vEng', vBasis') /\ Pair(vDisk'.eng, vDisk'.basis)
BY DEF VixInv, Vix!Handle

(* Each poll, crash, start, tick and print keeps the invariant: only a     *)
(* poll that found the print current makes the size larger than neutral.   *)
LEMMA VixStep == VixInv /\ (Vix!Next \/ UNCHANGED Vix!vars) => VixInv'
<1> SUFFICES ASSUME VixInv, Vix!Next \/ UNCHANGED Vix!vars PROVE VixInv'
  OBVIOUS
<1> USE VixAssumption
<1>1. CASE UNCHANGED Vix!vars
  BY <1>1 DEF Vix!vars, VixInv, Pair, FreshAt, Vix!MarketHours, Vix!LastClose, Vix!Weekday, Vix!Minute, Vix!DayOf
<1>2. CASE Vix!PollAnswered
  <2>1. CASE Vix!IsStale(vIndex)
    <3>1. Vix!Handle(Vix!StaleGuard(vEng), vBasis) /\ vEng' = Vix!StaleGuard(vEng)
      BY <1>2, <2>1 DEF Vix!PollAnswered, Vix!Handle
    <3>2. vEng'.size >= Vix!Neutral /\ Pair(vEng', vBasis') /\ Pair(vDisk'.eng, vDisk'.basis)
      BY <3>1, Guarded, Handled DEF VixInv
    <3>3. ~(vEng'.size < Vix!Neutral)
      BY <3>2 DEF Pair, Vix!Neutral
    <3> QED BY <1>2, <3>2, <3>3 DEF Vix!PollAnswered, VixInv
  <2>2. CASE ~Vix!IsStale(vIndex)
    <3>1. Vix!Handle(Vix!Adapted(vIndex), vIndex) /\ vBasis' = vIndex
      BY <1>2, <2>2 DEF Vix!PollAnswered, Vix!Handle
    <3>2. Pair(Vix!Adapted(vIndex), vIndex)
      BY DEF Pair, Vix!Adapted, VixInv
    <3>3. Pair(vEng', vBasis') /\ Pair(vDisk'.eng, vDisk'.basis)
      BY <3>1, <3>2, Handled
    <3>4. FreshAt(vIndex, vNow)
      BY <2>2, LastCloseIs DEF VixInv, Vix!IsStale, FreshAt
    <3>5. FreshAt(vBasis', vPolled')
      BY <1>2, <3>1, <3>4 DEF Vix!PollAnswered
    <3>6. FreshAt(vBasis', vPolled') <=> FreshAt(vBasis, vPolled)'
      BY DEF FreshAt, Vix!MarketHours, Vix!LastClose, Vix!Weekday, Vix!Minute, Vix!DayOf
    <3> QED BY <1>2, <3>3, <3>5, <3>6 DEF Vix!PollAnswered, VixInv
  <2> QED BY <2>1, <2>2
<1>3. CASE Vix!PollFailed
  <2>1. Vix!Handle(Vix!StaleGuard(vEng), vBasis) /\ vEng' = Vix!StaleGuard(vEng)
    BY <1>3 DEF Vix!PollFailed, Vix!Handle
  <2>2. vEng'.size >= Vix!Neutral /\ Pair(vEng', vBasis') /\ Pair(vDisk'.eng, vDisk'.basis)
    BY <2>1, Guarded, Handled DEF VixInv
  <2>3. ~(vEng'.size < Vix!Neutral)
    BY <2>2 DEF Pair, Vix!Neutral
  <2> QED BY <1>3, <2>2, <2>3 DEF Vix!PollFailed, VixInv
<1>4. CASE Vix!Crash
  BY <1>4 DEF Vix!Crash, VixInv, Pair
<1>5. CASE Vix!Start
  BY <1>5 DEF Vix!Start, VixInv, Pair
<1>6. CASE Vix!Tick
  BY <1>6 DEF Vix!Tick, VixInv, Pair, FreshAt, Vix!MarketHours, Vix!LastClose, Vix!Weekday, Vix!Minute, Vix!DayOf
<1>7. ASSUME NEW val \in Values, Vix!NewPrint(val) PROVE VixInv'
  BY <1>7 DEF Vix!NewPrint, VixInv, Pair, FreshAt, Vix!MarketHours, Vix!LastClose, Vix!Weekday, Vix!Minute, Vix!DayOf
<1> QED BY <1>1, <1>2, <1>3, <1>4, <1>5, <1>6, <1>7 DEF Vix!Next

(* The last close of a session that was held is a close of a weekday, or   *)
(* that of the day before the first.                                       *)
LEMMA RealCloseIs ==
  ASSUME NEW t \in Nat
  PROVE  \/ Vix!RealClose(t) = -DayLen + VixClose
         \/ Vix!RealClose(t) \in 0 .. t /\ Vix!Weekday(Vix!RealClose(t)) /\ Vix!Minute(Vix!RealClose(t)) = VixClose
<1> DEFINE S == {-DayLen + VixClose} \cup {c \in 0 .. t : Calendar[Vix!DayOf(c)] = "trade" /\ Vix!Minute(c) = VixClose}
           top == t + VixClose
<1>1. S \in SUBSET Int /\ S # {} /\ top \in Int /\ \A c \in S : c <= top
  BY VixAssumption
<1>2. Vix!RealClose(t) = Vix!Max(S)
  BY DEF Vix!RealClose
<1> HIDE DEF S, top
<1>3. Vix!Max(S) \in S
  BY <1>1, VixMax
<1> QED BY <1>2, <1>3 DEF S, Vix!Weekday

(* A print that was current at the last poll is no older than the limit    *)
(* and one interval in the session, and outside of it was made since the   *)
(* last close that was held: that close was a weekday's, and came before   *)
(* the poll.                                                               *)
LEMMA VixFresh == VixInv => Vix!LargeNeedsFresh
<1> SUFFICES ASSUME VixInv, vUp, vPolled # Vix!None
             PROVE  /\ vEng.size < Vix!Neutral =>
                         /\ vEng.size = vBasis.val
                         /\ Vix!Settled /\ Vix!MarketHours(vNow) => vNow - vBasis.at <= MaxAge + Poll
                         /\ Vix!Settled /\ ~Vix!MarketHours(vNow) => vBasis.at >= Vix!RealClose(vNow)
                    /\ vEng.size >= vBasis.val /\ vEng.stop = vBasis.val
  BY DEF Vix!LargeNeedsFresh
<1> USE VixAssumption
<1>1. vNow \in Nat /\ vPolled \in Nat /\ vPolled <= vNow /\ vNow <= vPolled + Poll /\ vBasis.at \in Int
  BY DEF VixInv, Pair
<1>2. ASSUME vEng.size < Vix!Neutral, Vix!Settled, Vix!MarketHours(vNow) PROVE vNow - vBasis.at <= MaxAge + Poll
  <2>1. Vix!MarketHours(vPolled)
    BY <1>1, <1>2 DEF Vix!Settled
  <2>2. vPolled - vBasis.at <= MaxAge
    BY <1>2, <2>1 DEF VixInv, FreshAt
  <2> QED BY <1>1, <2>2
<1>3. ASSUME vEng.size < Vix!Neutral, Vix!Settled, ~Vix!MarketHours(vNow) PROVE vBasis.at >= Vix!RealClose(vNow)
  <2> DEFINE c == Vix!RealClose(vNow)
  <2>1. ~Vix!MarketHours(vPolled)
    BY <1>1, <1>3 DEF Vix!Settled
  <2>2. vBasis.at >= Vix!LastClose(vPolled)
    BY <1>3, <2>1 DEF VixInv, FreshAt
  <2>3. Vix!LastClose(vPolled) \in Int /\ -DayLen + VixClose <= Vix!LastClose(vPolled)
    BY <1>1, LastCloseIs
  <2>4. CASE c = -DayLen + VixClose
    BY <1>1, <2>2, <2>3, <2>4
  <2>5. CASE c \in 0 .. vNow /\ Vix!Weekday(c) /\ Vix!Minute(c) = VixClose
    <3> HIDE DEF c
    <3>1. Vix!MarketHours(c)
      BY <2>5 DEF Vix!MarketHours
    <3>2. c \notin (vNow - Poll) .. vNow
      BY <1>3, <3>1 DEF Vix!Settled
    <3>3. c \in 0 .. vPolled
      BY <1>1, <2>5, <3>2
    <3>4. c <= Vix!LastClose(vPolled)
      BY <1>1, <2>5, <3>3, LastCloseIs
    <3>5. vBasis.at >= c
      BY <1>1, <2>2, <2>3, <3>3, <3>4
    <3> QED BY <3>5 DEF c
  <2> QED BY <1>1, <2>4, <2>5, RealCloseIs
<1> QED BY <1>2, <1>3 DEF VixInv, Pair

-----------------------------------------------------------------------------
(* The filters of Ride the Trend                                           *)

(* It is the maximum that TrendGates takes.                               *)
LEMMA TrendMax ==
  ASSUME NEW S \in SUBSET Int, S # {}, NEW top \in Int, \A x \in S : x <= top
  PROVE  Trend!Max(S) \in S /\ \A x \in S : x <= Trend!Max(S)
<1>1. Trend!Max(S) \in S /\ \A x \in S : Trend!Max(S) >= x
  BY Greatest DEF Trend!Max
<1> QED BY <1>1

(* The minutes held of each stream are whole, and older than its next one. *)
Minutes(g) == \A s \in Trend!Streams : g[s] \in SUBSET Nat

(* The minutes held of each stream are older than its next one, and a      *)
(* verdict read the tape.                                                  *)
TrendInv ==
  /\ tNext \in [Trend!Streams -> Nat] /\ tGot \in [Trend!Streams -> SUBSET Nat]
  /\ \A s \in Trend!Streams : \A k \in tGot[s] : k < tNext[s]
  /\ Trend!GatesReadTheTape

(* What was held at the end of minute m, stream by stream.                 *)
LEMMA ThenIs ==
  ASSUME NEW g, Minutes(g), NEW m \in Nat
  PROVE  Minutes(Trend!Then(g, m)) /\ \A s \in Trend!Streams : Trend!Then(g, m)[s] = {k \in g[s] : k <= m}
BY DEF Minutes, Trend!Then

(* The last bar completed by t is the same, when t is no later than the    *)
(* end of minute m.                                                        *)
LEMMA SameLast ==
  ASSUME NEW g, Minutes(g), NEW m \in Nat, NEW s \in Trend!Streams, NEW t \in Int, t <= m + 1
  PROVE  Trend!AtOrBefore(Trend!Then(g, m), s, t) = Trend!AtOrBefore(g, s, t)
<1>1. {k \in Trend!Then(g, m)[s] : k + 1 <= t} = {k \in g[s] : k + 1 <= t}
  BY ThenIs DEF Minutes
<1> QED BY <1>1 DEF Trend!AtOrBefore

(* The last bar completed by t is one of them, if there is any.            *)
LEMMA LastIs ==
  ASSUME NEW g, Minutes(g), NEW s \in Trend!Streams, NEW t \in Int
  PROVE  LET k == Trend!AtOrBefore(g, s, t)
         IN  k = -1 \/ (k \in Nat /\ k \in g[s] /\ k + 1 <= t)
<1> DEFINE c == {m \in g[s] : m + 1 <= t}
<1>1. CASE c = {}
  <2>1. Trend!AtOrBefore(g, s, t) = -1
    BY <1>1 DEF Trend!AtOrBefore
  <2> QED BY <2>1
<1>2. CASE c # {}
  <2>1. c \in SUBSET Int /\ \A x \in c : x <= t
    BY DEF Minutes
  <2>2. Trend!Max(c) \in c
    BY <1>2, <2>1, TrendMax
  <2>3. Trend!AtOrBefore(g, s, t) = Trend!Max(c)
    BY <1>2 DEF Trend!AtOrBefore
  <2> QED BY <2>2, <2>3 DEF Minutes
<1> QED BY <1>1, <1>2

(* The two endpoints of a return are whole minutes or missing.             *)
LEMMA EndsAre ==
  ASSUME NEW g, NEW s, NEW t \in Int
  PROVE  Trend!Ends(g, s, t) = [from |-> Trend!AtOrBefore(g, s, t - TrendSpan), to |-> Trend!AtOrBefore(g, s, t)]
BY TrendAssumption DEF Trend!Ends

(* The sector's side of its VWAP is the same without the bars that came    *)
(* after minute m.                                                         *)
LEMMA SameSide ==
  ASSUME NEW g, Minutes(g), NEW m \in Nat
  PROVE  Trend!Side(Trend!Then(g, m), "sector", m + 1) = Trend!Side(g, "sector", m + 1)
<1> DEFINE t == m + 1
           k == Trend!AtOrBefore(g, "sector", t)
<1>1. "sector" \in Trend!Streams /\ t \in Int /\ t <= m + 1
  BY DEF Trend!Streams
<1>2. Trend!AtOrBefore(Trend!Then(g, m), "sector", t) = k
  BY <1>1, SameLast
<1>3. k = -1 \/ (k \in Nat /\ k + 1 <= m + 1)
  BY <1>1, LastIs
<1> HIDE DEF k, t
<1>4. Trend!VwapOf(Trend!Then(g, m), "sector", k) = Trend!VwapOf(g, "sector", k)
  <2>1. \A j \in g["sector"] : j \in Nat
    BY <1>1 DEF Minutes
  <2>2. Trend!Then(g, m)["sector"] = {j \in g["sector"] : j <= m}
    BY <1>1, ThenIs
  <2>3. \A j \in Nat : j <= k => j <= m
    BY <1>3
  <2>4. {j \in Trend!Then(g, m)["sector"] : j <= k} = {j \in g["sector"] : j <= k}
    BY <2>1, <2>2, <2>3
  <2> QED BY <2>4 DEF Trend!VwapOf
<1>5. Trend!Side(Trend!Then(g, m), "sector", t) = Trend!Side(g, "sector", t)
  BY <1>2, <1>4 DEF Trend!Side, k
<1> QED BY <1>5 DEF t

(* So are the endpoints of a return,                                       *)
LEMMA SameEnds ==
  ASSUME NEW g, Minutes(g), NEW m \in Nat, NEW s \in Trend!Streams
  PROVE  Trend!Ends(Trend!Then(g, m), s, m + 1) = Trend!Ends(g, s, m + 1)
<1>1. PICK t \in Int : t = m + 1
  OBVIOUS
<1>2. t - TrendSpan \in Int /\ t - TrendSpan <= m + 1 /\ t <= m + 1
  BY <1>1, TrendAssumption
<1>3. Trend!AtOrBefore(Trend!Then(g, m), s, t - TrendSpan) = Trend!AtOrBefore(g, s, t - TrendSpan)
  BY <1>2, SameLast
<1>4. Trend!AtOrBefore(Trend!Then(g, m), s, t) = Trend!AtOrBefore(g, s, t)
  BY <1>2, SameLast
<1>5. Trend!Ends(Trend!Then(g, m), s, t) = Trend!Ends(g, s, t)
  BY <1>3, <1>4, EndsAre
<1> QED BY <1>1, <1>5

(* the bar the stock's own return goes back to,                            *)
LEMMA SameFrom ==
  ASSUME NEW g, Minutes(g), NEW m \in Nat
  PROVE  Trend!StockFrom(Trend!Then(g, m), m) = Trend!StockFrom(g, m)
<1>1. \A j \in g["stock"] : j \in Nat
  BY DEF Minutes, Trend!Streams
<1>2. Trend!Then(g, m)["stock"] = {k \in g["stock"] : k <= m}
  BY ThenIs DEF Trend!Streams
<1>3. {k \in Trend!Then(g, m)["stock"] : k <= m - TrendSpan} = {k \in g["stock"] : k <= m - TrendSpan}
  BY <1>1, <1>2, TrendAssumption
<1> QED BY <1>3 DEF Trend!StockFrom

(* and with them the verdict of the regime.                                *)
LEMMA SameRegime ==
  ASSUME NEW g, Minutes(g), NEW m \in Nat, NEW long
  PROVE  Trend!RegimeOpen(Trend!Then(g, m), m, long) <=> Trend!RegimeOpen(g, m, long)
<1>1. {"sector", "dollar", "rates"} \subseteq Trend!Streams
  BY DEF Trend!Streams
<1>2. /\ Trend!Side(Trend!Then(g, m), "sector", m + 1) = Trend!Side(g, "sector", m + 1)
      /\ Trend!StockFrom(Trend!Then(g, m), m) = Trend!StockFrom(g, m)
      /\ Trend!Ends(Trend!Then(g, m), "sector", m + 1) = Trend!Ends(g, "sector", m + 1)
      /\ Trend!Ends(Trend!Then(g, m), "dollar", m + 1) = Trend!Ends(g, "dollar", m + 1)
      /\ Trend!Ends(Trend!Then(g, m), "rates", m + 1) = Trend!Ends(g, "rates", m + 1)
  BY <1>1, SameSide, SameFrom, SameEnds
<1> QED BY <1>2 DEF Trend!RegimeOpen

(* Two series that lead were both whole by then: the stock's own bars come *)
(* in order, and the newest of SPY is no later than the stock's.           *)
LEMMA SameLead ==
  ASSUME NEW g, Minutes(g), NEW m \in Nat, NEW long, \A k \in g["stock"] : k <= m, Trend!Leads(g, m, long),
         NEW top \in Nat, \A k \in g["SPY"] : k <= top
  PROVE  Trend!Leads(Trend!Then(g, m), m, long)
<1>1. g["stock"] \in SUBSET Nat /\ g["SPY"] \in SUBSET Nat
      /\ Trend!Then(g, m)["stock"] = {k \in g["stock"] : k <= m} /\ Trend!Then(g, m)["SPY"] = {k \in g["SPY"] : k <= m}
  BY ThenIs DEF Minutes, Trend!Streams
<1>2. Trend!Then(g, m)["stock"] = g["stock"]
  BY <1>1
<1>3. m - Trend!Max(g["SPY"]) \in {0, 1} /\ Trend!Cardinality(g["SPY"]) > TrendSpan
  BY DEF Trend!Leads
<1>4. CASE g["SPY"] = {}
  BY <1>1, <1>2, <1>4 DEF Trend!Leads
<1>5. CASE g["SPY"] # {}
  <2>0. g["SPY"] \in SUBSET Int /\ top \in Int /\ \A k \in g["SPY"] : k <= top
    BY <1>1
  <2>1. Trend!Max(g["SPY"]) \in Nat /\ \A k \in g["SPY"] : k <= Trend!Max(g["SPY"])
    <3>1. Trend!Max(g["SPY"]) \in g["SPY"] /\ \A k \in g["SPY"] : k <= Trend!Max(g["SPY"])
      BY <1>5, <2>0, TrendMax
    <3> QED BY <1>1, <3>1
  <2>2. \A k \in g["SPY"] : k <= m
    BY <1>1, <1>3, <2>1
  <2>3. Trend!Then(g, m)["SPY"] = g["SPY"]
    BY <1>1, <2>2
  <2> QED BY <1>2, <2>3 DEF Trend!Leads
<1> QED BY <1>4, <1>5

(* A return with two fresh endpoints has a bar near both moments it stands *)
(* for.                                                                    *)
LEMMA FreshIsNear ==
  ASSUME NEW g, Minutes(g), NEW s \in Trend!Streams, NEW t \in Int, NEW age \in Nat,
         Trend!FreshEnds(Trend!Ends(g, s, t), t, age)
  PROVE  Trend!Near(g, s, t, age) /\ Trend!Near(g, s, t - TrendSpan, age)
<1> DEFINE a == Trend!AtOrBefore(g, s, t - TrendSpan)
           b == Trend!AtOrBefore(g, s, t)
<1>0. t - TrendSpan \in Int /\ TrendSpan \in Nat
  BY TrendAssumption
<1>1. a >= 0 /\ b >= 0 /\ t - (b + 1) <= age /\ t - TrendSpan - (a + 1) <= age
  <2>1. Trend!Ends(g, s, t).from = a /\ Trend!Ends(g, s, t).to = b
    BY EndsAre
  <2> HIDE DEF a, b
  <2> QED BY <2>1 DEF Trend!FreshEnds, Trend!FreshEnd
<1>2. (a = -1 \/ (a \in Nat /\ a \in g[s] /\ a + 1 <= t - TrendSpan))
      /\ (b = -1 \/ (b \in Nat /\ b \in g[s] /\ b + 1 <= t))
  BY <1>0, LastIs
<1> HIDE DEF a, b
<1>3. a \in Nat /\ a \in g[s] /\ b \in Nat /\ b \in g[s]
  BY <1>1, <1>2
<1>4. b < t /\ t <= b + 1 + age
  BY <1>1, <1>2, <1>3
<1>5. a < t - TrendSpan /\ t - TrendSpan <= a + 1 + age
  BY <1>0, <1>1, <1>2, <1>3
<1> QED BY <1>3, <1>4, <1>5 DEF Trend!Near

(* A signal that is admitted read the tape.                                *)
LEMMA AdmitsReads ==
  ASSUME NEW g, Minutes(g), NEW m \in Nat, NEW long, \A k \in g["stock"] : k <= m, Trend!Admits(g, m, long),
         NEW top \in Nat, \A k \in g["SPY"] : k <= top
  PROVE  Trend!ReadsTheTape(g, m, long)
<1>1. Trend!MacroOpen(m + 1) /\ Trend!Leads(g, m, long) /\ Trend!RegimeOpen(g, m, long)
  BY DEF Trend!Admits
<1>2. Trend!Admits(Trend!Then(g, m), m, long)
  BY <1>1, SameLead, SameRegime DEF Trend!Admits
<1>3. /\ Trend!FreshEnds(Trend!Ends(g, "sector", m + 1), m + 1, TrendAge)
      /\ Trend!FreshEnds(Trend!Ends(g, "dollar", m + 1), m + 1, Sparse)
      /\ Trend!FreshEnds(Trend!Ends(g, "rates", m + 1), m + 1, TrendAge)
  BY <1>1 DEF Trend!RegimeOpen
<1>4. PICK t \in Int : t = m + 1
  OBVIOUS
<1>5. /\ Trend!Near(g, "sector", t, TrendAge) /\ Trend!Near(g, "sector", t - TrendSpan, TrendAge)
      /\ Trend!Near(g, "dollar", t, Sparse) /\ Trend!Near(g, "dollar", t - TrendSpan, Sparse)
      /\ Trend!Near(g, "rates", t, TrendAge) /\ Trend!Near(g, "rates", t - TrendSpan, TrendAge)
  <2>1. {"sector", "dollar", "rates"} \subseteq Trend!Streams /\ TrendAge \in Nat /\ Sparse \in Nat
    BY TrendAssumption DEF Trend!Streams
  <2> QED BY <1>3, <1>4, <2>1, FreshIsNear
<1>6. Trend!BarsNear(g, t)
  BY <1>5 DEF Trend!BarsNear, Trend!Regime
<1>7. Trend!NoRelease(t)
  <2>1. \A r \in Releases : r.at \in Int /\ r.before \in Int /\ r.after \in Int
    BY TrendAssumption
  <2>2. Trend!MacroOpen(t)
    BY <1>1, <1>4
  <2> QED BY <2>1, <2>2 DEF Trend!MacroOpen, Trend!NoRelease
<1> QED BY <1>2, <1>4, <1>6, <1>7 DEF Trend!ReadsTheTape

(* Only the tape and the calendar decide.                                  *)
LEMMA ReadsAgain ==
  ASSUME NEW g, NEW m, NEW long, UNCHANGED <<tTape, tLoaded>>,
         tOut'.some /\ tOut'.ok => Trend!ReadsTheTape(g, m, long) /\ tGot' = g /\ tOut'.m = m /\ tOut'.long = long
  PROVE  Trend!GatesReadTheTape'
<1>1. tTape' = tTape /\ tLoaded' = tLoaded
  OBVIOUS
<1> SUFFICES ASSUME tOut'.some /\ tOut'.ok
             PROVE  Trend!GatesReadTheTape'
  BY DEF Trend!GatesReadTheTape
<1>2. Trend!ReadsTheTape(g, m, long) /\ tGot' = g /\ tOut'.m = m /\ tOut'.long = long
  OBVIOUS
<1> DEFINE h == Trend!Then(g, m)
<1>3. Trend!Side(h, "sector", m + 1)' = Trend!Side(h, "sector", m + 1)
  BY <1>1 DEF Trend!Side, Trend!OverVwap, Trend!P, Trend!AtOrBefore, Trend!VwapOf, Trend!Then
<1>4. Trend!RegimeOpen(h, m, long)' <=> Trend!RegimeOpen(h, m, long)
  BY <1>1, <1>3 DEF Trend!RegimeOpen, Trend!Lead, Trend!Wind, Trend!RisesOver, Trend!FallsOver, Trend!P,
       Trend!Ends, Trend!AtOrBefore, Trend!StockFrom, Trend!FreshEnds, Trend!FreshEnd, Trend!Then
<1>5. Trend!Leads(h, m, long)' <=> Trend!Leads(h, m, long)
  BY <1>1 DEF Trend!Leads, Trend!Lead, Trend!P, Trend!Then
<1>6. Trend!MacroOpen(m + 1)' <=> Trend!MacroOpen(m + 1)
  BY <1>1 DEF Trend!MacroOpen
<1>7. Trend!Admits(h, m, long)'
  BY <1>2, <1>4, <1>5, <1>6 DEF Trend!ReadsTheTape, Trend!Admits
<1>8. Trend!ReadsTheTape(g, m, long)'
  BY <1>1, <1>2, <1>7 DEF Trend!ReadsTheTape, Trend!BarsNear, Trend!Near, Trend!NoRelease
<1> QED BY <1>2, <1>8 DEF Trend!GatesReadTheTape

(* Nothing is held at first and there is no verdict.                       *)
LEMMA TrendStarts == ASSUME Trend!Init PROVE TrendInv
BY DEF Trend!Init, TrendInv, Trend!GatesReadTheTape, Trend!None

(* A step with no verdict keeps the invariant when it keeps the order of   *)
(* the minutes.                                                            *)
LEMMA TrendSilent ==
  ASSUME TrendInv, tOut' = Trend!None, tNext' \in [Trend!Streams -> Nat], tGot' \in [Trend!Streams -> SUBSET Nat],
         \A s \in Trend!Streams : \A k \in tGot'[s] : k < tNext'[s]
  PROVE  TrendInv'
BY DEF TrendInv, Trend!GatesReadTheTape, Trend!None

(* Every step keeps the invariant; only the stock's own bar has a verdict. *)
LEMMA TrendStep == ASSUME TrendInv, Trend!Next \/ UNCHANGED Trend!vars PROVE TrendInv'
<1>1. /\ tNext \in [Trend!Streams -> Nat] /\ tGot \in [Trend!Streams -> SUBSET Nat]
      /\ \A s \in Trend!Streams : \A k \in tGot[s] : k < tNext[s]
  BY DEF TrendInv
<1>2. ASSUME NEW row \in TrendRows, Trend!Minute(row) PROVE TrendInv'
  BY <1>1, <1>2, TrendSilent DEF Trend!Minute
<1>3. ASSUME NEW s \in Trend!Streams, Trend!Bar(s) PROVE TrendInv'
  BY <1>1, <1>3, TrendSilent DEF Trend!Bar
<1>4. ASSUME NEW s \in Trend!Streams, Trend!LostBar(s) PROVE TrendInv'
  BY <1>1, <1>4, TrendSilent DEF Trend!LostBar
<1>5. ASSUME NEW long \in BOOLEAN, Trend!StockBar(long) PROVE TrendInv'
  <2>0. PICK m, g : m = tNext["stock"] /\ g = [tGot EXCEPT !["stock"] = @ \cup {m}]
    OBVIOUS
  <2>1. "stock" \in Trend!Streams /\ "SPY" \in Trend!Streams
    BY DEF Trend!Streams
  <2>2. m \in Nat /\ g \in [Trend!Streams -> SUBSET Nat] /\ Minutes(g)
    BY <1>1, <2>0, <2>1 DEF Minutes
  <2>3. tGot' = g /\ tNext' = [tNext EXCEPT !["stock"] = @ + 1] /\ UNCHANGED <<tTape, tLoaded>>
        /\ tOut' = [some |-> TRUE, m |-> m, long |-> long, ok |-> Trend!Admits(g, m, long)]
    BY <1>5, <2>0 DEF Trend!StockBar
  <2>4. \A k \in g["stock"] : k <= m
    BY <1>1, <2>0, <2>1
  <2>5. tNext["SPY"] \in Nat /\ \A k \in g["SPY"] : k <= tNext["SPY"]
    BY <1>1, <2>0, <2>1
  <2>6. tNext' \in [Trend!Streams -> Nat] /\ \A s \in Trend!Streams : \A k \in tGot'[s] : k < tNext'[s]
    BY <1>1, <2>0, <2>1, <2>3
  <2>7. Trend!Admits(g, m, long) => Trend!ReadsTheTape(g, m, long)
    BY <2>2, <2>4, <2>5, AdmitsReads
  <2>9. Trend!GatesReadTheTape'
    BY <2>3, <2>7, ReadsAgain
  <2> QED BY <2>2, <2>3, <2>6, <2>9 DEF TrendInv
<1>6. CASE Trend!Restart
  BY <1>1, <1>6, TrendSilent DEF Trend!Restart
<1>7. CASE UNCHANGED Trend!vars
  <2>1. UNCHANGED <<tTape, tLoaded, tGot, tOut, tNext>>
    BY <1>7 DEF Trend!vars
  <2>2. PICK g, m, long : g = tGot /\ m = tOut.m /\ long = tOut.long
    OBVIOUS
  <2>3. Trend!GatesReadTheTape'
    <3>1. tOut'.some /\ tOut'.ok => Trend!ReadsTheTape(g, m, long)
      BY <2>1, <2>2 DEF TrendInv, Trend!GatesReadTheTape
    <3> QED BY <2>1, <2>2, <3>1, ReadsAgain
  <2> QED BY <2>1, <2>3 DEF TrendInv
<1> QED BY <1>2, <1>3, <1>4, <1>5, <1>6, <1>7 DEF Trend!Next

-----------------------------------------------------------------------------
(* Headlines                                                               *)

(* It is the maximum that NewsMomentum takes.                             *)
LEMMA NewsMax ==
  ASSUME NEW S \in SUBSET Int, S # {}, NEW top \in Int, \A x \in S : x <= top
  PROVE  News!Max(S) \in S /\ \A x \in S : x <= News!Max(S)
<1>1. News!Max(S) \in S /\ \A x \in S : News!Max(S) >= x
  BY Greatest DEF News!Max
<1> QED BY <1>1

(* A headline that waits for its bar: handled once, strong, and of no      *)
(* shares it spoke against.                                                *)
Waits(c) ==
  /\ c.id \in DOMAIN nSeen /\ News!Strong(nMade[c.id].score) /\ ~News!Against(nMade[c.id].score, nSeen[c.id].side)
  /\ ~c.done => \A a \in nActs : a.id # c.id

(* The shares that headline id found were closed because of it; and it     *)
(* spoke against shares of an owner that acts on news.                     *)
Exited(id) ==
  \E a \in nActs : a.id = id /\ a.kind = "exit" /\ a.side = nSeen[id].side /\ a.owner = nSeen[id].owner
Spent(id) == News!Against(nMade[id].score, nSeen[id].side) /\ nSeen[id].owner \in {"intraday", "orb"}

(* A headline is on the wire or handled, waits at most once, and has led   *)
(* to at most one act: an entry only if it had waited, an exit only if it  *)
(* was spent on the shares it found.                                       *)
NewsInv ==
  /\ nNow \in Nat /\ nBar \in Nat /\ nMade \in Seq(News!Headline)
  /\ nWire \subseteq DOMAIN nMade /\ DOMAIN nSeen \subseteq DOMAIN nMade /\ nWire \cap DOMAIN nSeen = {}
  /\ nPending \in SUBSET [id : Nat, nth : Nat, done : BOOLEAN]
  /\ \E top \in Nat : \A c \in nPending : c.nth <= top
  /\ \A c \in nPending : Waits(c)
  /\ \A c, d \in nPending : c.id = d.id => c = d
  /\ \A a \in nActs : a.id \in DOMAIN nSeen
  /\ \A a, b \in nActs : a.id = b.id => a = b
  /\ \A a \in nActs : a.kind = "enter" =>
       /\ a.bar \in nMade[a.id].at .. nMade[a.id].at + Ttl
       /\ News!Strong(nMade[a.id].score) /\ a.side = News!SideOf(nMade[a.id].score)
       /\ ~News!Against(nMade[a.id].score, nSeen[a.id].side)
  /\ \A id \in DOMAIN nSeen : Exited(id) <=> Spent(id)

(* The invariant says more than the property.                              *)
LEMMA NewsActs == NewsInv => News!HeadlineActsOnce
BY DEF NewsInv, News!HeadlineActsOnce, Exited, Spent

(* Nothing is published at first.                                          *)
LEMMA NewsStarts == News!Init => NewsInv
<1> SUFFICES ASSUME News!Init PROVE NewsInv
  OBVIOUS
<1>1. nMade = <<>> /\ nSeen = <<>> /\ nWire = {} /\ nPending = {} /\ nActs = {} /\ nNow = 0 /\ nBar = 0
  BY DEF News!Init
<1>2. DOMAIN nSeen = {} /\ nMade \in Seq(News!Headline)
  BY <1>1
<1>3. \E top \in Nat : \A c \in nPending : c.nth <= top
  BY <1>1
<1> QED BY <1>1, <1>2, <1>3 DEF NewsInv

(* A new headline changes nothing about the older ones.                    *)
LEMMA NewsPublish == ASSUME NewsInv, NEW score \in Scores, News!Publish(score) PROVE NewsInv'
<1>1. nMade' = Append(nMade, [at |-> nNow, score |-> score]) /\ nWire' = nWire \cup {Len(nMade) + 1}
      /\ UNCHANGED <<nNow, nSeen, nPending, nBar, nActs>>
  BY DEF News!Publish
<1>2. nMade \in Seq(News!Headline) /\ nNow \in Nat /\ score \in Int
  BY NewsAssumption DEF NewsInv
<1>3. [at |-> nNow, score |-> score] \in News!Headline
  BY <1>2 DEF News!Headline
<1>4. nMade' \in Seq(News!Headline) /\ DOMAIN nMade \subseteq DOMAIN nMade' /\ Len(nMade) + 1 \in DOMAIN nMade'
      /\ Len(nMade) + 1 \notin DOMAIN nMade /\ \A i \in DOMAIN nMade : nMade'[i] = nMade[i]
  BY <1>1, <1>2, <1>3
<1>5. \A i \in DOMAIN nSeen : nMade'[i] = nMade[i]
  BY <1>4 DEF NewsInv
<1>6. \A c \in nPending' : Waits(c)'
  BY <1>1, <1>5 DEF NewsInv, Waits
<1>7. \A a \in nActs : nMade'[a.id] = nMade[a.id]
  BY <1>5 DEF NewsInv
<1>8. \A id \in DOMAIN nSeen' : Exited(id)' <=> Spent(id)'
  BY <1>1, <1>5 DEF NewsInv, Exited, Spent
<1>9. nWire' \subseteq DOMAIN nMade' /\ DOMAIN nSeen' \subseteq DOMAIN nMade' /\ nWire' \cap DOMAIN nSeen' = {}
  BY <1>1, <1>4 DEF NewsInv
<1>10. \A a \in nActs' : a.kind = "enter" =>
       /\ a.bar \in nMade'[a.id].at .. nMade'[a.id].at + Ttl
       /\ News!Strong(nMade'[a.id].score) /\ a.side = News!SideOf(nMade'[a.id].score)
       /\ ~News!Against(nMade'[a.id].score, nSeen'[a.id].side)
  BY <1>1, <1>7 DEF NewsInv
<1>11. nNow' \in Nat /\ nBar' \in Nat
  BY <1>1 DEF NewsInv
<1> QED BY <1>1, <1>4, <1>6, <1>8, <1>9, <1>10, <1>11 DEF NewsInv

(* The list of catalysts has an end.                                       *)
LEMMA EndIs ==
  ASSUME NewsInv
  PROVE  News!EndOfList \in Nat
<1>1. PICK top \in Nat : \A c \in nPending : c.nth <= top
  BY DEF NewsInv
<1> DEFINE S == {0} \cup {c.nth : c \in nPending}
<1>2. \A x \in S : x \in Nat /\ x <= top
  BY <1>1 DEF NewsInv
<1>3. 0 \in S /\ News!EndOfList = News!Max(S) + 1
  BY DEF News!EndOfList
<1> HIDE DEF S
<1>4. S \in SUBSET Int /\ S # {} /\ top \in Int
  BY <1>2, <1>3
<1>5. News!Max(S) \in S
  BY <1>2, <1>4, NewsMax
<1> QED BY <1>2, <1>3, <1>5

(* A headline is handled.                                                  *)
LEMMA NewsArrives == ASSUME NewsInv, NEW id \in nWire, News!Arrives(id) PROVE NewsInv'
<1> DEFINE score == nMade[id].score
           hit   == News!Against(score, News!Watched)
           acted == hit /\ (News!Sells(nHeld.owner) \/ News!Asks(nHeld.owner))
           act   == [id |-> id, kind |-> "exit", side |-> nHeld.side, owner |-> nHeld.owner, bar |-> nBar]
           new   == [id |-> id, nth |-> News!EndOfList, done |-> FALSE]
<1>1. /\ nWire' = nWire \ {id}
      /\ nSeen' = [i \in DOMAIN nSeen \cup {id} |-> IF i = id THEN nHeld ELSE nSeen[i]]
      /\ nPending' = IF ~hit /\ News!Strong(score) THEN nPending \cup {new} ELSE nPending
      /\ nActs' = IF acted THEN nActs \cup {act} ELSE nActs
      /\ UNCHANGED <<nNow, nMade, nBar>>
  BY DEF News!Arrives
<1>2. id \in DOMAIN nMade /\ id \notin DOMAIN nSeen /\ id \in Nat /\ nMade \in Seq(News!Headline)
  BY DEF NewsInv
<1>3. DOMAIN nSeen' = DOMAIN nSeen \cup {id} /\ nSeen'[id] = nHeld /\ \A i \in DOMAIN nSeen : nSeen'[i] = nSeen[i]
  BY <1>1, <1>2
<1>4. News!EndOfList \in Nat
  BY EndIs
<1> HIDE DEF hit, acted, act, new
<1>5. act.id = id /\ act.kind = "exit" /\ act.side = nHeld.side /\ act.owner = nHeld.owner
  BY DEF act
<1>6. new.id = id /\ new.nth = News!EndOfList /\ new.done = FALSE /\ new \in [id : Nat, nth : Nat, done : BOOLEAN]
  BY <1>2, <1>4 DEF new
<1>7. \A a \in nActs : a.id \in DOMAIN nSeen /\ a.id # id
  BY <1>2 DEF NewsInv
<1>8. \A c \in nPending : c.id \in DOMAIN nSeen /\ c.id # id
  BY <1>2 DEF NewsInv, Waits
<1>9. ~hit => ~acted
  BY DEF acted
<1>10. \A a \in nActs' : a \in nActs \/ (acted /\ a = act)
  BY <1>1
<1>11. \A c \in nPending' : c \in nPending \/ (~hit /\ News!Strong(score) /\ c = new)
  BY <1>1
<1>12. \A c \in nPending' : Waits(c)'
  <2> SUFFICES ASSUME NEW c \in nPending' PROVE Waits(c)'
    OBVIOUS
  <2>1. CASE c \in nPending
    <3>1. Waits(c) /\ c.id # id /\ c.id \in DOMAIN nSeen
      BY <1>8, <2>1 DEF NewsInv
    <3>2. ~c.done => \A a \in nActs' : a.id # c.id
      BY <1>5, <1>10, <3>1 DEF Waits
    <3> QED BY <1>1, <1>3, <3>1, <3>2 DEF Waits
  <2>2. CASE ~hit /\ News!Strong(score) /\ c = new
    <3>1. \A a \in nActs' : a.id # id
      BY <1>7, <1>9, <1>10, <2>2
    <3>2. ~News!Against(nMade[id].score, nHeld.side)
      BY <2>2 DEF hit, News!Watched
    <3> QED BY <1>1, <1>3, <1>6, <2>2, <3>1, <3>2 DEF Waits
  <2> QED BY <1>11, <2>1, <2>2
<1>13. \A c, d \in nPending' : c.id = d.id => c = d
  BY <1>6, <1>8, <1>11 DEF NewsInv
<1>14. \E top \in Nat : \A c \in nPending' : c.nth <= top
  <2>1. PICK top \in Nat : \A c \in nPending : c.nth <= top
    BY DEF NewsInv
  <2>2. PICK most \in Nat : most >= top /\ most >= News!EndOfList
    BY <1>4, <2>1
  <2>3. \A c \in nPending : c.nth \in Nat
    BY DEF NewsInv
  <2>4. \A c \in nPending' : c.nth <= most
    BY <1>4, <1>6, <1>11, <2>1, <2>2, <2>3
  <2> QED BY <2>4
<1>15. \A a, b \in nActs' : a.id = b.id => a = b
  BY <1>5, <1>7, <1>10 DEF NewsInv
<1>16. \A a \in nActs' : a.id \in DOMAIN nSeen'
  BY <1>3, <1>5, <1>7, <1>10
<1>17. \A a \in nActs' : a.kind = "enter" =>
       /\ a.bar \in nMade'[a.id].at .. nMade'[a.id].at + Ttl
       /\ News!Strong(nMade'[a.id].score) /\ a.side = News!SideOf(nMade'[a.id].score)
       /\ ~News!Against(nMade'[a.id].score, nSeen'[a.id].side)
  <2> SUFFICES ASSUME NEW a \in nActs', a.kind = "enter"
               PROVE  /\ a.bar \in nMade[a.id].at .. nMade[a.id].at + Ttl
                      /\ News!Strong(nMade[a.id].score) /\ a.side = News!SideOf(nMade[a.id].score)
                      /\ ~News!Against(nMade[a.id].score, nSeen'[a.id].side)
    BY <1>1
  <2>1. a \in nActs
    BY <1>5, <1>10
  <2> QED BY <1>3, <1>7, <2>1 DEF NewsInv
<1>18. \A i \in DOMAIN nSeen' : Exited(i)' <=> Spent(i)'
  <2>1. ASSUME NEW i \in DOMAIN nSeen PROVE Exited(i)' <=> Spent(i)'
    <3>1. i # id /\ nSeen'[i] = nSeen[i]
      BY <1>2, <1>3
    <3>2. Exited(i)' <=> Exited(i)
      BY <1>1, <1>5, <1>10, <3>1 DEF Exited
    <3>3. Spent(i)' <=> Spent(i)
      BY <1>1, <3>1 DEF Spent
    <3> QED BY <3>2, <3>3 DEF NewsInv
  <2>2. Exited(id)' <=> acted
    BY <1>1, <1>3, <1>5, <1>7, <1>10 DEF Exited
  <2>3. Spent(id)' <=> acted
    BY <1>1, <1>3 DEF Spent, acted, hit, News!Watched, News!Sells, News!Asks
  <2> QED BY <1>3, <2>1, <2>2, <2>3
<1>19. nWire' \subseteq DOMAIN nMade' /\ DOMAIN nSeen' \subseteq DOMAIN nMade' /\ nWire' \cap DOMAIN nSeen' = {}
  BY <1>1, <1>2, <1>3 DEF NewsInv
<1>20. nPending' \in SUBSET [id : Nat, nth : Nat, done : BOOLEAN]
  BY <1>6, <1>11 DEF NewsInv
<1>21. nNow' \in Nat /\ nBar' \in Nat /\ nMade' \in Seq(News!Headline)
  BY <1>1 DEF NewsInv
<1> QED BY <1>12, <1>13, <1>14, <1>15, <1>16, <1>17, <1>18, <1>19, <1>20, <1>21 DEF NewsInv

(* Some catalyst of a set of waiting ones is the newest.                   *)
LEMMA NewestIs ==
  ASSUME NewsInv, NEW S \in SUBSET nPending, S # {}
  PROVE  News!Newest(S) \in S
<1>1. PICK top \in Nat : \A c \in nPending : c.nth <= top
  BY DEF NewsInv
<1> DEFINE N == {c.nth : c \in S}
<1>2. \A c \in S : c.nth \in Nat /\ c.nth <= top
  BY <1>1 DEF NewsInv
<1>3. /\ N \in SUBSET Int /\ N # {} /\ \A x \in N : x <= top
      /\ \A c \in S : c.nth \in N
      /\ \A x \in N : \E c \in S : c.nth = x
  BY <1>2
<1> HIDE DEF N
<1>4. top \in Int
  OBVIOUS
<1>5. News!Max(N) \in N /\ \A x \in N : x <= News!Max(N)
  BY <1>3, <1>4, NewsMax
<1>6. PICK c \in S : c.nth = News!Max(N)
  BY <1>3, <1>5
<1>7. \A o \in S : o.nth <= c.nth
  BY <1>3, <1>5, <1>6
<1> QED BY <1>7 DEF News!Newest

(* What neither touches headlines, nor the list, nor the acts.             *)
LEMMA NewsIdle ==
  ASSUME NewsInv, UNCHANGED <<nMade, nWire, nSeen, nPending, nActs>>, nNow' \in Nat, nBar' \in Nat
  PROVE  NewsInv'
<1>1. nMade' = nMade /\ nWire' = nWire /\ nSeen' = nSeen /\ nPending' = nPending /\ nActs' = nActs
  OBVIOUS
<1>2. \A c : Waits(c)' <=> Waits(c)
  BY <1>1 DEF Waits
<1>3. \A id : (Exited(id)' <=> Exited(id)) /\ (Spent(id)' <=> Spent(id))
  BY <1>1 DEF Exited, Spent
<1> QED BY <1>1, <1>2, <1>3 DEF NewsInv

(* A bar uses at most the newest valid headline, and marks it.             *)
LEMMA NewsBar ==
  ASSUME NewsInv, NEW vol \in NewsVols, NEW candle \in News!Sides, NEW admitted \in BOOLEAN, News!Bar(vol, candle, admitted)
  PROVE  NewsInv'
<1> DEFINE valid  == {c \in nPending : News!Valid(c, nBar)}
           newest == News!Newest(valid)
           side   == News!SideOf(nMade[newest.id].score)
           fires  == valid # {} /\ News!Confirms(vol) /\ candle = side
           used   == IF fires THEN newest.id ELSE 0
           act    == [id |-> newest.id, kind |-> "enter", side |-> side, owner |-> "intraday", bar |-> nBar]
<1>1. nBar' = nBar + NewsMinute /\ UNCHANGED <<nNow, nMade, nWire, nSeen>>
  BY DEF News!Bar
<1>2. \/ nPending' = nPending /\ nActs' = nActs
      \/ nPending' = News!AfterBar(nBar, used) /\ nActs' = IF fires THEN nActs \cup {act} ELSE nActs
  BY DEF News!Bar
<1>3. nBar' \in Nat /\ nNow' \in Nat /\ nMade' \in Seq(News!Headline) /\ nBar \in Nat
  BY <1>1, NewsAssumption DEF NewsInv
<1>4. valid \subseteq nPending
  OBVIOUS
<1>5. valid # {} => newest \in nPending /\ News!Valid(newest, nBar)
  BY NewestIs
<1> HIDE DEF valid, newest
<1>6. CASE nPending' = nPending /\ nActs' = nActs
  BY <1>1, <1>3, <1>6, NewsIdle
<1>7. CASE nPending' = News!AfterBar(nBar, used) /\ nActs' = IF fires THEN nActs \cup {act} ELSE nActs
  <2>1. fires => newest \in nPending /\ ~newest.done /\ News!Age(newest.id, nBar) \in 0 .. Ttl /\ Waits(newest)
    BY <1>5 DEF NewsInv, News!Valid
  <2>2. act.id = newest.id /\ act.kind = "enter" /\ act.side = side /\ act.bar = nBar
    OBVIOUS
  <2> HIDE DEF act, fires
  <2>3. \A a \in nActs' : a \in nActs \/ (fires /\ a = act)
    BY <1>7
  <2>4. \A c \in nPending' : \E d \in nPending : c = [d EXCEPT !.done = @ \/ d.id = used]
    BY <1>7 DEF News!AfterBar
  <2>5. \A c \in nPending' : \E d \in nPending :
          /\ c.id = d.id /\ c.nth = d.nth /\ c \in [id : Nat, nth : Nat, done : BOOLEAN]
          /\ (~c.done => ~d.done /\ (fires => d.id # newest.id)) /\ c.done = (d.done \/ d.id = used)
    <3> SUFFICES ASSUME NEW c \in nPending'
                 PROVE  \E d \in nPending :
                          /\ c.id = d.id /\ c.nth = d.nth /\ c \in [id : Nat, nth : Nat, done : BOOLEAN]
                          /\ (~c.done => ~d.done /\ (fires => d.id # newest.id)) /\ c.done = (d.done \/ d.id = used)
      OBVIOUS
    <3>1. PICK d \in nPending : c = [d EXCEPT !.done = @ \/ d.id = used]
      BY <2>4
    <3>2. d \in [id : Nat, nth : Nat, done : BOOLEAN]
      BY DEF NewsInv
    <3>3. c.id = d.id /\ c.nth = d.nth /\ c \in [id : Nat, nth : Nat, done : BOOLEAN] /\ c.done = (d.done \/ d.id = used)
      BY <3>1, <3>2
    <3>4. ~c.done => ~d.done /\ (fires => d.id # newest.id)
      BY <3>3
    <3> QED BY <3>3, <3>4
  <2>6. \A c \in nPending' : Waits(c)'
    <3> SUFFICES ASSUME NEW c \in nPending' PROVE Waits(c)'
      OBVIOUS
    <3>1. PICK d \in nPending : c.id = d.id /\ (~c.done => ~d.done /\ (fires => d.id # newest.id))
      BY <2>5
    <3>2. Waits(d)
      BY DEF NewsInv
    <3>3. ~c.done => \A a \in nActs' : a.id # c.id
      BY <2>2, <2>3, <3>1, <3>2 DEF Waits
    <3> QED BY <1>1, <3>1, <3>2, <3>3 DEF Waits
  <2>7. \A c, d \in nPending' : c.id = d.id => c = d
    <3> SUFFICES ASSUME NEW c \in nPending', NEW d \in nPending', c.id = d.id PROVE c = d
      OBVIOUS
    <3>1. PICK x \in nPending : c = [x EXCEPT !.done = @ \/ x.id = used]
      BY <2>4
    <3>2. PICK y \in nPending : d = [y EXCEPT !.done = @ \/ y.id = used]
      BY <2>4
    <3>3. x.id = c.id /\ y.id = d.id
      BY <3>1, <3>2 DEF NewsInv
    <3>4. x = y
      BY <3>3 DEF NewsInv
    <3> QED BY <3>1, <3>2, <3>4
  <2>8. \E top \in Nat : \A c \in nPending' : c.nth <= top
    <3>1. PICK top \in Nat : \A c \in nPending : c.nth <= top
      BY DEF NewsInv
    <3>2. \A c \in nPending' : c.nth <= top
      BY <2>5, <3>1
    <3> QED BY <3>2
  <2>9. \A a \in nActs' : a.id \in DOMAIN nSeen'
    BY <1>1, <2>1, <2>2, <2>3 DEF NewsInv, Waits
  <2>10. \A a, b \in nActs' : a.id = b.id => a = b
    BY <2>1, <2>2, <2>3 DEF NewsInv, Waits
  <2>11. \A a \in nActs' : a.kind = "enter" =>
           /\ a.bar \in nMade'[a.id].at .. nMade'[a.id].at + Ttl
           /\ News!Strong(nMade'[a.id].score) /\ a.side = News!SideOf(nMade'[a.id].score)
           /\ ~News!Against(nMade'[a.id].score, nSeen'[a.id].side)
    <3> SUFFICES ASSUME NEW a \in nActs', a.kind = "enter"
                 PROVE  /\ a.bar \in nMade[a.id].at .. nMade[a.id].at + Ttl
                        /\ News!Strong(nMade[a.id].score) /\ a.side = News!SideOf(nMade[a.id].score)
                        /\ ~News!Against(nMade[a.id].score, nSeen[a.id].side)
      BY <1>1
    <3>1. CASE a \in nActs
      BY <3>1 DEF NewsInv
    <3>2. CASE fires /\ a = act
      <4>1. a.id = newest.id /\ a.side = News!SideOf(nMade[a.id].score) /\ a.bar = nBar
        BY <2>2, <3>2
      <4>2. a.id \in DOMAIN nMade
        BY <2>1, <3>2, <4>1 DEF NewsInv, Waits
      <4>3. nMade[a.id].at \in Nat
        <5>1. nMade[a.id] \in News!Headline
          BY <4>2 DEF NewsInv
        <5> QED BY <5>1 DEF News!Headline
      <4>4. nBar - nMade[a.id].at \in 0 .. Ttl
        BY <2>1, <3>2, <4>1 DEF News!Age
      <4>5. a.bar \in nMade[a.id].at .. nMade[a.id].at + Ttl
        BY <1>3, <4>1, <4>3, <4>4, NewsAssumption
      <4> QED BY <2>1, <3>2, <4>1, <4>5 DEF Waits
    <3> QED BY <2>3, <3>1, <3>2
  <2>12. \A id \in DOMAIN nSeen' : Exited(id)' <=> Spent(id)'
    <3>1. \A id : Exited(id)' <=> Exited(id)
      BY <1>1, <1>7, <2>2, <2>3 DEF Exited
    <3>2. \A id : Spent(id)' <=> Spent(id)
      BY <1>1 DEF Spent
    <3> QED BY <1>1, <3>1, <3>2 DEF NewsInv
  <2>13. nPending' \in SUBSET [id : Nat, nth : Nat, done : BOOLEAN]
    BY <2>5
  <2>14. nWire' \subseteq DOMAIN nMade' /\ DOMAIN nSeen' \subseteq DOMAIN nMade' /\ nWire' \cap DOMAIN nSeen' = {}
    BY <1>1 DEF NewsInv
  <2> QED BY <1>3, <2>6, <2>7, <2>8, <2>9, <2>10, <2>11, <2>12, <2>13, <2>14 DEF NewsInv
<1> QED BY <1>2, <1>6, <1>7

(* Every step keeps the invariant.                                         *)
LEMMA NewsStep == ASSUME NewsInv, News!Next \/ UNCHANGED News!vars PROVE NewsInv'
<1>1. nNow \in Nat /\ nBar \in Nat /\ NewsMinute \in Nat
  BY NewsAssumption DEF NewsInv
<1>2. CASE News!Tick
  BY <1>1, <1>2, NewsIdle DEF News!Tick
<1>3. CASE News!NoBar
  BY <1>1, <1>3, NewsIdle DEF News!NoBar
<1>4. CASE News!Closes
  BY <1>1, <1>4, NewsIdle DEF News!Closes
<1>5. CASE \E owner \in News!Owners, side \in News!Sides : News!Opens(owner, side)
  BY <1>1, <1>5, NewsIdle DEF News!Opens
<1>6. CASE UNCHANGED News!vars
  BY <1>1, <1>6, NewsIdle DEF News!vars
<1> QED BY <1>2, <1>3, <1>4, <1>5, <1>6, NewsPublish, NewsArrives, NewsBar DEF News!Next

-----------------------------------------------------------------------------
(* Ride the Trend                                                          *)

(* The limits, one by one.                                                 *)
LEMMA RideNats ==
  /\ RefBars \in Nat /\ RefMinStart \in Nat /\ TouchMin \in Nat /\ TouchMax \in Nat /\ PullbackMax \in Nat
  /\ ResumeMaxAge \in Nat /\ Thin \in Nat /\ Cooldown \in Nat
  /\ MaxSignals \in Nat /\ FeedGap \in Nat /\ RideOpen \in Nat /\ RideClose \in Nat
  /\ RideVols \subseteq Nat /\ Lows \subseteq Nat
BY RideAssumption

(* The bars a setup was judged by are no lower than its extreme: all up to *)
(* the touch, and those with a volume after it.                            *)
Lowest(leg, m, touch, ext) ==
  /\ touch \in 1 .. m /\ ext \in 1 .. m
  /\ \A k \in 1 .. m : (k <= touch \/ leg[k].vol > 0) => leg[ext].low <= leg[k].low

(* The state of the machine.                                               *)
Machine == [state : {"IDLE", "IMPULSE", "PULLBACK", "RESUMING"}, side : {"NONE", "LONG", "BOTH"}, leg : Seq(Ride!Bar),
            touch : Nat, ext : Nat, gap : Int, cool : Int, admitted : Nat]

(* A setup under way after i bars: its impulse came after the last break,  *)
(* when the reference was whole, and up to bar m its extreme holds.        *)
Setup(s, i, brk, m) ==
  s.state # "IDLE" =>
    /\ brk <= i - Len(s.leg) - 1
    /\ i - 1 - RefBars >= Ride!Over(RefMinStart, s.gap)
    /\ s.state \in {"PULLBACK", "RESUMING"} => Lowest(s.leg, m, s.touch, s.ext)

(* The budget is kept, and the cooldown after the admitted signal l holds, *)
(* or no signal is left.                                                   *)
Budgeted(s, l) == s.admitted <= MaxSignals /\ (l # Ride!None => l + Cooldown <= s.cool \/ s.admitted >= MaxSignals)

(* The setup under way is one that the bars since the last break make, and *)
(* the last signal was earned.                                             *)
RideInv ==
  /\ rN \in Nat /\ rClock \in Nat /\ rBroken \in Nat /\ rBroken <= rN /\ rLast \in Int /\ rSt \in Machine
  /\ Setup(rSt, rN, rBroken, Len(rSt.leg)) /\ Budgeted(rSt, rLast)
  /\ Ride!SignalIsEarned

(* The bars of a leg have natural lows and volumes.                        *)
LEMMA LegBars ==
  ASSUME NEW leg \in Seq(Ride!Bar)
  PROVE  /\ DOMAIN leg = 1 .. Len(leg) /\ Len(leg) \in Nat
         /\ \A k \in 1 .. Len(leg) : leg[k].low \in Nat /\ leg[k].vol \in Nat
<1>1. \A k \in 1 .. Len(leg) : leg[k] \in Ride!Bar
  OBVIOUS
<1>2. \A b \in Ride!Bar : b.low \in Nat /\ b.vol \in Nat
  BY RideNats DEF Ride!Bar
<1> QED BY <1>1, <1>2

(* The first of the lowest bars of a leg exists, and no bar is lower.      *)
LEMMA LowestIs ==
  ASSUME NEW leg \in Seq(Ride!Bar), Len(leg) > 0
  PROVE  Ride!LowestOf(leg) \in 1 .. Len(leg) /\ \A k \in 1 .. Len(leg) : leg[Ride!LowestOf(leg)].low <= leg[k].low
<1> DEFINE L == {leg[k].low : k \in DOMAIN leg}
<1>0. DOMAIN leg = 1 .. Len(leg) /\ \A k \in DOMAIN leg : leg[k].low \in Nat
  BY LegBars
<1>1. L \in SUBSET Nat /\ L # {}
  <2>1. \A x \in L : x \in Nat
    BY <1>0
  <2>2. leg[1].low \in L
    BY <1>0
  <2> QED BY <2>1, <2>2
<1>2. PICK m \in L : \A x \in L : m <= x
  BY <1>1, LeastNat
<1> DEFINE K == {k \in DOMAIN leg : leg[k].low = m}
<1>3. K \in SUBSET Nat /\ K # {}
  BY <1>0, <1>2
<1>4. PICK j \in K : \A k \in K : j <= k
  BY <1>3, LeastNat
<1>5. \A k \in DOMAIN leg : m <= leg[k].low
  BY <1>2
<1>6. m \in Nat /\ j \in DOMAIN leg /\ leg[j].low = m
  BY <1>1, <1>4
<1> DEFINE Least(k) == \A i \in DOMAIN leg : leg[k].low < leg[i].low \/ (leg[k].low = leg[i].low /\ k <= i)
<1>7. Least(j)
  <2> SUFFICES ASSUME NEW i \in DOMAIN leg PROVE leg[j].low < leg[i].low \/ (leg[j].low = leg[i].low /\ j <= i)
    OBVIOUS
  <2>1. CASE leg[i].low = m
    BY <1>4, <1>6, <2>1
  <2>2. CASE leg[i].low # m
    BY <1>0, <1>5, <1>6, <2>2
  <2> QED BY <2>1, <2>2
<1>8. Ride!LowestOf(leg) \in DOMAIN leg /\ Least(Ride!LowestOf(leg))
  BY <1>6, <1>7 DEF Ride!LowestOf
<1> QED BY <1>0, <1>8

-----------------------------------------------------------------------------
(* One bar.  s is the machine with bar i on its leg; brk is the last break *)
(* of the history.  What comes out is a machine after i + 1 bars, and with *)
(* a signal, the evidence.                                                 *)

(* The outcome o of bar i at minute t has a signal only of a setup that    *)
(* earned it.                                                              *)
Earned(s, i, t, o) ==
  o.signal =>
    /\ s.state \in {"PULLBACK", "RESUMING"} /\ s.ext <= Len(s.leg) - 1 /\ Len(s.leg) - s.ext <= ResumeMaxAge
    /\ s.leg[s.ext].low <= s.leg[Len(s.leg)].low
    /\ Ride!ThinTo(s.leg, s.ext) /\ Ride!MayEmit(s, i, t)

(* The outcome o is a machine again, after bar i; its cooldown and budget  *)
(* are as before.                                                          *)
SoundOut(s, i, t, brk, o) ==
  /\ o.st \in Machine /\ Setup(o.st, i + 1, brk, Len(o.st.leg))
  /\ o.st.cool = s.cool /\ o.st.admitted = s.admitted /\ o.signal \in BOOLEAN
  /\ Earned(s, i, t, o)

(* A machine that goes idle keeps its cooldown, its budget and its gap.    *)
LEMMA IdleFacts ==
  ASSUME NEW s \in Machine
  PROVE  /\ Ride!Idle(s) \in Machine /\ Ride!Idle(s).state = "IDLE" /\ Ride!Idle(s).cool = s.cool
         /\ Ride!Idle(s).admitted = s.admitted /\ Ride!Idle(s).gap = s.gap
<1>1. <<>> \in Seq(Ride!Bar)
  OBVIOUS
<1> QED BY <1>1 DEF Machine, Ride!Idle

(* The outcome of a bar that only moves the machine.                       *)
LEMMA StayIs == ASSUME NEW x, NEW o \in Ride!Stay(x) PROVE o.st = x /\ o.signal = FALSE
BY DEF Ride!Stay

(* Such an outcome is sound when the machine it leaves is,                 *)
LEMMA StaySound ==
  ASSUME NEW s, NEW x \in Machine, NEW i, NEW t, NEW brk, Setup(x, i + 1, brk, Len(x.leg)),
         x.cool = s.cool, x.admitted = s.admitted
  PROVE  \A o \in Ride!Stay(x) : SoundOut(s, i, t, brk, o)
<1> SUFFICES ASSUME NEW o \in Ride!Stay(x) PROVE SoundOut(s, i, t, brk, o)
  OBVIOUS
<1>1. o.st = x /\ o.signal = FALSE
  BY StayIs
<1>2. Earned(s, i, t, o)
  BY <1>1 DEF Earned
<1> QED BY <1>1, <1>2 DEF SoundOut

(* and going idle always is.                                               *)
LEMMA IdleSound ==
  ASSUME NEW s \in Machine, NEW i, NEW t, NEW brk
  PROVE  \A o \in Ride!Stay(Ride!Idle(s)) : SoundOut(s, i, t, brk, o)
<1>1. Setup(Ride!Idle(s), i + 1, brk, Len(Ride!Idle(s).leg))
  BY IdleFacts DEF Setup
<1> QED BY <1>1, IdleFacts, StaySound

(* The machine with the bar on its leg, before it is judged *)
Judging(s, i, brk) ==
  /\ s \in Machine /\ s.state # "IDLE" /\ i \in Nat /\ brk \in Nat /\ Len(s.leg) > 0
  /\ Setup(s, i + 1, brk, Len(s.leg) - 1)

(* A bar with a volume either is lower than the extreme and becomes it, or *)
(* leaves it the lowest.                                                   *)
LEMMA ExtremeMoves ==
  ASSUME NEW s, NEW i, NEW brk, Judging(s, i, brk), s.state \in {"PULLBACK", "RESUMING"},
         s.leg[Len(s.leg)].vol > 0
  PROVE  LET m == Len(s.leg)
         IN  /\ Ride!NewExtreme(s) => Lowest(s.leg, m, s.touch, m)
             /\ ~Ride!NewExtreme(s) => Lowest(s.leg, m, s.touch, s.ext) /\ s.leg[s.ext].low <= s.leg[m].low
<1> DEFINE m == Len(s.leg)
<1>1. m \in Nat /\ m > 0 /\ \A k \in 1 .. m : s.leg[k].low \in Nat
  BY LegBars DEF Judging, Machine
<1>2. Lowest(s.leg, m - 1, s.touch, s.ext)
  BY DEF Judging, Setup
<1>3. s.touch \in 1 .. m /\ s.ext \in 1 .. m /\ s.touch \in 1 .. m - 1 /\ s.ext \in 1 .. m - 1
  BY <1>1, <1>2 DEF Lowest
<1>4. \A k \in 1 .. m : k \in 1 .. m - 1 \/ k = m
  BY <1>1
<1> HIDE DEF m
<1>5. ASSUME Ride!NewExtreme(s) PROVE Lowest(s.leg, m, s.touch, m)
  <2>1. s.leg[m].low < s.leg[s.ext].low
    BY <1>5 DEF Ride!NewExtreme, m
  <2> SUFFICES ASSUME NEW k \in 1 .. m, k <= s.touch \/ s.leg[k].vol > 0 PROVE s.leg[m].low <= s.leg[k].low
    BY <1>1, <1>3 DEF Lowest
  <2>2. CASE k = m
    BY <1>1, <2>2
  <2>3. CASE k \in 1 .. m - 1
    <3>1. s.leg[s.ext].low <= s.leg[k].low
      BY <1>2, <2>3 DEF Lowest
    <3>2. s.leg[m].low \in Nat /\ s.leg[s.ext].low \in Nat /\ s.leg[k].low \in Nat
      BY <1>1, <1>3
    <3> QED BY <2>1, <3>1, <3>2
  <2> QED BY <1>4, <2>2, <2>3
<1>6. ASSUME ~Ride!NewExtreme(s) PROVE Lowest(s.leg, m, s.touch, s.ext) /\ s.leg[s.ext].low <= s.leg[m].low
  <2>1. s.leg[s.ext].low <= s.leg[m].low
    <3>1. ~(s.leg[m].low < s.leg[s.ext].low)
      BY <1>6 DEF Ride!NewExtreme, m
    <3>2. s.leg[m].low \in Nat /\ s.leg[s.ext].low \in Nat
      BY <1>1, <1>3
    <3> QED BY <3>1, <3>2
  <2>2. ASSUME NEW k \in 1 .. m, k <= s.touch \/ s.leg[k].vol > 0 PROVE s.leg[s.ext].low <= s.leg[k].low
    BY <1>2, <1>4, <2>1, <2>2 DEF Lowest
  <2> QED BY <1>3, <2>1, <2>2 DEF Lowest
<1> QED BY <1>5, <1>6 DEF m

(* The bar that touches the zone finds the extreme of the leg so far.      *)
LEMMA TouchSound ==
  ASSUME NEW s, NEW i, NEW brk, Judging(s, i, brk), s.state = "IMPULSE", NEW t, NEW hit
  PROVE  \A o \in Ride!Touch(s, hit) : SoundOut(s, i, t, brk, o)
<1> DEFINE len == Len(s.leg)
           x == [s EXCEPT !.state = "PULLBACK", !.touch = len, !.ext = Ride!LowestOf(s.leg)]
<1>1. s \in Machine /\ s.leg \in Seq(Ride!Bar) /\ len \in Nat /\ len > 0
  BY DEF Judging, Machine
<1>2. Lowest(s.leg, len, len, Ride!LowestOf(s.leg))
  BY <1>1, LowestIs DEF Lowest
<1>3. x \in Machine /\ x.leg = s.leg /\ x.touch = len /\ x.ext = Ride!LowestOf(s.leg) /\ x.gap = s.gap
      /\ x.cool = s.cool /\ x.admitted = s.admitted
  <2>1. Ride!LowestOf(s.leg) \in Nat
    BY <1>1, <1>2 DEF Lowest
  <2> QED BY <1>1, <2>1 DEF Machine
<1>4. Setup(x, i + 1, brk, Len(x.leg))
  BY <1>2, <1>3 DEF Judging, Setup
<1>5. Setup(s, i + 1, brk, Len(s.leg))
  BY DEF Judging, Setup
<1>6. \A o \in Ride!Stay(x) \cup Ride!Stay(s) \cup Ride!Stay(Ride!Idle(s)) : SoundOut(s, i, t, brk, o)
  BY <1>1, <1>3, <1>4, <1>5, IdleSound, StaySound
<1>7. Ride!Touch(s, hit) \subseteq Ride!Stay(x) \cup Ride!Stay(s) \cup Ride!Stay(Ride!Idle(s))
  BY DEF Ride!Touch
<1> QED BY <1>6, <1>7

(* A gate that fails leaves the setup as it is or ends it.                 *)
LEMMA GateIs == \A s : \A o \in Ride!GateFails(s) : \E g, a : o \in Ride!Stay(Ride!AfterGate(s, g, a))
BY DEF Ride!GateFails

(* r is s, or s as it turns to resume *)
LEMMA ResumeSound ==
  ASSUME NEW s, NEW i, NEW brk, Judging(s, i, brk), s.state \in {"PULLBACK", "RESUMING"},
         s.leg[Len(s.leg)].vol > 0, NEW t, NEW up,
         NEW r, r = [s EXCEPT !.state = "RESUMING"]
  PROVE  \A o \in Ride!Resume(r, i, t, up) : SoundOut(s, i, t, brk, o)
<1> DEFINE len == Len(s.leg)
           x == [r EXCEPT !.state = "PULLBACK", !.ext = len]
<1>1. s \in Machine /\ len \in Nat /\ len > 0 /\ s.ext \in Nat /\ s.ext \in 1 .. len - 1
  BY DEF Judging, Machine, Setup, Lowest
<1>2. r \in Machine /\ r.state = "RESUMING" /\ r.leg = s.leg /\ r.touch = s.touch /\ r.ext = s.ext
      /\ r.gap = s.gap /\ r.cool = s.cool /\ r.admitted = s.admitted
  BY <1>1 DEF Machine
<1>3. x \in Machine /\ x.state = "PULLBACK" /\ x.leg = s.leg /\ x.touch = s.touch /\ x.ext = len
      /\ x.gap = s.gap /\ x.cool = s.cool /\ x.admitted = s.admitted
  BY <1>1, <1>2 DEF Machine
<1>4. Ride!NewExtreme(r) = Ride!NewExtreme(s)
  BY <1>2 DEF Ride!NewExtreme
<1>5. CASE Ride!NewExtreme(s)
  <2>1. Ride!Resume(r, i, t, up) = Ride!Stay(x)
    BY <1>2, <1>4, <1>5 DEF Ride!Resume
  <2>2. Setup(x, i + 1, brk, Len(x.leg))
    BY <1>3, <1>5, ExtremeMoves DEF Judging, Setup
  <2> QED BY <1>3, <2>1, <2>2, StaySound
<1>6. CASE ~Ride!NewExtreme(s)
  <2> DEFINE sig == [st |-> Ride!Idle(r), signal |-> Ride!MayEmit(r, i, t)]
  <2>1. Lowest(s.leg, len, s.touch, s.ext) /\ s.leg[s.ext].low <= s.leg[len].low
    BY <1>6, ExtremeMoves
  <2>2. Setup(r, i + 1, brk, Len(r.leg))
    BY <1>2, <2>1 DEF Judging, Setup
  <2>3. \A o \in Ride!Stay(r) : SoundOut(s, i, t, brk, o)
    BY <1>2, <2>2, StaySound
  <2>4. Ride!Idle(r) \in Machine /\ Setup(Ride!Idle(r), i + 1, brk, Len(Ride!Idle(r).leg))
        /\ Ride!Idle(r).cool = s.cool /\ Ride!Idle(r).admitted = s.admitted
    BY <1>2, IdleFacts DEF Setup
  <2>5. \A o \in Ride!Stay(Ride!Idle(r)) : SoundOut(s, i, t, brk, o)
    BY <2>4, StaySound
  <2>6. \A g, a : Ride!AfterGate(r, g, a) \in {r, Ride!Idle(r)}
    BY DEF Ride!AfterGate
  <2>7. ASSUME len - s.ext <= ResumeMaxAge, Ride!ThinWhole(r) PROVE SoundOut(s, i, t, brk, sig)
    <3>1. Ride!MayEmit(r, i, t) = Ride!MayEmit(s, i, t) /\ Ride!MayEmit(r, i, t) \in BOOLEAN
      BY <1>2 DEF Ride!MayEmit
    <3>2. Ride!ThinTo(s.leg, s.ext)
      BY <1>2, <2>7 DEF Ride!ThinWhole
    <3>3. s.ext <= len - 1
      BY <1>1
    <3> QED BY <2>1, <2>4, <2>7, <3>1, <3>2, <3>3 DEF SoundOut, Earned
  <2>8. \A o \in Ride!Resume(r, i, t, up) :
          \/ o \in Ride!Stay(r) \/ o \in Ride!Stay(Ride!Idle(r))
          \/ o = sig /\ len - s.ext <= ResumeMaxAge /\ Ride!ThinWhole(r)
    <3>1. CASE len - s.ext > ResumeMaxAge
      BY <1>2, <1>4, <1>6, <3>1 DEF Ride!Resume
    <3>2. CASE ~(len - s.ext > ResumeMaxAge)
      <4>1. len - s.ext <= ResumeMaxAge
        BY <1>1, <3>2, RideNats
      <4>2. \A g, a : Ride!Stay(Ride!AfterGate(r, g, a)) \subseteq Ride!Stay(r) \cup Ride!Stay(Ride!Idle(r))
        BY <2>6
      <4> HIDE DEF sig
      <4>3. \A o \in Ride!Resume(r, i, t, up) :
              \/ o \in Ride!Stay(r) \/ o \in Ride!Stay(Ride!Idle(r))
              \/ \E g, a : o \in Ride!Stay(Ride!AfterGate(r, g, a))
              \/ o = sig /\ Ride!ThinWhole(r)
        <5>1. CASE ~up
          BY <1>2, <1>4, <1>6, <3>2, <5>1 DEF Ride!Resume
        <5>2. CASE up /\ ~Ride!ThinWhole(r)
          BY <1>2, <1>4, <1>6, <3>2, <5>2 DEF Ride!Resume
        <5>3. CASE up /\ Ride!ThinWhole(r)
          <6>1. Ride!Resume(r, i, t, up) = Ride!Stay(r) \cup Ride!Stay(Ride!Idle(r)) \cup (Ride!GateFails(r) \cup {sig})
            BY <1>2, <1>4, <1>6, <3>2, <5>3 DEF Ride!Resume, sig
          <6> QED BY <5>3, <6>1, GateIs
        <5> QED BY <5>1, <5>2, <5>3
      <4> QED BY <4>1, <4>2, <4>3
    <3> QED BY <3>1, <3>2
  <2> QED BY <2>3, <2>5, <2>7, <2>8
<1> QED BY <1>5, <1>6

(* A bar of the pullback moves the extreme, ends the setup, waits, or      *)
(* starts to resume.                                                       *)
LEMMA PullbackSound ==
  ASSUME NEW s, NEW i, NEW brk, Judging(s, i, brk), s.state = "PULLBACK",
         s.leg[Len(s.leg)].vol > 0, NEW t, NEW up
  PROVE  \A o \in Ride!Pullback(s, i, t, up) : SoundOut(s, i, t, brk, o)
<1> DEFINE len == Len(s.leg)
           x == [s EXCEPT !.ext = len]
           r == [s EXCEPT !.state = "RESUMING"]
<1>1. s \in Machine /\ len \in Nat
  BY DEF Judging, Machine
<1>2. x \in Machine /\ x.state = s.state /\ x.leg = s.leg /\ x.touch = s.touch /\ x.ext = len
      /\ x.gap = s.gap /\ x.cool = s.cool /\ x.admitted = s.admitted
  BY <1>1 DEF Machine
<1>3. Ride!NewExtreme(s) => Setup(x, i + 1, brk, Len(x.leg))
  BY <1>2, ExtremeMoves DEF Judging, Setup
<1>4. ~Ride!NewExtreme(s) => Setup(s, i + 1, brk, Len(s.leg))
  BY ExtremeMoves DEF Judging, Setup
<1>5. \A o \in Ride!Stay(Ride!Idle(s)) : SoundOut(s, i, t, brk, o)
  BY <1>1, IdleSound
<1>6. Ride!NewExtreme(s) => \A o \in Ride!Stay(x) : SoundOut(s, i, t, brk, o)
  BY <1>2, <1>3, StaySound
<1>7. ~Ride!NewExtreme(s) => \A o \in Ride!Stay(s) : SoundOut(s, i, t, brk, o)
  BY <1>1, <1>4, StaySound
<1>8. \A o \in Ride!Resume(r, i, t, up) : SoundOut(s, i, t, brk, o)
  BY ResumeSound
<1> HIDE DEF x, r
<1>9. \/ Ride!Pullback(s, i, t, up) = Ride!Stay(Ride!Idle(s))
      \/ Ride!Pullback(s, i, t, up) = Ride!Resume(r, i, t, up)
      \/ Ride!NewExtreme(s) /\ Ride!Pullback(s, i, t, up) = Ride!Stay(x)
      \/ ~Ride!NewExtreme(s) /\ Ride!Pullback(s, i, t, up) = Ride!Stay(s)
  <2>1. CASE len - s.touch > PullbackMax
    BY <2>1 DEF Ride!Pullback
  <2>2. CASE ~(len - s.touch > PullbackMax) /\ Ride!NewExtreme(s)
    BY <2>2 DEF Ride!Pullback, x
  <2>3. CASE ~(len - s.touch > PullbackMax) /\ ~Ride!NewExtreme(s)
    BY <2>3 DEF Ride!Pullback, r
  <2> QED BY <2>1, <2>2, <2>3
<1> QED BY <1>5, <1>6, <1>7, <1>8, <1>9

-----------------------------------------------------------------------------
(* A bar on a machine: a is the machine after the bar's gap, s has the bar *)
(* on its leg.                                                             *)
LEMMA JudgedSound ==
  ASSUME NEW s \in Machine, NEW i \in Nat, NEW brk \in Nat, NEW t \in Nat, NEW hit, NEW news \in {"NONE", "LONG", "BOTH"},
         NEW vol \in Nat, brk <= i,
         s.state # "IDLE" => /\ Judging(s, i, brk) /\ s.leg[Len(s.leg)].vol = vol
                             /\ i - 1 - RefBars >= Ride!Over(RefMinStart, s.gap)
  PROVE  LET out1 == IF vol = 0 THEN Ride!Stay(s)
                     ELSE IF t + 1 >= RideClose THEN Ride!Stay(Ride!Idle(s))
                     ELSE IF ~Ride!RefOk(s, i) THEN Ride!Stay(s)
                     ELSE IF news = "BOTH" THEN Ride!Stay(Ride!Idle(s))
                     ELSE IF news # "NONE" THEN Ride!Stay([Ride!Idle(s) EXCEPT !.state = "IMPULSE", !.side = news])
                     ELSE CASE s.state = "IDLE"     -> Ride!Stay(s)
                            [] s.state = "IMPULSE"  -> Ride!Touch(s, hit)
                            [] s.state = "PULLBACK" -> Ride!Pullback(s, i, t, hit)
                            [] s.state = "RESUMING" -> Ride!Resume(s, i, t, hit)
         IN  \A o \in out1 : SoundOut(s, i, t, brk, o) /\ (o.signal => t + 1 < RideClose)
<1> DEFINE x == [Ride!Idle(s) EXCEPT !.state = "IMPULSE", !.side = news]
<1>1. s.gap \in Int /\ Len(s.leg) \in Nat
  BY DEF Machine
<1>2. \A o \in Ride!Stay(Ride!Idle(s)) : SoundOut(s, i, t, brk, o) /\ ~o.signal
  BY IdleSound, StayIs
<1>3. s.state = "IDLE" => \A o \in Ride!Stay(s) : SoundOut(s, i, t, brk, o) /\ ~o.signal
  BY StaySound, StayIs DEF Setup
<1>4. s.state # "IDLE" => Ride!RefOk(s, i)
  <2>1. Ride!Over(RefMinStart, s.gap) \in Int /\ i - RefBars \in Int
    BY <1>1, RideNats DEF Ride!Over
  <2>2. s.state # "IDLE" => i - RefBars >= Ride!Over(RefMinStart, s.gap)
    BY <1>1, <2>1, RideNats
  <2> QED BY <2>2 DEF Ride!RefOk
<1>5. ASSUME vol = 0, s.state # "IDLE" PROVE \A o \in Ride!Stay(s) : SoundOut(s, i, t, brk, o) /\ ~o.signal
  <2>1. Judging(s, i, brk) /\ s.leg[Len(s.leg)].vol = 0 /\ Len(s.leg) > 0
    BY <1>5 DEF Judging
  <2>2. ASSUME Lowest(s.leg, Len(s.leg) - 1, s.touch, s.ext) PROVE Lowest(s.leg, Len(s.leg), s.touch, s.ext)
    BY <1>1, <2>1, <2>2 DEF Lowest
  <2>3. Setup(s, i + 1, brk, Len(s.leg))
    BY <2>1, <2>2 DEF Judging, Setup
  <2> QED BY <2>3, StaySound, StayIs
<1>6. ASSUME news = "LONG", Ride!RefOk(s, i) PROVE \A o \in Ride!Stay(x) : SoundOut(s, i, t, brk, o) /\ ~o.signal
  <2>1. <<>> \in Seq(Ride!Bar) /\ Len(<<>>) = 0
    OBVIOUS
  <2>2. x \in Machine /\ x.state = "IMPULSE" /\ x.leg = <<>> /\ x.cool = s.cool /\ x.admitted = s.admitted
        /\ x.gap = s.gap
    BY <1>6, <2>1 DEF Machine, Ride!Idle
  <2>3. i - RefBars >= Ride!Over(RefMinStart, s.gap)
    BY <1>6 DEF Ride!RefOk
  <2>4. brk <= (i + 1) - Len(x.leg) - 1
    BY <2>1, <2>2
  <2>5. (i + 1) - 1 - RefBars >= Ride!Over(RefMinStart, x.gap)
    BY <2>2, <2>3, RideNats
  <2>6. Setup(x, i + 1, brk, Len(x.leg))
    BY <2>2, <2>4, <2>5 DEF Setup
  <2> QED BY <2>2, <2>6, StaySound, StayIs
<1>7. ASSUME s.state = "IMPULSE" PROVE \A o \in Ride!Touch(s, hit) : SoundOut(s, i, t, brk, o)
  BY <1>7, TouchSound
<1>8. ASSUME s.state = "PULLBACK", vol # 0 PROVE \A o \in Ride!Pullback(s, i, t, hit) : SoundOut(s, i, t, brk, o)
  BY <1>8, PullbackSound
<1>9. ASSUME s.state = "RESUMING", vol # 0 PROVE \A o \in Ride!Resume(s, i, t, hit) : SoundOut(s, i, t, brk, o)
  <2>1. s = [s EXCEPT !.state = "RESUMING"]
    BY <1>9 DEF Machine
  <2>2. Judging(s, i, brk) /\ s.leg[Len(s.leg)].vol > 0
    BY <1>9
  <2> QED BY <1>9, <2>1, <2>2, ResumeSound
<1>10. s.state \in {"IDLE", "IMPULSE", "PULLBACK", "RESUMING"}
  BY DEF Machine
<1> DEFINE judged == CASE s.state = "IDLE"     -> Ride!Stay(s)
                       [] s.state = "IMPULSE"  -> Ride!Touch(s, hit)
                       [] s.state = "PULLBACK" -> Ride!Pullback(s, i, t, hit)
                       [] s.state = "RESUMING" -> Ride!Resume(s, i, t, hit)
<1>11. vol # 0 => \A o \in judged : SoundOut(s, i, t, brk, o)
  BY <1>3, <1>7, <1>8, <1>9, <1>10
<1> HIDE DEF judged, x
<1>12. ~(t + 1 >= RideClose) => t + 1 < RideClose
  BY RideNats
<1> QED BY <1>2, <1>3, <1>4, <1>5, <1>6, <1>11, <1>12 DEF judged, x

(* The machine with the gap before bar b seen, and b on its leg            *)
WithBar(b, gap) ==
  LET a == IF gap THEN Ride!GapSeen(rSt, rN) ELSE rSt
  IN  [a EXCEPT !.leg = IF a.state = "IDLE" THEN @ ELSE Append(@, b)]

(* A feed gap ends the setup and nothing else.                             *)
LEMMA GapFacts ==
  ASSUME RideInv
  PROVE  Ride!GapSeen(rSt, rN) \in Machine /\ Ride!GapSeen(rSt, rN).state = "IDLE" /\ Ride!GapSeen(rSt, rN).cool = rSt.cool
         /\ Ride!GapSeen(rSt, rN).admitted = rSt.admitted
<1>1. /\ Ride!Idle(rSt) \in Machine /\ Ride!Idle(rSt).state = "IDLE" /\ Ride!Idle(rSt).cool = rSt.cool
      /\ Ride!Idle(rSt).admitted = rSt.admitted
  BY IdleFacts DEF RideInv
<1>2. rN \in Int
  BY DEF RideInv
<1> QED BY <1>1, <1>2 DEF Ride!GapSeen, Machine

(* The bar is on the leg of a setup that had no gap.                       *)
LEMMA WithBarIs ==
  ASSUME RideInv, NEW b \in Ride!Bar, NEW gap \in BOOLEAN
  PROVE  LET s == WithBar(b, gap)
         IN  /\ s \in Machine /\ s.cool = rSt.cool /\ s.admitted = rSt.admitted
             /\ s.state # "IDLE" =>
                  /\ ~gap /\ s.leg = Append(rSt.leg, b) /\ s.touch = rSt.touch /\ s.ext = rSt.ext /\ s.gap = rSt.gap
                  /\ s.state = rSt.state
<1> DEFINE a == IF gap THEN Ride!GapSeen(rSt, rN) ELSE rSt
           s == WithBar(b, gap)
<1>1. a \in Machine /\ a.cool = rSt.cool /\ a.admitted = rSt.admitted /\ (a.state # "IDLE" => ~gap /\ a = rSt)
  BY GapFacts DEF RideInv
<1>2. s = [a EXCEPT !.leg = IF a.state = "IDLE" THEN a.leg ELSE Append(a.leg, b)]
  BY DEF WithBar
<1> HIDE DEF a, s
<1>3. a.leg \in Seq(Ride!Bar) /\ Append(a.leg, b) \in Seq(Ride!Bar)
  BY <1>1 DEF Machine
<1>4. s \in Machine /\ s.state = a.state /\ s.cool = a.cool /\ s.admitted = a.admitted /\ s.touch = a.touch
      /\ s.ext = a.ext /\ s.gap = a.gap /\ (a.state # "IDLE" => s.leg = Append(a.leg, b))
  BY <1>1, <1>2, <1>3 DEF Machine
<1> QED BY <1>1, <1>4 DEF s

(* And that setup is as the invariant says, up to this bar.                *)
LEMMA WithBarJudged ==
  ASSUME RideInv, NEW b \in Ride!Bar, NEW gap \in BOOLEAN, WithBar(b, gap).state # "IDLE"
  PROVE  LET s == WithBar(b, gap)
         IN  /\ Judging(s, rN, rBroken) /\ s.leg[Len(s.leg)].vol = b.vol
             /\ rN - 1 - RefBars >= Ride!Over(RefMinStart, s.gap)
<1> DEFINE s == WithBar(b, gap)  m == Len(rSt.leg)
<1>1. s \in Machine /\ s.leg = Append(rSt.leg, b) /\ s.touch = rSt.touch /\ s.ext = rSt.ext /\ s.gap = rSt.gap
      /\ s.state = rSt.state /\ s.state # "IDLE"
  BY WithBarIs
<1>2. rSt.leg \in Seq(Ride!Bar) /\ m \in Nat /\ rN \in Nat /\ rBroken \in Nat /\ rSt.gap \in Int
  BY DEF RideInv, Machine
<1>3. Len(s.leg) = m + 1 /\ s.leg[m + 1] = b /\ \A k \in 1 .. m : s.leg[k] = rSt.leg[k]
  BY <1>1, <1>2
<1>4. /\ rBroken <= rN - m - 1 /\ rN - 1 - RefBars >= Ride!Over(RefMinStart, rSt.gap)
      /\ rSt.state \in {"PULLBACK", "RESUMING"} => Lowest(rSt.leg, m, rSt.touch, rSt.ext)
  BY <1>1 DEF RideInv, Setup
<1> HIDE DEF s, m
<1>5. rSt.state \in {"PULLBACK", "RESUMING"} => Lowest(s.leg, m, s.touch, s.ext)
  BY <1>1, <1>3, <1>4 DEF Lowest
<1>6. Ride!Over(RefMinStart, rSt.gap) \in Int
  BY <1>2, RideNats DEF Ride!Over
<1>7. Setup(s, rN + 1, rBroken, Len(s.leg) - 1)
  <2>1. rBroken <= (rN + 1) - Len(s.leg) - 1
    BY <1>2, <1>3, <1>4
  <2>2. (rN + 1) - 1 - RefBars >= Ride!Over(RefMinStart, s.gap)
    BY <1>1, <1>2, <1>4, <1>6, RideNats
  <2>3. Len(s.leg) - 1 = m
    BY <1>2, <1>3
  <2> QED BY <1>1, <1>5, <2>1, <2>2, <2>3 DEF Setup
<1>8. Len(s.leg) > 0 /\ s.leg[Len(s.leg)].vol = b.vol
  BY <1>2, <1>3
<1> QED BY <1>1, <1>2, <1>4, <1>7, <1>8 DEF Judging, s

(* Every outcome of a bar is sound.                                        *)
LEMMA BarSound ==
  ASSUME RideInv, NEW b \in Ride!Bar, NEW t \in Nat, NEW gap \in BOOLEAN, NEW news \in {"NONE", "LONG", "BOTH"},
         NEW hit, NEW o \in Ride!Evaluated(rSt, rN, t, b, gap, news, hit)
  PROVE  /\ SoundOut(WithBar(b, gap), rN, t, IF gap THEN rN ELSE rBroken, o)
         /\ o.signal => t + 1 < RideClose
<1> DEFINE s == WithBar(b, gap)  brk == IF gap THEN rN ELSE rBroken
<1>1. s \in Machine /\ (s.state # "IDLE" => ~gap)
  BY WithBarIs
<1>2. brk \in Nat /\ rN \in Nat /\ brk <= rN /\ b.vol \in Nat
  <2>1. rN \in Nat /\ rBroken \in Nat /\ rBroken <= rN
    BY DEF RideInv
  <2>2. \A x \in Ride!Bar : x.vol \in Nat
    BY RideNats DEF Ride!Bar
  <2> QED BY <2>1, <2>2
<1>3. s.state # "IDLE" =>
        Judging(s, rN, brk) /\ s.leg[Len(s.leg)].vol = b.vol /\ rN - 1 - RefBars >= Ride!Over(RefMinStart, s.gap)
  BY <1>1, WithBarJudged
<1>4. Ride!Evaluated(rSt, rN, t, b, gap, news, hit) =
        IF b.vol = 0 THEN Ride!Stay(s)
        ELSE IF t + 1 >= RideClose THEN Ride!Stay(Ride!Idle(s))
        ELSE IF ~Ride!RefOk(s, rN) THEN Ride!Stay(s)
        ELSE IF news = "BOTH" THEN Ride!Stay(Ride!Idle(s))
        ELSE IF news # "NONE" THEN Ride!Stay([Ride!Idle(s) EXCEPT !.state = "IMPULSE", !.side = news])
        ELSE CASE s.state = "IDLE"     -> Ride!Stay(s)
               [] s.state = "IMPULSE"  -> Ride!Touch(s, hit)
               [] s.state = "PULLBACK" -> Ride!Pullback(s, rN, t, hit)
               [] s.state = "RESUMING" -> Ride!Resume(s, rN, t, hit)
  BY Zenon DEF Ride!Evaluated, WithBar
<1> HIDE DEF s, brk
<1>5. SoundOut(s, rN, t, brk, o) /\ (o.signal => t + 1 < RideClose)
  BY <1>1, <1>2, <1>3, <1>4, JudgedSound
<1> QED BY <1>5 DEF s, brk

(* The evidence of a signal on bar b is what the property asks for.        *)
LEMMA SignalSound ==
  ASSUME RideInv, NEW b \in Ride!Bar, NEW wait \in Nat, NEW o, o.signal,
         LET s == WithBar(b, wait > 0)
         IN SoundOut(s, rN, rClock + wait, IF wait > 0 THEN rN ELSE rBroken, o),
         rClock + wait + 1 < RideClose
  PROVE  LET e == Ride!Evidence(b)  len == Len(e.leg)
         IN  /\ e.ext # 0 /\ e.from >= rBroken /\ wait = 0
             /\ \A k \in 1 .. len : (k <= e.touch \/ e.leg[k].vol > 0) => e.leg[e.ext].low <= e.leg[k].low
             /\ len - e.ext \in 1 .. ResumeMaxAge /\ Ride!ThinTo(e.leg, e.ext) /\ e.at + 1 \in RideOpen .. RideClose - 1
             /\ e.prev # Ride!None => e.i - e.prev > Cooldown
<1> DEFINE s == WithBar(b, wait > 0)  m == Len(rSt.leg)
<1>1. Earned(s, rN, rClock + wait, o)
  BY DEF SoundOut
<1>2. /\ s.state \in {"PULLBACK", "RESUMING"} /\ s.ext <= Len(s.leg) - 1 /\ Len(s.leg) - s.ext <= ResumeMaxAge
      /\ s.leg[s.ext].low <= s.leg[Len(s.leg)].low
      /\ Ride!ThinTo(s.leg, s.ext) /\ Ride!MayEmit(s, rN, rClock + wait)
  BY <1>1 DEF Earned
<1>0. (wait > 0) \in BOOLEAN /\ s.state # "IDLE"
  BY <1>2
<1>3. /\ ~(wait > 0) /\ s.leg = Append(rSt.leg, b) /\ s.touch = rSt.touch /\ s.ext = rSt.ext
      /\ s.cool = rSt.cool /\ s.admitted = rSt.admitted /\ s \in Machine
  BY <1>0, WithBarIs
<1>4. Judging(s, rN, rBroken)
  BY <1>0, WithBarJudged
<1> HIDE DEF s
<1>5. wait = 0
  BY <1>3
<1>6. rSt.leg \in Seq(Ride!Bar) /\ m \in Nat /\ Len(s.leg) = m + 1 /\ rN \in Nat /\ rClock \in Nat /\ rLast \in Int
      /\ rSt.cool \in Int /\ rSt.admitted \in Nat /\ rBroken \in Nat /\ Budgeted(rSt, rLast)
  BY <1>3 DEF RideInv, Machine
<1> HIDE DEF m
<1>7. Lowest(s.leg, m, s.touch, s.ext) /\ rBroken <= rN - m - 1
  <2>1. Lowest(s.leg, Len(s.leg) - 1, s.touch, s.ext) /\ rBroken <= (rN + 1) - Len(s.leg) - 1
    BY <1>2, <1>4 DEF Judging, Setup
  <2>2. Len(s.leg) - 1 = m /\ (rN + 1) - Len(s.leg) - 1 = rN - m - 1
    BY <1>6
  <2> QED BY <2>1, <2>2
<1>8. s.ext \in 1 .. m /\ s.touch \in 1 .. m
  BY <1>7 DEF Lowest
<1>9. \A k \in 1 .. Len(s.leg) : (k <= s.touch \/ s.leg[k].vol > 0) => s.leg[s.ext].low <= s.leg[k].low
  <2> SUFFICES ASSUME NEW k \in 1 .. Len(s.leg), k <= s.touch \/ s.leg[k].vol > 0
               PROVE  s.leg[s.ext].low <= s.leg[k].low
    OBVIOUS
  <2>1. k \in 1 .. m \/ k = Len(s.leg)
    BY <1>6
  <2> QED BY <1>2, <1>7, <2>1 DEF Lowest
<1>10. Len(s.leg) - s.ext \in 1 .. ResumeMaxAge
  <2>1. Len(s.leg) - s.ext <= ResumeMaxAge
    BY <1>2
  <2>2. ResumeMaxAge \in Nat
    BY RideNats
  <2> QED BY <1>6, <1>8, <2>1, <2>2
<1>11. rClock + 1 >= RideOpen /\ rN > rSt.cool /\ rSt.admitted < MaxSignals /\ rClock + 1 < RideClose
  <2>1. rClock + wait = rClock
    BY <1>5, <1>6
  <2> QED BY <1>2, <1>3, <2>1 DEF Ride!MayEmit
<1>12. rLast # Ride!None => rN - rLast > Cooldown
  <2>1. Cooldown \in Nat /\ MaxSignals \in Nat
    BY RideNats
  <2>2. rLast # Ride!None => rLast + Cooldown <= rSt.cool
    BY <1>6, <1>11, <2>1 DEF Budgeted
  <2> QED BY <1>6, <1>11, <2>1, <2>2
<1>13. rN - m - 1 >= rBroken
  BY <1>6, <1>7
<1>14. rClock + 1 \in RideOpen .. RideClose - 1
  <2>1. RideOpen \in Nat /\ RideClose \in Nat
    BY RideNats
  <2> QED BY <1>6, <1>11, <2>1
<1> DEFINE e == Ride!Evidence(b)
<1>15. e.leg = s.leg /\ e.ext = s.ext /\ e.touch = s.touch /\ e.from = rN - m - 1 /\ e.i = rN /\ e.prev = rLast
       /\ e.at = rClock
  BY <1>3 DEF Ride!Evidence, m
<1> HIDE DEF e
<1>16. /\ e.ext # 0 /\ e.from >= rBroken /\ wait = 0
       /\ \A k \in 1 .. Len(e.leg) : (k <= e.touch \/ e.leg[k].vol > 0) => e.leg[e.ext].low <= e.leg[k].low
       /\ Len(e.leg) - e.ext \in 1 .. ResumeMaxAge /\ Ride!ThinTo(e.leg, e.ext) /\ e.at + 1 \in RideOpen .. RideClose - 1
       /\ e.prev # Ride!None => e.i - e.prev > Cooldown
  BY <1>2, <1>5, <1>8, <1>9, <1>10, <1>12, <1>13, <1>14, <1>15
<1> QED BY <1>16 DEF e

(* A fresh machine is idle.                                                *)
LEMMA RideStarts == ASSUME Ride!Init PROVE RideInv
<1>1. <<>> \in Seq(Ride!Bar) /\ Len(<<>>) = 0
  OBVIOUS
<1>2. Ride!Fresh \in Machine /\ Ride!Fresh.state = "IDLE" /\ Ride!Fresh.admitted = 0
  BY <1>1 DEF Ride!Fresh, Machine, Ride!None
<1>3. Setup(rSt, rN, rBroken, Len(rSt.leg)) /\ Ride!SignalIsEarned
  BY <1>2 DEF Ride!Init, Setup, Ride!SignalIsEarned, Ride!NoSignal
<1>4. Budgeted(rSt, rLast)
  BY <1>2, RideNats DEF Ride!Init, Budgeted
<1>5. rN \in Nat /\ rClock \in Nat /\ rBroken \in Nat /\ rBroken <= rN /\ rLast \in Int /\ rSt \in Machine
  BY <1>2 DEF Ride!Init, Ride!None
<1> QED BY <1>3, <1>4, <1>5 DEF RideInv

(* What an admitted signal does to the machine it left                     *)
LEMMA AdmittedIs ==
  ASSUME NEW x \in Machine, NEW i \in Nat
  PROVE  LET a == Ride!Admitted(x, i)
         IN  /\ a \in Machine /\ a.state = x.state /\ a.leg = x.leg /\ a.touch = x.touch /\ a.ext = x.ext
             /\ a.gap = x.gap /\ a.admitted = x.admitted + 1 /\ a.cool \in Int /\ i + Cooldown <= a.cool
<1>1. x.cool \in Int /\ x.admitted \in Nat /\ Cooldown \in Nat
  BY RideNats DEF Machine
<1>2. Ride!Over(x.cool, i + Cooldown) \in Int /\ i + Cooldown <= Ride!Over(x.cool, i + Cooldown)
  BY <1>1 DEF Ride!Over
<1> DEFINE c == Ride!Over(x.cool, i + Cooldown)
<1>3. Ride!Admitted(x, i) = [x EXCEPT !.admitted = x.admitted + 1, !.cool = c]
  BY DEF Ride!Admitted
<1> HIDE DEF c
<1>4. x.admitted + 1 \in Nat
  BY <1>1
<1> QED BY <1>2, <1>3, <1>4 DEF Machine, c

(* A bar keeps the invariant, whether its signal is admitted or not.       *)
LEMMA RideBar ==
  ASSUME RideInv, NEW b \in Ride!Bar, NEW wait \in {0, FeedGap}, NEW news \in {"NONE", "LONG", "BOTH"},
         NEW hit \in BOOLEAN, Ride!OnBar(b, wait, news, hit)
  PROVE  RideInv'
<1>1. PICK o \in Ride!Evaluated(rSt, rN, rClock + wait, b, wait > 0, news, hit), admit \in BOOLEAN :
        /\ admit => o.signal
        /\ rSt' = IF admit THEN Ride!Admitted(o.st, rN) ELSE o.st
        /\ rLast' = IF admit THEN rN ELSE rLast
        /\ rOut' = IF o.signal THEN Ride!Evidence(b) ELSE Ride!NoSignal
  BY DEF Ride!OnBar
<1> DEFINE brk == IF wait > 0 THEN rN ELSE rBroken
           s == WithBar(b, wait > 0)
<1>2. wait \in Nat /\ (wait > 0) \in BOOLEAN
  BY RideNats
<1>3. rN \in Nat /\ rClock \in Nat /\ rBroken \in Nat /\ rBroken <= rN /\ rLast \in Int /\ Budgeted(rSt, rLast)
      /\ MaxSignals \in Nat /\ rSt.admitted \in Nat /\ rSt.cool \in Int
  BY RideNats DEF RideInv, Machine
<1>4. rClock' = rClock + 1 + wait /\ rN' = rN + 1 /\ rBroken' = brk
  BY DEF Ride!OnBar
<1>5. rClock + wait \in Nat
  BY <1>2, <1>3
<1>6. SoundOut(s, rN, rClock + wait, brk, o) /\ (o.signal => rClock + wait + 1 < RideClose)
  BY <1>1, <1>2, <1>5, BarSound
<1>7. s.cool = rSt.cool /\ s.admitted = rSt.admitted
  BY <1>2, WithBarIs
<1>8. o.st \in Machine /\ Setup(o.st, rN + 1, brk, Len(o.st.leg)) /\ o.st.cool = rSt.cool
      /\ o.st.admitted = rSt.admitted
  BY <1>6, <1>7 DEF SoundOut
<1>9. o.signal => rSt.admitted < MaxSignals
  BY <1>6, <1>7 DEF SoundOut, Earned, Ride!MayEmit
<1>10. rSt' \in Machine /\ Setup(rSt', rN', rBroken', Len(rSt'.leg))
  <2>1. CASE admit
    <3>1. Setup(Ride!Admitted(o.st, rN), rN + 1, brk, Len(Ride!Admitted(o.st, rN).leg))
      BY <1>3, <1>8, AdmittedIs DEF Setup
    <3> QED BY <1>1, <1>3, <1>4, <1>8, <2>1, <3>1, AdmittedIs
  <2>2. CASE ~admit
    BY <1>1, <1>4, <1>8, <2>2
  <2> QED BY <2>1, <2>2
<1>11. Budgeted(rSt', rLast') /\ rLast' \in Int /\ rSt'.admitted <= MaxSignals
  <2>1. CASE admit
    <3>1. rSt'.admitted = rSt.admitted + 1 /\ rSt'.cool \in Int /\ rN + Cooldown <= rSt'.cool /\ rLast' = rN
      <4>1. rSt' = Ride!Admitted(o.st, rN) /\ rLast' = rN /\ o.st \in Machine /\ o.st.admitted = rSt.admitted /\ rN \in Nat
        BY <1>1, <1>3, <1>8, <2>1
      <4> QED BY <4>1, AdmittedIs
    <3>2. rSt.admitted < MaxSignals
      BY <1>1, <1>9, <2>1
    <3> QED BY <1>3, <3>1, <3>2 DEF Budgeted
  <2>2. CASE ~admit
    BY <1>1, <1>3, <1>8, <2>2 DEF Budgeted
  <2> QED BY <2>1, <2>2
<1>12. rN' \in Nat /\ rClock' \in Nat /\ rBroken' \in Nat /\ rBroken' <= rN'
  BY <1>2, <1>3, <1>4
<1>13. Ride!SignalIsEarned'
  <2>1. CASE ~o.signal
    BY <1>1, <2>1 DEF Ride!SignalIsEarned, Ride!NoSignal
  <2>2. CASE o.signal
    <3> DEFINE e == Ride!Evidence(b)
    <3>1. /\ e.ext # 0 /\ e.from >= rBroken /\ wait = 0
          /\ \A k \in 1 .. Len(e.leg) : (k <= e.touch \/ e.leg[k].vol > 0) => e.leg[e.ext].low <= e.leg[k].low
          /\ Len(e.leg) - e.ext \in 1 .. ResumeMaxAge /\ Ride!ThinTo(e.leg, e.ext)
          /\ e.at + 1 \in RideOpen .. RideClose - 1 /\ (e.prev # Ride!None => e.i - e.prev > Cooldown)
      BY <1>2, <1>6, <2>2, SignalSound
    <3>2. rBroken' = rBroken
      BY <1>4, <3>1
    <3>3. rOut' = e
      BY <1>1, <2>2
    <3> HIDE DEF e
    <3> QED BY <1>11, <3>1, <3>2, <3>3 DEF Ride!SignalIsEarned
  <2> QED BY <1>6, <2>1, <2>2 DEF SoundOut
<1> QED BY <1>10, <1>11, <1>12, <1>13 DEF RideInv

(* A restart ends the setup, and keeps the budget or leaves none.          *)
LEMMA RideRestart == ASSUME RideInv, Ride!Restart PROVE RideInv'
<1>1. rN' = rN /\ rClock' = rClock /\ rLast' = rLast /\ rBroken' = rN /\ rOut' = Ride!NoSignal
      /\ rSt' \in {Ride!Idle(rSt), Ride!NotRebuilt}
  BY DEF Ride!Restart, Ride!Rebuilt
<1>2. rN \in Nat /\ rClock \in Nat /\ rLast \in Int /\ rSt \in Machine /\ Budgeted(rSt, rLast) /\ MaxSignals \in Nat
  BY RideNats DEF RideInv
<1>3. <<>> \in Seq(Ride!Bar)
  OBVIOUS
<1>4. Ride!NotRebuilt \in Machine /\ Ride!NotRebuilt.state = "IDLE" /\ Ride!NotRebuilt.admitted = MaxSignals
  <2>1. Ride!Fresh \in Machine /\ Ride!Fresh.state = "IDLE"
    BY <1>3 DEF Ride!Fresh, Machine, Ride!None
  <2> QED BY <1>2, <2>1 DEF Ride!NotRebuilt, Machine
<1>5. Ride!Idle(rSt) \in Machine /\ Ride!Idle(rSt).state = "IDLE" /\ Budgeted(Ride!Idle(rSt), rLast)
  BY <1>2, IdleFacts DEF Budgeted
<1>6. Budgeted(Ride!NotRebuilt, rLast)
  BY <1>2, <1>4 DEF Budgeted
<1>7. rSt' \in Machine /\ rSt'.state = "IDLE" /\ Budgeted(rSt', rLast)
  BY <1>1, <1>4, <1>5, <1>6
<1>8. Ride!SignalIsEarned'
  BY <1>1 DEF Ride!SignalIsEarned, Ride!NoSignal
<1> QED BY <1>1, <1>2, <1>7, <1>8 DEF RideInv, Setup

(* Every step keeps the invariant,                                         *)
LEMMA RideStep == ASSUME RideInv, Ride!Next PROVE RideInv'
BY RideBar, RideRestart DEF Ride!Next

(* and so does a step of the others.                                       *)
LEMMA RideStays == ASSUME RideInv, UNCHANGED Ride!vars PROVE RideInv'
BY DEF RideInv, Ride!vars, Ride!SignalIsEarned, Setup, Budgeted

-----------------------------------------------------------------------------
(* A session                                                               *)

(* The invariant of the part at work.                                      *)
SessionInv ==
  /\ turn = "filters" => TrendInv
  /\ turn = "vix"     => VixInv
  /\ turn = "news"    => NewsInv
  /\ turn = "ride"    => RideInv

(* Every part starts in its own invariant.                                 *)
LEMMA SessionsStart == ASSUME SessionsInit PROVE SessionInv
<1>1. turn = "filters" => TrendInv
  BY TrendStarts DEF SessionsInit
<1>2. turn = "vix" => VixInv
  BY VixStarts DEF SessionsInit
<1>3. turn = "news" => NewsInv
  BY NewsStarts DEF SessionsInit
<1>4. turn = "ride" => RideInv
  BY RideStarts DEF SessionsInit
<1> QED BY <1>1, <1>2, <1>3, <1>4 DEF SessionInv

(* A step of one part is a step of that part's own specification, and the  *)
(* others stay off.                                                        *)
LEMMA SessionsStep == ASSUME SessionInv, PartsNext \/ UNCHANGED sessionVars PROVE SessionInv'
<1>1. CASE UNCHANGED sessionVars
  <2>1. /\ UNCHANGED turn
        /\ UNCHANGED Trend!vars /\ UNCHANGED Vix!vars /\ UNCHANGED News!vars /\ UNCHANGED Ride!vars
    BY <1>1 DEF sessionVars, trendVars, vixVars, newsVars, rideVars, Trend!vars, Vix!vars, News!vars, Ride!vars
  <2>2. turn = "filters" => TrendInv'
    BY <2>1, TrendStep DEF SessionInv
  <2>3. turn = "vix" => VixInv'
    BY <2>1, VixStep DEF SessionInv
  <2>4. turn = "news" => NewsInv'
    BY <2>1, NewsStep DEF SessionInv
  <2>5. turn = "ride" => RideInv'
    BY <2>1, RideStays DEF SessionInv
  <2> QED BY <2>1, <2>2, <2>3, <2>4, <2>5 DEF SessionInv
<1>2. CASE InClose(Next)
  BY <1>2 DEF InClose, SessionInv
<1>3. CASE InTrend(Trend!Next)
  <2>1. turn' = "filters" /\ TrendInv'
    BY <1>3, TrendStep DEF InTrend, SessionInv
  <2> QED BY <2>1 DEF SessionInv
<1>4. CASE InVix(Vix!Next)
  <2>1. turn' = "vix" /\ VixInv'
    BY <1>4, VixStep DEF InVix, SessionInv
  <2> QED BY <2>1 DEF SessionInv
<1>5. CASE InNews(News!Next)
  <2>1. turn' = "news" /\ NewsInv'
    BY <1>5, NewsStep DEF InNews, SessionInv
  <2> QED BY <2>1 DEF SessionInv
<1>6. CASE InRide(Ride!Next)
  <2>1. turn' = "ride" /\ RideInv'
    BY <1>6, RideStep DEF InRide, SessionInv
  <2> QED BY <2>1 DEF SessionInv
<1> QED BY <1>1, <1>2, <1>3, <1>4, <1>5, <1>6 DEF PartsNext

(* An entry is earned by what the market did, whatever came late, was lost *)
(* or restarted: the filters read the tape, a size above neutral has a     *)
(* fresh index behind it, a headline acts once and a signal to ride the    *)
(* trend had its pullback.                                                 *)
THEOREM EntriesEarned == SessionsSpec => []EntriesAreEarned
<1>1. SessionInv /\ [PartsNext]_sessionVars => SessionInv'
  BY SessionsStep
<1>2. SessionInv => EntriesAreEarned
  BY VixFresh, NewsActs DEF SessionInv, EntriesAreEarned, TrendInv, RideInv
<1> QED BY <1>1, <1>2, SessionsStart, PTL DEF SessionsSpec
=============================================================================
