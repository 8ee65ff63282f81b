--------------------------- MODULE BracketProofs ---------------------------
(* Theorems about BracketLifecycle, for every value of its constants.      *)
EXTENDS BracketLifecycle, TLAPS

-----------------------------------------------------------------------------
(* The operators the actions are built from stay inside their types.       *)

(* The order ids of a bracket, and the empty records, have their types.    *)
LEMMA OrderKinds ==
  /\ \A b \in Brackets : Entry(b) \in Orders /\ Stop(b) \in Orders /\ T1(b) \in Orders
                         /\ T2(b) \in Orders /\ Children(b) \subseteq Orders
  /\ Exits \subseteq Orders
  /\ NoOrder \in Order
  /\ NoBracket \in Bracket
BY BoundsAssumption DEF Entry, Stop, T1, T2, Children, Orders, Legs, Kinds, NoOrder, Order,
   OrderStates, NoBracket, Bracket, BracketStates, Runners

(* engine.cancel_order over a set of orders leaves an order book.          *)
LEMMA CancelType ==
  ASSUME NEW f \in [Orders -> Order], NEW S
  PROVE  Cancel(f, S) \in [Orders -> Order]
BY OrderKinds DEF Cancel, Order, OrderStates, NoOrder

(* Resizing a working child leaves an order book.                          *)
LEMMA ResizeType ==
  ASSUME NEW f \in [Orders -> Order], NEW o \in Orders, NEW q \in Nat
  PROVE  Resize(f, o, q) \in [Orders -> Order]
BY DEF Resize, Order

(* max(1, n // 2) is a share count of 1 to n: target 2 is never negative.  *)
LEMMA HalveType ==
  ASSUME NEW n \in Nat \ {0}
  PROVE  Halve(n) \in 1 .. n
BY DEF Halve

(* Scaling a target by r / n never exceeds r: the other target's share,    *)
(* what is left of r, is not negative.                                     *)
LEMMA ScaledShare ==
  ASSUME NEW a \in Nat, NEW n \in Nat \ {0}, NEW r \in Nat, a <= n
  PROVE  (a * r) \div n \in 0 .. r
<1>1. a * r <= n * r
  OBVIOUS
<1>2. a * r >= 0 /\ a * r \in Nat
  OBVIOUS
<1> DEFINE d == (a * r) \div n
<1>3. d \in Int /\ n * d <= a * r /\ a * r < n * (d + 1)
  BY <1>2
<1>4. d >= 0
  <2>1. SUFFICES ASSUME d < 0 PROVE FALSE
    BY <1>3
  <2>2. d + 1 <= 0
    BY <2>1, <1>3
  <2>3. n * (d + 1) <= 0
    BY <2>2, <1>3
  <2> QED BY <2>3, <1>2, <1>3
<1>5. d <= r
  <2>1. SUFFICES ASSUME d >= r + 1 PROVE FALSE
    BY <1>3
  <2>2. n * d >= n * (r + 1)
    BY <2>1, <1>3
  <2>3. n * (r + 1) = n * r + n
    OBVIOUS
  <2> QED BY <2>2, <2>3, <1>1, <1>2, <1>3
<1> QED BY <1>3, <1>4, <1>5

-----------------------------------------------------------------------------
(* Type correctness.                                                       *)

(* A simulator fill keeps the order book, the batch and the position typed. *)
LEMMA FillNowType ==
  ASSUME TypeOK, NEW o \in Orders, NEW cap \in Nat, FillNow(o, cap)
  PROVE  /\ pos' \in Int
         /\ ord' \in [Orders -> Order]
         /\ pend' \in [Orders -> Nat]
<1> DEFINE q == IF cap = NoCap THEN ord[o].rem ELSE Smaller(ord[o].rem, cap)
<1>1. ord[o] \in Order /\ ord[o].rem \in Nat
  BY DEF TypeOK, Order
<1>2. q \in 0 .. ord[o].rem
  BY <1>1 DEF Smaller, NoCap
<1>3. Filled(ord[o], q) \in Order
  BY <1>1, <1>2 DEF Filled, Order, OrderStates
<1> QED BY <1>2, <1>3 DEF FillNow, TypeOK

(* Taking the next fill of a batch: it has shares, and the rest is a batch. *)
LEMMA TakePieceType ==
  ASSUME TypeOK, NEW o \in Orders, NEW q, TakePiece(o, q)
  PROVE  /\ pend' \in [Orders -> Nat]
         /\ phase' \in {"idle", "match", "sell", "reconcile"}
         /\ room' \in Nat
         /\ pend[o] \in Nat \ {0}
         /\ q \in Nat \ {0}
<1>1. pend[o] \in Nat /\ q \in Nat \ {0} /\ q <= pend[o]
  BY DEF TakePiece, TypeOK
<1>2. pend' \in [Orders -> Nat]
  BY <1>1 DEF TakePiece, TypeOK
<1> QED BY <1>1, <1>2 DEF TakePiece, TypeOK, NoCap

LEMMA TakeFillType ==
  ASSUME TypeOK, NEW o \in Orders, TakeFill(o)
  PROVE  /\ pend' \in [Orders -> Nat]
         /\ phase' \in {"idle", "match", "sell", "reconcile"}
         /\ room' \in Nat
         /\ pend[o] \in Nat \ {0}
BY TakePieceType DEF TakeFill

(* Tallying and writing a trade row keep the tallies share counts.         *)
LEMMA TradeType ==
  ASSUME NEW t \in [Brackets -> [out : Nat, rec : Nat, done : BOOLEAN]],
         NEW b \in Brackets, NEW q \in Nat
  PROVE  /\ Tally(t, b, q) \in [Brackets -> [out : Nat, rec : Nat, done : BOOLEAN]]
         /\ Record(t, b) \in [Brackets -> [out : Nat, rec : Nat, done : BOOLEAN]]
BY DEF Tally, Record

(* _release_dead_entry_brackets keeps brackets and linkage typed.          *)
LEMMA ReleaseDeadType ==
  ASSUME TypeOK, NEW f \in [Orders -> Order], ReleaseDead(f)
  PROVE  /\ br' \in [Brackets -> Bracket]
         /\ mapped' \in SUBSET Brackets
         /\ entryMap' \in SUBSET Brackets
         /\ symBr' \in Brackets \cup {None}
BY DEF ReleaseDead, TypeOK, Bracket, BracketStates, None

(* _flatten_symbol keeps the order book, the batch and the position typed. *)
LEMMA LiquidateType ==
  ASSUME TypeOK, NEW f \in [Orders -> Order], NEW x \in Exits,
         NEW b \in Brackets \cup {None}, Liquidate(f, x, b)
  PROVE  /\ pos' \in Int
         /\ ord' \in [Orders -> Order]
         /\ xpar' \in [Exits -> Brackets \cup {None}]
         /\ pend' \in [Orders -> Nat]
         /\ phase' \in {"idle", "match", "sell", "reconcile"}
         /\ room' \in Nat
<1>1. CASE pos = 0
  BY <1>1 DEF Liquidate, TypeOK
<1>2. CASE pos # 0
  <2> DEFINE n == IF pos > 0 THEN pos ELSE -pos
  <2>1. n \in Nat
    BY DEF TypeOK
  <2>2. PICK k \in 0 .. n :
          /\ ord' = [f EXCEPT ![x] = IF k = 0 THEN Accepted(n) ELSE Filled(Accepted(n), k)]
          /\ pend' = [pend EXCEPT ![x] = k]
          /\ pos' = IF pos > 0 THEN pos - k ELSE pos + k
          /\ phase' = IF k = 0 THEN "idle" ELSE "sell"
    BY <1>2 DEF Liquidate
  <2>3. xpar' = [xpar EXCEPT ![x] = b] /\ room' = NoCap
    BY <1>2 DEF Liquidate
  <2>4. Accepted(n) \in Order /\ Filled(Accepted(n), k) \in Order
    BY <2>1, <2>2 DEF Accepted, Filled, Order, OrderStates
  <2>5. pos' \in Int /\ phase' \in {"idle", "match", "sell", "reconcile"}
    BY <2>2 DEF TypeOK
  <2>6. ord' \in [Orders -> Order]
    BY <2>2, <2>4
  <2> HIDE DEF n
  <2> QED BY <2>2, <2>3, <2>5, <2>6, OrderKinds DEF TypeOK, NoCap
<1> QED BY <1>1, <1>2

(* _record_exit_fill keeps brackets, linkage and tallies typed.            *)
LEMMA ExitFillType ==
  ASSUME TypeOK, NEW o \in Orders, NEW b \in Brackets \cup {None}, NEW q \in Nat,
         ExitFill(o, b, q)
  PROVE  /\ br' \in [Brackets -> Bracket]
         /\ symBr' \in Brackets \cup {None}
         /\ trade' \in [Brackets -> [out : Nat, rec : Nat, done : BOOLEAN]]
<1>1. CASE b = None
  BY <1>1 DEF ExitFill, TypeOK
<1>2. CASE b # None
  <2>1. b \in Brackets
    BY <1>2
  <2>2. /\ Tally(trade, b, q) \in [Brackets -> [out : Nat, rec : Nat, done : BOOLEAN]]
        /\ Record(Tally(trade, b, q), b) \in [Brackets -> [out : Nat, rec : Nat, done : BOOLEAN]]
    BY <2>1, TradeType DEF TypeOK
  <2>3. [br EXCEPT ![b].st = "COMPLETED_FLATTEN"] \in [Brackets -> Bracket]
    BY <2>1 DEF TypeOK, Bracket, BracketStates
  <2>4. None \in Brackets \cup {None}
    OBVIOUS
  <2>5. br \in [Brackets -> Bracket] /\ symBr \in Brackets \cup {None}
        /\ trade \in [Brackets -> [out : Nat, rec : Nat, done : BOOLEAN]]
    BY DEF TypeOK
  <2>6. CASE br[b].st \in {"NONE", "CLEARED"}
    BY <2>5, <2>6 DEF ExitFill
  <2>7. CASE br[b].st \notin {"NONE", "CLEARED"} /\ ord[o].st = "FILLED"
    BY <1>2, <2>2, <2>3, <2>4, <2>7 DEF ExitFill
  <2>8. CASE br[b].st \notin {"NONE", "CLEARED"} /\ ord[o].st # "FILLED"
    BY <1>2, <2>2, <2>5, <2>8 DEF ExitFill
  <2> QED BY <2>6, <2>7, <2>8
<1> QED BY <1>1, <1>2

(* A fill of a child whose bracket is gone keeps every type.               *)
LEMMA LateChildType ==
  ASSUME TypeOK, NEW o \in Orders, NEW b \in Brackets, NEW q \in Nat, LateChild(o, b, q)
  PROVE  /\ br' \in [Brackets -> Bracket]
         /\ symBr' \in Brackets \cup {None}
         /\ ord' \in [Orders -> Order]
         /\ mapped' \in SUBSET Brackets
         /\ trade' \in [Brackets -> [out : Nat, rec : Nat, done : BOOLEAN]]
<1>1. ord' \in [Orders -> Order] /\ mapped' \in SUBSET Brackets
  BY DEF LateChild, TypeOK
<1>2. CASE b \notin mapped
  BY <1>1, <1>2, ExitFillType DEF LateChild
<1>3. CASE b \in mapped
  <2>1. /\ Tally(trade, b, q) \in [Brackets -> [out : Nat, rec : Nat, done : BOOLEAN]]
        /\ Record(Tally(trade, b, q), b) \in [Brackets -> [out : Nat, rec : Nat, done : BOOLEAN]]
    BY TradeType DEF TypeOK
  <2> QED BY <1>1, <1>3, <2>1 DEF LateChild, TypeOK
<1> QED BY <1>2, <1>3

(* Completing a bracket keeps every type.                                  *)
LEMMA CompleteType ==
  ASSUME TypeOK, NEW b \in Brackets, NEW st \in BracketStates, NEW q \in Nat,
         Complete(b, st, q)
  PROVE  /\ br' \in [Brackets -> Bracket]
         /\ symBr' \in Brackets \cup {None}
         /\ ord' \in [Orders -> Order]
         /\ mapped' \in SUBSET Brackets
         /\ trade' \in [Brackets -> [out : Nat, rec : Nat, done : BOOLEAN]]
<1>1. ord' \in [Orders -> Order]
  BY CancelType DEF Complete, TypeOK
<1>2. trade' \in [Brackets -> [out : Nat, rec : Nat, done : BOOLEAN]]
  <2>1. Tally(trade, b, q) \in [Brackets -> [out : Nat, rec : Nat, done : BOOLEAN]]
    BY TradeType DEF TypeOK
  <2> QED BY <2>1, TradeType DEF Complete
<1>3. br' \in [Brackets -> Bracket]
  <2>1. br[b] \in Bracket
    BY DEF TypeOK
  <2>2. [br[b] EXCEPT !.st = st, !.rem = 0] \in Bracket
    BY <2>1 DEF Bracket
  <2> QED BY <2>2 DEF Complete, TypeOK
<1>4. symBr' = None /\ mapped' = mapped \ {b}
  BY DEF Complete
<1>5. symBr' \in Brackets \cup {None} /\ mapped' \in SUBSET Brackets
  BY <1>4 DEF TypeOK
<1> QED BY <1>1, <1>2, <1>3, <1>5

(* Offering an exit a new quantity, or cancelling it, keeps the order book. *)
LEMMA OfferType ==
  ASSUME NEW f \in [Orders -> Order], NEW o \in Orders, NEW q \in Nat
  PROVE  Offer(f, o, q) \in [Orders -> Order]
BY ResizeType, CancelType DEF Offer

(* Scaling the targets after a partial stop: neither gets a negative size. *)
LEMMA ScaleTargetsType ==
  ASSUME TypeOK, NEW b \in Brackets, NEW r \in Nat, ScaleTargets(b, r)
  PROVE  br' \in [Brackets -> Bracket] /\ ord' \in [Orders -> Order]
<1>1. br[b] \in Bracket /\ ord \in [Orders -> Order] /\ br \in [Brackets -> Bracket]
  BY DEF TypeOK
<1>2. br[b].t1 \in Nat /\ OpenT2(b) \in Nat /\ OpenBoth(b) \in Nat /\ br[b].t1 <= OpenBoth(b)
  BY <1>1 DEF Bracket, OpenT2, OpenBoth
<1>3. CASE OpenBoth(b) > r
  <2> DEFINE n1 == (br[b].t1 * r) \div OpenBoth(b)
             n2 == r - n1
             g  == IF br[b].t1 > 0 THEN Offer(ord, T1(b), n1) ELSE ord
             nr == [br[b] EXCEPT !.rem = r, !.t1 = n1, !.t2 = IF OpenT2(b) > 0 THEN n2 ELSE br[b].t2]
  <2>1. n1 \in 0 .. r
    <3>1. OpenBoth(b) \in Nat \ {0}
      BY <1>2, <1>3
    <3> QED BY <1>2, <3>1, ScaledShare
  <2>2. n1 \in Nat /\ n2 \in Nat
    BY <2>1
  <2>3. br' = [br EXCEPT ![b] = nr]
    BY <1>3 DEF ScaleTargets
  <2>4. ord' = IF OpenT2(b) > 0 THEN Offer(g, T2(b), n2) ELSE g
    BY <1>3 DEF ScaleTargets
  <2> HIDE DEF n1, n2
  <2>5. nr \in Bracket
    BY <1>1, <2>2 DEF Bracket
  <2>6. g \in [Orders -> Order]
    BY <1>1, <2>2, OrderKinds, OfferType
  <2>7. ord' \in [Orders -> Order]
    <3> HIDE DEF g
    <3> QED BY <2>2, <2>4, <2>6, OrderKinds, OfferType
  <2> HIDE DEF nr
  <2> QED BY <1>1, <2>3, <2>5, <2>7
<1>4. CASE ~(OpenBoth(b) > r)
  <2>1. br' = [br EXCEPT ![b].rem = r] /\ ord' = ord
    BY <1>4 DEF ScaleTargets
  <2>2. [br[b] EXCEPT !.rem = r] \in Bracket
    BY <1>1 DEF Bracket
  <2> QED BY <1>1, <2>1, <2>2
<1> QED BY <1>3, <1>4

(* An entry asks for at least one share, so a bracket that waits for it is *)
(* never split into a negative target.                                     *)
SizedEntries == \A b \in Brackets : br[b].st = "PENDING_ENTRY" => br[b].total > 0

(* activate_bracket_on_fill with its children: every size is a share count. *)
LEMMA EntryType ==
  ASSUME TypeOK, SizedEntries, NEW b \in Brackets, ReconcileEntry(b)
  PROVE  TypeOK'
<1> DEFINE o == Entry(b)
           n == Smaller(pend[o], br[b].total)
<1>1. o \in Orders /\ ord[o] \in Order /\ br[b] \in Bracket
  BY OrderKinds DEF TypeOK
<1>2. /\ pend' \in [Orders -> Nat]
      /\ phase' \in {"idle", "match", "sell", "reconcile"}
      /\ room' \in Nat
      /\ pend[o] \in Nat \ {0}
  BY <1>1, TakeFillType DEF ReconcileEntry
<1>3. entryMap' \in SUBSET Brackets
  BY DEF ReconcileEntry, TypeOK
<1>4. br' \in [Brackets -> Bracket] /\ ord' \in [Orders -> Order]
  <2>1. CASE b \in entryMap /\ br[b].st = "PENDING_ENTRY"
    <3>1. n \in Nat \ {0}
      BY <1>1, <1>2, <2>1 DEF Smaller, Bracket, SizedEntries
    <3>2. Halve(n) \in Nat /\ n - Halve(n) \in Nat
      BY <3>1, HalveType
    <3> DEFINE nr == [br[b] EXCEPT !.st = "ACTIVE", !.total = n, !.rem = n,
                                   !.t1 = Halve(n), !.t2 = n - Halve(n)]
               hasT2 == n > 1 /\ br[b].runner = "TARGET"
               no == [p \in Orders |->
                         CASE p = Stop(b) -> Accepted(n)
                           [] p = T1(b) -> Accepted(Halve(n))
                           [] p = T2(b) /\ hasT2 -> Accepted(n - Halve(n))
                           [] p = o /\ ord[o].st = "PARTIALLY_FILLED" ->
                                [ord[o] EXCEPT !.st = "CANCELLED"]
                           [] OTHER -> ord[p]]
    <3>3. br' = [br EXCEPT ![b] = nr]
      BY <2>1 DEF ReconcileEntry
    <3>4. ord' = no
      BY <2>1 DEF ReconcileEntry
    <3> HIDE DEF n
    <3>5. nr \in Bracket
      BY <1>1, <3>1, <3>2 DEF Bracket, BracketStates
    <3>6. Accepted(n) \in Order /\ Accepted(Halve(n)) \in Order /\ Accepted(n - Halve(n)) \in Order
      BY <3>1, <3>2 DEF Accepted, Order, OrderStates
    <3>7. [ord[o] EXCEPT !.st = "CANCELLED"] \in Order
      BY <1>1 DEF Order, OrderStates
    <3>8. no \in [Orders -> Order]
      <4> HIDE DEF o, hasT2
      <4> QED BY <3>6, <3>7 DEF TypeOK
    <3> HIDE DEF nr, no
    <3> QED BY <3>3, <3>4, <3>5, <3>8 DEF TypeOK
  <2>2. CASE ~(b \in entryMap /\ br[b].st = "PENDING_ENTRY")
    BY <2>2 DEF ReconcileEntry, TypeOK
  <2> QED BY <2>1, <2>2
<1> QED BY <1>2, <1>3, <1>4 DEF ReconcileEntry, TypeOK

(* A stop fill, partial or full, keeps every type.                         *)
LEMMA StopType ==
  ASSUME TypeOK, NEW b \in Brackets, ReconcileStop(b)
  PROVE  TypeOK'
<1> DEFINE q == pend[Stop(b)]
           r == Floor0(br[b].rem - q)
<1>1. /\ pend' \in [Orders -> Nat]
      /\ phase' \in {"idle", "match", "sell", "reconcile"}
      /\ room' \in Nat
      /\ q \in Nat
  BY OrderKinds, TakeFillType DEF ReconcileStop
<1>2. r \in Nat
  BY <1>1 DEF Floor0, TypeOK, Bracket
<1> DEFINE Goal == /\ br' \in [Brackets -> Bracket]
                   /\ symBr' \in Brackets \cup {None}
                   /\ ord' \in [Orders -> Order]
                   /\ mapped' \in SUBSET Brackets
                   /\ trade' \in [Brackets -> [out : Nat, rec : Nat, done : BOOLEAN]]
<1>3. ASSUME LateChild(Stop(b), b, q) PROVE Goal
  BY <1>1, <1>3, LateChildType, OrderKinds
<1>4. ASSUME ScaleTargets(b, r), trade' = Tally(trade, b, q), UNCHANGED <<symBr, mapped>>
      PROVE  Goal
  <2>1. trade' \in [Brackets -> [out : Nat, rec : Nat, done : BOOLEAN]]
    BY <1>1, <1>4, TradeType DEF TypeOK
  <2>2. br' \in [Brackets -> Bracket] /\ ord' \in [Orders -> Order]
    BY <1>2, <1>4, ScaleTargetsType
  <2> QED BY <1>4, <2>1, <2>2 DEF TypeOK
<1>5. ASSUME Complete(b, "COMPLETED_STOP", q) PROVE Goal
  BY <1>1, <1>5, CompleteType DEF BracketStates
<1>6. Goal
  BY <1>3, <1>4, <1>5 DEF ReconcileStop
<1> QED BY <1>1, <1>6 DEF ReconcileStop, TypeOK

(* A target fill, partial or full, keeps every type.                       *)
LEMMA TargetType ==
  ASSUME TypeOK, NEW b \in Brackets, ReconcileT1(b) \/ ReconcileT2(b)
  PROVE  TypeOK'
<1> DEFINE Goal == /\ br' \in [Brackets -> Bracket]
                   /\ symBr' \in Brackets \cup {None}
                   /\ ord' \in [Orders -> Order]
                   /\ mapped' \in SUBSET Brackets
                   /\ trade' \in [Brackets -> [out : Nat, rec : Nat, done : BOOLEAN]]
<1>0. br[b] \in Bracket
  BY DEF TypeOK
<1>1. CASE ReconcileT1(b)
  <2> DEFINE q == pend[T1(b)]
             r == Floor0(br[b].rem - q)
             nr == [br[b] EXCEPT !.st = "TARGET_1_HIT", !.rem = r, !.t1 = Floor0(br[b].t1 - q),
                                 !.stop = Ratchet(br[b].stop)]
  <2>1. /\ pend' \in [Orders -> Nat]
        /\ phase' \in {"idle", "match", "sell", "reconcile"}
        /\ room' \in Nat
        /\ q \in Nat
    BY <1>1, OrderKinds, TakeFillType DEF ReconcileT1
  <2>2. r \in Nat /\ Floor0(br[b].t1 - q) \in Nat /\ Ratchet(br[b].stop) \in 0 .. MaxStop
    BY <1>0, <2>1, BoundsAssumption DEF Floor0, Bracket, Ratchet
  <2>3. ASSUME LateChild(T1(b), b, q) PROVE Goal
    BY <2>1, <2>3, LateChildType, OrderKinds
  <2>4. ASSUME br' = [br EXCEPT ![b] = nr], ord' = Resize(ord, Stop(b), r),
               trade' = Tally(trade, b, q), UNCHANGED <<symBr, mapped>>
        PROVE  Goal
    <3>1. nr \in Bracket
      <4> HIDE DEF q, r
      <4> QED BY <1>0, <2>2 DEF Bracket, BracketStates
    <3>2. trade' \in [Brackets -> [out : Nat, rec : Nat, done : BOOLEAN]]
      BY <2>1, <2>4, TradeType DEF TypeOK
    <3>3. ord' \in [Orders -> Order]
      BY <2>2, <2>4, ResizeType, OrderKinds DEF TypeOK
    <3> HIDE DEF nr
    <3> QED BY <2>4, <3>1, <3>2, <3>3 DEF TypeOK
  <2>5. ASSUME Complete(b, "COMPLETED_PROFIT", q) PROVE Goal
    BY <2>1, <2>5, CompleteType DEF BracketStates
  <2>6. Goal
    BY <1>1, <2>3, <2>4, <2>5 DEF ReconcileT1
  <2> QED BY <1>1, <2>1, <2>6 DEF ReconcileT1, TypeOK
<1>2. CASE ReconcileT2(b)
  <2> DEFINE q == pend[T2(b)]
             r == Floor0(br[b].rem - q)
             nr == [br[b] EXCEPT !.rem = r, !.t2 = Floor0(br[b].t2 - q)]
  <2>1. /\ pend' \in [Orders -> Nat]
        /\ phase' \in {"idle", "match", "sell", "reconcile"}
        /\ room' \in Nat
        /\ q \in Nat
    BY <1>2, OrderKinds, TakeFillType DEF ReconcileT2
  <2>2. r \in Nat /\ Floor0(br[b].t2 - q) \in Nat
    BY <1>0, <2>1 DEF Floor0, Bracket
  <2>3. ASSUME LateChild(T2(b), b, q) PROVE Goal
    BY <2>1, <2>3, LateChildType, OrderKinds
  <2>4. ASSUME br' = [br EXCEPT ![b] = nr], ord' = Resize(ord, Stop(b), r),
               trade' = Tally(trade, b, q), UNCHANGED <<symBr, mapped>>
        PROVE  Goal
    <3>1. nr \in Bracket
      <4> HIDE DEF q, r
      <4> QED BY <1>0, <2>2 DEF Bracket, BracketStates
    <3>2. trade' \in [Brackets -> [out : Nat, rec : Nat, done : BOOLEAN]]
      BY <2>1, <2>4, TradeType DEF TypeOK
    <3>3. ord' \in [Orders -> Order]
      BY <2>2, <2>4, ResizeType, OrderKinds DEF TypeOK
    <3> HIDE DEF nr
    <3> QED BY <2>4, <3>1, <3>2, <3>3 DEF TypeOK
  <2>5. ASSUME Complete(b, "COMPLETED_PROFIT", q) PROVE Goal
    BY <2>1, <2>5, CompleteType DEF BracketStates
  <2>6. Goal
    BY <1>2, <2>3, <2>4, <2>5 DEF ReconcileT2
  <2> QED BY <1>2, <2>1, <2>6 DEF ReconcileT2, TypeOK
<1> QED BY <1>1, <1>2

(* A fill of a liquidation order keeps every type.                         *)
LEMMA ExitType ==
  ASSUME TypeOK, NEW x \in Exits, NEW q, ReconcileExit(x, q)
  PROVE  TypeOK'
<1>1. x \in Orders /\ xpar[x] \in Brackets \cup {None}
  BY OrderKinds DEF TypeOK
<1>2. /\ pend' \in [Orders -> Nat]
      /\ phase' \in {"idle", "match", "sell", "reconcile"}
      /\ room' \in Nat
      /\ q \in Nat
  BY <1>1, TakePieceType DEF ReconcileExit
<1>3. /\ br' \in [Brackets -> Bracket]
      /\ symBr' \in Brackets \cup {None}
      /\ trade' \in [Brackets -> [out : Nat, rec : Nat, done : BOOLEAN]]
  BY <1>1, <1>2, ExitFillType DEF ReconcileExit
<1>4. ord' \in [Orders -> Order] /\ xpar' \in [Exits -> Brackets \cup {None}]
  <2>1. CASE ord[x].st = "FILLED" /\ q = pend[x]
    <3>1. ord' = [ord EXCEPT ![x] = NoOrder] /\ xpar' = [xpar EXCEPT ![x] = None]
      BY <2>1 DEF ReconcileExit
    <3> QED BY <3>1, OrderKinds DEF TypeOK
  <2>2. CASE ~(ord[x].st = "FILLED" /\ q = pend[x])
    BY <2>2 DEF ReconcileExit, TypeOK
  <2> QED BY <2>1, <2>2
<1> QED BY <1>2, <1>3, <1>4 DEF ReconcileExit, TypeOK

(* cancel_bracket_for_flattening keeps brackets and linkage typed.         *)
LEMMA ReleaseForFlatteningType ==
  ASSUME TypeOK, ReleaseForFlattening
  PROVE  /\ br' \in [Brackets -> Bracket]
         /\ mapped' \in SUBSET Brackets
         /\ symBr' \in Brackets \cup {None}
BY DEF ReleaseForFlattening, TypeOK, Bracket, BracketStates, None

(* Every step of the book keeps the types, one case per handler.           *)
LEMMA TypeStep ==
  ASSUME TypeOK, SizedEntries, [Next]_vars
  PROVE  TypeOK'
<1> USE DEF None, NoCap
<1>1. ASSUME NEW q \in Qtys, NEW run \in Runners, EnterSignal(q, run)
      PROVE  TypeOK'
  <2> DEFINE b == nb + 1
             nr == [st |-> "PENDING_ENTRY", runner |-> run, total |-> q, rem |-> q,
                    t1 |-> Halve(q), t2 |-> q - Halve(q), stop |-> 0]
  <2>1. b \in Brackets /\ b \in 0 .. NB
    BY <1>1, BoundsAssumption DEF EnterSignal, TypeOK, Brackets
  <2>2. q \in Nat \ {0} /\ Halve(q) \in Nat /\ q - Halve(q) \in Nat
    BY BoundsAssumption, HalveType
  <2>3. nr \in Bracket
    BY <2>2, BoundsAssumption DEF Bracket, BracketStates
  <2>4. Accepted(q) \in Order
    BY <2>2 DEF Accepted, Order, OrderStates
  <2>5. ord' = [ord EXCEPT ![Entry(b)] = Accepted(q)] /\ br' = [br EXCEPT ![b] = nr]
    BY <1>1 DEF EnterSignal
  <2> HIDE DEF nr
  <2>6. br' \in [Brackets -> Bracket] /\ ord' \in [Orders -> Order]
    BY <2>1, <2>3, <2>4, <2>5, OrderKinds DEF TypeOK
  <2> QED BY <1>1, <2>1, <2>6 DEF EnterSignal, TypeOK
<1>2. ASSUME NEW b \in Brackets, NEW cap \in Caps, MatchStop(b, cap) PROVE TypeOK'
  <2>1. cap \in Nat /\ Stop(b) \in Orders
    BY BoundsAssumption, OrderKinds
  <2> QED BY <1>2, <2>1, FillNowType DEF MatchStop, TypeOK
<1>3. ASSUME NEW o \in Orders, NEW cap \in Caps \cup {NoCap}, MatchOther(o, cap) PROVE TypeOK'
  <2>1. cap \in Nat
    BY BoundsAssumption
  <2> QED BY <1>3, <2>1, FillNowType DEF MatchOther, TypeOK
<1>4. ASSUME NEW b \in Brackets, ReconcileEntry(b) PROVE TypeOK'
  BY <1>4, EntryType
<1>5. ASSUME NEW b \in Brackets, ReconcileStop(b) PROVE TypeOK'
  BY <1>5, StopType
<1>6. ASSUME NEW b \in Brackets, ReconcileT1(b) \/ ReconcileT2(b) PROVE TypeOK'
  BY <1>6, TargetType
<1>7. ASSUME NEW x \in Exits, NEW q, ReconcileExit(x, q) PROVE TypeOK'
  BY <1>7, ExitType
<1>8. ASSUME NEW l \in 0 .. MaxStop, TrailStop(l) \/ TightenStop(l) PROVE TypeOK'
  <2>1. MoveStop(l) /\ symBr \in Brackets
    BY <1>8 DEF TrailStop, TightenStop, TypeOK
  <2> QED BY <2>1 DEF MoveStop, TypeOK, Bracket
<1>9. ASSUME NEW x \in Exits, NEW halt \in BOOLEAN, FlattenAll(x, halt) PROVE TypeOK'
  <2> DEFINE f == Cancel(ord, Orders)
  <2>1. f \in [Orders -> Order]
    BY CancelType DEF TypeOK
  <2> HIDE DEF f
  <2>2. ReleaseDead(f) /\ Liquidate(f, x, symBr') /\ UNCHANGED <<nb, closing, trade>>
        /\ halted' = (halted \/ halt)
    BY <1>9 DEF FlattenAll, f
  <2>3. /\ br' \in [Brackets -> Bracket]
        /\ mapped' \in SUBSET Brackets
        /\ entryMap' \in SUBSET Brackets
        /\ symBr' \in Brackets \cup {None}
    BY <2>1, <2>2, ReleaseDeadType
  <2>4. /\ pos' \in Int
        /\ ord' \in [Orders -> Order]
        /\ xpar' \in [Exits -> Brackets \cup {None}]
        /\ pend' \in [Orders -> Nat]
        /\ phase' \in {"idle", "match", "sell", "reconcile"}
        /\ room' \in Nat
    BY <2>1, <2>2, <2>3, LiquidateType
  <2>5. halted' \in BOOLEAN
    BY <2>2 DEF TypeOK
  <2> QED BY <2>2, <2>3, <2>4, <2>5 DEF TypeOK
<1>10. ASSUME NEW f, f \in [Orders -> Order], ord' = f, ReleaseDead(f),
              UNCHANGED <<pos, xpar, nb, pend, phase, room, halted, closing, trade>>
       PROVE  TypeOK'
  BY <1>10, ReleaseDeadType DEF TypeOK
<1>11. CASE OrderPurge
  <2>1. Cancel(ord, {o \in Orders : ~Reduces(o)}) \in [Orders -> Order]
    BY CancelType DEF TypeOK
  <2> QED BY <1>10, <1>11, <2>1 DEF OrderPurge
<1>12. CASE CheckpointFailed
  <2> DEFINE free == {x \in Exits : xpar[x] = None /\ ~Reduces(x)}
  <2>1. Cancel(ord, {Entry(b) : b \in entryMap} \cup free) \in [Orders -> Order]
    BY CancelType DEF TypeOK
  <2> QED BY <1>10, <1>12, <2>1 DEF CheckpointFailed
<1>13. ASSUME NEW o \in Orders, CancelOrder(o) PROVE TypeOK'
  <2>1. Cancel(ord, {o}) \in [Orders -> Order]
    BY CancelType DEF TypeOK
  <2> QED BY <1>10, <1>13, <2>1 DEF CancelOrder
<1>14. CASE CancelElsewhere
  BY <1>10, <1>14 DEF CancelElsewhere, TypeOK
<1>15. ASSUME NEW x \in Exits, NEW f \in [Orders -> Order], ReleaseForFlattening,
              Liquidate(f, x, symBr), UNCHANGED <<nb, entryMap, halted, closing, trade>>
       PROVE  TypeOK'
  <2>1. symBr \in Brackets \cup {None}
    BY DEF TypeOK
  <2> QED BY <1>15, <2>1, ReleaseForFlatteningType, LiquidateType DEF TypeOK
<1>16. ASSUME NEW x \in Exits, ContradictionExit(x) PROVE TypeOK'
  <2> DEFINE f == IF symBr = None THEN ord ELSE Cancel(ord, Children(symBr))
  <2>1. f \in [Orders -> Order]
    BY CancelType DEF TypeOK
  <2> QED BY <1>15, <1>16, <2>1 DEF ContradictionExit
<1>17. ASSUME NEW x \in Exits, ManualFlatten(x) PROVE TypeOK'
  <2>1. Cancel(ord, Orders) \in [Orders -> Order]
    BY CancelType DEF TypeOK
  <2> QED BY <1>15, <1>17, <2>1 DEF ManualFlatten
<1>18. ASSUME NEW x \in Exits, NEW q \in Qtys, SubmitReducing(x, q) PROVE TypeOK'
  <2>1. Accepted(q) \in Order /\ x \in Orders
    BY BoundsAssumption, OrderKinds DEF Accepted, Order, OrderStates
  <2> QED BY <1>18, <2>1 DEF SubmitReducing, TypeOK
<1>19. ASSUME NEW x \in Exits, SessionBoundary(x) PROVE TypeOK'
  <2> DEFINE f == Cancel(ord, Orders)
  <2>1. f \in [Orders -> Order]
    BY CancelType DEF TypeOK
  <2> HIDE DEF f
  <2>2. /\ ReleaseDead(f) \/ UNCHANGED <<br, symBr, mapped, entryMap>>
        /\ Liquidate(f, x, symBr')
        /\ closing' = TRUE
        /\ UNCHANGED <<nb, halted, trade>>
    BY <1>19 DEF SessionBoundary, f
  <2>3. /\ br' \in [Brackets -> Bracket]
        /\ mapped' \in SUBSET Brackets
        /\ entryMap' \in SUBSET Brackets
        /\ symBr' \in Brackets \cup {None}
    BY <2>1, <2>2, ReleaseDeadType DEF TypeOK
  <2>4. /\ pos' \in Int
        /\ ord' \in [Orders -> Order]
        /\ xpar' \in [Exits -> Brackets \cup {None}]
        /\ pend' \in [Orders -> Nat]
        /\ phase' \in {"idle", "match", "sell", "reconcile"}
        /\ room' \in Nat
    BY <2>1, <2>2, <2>3, LiquidateType
  <2> QED BY <2>2, <2>3, <2>4 DEF TypeOK
<1>20. CASE SessionReset
  <2>1. [NoBracket EXCEPT !.st = "CLEARED"] \in Bracket
    BY OrderKinds DEF Bracket, BracketStates, NoBracket
  <2>2. br' \in [Brackets -> Bracket]
    BY <1>20, <2>1 DEF SessionReset, TypeOK
  <2>3. trade' \in [Brackets -> [out : Nat, rec : Nat, done : BOOLEAN]]
    BY <1>20 DEF SessionReset
  <2> QED BY <1>20, <2>2, <2>3 DEF SessionReset, TypeOK
<1>21. CASE SessionIncomplete \/ UNCHANGED vars
  BY <1>21 DEF SessionIncomplete, vars, TypeOK
<1> QED
  BY <1>1, <1>2, <1>3, <1>4, <1>5, <1>6, <1>7, <1>8, <1>9, <1>11, <1>12, <1>13, <1>14,
     <1>16, <1>17, <1>18, <1>19, <1>20, <1>21 DEF Next, Match, Reconcile, Operator

(* Only EnterSignal makes a bracket wait for its entry; every other step   *)
(* keeps a waiting bracket as it is or ends its waiting.                   *)
LEMMA SizedStep ==
  ASSUME TypeOK, SizedEntries, [Next]_vars
  PROVE  SizedEntries'
<1> DEFINE Kept == \A b \in Brackets : br'[b].st = "PENDING_ENTRY" =>
                     br[b].st = "PENDING_ENTRY" /\ br'[b].total = br[b].total
<1>a. Kept => SizedEntries'
  BY DEF SizedEntries
<1>b. br \in [Brackets -> Bracket]
  BY DEF TypeOK
<1>c. ASSUME UNCHANGED br PROVE Kept
  BY <1>c
<1>d. ASSUME NEW f, ReleaseDead(f) PROVE Kept
  BY <1>b, <1>d DEF ReleaseDead, Bracket, TypeOK
<1>e. ASSUME ReleaseForFlattening PROVE Kept
  BY <1>b, <1>e DEF ReleaseForFlattening, Bracket, TypeOK
<1>f. ASSUME NEW o, NEW b \in Brackets \cup {None}, NEW q, ExitFill(o, b, q) PROVE Kept
  BY <1>b, <1>f DEF ExitFill, Bracket
<1>g. ASSUME NEW o, NEW b \in Brackets, NEW q, LateChild(o, b, q) PROVE Kept
  BY <1>c, <1>f, <1>g DEF LateChild
<1>h. ASSUME NEW b \in Brackets, NEW q,
             Complete(b, "COMPLETED_STOP", q) \/ Complete(b, "COMPLETED_PROFIT", q)
      PROVE  Kept
  BY <1>b, <1>h DEF Complete, Bracket
<1>1. ASSUME NEW q \in Qtys, NEW run \in Runners, EnterSignal(q, run) PROVE SizedEntries'
  BY <1>1, <1>b, BoundsAssumption DEF EnterSignal, SizedEntries
<1>2. ASSUME NEW b \in Brackets, ReconcileEntry(b) PROVE Kept
  BY <1>2, <1>b DEF ReconcileEntry, Bracket
<1>3. ASSUME NEW b \in Brackets, ReconcileStop(b) PROVE Kept
  <2>1. ASSUME NEW r, ScaleTargets(b, r) PROVE Kept
    <3>1. ASSUME NEW n, NEW m, br' = [br EXCEPT ![b] = [@ EXCEPT !.rem = r, !.t1 = n, !.t2 = m]]
          PROVE  Kept
      BY <3>1, <1>b DEF Bracket
    <3>2. ASSUME br' = [br EXCEPT ![b].rem = r] PROVE Kept
      BY <3>2, <1>b DEF Bracket
    <3> HIDE DEF Kept
    <3> QED BY <2>1, <3>1, <3>2 DEF ScaleTargets
  <2> QED BY <1>3, <1>g, <1>h, <2>1 DEF ReconcileStop
<1>4. ASSUME NEW b \in Brackets, ReconcileT1(b) PROVE Kept
  <2>1. ASSUME NEW r, NEW n, NEW s,
               br' = [br EXCEPT ![b] = [@ EXCEPT !.st = "TARGET_1_HIT", !.rem = r, !.t1 = n, !.stop = s]]
        PROVE  Kept
    BY <2>1, <1>b DEF Bracket
  <2> QED BY <1>4, <1>g, <1>h, <2>1 DEF ReconcileT1
<1>5. ASSUME NEW b \in Brackets, ReconcileT2(b) PROVE Kept
  <2>1. ASSUME NEW r, NEW n, br' = [br EXCEPT ![b] = [@ EXCEPT !.rem = r, !.t2 = n]] PROVE Kept
    BY <2>1, <1>b DEF Bracket
  <2> QED BY <1>5, <1>g, <1>h, <2>1 DEF ReconcileT2
<1>6. ASSUME NEW x \in Exits, NEW q, ReconcileExit(x, q) PROVE Kept
  <2>1. xpar[x] \in Brackets \cup {None}
    BY DEF TypeOK
  <2> QED BY <1>6, <1>f, <2>1 DEF ReconcileExit
<1>7. ASSUME NEW l, TrailStop(l) \/ TightenStop(l) PROVE Kept
  <2>1. br' = [br EXCEPT ![symBr].stop = l]
    BY <1>7 DEF TrailStop, TightenStop, MoveStop
  <2> QED BY <2>1, <1>b DEF Bracket
<1>8. ASSUME SessionReset PROVE Kept
  BY <1>8, <1>b DEF SessionReset, NoBracket, Bracket
<1>9. ASSUME Match \/ CancelElsewhere \/ SessionIncomplete \/ UNCHANGED vars
             \/ (\E x \in Exits, q \in Qtys : SubmitReducing(x, q))
      PROVE  Kept
  BY <1>9, <1>c, <1>d DEF Match, MatchStop, MatchOther, CancelElsewhere, SubmitReducing,
     SessionIncomplete, vars
<1>10. ASSUME OrderPurge \/ CheckpointFailed \/ (\E o \in Orders : CancelOrder(o)) PROVE Kept
  BY <1>10, <1>d DEF OrderPurge, CheckpointFailed, CancelOrder
<1>11. ASSUME NEW x \in Exits, NEW halt, FlattenAll(x, halt) \/ SessionBoundary(x)
                                         \/ ContradictionExit(x) \/ ManualFlatten(x)
       PROVE  Kept
  BY <1>11, <1>c, <1>d, <1>e DEF FlattenAll, SessionBoundary, ContradictionExit, ManualFlatten
<1> HIDE DEF Kept
<1> QED
  BY <1>a, <1>1, <1>2, <1>3, <1>4, <1>5, <1>6, <1>7, <1>8, <1>9, <1>10, <1>11
     DEF Next, Reconcile, Operator

LEMMA FirstTypes == Init => TypeOK /\ SizedEntries
<1>1. Init => TypeOK
  <2> SUFFICES ASSUME Init PROVE TypeOK
    OBVIOUS
  <2>1. ord \in [Orders -> Order] /\ br \in [Brackets -> Bracket]
    BY OrderKinds DEF Init
  <2>2. trade \in [Brackets -> [out : Nat, rec : Nat, done : BOOLEAN]]
    BY DEF Init
  <2>3. mapped \in SUBSET Brackets /\ entryMap \in SUBSET Brackets
    BY DEF Init
  <2>4. xpar \in [Exits -> Brackets \cup {None}] /\ pend \in [Orders -> Nat]
    BY DEF Init
  <2>5. nb \in 0 .. NB /\ pos \in Int /\ symBr \in Brackets \cup {None} /\ room \in Nat
    BY BoundsAssumption DEF Init, NoCap
  <2>6. phase \in {"idle", "match", "sell", "reconcile"} /\ halted \in BOOLEAN /\ closing \in BOOLEAN
    BY DEF Init
  <2> QED BY <2>1, <2>2, <2>3, <2>4, <2>5, <2>6 DEF TypeOK
<1>2. Init => SizedEntries
  BY DEF Init, SizedEntries, NoBracket
<1> QED BY <1>1, <1>2

(* Type correctness holds for any number of brackets, any sizes and any    *)
(* operator: no handler drives a share count negative or loses a state.    *)
THEOREM TypeCorrect == Spec => []TypeOK
<1>1. Init => TypeOK /\ SizedEntries
  BY FirstTypes
<1>2. TypeOK /\ SizedEntries /\ [Next]_vars => TypeOK' /\ SizedEntries'
  BY TypeStep, SizedStep
<1> QED BY <1>1, <1>2, PTL DEF Spec

-----------------------------------------------------------------------------
(* The safety of the book, for every value of the constants: one inductive *)
(* invariant, and the properties of BracketLifecycle it implies.           *)

(* The operator leaves the protective stop and the closing orders alone    *)
(* and sends no order of his own, and no signal is taken while a refused   *)
(* liquidation is at work: with any of these the properties below do not   *)
(* hold.  An operator who cancels the stop does strip it.                  *)
CalmDesk ==
  /\ CancelKinds \subseteq {"entry", "t1", "t2"}
  /\ ~Reduce
  /\ ~Elsewhere
  /\ ~Blind

-----------------------------------------------------------------------------
(* The inductive invariant.  Every state of the book is one of four        *)
(* stages: no bracket holds the symbol, the owner waits for its entry, the *)
(* owner is guarded by its stop, or a liquidation is at work for all that  *)
(* is held, which the broker may refuse as often as it likes.              *)

LegsOf(b) == Kinds \X {b}

NoExit == \A x \in Exits : pend[x] = 0 /\ ~Working(x)

(* A batch is over when every fill of it has been reconciled.              *)
BatchIsOver == phase = "idle" => \A o \in Orders : pend[o] = 0

(* An order that works has shares left.                                    *)
OrdersAreOpen == \A o \in Orders : Working(o) => ord[o].rem > 0

(* A bracket number that was not given out yet has left no trace.          *)
Fresh(b) ==
  /\ b # symBr /\ b \notin mapped /\ b \notin entryMap
  /\ br[b].st = "NONE"
  /\ trade[b].out = 0 /\ ~trade[b].done

(* A piece of what was sold for b is still to be reconciled.               *)
Paying(b) == \E x \in Exits : xpar[x] = b /\ pend[x] > 0

(* Every exit share is tallied, and is in the row but for what a           *)
(* liquidation in several pieces left out.                                 *)
Booked(b) ==
  /\ trade[b].rec + trade[b].out = br[b].total
  /\ br[b].st # "COMPLETED_FLATTEN" => trade[b].out = 0

(* A bracket that does not hold the symbol has nothing in the market.      *)
Retired(b) ==
  /\ \A o \in LegsOf(b) : ~Working(o) /\ pend[o] = 0
  /\ br[b].st \notin {"PENDING_ENTRY", "ACTIVE", "TARGET_1_HIT"}
  /\ trade[b].done => Booked(b) \/ Paying(b)
  /\ br[b].st = "CANCELLED" => ord[Entry(b)].filled = 0

Numbered == \A b \in Brackets : IF b <= nb THEN br[b].st # "NONE" ELSE Fresh(b)

OthersRetired == \A b \in Brackets : b # symBr => Retired(b)

Untaken == symBr = None /\ pos = 0 /\ NoExit

(* The owner waits: what its entry filled is the position, and is still to *)
(* be reconciled.                                                          *)
Waiting(b) ==
  /\ symBr = b /\ NoExit
  /\ br[b].st = "PENDING_ENTRY" /\ b \in entryMap /\ b \in mapped
  /\ br[b].rem = br[b].total /\ br[b].total > 0
  /\ \A o \in Children(b) : ~Working(o) /\ pend[o] = 0
  /\ pend[Entry(b)] = ord[Entry(b)].filled
  /\ ord[Entry(b)].filled + ord[Entry(b)].rem = br[b].total
  /\ ~Working(Entry(b)) => ord[Entry(b)].st = "FILLED" /\ ord[Entry(b)].rem = 0
  /\ ord[Entry(b)].st = "ACCEPTED" => ord[Entry(b)].filled = 0
  /\ pos = pend[Entry(b)]
  /\ trade[b].out = 0 /\ ~trade[b].done

(* The owner is guarded: its stop works for all that remains, its targets  *)
(* offer no more than that, and the fills of the batch are the only shares *)
(* the bracket still counts and the position does not.                     *)
Guarded(b) ==
  /\ symBr = b /\ NoExit
  /\ Live(b) /\ b \in mapped
  /\ ~Working(Entry(b)) /\ pend[Entry(b)] = 0
  /\ br[b].rem > 0
  /\ IF Working(Stop(b)) THEN ord[Stop(b)].rem + pend[Stop(b)] = br[b].rem
                         ELSE pend[Stop(b)] = br[b].rem
  /\ pend[Stop(b)] > 0 => phase = "reconcile" /\ pend[T1(b)] = 0 /\ pend[T2(b)] = 0
  /\ OpenShares(T1(b)) + pend[T1(b)] <= br[b].t1
  /\ OpenShares(T2(b)) + pend[T2(b)] <= OpenT2(b)
  /\ OpenBoth(b) <= br[b].rem
  /\ pos = br[b].rem - pend[Stop(b)] - pend[T1(b)] - pend[T2(b)]
  /\ trade[b].out + br[b].rem = br[b].total /\ ~trade[b].done

(* A liquidation order x, sent for bracket b, is at work for all that is   *)
(* held or has sold it, and nothing else is in the market.  The first      *)
(* piece of a filled order completes the trade row; what the bracket is    *)
(* short of in its tally is held or still to be reconciled.                *)
Sale(x, b) ==
  /\ x \notin Covers
  /\ \A o \in Orders : o # x => ~Working(o) /\ pend[o] = 0
  /\ pos = OpenShares(x)
  /\ Working(x) \/ (ord[x].st = "FILLED" /\ pend[x] > 0)
  /\ xpar[x] = b
  /\ b = None => symBr = None
  /\ b # None =>
       /\ IF symBr = None THEN br[b].st = "COMPLETED_FLATTEN" ELSE symBr = b /\ Live(b)
       /\ IF trade[b].done
            THEN symBr = None /\ pos = 0 /\ trade[b].rec + trade[b].out + pend[x] = br[b].total
            ELSE trade[b].out + pend[x] + pos = br[b].total

Stage ==
  \/ Untaken
  \/ \E b \in Brackets : Waiting(b) \/ Guarded(b)
  \/ \E x \in Exits, b \in Brackets \cup {None} : Sale(x, b)

(* Once the session boundary runs, nothing but the liquidation it sent is  *)
(* in the market, and that only while a position is left.                  *)
ClosingFlat ==
  closing =>
    /\ \A o \in Orders : o \notin Exits => ~Working(o) /\ pend[o] = 0
    /\ \A x \in Exits : Working(x) => pos # 0 /\ (phase \in {"match", "sell"} => pend[x] > 0)

SafeBook ==
  /\ TypeOK
  /\ BatchIsOver
  /\ OrdersAreOpen
  /\ Numbered
  /\ OthersRetired
  /\ Stage
  /\ ClosingFlat

-----------------------------------------------------------------------------
(* The orders of a bracket, and what the helpers do to the order book.     *)

(* The four orders of a bracket are distinct, are no other bracket's and   *)
(* are no liquidation order.                                               *)
LEMMA LegFacts ==
  /\ \A b \in Brackets :
       /\ LegsOf(b) = {Entry(b), Stop(b), T1(b), T2(b)}
       /\ Children(b) = {Stop(b), T1(b), T2(b)}
       /\ LegsOf(b) \subseteq Orders /\ LegsOf(b) \cap Exits = {}
       /\ Entry(b) # Stop(b) /\ Entry(b) # T1(b) /\ Entry(b) # T2(b)
       /\ Stop(b) # T1(b) /\ Stop(b) # T2(b) /\ T1(b) # T2(b)
       /\ Kind(Entry(b)) = "entry" /\ Kind(Stop(b)) = "stop"
       /\ Kind(T1(b)) = "t1" /\ Kind(T2(b)) = "t2"
  /\ \A b, c \in Brackets : b # c => LegsOf(b) \cap LegsOf(c) = {}
  /\ Orders = Exits \cup UNION {LegsOf(b) : b \in Brackets}
  /\ \A x \in Exits : Kind(x) = "exit"
<1>1. \A b \in Brackets : /\ LegsOf(b) = {Entry(b), Stop(b), T1(b), T2(b)}
                          /\ LegsOf(b) \subseteq Legs
  BY DEF LegsOf, Entry, Stop, T1, T2, Kinds, Legs
<1>2. Orders = Exits \cup UNION {LegsOf(b) : b \in Brackets}
  BY DEF Orders, Legs, LegsOf
<1>3. \A b, c \in Brackets : b # c => LegsOf(b) \cap LegsOf(c) = {}
  BY DEF LegsOf
<1>4. \A b \in Brackets :
       /\ Entry(b) # Stop(b) /\ Entry(b) # T1(b) /\ Entry(b) # T2(b)
       /\ Stop(b) # T1(b) /\ Stop(b) # T2(b) /\ T1(b) # T2(b)
  BY DEF Entry, Stop, T1, T2
<1>5. \A b \in Brackets : LegsOf(b) \subseteq Orders /\ LegsOf(b) \cap Exits = {}
  BY <1>1, IdsAssumption DEF Orders
<1>6. \A b \in Brackets : Kind(Entry(b)) = "entry" /\ Kind(Stop(b)) = "stop"
                          /\ Kind(T1(b)) = "t1" /\ Kind(T2(b)) = "t2"
  <2> TAKE b \in Brackets
  <2>1. Entry(b) \notin Exits /\ Stop(b) \notin Exits /\ T1(b) \notin Exits /\ T2(b) \notin Exits
    BY <1>1, <1>5
  <2> QED BY <2>1 DEF Kind, Entry, Stop, T1, T2
<1>7. \A x \in Exits : Kind(x) = "exit"
  BY DEF Kind
<1> QED BY <1>1, <1>2, <1>3, <1>4, <1>5, <1>6, <1>7 DEF Children

(* A typed order has whole share counts and a state that is open or not.   *)
LEMMA OrderFields ==
  ASSUME TypeOK, NEW o \in Orders
  PROVE  ord[o] \in Order /\ ord[o].rem \in Nat /\ ord[o].filled \in Nat
         /\ ord[o].st \in OrderStates /\ pend[o] \in Nat
BY DEF TypeOK, Order

(* Cancelling S closes the orders of S that are open and touches no other; *)
(* the filled and open counts of a leg stay.                               *)
LEMMA CancelFacts ==
  ASSUME NEW f \in [Orders -> Order], NEW S, NEW o \in Orders
  PROVE  /\ Open(Cancel(f, S)[o].st) <=> Open(f[o].st) /\ o \notin S
         /\ o \notin S \/ ~Open(f[o].st) => Cancel(f, S)[o] = f[o]
         /\ o \notin Exits => Cancel(f, S)[o].rem = f[o].rem /\ Cancel(f, S)[o].filled = f[o].filled
         /\ o \in S /\ Open(f[o].st) /\ o \notin Exits => Cancel(f, S)[o].st = "CANCELLED"
<1>1. f[o] \in Order
  OBVIOUS
<1>2. Cancel(f, S)[o] = IF o \in S /\ Open(f[o].st)
                          THEN IF o \in Exits THEN NoOrder ELSE [f[o] EXCEPT !.st = "CANCELLED"]
                          ELSE f[o]
  BY DEF Cancel
<1>3. /\ [f[o] EXCEPT !.st = "CANCELLED"].st = "CANCELLED"
      /\ [f[o] EXCEPT !.st = "CANCELLED"].rem = f[o].rem
      /\ [f[o] EXCEPT !.st = "CANCELLED"].filled = f[o].filled
  BY <1>1 DEF Order
<1>4. ~Open("CANCELLED") /\ ~Open(NoOrder.st)
  BY DEF Open, NoOrder
<1> QED BY <1>2, <1>3, <1>4

(* Nothing sold for a bracket waits for its reconciliation while no        *)
(* liquidation has filled.                                                 *)
LEMMA NobodyPaid ==
  ASSUME NEW b, \A x \in Exits : pend[x] = 0
  PROVE  ~Paying(b)
BY DEF Paying

(* A retired bracket stays retired when its orders do not start to work,   *)
(* fill nothing, and its record is left alone.                             *)
LEMMA RetiredFrame ==
  ASSUME NEW b \in Brackets, Retired(b), ~Paying(b),
         \A o \in LegsOf(b) : /\ Open(ord'[o].st) => Working(o)
                              /\ ord'[o].filled = ord[o].filled
                              /\ pend'[o] = 0,
         br'[b].st = br[b].st, br'[b].total = br[b].total, trade'[b] = trade[b]
  PROVE  Retired(b)'
<1>1. \A o \in LegsOf(b) : ~Working(o)' /\ pend'[o] = 0
  BY DEF Retired, Working
<1>2. Entry(b) \in LegsOf(b)
  BY LegFacts
<1>3. trade'[b].done => Booked(b)'
  BY DEF Retired, Booked
<1> QED BY <1>1, <1>2, <1>3 DEF Retired

(* Between batches the book has one of four shapes.                        *)
LEMMA QuietBook ==
  ASSUME SafeBook, phase = "idle"
  PROVE  /\ \A o \in Orders : pend[o] = 0
         /\ \A b : ~Paying(b)
         /\ \/ Untaken
            \/ \E b \in Brackets : /\ Waiting(b) /\ pos = 0
                                   /\ Working(Entry(b)) /\ ord[Entry(b)].filled = 0
            \/ \E b \in Brackets : /\ Guarded(b) /\ pos = br[b].rem /\ pos > 0
                                   /\ Working(Stop(b)) /\ ord[Stop(b)].rem = pos
            \/ \E x \in Exits, b \in Brackets \cup {None} :
                 Sale(x, b) /\ Working(x) /\ ord[x].rem = pos /\ pos > 0
<1>1. \A o \in Orders : pend[o] = 0
  BY DEF SafeBook, BatchIsOver
<1>2. ASSUME NEW x \in Exits, NEW b \in Brackets \cup {None}, Sale(x, b)
      PROVE  Working(x) /\ ord[x].rem = pos /\ pos > 0
  <2>1. x \in Orders /\ pend[x] = 0
    BY <1>1, LegFacts
  <2>2. Working(x)
    BY <1>2, <2>1 DEF Sale
  <2>3. ord[x].rem > 0
    BY <2>1, <2>2 DEF SafeBook, OrdersAreOpen
  <2> QED BY <1>2, <2>2, <2>3 DEF Sale, OpenShares
<1>3. ASSUME NEW b \in Brackets, Waiting(b)
      PROVE  pos = 0 /\ Working(Entry(b)) /\ ord[Entry(b)].filled = 0
  <2>1. Entry(b) \in Orders
    BY LegFacts
  <2>2. ord[Entry(b)].filled = 0 /\ pos = 0
    BY <1>1, <1>3, <2>1 DEF Waiting
  <2>3. Working(Entry(b))
    BY <1>3, <2>2 DEF Waiting
  <2> QED BY <2>2, <2>3
<1>4. ASSUME NEW b \in Brackets, Guarded(b)
      PROVE  pos = br[b].rem /\ pos > 0 /\ Working(Stop(b)) /\ ord[Stop(b)].rem = pos
  <2>1. Stop(b) \in Orders /\ T1(b) \in Orders /\ T2(b) \in Orders
    BY LegFacts
  <2>2. pend[Stop(b)] = 0 /\ pend[T1(b)] = 0 /\ pend[T2(b)] = 0
    BY <1>1, <2>1
  <2>3. br[b].rem \in Nat /\ ord[Stop(b)].rem \in Nat
    BY <2>1, OrderFields DEF SafeBook, TypeOK, Bracket
  <2> QED BY <1>4, <2>1, <2>2, <2>3 DEF Guarded
<1>5. \A b : ~Paying(b)
  BY <1>1, LegFacts, NobodyPaid
<1> QED BY <1>1, <1>2, <1>3, <1>4, <1>5 DEF SafeBook, Stage

(* What is held between batches is held for the bracket that holds the     *)
(* symbol, if there is one: its tally is short of just that.               *)
LEMMA HeldFacts ==
  ASSUME SafeBook, phase = "idle", pos # 0
  PROVE  /\ pos > 0
         /\ symBr # None => /\ symBr \in Brackets /\ Live(symBr)
                            /\ ~trade[symBr].done /\ trade[symBr].out + pos = br[symBr].total
<1>1. \A o \in Orders : pend[o] = 0
  BY QuietBook
<1>2. ASSUME NEW b \in Brackets, Guarded(b), pos = br[b].rem, pos > 0
      PROVE  symBr = b /\ Live(b) /\ ~trade[b].done /\ trade[b].out + pos = br[b].total
  BY <1>2 DEF Guarded
<1>3. ASSUME NEW x \in Exits, NEW b \in Brackets \cup {None}, Sale(x, b), pos > 0, symBr # None
      PROVE  /\ symBr = b /\ b \in Brackets /\ Live(b)
             /\ ~trade[b].done /\ trade[b].out + pos = br[b].total
  <2>1. pend[x] = 0 /\ b # None
    BY <1>1, <1>3, LegFacts DEF Sale
  <2>2. symBr = b /\ Live(b) /\ ~trade[b].done /\ trade[b].out + pend[x] + pos = br[b].total
    BY <1>3, <2>1 DEF Sale
  <2>3. trade[b].out \in Nat /\ pos \in Int
    BY <2>1 DEF SafeBook, TypeOK
  <2> QED BY <2>1, <2>2, <2>3
<1> QED BY <1>1, <1>2, <1>3, QuietBook DEF Untaken

(* No number that was not given out is used by a step that gives none.     *)
LEMMA NumberedFrame ==
  ASSUME Numbered, nb' = nb, mapped' \subseteq mapped, entryMap' \subseteq entryMap,
         symBr' \in {symBr, None},
         \A b \in Brackets : /\ br[b].st = "NONE" <=> br'[b].st = "NONE"
                             /\ br[b].st = "NONE" => trade'[b] = trade[b]
  PROVE  Numbered'
<1> SUFFICES ASSUME NEW b \in Brackets
             PROVE  IF b <= nb' THEN br'[b].st # "NONE" ELSE Fresh(b)'
  BY DEF Numbered
<1>1. CASE b <= nb
  BY <1>1 DEF Numbered
<1>2. CASE ~(b <= nb)
  <2>1. Fresh(b)
    BY <1>2 DEF Numbered
  <2>2. b # None
    BY DEF Brackets, None
  <2> QED BY <1>2, <2>1, <2>2 DEF Fresh
<1> QED BY <1>1, <1>2

(* A bracket that waits for its entry is the owner, and is not empty.      *)
LEMMA SizedBook ==
  ASSUME SafeBook
  PROVE  SizedEntries
<1> SUFFICES ASSUME NEW b \in Brackets, br[b].st = "PENDING_ENTRY"
             PROVE  br[b].total > 0
  BY DEF SizedEntries
<1>1. b = symBr
  BY DEF SafeBook, OthersRetired, Retired
<1>2. b # None
  BY DEF Brackets, None
<1>3. Waiting(b)
  <2>1. ASSUME NEW c \in Brackets, Guarded(c) PROVE FALSE
    BY <1>1, <2>1 DEF Guarded, Live
  <2>2. ASSUME NEW x \in Exits, NEW c \in Brackets \cup {None}, Sale(x, c) PROVE FALSE
    BY <1>1, <1>2, <2>2 DEF Sale, Live
  <2>3. ASSUME NEW c \in Brackets, Waiting(c) PROVE Waiting(b)
    BY <1>1, <2>3 DEF Waiting
  <2> QED BY <1>1, <1>2, <2>1, <2>2, <2>3 DEF SafeBook, Stage, Untaken
<1> QED BY <1>3 DEF Waiting

-----------------------------------------------------------------------------
(* Cancels that leave the position alone.                                  *)

(* Cancelling, between batches, a set of orders that holds the entry of a  *)
(* waiting owner and neither the stop of a guarded one nor a liquidation:  *)
(* a waiting owner is released, the others stay as they are.               *)
LEMMA CancelStep ==
  ASSUME SafeBook, TypeOK', Idle, NEW S,
         ord' = Cancel(ord, S), ReleaseDead(Cancel(ord, S)),
         UNCHANGED <<pos, xpar, nb, pend, phase, room, halted, closing, trade>>,
         symBr # None /\ br[symBr].st = "PENDING_ENTRY" => Entry(symBr) \in S,
         \A b \in Brackets : Guarded(b) => Stop(b) \notin S,
         \A x \in Exits : Working(x) => x \notin S
  PROVE  SafeBook'
<1> DEFINE f == Cancel(ord, S)
           dead == {b \in entryMap : f[Entry(b)].st = "CANCELLED" /\ f[Entry(b)].filled = 0}
           hit  == dead # {} /\ symBr # None /\ br[symBr].st = "PENDING_ENTRY"
<1>1. /\ entryMap' = entryMap \ dead
      /\ IF hit THEN /\ br' = [br EXCEPT ![symBr].st = "CANCELLED"]
                     /\ mapped' = mapped \ {symBr}
                     /\ symBr' = None
                ELSE UNCHANGED <<br, mapped, symBr>>
  BY DEF ReleaseDead
<1>2. ord \in [Orders -> Order] /\ br \in [Brackets -> Bracket] /\ phase = "idle"
  BY DEF SafeBook, TypeOK, Idle
<1>3. \A o \in Orders : /\ Open(ord'[o].st) <=> Working(o) /\ o \notin S
                        /\ o \notin S => ord'[o] = ord[o]
                        /\ o \notin Exits => ord'[o].rem = ord[o].rem /\ ord'[o].filled = ord[o].filled
                        /\ o \in S /\ Working(o) /\ o \notin Exits => ord'[o].st = "CANCELLED"
  BY <1>2, CancelFacts DEF Working
<1>4. (\A o \in Orders : pend[o] = 0) /\ (\A b : ~Paying(b))
  BY <1>2, QuietBook
<1>5. BatchIsOver'
  BY <1>4 DEF BatchIsOver
<1>6. OrdersAreOpen'
  BY <1>3, LegFacts DEF SafeBook, OrdersAreOpen, Working
<1>7. \A b \in Brackets : \A o \in LegsOf(b) : /\ Open(ord'[o].st) => Working(o)
                                           /\ ord'[o].filled = ord[o].filled
                                           /\ pend'[o] = 0
  BY <1>3, <1>4, LegFacts
<1>8. ClosingFlat'
  BY DEF ClosingFlat, Idle
<1> HIDE DEF dead, f
<1>9. CASE Untaken
  <2>1. UNCHANGED <<br, mapped, symBr>>
    BY <1>1, <1>9 DEF Untaken
  <2>2. Numbered'
    BY <1>1, <2>1, NumberedFrame DEF SafeBook
  <2>3. OthersRetired'
    BY <1>4, <1>7, <2>1, RetiredFrame DEF SafeBook, OthersRetired
  <2>4. NoExit'
    BY <1>3, <1>4, <1>9, LegFacts DEF Untaken, NoExit, Working
  <2>5. Stage'
    BY <1>9, <2>1, <2>4 DEF Stage, Untaken
  <2> QED BY <1>5, <1>6, <1>8, <2>2, <2>3, <2>5 DEF SafeBook
<1>10. ASSUME NEW b \in Brackets, Waiting(b), pos = 0, Working(Entry(b)), ord[Entry(b)].filled = 0
       PROVE  SafeBook'
  <2>0. symBr = b
    BY <1>10 DEF Waiting
  <2>1. b \in Brackets /\ b # None /\ Entry(b) \in S /\ Entry(b) \in Orders /\ Entry(b) \notin Exits
    BY <1>10, <2>0, LegFacts DEF Waiting, Brackets, None
  <2>2. ord'[Entry(b)].st = "CANCELLED" /\ ord'[Entry(b)].filled = 0
    BY <1>3, <1>10, <2>1
  <2>3. b \in dead
    BY <1>10, <2>2 DEF Waiting, dead, f
  <2>4. br' = [br EXCEPT ![b].st = "CANCELLED"] /\ mapped' = mapped \ {b} /\ symBr' = None
    BY <1>1, <1>10, <2>0, <2>1, <2>3 DEF Waiting
  <2>5. \A c \in Brackets : c # b => br'[c] = br[c]
    BY <1>2, <2>4
  <2>6. br'[b].st = "CANCELLED" /\ br'[b].total = br[b].total
    BY <1>2, <2>1, <2>4 DEF Bracket
  <2>7. Numbered'
    <3>1. \A c \in Brackets : br[c].st = "NONE" <=> br'[c].st = "NONE"
      BY <1>10, <2>5, <2>6 DEF Waiting
    <3> QED BY <1>1, <2>4, <3>1, NumberedFrame DEF SafeBook
  <2>8. Retired(b)'
    <3>1. \A o \in LegsOf(b) : ~Working(o)' /\ pend'[o] = 0
      <4>1. \A o \in LegsOf(b) : Working(o) => o = Entry(b)
        BY <1>10, LegFacts DEF Waiting
      <4> QED BY <1>3, <1>7, <2>1, <4>1, LegFacts DEF Working
    <3> QED BY <1>10, <2>2, <2>6, <3>1 DEF Retired, Waiting
  <2>9. OthersRetired'
    BY <1>4, <1>7, <2>0, <2>5, <2>8, RetiredFrame DEF SafeBook, OthersRetired
  <2>10. Stage'
    <3>1. NoExit'
      BY <1>3, <1>4, <1>10, LegFacts DEF Waiting, NoExit, Working
    <3> QED BY <1>10, <2>4, <3>1 DEF Stage, Untaken
  <2> QED BY <1>5, <1>6, <1>8, <2>7, <2>9, <2>10 DEF SafeBook
<1>11. ASSUME NEW b \in Brackets, Guarded(b)
       PROVE  SafeBook'
  <2>0. symBr = b
    BY <1>11 DEF Guarded
  <2>1. b # None /\ Live(b) /\ UNCHANGED <<br, mapped, symBr>>
    BY <1>1, <1>11, <2>0 DEF Guarded, Live, Brackets, None
  <2>2. Numbered'
    BY <1>1, <2>1, NumberedFrame DEF SafeBook
  <2>3. OthersRetired'
    BY <1>4, <1>7, <2>1, RetiredFrame DEF SafeBook, OthersRetired
  <2>4. Stop(b) \notin S /\ Stop(b) \in Orders /\ T1(b) \in Orders /\ T2(b) \in Orders
        /\ Entry(b) \in Orders /\ {Stop(b), T1(b), T2(b), Entry(b)} \cap Exits = {}
    BY <1>11, LegFacts
  <2>5. ord'[Stop(b)] = ord[Stop(b)] /\ (Working(Stop(b)) <=> Working(Stop(b))') /\ ~Working(Entry(b))'
    BY <1>3, <1>11, <2>4 DEF Guarded, Working
  <2>6. OpenShares(T1(b))' <= OpenShares(T1(b)) /\ OpenShares(T2(b))' <= OpenShares(T2(b))
    <3>1. ord[T1(b)].rem \in Nat /\ ord[T2(b)].rem \in Nat
      BY <2>4, OrderFields DEF SafeBook
    <3>2. ord'[T1(b)].rem = ord[T1(b)].rem /\ ord'[T2(b)].rem = ord[T2(b)].rem
      BY <1>3, <2>4
    <3>3. (Working(T1(b))' => Working(T1(b))) /\ (Working(T2(b))' => Working(T2(b)))
      BY <1>3, <2>4 DEF Working
    <3> QED BY <3>1, <3>2, <3>3 DEF OpenShares
  <2>7. OpenShares(T1(b))' \in Nat /\ OpenShares(T2(b))' \in Nat
        /\ OpenShares(T1(b)) \in Nat /\ OpenShares(T2(b)) \in Nat
    BY <2>4, OrderFields DEF SafeBook, OpenShares, TypeOK, Order
  <2>8. Guarded(b)'
    <3>1. OpenT2(b)' = OpenT2(b) /\ OpenBoth(b)' = OpenBoth(b) /\ Live(b)'
      BY <2>1 DEF OpenT2, OpenBoth, Live
    <3>2. br[b].t1 \in Nat /\ OpenT2(b) \in Nat
      BY <1>2, <1>11 DEF OpenT2, Bracket
    <3>3. pend[T1(b)] = 0 /\ pend[T2(b)] = 0
      BY <1>4, <2>4
    <3>4. NoExit'
      BY <1>3, <1>4, <1>11, LegFacts DEF Guarded, NoExit, Working
    <3> QED BY <1>11, <2>1, <2>5, <2>6, <2>7, <3>1, <3>2, <3>3, <3>4 DEF Guarded
  <2>9. Stage'
    BY <1>11, <2>1, <2>8 DEF Stage
  <2> QED BY <1>5, <1>6, <1>8, <2>2, <2>3, <2>9 DEF SafeBook
<1>12. ASSUME NEW x \in Exits, NEW b \in Brackets \cup {None}, Sale(x, b), Working(x)
       PROVE  SafeBook'
  <2>1. UNCHANGED <<br, mapped, symBr>>
    BY <1>1, <1>12 DEF Sale, Live
  <2>2. Numbered'
    BY <1>1, <2>1, NumberedFrame DEF SafeBook
  <2>3. OthersRetired'
    BY <1>4, <1>7, <2>1, RetiredFrame DEF SafeBook, OthersRetired
  <2>4. x \in Orders /\ ord'[x] = ord[x]
    BY <1>3, <1>12, LegFacts
  <2>5. Working(x)' /\ OpenShares(x)' = OpenShares(x)
    BY <1>12, <2>4 DEF Working, OpenShares
  <2>6. \A o \in Orders : o # x => ~Working(o)' /\ pend'[o] = 0
    BY <1>3, <1>4, <1>12 DEF Sale, Working
  <2>7. Sale(x, b)'
    BY <1>12, <2>1, <2>5, <2>6 DEF Sale, Live
  <2>8. Stage'
    BY <2>7 DEF Stage
  <2> QED BY <1>5, <1>6, <1>8, <2>2, <2>3, <2>8 DEF SafeBook
<1> QED BY <1>2, <1>9, <1>10, <1>11, <1>12, QuietBook

(* The 15:50 purge keeps every order that reduces a held position.         *)
LEMMA PurgeStep ==
  ASSUME SafeBook, TypeOK', OrderPurge
  PROVE  SafeBook'
<1> DEFINE S == {o \in Orders : ~Reduces(o)}
<1>1. Idle /\ phase = "idle" /\ ord' = Cancel(ord, S) /\ ReleaseDead(Cancel(ord, S))
      /\ UNCHANGED <<pos, xpar, nb, pend, phase, room, halted, closing, trade>>
  BY DEF OrderPurge, Idle
<1>2. symBr # None /\ br[symBr].st = "PENDING_ENTRY" => Entry(symBr) \in S
  <2> SUFFICES ASSUME symBr # None, br[symBr].st = "PENDING_ENTRY" PROVE Entry(symBr) \in S
    OBVIOUS
  <2>1. PICK b \in Brackets : symBr = b /\ pos = 0
    BY <1>1, QuietBook DEF Untaken, Waiting, Guarded, Sale, Live
  <2> QED BY <2>1, LegFacts DEF Reduces
<1>3. \A b \in Brackets : Guarded(b) => Stop(b) \notin S
  <2> SUFFICES ASSUME NEW b \in Brackets, Guarded(b) PROVE Reduces(Stop(b))
    OBVIOUS
  <2>1. pos > 0
    BY <1>1, QuietBook DEF Untaken, Waiting, Guarded, Sale, NoExit, Live, Brackets, None
  <2>2. Stop(b) \notin Covers /\ Kind(Stop(b)) = "stop"
    BY LegFacts, IdsAssumption
  <2> QED BY <2>1, <2>2 DEF Reduces, Buys
<1>4. \A x \in Exits : Working(x) => x \notin S
  <2> SUFFICES ASSUME NEW x \in Exits, Working(x) PROVE Reduces(x)
    OBVIOUS
  <2>1. pos > 0 /\ x \notin Covers
    BY <1>1, QuietBook, LegFacts DEF Untaken, Waiting, Guarded, Sale, NoExit
  <2> QED BY <2>1, LegFacts DEF Reduces, Buys
<1> HIDE DEF S
<1> QED BY <1>1, <1>2, <1>3, <1>4, CancelStep

(* A checkpoint that cannot be written costs the entries, never the stop   *)
(* and never a liquidation.                                                *)
LEMMA CheckpointStep ==
  ASSUME SafeBook, TypeOK', CheckpointFailed
  PROVE  SafeBook'
<1> DEFINE free == {x \in Exits : xpar[x] = None /\ ~Reduces(x)}
           S == {Entry(b) : b \in entryMap} \cup free
<1>1. Idle /\ phase = "idle" /\ ord' = Cancel(ord, S) /\ ReleaseDead(Cancel(ord, S))
      /\ UNCHANGED <<pos, xpar, nb, pend, phase, room, halted, closing, trade>>
  BY DEF CheckpointFailed, Idle
<1>2. symBr # None /\ br[symBr].st = "PENDING_ENTRY" => Entry(symBr) \in S
  BY <1>1, QuietBook DEF Untaken, Waiting, Guarded, Sale, Live
<1>3. entryMap \subseteq Brackets
  BY DEF SafeBook, TypeOK
<1>4. \A b \in Brackets : Stop(b) \notin S
  <2> TAKE b \in Brackets
  <2>1. Stop(b) \notin {Entry(c) : c \in entryMap}
    BY DEF Entry, Stop
  <2>2. Stop(b) \notin Exits
    BY LegFacts
  <2> QED BY <2>1, <2>2
<1>5. \A x \in Exits : Working(x) => x \notin S
  <2> SUFFICES ASSUME NEW x \in Exits, Working(x) PROVE x \notin S
    OBVIOUS
  <2>1. pos > 0 /\ x \notin Covers
    BY <1>1, QuietBook, LegFacts DEF Untaken, Waiting, Guarded, Sale, NoExit
  <2>2. Reduces(x)
    BY <2>1, LegFacts DEF Reduces, Buys
  <2>3. \A c \in entryMap : Entry(c) # x
    BY <1>3, LegFacts
  <2> QED BY <2>2, <2>3
<1> HIDE DEF S
<1> QED BY <1>1, <1>2, <1>4, <1>5, CancelStep

(* The operator's cancel of an entry or a target.                          *)
LEMMA CancelOrderStep ==
  ASSUME SafeBook, TypeOK', CalmDesk, NEW o \in Orders, CancelOrder(o)
  PROVE  SafeBook'
<1>1. Idle /\ phase = "idle" /\ ord' = Cancel(ord, {o}) /\ ReleaseDead(Cancel(ord, {o}))
      /\ UNCHANGED <<pos, xpar, nb, pend, phase, room, halted, closing, trade>>
      /\ Kind(o) \in {"entry", "t1", "t2"} /\ Working(o)
  BY DEF CancelOrder, Idle, CalmDesk
<1>2. ASSUME NEW b \in Brackets, symBr = b, br[b].st = "PENDING_ENTRY"
      PROVE  Entry(b) = o
  <2>1. Waiting(b)
    BY <1>1, <1>2, QuietBook DEF Untaken, Waiting, Guarded, Sale, Live, Brackets, None
  <2>2. o \notin Exits
    BY <1>1, LegFacts
  <2>3. PICK c \in Brackets : o \in LegsOf(c)
    BY <2>2, LegFacts
  <2>4. c = b
    BY <1>1, <1>2, <2>3 DEF SafeBook, OthersRetired, Retired
  <2> QED BY <1>1, <2>1, <2>3, <2>4, LegFacts DEF Waiting
<1>3. symBr # None => symBr \in Brackets
  BY DEF SafeBook, TypeOK
<1>4. (\A b \in Brackets : Stop(b) # o) /\ (\A x \in Exits : x # o)
  BY <1>1, LegFacts
<1> QED BY <1>1, <1>2, <1>3, <1>4, CancelStep

-----------------------------------------------------------------------------
(* Entry and matching.                                                     *)

(* A signal is admitted only when nobody holds the symbol, so its bracket  *)
(* is the only one in the market.                                          *)
LEMMA EnterStep ==
  ASSUME CalmDesk, SafeBook, TypeOK', NEW q \in Qtys, NEW run \in Runners, EnterSignal(q, run)
  PROVE  SafeBook'
<1> DEFINE b == nb + 1
           nr == [st |-> "PENDING_ENTRY", runner |-> run, total |-> q, rem |-> q,
                  t1 |-> Halve(q), t2 |-> q - Halve(q), stop |-> 0]
<1>1. PICK c \in Brackets : c = nb + 1 /\ ~(c <= nb)
  BY BoundsAssumption DEF EnterSignal, SafeBook, TypeOK, Brackets
<1>2. /\ phase = "idle" /\ ~closing /\ nb' = c
      /\ ord' = [ord EXCEPT ![Entry(c)] = Accepted(q)]
      /\ br' = [br EXCEPT ![c] = nr]
      /\ symBr' = c /\ mapped' = mapped \cup {c} /\ entryMap' = entryMap \cup {c}
      /\ UNCHANGED <<pos, xpar, pend, phase, room, halted, closing, trade>>
      /\ (symBr # None => br[symBr].st \notin {"PENDING_ENTRY", "ACTIVE", "TARGET_1_HIT"})
  BY <1>1 DEF EnterSignal, Idle
<1>u. ~Unsold
  BY DEF EnterSignal, CalmDesk
<1>3. /\ symBr = None /\ pos = 0 /\ NoExit
      /\ (\A o \in Orders : pend[o] = 0) /\ (\A d : ~Paying(d))
  BY <1>2, <1>u, QuietBook DEF Untaken, Waiting, Guarded, Live, Unsold, Brackets, None
<1>4. q \in Nat /\ q > 0
  BY BoundsAssumption
<1>5. nr.st = "PENDING_ENTRY" /\ nr.rem = q /\ nr.total = q
  OBVIOUS
<1> HIDE DEF nr
<1>6. br'[c] = nr /\ \A d \in Brackets : d # c => br'[d] = br[d]
  BY <1>2 DEF SafeBook, TypeOK
<1>7. \A o \in Orders : ord'[o] = IF o = Entry(c) THEN Accepted(q) ELSE ord[o]
  BY <1>2 DEF SafeBook, TypeOK
<1>8. Fresh(c) /\ Retired(c)
  BY <1>1, <1>3, LegFacts DEF SafeBook, Numbered, OthersRetired, Brackets, None
<1>9. BatchIsOver' /\ NoExit'
  BY <1>2, <1>3, <1>7, LegFacts DEF BatchIsOver, NoExit, Working
<1>10. Entry(c) \in Orders /\ Entry(c) \notin Exits
  BY LegFacts
<1>11. ord'[Entry(c)].st = "ACCEPTED" /\ ord'[Entry(c)].rem = q /\ ord'[Entry(c)].filled = 0
  BY <1>7, <1>10 DEF Accepted
<1>12. OrdersAreOpen'
  BY <1>4, <1>7, <1>10, <1>11, LegFacts DEF SafeBook, OrdersAreOpen, Working
<1>13. Numbered'
  <2> SUFFICES ASSUME NEW d \in Brackets
               PROVE  IF d <= nb' THEN br'[d].st # "NONE" ELSE Fresh(d)'
    BY DEF Numbered
  <2>0. nb \in Nat
    BY DEF SafeBook, TypeOK
  <2>1. CASE d = c
    BY <1>1, <1>2, <1>5, <1>6, <2>0, <2>1
  <2>2. CASE d # c
    <3>1. d <= nb' <=> d <= nb
      BY <1>1, <1>2, <2>0, <2>2 DEF Brackets
    <3>2. IF d <= nb THEN br[d].st # "NONE" ELSE Fresh(d)
      BY DEF SafeBook, Numbered
    <3> QED BY <1>2, <1>6, <2>2, <3>1, <3>2 DEF Fresh
  <2> QED BY <2>1, <2>2
<1>14. OthersRetired'
  <2> SUFFICES ASSUME NEW d \in Brackets, d # c PROVE Retired(d)'
    BY <1>2 DEF OthersRetired
  <2>1. Retired(d)
    BY <1>3 DEF SafeBook, OthersRetired, Brackets, None
  <2>2. \A o \in LegsOf(d) : ord'[o] = ord[o] /\ pend'[o] = 0
    BY <1>2, <1>3, <1>7, LegFacts
  <2> QED BY <1>2, <1>3, <1>6, <2>1, <2>2, RetiredFrame DEF Working
<1>15. Waiting(c)'
  <2>1. \A o \in Children(c) : o \in Orders /\ o \in LegsOf(c) /\ o # Entry(c)
    BY LegFacts
  <2>2. \A o \in Children(c) : ~Working(o)' /\ pend'[o] = 0
    BY <1>2, <1>7, <1>8, <2>1 DEF Retired, Working
  <2>3. Working(Entry(c))'
    BY <1>11 DEF Working, Open
  <2>4. pend'[Entry(c)] = 0 /\ trade'[c].out = 0 /\ ~trade'[c].done
    BY <1>2, <1>3, <1>8, <1>10 DEF Fresh
  <2> QED BY <1>2, <1>3, <1>4, <1>5, <1>6, <1>9, <1>11, <2>2, <2>3, <2>4 DEF Waiting
<1>16. ClosingFlat'
  BY <1>2 DEF ClosingFlat
<1> QED BY <1>9, <1>12, <1>13, <1>14, <1>15, <1>16 DEF SafeBook, Stage

(* A simulator fill takes at least one share and at most what is open.     *)
LEMMA FillFacts ==
  ASSUME SafeBook, NEW o \in Orders, NEW cap \in Nat, Working(o), FillNow(o, cap)
  PROVE  \E q \in Nat :
           /\ q > 0 /\ q <= ord[o].rem
           /\ ord' = [ord EXCEPT ![o] = Filled(@, q)]
           /\ pend' = [pend EXCEPT ![o] = q]
           /\ pos' = (IF Buys(o) THEN pos + q ELSE pos - q)
           /\ ord'[o].rem = ord[o].rem - q /\ ord'[o].filled = ord[o].filled + q
           /\ Working(o)' <=> ord[o].rem # q
           /\ ord[o].rem = q => ord'[o].st = "FILLED"
           /\ ord'[o].st # "ACCEPTED"
           /\ pend'[o] = q
           /\ \A p \in Orders : p # o => ord'[p] = ord[p] /\ pend'[p] = pend[p]
<1> DEFINE q == IF cap = NoCap THEN ord[o].rem ELSE Smaller(ord[o].rem, cap)
<1>1. ord[o].rem \in Nat /\ ord[o].filled \in Nat /\ ord[o].rem > 0
  BY OrderFields DEF SafeBook, OrdersAreOpen
<1>2. q \in Nat /\ q > 0 /\ q <= ord[o].rem
  BY <1>1 DEF Smaller, NoCap
<1>3. /\ ord' = [ord EXCEPT ![o] = Filled(@, q)]
      /\ pend' = [pend EXCEPT ![o] = q]
      /\ pos' = (IF Buys(o) THEN pos + q ELSE pos - q)
  BY DEF FillNow
<1> HIDE DEF q
<1>4. ord'[o] = Filled(ord[o], q) /\ pend'[o] = q
      /\ \A p \in Orders : p # o => ord'[p] = ord[p] /\ pend'[p] = pend[p]
  BY <1>3 DEF SafeBook, TypeOK
<1>5. /\ ord'[o].rem = ord[o].rem - q /\ ord'[o].filled = ord[o].filled + q
      /\ ord'[o].st = (IF ord[o].rem = q THEN "FILLED" ELSE "PARTIALLY_FILLED")
  BY <1>4 DEF Filled
<1>6. /\ Working(o)' <=> ord[o].rem # q
      /\ ord[o].rem = q => ord'[o].st = "FILLED"
      /\ ord'[o].st # "ACCEPTED"
  BY <1>5 DEF Working, Open
<1> QED BY <1>2, <1>3, <1>4, <1>5, <1>6

(* A leg buys when it is an entry.                                         *)
LEMMA BuyerFacts ==
  ASSUME NEW b \in Brackets
  PROVE  Buys(Entry(b)) /\ ~Buys(Stop(b)) /\ ~Buys(T1(b)) /\ ~Buys(T2(b))
BY LegFacts, IdsAssumption DEF Buys

(* An order of a bracket that works, or that filled in the running batch,  *)
(* is the entry of a waiting owner or a child of a guarded one.            *)
LEMMA WorkerIsOwner ==
  ASSUME SafeBook, NEW o \in Orders, o \notin Exits, Working(o) \/ pend[o] > 0
  PROVE  \E b \in Brackets : \/ Waiting(b) /\ o = Entry(b)
                             \/ Guarded(b) /\ o \in {Stop(b), T1(b), T2(b)}
<1>1. pend[o] \in Nat
  BY OrderFields DEF SafeBook
<1>2. PICK c \in Brackets : o \in LegsOf(c)
  BY LegFacts
<1>3. c = symBr /\ c # None
  BY <1>1, <1>2 DEF SafeBook, OthersRetired, Retired, Brackets, None
<1>4. ASSUME NEW d \in Brackets, Waiting(d) PROVE o = Entry(d)
  BY <1>1, <1>2, <1>3, <1>4, LegFacts DEF Waiting
<1>5. ASSUME NEW d \in Brackets, Guarded(d) PROVE o \in {Stop(d), T1(d), T2(d)}
  BY <1>1, <1>2, <1>3, <1>5, LegFacts DEF Guarded
<1>6. ASSUME NEW x \in Exits, NEW d \in Brackets \cup {None}, Sale(x, d) PROVE FALSE
  BY <1>1, <1>6 DEF Sale
<1> QED BY <1>3, <1>4, <1>5, <1>6 DEF SafeBook, Stage, Untaken

(* A liquidation that works or has filled is the sale the book is in.      *)
LEMMA SellerIsSale ==
  ASSUME SafeBook, NEW x \in Exits, Working(x) \/ pend[x] > 0
  PROVE  \E b \in Brackets \cup {None} : Sale(x, b)
<1>1. x \in Orders /\ pend[x] \in Nat
  BY LegFacts, OrderFields DEF SafeBook
<1>2. ~NoExit
  BY <1>1 DEF NoExit
<1>3. PICK y \in Exits, b \in Brackets \cup {None} : Sale(y, b)
  BY <1>2 DEF SafeBook, Stage, Untaken, Waiting, Guarded
<1>4. y = x
  BY <1>1, <1>3 DEF Sale
<1> QED BY <1>3, <1>4

(* A batch that fills an order of the owner touches nobody else.           *)
LEMMA MatchFrame ==
  ASSUME SafeBook, ~closing, NoExit, NEW b \in Brackets, symBr = b, NEW o \in LegsOf(b),
         \A p \in Orders : p # o => ord'[p] = ord[p] /\ pend'[p] = pend[p],
         Working(o)' => ord'[o].rem > 0,
         phase' # "idle",
         UNCHANGED <<nb, br, symBr, mapped, entryMap, trade, closing>>
  PROVE  BatchIsOver' /\ OrdersAreOpen' /\ Numbered' /\ OthersRetired' /\ ClosingFlat' /\ NoExit'
<1>1. o \in Orders /\ o \notin Exits
  BY LegFacts
<1>2. BatchIsOver' /\ ClosingFlat'
  BY DEF BatchIsOver, ClosingFlat
<1>3. OrdersAreOpen'
  BY <1>1, LegFacts DEF SafeBook, OrdersAreOpen, Working
<1>4. Numbered'
  BY NumberedFrame DEF SafeBook
<1>5. OthersRetired'
  <2> SUFFICES ASSUME NEW d \in Brackets, d # b PROVE Retired(d)'
    BY DEF OthersRetired
  <2>1. Retired(d)
    BY DEF SafeBook, OthersRetired
  <2>2. \A p \in LegsOf(d) : ord'[p] = ord[p] /\ pend'[p] = 0
    BY <2>1, LegFacts DEF Retired
  <2>3. ~Paying(d)
    BY NobodyPaid DEF NoExit
  <2> QED BY <2>1, <2>2, <2>3, RetiredFrame DEF Working
<1>6. NoExit'
  BY <1>1, LegFacts DEF NoExit, Working
<1> QED BY <1>2, <1>3, <1>4, <1>5, <1>6

(* The stop of a guarded owner fills, in part or in full.                  *)
LEMMA MatchStopStep ==
  ASSUME SafeBook, TypeOK', NEW b \in Brackets, NEW cap \in Caps, MatchStop(b, cap)
  PROVE  SafeBook'
<1> DEFINE o == Stop(b)
<1>1. o \in Orders /\ o \in LegsOf(b) /\ o # Entry(b) /\ o # T1(b) /\ o # T2(b)
      /\ Entry(b) \in Orders /\ T1(b) \in Orders /\ T2(b) \in Orders
      /\ o \notin Exits /\ Exits \subseteq Orders /\ Kind(o) = "stop"
  BY LegFacts
<1>2. Working(o) /\ phase = "idle" /\ ~closing /\ FillNow(o, cap) /\ phase' = "reconcile"
      /\ UNCHANGED <<xpar, nb, br, symBr, mapped, entryMap, room, halted, closing, trade>>
  BY DEF MatchStop, Idle
<1>3. PICK q \in Nat :
           /\ q > 0 /\ q <= ord[o].rem
           /\ pos' = pos - q
           /\ ord'[o].rem = ord[o].rem - q
           /\ Working(o)' <=> ord[o].rem # q
           /\ pend'[o] = q
           /\ \A p \in Orders : p # o => ord'[p] = ord[p] /\ pend'[p] = pend[p]
  BY <1>1, <1>2, FillFacts, BuyerFacts, BoundsAssumption
<1>4. Guarded(b) /\ \A p \in Orders : pend[p] = 0
  <2>1. PICK c \in Brackets : \/ Waiting(c) /\ o = Entry(c)
                              \/ Guarded(c) /\ o \in {Stop(c), T1(c), T2(c)}
    BY <1>1, <1>2, WorkerIsOwner
  <2>2. c = b
    BY <1>1, <2>1, LegFacts
  <2> QED BY <1>1, <1>2, <2>1, <2>2, QuietBook
<1>5. symBr = b /\ ord[o].rem = br[b].rem /\ pos = br[b].rem
  BY <1>1, <1>2, <1>4 DEF Guarded, SafeBook, TypeOK, Order, Bracket
<1>6. br[b].rem \in Nat /\ ord[o].rem \in Nat
  BY <1>1, OrderFields DEF SafeBook, TypeOK, Bracket
<1>7. /\ pend'[Entry(b)] = 0 /\ pend'[T1(b)] = 0 /\ pend'[T2(b)] = 0
      /\ ord'[Entry(b)] = ord[Entry(b)] /\ ord'[T1(b)] = ord[T1(b)] /\ ord'[T2(b)] = ord[T2(b)]
  BY <1>1, <1>3, <1>4
<1>8. /\ OpenShares(T1(b))' = OpenShares(T1(b)) /\ OpenShares(T2(b))' = OpenShares(T2(b))
      /\ OpenT2(b)' = OpenT2(b) /\ OpenBoth(b)' = OpenBoth(b) /\ Live(b)' = Live(b)
      /\ Working(Entry(b))' = Working(Entry(b))
  BY <1>2, <1>7 DEF OpenShares, OpenT2, OpenBoth, Live, Working
<1>10. BatchIsOver' /\ OrdersAreOpen' /\ Numbered' /\ OthersRetired' /\ ClosingFlat' /\ NoExit'
  <2>1. NoExit
    BY <1>4 DEF Guarded
  <2> QED BY <1>1, <1>2, <1>3, <1>5, <1>6, <2>1, MatchFrame
<1>9. Guarded(b)'
  <2>1. IF Working(o)' THEN ord'[o].rem + pend'[o] = br'[b].rem ELSE pend'[o] = br'[b].rem
    BY <1>2, <1>3, <1>5, <1>6
  <2>2. pos' = br'[b].rem - pend'[o] - pend'[T1(b)] - pend'[T2(b)]
    BY <1>2, <1>3, <1>5, <1>6, <1>7
  <2>3. pend[T1(b)] = 0 /\ pend[T2(b)] = 0
    BY <1>1, <1>4
  <2> QED BY <1>2, <1>4, <1>5, <1>7, <1>8, <1>10, <2>1, <2>2, <2>3 DEF Guarded
<1> QED BY <1>9, <1>10 DEF SafeBook, Stage

(* A liquidation that the broker had refused fills, in part or in full.    *)
LEMMA MatchSaleStep ==
  ASSUME SafeBook, TypeOK', NEW x \in Exits, NEW cap \in Caps \cup {NoCap}, MatchOther(x, cap)
  PROVE  SafeBook'
<1>1. /\ Working(x) /\ pend[x] = 0 /\ phase # "reconcile" /\ x \in Orders
      /\ FillNow(x, cap) /\ phase' # "idle"
      /\ UNCHANGED <<xpar, nb, br, symBr, mapped, entryMap, halted, closing, trade>>
  BY LegFacts DEF MatchOther, Idle
<1>2. PICK b \in Brackets \cup {None} : Sale(x, b)
  BY <1>1, SellerIsSale
<1>3. cap \in Nat /\ ~Buys(x)
  BY <1>2, BoundsAssumption, LegFacts DEF NoCap, Sale, Buys
<1>4. PICK q \in Nat :
           /\ q > 0 /\ q <= ord[x].rem
           /\ pos' = pos - q
           /\ ord'[x].rem = ord[x].rem - q
           /\ Working(x)' <=> ord[x].rem # q
           /\ ord[x].rem = q => ord'[x].st = "FILLED"
           /\ pend'[x] = q
           /\ \A p \in Orders : p # x => ord'[p] = ord[p] /\ pend'[p] = pend[p]
  BY <1>1, <1>3, FillFacts
<1>5. pos = ord[x].rem /\ pos \in Nat /\ pos > 0
  BY <1>1, <1>2, <1>4, OrderFields DEF SafeBook, Sale, OpenShares
<1>6. pos' = OpenShares(x)' /\ (Working(x)' => ord'[x].rem > 0)
  BY <1>4, <1>5 DEF OpenShares
<1>7. \A p \in Orders : p # x => ~Working(p)' /\ pend'[p] = 0
  BY <1>2, <1>4 DEF Sale, Working
<1>8. b # None => /\ b \in Brackets /\ ~trade[b].done
                  /\ trade[b].out + pos = br[b].total /\ trade[b].out \in Nat
  <2> SUFFICES ASSUME b # None
               PROVE  /\ b \in Brackets /\ ~trade[b].done
                      /\ trade[b].out + pos = br[b].total /\ trade[b].out \in Nat
    OBVIOUS
  <2>1. b \in Brackets /\ trade[b].out \in Nat
    BY DEF SafeBook, TypeOK
  <2>2. ~trade[b].done /\ trade[b].out + pend[x] + pos = br[b].total
    BY <1>2, <1>5 DEF Sale
  <2> QED BY <1>1, <1>5, <2>1, <2>2
<1>9. Sale(x, b)'
  <2>1. b # None => trade'[b].out + pend'[x] + pos' = br'[b].total
    BY <1>1, <1>4, <1>5, <1>8
  <2>2. Working(x)' \/ (ord'[x].st = "FILLED" /\ pend'[x] > 0)
    BY <1>4
  <2>3. b # None => IF symBr' = None THEN br'[b].st = "COMPLETED_FLATTEN" ELSE symBr' = b /\ Live(b)'
    BY <1>1, <1>2 DEF Sale, Live
  <2>4. xpar'[x] = b /\ x \notin Covers /\ (b = None => symBr' = None)
    BY <1>1, <1>2 DEF Sale
  <2> QED BY <1>1, <1>6, <1>7, <1>8, <2>1, <2>2, <2>3, <2>4 DEF Sale
<1>10. ~closing
  BY <1>1, <1>5 DEF SafeBook, ClosingFlat, MatchOther, Idle
<1>11. BatchIsOver' /\ OrdersAreOpen' /\ ClosingFlat'
  BY <1>1, <1>6, <1>7, <1>10 DEF BatchIsOver, OrdersAreOpen, ClosingFlat
<1>12. Numbered'
  BY <1>1, NumberedFrame DEF SafeBook
<1>13. OthersRetired'
  <2> SUFFICES ASSUME NEW c \in Brackets, c # symBr PROVE Retired(c)'
    BY <1>1 DEF OthersRetired
  <2>1. Retired(c)
    BY DEF SafeBook, OthersRetired
  <2>2. \A p \in LegsOf(c) : ord'[p] = ord[p] /\ pend'[p] = 0
    BY <1>4, <1>7, LegFacts
  <2>3. \A y \in Exits : pend[y] = 0
    BY <1>1, <1>2, LegFacts DEF Sale
  <2> QED BY <1>1, <2>1, <2>2, <2>3, NobodyPaid, RetiredFrame DEF Working
<1> QED BY <1>9, <1>11, <1>12, <1>13 DEF SafeBook, Stage

(* The entry of a waiting owner, or a target of a guarded one, fills.      *)
LEMMA MatchOtherStep ==
  ASSUME SafeBook, TypeOK', NEW o \in Orders, NEW cap \in Caps \cup {NoCap}, MatchOther(o, cap)
  PROVE  SafeBook'
<1>0. SUFFICES ASSUME o \notin Exits PROVE SafeBook'
  BY MatchSaleStep
<1>1. /\ Working(o) /\ pend[o] = 0 /\ phase # "reconcile" /\ Kind(o) # "stop"
      /\ FillNow(o, cap) /\ phase' # "idle"
      /\ UNCHANGED <<xpar, nb, br, symBr, mapped, entryMap, halted, closing, trade>>
  BY DEF MatchOther, Idle
<1>2. cap \in Nat
  BY BoundsAssumption DEF NoCap
<1>3. PICK q \in Nat :
           /\ q > 0 /\ q <= ord[o].rem
           /\ pos' = (IF Buys(o) THEN pos + q ELSE pos - q)
           /\ ord'[o].rem = ord[o].rem - q /\ ord'[o].filled = ord[o].filled + q
           /\ Working(o)' <=> ord[o].rem # q
           /\ ord[o].rem = q => ord'[o].st = "FILLED"
           /\ ord'[o].st # "ACCEPTED"
           /\ pend'[o] = q
           /\ \A p \in Orders : p # o => ord'[p] = ord[p] /\ pend'[p] = pend[p]
  BY <1>1, <1>2, FillFacts
<1>4. ord[o].rem \in Nat /\ ord[o].filled \in Nat
  BY OrderFields DEF SafeBook
<1>5. PICK b \in Brackets : \/ Waiting(b) /\ o = Entry(b)
                            \/ Guarded(b) /\ o \in {Stop(b), T1(b), T2(b)}
  BY <1>0, <1>1, WorkerIsOwner
<1>6. /\ symBr = b /\ o \in LegsOf(b) /\ o \notin Exits /\ Exits \subseteq Orders
      /\ Entry(b) \in Orders /\ Stop(b) \in Orders /\ T1(b) \in Orders /\ T2(b) \in Orders
      /\ Entry(b) # Stop(b) /\ Entry(b) # T1(b) /\ Entry(b) # T2(b)
      /\ Stop(b) # T1(b) /\ Stop(b) # T2(b) /\ T1(b) # T2(b)
      /\ Children(b) = {Stop(b), T1(b), T2(b)}
  BY <1>5, LegFacts DEF Waiting, Guarded
<1>7. ~closing
  BY <1>0, <1>1 DEF SafeBook, ClosingFlat
<1>8. BatchIsOver' /\ OrdersAreOpen' /\ Numbered' /\ OthersRetired' /\ ClosingFlat' /\ NoExit'
  <2>1. NoExit
    BY <1>5 DEF Waiting, Guarded
  <2> QED BY <1>1, <1>3, <1>4, <1>6, <1>7, <2>1, MatchFrame
<1>10. CASE Waiting(b) /\ o = Entry(b)
  <2>1. \A p \in Children(b) : ~Working(p)' /\ pend'[p] = 0
    BY <1>3, <1>6, <1>10 DEF Waiting, Working
  <2>2. pend'[o] = ord'[o].filled /\ ord'[o].filled + ord'[o].rem = br'[b].total
    BY <1>1, <1>3, <1>4, <1>10 DEF Waiting
  <2>3. pos' = pend'[o]
    BY <1>1, <1>3, <1>10, BuyerFacts DEF Waiting
  <2>4. /\ ~Working(o)' => ord'[o].st = "FILLED" /\ ord'[o].rem = 0
        /\ ord'[o].st # "ACCEPTED"
    BY <1>3, <1>4
  <2>5. Waiting(b)'
    BY <1>1, <1>8, <1>10, <2>1, <2>2, <2>3, <2>4 DEF Waiting
  <2> QED BY <1>8, <2>5 DEF SafeBook, Stage
<1>11. CASE Guarded(b) /\ o \in {T1(b), T2(b)}
  <2>1. pend[Stop(b)] = 0
    <3>1. pend[Stop(b)] \in Nat
      BY <1>6, OrderFields DEF SafeBook
    <3> QED BY <1>1, <1>11, <3>1 DEF Guarded
  <2>2. OpenShares(o)' + pend'[o] = OpenShares(o) + pend[o]
    BY <1>1, <1>3, <1>4 DEF OpenShares
  <2>3. \A p \in {Entry(b), Stop(b), T1(b), T2(b)} : p # o => ord'[p] = ord[p] /\ pend'[p] = pend[p]
    BY <1>3, <1>6
  <2>4. \A p \in {Entry(b), Stop(b), T1(b), T2(b)} :
          p # o => /\ OpenShares(p)' = OpenShares(p) /\ (Working(p)' <=> Working(p))
    BY <2>3 DEF OpenShares, Working
  <2>5. Live(b)' /\ OpenT2(b)' = OpenT2(b) /\ OpenBoth(b)' = OpenBoth(b)
    BY <1>1, <1>11 DEF Guarded, Live, OpenT2, OpenBoth
  <2>6. /\ OpenShares(T1(b))' + pend'[T1(b)] = OpenShares(T1(b)) + pend[T1(b)]
        /\ OpenShares(T2(b))' + pend'[T2(b)] = OpenShares(T2(b)) + pend[T2(b)]
    BY <1>11, <2>2, <2>3, <2>4
  <2>7. ~Buys(o)
    BY <1>11, BuyerFacts
  <2>8. pos' = br'[b].rem - pend'[Stop(b)] - pend'[T1(b)] - pend'[T2(b)]
    <3>1. pend[T1(b)] \in Nat /\ pend[T2(b)] \in Nat /\ br[b].rem \in Nat
      BY <1>6, OrderFields DEF SafeBook, TypeOK, Bracket
    <3>2. CASE o = T1(b)
      BY <1>1, <1>3, <1>6, <1>11, <2>1, <2>3, <2>7, <3>1, <3>2 DEF Guarded
    <3>3. CASE o = T2(b)
      BY <1>1, <1>3, <1>6, <1>11, <2>1, <2>3, <2>7, <3>1, <3>3 DEF Guarded
    <3> QED BY <1>11, <3>2, <3>3
  <2>9. /\ ord'[Stop(b)] = ord[Stop(b)] /\ pend'[Stop(b)] = pend[Stop(b)]
        /\ pend'[Entry(b)] = pend[Entry(b)]
        /\ (Working(Stop(b))' <=> Working(Stop(b))) /\ (Working(Entry(b))' <=> Working(Entry(b)))
    BY <1>6, <1>11, <2>3, <2>4
  <2>10. Guarded(b)'
    <3> HIDE DEF None, NoCap
    <3> QED BY <1>1, <1>8, <1>11, <2>1, <2>5, <2>6, <2>8, <2>9 DEF Guarded
  <2> QED BY <1>8, <2>10 DEF SafeBook, Stage
<1>12. o # Stop(b)
  BY <1>1, LegFacts
<1> QED BY <1>5, <1>10, <1>11, <1>12

-----------------------------------------------------------------------------
(* Reconciliation.                                                         *)

(* Taking a piece of a fill leaves the rest of it in the batch, and the    *)
(* batch is over when there is no rest.                                    *)
LEMMA TakePieceFacts ==
  ASSUME TypeOK, NEW o \in Orders, NEW q, TakePiece(o, q)
  PROVE  /\ phase # "idle" /\ q \in Nat /\ q > 0 /\ q <= pend[o] /\ pend[o] \in Nat
         /\ pend'[o] = pend[o] - q /\ \A p \in Orders : p # o => pend'[p] = pend[p]
         /\ BatchIsOver'
         /\ phase' \in {"reconcile", "idle"}
<1>1. pend' = [pend EXCEPT ![o] = @ - q] /\ q \in 1 .. pend[o] /\ phase # "idle"
  BY DEF TakePiece
<1>2. pend[o] \in Nat /\ q \in Nat /\ q > 0 /\ q <= pend[o]
  BY <1>1 DEF TypeOK
<1>3. pend'[o] = pend[o] - q /\ \A p \in Orders : p # o => pend'[p] = pend[p]
  BY <1>1 DEF TypeOK
<1>4. \A p \in Orders : pend'[p] \in Nat
  BY <1>2, <1>3 DEF TypeOK
<1>5. phase' = "idle" => \A p \in Orders : ~(pend'[p] > 0)
  BY DEF TakePiece
<1>6. BatchIsOver'
  BY <1>4, <1>5 DEF BatchIsOver
<1> QED BY <1>1, <1>2, <1>3, <1>6 DEF TakePiece

LEMMA TakeFacts ==
  ASSUME TypeOK, NEW o \in Orders, TakeFill(o)
  PROVE  /\ phase # "idle" /\ pend[o] > 0
         /\ pend'[o] = 0 /\ \A p \in Orders : p # o => pend'[p] = pend[p]
         /\ BatchIsOver'
<1>1. TakePiece(o, pend[o])
  BY DEF TakeFill
<1>2. /\ phase # "idle" /\ pend[o] \in Nat /\ pend[o] > 0 /\ pend'[o] = pend[o] - pend[o]
      /\ \A p \in Orders : p # o => pend'[p] = pend[p]
      /\ BatchIsOver'
  BY <1>1, TakePieceFacts
<1> QED BY <1>2

(* Reconciling a fill of the owner touches no other bracket.               *)
LEMMA OwnerFrame ==
  ASSUME SafeBook, ~closing, NoExit, NEW b \in Brackets, symBr = b,
         \A p \in Orders : p \notin LegsOf(b) => ord'[p] = ord[p] /\ pend'[p] = pend[p],
         \A p \in LegsOf(b) : Working(p)' => ord'[p].rem > 0,
         \A c \in Brackets : c # b => br'[c] = br[c] /\ trade'[c] = trade[c],
         br[b].st # "NONE", br'[b].st # "NONE",
         symBr' \in {symBr, None}, symBr' = None => Retired(b)',
         mapped' \subseteq mapped, entryMap' \subseteq entryMap, nb' = nb, closing' = closing
  PROVE  OrdersAreOpen' /\ Numbered' /\ OthersRetired' /\ ClosingFlat' /\ NoExit'
<1>1. OrdersAreOpen' /\ NoExit'
  BY LegFacts DEF SafeBook, OrdersAreOpen, NoExit, Working
<1>2. Numbered'
  <2>1. \A c \in Brackets : br[c].st = "NONE" <=> br'[c].st = "NONE"
    OBVIOUS
  <2>2. \A c \in Brackets : br[c].st = "NONE" => trade'[c] = trade[c]
    OBVIOUS
  <2> QED BY <2>1, <2>2, NumberedFrame DEF SafeBook
<1>3. OthersRetired'
  <2>1. ASSUME NEW c \in Brackets, c # b PROVE Retired(c)'
    <3>1. Retired(c)
      BY <2>1 DEF SafeBook, OthersRetired
    <3>2. \A p \in LegsOf(c) : ord'[p] = ord[p] /\ pend'[p] = 0
      BY <2>1, <3>1, LegFacts DEF Retired
    <3>3. ~Paying(c)
      BY NobodyPaid DEF NoExit
    <3> QED BY <2>1, <3>1, <3>2, <3>3, RetiredFrame DEF Working
  <2> QED BY <2>1 DEF OthersRetired
<1>4. ClosingFlat'
  BY DEF ClosingFlat
<1> QED BY <1>1, <1>2, <1>3, <1>4

(* A leg with an unreconciled fill belongs to the owner, and the session   *)
(* boundary is not running.                                                *)
LEMMA FilledLeg ==
  ASSUME SafeBook, NEW b \in Brackets, NEW o \in LegsOf(b), pend[o] > 0
  PROVE  /\ ~closing
         /\ \/ Waiting(b) /\ o = Entry(b)
            \/ Guarded(b) /\ o \in {Stop(b), T1(b), T2(b)}
<1>1. o \in Orders /\ o \notin Exits
  BY LegFacts
<1>2. ~closing
  BY <1>1 DEF SafeBook, ClosingFlat
<1>3. PICK c \in Brackets : \/ Waiting(c) /\ o = Entry(c)
                            \/ Guarded(c) /\ o \in {Stop(c), T1(c), T2(c)}
  BY <1>1, WorkerIsOwner
<1>4. c = b
  BY <1>3, LegFacts
<1> QED BY <1>2, <1>3, <1>4

(* The fill of a waiting owner's entry: the bracket becomes as large as    *)
(* what filled, and its stop works for all of it.                          *)
LEMMA ReconcileEntryStep ==
  ASSUME SafeBook, TypeOK', NEW b \in Brackets, ReconcileEntry(b)
  PROVE  SafeBook'
<1> DEFINE o == Entry(b)
           n == Smaller(pend[o], br[b].total)
           hasT2 == n > 1 /\ br[b].runner = "TARGET"
           nr == [br[b] EXCEPT !.st = "ACTIVE", !.total = n, !.rem = n,
                               !.t1 = Halve(n), !.t2 = n - Halve(n)]
<1>1. /\ o \in Orders /\ o \in LegsOf(b) /\ o \notin Exits /\ Exits \subseteq Orders
      /\ Stop(b) \in Orders /\ T1(b) \in Orders /\ T2(b) \in Orders
      /\ o # Stop(b) /\ o # T1(b) /\ o # T2(b)
      /\ Stop(b) # T1(b) /\ Stop(b) # T2(b) /\ T1(b) # T2(b)
      /\ LegsOf(b) = {o, Stop(b), T1(b), T2(b)}
      /\ Children(b) = {Stop(b), T1(b), T2(b)}
  BY LegFacts
<1>2. /\ pend[o] > 0 /\ pend'[o] = 0 /\ \A p \in Orders : p # o => pend'[p] = pend[p]
      /\ BatchIsOver'
  BY <1>1, TakeFacts DEF ReconcileEntry, SafeBook
<1>3. ~closing /\ Waiting(b)
  BY <1>1, <1>2, FilledLeg
<1>4. /\ ord[o].rem \in Nat /\ ord[o].filled \in Nat /\ pend[o] \in Nat /\ br[b] \in Bracket
      /\ br[b].total \in Nat
  BY <1>1, OrderFields DEF SafeBook, TypeOK, Bracket
<1>5. n = pend[o] /\ n \in Nat \ {0} /\ n = pos
  BY <1>2, <1>3, <1>4 DEF Smaller, Waiting
<1>6. /\ br' = [br EXCEPT ![b] = nr]
      /\ ord' = [p \in Orders |->
                         CASE p = Stop(b) -> Accepted(n)
                           [] p = T1(b) -> Accepted(Halve(n))
                           [] p = T2(b) /\ hasT2 -> Accepted(n - Halve(n))
                           [] p = o /\ ord[o].st = "PARTIALLY_FILLED" ->
                                [ord[o] EXCEPT !.st = "CANCELLED"]
                           [] OTHER -> ord[p]]
      /\ entryMap' \subseteq entryMap
      /\ UNCHANGED <<pos, xpar, nb, symBr, mapped, halted, closing, trade>>
  BY <1>3 DEF ReconcileEntry, Waiting
<1>7. Halve(n) \in 1 .. n /\ (hasT2 => n - Halve(n) > 0)
  BY <1>5, HalveType DEF Halve
<1>8. /\ nr.st = "ACTIVE" /\ nr.total = n /\ nr.rem = n
      /\ nr.t1 = Halve(n) /\ nr.t2 = n - Halve(n) /\ nr.runner = br[b].runner
  BY <1>4 DEF Bracket
<1>9. br'[b] = nr /\ \A c \in Brackets : c # b => br'[c] = br[c]
  <2> HIDE DEF nr
  <2> QED BY <1>6 DEF SafeBook, TypeOK
<1> HIDE DEF nr, n
<1>10. /\ ord'[Stop(b)] = Accepted(n) /\ ord'[T1(b)] = Accepted(Halve(n))
       /\ ord'[T2(b)] = IF hasT2 THEN Accepted(n - Halve(n)) ELSE ord[T2(b)]
       /\ ord'[o] = IF ord[o].st = "PARTIALLY_FILLED" THEN [ord[o] EXCEPT !.st = "CANCELLED"]
                                                      ELSE ord[o]
       /\ \A p \in Orders : p \notin LegsOf(b) => ord'[p] = ord[p]
  <2> HIDE DEF hasT2, o
  <2> QED BY <1>1, <1>6
<1>11. Working(Stop(b))' /\ ord'[Stop(b)].rem = n
  BY <1>10 DEF Working, Open, Accepted
<1>12. OpenShares(T1(b))' = Halve(n) /\ ord'[T1(b)].rem = Halve(n)
  BY <1>10 DEF Working, Open, Accepted, OpenShares
<1>13. /\ OpenShares(T2(b))' = IF hasT2 THEN n - Halve(n) ELSE 0
       /\ Working(T2(b))' => hasT2 /\ ord'[T2(b)].rem = n - Halve(n)
  <2>1. ~Working(T2(b))
    BY <1>1, <1>3 DEF Waiting
  <2> QED BY <1>10, <2>1 DEF Working, Open, Accepted, OpenShares
<1>14. ~Working(o)'
  <2>1. ord[o] \in Order
    BY <1>1, OrderFields DEF SafeBook
  <2>2. CASE ord[o].st = "PARTIALLY_FILLED"
    <3>1. ord'[o].st = "CANCELLED"
      BY <1>10, <2>1, <2>2 DEF Order
    <3> QED BY <3>1 DEF Working, Open
  <2>3. CASE ord[o].st # "PARTIALLY_FILLED"
    <3>1. ord[o].st # "ACCEPTED"
      BY <1>2, <1>3, <1>4 DEF Waiting
    <3> QED BY <1>10, <2>3, <3>1 DEF Working, Open
  <2> QED BY <2>2, <2>3
<1>15. /\ Live(b)' /\ OpenT2(b)' = (IF br[b].runner = "TARGET" THEN n - Halve(n) ELSE 0)
       /\ OpenBoth(b)' <= n
  <2>1. Live(b)' /\ OpenT2(b)' = (IF br[b].runner = "TARGET" THEN n - Halve(n) ELSE 0)
        /\ OpenBoth(b)' = Halve(n) + OpenT2(b)'
    BY <1>8, <1>9 DEF Live, OpenT2, OpenBoth
  <2>2. Halve(n) \in Nat /\ Halve(n) <= n
    BY <1>5, <1>7
  <2> QED BY <1>5, <2>1, <2>2
<1>16. OpenShares(T2(b))' \in Nat /\ OpenT2(b)' \in Nat /\ OpenShares(T2(b))' <= OpenT2(b)'
  BY <1>5, <1>7, <1>13, <1>15
<1>17. pend'[o] = 0 /\ pend'[Stop(b)] = 0 /\ pend'[T1(b)] = 0 /\ pend'[T2(b)] = 0 /\ NoExit'
  <2>1. pend'[o] = 0 /\ pend'[Stop(b)] = 0 /\ pend'[T1(b)] = 0 /\ pend'[T2(b)] = 0
    BY <1>1, <1>2, <1>3 DEF Waiting
  <2>2. \A x \in Exits : x \in Orders /\ x \notin LegsOf(b) /\ x # o
    BY <1>1, LegFacts
  <2>3. NoExit'
    BY <1>2, <1>3, <1>10, <2>2 DEF Waiting, NoExit, Working
  <2> QED BY <2>1, <2>3
<1>18. Guarded(b)'
  <2>1. br'[b].rem = n /\ br'[b].total = n /\ br'[b].t1 = Halve(n)
    BY <1>8, <1>9
  <2>2. pos' = n /\ symBr' = b /\ b \in mapped' /\ trade'[b].out = 0 /\ ~trade'[b].done
    BY <1>3, <1>5, <1>6 DEF Waiting
  <2>3. /\ OpenShares(T1(b))' + pend'[T1(b)] <= br'[b].t1
        /\ OpenShares(T2(b))' + pend'[T2(b)] <= OpenT2(b)'
        /\ OpenBoth(b)' <= br'[b].rem /\ br'[b].rem > 0
        /\ pos' = br'[b].rem - pend'[Stop(b)] - pend'[T1(b)] - pend'[T2(b)]
        /\ trade'[b].out + br'[b].rem = br'[b].total
        /\ ord'[Stop(b)].rem + pend'[Stop(b)] = br'[b].rem
    BY <1>5, <1>7, <1>11, <1>12, <1>15, <1>16, <1>17, <2>1, <2>2
  <2> QED BY <1>11, <1>14, <1>15, <1>17, <2>2, <2>3 DEF Guarded
<1>19. OrdersAreOpen' /\ Numbered' /\ OthersRetired' /\ ClosingFlat'
  <2>1. \A p \in LegsOf(b) : Working(p)' => ord'[p].rem > 0
    <3>1. Working(o)' => FALSE
      BY <1>14
    <3>2. ord'[Stop(b)].rem > 0 /\ ord'[T1(b)].rem > 0
      BY <1>5, <1>7, <1>11, <1>12
    <3>3. Working(T2(b))' => ord'[T2(b)].rem > 0
      BY <1>7, <1>13
    <3> HIDE DEF o
    <3> QED BY <1>1, <3>1, <3>2, <3>3
  <2>2. symBr = b /\ br[b].st # "NONE" /\ br'[b].st # "NONE" /\ b # None /\ NoExit
    BY <1>3, <1>8, <1>9 DEF Waiting, Brackets, None
  <2> QED BY <1>1, <1>2, <1>3, <1>6, <1>9, <1>10, <2>1, <2>2, OwnerFrame
<1> QED BY <1>2, <1>18, <1>19 DEF SafeBook, Stage

(* Tallying the exit of b changes no other row, and a completed row holds  *)
(* the whole tally.                                                        *)
LEMMA TradeFacts ==
  ASSUME TypeOK, NEW b \in Brackets, NEW q \in Nat, ~trade[b].done
  PROVE  /\ Tally(trade, b, q)[b].out = trade[b].out + q /\ ~Tally(trade, b, q)[b].done
         /\ Record(Tally(trade, b, q), b)[b].out = 0 /\ Record(Tally(trade, b, q), b)[b].done
         /\ Record(Tally(trade, b, q), b)[b].rec = trade[b].out + q
         /\ \A c \in Brackets : c # b => /\ Tally(trade, b, q)[c] = trade[c]
                                         /\ Record(Tally(trade, b, q), b)[c] = trade[c]
<1> DEFINE t == Tally(trade, b, q)
<1>1. t \in [Brackets -> [out : Nat, rec : Nat, done : BOOLEAN]]
  BY TradeType DEF TypeOK
<1>2. t[b].out = trade[b].out + q /\ t[b].done = trade[b].done
      /\ \A c \in Brackets : c # b => t[c] = trade[c]
  BY DEF Tally, TypeOK
<1> HIDE DEF t
<1>3. Record(t, b) = [t EXCEPT ![b] = [out |-> 0, rec |-> t[b].out, done |-> TRUE]]
  BY <1>2 DEF Record
<1>4. Record(t, b)[b] = [out |-> 0, rec |-> t[b].out, done |-> TRUE]
      /\ \A c \in Brackets : c # b => Record(t, b)[c] = t[c]
  BY <1>1, <1>3
<1> QED BY <1>2, <1>4 DEF t

(* When the last share of a guarded owner is reconciled the bracket        *)
(* completes: it leaves the market, its row holds every share.             *)
LEMMA CompleteStep ==
  ASSUME SafeBook, TypeOK', NEW b \in Brackets, Guarded(b), ~closing,
         NEW o \in {Stop(b), T1(b), T2(b)}, TakeFill(o), pend[o] = br[b].rem,
         NEW st \in {"COMPLETED_STOP", "COMPLETED_PROFIT"}, Complete(b, st, pend[o]),
         UNCHANGED <<pos, xpar, nb, entryMap, halted, closing>>
  PROVE  SafeBook'
<1> DEFINE q == pend[o]
<1>1. /\ LegsOf(b) = {Entry(b), Stop(b), T1(b), T2(b)} /\ LegsOf(b) \subseteq Orders
      /\ LegsOf(b) \cap Exits = {} /\ Exits \subseteq Orders
      /\ Children(b) = {Stop(b), T1(b), T2(b)} /\ o \in Orders /\ o \in LegsOf(b)
      /\ Entry(b) \notin Children(b)
      /\ Stop(b) # T1(b) /\ Stop(b) # T2(b) /\ T1(b) # T2(b)
  BY LegFacts
<1>2. /\ pend[o] > 0 /\ pend'[o] = 0 /\ \A p \in Orders : p # o => pend'[p] = pend[p]
      /\ BatchIsOver'
  BY <1>1, TakeFacts DEF SafeBook
<1>3. /\ br' = [br EXCEPT ![b] = [@ EXCEPT !.st = st, !.rem = 0]]
      /\ ord' = Cancel(ord, Children(b))
      /\ symBr' = None
      /\ mapped' = mapped \ {b}
      /\ trade' = Record(Tally(trade, b, q), b)
  BY DEF Complete
<1>4. /\ symBr = b /\ br[b].st # "NONE" /\ ~trade[b].done /\ trade[b].out + br[b].rem = br[b].total
      /\ q \in Nat /\ b # None
  BY <1>1, OrderFields DEF Guarded, Live, SafeBook, Brackets, None
<1>5. /\ pend[Stop(b)] \in Nat /\ pend[T1(b)] \in Nat /\ pend[T2(b)] \in Nat /\ br[b].rem \in Nat
      /\ OpenShares(T1(b)) \in Nat /\ OpenShares(T2(b)) \in Nat
      /\ br[b].t1 \in Nat /\ OpenT2(b) \in Nat
  BY <1>1, OrderFields DEF SafeBook, TypeOK, Bracket, OpenShares, OpenT2
<1>6. pos' = 0 /\ \A p \in {Stop(b), T1(b), T2(b)} : p # o => pend[p] = 0
  <2>1. pos = br[b].rem - pend[Stop(b)] - pend[T1(b)] - pend[T2(b)]
        /\ pend[T1(b)] <= br[b].t1 /\ pend[T2(b)] <= OpenT2(b)
        /\ br[b].t1 + OpenT2(b) <= br[b].rem
    BY <1>5 DEF Guarded, OpenBoth
  <2>2. CASE o = Stop(b)
    BY <1>2, <1>5, <2>1, <2>2 DEF Guarded
  <2>3. CASE o = T1(b) \/ o = T2(b)
    <3>1. pend[Stop(b)] = 0
      BY <1>2, <1>5, <2>3 DEF Guarded
    <3> QED BY <1>2, <1>5, <2>1, <2>3, <3>1
  <2> QED BY <2>2, <2>3
<1>7. /\ br'[b].st = st /\ br'[b].total = br[b].total /\ br'[b].rem = 0
      /\ \A c \in Brackets : c # b => br'[c] = br[c]
  BY <1>3 DEF SafeBook, TypeOK, Bracket
<1>8. /\ trade'[b].rec = br'[b].total /\ trade'[b].out = 0
      /\ \A c \in Brackets : c # b => trade'[c] = trade[c]
  BY <1>3, <1>4, <1>7, TradeFacts DEF SafeBook
<1>9. \A p \in Orders : /\ Open(ord'[p].st) <=> Working(p) /\ p \notin Children(b)
                        /\ p \notin Children(b) => ord'[p] = ord[p]
  BY <1>3, CancelFacts DEF SafeBook, TypeOK, Working
<1>10. \A p \in LegsOf(b) : ~Working(p)' /\ pend'[p] = 0
  BY <1>1, <1>2, <1>6, <1>9 DEF Guarded, Working
<1>11. Retired(b)'
  <2>1. Booked(b)'
    BY <1>4, <1>7, <1>8 DEF Booked, SafeBook, TypeOK, Bracket
  <2> QED BY <1>7, <1>10, <2>1 DEF Retired
<1>13. OrdersAreOpen' /\ Numbered' /\ OthersRetired' /\ ClosingFlat' /\ NoExit'
  <2>1. \A p \in Orders : p \notin LegsOf(b) => ord'[p] = ord[p] /\ pend'[p] = pend[p]
    BY <1>1, <1>2, <1>9
  <2>2. \A p \in LegsOf(b) : Working(p)' => ord'[p].rem > 0
    BY <1>10
  <2>3. br'[b].st # "NONE" /\ symBr' = None /\ mapped' \subseteq mapped /\ NoExit
    BY <1>3, <1>7 DEF Guarded
  <2> QED BY <1>4, <1>7, <1>8, <1>11, <2>1, <2>2, <2>3, OwnerFrame
<1>12. Stage'
  BY <1>3, <1>6, <1>13 DEF Stage, Untaken
<1> QED BY <1>2, <1>12, <1>13 DEF SafeBook

(* When a fill of a guarded owner leaves r shares, and the stop works for  *)
(* r and the targets offer no more, the owner is still guarded.            *)
LEMMA ShrinkStep ==
  ASSUME SafeBook, TypeOK', NEW b \in Brackets, Guarded(b), ~closing,
         NEW o \in {Stop(b), T1(b), T2(b)}, TakeFill(o),
         NEW r \in Nat, r > 0, br[b].rem - pend[o] = r,
         \A c \in Brackets : c # b => br'[c] = br[c],
         Live(b)', br'[b].rem = r, br'[b].total = br[b].total,
         Working(Stop(b))', ord'[Stop(b)].rem = r, ~Working(Entry(b))',
         OpenShares(T1(b))' + pend'[T1(b)] <= br'[b].t1,
         OpenShares(T2(b))' + pend'[T2(b)] <= OpenT2(b)',
         OpenBoth(b)' <= r,
         Working(T1(b))' => ord'[T1(b)].rem > 0, Working(T2(b))' => ord'[T2(b)].rem > 0,
         \A p \in Orders : p \notin LegsOf(b) => ord'[p] = ord[p],
         o = Stop(b) \/ pend[Stop(b)] = 0,
         trade' = Tally(trade, b, pend[o]),
         UNCHANGED <<pos, xpar, nb, symBr, mapped, entryMap, halted, closing>>
  PROVE  SafeBook'
<1>1. /\ LegsOf(b) = {Entry(b), Stop(b), T1(b), T2(b)} /\ LegsOf(b) \subseteq Orders
      /\ LegsOf(b) \cap Exits = {} /\ Exits \subseteq Orders
      /\ o \in Orders /\ o \in LegsOf(b)
      /\ Entry(b) # Stop(b) /\ Entry(b) # T1(b) /\ Entry(b) # T2(b)
      /\ Stop(b) # T1(b) /\ Stop(b) # T2(b) /\ T1(b) # T2(b)
  BY LegFacts
<1>2. /\ pend[o] > 0 /\ pend'[o] = 0 /\ \A p \in Orders : p # o => pend'[p] = pend[p]
      /\ BatchIsOver'
  BY <1>1, TakeFacts DEF SafeBook
<1>3. /\ symBr = b /\ br[b].st # "NONE" /\ br'[b].st # "NONE" /\ b # None /\ ~trade[b].done
      /\ trade[b].out + br[b].rem = br[b].total /\ pend[Entry(b)] = 0
      /\ pos = br[b].rem - pend[Stop(b)] - pend[T1(b)] - pend[T2(b)]
  BY DEF Guarded, Live, Brackets, None
<1>4. /\ pend[Stop(b)] \in Nat /\ pend[T1(b)] \in Nat /\ pend[T2(b)] \in Nat /\ br[b].rem \in Nat
      /\ pend[o] \in Nat /\ trade[b].out \in Nat /\ br[b].total \in Nat
  BY <1>1, OrderFields DEF SafeBook, TypeOK, Bracket
<1>5. /\ trade'[b].out = trade[b].out + pend[o] /\ ~trade'[b].done
      /\ \A c \in Brackets : c # b => trade'[c] = trade[c]
  BY <1>3, <1>4, TradeFacts DEF SafeBook
<1>6. pend'[Stop(b)] = 0 /\ pend'[Entry(b)] = 0
  BY <1>1, <1>2, <1>3
<1>7. pos' = br'[b].rem - pend'[Stop(b)] - pend'[T1(b)] - pend'[T2(b)]
  <2>1. CASE o = Stop(b)
    BY <1>1, <1>2, <1>3, <1>4, <2>1
  <2>2. CASE o = T1(b)
    BY <1>1, <1>2, <1>3, <1>4, <2>2
  <2>3. CASE o = T2(b)
    BY <1>1, <1>2, <1>3, <1>4, <2>3
  <2> QED BY <2>1, <2>2, <2>3
<1>8. trade'[b].out + br'[b].rem = br'[b].total
  BY <1>3, <1>4, <1>5
<1>10. OrdersAreOpen' /\ Numbered' /\ OthersRetired' /\ ClosingFlat' /\ NoExit'
  <2>1. \A p \in Orders : p \notin LegsOf(b) => ord'[p] = ord[p] /\ pend'[p] = pend[p]
    BY <1>1, <1>2
  <2>2. \A p \in LegsOf(b) : Working(p)' => ord'[p].rem > 0
    BY <1>1
  <2>3. NoExit
    BY DEF Guarded
  <2> QED BY <1>3, <1>5, <2>1, <2>2, <2>3, OwnerFrame
<1>9. Guarded(b)'
  <2>1. symBr' = b /\ b \in mapped'
    BY DEF Guarded
  <2>2. ord'[Stop(b)].rem + pend'[Stop(b)] = br'[b].rem
    BY <1>6
  <2>3. ~(pend'[Stop(b)] > 0) /\ br'[b].rem > 0 /\ OpenBoth(b)' <= br'[b].rem
    BY <1>6
  <2> QED BY <1>5, <1>6, <1>7, <1>8, <1>10, <2>1, <2>2, <2>3 DEF Guarded
<1> QED BY <1>2, <1>9, <1>10 DEF SafeBook, Stage

(* Resizing and offering touch one order, and only one that works.         *)
LEMMA ResizeFacts ==
  ASSUME NEW f \in [Orders -> Order], NEW o \in Orders, NEW q \in Nat
  PROVE  /\ Resize(f, o, q) \in [Orders -> Order]
         /\ \A p \in Orders : p # o => Resize(f, o, q)[p] = f[p]
         /\ Resize(f, o, q)[o].st = f[o].st
         /\ Open(f[o].st) => Resize(f, o, q)[o].rem = q
         /\ ~Open(f[o].st) => Resize(f, o, q)[o] = f[o]
<1>1. Resize(f, o, q) \in [Orders -> Order]
  BY ResizeType
<1>2. f[o] \in Order
  OBVIOUS
<1>3. CASE Open(f[o].st)
  <2>1. Resize(f, o, q) = [f EXCEPT ![o] = [f[o] EXCEPT !.rem = q]]
    BY <1>3 DEF Resize
  <2>2. [f[o] EXCEPT !.rem = q].st = f[o].st /\ [f[o] EXCEPT !.rem = q].rem = q
    BY <1>2 DEF Order
  <2> QED BY <1>1, <1>3, <2>1, <2>2
<1>4. CASE ~Open(f[o].st)
  BY <1>1, <1>4 DEF Resize
<1> QED BY <1>3, <1>4

LEMMA OfferFacts ==
  ASSUME NEW f \in [Orders -> Order], NEW o \in Orders, NEW q \in Nat
  PROVE  /\ Offer(f, o, q) \in [Orders -> Order]
         /\ \A p \in Orders : p # o => Offer(f, o, q)[p] = f[p]
         /\ Open(Offer(f, o, q)[o].st) => Offer(f, o, q)[o].rem = q /\ q > 0
<1>1. CASE q > 0
  BY <1>1, ResizeFacts DEF Offer
<1>2. CASE ~(q > 0)
  <2>1. Offer(f, o, q) = Cancel(f, {o})
    BY <1>2 DEF Offer
  <2>2. \A p \in Orders : /\ Open(Cancel(f, {o})[p].st) <=> Open(f[p].st) /\ p \notin {o}
                          /\ p \notin {o} => Cancel(f, {o})[p] = f[p]
    BY CancelFacts
  <2> QED BY <2>1, <2>2, CancelType
<1> QED BY <1>1, <1>2

(* A stop fill: the last one completes the bracket, a partial one scales   *)
(* the targets down to what is left.                                       *)
LEMMA ReconcileStopStep ==
  ASSUME SafeBook, TypeOK', NEW b \in Brackets, ReconcileStop(b)
  PROVE  SafeBook'
<1> DEFINE o == Stop(b)
           q == pend[o]
           r == Floor0(br[b].rem - q)
<1>1. /\ LegsOf(b) = {Entry(b), Stop(b), T1(b), T2(b)} /\ LegsOf(b) \subseteq Orders
      /\ o \in Orders /\ o \in LegsOf(b)
      /\ Entry(b) # Stop(b) /\ Entry(b) # T1(b) /\ Entry(b) # T2(b)
      /\ Stop(b) # T1(b) /\ Stop(b) # T2(b) /\ T1(b) # T2(b)
  BY LegFacts
<1>2. /\ TakeFill(o) /\ UNCHANGED <<pos, xpar, nb, entryMap, halted, closing>>
      /\ pend[o] > 0 /\ pend'[o] = 0 /\ \A p \in Orders : p # o => pend'[p] = pend[p]
  BY <1>1, TakeFacts DEF ReconcileStop, SafeBook
<1>3. ~closing /\ Guarded(b)
  BY <1>1, <1>2, FilledLeg
<1>4. Current(b)
  BY <1>3 DEF Current, Guarded
<1>5. br[b] \in Bracket /\ br[b].rem \in Nat /\ q \in Nat /\ ord[o].rem \in Nat
      /\ br[b].t1 \in Nat /\ br[b].t2 \in Nat /\ br[b].total \in Nat
      /\ ord \in [Orders -> Order] /\ br \in [Brackets -> Bracket]
  BY <1>1, OrderFields DEF SafeBook, TypeOK, Bracket
<1>6. q <= br[b].rem /\ (q < br[b].rem => Working(o) /\ ord[o].rem = br[b].rem - q)
  BY <1>3, <1>5 DEF Guarded
<1>7. r \in Nat /\ r = br[b].rem - q
  BY <1>5, <1>6 DEF Floor0
<1>8. ASSUME Complete(b, "COMPLETED_STOP", q), r = 0 PROVE SafeBook'
  <2>1. pend[o] = br[b].rem /\ o \in {Stop(b), T1(b), T2(b)}
    BY <1>5, <1>7, <1>8
  <2>2. "COMPLETED_STOP" \in {"COMPLETED_STOP", "COMPLETED_PROFIT"}
    OBVIOUS
  <2> HIDE DEF r
  <2> QED BY <1>2, <1>3, <1>8, <2>1, <2>2, CompleteStep
<1>9. ASSUME ScaleTargets(b, r), trade' = Tally(trade, b, q), UNCHANGED <<symBr, mapped>>, r > 0
      PROVE  SafeBook'
  <2>1. Working(o) /\ ord[o].rem = r /\ pend[T1(b)] = 0 /\ pend[T2(b)] = 0
    BY <1>2, <1>3, <1>5, <1>6, <1>7, <1>9 DEF Guarded
  <2>2. OpenShares(T1(b)) <= br[b].t1 /\ OpenShares(T2(b)) <= OpenT2(b)
        /\ ~Working(Entry(b)) /\ Live(b)
    <3>1. OpenShares(T1(b)) \in Nat /\ OpenShares(T2(b)) \in Nat
      BY <1>1, OrderFields DEF SafeBook, OpenShares
    <3> QED BY <1>3, <2>1, <3>1 DEF Guarded
  <2> DEFINE Scaled ==
        /\ \A c \in Brackets : c # b => br'[c] = br[c]
        /\ Live(b)' /\ br'[b].rem = r /\ br'[b].total = br[b].total
        /\ ord'[o] = ord[o] /\ ord'[Entry(b)] = ord[Entry(b)]
        /\ OpenShares(T1(b))' <= br'[b].t1
        /\ OpenShares(T2(b))' <= OpenT2(b)'
        /\ OpenBoth(b)' <= r
        /\ Working(T1(b))' => ord'[T1(b)].rem > 0
        /\ Working(T2(b))' => ord'[T2(b)].rem > 0
        /\ \A p \in Orders : p \notin LegsOf(b) => ord'[p] = ord[p]
  <2>3. ASSUME ~(OpenBoth(b) > r) PROVE Scaled
    <3>1. br' = [br EXCEPT ![b].rem = r] /\ ord' = ord
      BY <1>9, <2>3 DEF ScaleTargets
    <3>2. /\ br'[b].rem = r /\ br'[b].total = br[b].total /\ br'[b].st = br[b].st
          /\ br'[b].t1 = br[b].t1 /\ br'[b].t2 = br[b].t2 /\ br'[b].runner = br[b].runner
          /\ \A c \in Brackets : c # b => br'[c] = br[c]
      BY <1>5, <3>1 DEF Bracket
    <3>3. OpenT2(b)' = OpenT2(b) /\ OpenBoth(b)' = OpenBoth(b) /\ Live(b)'
      BY <2>2, <3>2 DEF OpenT2, OpenBoth, Live
    <3>4. OpenShares(T1(b))' = OpenShares(T1(b)) /\ OpenShares(T2(b))' = OpenShares(T2(b))
          /\ (Working(T1(b))' => ord'[T1(b)].rem > 0) /\ (Working(T2(b))' => ord'[T2(b)].rem > 0)
      BY <1>1, <3>1 DEF OpenShares, Working, SafeBook, OrdersAreOpen
    <3>5. OpenBoth(b) <= r
      BY <1>5, <1>7, <2>3 DEF OpenBoth, OpenT2
    <3>6. Scaled
      BY <2>2, <3>1, <3>2, <3>3, <3>4, <3>5
    <3> QED BY <3>6
  <2>4. ASSUME OpenBoth(b) > r PROVE Scaled
    <3> DEFINE n1 == (br[b].t1 * r) \div OpenBoth(b)
               n2 == r - n1
               g  == IF br[b].t1 > 0 THEN Offer(ord, T1(b), n1) ELSE ord
               nr == [br[b] EXCEPT !.rem = r, !.t1 = n1, !.t2 = IF OpenT2(b) > 0 THEN n2 ELSE br[b].t2]
    <3>1. OpenT2(b) \in Nat /\ OpenBoth(b) \in Nat \ {0} /\ br[b].t1 <= OpenBoth(b)
      BY <1>5, <1>7, <2>4 DEF OpenT2, OpenBoth
    <3>2. n1 \in 0 .. r
      BY <1>5, <1>7, <3>1, ScaledShare
    <3>3. br[b].t1 = 0 => n1 = 0
      <4>1. ASSUME br[b].t1 = 0 PROVE br[b].t1 * r = 0
        BY <1>7, <4>1
      <4>2. \A m \in Nat \ {0} : 0 \div m = 0
        OBVIOUS
      <4> HIDE DEF r
      <4> QED BY <3>1, <4>1, <4>2
    <3>4. br' = [br EXCEPT ![b] = nr] /\ ord' = IF OpenT2(b) > 0 THEN Offer(g, T2(b), n2) ELSE g
      BY <1>9, <2>4 DEF ScaleTargets
    <3> HIDE DEF n1
    <3>5. n1 \in Nat /\ n2 \in Nat /\ n1 + n2 = r
      BY <1>7, <3>2
    <3> HIDE DEF n2, r
    <3>6. /\ nr.rem = r /\ nr.t1 = n1 /\ nr.t2 = (IF OpenT2(b) > 0 THEN n2 ELSE br[b].t2)
          /\ nr.st = br[b].st /\ nr.total = br[b].total /\ nr.runner = br[b].runner
      BY <1>5 DEF Bracket
    <3> HIDE DEF nr
    <3>7. br'[b] = nr /\ \A c \in Brackets : c # b => br'[c] = br[c]
      BY <1>5, <3>4
    <3>8. Live(b)' /\ OpenT2(b)' = IF OpenT2(b) > 0 THEN n2 ELSE 0
      <4>1. OpenT2(b)' = IF br[b].runner = "TARGET" THEN nr.t2 ELSE 0
        BY <3>6, <3>7 DEF OpenT2
      <4>2. OpenT2(b) = IF br[b].runner = "TARGET" THEN br[b].t2 ELSE 0
        BY DEF OpenT2
      <4>3. Live(b)'
        BY <2>2, <3>6, <3>7 DEF Live
      <4> QED BY <1>5, <3>1, <3>6, <4>1, <4>2, <4>3
    <3>9. OpenBoth(b)' <= r
      BY <1>7, <3>5, <3>6, <3>7, <3>8 DEF OpenBoth
    <3>10. /\ g \in [Orders -> Order]
           /\ \A p \in Orders : p # T1(b) => g[p] = ord[p]
           /\ Open(g[T1(b)].st) => g[T1(b)].rem = n1 /\ n1 > 0
      <4>1. CASE br[b].t1 > 0
        BY <1>1, <1>5, <3>5, <4>1, OfferFacts
      <4>2. CASE ~(br[b].t1 > 0)
        <5>1. br[b].t1 = 0 /\ g = ord
          BY <1>5, <4>2
        <5>2. ~Open(ord[T1(b)].st)
          <6>1. Working(T1(b)) => ord[T1(b)].rem > 0
            BY <1>1 DEF SafeBook, OrdersAreOpen
          <6>2. ord[T1(b)].rem \in Nat
            BY <1>1, OrderFields DEF SafeBook
          <6> QED BY <2>2, <5>1, <6>1, <6>2 DEF OpenShares, Working
        <5> QED BY <1>5, <5>1, <5>2
      <4> QED BY <4>1, <4>2
    <3> HIDE DEF g
    <3>11. /\ \A p \in Orders : p # T2(b) => ord'[p] = g[p]
           /\ Open(ord'[T2(b)].st) => OpenT2(b) > 0 /\ ord'[T2(b)].rem = n2 /\ n2 > 0
      <4>1. CASE OpenT2(b) > 0
        BY <1>1, <3>4, <3>5, <3>10, <4>1, OfferFacts
      <4>2. CASE ~(OpenT2(b) > 0)
        <5>1. OpenT2(b) = 0 /\ ord' = g
          BY <3>1, <3>4, <4>2
        <5>2. ~Open(ord[T2(b)].st)
          <6>1. Working(T2(b)) => ord[T2(b)].rem > 0
            BY <1>1 DEF SafeBook, OrdersAreOpen
          <6>2. ord[T2(b)].rem \in Nat
            BY <1>1, OrderFields DEF SafeBook
          <6> QED BY <2>2, <5>1, <6>1, <6>2 DEF OpenShares, Working
        <5> QED BY <1>1, <3>10, <5>1, <5>2
      <4> QED BY <4>1, <4>2
    <3>12. ord'[T1(b)] = g[T1(b)] /\ ord'[o] = ord[o] /\ ord'[Entry(b)] = ord[Entry(b)]
           /\ \A p \in Orders : p \notin LegsOf(b) => ord'[p] = ord[p]
      BY <1>1, <3>10, <3>11
    <3>13. OpenShares(T1(b))' <= n1 /\ (Working(T1(b))' => ord'[T1(b)].rem > 0)
      BY <3>5, <3>10, <3>12 DEF OpenShares, Working
    <3>14. OpenShares(T2(b))' <= OpenT2(b)' /\ (Working(T2(b))' => ord'[T2(b)].rem > 0)
      BY <3>5, <3>8, <3>11 DEF OpenShares, Working
    <3>15. Scaled
      BY <3>6, <3>7, <3>8, <3>9, <3>12, <3>13, <3>14
    <3> QED BY <3>15
  <2>5. Scaled
    BY <2>3, <2>4
  <2>6. Working(o)' /\ ord'[o].rem = r /\ ~Working(Entry(b))'
    BY <2>1, <2>2, <2>5 DEF Working
  <2>7. OpenShares(T1(b))' + pend'[T1(b)] <= br'[b].t1 /\ OpenShares(T2(b))' + pend'[T2(b)] <= OpenT2(b)'
    <3>1. pend'[T1(b)] = 0 /\ pend'[T2(b)] = 0
      BY <1>1, <1>2, <2>1
    <3>2. OpenShares(T1(b))' \in Nat /\ OpenShares(T2(b))' \in Nat
      <4>1. ord'[T1(b)].rem \in Nat /\ ord'[T2(b)].rem \in Nat
        BY <1>1 DEF TypeOK, Order
      <4> QED BY <4>1 DEF OpenShares
    <3> QED BY <2>5, <3>1, <3>2
  <2>8. br[b].rem - pend[o] = r /\ r \in Nat /\ o \in {Stop(b), T1(b), T2(b)}
    BY <1>5, <1>7
  <2>9. /\ \A c \in Brackets : c # b => br'[c] = br[c]
        /\ Live(b)' /\ br'[b].rem = r /\ br'[b].total = br[b].total
        /\ OpenBoth(b)' <= r
        /\ Working(T1(b))' => ord'[T1(b)].rem > 0
        /\ Working(T2(b))' => ord'[T2(b)].rem > 0
        /\ \A p \in Orders : p \notin LegsOf(b) => ord'[p] = ord[p]
    BY <2>5
  <2> HIDE DEF r, Scaled
  <2> QED BY <1>2, <1>3, <1>9, <2>6, <2>7, <2>8, <2>9, ShrinkStep
<1>10. \/ Complete(b, "COMPLETED_STOP", q) /\ r = 0
       \/ ScaleTargets(b, r) /\ trade' = Tally(trade, b, q) /\ UNCHANGED <<symBr, mapped>> /\ r > 0
  BY <1>4 DEF ReconcileStop
<1> HIDE DEF r
<1> QED BY <1>8, <1>9, <1>10

(* A target that filled sold no more than its own share of what remains,   *)
(* the stop has not filled, and it still works for all of the remainder.   *)
LEMMA TargetFacts ==
  ASSUME SafeBook, NEW b \in Brackets, Guarded(b), NEW o \in {T1(b), T2(b)}, pend[o] > 0
  PROVE  /\ pend[Stop(b)] = 0 /\ Working(Stop(b)) /\ ord[Stop(b)].rem = br[b].rem
         /\ o = T1(b) => pend[o] + OpenShares(o) <= br[b].t1
         /\ o = T2(b) => pend[o] + OpenShares(o) <= OpenT2(b)
         /\ pend[o] <= br[b].rem
         /\ Floor0(br[b].rem - pend[o]) = br[b].rem - pend[o]
         /\ br[b].rem - pend[o] \in Nat
<1>1. /\ pend[Stop(b)] \in Nat /\ pend[T1(b)] \in Nat /\ pend[T2(b)] \in Nat
      /\ br[b].rem \in Nat /\ br[b].t1 \in Nat /\ OpenT2(b) \in Nat
      /\ ord[Stop(b)].rem \in Nat
      /\ OpenShares(T1(b)) \in Nat /\ OpenShares(T2(b)) \in Nat
  BY LegFacts, OrderFields DEF SafeBook, TypeOK, Bracket, OpenT2, OpenShares
<1>2. pend[Stop(b)] = 0
  BY <1>1 DEF Guarded
<1>3. Working(Stop(b)) /\ ord[Stop(b)].rem = br[b].rem
  BY <1>1, <1>2 DEF Guarded
<1>4. /\ OpenShares(T1(b)) + pend[T1(b)] <= br[b].t1
      /\ OpenShares(T2(b)) + pend[T2(b)] <= OpenT2(b)
      /\ br[b].t1 + OpenT2(b) <= br[b].rem
  BY DEF Guarded, OpenBoth
<1>5. pend[o] <= br[b].rem /\ pend[o] \in Nat
  BY <1>1, <1>4
<1> QED BY <1>1, <1>2, <1>3, <1>4, <1>5 DEF Floor0

(* The stop is resized to what is left after a target fill.                *)
LEMMA ResizedStop ==
  ASSUME SafeBook, NEW b \in Brackets, Guarded(b), Working(Stop(b)), NEW r \in Nat,
         ord' = Resize(ord, Stop(b), r)
  PROVE  /\ Working(Stop(b))' /\ ord'[Stop(b)].rem = r /\ ~Working(Entry(b))'
         /\ \A p \in Orders : p # Stop(b) => ord'[p] = ord[p]
         /\ OpenShares(T1(b))' = OpenShares(T1(b)) /\ OpenShares(T2(b))' = OpenShares(T2(b))
         /\ Working(T1(b))' => ord'[T1(b)].rem > 0
         /\ Working(T2(b))' => ord'[T2(b)].rem > 0
<1>1. /\ Stop(b) \in Orders /\ T1(b) \in Orders /\ T2(b) \in Orders /\ Entry(b) \in Orders
      /\ Stop(b) # Entry(b) /\ Stop(b) # T1(b) /\ Stop(b) # T2(b)
  BY LegFacts
<1>2. /\ ord'[Stop(b)].st = ord[Stop(b)].st /\ ord'[Stop(b)].rem = r
      /\ \A p \in Orders : p # Stop(b) => ord'[p] = ord[p]
  BY <1>1, ResizeFacts DEF SafeBook, TypeOK, Working
<1>3. ord'[T1(b)] = ord[T1(b)] /\ ord'[T2(b)] = ord[T2(b)] /\ ord'[Entry(b)] = ord[Entry(b)]
  BY <1>1, <1>2
<1>4. ~Working(Entry(b))
  BY DEF Guarded
<1>5. (Working(T1(b)) => ord[T1(b)].rem > 0) /\ (Working(T2(b)) => ord[T2(b)].rem > 0)
  BY <1>1 DEF SafeBook, OrdersAreOpen
<1> QED BY <1>1, <1>2, <1>3, <1>4, <1>5 DEF Working, OpenShares

(* A fill of target 1: what is left is covered by the stop.                *)
LEMMA ReconcileT1Step ==
  ASSUME SafeBook, TypeOK', NEW b \in Brackets, ReconcileT1(b)
  PROVE  SafeBook'
<1> DEFINE o == T1(b)
           q == pend[o]
           r == Floor0(br[b].rem - q)
<1>1. /\ o \in Orders /\ o \in LegsOf(b) /\ T2(b) \in Orders /\ T2(b) # o /\ Stop(b) # o /\ Entry(b) # o
      /\ LegsOf(b) = {Entry(b), Stop(b), T1(b), T2(b)}
      /\ Stop(b) \in LegsOf(b)
  BY LegFacts
<1>2. /\ TakeFill(o) /\ UNCHANGED <<pos, xpar, nb, entryMap, halted, closing>>
      /\ pend[o] > 0 /\ pend'[o] = 0 /\ \A p \in Orders : p # o => pend'[p] = pend[p]
  BY <1>1, TakeFacts DEF ReconcileT1, SafeBook
<1>3. ~closing /\ Guarded(b)
  BY <1>1, <1>2, FilledLeg
<1>4. /\ pend[Stop(b)] = 0 /\ Working(Stop(b))
      /\ q + OpenShares(o) <= br[b].t1 /\ r = br[b].rem - q /\ r \in Nat
  BY <1>2, <1>3, TargetFacts
<1>5. /\ br[b] \in Bracket /\ br[b].rem \in Nat /\ br[b].t1 \in Nat /\ q \in Nat /\ OpenT2(b) \in Nat
      /\ OpenShares(o) \in Nat /\ br \in [Brackets -> Bracket]
  BY <1>1, OrderFields DEF SafeBook, TypeOK, Bracket, OpenT2, OpenShares
<1>6. \/ /\ r = 0 /\ Complete(b, "COMPLETED_PROFIT", q)
      \/ /\ r > 0
         /\ br' = [br EXCEPT ![b] =
              [@ EXCEPT !.st = "TARGET_1_HIT", !.rem = r, !.t1 = Floor0(br[b].t1 - q),
                        !.stop = Ratchet(br[b].stop)]]
         /\ ord' = Resize(ord, Stop(b), r)
         /\ trade' = Tally(trade, b, q)
         /\ UNCHANGED <<symBr, mapped>>
  BY <1>3 DEF ReconcileT1, Current, Guarded
<1> HIDE DEF r
<1>7. ASSUME r = 0, Complete(b, "COMPLETED_PROFIT", q) PROVE SafeBook'
  <2>1. pend[o] = br[b].rem /\ o \in {Stop(b), T1(b), T2(b)}
    BY <1>4, <1>5, <1>7
  <2>2. "COMPLETED_PROFIT" \in {"COMPLETED_STOP", "COMPLETED_PROFIT"}
    OBVIOUS
  <2> QED BY <1>2, <1>3, <1>7, <2>1, <2>2, CompleteStep
<1>8. ASSUME r > 0,
             br' = [br EXCEPT ![b] =
               [@ EXCEPT !.st = "TARGET_1_HIT", !.rem = r, !.t1 = Floor0(br[b].t1 - q),
                         !.stop = Ratchet(br[b].stop)]],
             ord' = Resize(ord, Stop(b), r), trade' = Tally(trade, b, q),
             UNCHANGED <<symBr, mapped>>
      PROVE  SafeBook'
  <2>1. /\ Working(Stop(b))' /\ ord'[Stop(b)].rem = r /\ ~Working(Entry(b))'
        /\ \A p \in Orders : p \notin LegsOf(b) => ord'[p] = ord[p]
        /\ OpenShares(T1(b))' = OpenShares(T1(b)) /\ OpenShares(T2(b))' = OpenShares(T2(b))
        /\ (Working(T1(b))' => ord'[T1(b)].rem > 0) /\ (Working(T2(b))' => ord'[T2(b)].rem > 0)
    BY <1>1, <1>3, <1>4, <1>8, ResizedStop
  <2>2. Floor0(br[b].t1 - q) = br[b].t1 - q
    BY <1>4, <1>5 DEF Floor0
  <2>3. /\ br'[b].st = "TARGET_1_HIT" /\ br'[b].rem = r /\ br'[b].t1 = br[b].t1 - q
        /\ br'[b].t2 = br[b].t2 /\ br'[b].runner = br[b].runner /\ br'[b].total = br[b].total
        /\ \A c \in Brackets : c # b => br'[c] = br[c]
    BY <1>5, <1>8, <2>2 DEF Bracket
  <2>4. Live(b)' /\ OpenT2(b)' = OpenT2(b) /\ OpenBoth(b)' = br[b].t1 - q + OpenT2(b)
    BY <2>3 DEF Live, OpenT2, OpenBoth
  <2>5. OpenBoth(b)' <= r
    BY <1>3, <1>4, <1>5, <2>4 DEF Guarded, OpenBoth
  <2>6. OpenShares(T1(b))' + pend'[T1(b)] <= br'[b].t1
    BY <1>2, <1>4, <1>5, <2>1, <2>3
  <2>7. OpenShares(T2(b))' + pend'[T2(b)] <= OpenT2(b)'
    BY <1>1, <1>2, <1>3, <2>1, <2>4 DEF Guarded
  <2>8. br[b].rem - pend[o] = r /\ o \in {Stop(b), T1(b), T2(b)}
    BY <1>4, <1>5
  <2> QED BY <1>2, <1>3, <1>4, <1>8, <2>1, <2>3, <2>4, <2>5, <2>6, <2>7, <2>8, ShrinkStep
<1> QED BY <1>6, <1>7, <1>8

(* A fill of target 2: likewise.                                           *)
LEMMA ReconcileT2Step ==
  ASSUME SafeBook, TypeOK', NEW b \in Brackets, ReconcileT2(b)
  PROVE  SafeBook'
<1> DEFINE o == T2(b)
           q == pend[o]
           r == Floor0(br[b].rem - q)
<1>1. /\ o \in Orders /\ o \in LegsOf(b) /\ T1(b) \in Orders /\ T1(b) # o /\ Stop(b) # o /\ Entry(b) # o
      /\ LegsOf(b) = {Entry(b), Stop(b), T1(b), T2(b)}
      /\ Stop(b) \in LegsOf(b)
  BY LegFacts
<1>2. /\ TakeFill(o) /\ UNCHANGED <<pos, xpar, nb, entryMap, halted, closing>>
      /\ pend[o] > 0 /\ pend'[o] = 0 /\ \A p \in Orders : p # o => pend'[p] = pend[p]
  BY <1>1, TakeFacts DEF ReconcileT2, SafeBook
<1>3. ~closing /\ Guarded(b)
  BY <1>1, <1>2, FilledLeg
<1>4. /\ pend[Stop(b)] = 0 /\ Working(Stop(b))
      /\ q + OpenShares(o) <= OpenT2(b) /\ r = br[b].rem - q /\ r \in Nat
  BY <1>2, <1>3, TargetFacts
<1>5. /\ br[b] \in Bracket /\ br[b].rem \in Nat /\ br[b].t1 \in Nat /\ q \in Nat /\ br[b].t2 \in Nat
      /\ OpenShares(o) \in Nat /\ br \in [Brackets -> Bracket]
  BY <1>1, OrderFields DEF SafeBook, TypeOK, Bracket, OpenShares
<1>6. \/ /\ r = 0 /\ Complete(b, "COMPLETED_PROFIT", q)
      \/ /\ r > 0
         /\ br' = [br EXCEPT ![b] = [@ EXCEPT !.rem = r, !.t2 = Floor0(br[b].t2 - q)]]
         /\ ord' = Resize(ord, Stop(b), r)
         /\ trade' = Tally(trade, b, q)
         /\ UNCHANGED <<symBr, mapped>>
  BY <1>3 DEF ReconcileT2, Current, Guarded
<1> HIDE DEF r
<1>7. ASSUME r = 0, Complete(b, "COMPLETED_PROFIT", q) PROVE SafeBook'
  <2>1. pend[o] = br[b].rem /\ o \in {Stop(b), T1(b), T2(b)}
    BY <1>4, <1>5, <1>7
  <2>2. "COMPLETED_PROFIT" \in {"COMPLETED_STOP", "COMPLETED_PROFIT"}
    OBVIOUS
  <2> QED BY <1>2, <1>3, <1>7, <2>1, <2>2, CompleteStep
<1>8. ASSUME r > 0,
             br' = [br EXCEPT ![b] = [@ EXCEPT !.rem = r, !.t2 = Floor0(br[b].t2 - q)]],
             ord' = Resize(ord, Stop(b), r), trade' = Tally(trade, b, q),
             UNCHANGED <<symBr, mapped>>
      PROVE  SafeBook'
  <2>1. /\ Working(Stop(b))' /\ ord'[Stop(b)].rem = r /\ ~Working(Entry(b))'
        /\ \A p \in Orders : p \notin LegsOf(b) => ord'[p] = ord[p]
        /\ OpenShares(T1(b))' = OpenShares(T1(b)) /\ OpenShares(T2(b))' = OpenShares(T2(b))
        /\ (Working(T1(b))' => ord'[T1(b)].rem > 0) /\ (Working(T2(b))' => ord'[T2(b)].rem > 0)
    BY <1>1, <1>3, <1>4, <1>8, ResizedStop
  <2>2. OpenT2(b) = br[b].t2 /\ br[b].runner = "TARGET"
    BY <1>2, <1>4, <1>5 DEF OpenT2
  <2>3. Floor0(br[b].t2 - q) = br[b].t2 - q
    BY <1>4, <1>5, <2>2 DEF Floor0
  <2>4. /\ br'[b].st = br[b].st /\ br'[b].rem = r /\ br'[b].t1 = br[b].t1
        /\ br'[b].t2 = br[b].t2 - q /\ br'[b].runner = br[b].runner /\ br'[b].total = br[b].total
        /\ \A c \in Brackets : c # b => br'[c] = br[c]
    BY <1>5, <1>8, <2>3 DEF Bracket
  <2>5. Live(b)' /\ OpenT2(b)' = br[b].t2 - q /\ OpenBoth(b)' = br[b].t1 + (br[b].t2 - q)
    BY <1>3, <2>2, <2>4 DEF Live, OpenT2, OpenBoth, Guarded
  <2>6. OpenBoth(b)' <= r
    BY <1>3, <1>4, <1>5, <2>2, <2>5 DEF Guarded, OpenBoth
  <2>7. OpenShares(T2(b))' + pend'[T2(b)] <= OpenT2(b)'
    BY <1>2, <1>4, <1>5, <2>1, <2>2, <2>5
  <2>8. OpenShares(T1(b))' + pend'[T1(b)] <= br'[b].t1
    BY <1>1, <1>2, <1>3, <2>1, <2>4 DEF Guarded
  <2>9. br[b].rem - pend[o] = r /\ o \in {Stop(b), T1(b), T2(b)}
    BY <1>4, <1>5
  <2> QED BY <1>2, <1>3, <1>4, <1>8, <2>1, <2>4, <2>5, <2>6, <2>7, <2>8, <2>9, ShrinkStep
<1> QED BY <1>6, <1>7, <1>8


(* A piece of what a liquidation filled: it is tallied for the bracket the *)
(* order was sent for; the first piece of a filled order completes the     *)
(* row, the last one leaves an empty book.                                 *)
LEMMA ReconcileExitStep ==
  ASSUME SafeBook, TypeOK', NEW x \in Exits, NEW q, ReconcileExit(x, q)
  PROVE  SafeBook'
<1>1. x \in Orders /\ Exits \subseteq Orders
  BY LegFacts
<1>2. /\ q \in Nat /\ q > 0 /\ q <= pend[x] /\ pend[x] \in Nat
      /\ pend'[x] = pend[x] - q /\ \A p \in Orders : p # x => pend'[p] = pend[p]
      /\ BatchIsOver' /\ phase' \in {"reconcile", "idle"}
  BY <1>1, TakePieceFacts DEF ReconcileExit, SafeBook
<1>3. PICK b \in Brackets \cup {None} : Sale(x, b)
  BY <1>2, SellerIsSale
<1>4. /\ xpar[x] = b /\ ExitFill(x, b, q)
      /\ UNCHANGED <<pos, nb, mapped, entryMap, halted, closing>>
      /\ IF ord[x].st = "FILLED" /\ q = pend[x]
           THEN /\ ord' = [ord EXCEPT ![x] = NoOrder]
                /\ xpar' = [xpar EXCEPT ![x] = None]
           ELSE UNCHANGED <<ord, xpar>>
  BY <1>3 DEF ReconcileExit, Sale
<1>5. pos \in Int /\ (ord[x].st = "FILLED" => ~Working(x) /\ pos = 0)
      /\ (ord[x].st # "FILLED" => Working(x) /\ pos > 0)
  <2>1. Working(x) => ord[x].rem > 0
    BY <1>1 DEF SafeBook, OrdersAreOpen
  <2>2. ord[x].st = "FILLED" => ~Working(x)
    BY DEF Working, Open
  <2> QED BY <1>3, <2>1, <2>2 DEF Sale, OpenShares, SafeBook, TypeOK
<1>6. \A p \in Orders : p # x => /\ ord'[p] = ord[p] /\ pend'[p] = 0
                                  /\ ~Working(p) /\ ~Working(p)'
  BY <1>1, <1>2, <1>3, <1>4 DEF SafeBook, TypeOK, Sale, Working
<1>7. /\ Working(x)' => ord'[x] = ord[x] /\ Working(x)
      /\ (ord[x].st = "FILLED" /\ q = pend[x]) => ~Working(x)' /\ xpar'[x] = None /\ pend'[x] = 0
      /\ ~(ord[x].st = "FILLED" /\ q = pend[x]) => ord'[x] = ord[x] /\ xpar'[x] = b
  <2>1. CASE ord[x].st = "FILLED" /\ q = pend[x]
    <3>1. ord'[x] = NoOrder /\ xpar'[x] = None
      BY <1>1, <1>4, <2>1 DEF SafeBook, TypeOK
    <3> QED BY <1>2, <2>1, <3>1 DEF Working, Open, NoOrder
  <2>2. CASE ~(ord[x].st = "FILLED" /\ q = pend[x])
    BY <1>4, <2>2 DEF Working
  <2> QED BY <2>1, <2>2
(* What the fill does to the bracket and its row.                          *)
<1> DEFINE Goes(c) == /\ br'[c].st = "COMPLETED_FLATTEN" /\ br'[c].total = br[c].total
                      /\ symBr' = None /\ trade'[c].done
                      /\ trade'[c].rec + trade'[c].out + pend'[x] = br[c].total
           Stays(c) == /\ br' = br /\ symBr' = symBr /\ ~trade[c].done /\ ~trade'[c].done
                       /\ trade'[c].out + pend'[x] + pos = br[c].total
<1>8. b # None => /\ b \in Brackets
                  /\ br[b].st \notin {"NONE", "CLEARED", "CANCELLED", "PENDING_ENTRY"}
                  /\ symBr \in {b, None}
                  /\ trade[b].out \in Nat /\ trade[b].rec \in Nat /\ br[b].total \in Nat
  BY <1>3 DEF Sale, Live, Brackets, None, SafeBook, TypeOK, Bracket
<1>9. \A c \in Brackets : c # b => br'[c] = br[c] /\ trade'[c] = trade[c]
  <2>1. CASE b = None
    BY <1>4, <2>1 DEF ExitFill
  <2>2. CASE b # None
    <3>1. /\ br' = br \/ br' = [br EXCEPT ![b].st = "COMPLETED_FLATTEN"]
          /\ trade' \in {Tally(trade, b, q), Record(Tally(trade, b, q), b)}
      BY <1>4, <1>8, <2>2 DEF ExitFill
    <3> QED BY <1>8, <2>2, <3>1 DEF Tally, Record, SafeBook, TypeOK
  <2> QED BY <2>1, <2>2
<1>10. b # None => IF ord[x].st = "FILLED" THEN Goes(b) ELSE Stays(b)
  <2> SUFFICES ASSUME b # None PROVE IF ord[x].st = "FILLED" THEN Goes(b) ELSE Stays(b)
    OBVIOUS
  <2> DEFINE t == Tally(trade, b, q)
  <2>0. b \in Brackets /\ trade \in [Brackets -> [out : Nat, rec : Nat, done : BOOLEAN]]
    BY <1>8 DEF SafeBook, TypeOK
  <2>1. /\ t[b].out = trade[b].out + q /\ t[b].rec = trade[b].rec /\ t[b].done = trade[b].done
        /\ t \in [Brackets -> [out : Nat, rec : Nat, done : BOOLEAN]]
    <3>1. t \in [Brackets -> [out : Nat, rec : Nat, done : BOOLEAN]]
      BY <1>2, <2>0, TradeType
    <3>2. t[b] = [trade[b] EXCEPT !.out = @ + q]
      BY <2>0 DEF Tally
    <3>3. trade[b] \in [out : Nat, rec : Nat, done : BOOLEAN]
      BY <2>0
    <3> HIDE DEF t
    <3> QED BY <3>1, <3>2, <3>3
  <2> HIDE DEF t
  <2>2. CASE ord[x].st = "FILLED"
    <3>1. br' = [br EXCEPT ![b].st = "COMPLETED_FLATTEN"] /\ symBr' = None /\ trade' = Record(t, b)
      BY <1>4, <1>8, <2>2 DEF ExitFill, t
    <3>2. br'[b].st = "COMPLETED_FLATTEN" /\ br'[b].total = br[b].total
      BY <1>8, <3>1 DEF SafeBook, TypeOK, Bracket
    <3>3. CASE trade[b].done
      <4>1. trade'[b] = t[b] /\ trade[b].rec + trade[b].out + pend[x] = br[b].total
        BY <1>3, <2>0, <2>1, <3>1, <3>3 DEF Record, Sale
      <4>2. trade'[b].done /\ trade'[b].rec = trade[b].rec /\ trade'[b].out = trade[b].out + q
        BY <2>1, <3>3, <4>1
      <4>3. trade'[b].rec + trade'[b].out + pend'[x] = br[b].total
        BY <1>2, <1>8, <2>0, <4>1, <4>2
      <4> QED BY <2>2, <3>1, <3>2, <4>2, <4>3
    <3>4. CASE ~trade[b].done
      <4>1. /\ trade'[b] = [out |-> 0, rec |-> t[b].out, done |-> TRUE]
            /\ trade[b].out + pend[x] + pos = br[b].total
        BY <1>3, <2>0, <2>1, <3>1, <3>4 DEF Record, Sale
      <4>2. trade'[b].out = 0 /\ trade'[b].rec = trade[b].out + q /\ trade'[b].done
        BY <2>1, <4>1
      <4> QED BY <1>2, <1>5, <1>8, <2>2, <3>1, <3>2, <4>1, <4>2
    <3> QED BY <3>3, <3>4
  <2>3. CASE ord[x].st # "FILLED"
    <3>1. br' = br /\ symBr' = symBr /\ trade' = t
      BY <1>4, <1>8, <2>3 DEF ExitFill, t
    <3>2. ~trade[b].done /\ trade[b].out + pend[x] + pos = br[b].total
      BY <1>3, <1>5, <2>3 DEF Sale
    <3> QED BY <1>2, <1>5, <1>8, <2>1, <2>3, <3>1, <3>2
  <2> QED BY <2>2, <2>3
<1>11. b = None => br' = br /\ symBr' = symBr /\ trade' = trade /\ symBr = None
  BY <1>3, <1>4 DEF ExitFill, Sale
<1>12. OrdersAreOpen' /\ ClosingFlat'
  <2>1. OrdersAreOpen'
    BY <1>1, <1>6, <1>7 DEF SafeBook, OrdersAreOpen
  <2>2. ClosingFlat'
    BY <1>1, <1>2, <1>4, <1>6, <1>7 DEF SafeBook, ClosingFlat
  <2> QED BY <2>1, <2>2
<1>13. Numbered'
  <2>1. /\ nb' = nb /\ mapped' \subseteq mapped /\ entryMap' \subseteq entryMap /\ symBr' \in {symBr, None}
    BY <1>4, <1>10, <1>11
  <2>2. \A c \in Brackets : /\ (br[c].st = "NONE" <=> br'[c].st = "NONE")
                             /\ (br[c].st = "NONE" => trade'[c] = trade[c])
    <3> TAKE c \in Brackets
    <3>1. CASE c # b
      BY <1>9, <3>1
    <3>2. CASE c = b
      <4>1. b # None /\ br[b].st # "NONE"
        BY <1>8, <3>2 DEF Brackets, None
      <4>2. br'[b].st # "NONE"
        BY <1>10, <4>1
      <4> QED BY <3>2, <4>1, <4>2
    <3> QED BY <3>1, <3>2
  <2> QED BY <2>1, <2>2, NumberedFrame DEF SafeBook
<1>14. OthersRetired'
  <2> SUFFICES ASSUME NEW c \in Brackets, c # symBr' PROVE Retired(c)'
    BY DEF OthersRetired
  <2>1. \A p \in LegsOf(c) : /\ p # x /\ ord'[p] = ord[p] /\ ~Working(p)' /\ pend'[p] = 0
    BY <1>6, LegFacts
  <2>2. CASE c = b
    <3>0. b # None /\ b \in Brackets
      BY <2>2 DEF Brackets, None
    <3>1. CASE ord[x].st = "FILLED"
      <4>1. Goes(b)
        BY <1>10, <3>0, <3>1
      <4>2. CASE q = pend[x]
        <5>1. trade'[b].rec + trade'[b].out = br'[b].total
          <6>1. pend'[x] = 0 /\ trade'[b].rec \in Nat /\ trade'[b].out \in Nat
            BY <1>2, <3>0, <4>2 DEF TypeOK
          <6> QED BY <4>1, <6>1
        <5>2. Booked(b)'
          BY <4>1, <5>1 DEF Booked
        <5> QED BY <2>1, <2>2, <4>1, <5>2 DEF Retired
      <4>3. CASE q # pend[x]
        <5>1. xpar'[x] = b /\ pend'[x] > 0
          BY <1>2, <1>7, <4>3
        <5>2. Paying(b)'
          BY <5>1 DEF Paying
        <5> QED BY <2>1, <2>2, <4>1, <5>2 DEF Retired
      <4> QED BY <4>2, <4>3
    <3>2. CASE ord[x].st # "FILLED"
      <4>1. Stays(b) /\ Retired(b)
        BY <1>10, <2>2, <3>0, <3>2 DEF SafeBook, OthersRetired
      <4>2. Entry(b) \in LegsOf(b)
        BY <3>0, LegFacts
      <4> QED BY <2>1, <2>2, <4>1, <4>2 DEF Retired
    <3> QED BY <3>1, <3>2
  <2>3. CASE c # b
    <3>1. Retired(c)
      BY <1>8, <1>10, <1>11, <2>3 DEF SafeBook, OthersRetired
    <3>2. ~Paying(c)
      <4>1. \A y \in Exits : pend[y] > 0 => xpar[y] = b
        BY <1>1, <1>3 DEF Sale
      <4> QED BY <2>3, <4>1 DEF Paying
    <3> QED BY <1>9, <2>1, <2>3, <3>1, <3>2, RetiredFrame DEF Working
  <2> QED BY <2>2, <2>3
<1>15. Stage'
  <2>1. CASE ord[x].st = "FILLED" /\ q = pend[x]
    <3>1. symBr' = None /\ pos' = 0
      BY <1>4, <1>5, <1>10, <1>11, <2>1
    <3>2. NoExit'
      BY <1>1, <1>6, <1>7, <2>1 DEF NoExit
    <3> QED BY <3>1, <3>2 DEF Stage, Untaken
  <2>2. CASE ~(ord[x].st = "FILLED" /\ q = pend[x])
    <3>1. OpenShares(x)' = OpenShares(x) /\ xpar'[x] = b /\ ord'[x] = ord[x] /\ (Working(x)' <=> Working(x))
      BY <1>7, <2>2 DEF OpenShares, Working
    <3>2. Working(x)' \/ (ord'[x].st = "FILLED" /\ pend'[x] > 0)
      BY <1>2, <1>5, <2>2, <3>1
    <3>3. b # None =>
            /\ IF symBr' = None THEN br'[b].st = "COMPLETED_FLATTEN" ELSE symBr' = b /\ Live(b)'
            /\ IF trade'[b].done
                 THEN symBr' = None /\ pos' = 0 /\ trade'[b].rec + trade'[b].out + pend'[x] = br'[b].total
                 ELSE trade'[b].out + pend'[x] + pos' = br'[b].total
      <4>1. CASE ord[x].st = "FILLED"
        BY <1>4, <1>5, <1>10, <4>1
      <4>2. CASE ord[x].st # "FILLED"
        BY <1>3, <1>4, <1>10, <4>2 DEF Sale, Live
      <4> QED BY <4>1, <4>2
    <3>4. b = None => symBr' = None
      BY <1>11
    <3>5. pos' = OpenShares(x)' /\ x \notin Covers
      BY <1>3, <1>4, <3>1 DEF Sale
    <3>6. Sale(x, b)'
      BY <1>6, <3>1, <3>2, <3>3, <3>4, <3>5 DEF Sale
    <3> QED BY <3>6 DEF Stage
  <2> QED BY <2>1, <2>2
<1> QED BY <1>2, <1>12, <1>13, <1>14, <1>15 DEF SafeBook

-----------------------------------------------------------------------------
(* Stop moves.                                                             *)

LEMMA MoveStopStep ==
  ASSUME SafeBook, TypeOK', NEW level \in 0 .. MaxStop, TrailStop(level) \/ TightenStop(level)
  PROVE  SafeBook'
<1>1. /\ Idle /\ phase = "idle" /\ symBr # None /\ Live(symBr)
      /\ br' = [br EXCEPT ![symBr].stop = level]
      /\ UNCHANGED <<pos, ord, xpar, nb, symBr, mapped, entryMap, pend, phase, room,
                     halted, closing, trade>>
  BY DEF TrailStop, TightenStop, MoveStop, Idle, Live
<1>2. PICK b \in Brackets : symBr = b
  BY <1>1 DEF SafeBook, TypeOK
<1>3. /\ br'[b].st = br[b].st /\ br'[b].total = br[b].total /\ br'[b].rem = br[b].rem
      /\ br'[b].t1 = br[b].t1 /\ br'[b].t2 = br[b].t2 /\ br'[b].runner = br[b].runner
      /\ \A c \in Brackets : c # b => br'[c] = br[c]
  BY <1>1, <1>2 DEF SafeBook, TypeOK, Bracket
<1>4. \A o : Working(o)' = Working(o) /\ OpenShares(o)' = OpenShares(o)
  BY <1>1 DEF Working, OpenShares
<1>5. BatchIsOver' /\ OrdersAreOpen' /\ ClosingFlat'
  BY <1>1 DEF SafeBook, BatchIsOver, OrdersAreOpen, ClosingFlat, Working
<1>6. Numbered'
  BY <1>1, <1>3, NumberedFrame DEF SafeBook
<1>7. OthersRetired'
  <2> SUFFICES ASSUME NEW c \in Brackets, c # b PROVE Retired(c)'
    BY <1>1, <1>2 DEF OthersRetired
  <2>1. Retired(c) /\ ~Paying(c)
    BY <1>1, <1>2, QuietBook DEF SafeBook, OthersRetired
  <2>2. \A p \in LegsOf(c) : ord'[p] = ord[p] /\ pend'[p] = 0
    BY <1>1, <2>1 DEF Retired
  <2> QED BY <1>1, <1>3, <2>1, <2>2, RetiredFrame DEF Working
<1>8. Live(b)' /\ OpenT2(b)' = OpenT2(b) /\ OpenBoth(b)' = OpenBoth(b)
  BY <1>1, <1>2, <1>3 DEF Live, OpenT2, OpenBoth
<1>9. ASSUME Guarded(b) PROVE Stage'
  <2>1. NoExit'
    BY <1>1, <1>4, <1>9 DEF Guarded, NoExit
  <2>2. Guarded(b)'
    BY <1>1, <1>2, <1>3, <1>4, <1>8, <1>9, <2>1 DEF Guarded
  <2> QED BY <2>2 DEF Stage
<1>10. ASSUME NEW x \in Exits, NEW c \in Brackets \cup {None}, Sale(x, c) PROVE Stage'
  <2>1. c = b
    BY <1>1, <1>2, <1>10 DEF Sale
  <2>2. Sale(x, b)'
    BY <1>1, <1>2, <1>3, <1>4, <1>8, <1>10, <2>1 DEF Sale
  <2> QED BY <2>2 DEF Stage
<1>11. Stage'
  BY <1>1, <1>2, <1>9, <1>10, QuietBook DEF Untaken, Waiting, Guarded, Live
<1> QED BY <1>5, <1>6, <1>7, <1>11 DEF SafeBook

-----------------------------------------------------------------------------
(* Sweeps: every order is cancelled, and a position is sold.               *)

(* A sweep that finds no position: a waiting owner is released.            *)
LEMMA SweptStep ==
  ASSUME SafeBook, TypeOK', Idle, pos = 0,
         \A o \in Orders : ~Open(ord'[o].st) /\ (o \notin Exits => ord'[o].filled = ord[o].filled),
         symBr' = None,
         \A c \in Brackets : \/ br'[c] = br[c] /\ c # symBr
                             \/ /\ c = symBr /\ br'[c].total = br[c].total
                                /\ br'[c].st \in {"CANCELLED", "COMPLETED_FLATTEN"},
         mapped' \subseteq mapped, entryMap' \subseteq entryMap,
         UNCHANGED <<pos, pend, phase, nb, trade>>
  PROVE  SafeBook'
<1>1. (\A o \in Orders : pend[o] = 0 /\ pend'[o] = 0) /\ (\A c : ~Paying(c))
  BY QuietBook DEF Idle
<1>2. ASSUME NEW c \in Brackets, c = symBr PROVE Waiting(c) /\ ord[Entry(c)].filled = 0
  BY <1>2, QuietBook DEF Idle, Untaken, Waiting, Guarded, Brackets, None
<1>3. \A c \in Brackets : \A o \in LegsOf(c) : o \in Orders /\ o \notin Exits
  BY LegFacts
<1>4. BatchIsOver' /\ OrdersAreOpen' /\ ClosingFlat'
  BY <1>1, LegFacts DEF BatchIsOver, OrdersAreOpen, ClosingFlat, Working
<1>5. Numbered'
  <2>1. \A c \in Brackets : br[c].st = "NONE" <=> br'[c].st = "NONE"
    BY <1>2 DEF Waiting
  <2> QED BY <2>1, NumberedFrame DEF SafeBook
<1>6. OthersRetired'
  <2> SUFFICES ASSUME NEW c \in Brackets PROVE Retired(c)'
    BY DEF OthersRetired
  <2>1. \A p \in LegsOf(c) : ~Working(p)' /\ pend'[p] = 0 /\ ord'[p].filled = ord[p].filled
    BY <1>1, <1>3 DEF Working
  <2>2. CASE c = symBr
    <3>1. Entry(c) \in LegsOf(c)
      BY LegFacts
    <3> QED BY <1>2, <2>1, <2>2, <3>1 DEF Retired, Waiting
  <2>3. CASE c # symBr
    <3>1. Retired(c)
      BY <2>3 DEF SafeBook, OthersRetired
    <3> QED BY <1>1, <2>1, <2>3, <3>1, RetiredFrame DEF Working
  <2> QED BY <2>2, <2>3
<1>7. Stage'
  BY <1>1, LegFacts DEF Stage, Untaken, NoExit, Working
<1> QED BY <1>4, <1>5, <1>6, <1>7 DEF SafeBook

(* A sweep that finds a position sends one order for all of it, and the    *)
(* broker fills as much of that as it likes.                               *)
LEMMA SaleStep ==
  ASSUME SafeBook, TypeOK', Idle, pos # 0, NEW x \in Exits,
         NEW f \in [Orders -> Order], Liquidate(f, x, symBr),
         \A o \in Orders : ~Open(f[o].st) /\ (o \notin Exits => f[o].filled = ord[o].filled),
         \/ UNCHANGED <<br, symBr>>
         \/ symBr # None /\ br' = [br EXCEPT ![symBr].st = "COMPLETED_FLATTEN"] /\ symBr' = None,
         mapped' \subseteq mapped, entryMap' \subseteq entryMap, UNCHANGED <<nb, trade>>
  PROVE  SafeBook'
<1>1. x \in Orders /\ Exits \subseteq Orders
  BY LegFacts
<1>2. (\A o \in Orders : pend[o] = 0) /\ (\A c : ~Paying(c))
  BY QuietBook DEF Idle
<1>3. /\ pos > 0 /\ pos \in Nat
      /\ symBr # None => /\ symBr \in Brackets /\ Live(symBr)
                         /\ ~trade[symBr].done /\ trade[symBr].out + pos = br[symBr].total
                         /\ trade[symBr].out \in Nat
  BY HeldFacts DEF Idle, SafeBook, TypeOK
<1>4. /\ x \notin Covers /\ xpar' = [xpar EXCEPT ![x] = symBr]
      /\ \E k \in 0 .. pos :
           /\ ord' = [f EXCEPT ![x] = IF k = 0 THEN Accepted(pos) ELSE Filled(Accepted(pos), k)]
           /\ pend' = [pend EXCEPT ![x] = k]
           /\ pos' = pos - k
           /\ phase' = IF k = 0 THEN "idle" ELSE "sell"
  BY <1>3 DEF Liquidate
<1>5. PICK k \in 0 .. pos :
           /\ ord' = [f EXCEPT ![x] = IF k = 0 THEN Accepted(pos) ELSE Filled(Accepted(pos), k)]
           /\ pend' = [pend EXCEPT ![x] = k]
           /\ pos' = pos - k
           /\ phase' = IF k = 0 THEN "idle" ELSE "sell"
  BY <1>4
<1>6. /\ xpar'[x] = symBr /\ pend'[x] = k /\ k \in Nat
      /\ \A o \in Orders : o # x => ord'[o] = f[o] /\ pend'[o] = 0
      /\ ord'[x] = IF k = 0 THEN Accepted(pos) ELSE Filled(Accepted(pos), k)
  BY <1>1, <1>2, <1>4, <1>5 DEF SafeBook, TypeOK
<1>7. /\ ord'[x].rem = pos - k
      /\ Working(x)' <=> k # pos
      /\ k = pos => ord'[x].st = "FILLED" /\ k > 0
  <2>1. CASE k = 0
    BY <1>3, <1>6, <2>1 DEF Accepted, Working, Open
  <2>2. CASE k # 0
    <3>1. ord'[x].rem = pos - k /\ ord'[x].st = IF pos = k THEN "FILLED" ELSE "PARTIALLY_FILLED"
      BY <1>6, <2>2 DEF Accepted, Filled
    <3> QED BY <1>6, <2>2, <3>1 DEF Working, Open
  <2> QED BY <2>1, <2>2
<1>8. pos' = OpenShares(x)' /\ (Working(x)' => ord'[x].rem > 0 /\ pos' > 0)
  BY <1>3, <1>5, <1>7 DEF OpenShares
<1>9. \A o \in Orders : o # x => ~Working(o)' /\ pend'[o] = 0
  BY <1>6 DEF Working
<1>10. /\ symBr # None => /\ br'[symBr].total = br[symBr].total
                          /\ br'[symBr].st # "NONE" /\ br[symBr].st # "NONE" /\ br'[symBr].st # "CANCELLED"
                          /\ IF symBr' = None THEN br'[symBr].st = "COMPLETED_FLATTEN"
                                              ELSE symBr' = symBr /\ br'[symBr].st = br[symBr].st
       /\ \A c \in Brackets : c # symBr => br'[c] = br[c]
       /\ symBr' \in {symBr, None}
  <2>1. CASE UNCHANGED <<br, symBr>>
    <3>1. br' = br /\ symBr' = symBr
      BY <2>1
    <3>2. symBr # None => br[symBr].st # "NONE" /\ br[symBr].st # "CANCELLED"
      BY <1>3 DEF Live
    <3> QED BY <3>1, <3>2
  <2>2. CASE symBr # None /\ br' = [br EXCEPT ![symBr].st = "COMPLETED_FLATTEN"] /\ symBr' = None
    <3>1. br \in [Brackets -> Bracket] /\ symBr \in Brackets /\ br[symBr].st # "NONE"
      BY <1>3, <2>2 DEF SafeBook, TypeOK, Live
    <3>2. /\ br'[symBr] = [br[symBr] EXCEPT !.st = "COMPLETED_FLATTEN"]
          /\ \A c \in Brackets : c # symBr => br'[c] = br[c]
      BY <2>2, <3>1
    <3>3. br'[symBr].st = "COMPLETED_FLATTEN" /\ br'[symBr].total = br[symBr].total
      BY <3>1, <3>2 DEF Bracket
    <3> QED BY <2>2, <3>1, <3>2, <3>3
  <2> QED BY <2>1, <2>2
<1>11. BatchIsOver' /\ OrdersAreOpen' /\ ClosingFlat'
  <2>1. BatchIsOver'
    BY <1>5, <1>6, <1>9 DEF BatchIsOver
  <2>2. OrdersAreOpen'
    BY <1>8, <1>9 DEF OrdersAreOpen
  <2>3. ClosingFlat'
    BY <1>1, <1>3, <1>5, <1>6, <1>8, <1>9 DEF ClosingFlat
  <2> QED BY <2>1, <2>2, <2>3
<1>12. Numbered'
  <2>1. \A c \in Brackets : br[c].st = "NONE" <=> br'[c].st = "NONE"
    BY <1>3, <1>10
  <2> QED BY <1>10, <2>1, NumberedFrame DEF SafeBook
<1>13. OthersRetired'
  <2> SUFFICES ASSUME NEW c \in Brackets, c # symBr' PROVE Retired(c)'
    BY DEF OthersRetired
  <2>1. \A p \in LegsOf(c) : /\ ~Working(p)' /\ pend'[p] = 0
                             /\ ord'[p].filled = ord[p].filled
    BY <1>6, <1>9, LegFacts
  <2>2. CASE c = symBr
    <3>1. c # None
      BY DEF Brackets, None
    <3>2. br'[c].st = "COMPLETED_FLATTEN" /\ ~trade'[c].done
      BY <1>3, <1>10, <2>2, <3>1
    <3> QED BY <2>1, <3>2 DEF Retired
  <2>3. CASE c # symBr
    <3>1. Retired(c)
      BY <2>3 DEF SafeBook, OthersRetired
    <3> QED BY <1>2, <1>10, <2>1, <2>3, <3>1, RetiredFrame DEF Working
  <2> QED BY <2>2, <2>3
<1>14. PICK b \in Brackets \cup {None} : b = symBr
  BY DEF SafeBook, TypeOK
<1>15. Sale(x, b)'
  <2>1. Working(x)' \/ (ord'[x].st = "FILLED" /\ pend'[x] > 0)
    BY <1>6, <1>7
  <2>2. b # None =>
          /\ ~trade'[b].done /\ trade'[b].out + pend'[x] + pos' = br'[b].total
          /\ IF symBr' = None THEN br'[b].st = "COMPLETED_FLATTEN" ELSE symBr' = b /\ Live(b)'
    BY <1>3, <1>5, <1>6, <1>10, <1>14 DEF Live
  <2>3. b = None => symBr' = None
    BY <1>10, <1>14
  <2> QED BY <1>4, <1>6, <1>8, <1>9, <1>14, <2>1, <2>2, <2>3 DEF Sale
<1> QED BY <1>11, <1>12, <1>13, <1>14, <1>15 DEF SafeBook, Stage

(* Cancelling everything leaves no order open and every fill count.        *)
LEMMA CancelAllFacts ==
  ASSUME SafeBook, NEW S, \A o \in Orders : Working(o) => o \in S
  PROVE  /\ Cancel(ord, S) \in [Orders -> Order]
         /\ \A o \in Orders : /\ ~Open(Cancel(ord, S)[o].st)
                              /\ o \notin Exits => Cancel(ord, S)[o].filled = ord[o].filled
         /\ \A o \in Orders : Working(o) /\ o \notin Exits => Cancel(ord, S)[o].st = "CANCELLED"
<1>1. ord \in [Orders -> Order]
  BY DEF SafeBook, TypeOK
<1> QED BY <1>1, CancelType, CancelFacts DEF Working

(* The circuit breaker, the 15:55 and 15:58 sweeps and the session         *)
(* boundary: every order is cancelled, a waiting owner is released, a      *)
(* position is sold.                                                       *)
LEMMA SweepStep ==
  ASSUME SafeBook, TypeOK', Idle, NEW x \in Exits,
         IF \E o \in Orders : Working(o) THEN ReleaseDead(Cancel(ord, Orders))
         ELSE UNCHANGED <<br, symBr, mapped, entryMap>>,
         Liquidate(Cancel(ord, Orders), x, symBr'), UNCHANGED <<nb, trade>>
  PROVE  SafeBook'
<1> DEFINE f == Cancel(ord, Orders)
           dead == {b \in entryMap : f[Entry(b)].st = "CANCELLED" /\ f[Entry(b)].filled = 0}
           hit  == dead # {} /\ symBr # None /\ br[symBr].st = "PENDING_ENTRY"
           Released == IF hit THEN /\ br' = [br EXCEPT ![symBr].st = "CANCELLED"]
                                   /\ mapped' = mapped \ {symBr}
                                   /\ symBr' = None
                              ELSE UNCHANGED <<br, mapped, symBr>>
<1>1. /\ f \in [Orders -> Order]
      /\ \A o \in Orders : ~Open(f[o].st) /\ (o \notin Exits => f[o].filled = ord[o].filled)
      /\ \A o \in Orders : Working(o) /\ o \notin Exits => f[o].st = "CANCELLED"
  BY CancelAllFacts
<1>2. entryMap' \subseteq entryMap /\ mapped' \subseteq mapped /\ (Released \/ UNCHANGED <<br, mapped, symBr>>)
  BY DEF ReleaseDead
<1>3. (\E o \in Orders : Working(o)) => Released
  BY DEF ReleaseDead
<1> HIDE DEF dead, f
<1>4. ASSUME pos = 0 PROVE ord' = f /\ UNCHANGED <<pos, pend, phase>>
  BY <1>4 DEF Liquidate, f
<1>5. CASE Untaken
  <2>1. UNCHANGED <<br, symBr>>
    BY <1>2, <1>5 DEF Untaken
  <2>2. \A c \in Brackets : br'[c] = br[c] /\ c # symBr
    BY <1>5, <2>1 DEF Untaken, Brackets, None
  <2> QED BY <1>1, <1>2, <1>4, <1>5, <2>1, <2>2, SweptStep DEF Untaken
<1>6. ASSUME NEW b \in Brackets, Waiting(b), pos = 0, Working(Entry(b)), ord[Entry(b)].filled = 0
      PROVE  SafeBook'
  <2>1. Entry(b) \in Orders /\ Entry(b) \notin Exits /\ b # None
    BY LegFacts DEF Brackets, None
  <2>2. f[Entry(b)].st = "CANCELLED" /\ f[Entry(b)].filled = 0
    BY <1>1, <1>6, <2>1
  <2>3. b \in dead
    BY <1>6, <2>2 DEF dead, Waiting
  <2>4. br' = [br EXCEPT ![b].st = "CANCELLED"] /\ symBr' = None
    BY <1>3, <1>6, <2>1, <2>3 DEF Waiting
  <2>5. /\ br'[b].st = "CANCELLED" /\ br'[b].total = br[b].total
        /\ \A c \in Brackets : c # b => br'[c] = br[c]
    BY <2>4 DEF SafeBook, TypeOK, Bracket
  <2>6. symBr = b
    BY <1>6 DEF Waiting
  <2>7. \A c \in Brackets : \/ br'[c] = br[c] /\ c # symBr
                            \/ /\ c = symBr /\ br'[c].total = br[c].total
                               /\ br'[c].st \in {"CANCELLED", "COMPLETED_FLATTEN"}
    BY <2>5, <2>6
  <2> HIDE DEF hit
  <2> QED BY <1>1, <1>2, <1>4, <1>6, <2>4, <2>7, SweptStep
<1>7. CASE pos # 0
  <2>1. UNCHANGED <<br, symBr>>
    BY <1>2, <1>7, HeldFacts DEF Idle, Live
  <2>2. Liquidate(f, x, symBr)
    BY <2>1 DEF f
  <2> QED BY <1>1, <1>2, <1>7, <2>1, <2>2, SaleStep
<1> QED BY <1>5, <1>6, <1>7, QuietBook DEF Idle

LEMMA FlattenAllStep ==
  ASSUME SafeBook, TypeOK', NEW x \in Exits, NEW halt \in BOOLEAN, FlattenAll(x, halt)
  PROVE  SafeBook'
<1>1. /\ Idle /\ ReleaseDead(Cancel(ord, Orders)) /\ Liquidate(Cancel(ord, Orders), x, symBr')
      /\ UNCHANGED <<nb, trade>>
  BY DEF FlattenAll
<1>2. CASE \E o \in Orders : Working(o)
  BY <1>1, <1>2, SweepStep
<1>3. CASE ~\E o \in Orders : Working(o)
  <2>1. symBr = None /\ pos = 0
    BY <1>1, <1>3, QuietBook, LegFacts DEF Idle, Untaken
  <2>2. UNCHANGED <<br, symBr, mapped>> /\ entryMap' \subseteq entryMap
    BY <1>1, <2>1 DEF ReleaseDead
  <2>3. ord' = Cancel(ord, Orders) /\ UNCHANGED <<pos, pend, phase>>
    BY <1>1, <2>1 DEF Liquidate
  <2>4. \A c \in Brackets : br'[c] = br[c] /\ c # symBr
    BY <2>1, <2>2 DEF Brackets, None
  <2>5. \A o \in Orders : ~Open(ord'[o].st) /\ (o \notin Exits => ord'[o].filled = ord[o].filled)
    BY <2>3, CancelAllFacts
  <2> QED BY <1>1, <2>1, <2>2, <2>3, <2>4, <2>5, SweptStep
<1> QED BY <1>2, <1>3

LEMMA SessionBoundaryStep ==
  ASSUME SafeBook, TypeOK', NEW x \in Exits, SessionBoundary(x)
  PROVE  SafeBook'
BY SweepStep DEF SessionBoundary

(* A headline that contradicts the position: the bracket's children are    *)
(* cancelled, which are all the orders there are, and the position sold.   *)
LEMMA ContradictionStep ==
  ASSUME CalmDesk, SafeBook, TypeOK', NEW x \in Exits, ContradictionExit(x)
  PROVE  SafeBook'
<1>1. Idle /\ pos # 0 /\ ~Unsold /\ UNCHANGED <<nb, entryMap, trade>>
  BY DEF ContradictionExit, CalmDesk
<1>2. PICK b \in Brackets : Guarded(b) /\ symBr = b /\ b # None
  <2>1. ASSUME NEW y \in Exits, Working(y) PROVE FALSE
    BY <1>1, <2>1 DEF Unsold
  <2> QED BY <1>1, <2>1, QuietBook DEF Idle, Untaken, Guarded, Brackets, None
<1>3. /\ br' = [br EXCEPT ![b].st = "COMPLETED_FLATTEN"] /\ symBr' = None
      /\ mapped' \subseteq mapped
      /\ Liquidate(Cancel(ord, Children(b)), x, symBr)
  BY <1>2 DEF ContradictionExit, ReleaseForFlattening
<1>4. \A o \in Orders : Working(o) => o \in Children(b)
  <2> SUFFICES ASSUME NEW o \in Orders, Working(o) PROVE o \in Children(b)
    OBVIOUS
  <2>1. o \notin Exits
    BY <1>2 DEF Guarded, NoExit
  <2>2. PICK c \in Brackets : \/ Waiting(c) /\ o = Entry(c)
                              \/ Guarded(c) /\ o \in {Stop(c), T1(c), T2(c)}
    BY <2>1, WorkerIsOwner
  <2>3. c = b /\ ~Waiting(c)
    BY <1>2, <2>2 DEF Waiting, Guarded, Live
  <2> QED BY <2>2, <2>3 DEF Children
<1>5. /\ Cancel(ord, Children(b)) \in [Orders -> Order]
      /\ \A o \in Orders : /\ ~Open(Cancel(ord, Children(b))[o].st)
                           /\ o \notin Exits => Cancel(ord, Children(b))[o].filled = ord[o].filled
  BY <1>4, CancelAllFacts
<1>6. symBr # None /\ br' = [br EXCEPT ![symBr].st = "COMPLETED_FLATTEN"]
  BY <1>2, <1>3
<1> QED BY <1>1, <1>3, <1>5, <1>6, SaleStep

(* The operator's flatten, whatever the owner was doing.                   *)
LEMMA ManualFlattenStep ==
  ASSUME SafeBook, TypeOK', NEW x \in Exits, ManualFlatten(x)
  PROVE  SafeBook'
<1> DEFINE f == Cancel(ord, Orders)
<1>1. Idle /\ Liquidate(f, x, symBr) /\ ReleaseForFlattening /\ UNCHANGED <<nb, entryMap, trade>>
  BY DEF ManualFlatten
<1>2. /\ f \in [Orders -> Order]
      /\ \A o \in Orders : ~Open(f[o].st) /\ (o \notin Exits => f[o].filled = ord[o].filled)
  BY CancelAllFacts
<1> HIDE DEF f
<1>3. ASSUME pos = 0 PROVE ord' = f /\ UNCHANGED <<pos, pend, phase>>
  BY <1>1, <1>3 DEF Liquidate
<1>4. /\ symBr' = None /\ mapped' \subseteq mapped
      /\ symBr = None => UNCHANGED br
      /\ symBr # None => br' = [br EXCEPT ![symBr].st = "COMPLETED_FLATTEN"]
  BY <1>1 DEF ReleaseForFlattening
<1>5. \A c \in Brackets : \/ br'[c] = br[c] /\ c # symBr
                          \/ /\ c = symBr /\ br'[c].total = br[c].total
                             /\ br'[c].st \in {"CANCELLED", "COMPLETED_FLATTEN"}
  <2> SUFFICES ASSUME NEW c \in Brackets
               PROVE  \/ br'[c] = br[c] /\ c # symBr
                      \/ /\ c = symBr /\ br'[c].total = br[c].total
                         /\ br'[c].st \in {"CANCELLED", "COMPLETED_FLATTEN"}
    OBVIOUS
  <2>1. c # None /\ br \in [Brackets -> Bracket]
    BY DEF SafeBook, TypeOK, Brackets, None
  <2>2. CASE c = symBr
    <3>1. br' = [br EXCEPT ![c] = [br[c] EXCEPT !.st = "COMPLETED_FLATTEN"]]
      BY <1>4, <2>1, <2>2
    <3> QED BY <2>1, <2>2, <3>1 DEF Bracket
  <2>3. CASE c # symBr
    <3>1. br'[c] = br[c]
      BY <1>4, <2>1, <2>3
    <3> QED BY <2>3, <3>1
  <2> QED BY <2>2, <2>3
<1>6. CASE pos = 0
  BY <1>1, <1>2, <1>3, <1>4, <1>5, <1>6, SweptStep
<1>7. CASE pos # 0
  <2>1. \/ UNCHANGED <<br, symBr>>
        \/ symBr # None /\ br' = [br EXCEPT ![symBr].st = "COMPLETED_FLATTEN"] /\ symBr' = None
    BY <1>4
  <2> QED BY <1>1, <1>2, <1>4, <1>7, <2>1, SaleStep
<1> QED BY <1>6, <1>7

(* The boundary that found shares it could not sell starts over with the   *)
(* next event.                                                             *)
LEMMA SessionIncompleteStep ==
  ASSUME SafeBook, TypeOK', SessionIncomplete
  PROVE  SafeBook'
<1>1. /\ closing' = FALSE
      /\ UNCHANGED <<pos, ord, xpar, nb, br, symBr, mapped, entryMap, pend, phase, room, halted, trade>>
  BY DEF SessionIncomplete
<1>2. (BatchIsOver /\ OrdersAreOpen /\ Numbered)'
  BY <1>1 DEF SafeBook, BatchIsOver, OrdersAreOpen, Working, Numbered, Fresh
<1>3. OthersRetired'
  BY <1>1 DEF SafeBook, OthersRetired, Retired, Booked, Paying, Working
<1>4. Stage'
  BY <1>1 DEF SafeBook, Stage, Untaken, NoExit, Waiting, Guarded, Sale, Working, Live,
     OpenShares, OpenT2, OpenBoth
<1>5. ClosingFlat'
  BY <1>1 DEF ClosingFlat
<1> QED BY <1>2, <1>3, <1>4, <1>5 DEF SafeBook

(* The boundary's last step: nothing is left to clear but records.         *)
LEMMA SessionResetStep ==
  ASSUME SafeBook, TypeOK', SessionReset
  PROVE  SafeBook'
<1>1. /\ closing /\ phase = "idle" /\ pos = 0
      /\ br' = [b \in Brackets |-> IF b <= nb THEN [NoBracket EXCEPT !.st = "CLEARED"] ELSE br[b]]
      /\ symBr' = None /\ mapped' = {} /\ entryMap' = {} /\ closing' = FALSE
      /\ trade' = [b \in Brackets |-> [out |-> 0, rec |-> 0, done |-> FALSE]]
      /\ UNCHANGED <<pos, ord, xpar, nb, pend, phase, room>>
  BY DEF SessionReset
<1>2. \A o \in Orders : ~Working(o) /\ pend[o] = 0
  BY <1>1, QuietBook DEF SafeBook, ClosingFlat
<1>3. symBr' = None /\ pos' = 0
  BY <1>1
<1>4. \A o \in Orders : ~Working(o)' /\ pend'[o] = 0
  BY <1>1, <1>2 DEF Working
<1>5. BatchIsOver' /\ OrdersAreOpen' /\ ClosingFlat'
  BY <1>1, <1>4, LegFacts DEF BatchIsOver, OrdersAreOpen, ClosingFlat
<1>6. \A b \in Brackets : /\ br'[b].st = IF b <= nb THEN "CLEARED" ELSE br[b].st
                          /\ trade'[b].out = 0 /\ ~trade'[b].done
  BY <1>1 DEF NoBracket
<1>7. Numbered'
  <2> SUFFICES ASSUME NEW b \in Brackets
               PROVE  IF b <= nb' THEN br'[b].st # "NONE" ELSE Fresh(b)'
    BY DEF Numbered
  <2>1. CASE b <= nb
    <3>1. br'[b].st = "CLEARED" /\ nb' = nb
      BY <1>1, <1>6, <2>1
    <3> QED BY <2>1, <3>1
  <2>2. CASE ~(b <= nb)
    <3>1. Fresh(b)
      BY <2>2 DEF SafeBook, Numbered
    <3>2. b # None
      BY DEF Brackets, None
    <3>3. br'[b].st = "NONE" /\ trade'[b].out = 0 /\ ~trade'[b].done
      BY <1>6, <2>2, <3>1 DEF Fresh
    <3>4. Fresh(b)'
      BY <1>1, <3>2, <3>3 DEF Fresh
    <3> QED BY <1>1, <2>2, <3>4
  <2> QED BY <2>1, <2>2
<1>8. OthersRetired'
  <2> SUFFICES ASSUME NEW c \in Brackets PROVE Retired(c)'
    BY DEF OthersRetired
  <2>1. \A p \in LegsOf(c) : ~Working(p)' /\ pend'[p] = 0
    BY <1>4, LegFacts
  <2>2. br'[c].st \in {"CLEARED", "NONE"}
    BY <1>6 DEF SafeBook, Numbered, Fresh
  <2> QED BY <1>6, <2>1, <2>2 DEF Retired
<1>9. Stage'
  BY <1>1, <1>3, <1>4, LegFacts DEF Stage, Untaken, NoExit
<1> QED BY <1>5, <1>7, <1>8, <1>9 DEF SafeBook


-----------------------------------------------------------------------------
(* The invariant holds initially, is preserved by every step, and implies  *)
(* the properties.                                                         *)

LEMMA SafeInit ==
  ASSUME Init
  PROVE  SafeBook
<1>1. TypeOK
  <2>1. ord \in [Orders -> Order] /\ br \in [Brackets -> Bracket]
    BY OrderKinds DEF Init
  <2>2. nb \in 0 .. NB /\ pos \in Int /\ symBr \in Brackets \cup {None} /\ room \in Nat
    BY BoundsAssumption DEF Init, NoCap
  <2>3. trade \in [Brackets -> [out : Nat, rec : Nat, done : BOOLEAN]]
        /\ xpar \in [Exits -> Brackets \cup {None}] /\ pend \in [Orders -> Nat]
    BY DEF Init
  <2> QED BY <2>1, <2>2, <2>3 DEF Init, TypeOK
<1>2. \A o \in Orders : ~Working(o) /\ pend[o] = 0
  BY DEF Init, Working, Open, NoOrder
<1>3. \A b \in Brackets : /\ br[b].st = "NONE" /\ trade[b].out = 0 /\ ~trade[b].done
                          /\ b # symBr /\ b \notin mapped /\ b \notin entryMap
                          /\ ~(b <= nb)
  BY DEF Init, NoBracket, Brackets, None
<1>4. Numbered
  BY <1>3 DEF Numbered, Fresh
<1>5. OthersRetired
  BY <1>2, <1>3, LegFacts DEF OthersRetired, Retired
<1>6. Stage
  BY <1>2, LegFacts DEF Init, Stage, Untaken, NoExit
<1> QED BY <1>1, <1>2, <1>4, <1>5, <1>6, LegFacts
        DEF SafeBook, BatchIsOver, OrdersAreOpen, ClosingFlat, Init

LEMMA SafeStep ==
  ASSUME CalmDesk, SafeBook, [Next]_vars
  PROVE  SafeBook'
<1>1. TypeOK'
  BY SizedBook, TypeStep DEF SafeBook
<1>2. ASSUME NEW q \in Qtys, NEW run \in Runners, EnterSignal(q, run) PROVE SafeBook'
  BY <1>1, <1>2, EnterStep
<1>3. ASSUME NEW b \in Brackets, NEW cap \in Caps, MatchStop(b, cap) PROVE SafeBook'
  BY <1>1, <1>3, MatchStopStep
<1>4. ASSUME NEW o \in Orders, NEW cap \in Caps \cup {NoCap}, MatchOther(o, cap) PROVE SafeBook'
  BY <1>1, <1>4, MatchOtherStep
<1>5. ASSUME NEW b \in Brackets, \/ ReconcileEntry(b) \/ ReconcileStop(b)
                                 \/ ReconcileT1(b) \/ ReconcileT2(b)
      PROVE  SafeBook'
  BY <1>1, <1>5, ReconcileEntryStep, ReconcileStopStep, ReconcileT1Step, ReconcileT2Step
<1>6. ASSUME NEW x \in Exits, \/ (\E q \in 1 .. pend[x] : ReconcileExit(x, q)) \/ ContradictionExit(x) \/ ManualFlatten(x)
                              \/ SessionBoundary(x) \/ (\E halt \in BOOLEAN : FlattenAll(x, halt))
      PROVE  SafeBook'
  BY <1>1, <1>6, ReconcileExitStep, ContradictionStep, ManualFlattenStep, SessionBoundaryStep,
     FlattenAllStep
<1>7. ASSUME NEW l \in 0 .. MaxStop, TrailStop(l) \/ TightenStop(l) PROVE SafeBook'
  BY <1>1, <1>7, MoveStopStep
<1>8. ASSUME OrderPurge \/ CheckpointFailed \/ SessionIncomplete \/ SessionReset \/ (\E o \in Orders : CancelOrder(o))
      PROVE  SafeBook'
  BY <1>1, <1>8, PurgeStep, CheckpointStep, SessionIncompleteStep, SessionResetStep, CancelOrderStep
<1>9. ~CancelElsewhere /\ ~(\E x \in Exits, q \in Qtys : SubmitReducing(x, q))
  BY DEF CalmDesk, CancelElsewhere, SubmitReducing
<1>10. CASE UNCHANGED vars
  BY <1>10 DEF vars, SafeBook, TypeOK, BatchIsOver, OrdersAreOpen, Numbered, Fresh, OthersRetired,
     Retired, Booked, Paying, Stage, Untaken, NoExit, Waiting, Guarded, Sale, ClosingFlat, Working, Live,
     OpenShares, OpenT2, OpenBoth
<1> QED BY <1>2, <1>3, <1>4, <1>5, <1>6, <1>7, <1>8, <1>9, <1>10
        DEF Next, Match, Reconcile, Operator

(* The book is always in one of its stages, for any number of brackets,    *)
(* any sizes, any participation caps and any order of fills.               *)
THEOREM SafeBookHolds ==
  ASSUME CalmDesk
  PROVE  Spec => []SafeBook
<1>1. Init => SafeBook
  BY SafeInit
<1>2. SafeBook /\ [Next]_vars => SafeBook'
  BY SafeStep
<1> QED BY <1>1, <1>2, PTL DEF Spec

(* Between handlers every share held is covered, by the owner's stop or by *)
(* the liquidation that the broker refused so far.                         *)
THEOREM PositionIsCovered ==
  ASSUME CalmDesk
  PROVE  Spec => []StopCoversPosition
<1>1. SafeBook => StopCoversPosition
  <2> SUFFICES ASSUME SafeBook, Quiet, pos > 0
               PROVE  \/ /\ symBr # None /\ Live(symBr) /\ br[symBr].rem = pos
                         /\ OpenShares(Stop(symBr)) = pos
                      \/ \E x \in Exits : Selling(x)
    BY DEF StopCoversPosition
  <2>1. pos # 0
    BY DEF SafeBook, TypeOK
  <2>2. CASE \E b \in Brackets : Guarded(b) /\ pos = br[b].rem /\ Working(Stop(b)) /\ ord[Stop(b)].rem = pos
    BY <2>2 DEF Guarded, OpenShares, Brackets, None
  <2>3. CASE \E x \in Exits, b \in Brackets \cup {None} : Sale(x, b) /\ Working(x) /\ ord[x].rem = pos
    BY <2>3 DEF Sale, Selling
  <2> QED BY <2>1, <2>2, <2>3, QuietBook DEF Quiet, Untaken
<1> QED BY <1>1, SafeBookHolds, PTL

(* The exits that work never offer more than the position.                 *)
THEOREM ExitsAreBacked ==
  ASSUME CalmDesk
  PROVE  Spec => []ExitsWithinPosition
<1>1. SafeBook => ExitsWithinPosition
  <2> SUFFICES ASSUME SafeBook, Quiet, NEW b \in Brackets
               PROVE  /\ OpenShares(Stop(b)) <= Floor0(pos)
                      /\ OpenShares(T1(b)) + OpenShares(T2(b)) <= Floor0(pos)
                      /\ \A x \in Exits : Working(x) =>
                           /\ OpenShares(x) <= Floor0(pos)
                           /\ \A o \in Children(b) : ~Working(o)
    BY DEF ExitsWithinPosition
  <2>1. /\ Stop(b) \in Orders /\ T1(b) \in Orders /\ T2(b) \in Orders
        /\ pend[Stop(b)] = 0 /\ pend[T1(b)] = 0 /\ pend[T2(b)] = 0
    BY QuietBook, LegFacts DEF Quiet
  <2>2. /\ OpenShares(Stop(b)) \in Nat /\ OpenShares(T1(b)) \in Nat /\ OpenShares(T2(b)) \in Nat
        /\ pos \in Int /\ Floor0(pos) >= 0
    BY <2>1, OrderFields DEF SafeBook, TypeOK, OpenShares, Floor0
  <2>3. ASSUME NEW x \in Exits, Working(x)
        PROVE  OpenShares(x) <= Floor0(pos) /\ \A o \in Children(b) : ~Working(o)
    <3>1. PICK c \in Brackets \cup {None} : Sale(x, c)
      BY <2>3, SellerIsSale
    <3>2. pos = OpenShares(x) /\ x \in Orders
      BY <3>1, LegFacts DEF Sale
    <3>3. OpenShares(x) \in Nat
      BY <3>2, OrderFields DEF SafeBook, OpenShares
    <3>4. \A o \in Children(b) : o \in Orders /\ o # x
      BY LegFacts
    <3>5. \A o \in Children(b) : ~Working(o)
      BY <3>1, <3>4 DEF Sale
    <3> QED BY <3>2, <3>3, <3>5 DEF Floor0
  <2>4. CASE Guarded(b)
    <3>1. pos = br[b].rem /\ br[b].rem \in Nat /\ br[b].t1 \in Nat /\ OpenT2(b) \in Nat
      BY <2>1, <2>4 DEF Guarded, SafeBook, TypeOK, Bracket, OpenT2
    <3>2. OpenShares(Stop(b)) = pos
      BY <2>1, <2>2, <2>4, <3>1 DEF Guarded, OpenShares
    <3>3. OpenShares(T1(b)) + OpenShares(T2(b)) <= pos
      BY <2>1, <2>2, <2>4, <3>1 DEF Guarded, OpenBoth
    <3>4. Floor0(pos) = pos
      BY <3>1 DEF Floor0
    <3> QED BY <2>2, <2>3, <3>2, <3>3, <3>4
  <2>5. CASE ~Guarded(b)
    <3>1. ASSUME NEW o \in {Stop(b), T1(b), T2(b)}, Working(o) PROVE FALSE
      <4>1. o \in Orders /\ o \in LegsOf(b) /\ o # Entry(b) /\ o \notin Exits
        BY LegFacts
      <4>2. PICK c \in Brackets : \/ Waiting(c) /\ o = Entry(c)
                                  \/ Guarded(c) /\ o \in {Stop(c), T1(c), T2(c)}
        BY <3>1, <4>1, WorkerIsOwner
      <4>3. c = b
        BY <4>1, <4>2, LegFacts
      <4> QED BY <2>5, <4>1, <4>2, <4>3
    <3>2. OpenShares(Stop(b)) = 0 /\ OpenShares(T1(b)) = 0 /\ OpenShares(T2(b)) = 0
      BY <3>1 DEF OpenShares
    <3> QED BY <2>2, <2>3, <3>2
  <2> QED BY <2>4, <2>5
<1> QED BY <1>1, SafeBookHolds, PTL

(* The program can start again from the checkpoint of its last handler,    *)
(* unless the broker refused that handler's liquidation of the bracket     *)
(* that still holds the symbol; and it never sells a position through.     *)
THEOREM RestartIsPossible ==
  ASSUME CalmDesk
  PROVE  Spec => []CheckpointRestores
<1>1. SafeBook => pos >= 0
  <2> SUFFICES ASSUME SafeBook PROVE pos >= 0
    OBVIOUS
  <2>1. ASSUME NEW b \in Brackets, Waiting(b) PROVE pos >= 0
    BY <2>1, LegFacts, OrderFields DEF SafeBook, Waiting
  <2>2. ASSUME NEW b \in Brackets, Guarded(b) PROVE pos >= 0
    <3>1. /\ pend[Stop(b)] \in Nat /\ pend[T1(b)] \in Nat /\ pend[T2(b)] \in Nat
          /\ br[b].rem \in Nat /\ br[b].t1 \in Nat /\ OpenT2(b) \in Nat /\ ord[Stop(b)].rem \in Nat
          /\ OpenShares(T1(b)) \in Nat /\ OpenShares(T2(b)) \in Nat
      BY LegFacts, OrderFields DEF SafeBook, TypeOK, Bracket, OpenT2, OpenShares
    <3>2. pend[Stop(b)] <= br[b].rem
      BY <2>2, <3>1 DEF Guarded
    <3>3. pend[T1(b)] + pend[T2(b)] <= br[b].rem
      BY <2>2, <3>1 DEF Guarded, OpenBoth
    <3>4. pend[Stop(b)] = 0 \/ (pend[T1(b)] = 0 /\ pend[T2(b)] = 0)
      BY <2>2, <3>1 DEF Guarded
    <3>5. pos = br[b].rem - pend[Stop(b)] - pend[T1(b)] - pend[T2(b)]
      BY <2>2 DEF Guarded
    <3> QED BY <3>1, <3>2, <3>3, <3>4, <3>5
  <2>3. ASSUME NEW x \in Exits, NEW b \in Brackets \cup {None}, Sale(x, b) PROVE pos >= 0
    BY <2>3, LegFacts, OrderFields DEF SafeBook, Sale, OpenShares
  <2> QED BY <2>1, <2>2, <2>3 DEF SafeBook, Stage, Untaken
<1>2. SafeBook /\ Quiet => Restorable \/ \E x \in Exits : Selling(x) /\ xpar[x] = symBr
  <2> SUFFICES ASSUME SafeBook, Quiet, symBr # None
               PROVE  \/ /\ br[symBr].st \in {"PENDING_ENTRY", "ACTIVE", "TARGET_1_HIT"}
                         /\ OwnerIsProtected(symBr)
                      \/ \E x \in Exits : Selling(x) /\ xpar[x] = symBr
    BY DEF Restorable, SafeBook, OrdersAreOpen
  <2>1. CASE \E b \in Brackets : Waiting(b)
    BY <2>1 DEF Waiting, OwnerIsProtected
  <2>2. CASE \E b \in Brackets : /\ Guarded(b) /\ pos = br[b].rem /\ pos > 0
                                 /\ Working(Stop(b)) /\ ord[Stop(b)].rem = pos
    BY <2>2 DEF Guarded, Live, OwnerIsProtected, OpenShares
  <2>3. CASE \E x \in Exits, b \in Brackets \cup {None} : Sale(x, b) /\ Working(x) /\ ord[x].rem = pos
    BY <2>3 DEF Sale, Selling
  <2> QED BY <2>1, <2>2, <2>3, QuietBook DEF Quiet, Untaken
<1> QED BY <1>1, <1>2, SafeBookHolds, PTL DEF CheckpointRestores

(* A bracket dropped as CANCELLED can never be filled afterwards.          *)
THEOREM CancelledIsDead ==
  ASSUME CalmDesk
  PROVE  Spec => []ReleasedOnlyIfEntryDead
<1>1. SafeBook => ReleasedOnlyIfEntryDead
  <2> SUFFICES ASSUME SafeBook, NEW b \in Brackets, br[b].st = "CANCELLED"
               PROVE  ~Working(Entry(b)) /\ ord[Entry(b)].filled = 0
    BY DEF ReleasedOnlyIfEntryDead
  <2>1. b # symBr
    BY DEF SafeBook, Stage, Untaken, Waiting, Guarded, Sale, Live, Brackets, None
  <2>2. Retired(b) /\ Entry(b) \in LegsOf(b)
    BY <2>1, LegFacts DEF SafeBook, OthersRetired
  <2> QED BY <2>2 DEF Retired
<1> QED BY <1>1, SafeBookHolds, PTL

(* Every share of a bracket whose trade row is written has been tallied,   *)
(* and is in the row unless a liquidation sold it in a later piece.        *)
THEOREM TradesAreComplete ==
  ASSUME CalmDesk
  PROVE  Spec => []RecordedTradeIsComplete
<1>1. SafeBook => RecordedTradeIsComplete
  <2> SUFFICES ASSUME SafeBook, NEW b \in Brackets, trade[b].done
               PROVE  /\ br[b].st # "COMPLETED_FLATTEN" => trade[b].rec = br[b].total /\ trade[b].out = 0
                      /\ Quiet => trade[b].rec + trade[b].out = br[b].total
    BY DEF RecordedTradeIsComplete
  <2>1. b # symBr
    BY DEF SafeBook, Stage, Untaken, Waiting, Guarded, Sale, Brackets, None
  <2>2. Booked(b) \/ Paying(b)
    BY <2>1 DEF SafeBook, OthersRetired, Retired
  <2>3. CASE Booked(b)
    <3>1. trade[b].rec \in Nat /\ trade[b].out \in Nat
      BY DEF SafeBook, TypeOK
    <3> QED BY <2>3, <3>1 DEF Booked
  <2>4. CASE Paying(b)
    <3>1. PICK x \in Exits : xpar[x] = b /\ pend[x] > 0
      BY <2>4 DEF Paying
    <3>2. PICK c \in Brackets \cup {None} : Sale(x, c)
      BY <3>1, SellerIsSale
    <3>3. c = b /\ b # None
      BY <3>1, <3>2 DEF Sale, Brackets, None
    <3>4. br[b].st = "COMPLETED_FLATTEN"
      BY <3>2, <3>3 DEF Sale
    <3>5. ~Quiet
      BY <3>1, LegFacts DEF Quiet, SafeBook, BatchIsOver
    <3> QED BY <3>4, <3>5
  <2> QED BY <2>2, <2>3, <2>4
<1> QED BY <1>1, SafeBookHolds, PTL


-----------------------------------------------------------------------------
(* What holds whatever the operator does.                                  *)

(* A bracket that was not opened yet has no state, and no other one owns   *)
(* the symbol.                                                             *)
Born ==
  /\ \A b \in Brackets : b > nb => br[b].st = "NONE"
  /\ symBr # None => br[symBr].st # "NONE"

Tighter == \A b \in Brackets : Live(b) /\ br'[b].st # "CLEARED" => br'[b].stop >= br[b].stop

(* The brackets that exist stay what they are or move on, with the stop    *)
(* where it was or nearer to the market.                                   *)
Kept ==
  /\ \A b \in Brackets : /\ br[b].st = "NONE" <=> br'[b].st = "NONE"
                         /\ br'[b].st = "CLEARED" => br[b].st = "CLEARED"
                         /\ br'[b].stop >= br[b].stop
  /\ nb' = nb
  /\ symBr' \in {symBr, None}

(* Every step but an entry and the clearing of the book does so.           *)
LEMMA KeptStep ==
  ASSUME TypeOK, Born, [Next]_vars
  PROVE  \/ \E q \in Qtys, run \in Runners : EnterSignal(q, run)
         \/ SessionReset
         \/ Kept
<1> USE DEF Kept
<1>b. br \in [Brackets -> Bracket] /\ \A b \in Brackets : br[b].stop \in 0 .. MaxStop /\ br[b].stop \in Int
  BY BoundsAssumption DEF TypeOK, Bracket
<1>c. ASSUME UNCHANGED <<br, symBr, nb>> PROVE Kept
  BY <1>b, <1>c
<1>d. ASSUME NEW f, ReleaseDead(f), nb' = nb PROVE Kept
  <2>1. CASE UNCHANGED <<br, symBr>>
    BY <1>c, <1>d, <2>1
  <2>2. CASE symBr # None /\ br[symBr].st = "PENDING_ENTRY" /\ symBr' = None
             /\ br' = [br EXCEPT ![symBr].st = "CANCELLED"]
    BY <1>b, <1>d, <2>2 DEF Bracket, TypeOK
  <2> QED BY <1>d, <2>1, <2>2 DEF ReleaseDead
<1>e. ASSUME ReleaseForFlattening, nb' = nb PROVE Kept
  BY <1>b, <1>e DEF ReleaseForFlattening, Bracket, TypeOK, Born
<1>f. ASSUME NEW o, NEW b \in Brackets \cup {None}, NEW q, ExitFill(o, b, q), nb' = nb PROVE Kept
  <2>1. CASE UNCHANGED <<br, symBr>>
    BY <1>c, <1>f, <2>1
  <2>2. CASE b \in Brackets /\ br[b].st # "NONE" /\ symBr' = None
             /\ br' = [br EXCEPT ![b].st = "COMPLETED_FLATTEN"]
    BY <1>b, <1>f, <2>2 DEF Bracket
  <2> QED BY <1>f, <2>1, <2>2 DEF ExitFill
<1>g. ASSUME NEW o, NEW b \in Brackets, NEW q, LateChild(o, b, q), nb' = nb PROVE Kept
  BY <1>c, <1>f, <1>g DEF LateChild
<1>h. ASSUME NEW b \in Brackets, NEW q, Live(b), nb' = nb,
             Complete(b, "COMPLETED_STOP", q) \/ Complete(b, "COMPLETED_PROFIT", q)
      PROVE  Kept
  <2>1. ASSUME NEW st \in {"COMPLETED_STOP", "COMPLETED_PROFIT"}, symBr' = None,
               br' = [br EXCEPT ![b] = [@ EXCEPT !.st = st, !.rem = 0]]
        PROVE  Kept
    BY <1>b, <1>h, <2>1 DEF Bracket, Live
  <2> HIDE DEF Kept
  <2> QED BY <1>h, <2>1 DEF Complete
<1>2. ASSUME NEW b \in Brackets, ReconcileEntry(b) PROVE Kept
  <2>1. nb' = nb /\ symBr' = symBr
    BY <1>2 DEF ReconcileEntry
  <2>2. ASSUME NEW n, NEW m, NEW k, br[b].st = "PENDING_ENTRY",
               br' = [br EXCEPT ![b] = [@ EXCEPT !.st = "ACTIVE", !.total = n, !.rem = n, !.t1 = m, !.t2 = k]]
        PROVE  Kept
    BY <1>b, <2>1, <2>2 DEF Bracket
  <2> HIDE DEF Kept
  <2> QED BY <1>2, <1>c, <2>1, <2>2 DEF ReconcileEntry
<1>3. ASSUME NEW b \in Brackets, ReconcileStop(b) PROVE Kept
  <2>1. ASSUME NEW r, ScaleTargets(b, r), UNCHANGED <<symBr, nb>> PROVE Kept
    <3>1. ASSUME NEW n, NEW m, br' = [br EXCEPT ![b] = [@ EXCEPT !.rem = r, !.t1 = n, !.t2 = m]]
          PROVE  Kept
      BY <1>b, <2>1, <3>1 DEF Bracket
    <3>2. ASSUME br' = [br EXCEPT ![b].rem = r] PROVE Kept
      BY <1>b, <2>1, <3>2 DEF Bracket
    <3> HIDE DEF Kept
    <3> QED BY <2>1, <3>1, <3>2 DEF ScaleTargets
  <2> QED BY <1>3, <1>g, <1>h, <2>1 DEF ReconcileStop, Current
<1>4. ASSUME NEW b \in Brackets, ReconcileT1(b) PROVE Kept
  <2>1. ASSUME NEW r, NEW n, Live(b), UNCHANGED <<symBr, nb>>,
               br' = [br EXCEPT ![b] = [@ EXCEPT !.st = "TARGET_1_HIT", !.rem = r, !.t1 = n,
                                                 !.stop = Ratchet(br[b].stop)]]
        PROVE  Kept
    <3>1. Ratchet(br[b].stop) >= br[b].stop
      BY <1>b, BoundsAssumption DEF Ratchet
    <3>2. br'[b].st = "TARGET_1_HIT" /\ br'[b].stop = Ratchet(br[b].stop)
          /\ \A c \in Brackets : c # b => br'[c] = br[c]
      BY <1>b, <2>1 DEF Bracket
    <3> QED BY <1>b, <2>1, <3>1, <3>2 DEF Live
  <2> HIDE DEF Kept
  <2> QED BY <1>4, <1>g, <1>h, <2>1 DEF ReconcileT1, Current
<1>5. ASSUME NEW b \in Brackets, ReconcileT2(b) PROVE Kept
  <2>1. ASSUME NEW r, NEW n, UNCHANGED <<symBr, nb>>, br' = [br EXCEPT ![b] = [@ EXCEPT !.rem = r, !.t2 = n]]
        PROVE  Kept
    BY <1>b, <2>1 DEF Bracket
  <2> HIDE DEF Kept
  <2> QED BY <1>5, <1>g, <1>h, <2>1 DEF ReconcileT2, Current
<1>6. ASSUME NEW x \in Exits, NEW q, ReconcileExit(x, q) PROVE Kept
  <2>1. xpar[x] \in Brackets \cup {None}
    BY DEF TypeOK
  <2> QED BY <1>6, <1>f, <2>1 DEF ReconcileExit
<1>7. ASSUME NEW l \in 0 .. MaxStop, TrailStop(l) \/ TightenStop(l) PROVE Kept
  <2>1. br' = [br EXCEPT ![symBr].stop = l] /\ symBr \in Brackets /\ l > br[symBr].stop
        /\ UNCHANGED <<symBr, nb>>
    BY <1>7 DEF TrailStop, TightenStop, MoveStop, TypeOK
  <2>2. br'[symBr].stop = l /\ br'[symBr].st = br[symBr].st
        /\ \A c \in Brackets : c # symBr => br'[c] = br[c]
    BY <1>b, <2>1 DEF Bracket
  <2>3. l >= br[symBr].stop
    BY <1>b, <2>1, BoundsAssumption
  <2> QED BY <1>b, <2>1, <2>2, <2>3
<1>9. ASSUME Match \/ CancelElsewhere \/ SessionIncomplete \/ UNCHANGED vars
             \/ (\E x \in Exits, q \in Qtys : SubmitReducing(x, q))
      PROVE  Kept
  BY <1>9, <1>c, <1>d DEF Match, MatchStop, MatchOther, CancelElsewhere, SubmitReducing,
     SessionIncomplete, vars
<1>10. ASSUME OrderPurge \/ CheckpointFailed \/ (\E o \in Orders : CancelOrder(o)) PROVE Kept
  BY <1>10, <1>d DEF OrderPurge, CheckpointFailed, CancelOrder
<1>11. ASSUME NEW x \in Exits, NEW halt, FlattenAll(x, halt) \/ SessionBoundary(x)
                                         \/ ContradictionExit(x) \/ ManualFlatten(x)
       PROVE  Kept
  BY <1>11, <1>c, <1>d, <1>e DEF FlattenAll, SessionBoundary, ContradictionExit, ManualFlatten
<1> HIDE DEF Kept
<1> QED
  BY <1>2, <1>3, <1>4, <1>5, <1>6, <1>7, <1>9, <1>10, <1>11
     DEF Next, Reconcile, Operator

(* No step loosens the stop of a live bracket.                             *)
LEMMA BornStep ==
  ASSUME TypeOK, Born, [Next]_vars
  PROVE  Born' /\ Tighter
<1>b. br \in [Brackets -> Bracket] /\ \A b \in Brackets : br[b].stop \in 0 .. MaxStop /\ br[b].stop \in Int
  BY BoundsAssumption DEF TypeOK, Bracket
<1>1. ASSUME NEW q \in Qtys, NEW run \in Runners, EnterSignal(q, run) PROVE Born' /\ Tighter
  <2> DEFINE nr == [st |-> "PENDING_ENTRY", runner |-> run, total |-> q, rem |-> q,
                    t1 |-> Halve(q), t2 |-> q - Halve(q), stop |-> 0]
  <2>1. PICK c \in Brackets : c = nb + 1
    BY <1>1, BoundsAssumption DEF EnterSignal, TypeOK, Brackets
  <2>2. nb \in Nat /\ br' = [br EXCEPT ![c] = nr] /\ symBr' = c /\ nb' = c /\ nr.st = "PENDING_ENTRY"
    BY <1>1, <2>1 DEF EnterSignal, TypeOK
  <2> HIDE DEF nr
  <2>3. br'[c] = nr /\ br[c].st = "NONE" /\ \A b \in Brackets : b # c => br'[b] = br[b]
    BY <1>b, <2>1, <2>2 DEF Born
  <2>4. Born'
    BY <2>1, <2>2, <2>3 DEF Born, Brackets
  <2>5. Tighter
    BY <1>b, <2>3 DEF Tighter, Live
  <2> QED BY <2>4, <2>5
<1>2. ASSUME SessionReset PROVE Born' /\ Tighter
  <2>1. \A b \in Brackets : IF b <= nb THEN br'[b].st = "CLEARED" ELSE br'[b] = br[b]
    BY <1>2 DEF SessionReset, NoBracket
  <2>2. nb' = nb /\ symBr' = None
    BY <1>2 DEF SessionReset
  <2>3. Born'
    BY <2>1, <2>2 DEF Born, TypeOK, Brackets
  <2>4. Tighter
    BY <1>b, <2>1 DEF Tighter
  <2> QED BY <2>3, <2>4
<1>3. ASSUME Kept PROVE Born' /\ Tighter
  BY <1>3 DEF Kept, Born, Tighter, TypeOK
<1> QED BY <1>1, <1>2, <1>3, KeptStep

(* No handler ever moves the stop of a live bracket away from the market.  *)
THEOREM StopOnlyTightens == Spec => StopNeverLoosens
<1>1. Init => Born
  BY DEF Init, Born, NoBracket
<1>2. TypeOK /\ Born /\ [Next]_vars => Born'
  BY BornStep
<1>3. TypeOK /\ Born /\ [Next]_vars => [Tighter]_vars
  BY BornStep
<1>4. [Tighter]_vars => [\A b \in Brackets : Live(b) /\ br'[b].st # "CLEARED" => br'[b].stop >= br[b].stop]_vars
  BY DEF Tighter
<1> QED BY <1>1, <1>2, <1>3, <1>4, TypeCorrect, PTL DEF Spec, StopNeverLoosens

(* While the session boundary runs, only the liquidation it sent is at     *)
(* work, and that only as long as shares are left.                         *)
LEMMA ClosingStep ==
  ASSUME TypeOK, TypeOK', BatchIsOver, ClosingFlat, [Next]_vars
  PROVE  BatchIsOver' /\ ClosingFlat'
<1> DEFINE Goal == BatchIsOver' /\ ClosingFlat'
<1>a. ASSUME ~closing', UNCHANGED <<pend, phase>> PROVE Goal
  BY <1>a DEF BatchIsOver, ClosingFlat
<1>b. ASSUME NEW f \in [Orders -> Order], NEW x \in Exits, NEW b, Liquidate(f, x, b), Idle,
             closing' => \A o \in Orders : ~Open(f[o].st)
      PROVE  Goal
  <2>1. x \in Orders
    BY LegFacts
  <2>2. \A o \in Orders : pend[o] = 0
    BY <1>b DEF BatchIsOver, Idle
  <2>3. CASE pos = 0
    <3>1. ord' = f /\ UNCHANGED <<pos, pend, phase>>
      BY <1>b, <2>3 DEF Liquidate
    <3>2. closing' => \A o \in Orders : ~Working(o)' /\ pend'[o] = 0
      BY <1>b, <2>2, <3>1 DEF Working
    <3> QED BY <2>2, <3>1, <3>2, LegFacts DEF BatchIsOver, ClosingFlat
  <2>4. CASE pos # 0
    <3> DEFINE n == IF pos > 0 THEN pos ELSE -pos
    <3>1. n \in Nat /\ n > 0
      BY <2>4 DEF TypeOK
    <3>2. PICK k \in 0 .. n :
            /\ ord' = [f EXCEPT ![x] = IF k = 0 THEN Accepted(n) ELSE Filled(Accepted(n), k)]
            /\ pend' = [pend EXCEPT ![x] = k]
            /\ pos' = IF pos > 0 THEN pos - k ELSE pos + k
            /\ phase' = IF k = 0 THEN "idle" ELSE "sell"
      BY <1>b, <2>4 DEF Liquidate
    <3>3. /\ \A o \in Orders : o # x => ord'[o] = f[o] /\ pend'[o] = 0
          /\ pend'[x] = k /\ k \in Nat
          /\ ord'[x] = IF k = 0 THEN Accepted(n) ELSE Filled(Accepted(n), k)
      BY <2>1, <2>2, <3>1, <3>2 DEF TypeOK
    <3>4. pos' = 0 => k = n
      BY <3>1, <3>2 DEF TypeOK
    <3>5. k = n => ord'[x].st = "FILLED"
      <4>1. ASSUME k = n PROVE ord'[x] = Filled(Accepted(n), n)
        BY <3>1, <3>3, <4>1
      <4> QED BY <4>1 DEF Filled, Accepted
    <3>6. Working(x)' => pos' # 0
      BY <3>4, <3>5 DEF Working, Open
    <3> HIDE DEF n
    <3>7. BatchIsOver'
      BY <3>2, <3>3 DEF BatchIsOver
    <3>8. ClosingFlat'
      BY <1>b, <3>2, <3>3, <3>6, LegFacts DEF ClosingFlat, Working
    <3> QED BY <3>7, <3>8
  <2> QED BY <2>3, <2>4
<1>c. ASSUME NEW x \in Exits, NEW q, TakePiece(x, q), UNCHANGED <<pos, closing>>,
             \A p \in Orders : Working(p)' => Working(p)
      PROVE  Goal
  <2>1. /\ BatchIsOver' /\ phase' \in {"reconcile", "idle"}
        /\ \A p \in Orders : p # x => pend'[p] = pend[p]
    BY <1>c, TakePieceFacts, LegFacts
  <2> QED BY <1>c, <2>1, LegFacts DEF ClosingFlat
<1>d. ASSUME NEW o \in Orders, o \notin Exits, TakeFill(o), UNCHANGED <<pos, closing>> PROVE Goal
  <2>1. ~closing /\ BatchIsOver'
    BY <1>d, TakeFacts DEF ClosingFlat
  <2> QED BY <1>d, <2>1 DEF ClosingFlat
<1>e. ASSUME NEW S PROVE Cancel(ord, S) \in [Orders -> Order]
  BY CancelType DEF TypeOK
<1>f. \A o \in Orders : ~Open(Cancel(ord, Orders)[o].st)
  BY CancelFacts DEF TypeOK
<1>1. ASSUME NEW q \in Qtys, NEW run \in Runners, EnterSignal(q, run) PROVE Goal
  BY <1>1, <1>a DEF EnterSignal, Idle
<1>2. ASSUME NEW b \in Brackets, NEW cap \in Caps, MatchStop(b, cap) PROVE Goal
  BY <1>2 DEF MatchStop, Idle, BatchIsOver, ClosingFlat
<1>3. ASSUME NEW o \in Orders, NEW cap, MatchOther(o, cap) PROVE Goal
  <2>1. ~closing /\ phase' \in {"match", "sell"} /\ closing' = closing
    BY <1>3 DEF MatchOther, ClosingFlat, Idle
  <2> QED BY <2>1 DEF BatchIsOver, ClosingFlat
<1>4. ASSUME NEW b \in Brackets, ReconcileEntry(b) \/ ReconcileStop(b) \/ ReconcileT1(b) \/ ReconcileT2(b)
      PROVE  Goal
  <2>1. PICK o \in LegsOf(b) : TakeFill(o) /\ UNCHANGED <<pos, closing>>
    BY <1>4, LegFacts DEF ReconcileEntry, ReconcileStop, ReconcileT1, ReconcileT2
  <2>2. o \in Orders /\ o \notin Exits
    BY LegFacts
  <2> QED BY <1>d, <2>1, <2>2
<1>5. ASSUME NEW x \in Exits, NEW q, ReconcileExit(x, q) PROVE Goal
  <2>1. x \in Orders
    BY LegFacts
  <2>2. ord' = ord \/ ord' = [ord EXCEPT ![x] = NoOrder]
    BY <1>5 DEF ReconcileExit
  <2>3. \A p \in Orders : ord'[p] = ord[p] \/ ord'[p] = NoOrder
    BY <2>1, <2>2 DEF TypeOK
  <2>4. \A p \in Orders : Working(p)' => Working(p)
    BY <2>3 DEF Working, Open, NoOrder
  <2> QED BY <1>5, <1>c, <2>1, <2>4 DEF ReconcileExit
<1>6. ASSUME NEW l, TrailStop(l) \/ TightenStop(l) PROVE Goal
  BY <1>6, <1>a DEF TrailStop, TightenStop, MoveStop, Idle
<1>7. ASSUME NEW x \in Exits, NEW halt, FlattenAll(x, halt) \/ SessionBoundary(x) \/ ManualFlatten(x)
      PROVE  Goal
  <2>1. PICK b : Liquidate(Cancel(ord, Orders), x, b) /\ Idle
    BY <1>7 DEF FlattenAll, SessionBoundary, ManualFlatten
  <2> QED BY <1>b, <1>e, <1>f, <2>1
<1>8. ASSUME NEW x \in Exits, ContradictionExit(x) PROVE Goal
  <2>1. PICK f \in [Orders -> Order] : (\E b : Liquidate(f, x, b)) /\ Idle /\ ~closing'
    BY <1>8, <1>e DEF ContradictionExit, Idle, TypeOK
  <2> QED BY <1>b, <2>1
<1>9. ASSUME OrderPurge \/ CheckpointFailed \/ CancelElsewhere \/ SessionIncomplete \/ SessionReset
             \/ (\E o \in Orders : CancelOrder(o)) \/ (\E x \in Exits, q \in Qtys : SubmitReducing(x, q))
      PROVE  Goal
  <2>1. CASE OrderPurge \/ CheckpointFailed \/ CancelElsewhere \/ SessionIncomplete \/ SessionReset
    BY <2>1, <1>a DEF OrderPurge, CheckpointFailed, CancelElsewhere, SessionIncomplete, SessionReset, Idle
  <2>2. ASSUME NEW o \in Orders, CancelOrder(o) PROVE Goal
    BY <2>2, <1>a DEF CancelOrder, Idle
  <2>3. ASSUME NEW x \in Exits, NEW q \in Qtys, SubmitReducing(x, q) PROVE Goal
    BY <2>3, <1>a DEF SubmitReducing, Idle
  <2> HIDE DEF Goal
  <2> QED BY <1>9, <2>1, <2>2, <2>3
<1>10. ASSUME UNCHANGED vars PROVE Goal
  BY <1>10 DEF vars, BatchIsOver, ClosingFlat, Working
<1> HIDE DEF Goal
<1>11. Goal
  BY <1>1, <1>2, <1>3, <1>4, <1>5, <1>6, <1>7, <1>8, <1>9, <1>10 DEF Next, Match, Reconcile, Operator
<1> QED BY <1>11 DEF Goal

(* A bracket that was cleared, or is still to come.                        *)
Gone(b) == b > nb \/ br[b].st = "CLEARED"

Left(o) == Working(o) \/ pend[o] > 0

(* Nothing in the market belongs to a bracket that is gone, and when all   *)
(* of them were cleared nothing is in the market at all.                   *)
DayBook ==
  /\ symBr # None => ~Gone(symBr)
  /\ \A b \in Brackets : Gone(b) =>
       /\ \A o \in LegsOf(b) : ~Left(o)
       /\ \A x \in Exits : xpar[x] = b => ~Left(x)
  /\ nb > 0 /\ (\A b \in 1 .. nb : br[b].st = "CLEARED") => pos = 0 /\ \A x \in Exits : ~Left(x)

(* What a step has to keep for that: orders of brackets that are gone stay *)
(* out of the market, a liquidation enters it only for the bracket that    *)
(* holds the symbol, and out of an empty book comes no share.              *)
LEMMA DayFrame ==
  ASSUME TypeOK, TypeOK', DayBook, Kept,
         \A b \in Brackets : Gone(b) => \A o \in LegsOf(b) : Left(o)' => Left(o),
         \A x \in Exits : Left(x)' => \/ Left(x) /\ xpar'[x] = xpar[x]
                                      \/ xpar'[x] \in {symBr, None},
         (\A o \in Orders : ~Left(o)) /\ symBr = None /\ pos = 0
           => pos' = 0 /\ \A x \in Exits : ~Left(x)'
  PROVE  DayBook'
<1>1. nb' = nb /\ \A b \in Brackets : Gone(b)' => Gone(b)
  BY DEF Kept, Gone
<1>2. ASSUME NEW c \in Brackets, symBr' = c PROVE ~Gone(c)'
  <2>1. symBr = c /\ symBr # None
    BY <1>2 DEF Kept, Brackets, None
  <2> QED BY <1>1, <2>1 DEF DayBook
<1>3. symBr' # None => ~Gone(symBr)'
  <2> SUFFICES ASSUME symBr' # None PROVE ~Gone(symBr)'
    OBVIOUS
  <2>1. PICK c \in Brackets : c = symBr'
    BY DEF TypeOK
  <2>2. ~(c > nb' \/ br'[c].st = "CLEARED")
    BY <1>2, <2>1 DEF Gone
  <2> QED BY <2>1, <2>2 DEF Gone
<1>4. ASSUME NEW b \in Brackets, Gone(b)'
      PROVE  /\ \A o \in LegsOf(b) : ~Left(o)'
             /\ \A x \in Exits : xpar'[x] = b => ~Left(x)'
  <2>1. Gone(b) /\ b # None
    BY <1>1, <1>4 DEF Brackets, None
  <2>2. b # symBr
    BY <2>1 DEF DayBook
  <2> QED BY <2>1, <2>2 DEF DayBook
<1>5. ASSUME nb' > 0, \A b \in 1 .. nb' : br'[b].st = "CLEARED"
      PROVE  pos' = 0 /\ \A x \in Exits : ~Left(x)'
  <2>1. nb > 0 /\ nb \in Nat /\ nb <= NB
    BY <1>1, <1>5, BoundsAssumption DEF TypeOK
  <2>2. \A b \in 1 .. nb : br[b].st = "CLEARED"
    <3> SUFFICES ASSUME NEW b \in 1 .. nb PROVE br[b].st = "CLEARED"
      OBVIOUS
    <3>1. b \in Brackets
      BY <2>1, BoundsAssumption DEF Brackets
    <3>2. br'[b].st = "CLEARED"
      BY <1>1, <1>5
    <3> QED BY <3>1, <3>2 DEF Kept
  <2>3. \A b \in Brackets : Gone(b)
    BY <2>1, <2>2 DEF Gone, Brackets
  <2>4. pos = 0 /\ \A x \in Exits : ~Left(x)
    BY <2>1, <2>2 DEF DayBook
  <2>5. \A o \in Orders : ~Left(o)
    BY <2>3, <2>4, LegFacts DEF DayBook
  <2>6. symBr = None
    BY <2>3 DEF DayBook, TypeOK
  <2> QED BY <2>4, <2>5, <2>6
<1> QED BY <1>3, <1>4, <1>5 DEF DayBook

LEMMA DayStep ==
  ASSUME TypeOK, TypeOK', BatchIsOver, ClosingFlat, Born, DayBook, [Next]_vars
  PROVE  DayBook'
<1>a. ASSUME Kept, UNCHANGED <<pos, xpar>>, \A o \in Orders : Left(o)' => Left(o) PROVE DayBook'
  BY <1>a, LegFacts, DayFrame
<1>b. ASSUME Kept, UNCHANGED <<pos, xpar, pend>>, NEW S, ord' = Cancel(ord, S) PROVE DayBook'
  <2>1. \A o \in Orders : Left(o)' => Left(o)
    BY <1>b, CancelFacts DEF TypeOK, Left, Working
  <2> QED BY <1>a, <1>b, <2>1
<1>c. ASSUME Kept, Idle, NEW x \in Exits, NEW S, NEW c \in {symBr, None}, Liquidate(Cancel(ord, S), x, c)
      PROVE  DayBook'
  <2>1. x \in Orders /\ Cancel(ord, S) \in [Orders -> Order]
    BY LegFacts, CancelType DEF TypeOK
  <2>2. CASE pos = 0
    BY <1>b, <1>c, <2>2 DEF Liquidate
  <2>3. CASE pos # 0
    <3>1. PICK k, r : ord' = [Cancel(ord, S) EXCEPT ![x] = r] /\ pend' = [pend EXCEPT ![x] = k]
      BY <1>c, <2>3 DEF Liquidate
    <3>2. xpar'[x] = c /\ \A y \in Exits : y # x => xpar'[y] = xpar[y]
      BY <1>c, <2>3 DEF Liquidate, TypeOK
    <3>3. \A o \in Orders : o # x => ord'[o] = Cancel(ord, S)[o] /\ pend'[o] = pend[o]
      BY <2>1, <3>1 DEF TypeOK
    <3>4. \A o \in Orders : o # x => (Left(o)' => Left(o))
      BY <3>3, CancelFacts DEF TypeOK, Left, Working
    <3>5. \A b \in Brackets : \A o \in LegsOf(b) : o \in Orders /\ o # x
      BY LegFacts
    <3> QED BY <1>c, <2>3, <3>2, <3>4, <3>5, LegFacts, DayFrame
  <2> QED BY <2>2, <2>3
<1>d. ASSUME Kept, NEW b \in Brackets, NEW o \in LegsOf(b), TakeFill(o), UNCHANGED <<pos, xpar>>,
             \A p \in Orders : p \notin LegsOf(b) => ord'[p] = ord[p]
      PROVE  DayBook'
  <2>1. o \in Orders /\ o \notin Exits
    BY LegFacts
  <2>2. pend[o] > 0 /\ \A p \in Orders : p # o => pend'[p] = pend[p]
    BY <1>d, <2>1, TakeFacts
  <2>3. Left(o) /\ ~Gone(b)
    BY <1>d, <2>2 DEF Left, DayBook
  <2>4. \A p \in Orders : p \notin LegsOf(b) => (Left(p)' => Left(p))
    BY <1>d, <2>2 DEF Left, Working
  <2> QED BY <1>d, <2>1, <2>3, <2>4, LegFacts, DayFrame
<1>1. ASSUME NEW q \in Qtys, NEW run \in Runners, EnterSignal(q, run) PROVE DayBook'
  <2> DEFINE nr == [st |-> "PENDING_ENTRY", runner |-> run, total |-> q, rem |-> q,
                    t1 |-> Halve(q), t2 |-> q - Halve(q), stop |-> 0]
  <2>1. PICK c \in Brackets : c = nb + 1
    BY <1>1, BoundsAssumption DEF EnterSignal, TypeOK, Brackets
  <2>2. /\ nb \in Nat /\ br' = [br EXCEPT ![c] = nr] /\ symBr' = c /\ nb' = c /\ nr.st = "PENDING_ENTRY"
        /\ ord' = [ord EXCEPT ![Entry(c)] = Accepted(q)] /\ UNCHANGED <<pos, pend, xpar>>
    BY <1>1, <2>1 DEF EnterSignal, TypeOK
  <2> HIDE DEF nr
  <2>3. br'[c].st = "PENDING_ENTRY" /\ \A b \in Brackets : b # c => br'[b] = br[b]
    BY <2>1, <2>2 DEF TypeOK
  <2>4. \A b \in Brackets : Gone(b)' => Gone(b) /\ b # c
    BY <2>1, <2>2, <2>3 DEF Gone, Brackets
  <2>5. \A o \in Orders : o # Entry(c) => (Left(o)' => Left(o))
    BY <2>2 DEF TypeOK, Left, Working
  <2>6. \A b \in Brackets : b # c => \A o \in LegsOf(b) : o \in Orders /\ o # Entry(c)
    BY <2>1, LegFacts
  <2>7. \A x \in Exits : x \in Orders /\ x # Entry(c)
    BY <2>1, LegFacts
  <2>8. symBr' # None => ~Gone(symBr)'
    BY <2>1, <2>2, <2>3 DEF Gone, Brackets
  <2>9. c \in 1 .. nb' /\ br'[c].st # "CLEARED"
    BY <2>1, <2>2, <2>3 DEF Brackets
  <2>10. ASSUME NEW b \in Brackets, Gone(b)'
         PROVE  /\ \A o \in LegsOf(b) : ~Left(o)'
                /\ \A x \in Exits : xpar'[x] = b => ~Left(x)'
    <3>1. Gone(b) /\ b # c /\ xpar' = xpar
      BY <2>2, <2>4, <2>10
    <3> QED BY <2>5, <2>6, <2>7, <3>1 DEF DayBook
  <2> QED BY <2>8, <2>9, <2>10 DEF DayBook
<1>2. ASSUME SessionReset PROVE DayBook'
  <2>1. /\ closing /\ phase = "idle" /\ pos = 0 /\ symBr' = None
        /\ UNCHANGED <<pos, ord, pend>>
    BY <1>2 DEF SessionReset
  <2>2. \A o \in Orders : ~Left(o)'
    BY <2>1, LegFacts DEF BatchIsOver, ClosingFlat, Left, Working
  <2> QED BY <2>1, <2>2, LegFacts DEF DayBook
<1>3. ASSUME Kept, NEW o \in Orders, Working(o), NEW cap, FillNow(o, cap), UNCHANGED xpar PROVE DayBook'
  <2>1. PICK r, q : ord' = [ord EXCEPT ![o] = r] /\ pend' = [pend EXCEPT ![o] = q]
    BY <1>3 DEF FillNow
  <2>2. \A p \in Orders : p # o => ord'[p] = ord[p] /\ pend'[p] = pend[p]
    BY <2>1 DEF TypeOK
  <2>3. \A p \in Orders : Left(p)' => Left(p)
    BY <1>3, <2>2 DEF Left, Working
  <2>4. Left(o)
    BY <1>3 DEF Left
  <2> QED BY <1>3, <2>3, <2>4, LegFacts, DayFrame
<1>4. ASSUME Kept, Match PROVE DayBook'
  <2>1. ASSUME NEW b \in Brackets, NEW cap \in Caps, MatchStop(b, cap) PROVE DayBook'
    BY <1>3, <1>4, <2>1, LegFacts DEF MatchStop
  <2>2. ASSUME NEW o \in Orders, NEW cap, MatchOther(o, cap) PROVE DayBook'
    BY <1>3, <1>4, <2>2 DEF MatchOther
  <2> QED BY <1>4, <2>1, <2>2 DEF Match
<1>5. ASSUME Kept, NEW b \in Brackets, ReconcileEntry(b) PROVE DayBook'
  <2>1. Entry(b) \in LegsOf(b) /\ TakeFill(Entry(b)) /\ UNCHANGED <<pos, xpar>>
    BY <1>5, LegFacts DEF ReconcileEntry
  <2>2. \A p \in Orders : p \notin LegsOf(b) => ord'[p] = ord[p]
    BY <1>5, LegFacts DEF ReconcileEntry
  <2> QED BY <1>5, <1>d, <2>1, <2>2
<1>6. ASSUME Kept, NEW b \in Brackets, ReconcileStop(b) \/ ReconcileT1(b) \/ ReconcileT2(b) PROVE DayBook'
  <2>1. PICK o \in LegsOf(b) : TakeFill(o) /\ UNCHANGED <<pos, xpar>>
    BY <1>6, LegFacts DEF ReconcileStop, ReconcileT1, ReconcileT2
  <2>2. ASSUME NEW p \in Orders, p \notin LegsOf(b) PROVE ord'[p] = ord[p]
    <3>1. ord \in [Orders -> Order] /\ p \notin Children(b)
      BY <2>2, LegFacts DEF TypeOK
    <3>2. ASSUME NEW st, NEW q, Complete(b, st, q) PROVE ord'[p] = ord[p]
      BY <3>1, <3>2, CancelFacts DEF Complete
    <3>3. ASSUME NEW r, ord' = Resize(ord, Stop(b), r) PROVE ord'[p] = ord[p]
      BY <3>1, <3>3, LegFacts DEF Resize
    <3>4. ASSUME NEW c, NEW q, LateChild(o, c, q) \/ LateChild(Stop(b), c, q)
                               \/ LateChild(T1(b), c, q) \/ LateChild(T2(b), c, q)
          PROVE  ord'[p] = ord[p]
      BY <3>4 DEF LateChild
    <3>5. ASSUME NEW r, ScaleTargets(b, r) PROVE ord'[p] = ord[p]
      <4>1. p # T1(b) /\ p # T2(b)
        BY <3>1, LegFacts
      <4>2. ASSUME NEW g, DOMAIN g = Orders, NEW t \in {T1(b), T2(b)}, NEW n
            PROVE  Offer(g, t, n)[p] = g[p] /\ DOMAIN Offer(g, t, n) = Orders
        BY <4>1, <4>2 DEF Offer, Resize, Cancel
      <4>3. DOMAIN ord = Orders
        BY <3>1
      <4>4. PICK n1, n2, g : /\ g = Offer(ord, T1(b), n1) \/ g = ord
                             /\ ord' \in {ord, g, Offer(g, T2(b), n2)}
        BY <3>5 DEF ScaleTargets
      <4>5. DOMAIN g = Orders /\ g[p] = ord[p]
        BY <4>2, <4>3, <4>4
      <4> QED BY <4>2, <4>4, <4>5
    <3> QED BY <1>6, <3>2, <3>3, <3>4, <3>5 DEF ReconcileStop, ReconcileT1, ReconcileT2
  <2> QED BY <1>6, <1>d, <2>1, <2>2
<1>7. ASSUME Kept, NEW x \in Exits, NEW q, ReconcileExit(x, q) PROVE DayBook'
  <2>1. x \in Orders /\ TakePiece(x, q) /\ pos' = pos
    BY <1>7, LegFacts DEF ReconcileExit
  <2>2. pend[x] > 0 /\ pend'[x] <= pend[x] /\ \A p \in Orders : p # x => pend'[p] = pend[p]
    BY <2>1, TakePieceFacts
  <2>3. \/ UNCHANGED <<ord, xpar>>
        \/ ord' = [ord EXCEPT ![x] = NoOrder] /\ xpar' = [xpar EXCEPT ![x] = None]
    BY <1>7 DEF ReconcileExit
  <2>4. \A p \in Orders : p # x => ord'[p] = ord[p]
    BY <2>1, <2>3 DEF TypeOK
  <2>5. (\A y \in Exits : y # x => xpar'[y] = xpar[y]) /\ xpar'[x] \in {xpar[x], None}
    BY <2>3 DEF TypeOK
  <2>6. Left(x) /\ \A p \in Orders : Left(p)' => Left(p)
    BY <2>2, <2>4 DEF Left, Working
  <2> QED BY <1>7, <2>1, <2>5, <2>6, LegFacts, DayFrame
<1>8. ASSUME Kept, NEW l, TrailStop(l) \/ TightenStop(l) PROVE DayBook'
  BY <1>8, <1>a DEF TrailStop, TightenStop, MoveStop, Left, Working
<1>9. ASSUME Kept, NEW x \in Exits, NEW halt, FlattenAll(x, halt) \/ SessionBoundary(x)
                                             \/ ContradictionExit(x) \/ ManualFlatten(x)
      PROVE  DayBook'
  <2>1. CASE FlattenAll(x, halt) \/ SessionBoundary(x)
    <3>1. symBr' \in {symBr, None} /\ Idle /\ Liquidate(Cancel(ord, Orders), x, symBr')
      BY <1>9, <2>1 DEF Kept, FlattenAll, SessionBoundary
    <3>2. PICK c \in {symBr, None} : c = symBr'
      BY <3>1
    <3> QED BY <1>c, <1>9, <3>1, <3>2
  <2>2. CASE ManualFlatten(x)
    BY <1>c, <1>9, <2>2 DEF ManualFlatten
  <2>3. CASE ContradictionExit(x)
    <3>1. PICK S : Liquidate(Cancel(ord, S), x, symBr) /\ Idle
      <4>1. Cancel(ord, {}) = ord
        BY DEF Cancel, TypeOK
      <4> QED BY <2>3, <4>1 DEF ContradictionExit
    <3> QED BY <1>c, <1>9, <3>1
  <2> QED BY <1>9, <2>1, <2>2, <2>3
<1>10. ASSUME Kept, OrderPurge \/ CheckpointFailed \/ (\E o \in Orders : CancelOrder(o)) PROVE DayBook'
  BY <1>10, <1>b DEF OrderPurge, CheckpointFailed, CancelOrder
<1>11. ASSUME Kept, CancelElsewhere \/ SessionIncomplete \/ UNCHANGED vars PROVE DayBook'
  <2>1. UNCHANGED <<pos, xpar, ord, pend>>
    BY <1>11 DEF CancelElsewhere, SessionIncomplete, vars
  <2> QED BY <1>11, <1>a, <2>1 DEF Left, Working
<1>12. ASSUME Kept, NEW x \in Exits, NEW q \in Qtys, SubmitReducing(x, q) PROVE DayBook'
  <2>1. /\ symBr # None /\ UNCHANGED <<pos, pend>> /\ ord' = [ord EXCEPT ![x] = Accepted(q)]
        /\ xpar' = [xpar EXCEPT ![x] = symBr]
    BY <1>12 DEF SubmitReducing
  <2>2. \A p \in Orders : p # x => (Left(p)' => Left(p))
    BY <2>1 DEF TypeOK, Left, Working
  <2>3. xpar'[x] = symBr /\ \A y \in Exits : y # x => xpar'[y] = xpar[y]
    BY <2>1 DEF TypeOK
  <2> QED BY <1>12, <2>1, <2>2, <2>3, LegFacts, DayFrame
<1> QED BY KeptStep, <1>1, <1>2, <1>4, <1>5, <1>6, <1>7, <1>8, <1>9, <1>10, <1>11, <1>12
        DEF Next, Reconcile, Operator

(* What the days of the book rest on, whatever the operator does.          *)
DayInv == TypeOK /\ SizedEntries /\ BatchIsOver /\ ClosingFlat /\ Born /\ DayBook

LEMMA DayIsFlat == DayInv => DayStartsFlat
<1> SUFFICES ASSUME DayInv PROVE DayStartsFlat
  OBVIOUS
<1>1. \A b \in Brackets : \A k \in Kinds : <<k, b>> \in LegsOf(b)
  BY DEF LegsOf
<1> QED BY <1>1 DEF DayInv, DayBook, DayStartsFlat, Gone, Left

LEMMA FirstDay == Init => DayInv
<1>1. Init => TypeOK /\ SizedEntries
  BY FirstTypes
<1>2. Init => BatchIsOver /\ ClosingFlat
  BY DEF Init, BatchIsOver, ClosingFlat
<1>3. Init => Born
  BY DEF Init, Born, NoBracket
<1>4. Init => DayBook
  <2> SUFFICES ASSUME Init PROVE DayBook
    OBVIOUS
  <2>1. \A o \in Orders : ~Left(o)
    BY DEF Init, Left, Working, Open, NoOrder
  <2> QED BY <2>1, LegFacts DEF Init, DayBook
<1> QED BY <1>1, <1>2, <1>3, <1>4 DEF DayInv

LEMMA NextDay == DayInv /\ [Next]_vars => DayInv'
BY TypeStep, SizedStep, ClosingStep, BornStep, DayStep DEF DayInv

(* However often the boundary had to be repeated, and whatever the         *)
(* operator did to the orders of the day before: nothing in the market     *)
(* belongs to a bracket that was cleared, and no share is carried over.    *)
THEOREM EveryDayStartsFlat == Spec => []DayStartsFlat
BY DayIsFlat, FirstDay, NextDay, PTL DEF Spec

=============================================================================
