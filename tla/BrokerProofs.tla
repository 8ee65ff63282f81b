---------------------------- MODULE BrokerProofs ----------------------------
(***************************************************************************)
(* Proofs about BrokerOrders, for every set of orders, every size and      *)
(* every number of attempts.                                               *)
(*                                                                         *)
(* The inductive invariant says what the link of an order remembers: the   *)
(* shares booked of the linked attempt, nothing yet of a later one, and    *)
(* never more of any attempt than Alpaca filled.  That a booking catches   *)
(* up exactly (LedgerImplemented) follows from it; that nothing is missed  *)
(* (LedgerExact) also needs that no POST arrives late.                     *)
(***************************************************************************)
EXTENDS BrokerOrders, TLAPS

States == {"none", "accepted", "partial", "filled", "cancelled"}

(* What an order remembers of its attempts.                                *)
RecOK(r) ==
  /\ r \in Order
  /\ r.link <= r.att
  /\ \A k \in Attempts : /\ k > r.att => r.took[k] = 0
                         /\ k = r.link => r.took[k] = r.booked

Remembers(orders) == \A o \in Orders : RecOK(orders[o])

(* No share is booked that Alpaca did not fill.                            *)
NotInvented(orders) ==
  \A o \in Orders, k \in Attempts : orders[o].took[k] <= alp[<<o, k>>].filled

(* Steps 1 to 4 of a call: an attempt is looked up or read only while it   *)
(* is linked, and the next one is sent only when none is.                  *)
CallOK ==
  call # NoCall =>
    /\ call.o \in used
    /\ call.step \in {"lookup", "read"} => ord[call.o].link # NoLink
    /\ call.step \in {"gate", "held", "post"} =>
         ord[call.o].link = NoLink /\ call.kind = "exec"
    /\ call.step \in {"held", "post"} => ord[call.o].att < MaxAttempt

(* An order not created yet has no history.                                *)
UsedOK == \A o \in Orders \ used : ord[o] = NoOrder /\ disk.ord[o] = NoOrder

(* The types, in the groups in which the steps change them.                *)
LocalOK ==
  /\ pos \in Int
  /\ ord \in [Orders -> Order]
  /\ brk \in [Entries -> {"none", "pending", "active", "released"}]
  /\ naked \in Nat
  /\ call \in Calls \cup {NoCall}
  /\ handler \in {"idle", "work", "settle", "booked"}
  /\ waiting \in BOOLEAN

RestOK ==
  /\ disk \in Local
  /\ used \in SUBSET Orders
  /\ mismatch \in BOOLEAN
  /\ seen \in SUBSET Int
  /\ boot \in BOOLEAN

AlpacaOK ==
  /\ alp \in [Sent -> AlpacaOrder]
  /\ held \in Int
  /\ \A s \in Sent : alp[s].st \in {"none", "transit"} => alp[s].filled = 0

Books(orders) == Remembers(orders) /\ NotInvented(orders)

IInv == LocalOK /\ RestOK /\ AlpacaOK /\ Books(ord) /\ Books(disk.ord) /\ CallOK /\ UsedOK

(* What most steps do to the ledger: nothing.                              *)
Quiet == \A o \in Orders, k \in Attempts : ord'[o].took[k] = ord[o].took[k]

(* Alpaca takes no fill back.                                              *)
Grows == \A s \in Sent : alp'[s].filled >= alp[s].filled

-----------------------------------------------------------------------------
(* One order record.                                                       *)

(* The assumption on the bound, apart.                                     *)
LEMMA Bound == MaxAttempt \in Nat
  BY BoundsAssumption

(* A change of status, or of the shares left, keeps what is remembered.    *)
LEMMA StatusChange ==
  ASSUME NEW r, RecOK(r), NEW st \in States
  PROVE  /\ RecOK([r EXCEPT !.st = st])
         /\ [r EXCEPT !.st = st].took = r.took
         /\ [r EXCEPT !.st = st].link = r.link
         /\ [r EXCEPT !.st = st].att = r.att
  BY DEF RecOK, Order, States

(* Dropping the link.                                                      *)
LEMMA Unlinked ==
  ASSUME NEW r, RecOK(r)
  PROVE  /\ RecOK([r EXCEPT !.link = NoLink])
         /\ [r EXCEPT !.link = NoLink].took = r.took
         /\ [r EXCEPT !.link = NoLink].link = NoLink
         /\ [r EXCEPT !.link = NoLink].att = r.att
  BY BoundsAssumption DEF RecOK, Order, NoLink, Attempts

(* Learning Alpaca's own id.                                               *)
LEMMA Known ==
  ASSUME NEW r, RecOK(r)
  PROVE  /\ RecOK([r EXCEPT !.known = TRUE])
         /\ [r EXCEPT !.known = TRUE].took = r.took
         /\ [r EXCEPT !.known = TRUE].link = r.link
         /\ [r EXCEPT !.known = TRUE].att = r.att
  BY DEF RecOK, Order

(* A new order remembers nothing.                                          *)
LEMMA Fresh ==
  ASSUME NEW q \in Nat
  PROVE  /\ RecOK(NoOrder)
         /\ RecOK([NoOrder EXCEPT !.st = "accepted", !.rem = q])
         /\ \A k \in Attempts : /\ NoOrder.took[k] = 0
                                /\ [NoOrder EXCEPT !.st = "accepted", !.rem = q].took[k] = 0
<1> DEFINE n == [NoOrder EXCEPT !.st = "accepted", !.rem = q]
<1> DEFINE zero == [k \in Attempts |-> 0]
<1>1. zero \in [Attempts -> Nat] /\ \A k \in Attempts : zero[k] = 0
  OBVIOUS
<1>2. /\ NoOrder.took = zero /\ NoOrder.link = 0 /\ NoOrder.att = 0 /\ NoOrder.booked = 0
      /\ n.took = zero /\ n.link = 0 /\ n.att = 0 /\ n.booked = 0
  BY DEF NoOrder, NoLink
<1> HIDE DEF zero
<1>3. NoOrder \in Order /\ n \in Order
  <2>1. NoOrder = [st |-> "none", rem |-> 0, took |-> zero, att |-> 0, link |-> 0,
                   known |-> FALSE, booked |-> 0]
    BY DEF NoOrder, NoLink, zero
  <2>3. 0 \in 0 .. MaxAttempt
    BY Bound
  <2> HIDE DEF n
  <2>4. NoOrder \in Order
    BY <1>1, <2>1, <2>3 DEF Order
  <2>5. \A r \in Order : [r EXCEPT !.st = "accepted"] \in Order
    BY DEF Order
  <2>6. \A r \in Order : [r EXCEPT !.rem = q] \in Order
    BY DEF Order
  <2>7. n = [[NoOrder EXCEPT !.st = "accepted"] EXCEPT !.rem = q]
    BY DEF n
  <2> QED BY <2>4, <2>5, <2>6, <2>7
<1> HIDE DEF n
<1>4. RecOK(NoOrder) /\ RecOK(n)
  BY <1>1, <1>2, <1>3 DEF RecOK, Attempts
<1>5. \A k \in Attempts : NoOrder.took[k] = 0 /\ n.took[k] = 0
  BY <1>1, <1>2
<1> QED BY <1>4, <1>5 DEF n

(* Numbering the next attempt.                                             *)
Numbered(r) ==
  [r EXCEPT !.att = r.att + 1, !.link = r.att + 1, !.known = FALSE, !.booked = 0]

(* The next attempt has nothing booked.                                    *)
LEMMA NextAttempt ==
  ASSUME NEW r, RecOK(r), r.att < MaxAttempt
  PROVE  /\ RecOK(Numbered(r))
         /\ r.att + 1 \in Attempts
         /\ Numbered(r).took = r.took
         /\ Numbered(r).link = r.att + 1
         /\ Numbered(r).att = r.att + 1
         /\ r.took[r.att + 1] = 0
<1> DEFINE k == r.att + 1
           n == [r EXCEPT !.att = k, !.link = k, !.known = FALSE, !.booked = 0]
<1>1. /\ r.att \in 0 .. MaxAttempt /\ r.took \in [Attempts -> Nat] /\ k \in 1 .. MaxAttempt
      /\ k \in 0 .. MaxAttempt
  BY Bound DEF RecOK, Order
<1>2. n \in Order /\ n.took = r.took /\ n.link = k /\ n.att = k /\ n.booked = 0
  BY <1>1 DEF RecOK, Order
<1>3. \A j \in Attempts : j > r.att => r.took[j] = 0
  BY DEF RecOK
<1>4. \A j \in Attempts : (j > k => r.took[j] = 0) /\ (j = k => r.took[j] = 0)
  BY <1>1, <1>3 DEF Attempts
<1>5. RecOK(n)
  BY <1>1, <1>2, <1>4 DEF RecOK
<1> HIDE DEF n
<1>6. n = Numbered(r)
  BY DEF n, Numbered
<1> QED BY <1>1, <1>2, <1>4, <1>5, <1>6 DEF Attempts

(* An order whose attempt is final.                                        *)
LEMMA Cleared ==
  ASSUME NEW r, RecOK(r), NEW a, IsTerminal(a)
  PROVE  /\ Book(r, a) \in Order
         /\ Book(r, a).took = r.took
         /\ Book(r, a).link = 0
         /\ Book(r, a).att = r.att
<1>1. Book(r, a) = [r EXCEPT !.link = 0, !.known = FALSE, !.booked = 0]
  BY DEF Book, NoLink
<1>2. 0 \in 0 .. MaxAttempt /\ 0 \in Nat /\ FALSE \in BOOLEAN
  BY Bound
<1>3. [r EXCEPT !.link = 0, !.known = FALSE, !.booked = 0] \in Order
  BY <1>2 DEF RecOK, Order
<1>4. r \in Order
  BY DEF RecOK
<1> QED BY <1>1, <1>3, <1>4 DEF Order

(* Reading the linked attempt without news.                                *)
LEMMA ReadNothing ==
  ASSUME NEW r, RecOK(r), r.link \in Attempts, NEW a \in AlpacaOrder,
         a.filled - r.booked <= 0, r.took[r.link] <= a.filled
  PROVE  /\ RecOK(Book(r, a))
         /\ Book(r, a).took = r.took
         /\ Book(r, a).link = IF IsTerminal(a) THEN NoLink ELSE r.link
         /\ Book(r, a).att = r.att
         /\ IsTerminal(a) => Book(r, a).link = NoLink /\ r.took[r.link] = a.filled
<1> DEFINE b == Book(r, a)
<1>1. /\ r.booked \in Nat /\ a.filled \in Nat /\ r.took[r.link] = r.booked
      /\ r.link \in 1 .. MaxAttempt /\ r.link <= r.att /\ r.att \in 0 .. MaxAttempt
  BY DEF RecOK, Order, AlpacaOrder, Attempts
<1>2. r.booked = a.filled
  BY <1>1
<1>3. CASE IsTerminal(a)
  <2>1. /\ b \in Order /\ b.took = r.took /\ b.link = 0 /\ b.att = r.att
    BY <1>3, Cleared
  <2>2. RecOK(b)
    BY <1>1, <2>1 DEF RecOK, Attempts
  <2> QED BY <1>1, <1>2, <1>3, <2>1, <2>2 DEF NoLink
<1>4. CASE ~IsTerminal(a)
  <2>1. /\ b \in Order /\ b.took = r.took /\ b.link = r.link /\ b.att = r.att
        /\ b.booked = r.booked
    BY <1>1, <1>2, <1>4 DEF RecOK, Order, Book
  <2>2. RecOK(b)
    BY <2>1 DEF RecOK
  <2> QED BY <1>4, <2>1, <2>2
<1> QED BY <1>3, <1>4

(* Booking what the linked attempt filled since.                           *)
Booked(r, a, k, n, st, m) ==
  [Book(r, a) EXCEPT !.st = st, !.rem = m, !.took[k] = @ + n]

(* The linked attempt is then booked as far as Alpaca filled it.           *)
LEMMA ReadFill ==
  ASSUME NEW r, RecOK(r), NEW k \in Attempts, k = r.link, NEW a \in AlpacaOrder,
         NEW n, n = a.filled - r.booked, n > 0, NEW st \in States, NEW m \in Int
  PROVE  /\ RecOK(Booked(r, a, k, n, st, m))
         /\ Booked(r, a, k, n, st, m).took = [r.took EXCEPT ![k] = a.filled]
         /\ Booked(r, a, k, n, st, m).link = IF IsTerminal(a) THEN NoLink ELSE k
         /\ Booked(r, a, k, n, st, m).att = r.att
<1> DEFINE b == [Book(r, a) EXCEPT !.st = st, !.rem = m, !.took[k] = @ + n]
<1>1. /\ r.booked \in Nat /\ a.filled \in Nat /\ r.took \in [Attempts -> Nat]
      /\ r.took[k] = r.booked
  BY DEF RecOK, Order, AlpacaOrder
<1>2. /\ Book(r, a).took = r.took /\ Book(r, a).att = r.att /\ Book(r, a) \in Order
      /\ Book(r, a).link = IF IsTerminal(a) THEN 0 ELSE k
      /\ ~IsTerminal(a) => Book(r, a).booked = a.filled
  <2>1. CASE IsTerminal(a)
    BY <2>1, Cleared
  <2>2. CASE ~IsTerminal(a)
    BY <1>1, <2>2 DEF RecOK, Order, Book
  <2> QED BY <2>1, <2>2
<1>4. b.took = [r.took EXCEPT ![k] = a.filled]
  <2>1. b.took = [r.took EXCEPT ![k] = r.took[k] + n]
    BY <1>2 DEF Order
  <2>2. r.took[k] + n = a.filled
    BY <1>1
  <2> QED BY <2>1, <2>2
<1>5. b.link = Book(r, a).link /\ b.att = r.att /\ b.booked = Book(r, a).booked /\ b \in Order
  <2>1. [r.took EXCEPT ![k] = a.filled] \in [Attempts -> Nat]
    BY <1>1
  <2> QED BY <1>2, <1>4, <2>1 DEF Order, States
<1>6. RecOK(b)
  <2>1. b.link <= b.att
    BY <1>2, <1>5 DEF RecOK, Order
  <2>2. ASSUME NEW j \in Attempts
        PROVE  (j > b.att => b.took[j] = 0) /\ (j = b.link => b.took[j] = b.booked)
    <3>1. k <= r.att
      BY DEF RecOK
    <3>2. j > b.att => b.took[j] = 0
      <4>1. b.att = r.att /\ r.att \in Nat
        BY <1>2, <1>5 DEF RecOK, Order
      <4>2. j > r.att => j # k /\ r.took[j] = 0
        BY <3>1, <4>1 DEF RecOK, Attempts
      <4> QED BY <1>1, <1>4, <4>1, <4>2
    <3>3. j = b.link => b.took[j] = b.booked
      <4>1. j # 0
        BY DEF Attempts
      <4> QED BY <1>1, <1>2, <1>4, <1>5, <4>1
    <3> QED BY <3>2, <3>3
  <2> QED BY <1>5, <2>1, <2>2 DEF RecOK
<1> HIDE DEF b
<1>7. b = Booked(r, a, k, n, st, m)
  BY DEF b, Booked
<1> QED BY <1>2, <1>4, <1>5, <1>6, <1>7 DEF NoLink

-----------------------------------------------------------------------------
(* The books as a whole.                                                   *)

(* The groups of types are the type invariant.                             *)
LEMMA Types == TypeOK <=> LocalOK /\ RestOK /\ alp \in [Sent -> AlpacaOrder] /\ held \in Int
  BY DEF TypeOK, LocalOK, RestOK, Snapshot, Local

(* The shares booked are numbers, no larger than those filled.             *)
LEMMA Counts ==
  ASSUME NEW orders, Books(orders), AlpacaOK, NEW o \in Orders, NEW k \in Attempts
  PROVE  /\ orders[o] \in Order /\ orders[o].took[k] \in Nat
         /\ alp[<<o, k>>] \in AlpacaOrder /\ alp[<<o, k>>].filled \in Nat
         /\ orders[o].took[k] <= alp[<<o, k>>].filled
<1>1. orders[o] \in Order
  BY DEF Books, Remembers, RecOK
<1>2. orders[o].took[k] \in Nat
  BY <1>1 DEF Order
<1>3. <<o, k>> \in Sent
  BY DEF Sent
<1> QED BY <1>1, <1>2, <1>3 DEF Books, NotInvented, AlpacaOK, AlpacaOrder

(* Replacing the record of one order.                                      *)
LEMMA Update ==
  ASSUME LocalOK, RestOK, AlpacaOK, AlpacaOK', Grows, Books(ord), Books(disk.ord), UsedOK,
         NEW o \in Orders, o \in used', used \subseteq used', UNCHANGED disk,
         NEW r, RecOK(r),
         \A k \in Attempts : r.took[k] <= alp'[<<o, k>>].filled,
         ord' = [ord EXCEPT ![o] = r]
  PROVE  /\ ord' \in [Orders -> Order] /\ ord'[o] = r
         /\ Books(ord)' /\ Books(disk.ord)'
         /\ UsedOK'
<1>1. ord' \in [Orders -> Order] /\ ord'[o] = r /\ \A p \in Orders \ {o} : ord'[p] = ord[p]
  BY DEF LocalOK, RecOK
<1>2. Remembers(ord')
  BY <1>1 DEF Books, Remembers
<1>3. \A p \in Orders, k \in Attempts :
        <<p, k>> \in Sent /\ alp[<<p, k>>].filled \in Nat /\ alp'[<<p, k>>].filled \in Nat
        /\ alp'[<<p, k>>].filled >= alp[<<p, k>>].filled
  BY DEF Sent, AlpacaOK, AlpacaOrder, Grows
<1>4. \A p \in Orders, k \in Attempts : ord'[p].took[k] <= alp'[<<p, k>>].filled
  <2> SUFFICES ASSUME NEW p \in Orders, NEW k \in Attempts
               PROVE  ord'[p].took[k] <= alp'[<<p, k>>].filled
    OBVIOUS
  <2>1. CASE p = o
    BY <1>1, <2>1
  <2>2. CASE p # o
    <3>1. ord[p].took[k] \in Nat /\ ord[p].took[k] <= alp[<<p, k>>].filled /\ ord'[p] = ord[p]
      BY <1>1, <2>2 DEF Books, NotInvented, LocalOK, Order
    <3> QED BY <1>3, <3>1
  <2> QED BY <2>1, <2>2
<1>5. \A p \in Orders, k \in Attempts : disk.ord[p].took[k] <= alp'[<<p, k>>].filled
  <2> SUFFICES ASSUME NEW p \in Orders, NEW k \in Attempts
               PROVE  disk.ord[p].took[k] <= alp'[<<p, k>>].filled
    OBVIOUS
  <2>1. disk.ord[p].took[k] \in Nat /\ disk.ord[p].took[k] <= alp[<<p, k>>].filled
    BY Counts
  <2> QED BY <1>3, <2>1
<1>6. UsedOK'
  <2> SUFFICES ASSUME NEW p \in Orders, p \notin used'
               PROVE  ord'[p] = NoOrder /\ disk'.ord[p] = NoOrder
    BY DEF UsedOK
  <2>1. p # o /\ p \in Orders \ used
    OBVIOUS
  <2>2. ord[p] = NoOrder /\ disk.ord[p] = NoOrder
    BY <2>1 DEF UsedOK
  <2>3. ord'[p] = ord[p] /\ disk' = disk
    BY <1>1, <2>1
  <2> QED BY <2>2, <2>3
<1>7. Books(ord)'
  BY <1>2, <1>4 DEF Books, Remembers, NotInvented
<1>8. Books(disk.ord)'
  BY <1>5 DEF Books, Remembers, NotInvented
<1> QED BY <1>1, <1>6, <1>7, <1>8

(* A step that leaves the books alone.                                     *)
LEMMA Keep ==
  ASSUME LocalOK, RestOK, AlpacaOK, AlpacaOK', Grows, Books(ord), Books(disk.ord),
         UNCHANGED <<ord, disk>>
  PROVE  Books(ord)' /\ Books(disk.ord)'
<1>3. \A p \in Orders, k \in Attempts :
        <<p, k>> \in Sent /\ alp[<<p, k>>].filled \in Nat /\ alp'[<<p, k>>].filled \in Nat
        /\ alp'[<<p, k>>].filled >= alp[<<p, k>>].filled
  BY DEF Sent, AlpacaOK, AlpacaOrder, Grows
<1>4. \A p \in Orders, k \in Attempts :
        /\ ord[p].took[k] \in Nat /\ ord[p].took[k] <= alp[<<p, k>>].filled
        /\ disk.ord[p].took[k] \in Nat /\ disk.ord[p].took[k] <= alp[<<p, k>>].filled
  BY Counts
<1> QED BY <1>3, <1>4 DEF Books, Remembers, NotInvented

-----------------------------------------------------------------------------
(* Event handlers.                                                         *)

(* A step that replaces one record by one with the same history is quiet.  *)
LEMMA SameHistory ==
  ASSUME LocalOK, NEW o \in Orders, NEW r, r.took = ord[o].took,
         ord' = [ord EXCEPT ![o] = r]
  PROVE  Quiet
BY DEF Quiet, LocalOK

(* A new order, created by any handler.                                    *)
LEMMA AcceptStep ==
  ASSUME IInv, NEW o \in Orders, NEW q \in Sizes, Accept(o, q),
         brk' \in [Entries -> {"none", "pending", "active", "released"}]
  PROVE  IInv' /\ Quiet /\ UNCHANGED <<disk, alp>>
<1> DEFINE r == [NoOrder EXCEPT !.st = "accepted", !.rem = q]
<1>1. q \in Nat
  BY BoundsAssumption
<1>2. RecOK(r) /\ \A k \in Attempts : NoOrder.took[k] = 0 /\ r.took[k] = 0
  BY <1>1, Fresh
<1>3. ord' = [ord EXCEPT ![o] = r]
  BY DEF Accept
<1> HIDE DEF r
<1>4. ord[o] = NoOrder
  BY DEF Accept, IInv, UsedOK
<1>5. Quiet
  <2> SUFFICES ASSUME NEW p \in Orders, NEW k \in Attempts
               PROVE  ord'[p].took[k] = ord[p].took[k]
    BY DEF Quiet
  <2>1. CASE p = o
    BY <1>2, <1>3, <1>4, <2>1 DEF IInv, LocalOK
  <2>2. CASE p # o
    BY <1>3, <2>2 DEF IInv, LocalOK
  <2> QED BY <2>1, <2>2
<1>6. AlpacaOK' /\ Grows /\ UNCHANGED <<disk, alp>>
  BY DEF Accept, IInv, AlpacaOK, Grows, AlpacaOrder, Sent
<1>7. \A k \in Attempts : r.took[k] <= alp'[<<o, k>>].filled
  BY <1>2, <1>6, Counts DEF IInv
<1>8. o \in used' /\ used \subseteq used'
  BY DEF Accept
<1>9. ord' \in [Orders -> Order] /\ Books(ord)' /\ Books(disk.ord)' /\ UsedOK'
  BY <1>2, <1>3, <1>6, <1>7, <1>8, Update DEF IInv
<1>10. LocalOK'
  BY <1>9 DEF Accept, Serving, IInv, LocalOK
<1>11. RestOK'
  BY <1>6 DEF Accept, IInv, RestOK
<1>12. CallOK'
  BY DEF Accept, Serving, CallOK
<1> QED BY <1>5, <1>6, <1>9, <1>10, <1>11, <1>12 DEF IInv

(* A handler gives an order up: what it remembers of its attempts stays.   *)
LEMMA CancelStep ==
  ASSUME IInv, NEW o \in Orders, CancelLocal(o)
  PROVE  IInv' /\ Quiet /\ UNCHANGED <<disk, alp>>
<1> DEFINE r == [ord[o] EXCEPT !.st = "cancelled"]
<1>1. RecOK(ord[o])
  BY DEF IInv, Books, Remembers
<1>2. RecOK(r) /\ r.took = ord[o].took
  BY <1>1, StatusChange DEF States
<1>3. ord' = [ord EXCEPT ![o] = r]
  BY DEF CancelLocal
<1> HIDE DEF r
<1>4. Quiet
  BY <1>2, <1>3, SameHistory DEF IInv
<1>5. o \in used
  BY DEF CancelLocal, Working, IInv, UsedOK, NoOrder
<1>6. AlpacaOK' /\ Grows /\ UNCHANGED <<disk, alp, used>>
  BY DEF CancelLocal, IInv, AlpacaOK, Grows, AlpacaOrder, Sent
<1>7. \A k \in Attempts : r.took[k] <= alp'[<<o, k>>].filled
  BY <1>2, <1>6, Counts DEF IInv
<1>8. ord' \in [Orders -> Order] /\ Books(ord)' /\ Books(disk.ord)' /\ UsedOK'
  BY <1>2, <1>3, <1>5, <1>6, <1>7, Update DEF IInv
<1>9. LocalOK' /\ RestOK'
  BY <1>8 DEF CancelLocal, Serving, IInv, LocalOK, RestOK
<1>10. CallOK'
  BY DEF CancelLocal, Serving, CallOK
<1> QED BY <1>4, <1>6, <1>8, <1>9, <1>10 DEF IInv

(* A call starts at the step its link asks for.                            *)
LEMMA CallStart ==
  ASSUME IInv, NEW o \in Orders, NEW kind \in {"exec", "settle"}, Call(o, kind),
         ord[o] # NoOrder, kind = "settle" => ord[o].link # NoLink, UNCHANGED <<ord, used>>
  PROVE  call' \in Calls \cup {NoCall} /\ CallOK'
<1>1. o \in used
  BY DEF IInv, UsedOK
<1>2. call' \in Calls
  BY DEF Call, Calls
<1>3. CallOK'
  BY <1>1 DEF Call, CallOK, NoLink
<1> QED BY <1>2, <1>3

(* A call starts, for a trigger or for a settle pass.                      *)
LEMMA StartStep ==
  ASSUME IInv, NEW o \in Orders, StartExec(o) \/ StartSettle(o)
  PROVE  IInv' /\ Quiet /\ UNCHANGED <<disk, alp>>
<1>1. ord[o] # NoOrder
  BY DEF StartExec, StartSettle, Working, NoOrder, NoLink
<1>2. call' \in Calls \cup {NoCall} /\ CallOK'
  <2>1. CASE StartExec(o)
    BY <1>1, <2>1, CallStart DEF StartExec
  <2>2. CASE StartSettle(o)
    BY <1>1, <2>2, CallStart DEF StartSettle
  <2> QED BY <2>1, <2>2
<1>3. UNCHANGED <<pos, ord, brk, naked, disk, used, alp, held, waiting, mismatch, seen, boot>>
      /\ handler' \in {"idle", "work", "settle", "booked"}
  BY DEF StartExec, StartSettle, IInv, LocalOK
<1>4. AlpacaOK' /\ Grows /\ Quiet /\ UsedOK'
  BY <1>3 DEF IInv, AlpacaOK, AlpacaOrder, Grows, Sent, Quiet, UsedOK
<1>5. LocalOK' /\ RestOK'
  BY <1>2, <1>3 DEF IInv, LocalOK, RestOK
<1> QED BY <1>2, <1>3, <1>4, <1>5, Keep DEF IInv

-----------------------------------------------------------------------------
(* The round trips of a call.                                              *)

(* What a call in progress is.                                             *)
LEMMA InCall ==
  ASSUME IInv, call # NoCall
  PROVE  /\ call \in Calls /\ call.o \in Orders /\ call.o \in used
         /\ call.q \in Int /\ call.kind \in {"exec", "settle"}
         /\ RecOK(ord[call.o]) /\ ord[call.o] \in Order
<1>1. call \in Calls /\ call.o \in Orders /\ call.q \in Int /\ call.kind \in {"exec", "settle"}
  BY DEF IInv, LocalOK, Calls
<1>2. call.o \in used
  BY DEF IInv, CallOK
<1>3. RecOK(ord[call.o])
  BY <1>1 DEF IInv, Books, Remembers
<1> QED BY <1>1, <1>2, <1>3 DEF RecOK

(* A failed call leaves the order with the history the call left it.       *)
LEMMA FailStep ==
  ASSUME IInv, call # NoCall, NEW hard \in BOOLEAN, NEW r, RecOK(r),
         r.took = ord[call.o].took, AlpacaOK', Grows, Fail(hard, r), Environment
  PROVE  IInv' /\ Quiet /\ UNCHANGED disk
<1> DEFINE o == call.o
           n == IF /\ call.kind = "exec"
                   /\ hard /\ ~Reduces(o) /\ Unfilled(o) /\ ~r.known /\ Working(o)
                  THEN [r EXCEPT !.st = "cancelled"] ELSE r
<1>1. RecOK(n) /\ n.took = ord[o].took
  BY StatusChange DEF States
<1>2. ord' = [ord EXCEPT ![o] = n] /\ call' = NoCall
  BY DEF Fail
<1>3. waiting' \in BOOLEAN /\ UNCHANGED <<pos, brk, naked, handler, disk, used, mismatch, seen, boot>>
  BY DEF Fail, Environment, IInv, LocalOK
<1> HIDE DEF n
<1>4. o \in Orders /\ o \in used
  BY InCall
<1> HIDE DEF o
<1>5. Quiet
  BY <1>1, <1>2, <1>4, SameHistory DEF IInv
<1>6. \A k \in Attempts : n.took[k] <= alp'[<<o, k>>].filled
  <2> SUFFICES ASSUME NEW k \in Attempts PROVE ord[o].took[k] <= alp'[<<o, k>>].filled
    BY <1>1
  <2>1. /\ ord[o].took[k] \in Nat /\ alp[<<o, k>>].filled \in Nat
        /\ ord[o].took[k] <= alp[<<o, k>>].filled
    BY <1>4, Counts DEF IInv
  <2>2. <<o, k>> \in Sent
    BY <1>4 DEF Sent
  <2>3. alp'[<<o, k>>].filled \in Nat /\ alp'[<<o, k>>].filled >= alp[<<o, k>>].filled
    BY <2>2 DEF AlpacaOK, AlpacaOrder, Grows
  <2> QED BY <2>1, <2>3
<1>7. ord' \in [Orders -> Order] /\ Books(ord)' /\ Books(disk.ord)' /\ UsedOK'
  BY <1>1, <1>2, <1>3, <1>4, <1>6, Update DEF IInv
<1>8. LocalOK' /\ RestOK'
  BY <1>2, <1>3, <1>7 DEF IInv, LocalOK, RestOK
<1>9. CallOK'
  BY <1>2 DEF CallOK
<1> QED BY <1>3, <1>5, <1>7, <1>8, <1>9 DEF IInv

(* A call that goes on, its order replaced by one with the same history.   *)
LEMMA GoOn ==
  ASSUME IInv, call # NoCall, NEW r, RecOK(r), r.took = ord[call.o].took,
         ord' = [ord EXCEPT ![call.o] = r], AlpacaOK', Grows, Environment,
         UNCHANGED <<pos, brk, naked, handler, waiting>>,
         call' \in Calls, call'.o = call.o, call'.kind = call.kind,
         call'.step \in {"lookup", "read"} => r.link # NoLink,
         call'.step \in {"gate", "held", "post"} => r.link = NoLink /\ call.kind = "exec",
         call'.step \in {"held", "post"} => r.att < MaxAttempt
  PROVE  IInv' /\ Quiet /\ UNCHANGED disk
<1>1. call.o \in Orders /\ call.o \in used
  BY InCall
<1>2. UNCHANGED <<disk, used, mismatch, seen, boot>>
  BY DEF Environment
<1>3. Quiet
  BY <1>1, SameHistory DEF IInv
<1>4. \A k \in Attempts : r.took[k] <= alp'[<<call.o, k>>].filled
  <2> SUFFICES ASSUME NEW k \in Attempts
               PROVE  ord[call.o].took[k] <= alp'[<<call.o, k>>].filled
    OBVIOUS
  <2>1. /\ ord[call.o].took[k] \in Nat /\ alp[<<call.o, k>>].filled \in Nat
        /\ ord[call.o].took[k] <= alp[<<call.o, k>>].filled
    BY <1>1, Counts DEF IInv
  <2>2. <<call.o, k>> \in Sent
    BY <1>1 DEF Sent
  <2>3. /\ alp'[<<call.o, k>>].filled \in Nat
        /\ alp'[<<call.o, k>>].filled >= alp[<<call.o, k>>].filled
    BY <2>2 DEF AlpacaOK, AlpacaOrder, Grows
  <2> QED BY <2>1, <2>3
<1>5. ord' \in [Orders -> Order] /\ ord'[call.o] = r /\ Books(ord)' /\ Books(disk.ord)' /\ UsedOK'
  BY <1>1, <1>2, <1>4, Update DEF IInv
<1>6. LocalOK' /\ RestOK'
  BY <1>2, <1>5 DEF IInv, LocalOK, RestOK
<1>7. CallOK'
  BY <1>1, <1>2, <1>5 DEF CallOK
<1> QED BY <1>2, <1>3, <1>5, <1>6, <1>7 DEF IInv

(* Alpaca unchanged is still in order.                                     *)
LEMMA SameAlpaca ==
  ASSUME IInv, AlpacaSame
  PROVE  AlpacaOK' /\ Grows /\ UNCHANGED alp
BY DEF AlpacaSame, IInv, AlpacaOK, AlpacaOrder, Grows, Sent

(* Step 1 of a call.                                                       *)
LEMMA LookupStep ==
  ASSUME IInv, Lookup
  PROVE  IInv' /\ Quiet /\ UNCHANGED <<disk, alp>>
<1>1. /\ call # NoCall /\ call.step = "lookup" /\ AlpacaSame /\ Environment
      /\ UNCHANGED <<pos, brk, naked, handler, waiting>>
  BY DEF Lookup, At
<1>2. call \in Calls /\ RecOK(ord[call.o]) /\ ord[call.o].link # NoLink
  BY <1>1, InCall DEF IInv, CallOK
<1>3. AlpacaOK' /\ Grows /\ UNCHANGED alp
  BY <1>1, SameAlpaca
<1>4. CASE Exists(call.o, ord[call.o].link)
  <2> DEFINE r == [ord[call.o] EXCEPT !.known = TRUE]
  <2>1. RecOK(r) /\ r.took = ord[call.o].took /\ r.link # NoLink
    BY <1>2, Known
  <2>2. ord' = [ord EXCEPT ![call.o] = r] /\ call' = [call EXCEPT !.step = "read"]
    BY <1>4 DEF Lookup
  <2>3. call' \in Calls /\ call'.o = call.o /\ call'.kind = call.kind /\ call'.step = "read"
    BY <1>2, <2>2 DEF Calls
  <2> HIDE DEF r
  <2> QED BY <1>1, <1>3, <2>1, <2>2, <2>3, GoOn
<1>5. CASE ~Exists(call.o, ord[call.o].link)
  <2> DEFINE r == [ord[call.o] EXCEPT !.link = NoLink]
  <2>1. RecOK(r) /\ r.took = ord[call.o].took /\ r.link = NoLink
    BY <1>2, Unlinked
  <2>2. /\ ord' = [ord EXCEPT ![call.o] = r]
        /\ call' = IF call.kind = "exec" THEN [call EXCEPT !.step = "gate"] ELSE NoCall
    BY <1>5 DEF Lookup
  <2> HIDE DEF r
  <2>3. CASE call.kind = "exec"
    <3>1. call' \in Calls /\ call'.o = call.o /\ call'.kind = call.kind /\ call'.step = "gate"
      BY <1>2, <2>2, <2>3 DEF Calls
    <3> QED BY <1>1, <1>3, <2>1, <2>2, <2>3, <3>1, GoOn
  <2>4. CASE call.kind # "exec"
    <3>1. Fail(FALSE, r)
      BY <1>1, <2>2, <2>4 DEF Fail, IInv, LocalOK
    <3> QED BY <1>1, <1>3, <2>1, <3>1, FailStep
  <2> QED BY <2>3, <2>4
<1> QED BY <1>4, <1>5

(* The network failed before anything was sent.                            *)
LEMMA NoAnswerStep ==
  ASSUME IInv, NoAnswer
  PROVE  IInv' /\ Quiet /\ UNCHANGED <<disk, alp>>
<1>1. call # NoCall /\ AlpacaSame /\ Environment /\ Fail(FALSE, ord[call.o])
  BY DEF NoAnswer, At
<1>2. RecOK(ord[call.o])
  BY <1>1, InCall
<1>3. AlpacaOK' /\ Grows /\ UNCHANGED alp
  BY <1>1, SameAlpaca
<1> QED BY <1>1, <1>2, <1>3, FailStep

(* Step 2 of a call.                                                       *)
LEMMA GateStep ==
  ASSUME IInv, Gate
  PROVE  IInv' /\ Quiet /\ UNCHANGED <<disk, alp>>
<1>1. call # NoCall /\ call.step = "gate" /\ AlpacaSame /\ Environment
  BY DEF Gate, At
<1>2. /\ call \in Calls /\ call.o \in Orders /\ RecOK(ord[call.o])
      /\ ord[call.o].link = NoLink /\ call.kind = "exec"
  BY <1>1, InCall DEF IInv, CallOK
<1>3. AlpacaOK' /\ Grows /\ UNCHANGED alp
  BY <1>1, SameAlpaca
<1>4. ASSUME NEW hard \in BOOLEAN, Fail(hard, ord[call.o])
      PROVE  IInv' /\ Quiet /\ UNCHANGED <<disk, alp>>
  BY <1>1, <1>2, <1>3, <1>4, FailStep
<1>5. CASE /\ ord[call.o].att < MaxAttempt
           /\ call' = [call EXCEPT !.step = IF Reduces(call.o) THEN "held" ELSE "post",
                                   !.q = ord[call.o].rem]
           /\ UNCHANGED <<pos, ord, brk, naked, handler, waiting>>
  <2>1. /\ call' \in Calls /\ call'.o = call.o /\ call'.kind = call.kind
        /\ call'.step \in {"held", "post"}
    BY <1>2, <1>5 DEF Calls, RecOK, Order
  <2>2. ord' = [ord EXCEPT ![call.o] = ord[call.o]]
    BY <1>2, <1>5 DEF IInv, LocalOK
  <2> QED BY <1>1, <1>2, <1>3, <1>5, <2>1, <2>2, GoOn
<1>6. (~Reduces(call.o)) \in BOOLEAN
  BY DEF Reduces
<1> QED BY <1>4, <1>5, <1>6 DEF Gate

(* Step 3 of a call.                                                       *)
LEMMA HeldStep ==
  ASSUME IInv, HeldCheck
  PROVE  IInv' /\ Quiet /\ UNCHANGED <<disk, alp>>
<1>1. call # NoCall /\ call.step = "held" /\ AlpacaSame /\ Environment
  BY DEF HeldCheck, At
<1>2. /\ call \in Calls /\ call.o \in Orders /\ call.q \in Int /\ RecOK(ord[call.o])
      /\ ord[call.o].link = NoLink /\ call.kind = "exec" /\ ord[call.o].att < MaxAttempt
  BY <1>1, InCall DEF IInv, CallOK
<1>3. AlpacaOK' /\ Grows /\ UNCHANGED alp
  BY <1>1, SameAlpaca
<1>4. CASE Fail(TRUE, ord[call.o])
  BY <1>1, <1>2, <1>3, <1>4, FailStep
<1>5. CASE /\ call' = [call EXCEPT !.step = "post", !.q = Smaller(call.q, Abs(held))]
           /\ UNCHANGED <<pos, ord, brk, naked, handler, waiting>>
  <2>1. Smaller(call.q, Abs(held)) \in Int
    BY <1>2 DEF Smaller, Abs, IInv, AlpacaOK
  <2>2. /\ call' \in Calls /\ call'.o = call.o /\ call'.kind = call.kind
        /\ call'.step = "post"
    BY <1>2, <1>5, <2>1 DEF Calls
  <2>3. ord' = [ord EXCEPT ![call.o] = ord[call.o]]
    BY <1>2, <1>5 DEF IInv, LocalOK
  <2> QED BY <1>1, <1>2, <1>3, <1>5, <2>2, <2>3, GoOn
<1> QED BY <1>4, <1>5 DEF HeldCheck

(* Alpaca with one more order that has no fill.                            *)
LEMMA PlaceStep ==
  ASSUME IInv, NEW o \in Orders, NEW k \in Attempts, ~Exists(o, k), NEW q \in Int,
         NEW st \in {"open", "transit"}, Place(o, k, st, q), UNCHANGED held
  PROVE  AlpacaOK' /\ Grows /\ \A s \in Sent : alp'[s].filled = alp[s].filled
<1> DEFINE a == [st |-> st, qty |-> q, filled |-> 0]
<1>1. <<o, k>> \in Sent /\ a \in AlpacaOrder
  BY DEF Sent, AlpacaOrder
<1>2. alp \in [Sent -> AlpacaOrder] /\ alp' = [alp EXCEPT ![<<o, k>>] = a]
  BY DEF IInv, AlpacaOK, Place
<1>3. alp[<<o, k>>].filled = 0
  BY <1>1, <1>2 DEF IInv, AlpacaOK, AlpacaOrder, Exists
<1>4. alp' \in [Sent -> AlpacaOrder]
  BY <1>1, <1>2
<1>5. \A s \in Sent : alp'[s].filled = alp[s].filled /\ alp[s].filled \in Nat
  BY <1>1, <1>2, <1>3 DEF AlpacaOrder
<1>6. \A s \in Sent : alp'[s].st \in {"none", "transit"} => alp'[s].filled = 0
  BY <1>1, <1>2 DEF IInv, AlpacaOK
<1> QED BY <1>4, <1>5, <1>6 DEF AlpacaOK, Grows, IInv

(* Step 4 of a call, however the answer gets lost.                         *)
LEMMA PostStep ==
  ASSUME IInv, Post
  PROVE  IInv' /\ Quiet /\ UNCHANGED disk /\ \A s \in Sent : alp'[s].filled = alp[s].filled
<1> DEFINE o == call.o
           k == ord[o].att + 1
           r == [ord[o] EXCEPT !.att = k, !.link = k, !.known = FALSE, !.booked = 0]
           answered == /\ ord' = [ord EXCEPT ![o] = r]
                       /\ call' = [call EXCEPT !.step = "read", !.fresh = TRUE]
                       /\ UNCHANGED <<pos, brk, naked, handler, waiting>>
<1>1. call # NoCall /\ call.step = "post" /\ UNCHANGED held /\ Environment
  BY DEF Post, At
<1>2. /\ call \in Calls /\ o \in Orders /\ call.q \in Int /\ RecOK(ord[o])
      /\ ord[o].att < MaxAttempt
  BY <1>1, InCall DEF IInv, CallOK
<1>3. RecOK(r) /\ k \in Attempts /\ r.took = ord[o].took /\ r.link = k
  <2>1. k = ord[o].att + 1
    OBVIOUS
  <2>2. r = Numbered(ord[o])
    BY DEF Numbered
  <2> HIDE DEF r, k, o
  <2> QED BY <1>2, <2>1, <2>2, NextAttempt
<1>4. /\ AlpacaOK' /\ Grows /\ \A s \in Sent : alp'[s].filled = alp[s].filled
  <2>1. CASE UNCHANGED alp
    BY <1>1, <2>1 DEF IInv, AlpacaOK, AlpacaOrder, Grows, Sent
  <2>2. ASSUME NEW st \in {"open", "transit"}, ~Exists(o, k), Place(o, k, st, call.q)
        PROVE  AlpacaOK' /\ Grows /\ \A s \in Sent : alp'[s].filled = alp[s].filled
    <3> HIDE DEF k, o
    <3> QED BY <1>1, <1>2, <1>3, <2>2, PlaceStep
  <2>3. \/ UNCHANGED alp
        \/ ~Exists(o, k) /\ Place(o, k, "open", call.q)
        \/ ~Exists(o, k) /\ Place(o, k, "transit", call.q)
    BY DEF Post
  <2> QED BY <2>1, <2>2, <2>3
<1>5. ASSUME NEW hard \in BOOLEAN, Fail(hard, r)
      PROVE  IInv' /\ Quiet /\ UNCHANGED disk
  <2> HIDE DEF r, k
  <2> QED BY <1>1, <1>3, <1>4, <1>5, FailStep
<1>6. ASSUME answered
      PROVE  IInv' /\ Quiet /\ UNCHANGED disk
  <2>1. /\ call' \in Calls /\ call'.o = call.o /\ call'.kind = call.kind /\ call'.step = "read"
    BY <1>2, <1>6 DEF Calls
  <2>2. r.link # NoLink /\ ord' = [ord EXCEPT ![call.o] = r]
        /\ UNCHANGED <<pos, brk, naked, handler, waiting>>
    BY <1>3, <1>6 DEF NoLink, Attempts
  <2> HIDE DEF r, k
  <2> QED BY <1>1, <1>3, <1>4, <2>1, <2>2, GoOn
<1>7. answered \/ \E hard \in BOOLEAN : Fail(hard, r)
  BY DEF Post
<1> QED BY <1>4, <1>5, <1>6, <1>7

(* The ledger catches up with attempt k of order o, and with nothing else. *)
CatchesUp(o, k) ==
  /\ ord[o].took[k] < alp[<<o, k>>].filled
  /\ \A p \in Orders, j \in Attempts :
       ord'[p].took[j] = IF p = o /\ j = k THEN alp[<<o, k>>].filled ELSE ord[p].took[j]

(* What booking n shares writes into the order.                            *)
LEMMA TakeRecord ==
  ASSUME NEW o, ord[o] \in Order, NEW k, NEW n \in Int,
         Take(o, k, n, Book(ord[o], alp[<<o, k>>]))
  PROVE  \E st \in States, m \in Int :
           ord' = [ord EXCEPT ![o] = Booked(ord[o], alp[<<o, k>>], k, n, st, m)]
<1> DEFINE b == Book(ord[o], alp[<<o, k>>])
           st == IF b.rem = n THEN "filled"
                 ELSE IF (o \in Entries /\ brk[o] = "pending") \/ ord[o].st = "cancelled"
                        THEN "cancelled" ELSE "partial"
<1>1. ord' = [ord EXCEPT ![o] = [b EXCEPT !.st = st, !.rem = b.rem - n, !.took[k] = @ + n]]
  BY DEF Take
<1>2. st \in States
  BY DEF States
<1>3. b.rem \in Int
  <2>1. b.rem = ord[o].rem
    BY DEF Book, Order
  <2> QED BY <2>1 DEF Order
<1>4. b.rem - n \in Int
  BY <1>3
<1> HIDE DEF st
<1>5. ord' = [ord EXCEPT ![o] = Booked(ord[o], alp[<<o, k>>], k, n, st, b.rem - n)]
  BY <1>1 DEF Booked
<1> HIDE DEF b
<1> QED BY <1>2, <1>4, <1>5

(* A booking, as a step of the call.                                       *)
LEMMA TakeStep ==
  ASSUME IInv, call # NoCall, NEW o, o = call.o, NEW k \in Attempts, k = ord[o].link,
         NEW n, n = alp[<<o, k>>].filled - ord[o].booked, n > 0,
         Take(o, k, n, Book(ord[o], alp[<<o, k>>])), AlpacaSame, Environment
  PROVE  IInv' /\ UNCHANGED <<disk, alp>> /\ o \in Orders /\ CatchesUp(o, k)
<1>1. /\ o \in Orders /\ o \in used /\ RecOK(ord[o]) /\ <<o, k>> \in Sent
  BY InCall DEF Sent
<1>2. /\ AlpacaOK' /\ Grows /\ UNCHANGED alp
      /\ UNCHANGED <<disk, used, mismatch, seen, boot, waiting>>
  BY SameAlpaca DEF Environment, Take
<1>3. /\ alp[<<o, k>>] \in AlpacaOrder /\ alp[<<o, k>>].filled \in Nat
      /\ ord[o].took[k] \in Nat /\ ord[o].took[k] = ord[o].booked
  <2>1. ord[o].took[k] = ord[o].booked
    BY <1>1 DEF RecOK
  <2> QED BY <1>1, <2>1, Counts DEF IInv
<1>4. n \in Int
  BY <1>3
<1>5. PICK st \in States, m \in Int :
        ord' = [ord EXCEPT ![o] = Booked(ord[o], alp[<<o, k>>], k, n, st, m)]
  <2>1. ord[o] \in Order
    BY <1>1 DEF RecOK
  <2> QED BY <1>4, <2>1, TakeRecord
<1> DEFINE b == Booked(ord[o], alp[<<o, k>>], k, n, st, m)
<1>6. /\ RecOK(b) /\ b.took = [ord[o].took EXCEPT ![k] = alp[<<o, k>>].filled]
      /\ b.link = (IF IsTerminal(alp[<<o, k>>]) THEN NoLink ELSE k) /\ b.att = ord[o].att
  BY <1>1, <1>3, ReadFill
<1>7. ord' = [ord EXCEPT ![o] = b]
  BY <1>5
<1> HIDE DEF b
<1>8. \A j \in Attempts : b.took[j] = IF j = k THEN alp[<<o, k>>].filled ELSE ord[o].took[j]
  BY <1>1, <1>6 DEF RecOK, Order
<1>9. \A j \in Attempts : b.took[j] <= alp'[<<o, j>>].filled
  <2> SUFFICES ASSUME NEW j \in Attempts PROVE b.took[j] <= alp[<<o, j>>].filled
    BY <1>2
  <2>1. CASE j = k
    BY <1>3, <1>8, <2>1
  <2>2. CASE j # k
    <3>1. ord[o].took[j] <= alp[<<o, j>>].filled
      BY <1>1, Counts DEF IInv
    <3> QED BY <1>8, <2>2, <3>1
  <2> QED BY <2>1, <2>2
<1>10. ord' \in [Orders -> Order] /\ ord'[o] = b /\ Books(ord)' /\ Books(disk.ord)' /\ UsedOK'
  BY <1>1, <1>2, <1>6, <1>7, <1>9, Update DEF IInv
<1>11. LocalOK' /\ RestOK'
  <2>1. pos' \in Int
    BY <1>4 DEF Take, Sign, IInv, LocalOK
  <2>2. naked' \in Nat
    <3>1. n \in Nat
      BY <1>4
    <3> QED BY <3>1 DEF Take, IInv, LocalOK
  <2>3. brk' \in [Entries -> {"none", "pending", "active", "released"}]
    BY DEF Take, IInv, LocalOK
  <2>4. call' = NoCall /\ handler' \in {"idle", "work", "settle", "booked"}
    BY DEF Take, IInv, LocalOK
  <2> QED BY <1>2, <1>10, <2>1, <2>2, <2>3, <2>4 DEF IInv, LocalOK, RestOK
<1>12. CallOK'
  BY DEF Take, CallOK
<1>13. CatchesUp(o, k)
  <2>1. ord[o].took[k] < alp[<<o, k>>].filled
    BY <1>3
  <2>2. ASSUME NEW p \in Orders, NEW j \in Attempts
        PROVE  ord'[p].took[j] = IF p = o /\ j = k THEN alp[<<o, k>>].filled ELSE ord[p].took[j]
    <3>1. CASE p = o
      BY <1>8, <1>10, <3>1
    <3>2. CASE p # o
      BY <1>7, <3>2 DEF IInv, LocalOK
    <3> QED BY <3>1, <3>2
  <2> QED BY <2>1, <2>2 DEF CatchesUp
<1> QED BY <1>1, <1>2, <1>10, <1>11, <1>12, <1>13 DEF IInv

(* The order of the linked attempt is read, and its news booked.           *)
LEMMA ReadStep ==
  ASSUME IInv, Read
  PROVE  /\ IInv' /\ UNCHANGED <<disk, alp>>
         /\ Quiet \/ \E o \in Orders, k \in Attempts : CatchesUp(o, k)
<1> DEFINE o == call.o
           k == ord[o].link
           a == alp[<<o, k>>]
           r == Book(ord[o], a)
           n == a.filled - ord[o].booked
<1>1. call # NoCall /\ call.step = "read" /\ AlpacaSame /\ Environment
  BY DEF Read, At
<1>2. /\ call \in Calls /\ o \in Orders /\ RecOK(ord[o]) /\ ord[o] \in Order /\ k # NoLink
  BY <1>1, InCall DEF IInv, CallOK
<1>3. k \in Attempts
  BY <1>2, Bound DEF Order, Attempts, NoLink
<1>4. AlpacaOK' /\ Grows /\ UNCHANGED alp
  BY <1>1, SameAlpaca
<1>5. /\ a \in AlpacaOrder /\ a.filled \in Nat /\ ord[o].took[k] <= a.filled
      /\ ord[o].booked \in Nat
  BY <1>2, <1>3, Counts DEF IInv, Order
<1>6. \/ n > 0 /\ Take(o, k, n, r)
      \/ /\ n <= 0 /\ IsTerminal(a) /\ call.kind = "exec"
         /\ ord' = [ord EXCEPT ![o] = r]
         /\ call' = [call EXCEPT !.step = "gate"]
         /\ UNCHANGED <<pos, brk, naked, handler, waiting>>
      \/ /\ n <= 0
         /\ Fail(call.fresh /\ a.st = "rejected", r)
  BY DEF Read
<1>7. (call.fresh /\ a.st = "rejected") \in BOOLEAN
  BY <1>2 DEF Calls
<1>8. CASE n > 0 /\ Take(o, k, n, r)
  <2>1. IInv' /\ UNCHANGED <<disk, alp>> /\ CatchesUp(o, k)
    BY <1>1, <1>3, <1>8, TakeStep
  <2> QED BY <1>2, <1>3, <2>1
<1>9. ASSUME n <= 0
      PROVE  RecOK(r) /\ r.took = ord[o].took /\ (IsTerminal(a) => r.link = NoLink)
  <2> HIDE DEF a, k, o
  <2>1. ord[o].link \in Attempts /\ a.filled - ord[o].booked <= 0
        /\ ord[o].took[ord[o].link] <= a.filled
    BY <1>3, <1>5, <1>9 DEF k
  <2> QED BY <1>2, <1>5, <2>1, ReadNothing
<1>10. CASE /\ n <= 0 /\ IsTerminal(a) /\ call.kind = "exec"
            /\ ord' = [ord EXCEPT ![o] = r]
            /\ call' = [call EXCEPT !.step = "gate"]
            /\ UNCHANGED <<pos, brk, naked, handler, waiting>>
  <2>1. call' \in Calls /\ call'.o = call.o /\ call'.kind = call.kind /\ call'.step = "gate"
    BY <1>2, <1>10 DEF Calls
  <2>2. RecOK(r) /\ r.took = ord[o].took /\ r.link = NoLink
    BY <1>9, <1>10
  <2>3. ord' = [ord EXCEPT ![call.o] = r] /\ r.took = ord[call.o].took
    BY <1>10, <2>2
  <2>4. UNCHANGED <<pos, brk, naked, handler, waiting>> /\ call.kind = "exec"
    BY <1>10
  <2> HIDE DEF r
  <2> QED BY <1>1, <1>4, <2>1, <2>2, <2>3, <2>4, GoOn
<1>11. CASE n <= 0 /\ Fail(call.fresh /\ a.st = "rejected", r)
  <2>1. RecOK(r) /\ r.took = ord[call.o].took
    BY <1>9, <1>11
  <2> HIDE DEF r
  <2> QED BY <1>1, <1>4, <1>7, <1>11, <2>1, FailStep
<1> QED BY <1>6, <1>8, <1>10, <1>11

-----------------------------------------------------------------------------
(* The other steps.                                                        *)

(* A handler ends, with or without a checkpoint.                           *)
LEMMA EndHandlerStep ==
  ASSUME IInv, EndHandler
  PROVE  IInv' /\ UNCHANGED <<ord, alp>> /\ (disk' = disk \/ disk'.ord = ord)
<1>1. UNCHANGED <<pos, ord, naked, used, alp, held, call, waiting, mismatch, seen, boot>>
      /\ call = NoCall /\ handler' = "idle"
  BY DEF EndHandler
<1>2. brk' \in [Entries -> {"none", "pending", "active", "released"}]
  BY DEF EndHandler, IInv, LocalOK
<1>3. disk' = disk \/ disk' = Snapshot'
  BY DEF EndHandler
<1>4. disk' \in Local /\ (disk' = disk \/ disk'.ord = ord)
  <2>1. CASE disk' = disk
    BY <2>1 DEF IInv, RestOK
  <2>2. CASE disk' = Snapshot'
    BY <1>1, <1>2, <2>2 DEF Snapshot, Local, IInv, LocalOK
  <2> QED BY <1>3, <2>1, <2>2
<1>5. Books(ord)' /\ Books(disk.ord)'
  BY <1>1, <1>4 DEF IInv, Books, Remembers, NotInvented
<1>6. LocalOK' /\ RestOK' /\ AlpacaOK'
  BY <1>1, <1>2, <1>4 DEF IInv, LocalOK, RestOK, AlpacaOK
<1>7. CallOK' /\ UsedOK'
  BY <1>1, <1>4 DEF IInv, CallOK, UsedOK
<1> QED BY <1>1, <1>4, <1>5, <1>6, <1>7 DEF IInv

(* The timers that touch no order.                                         *)
LEMMA QuietStep ==
  ASSUME IInv, BackoffOver \/ Sync \/ Compare
  PROVE  IInv' /\ UNCHANGED <<ord, disk, alp>>
<1>1. UNCHANGED <<pos, ord, brk, naked, disk, used, alp, held, call, handler>>
      /\ waiting' \in BOOLEAN /\ mismatch' \in BOOLEAN /\ boot' \in BOOLEAN /\ seen' \in SUBSET Int
  <2>1. CASE BackoffOver
    BY <2>1 DEF BackoffOver, IInv, LocalOK, RestOK
  <2>2. CASE Sync
    BY <2>2 DEF Sync, IInv, LocalOK, RestOK, AlpacaOK
  <2>3. CASE Compare
    BY <2>3 DEF Compare, IInv, LocalOK, RestOK
  <2> QED BY <2>1, <2>2, <2>3
<1>2. LocalOK' /\ RestOK' /\ AlpacaOK'
  BY <1>1 DEF IInv, LocalOK, RestOK, AlpacaOK
<1>3. Books(ord)' /\ Books(disk.ord)' /\ CallOK' /\ UsedOK'
  BY <1>1 DEF IInv, Books, Remembers, NotInvented, CallOK, UsedOK
<1> QED BY <1>1, <1>2, <1>3 DEF IInv

(* A crash brings the checkpoint back.                                     *)
LEMMA CrashStep ==
  ASSUME IInv, Crash
  PROVE  IInv' /\ ord' = disk.ord /\ UNCHANGED <<disk, alp>>
<1>1. /\ pos' = disk.pos /\ ord' = disk.ord /\ brk' = disk.brk /\ naked' = disk.naked
      /\ call' = NoCall /\ handler' = "idle" /\ waiting' = FALSE
      /\ mismatch' = FALSE /\ seen' = {} /\ boot' = TRUE
      /\ UNCHANGED <<disk, used, alp, held>>
  BY DEF Crash
<1>2. LocalOK' /\ RestOK' /\ AlpacaOK'
  BY <1>1 DEF IInv, LocalOK, RestOK, AlpacaOK, Local
<1>3. Books(ord)' /\ Books(disk.ord)' /\ CallOK' /\ UsedOK'
  BY <1>1 DEF IInv, Books, Remembers, NotInvented, CallOK, UsedOK
<1> QED BY <1>1, <1>2, <1>3 DEF IInv

(* Alpaca fills, ends or receives one order.                               *)
LEMMA AlpacaStep ==
  ASSUME IInv, NEW o \in Orders, NEW k \in Attempts,
         \/ \E n \in 1 .. alp[<<o, k>>].qty : AlpacaFills(o, k, n)
         \/ AlpacaCancels(o, k) \/ AlpacaRejects(o, k) \/ Arrives(o, k)
  PROVE  /\ IInv' /\ UNCHANGED <<ord, disk>>
         /\ \A s \in Sent \ {<<o, k>>} : alp'[s] = alp[s]
         /\ alp'[<<o, k>>].filled >= alp[<<o, k>>].filled
         /\ alp'[<<o, k>>].filled # alp[<<o, k>>].filled => alp[<<o, k>>].st = "open"
         /\ alp'[<<o, k>>].st \in {"open", "transit"} => alp[<<o, k>>].st \in {"open", "transit"}
         /\ alp'[<<o, k>>].st # "transit"
         /\ alp' \in [Sent -> AlpacaOrder]
<1>1. <<o, k>> \in Sent /\ alp \in [Sent -> AlpacaOrder] /\ alp[<<o, k>>] \in AlpacaOrder
  BY DEF Sent, IInv, AlpacaOK
<1>2. UNCHANGED <<pos, ord, brk, naked, disk, used, call, handler, waiting, mismatch, seen, boot>>
  BY DEF AlpacaFills, AlpacaCancels, AlpacaRejects, Arrives, Outside
<1> DEFINE Goal == /\ alp' \in [Sent -> AlpacaOrder] /\ held' \in Int
                   /\ \A s \in Sent \ {<<o, k>>} : alp'[s] = alp[s]
                   /\ alp'[<<o, k>>].filled \in Nat
                   /\ alp'[<<o, k>>].filled >= alp[<<o, k>>].filled
                   /\ alp'[<<o, k>>].filled # alp[<<o, k>>].filled => alp[<<o, k>>].st = "open"
                   /\ alp'[<<o, k>>].st \in {"open", "transit"} =>
                        alp[<<o, k>>].st \in {"open", "transit"}
                   /\ alp'[<<o, k>>].st \notin {"none", "transit"}
<1>3. ASSUME NEW st \in {"open", "closed", "rejected"}, alp' = [alp EXCEPT ![<<o, k>>].st = st],
             alp[<<o, k>>].st \in {"open", "transit"}, UNCHANGED held
      PROVE  Goal
  <2>1. [alp[<<o, k>>] EXCEPT !.st = st] \in AlpacaOrder
    BY <1>1 DEF AlpacaOrder
  <2>2. alp' = [alp EXCEPT ![<<o, k>>] = [alp[<<o, k>>] EXCEPT !.st = st]]
    BY <1>1, <1>3
  <2>3. /\ alp'[<<o, k>>] = [alp[<<o, k>>] EXCEPT !.st = st]
        /\ alp'[<<o, k>>].filled = alp[<<o, k>>].filled /\ alp'[<<o, k>>].st = st
    BY <1>1, <2>2 DEF AlpacaOrder
  <2>4. alp[<<o, k>>].filled \in Nat
    BY <1>1 DEF AlpacaOrder
  <2> QED BY <1>1, <1>3, <2>1, <2>2, <2>3, <2>4 DEF IInv, AlpacaOK
<1>4. ASSUME NEW n \in 1 .. alp[<<o, k>>].qty, AlpacaFills(o, k, n)
      PROVE  Goal
  <2> DEFINE a == alp[<<o, k>>]
             st == IF a.filled + n = a.qty THEN "closed" ELSE "open"
             b == [a EXCEPT !.filled = a.filled + n, !.st = st]
  <2>1. n \in Nat /\ n > 0 /\ a.filled + n \in Nat /\ a.filled \in Nat /\ a.st = "open"
    <3>1. a.qty \in Int /\ a.filled \in Nat
      BY <1>1 DEF AlpacaOrder
    <3>2. n \in Nat /\ n > 0
      BY <3>1
    <3> HIDE DEF a
    <3>3. a.filled + n \in Nat
      BY <3>1, <3>2
    <3> QED BY <1>4, <3>1, <3>2, <3>3 DEF AlpacaFills, a
  <2>2. b \in AlpacaOrder /\ b.filled = a.filled + n /\ b.st = st
    BY <1>1, <2>1 DEF AlpacaOrder
  <2>3. alp' = [alp EXCEPT ![<<o, k>>] = b]
    BY <1>1, <1>4 DEF AlpacaFills
  <2>4. held' \in Int
    BY <1>4, <2>1 DEF AlpacaFills, Sign, IInv, AlpacaOK
  <2> HIDE DEF b
  <2>5. alp'[<<o, k>>] = b /\ alp' \in [Sent -> AlpacaOrder]
        /\ \A s \in Sent \ {<<o, k>>} : alp'[s] = alp[s]
    BY <1>1, <2>2, <2>3
  <2> QED BY <2>1, <2>2, <2>4, <2>5
<1>5. Goal
  <2>1. CASE \E n \in 1 .. alp[<<o, k>>].qty : AlpacaFills(o, k, n)
    BY <1>4, <2>1
  <2>2. CASE AlpacaCancels(o, k)
    BY <1>3, <2>2 DEF AlpacaCancels
  <2>3. CASE AlpacaRejects(o, k)
    BY <1>3, <2>3 DEF AlpacaRejects
  <2>4. CASE Arrives(o, k)
    <3>1. PICK st \in {"open", "closed", "rejected"} : alp' = [alp EXCEPT ![<<o, k>>].st = st]
      BY <2>4 DEF Arrives
    <3> QED BY <1>3, <2>4, <3>1 DEF Arrives
  <2> QED BY <2>1, <2>2, <2>3, <2>4
<1> HIDE DEF Goal
<1>6. AlpacaOK' /\ Grows
  <2>1. ASSUME NEW s \in Sent
        PROVE  /\ alp'[s].filled >= alp[s].filled
               /\ alp'[s].st \in {"none", "transit"} => alp'[s].filled = 0
    <3>1. CASE s = <<o, k>>
      BY <1>5, <3>1 DEF Goal
    <3>2. CASE s # <<o, k>>
      BY <1>5, <3>2 DEF Goal, IInv, AlpacaOK, AlpacaOrder
    <3> QED BY <3>1, <3>2
  <2> QED BY <1>5, <2>1 DEF Goal, AlpacaOK, Grows
<1>7. Books(ord)' /\ Books(disk.ord)'
  BY <1>2, <1>6, Keep DEF IInv
<1>8. LocalOK' /\ RestOK' /\ CallOK' /\ UsedOK'
  BY <1>2 DEF IInv, LocalOK, RestOK, CallOK, UsedOK
<1> QED BY <1>2, <1>5, <1>6, <1>7, <1>8 DEF IInv, Goal

-----------------------------------------------------------------------------
(* The invariant, and the type invariant with it.                          *)

(* The first state.                                                        *)
LEMMA InitInv == Init => IInv
<1> SUFFICES ASSUME Init PROVE IInv
  OBVIOUS
<1>1. \A o \in Orders : ord[o] = NoOrder /\ disk.ord[o] = NoOrder
  BY DEF Init, Snapshot
<1>2. RecOK(NoOrder) /\ \A k \in Attempts : NoOrder.took[k] = 0
  BY Fresh
<1>3. NoOrder \in Order
  BY <1>2 DEF RecOK
<1>4. LocalOK
  <2>1. ord \in [Orders -> Order] /\ brk \in [Entries -> {"none", "pending", "active", "released"}]
    BY <1>3 DEF Init
  <2>2. pos \in Int /\ naked \in Nat /\ handler = "idle" /\ call = NoCall /\ waiting = FALSE
    BY DEF Init
  <2> QED BY <2>1, <2>2 DEF LocalOK
<1>5. RestOK
  BY <1>4 DEF Init, RestOK, Local, Snapshot, LocalOK
<1>6. AlpacaOK /\ \A s \in Sent : alp[s].filled = 0
  BY DEF Init, AlpacaOK, AlpacaOrder, NoneAtAlpaca
<1>7. Books(ord) /\ Books(disk.ord)
  <2>1. \A o \in Orders, k \in Attempts : <<o, k>> \in Sent
    BY DEF Sent
  <2> QED BY <1>1, <1>2, <1>6, <2>1 DEF Books, Remembers, NotInvented
<1>8. CallOK /\ UsedOK
  BY <1>1 DEF Init, CallOK, UsedOK
<1> QED BY <1>4, <1>5, <1>6, <1>7, <1>8 DEF IInv

(* Every step keeps the invariant.                                         *)
LEMMA StepInv == IInv /\ [Next]_vars => IInv'
<1> SUFFICES ASSUME IInv, [Next]_vars PROVE IInv'
  OBVIOUS
<1>1. ASSUME NEW e \in Entries, NEW q \in Sizes, NewEntry(e, q) PROVE IInv'
  <2>1. e \in Orders /\ Accept(e, q) /\ brk' = [brk EXCEPT ![e] = "pending"]
    BY <1>1 DEF Orders, NewEntry
  <2>2. brk' \in [Entries -> {"none", "pending", "active", "released"}]
    BY <2>1 DEF IInv, LocalOK
  <2> QED BY <2>1, <2>2, AcceptStep
<1>2. ASSUME NEW x \in Exits, NEW q \in Sizes, NewExit(x, q) PROVE IInv'
  <2>1. x \in Orders /\ Accept(x, q) /\ brk' = brk
    BY <1>2 DEF Orders, NewExit
  <2>2. brk' \in [Entries -> {"none", "pending", "active", "released"}]
    BY <2>1 DEF IInv, LocalOK
  <2> QED BY <2>1, <2>2, AcceptStep
<1>3. CASE Handlers
  BY <1>1, <1>2, <1>3, CancelStep, StartStep, EndHandlerStep DEF Handlers
<1>4. CASE RoundTrip
  BY <1>4, LookupStep, NoAnswerStep, ReadStep, GateStep, HeldStep, PostStep DEF RoundTrip
<1>5. CASE Alpaca
  BY <1>5, AlpacaStep DEF Alpaca
<1>6. CASE BackoffOver \/ Sync \/ Compare
  BY <1>6, QuietStep
<1>7. CASE Crash
  BY <1>7, CrashStep
<1>8. CASE UNCHANGED vars
  BY <1>8 DEF vars, IInv, LocalOK, RestOK, AlpacaOK, Books, Remembers, NotInvented, CallOK, UsedOK
<1> QED BY <1>3, <1>4, <1>5, <1>6, <1>7, <1>8 DEF Next

(* Every variable keeps its type, and the link of an order what it stands  *)
(* for: _broker_execute and settle_broker_orders, at any step of a call.   *)
THEOREM Inductive == Spec => []IInv
<1>1. Init => IInv
  BY InitInv
<1>2. IInv /\ [Next]_vars => IInv'
  BY StepInv
<1> QED BY <1>1, <1>2, PTL DEF Spec

(* TypeOK for every choice of the constants.                               *)
THEOREM TypeCorrect == Spec => []TypeOK
<1>1. IInv => TypeOK
  BY Types DEF IInv, AlpacaOK
<1> QED BY <1>1, Inductive, PTL

-----------------------------------------------------------------------------
(* The calls implement FillLedger.                                         *)

(* A step that books nothing and saves nothing is invisible to the ledger. *)
LEMMA Invisible ==
  ASSUME Quiet, UNCHANGED disk, \A s \in Sent : alp'[s].filled = alp[s].filled
  PROVE  UNCHANGED Ledger!vars
BY DEF Quiet, Sent, Ledger!vars

(* A step that books what attempt k of order o filled.                     *)
LEMMA BooksOne ==
  ASSUME NEW o \in Orders, NEW k \in Attempts, CatchesUp(o, k), UNCHANGED <<disk, alp>>
  PROVE  Ledger!Book(<<o, k>>)
<1> DEFINE filled == [s \in Sent |-> alp[s].filled]
           booked == [s \in Sent |-> ord[s[1]].took[s[2]]]
           after  == [s \in Sent |-> ord'[s[1]].took[s[2]]]
<1>1. <<o, k>> \in Sent /\ booked[<<o, k>>] = ord[o].took[k] /\ filled[<<o, k>>] = alp[<<o, k>>].filled
  BY DEF Sent
<1>2. after = [booked EXCEPT ![<<o, k>>] = filled[<<o, k>>]]
  <2>1. ASSUME NEW s \in Sent
        PROVE  after[s] = [booked EXCEPT ![<<o, k>>] = filled[<<o, k>>]][s]
    <3>1. s[1] \in Orders /\ s[2] \in Attempts /\ s = <<s[1], s[2]>>
      BY DEF Sent
    <3>2. after[s] = IF s[1] = o /\ s[2] = k THEN alp[<<o, k>>].filled ELSE ord[s[1]].took[s[2]]
      BY <3>1 DEF CatchesUp
    <3>3. CASE s = <<o, k>>
      BY <1>1, <3>2, <3>3
    <3>4. CASE s # <<o, k>>
      BY <1>1, <3>1, <3>2, <3>4
    <3> QED BY <3>3, <3>4
  <2> QED BY <2>1
<1>3. ord[o].took[k] < alp[<<o, k>>].filled
  BY DEF CatchesUp
<1> QED BY <1>1, <1>2, <1>3 DEF Ledger!Book

(* Every step of the calls is a step of the ledger.                        *)
LEMMA LedgerStep == IInv /\ [Next]_vars => [Ledger!Next]_(Ledger!vars)
<1> SUFFICES ASSUME IInv, [Next]_vars PROVE [Ledger!Next]_(Ledger!vars)
  OBVIOUS
<1>1. ASSUME NEW e \in Entries, NEW q \in Sizes, NewEntry(e, q)
      PROVE  UNCHANGED Ledger!vars
  <2>1. e \in Orders /\ Accept(e, q) /\ brk' = [brk EXCEPT ![e] = "pending"]
    BY <1>1 DEF Orders, NewEntry
  <2>2. brk' \in [Entries -> {"none", "pending", "active", "released"}]
    BY <2>1 DEF IInv, LocalOK
  <2> QED BY <2>1, <2>2, AcceptStep, Invisible
<1>2. ASSUME NEW x \in Exits, NEW q \in Sizes, NewExit(x, q)
      PROVE  UNCHANGED Ledger!vars
  <2>1. x \in Orders /\ Accept(x, q) /\ brk' = brk
    BY <1>2 DEF Orders, NewExit
  <2>2. brk' \in [Entries -> {"none", "pending", "active", "released"}]
    BY <2>1 DEF IInv, LocalOK
  <2> QED BY <2>1, <2>2, AcceptStep, Invisible
<1>3. ASSUME EndHandler
      PROVE  [Ledger!Next]_(Ledger!vars)
  <2>1. UNCHANGED <<ord, alp>> /\ (disk' = disk \/ disk'.ord = ord)
    BY <1>3, EndHandlerStep
  <2>2. CASE disk' = disk
    BY <2>1, <2>2 DEF Ledger!vars
  <2>3. CASE disk'.ord = ord
    <3>1. Ledger!Save
      BY <2>1, <2>3 DEF Ledger!Save
    <3> QED BY <3>1 DEF Ledger!Next
  <2> QED BY <2>1, <2>2, <2>3
<1>4. CASE Handlers
  BY <1>1, <1>2, <1>3, <1>4, CancelStep, StartStep, Invisible DEF Handlers
<1>5. ASSUME Read
      PROVE  [Ledger!Next]_(Ledger!vars)
  <2>1. UNCHANGED <<disk, alp>> /\ (Quiet \/ \E o \in Orders, k \in Attempts : CatchesUp(o, k))
    BY <1>5, ReadStep
  <2>2. CASE Quiet
    BY <2>1, <2>2, Invisible
  <2>3. ASSUME NEW o \in Orders, NEW k \in Attempts, CatchesUp(o, k)
        PROVE  [Ledger!Next]_(Ledger!vars)
    <3>1. Ledger!Book(<<o, k>>) /\ <<o, k>> \in Sent
      BY <2>1, <2>3, BooksOne DEF Sent
    <3> QED BY <3>1 DEF Ledger!Next
  <2> QED BY <2>1, <2>2, <2>3
<1>6. CASE RoundTrip
  BY <1>5, <1>6, LookupStep, NoAnswerStep, GateStep, HeldStep, PostStep, Invisible DEF RoundTrip
<1>7. CASE Alpaca
  <2>1. PICK o \in Orders, k \in Attempts :
          \/ \E n \in 1 .. alp[<<o, k>>].qty : AlpacaFills(o, k, n)
          \/ AlpacaCancels(o, k) \/ AlpacaRejects(o, k) \/ Arrives(o, k)
    BY <1>7 DEF Alpaca
  <2>2. /\ UNCHANGED <<ord, disk>> /\ \A s \in Sent \ {<<o, k>>} : alp'[s] = alp[s]
        /\ alp'[<<o, k>>].filled >= alp[<<o, k>>].filled
        /\ alp' \in [Sent -> AlpacaOrder]
    BY <2>1, AlpacaStep
  <2>3. /\ <<o, k>> \in Sent /\ alp[<<o, k>>].filled \in Nat /\ alp'[<<o, k>>].filled \in Nat
    BY <2>2 DEF Sent, IInv, AlpacaOK, AlpacaOrder
  <2>4. CASE alp'[<<o, k>>].filled = alp[<<o, k>>].filled
    <3>1. \A s \in Sent : alp'[s].filled = alp[s].filled
      BY <2>2, <2>4
    <3>2. Quiet
      BY <2>2 DEF Quiet
    <3> QED BY <2>2, <3>1, <3>2, Invisible
  <2>5. CASE alp'[<<o, k>>].filled # alp[<<o, k>>].filled
    <3> DEFINE before == [s \in Sent |-> alp[s].filled]
               after  == [s \in Sent |-> alp'[s].filled]
    <3>1. after[<<o, k>>] > before[<<o, k>>]
      BY <2>2, <2>3, <2>5
    <3>2. after = [before EXCEPT ![<<o, k>>] = after[<<o, k>>]]
      BY <2>2, <2>3
    <3>3. Ledger!Fill(<<o, k>>)
      BY <2>2, <3>1, <3>2 DEF Ledger!Fill
    <3> QED BY <2>3, <3>3 DEF Ledger!Next
  <2> QED BY <2>4, <2>5
<1>8. CASE BackoffOver \/ Sync \/ Compare
  BY <1>8, QuietStep DEF Ledger!vars
<1>9. CASE Crash
  <2>1. ord' = disk.ord /\ UNCHANGED <<disk, alp>>
    BY <1>9, CrashStep
  <2>2. Ledger!Restart
    BY <2>1 DEF Ledger!Restart
  <2> QED BY <2>2 DEF Ledger!Next
<1>10. CASE UNCHANGED vars
  BY <1>10 DEF vars, Ledger!vars
<1> QED BY <1>4, <1>6, <1>7, <1>8, <1>9, <1>10 DEF Next

(* Whatever the network, Alpaca and crashes do, late POSTs included, each  *)
(* booking brings the ledger up to what Alpaca filled of one order, once.  *)
THEOREM LedgerImplemented == Spec => LedgerSpec
<1>1. Init => Ledger!Init
  <2> SUFFICES ASSUME Init PROVE Ledger!Init
    OBVIOUS
  <2>1. \A s \in Sent : s[1] \in Orders /\ s[2] \in Attempts
    BY DEF Sent
  <2>2. \A s \in Sent : alp[s].filled = 0 /\ ord[s[1]].took[s[2]] = 0
                        /\ disk.ord[s[1]].took[s[2]] = 0
    BY <2>1 DEF Init, Snapshot, NoOrder, NoneAtAlpaca
  <2> QED BY <2>2 DEF Ledger!Init
<1>2. IInv /\ [Next]_vars => [Ledger!Next]_(Ledger!vars)
  BY LedgerStep
<1> QED BY <1>1, <1>2, Inductive, PTL DEF Spec, LedgerSpec, Ledger!Spec

-----------------------------------------------------------------------------
(* When no POST arrives after it was looked for, no fill is missed.        *)

(* An attempt that is no longer linked is over, and booked in full.        *)
ClosedRec(o, r) ==
  \A k \in Attempts : k <= r.att /\ k # r.link =>
    r.took[k] = alp[<<o, k>>].filled /\ alp[<<o, k>>].st \notin {"open", "transit"}

Closed(orders) == \A o \in Orders : ClosedRec(o, orders[o])

(* The checkpoint is behind, never ahead.                                  *)
Behind == \A o \in Orders : disk.ord[o].att <= ord[o].att

EInv == IInv /\ Closed(ord) /\ Closed(disk.ord) /\ Behind

(* What the invariant says about the attempts is LedgerTracksAlpaca.       *)
LEMMA ExactFromInv == EInv => LedgerTracksAlpaca
<1> SUFFICES ASSUME EInv PROVE LedgerTracksAlpaca
  OBVIOUS
<1>1. ASSUME NEW orders, Books(orders), Closed(orders)
      PROVE  Exact(orders)
  <2>1. ASSUME NEW o \in Orders, NEW k \in Attempts
        PROVE  /\ k > orders[o].att => orders[o].took[k] = 0
               /\ k = orders[o].link => /\ orders[o].took[k] = orders[o].booked
                                        /\ orders[o].took[k] <= alp[<<o, k>>].filled
               /\ k <= orders[o].att /\ k # orders[o].link =>
                    /\ orders[o].took[k] = alp[<<o, k>>].filled
                    /\ alp[<<o, k>>].st \notin {"open", "transit"}
    BY <1>1 DEF Books, Remembers, RecOK, NotInvented, Closed, ClosedRec
  <2> QED BY <2>1 DEF Exact
<1> QED BY <1>1 DEF EInv, IInv, LedgerTracksAlpaca

(* A step of the process that replaces one record.                         *)
LEMMA CloseUpdate ==
  ASSUME EInv, IInv', UNCHANGED <<disk, alp>>, NEW o \in Orders, NEW r,
         ord' = [ord EXCEPT ![o] = r], ClosedRec(o, r), disk.ord[o].att <= r.att
  PROVE  EInv'
<1>1. ord'[o] = r /\ \A p \in Orders \ {o} : ord'[p] = ord[p]
  BY DEF EInv, IInv, LocalOK
<1>2. Closed(ord')
  BY <1>1 DEF EInv, Closed
<1>3. Behind'
  BY <1>1 DEF EInv, Behind
<1> QED BY <1>2, <1>3 DEF EInv, Closed, ClosedRec

(* A record with the same attempts is as closed as before.                 *)
LEMMA SameAttempts ==
  ASSUME EInv, NEW o \in Orders, NEW r,
         r.took = ord[o].took, r.att = ord[o].att, r.link = ord[o].link
  PROVE  ClosedRec(o, r) /\ disk.ord[o].att <= r.att
BY DEF EInv, Closed, ClosedRec, Behind

(* Dropping a link closes the attempt when it is over and fully booked.    *)
LEMMA DropLink ==
  ASSUME EInv, NEW o \in Orders, NEW r, r.att = ord[o].att, r.link = NoLink,
         NEW l \in Attempts, l = ord[o].link,
         \A k \in Attempts : k # l => r.took[k] = ord[o].took[k],
         r.took[l] = alp[<<o, l>>].filled, alp[<<o, l>>].st \notin {"open", "transit"}
  PROVE  ClosedRec(o, r) /\ disk.ord[o].att <= r.att
BY DEF EInv, Closed, ClosedRec, Behind

(* The end of a call that keeps the attempts of its order.                 *)
LEMMA FailCloses ==
  ASSUME EInv, IInv', call # NoCall, NEW hard \in BOOLEAN, NEW r, RecOK(r),
         ClosedRec(call.o, r), disk.ord[call.o].att <= r.att,
         Fail(hard, r), UNCHANGED <<disk, alp>>
  PROVE  EInv'
<1> DEFINE o == call.o
           n == IF /\ call.kind = "exec"
                   /\ hard /\ ~Reduces(o) /\ Unfilled(o) /\ ~r.known /\ Working(o)
                  THEN [r EXCEPT !.st = "cancelled"] ELSE r
<1>1. n.took = r.took /\ n.att = r.att /\ n.link = r.link
  BY StatusChange DEF States
<1>2. ord' = [ord EXCEPT ![o] = n]
  BY DEF Fail
<1>3. o \in Orders
  BY InCall DEF EInv
<1> HIDE DEF n
<1>4. ClosedRec(o, n) /\ disk.ord[o].att <= n.att
  BY <1>1 DEF ClosedRec
<1> QED BY <1>2, <1>3, <1>4, CloseUpdate

(* Step 1 of a call: an attempt Alpaca never saw is over, with nothing filled. *)
LEMMA LookupCloses ==
  ASSUME EInv, Lookup, ~LateArrival
  PROVE  EInv'
<1>1. /\ call # NoCall /\ call.step = "lookup" /\ Environment
      /\ UNCHANGED <<pos, brk, naked, handler, waiting>>
  BY DEF Lookup, At
<1>2. IInv' /\ UNCHANGED <<disk, alp>>
  BY LookupStep DEF EInv
<1>3. /\ call.o \in Orders /\ RecOK(ord[call.o]) /\ ord[call.o] \in Order
      /\ ord[call.o].link # NoLink
  BY <1>1, InCall DEF EInv, IInv, CallOK
<1>4. CASE Exists(call.o, ord[call.o].link)
  <2> DEFINE r == [ord[call.o] EXCEPT !.known = TRUE]
  <2>1. r.took = ord[call.o].took /\ r.att = ord[call.o].att /\ r.link = ord[call.o].link
    BY <1>3, Known
  <2>2. ord' = [ord EXCEPT ![call.o] = r]
    BY <1>4 DEF Lookup
  <2> HIDE DEF r
  <2> QED BY <1>2, <1>3, <2>1, <2>2, SameAttempts, CloseUpdate
<1>5. CASE ~Exists(call.o, ord[call.o].link)
  <2> DEFINE r == [ord[call.o] EXCEPT !.link = NoLink]
             l == ord[call.o].link
  <2>1. r.took = ord[call.o].took /\ r.att = ord[call.o].att /\ r.link = NoLink
    BY <1>3, Unlinked
  <2>2. ord' = [ord EXCEPT ![call.o] = r]
    BY <1>5 DEF Lookup
  <2>3. l \in Attempts
    BY <1>3, Bound DEF Order, Attempts, NoLink
  <2>4. alp[<<call.o, l>>].st = "none" /\ alp[<<call.o, l>>].filled = 0
    <3>1. <<call.o, l>> \in Sent
      BY <1>3, <2>3 DEF Sent
    <3>2. alp[<<call.o, l>>] \in AlpacaOrder /\ alp[<<call.o, l>>].st # "transit"
      BY <3>1 DEF EInv, IInv, AlpacaOK, Lookup
    <3>3. alp[<<call.o, l>>].st = "none"
      BY <1>5, <3>2 DEF Exists, AlpacaOrder
    <3> QED BY <3>1, <3>3 DEF EInv, IInv, AlpacaOK
  <2>5. r.took[l] = 0
    BY <1>3, <2>1, <2>3, <2>4, Counts DEF EInv, IInv
  <2> HIDE DEF r
  <2>6. ClosedRec(call.o, r) /\ disk.ord[call.o].att <= r.att
    BY <1>3, <2>1, <2>3, <2>4, <2>5, DropLink
  <2> QED BY <1>2, <1>3, <2>2, <2>6, CloseUpdate
<1> QED BY <1>4, <1>5

(* The steps of a call that leave the attempts of its order as they are.   *)
LEMMA OtherTripsClose ==
  ASSUME EInv, NoAnswer \/ Gate \/ HeldCheck
  PROVE  EInv'
<1>1. call # NoCall
  BY DEF NoAnswer, Gate, HeldCheck, At
<1>2. IInv' /\ UNCHANGED <<disk, alp>>
  BY NoAnswerStep, GateStep, HeldStep DEF EInv
<1>3. call.o \in Orders /\ RecOK(ord[call.o])
  BY <1>1, InCall DEF EInv
<1>4. ClosedRec(call.o, ord[call.o]) /\ disk.ord[call.o].att <= ord[call.o].att
  BY <1>3, SameAttempts
<1>5. (\E hard \in BOOLEAN : Fail(hard, ord[call.o])) \/ UNCHANGED ord
  <2>1. (~Reduces(call.o)) \in BOOLEAN
    BY DEF Reduces
  <2> QED BY <2>1 DEF NoAnswer, Gate, HeldCheck
<1>6. CASE UNCHANGED ord
  BY <1>2, <1>6 DEF EInv, Closed, ClosedRec, Behind
<1>7. CASE \E hard \in BOOLEAN : Fail(hard, ord[call.o])
  BY <1>1, <1>2, <1>3, <1>4, <1>7, FailCloses
<1> QED BY <1>5, <1>6, <1>7

(* The linked attempt is read: closed only when Alpaca is done with it.    *)
LEMMA ReadCloses ==
  ASSUME EInv, Read
  PROVE  EInv'
<1> DEFINE o == call.o
           k == ord[o].link
           a == alp[<<o, k>>]
           r == Book(ord[o], a)
           n == a.filled - ord[o].booked
<1>1. call # NoCall /\ call.step = "read"
  BY DEF Read, At
<1>2. IInv' /\ UNCHANGED <<disk, alp>> /\ IInv
  BY ReadStep DEF EInv
<1>3. /\ call \in Calls /\ o \in Orders /\ RecOK(ord[o]) /\ ord[o] \in Order /\ k # NoLink
  BY <1>1, <1>2, InCall DEF IInv, CallOK
<1>4. k \in Attempts /\ <<o, k>> \in Sent
  BY <1>3, Bound DEF Order, Attempts, NoLink, Sent
<1>5. /\ a \in AlpacaOrder /\ a.filled \in Nat /\ ord[o].took[k] <= a.filled
      /\ ord[o].booked \in Nat /\ ord[o].took \in [Attempts -> Nat]
  BY <1>2, <1>3, <1>4, Counts DEF IInv, Order
<1>6. IsTerminal(a) => a.st \notin {"open", "transit"}
  BY DEF IsTerminal
<1>7. ASSUME n <= 0
      PROVE  ClosedRec(o, r) /\ disk.ord[o].att <= r.att /\ RecOK(r)
  <2>1. /\ RecOK(r) /\ r.took = ord[o].took /\ r.att = ord[o].att
        /\ r.link = (IF IsTerminal(a) THEN NoLink ELSE k)
        /\ IsTerminal(a) => r.took[k] = a.filled
    <3> HIDE DEF a, k, o
    <3>1. ord[o].link \in Attempts /\ a.filled - ord[o].booked <= 0
          /\ ord[o].took[ord[o].link] <= a.filled
      BY <1>4, <1>5, <1>7 DEF k
    <3> QED BY <1>3, <1>5, <3>1, ReadNothing DEF k
  <2> HIDE DEF r
  <2>2. CASE IsTerminal(a)
    BY <1>3, <1>4, <1>6, <2>1, <2>2, DropLink
  <2>3. CASE ~IsTerminal(a)
    BY <1>3, <2>1, <2>3, SameAttempts
  <2> QED BY <2>1, <2>2, <2>3
<1>8. \/ n > 0 /\ Take(o, k, n, r)
      \/ n <= 0 /\ ord' = [ord EXCEPT ![o] = r]
      \/ n <= 0 /\ Fail(call.fresh /\ a.st = "rejected", r)
  BY DEF Read
<1>9. (call.fresh /\ a.st = "rejected") \in BOOLEAN
  BY <1>3 DEF Calls
<1>10. CASE n > 0 /\ Take(o, k, n, r)
  <2>1. n \in Int
    BY <1>5
  <2>2. PICK st \in States, m \in Int : ord' = [ord EXCEPT ![o] = Booked(ord[o], a, k, n, st, m)]
    BY <1>3, <1>10, <2>1, TakeRecord
  <2> DEFINE b == Booked(ord[o], a, k, n, st, m)
  <2>3. /\ b.took = [ord[o].took EXCEPT ![k] = a.filled]
        /\ b.link = (IF IsTerminal(a) THEN NoLink ELSE k) /\ b.att = ord[o].att
    BY <1>3, <1>4, <1>5, <1>10, ReadFill
  <2> HIDE DEF b
  <2>4. b.took[k] = a.filled /\ \A j \in Attempts : j # k => b.took[j] = ord[o].took[j]
    BY <1>4, <1>5, <2>3
  <2>5. ClosedRec(o, b) /\ disk.ord[o].att <= b.att
    <3>1. CASE IsTerminal(a)
      BY <1>3, <1>4, <1>6, <2>3, <2>4, <3>1, DropLink
    <3>2. CASE ~IsTerminal(a)
      BY <1>3, <2>3, <2>4, <3>2 DEF EInv, Closed, ClosedRec, Behind
    <3> QED BY <3>1, <3>2
  <2> QED BY <1>2, <1>3, <2>2, <2>5, CloseUpdate DEF b
<1>11. CASE n <= 0 /\ ord' = [ord EXCEPT ![o] = r]
  BY <1>2, <1>3, <1>7, <1>11, CloseUpdate
<1>12. CASE n <= 0 /\ Fail(call.fresh /\ a.st = "rejected", r)
  BY <1>1, <1>2, <1>7, <1>9, <1>12, FailCloses
<1> QED BY <1>8, <1>10, <1>11, <1>12

(* The next attempt is numbered while none is linked, so the ones before   *)
(* it stay closed, in the checkpoint too; it may already exist.            *)
LEMMA PostCloses ==
  ASSUME EInv, Post
  PROVE  EInv'
<1> DEFINE o == call.o
           k == ord[o].att + 1
           r == [ord[o] EXCEPT !.att = k, !.link = k, !.known = FALSE, !.booked = 0]
<1>1. call # NoCall /\ call.step = "post" /\ Environment
  BY DEF Post, At
<1>2. IInv' /\ IInv /\ UNCHANGED disk
  BY PostStep DEF EInv
<1>3. /\ call \in Calls /\ o \in Orders /\ RecOK(ord[o]) /\ ord[o] \in Order
      /\ ord[o].att < MaxAttempt /\ ord[o].link = NoLink
  BY <1>1, <1>2, InCall DEF IInv, CallOK
<1>4. /\ RecOK(r) /\ k \in Attempts /\ r.took = ord[o].took /\ r.link = k /\ r.att = k
      /\ ord[o].att \in Nat
  <2>1. k = ord[o].att + 1
    OBVIOUS
  <2>2. r = Numbered(ord[o])
    BY DEF Numbered
  <2>3. ord[o].att \in Nat
    BY <1>3, Bound DEF Order
  <2> HIDE DEF r, k, o
  <2> QED BY <1>3, <2>1, <2>2, <2>3, NextAttempt
<1>5. \A s \in Sent \ {<<o, k>>} : alp'[s] = alp[s]
  <2>1. CASE UNCHANGED alp
    BY <2>1
  <2>2. ASSUME NEW st \in {"open", "transit"}, Place(o, k, st, call.q)
        PROVE  \A s \in Sent \ {<<o, k>>} : alp'[s] = alp[s]
    <3> HIDE DEF o, k
    <3>1. alp \in [Sent -> AlpacaOrder]
      BY <1>2 DEF IInv, AlpacaOK
    <3> QED BY <2>2, <3>1 DEF Place
  <2>3. UNCHANGED alp \/ Place(o, k, "open", call.q) \/ Place(o, k, "transit", call.q)
    BY DEF Post
  <2> QED BY <2>1, <2>2, <2>3
<1>6. ord'[o].att = k /\ ord'[o].link = k /\ ord'[o].took = ord[o].took
      /\ \A p \in Orders \ {o} : ord'[p] = ord[p]
  <2>1. \/ ord' = [ord EXCEPT ![o] = r]
        \/ \E hard \in BOOLEAN : Fail(hard, r)
    BY DEF Post
  <2>2. \E st \in States : ord' = [ord EXCEPT ![o] = [r EXCEPT !.st = st]]
    <3>1. r.st \in States /\ r = [r EXCEPT !.st = r.st]
      <4> HIDE DEF r
      <4> QED BY <1>4 DEF RecOK, Order, States
    <3> HIDE DEF r
    <3>2. CASE ord' = [ord EXCEPT ![o] = r]
      BY <3>1, <3>2
    <3>3. ASSUME NEW hard \in BOOLEAN, Fail(hard, r)
          PROVE  \E st \in States : ord' = [ord EXCEPT ![o] = [r EXCEPT !.st = st]]
      <4>1. \/ ord' = [ord EXCEPT ![o] = [r EXCEPT !.st = "cancelled"]]
            \/ ord' = [ord EXCEPT ![o] = r]
        BY <3>3 DEF Fail
      <4>2. "cancelled" \in States
        BY DEF States
      <4> QED BY <3>1, <4>1, <4>2
    <3> QED BY <2>1, <3>2, <3>3
  <2>3. PICK st \in States : ord' = [ord EXCEPT ![o] = [r EXCEPT !.st = st]]
    BY <2>2
  <2> HIDE DEF r, k, o
  <2>4. /\ [r EXCEPT !.st = st].took = r.took /\ [r EXCEPT !.st = st].link = r.link
        /\ [r EXCEPT !.st = st].att = r.att
    BY <1>4, StatusChange
  <2>5. ord \in [Orders -> Order]
    BY <1>2 DEF IInv, LocalOK
  <2> QED BY <1>3, <1>4, <2>3, <2>4, <2>5
<1> HIDE DEF r, k
<1>7. k = ord[o].att + 1
  BY DEF k
<1> HIDE DEF o
<1>8. Closed(ord)'
  <2> SUFFICES ASSUME NEW p \in Orders, NEW j \in Attempts, j <= ord'[p].att, j # ord'[p].link
               PROVE  ord'[p].took[j] = alp'[<<p, j>>].filled
                      /\ alp'[<<p, j>>].st \notin {"open", "transit"}
    BY DEF Closed, ClosedRec
  <2>1. <<p, j>> \in Sent /\ <<p, j>> # <<o, k>>
    BY <1>6 DEF Sent
  <2>2. j <= ord[p].att /\ j # ord[p].link /\ ord'[p].took = ord[p].took
    <3>1. CASE p = o
      BY <1>3, <1>4, <1>6, <1>7, <3>1 DEF Attempts, NoLink
    <3>2. CASE p # o
      BY <1>6, <3>2
    <3> QED BY <3>1, <3>2
  <2> QED BY <1>5, <2>1, <2>2 DEF EInv, Closed, ClosedRec
<1>9. Closed(disk.ord)'
  <2> SUFFICES ASSUME NEW p \in Orders, NEW j \in Attempts,
                      j <= disk.ord[p].att, j # disk.ord[p].link
               PROVE  disk.ord[p].took[j] = alp'[<<p, j>>].filled
                      /\ alp'[<<p, j>>].st \notin {"open", "transit"}
    BY <1>2 DEF Closed, ClosedRec
  <2>1. disk.ord[o].att <= ord[o].att /\ disk.ord[o].att \in Nat
    <3>1. disk.ord[o] \in Order
      BY <1>2, <1>3 DEF IInv, Books, Remembers, RecOK
    <3> QED BY <1>3, <3>1, Bound DEF EInv, Behind, Order
  <2>2. <<p, j>> \in Sent /\ <<p, j>> # <<o, k>>
    BY <1>4, <1>7, <2>1 DEF Sent, Attempts
  <2> QED BY <1>5, <2>2 DEF EInv, Closed, ClosedRec
<1>10. Behind'
  <2> SUFFICES ASSUME NEW p \in Orders PROVE disk.ord[p].att <= ord'[p].att
    BY <1>2 DEF Behind
  <2>1. disk.ord[p].att <= ord[p].att /\ disk.ord[p] \in Order
    BY <1>2 DEF EInv, Behind, IInv, Books, Remembers, RecOK
  <2>2. CASE p = o
    BY <1>4, <1>6, <1>7, <2>1, <2>2, Bound DEF Order
  <2>3. CASE p # o
    BY <1>6, <2>1, <2>3
  <2> QED BY <2>2, <2>3
<1> QED BY <1>2, <1>5, <1>8, <1>9, <1>10 DEF EInv

(* A new order has no attempt to close; a cancelled one keeps its own.     *)
LEMMA HandlersClose ==
  ASSUME EInv, NEW o \in Orders,
         \/ /\ \E q \in Sizes : Accept(o, q)
            /\ brk' \in [Entries -> {"none", "pending", "active", "released"}]
         \/ CancelLocal(o)
         \/ StartExec(o) \/ StartSettle(o)
  PROVE  EInv'
<1>1. ASSUME NEW q \in Sizes, Accept(o, q),
             brk' \in [Entries -> {"none", "pending", "active", "released"}]
      PROVE  EInv'
  <2> DEFINE r == [NoOrder EXCEPT !.st = "accepted", !.rem = q]
  <2>1. IInv' /\ UNCHANGED <<disk, alp>> /\ disk.ord[o] = NoOrder
    BY <1>1, AcceptStep DEF Accept, EInv, IInv, UsedOK
  <2>2. r.att = 0 /\ NoOrder.att = 0
    BY DEF NoOrder
  <2>3. ord' = [ord EXCEPT ![o] = r]
    BY <1>1 DEF Accept
  <2> HIDE DEF r
  <2>4. ClosedRec(o, r) /\ disk.ord[o].att <= r.att
    BY <2>1, <2>2 DEF ClosedRec, Attempts
  <2> QED BY <2>1, <2>3, <2>4, CloseUpdate
<1>2. CASE CancelLocal(o)
  <2> DEFINE r == [ord[o] EXCEPT !.st = "cancelled"]
  <2>1. IInv' /\ UNCHANGED <<disk, alp>> /\ RecOK(ord[o])
    BY <1>2, CancelStep DEF EInv, IInv, Books, Remembers
  <2>2. r.took = ord[o].took /\ r.att = ord[o].att /\ r.link = ord[o].link
    BY <2>1, StatusChange DEF States
  <2>3. ord' = [ord EXCEPT ![o] = r]
    BY <1>2 DEF CancelLocal
  <2> HIDE DEF r
  <2> QED BY <2>1, <2>2, <2>3, SameAttempts, CloseUpdate
<1>3. CASE StartExec(o) \/ StartSettle(o)
  <2>1. IInv' /\ UNCHANGED <<ord, disk, alp>>
    BY <1>3, StartStep DEF StartExec, StartSettle, EInv
  <2> QED BY <2>1 DEF EInv, Closed, ClosedRec, Behind
<1> QED BY <1>1, <1>2, <1>3

(* The checkpoint becomes the books, or the books become the checkpoint.   *)
LEMMA SavesClose ==
  ASSUME EInv, EndHandler \/ Crash \/ BackoffOver \/ Sync \/ Compare
  PROVE  EInv'
<1>1. CASE EndHandler
  <2>1. IInv' /\ UNCHANGED <<ord, alp>> /\ (disk' = disk \/ disk'.ord = ord)
    BY <1>1, EndHandlerStep DEF EInv
  <2>2. \A o \in Orders : ord[o].att <= ord[o].att
    <3>1. \A o \in Orders : ord[o].att \in Int
      BY Bound DEF EInv, IInv, LocalOK, Order
    <3> QED BY <3>1
  <2> QED BY <2>1, <2>2 DEF EInv, Closed, ClosedRec, Behind
<1>2. CASE Crash
  <2>1. IInv' /\ ord' = disk.ord /\ UNCHANGED <<disk, alp>>
    BY <1>2, CrashStep DEF EInv
  <2>2. \A o \in Orders : disk.ord[o].att <= disk.ord[o].att
    <3>1. \A o \in Orders : disk.ord[o].att \in Int
      BY Bound DEF EInv, IInv, Books, Remembers, RecOK, Order
    <3> QED BY <3>1
  <2> QED BY <2>1, <2>2 DEF EInv, Closed, ClosedRec, Behind
<1>3. CASE BackoffOver \/ Sync \/ Compare
  <2>1. IInv' /\ UNCHANGED <<ord, disk, alp>>
    BY <1>3, QuietStep DEF EInv
  <2> QED BY <2>1 DEF EInv, Closed, ClosedRec, Behind
<1> QED BY <1>1, <1>2, <1>3

(* Alpaca only changes orders that are open, which no closed attempt is.   *)
LEMMA AlpacaCloses ==
  ASSUME EInv, Alpaca
  PROVE  EInv'
<1>1. PICK o \in Orders, k \in Attempts :
        \/ \E n \in 1 .. alp[<<o, k>>].qty : AlpacaFills(o, k, n)
        \/ AlpacaCancels(o, k) \/ AlpacaRejects(o, k) \/ Arrives(o, k)
  BY DEF Alpaca
<1>2. /\ IInv' /\ UNCHANGED <<ord, disk>>
      /\ \A s \in Sent \ {<<o, k>>} : alp'[s] = alp[s]
      /\ alp'[<<o, k>>].filled # alp[<<o, k>>].filled => alp[<<o, k>>].st = "open"
      /\ alp'[<<o, k>>].st \in {"open", "transit"} => alp[<<o, k>>].st \in {"open", "transit"}
  BY <1>1, AlpacaStep DEF EInv
<1>3. \A s \in Sent : alp[s].st \notin {"open", "transit"} =>
        alp'[s].filled = alp[s].filled /\ alp'[s].st \notin {"open", "transit"}
  BY <1>2
<1>4. \A p \in Orders, j \in Attempts : <<p, j>> \in Sent
  BY DEF Sent
<1>5. Closed(ord)' /\ Closed(disk.ord)'
  BY <1>2, <1>3, <1>4 DEF EInv, Closed, ClosedRec
<1>6. Behind'
  BY <1>2 DEF EInv, Behind
<1> QED BY <1>2, <1>5, <1>6 DEF EInv

(* Every step keeps the attempts closed.                                   *)
LEMMA StepCloses ==
  ASSUME ~LateArrival, EInv, [Next]_vars
  PROVE  EInv'
<1>1. ASSUME NEW e \in Entries, NEW q \in Sizes, NewEntry(e, q) PROVE EInv'
  <2>1. e \in Orders /\ Accept(e, q) /\ brk' = [brk EXCEPT ![e] = "pending"]
    BY <1>1 DEF Orders, NewEntry
  <2>2. brk' \in [Entries -> {"none", "pending", "active", "released"}]
    BY <2>1 DEF EInv, IInv, LocalOK
  <2> QED BY <2>1, <2>2, HandlersClose
<1>2. ASSUME NEW x \in Exits, NEW q \in Sizes, NewExit(x, q) PROVE EInv'
  <2>1. x \in Orders /\ Accept(x, q) /\ brk' = brk
    BY <1>2 DEF Orders, NewExit
  <2>2. brk' \in [Entries -> {"none", "pending", "active", "released"}]
    BY <2>1 DEF EInv, IInv, LocalOK
  <2> QED BY <2>1, <2>2, HandlersClose
<1>3. CASE Handlers
  BY <1>1, <1>2, <1>3, HandlersClose, SavesClose DEF Handlers
<1>4. CASE RoundTrip
  BY <1>4, LookupCloses, OtherTripsClose, ReadCloses, PostCloses DEF RoundTrip
<1>5. CASE Alpaca
  BY <1>5, AlpacaCloses
<1>6. CASE BackoffOver \/ Sync \/ Compare \/ Crash
  BY <1>6, SavesClose
<1>7. CASE UNCHANGED vars
  <2>1. IInv' /\ UNCHANGED <<ord, disk, alp>>
    BY <1>7, StepInv DEF EInv, vars
  <2> QED BY <2>1 DEF EInv, Closed, ClosedRec, Behind
<1> QED BY <1>3, <1>4, <1>5, <1>6, <1>7 DEF Next

(* LedgerTracksAlpaca for every choice of the other constants: unless a    *)
(* POST arrives after the bot looked for it, neither crashes nor lost      *)
(* answers lose or double a share.                                         *)
THEOREM LedgerExact ==
  ASSUME ~LateArrival
  PROVE  Spec => []LedgerTracksAlpaca
<1>1. Init => EInv
  <2> SUFFICES ASSUME Init PROVE EInv
    OBVIOUS
  <2>1. IInv
    BY InitInv
  <2>2. \A o \in Orders : ord[o].att = 0 /\ disk.ord[o].att = 0
    BY DEF Init, Snapshot, NoOrder
  <2>3. Closed(ord) /\ Closed(disk.ord) /\ Behind
    BY <2>2 DEF Closed, ClosedRec, Behind, Attempts
  <2> QED BY <2>1, <2>3 DEF EInv
<1>2. EInv /\ [Next]_vars => EInv'
  BY StepCloses
<1>3. EInv => LedgerTracksAlpaca
  BY ExactFromInv
<1> QED BY <1>1, <1>2, <1>3, PTL DEF Spec

-----------------------------------------------------------------------------
(***************************************************************************)
(* One local order never has two orders at Alpaca that can still fill,     *)
(* proved for every set of orders, every size, every number of attempts,   *)
(* with and without crashes, as long as no POST arrives after the bot has  *)
(* looked for it.                                                          *)
(*                                                                         *)
(* OneLiveOrder is not inductive: a crash takes the bot back to a          *)
(* checkpoint that does not know the last attempts, and it then numbers    *)
(* them again.  What saves it is that the client ids are the same: Alpaca  *)
(* knows every attempt between the checkpoint and one that is alive, so    *)
(* the POST of such an id is answered with the order that exists.  An      *)
(* attempt Alpaca does not know is always saved before the order is tried  *)
(* again, because its symbol backs off until the handler has ended.        *)
(***************************************************************************)

(* Alpaca may still fill it, or may still receive it.                      *)
Alive(o, j) == alp[<<o, j>>].st \in {"open", "transit"}

Single == \A o \in Orders : \A j, k \in Attempts : Alive(o, j) /\ Alive(o, k) => j = k

(* Alpaca knows every attempt after the last one of the book and before    *)
(* one that is alive.                                                      *)
Seamless(orders) ==
  \A o \in Orders, k \in Attempts : Alive(o, k) =>
    \A j \in Attempts : orders[o].att < j /\ j < k => Exists(o, j)

(* An attempt the checkpoint has not, and Alpaca neither.                  *)
Lost(o, j) == disk.ord[o].att < j /\ j <= ord[o].att /\ ~Exists(o, j)

(* The handler that lost it goes on, but not with that order.              *)
SetAside(o) ==
  /\ handler = "work"
  /\ call = NoCall \/ call.o # o
  /\ waiting \/ ~Working(o)

LostOnesWait == \A o \in Orders, j \in Attempts : Lost(o, j) => SetAside(o)

(* A call to send an order belongs to a handler, one to settle does not.   *)
KindOK == call # NoCall => (call.kind = "exec" <=> handler = "work")

LInv == EInv /\ Single /\ Seamless(ord) /\ Seamless(disk.ord) /\ LostOnesWait /\ KindOK

-----------------------------------------------------------------------------
(* Two kinds of steps.                                                     *)

(* The attempts of both books are numbers.                                 *)
LEMMA Numbers ==
  ASSUME EInv, NEW o \in Orders
  PROVE  /\ ord[o] \in Order /\ disk.ord[o] \in Order
         /\ ord[o].att \in Nat /\ disk.ord[o].att \in Nat
         /\ disk.ord[o].att <= ord[o].att
<1>1. ord[o] \in Order /\ disk.ord[o] \in Order
  BY DEF EInv, IInv, Books, Remembers, RecOK
<1>2. ord[o].att \in Nat /\ disk.ord[o].att \in Nat
  BY <1>1, Bound DEF Order
<1> QED BY <1>1, <1>2 DEF EInv, Behind

(* Alpaca as it was, no attempt forgotten: at most one is alive, and the   *)
(* attempts between are known, as before.                                  *)
LEMMA AlpacaStays ==
  ASSUME LInv, EInv', UNCHANGED alp, \A o \in Orders : ord'[o].att >= ord[o].att,
         disk'.ord \in {disk.ord, ord}
  PROVE  Single' /\ Seamless(ord)' /\ Seamless(disk.ord)'
<1>1. \A o \in Orders, j \in Attempts : (Alive(o, j)' <=> Alive(o, j)) /\ (Exists(o, j)' <=> Exists(o, j))
  BY DEF Alive, Exists
<1>2. Single'
  BY <1>1 DEF LInv, Single
<1>3. Seamless(ord)'
  <2> SUFFICES ASSUME NEW o \in Orders, NEW k \in Attempts, Alive(o, k),
                      NEW j \in Attempts, ord'[o].att < j, j < k
               PROVE  Exists(o, j)
    BY <1>1 DEF Seamless
  <2>1. ord[o].att \in Nat /\ ord'[o].att \in Nat
    BY Numbers DEF LInv, EInv, IInv, LocalOK, Order
  <2>2. ord[o].att < j
    BY <2>1 DEF Attempts
  <2> QED BY <2>2 DEF LInv, Seamless
<1>4. Seamless(disk.ord)'
  BY <1>1 DEF LInv, Seamless
<1> QED BY <1>2, <1>3, <1>4

(* Neither Alpaca nor the attempts change: what was lost still waits.      *)
LEMMA StillAside ==
  ASSUME LInv, UNCHANGED <<alp, disk>>, \A o \in Orders : ord'[o].att = ord[o].att,
         \A o \in Orders, j \in Attempts : Lost(o, j) => SetAside(o)'
  PROVE  LostOnesWait'
BY DEF LostOnesWait, Lost, Exists

(* A handler's own steps, apart from those that talk to Alpaca.            *)
LEMMA HandlersAlive ==
  ASSUME LInv, EInv', Handlers
  PROVE  LInv'
<1>1. ASSUME NEW o \in Orders, NEW q \in Sizes, Accept(o, q)
      PROVE  LInv'
  <2> DEFINE r == [NoOrder EXCEPT !.st = "accepted", !.rem = q]
  <2>1. /\ UNCHANGED <<alp, disk, waiting, call>> /\ ord' = [ord EXCEPT ![o] = r]
        /\ call = NoCall /\ handler' = "work" /\ ord[o] = NoOrder /\ disk.ord[o] = NoOrder
    BY <1>1 DEF Accept, Serving, LInv, EInv, IInv, UsedOK
  <2>2. r.att = 0 /\ NoOrder.att = 0
    BY DEF NoOrder
  <2> HIDE DEF r
  <2>3. ord'[o] = r /\ \A p \in Orders \ {o} : ord'[p] = ord[p]
    BY <2>1 DEF LInv, EInv, IInv, LocalOK
  <2>4. \A p \in Orders : ord'[p].att = ord[p].att
    BY <2>1, <2>2, <2>3
  <2>5. \A p \in Orders, j \in Attempts : Lost(p, j) => SetAside(p)'
    <3> SUFFICES ASSUME NEW p \in Orders, NEW j \in Attempts, Lost(p, j) PROVE SetAside(p)'
      OBVIOUS
    <3>1. p # o
      BY <2>1, <2>2 DEF Lost, Attempts
    <3>2. SetAside(p)
      BY DEF LInv, LostOnesWait
    <3> QED BY <2>1, <2>3, <3>1, <3>2 DEF SetAside, Working
  <2>6. LostOnesWait'
    BY <2>1, <2>4, <2>5, StillAside
  <2>7. Single' /\ Seamless(ord)' /\ Seamless(disk.ord)'
    <3>1. \A p \in Orders : ord'[p].att >= ord[p].att
      BY <2>4, Numbers DEF LInv
    <3> QED BY <2>1, <3>1, AlpacaStays
  <2> QED BY <2>1, <2>6, <2>7 DEF LInv, KindOK
<1>2. ASSUME NEW o \in Orders, CancelLocal(o)
      PROVE  LInv'
  <2> DEFINE r == [ord[o] EXCEPT !.st = "cancelled"]
  <2>1. /\ UNCHANGED <<alp, disk, waiting, call>> /\ ord' = [ord EXCEPT ![o] = r]
        /\ call = NoCall /\ handler' = "work"
    BY <1>2 DEF CancelLocal, Serving
  <2>2. r.att = ord[o].att /\ r.st = "cancelled"
    BY Numbers DEF LInv, Order
  <2> HIDE DEF r
  <2>3. ord'[o] = r /\ \A p \in Orders \ {o} : ord'[p] = ord[p]
    BY <2>1 DEF LInv, EInv, IInv, LocalOK
  <2>4. \A p \in Orders : ord'[p].att = ord[p].att
    BY <2>2, <2>3
  <2>5. \A p \in Orders, j \in Attempts : Lost(p, j) => SetAside(p)'
    BY <2>1, <2>2, <2>3 DEF LInv, LostOnesWait, SetAside, Working
  <2>6. LostOnesWait'
    BY <2>1, <2>4, <2>5, StillAside
  <2>7. Single' /\ Seamless(ord)' /\ Seamless(disk.ord)'
    <3>1. \A p \in Orders : ord'[p].att >= ord[p].att
      BY <2>4, Numbers DEF LInv
    <3> QED BY <2>1, <3>1, AlpacaStays
  <2> QED BY <2>1, <2>6, <2>7 DEF LInv, KindOK
<1>3. ASSUME NEW o \in Orders, StartExec(o) \/ StartSettle(o)
      PROVE  LInv'
  <2>1. UNCHANGED <<alp, disk, ord, waiting>> /\ call = NoCall /\ call' # NoCall /\ call'.o = o
    BY <1>3 DEF StartExec, StartSettle, Serving, Call, NoCall
  <2>2. Single' /\ Seamless(ord)' /\ Seamless(disk.ord)'
    <3>1. \A p \in Orders : ord'[p].att >= ord[p].att
      BY <2>1, Numbers DEF LInv
    <3> QED BY <2>1, <3>1, AlpacaStays
  <2>3. CASE StartExec(o)
    <3>1. ~waiting /\ Working(o) /\ handler' = "work" /\ call'.kind = "exec"
      BY <2>3 DEF StartExec, Call
    <3>2. ASSUME NEW p \in Orders, NEW j \in Attempts, Lost(p, j) PROVE SetAside(p)'
      <4>1. SetAside(p)
        BY <3>2 DEF LInv, LostOnesWait
      <4>2. p # o
        BY <3>1, <4>1 DEF SetAside
      <4> QED BY <2>1, <3>1, <4>1, <4>2 DEF SetAside, Working
    <3>3. LostOnesWait'
      BY <2>1, <3>2, StillAside
    <3> QED BY <2>2, <3>1, <3>3 DEF LInv, KindOK
  <2>4. CASE StartSettle(o)
    <3>1. handler # "work" /\ handler' # "work" /\ call'.kind = "settle"
      BY <2>4 DEF StartSettle, Call
    <3>2. LostOnesWait'
      BY <2>1, <3>1, StillAside DEF LInv, LostOnesWait, SetAside
    <3> QED BY <2>2, <3>1, <3>2 DEF LInv, KindOK
  <2> QED BY <1>3, <2>3, <2>4
<1>4. CASE EndHandler
  <2>1. UNCHANGED <<alp, ord, call>> /\ call = NoCall
    BY <1>4 DEF EndHandler
  <2>2. \/ handler # "work" /\ disk' = disk
        \/ disk'.ord = ord
    BY <1>4 DEF EndHandler, Snapshot
  <2>3. Single' /\ Seamless(ord)' /\ Seamless(disk.ord)'
    <3>1. \A p \in Orders : ord'[p].att >= ord[p].att
      BY <2>1, Numbers DEF LInv
    <3> QED BY <2>1, <2>2, <3>1, AlpacaStays
  <2>4. LostOnesWait'
    <3>1. CASE handler # "work" /\ disk' = disk
      BY <2>1, <3>1, StillAside DEF LInv, LostOnesWait, SetAside
    <3>2. CASE disk'.ord = ord
      <4>1. \A p \in Orders, j \in Attempts : ~(ord[p].att < j /\ j <= ord[p].att)
        BY Numbers DEF LInv, Attempts
      <4> QED BY <2>1, <3>2, <4>1 DEF LostOnesWait, Lost
    <3> QED BY <2>2, <3>1, <3>2
  <2> QED BY <2>1, <2>3, <2>4 DEF LInv, KindOK
<1> QED BY <1>1, <1>2, <1>3, <1>4 DEF Handlers, NewEntry, NewExit, Orders

-----------------------------------------------------------------------------
(* The round trips of a call.                                              *)

(* A call that fails leaves the attempts of the order it was given.        *)
LEMMA FailSame ==
  ASSUME EInv, call # NoCall, NEW hard \in BOOLEAN, NEW r \in Order, Fail(hard, r)
  PROVE  /\ call' = NoCall /\ handler' = handler /\ (waiting => waiting')
         /\ ord'[call.o].att = r.att
         /\ \A p \in Orders \ {call.o} : ord'[p] = ord[p]
         /\ call.kind = "exec" => waiting' \/ ord'[call.o].st = "cancelled"
<1>1. call.o \in Orders /\ ord \in [Orders -> Order]
  BY InCall DEF EInv, IInv, LocalOK
<1>2. \/ ord' = [ord EXCEPT ![call.o] = r] /\ (call.kind = "exec" => waiting')
      \/ ord' = [ord EXCEPT ![call.o] = [r EXCEPT !.st = "cancelled"]]
  BY DEF Fail
<1>3. [r EXCEPT !.st = "cancelled"].att = r.att /\ [r EXCEPT !.st = "cancelled"].st = "cancelled"
  BY DEF Order
<1>4. call' = NoCall /\ handler' = handler /\ (waiting => waiting')
  BY DEF Fail
<1> QED BY <1>1, <1>2, <1>3, <1>4

(* What a round trip other than the POST may change.                       *)
Trip ==
  /\ UNCHANGED <<alp, disk>>
  /\ \A p \in Orders : ord'[p].att = ord[p].att
  /\ \A p \in Orders \ {call.o} : ord'[p] = ord[p]
  /\ waiting => waiting'
  /\ \/ call' = NoCall
     \/ call' # NoCall /\ call'.o = call.o /\ call'.kind = call.kind /\ handler' = handler
  /\ handler' = handler \/ call.kind = "settle"

(* Such a step cannot bring back an attempt that was lost.                 *)
LEMMA TripAlive ==
  ASSUME LInv, EInv', call # NoCall, Trip
  PROVE  LInv'
<1>1. \A p \in Orders : ord'[p].att >= ord[p].att
  BY Numbers DEF LInv, Trip
<1>2. Single' /\ Seamless(ord)' /\ Seamless(disk.ord)'
  BY <1>1, AlpacaStays DEF Trip
<1>3. ASSUME NEW p \in Orders, NEW j \in Attempts, Lost(p, j) PROVE SetAside(p)'
  <2>1. SetAside(p)
    BY <1>3 DEF LInv, LostOnesWait
  <2>2. p # call.o /\ handler = "work"
    BY <2>1 DEF SetAside
  <2>3. handler' = handler
    BY <2>2 DEF LInv, KindOK, Trip
  <2> QED BY <2>1, <2>2, <2>3 DEF Trip, SetAside, Working
<1>4. LostOnesWait'
  BY <1>3, StillAside DEF Trip
<1>5. KindOK'
  BY DEF LInv, KindOK, Trip
<1> QED BY <1>2, <1>4, <1>5 DEF LInv

(* The lookup and the read leave the attempts as they are.                 *)
LEMMA TripsAreTrips ==
  ASSUME EInv, Lookup \/ NoAnswer \/ Read \/ Gate \/ HeldCheck
  PROVE  call # NoCall /\ Trip
<1>1. call # NoCall /\ UNCHANGED <<alp, disk>>
  BY DEF Lookup, NoAnswer, Read, Gate, HeldCheck, At, AlpacaSame, Environment
<1> SUFFICES Trip
  BY <1>1
<1>2. /\ call \in Calls /\ call.o \in Orders /\ ord[call.o] \in Order
      /\ ord \in [Orders -> Order]
  BY <1>1, InCall DEF EInv, IInv, LocalOK, Books, Remembers, RecOK
<1>3. ASSUME NEW hard \in BOOLEAN, NEW r \in Order, Fail(hard, r), r.att = ord[call.o].att
      PROVE  Trip
  <2>1. \A p \in Orders : ord'[p].att = ord[p].att
    BY <1>1, <1>2, <1>3, FailSame
  <2> QED BY <1>1, <1>3, <2>1, FailSame DEF Trip
<1>4. ASSUME \A p \in Orders : ord'[p].att = ord[p].att,
             \A p \in Orders \ {call.o} : ord'[p] = ord[p], waiting' = waiting, handler' = handler,
             call' = NoCall \/ (call'.o = call.o /\ call'.kind = call.kind)
      PROVE  Trip
  <2>1. \/ call' = NoCall
        \/ call' # NoCall /\ call'.o = call.o /\ call'.kind = call.kind /\ handler' = handler
    BY <1>4
  <2> QED BY <1>1, <1>4, <2>1 DEF Trip
<1>5. CASE Lookup
  <2> DEFINE k == [ord[call.o] EXCEPT !.known = TRUE]
             u == [ord[call.o] EXCEPT !.link = NoLink]
  <2>1. k.att = ord[call.o].att /\ u.att = ord[call.o].att
    BY <1>2 DEF Order
  <2>2. \E r \in {k, u} : ord' = [ord EXCEPT ![call.o] = r]
    BY <1>5 DEF Lookup
  <2> HIDE DEF k, u
  <2>3. \A p \in Orders : ord'[p].att = ord[p].att
    BY <1>2, <2>1, <2>2
  <2>4. \A p \in Orders \ {call.o} : ord'[p] = ord[p]
    BY <1>2, <2>2
  <2>5. UNCHANGED <<handler, waiting>>
    BY <1>5 DEF Lookup
  <2>6. call' = NoCall \/ \E s \in {"read", "gate"} : call' = [call EXCEPT !.step = s]
    BY <1>5 DEF Lookup
  <2>7. call' = NoCall \/ (call'.o = call.o /\ call'.kind = call.kind)
    BY <1>2, <2>6 DEF Calls
  <2> QED BY <1>4, <2>3, <2>4, <2>5, <2>7
<1>6. CASE NoAnswer
  BY <1>2, <1>3, <1>6 DEF NoAnswer
<1>7. CASE Gate \/ HeldCheck
  <2>1. \/ \E hard \in BOOLEAN : Fail(hard, ord[call.o])
        \/ /\ UNCHANGED <<ord, handler, waiting>>
           /\ \E s \in {"held", "post"} : \E q : call' = [call EXCEPT !.step = s, !.q = q]
    <3>1. (~Reduces(call.o)) \in BOOLEAN
      BY DEF Reduces
    <3> QED BY <1>7, <3>1 DEF Gate, HeldCheck
  <2>2. ASSUME NEW s, NEW q, call' = [call EXCEPT !.step = s, !.q = q]
        PROVE  call'.o = call.o /\ call'.kind = call.kind
    BY <1>2, <2>2 DEF Calls
  <2>3. CASE \E hard \in BOOLEAN : Fail(hard, ord[call.o])
    BY <1>2, <1>3, <2>3
  <2>4. CASE /\ UNCHANGED <<ord, handler, waiting>>
             /\ \E s \in {"held", "post"} : \E q : call' = [call EXCEPT !.step = s, !.q = q]
    BY <1>4, <2>2, <2>4
  <2> QED BY <2>1, <2>3, <2>4
<1>8. CASE Read
  <2> DEFINE o == call.o
             k == ord[o].link
             a == alp[<<o, k>>]
             r == Book(ord[o], a)
             n == a.filled - ord[o].booked
  <2>1. k \in Attempts /\ a \in AlpacaOrder
    <3>1. k # NoLink
      BY <1>8 DEF Read, At, EInv, IInv, CallOK
    <3>2. k \in Attempts
      BY <1>2, <3>1, Bound DEF Order, Attempts, NoLink
    <3> QED BY <1>2, <3>2, Counts DEF EInv, IInv
  <2>2. r \in Order /\ r.att = ord[o].att
    <3>1. CASE IsTerminal(a)
      BY <1>2, <3>1, Cleared DEF EInv, IInv, Books, Remembers
    <3>2. CASE ~IsTerminal(a)
      BY <1>2, <2>1, <3>2 DEF Book, Order, AlpacaOrder
    <3> QED BY <3>1, <3>2
  <2>3. \/ Take(o, k, n, r)
        \/ /\ ord' = [ord EXCEPT ![o] = r] /\ call' = [call EXCEPT !.step = "gate"]
           /\ UNCHANGED <<handler, waiting>>
        \/ Fail(call.fresh /\ a.st = "rejected", r)
    BY <1>8 DEF Read
  <2>4. CASE Take(o, k, n, r)
    <3> HIDE DEF r, n, a, k, o
    <3>1. \E st, m, j, t : ord' = [ord EXCEPT ![o] = [r EXCEPT !.st = st, !.rem = m, !.took[j] = t]]
      BY <2>2, <2>4 DEF Take, Order
    <3>2. ASSUME NEW st, NEW m, NEW j, NEW t
          PROVE  [r EXCEPT !.st = st, !.rem = m, !.took[j] = t].att = r.att
      BY <2>2 DEF Order
    <3>6. PICK st, m, j, t : ord' = [ord EXCEPT ![o] = [r EXCEPT !.st = st, !.rem = m, !.took[j] = t]]
      BY <3>1
    <3> DEFINE v == [r EXCEPT !.st = st, !.rem = m, !.took[j] = t]
    <3>3. ord' = [ord EXCEPT ![o] = v] /\ v.att = r.att
      BY <3>2, <3>6
    <3> HIDE DEF v
    <3>4. o \in Orders /\ o = call.o
      BY <1>2 DEF o
    <3>5. /\ \A p \in Orders : ord'[p].att = ord[p].att
          /\ \A p \in Orders \ {o} : ord'[p] = ord[p]
      BY <1>2, <2>2, <3>3, <3>4
    <3> QED BY <1>1, <2>4, <3>4, <3>5 DEF Take, Trip
  <2>5. CASE /\ ord' = [ord EXCEPT ![o] = r] /\ call' = [call EXCEPT !.step = "gate"]
             /\ UNCHANGED <<handler, waiting>>
    <3>1. call'.o = call.o /\ call'.kind = call.kind
      BY <1>2, <2>5 DEF Calls
    <3> HIDE DEF r
    <3>2. /\ \A p \in Orders : ord'[p].att = ord[p].att
          /\ \A p \in Orders \ {call.o} : ord'[p] = ord[p]
      BY <1>2, <2>2, <2>5
    <3> QED BY <1>4, <2>5, <3>1, <3>2
  <2>6. CASE Fail(call.fresh /\ a.st = "rejected", r)
    <3>1. (call.fresh /\ a.st = "rejected") \in BOOLEAN
      BY <1>2 DEF Calls
    <3> HIDE DEF r
    <3> QED BY <1>3, <2>2, <2>6, <3>1
  <2> QED BY <2>3, <2>4, <2>5, <2>6
<1> QED BY <1>1, <1>5, <1>6, <1>7, <1>8

(* The POST numbers the next attempt.  Alpaca gets at most this one; the   *)
(* ones before it are over, and one after it would mean it exists.  Left   *)
(* without an answer, it ends the call and sets the order aside.           *)
LEMMA PostAlive ==
  ASSUME LInv, EInv', Post
  PROVE  LInv'
<1>1. call # NoCall /\ call.step = "post" /\ UNCHANGED disk
  BY DEF Post, At, Environment
<1>a. call.o \in Orders
  BY <1>1, InCall DEF LInv, EInv
<1>b. PICK o \in Orders : o = call.o
  BY <1>a
<1>2. /\ call \in Calls /\ ord[o] \in Order /\ RecOK(ord[o])
      /\ ord \in [Orders -> Order] /\ alp \in [Sent -> AlpacaOrder]
      /\ ord[o].link = NoLink /\ call.kind = "exec" /\ ord[o].att < MaxAttempt
  BY <1>1, <1>b, InCall DEF LInv, EInv, IInv, LocalOK, AlpacaOK, CallOK
<1>c. ord[o].att \in Nat /\ ord[o].att + 1 \in Attempts
  <2>1. ord[o].att \in Nat
    BY Numbers DEF LInv
  <2> QED BY <1>2, <2>1, Bound DEF Attempts
<1>d. PICK k \in Attempts : k = ord[o].att + 1
  BY <1>c
<1> DEFINE r == [ord[o] EXCEPT !.att = k, !.link = k, !.known = FALSE, !.booked = 0]
<1>3. k \in Attempts /\ ord[o].att \in Nat /\ r \in Order /\ r.att = k
  <2>1. k \in 0 .. MaxAttempt
    BY <1>c, Bound DEF Attempts
  <2> QED BY <1>2, <1>c, <2>1 DEF Order
<1>4. handler = "work"
  BY <1>1, <1>2 DEF LInv, KindOK
<1>5. /\ ord'[o].att = k /\ \A p \in Orders \ {o} : ord'[p] = ord[p]
      /\ handler' = handler /\ (waiting => waiting')
      /\ \/ call' = NoCall /\ (waiting' \/ ord'[o].st = "cancelled")
         \/ call' # NoCall /\ call'.o = o /\ call'.kind = "exec" /\ Exists(o, k)'
  <2>1. ASSUME NEW hard \in BOOLEAN, Fail(hard, r)
        PROVE  /\ ord'[o].att = k /\ \A p \in Orders \ {o} : ord'[p] = ord[p]
               /\ handler' = handler /\ (waiting => waiting')
               /\ call' = NoCall /\ (waiting' \/ ord'[o].st = "cancelled")
    <3> HIDE DEF r
    <3> QED BY <1>1, <1>2, <1>3, <1>b, <2>1, FailSame DEF LInv
  <2>2. ASSUME ord' = [ord EXCEPT ![o] = r], call' = [call EXCEPT !.step = "read", !.fresh = TRUE],
               UNCHANGED <<handler, waiting>>, Exists(o, k)'
        PROVE  /\ ord'[o].att = k /\ \A p \in Orders \ {o} : ord'[p] = ord[p]
               /\ handler' = handler /\ (waiting => waiting')
               /\ call' # NoCall /\ call'.o = o /\ call'.kind = "exec" /\ Exists(o, k)'
    <3>1. call'.o = call.o /\ call'.kind = call.kind /\ call'.step = "read"
      BY <1>2, <1>b, <2>2 DEF Calls
    <3>2. call' # NoCall
      BY <3>1 DEF NoCall
    <3> HIDE DEF r
    <3> QED BY <1>2, <1>3, <1>b, <2>2, <3>1, <3>2
  <2>3. ASSUME Place(o, k, "open", call.q) PROVE Exists(o, k)'
    <3>1. <<o, k>> \in Sent
      BY <1>2, <1>3 DEF Sent
    <3> QED BY <1>2, <2>3, <3>1 DEF Place, Exists
  <2>4. ASSUME UNCHANGED alp, Exists(o, k) PROVE Exists(o, k)'
    BY <2>4 DEF Exists
  <2>5. \/ \E hard \in BOOLEAN : Fail(hard, r)
        \/ /\ ord' = [ord EXCEPT ![o] = r] /\ call' = [call EXCEPT !.step = "read", !.fresh = TRUE]
           /\ UNCHANGED <<handler, waiting>>
           /\ Place(o, k, "open", call.q) \/ (UNCHANGED alp /\ Exists(o, k))
    BY <1>d, <1>b DEF Post
  <2> HIDE DEF r
  <2> QED BY <2>1, <2>2, <2>3, <2>4, <2>5
<1>6. /\ \A p \in Orders, j \in Attempts : p # o \/ j # k =>
           (Exists(p, j)' <=> Exists(p, j)) /\ (Alive(p, j)' <=> Alive(p, j))
      /\ Exists(o, k) => (Exists(o, k)' /\ (Alive(o, k)' => Alive(o, k)))
  <2>1. UNCHANGED alp \/ (~Exists(o, k) /\ \E st \in {"open", "transit"} : Place(o, k, st, call.q))
    BY <1>d, <1>b DEF Post
  <2>2. CASE UNCHANGED alp
    BY <2>2 DEF Exists, Alive
  <2>3. ASSUME ~Exists(o, k), NEW st \in {"open", "transit"}, Place(o, k, st, call.q)
        PROVE  \A p \in Orders, j \in Attempts : p # o \/ j # k =>
                 (Exists(p, j)' <=> Exists(p, j)) /\ (Alive(p, j)' <=> Alive(p, j))
    <3>1. \A s \in Sent \ {<<o, k>>} : alp'[s] = alp[s]
      BY <1>2, <2>3 DEF Place
    <3>2. \A p \in Orders, j \in Attempts : p # o \/ j # k => <<p, j>> \in Sent \ {<<o, k>>}
      BY DEF Sent
    <3> QED BY <3>1, <3>2 DEF Exists, Alive
  <2> QED BY <2>1, <2>2, <2>3
<1> HIDE DEF r
<1>9. \A j \in Attempts : j <= ord[o].att => ~Alive(o, j)
  BY <1>2 DEF LInv, EInv, Closed, ClosedRec, Alive, NoLink, Attempts
<1>10. \A j \in Attempts : disk.ord[o].att < j /\ j <= ord[o].att => Exists(o, j)
  BY <1>1, <1>2, <1>b DEF LInv, LostOnesWait, Lost, SetAside
<1>11. ~Exists(o, k) => \A j \in Attempts : j # k => ~Alive(o, j)
  <2> SUFFICES ASSUME ~Exists(o, k), NEW j \in Attempts, j # k, Alive(o, j) PROVE FALSE
    OBVIOUS
  <2>1. ord[o].att < k /\ k < j
    BY <1>3, <1>d, <1>9 DEF Attempts
  <2> QED BY <1>2, <1>3, <2>1 DEF LInv, Seamless
<1>12. Single'
  <2> SUFFICES ASSUME NEW p \in Orders, NEW i \in Attempts, NEW j \in Attempts,
                      Alive(p, i)', Alive(p, j)'
               PROVE  i = j
    BY DEF Single
  <2>1. CASE p # o \/ Exists(o, k)
    BY <1>3, <1>6, <2>1 DEF LInv, Single
  <2>2. CASE p = o /\ ~Exists(o, k)
    BY <1>6, <1>11, <2>2
  <2> QED BY <2>1, <2>2
<1>13. Seamless(ord)'
  <2> SUFFICES ASSUME NEW p \in Orders, NEW i \in Attempts, Alive(p, i)',
                      NEW j \in Attempts, ord'[p].att < j, j < i
               PROVE  Exists(p, j)'
    BY DEF Seamless
  <2>1. CASE p # o
    BY <1>5, <1>6, <2>1 DEF LInv, Seamless
  <2>2. CASE p = o
    <3>1. ord[o].att < j /\ j # k /\ i # k
      BY <1>3, <1>5, <1>d, <2>2 DEF Attempts
    <3> QED BY <1>6, <2>2, <3>1 DEF LInv, Seamless
  <2> QED BY <2>1, <2>2
<1>14. Seamless(disk.ord)'
  <2> SUFFICES ASSUME NEW p \in Orders, NEW i \in Attempts, Alive(p, i)',
                      NEW j \in Attempts, disk.ord[p].att < j, j < i
               PROVE  Exists(p, j)'
    BY <1>1 DEF Seamless
  <2>1. CASE p # o \/ i # k \/ Exists(o, k)
    <3>1. Alive(p, i)
      BY <1>6, <2>1
    <3>2. Exists(p, j)
      BY <3>1 DEF LInv, Seamless
    <3> QED BY <1>6, <3>2
  <2>2. CASE p = o /\ i = k
    <3>1. j <= ord[o].att /\ j # k
      BY <1>3, <1>d, <2>2 DEF Attempts
    <3>2. Exists(o, j)
      BY <1>10, <2>2, <3>1
    <3> QED BY <1>6, <2>2, <3>1, <3>2
  <2> QED BY <2>1, <2>2
<1>15. LostOnesWait'
  <2> SUFFICES ASSUME NEW p \in Orders, NEW j \in Attempts, Lost(p, j)' PROVE SetAside(p)'
    BY DEF LostOnesWait
  <2>0. disk.ord[p].att < j /\ j <= ord'[p].att /\ ~Exists(p, j)'
    BY <1>1 DEF Lost
  <2>1. CASE p # o
    <3>1. Lost(p, j)
      BY <1>5, <1>6, <2>0, <2>1 DEF Lost
    <3>2. SetAside(p)
      BY <3>1 DEF LInv, LostOnesWait
    <3> QED BY <1>5, <2>1, <3>2 DEF SetAside, Working
  <2>2. CASE p = o
    <3>1. j = k
      <4>1. CASE j <= ord[o].att
        BY <1>3, <1>6, <1>10, <2>0, <2>2, <4>1
      <4>2. CASE ~(j <= ord[o].att)
        BY <1>3, <1>5, <1>d, <2>0, <2>2, <4>2 DEF Attempts
      <4> QED BY <4>1, <4>2
    <3>2. call' = NoCall /\ (waiting' \/ ord'[o].st = "cancelled")
      BY <1>5, <2>0, <2>2, <3>1
    <3> QED BY <1>4, <1>5, <2>2, <3>2 DEF SetAside, Working
  <2> QED BY <2>1, <2>2
<1>16. KindOK'
  BY <1>4, <1>5 DEF KindOK
<1> QED BY <1>12, <1>13, <1>14, <1>15, <1>16 DEF LInv

-----------------------------------------------------------------------------
(* The other steps, and the theorem.                                       *)

(* Alpaca forgets no order and revives none.                               *)
LEMMA AlpacaAlive ==
  ASSUME LInv, EInv', Alpaca
  PROVE  LInv'
<1>1. PICK o \in Orders, k \in Attempts :
        \/ \E n \in 1 .. alp[<<o, k>>].qty : AlpacaFills(o, k, n)
        \/ AlpacaCancels(o, k) \/ AlpacaRejects(o, k) \/ Arrives(o, k)
  BY DEF Alpaca
<1>2. /\ UNCHANGED <<ord, disk, handler, waiting, call>>
      /\ \A s \in Sent \ {<<o, k>>} : alp'[s] = alp[s]
      /\ alp'[<<o, k>>].st \in {"open", "transit"} => alp[<<o, k>>].st \in {"open", "transit"}
      /\ alp'[<<o, k>>].st \in {"open", "closed", "rejected"}
  <2>1. UNCHANGED <<ord, disk, handler, waiting, call>>
    BY <1>1 DEF AlpacaFills, AlpacaCancels, AlpacaRejects, Arrives, Outside
  <2>2. <<o, k>> \in Sent /\ alp \in [Sent -> AlpacaOrder] /\ alp[<<o, k>>] \in AlpacaOrder
    BY DEF LInv, EInv, IInv, AlpacaOK, Sent
  <2>3. alp'[<<o, k>>].st \in {"open", "closed", "rejected"}
    BY <1>1, <2>2 DEF AlpacaFills, AlpacaCancels, AlpacaRejects, Arrives, AlpacaOrder
  <2> QED BY <1>1, <2>1, <2>3, AlpacaStep DEF LInv, EInv
<1>3. \A p \in Orders, j \in Attempts :
        (Exists(p, j) => Exists(p, j)') /\ (Alive(p, j)' => Alive(p, j))
  <2> SUFFICES ASSUME NEW p \in Orders, NEW j \in Attempts
               PROVE  (Exists(p, j) => Exists(p, j)') /\ (Alive(p, j)' => Alive(p, j))
    OBVIOUS
  <2>1. CASE <<p, j>> = <<o, k>>
    BY <1>2, <2>1 DEF Exists, Alive
  <2>2. CASE <<p, j>> # <<o, k>>
    <3>1. <<p, j>> \in Sent \ {<<o, k>>}
      BY <2>2 DEF Sent
    <3> QED BY <1>2, <3>1 DEF Exists, Alive
  <2> QED BY <2>1, <2>2
<1>4. Single'
  BY <1>3 DEF LInv, Single
<1>5. Seamless(ord)' /\ Seamless(disk.ord)'
  BY <1>2, <1>3 DEF LInv, Seamless
<1>6. LostOnesWait'
  BY <1>2, <1>3 DEF LInv, LostOnesWait, Lost, SetAside, Working
<1>7. KindOK'
  BY <1>2 DEF LInv, KindOK
<1> QED BY <1>4, <1>5, <1>6, <1>7 DEF LInv

(* After a crash nothing is ahead of the checkpoint; the backoff ends only *)
(* after the handler, when nothing lost is left out of the checkpoint.     *)
LEMMA RestAlive ==
  ASSUME LInv, EInv', BackoffOver \/ Sync \/ Compare \/ Crash \/ UNCHANGED vars
  PROVE  LInv'
<1>1. CASE Crash
  <2>1. UNCHANGED <<alp, disk>> /\ ord' = disk.ord /\ call' = NoCall
    BY <1>1 DEF Crash
  <2>2. Single' /\ Seamless(ord)' /\ Seamless(disk.ord)'
    BY <2>1 DEF LInv, Single, Seamless, Alive, Exists
  <2>3. \A o \in Orders, j \in Attempts : ~(disk.ord[o].att < j /\ j <= disk.ord[o].att)
    BY Numbers DEF LInv, Attempts
  <2>4. LostOnesWait'
    BY <2>1, <2>3 DEF LostOnesWait, Lost
  <2> QED BY <2>1, <2>2, <2>4 DEF LInv, KindOK
<1>2. CASE BackoffOver \/ Sync \/ Compare \/ UNCHANGED vars
  <2>1. UNCHANGED <<alp, disk, ord, call, handler>> /\ (handler # "work" \/ UNCHANGED waiting)
    BY <1>2 DEF BackoffOver, Sync, Compare, vars
  <2>2. Single' /\ Seamless(ord)' /\ Seamless(disk.ord)'
    BY <2>1 DEF LInv, Single, Seamless, Alive, Exists
  <2>3. LostOnesWait'
    BY <2>1 DEF LInv, LostOnesWait, Lost, SetAside, Working, Exists
  <2> QED BY <2>1, <2>2, <2>3 DEF LInv, KindOK
<1> QED BY <1>1, <1>2

(* Every step keeps at most one attempt alive.                             *)
LEMMA StepAlive ==
  ASSUME LInv, EInv', [Next]_vars
  PROVE  LInv'
<1>1. CASE Handlers
  BY <1>1, HandlersAlive
<1>2. CASE RoundTrip
  <2>1. CASE Post
    BY <2>1, PostAlive
  <2>2. CASE Lookup \/ NoAnswer \/ Read \/ Gate \/ HeldCheck
    <3>1. call # NoCall /\ Trip
      BY <2>2, TripsAreTrips DEF LInv
    <3> QED BY <3>1, TripAlive
  <2> QED BY <1>2, <2>1, <2>2 DEF RoundTrip
<1>3. CASE Alpaca
  BY <1>3, AlpacaAlive
<1>4. CASE BackoffOver \/ Sync \/ Compare \/ Crash \/ UNCHANGED vars
  BY <1>4, RestAlive
<1> QED BY <1>1, <1>2, <1>3, <1>4 DEF Next

(* At the start Alpaca knows nothing.                                      *)
LEMMA InitAlive == Init => LInv
<1> SUFFICES ASSUME Init PROVE LInv
  OBVIOUS
<1>1. IInv
  BY InitInv
<1>2. \A o \in Orders : ord[o].att = 0 /\ disk.ord[o].att = 0
  BY DEF Init, Snapshot, NoOrder
<1>3. Closed(ord) /\ Closed(disk.ord) /\ Behind
  BY <1>2 DEF Closed, ClosedRec, Behind, Attempts
<1>4. \A o \in Orders, j \in Attempts : ~Alive(o, j)
  BY DEF Init, Alive, Sent, NoneAtAlpaca
<1>5. Single /\ Seamless(ord) /\ Seamless(disk.ord)
  BY <1>4 DEF Single, Seamless
<1>6. LostOnesWait
  BY <1>2 DEF LostOnesWait, Lost, Attempts
<1>7. KindOK
  BY DEF Init, KindOK
<1> QED BY <1>1, <1>3, <1>5, <1>6, <1>7 DEF EInv, LInv

(* OneLiveOrder for every choice of the constants: unless a POST arrives   *)
(* after the bot looked for it, an order of the bot never has two orders   *)
(* at Alpaca that can still fill, whatever crashes and answers are lost.   *)
THEOREM OneOrderAlive ==
  ASSUME ~LateArrival
  PROVE  Spec => []OneLiveOrder
<1>1. Init => LInv
  BY InitAlive
<1>2. LInv /\ [Next]_vars => LInv'
  <2> SUFFICES ASSUME LInv, [Next]_vars PROVE LInv'
    OBVIOUS
  <2>1. EInv'
    BY StepCloses DEF LInv
  <2> QED BY <2>1, StepAlive
<1>3. LInv => OneLiveOrder
  BY DEF LInv, Single, Alive, OneLiveOrder
<1> QED BY <1>1, <1>2, <1>3, PTL DEF Spec

=============================================================================
