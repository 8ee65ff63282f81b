----------------------------- MODULE BooksProofs -----------------------------
(***************************************************************************)
(* Proofs about the parts MCBooks composes: the cash ledger, the booking   *)
(* of ORB and the event whose handler any fault may hit.  The sums over    *)
(* symbols and positions are those of SumProofs.                           *)
(***************************************************************************)
EXTENDS MCBooks, SumProofs

-----------------------------------------------------------------------------
(* The sums of the ledgers                                                 *)

LEMMA SumOf ==
  ASSUME NEW f
  PROVE  Ledger!Total(f) = Sum(f, DOMAIN f)
BY DEF Ledger!Total, Ledger!FoldFunction, Ledger!FoldFunctionOnSet, Ledger!MapThenFoldSet, Sum, Partial, Adds, Pick

-----------------------------------------------------------------------------
(* The cash account                                                        *)

Holding == [sh : Int, avg : Nat, fee : Nat]

(* Rounding to a whole moves a quotient by at most a half.                 *)
LEMMA RoundedFacts ==
  ASSUME NEW n \in Int, NEW m \in Nat \ {0}
  PROVE  /\ Ledger!Rounded(n, m) \in Int
         /\ 2 * (m * Ledger!Rounded(n, m)) <= 2 * n + m
         /\ 2 * n + m < 2 * (m * Ledger!Rounded(n, m)) + 2 * m
<1> DEFINE r == (2 * n + m) \div (2 * m)
<1>1. 2 * m \in Nat \ {0} /\ 2 * n + m \in Int
  OBVIOUS
<1>2. r \in Int /\ (2 * m) * r <= 2 * n + m /\ 2 * n + m < (2 * m) * (r + 1)
  BY <1>1
<1> HIDE DEF r
<1>3. (2 * m) * r = 2 * (m * r) /\ (2 * m) * (r + 1) = 2 * (m * r) + 2 * m
  BY <1>2
<1> QED BY <1>2, <1>3 DEF r, Ledger!Rounded

(* A part of a fee, by shares, is no more than the fee.                    *)
LEMMA RoundedPart ==
  ASSUME NEW fee \in Nat, NEW m \in Nat \ {0}, NEW q \in Nat, q <= m
  PROVE  Ledger!Rounded(fee * q, m) \in 0 .. fee
<1> DEFINE r == Ledger!Rounded(fee * q, m)
<1>1. fee * q \in Nat /\ m * fee \in Nat /\ fee * q <= m * fee
  OBVIOUS
<1>2. r \in Int /\ 2 * (m * r) <= 2 * (fee * q) + m /\ 2 * (fee * q) + m < 2 * (m * r) + 2 * m
  BY <1>1, RoundedFacts
<1> HIDE DEF r
<1>3. r <= fee
  <2> SUFFICES ASSUME r >= fee + 1 PROVE FALSE
    BY <1>2
  <2>1. m * r >= m * fee + m
    BY <1>2
  <2> QED BY <1>1, <1>2, <2>1
<1>4. r >= 0
  <2> SUFFICES ASSUME r <= 0 - 1 PROVE FALSE
    BY <1>2
  <2>1. m * r <= 0 - m
    BY <1>2
  <2> QED BY <1>1, <1>2, <2>1
<1> QED BY <1>2, <1>3, <1>4 DEF r

(* What a fill makes of a position p: the shares it adds, and how far its  *)
(* worth at cost, with what is paid and realized, is off after rounding.   *)
Worth(p) == p.sh * p.avg + p.fee
Clean(p) == p.sh = 0 => p.fee = 0
Off(p, dir, q, price, fee, a) == (Worth(a.pos) - Worth(p)) - dir * q * price - fee - a.gain

(* Which of the five kinds a fill is.                                      *)
LEMMA FilledCases ==
  ASSUME NEW p \in Holding, NEW dir \in {-1, 1}, NEW q \in Nat \ {0}, NEW price, NEW fee
  PROVE  LET a == Ledger!Filled(p, dir, q, price, fee)
             n == Ledger!Abs(p.sh)
         IN  /\ p.sh = 0 => a = Ledger!Open(dir, q, price, fee)
             /\ p.sh * dir > 0 => a = Ledger!Add(p, dir, q, price, fee) /\ p.sh = dir * n /\ n > 0
             /\ ~(p.sh = 0) /\ ~(p.sh * dir > 0) =>
                  /\ p.sh = -dir * n /\ n > 0 /\ Ledger!Sign(p.sh) = -dir
                  /\ q < n => a = Ledger!Reduce(p, q, price, fee)
                  /\ q = n => a = Ledger!Close(p, price, fee)
                  /\ q > n => a = Ledger!Flip(p, dir, q, price, fee)
<1> DEFINE n == Ledger!Abs(p.sh)
<1>1. p.sh \in Int
  BY DEF Holding
<1>2. n = (IF p.sh < 0 THEN -p.sh ELSE p.sh)
  BY DEF Ledger!Abs
<1>3. Ledger!Sign(p.sh) = IF p.sh < 0 THEN -1 ELSE 1
  BY DEF Ledger!Sign
<1> DEFINE up == p.sh * dir > 0  down == p.sh * dir < 0
           a == Ledger!Filled(p, dir, q, price, fee)
           A == Ledger!Open(dir, q, price, fee)
           B == Ledger!Add(p, dir, q, price, fee)
           C == Ledger!Reduce(p, q, price, fee)
           D == Ledger!Close(p, price, fee)
           E == Ledger!Flip(p, dir, q, price, fee)
<1>4. /\ up <=> (p.sh > 0 /\ dir = 1) \/ (p.sh < 0 /\ dir = -1)
      /\ down <=> (p.sh < 0 /\ dir = 1) \/ (p.sh > 0 /\ dir = -1)
  BY <1>1
<1>5. a = CASE p.sh = 0 -> A [] up -> B [] down /\ q < n -> C [] down /\ q = n -> D [] down /\ q > n -> E
  BY DEF Ledger!Filled
<1> HIDE DEF n, up, down, a, A, B, C, D, E
<1>6. n \in Int
  BY <1>1, <1>2
<1>7. /\ p.sh = 0 => ~up /\ ~down
      /\ up => p.sh = dir * n /\ n > 0 /\ ~down
      /\ ~(p.sh = 0) /\ ~up => down /\ p.sh = -dir * n /\ n > 0 /\ Ledger!Sign(p.sh) = -dir
  BY <1>1, <1>2, <1>3, <1>4
<1>8. /\ p.sh = 0 => a = A
      /\ up => a = B
      /\ ~(p.sh = 0) /\ ~up => (q < n => a = C) /\ (q = n => a = D) /\ (q > n => a = E)
  BY <1>5, <1>6, <1>7
<1> QED BY <1>7, <1>8 DEF n, up, a, A, B, C, D, E

SoundFill(p, dir, q, price, fee, a) ==
  /\ a.pos \in Holding /\ Clean(a.pos) /\ a.gain \in Int
  /\ a.pos.sh = p.sh + dir * q
  /\ IF p.sh * dir > 0 THEN 2 * Ledger!Abs(Off(p, dir, q, price, fee, a)) <= Ledger!Abs(p.sh) + q
     ELSE Off(p, dir, q, price, fee, a) = 0

LEMMA FilledFacts ==
  ASSUME NEW p \in Holding, Clean(p), NEW dir \in {-1, 1}, NEW q \in Nat \ {0}, NEW price \in Nat, NEW fee \in Nat
  PROVE  SoundFill(p, dir, q, price, fee, Ledger!Filled(p, dir, q, price, fee))
<1> DEFINE a == Ledger!Filled(p, dir, q, price, fee)
           n == Ledger!Abs(p.sh)
           Goal == /\ a.pos \in Holding /\ Clean(a.pos) /\ a.gain \in Int
                   /\ a.pos.sh = p.sh + dir * q
                   /\ IF p.sh * dir > 0 THEN 2 * Ledger!Abs(Off(p, dir, q, price, fee, a)) <= n + q
                      ELSE Off(p, dir, q, price, fee, a) = 0
<1>1. p.sh \in Int /\ p.avg \in Nat /\ p.fee \in Nat /\ p = [sh |-> p.sh, avg |-> p.avg, fee |-> p.fee]
  BY DEF Holding
<1>2. n \in Nat /\ n = (IF p.sh < 0 THEN -p.sh ELSE p.sh)
  BY <1>1 DEF Ledger!Abs
<1> SUFFICES Goal
  BY DEF SoundFill
<1> DEFINE up == p.sh * dir > 0
<1>3. /\ p.sh = 0 => a = Ledger!Open(dir, q, price, fee)
      /\ up => a = Ledger!Add(p, dir, q, price, fee) /\ p.sh = dir * n /\ n > 0
      /\ ~(p.sh = 0) /\ ~up =>
           /\ p.sh = -dir * n /\ n > 0 /\ Ledger!Sign(p.sh) = -dir
           /\ q < n => a = Ledger!Reduce(p, q, price, fee)
           /\ q = n => a = Ledger!Close(p, price, fee)
           /\ q > n => a = Ledger!Flip(p, dir, q, price, fee)
  BY FilledCases
<1>4. p.sh = 0 => ~up
  OBVIOUS
<1> HIDE DEF a, n, up
<1>5. CASE p.sh = 0
  <2>1. a = [pos |-> [sh |-> dir * q, avg |-> price, fee |-> fee], gain |-> 0]
    BY <1>3, <1>5 DEF Ledger!Open
  <2>2. p.fee = 0
    BY <1>5 DEF Clean
  <2>3. CASE dir = 1
    BY <1>1, <1>4, <1>5, <2>1, <2>2, <2>3 DEF Holding, Clean, Off, Worth, up
  <2>4. CASE dir = -1
    BY <1>1, <1>4, <1>5, <2>1, <2>2, <2>4 DEF Holding, Clean, Off, Worth, up
  <2> QED BY <2>3, <2>4
<1>6. CASE up
  <2> DEFINE N == n * p.avg + q * price
             r == Ledger!Rounded(N, n + q)
  <2>1. a = [pos |-> [sh |-> p.sh + dir * q, avg |-> r, fee |-> p.fee + fee], gain |-> 0]
    BY <1>3, <1>6 DEF Ledger!Add, n
  <2>2. p.sh = dir * n /\ n > 0
    BY <1>3, <1>6
  <2>3. n * p.avg \in Nat /\ q * price \in Nat /\ n + q \in Nat \ {0}
    BY <1>1, <1>2
  <2>4. N \in Nat
    BY <2>3
  <2>5. r \in Int /\ 2 * ((n + q) * r) <= 2 * N + (n + q) /\ 2 * N + (n + q) < 2 * ((n + q) * r) + 2 * (n + q)
    <3> DEFINE m == n + q
    <3>1. m \in Nat \ {0} /\ N \in Int
      BY <2>3, <2>4
    <3> HIDE DEF m, N
    <3>2. Ledger!Rounded(N, m) \in Int /\ 2 * (m * Ledger!Rounded(N, m)) <= 2 * N + m
          /\ 2 * N + m < 2 * (m * Ledger!Rounded(N, m)) + 2 * m
      BY <3>1, RoundedFacts
    <3> QED BY <3>2 DEF m
  <2> HIDE DEF r
  <2>6. r >= 0
    <3> HIDE DEF N
    <3> SUFFICES ASSUME r <= 0 - 1 PROVE FALSE
      BY <2>5
    <3>1. (n + q) * r <= 0 - (n + q)
      BY <2>3, <2>5
    <3> QED BY <2>3, <2>4, <2>5, <3>1
  <2>7. a.pos.sh = dir * (n + q) /\ a.pos.sh # 0 /\ a.pos.sh = p.sh + dir * q
    BY <1>1, <1>2, <2>1, <2>2
  <2>8. Off(p, dir, q, price, fee, a) = dir * ((n + q) * r - N)
    <3>1. CASE dir = 1
      BY <1>1, <1>2, <2>1, <2>2, <2>5, <3>1 DEF Off, Worth
    <3>2. CASE dir = -1
      BY <1>1, <1>2, <2>1, <2>2, <2>5, <3>2 DEF Off, Worth
    <3> QED BY <3>1, <3>2
  <2>9. 2 * Ledger!Abs(Off(p, dir, q, price, fee, a)) <= n + q
    <3> DEFINE M == (n + q) * r
    <3>1. M \in Int /\ 2 * M <= 2 * N + (n + q) /\ 2 * N + (n + q) < 2 * M + 2 * (n + q)
      BY <2>3, <2>5
    <3>2. Off(p, dir, q, price, fee, a) = dir * (M - N)
      BY <2>8
    <3> HIDE DEF M, N
    <3> QED BY <1>2, <2>4, <3>1, <3>2 DEF Ledger!Abs
  <2> QED BY <1>1, <1>6, <2>1, <2>5, <2>6, <2>7, <2>9 DEF Holding, Clean, up
<1>7. CASE ~(p.sh = 0) /\ ~up /\ q < n
  <2> DEFINE share == Ledger!Rounded(p.fee * q, n)
  <2>1. a.pos = [p EXCEPT !.sh = @ - (-dir) * q, !.fee = @ - share]
        /\ a.gain = q * (-dir) * (price - p.avg) - fee - share
    <3> DEFINE own == Ledger!Sign(p.sh)
               x == p.sh - own * q  y == p.fee - Ledger!Rounded(p.fee * q, Ledger!Abs(p.sh))
               z == q * own * (price - p.avg) - fee - Ledger!Rounded(p.fee * q, Ledger!Abs(p.sh))
    <3>1. own = -dir /\ a = Ledger!Reduce(p, q, price, fee)
      BY <1>3, <1>7
    <3>2. Ledger!Reduce(p, q, price, fee) = [pos |-> [p EXCEPT !.sh = x, !.fee = y], gain |-> z]
      BY DEF Ledger!Reduce
    <3> HIDE DEF x, y, z
    <3>3. a.pos = [p EXCEPT !.sh = x, !.fee = y] /\ a.gain = z
      BY <3>1, <3>2
    <3> QED BY <3>1, <3>3 DEF x, y, z, n
  <2>2. share \in 0 .. p.fee
    <3>1. n \in Nat \ {0} /\ q <= n
      BY <1>2, <1>3, <1>7
    <3> QED BY <1>1, <3>1, RoundedPart
  <2> HIDE DEF share
  <2> DEFINE u == p.sh - (-dir) * q  v == p.fee - share
  <2>5. u \in Int /\ v \in Nat
    BY <1>1, <2>2
  <2>6. a.pos = [p EXCEPT !.sh = u, !.fee = v]
    BY <2>1
  <2> HIDE DEF u, v
  <2>7. a.pos \in Holding /\ a.pos.sh = u /\ a.pos.fee = v /\ a.pos.avg = p.avg
    BY <2>5, <2>6 DEF Holding
  <2> USE DEF u, v
  <2>3. CASE dir = 1
    <3>1. a.pos \in Holding /\ Clean(a.pos) /\ a.gain \in Int /\ a.pos.sh = p.sh + dir * q
      BY <1>1, <1>2, <1>3, <1>7, <2>1, <2>2, <2>7, <2>3 DEF Clean
    <3>2. Off(p, dir, q, price, fee, a) = 0
      BY <1>1, <1>2, <1>3, <1>7, <2>1, <2>2, <2>7, <2>3 DEF Off, Worth
    <3> QED BY <1>7, <3>1, <3>2 DEF up
  <2>4. CASE dir = -1
    <3>1. a.pos \in Holding /\ Clean(a.pos) /\ a.gain \in Int /\ a.pos.sh = p.sh + dir * q
      BY <1>1, <1>2, <1>3, <1>7, <2>1, <2>2, <2>7, <2>4 DEF Clean
    <3>2. Off(p, dir, q, price, fee, a) = 0
      BY <1>1, <1>2, <1>3, <1>7, <2>1, <2>2, <2>7, <2>4 DEF Off, Worth
    <3> QED BY <1>7, <3>1, <3>2 DEF up
  <2> QED BY <2>3, <2>4
<1>8. CASE ~(p.sh = 0) /\ ~up /\ q = n
  <2>1. a = [pos |-> [sh |-> 0, avg |-> 0, fee |-> 0], gain |-> p.sh * (price - p.avg) - fee - p.fee]
    BY <1>1, <1>3, <1>8 DEF Ledger!Close, Ledger!Flat
  <2>2. p.sh + dir * q = 0
    BY <1>1, <1>2, <1>3, <1>8
  <2>3. a.gain = p.sh * price - p.sh * p.avg - fee - p.fee /\ dir * q * price = -(p.sh * price)
    <3>1. CASE dir = 1
      <4>1. q = -p.sh
        BY <1>1, <2>2, <3>1
      <4> QED BY <1>1, <2>1, <3>1, <4>1
    <3>2. CASE dir = -1
      <4>1. q = p.sh
        BY <1>1, <2>2, <3>2
      <4> QED BY <1>1, <2>1, <3>2, <4>1
    <3> QED BY <3>1, <3>2
  <2>4. a.pos \in Holding /\ Clean(a.pos) /\ a.gain \in Int /\ a.pos.sh = p.sh + dir * q
    BY <1>1, <2>1, <2>2 DEF Holding, Clean
  <2>5. Off(p, dir, q, price, fee, a) = 0
    <3> DEFINE x == p.sh * price  y == p.sh * p.avg  z == dir * q * price
    <3>1. x \in Int /\ y \in Int /\ a.gain = x - y - fee - p.fee /\ z = -x /\ Worth(p) = y + p.fee /\ Worth(a.pos) = 0
      BY <1>1, <2>1, <2>3 DEF Worth
    <3>2. Off(p, dir, q, price, fee, a) = (Worth(a.pos) - Worth(p)) - z - fee - a.gain
      BY DEF Off
    <3> HIDE DEF x, y, z
    <3> QED BY <1>1, <3>1, <3>2
  <2> QED BY <1>8, <2>4, <2>5 DEF up
<1>9. CASE ~(p.sh = 0) /\ ~up /\ q > n
  <2> DEFINE part == Ledger!Rounded(fee * n, q)
  <2>1. a = [pos |-> [sh |-> dir * (q - n), avg |-> price, fee |-> fee - part],
             gain |-> p.sh * (price - p.avg) - part - p.fee]
    BY <1>1, <1>3, <1>9 DEF Ledger!Flip, Ledger!Open, n
  <2>2. part \in 0 .. fee
    BY <1>1, <1>2, <1>9, RoundedPart
  <2> HIDE DEF part
  <2>3. CASE dir = 1
    <3>1. a.pos \in Holding /\ Clean(a.pos) /\ a.gain \in Int /\ a.pos.sh = p.sh + dir * q
      BY <1>1, <1>2, <1>3, <1>9, <2>1, <2>2, <2>3 DEF Holding, Clean
    <3>2. Off(p, dir, q, price, fee, a) = 0
      BY <1>1, <1>2, <1>3, <1>9, <2>1, <2>2, <2>3 DEF Off, Worth
    <3> QED BY <1>9, <3>1, <3>2 DEF up
  <2>4. CASE dir = -1
    <3>1. a.pos \in Holding /\ Clean(a.pos) /\ a.gain \in Int /\ a.pos.sh = p.sh + dir * q
      BY <1>1, <1>2, <1>3, <1>9, <2>1, <2>2, <2>4 DEF Holding, Clean
    <3>2. Off(p, dir, q, price, fee, a) = 0
      BY <1>1, <1>2, <1>3, <1>9, <2>1, <2>2, <2>4 DEF Off, Worth
    <3> QED BY <1>9, <3>1, <3>2 DEF up
  <2> QED BY <2>3, <2>4
<1> QED
  <2>1. q < n \/ q = n \/ q > n
    BY <1>2
  <2> HIDE DEF Goal
  <2> QED BY <1>5, <1>6, <1>7, <1>8, <1>9, <2>1

(* The margin of n shares is n times a rate that is at least one.          *)
Rate(long, p) ==
  IF long THEN 5 * p
  ELSE IF p >= ShortRate THEN Ledger!Over(6 * p, 20 * ShortRate) ELSE Ledger!Over(20 * p, 10 * ShortRate)

LEMMA MarginIsLinear ==
  ASSUME NEW dir \in Int, NEW n \in Nat, NEW p \in Nat \ {0}
  PROVE  Ledger!Margin(dir, n, p) = n * Rate(dir > 0, p) /\ Rate(dir > 0, p) \in Nat \ {0}
<1>0. ShortRate \in Nat
  BY CashAssumption
<1>1. CASE dir > 0
  BY <1>1 DEF Ledger!Margin, Rate
<1>2. ASSUME NEW a \in Nat, NEW b \in Nat PROVE Ledger!Over(a * n, b * n) = n * Ledger!Over(a, b)
  <2>1. CASE a > b
    <3>1. n = 0 \/ a * n > b * n
      BY <2>1
    <3>2. a * n = n * a /\ (n = 0 => a * n = 0 /\ b * n = 0)
      OBVIOUS
    <3> QED BY <2>1, <3>1, <3>2 DEF Ledger!Over
  <2>2. CASE a <= b
    <3>1. a * n <= b * n
      BY <2>2
    <3>2. b * n = n * b /\ a * n \in Nat /\ b * n \in Nat
      OBVIOUS
    <3> QED BY <2>2, <3>1, <3>2 DEF Ledger!Over
  <2> QED BY <2>1, <2>2
<1>3. CASE ~(dir > 0)
  <2>1. /\ Ledger!Over((6 * p) * n, (20 * ShortRate) * n) = n * Ledger!Over(6 * p, 20 * ShortRate)
        /\ Ledger!Over((20 * p) * n, (10 * ShortRate) * n) = n * Ledger!Over(20 * p, 10 * ShortRate)
    BY <1>0, <1>2
  <2>2. /\ 6 * n * p = (6 * p) * n /\ 20 * ShortRate * n = (20 * ShortRate) * n
        /\ 20 * n * p = (20 * p) * n /\ 10 * ShortRate * n = (10 * ShortRate) * n
    BY <1>0
  <2>3. Ledger!Margin(dir, n, p) = n * Rate(dir > 0, p)
    BY <1>3, <2>1, <2>2 DEF Ledger!Margin, Ledger!ShortMargin, Rate
  <2>4. Rate(dir > 0, p) \in Nat \ {0}
    BY <1>0, <1>3 DEF Rate, Ledger!Over
  <2> QED BY <2>3, <2>4
<1> QED BY <1>1, <1>3

(* The sums of a book: what it is worth at the market and at cost, and the *)
(* margin it needs.                                                        *)
AtMarket(b, m) == Sum([s \in Symbols |-> b[s].sh * m[s]], Symbols)
AtCost(b) == Sum([s \in Symbols |-> Worth(b[s])], Symbols)
Needs(b, m) == Sum([s \in Symbols |-> Ledger!Margin(b[s].sh, Ledger!Abs(b[s].sh), m[s])], Symbols)

LEMMA BookSums ==
  ASSUME NEW a, NEW b, NEW m
  PROVE  Ledger!Equity(a, b, m) = a + AtMarket(b, m) /\ Ledger!Maintenance(b, m) = Needs(b, m)
BY SumOf DEF Ledger!Equity, Ledger!Maintenance, AtMarket, Needs

Book  == [Symbols -> Holding]
Marks == [Symbols -> Nat \ {0}]

LEMMA TermTypes ==
  ASSUME NEW b \in Book, NEW m \in Marks
  PROVE  \A s \in Symbols : /\ b[s].sh * m[s] \in Int /\ Worth(b[s]) \in Int /\ b[s].fee \in Int /\ b[s].sh * b[s].avg \in Int
                            /\ Ledger!Margin(b[s].sh, Ledger!Abs(b[s].sh), m[s]) \in Nat
<1> TAKE s \in Symbols
<1>1. b[s].sh \in Int /\ b[s].avg \in Nat /\ b[s].fee \in Nat /\ m[s] \in Nat \ {0}
  BY DEF Book, Marks, Holding
<1>2. Ledger!Abs(b[s].sh) \in Nat
  BY <1>1 DEF Ledger!Abs
<1>3. Ledger!Margin(b[s].sh, Ledger!Abs(b[s].sh), m[s]) \in Nat
  <2> DEFINE n == Ledger!Abs(b[s].sh)  r == Rate(b[s].sh > 0, m[s])
  <2>1. Ledger!Margin(b[s].sh, n, m[s]) = n * r /\ r \in Nat \ {0}
    BY <1>1, <1>2, MarginIsLinear
  <2> HIDE DEF r
  <2>2. n * r \in Nat
    BY <1>2, <2>1
  <2> QED BY <2>1, <2>2
<1> QED BY <1>1, <1>3 DEF Worth

LEMMA SumsType ==
  ASSUME NEW b \in Book, NEW m \in Marks
  PROVE  AtMarket(b, m) \in Int /\ AtCost(b) \in Int /\ Needs(b, m) \in Int
<1> DEFINE f == [s \in Symbols |-> b[s].sh * m[s]]
           g == [s \in Symbols |-> Worth(b[s])]
           h == [s \in Symbols |-> Ledger!Margin(b[s].sh, Ledger!Abs(b[s].sh), m[s])]
<1>1. \A s \in Symbols : f[s] \in Int /\ g[s] \in Int /\ h[s] \in Int
  BY TermTypes
<1>2. IsFiniteSet(Symbols)
  BY CashAssumption
<1> HIDE DEF f, g, h
<1>3. Sum(f, Symbols) \in Int /\ Sum(g, Symbols) \in Int /\ Sum(h, Symbols) \in Int
  BY <1>1, <1>2, SumType
<1> QED BY <1>3 DEF AtMarket, AtCost, Needs, f, g, h

(* A change of one position moves each sum by what that position moved.    *)
LEMMA SumsChange ==
  ASSUME NEW b \in Book, NEW m \in Marks, NEW x \in Symbols, NEW h \in Holding
  PROVE  LET b2 == [b EXCEPT ![x] = h]
         IN  /\ b2 \in Book
             /\ AtMarket(b2, m) = AtMarket(b, m) + h.sh * m[x] - b[x].sh * m[x]
             /\ AtCost(b2) = AtCost(b) + Worth(h) - Worth(b[x])
             /\ Needs(b2, m) = Needs(b, m) + Ledger!Margin(h.sh, Ledger!Abs(h.sh), m[x])
                                           - Ledger!Margin(b[x].sh, Ledger!Abs(b[x].sh), m[x])
<1> DEFINE b2 == [b EXCEPT ![x] = h]
           V(c2) == [s \in Symbols |-> c2[s].sh * m[s]]
           W(c2) == [s \in Symbols |-> Worth(c2[s])]
           M(c2) == [s \in Symbols |-> Ledger!Margin(c2[s].sh, Ledger!Abs(c2[s].sh), m[s])]
<1>1. b2 \in Book /\ b2[x] = h /\ \A s \in Symbols : s # x => b2[s] = b[s]
  BY DEF Book
<1> HIDE DEF b2
<1>2. \A s \in Symbols : /\ V(b)[s] \in Int /\ V(b2)[s] \in Int /\ (s # x => V(b2)[s] = V(b)[s])
                         /\ W(b)[s] \in Int /\ W(b2)[s] \in Int /\ (s # x => W(b2)[s] = W(b)[s])
                         /\ M(b)[s] \in Int /\ M(b2)[s] \in Int /\ (s # x => M(b2)[s] = M(b)[s])
  <2>1. \A s \in Symbols : V(b)[s] \in Int /\ W(b)[s] \in Int /\ M(b)[s] \in Int
    BY TermTypes
  <2>2. \A s \in Symbols : V(b2)[s] \in Int /\ W(b2)[s] \in Int /\ M(b2)[s] \in Int
    BY <1>1, TermTypes
  <2>3. \A s \in Symbols : s # x => V(b2)[s] = V(b)[s] /\ W(b2)[s] = W(b)[s] /\ M(b2)[s] = M(b)[s]
    BY <1>1
  <2> HIDE DEF V, W, M
  <2> QED BY <2>1, <2>2, <2>3
<1>3. /\ V(b2)[x] = h.sh * m[x] /\ V(b)[x] = b[x].sh * m[x]
      /\ W(b2)[x] = Worth(h) /\ W(b)[x] = Worth(b[x])
      /\ M(b2)[x] = Ledger!Margin(h.sh, Ledger!Abs(h.sh), m[x])
      /\ M(b)[x] = Ledger!Margin(b[x].sh, Ledger!Abs(b[x].sh), m[x])
  BY <1>1
<1>4. IsFiniteSet(Symbols)
  BY CashAssumption
<1>5. /\ AtMarket(b, m) = Sum(V(b), Symbols) /\ AtMarket(b2, m) = Sum(V(b2), Symbols)
      /\ AtCost(b) = Sum(W(b), Symbols) /\ AtCost(b2) = Sum(W(b2), Symbols)
      /\ Needs(b, m) = Sum(M(b), Symbols) /\ Needs(b2, m) = Sum(M(b2), Symbols)
  BY DEF AtMarket, AtCost, Needs
<1> HIDE DEF V, W, M
<1>6. Sum(V(b2), Symbols) = Sum(V(b), Symbols) + V(b2)[x] - V(b)[x]
  BY <1>2, <1>4, SumChange
<1>7. Sum(W(b2), Symbols) = Sum(W(b), Symbols) + W(b2)[x] - W(b)[x]
  BY <1>2, <1>4, SumChange
<1>8. Sum(M(b2), Symbols) = Sum(M(b), Symbols) + M(b2)[x] - M(b)[x]
  BY <1>2, <1>4, SumChange
<1> QED BY <1>1, <1>3, <1>5, <1>6, <1>7, <1>8 DEF b2

-----------------------------------------------------------------------------
(* The account is worth what it began with, what it realized and what its  *)
(* positions cost, but for the rounding of their averages; the order just  *)
(* approved is one the gate still approves.                                *)
CashInv ==
  /\ cCash \in Int /\ cRealized \in Int /\ cRounded \in Nat
  /\ cMkt \in [Symbols -> Prices] /\ cPos \in Book
  /\ \A s \in Symbols : Clean(cPos[s])
  /\ cWork \subseteq Ledger!Order
  /\ 2 * Ledger!Abs(cCash + AtCost(cPos) - Cash - cRealized) <= cRounded
  /\ cFresh # Ledger!NoOrder =>
       cFresh \in Ledger!Order /\ cFresh.est = cMkt[cFresh.sym] /\ Ledger!CanAfford(cFresh)

LEMMA CashInit == Ledger!Init => CashInv
<1> SUFFICES ASSUME Ledger!Init PROVE CashInv
  OBVIOUS
<1>1. /\ cCash = Cash /\ cRealized = 0 /\ cRounded = 0 /\ cWork = {} /\ cFresh = Ledger!NoOrder
      /\ cMkt \in [Symbols -> Prices] /\ cPos = [s \in Symbols |-> Ledger!Flat]
  BY DEF Ledger!Init
<1>2. Ledger!Flat \in Holding /\ Clean(Ledger!Flat) /\ Worth(Ledger!Flat) = 0
  BY DEF Ledger!Flat, Holding, Clean, Worth
<1>3. AtCost(cPos) = 0
  <2>1. \A s \in Symbols : [q \in Symbols |-> Worth(cPos[q])][s] = 0
    BY <1>1, <1>2
  <2> QED BY <2>1, CashAssumption, SumZero DEF AtCost
<1>4. Cash \in Nat
  BY CashAssumption
<1> QED BY <1>1, <1>2, <1>3, <1>4 DEF CashInv, Book, Ledger!Abs

LEMMA FillStep ==
  ASSUME CashInv, NEW q \in cWork, NEW fee \in Fees, Ledger!Fill(q, fee)
  PROVE  CashInv'
<1> DEFINE p == cPos[q.sym]
           price == cMkt[q.sym]
           a == Ledger!Filled(p, q.dir, q.qty, price, fee)
<1>1. q.sym \in Symbols /\ q.dir \in {-1, 1} /\ q.qty \in Nat \ {0} /\ fee \in Nat
  BY CashAssumption DEF CashInv, Ledger!Order
<1>2. p \in Holding /\ Clean(p) /\ price \in Nat \ {0} /\ cMkt \in Marks
  BY <1>1, CashAssumption DEF CashInv, Book, Marks
<1>3. /\ cPos' = [cPos EXCEPT ![q.sym] = a.pos]
      /\ cCash' = cCash - q.dir * q.qty * price - fee
      /\ cRealized' = cRealized + a.gain
      /\ cRounded' = cRounded + (IF p.sh * q.dir > 0 THEN Ledger!Abs(p.sh) + q.qty ELSE 0)
      /\ cWork' = cWork \ {q} /\ cFresh' = Ledger!NoOrder /\ cMkt' = cMkt
  BY DEF Ledger!Fill
<1>4. /\ a.pos \in Holding /\ Clean(a.pos) /\ a.gain \in Int
      /\ IF p.sh * q.dir > 0 THEN 2 * Ledger!Abs(Off(p, q.dir, q.qty, price, fee, a)) <= Ledger!Abs(p.sh) + q.qty
         ELSE Off(p, q.dir, q.qty, price, fee, a) = 0
  <2> DEFINE dir == q.dir  qty == q.qty
  <2>1. dir \in {-1, 1} /\ qty \in Nat \ {0} /\ price \in Nat
    BY <1>1, <1>2
  <2> HIDE DEF p, price, dir, qty
  <2>2. SoundFill(p, dir, qty, price, fee, Ledger!Filled(p, dir, qty, price, fee))
    BY <1>1, <1>2, <2>1, FilledFacts
  <2> QED BY <2>2 DEF SoundFill, dir, qty
<1> DEFINE up == p.sh * q.dir > 0
           off == Off(p, q.dir, q.qty, price, fee, a)
           paid == q.dir * q.qty * price
           n == Ledger!Abs(p.sh)
<1>5. off = (Worth(a.pos) - Worth(p)) - paid - fee - a.gain
  BY DEF Off
<1>6. Worth(a.pos) \in Int /\ Worth(p) \in Int /\ paid \in Int /\ n \in Nat
  <2>1. \A r \in Holding : Worth(r) \in Int /\ Ledger!Abs(r.sh) \in Nat
    BY DEF Holding, Worth, Ledger!Abs
  <2>2. paid \in Int
    BY <1>1, <1>2
  <2> HIDE DEF p, a, paid
  <2> QED BY <1>2, <1>4, <2>1, <2>2 DEF n
<1>7. cPos' \in Book /\ AtCost(cPos)' = AtCost(cPos) + Worth(a.pos) - Worth(p)
  <2>1. [cPos EXCEPT ![q.sym] = a.pos] \in Book
        /\ AtCost([cPos EXCEPT ![q.sym] = a.pos]) = AtCost(cPos) + Worth(a.pos) - Worth(cPos[q.sym])
    <3> HIDE DEF a
    <3> QED BY <1>1, <1>2, <1>4, SumsChange DEF CashInv
  <2> QED BY <1>3, <2>1 DEF AtCost
<1>8. AtCost(cPos) \in Int
  BY <1>2, SumsType DEF CashInv
<1>9. Cash \in Nat /\ cCash \in Int /\ cRealized \in Int /\ cRounded \in Nat
      /\ 2 * Ledger!Abs(cCash + AtCost(cPos) - Cash - cRealized) <= cRounded
  BY CashAssumption DEF CashInv
<1>10. cCash' = cCash - paid - fee /\ cRealized' = cRealized + a.gain
       /\ cRounded' = cRounded + (IF up THEN n + q.qty ELSE 0)
  BY <1>3
<1>11. (up => 2 * Ledger!Abs(off) <= n + q.qty) /\ (~up => off = 0) /\ a.gain \in Int
  BY <1>4
<1>12. \A s \in Symbols : Clean(cPos[s])'
  <2>1. \A s \in Symbols : Clean(cPos'[s])
    <3> HIDE DEF a
    <3> QED BY <1>1, <1>3, <1>4 DEF CashInv, Book
  <2> QED BY <2>1 DEF Clean
<1> HIDE DEF up, off, paid, n, a, p, price
<1>13. off \in Int
  BY <1>1, <1>5, <1>6, <1>11
<1>14. cCash' + AtCost(cPos)' - Cash - cRealized' = (cCash + AtCost(cPos) - Cash - cRealized) + off
  BY <1>1, <1>5, <1>6, <1>7, <1>8, <1>9, <1>10, <1>11
<1>15. cCash' \in Int /\ cRealized' \in Int /\ cRounded' \in Nat
       /\ 2 * Ledger!Abs(cCash' + AtCost(cPos)' - Cash - cRealized') <= cRounded'
  BY <1>1, <1>6, <1>8, <1>9, <1>10, <1>11, <1>13, <1>14 DEF Ledger!Abs
<1> QED BY <1>3, <1>7, <1>12, <1>15 DEF CashInv, AtCost, Ledger!Abs

(* The gate decides alike on a book that has not changed.                  *)
LEMMA SameGate ==
  ASSUME NEW q, UNCHANGED <<cCash, cPos, cMkt, cStatus>>
  PROVE  Ledger!CanAfford(q)' <=> Ledger!CanAfford(q)
BY DEF Ledger!CanAfford, Ledger!Reduces, Ledger!Grown, Ledger!Halted, Ledger!BuyingPower

LEMMA CashStep ==
  ASSUME CashInv, Ledger!Next \/ UNCHANGED c
  PROVE  CashInv'
<1>1. ASSUME NEW q \in Ledger!Order, Ledger!Submit(q) PROVE CashInv'
  <2>1. /\ UNCHANGED <<cCash, cRealized, cPos, cMkt, cStatus, cRounded>>
        /\ cWork' = cWork \cup {q} /\ cFresh' = q
        /\ q.est = cMkt[q.sym] /\ Ledger!CanAfford(q)
    BY <1>1 DEF Ledger!Submit
  <2>2. Ledger!CanAfford(q)'
    BY <2>1, SameGate
  <2>3. (cFresh # Ledger!NoOrder => cFresh \in Ledger!Order /\ cFresh.est = cMkt[cFresh.sym] /\ Ledger!CanAfford(cFresh))'
    BY <2>1, <2>2
  <2>4. (2 * Ledger!Abs(cCash + AtCost(cPos) - Cash - cRealized) <= cRounded)'
    BY <2>1 DEF CashInv
  <2>5. cWork' \subseteq Ledger!Order
    BY <2>1 DEF CashInv
  <2> QED BY <2>1, <2>3, <2>4, <2>5 DEF CashInv
<1>2. ASSUME NEW q \in cWork, NEW fee \in Fees, Ledger!Fill(q, fee) PROVE CashInv'
  BY <1>2, FillStep
<1>3. ASSUME UNCHANGED <<cCash, cRealized, cPos, cRounded>>, cWork' \subseteq cWork, cFresh' = Ledger!NoOrder,
             cMkt' \in [Symbols -> Prices]
      PROVE  CashInv'
  <2>1. (2 * Ledger!Abs(cCash + AtCost(cPos) - Cash - cRealized) <= cRounded)'
    BY <1>3 DEF CashInv
  <2> QED BY <1>3, <2>1 DEF CashInv
<1>4. ASSUME NEW s \in Symbols, NEW p \in Prices, Ledger!Mark(s, p) PROVE CashInv'
  <2>1. cMkt' \in [Symbols -> Prices]
    BY <1>4 DEF CashInv, Ledger!Mark
  <2> QED BY <1>3, <1>4, <2>1 DEF Ledger!Mark
<1>5. ASSUME NEW st, Ledger!Halt(st) PROVE CashInv'
  <2>1. cMkt' \in [Symbols -> Prices]
    BY <1>5 DEF CashInv, Ledger!Halt
  <2> QED BY <1>3, <1>5, <2>1 DEF Ledger!Halt
<1>6. ASSUME Ledger!NewDay PROVE CashInv'
  <2>1. cMkt' \in [Symbols -> Prices]
    BY <1>6 DEF CashInv, Ledger!NewDay
  <2> QED BY <1>3, <1>6, <2>1 DEF Ledger!NewDay
<1>7. ASSUME UNCHANGED c PROVE CashInv'
  <2>1. UNCHANGED <<cCash, cRealized, cPos, cMkt, cStatus, cWork, cFresh, cOrders, cRounded>>
    BY <1>7 DEF c
  <2>2. Ledger!CanAfford(cFresh)' <=> Ledger!CanAfford(cFresh)
    BY <2>1, SameGate
  <2>3. (2 * Ledger!Abs(cCash + AtCost(cPos) - Cash - cRealized) <= cRounded)'
    BY <2>1 DEF CashInv
  <2>4. (cFresh # Ledger!NoOrder => cFresh \in Ledger!Order /\ cFresh.est = cMkt[cFresh.sym] /\ Ledger!CanAfford(cFresh))'
    BY <2>1, <2>2 DEF CashInv
  <2> QED BY <2>1, <2>3, <2>4 DEF CashInv
<1> QED BY <1>1, <1>2, <1>4, <1>5, <1>6, <1>7 DEF Ledger!Next

(* The equity is explained: marks change it and the unrealized profit      *)
(* alike.                                                                  *)
LEMMA Explained == CashInv => Ledger!EquityIsExplained
<1> SUFFICES ASSUME CashInv PROVE Ledger!EquityIsExplained
  OBVIOUS
<1>1. cPos \in Book /\ cMkt \in Marks /\ IsFiniteSet(Symbols)
  BY CashAssumption DEF CashInv, Marks
<1> DEFINE V == [s \in Symbols |-> cPos[s].sh * cMkt[s]]
           U == [s \in Symbols |-> cPos[s].sh * (cMkt[s] - cPos[s].avg)]
           W == [s \in Symbols |-> cPos[s].sh * cPos[s].avg]
           F == [s \in Symbols |-> cPos[s].fee]
           K == [s \in Symbols |-> Worth(cPos[s])]
<1>2. ASSUME NEW s \in Symbols
      PROVE  /\ V[s] \in Int /\ U[s] \in Int /\ W[s] \in Int /\ F[s] \in Int
             /\ V[s] = 1 * U[s] + 1 * W[s]
             /\ K[s] = 1 * W[s] + 1 * F[s]
  <2>1. cPos[s].sh \in Int /\ cPos[s].avg \in Nat /\ cPos[s].fee \in Nat /\ cMkt[s] \in Nat
    BY <1>1 DEF Book, Marks, Holding
  <2> QED BY <2>1 DEF Worth
<1> HIDE DEF V, U, W, F, K
<1>3. Sum(V, Symbols) = 1 * Sum(U, Symbols) + 1 * Sum(W, Symbols)
  <2>1. \A s \in Symbols : U[s] \in Int /\ W[s] \in Int /\ V[s] = 1 * U[s] + 1 * W[s]
    BY <1>2
  <2> QED BY <1>1, <2>1, SumLinear
<1>4. Sum(K, Symbols) = 1 * Sum(W, Symbols) + 1 * Sum(F, Symbols)
  <2>1. \A s \in Symbols : W[s] \in Int /\ F[s] \in Int /\ K[s] = 1 * W[s] + 1 * F[s]
    BY <1>2
  <2> QED BY <1>1, <2>1, SumLinear
<1>5. Sum(U, Symbols) \in Int /\ Sum(W, Symbols) \in Int /\ Sum(F, Symbols) \in Int
  BY <1>1, <1>2, SumType
<1>6. Ledger!Equity(cCash, cPos, cMkt) = cCash + Sum(V, Symbols)
  BY BookSums DEF AtMarket, V
<1>7. Ledger!Unrealized = Sum(U, Symbols) /\ Ledger!CarriedFees = Sum(F, Symbols)
  BY SumOf DEF Ledger!Unrealized, Ledger!CarriedFees, U, F
<1>8. AtCost(cPos) = Sum(K, Symbols)
  BY DEF AtCost, K
<1>9. cCash \in Int /\ cRealized \in Int /\ Cash \in Int
      /\ 2 * Ledger!Abs(cCash + AtCost(cPos) - Cash - cRealized) <= cRounded
  BY CashAssumption DEF CashInv
<1>10. Ledger!Equity(cCash, cPos, cMkt) - (Cash + cRealized + Ledger!Unrealized - Ledger!CarriedFees)
         = cCash + AtCost(cPos) - Cash - cRealized
  BY <1>3, <1>4, <1>5, <1>6, <1>7, <1>8, <1>9
<1> QED BY <1>9, <1>10 DEF Ledger!EquityIsExplained

(* A fill adds no more margin than that of the shares beyond closing.      *)
LEMMA FillNeeds ==
  ASSUME NEW p \in Holding, NEW h \in Holding, NEW dir \in {-1, 1}, NEW q \in Nat \ {0}, NEW price \in Nat \ {0},
         h.sh = p.sh + dir * q,
         NEW g \in Nat \ {0}, g = IF p.sh * dir < 0 THEN q - Ledger!Abs(p.sh) ELSE q
  PROVE  Ledger!Margin(h.sh, Ledger!Abs(h.sh), price)
           <= Ledger!Margin(p.sh, Ledger!Abs(p.sh), price) + Ledger!Margin(dir, g, price)
<1> DEFINE n == Ledger!Abs(p.sh)  k == Ledger!Abs(h.sh)
           A == Rate(h.sh > 0, price)  B == Rate(p.sh > 0, price)  C == Rate(dir > 0, price)
<1>1. p.sh \in Int /\ h.sh \in Int
  BY DEF Holding
<1>2. n \in Nat /\ k \in Nat /\ n = (IF p.sh < 0 THEN -p.sh ELSE p.sh) /\ k = (IF h.sh < 0 THEN -h.sh ELSE h.sh)
  BY <1>1 DEF Ledger!Abs
<1>3. /\ Ledger!Margin(h.sh, k, price) = k * A /\ A \in Nat \ {0}
      /\ Ledger!Margin(p.sh, n, price) = n * B /\ B \in Nat \ {0}
      /\ Ledger!Margin(dir, g, price) = g * C /\ C \in Nat \ {0}
  <2> HIDE DEF n, k
  <2>1. price \in Nat \ {0} /\ dir \in Int /\ g \in Nat
    OBVIOUS
  <2>2. Ledger!Margin(h.sh, k, price) = k * A /\ A \in Nat \ {0}
    BY <1>1, <1>2, MarginIsLinear
  <2>3. Ledger!Margin(p.sh, n, price) = n * B /\ B \in Nat \ {0}
    BY <1>1, <1>2, MarginIsLinear
  <2>4. Ledger!Margin(dir, g, price) = g * C /\ C \in Nat \ {0}
    BY <2>1, MarginIsLinear
  <2> QED BY <2>2, <2>3, <2>4
<1>4. k * A <= n * B + g * C
  <2>1. (p.sh * dir < 0) <=> (p.sh < 0 /\ dir = 1) \/ (p.sh > 0 /\ dir = -1)
    BY <1>1
  <2>2. g = IF (p.sh < 0 /\ dir = 1) \/ (p.sh > 0 /\ dir = -1) THEN q - n ELSE q
    BY <2>1
  <2>3. CASE (p.sh < 0 /\ dir = 1) \/ (p.sh > 0 /\ dir = -1)
    <3>1. k = g /\ (h.sh > 0 <=> dir > 0)
      BY <1>1, <1>2, <2>2, <2>3
    <3>2. A = C
      BY <3>1
    <3> HIDE DEF A, B, C, n, k
    <3>3. n * B \in Nat
      BY <1>2, <1>3
    <3>4. k * A = g * C /\ k * A \in Nat
      BY <1>2, <1>3, <3>1, <3>2
    <3> QED BY <3>3, <3>4
  <2>4. CASE ~((p.sh < 0 /\ dir = 1) \/ (p.sh > 0 /\ dir = -1))
    <3>1. k = n + g /\ (h.sh > 0 <=> dir > 0) /\ (p.sh = 0 \/ (p.sh > 0 <=> dir > 0))
      BY <1>1, <1>2, <2>2, <2>4
    <3>2. A = C /\ (p.sh = 0 \/ B = C) /\ (p.sh = 0 => n = 0)
      BY <1>2, <3>1
    <3> HIDE DEF A, B, C, n, k
    <3>3. CASE p.sh = 0
      <4>1. n = 0 /\ k = g
        BY <3>1, <3>2, <3>3
      <4> QED BY <1>3, <3>2, <4>1
    <3>4. CASE B = C
      BY <1>2, <1>3, <3>1, <3>2, <3>4
    <3> QED BY <3>2, <3>3, <3>4
  <2> QED BY <2>3, <2>4
<1> QED BY <1>3, <1>4

(* A book of long positions needs no more than it is worth.                *)
LEMMA LongNeeds ==
  ASSUME NEW b \in Book, NEW m \in Marks, \A s \in Symbols : b[s].sh >= 0
  PROVE  Needs(b, m) <= 20 * AtMarket(b, m)
<1> DEFINE V == [s \in Symbols |-> b[s].sh * m[s]]
           T == [s \in Symbols |-> 20 * (b[s].sh * m[s])]
           M == [s \in Symbols |-> Ledger!Margin(b[s].sh, Ledger!Abs(b[s].sh), m[s])]
<1>1. IsFiniteSet(Symbols)
  BY CashAssumption
<1>2. ASSUME NEW s \in Symbols
      PROVE  V[s] \in Int /\ T[s] \in Int /\ M[s] \in Int /\ T[s] = 20 * V[s] + 0 * V[s] /\ M[s] <= T[s]
  <2>1. b[s].sh \in Nat /\ m[s] \in Nat \ {0}
    BY DEF Book, Marks, Holding
  <2>2. Ledger!Abs(b[s].sh) = b[s].sh
    BY <2>1 DEF Ledger!Abs
  <2> DEFINE x == b[s].sh * m[s]
  <2>3. x \in Nat
    BY <2>1
  <2>4. V[s] = x /\ T[s] = 20 * x /\ M[s] = Ledger!Margin(b[s].sh, b[s].sh, m[s])
    BY <2>2
  <2>5. CASE b[s].sh > 0
    <3>1. M[s] = 5 * x
      BY <2>1, <2>4, <2>5 DEF Ledger!Margin
    <3> HIDE DEF x, V, T, M
    <3> QED BY <2>3, <2>4, <3>1
  <2>6. CASE b[s].sh = 0
    <3> DEFINE r == Rate(b[s].sh > 0, m[s])
    <3>1. M[s] = b[s].sh * r /\ r \in Nat
      BY SMTT(60), <2>1, <2>4, MarginIsLinear
    <3> HIDE DEF r
    <3>2. M[s] = 0
      BY <2>6, <3>1
    <3> HIDE DEF x, V, T, M
    <3> QED BY <2>3, <2>4, <3>2
  <2> QED BY <2>1, <2>5, <2>6
<1> HIDE DEF V, T, M
<1>3. Sum(M, Symbols) <= Sum(T, Symbols)
  BY <1>1, <1>2, SumMonotone
<1>4. Sum(T, Symbols) = 20 * Sum(V, Symbols) + 0 * Sum(V, Symbols)
  BY <1>1, <1>2, SumLinear
<1>5. Sum(V, Symbols) \in Int
  BY <1>1, <1>2, SumType
<1> QED BY <1>3, <1>4, <1>5 DEF Needs, AtMarket, V, M

(* An order just approved is backed when it is filled.                     *)
LEMMA Backed == CashInv => Ledger!ApprovedIsBacked
<1> DEFINE q == cFresh
           p == cPos[q.sym]
           price == cMkt[q.sym]
           h == Ledger!Filled(p, q.dir, q.qty, q.est, 0).pos
           b == [cPos EXCEPT ![q.sym] = h]
           paid == q.dir * q.qty * q.est
           worth == Ledger!Equity(cCash, cPos, cMkt)
<1> SUFFICES ASSUME CashInv, cFresh # Ledger!NoOrder, Ledger!Grown(cFresh) > 0,
                    worth >= Pdt \/ Ledger!LongOnly(cFresh)
             PROVE  20 * Ledger!Equity(cCash - paid, b, cMkt) >= Ledger!Maintenance(b, cMkt)
  BY DEF Ledger!ApprovedIsBacked
<1>1. /\ q \in Ledger!Order /\ q.est = price /\ Ledger!CanAfford(q)
      /\ q.sym \in Symbols /\ q.dir \in {-1, 1} /\ q.qty \in Nat \ {0}
  BY CashAssumption DEF CashInv, Ledger!Order
<1>2. /\ p \in Holding /\ Clean(p) /\ price \in Nat \ {0} /\ cPos \in Book /\ cMkt \in Marks
      /\ cCash \in Int
  BY <1>1, CashAssumption DEF CashInv, Book, Marks
<1>3. h \in Holding /\ h.sh = p.sh + q.dir * q.qty
  <2> DEFINE dir == q.dir  qty == q.qty  est == q.est
  <2>1. dir \in {-1, 1} /\ qty \in Nat \ {0} /\ est \in Nat
    BY <1>1, <1>2
  <2> HIDE DEF p, dir, qty, est
  <2>2. SoundFill(p, dir, qty, est, 0, Ledger!Filled(p, dir, qty, est, 0))
    BY <1>2, <2>1, FilledFacts
  <2> QED BY <2>2 DEF SoundFill, dir, qty, est
<1> DEFINE g == Ledger!Grown(q)
           X == Ledger!Margin(q.dir, g, price)
           M == Needs(cPos, cMkt)
<1>4. p.sh \in Int /\ Ledger!Abs(p.sh) \in Nat
  BY <1>2 DEF Holding, Ledger!Abs
<1>5. g \in Nat \ {0} /\ g = IF p.sh * q.dir < 0 THEN q.qty - Ledger!Abs(p.sh) ELSE q.qty
  BY <1>1, <1>4 DEF Ledger!Grown, Ledger!Reduces
<1> HIDE DEF h
<1>6. /\ AtMarket(b, cMkt) = AtMarket(cPos, cMkt) + h.sh * price - p.sh * price
      /\ Needs(b, cMkt) = M + Ledger!Margin(h.sh, Ledger!Abs(h.sh), price) - Ledger!Margin(p.sh, Ledger!Abs(p.sh), price)
      /\ b \in Book
  BY <1>1, <1>2, <1>3, SumsChange
<1>7. AtMarket(cPos, cMkt) \in Int /\ M \in Int
  BY <1>2, SumsType
<1>8. AtMarket(b, cMkt) \in Int /\ Needs(b, cMkt) \in Int
  BY <1>2, <1>6, SumsType
<1>9. worth = cCash + AtMarket(cPos, cMkt) /\ Ledger!Maintenance(cPos, cMkt) = M
      /\ Ledger!Equity(cCash - paid, b, cMkt) = (cCash - paid) + AtMarket(b, cMkt)
      /\ Ledger!Maintenance(b, cMkt) = Needs(b, cMkt)
  BY BookSums
<1>10. paid \in Int /\ paid = q.dir * q.qty * price /\ h.sh * price - p.sh * price = paid
  <2>1. CASE q.dir = 1
    BY <1>1, <1>2, <1>3, <1>4, <2>1
  <2>2. CASE q.dir = -1
    BY <1>1, <1>2, <1>3, <1>4, <2>2
  <2> QED BY <1>1, <2>1, <2>2
<1>11. Ledger!Margin(h.sh, Ledger!Abs(h.sh), price) <= Ledger!Margin(p.sh, Ledger!Abs(p.sh), price) + X
  <2> DEFINE dir == q.dir  qty == q.qty
  <2> HIDE DEF p, price, dir, qty, g
  <2>1. dir \in {-1, 1} /\ qty \in Nat \ {0} /\ h.sh = p.sh + dir * qty
        /\ g = IF p.sh * dir < 0 THEN qty - Ledger!Abs(p.sh) ELSE qty
    BY <1>1, <1>3, <1>5 DEF dir, qty
  <2>2. Ledger!Margin(h.sh, Ledger!Abs(h.sh), price) <= Ledger!Margin(p.sh, Ledger!Abs(p.sh), price) + Ledger!Margin(dir, g, price)
    BY <1>2, <1>3, <1>5, <2>1, FillNeeds
  <2> QED BY <2>2 DEF dir
<1>12. /\ Ledger!Margin(h.sh, Ledger!Abs(h.sh), price) \in Int
       /\ Ledger!Margin(p.sh, Ledger!Abs(p.sh), price) \in Int
       /\ X \in Nat \ {0} /\ X = g * Rate(q.dir > 0, price)
  <2>1. \A x \in Int, n \in Nat : Ledger!Margin(x, n, price) \in Nat
    <3> TAKE x \in Int, n \in Nat
    <3> DEFINE r == Rate(x > 0, price)
    <3>1. Ledger!Margin(x, n, price) = n * r /\ r \in Nat
      BY <1>2, MarginIsLinear
    <3> HIDE DEF r
    <3> QED BY <3>1
  <2>2. h.sh \in Int /\ Ledger!Abs(h.sh) \in Nat
    BY <1>3 DEF Holding, Ledger!Abs
  <2>3. X \in Nat \ {0} /\ X = g * Rate(q.dir > 0, price)
    <3> DEFINE dir == q.dir
               r == Rate(dir > 0, price)
    <3>1. dir \in Int /\ g \in Nat \ {0}
      BY <1>1, <1>5
    <3>2. price \in Nat \ {0}
      BY <1>2
    <3> HIDE DEF g, dir, price
    <3>3. Ledger!Margin(dir, g, price) = g * r /\ r \in Nat \ {0}
      BY <3>1, <3>2, MarginIsLinear
    <3> HIDE DEF r
    <3>4. g * r \in Nat \ {0}
      BY <3>1, <3>3
    <3> QED BY <3>3, <3>4 DEF r, dir
  <2> HIDE DEF X, g
  <2>4. \A x \in Int, n \in Nat : Ledger!Margin(x, n, price) \in Int
    BY <2>1
  <2>5. Ledger!Margin(h.sh, Ledger!Abs(h.sh), price) \in Int
    BY <2>2, <2>4, Zenon
  <2>6. Ledger!Margin(p.sh, Ledger!Abs(p.sh), price) \in Int
    BY <1>4, <2>4, Zenon
  <2> QED BY <2>3, <2>5, <2>6
<1>13. Needs(b, cMkt) <= M + X
  BY <1>6, <1>7, <1>11, <1>12
<1>14. Leverage * X <= Ledger!BuyingPower
  BY <1>1, <1>5 DEF Ledger!CanAfford
<1>15. Leverage \in Nat /\ Leverage >= 4 /\ Pdt \in Nat
  BY CashAssumption
<1> HIDE DEF b, X, M, paid, worth, g, p, price
<1>16. CASE worth >= Pdt
  <2>1. Ledger!BuyingPower = Leverage * Ledger!Over(0, 20 * worth - M)
    BY <1>9, <1>16 DEF Ledger!BuyingPower, worth
  <2> DEFINE Y == Ledger!Over(0, 20 * worth - M)
  <2>2. Y \in Int /\ (Y = 0 \/ Y = 20 * worth - M)
    BY <1>7, <1>9, <1>2 DEF Ledger!Over
  <2>3. X <= Y
    <3> HIDE DEF Y
    <3> SUFFICES ASSUME Y + 1 <= X PROVE FALSE
      BY <1>12, <2>2
    <3>1. Leverage * (Y + 1) <= Leverage * X
      BY <1>12, <1>15, <2>2
    <3>2. Leverage * (Y + 1) = Leverage * Y + Leverage
      BY <1>15, <2>2
    <3>3. Leverage * X <= Leverage * Y
      BY <1>14, <2>1 DEF Y
    <3>4. Leverage * X \in Int /\ Leverage * Y \in Int
      BY <1>12, <1>15, <2>2
    <3> QED BY <1>15, <3>1, <3>2, <3>3, <3>4
  <2> HIDE DEF Y
  <2> QED BY <1>2, <1>6, <1>7, <1>8, <1>9, <1>10, <1>12, <1>13, <2>2, <2>3
<1>17. CASE ~(worth >= Pdt)
  <2>1. Ledger!LongOnly(q)
    BY <1>17
  <2>2. q.dir = 1 /\ \A s \in Symbols : cPos[s].sh >= 0
    BY <1>1, <2>1 DEF Ledger!LongOnly
  <2>3. Ledger!BuyingPower = 20 * Ledger!Over(0, cCash)
    BY <1>17 DEF Ledger!BuyingPower, worth
  <2>4. p.sh >= 0
    BY <1>1, <2>2 DEF p
  <2>5. g = q.qty
    BY <1>4, <1>5, <2>2, <2>4
  <2> DEFINE z == q.qty * price
  <2>6. X = 5 * z /\ paid = z /\ z \in Nat \ {0}
    <3>1. Rate(q.dir > 0, price) = 5 * price
      BY <2>2 DEF Rate
    <3> QED BY <1>1, <1>2, <1>10, <1>12, <2>2, <2>5, <3>1
  <2> HIDE DEF z
  <2>7. 20 * z <= Leverage * X
    <3>1. 4 * X <= Leverage * X
      BY <1>12, <1>15
    <3> QED BY <1>12, <2>6, <3>1
  <2>8. paid <= cCash
    <3>1. 20 * z <= 20 * Ledger!Over(0, cCash)
      <4>1. Leverage * X \in Int /\ Ledger!Over(0, cCash) \in Int
        BY <1>2, <1>12, <1>15 DEF Ledger!Over
      <4> QED BY <1>14, <2>3, <2>6, <2>7, <4>1
    <3> QED BY <1>2, <2>6, <3>1 DEF Ledger!Over
  <2>9. \A s \in Symbols : b[s].sh >= 0
    BY <1>1, <1>2, <1>3, <1>4, <2>2, <2>4 DEF b, Book
  <2>10. Needs(b, cMkt) <= 20 * AtMarket(b, cMkt)
    BY <1>2, <1>6, <2>9, LongNeeds
  <2> QED BY <1>2, <1>8, <1>9, <1>10, <2>8, <2>10
<1> QED BY <1>16, <1>17

-----------------------------------------------------------------------------
(* The booking of ORB                                                      *)

Pair == [in : Nat, out : Nat]
Known == [in : Nat, out : Nat, st : {"none", "active", "closed"}]
Actual == [in : Nat, out : Nat, st : {"none", "live", "done"}]
Account == [shares : Int, booked : [Keys -> Pair], recorded : SUBSET Keys, trades : [Keys -> Pair], resolved : Int]

Open(b) == Sum([k \in Keys |-> b.booked[k].in - b.booked[k].out], Keys)

(* a: the orders at Alpaca. What a record x of them may say: what was true *)
(* once, and of a closed position what is true forever.                    *)
Over(a, k) == a[k].st = "done" /\ a[k].in = a[k].out

Seen(x, a) ==
  /\ x \in [Keys -> Known]
  /\ \A k \in Keys : /\ x[k].in <= a[k].in /\ x[k].out <= a[k].out /\ x[k].out <= x[k].in
                     /\ x[k].st = "closed" => Over(a, k) /\ x[k].in = a[k].in /\ x[k].out = a[k].out

(* The account, in memory or saved.                                        *)
Kept(b, a) ==
  /\ b \in Account
  /\ b.shares = Open(b) - b.resolved /\ b.shares >= 0
  /\ \A k \in Keys : /\ b.booked[k].in <= a[k].in /\ b.booked[k].out <= a[k].out
                     /\ b.booked[k].out <= b.booked[k].in
  /\ \A k \in b.recorded : /\ Over(a, k) /\ b.trades[k] = b.booked[k]
                           /\ b.booked[k].in = a[k].in /\ b.booked[k].out = a[k].out

BookingInv ==
  /\ oAlp \in [Keys -> Actual]
  /\ \A k \in Keys : oAlp[k].out <= oAlp[k].in /\ (oAlp[k].st = "none" => oAlp[k].in = 0)
  /\ Seen(oCtl, oAlp) /\ Seen(oRow, oAlp)
  /\ Kept(oAdt, oAlp) /\ Kept(oSaved, oAlp)
  /\ oMode \in {"on", "off"}
  /\ oMode = "on" => oAdt.resolved = 0 /\ oSaved.resolved = 0
  /\ oMode = "on" => \A k \in Keys : oCtl[k].st = "none" => oAlp[k].st = "none"
  /\ \A k \in Keys : oRow[k].st = "none" => oAlp[k].st = "none"

(* Alpaca only adds fills, and nothing changes of a position that is over. *)
Grows(a, a2) ==
  \A k \in Keys : a[k].in <= a2[k].in /\ a[k].out <= a2[k].out /\ (Over(a, k) => a2[k] = a[k])

LEMMA SeenLater ==
  ASSUME NEW a \in [Keys -> Actual], NEW a2 \in [Keys -> Actual], NEW x, Seen(x, a), Grows(a, a2)
  PROVE  Seen(x, a2)
BY DEF Seen, Grows, Over, Known, Actual

LEMMA KeptLater ==
  ASSUME NEW a \in [Keys -> Actual], NEW a2 \in [Keys -> Actual], NEW b, Kept(b, a), Grows(a, a2)
  PROVE  Kept(b, a2)
<1>1. ASSUME NEW k \in Keys
      PROVE  /\ b.booked[k].in <= a2[k].in /\ b.booked[k].out <= a2[k].out
             /\ b.booked[k].out <= b.booked[k].in
  BY DEF Kept, Grows, Account, Pair, Actual
<1>2. ASSUME NEW k \in b.recorded
      PROVE  /\ Over(a2, k) /\ b.trades[k] = b.booked[k]
             /\ b.booked[k].in = a2[k].in /\ b.booked[k].out = a2[k].out
  <2>1. k \in Keys /\ a2[k] = a[k]
    BY DEF Kept, Grows, Account
  <2> QED BY <2>1 DEF Kept, Over
<1> QED BY <1>1, <1>2 DEF Kept

(* What sync counts anew of a leg, and what the account is after it.       *)
MoreOf(x, b, k, l) == IF x[k][l] > b.booked[k][l] THEN x[k][l] - b.booked[k][l] ELSE 0
Counted(x, b) ==
  [b EXCEPT !.shares = @ + Sum([k \in Keys |-> MoreOf(x, b, k, "in")], Keys) - Sum([k \in Keys |-> MoreOf(x, b, k, "out")], Keys),
            !.booked = [k \in Keys |-> [l \in {"in", "out"} |-> @[k][l] + MoreOf(x, b, k, l)]]]

LEMMA MoreSum ==
  ASSUME NEW x, NEW b, NEW l
  PROVE  Booking!MapThenSumSet(LAMBDA k : MoreOf(x, b, k, l), Keys) = Sum([k \in Keys |-> MoreOf(x, b, k, l)], Keys)
<1> DEFINE f == [k \in Keys |-> MoreOf(x, b, k, l)]
           G(T) == CHOOSE y \in T : TRUE
<1>1. ASSUME NEW g
      PROVE  [T \in SUBSET Keys |-> IF T = {} THEN 0 ELSE f[Pick(T)] + g[T \ {Pick(T)}]]
               = [T \in SUBSET Keys |-> IF T = {} THEN 0 ELSE MoreOf(x, b, G(T), l) + g[T \ {G(T)}]]
  <2> SUFFICES ASSUME NEW T \in SUBSET Keys, T # {} PROVE f[Pick(T)] = MoreOf(x, b, G(T), l) /\ Pick(T) = G(T)
    BY Zenon
  <2> QED BY PickIn DEF Pick
<1>2. \A g : Adds(g, f, Keys)
             <=> g = [T \in SUBSET Keys |-> IF T = {} THEN 0 ELSE MoreOf(x, b, G(T), l) + g[T \ {G(T)}]]
  BY <1>1 DEF Adds
<1>3. Partial(f, Keys) = CHOOSE g : g = [T \in SUBSET Keys |-> IF T = {} THEN 0 ELSE MoreOf(x, b, G(T), l) + g[T \ {G(T)}]]
  BY <1>2 DEF Partial
<1> QED BY <1>3 DEF Sum, Booking!MapThenSumSet, Booking!MapThenFoldSet

LEMMA BookedIs ==
  ASSUME NEW b
  PROVE  Booking!Booked(b) = Counted(oCtl, b)
<1> DEFINE i == Booking!MapThenSumSet(LAMBDA k : MoreOf(oCtl, b, k, "in"), Keys)
           j == Booking!MapThenSumSet(LAMBDA k : MoreOf(oCtl, b, k, "out"), Keys)
<1>1. Booking!Booked(b)
        = [b EXCEPT !.shares = @ + i - j,
                    !.booked = [k \in Keys |-> [l \in {"in", "out"} |-> @[k][l] + MoreOf(oCtl, b, k, l)]]]
  BY DEF Booking!Booked, MoreOf, Booking!Legs
<1>2. i = Sum([k \in Keys |-> MoreOf(oCtl, b, k, "in")], Keys)
  BY MoreSum
<1>3. j = Sum([k \in Keys |-> MoreOf(oCtl, b, k, "out")], Keys)
  BY MoreSum
<1> HIDE DEF i, j
<1> QED BY <1>1, <1>2, <1>3 DEF Counted

LEMMA CountedKept ==
  ASSUME NEW a \in [Keys -> Actual], NEW x, Seen(x, a), NEW b, Kept(b, a), b.resolved = 0
  PROVE  /\ Kept(Counted(x, b), a) /\ Counted(x, b).resolved = 0
         /\ Counted(x, b).recorded = b.recorded /\ Counted(x, b).trades = b.trades
         /\ \A k \in Keys : x[k].in <= Counted(x, b).booked[k].in /\ x[k].out <= Counted(x, b).booked[k].out
<1> DEFINE e == Counted(x, b)
           I == [k \in Keys |-> MoreOf(x, b, k, "in")]
           O == [k \in Keys |-> MoreOf(x, b, k, "out")]
           P == [k \in Keys |-> b.booked[k].in - b.booked[k].out]
           Q == [k \in Keys |-> e.booked[k].in - e.booked[k].out]
           R == [k \in Keys |-> I[k] - O[k]]
<1>1. b \in Account /\ x \in [Keys -> Known]
  BY DEF Kept, Seen
<1>2. ASSUME NEW k \in Keys
      PROVE  /\ b.booked[k] \in Pair /\ x[k].in \in Nat /\ x[k].out \in Nat
             /\ I[k] \in Nat /\ O[k] \in Nat
             /\ I[k] = IF x[k].in > b.booked[k].in THEN x[k].in - b.booked[k].in ELSE 0
             /\ O[k] = IF x[k].out > b.booked[k].out THEN x[k].out - b.booked[k].out ELSE 0
  <2>1. b.booked[k] \in Pair /\ x[k] \in Known
    BY <1>1 DEF Account
  <2>2. b.booked[k].in \in Nat /\ b.booked[k].out \in Nat /\ x[k].in \in Nat /\ x[k].out \in Nat
    BY <2>1 DEF Pair, Known
  <2>3. x[k]["in"] = x[k].in /\ b.booked[k]["in"] = b.booked[k].in /\ x[k]["out"] = x[k].out /\ b.booked[k]["out"] = b.booked[k].out
    BY <2>1 DEF Pair, Known
  <2> QED BY <2>1, <2>2, <2>3 DEF MoreOf
<1>3. /\ e.recorded = b.recorded /\ e.trades = b.trades /\ e.resolved = b.resolved
      /\ e.shares = b.shares + Sum(I, Keys) - Sum(O, Keys)
      /\ e.booked = [k \in Keys |-> [l \in {"in", "out"} |-> b.booked[k][l] + MoreOf(x, b, k, l)]]
      /\ e = [shares |-> e.shares, booked |-> e.booked, recorded |-> e.recorded, trades |-> e.trades, resolved |-> e.resolved]
  <2> DEFINE i == Sum(I, Keys)  j == Sum(O, Keys)
             B == [k \in Keys |-> [l \in {"in", "out"} |-> b.booked[k][l] + MoreOf(x, b, k, l)]]
  <2>1. e = [b EXCEPT !.shares = b.shares + i - j, !.booked = B]
    BY DEF Counted
  <2> HIDE DEF i, j, B, e
  <2>2. /\ e.recorded = b.recorded /\ e.trades = b.trades /\ e.resolved = b.resolved
        /\ e.shares = b.shares + i - j /\ e.booked = B
        /\ e = [shares |-> e.shares, booked |-> e.booked, recorded |-> e.recorded, trades |-> e.trades, resolved |-> e.resolved]
    BY <1>1, <2>1 DEF Account
  <2> QED BY <2>2 DEF i, j, B
<1>4. ASSUME NEW k \in Keys
      PROVE  /\ e.booked[k].in = b.booked[k].in + I[k] /\ e.booked[k].out = b.booked[k].out + O[k]
             /\ e.booked[k] \in Pair
  BY <1>2, <1>3 DEF Pair
<1> HIDE DEF e, I, O
<1>5. Sum(I, Keys) \in Int /\ Sum(O, Keys) \in Int /\ IsFiniteSet(Keys)
  BY <1>2, BookingAssumption, SumType
<1>6. e \in Account
  <2>1. e.shares \in Int /\ e.booked \in [Keys -> Pair]
    BY <1>1, <1>3, <1>4, <1>5 DEF Account
  <2> QED BY <1>1, <1>3, <2>1 DEF Account
<1>7. ASSUME NEW k \in Keys
      PROVE  /\ e.booked[k].in <= a[k].in /\ e.booked[k].out <= a[k].out
             /\ e.booked[k].out <= e.booked[k].in
             /\ x[k].in <= e.booked[k].in /\ x[k].out <= e.booked[k].out
  <2>1. /\ b.booked[k].in <= a[k].in /\ b.booked[k].out <= a[k].out /\ b.booked[k].out <= b.booked[k].in
        /\ x[k].in <= a[k].in /\ x[k].out <= a[k].out /\ x[k].out <= x[k].in
        /\ a[k].in \in Nat /\ a[k].out \in Nat
    BY DEF Kept, Seen, Actual
  <2>2. /\ b.booked[k].in \in Nat /\ b.booked[k].out \in Nat /\ x[k].in \in Nat /\ x[k].out \in Nat
    BY <1>2 DEF Pair
  <2>3. /\ e.booked[k].in = IF x[k].in > b.booked[k].in THEN x[k].in ELSE b.booked[k].in
        /\ e.booked[k].out = IF x[k].out > b.booked[k].out THEN x[k].out ELSE b.booked[k].out
    BY <1>2, <1>4, <2>2
  <2> QED BY <2>1, <2>2, <2>3
<1>8. Sum(Q, Keys) = Sum(P, Keys) + Sum(I, Keys) - Sum(O, Keys)
  <2>1. ASSUME NEW k \in Keys
        PROVE  /\ P[k] \in Int /\ I[k] \in Int /\ O[k] \in Int /\ R[k] \in Int
               /\ R[k] = 1 * I[k] + (-1) * O[k] /\ Q[k] = 1 * P[k] + 1 * R[k]
    BY <1>2, <1>4 DEF Pair
  <2> HIDE DEF P, Q, R
  <2>2. Sum(R, Keys) = 1 * Sum(I, Keys) + (-1) * Sum(O, Keys)
    <3>1. \A k \in Keys : I[k] \in Int /\ O[k] \in Int /\ R[k] = 1 * I[k] + (-1) * O[k]
      BY <2>1
    <3> QED BY <1>5, <3>1, SumLinear
  <2>3. Sum(Q, Keys) = 1 * Sum(P, Keys) + 1 * Sum(R, Keys)
    <3>1. \A k \in Keys : P[k] \in Int /\ R[k] \in Int /\ Q[k] = 1 * P[k] + 1 * R[k]
      BY <2>1
    <3> QED BY <1>5, <3>1, SumLinear
  <2>4. Sum(P, Keys) \in Int
    BY <1>5, <2>1, SumType
  <2> QED BY <1>5, <2>2, <2>3, <2>4
<1>9. Open(b) = Sum(P, Keys) /\ Open(e) = Sum(Q, Keys)
  BY DEF Open
<1>10. Sum(Q, Keys) \in Int /\ Sum(Q, Keys) >= 0 /\ Sum(P, Keys) \in Int
  <2> DEFINE Z == [k \in Keys |-> 0]
  <2>1. \A k \in Keys : Q[k] \in Int /\ Z[k] \in Int /\ Z[k] <= Q[k] /\ Z[k] = 0 /\ P[k] \in Int
    BY <1>2, <1>4, <1>7 DEF Pair
  <2> HIDE DEF P, Q, Z
  <2> QED BY <1>5, <2>1, SumType, SumZero, SumMonotone
<1> HIDE DEF P, Q
<1>11. e.shares = Open(e) - e.resolved /\ e.shares >= 0
  BY <1>3, <1>5, <1>8, <1>9, <1>10 DEF Kept
<1>12. ASSUME NEW k \in e.recorded
       PROVE  /\ Over(a, k) /\ e.trades[k] = e.booked[k]
              /\ e.booked[k].in = a[k].in /\ e.booked[k].out = a[k].out
  <2>1. k \in b.recorded /\ k \in Keys
    BY <1>1, <1>3 DEF Account
  <2>2. Over(a, k) /\ b.trades[k] = b.booked[k] /\ b.booked[k].in = a[k].in /\ b.booked[k].out = a[k].out
    BY <2>1 DEF Kept
  <2>3. x[k].in <= a[k].in /\ x[k].out <= a[k].out
    BY <2>1 DEF Seen
  <2>4. I[k] = 0 /\ O[k] = 0
    BY <1>2, <2>1, <2>2, <2>3 DEF Pair
  <2>5. e.booked[k].in = b.booked[k].in /\ e.booked[k].out = b.booked[k].out
    BY <1>2, <1>4, <2>1, <2>4 DEF Pair
  <2>6. e.booked[k] = b.booked[k]
    BY <1>2, <1>4, <2>1, <2>5 DEF Pair
  <2> QED BY <1>3, <2>2, <2>5, <2>6
<1> QED BY <1>3, <1>6, <1>7, <1>11, <1>12 DEF Kept, e

(* A position is closed in the books with what was counted of it.          *)
LEMMA TradesKept ==
  ASSUME NEW a \in [Keys -> Actual], Seen(oCtl, a), NEW b, Kept(b, a),
         \A k \in Keys : oCtl[k].in <= b.booked[k].in /\ oCtl[k].out <= b.booked[k].out
  PROVE  Kept(Booking!WithTrades(b), a) /\ Booking!WithTrades(b).resolved = b.resolved
<1> DEFINE e == Booking!WithTrades(b)
           F == Booking!Finished(b)
<1>1. b \in Account
  BY DEF Kept
<1>2. F \subseteq Keys /\ \A k \in F : oCtl[k].st = "closed"
  BY DEF Booking!Finished
<1> HIDE DEF F
<1>3. /\ e.shares = b.shares /\ e.booked = b.booked /\ e.resolved = b.resolved
      /\ e.recorded = b.recorded \cup F
      /\ e.trades = [k \in Keys |-> IF k \in F THEN b.booked[k] ELSE b.trades[k]]
      /\ e = [shares |-> e.shares, booked |-> e.booked, recorded |-> e.recorded, trades |-> e.trades, resolved |-> e.resolved]
  <2> DEFINE T == [k \in Keys |-> IF k \in F THEN b.booked[k] ELSE b.trades[k]]
  <2>1. e = [b EXCEPT !.recorded = b.recorded \cup F, !.trades = T]
    BY DEF Booking!WithTrades, F
  <2> HIDE DEF T, e
  <2>2. /\ e.shares = b.shares /\ e.booked = b.booked /\ e.resolved = b.resolved
        /\ e.recorded = b.recorded \cup F /\ e.trades = T
        /\ e = [shares |-> e.shares, booked |-> e.booked, recorded |-> e.recorded, trades |-> e.trades, resolved |-> e.resolved]
    BY <1>1, <2>1 DEF Account
  <2> QED BY <2>2 DEF T
<1> HIDE DEF e
<1>4. e \in Account
  BY <1>1, <1>2, <1>3 DEF Account
<1>5. Open(e) = Open(b)
  BY <1>3 DEF Open
<1>6. ASSUME NEW k \in e.recorded
      PROVE  /\ Over(a, k) /\ e.trades[k] = e.booked[k]
             /\ e.booked[k].in = a[k].in /\ e.booked[k].out = a[k].out
  <2>1. k \in Keys /\ k \in b.recorded \cup F
    BY <1>1, <1>2, <1>3 DEF Account
  <2>2. CASE k \in F
    <3>1. Over(a, k) /\ oCtl[k].in = a[k].in /\ oCtl[k].out = a[k].out
      BY <1>2, <2>1, <2>2 DEF Seen
    <3>2. /\ b.booked[k].in <= a[k].in /\ b.booked[k].out <= a[k].out
          /\ oCtl[k].in <= b.booked[k].in /\ oCtl[k].out <= b.booked[k].out
      BY <2>1 DEF Kept
    <3>3. b.booked[k].in \in Nat /\ b.booked[k].out \in Nat /\ a[k].in \in Nat /\ a[k].out \in Nat
      BY <1>1, <2>1 DEF Account, Pair, Actual
    <3>4. b.booked[k].in = a[k].in /\ b.booked[k].out = a[k].out
      BY <3>1, <3>2, <3>3
    <3> QED BY <1>3, <2>1, <2>2, <3>1, <3>4
  <2>3. CASE k \notin F
    BY <1>3, <2>1, <2>3 DEF Kept
  <2> QED BY <2>2, <2>3
<1>7. \A k \in Keys : /\ e.booked[k].in <= a[k].in /\ e.booked[k].out <= a[k].out
                      /\ e.booked[k].out <= e.booked[k].in
  BY <1>3 DEF Kept
<1> QED BY <1>3, <1>4, <1>5, <1>6, <1>7 DEF Kept, e

LEMMA BookingInit == ~Late /\ Booking!Init => BookingInv
<1> SUFFICES ASSUME Booking!Init PROVE BookingInv
  OBVIOUS
<1> DEFINE b == [shares |-> 0, booked |-> [k \in Keys |-> [in |-> 0, out |-> 0]], recorded |-> {},
                 trades |-> [k \in Keys |-> [in |-> 0, out |-> 0]], resolved |-> 0]
<1>1. oAdt = b /\ oSaved = b
  BY DEF Booking!Init, Booking!NewBook, Booking!None
<1>2. /\ oAlp = [k \in Keys |-> [in |-> 0, out |-> 0, st |-> "none"]]
      /\ oCtl = [k \in Keys |-> [in |-> 0, out |-> 0, st |-> "none"]]
      /\ oRow = [k \in Keys |-> [in |-> 0, out |-> 0, st |-> "none"]]
      /\ oMode = "on"
  BY DEF Booking!Init, Booking!Unsent
<1>3. b \in Account
  BY DEF Account, Pair
<1>4. Open(b) = 0
  <2> DEFINE f == [k \in Keys |-> b.booked[k].in - b.booked[k].out]
  <2>1. \A k \in Keys : f[k] = 0
    OBVIOUS
  <2>2. Open(b) = Sum(f, Keys)
    BY DEF Open
  <2> HIDE DEF f
  <2> QED BY <2>1, <2>2, BookingAssumption, SumZero
<1>5. Kept(b, oAlp)
  <2>1. \A k \in Keys : b.booked[k].in = 0 /\ b.booked[k].out = 0 /\ oAlp[k].in = 0 /\ oAlp[k].out = 0
    BY <1>2
  <2>2. b.shares = 0 /\ b.resolved = 0 /\ b.recorded = {}
    OBVIOUS
  <2> HIDE DEF b
  <2> QED BY <1>3, <1>4, <2>1, <2>2 DEF Kept
<1>6. Seen(oCtl, oAlp) /\ Seen(oRow, oAlp)
  BY <1>2 DEF Seen, Known
<1>7. oAdt.resolved = 0 /\ oSaved.resolved = 0
  BY <1>1
<1>8. oAlp \in [Keys -> Actual] /\ \A k \in Keys : oAlp[k].in = 0 /\ oAlp[k].out = 0 /\ oAlp[k].st = "none"
  BY <1>2 DEF Actual
<1> HIDE DEF b
<1> QED BY <1>1, <1>2, <1>5, <1>6, <1>7, <1>8 DEF BookingInv

(* What Alpaca does to one position.                                       *)
LEMMA AlpacaKeeps ==
  ASSUME BookingInv, NEW k \in Keys, NEW n \in Actual, n.out <= n.in, oAlp[k].st # "none", n.st # "none",
         ~Over(oAlp, k), oAlp[k].in <= n.in, oAlp[k].out <= n.out,
         oAlp' = [oAlp EXCEPT ![k] = n], UNCHANGED <<oCtl, oRow, oMode, oAdt, oSaved>>
  PROVE  BookingInv'
<1>1. oAlp' \in [Keys -> Actual] /\ oAlp \in [Keys -> Actual]
  BY DEF BookingInv
<1>2. Grows(oAlp, oAlp')
  BY <1>1 DEF Grows, Actual
<1>3. Seen(oCtl, oAlp') /\ Seen(oRow, oAlp')
  BY <1>1, <1>2, SeenLater DEF BookingInv
<1>4. Kept(oAdt, oAlp') /\ Kept(oSaved, oAlp')
  BY <1>1, <1>2, KeptLater DEF BookingInv
<1>5. \A j \in Keys : /\ oAlp'[j].out <= oAlp'[j].in
                      /\ oAlp'[j].st = "none" => oAlp'[j].in = 0 /\ oAlp[j].st = "none"
                      /\ oAlp[j].st = "none" => oAlp'[j].st = "none"
  BY <1>1 DEF BookingInv
<1>6. Seen(oCtl, oAlp)' /\ Seen(oRow, oAlp)'
  BY <1>3 DEF Seen, Over
<1>7. Kept(oAdt, oAlp)' /\ Kept(oSaved, oAlp)'
  <2>1. Open(oAdt)' = Open(oAdt) /\ Open(oSaved)' = Open(oSaved)
    BY DEF Open
  <2> QED BY <1>4, <2>1 DEF Kept, Over
<1> QED BY <1>1, <1>5, <1>6, <1>7 DEF BookingInv

LEMMA SyncKept ==
  ASSUME NEW a \in [Keys -> Actual], Seen(oCtl, a), Kept(oAdt, a), oAdt.resolved = 0
  PROVE  Kept(Booking!Synced(oAdt), a) /\ Booking!Synced(oAdt).resolved = 0
<1> DEFINE e == Counted(oCtl, oAdt)
<1>1. /\ Kept(e, a) /\ e.resolved = 0
      /\ \A k \in Keys : oCtl[k].in <= e.booked[k].in /\ oCtl[k].out <= e.booked[k].out
  BY CountedKept
<1>2. Booking!Synced(oAdt) = Booking!WithTrades(e)
  BY BookedIs DEF Booking!Synced
<1> HIDE DEF e
<1> QED BY <1>1, <1>2, TradesKept

(* While ORB runs, nothing is left to resolve by hand.                     *)
LEMMA NoOrphan ==
  ASSUME BookingInv, oMode = "on", ~Booking!Active(oCtl), Booking!AlpacaClear, Booking!Booked(oAdt) = oAdt
  PROVE  oAdt.shares = 0
<1>1. oAlp \in [Keys -> Actual] /\ Seen(oCtl, oAlp) /\ Kept(oAdt, oAlp) /\ oAdt.resolved = 0 /\ oAdt \in Account
  BY DEF BookingInv, Kept
<1> DEFINE e == Counted(oCtl, oAdt)
<1>2. \A k \in Keys : oCtl[k].in <= e.booked[k].in /\ oCtl[k].out <= e.booked[k].out
  BY <1>1, CountedKept
<1>3. e = oAdt
  BY BookedIs
<1> HIDE DEF e
<1> DEFINE f == [k \in Keys |-> oAdt.booked[k].in - oAdt.booked[k].out]
<1>4. ASSUME NEW k \in Keys PROVE f[k] = 0
  <2>1. oAdt.booked[k].in \in Nat /\ oAdt.booked[k].out \in Nat /\ oAlp[k].in \in Nat /\ oAlp[k].out \in Nat
    BY <1>1 DEF Account, Pair, Actual
  <2>2. oAlp[k].in = oAlp[k].out
    BY DEF Booking!AlpacaClear
  <2>3. /\ oAdt.booked[k].in <= oAlp[k].in /\ oAdt.booked[k].out <= oAlp[k].out
        /\ oCtl[k].in <= oAdt.booked[k].in /\ oCtl[k].out <= oAdt.booked[k].out
    BY <1>1, <1>2, <1>3 DEF Kept
  <2>4. oCtl[k].st \in {"none", "closed"}
    BY <1>1 DEF Seen, Known, Booking!Active
  <2>5. CASE oCtl[k].st = "none"
    <3>1. oAlp[k].in = 0
      BY <2>5 DEF BookingInv
    <3> QED BY <2>1, <2>2, <2>3, <3>1
  <2>6. CASE oCtl[k].st = "closed"
    <3>1. oCtl[k].in = oAlp[k].in /\ oCtl[k].out = oAlp[k].out
      BY <1>1, <2>6 DEF Seen
    <3> QED BY <2>1, <2>2, <2>3, <3>1
  <2> QED BY <2>4, <2>5, <2>6
<1>5. Open(oAdt) = Sum(f, Keys)
  BY DEF Open
<1> HIDE DEF f
<1>6. Open(oAdt) = 0
  BY <1>4, <1>5, BookingAssumption, SumZero
<1> QED BY <1>1, <1>6 DEF Kept

(* The steps that leave Alpaca alone.                                      *)
LEMMA BookingRest ==
  ASSUME BookingInv, UNCHANGED oAlp, Seen(oCtl', oAlp), Seen(oRow', oAlp), Kept(oAdt', oAlp), Kept(oSaved', oAlp),
         oMode' \in {"on", "off"}, oMode' = "on" => oAdt'.resolved = 0 /\ oSaved'.resolved = 0,
         oMode' = "on" => \A k \in Keys : oCtl'[k].st = "none" => oAlp[k].st = "none",
         \A k \in Keys : oRow'[k].st = "none" => oAlp[k].st = "none"
  PROVE  BookingInv'
<1>1. Seen(oCtl, oAlp)' /\ Seen(oRow, oAlp)'
  BY DEF Seen, Over
<1>2. Kept(oAdt, oAlp)' /\ Kept(oSaved, oAlp)'
  <2>1. Open(oAdt)' = Open(oAdt') /\ Open(oSaved)' = Open(oSaved')
    BY DEF Open
  <2> QED BY <2>1 DEF Kept, Over
<1> QED BY <1>1, <1>2 DEF BookingInv

LEMMA BookingStep == ~Late /\ ~Recover /\ BookingInv /\ (Booking!Next \/ UNCHANGED o) => BookingInv'
<1> SUFFICES ASSUME ~Late, ~Recover, BookingInv, Booking!Next \/ UNCHANGED o PROVE BookingInv'
  OBVIOUS
<1>1. /\ oAlp \in [Keys -> Actual] /\ Seen(oCtl, oAlp) /\ Seen(oRow, oAlp)
      /\ Kept(oAdt, oAlp) /\ Kept(oSaved, oAlp) /\ oAdt \in Account /\ oSaved \in Account
      /\ oCtl \in [Keys -> Known] /\ oRow \in [Keys -> Known]
  BY DEF BookingInv, Kept, Seen
<1>2. \A k \in Keys : /\ oAlp[k] \in Actual
                      /\ oAlp[k].in \in Nat /\ oAlp[k].out \in Nat /\ oAlp[k].st \in {"none", "live", "done"}
                      /\ oAlp[k].out <= oAlp[k].in /\ (oAlp[k].st = "none" => oAlp[k].in = 0)
  BY <1>1 DEF BookingInv, Actual
<1>3. ASSUME NEW k \in Keys, Booking!Send(k) PROVE BookingInv'
  <2> DEFINE a2 == [oAlp EXCEPT ![k].st = "live"]
             x == [oCtl EXCEPT ![k].st = "active"]
  <2>1. oAlp' = a2 /\ oCtl' = x /\ oRow' = x /\ oAlp[k].st = "none" /\ oMode = "on" /\ UNCHANGED <<oMode, oAdt, oSaved>>
    BY <1>3 DEF Booking!Send
  <2>2. a2 \in [Keys -> Actual]
    BY <1>1 DEF Actual
  <2>3. Grows(oAlp, a2)
    BY <1>1, <1>2, <2>1 DEF Grows, Over
  <2>4. Kept(oAdt, a2) /\ Kept(oSaved, a2)
    BY <1>1, <2>2, <2>3, KeptLater
  <2>5. Seen(oCtl, a2)
    BY <1>1, <2>2, <2>3, SeenLater
  <2>6. x \in [Keys -> Known]
    BY <1>1 DEF Known
  <2>7. \A j \in Keys : x[j].in = oCtl[j].in /\ x[j].out = oCtl[j].out /\ x[j].st = IF j = k THEN "active" ELSE oCtl[j].st
    BY <1>1 DEF Known
  <2>8. Seen(x, a2)
    <3> HIDE DEF x, a2
    <3> QED BY <2>5, <2>6, <2>7 DEF Seen
  <2>9. \A j \in Keys : /\ a2[j].in = oAlp[j].in /\ a2[j].out = oAlp[j].out
                        /\ a2[j].st = IF j = k THEN "live" ELSE oAlp[j].st
    BY <1>1 DEF Actual
  <2> HIDE DEF a2, x
  <2>10. Seen(oCtl, oAlp)' /\ Seen(oRow, oAlp)'
    BY <2>1, <2>8 DEF Seen, Over
  <2>11. Kept(oAdt, oAlp)' /\ Kept(oSaved, oAlp)'
    <3>1. Open(oAdt)' = Open(oAdt) /\ Open(oSaved)' = Open(oSaved)
      BY <2>1 DEF Open
    <3> QED BY <2>1, <2>4, <3>1 DEF Kept, Over
  <2> QED BY <1>2, <2>1, <2>2, <2>7, <2>9, <2>10, <2>11 DEF BookingInv
<1>4. ASSUME NEW k \in Keys, Booking!FillEntry(k) PROVE BookingInv'
  <2> DEFINE n == [oAlp[k] EXCEPT !.in = @ + 1, !.st = IF oAlp[k].in + 1 = Size THEN "done" ELSE @]
  <2>1. oAlp[k].st = "live" /\ oAlp' = [oAlp EXCEPT ![k] = n] /\ UNCHANGED <<oCtl, oRow, oMode, oAdt, oSaved>>
    BY <1>4 DEF Booking!FillEntry
  <2>2. n \in Actual /\ n.in = oAlp[k].in + 1 /\ n.out = oAlp[k].out /\ n.st \in {"live", "done"}
    <3> DEFINE s == IF oAlp[k].in + 1 = Size THEN "done" ELSE oAlp[k].st
               i == oAlp[k].in + 1
    <3>1. n = [oAlp[k] EXCEPT !.in = i, !.st = s] /\ s \in {"live", "done"} /\ i \in Nat
      BY <1>2, <2>1
    <3>2. oAlp[k] \in Actual
      BY <1>2
    <3> HIDE DEF n, s, i
    <3>3. n = [in |-> i, out |-> oAlp[k].out, st |-> s]
      BY <3>1, <3>2 DEF Actual
    <3> QED BY <3>1, <3>2, <3>3 DEF Actual, i
  <2> HIDE DEF n
  <2>3. ~Over(oAlp, k) /\ oAlp[k].st # "none" /\ n.st # "none" /\ oAlp[k].in <= n.in /\ oAlp[k].out <= n.out /\ n.out <= n.in
    BY <1>2, <2>1, <2>2 DEF Over
  <2> QED BY <2>1, <2>2, <2>3, AlpacaKeeps
<1>5. ASSUME NEW k \in Keys, Booking!FillExit(k) PROVE BookingInv'
  <2> DEFINE n == [oAlp[k] EXCEPT !.out = @ + 1]
  <2>1. oAlp[k].out < oAlp[k].in /\ oAlp' = [oAlp EXCEPT ![k] = n] /\ UNCHANGED <<oCtl, oRow, oMode, oAdt, oSaved>>
    BY <1>5 DEF Booking!FillExit
  <2>2. n \in Actual /\ n.in = oAlp[k].in /\ n.out = oAlp[k].out + 1 /\ n.st = oAlp[k].st
    BY <1>2, <2>1 DEF Actual
  <2> HIDE DEF n
  <2>3. oAlp[k].st # "none"
    BY <1>2, <2>1
  <2>4. ~Over(oAlp, k) /\ n.st # "none" /\ oAlp[k].in <= n.in /\ oAlp[k].out <= n.out /\ n.out <= n.in
    BY <1>2, <2>1, <2>2, <2>3 DEF Over
  <2> QED BY <2>1, <2>2, <2>3, <2>4, AlpacaKeeps
<1>6. ASSUME NEW k \in Keys, Booking!EntryEnds(k) PROVE BookingInv'
  <2> DEFINE n == [oAlp[k] EXCEPT !.st = "done"]
  <2>1. oAlp[k].st = "live" /\ oAlp' = [oAlp EXCEPT ![k] = n] /\ UNCHANGED <<oCtl, oRow, oMode, oAdt, oSaved>>
    BY <1>6 DEF Booking!EntryEnds
  <2>2. n \in Actual /\ n.in = oAlp[k].in /\ n.out = oAlp[k].out /\ n.st = "done"
    BY <1>2, <2>1 DEF Actual
  <2> HIDE DEF n
  <2>3. ~Over(oAlp, k) /\ oAlp[k].st # "none" /\ n.st # "none" /\ oAlp[k].in <= n.in /\ oAlp[k].out <= n.out /\ n.out <= n.in
    BY <1>2, <2>1, <2>2 DEF Over
  <2> QED BY <2>1, <2>2, <2>3, AlpacaKeeps
<1>7. ASSUME NEW k \in Keys, Booking!Arrives(k) \/ Booking!NotFound(k) PROVE BookingInv'
  BY <1>2, <1>7 DEF Booking!Arrives, Booking!NotFound
<1>8. ASSUME NEW k \in Keys, Booking!Merge(k) PROVE BookingInv'
  <2> DEFINE n == Booking!Shown(k)
  <2>1. /\ oAlp[k].st \in {"live", "done"} /\ oCtl' = [oCtl EXCEPT ![k] = n]
        /\ UNCHANGED <<oAlp, oRow, oMode, oAdt, oSaved>>
    BY <1>8 DEF Booking!Merge
  <2>2. /\ n \in Known /\ n.in = oAlp[k].in /\ n.out = oAlp[k].out /\ n.st # "none"
        /\ n.st = "closed" => Over(oAlp, k)
    <3>1. n = [in |-> oAlp[k].in, out |-> oAlp[k].out,
               st |-> IF oAlp[k].st = "live" \/ oAlp[k].in > oAlp[k].out THEN "active" ELSE "closed"]
      BY DEF Booking!Shown
    <3>2. oAlp[k].in \in Nat /\ oAlp[k].out \in Nat /\ oAlp[k].out <= oAlp[k].in
      BY <1>2
    <3> HIDE DEF n
    <3>3. n \in Known /\ n.in = oAlp[k].in /\ n.out = oAlp[k].out
          /\ n.st = IF oAlp[k].st = "live" \/ oAlp[k].in > oAlp[k].out THEN "active" ELSE "closed"
      BY <3>1, <3>2 DEF Known
    <3> QED BY <2>1, <3>2, <3>3 DEF Over
  <2> HIDE DEF n
  <2>3. Seen(oCtl', oAlp)
    <3>1. oCtl' \in [Keys -> Known]
      BY <1>1, <2>1, <2>2
    <3>2. \A j \in Keys : oCtl'[j] = IF j = k THEN n ELSE oCtl[j]
      BY <1>1, <2>1
    <3> QED BY <1>1, <1>2, <2>2, <3>1, <3>2 DEF Seen
  <2>4. \A j \in Keys : oCtl'[j].st = "none" => oCtl[j].st = "none"
    BY <1>1, <2>1, <2>2
  <2> QED BY <1>1, <2>1, <2>3, <2>4, BookingRest DEF BookingInv
<1>9. ASSUME Booking!SaveRow PROVE BookingInv'
  BY <1>1, <1>9, BookingRest DEF Booking!SaveRow, BookingInv
<1>10. ASSUME Booking!Checkpoint PROVE BookingInv'
  BY <1>1, <1>10, BookingRest DEF Booking!Checkpoint, BookingInv
<1>11. ASSUME Booking!Resolve PROVE BookingInv'
  <2> DEFINE e == [oAdt EXCEPT !.shares = 0, !.resolved = @ + oAdt.shares]
  <2>1. /\ oAdt.shares # 0 /\ ~Booking!Active(oCtl) /\ Booking!AlpacaClear /\ (oMode = "on" => Booking!Booked(oAdt) = oAdt)
        /\ oAdt' = e /\ oSaved' = e /\ UNCHANGED <<oAlp, oCtl, oRow, oMode>>
    BY <1>11 DEF Booking!Resolve, Booking!Orphan
  <2>2. oMode = "off"
    <3>1. oMode \in {"on", "off"}
      BY DEF BookingInv
    <3> QED BY <2>1, <3>1, NoOrphan
  <2>3. /\ e \in Account /\ e.shares = 0 /\ e.resolved = oAdt.resolved + oAdt.shares
        /\ e.booked = oAdt.booked /\ e.recorded = oAdt.recorded /\ e.trades = oAdt.trades
    <3> DEFINE r == oAdt.resolved + oAdt.shares
    <3>1. e = [oAdt EXCEPT !.shares = 0, !.resolved = r] /\ r \in Int
      BY <1>1 DEF Account
    <3> HIDE DEF r, e
    <3>2. e = [shares |-> 0, booked |-> oAdt.booked, recorded |-> oAdt.recorded, trades |-> oAdt.trades, resolved |-> r]
      BY <1>1, <3>1 DEF Account
    <3> QED BY <1>1, <3>1, <3>2 DEF Account, r
  <2> HIDE DEF e
  <2>4. Open(e) = Open(oAdt) /\ Open(oAdt) \in Int
    <3> DEFINE f == [k \in Keys |-> oAdt.booked[k].in - oAdt.booked[k].out]
    <3>1. Open(e) = Open(oAdt) /\ Open(oAdt) = Sum(f, Keys)
      BY <2>3 DEF Open
    <3>2. \A k \in Keys : f[k] \in Int
      BY <1>1 DEF Account, Pair
    <3> HIDE DEF f
    <3> QED BY <3>1, <3>2, BookingAssumption, SumType
  <2>5. oAdt.shares = Open(oAdt) - oAdt.resolved /\ oAdt.shares \in Int /\ oAdt.resolved \in Int
    BY <1>1 DEF Kept, Account
  <2>6. e.shares = Open(e) - e.resolved /\ e.shares >= 0
    BY <2>3, <2>4, <2>5
  <2>7. Kept(e, oAlp)
    BY <1>1, <2>3, <2>6 DEF Kept
  <2> QED BY <1>1, <2>1, <2>2, <2>7, BookingRest DEF BookingInv
<1>12. ASSUME NEW b \in BOOLEAN, Booking!Sync(b) PROVE BookingInv'
  <2>1. /\ oMode = "on" /\ oAdt' = Booking!Synced(oAdt) /\ (oSaved' = oAdt' \/ oSaved' = oSaved)
        /\ UNCHANGED <<oAlp, oCtl, oRow, oMode>>
    BY <1>12 DEF Booking!Sync
  <2>2. Kept(oAdt', oAlp) /\ oAdt'.resolved = 0
    BY <1>1, <2>1, SyncKept DEF BookingInv
  <2> QED BY <1>1, <2>1, <2>2, BookingRest DEF BookingInv
<1>13. ASSUME NEW b \in BOOLEAN, Booking!Restart(b) PROVE BookingInv'
  <2>1. /\ oMode = "off" => b
        /\ oAdt' = oSaved /\ oMode' = (IF b THEN "off" ELSE "on")
        /\ oCtl' = (IF b THEN [k \in Keys |-> [in |-> 0, out |-> 0, st |-> "none"]] ELSE oRow)
        /\ UNCHANGED <<oAlp, oRow, oSaved>>
    BY <1>13 DEF Booking!Restart, Booking!Restored, Booking!Unsent
  <2>2. Seen([k \in Keys |-> [in |-> 0, out |-> 0, st |-> "none"]], oAlp)
    <3> DEFINE x == [k \in Keys |-> [in |-> 0, out |-> 0, st |-> "none"]]
    <3>1. x \in [Keys -> Known] /\ \A k \in Keys : x[k].in = 0 /\ x[k].out = 0 /\ x[k].st = "none"
      BY DEF Known
    <3> HIDE DEF x
    <3>2. Seen(x, oAlp)
      BY <1>2, <3>1 DEF Seen
    <3> QED BY <3>2 DEF x
  <2>3. Seen(oCtl', oAlp)
    BY <1>1, <2>1, <2>2
  <2> QED BY <1>1, <2>1, <2>3, BookingRest DEF BookingInv
<1>14. ASSUME UNCHANGED o PROVE BookingInv'
  BY <1>1, <1>14, BookingRest DEF o, BookingInv
<1> QED BY <1>3, <1>4, <1>5, <1>6, <1>7, <1>8, <1>9, <1>10, <1>11, <1>12, <1>13, <1>14 DEF Booking!Next

(* What the invariant says of the properties.                              *)
LEMMA CountedSum ==
  Booking!MapThenSumSet(LAMBDA k : oAdt.booked[k].in - oAdt.booked[k].out, Keys) = Open(oAdt)
<1> DEFINE f == [k \in Keys |-> oAdt.booked[k].in - oAdt.booked[k].out]
           G(T) == CHOOSE y \in T : TRUE
<1>1. ASSUME NEW g
      PROVE  [T \in SUBSET Keys |-> IF T = {} THEN 0 ELSE f[Pick(T)] + g[T \ {Pick(T)}]]
               = [T \in SUBSET Keys |-> IF T = {} THEN 0 ELSE (oAdt.booked[G(T)].in - oAdt.booked[G(T)].out) + g[T \ {G(T)}]]
  <2> SUFFICES ASSUME NEW T \in SUBSET Keys, T # {}
               PROVE  f[Pick(T)] = oAdt.booked[G(T)].in - oAdt.booked[G(T)].out /\ Pick(T) = G(T)
    BY Zenon
  <2> QED BY PickIn DEF Pick
<1>2. \A g : Adds(g, f, Keys)
             <=> g = [T \in SUBSET Keys |-> IF T = {} THEN 0 ELSE (oAdt.booked[G(T)].in - oAdt.booked[G(T)].out) + g[T \ {G(T)}]]
  BY <1>1 DEF Adds
<1>3. Partial(f, Keys) = CHOOSE g : g = [T \in SUBSET Keys |-> IF T = {} THEN 0 ELSE (oAdt.booked[G(T)].in - oAdt.booked[G(T)].out) + g[T \ {G(T)}]]
  BY <1>2 DEF Partial
<1> QED BY <1>3 DEF Open, Sum, Booking!MapThenSumSet, Booking!MapThenFoldSet

LEMMA BookingExplained == BookingInv => Booking!BookIsOrb /\ Booking!TradeIsWhole
<1> SUFFICES ASSUME BookingInv PROVE Booking!BookIsOrb /\ Booking!TradeIsWhole
  OBVIOUS
<1>1. oAlp \in [Keys -> Actual] /\ Kept(oAdt, oAlp) /\ oAdt \in Account
  BY DEF BookingInv, Kept
<1>2. ASSUME NEW k \in Keys, NEW l \in {"in", "out"} PROVE oAdt.booked[k][l] <= oAlp[k][l]
  <2>1. oAdt.booked[k].in <= oAlp[k].in /\ oAdt.booked[k].out <= oAlp[k].out
    BY <1>1 DEF Kept
  <2> QED BY <2>1
<1>3. Booking!BookIsOrb
  <2> DEFINE counted == Booking!MapThenSumSet(LAMBDA k : oAdt.booked[k].in - oAdt.booked[k].out, Keys)
  <2>1. counted = Open(oAdt)
    BY CountedSum
  <2>2. Booking!BookIsOrb <=> /\ oAdt.shares = counted - oAdt.resolved /\ oAdt.shares >= 0
                              /\ \A k \in Keys, l \in {"in", "out"} : oAdt.booked[k][l] <= oAlp[k][l]
    BY DEF Booking!BookIsOrb, Booking!Legs
  <2> HIDE DEF counted
  <2> QED BY <1>1, <1>2, <2>1, <2>2 DEF Kept
<1>4. Booking!TradeIsWhole
  <2> SUFFICES ASSUME NEW k \in oAdt.recorded
               PROVE  oAdt.trades[k] = oAdt.booked[k] /\ oAdt.trades[k].in = oAdt.trades[k].out
    BY DEF Booking!TradeIsWhole
  <2> QED BY <1>1 DEF Kept, Over
<1> QED BY <1>3, <1>4

-----------------------------------------------------------------------------
(* One event under every fault: the proofs of the inbox, of its variables. *)
AnyP == INSTANCE InboxProofs WITH Events <- AnyEvents, Quotes <- AnyQuotes, Arming <- AnyArming,
  MaxNotes <- 2, Faults <- {"crash", "save", "begin", "nested", "orders", "escape"}, inbox <- dInbox,
  disk <- dDisk, log <- dLog, notes <- dNotes, armed <- dArmed, inflight <- dInflight, marked <- dMarked,
  run <- dRun, boot <- dBoot, todo <- dTodo, promised <- dPromised, healthy <- dHealthy

LEMMA AnyAssumptions == AnyP!EventsAssumption /\ AnyP!NotesAssumption /\ AnyP!FaultsAssumption
BY AnyAssumption DEF AnyP!EventsAssumption, AnyP!NotesAssumption, AnyP!FaultsAssumption, AnyP!AllFaults

(* What MCBooks names through DurableInbox is what InboxProofs proves of.  *)
LEMMA SameWords ==
  /\ Any!Idle = AnyP!Idle /\ Any!Applied = AnyP!Applied /\ Any!NextRow = AnyP!NextRow /\ Any!Pending = AnyP!Pending
  /\ Any!Serving = AnyP!Serving /\ Any!Replaying = AnyP!Replaying
  /\ \A e : Any!WriteAhead(e) = AnyP!WriteAhead(e)
  /\ \A e : Any!ArmedAfter(e) = AnyP!ArmedAfter(e)
BY DEF Any!Idle, AnyP!Idle, Any!Applied, AnyP!Applied, Any!NextRow, AnyP!NextRow, Any!Pending, AnyP!Pending, Any!Serving, AnyP!Serving, Any!Replaying, AnyP!Replaying, Any!WriteAhead, AnyP!WriteAhead, Any!ArmedAfter, AnyP!ArmedAfter

LEMMA SameCheckpoint == \A own, l, n, a, ok : Any!Checkpoint(own, l, n, a, ok) => AnyP!Checkpoint(own, l, n, a, ok)
<1>1. \A own, l, n, a : Any!Saved(own, l, n, a) = AnyP!Saved(own, l, n, a)
  BY DEF Any!Saved, AnyP!Saved
<1>2. \A own, a : Any!NotSaved(own, a) = AnyP!NotSaved(own, a)
  BY DEF Any!NotSaved, AnyP!NotSaved
<1>3. \A own : Any!PutOff(own) = AnyP!PutOff(own)
  BY DEF Any!PutOff, AnyP!PutOff
<1> QED BY <1>1, <1>2, <1>3 DEF Any!Checkpoint, AnyP!Checkpoint

LEMMA SameBegin == \A e : (Any!Begin(e) => AnyP!Begin(e)) /\ (Any!NotBegun(e) => AnyP!NotBegun(e))
BY SameWords DEF Any!Begin, AnyP!Begin, Any!NotBegun, AnyP!NotBegun, Any!Committed, AnyP!Committed, Any!Staged, AnyP!Staged

LEMMA SameRestart == (Any!Restart => AnyP!Restart) /\ (Any!Crash => AnyP!Crash)
BY SameWords DEF Any!Restart, AnyP!Restart, Any!Crash, AnyP!Crash

LEMMA SameHandlers == Any!Handlers => AnyP!Handlers
<1>1. \A e : (Any!Deliver(e) => AnyP!Deliver(e)) /\ (Any!DropEvent(e) => AnyP!DropEvent(e))
  BY SameWords, SameBegin DEF Any!Deliver, AnyP!Deliver, Any!DropEvent, AnyP!DropEvent
<1>2. \A ok : Any!NestedCheckpoint(ok) => AnyP!NestedCheckpoint(ok)
  BY SameWords, SameCheckpoint DEF Any!NestedCheckpoint, AnyP!NestedCheckpoint
<1>3. \A ok : Any!Finish(ok) => AnyP!Finish(ok)
  BY SameWords, SameCheckpoint DEF Any!Finish, AnyP!Finish
<1>4. Any!Escape => AnyP!Escape
  BY SameWords DEF Any!Escape, AnyP!Escape
<1> QED BY <1>1, <1>2, <1>3, <1>4 DEF Any!Handlers, AnyP!Handlers

LEMMA SameOutside == Any!Outside => AnyP!Outside
<1>1. \A ok, a : Any!Note(ok, a) => AnyP!Note(ok, a)
  BY SameWords, SameCheckpoint DEF Any!Note, AnyP!Note
<1>2. \A ok : (Any!Intent(ok) => AnyP!Intent(ok)) /\ (Any!RetryCheckpoint(ok) => AnyP!RetryCheckpoint(ok))
  BY SameWords, SameCheckpoint DEF Any!Intent, AnyP!Intent, Any!RetryCheckpoint, AnyP!RetryCheckpoint
<1> QED BY <1>1, <1>2 DEF Any!Outside, AnyP!Outside

LEMMA SameStartup == Any!Startup => AnyP!Startup
<1>1. \A ok : Any!BookLateFills(ok) => AnyP!BookLateFills(ok)
  BY SameWords, SameCheckpoint DEF Any!BookLateFills, AnyP!BookLateFills
<1>2. Any!StartReplay => AnyP!StartReplay
  BY SameWords DEF Any!StartReplay, AnyP!StartReplay
<1>3. Any!Replay => AnyP!Replay
  BY SameWords, SameBegin DEF Any!Replay, AnyP!Replay
<1>4. Any!ReplaySkips => AnyP!ReplaySkips
  BY SameWords, SameBegin DEF Any!ReplaySkips, AnyP!ReplaySkips
<1>5. Any!ReplayRetry => AnyP!ReplayRetry
  BY SameWords, SameCheckpoint, SameRestart DEF Any!ReplayRetry, AnyP!ReplayRetry
<1>6. Any!StartServing => AnyP!StartServing
  BY SameWords DEF Any!StartServing, AnyP!StartServing
<1> QED BY <1>1, <1>2, <1>3, <1>4, <1>5, <1>6 DEF Any!Startup, AnyP!Startup

LEMMA AnyStarts == Any!Init => AnyP!NInv
<1>1. Any!Init => AnyP!Init
  BY SameWords DEF Any!Init, AnyP!Init
<1> QED BY <1>1, AnyAssumptions, AnyP!NothingLostYet

LEMMA AnyKeeps == AnyP!NInv /\ (Any!Next \/ UNCHANGED d) => AnyP!NInv'
<1>1. Any!Next => AnyP!Next
  BY SameHandlers, SameOutside, SameStartup, SameRestart DEF Any!Next, AnyP!Next
<1>2. UNCHANGED d => UNCHANGED AnyP!vars
  BY DEF d, AnyP!vars
<1> QED BY <1>1, <1>2, AnyAssumptions, AnyP!LosesNothing

LEMMA AnyLosesNothing == AnyP!NInv => Any!NoEventLost
BY DEF AnyP!NInv, AnyP!NoEventLost, Any!NoEventLost

-----------------------------------------------------------------------------
(* The parts together                                                      *)

CashTurn == turn = "cash" => CashInv
OrbTurn  == turn = "orb" => BookingInv
AnyTurn  == turn = "any fault" => AnyP!NInv

LEMMA TurnsStart == BooksInit => CashTurn /\ AnyTurn /\ (~Late => OrbTurn)
BY CashInit, BookingInit, AnyStarts DEF BooksInit, CashTurn, OrbTurn, AnyTurn

LEMMA Moves ==
  ASSUME [PartsNext]_all
  PROVE  /\ turn' = turn
         /\ turn = "cash" => Ledger!Next \/ UNCHANGED c
         /\ turn = "orb" => Booking!Next \/ UNCHANGED o
         /\ turn = "any fault" => Any!Next \/ UNCHANGED d
BY DEF PartsNext, all, InInbox, InAny, InLedger, InBooking

LEMMA TurnsStep ==
  /\ CashTurn /\ [PartsNext]_all => CashTurn'
  /\ AnyTurn /\ [PartsNext]_all => AnyTurn'
  /\ ~Late /\ ~Recover /\ OrbTurn /\ [PartsNext]_all => OrbTurn'
<1>1. CashTurn /\ [PartsNext]_all => CashTurn'
  BY Moves, CashStep DEF CashTurn
<1>2. AnyTurn /\ [PartsNext]_all => AnyTurn'
  BY Moves, AnyKeeps DEF AnyTurn
<1>3. ~Late /\ ~Recover /\ OrbTurn /\ [PartsNext]_all => OrbTurn'
  BY Moves, BookingStep DEF OrbTurn
<1> QED BY <1>1, <1>2, <1>3

(* Of the event whose handler any fault may hit, the inbox never says that *)
(* it is done unless the saved state has all it does.                      *)
THEOREM AnyEventKept == BooksSpec => []AnyKeepsAll
<1>1. BooksInit => AnyTurn
  BY TurnsStart
<1>2. AnyTurn /\ [PartsNext]_all => AnyTurn'
  BY TurnsStep
<1>3. AnyTurn => AnyKeepsAll
  BY AnyLosesNothing DEF AnyTurn, AnyKeepsAll
<1> QED BY <1>1, <1>2, <1>3, PTL DEF BooksSpec

(* The equity is what the fills, fees and marks make it, an approved order *)
(* has its margin when it is filled, and the account's ORB shares are the  *)
(* fills counted, with whole trade rows: for any symbols, prices, sizes    *)
(* and positions, where no entry called not found turns up and no          *)
(* unreadable row is read again (section 7 says what those two do).        *)
THEOREM BooksExplained == ~Late /\ ~Recover => (BooksSpec => []BooksAreExplained)
<1> SUFFICES ASSUME ~Late, ~Recover PROVE BooksSpec => []BooksAreExplained
  OBVIOUS
<1> DEFINE J == CashTurn /\ OrbTurn
<1>1. BooksInit => J
  BY TurnsStart
<1>2. J /\ [PartsNext]_all => J'
  BY TurnsStep
<1>3. J => BooksAreExplained
  BY Explained, Backed, BookingExplained DEF CashTurn, OrbTurn, BooksAreExplained
<1> QED BY <1>1, <1>2, <1>3, PTL DEF BooksSpec

=============================================================================
