------------------------------- MODULE RelayAnswer -------------------------------
(***************************************************************************)
(* A read of the relay by the scan: attempts with pauses under one         *)
(* deadline, a bounded answer cache that the threads share and that serves *)
(* only when every attempt failed, and the age checks of the latest quote. *)
(* Source: strategies/orbs/market.py (RelayClient).                        *)
(*                                                                         *)
(* An answer is the time of the quote in it.  The bytes of a body count    *)
(* only in that one cut short fails like a broken connection; caches of a  *)
(* caller and the eight hours of metadata are left out.                    *)
(***************************************************************************)
EXTENDS Integers, FiniteSets, FiniteSetsExt

CONSTANTS
  Workers, Keys,      \* the threads of the scan, the addresses they read
  Retries, Timeout,   \* max_retries, timeout
  Backoff,            \* the pauses a deadline allows for
  Pauses,             \* of a retry: its own, or the relay's Retry-After
  Ttl, MaxEntries,    \* of the cache
  MaxAge,             \* MAX_QUOTE_AGE_S
  Stamped,            \* quotes carry their time
  End, MaxCalls       \* bounds

VARIABLES
  now,
  cache,      \* answers kept: when stored, and the time of the quote
  call,       \* the read each thread is at
  calls

vars == <<now, cache, call, calls>>

None   == -1
Budget == Retries * Timeout + Backoff

Entry == [at : Nat, quote : Nat]
Idle  == [st |-> "idle", key |-> None, due |-> 0, attempt |-> 0, until |-> 0, quote |-> None, began |-> 0]
Error == [Idle EXCEPT !.st = "error"]

TypeOK ==
  /\ now \in 0 .. End /\ calls \in 0 .. MaxCalls
  /\ \A k \in DOMAIN cache : k \in Keys /\ cache[k] \in Entry
  /\ \A w \in Workers : call[w].st \in {"idle", "asking", "pausing", "failed", "reading", "done", "error"}

Init ==
  /\ now = 0 /\ cache = <<>> /\ calls = 0 /\ call = [w \in Workers |-> Idle]

Smaller(a, b) == IF a < b THEN a ELSE b

-----------------------------------------------------------------------------
(* The cache                                                               *)

Kept(k) == k \in DOMAIN cache /\ now - cache[k].at <= Ttl

\* _cache_store: expired answers go, then the oldest ones above the bound
Stored(k, quote) ==
  LET put    == [j \in DOMAIN cache \cup {k} |-> IF j = k THEN [at |-> now, quote |-> quote] ELSE cache[j]]
      alive  == {j \in DOMAIN put : now - put[j].at <= Ttl}
      oldest == CHOOSE j \in alive : \A i \in alive : put[j].at <= put[i].at
      stays  == IF Cardinality(alive) > MaxEntries THEN alive \ {oldest} ELSE alive IN
  [j \in stays |-> put[j]]

-----------------------------------------------------------------------------
(* One read                                                                *)

\* An attempt may last to its timeout, and not past the deadline
Asked(c) == [c EXCEPT !.st = "asking", !.until = Smaller(now + Timeout, c.due)]

Begin(w, k) ==
  /\ call[w].st \in {"idle", "done", "error"} /\ calls < MaxCalls
  /\ calls' = calls + 1
  /\ call' = [call EXCEPT ![w] = Asked([Idle EXCEPT !.key = k, !.due = now + Budget, !.began = now])]
  /\ UNCHANGED <<now, cache>>

\* The answer of the relay is its last quote, this tick's or the one before
Answered(w, late) ==
  LET quote == IF late /\ now > 0 THEN now - 1 ELSE now IN
  /\ call[w].st = "asking"
  /\ cache' = Stored(call[w].key, quote)
  /\ call' = [call EXCEPT ![w].st = "reading", ![w].quote = quote]
  /\ UNCHANGED <<now, calls>>

\* 400, 401, 403, 404, 422: no further attempt, and no answer from the cache
Refused(w) ==
  /\ call[w].st = "asking"
  /\ call' = [call EXCEPT ![w] = Error]
  /\ UNCHANGED <<now, cache, calls>>

(* Fault: the pause may end after the deadline.                            *)
PausesAnyway(c, pause) == c.attempt + 1 < Retries

PausesFor(c, pause) == c.attempt + 1 < Retries /\ pause <= c.due - now

\* 429, 5xx, a timeout, a body cut short
Failed(w, pause) ==
  LET c == call[w] IN
  /\ c.st = "asking"
  /\ call' = [call EXCEPT ![w] =
       IF PausesFor(c, pause) THEN [c EXCEPT !.st = "pausing", !.until = now + pause, !.attempt = @ + 1]
       ELSE [c EXCEPT !.st = "failed"]]
  /\ UNCHANGED <<now, cache, calls>>

Again(w) ==
  LET c == call[w] IN
  /\ c.st = "pausing" /\ now = c.until
  /\ call' = [call EXCEPT ![w] = IF now >= c.due THEN [c EXCEPT !.st = "failed"] ELSE Asked(c)]
  /\ UNCHANGED <<now, cache, calls>>

\* _cache_fallback
FallBack(w) ==
  LET c == call[w] IN
  /\ c.st = "failed"
  /\ call' = [call EXCEPT ![w] =
       IF Kept(c.key) THEN [c EXCEPT !.st = "reading", !.quote = cache[c.key].quote]
       ELSE Error]
  /\ cache' = IF c.key \in DOMAIN cache /\ ~Kept(c.key)
              THEN [k \in DOMAIN cache \ {c.key} |-> cache[k]] ELSE cache
  /\ UNCHANGED <<now, calls>>

(* Fault: only the age of the kept answer is looked at, which another      *)
(* thread may have replaced in the meantime.                               *)
YoungInTheCache(c) == Kept(c.key) => now - cache[c.key].at <= MaxAge

\* get_latest_quote: the age of what is kept by now, then that of the quote itself
Young(c) ==
  /\ Kept(c.key) => now - cache[c.key].at <= MaxAge
  /\ Stamped => now - c.quote <= MaxAge

Checked(w) ==
  /\ call[w].st = "reading"
  /\ call' = [call EXCEPT ![w] =
       IF Young(@) THEN [Idle EXCEPT !.st = "done", !.quote = call[w].quote, !.until = now] ELSE Error]
  /\ UNCHANGED <<now, cache, calls>>

\* No attempt outlives its timeout and no pause its length; what needs no answer takes no time
Tick ==
  /\ now < End
  /\ \A w \in Workers : call[w].st \in {"asking", "pausing"} => now < call[w].until
  /\ \A w \in Workers : call[w].st \notin {"failed", "reading"}
  /\ now' = now + 1
  /\ UNCHANGED <<cache, call, calls>>

Next ==
  \/ Tick
  \/ \E w \in Workers :
       \/ \E k \in Keys : Begin(w, k)
       \/ \E late \in BOOLEAN : Answered(w, late)
       \/ Refused(w)
       \/ \E pause \in Pauses : Failed(w, pause)
       \/ Again(w)
       \/ FallBack(w)
       \/ Checked(w)

Spec == Init /\ [][Next]_vars

-----------------------------------------------------------------------------
(* Properties                                                              *)

(* A quote the scan goes on with is as young as it asks for, whichever     *)
(* thread put what into the shared cache in the meantime, and no read      *)
(* lasts longer than the attempts and pauses it was allowed.               *)
QuoteIsFresh ==
  \A w \in Workers :
    /\ call[w].st = "done" => call[w].until - call[w].quote <= MaxAge
    /\ call[w].st \notin {"idle", "done", "error"} => now <= call[w].began + Budget

=============================================================================
