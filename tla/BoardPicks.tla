-------------------------------- MODULE BoardPicks --------------------------------
(***************************************************************************)
(* The decisions of one morning: boards of cards are scanned in a child    *)
(* process, the parent hands one of them back to be decided, the regime,   *)
(* the news and the gates of each card leave at most two picks, and each   *)
(* pick is judged once more when its order is placed.  Scans fail, cover   *)
(* too little or come back too late, news is missing or incomplete, the    *)
(* market turns and the child process dies.                                *)
(* Sources: strategies/orbs/facade.py, adaptive.py, flow.py (macro veto),  *)
(* scanner.py (run, run_secondary), shim.py, core/orb_execution.py.        *)
(*                                                                         *)
(* The stocks are numbered by the utility of their cards, the best first.  *)
(* Of a card's numbers only the hurdles it clears are kept, the gates of   *)
(* its spread, stop, drift, volume, gap and catalyst among them.  The      *)
(* market is the set of directions that SPY or the sector ETFs refuse, a   *)
(* reading that cannot be verified refusing both.  Headlines and fills are *)
(* as of the freeze in both waves, as in the code.  The reply is written   *)
(* and read back by the same process, and its validation is left out.      *)
(***************************************************************************)
EXTENDS Integers, FiniteSets, Sequences

CONSTANTS
  Stocks,              \* 1 .. n, by utility
  Excluded,            \* exclude_symbols
  Sector,              \* of a stock, "OTHER" if it has none
  Deals,               \* stocks with a deal headline of before the freeze
  Freeze, Cutoff, End, \* FREEZE_ET, AUTOPILOT_CUTOFF, and a bound on the minutes
  Boards,              \* bound: the boards a scan may return, functions from stocks to cards
  MaxFaults            \* bound: failed scans, missing news and deaths of the child

VARIABLES
  now,
  lastScan,  \* child: the last successful scan of each wave
  blocked,   \* child: _DEAL_BLOCKED
  held,      \* parent: the last scan result it was given
  made,      \* parent: the last decision
  decided,   \* parent: the primary wave has been decided
  traded,    \* the stocks executed today
  against,   \* the directions the market refuses
  found,     \* ghost: the stocks whose deal headline was read since the child started, and today
  faults

vars == <<now, lastScan, blocked, held, made, decided, traded, against, found, faults>>

Waves == {"primary", "secondary"}
Sides == {"long", "short"}

\* dir is the break the card would trade, first the break the board counts; a blocked card has no break that
\* passed the candle and flow rules; of the others "first" and "second" clear the hurdles of a first and a second pick
Card == [dir : Sides, first : Sides, grade : {"out", "blocked", "first", "second"}]
NoBoard == [ok |-> FALSE]
NoPicks == [verdict |-> "none", picks |-> <<>>]

TypeOK ==
  /\ now \in 0 .. End /\ blocked \in SUBSET Stocks /\ traded \in SUBSET Stocks /\ against \in SUBSET Sides
  /\ \A b \in Boards : b \in [DOMAIN b -> Card] /\ DOMAIN b \subseteq Stocks
  /\ Len(made.picks) <= 2 /\ faults \in 0 .. MaxFaults

Init ==
  /\ now = 0 /\ lastScan = [w \in Waves |-> NoBoard] /\ blocked = {} /\ held = NoBoard
  /\ made = NoPicks /\ decided = FALSE /\ traded = {} /\ against = {} /\ found = [child |-> {}, today |-> {}] /\ faults = 0

-----------------------------------------------------------------------------
(* Scans                                                                   *)

Scanned(wave, end, cards) == [ok |-> TRUE, wave |-> wave, end |-> end, cards |-> cards]

\* scan: only a scan that succeeded and covers enough is remembered
ScanCovered(wave, scan, covered) == IF covered THEN [lastScan EXCEPT ![wave] = scan] ELSE lastScan

\* The scheduler runs one job at a time, and may give up on a scan that goes on in the child.  The secondary
\* board leaves out what was traded
Scan(wave, cards, covered, late) ==
  /\ made = NoPicks /\ ((late \/ ~covered) => faults < MaxFaults)
  /\ wave = "secondary" => now > Freeze /\ DOMAIN cards \cap traded = {}
  /\ \E scan \in {Scanned(wave, now, cards)} :
       /\ lastScan' = ScanCovered(wave, scan, covered)
       /\ held' = IF late THEN held ELSE IF covered THEN scan ELSE NoBoard
  /\ faults' = IF late \/ ~covered THEN faults + 1 ELSE faults
  /\ UNCHANGED <<now, blocked, made, decided, traded, against, found>>

-----------------------------------------------------------------------------
(* The decision                                                            *)

\* _board_refusal: the last board of the child, the one of the freeze in the first wave, before the cutoff
Decidable(wave, board) ==
  /\ board.ok /\ board.wave = wave /\ DOMAIN board.cards # {} /\ lastScan[wave] = board /\ now < Cutoff
  /\ wave = "primary" => board.end = Freeze /\ now >= Freeze

\* Fault: the regime counts the breaks the cards would trade
ShortsTraded(cards) == {s \in DOMAIN cards : cards[s].dir = "short"}
\* The board's first breaks
Shorts(cards) == {s \in DOMAIN cards : cards[s].first = "short"}
\* evaluate_market_regime: between a quarter and three quarters of the board is short
Balanced(cards) ==
  LET n == Cardinality(DOMAIN cards) IN 4 * Cardinality(Shorts(cards)) \in n .. 3 * n

\* Fault: only the headlines of this fetch count
BlocksOfThisFetch(read) == read
\* _sticky_deal_blocks
Blocks(read) == blocked \cup read

\* What macro, candle, flow and deal rules leave, in the order of utility
Candidates(cards, read) ==
  {s \in DOMAIN cards : /\ cards[s].grade \in {"first", "second"} /\ cards[s].dir \notin against
                        /\ ~(cards[s].dir = "short" /\ s \in Blocks(read))}

Best(S) == CHOOSE s \in S : \A t \in S : s <= t

\* Two picks need two known sectors
Apart(a, b) == Sector[a] # Sector[b] /\ "OTHER" \notin {Sector[a], Sector[b]}

\* select_adaptive: the excluded stocks leave the pool, not the board
Selected(cards, read) ==
  LET pool  == Candidates(cards, read) \ Excluded
      rest  == {s \in pool : s # Best(pool) /\ Apart(s, Best(pool)) /\ cards[s].grade = "second"}
  IN IF ~Balanced(cards) \/ pool = {} THEN <<>>
     ELSE IF rest = {} THEN <<Best(pool)>> ELSE <<Best(pool), Best(rest)>>

Pick(wave, cards, s) == [stock |-> s, dir |-> cards[s].dir, wave |-> wave]

\* fetch_deal_headlines: it never fails, but may return less than there is
DealReads(board) == SUBSET {s \in DOMAIN board.cards \cap Deals : board.cards[s].dir = "short"}

\* The slopes of SPY and QQQ and the company news are complete
NewsNeeded(board, newsOk) == newsOk /\ Balanced(board.cards)

\* decide: primary boards are decided once; without the index bars or the company news the day is sat out, and no deal headline is read
Decide(wave, newsOk, read) ==
  LET board   == held
      picked  == Selected(board.cards, read)
      allowed == SelectSeq(picked, LAMBDA s : s \notin traded)
  IN /\ made = NoPicks /\ Decidable(wave, board) /\ held' = NoBoard
     /\ IF NewsNeeded(board, newsOk)
        THEN /\ read \in DealReads(board)
             /\ faults' = IF \A other \in DealReads(board) : other \subseteq read THEN faults ELSE faults + 1
             /\ blocked' = blocked \cup read
             /\ found' = [child |-> found.child \cup read, today |-> found.today \cup read]
             /\ made' = [verdict |-> IF allowed # <<>> THEN "trade" ELSE "pass", wave |-> wave, board |-> board,
                         picks |-> [k \in DOMAIN allowed |-> Pick(wave, board.cards, allowed[k])]]
        ELSE /\ read = {} /\ faults' = (IF newsOk THEN faults ELSE faults + 1)
             /\ made' = [verdict |-> "sit_out", picks |-> <<>>] /\ UNCHANGED <<blocked, found>>
     /\ faults' <= MaxFaults /\ ~(decided /\ wave = "primary") /\ decided' = (decided \/ wave = "primary")
     /\ UNCHANGED <<now, lastScan, traded, against>>

-----------------------------------------------------------------------------
(* Orders and the world                                                    *)

\* recheck: the pick's card is judged again at the time of its order
Order ==
  /\ made.picks # <<>>
  /\ traded' = IF Head(made.picks).dir \in against THEN traded ELSE traded \cup {Head(made.picks).stock}
  /\ made' = IF Tail(made.picks) = <<>> THEN NoPicks ELSE [made EXCEPT !.picks = Tail(@)]
  /\ UNCHANGED <<now, lastScan, blocked, held, decided, against, found, faults>>

\* The wave is over without a pick
Settle ==
  /\ made # NoPicks /\ made.picks = <<>> /\ made' = NoPicks
  /\ UNCHANGED <<now, lastScan, blocked, held, decided, traded, against, found, faults>>

Market(refused) ==
  /\ refused # against /\ against' = refused
  /\ UNCHANGED <<now, lastScan, blocked, held, made, decided, traded, found, faults>>

Minute ==
  /\ now < End /\ now' = now + 1
  /\ UNCHANGED <<lastScan, blocked, held, made, decided, traded, against, found, faults>>

\* The child process dies and is started again
Restart ==
  /\ faults < MaxFaults /\ faults' = faults + 1
  /\ lastScan' = [w \in Waves |-> NoBoard] /\ blocked' = {} /\ found' = [found EXCEPT !.child = {}]
  /\ UNCHANGED <<now, held, made, decided, traded, against>>

Next ==
  \/ \E w \in Waves, cards \in Boards, covered, late \in BOOLEAN : Scan(w, cards, covered, late)
  \/ \E w \in Waves, newsOk \in BOOLEAN, read \in SUBSET Deals : Decide(w, newsOk, read)
  \/ \E refused \in {{}, {"long"}, Sides} : Market(refused)
  \/ Order \/ Settle \/ Minute \/ Restart

Spec == Init /\ [][Next]_vars

-----------------------------------------------------------------------------
(* Properties                                                              *)
\* A decision's picks rest on a board whose first breaks are balanced, excluded stocks counted; two picks are
\* of two known sectors; and no short is picked on which this child process has read a deal headline, in this
\* decision or an earlier one, however incomplete the later reading was
\* (adaptive.py:346, "a block holds for the rest of the day").
PicksAreJudged ==
  made.picks # <<>> =>
    LET cards == made.board.cards
    IN /\ 4 * Cardinality({s \in DOMAIN cards : cards[s].first = "short"})
            \in Cardinality(DOMAIN cards) .. 3 * Cardinality(DOMAIN cards)
       /\ \A k \in DOMAIN made.picks : /\ made.picks[k].stock \notin Excluded
                                       /\ made.picks[k].dir = "short" => made.picks[k].stock \notin found.child
       /\ Len(made.picks) = 2 => Apart(made.picks[1].stock, made.picks[2].stock)

\* A stock whose deal headline was read today is not sold short any more today
\* (adaptive.py:346; 443, "survives a restart").
DealBlockHolds ==
  \A k \in DOMAIN made.picks : made.picks[k].dir = "short" => made.picks[k].stock \notin found.today
=============================================================================
