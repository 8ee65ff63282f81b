----------------------------- MODULE MCDayClose -----------------------------
(***************************************************************************)
(* Books for the model checking of DayClose: one symbol per owner, named   *)
(* after it.                                                               *)
(***************************************************************************)
EXTENDS DayClose


Books == [s \in Symbols |->
  CASE s = "NVDA" -> "day"
    [] s = "AAPL" -> "swing"
    [] s = "IREN" -> "hold"
    [] s = "COIN" -> "dayone"
    [] s = "TSLA" -> "plan"
    [] s = "GME"  -> "orb"]
=============================================================================
