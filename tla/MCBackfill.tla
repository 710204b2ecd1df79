----------------------------- MODULE MCBackfill -----------------------------
(* One ticker, listed the day after the program starts, in or outside        *)
(* LIQUID_UNIVERSE: no script relates the rows of two tickers.               *)
EXTENDS Backfill

MCListedAt == [fresh |-> 1]

(* For MCComplete: a ticker traded long before the program started.          *)
MCListedBefore == [old |-> 0]
=============================================================================
