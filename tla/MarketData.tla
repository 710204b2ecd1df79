----------------------------- MODULE MarketData -----------------------------
(***************************************************************************)
(* The loaders a script asks for bars and for the universe: Tinkoff's gRPC *)
(* API, MOEX ISS and the chain of both in FallbackDataLoader               *)
(* (src/src/data).  A request may bring rows, nothing, or an error.        *)
(***************************************************************************)
EXTENDS OHLCVStore

CONSTANT ListedAt    \* ticker |-> first day it is traded

Tickers == DOMAIN ListedAt

ASSUME MarketDataAssumption == \A t \in Tickers : ListedAt[t] \in Nat

Answers == {"rows", "none", "error"}

\* The daily candles of [start, end] a feed has on the day `today`: the one of
\* today is still forming, and nothing drops it.
Candles(t, start, end, today) ==
    {[ts |-> d, final |-> d < today] :
        d \in {x \in start..end : ListedAt[t] <= x /\ x <= today}}

\* TinkoffInvestDataLoader.fetch_ohlcv: the chunks of a year together, or, when
\* one of them fails, none.
fetch_ohlcv(answer, t, start, end, today) ==
    IF answer = "rows" THEN Candles(t, start, end, today) ELSE {}

\* MOEXDataLoader.iter_ohlcv: the pages of candles.json together, or none.  A page
\* that is short is taken for the last one; the pages here are whole.
moex_iter_ohlcv(answer, t, start, end, today) ==
    IF answer = "rows" THEN Candles(t, start, end, today) ELSE {}

\* FallbackDataLoader.iter_ohlcv: the first source that has rows.  A source that
\* raises counts like one that has none, so the chain itself never raises.  A loader
\* that has had no rows of a ticker skips that source for it from then on (_skip);
\* here it may be asked again, and have none again.
iter_ohlcv(broker, moex, t, start, end, today) ==
    LET tkf == fetch_ohlcv(broker, t, start, end, today)
    IN  IF tkf # {} THEN tkf ELSE moex_iter_ohlcv(moex, t, start, end, today)

-----------------------------------------------------------------------------
(* The universe, as ticker |-> listed_at of its meta.                        *)

Traded(today) == {t \in Tickers : ListedAt[t] <= today}

\* list_tickers of the gRPC loader (and of MOEX): main-board shares, whose metas
\* carry no listed_at.
list_tickers(today) == [t \in Traded(today) |-> Null]

\* The universe of the MD loader: list_shares_all class by class, with the date
\* of the first daily candle; a class whose call fails is left out.
list_tickers_with_figi(answered, today) == [t \in answered \cap Traded(today) |-> ListedAt[t]]

\* _resolve_universe: the MD loader's, or when that fails or is empty the chain's.
Universes(today) ==
    {list_tickers_with_figi(answered, today) : answered \in SUBSET Tickers \ {{}}}
        \cup {list_tickers(today)}
=============================================================================
