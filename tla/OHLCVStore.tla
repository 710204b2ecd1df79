----------------------------- MODULE OHLCVStore -----------------------------
(***************************************************************************)
(* The tables of PostgresDataStore (src/src/data/pg_store.py) and what its *)
(* statements make of them.  Each statement commits by itself, so each is  *)
(* one value computed from the value before it; the processes that call    *)
(* them are in the module Backfill.                                        *)
(*                                                                         *)
(* A day is a number.  A bar is [ts, final]: its day and whether that day  *)
(* was over when the bar was fetched, which is all the properties need of  *)
(* its prices.  ohlcv_daily is a set of bars per ticker.  The source is    *)
(* part of its primary key, but every loader leaves it at OHLCVRow's       *)
(* default 'tkf', MOEX's included, so the key is the day.  A row of        *)
(* ticker_universe is [known, listed, delistedAt, complete], Null standing *)
(* for SQL's NULL; its name, lot and delisted flag are read by none of the *)
(* scripts modelled.                                                       *)
(***************************************************************************)
EXTENDS Integers, FiniteSets, FiniteSetsExt

Null == -1

BarSet(days) == [ts : days, final : BOOLEAN]

Days(table) == {b.ts : b \in table}

\* INSERT ... ON CONFLICT DO UPDATE SET updated_at: the values stored first stay.
\* fk_ohlcv_ticker would refuse the bars of an unknown ticker; RowsHaveTicker says
\* that no script comes to that.
upsert_ohlcv(table, new) == table \cup {n \in new : n.ts \notin Days(table)}

count_ohlcv(table) == Cardinality(table)

earliest_ts(table) == IF table = {} THEN Null ELSE Min(Days(table))
latest_ts(table) == IF table = {} THEN Null ELSE Max(Days(table))

-----------------------------------------------------------------------------
TickerRow(days) == [known : BOOLEAN, listed : days \cup {Null},
                    delistedAt : days \cup {Null}, complete : BOOLEAN]

NoRow == [known |-> FALSE, listed |-> Null, delistedAt |-> Null, complete |-> FALSE]

\* A new row takes everything from the loader's meta; an old one takes listed_at
\* from it, NULL included, and keeps delisted_at and backfill_complete.
upsert_ticker(row, listed) == [row EXCEPT !.listed = listed, !.known = TRUE]

\* An UPDATE: without a row it changes nothing.
mark_backfill_complete(row) == [row EXCEPT !.complete = row.known]

list_complete_universe(universe) == {t \in DOMAIN universe : universe[t].complete}
=============================================================================
