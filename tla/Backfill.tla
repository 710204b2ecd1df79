------------------------------ MODULE Backfill ------------------------------
(***************************************************************************)
(* The scripts that fill ohlcv_daily and ticker_universe, each a process   *)
(* of its own over the shared store:                                       *)
(*   sync    scripts/daily_sync.py, the liquid tickers of the last days    *)
(*   incr    scripts/daily_incremental.py, closed bars of complete tickers *)
(*   bf      scripts/backfill_history_md.py, the whole history             *)
(*   weekly  scripts/backfill_delisted_via_tinkoff.py, tickers with no bar *)
(* and scripts/mark_terminally_failed.py, which an operator runs.  A       *)
(* script is started by the main process at times that drift (Daemons,     *)
(* Supervisor), so any two of them may overlap and midnight may fall       *)
(* between any two of their steps.  One step is one request to a feed with *)
(* the reads before it, or one write of the store.  A script may be killed *)
(* after any of them: by its timeout, by a container stop, by an error     *)
(* nothing catches, and bf also by the exception its deadline thread       *)
(* raises outside the try.                                                 *)
(***************************************************************************)
EXTENDS MarketData

CONSTANTS FirstDay, MaxDay,   \* the days of the instance
          SyncDays,           \* daily_sync --days
          HorizonDays,        \* mark_terminally_failed --horizon-days
          MaxRunning          \* bound: scripts that run at once

ASSUME BackfillAssumption ==
    /\ FirstDay \in Nat /\ MaxDay \in Nat /\ FirstDay <= MaxDay
    /\ SyncDays \in Nat /\ HorizonDays \in Nat
    /\ MaxRunning \in Nat

VARIABLES today,      \* date.today()
          rows,       \* ohlcv_daily: ticker |-> its bars
          universe,   \* ticker_universe: ticker |-> its row
          proc,       \* the running scripts
          liquid      \* LIQUID_UNIVERSE: the tickers daily_sync asks for

vars == <<today, rows, universe, proc, liquid>>

Scripts == {"sync", "incr", "bf", "weekly"}
Steps == {"idle", "next", "fetch", "meta", "store", "check", "mark"}
NoTicker == "-"

\* day: when the run started, of bf: when it took the ticker at hand; todo: tickers
\* not yet visited; cur, got: the one at hand and its fetched bars; start, end: the
\* window of its fetch; checked: the day _is_complete said yes.
Idle == [pc |-> "idle", day |-> Null, todo |-> {}, cur |-> NoTicker, got |-> {},
         start |-> Null, end |-> Null, checked |-> Null]

\* The bars a ticker needs by `end`: 252 trading days in 365.25, 15% less for halts.
ExpectedBars(listed, end) == ((((end - listed) * 25200) \div 36525) * 85) \div 100

\* _is_complete.  min_bars decides only for a ticker without a row, where there
\* is nothing to flag.
IsComplete(t, day) ==
    LET count == count_ohlcv(rows[t])
        listed == IF universe[t].listed # Null THEN universe[t].listed ELSE earliest_ts(rows[t])
        end == IF universe[t].delistedAt # Null THEN universe[t].delistedAt ELSE day
    IN  /\ universe[t].known
        /\ listed # Null
        /\ IF end <= listed THEN count > 0 ELSE count >= ExpectedBars(listed, end)

\* Mutants: only yesterday is asked for; today is asked for too.
ClosedBarWindow_FromYesterday(latest) == <<today - 1, today - 1>>
ClosedBarWindow_ToToday(latest) == <<IF latest = Null THEN today ELSE latest + 1, today>>

\* _closed_bar_window: from the day after the newest bar, or yesterday alone, to
\* yesterday.
ClosedBarWindow(latest) == <<IF latest = Null THEN today - 1 ELSE latest + 1, today - 1>>

-----------------------------------------------------------------------------
Init ==
    /\ today = FirstDay
    /\ rows = [t \in Tickers |-> {}]
    /\ universe = [t \in Tickers |-> NoRow]
    /\ proc = [p \in Scripts |-> Idle]
    /\ liquid \in SUBSET Tickers

At(p, pc) == proc[p].pc = pc

\* The loop goes on to its next ticker.
NextTicker(p) ==
    proc' = [proc EXCEPT ![p] = [Idle EXCEPT !.pc = "next", !.todo = proc[p].todo,
                                             !.day = IF p = "bf" THEN Null ELSE proc[p].day]]

Start(p, todo) ==
    /\ At(p, "idle")
    /\ Cardinality({q \in Scripts : ~At(q, "idle")}) < MaxRunning
    /\ proc' = [proc EXCEPT ![p].pc = "next", ![p].todo = todo,
                            ![p].day = IF p = "bf" THEN Null ELSE today]

Without(p, t) == [proc[p] EXCEPT !.todo = @ \ {t}]

\* The script takes the ticker t off its list; taken is what becomes of it.
Takes(p, t, taken) ==
    /\ At(p, "next") /\ t \in proc[p].todo
    /\ proc' = [proc EXCEPT ![p] = taken]

\* upsert_ohlcv of the fetched bars.
Store(p) ==
    /\ At(p, "store")
    /\ rows' = [rows EXCEPT ![proc[p].cur] = upsert_ohlcv(@, proc[p].got)]
    /\ IF p \in {"sync", "bf"} THEN proc' = [proc EXCEPT ![p].pc = "check", ![p].got = {}]
       ELSE NextTicker(p)
    /\ UNCHANGED <<today, universe, liquid>>

\* _is_complete decides; the flag is set by a later statement.
Check(p) ==
    /\ At(p, "check")
    /\ IF IsComplete(proc[p].cur, today)
       THEN proc' = [proc EXCEPT ![p].pc = "mark", ![p].checked = today]
       ELSE NextTicker(p)
    /\ UNCHANGED <<today, rows, universe, liquid>>

Mark(p) ==
    /\ At(p, "mark")
    /\ universe' = [universe EXCEPT ![proc[p].cur] = mark_backfill_complete(@)]
    /\ NextTicker(p)
    /\ UNCHANGED <<today, rows, liquid>>

-----------------------------------------------------------------------------
(* daily_sync.py.  Its loader failing to start leaves everything as it is.   *)

SyncStart == Start("sync", liquid) /\ UNCHANGED <<today, rows, universe, liquid>>

\* Mutant: without `if not bars: continue`.
SyncFetch_KeepsEmpty(t, answer) ==
    LET day == proc["sync"].day
        bars == fetch_ohlcv(answer, t, day - SyncDays, day, today)
    IN  /\ Takes("sync", t, [Without("sync", t) EXCEPT !.pc = "meta", !.cur = t, !.got = bars])
        /\ UNCHANGED <<today, rows, universe, liquid>>

\* Fetches the window of the day the run started; no bar or an error, and the
\* ticker is passed over.
SyncFetch(t, answer) ==
    LET day == proc["sync"].day
        bars == fetch_ohlcv(answer, t, day - SyncDays, day, today)
    IN  /\ Takes("sync", t, IF bars = {} THEN Without("sync", t) ELSE
                   [Without("sync", t) EXCEPT !.pc = "meta", !.cur = t, !.got = bars])
        /\ UNCHANGED <<today, rows, universe, liquid>>

\* Mutant: the ticker row is left to a later run.
SyncMeta_Skipped ==
    /\ At("sync", "meta")
    /\ proc' = [proc EXCEPT !["sync"].pc = "store"]
    /\ UNCHANGED <<today, rows, universe, liquid>>

\* upsert_ticker: the loader's meta has no listed_at.
SyncMeta ==
    /\ At("sync", "meta")
    /\ universe' = [universe EXCEPT ![proc["sync"].cur] = upsert_ticker(@, Null)]
    /\ proc' = [proc EXCEPT !["sync"].pc = "store"]
    /\ UNCHANGED <<today, rows, liquid>>

-----------------------------------------------------------------------------
(* daily_incremental.py                                                      *)

IncrStart ==
    /\ Start("incr", list_complete_universe(universe))
    /\ UNCHANGED <<today, rows, universe, liquid>>

\* Reads latest_ts and computes the window, or skips the ticker.
IncrWindow(t) ==
    LET w == ClosedBarWindow(latest_ts(rows[t]))
    IN  /\ Takes("incr", t, IF w[1] > w[2] THEN Without("incr", t) ELSE
                   [Without("incr", t) EXCEPT !.pc = "fetch", !.cur = t,
                                              !.start = w[1], !.end = w[2]])
        /\ UNCHANGED <<today, rows, universe, liquid>>

\* _fetch_with_fallback, and the filter after it.
IncrFetch(broker, moex) ==
    LET p == proc["incr"]
        bars == {b \in iter_ohlcv(broker, moex, p.cur, p.start, p.end, today) : b.ts <= p.end}
    IN  /\ At("incr", "fetch")
        /\ \/ bars = {} /\ NextTicker("incr")
           \/ bars # {} /\ proc' = [proc EXCEPT !["incr"] =
                    [p EXCEPT !.pc = "store", !.got = bars, !.start = Null, !.end = Null]]
        /\ UNCHANGED <<today, rows, universe, liquid>>

-----------------------------------------------------------------------------
(* backfill_history_md.py                                                    *)

\* The universe is resolved and upserted in one statement; a loader, the
\* auth_probe or a statement that fails before ends the run with nothing changed.
BfStart(u) ==
    /\ Start("bf", DOMAIN u)
    /\ universe' = [t \in Tickers |-> IF t \in DOMAIN u THEN upsert_ticker(universe[t], u[t])
                                      ELSE universe[t]]
    /\ UNCHANGED <<today, rows, liquid>>

\* A complete ticker is flagged and skipped.
BfSkip(t) ==
    /\ IsComplete(t, today)
    /\ Takes("bf", t, [Without("bf", t) EXCEPT !.pc = "mark", !.cur = t, !.day = today,
                                               !.checked = today])
    /\ UNCHANGED <<today, rows, universe, liquid>>

\* _backfill_one asks for everything from _earliest_expected_ts on, the first day of
\* 2018 or of the year of the listing, to the end of the year: from the first day
\* here, no feed has a bar from before the listing, to today, none has a later one.
\* Bars of which one is CRITICAL are all dropped, which counts as success, as does
\* no bar at all.
BfFetch(t, broker, moex, critical) ==
    LET bars == IF critical THEN {} ELSE iter_ohlcv(broker, moex, t, 0, today, today)
    IN  /\ ~IsComplete(t, today)
        /\ Takes("bf", t, [Without("bf", t) EXCEPT !.pc = IF bars = {} THEN "check" ELSE "store",
                                                   !.cur = t, !.day = today, !.got = bars])
        /\ UNCHANGED <<today, rows, universe, liquid>>

-----------------------------------------------------------------------------
(* backfill_delisted_via_tinkoff.py and mark_terminally_failed.py            *)

MissingTickers == {t \in Tickers : universe[t].known /\ rows[t] = {}}

\* metas: the tickers some board's list_shares_all, list_bonds or list_etfs brought.
WeeklyStart(metas) ==
    /\ Start("weekly", MissingTickers \cap metas)
    /\ UNCHANGED <<today, rows, universe, liquid>>

\* From 3650 days before the run on, which here is before day 0.
WeeklyFetch(t, answer) ==
    LET bars == fetch_ohlcv(answer, t, 0, proc["weekly"].day, today)
    IN  /\ Takes("weekly", t, IF bars = {} THEN Without("weekly", t) ELSE
                   [Without("weekly", t) EXCEPT !.pc = "store", !.cur = t, !.got = bars])
        /\ UNCHANGED <<today, rows, universe, liquid>>

\* One transaction; class_code is NULL in every row, upsert_tickers never writes it.
TerminallyFailed(row, table) ==
    /\ row.known /\ ~row.complete /\ row.delistedAt = Null /\ table = {}
    /\ row.listed = Null \/ row.listed < today - HorizonDays

MarkTerminallyFailed ==
    /\ universe' = [t \in Tickers |->
            IF TerminallyFailed(universe[t], rows[t]) THEN [universe[t] EXCEPT !.delistedAt = today]
            ELSE universe[t]]
    /\ UNCHANGED <<today, rows, proc, liquid>>

-----------------------------------------------------------------------------
\* A statement fails, or in bf the deadline of the ticker passes before or just
\* after the upsert: the script logs it and goes on.
TickerFails(p) ==
    /\ proc[p].pc \in {"meta", "store", "check", "mark"}
    /\ NextTicker(p)
    /\ UNCHANGED <<today, rows, universe, liquid>>

\* The loop is over, the script is killed, or in bf the circuit breaker ends the
\* run after too many failures in a row.
Ends(p) ==
    /\ ~At(p, "idle")
    /\ proc' = [proc EXCEPT ![p] = Idle]
    /\ UNCHANGED <<today, rows, universe, liquid>>

\* The main process kills sync, incr and weekly well within a day, and bf gives
\* up a ticker after 24 hours: each sees at most one midnight.
Midnight ==
    /\ today < MaxDay
    /\ \A p \in Scripts : proc[p].day \in {Null, today}
    /\ today' = today + 1
    /\ UNCHANGED <<rows, universe, proc, liquid>>

Next ==
    \/ SyncStart \/ SyncMeta
    \/ \E t \in Tickers, a \in Answers : SyncFetch(t, a)
    \/ IncrStart
    \/ \E t \in Tickers : IncrWindow(t)
    \/ \E b, m \in Answers : IncrFetch(b, m)
    \/ \E u \in Universes(today) : BfStart(u)
    \/ \E t \in Tickers : BfSkip(t)
    \/ \E t \in Tickers, b, m \in Answers, c \in BOOLEAN : BfFetch(t, b, m, c)
    \/ \E m \in SUBSET Tickers : WeeklyStart(m)
    \/ \E t \in Tickers, a \in Answers : WeeklyFetch(t, a)
    \/ MarkTerminallyFailed
    \/ \E p \in Scripts : Store(p) \/ Check(p) \/ Mark(p) \/ TickerFails(p) \/ Ends(p)
    \/ Midnight

Spec == Init /\ [][Next]_vars

-----------------------------------------------------------------------------
(* Properties                                                                *)

\* Everything stays in its type, and no script is about to store nothing.
TypeOK ==
    /\ today \in FirstDay..MaxDay
    /\ rows \in [Tickers -> SUBSET BarSet(0..MaxDay)]
    /\ universe \in [Tickers -> TickerRow(0..MaxDay)]
    /\ proc \in [Scripts -> [pc : Steps, day : (FirstDay..MaxDay) \cup {Null}, todo : SUBSET Tickers, cur : Tickers \cup {NoTicker},
                             got : SUBSET BarSet(0..MaxDay), start : Int, end : Int, checked : (FirstDay..MaxDay) \cup {Null}]]
    /\ \A p \in Scripts : proc[p].pc \in {"meta", "store"} => proc[p].got # {}
    /\ liquid \subseteq Tickers

\* Of a ticker that daily_sync does not write, the stored days have no gap:
\* whatever the incremental run missed while a feed was down or it was not
\* running, it fetches from the day after the newest bar, although that day was
\* read before the fetch and other scripts write meanwhile.
HistoryHasNoHole ==
    \A t \in Tickers \ liquid :
        rows[t] # {} => Days(rows[t]) = earliest_ts(rows[t])..latest_ts(rows[t])

\* Bars are only stored for a ticker that is in ticker_universe, so that the
\* scripts that start from that table (incremental, corporate actions) see them.
RowsHaveTicker == \A t \in Tickers : rows[t] # {} => universe[t].known

\* What the incremental run is about to store are bars of days that are over,
\* also when midnight falls between its window, its fetch and its upsert.
IncrementalStoresClosedBars == \A b \in proc["incr"].got : b.final

\* The contract of the flag (backfill_history_md.py:18-24): a ticker is about to
\* be flagged complete only if the bars expected since its listing are stored.
CompleteMeansHistory ==
    \A p \in Scripts : At(p, "mark") =>
        count_ohlcv(rows[proc[p].cur]) >= ExpectedBars(ListedAt[proc[p].cur], proc[p].checked)
=============================================================================
