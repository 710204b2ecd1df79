-------------------------- MODULE CorporateActions --------------------------
(***************************************************************************)
(* scripts/apply_corporate_actions.py and src/src/data/adjustment.py: the  *)
(* weekly run that reads MOEX's splits and dividends, adjusts the stored   *)
(* bars of every ticker by them and writes the result to ohlcv_daily_adj.  *)
(* Of a bar only adj_close is kept: a split scales the other prices by the *)
(* same factor (and the volume by its inverse), a dividend touches nothing *)
(* else.  Prices are whole kopecks; the instance chooses them so that they *)
(* divide evenly (ClosesAreExact), where the code has Decimals.            *)
(*                                                                         *)
(* The prices of the instance move by the corporate actions alone.  That   *)
(* is what makes an adjustment right or wrong: the adjusted series has to  *)
(* be flat.  The run shares the store with the scripts of Backfill, may be *)
(* killed after any step (main.py gives it an hour) and keeps a file of    *)
(* the tickers it has done.                                                *)
(***************************************************************************)
EXTENDS Integers, FiniteSets, FiniteSetsExt

CONSTANTS Tickers,
          MaxDay,        \* the last day an action takes effect
          LastDay,       \* bound of the model: the last day it comes to
          Published,     \* MOEX's entries: [ticker, ts, kind, num, den]; a split's
                         \* ratio is num/den, a dividend's amount num
          LastClose,     \* ticker |-> its close after every action
          FreshDays      \* --skip-older-than-days

ASSUME CorporateActionsAssumption ==
    /\ MaxDay \in Nat /\ LastDay \in 0..MaxDay /\ FreshDays \in Nat /\ IsFiniteSet(Published)
    /\ \A e \in Published :
        /\ e.ticker \in Tickers /\ e.ts \in 1..MaxDay
        /\ e.kind \in {"split", "dividend"} /\ e.num \in Int /\ e.den \in Nat \ {0}
    /\ LastClose \in [Tickers -> Nat \ {0}]

Null == -1

\* The day of a list that came without an entry; no action was on MOEX's list then.
NoTable == -2

\* What a request is answered with: the list, status 200 without the table or its
\* value column (_parse_moex_history returns []), or an exception.
Answers == {"list", "empty", "error"}

-----------------------------------------------------------------------------
(* The adjustment (adjustment.py).                                           *)

Splits(actions) == {a \in actions : a.kind = "split"}
Dividends(actions) == {a \in actions : a.kind = "dividend"}

\* The actions with a date after the bar's, which are the ones that change it.
Later(actions, ts) == {a \in actions : a.ts > ts}

Product(S, f(_)) == MapThenFoldSet(LAMBDA x, y : x * y, 1, f, LAMBDA T : CHOOSE x \in T : TRUE, S)

\* Every price of the bar is divided by the product of the later ratios.
apply_split_adjustment(price, ts, actions) ==
    LET later == Later(Splits(actions), ts)
    IN  (price * Product(later, LAMBDA a : a.den)) \div Product(later, LAMBDA a : a.num)

\* adj_close is lowered by the later dividends; below zero the code raises.
apply_dividend_adjustment(price, ts, actions) ==
    price - MapThenSumSet(LAMBDA a : a.num, Later(Dividends(actions), ts))

apply_adjustment(price, ts, actions) ==
    apply_dividend_adjustment(apply_split_adjustment(price, ts, actions), ts, actions)

-----------------------------------------------------------------------------
(* What MOEX publishes and what the market shows.                            *)

\* _fetch_splits_for_ticker, _parse_dividend_entry: entries with a ratio of zero
\* or less, or a negative amount, are left out.
Parsed(entries, t) ==
    {e \in entries : /\ e.ticker = t
                     /\ IF e.kind = "split" THEN e.num > 0 ELSE e.num >= 0}

\* An action is on MOEX's list by the day before it takes effect.
Visible(day) == {e \in Published : e.ts <= day + 1}

\* The actions of the kind that take effect on the day.
ActionsOn(t, d, kind) == {a \in Parsed(Published, t) : a.ts = d /\ a.kind = kind}

\* The close of the exchange: what the actions after the day make of LastClose.
RawClose ==
    [t \in Tickers |->
        LET close[d \in 0..MaxDay] ==
                IF d = MaxDay THEN LastClose[t]
                ELSE (close[d + 1] * Product(ActionsOn(t, d + 1, "split"), LAMBDA a : a.num))
                        \div Product(ActionsOn(t, d + 1, "split"), LAMBDA a : a.den)
                     + MapThenSumSet(LAMBDA a : a.num, ActionsOn(t, d + 1, "dividend"))
        IN  close]

\* Prices are whole numbers here and Decimals in the code: no close is rounded.
ASSUME ClosesAreExact ==
    \A t \in Tickers, d \in 1..MaxDay :
        (RawClose[t][d] * Product(ActionsOn(t, d, "split"), LAMBDA a : a.num))
            % Product(ActionsOn(t, d, "split"), LAMBDA a : a.den) = 0

Adjusted(t, days, actions) == [d \in days |-> apply_adjustment(RawClose[t][d], d, actions)]

-----------------------------------------------------------------------------
VARIABLES today,
          raw,       \* ohlcv_daily: ticker |-> its newest day, all before it stored
          adj,       \* ohlcv_daily_adj: ticker |-> (day |-> adj_close)
          disk,      \* the cache file: ticker |-> day of its last run, or Null
          run,       \* the running script
          bare       \* history: the tickers last done by a run with an empty list

vars == <<today, raw, adj, disk, run, bare>>

NoEntries == [t \in Tickers |-> Null]

\* start: applied_at; cache: the entries in memory; splits, dividends: the day
\* of each list of this run (_MOEX_CACHE), Null before it is fetched, NoTable if
\* the answer was empty; rows: the adjusted rows of cur on their way to the store.
Idle == [pc |-> "idle", start |-> Null, todo |-> {}, cur |-> "-",
         cache |-> NoEntries, splits |-> Null, dividends |-> Null, rows |-> <<>>]

Init ==
    /\ today = 0
    /\ raw = [t \in Tickers |-> Null]
    /\ adj = [t \in Tickers |-> <<>>]
    /\ disk = NoEntries
    /\ run = Idle
    /\ bare = {}

\* _load_cache at the start; --force starts from an empty one, in which no ticker
\* is fresh.  listed: the tickers of --tickers, or those whose listed_at is not NULL.
Start(listed, force) ==
    /\ run.pc = "idle"
    /\ run' = [Idle EXCEPT !.pc = "next", !.start = today, !.todo = listed,
                           !.cache = IF force THEN NoEntries ELSE disk]
    /\ UNCHANGED <<today, raw, adj, disk, bare>>

\* _is_fresh
Fresh(entry) == entry # Null /\ today - entry < FreshDays

SkipFresh(t) ==
    /\ run.pc = "next" /\ t \in run.todo
    /\ Fresh(run.cache[t])
    /\ run' = [run EXCEPT !.todo = @ \ {t}]
    /\ UNCHANGED <<today, raw, adj, disk, bare>>

\* The first ticker of a run fetches the list for all of them, an empty answer is
\* kept like any other; after an exception the next ticker asks again.
Fetched(day, answer) ==
    IF day # Null \/ answer = "error" THEN day
    ELSE IF answer = "list" THEN today ELSE NoTable

Fetch(t, splitsAnswer, dividendsAnswer) ==
    LET splits == Fetched(run.splits, splitsAnswer)
        dividends == IF splits = Null THEN run.dividends
                     ELSE Fetched(run.dividends, dividendsAnswer)
        next == [run EXCEPT !.todo = @ \ {t}, !.splits = splits, !.dividends = dividends]
    IN  /\ run.pc = "next" /\ t \in run.todo
        /\ ~Fresh(run.cache[t])
        /\ run' = IF Null \in {splits, dividends} THEN next
                  ELSE [next EXCEPT !.pc = "apply", !.cur = t]
        /\ UNCHANGED <<today, raw, adj, disk, bare>>

\* The actions of the ticker on the lists of splits of day s and dividends of day d.
Listed(t, s, d) == Parsed(Splits(Visible(s)) \cup Dividends(Visible(d)), t)

\* The actions of the ticker in the lists this run fetched.
Actions(t) == Listed(t, run.splits, run.dividends)

\* The ticker that is done, by whole lists or with an empty one.
Served(t) == IF NoTable \in {run.splits, run.dividends} THEN bare \cup {t} ELSE bare \ {t}

Done(r, t) == [r EXCEPT !.pc = "next", !.cur = "-", !.cache[t] = r.start, !.rows = <<>>]
Failed(r) == [r EXCEPT !.pc = "next", !.cur = "-", !.rows = <<>>]

\* Mutant: a price below zero is written.
Adjust_Negative ==
    LET t == run.cur
    IN  /\ run.pc = "apply"
        /\ IF Actions(t) = {} \/ raw[t] = Null
           THEN run' = Done(run, t) /\ bare' = Served(t)
           ELSE /\ run' = [run EXCEPT !.pc = "write", !.rows = Adjusted(t, 0..raw[t], Actions(t))]
                /\ UNCHANGED bare
        /\ UNCHANGED <<today, raw, adj, disk>>

\* Mutant: the cache entry is made on the error path too.
Adjust_CachesErrors ==
    LET t == run.cur
        rows == Adjusted(t, 0..raw[t], Actions(t))
    IN  /\ run.pc = "apply"
        /\ IF Actions(t) = {} \/ raw[t] = Null \/ \E d \in DOMAIN rows : rows[d] < 0
           THEN run' = Done(run, t) /\ bare' = Served(t)
           ELSE run' = [run EXCEPT !.pc = "write", !.rows = rows] /\ UNCHANGED bare
        /\ UNCHANGED <<today, raw, adj, disk>>

\* _apply_for_ticker up to the write.  No action and no bar count as applied; a
\* price below zero is the ticker's error.
Adjust ==
    LET t == run.cur
        rows == Adjusted(t, 0..raw[t], Actions(t))
    IN  /\ run.pc = "apply"
        /\ IF Actions(t) = {} \/ raw[t] = Null
           THEN run' = Done(run, t) /\ bare' = Served(t)
           ELSE /\ run' = IF \E d \in DOMAIN rows : rows[d] < 0 THEN Failed(run)
                          ELSE [run EXCEPT !.pc = "write", !.rows = rows]
                /\ UNCHANGED bare
        /\ UNCHANGED <<today, raw, adj, disk>>

\* Mutant: the values stored first stay, as in upsert_ohlcv.
upsert_ohlcv_adj_KeepFirst(table, rows) ==
    [d \in DOMAIN rows \cup DOMAIN table |-> IF d \in DOMAIN table THEN table[d] ELSE rows[d]]

\* upsert_ohlcv_adj replaces the rows it has.
upsert_ohlcv_adj(table, rows) ==
    [d \in DOMAIN rows \cup DOMAIN table |-> IF d \in DOMAIN rows THEN rows[d] ELSE table[d]]

Write ==
    /\ run.pc = "write"
    /\ adj' = [adj EXCEPT ![run.cur] = upsert_ohlcv_adj(@, run.rows)]
    /\ run' = Done(run, run.cur)
    /\ bare' = Served(run.cur)
    /\ UNCHANGED <<today, raw, disk>>

\* The statement fails: the ticker's error, the run goes on.
WriteFails ==
    /\ run.pc \in {"apply", "write"}
    /\ run' = Failed(run)
    /\ UNCHANGED <<today, raw, adj, disk, bare>>

\* The finally of main: the cache is written to a temporary file that is renamed.
Finish ==
    /\ run.pc = "next" /\ run.todo = {}
    /\ disk' = run.cache
    /\ run' = Idle
    /\ UNCHANGED <<today, raw, adj, bare>>

\* SIGKILL by the timeout of main.py, or a cache file that cannot be written: the
\* bars written stay, the entries in memory are gone.
Killed ==
    /\ run.pc # "idle"
    /\ run' = Idle
    /\ UNCHANGED <<today, raw, adj, disk, bare>>

-----------------------------------------------------------------------------
\* The container is replaced, or the file does not parse: it counts as empty.  A
\* script is killed first, and reads the file only when it starts.
CacheLost ==
    /\ run.pc = "idle"
    /\ disk' = NoEntries
    /\ UNCHANGED <<today, raw, adj, run, bare>>

\* The scripts of Backfill store the bars of another ticker or day.
RawStored(t) ==
    /\ raw[t] < today
    /\ raw' = [raw EXCEPT ![t] = today]
    /\ UNCHANGED <<today, adj, disk, run, bare>>

\* A run lasts an hour: it sees at most one midnight.
Midnight ==
    /\ today < LastDay
    /\ run.start \in {Null, today}
    /\ today' = today + 1
    /\ UNCHANGED <<raw, adj, disk, run, bare>>

Next ==
    \/ \E listed \in SUBSET Tickers, force \in BOOLEAN : Start(listed, force)
    \/ \E t \in Tickers : SkipFresh(t)
    \/ \E t \in Tickers, s, d \in Answers : Fetch(t, s, d)
    \/ Adjust \/ Write \/ WriteFails \/ Finish \/ Killed
    \/ CacheLost
    \/ \E t \in Tickers : RawStored(t)
    \/ Midnight

Spec == Init /\ [][Next]_vars

-----------------------------------------------------------------------------
(* Properties                                                                *)

\* Null, NoTable or the day a list is of.
ListDays == -2..MaxDay

\* Everything stays in its type; no adjusted price is below zero.
TypeOK ==
    /\ today \in 0..MaxDay
    /\ raw \in [Tickers -> -1..MaxDay]
    /\ \A t \in Tickers : /\ DOMAIN adj[t] \subseteq 0..MaxDay
                          /\ \A d \in DOMAIN adj[t] : adj[t][d] \in Nat
    /\ disk \in [Tickers -> -1..MaxDay]
    /\ run.pc \in {"idle", "next", "apply", "write"}
    /\ run.start \in -1..MaxDay /\ run.todo \subseteq Tickers
    /\ run.cache \in [Tickers -> -1..MaxDay]
    /\ run.splits \in ListDays /\ run.dividends \in ListDays
    /\ bare \subseteq Tickers

\* Every dividend of the ticker comes after its splits: apply_adjustment takes
\* dividends off the split-adjusted price, in today's shares.
DividendsAfterSplits(t) ==
    \A s \in Splits(Parsed(Published, t)), d \in Dividends(Parsed(Published, t)) : s.ts < d.ts

\* The rows of a ticker are always those of one application of one pair of lists,
\* whatever runs were killed, skipped or overtaken by new bars, new actions and
\* empty answers; and unless one of the two was empty the series of a ticker whose
\* price moved by corporate actions alone is flat.
AdjustedSeriesIsContinuous ==
    \A t \in Tickers :
        /\ \E s, d \in ListDays : adj[t] = Adjusted(t, DOMAIN adj[t], Listed(t, s, d))
        /\ t \notin bare /\ DividendsAfterSplits(t) =>
              \A d, e \in DOMAIN adj[t] : adj[t][d] = adj[t][e]

\* A ticker the cache file calls applied on some day, and which was not last done
\* with an empty list, has no adjusted row that misses an action MOEX had published
\* on that day: neither an error, a kill nor an earlier run with an empty list
\* leaves the file ahead of the table (the finally of main, the entry made per
\* ticker).  A run with an empty list does: it enters its tickers all the same.
CachedMeansApplied ==
    \A t \in Tickers \ bare : disk[t] # Null =>
        \E s, d \in disk[t]..MaxDay : adj[t] = Adjusted(t, DOMAIN adj[t], Listed(t, s, d))
=============================================================================
