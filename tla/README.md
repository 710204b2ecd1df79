# Alphard: TLA+ models and proofs

Alphard is a trading bot for the Moscow exchange. One container runs a main
process (`src/src/main.py`) with a supervisor for a long backfill of price
history and several daily loops; recommendation runs go through a coordinator
that validates data, asks a risk gate and places an order at the broker; larger
orders are cut into slices. This directory models the parts in which a mistake
costs money or stops the service, checks them with TLC, and proves most of what
TLC finds with TLAPS.

Paths below are those of the repository: `src/` there is `src/src/` here.

## The system: components, state, what is hard, what makes them correct

| component (source) | state | operations | called by / talks to | what is hard | what makes it correct |
|---|---|---|---|---|---|
| Persisted equity trackers (`broker/tinkoff_account.py`) | `_peak_equity`, daily P&L basis, their trust; per store a primary, a `.bak`, a `.tmp` | construct, fetch the portfolio state, save | every `place_order`; feeds the gate | kill between any two writes, failed writes, damaged files, change of day | the peak never falls; the loss is measured from the first NAV of the day |
| Risk gate (`risk/gate.py`) | none | `evaluate` | order flow, account, coordinator | arithmetic at the limits | five checks on the position *after* the trade |
| Order submission (`tinkoff_account.place_order`) | the open call | quote, portfolio, gate, post | flow, coordinator; the exchange | three round trips during which the market moves; a lost answer | nothing is posted that the gate refused; whole shares only |
| Order flow and slicer (`broker/integration.py`, `broker/slicer.py`) | the parent, its slices, statuses | `submit_market` | account, gate, ADV provider | partial acceptance, stale snapshot, kill switch mid-parent | totals and the one final status agree with the exchange |
| Coordinator (`coordinator.py`) | stages, verdict, broker status, audit id | `run_once` | validation, gate, account, Postgres | stale verdict, exceptions in each stage, failing insert, kill | no order without every gate; one truthful row per run |
| Token bucket (`data/token_bucket.py`) | `_tokens`, `_last_refill` | `acquire`, `acquire_nowait`, `wait_time`, `tokens_available` | all loaders, from several threads | lock released while asleep, capacity below a token | a rate bound over *every* interval; nobody waits for ever |
| Backfill supervisor (`main.py` 159-394) | death timestamps, backoff, streak file | spawn, wait, judge, back off | child process, main thread, Docker | crash cap, breaker, shutdown, other reapers, restart | restart with spacing, abort exactly at the cap, no orphan |
| Scheduled daemons and watchdog (`main.py` 397-989) | sleeping or running threads, the sentinel row of the sync | daily sync, incremental, delisted, corporate actions, macro; the watchdog's look | scripts as subprocesses, Postgres, Docker | a schedule that drifts, failing, slow or unkillable children, a watchdog that sees one timestamp | a healthy container is left alone, a wedged one is replaced |
| Backfill and sync scripts (`scripts/`) | a ticker at a time, its fetched bars and window | sync, incremental, backfill, weekly pass, `mark_terminally_failed` | loaders, store; started by main at any time | four processes over one store, kills, midnight, reads that are old when used | history without holes, closed bars only, flags that mean what they say |
| OHLCV store (`data/pg_store.py`) | bars, tickers, adjusted bars, sentinel | upserts, counts, flags | scripts, quality, web | the first value of a bar wins, the last value of a ticker field wins | no bar without its ticker |
| Loaders (`data/*_loader.py`, `fallback_loader.py`) | buckets, universe caches | fetch with fallback, list the universe | Tinkoff, MOEX | errors that look like empty answers | the first source with rows is used |
| Data quality (`data/quality/`) | none | ingestion and historical gate, split detection | coordinator, daily sync, loaders | days answered twice, rounding of ratios | what is traded on is sound; a corrected series needs no correction |
| Sizing (`broker/sizing.py`) | audit file | size a position, append a record | coordinator, macro regime | scalars, caps and roundings together; a kill between system calls | more risk never buys more; records survive |
| Corporate actions (`data/adjustment.py`, `scripts/apply_corporate_actions.py`) | adjusted bars, cache file, lists fetched in the run | fetch, adjust, write, save the cache | MOEX, store | the table is written by ticker, the cache at the end | one list of actions per adjusted series; the cache runs ahead of the table only where a feed's answer was empty |
| Macro (`macro/`, `data/macro_fetcher.py`) | regime rows | classify, upsert | sizing, dashboard | thresholds | total classification, monotone in each figure |
| Backups, replay, certificates, web, metrics, start-up | files, none | command line and HTTP | operators | mostly input and output | – |

The inventory in `PROJECT.json` carries the same list with its status; the
hazards of the code, each at its line with the property that covers it, are
there too.

## Modules

| module | models | used by |
|---|---|---|
| `HighWaterMark` | the promise of the peak store: a mark that only rises while the process runs and of which a stored copy survives kills | refined by `EquityTracker` |
| `EquityTracker` | the two persisted trackers of `TinkoffAccount` | `EquityTrackerProofs` |
| `EquityTrackerProofs` | theorems about it and its refinement | |
| `RiskGate` | `RiskGate.evaluate`, as operators | instantiated by `Broker` as `Gate` |
| `Broker` | `place_order` and the exchange, as actions | extended by `OrderFlow` and `Coordinator` |
| `OrderFlow` | `submit_market` and the slicer on top of `Broker` | `OrderFlowProofs` |
| `OrderFlowProofs` | theorems about it | |
| `Coordinator` | `run_once` on top of `Broker` | `CoordinatorProofs` |
| `CoordinatorProofs` | theorems about it | |
| `TokenBucket` | the bucket | `FeedProofs` |
| `Supervisor` | `_backfill_supervisor_loop` with the child, the main thread and Docker | `SupervisorProofs` |
| `SupervisorProofs` | theorems about it | |
| `Daemons` | the scheduled threads, the watchdog and Docker | `MCDaemons`, `DaemonsProofs` |
| `DaemonsProofs` | theorems about it | |
| `OHLCVStore` | the statements of `PostgresDataStore`, as operators on the tables | extended by `MarketData` |
| `MarketData` | the loaders and their chain, as operators | extended by `Backfill` |
| `Backfill` | the data scripts as processes over one store | `MCBackfill`, `BackfillProofs` |
| `BackfillProofs` | theorems about it | |
| `CorporateActions` | the weekly adjustment run and its arithmetic | `MCCorporateActions`, `FeedProofs` |
| `FeedProofs` | theorems about `CorporateActions` and `TokenBucket`, which the exchange's feeds meet | |
| `Sizing` | `compute_position_size`, `classify` and the audit file | `MCSizing`, `PreTradeProofs` |
| `Quality` | the quality gates and their callers | `MCQuality`, `PreTradeProofs` |
| `PreTradeProofs` | theorems about `Sizing` and `Quality`, which stand between a signal and an order | |

A module that is proved about together with another names its parts apart
(`BucketInit`, `QualityNext`, ...).

### EquityTracker

`disk[store]` holds the primary, the mirror and the temporary file of the
`peak` and `basis` stores; a file is absent, torn or good with a payload. A call
of `_fetch_real_portfolio_state` is `Snapshot`, `RaisePeak`, the save of the
peak, `CheckDay` (lines 835-891), the save of the basis, `Return`. A save is
`MirrorOpen` (truncates `.bak`), `MirrorFill`, `WriteTmp`, `Publish`
(`os.replace`), with `MirrorFails` and `SaveFails` for each `OSError` the code
swallows. `makedirs` failing is `MirrorFails` and then `SaveFails`. `Crash` may
come between any two actions. `WriteTmp` is one step although the file grows byte by
byte, because no loader reads `.tmp`. `Corrupt` damages a primary from outside
at any point. The legacy basis file is an initial state.
History variables record the highest peak published (`durable`), the one before
(`prevDurable`), and the day's first published basis (`dayOpen`).

### RiskGate, Broker, OrderFlow, Coordinator

`RiskGate` multiplies every percentage out, so the Decimal comparisons become
integer ones. `Broker` has one action per round trip of `place_order`:
`PlaceOrder`, `ReadQuote`, `ReadPortfolio`, `Evaluate`, `Exchange`, with
`Refuse` for an error before the post and `RAISED` for `BrokerError`. Market
moves and fills of working orders interleave with them. `sent` and
`answerLost` are history. One symbol is traded and the broker path passes no
sector, as in the source, so `RISK_SECTOR` is only exercised as an operator
that never fires there.

`OrderFlow` keeps the caller's snapshot (`TakeSnapshot` and `Submit` are
separate), the number of slices, and the statuses of those already placed. Quantities
of slices are the fractions `parent / slices` and are truncated by `Broker`.
`RoundHalfEven` is Python's `round`. Slices go out back to back: `start_at` is
not used by the code either.

`Coordinator` takes the stages in order, blocks as the code does
(`auditBlocked` returns without noting `AUDIT`), and re-checks the age of the
verdict (`ToctouCheck`). `Factories` says whether `TinkoffAccount.from_env`
resolves: it is a function of the module and not of the class, so in the
source it does not (FALSE); the tests patch it in with `create=True` (TRUE), and the
passing run takes both so that what follows the call is checked too. The audit
row may be inserted, not inserted, or inserted with the commit unconfirmed; `Stores`
says whether a `store_dsn` is configured, without which no row is written.
`unwritten` records the runs that were killed before their insert or whose insert
failed: `EveryRunAudited` says of each run which it is.

### TokenBucket

A token is `Unit` parts, `Rate` parts come per tick. `Take` and `Sleep` are the
two outcomes of one pass under the lock; a sleeper wakes at `wake` and is at
most `MaxDelay` late. A float delay may be a rounding error short: `Delays`
offers both roundings. `before[s]` is the number granted before instant `s`.

### Supervisor

A tick is an abstract unit of time. The list of deaths is only filtered by age and
counted, so it is a set of `[child, at]`: two children may have died at one instant.
`Spawn`, `Wait`, `WaitShutdown`, `Judge`, `Backed` are the stages of one
iteration. `ReapedElsewhere` is the zombie taken by another waiter, which the
code reads as a clean exit. `sinceClosed` is history: the streak as the breaker's
comments count it, which a child that outlives `ProbeWindow` while the breaker is
open starts anew; the code's own streak is `unavail_streak`. `/app/logs` is a tmpfs (`docker-compose.yaml`
114), so the tail of the log is empty after a restart; the streak file in
`/tmp` survives a restart of the container and not its replacement.

### Daemons

Each thread is asleep, running, stuck or ended, with a timer that counts down,
so time needs no horizon and liveness is checked over an endless clock. `Fire`,
`SyncEnds`/`OtherEnds`, `TimedOut`, `Wedged` are the parts of one iteration; the
next sleep is counted from the end of the run (`NextSleep`), as in the code, so
the schedule drifts. The sentinel is the age of `last_successful_run_at`, which
only an "ok" stamp resets. `WatchdogLooks` takes the age of the container as known or not;
`WatchdogBlind` is a look without a database. `sys.exit(1)` goes through main's
`finally`, whose `sys.exit(0)` replaces the status: both are "stopping", and
Docker's `unless-stopped` restarts either way.

### OHLCVStore, MarketData, Backfill

The tables are values and each statement is an operator from the old value to
the new one, because each commits by itself. A bar is its day and whether that
day was over when it was fetched. `MarketData` gives each request three
outcomes (rows, nothing, error) and builds the chain and the universes from
them. In `Backfill` a script takes a ticker (`Takes`), fetches, writes the
ticker, writes the bars, checks and marks, one statement or request per step;
`TickerFails` is an exception the loop catches, `Ends` the end of the loop or a
kill. `Midnight` may fall anywhere, once per run: the timeouts and deadlines of
the code do not allow two. `liquid` is the part of the universe `daily_sync`
asks for. The exit codes of the backfill are the environment of `Supervisor`.
Day 0 stands for every start of a window that lies before the listing (2018, the
year of the listing, 3650 days ago), and the horizon is shorter than those. The
skip of a ticker listed after the requested end, the option `--skip-known-bad`,
the `_skip` cache of the chain and a short page that MOEX's pagination takes for
the last one are left out, and the foreign key of the bars, which `RowsHaveTicker`
shows no script runs into.

### CorporateActions

Raw prices are generated from the published actions alone (`RawClose`), so the
right adjusted series is flat, which gives a reference that does not repeat the
adjustment's own arithmetic. A request for one of MOEX's two lists has three
outcomes: the list, an exception, or a 200 without a usable table, which the
parser turns into an empty list that the run keeps like any other (`Fetched`,
`NoTable`). `bare` records the tickers last done with such a list. Prices are whole kopecks where the code has
Decimals; `ClosesAreExact` says that no close of the instance had to be rounded. A run loads the cache, fetches each of MOEX's
lists once (`splits`, `dividends` hold the day or `NoTable`), adjusts and writes ticker by
ticker and saves the cache at its end; `Killed` loses it. Nonsense entries are
filtered as in the code, and a price below zero is the ticker's error.

### Sizing

The scalars are percents and money is kopecks, cut at each product. The types of the inputs are those the pydantic validators of `PortfolioState`,
`Quote` and `Bar` admit (`SizingAssumption`). Every
input of the instance is an initial state, and `WorseNeverSizesMore` compares
it with each input in which one condition is worse. The ATR is the simple one
below `EwmaMinBars` bars and the EWMA from there on, whose root is taken by its
whole part. `Worse` leaves two kinds of series out: inverted bars, which `Bar` admits
and whose size the EWMA squares, and worse series with a bar without volume, which
the code takes for plenty. `Hook`, `Read`, `OpenTmp`,
`WriteTmp` and `Replace` are the system calls of `write_audit_jsonl`;
`ReadFails`, `WriteFails` and `Kill` may come at each.

### Quality

Initial states are all series over the days of the instance; one action per
caller of the gates (`Validate` of the coordinator, `gate_then_upsert`,
`gate_then_audit`, which only tests call), and `Correct`, by which a caller applies
the splits found, as the docstring of `historical.py` foresees (45-48) and nothing in
the repository does yet. `copies` are days that came twice: the live loader cuts a
fetch into requests of at most a year whose common instant is the end of one and the
beginning of the next (`tinkoff_loader.py` 342-346), so a candle there may be in both
answers and the first of the two is kept by `_validate`.

## Runs

| run | size | what it shows |
|---|---|---|
| `equity_tracker` | 556 k states | the peak survives kills and failed writes; one damaged primary costs at most one rise; the day's loss is kept over restarts; an untrusted basis refuses; the tracker implements `HighWaterMark` |
| `order_flow` | 1.3 M | the exchange never holds more than the parent; REJECTED and FILLED are true (a lost answer aside); the position limit holds; a kill switch lets through at most the slice under way |
| `coordinator` | 821 k | no order without every gate; refusals left nothing behind; exactly the runs that got to their insert have a row, and it tells what happened; every run ends |
| `token_bucket` | 135 k | the rate over every interval; no waiter is forgotten |
| `supervisor` | 488 k | abort exactly above the cap; no orphan; streak and spacing; a dead child is replaced |
| `daemons` | 40 k | no stop of a container whose syncs succeed; none before the first slot; a wedged sync thread is replaced |
| `data` | 976 k | no hole in the history of a ticker the daily sync leaves alone; no bar without its ticker; the incremental run stores closed bars only |
| `corporate_actions` | 312 k | the adjusted series is always the result of one pair of lists, and flat unless one was empty; the cache file claims what the table does not have only of tickers served an empty list |
| `sizing` | 76 k | a worse condition never buys more; no record of the audit file is lost to a kill |
| `quality` | 515 k | what the coordinator accepts is sound; correcting splits leaves none |
| `rejected_live` | violation | REJECTED while an order stands |
| `complete_flag` | violation | a ticker is flagged complete without its history |

### Bounds, and why they are enough

- `equity_tracker`: NAV 0..3 gives two rises and a fall in one behaviour, two
  days one rollover, two kills a restart whose own recovery is cut short, one
  failed write and one damaged file every combination with a kill.
- `order_flow`: 2 and 5 shares at 5% of ADV 40 give one and two or more slices
  with fractions; ADV 0 the refusal; `MaxChunks` 4 the cap on chunks; two
  parents let the second meet what the first left working; one market move
  between NAV 100 and 80 crosses both the drawdown and the daily-loss limit.
- `coordinator`: two runs, so that a row of one could be taken for another's;
  one kill, one failing insert; limit price 0 and 10, peaks below and at the
  equity, losses below and above the limit reach each refusal; `Window` 1 gives
  a fresh and a stale verdict; with and without a store.
- `token_bucket`: two threads, three calls each, a burst of less than one token (the
  floor applies) and a rate of 2/3 token per tick, so that tokens are
  fractional; idle time first lets the bucket overflow.
- `supervisor`: cap 2, threshold 2, hour 8 ticks, four children: enough to reach
  the cap within and across the window and to open and close the breaker; children that end
at once and children that outlive the probe window.
- `daemons`: one thread of each kind (at an hour with the watchdog's sentinel, at
  another hour, after a delay). A day is 4 ticks, the limit 5, a run at most 1:
  the ratios of 24 h, 26 h and 10 min (a run and a period together still fit)
  with every start hour.
- `data`: one ticker, liquid or not, because no script relates two tickers; it is
  listed on day 1 of 5, and the sync's window is two days, so that outages longer
  than the window, midnight within a run and three scripts at once all happen.
  `complete_flag` has a ticker listed seven days before, the smallest span whose
  expected number of bars exceeds what the sync stores.
- `corporate_actions`: a split followed by a dividend, a nonsense ratio, and a
  dividend that a later split makes larger than the price; actions of days 1 and 2 and
  runs of days 0 and 1, since a list has the actions of the next day too: a cache entry
  is fresh, then stale, the lists of two runs differ, and each of the two lists of a run
  may be there, empty or refused.
- `sizing`: drawdowns before, at and beyond the knee, cash that rounds to no lot and
  cash that meets the cap, volumes of none, little and plenty, each macro figure at
  and beyond its threshold; the EWMA begins at two bars in place of 30, so that series
  of one bar take one ATR and series of two the other; three appends and two faults.
- `quality`: a Friday, a Saturday, a Monday and a Tuesday with eight kinds of bars:
  price levels 1 : 2 : 4 for splits in both directions, one level slightly off, a bar
  without a wick, an impossible, an infinite and a quiet one; a minimum of three
  rows in place of 252; the first or the last day twice.

Deadlock is checked in `equity_tracker`, `daemons`, `data` and
`corporate_actions`; the other models stop by design once the callers have used
up their bounded number of parents, runs, calls or children, or the one series
has been judged.

### Fairness

- `Coordinator`: weak fairness of the run's own steps and of the round trips (one
  thread of straight-line code with timeouts in its clients), and of `Restart`
  (Docker). Kills and the clock are not fair.
- `TokenBucket`: time passes, and a thread that is ready gets the lock. The
  calls are bounded; with an endless stream of competitors the code does not
  promise that a given sleeper is served, and nothing here says so.
- `Supervisor`: the loop and the main thread's join. A child need not end
  and Docker need not restart.
- `Daemons`: the heartbeat ticks, a thread whose sleep is over fires, a run that
  reaches its timeout ends or wedges, Docker restarts what stopped; and strong
  fairness of a look of the watchdog with an answering database and a readable
  `/proc`, since the code skips the looks without. Scripts need not succeed or end
  by themselves.
- The other modules have safety properties only.

## Proofs

All theorems are for every value of the constants that satisfies the named
assumptions of the component's module; `tlapm` checks them to the last leaf. The
assumptions are the types of the constants, and facts of the code:

- prices, NAVs and quantities are positive (`MarketAssumption`, `FlowAssumption`,
  `CoordinatorAssumption`: the models of `orders.py` and `gate.py` validate them), and so
  are the prices of a bar (`QualityAssumption`, `SizingAssumption`:
  `Field(gt=0.0)` of `models.py` and the validators of `sizing.py`);
- equity is at most the peak, confidence at most 100% (`SizingAssumption`, validators again);
- a day's sleep and the longest sync together are within the watchdog's limit
  (`DaemonsAssumption`: 24 h and 10 min against 26 h in `main.py`);
- prices are not rounded (`ClosesAreExact`: Decimals in the code, whole numbers here).

Each invariant below was run through TLC as an invariant of the component's run
before it was proved.

**`EquityTrackerProofs`**

- `TypeCorrect`: `Spec => []TypeOK`.
- `DurablePeakSafe` (`DurablePeakKept`). The property alone is not inductive: it
  says nothing of the files from which the next start reads. `PeakInv` adds that,
  while nothing is damaged, the primary is never torn and holds `durable`; that
  before the first publication there is no mirror either; that the process is idle
  when down; and that the `.tmp` about to be renamed holds the peak in memory.
- `TrackerImplementsHighWaterMark`: every step is `Raise`, `Store`, `Stop`,
  `Start`, `Damage` or a stutter of `HighWaterMark`, with `stored` mapped to what a
  start would read.
- `OneStepLost` (`OneCorruptionCostsOneStep`). `StepInv` says what a loader would
  find if the primary were lost at each point of a save: outside a save the mirror
  alone is worth at least the peak before the last one; between the copy and the
  rename it is worth the last one, which the rename then makes the one before.
- `LossMeasuredFromDayOpen` (`LossFromDayOpen`). `BasisInv`: once today has a
  published basis, the primary holds it, so does a running process, no other of
  today is being saved, and the figure a call is about to return was measured from it.
- `UntrustedBasisStays` (`UntrustedBasisBlocks`, an action property). `LegacyInv`
  says that a running process whose primary is a legacy file has that file's day in
  memory, untrusted, and is not saving a basis.

**`OrderFlowProofs`**

- `TypeCorrect`: `Spec => []TypeOK`, from lemmas on the types of `Broker`'s
  steps (repeated in `CoordinatorProofs`) and `CallInv`, which ties the phase of `submit_market` to the phase of the call of
  `place_order` under it and to the number of recorded statuses.
- `NoOverfill` (`NeverOverParent`) and `FinalStatusIsTrue`
  (`StatusTellsWhatWasSent`), both from `SentInv`: what the exchange accepted is at most
  the number of slices gone times the whole shares of one slice, exactly nothing
  while every status is a refusal and no answer was lost, and exactly that product
  while every one is FILLED. That `slices * floor(q / slices) <= q` closes the first.
- `SwitchHolds` (`KillSwitchStopsParent`). `SwitchInv`: once an order went out with
  a switch due, the switch is still due or the count starts anew, no other order is past
  its gate, and an equity read since then is one the gate refuses. `TrippedRefuses`
  shows the gate's part from the definitions of `RiskGate`.
- `PositionStaysWithinLimit` (`PositionWithinLimit`). `TotalInv`: in a still market,
  position plus working orders is the snapshot plus what was sent, and the parent as a
  whole passed the position check against the snapshot. Needs `0..100` for the
  limits and positive prices.

**`CoordinatorProofs`**

- `TypeCorrect`: types of all variables (`TypeInv`); no run checks it by itself.
- `GatesBeforeOrder` (`OrderOnlyAfterEveryGate`). `GateInv` says for each phase of
  `run_once` which gates the run has passed, and that nothing was sent before `_execute`.
- `StatusIsTrue` (`StatusTellsWhatWasSent`). `SentInv` follows the call of
  `place_order`: what the exchange has accepted at each of its steps.
- `RunsAudited` (`EveryRunAudited`). `LogInv`: the runs over are those up to the one
  under way, which is not among the unwritten ones until it is killed or its insert
  fails, and then for good; so the set of runs with a row grows by the run under way
  exactly when its row is appended (`RunsOf`, `AppendRow`), after all the others.
- `RowIsTheRuns` (`RowMatchesRun`). `RowInv`: the last row, once inserted, is made
  of the run's fields, which no later phase of the run changes, and `EXECUTE` is
  among the stages exactly from `_execute` on.

**`SupervisorProofs`**

- `TypeCorrect`: `Spec => []TypeOK`, with the bound on the death list from `WindowInv`.
- `AbortedForCrashes` (`AbortIffTooManyCrashes`). `WindowInv`: the list has every crash
  of the last hour, since what was pruned stays too old under a clock that never goes back;
  right after an iteration nothing older is in it; a child dies once, so each append
  makes the list one longer; and its length is at most the cap, or one more after an abort.
- `NoOrphan` (`NoOrphanOnShutdown`): `WaitInv`, a child runs only while the loop
  waits for it, and the wait ends only with the child's end or SIGTERM.
- `StreakNeverAhead` (`StreakIsConsecutive`): inductive with the types, restarts
  that keep or lose `/tmp` included.
- `ChildrenSpaced` (`SpawnsSpaced`, an action property). `SpacingInv` carries the
  distance to the end of the last child through judging, backing off and the start,
  and the equality of streak and outages that decides which backoff it was;
  `ClosedInv` that the comments' streak is never the longer one.

**`DaemonsProofs`**

- `TypeCorrect`: `TimerInv`, which adds that a thread ends only in a process that stops.
- `QuietWatchdog` (`QuietWhileSyncsSucceed`). `RoundInv`: while every sync has
  succeeded, the age of the sentinel plus what the sync thread has left to sleep and
  run is at most a period and a run, so the age never passes the limit. It is this
  sum, not the age, that every step preserves.
- `FairChance` (`FirstSlotBeforeFirstStop`). `FirstInv`: until the first sync starts,
  the container's age plus the rest of the thread's sleep is at most a day.

**`BackfillProofs`**

- `TypeCorrect`: `ShapeInv`, which adds what each program counter says of the
  script's other fields.
- `BarsHaveTheirTicker` (`RowsHaveTicker`). `KnownInv`: what a script other than
  `daily_sync` has still to visit is known, and so is the ticker at hand from the
  upsert of its row on; no statement makes a known ticker unknown.
- `OnlyClosedBars` (`IncrementalStoresClosedBars`). `ClosedInv`: the window the
  incremental run asks for ends before today.
- `NoHoleInHistory` (`HistoryHasNoHole`). "From the earliest to the latest" is not
  inductive by itself, as a script holds bars it fetched when the table was another.
  `HoleInv` states it as convexity of the set of stored days and adds, per script,
  why storing what it holds keeps it: the full runs hold every day since the listing
  up to today or, after a midnight, yesterday, so their union with anything traded
  so far is convex (`FullIsConvex`); the incremental run's window starts the day
  after a newest bar, and convexity of stored days with window survives what
  other scripts store meanwhile (`JoinedIsConvex`). That minimum and
  maximum of a set of days exist comes from the well-foundedness of `Nat`.

**`FeedProofs`, the corporate-actions run**

- `CacheNeverRunsAhead` (`CachedMeansApplied`). `RunsInv` follows the lists a run holds:
  each is empty or was fetched no earlier than the run's start; what it is about to write is one
  application of them to every row of the table and more; rows in the table come from
  lists no newer than the run's; hence each cache entry of a ticker last done with whole
  lists, in the file or in the run, is
  dated no later than the lists its ticker's rows were made from. That later lists contain
  earlier ones (`ListedGrows`) lets a run that finds nothing to do record today.
- `NoNegativePriceStored` (`TypeOK`). `ValuesInv`: `Adjust` turns a row below zero into
  the ticker's error, so neither the table nor what is about to be written has one. The
  work is that the arithmetic yields integers at all, for every list.
- `SeriesStaysFlat` (`AdjustedSeriesIsContinuous`). `FlatInv`: what a run with two whole lists writes is flat
  and replaces all of the table, and its lists miss no action up to the newest bar,
  because a run sees at most one midnight. That one application is flat (`FlatRows`)
  goes from a day to the day before: `FlatStep` shows the two adjusted closes equal, from
  how the actions between them enter the product of ratios and the sum of
  dividends (`LaterActions`, `SplitUndone`, `ClosesAreExact`).

The products and sums are the library's folds over sets, which are `CHOOSE`s of a
recursive function. Induction over data is out of the prover's reach as a schema, so it
is done by hand: that the function exists is shown from a least counterexample in the
well-founded order of `Nat` (`NoDescent`, `FoldUpToExists`, `FoldExists`); that the
order of elements does not matter, from the laws of a commutative monoid (`Monoid`,
`FoldRemove`), and from it how a fold splits over a union (`FoldUnion`).

**`FeedProofs`, the token bucket**

- `BucketTypeCorrect`.
- `BucketRateBounded`: `RateBounded` for any set of threads. The strengthening
  `BudgetInv` accounts for the parts left in the bucket: what was granted since
  `s` plus what is left is at most a full bucket plus the refill between `s`
  and the last refill; since the last refill nothing has been granted. The
  capping at `Capacity` only loses parts, which `RefillKeepsBudget` shows.

**`PreTradeProofs`, sizing**

- `AuditSurvivesFaults` (`AuditKeepsRecords`). `AuditInv`: the file's records are those of
  earlier calls, and of the present one only after the rename; what was read is what the
  file has, unless a read failed; what is renamed is what was read and one record more.
- `MoreRiskBuysNoMore` (`WorseNeverSizesMore`). `SizedInv`: the order is
  `compute_position_size` of the arguments; the rest is arithmetic about that operator: each
  scalar is antitone in its condition (`LiquidityScalar`, `DrawdownCurve`,
  `RegimeAntitone`, `WorseBarsScalars`), and products, truncated shares, the cap and the
  lots are monotone in them (`OfMonotone`, `DivMonotone`, `SizeMonotone`). Sums over the
  bars of the window and the variance of the EWMA are recursive functions again: that they
  exist, that the variance grows with every bar's size (`VarianceMonotone`), and that
  a whole root exists and grows with its square (`RootIs`, `RootMonotone`), all follow from a least
  counterexample.

**`PreTradeProofs`, quality**

- `TradedSeriesIsSound` (`AllowedSeriesIsSound`). `VerdictInv`: a positive verdict is
  `_validate`'s of the rows that are there. `OneRowOfEachDay` shows what the
  deduplication of days that came twice leaves, `NothingHigh` and `GatePassed` what a gate without a HIGH issue
  has established, `BarIsValid` that its row checks include those of `validate_bar`.

**Only model-checked**

- Liveness (`AcquireReturns`, `RunEnds`, `RespawnedOrStopped`,
  `WedgedSyncIsReplaced`): the prover handles neither fairness nor `ENABLED`.
- `CorrectedHasNoSplit`: it is not true of every instance. The code rounds a ratio to an
  integer within 2%, so bars can be chosen whose corrected prices, rounded
  in their turn, show a ratio again. The run checks it for the price levels given above.


## Where code and documentation disagree

Two disagreements are checked by a run each, with their lines in
`PROJECT.json`:

1. `rejected_live`: the comment over the final status reads REJECTED as "nothing
   reached the broker"; a lost answer is REJECTED too.
2. `complete_flag`: `_is_complete` is documented to compare with the bars expected
   since the listing, and "unambiguously" to mean that the archive was pulled. For a row
   without `listed_at` it measures from the earliest stored bar, so the few bars
   of a daily sync make a ticker complete.

Met while modelling, and not checked by a run:

- Trackers. `.bak` of the basis is always a day behind
  (`tinkoff_account.py` 608), so recovering from it is a new day without a loss,
  although the docstring (597-599) says the switch is not disarmed. A damaged
  primary is logged as renamed aside when only the mirror is. An unreadable
  number in the peak file raises an exception no loader catches. A failed save
  is not repeated until the value changes. Nothing is mounted at
  `/var/lib/alphard`. Two threads that share an account would race on the peak.
- Orders. `RiskLimits.allow_short` and `leverage_max` are read nowhere
  (`gate.py` 219), while `orders.py` 16 says shorts require the former. Orders
  accepted and not yet filled are not in the positions the gate measures, so
  the position limit is stated for a fresh snapshot with no order working.
- Coordinator. `TinkoffAccount.from_env` (`coordinator.py` 532) is a function of
  the module and not an attribute of the class, so every live run ends in
  `ERROR:AttributeError`. `PipelineResult.decided` (181-183) calls every error
  "we did not actually trade", which a lost answer refutes. The comment at
  430-436 expects rows of several sources for a day; `_fetch` (396-406) asks the live
  loader, which has one, and the days that come twice are those on a seam of two
  requests.
- Archive pace. `TokenBucket(rate=0.5, window_seconds=60.0)`
  (`tinkoff_md_loader.py` 224) gives one request in 120 s; the comment at 99
  computes 30 in a minute.
- Supervisor. The comments at `main.py` 168-170 and 344-347 describe a half-open
  breaker: a probe after `_CB_RECOVERY_SECONDS` (173), and a child that survives 30 s
  closes it. Only `test_main_backfill_circuit_breaker.py` 104 reads that constant: the
  breaker stays open until an exit that is clean or shows no outage, however long the
  child ran. `SpawnsSpaced` therefore asks for the breaker's backoff only where both
  agree that it is open. Network exits count as crashes also with the breaker open
  (`main.py` 388): 300 s apart, eleven of them fall into an hour and abort,
  which the comment at 163-170 says the breaker prevents. The comment
  at 1154-1155 says the child is not killed at shutdown; the supervisor sends SIGTERM
  (337).
- Watchdog. One ticker that fails every day leaves the sentinel old, and after
  26 h the watchdog stops a process with nothing stuck in it, and again after
  each restart. The exit status 1 it asks for is replaced by main's
  `sys.exit(0)`.
- Data. `daily_sync` stores the bar of the day it runs, which is not always over,
  and `upsert_ohlcv` keeps that first value. Its window of five days leaves a
  hole after a longer outage, which the incremental run, starting from the
  newest bar, never fills: hence the restriction of `HistoryHasNoHole`.
  `upsert_tickers` overwrites `listed_at` with NULL, after which the
  corporate-actions run skips the ticker. For a ticker listed at most two days
  ago zero bars are expected, so `backfill_complete` does not imply a bar as
  `daily_incremental.py` 60-63 assumes. The chain of loaders swallows every error, so
  the backfill's breaker sees fewer failures than its comment supposes.
- Corporate actions. A dividend before a split is taken off in rubles per old
  share (`adjustment.py` 331-367): hence `DividendsAfterSplits` in
  `AdjustedSeriesIsContinuous`, which leaves out a split and a dividend of one day too. A ticker without bars is cached as done.
  A 200 answer without rows or without the value column is an empty list
  (`fetch_moex_corporate_actions.py` 126-144) that `apply_corporate_actions.py` 175-184
  keeps for the run: its tickers are written without those actions, or not at all, and
  are cached as applied until the entry is stale. Without the exception for `bare`, TLC refutes
  `AdjustedSeriesIsContinuous` and `CachedMeansApplied` in a run with a list of splits and no
  dividends. The docstring at 291-294 says a failing call returns an empty list too; it
  raises, and the ticker is an error.
- Quality. The range check reports a bar whose high equals its open or close
  (`ingestion_gate.py` 347-349), where line 17 of the same file allows equality.
  Weekend bars count towards coverage and not towards the expected days.
  `gate_then_upsert` stores HIGH series. `daily_sync --quality-gate` looks at five days,
  always fewer than the 252 rows asked for. `apply_split_adjustment` applied twice with the same
  splits adjusts twice (`historical.py` 24 says otherwise).
- Sizing. The liquidity scalar is the traded value over 5% of the position: zero
  volume gives the largest scalar, 2.0 (so `Worse` compares positive volumes).
  `Bar` does not ask that the high be at least the low; an inverted bar counts as
  negative in the simple ATR and as positive in the EWMA.
  With the default settings the cap of a tenth of the cash is never reached. An
  unreadable audit file is replaced by the new record alone.

## Not modelled, and why

- The metrics loop, the web pages and the health checks read and report; they
  keep no state of their own.
- Fetching and storing macro figures, certificates, backups, replay, container
  start-up: input and output around one call each.
- Downloads, paging, retries and parsing of archives inside the loaders: a
  request brings rows, nothing or an error, which is all its callers can tell.
- The z-score: a real-valued function that never changes a verdict. The comparison
  across sources only reports.
- `backfill_full_universe`, `backfill_spbxm_universe` and
  `sync_universe_delisted`: nothing in the repository starts them. `sizing_v1`
  re-exports `sizing`.
- `cancel_order`, the FIGI lookup and several symbols in one account.
