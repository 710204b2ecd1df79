------------------------------- MODULE Quality -------------------------------
(***************************************************************************)
(* The data quality gates (src/src/data/quality): the ingestion gate that  *)
(* the coordinator asks before it trades, alone and in its wrapper before  *)
(* a store, the historical gate with its split detection, and the row      *)
(* checks of validate.py that the archive backfill uses.                   *)
(*                                                                         *)
(* Prices are multiples of a unit of which range_epsilon is one.  Days are *)
(* numbered from a Monday.  The z-score check is left out: its issue is    *)
(* MEDIUM and never changes a verdict, and |z| > 6 takes 38 returns.  No   *)
(* caller passes the set of columns, and the Bar type admits neither a     *)
(* missing date nor NaN nor a price that is not positive, so those checks  *)
(* never report.                                                           *)
(***************************************************************************)
EXTENDS Integers, Sequences, FiniteSets, FiniteSetsExt

CONSTANTS
    Days,            \* the days the rows are of
    Kinds,           \* bars: [open, high, low, close, volume]
    Infinity,        \* the price that stands for inf
    Nows, Delistings, \* values of now and delisted_at
    MinHistory,      \* IngestionParams.min_history_rows
    StaleMax,        \* stale_max_calendar_days
    LargeGap         \* large_gap_calendar_days

NoBar == [close |-> 0]
NoDay == -1
Epsilon == 1                 \* range_epsilon
Columns == {"open", "high", "low", "close"}

ASSUME QualityAssumption ==
    /\ Days \subseteq Nat /\ IsFiniteSet(Days) /\ Days # {} /\ Nows \subseteq Int
    /\ MinHistory \in Nat /\ StaleMax \in Nat /\ LargeGap \in Nat
    /\ \A b \in Kinds :                                             \* Field(gt=0.0), Field(ge=0)
          (\A c \in Columns : b[c] \in Nat \ {0}) /\ b.volume \in Nat

VARIABLES
    rows,            \* day -> the bar the broker has of it, or NoBar
    copies,          \* days that two adjacent requests of the loader answer
    now, delisted_at,
    stage,
    verdict,         \* what the coordinator makes of the series
    issues,          \* the kinds both gates report
    stored,          \* gate_then_upsert called the store
    adjusted         \* the series after apply_split_adjustment

qualityVars == <<rows, copies, now, delisted_at, stage, verdict, issues, stored, adjusted>>

-------------------------------------------------------------------------------
(* Severities.                                                             *)

_ISSUE_SEVERITY(kind) ==
    CASE kind \in {"NAN_PRICE", "FUTURE_ROW"} -> 4
      [] kind \in {"RANGE_VIOLATION", "COVERAGE_LOW", "STALE_DATA", "INSUFFICIENT_HISTORY", "DELISTED"} -> 3
      [] kind \in {"LARGE_GAP", "SPLIT_DETECTED"} -> 2
      [] kind = "LOW_VOLUME" -> 1

CRITICAL == 4
HIGH == 3

worst_severity(kinds) == Max({ _ISSUE_SEVERITY(k) : k \in kinds } \cup {0})
rejected(kinds) == worst_severity(kinds) = CRITICAL

-------------------------------------------------------------------------------
(* The ingestion gate, over a function from row keys to bars; DayOf gives  *)
(* the primary_key of a row.                                               *)

DayOf(key) == key[1]
Keys(bars) == DOMAIN bars
DaysOf(bars) == { DayOf(k) : k \in Keys(bars) }

expected_trading_days(first, last) == Cardinality({ d \in first..last : d % 7 < 5 })

_max_calendar_gap(bars) ==
    Max({ q[2] - q[1] : q \in { p \in DaysOf(bars) \X DaysOf(bars) :
                                   /\ p[1] <= p[2]
                                   /\ ~\E c \in DaysOf(bars) : p[1] < c /\ c < p[2] } })

OutOfRange(b) ==
    \/ b.high < Max({b.open, b.close}) + Epsilon
    \/ b.low > Min({b.open, b.close}) - Epsilon

Infinite(b) == \E c \in Columns : b[c] = Infinity

check_ingestion(bars) ==
    LET n        == Cardinality(Keys(bars))
        first    == Min(DaysOf(bars))
        last     == Max(DaysOf(bars))
        expected == expected_trading_days(first, last)
        quiet    == Cardinality({ k \in Keys(bars) : bars[k].volume = 0 })
        when(condition, kind) == IF condition THEN {kind} ELSE {}
    IN  IF \E k \in Keys(bars) : Infinite(bars[k]) THEN {"NAN_PRICE"}
        ELSE when(\E k \in Keys(bars) : OutOfRange(bars[k]), "RANGE_VIOLATION") \cup
             when(n > 0 /\ n * 100 < 95 * expected, "COVERAGE_LOW") \cup
             when(n < MinHistory, "INSUFFICIENT_HISTORY") \cup
             when(n > 0 /\ now - last > StaleMax, "STALE_DATA") \cup
             when(n > 1 /\ _max_calendar_gap(bars) > LargeGap, "LARGE_GAP") \cup
             when(quiet * 10 > n, "LOW_VOLUME")

Held == { d \in Days : rows[d] # NoBar }

\* The rows of fetch_ohlcv: it asks year by year, each request beginning where the
\* one before it ended, and appends the answers, so a day on the seam may come twice.
Fetched(twice) ==
    [ key \in { <<d, 1>> : d \in Held } \cup { <<d, 2>> : d \in twice } |-> rows[DayOf(key)] ]

\* Mutant: both rows of a day are kept.
OnePerDay_KeepsAll(bars) == bars

\* The first row of each day.
OnePerDay(bars) ==
    [ key \in { k \in Keys(bars) : \A l \in Keys(bars) : DayOf(l) = DayOf(k) => k[2] <= l[2] }
        |-> bars[key] ]

_validate(bars) ==
    bars # << >> /\ worst_severity(check_ingestion(OnePerDay(bars))) < HIGH

-------------------------------------------------------------------------------
(* The historical gate, over a function from days to bars.                 *)

\* The change from p to c as a split: n for n new shares in place of one, -n
\* for one in place of n, 0 for neither.
_nearest_integer(p, c) ==
    LET large == Max({p, c})
        small == Min({p, c})
        n     == (2 * large + small) \div (2 * small)
    IN  IF large = Infinity \/ n < 2 \/ Max({large - n * small, n * small - large}) * 50 > n * small THEN 0
        ELSE IF c < p THEN n ELSE -n

Abs(n) == IF n < 0 THEN -n ELSE n

\* [day |-> the first day after the split, n |-> as above]
detect_splits(series) ==
    LET Previous(d) == { x \in DOMAIN series : x < d }
        Split(d)  == _nearest_integer(series[Max(Previous(d))].close, series[d].close)
        Agrees(d, c) == Abs(_nearest_integer(series[Max(Previous(d))][c], series[d][c])) = Abs(Split(d))
    IN  { [day |-> d, n |-> Split(d)] :
            d \in { x \in DOMAIN series :
                      /\ Previous(x) # {} /\ Abs(Split(x)) \in 2..10
                      /\ Cardinality({ c \in {"open", "high", "low"} : Agrees(x, c) }) >= 2 } }

Times(splits) == FoldSet(LAMBDA s, product : Abs(s.n) * product, 1, splits)

\* Mutant: the bar of the split's own day is adjusted as well.
Before_Inclusive(d, s) == d <= s.day

Before(d, s) == d < s.day

\* Bars of before a split, in the shares of after it.
apply_split_adjustment(series, splits) ==
    [ d \in DOMAIN series |->
        LET forward == Times({ s \in splits : Before(d, s) /\ s.n > 0 })
            reverse == Times({ s \in splits : Before(d, s) /\ s.n < 0 })
        IN  [ c \in DOMAIN series[d] |->
                IF series[d][c] = Infinity THEN Infinity
                ELSE IF c \in Columns THEN (series[d][c] * reverse) \div forward
                ELSE (2 * series[d][c] * forward + reverse) \div (2 * reverse) ] ]

Primary == [ d \in Held |-> rows[d] ]
Until(series, day) == [ d \in { x \in DOMAIN series : x <= day } |-> series[d] ]

\* What of the series is looked at for splits: no future rows, none after the
\* delisting.
Past(series) ==
    IF delisted_at = NoDay THEN Until(series, now) ELSE Until(series, Min({now, delisted_at}))

check_historical(series) ==
    (IF \E d \in DOMAIN series : d > now THEN {"FUTURE_ROW"} ELSE {}) \cup
    (IF Past(series) # Until(series, now) THEN {"DELISTED"} ELSE {}) \cup
    (IF detect_splits(Past(series)) # {} THEN {"SPLIT_DETECTED"} ELSE {})

-------------------------------------------------------------------------------
(* The row checks of validate.py, by which the archive backfill decides.   *)

validate_bar(b) ==
    (IF b.high < b.low THEN {"high_lt_low"} ELSE {}) \cup
    { <<"low_gt", c>> : c \in { x \in {"open", "close"} : b.low > b[x] } } \cup
    { <<"high_lt", c>> : c \in { x \in {"open", "close"} : b.high < b[x] } } \cup
    { <<"non_positive", c>> : c \in { x \in Columns : b[x] <= 0 } } \cup
    (IF b.volume < 0 THEN {"neg_volume"} ELSE {})

-------------------------------------------------------------------------------
(* The callers.  Of the two wrappers the repository has none but tests.    *)

QualityInit ==
    /\ rows \in [Days -> Kinds \cup {NoBar}]
    /\ copies \in { c \in {{}, {Min(Days)}, {Max(Days)}} : c \subseteq Held }
    /\ now \in Nows /\ delisted_at \in Delistings
    /\ stage = "fetched" /\ verdict = FALSE /\ issues = {} /\ stored = FALSE /\ adjusted = << >>

\* Coordinator._validate
Validate ==
    /\ stage = "fetched" /\ stage' = "validated"
    /\ verdict' = _validate(Fetched(copies))
    /\ UNCHANGED <<rows, copies, now, delisted_at, issues, stored, adjusted>>

\* A CRITICAL report raises DataQualityCritical after it is written; a HIGH
\* one does not keep the rows out of the store.
gate_then_upsert ==
    /\ stage = "fetched" /\ stage' = "gated"
    /\ issues' = check_ingestion(Fetched(copies))
    /\ stored' = ~rejected(issues')
    /\ UNCHANGED <<rows, copies, now, delisted_at, verdict, adjusted>>

gate_then_audit ==
    /\ stage = "fetched" /\ stage' = "audited"
    /\ issues' = check_ingestion(Fetched({})) \cup check_historical(Primary)
    /\ UNCHANGED <<rows, copies, now, delisted_at, verdict, stored, adjusted>>

\* A caller corrects what the gate detected, as the docstring of historical.py
\* foresees; the repository has none that does yet.
Correct ==
    /\ stage = "audited" /\ "SPLIT_DETECTED" \in issues /\ stage' = "corrected"
    /\ adjusted' = apply_split_adjustment(Past(Primary), detect_splits(Past(Primary)))
    /\ UNCHANGED <<rows, copies, now, delisted_at, verdict, issues, stored>>

QualityNext == Validate \/ gate_then_upsert \/ gate_then_audit \/ Correct

QualitySpec == QualityInit /\ [][QualityNext]_qualityVars

-------------------------------------------------------------------------------
(* Properties.                                                             *)

\* A series the coordinator trades on has enough distinct days, even when a day on
\* the seam of two requests came twice, 95 of 100 trading days, a latest bar no
\* older than allowed, and no bar the archive backfill would have refused
\* (Coordinator._validate against validate_bar).
AllowedSeriesIsSound ==
    verdict =>
        /\ Cardinality(Held) >= MinHistory
        /\ Cardinality(Held) * 100 >= 95 * expected_trading_days(Min(Held), Max(Held))
        /\ now <= Max(Held) + StaleMax
        /\ \A d \in Held : validate_bar(rows[d]) = {}

\* Correcting a series by the splits detected in it leaves none to detect,
\* also when several splits follow one another in both directions or the
\* price moves a little on the day, and leaves the latest bar alone
\* (detect_splits, apply_split_adjustment).
CorrectedHasNoSplit ==
    stage = "corrected" =>
        /\ detect_splits(adjusted) = {}
        /\ adjusted[Max(DOMAIN adjusted)] = rows[Max(DOMAIN adjusted)]
===============================================================================
