--------------------------- MODULE BackfillProofs ---------------------------
(***************************************************************************)
(* Proofs about Backfill for every set of tickers, every listing day, every *)
(* horizon of days and any number of scripts that run at once.             *)
(***************************************************************************)
EXTENDS Backfill, WellFoundedInduction, TLAPS

ScriptState == [pc : Steps, day : (FirstDay..MaxDay) \cup {Null}, todo : SUBSET Tickers,
                cur : Tickers \cup {NoTicker}, got : SUBSET BarSet(0..MaxDay),
                start : Int, end : Int, checked : (FirstDay..MaxDay) \cup {Null}]

\* TypeOK, and what the scripts' program counters say of their other fields: bars
\* are held only from their fetch to their store, and then with their ticker.
ShapeInv ==
    /\ TypeOK
    /\ \A p \in Scripts :
           /\ proc[p].pc \in {"idle", "next", "fetch"} => proc[p].got = {}
           /\ proc[p].pc \notin {"idle", "next"} => proc[p].cur \in Tickers
           /\ proc[p].pc = "meta" => p = "sync"
           /\ proc[p].pc = "fetch" => p = "incr"

-----------------------------------------------------------------------------
(* What each step makes of the record of its script.                         *)

Sets(p, r) == proc' = [proc EXCEPT ![p] = r]

LEMMA ScriptTypes ==
    ASSUME ShapeInv, NEW p \in Scripts
    PROVE  /\ proc[p] \in ScriptState /\ proc \in [Scripts -> ScriptState]
           /\ proc[p].pc \in Steps /\ proc[p].day \in (FirstDay..MaxDay) \cup {Null}
           /\ proc[p].todo \in SUBSET Tickers /\ proc[p].cur \in Tickers \cup {NoTicker}
           /\ proc[p].got \in SUBSET BarSet(0..MaxDay)
           /\ proc[p].start \in Int /\ proc[p].end \in Int
<1>1. proc \in [Scripts -> ScriptState]
  BY DEF ShapeInv, TypeOK, ScriptState
<1>2. proc[p] \in ScriptState
  BY <1>1
<1>3. QED
  BY <1>1, <1>2 DEF ScriptState

LEMMA SetsEffect ==
    ASSUME ShapeInv, NEW p \in Scripts, NEW r \in ScriptState, Sets(p, r)
    PROVE  /\ proc' \in [Scripts -> ScriptState] /\ proc'[p] = r
           /\ \A q \in Scripts \ {p} : proc'[q] = proc[q]
<1>1. proc \in [Scripts -> ScriptState]
  BY ScriptTypes
<1>2. QED
  BY <1>1 DEF Sets

\* The days of the instance.
LEMMA TodayTypes ==
    ASSUME ShapeInv
    PROVE  /\ today \in FirstDay..MaxDay /\ today \in 0..MaxDay /\ today \in Int
           /\ FirstDay \in Nat /\ MaxDay \in Nat
           /\ FirstDay..MaxDay \subseteq 0..MaxDay
  BY BackfillAssumption DEF ShapeInv, TypeOK

LEMMA IdleState == Idle \in ScriptState
<1>1. /\ "idle" \in Steps /\ NoTicker \in Tickers \cup {NoTicker} /\ Null \in Int
      /\ Null \in (FirstDay..MaxDay) \cup {Null} /\ {} \in SUBSET Tickers
      /\ {} \in SUBSET BarSet(0..MaxDay)
  BY DEF Steps, Null
<1>2. QED
  BY <1>1 DEF Idle, ScriptState

LEMMA NextTickerEffect ==
    ASSUME ShapeInv, NEW p \in Scripts, NextTicker(p)
    PROVE  \E r \in ScriptState :
               /\ Sets(p, r) /\ r.pc = "next" /\ r.todo = proc[p].todo /\ r.got = {}
               /\ r.day = IF p = "bf" THEN Null ELSE proc[p].day
<1> DEFINE d == IF p = "bf" THEN Null ELSE proc[p].day
<1> DEFINE r == [Idle EXCEPT !.pc = "next", !.todo = proc[p].todo, !.day = d]
<1>1. /\ d \in (FirstDay..MaxDay) \cup {Null} /\ proc[p].todo \in SUBSET Tickers
      /\ "next" \in Steps
  BY ScriptTypes DEF Steps
<1>2. Sets(p, r)
  BY DEF NextTicker, Sets
<1> HIDE DEF d
<1>3. /\ r \in ScriptState /\ r.pc = "next" /\ r.todo = proc[p].todo /\ r.got = {} /\ r.day = d
  BY <1>1, IdleState DEF ScriptState, Idle
<1>4. QED
  BY <1>2, <1>3 DEF d

LEMMA StartEffect ==
    ASSUME ShapeInv, NEW p \in Scripts, NEW todo \in SUBSET Tickers, Start(p, todo)
    PROVE  \E r \in ScriptState :
               /\ Sets(p, r) /\ r.pc = "next" /\ r.todo = todo /\ r.got = {}
               /\ r.day = IF p = "bf" THEN Null ELSE today
<1> DEFINE d == IF p = "bf" THEN Null ELSE today
<1> DEFINE r == [proc[p] EXCEPT !.pc = "next", !.todo = todo, !.day = d]
<1>1. /\ d \in (FirstDay..MaxDay) \cup {Null} /\ "next" \in Steps
      /\ proc[p] \in ScriptState /\ proc \in [Scripts -> ScriptState] /\ proc[p].got = {}
  BY ScriptTypes, TodayTypes DEF Steps, Start, At, ShapeInv
<1>2. Sets(p, r)
  BY <1>1 DEF Start, Sets
<1> HIDE DEF d
<1>3. r \in ScriptState /\ r.pc = "next" /\ r.todo = todo /\ r.day = d /\ r.got = proc[p].got
  BY <1>1 DEF ScriptState
<1>4. QED
  BY <1>1, <1>2, <1>3 DEF d

\* Without, and the fields a step may set on top of it.
LEMMA WithoutEffect ==
    ASSUME ShapeInv, NEW p \in Scripts, At(p, "next"), NEW t
    PROVE  /\ Without(p, t) \in ScriptState /\ Without(p, t).pc = "next"
           /\ Without(p, t).todo = proc[p].todo \ {t} /\ Without(p, t).day = proc[p].day
           /\ Without(p, t).got = {}
<1>1. /\ proc[p] \in ScriptState /\ proc[p].todo \ {t} \in SUBSET Tickers
      /\ proc[p].pc = "next" /\ proc[p].got = {}
  BY ScriptTypes DEF At, ShapeInv
<1>2. QED
  BY <1>1 DEF Without, ScriptState

LEMMA TakesEffect ==
    ASSUME ShapeInv, NEW p \in Scripts, NEW t, NEW taken, Takes(p, t, taken)
    PROVE  /\ Sets(p, taken) /\ t \in proc[p].todo /\ t \in Tickers /\ At(p, "next")
           /\ proc[p].got = {}
  BY ScriptTypes DEF Takes, Sets, ShapeInv, At

-----------------------------------------------------------------------------
(* What a fetch brings.                                                      *)

\* The traded days of a window.
TradedIn(t, start, end) == {x \in start..end : ListedAt[t] <= x /\ x <= today}

LEMMA CandleFacts ==
    ASSUME ShapeInv, NEW t \in Tickers, NEW start \in Int, NEW end \in Int,
           NEW bars, bars = {} \/ bars = Candles(t, start, end, today)
    PROVE  /\ bars \in SUBSET BarSet(0..MaxDay)
           /\ bars # {} => Days(bars) = TradedIn(t, start, end)
           /\ \A b \in bars : b.final <=> b.ts < today
<1>1. CASE bars = {}
  BY <1>1
<1>2. CASE bars = Candles(t, start, end, today)
  <2>1. ListedAt[t] \in Nat /\ today \in 0..MaxDay /\ MaxDay \in Nat
    BY MarketDataAssumption, TodayTypes
  <2>2. ASSUME NEW b \in bars PROVE b \in BarSet(0..MaxDay) /\ (b.final <=> b.ts < today)
    <3>1. PICK d \in {x \in start..end : ListedAt[t] <= x /\ x <= today} :
              b = [ts |-> d, final |-> d < today]
      BY <1>2, <2>2 DEF Candles
    <3>2. d \in 0..MaxDay
      BY <2>1, <3>1
    <3>3. (d < today) \in BOOLEAN
      OBVIOUS
    <3>4. QED
      BY <3>1, <3>2, <3>3 DEF BarSet
  <2>3. Days(bars) = TradedIn(t, start, end)
    <3>1. ASSUME NEW d \in TradedIn(t, start, end) PROVE d \in Days(bars)
      <4> DEFINE c == [ts |-> d, final |-> d < today]
      <4>1. c \in bars /\ c.ts = d
        BY <1>2, <3>1 DEF Candles, TradedIn
      <4>2. QED
        BY <4>1 DEF Days
    <3>2. ASSUME NEW d \in Days(bars) PROVE d \in TradedIn(t, start, end)
      BY <1>2, <3>2 DEF Days, Candles, TradedIn
    <3>3. QED
      BY <3>1, <3>2
  <2>4. QED
    BY <2>2, <2>3
<1>3. QED
  BY <1>1, <1>2

\* A loader, and the chain of both, bring the candles of the window or nothing.
LEMMA FetchFacts ==
    ASSUME NEW t, NEW start, NEW end, NEW a, NEW b
    PROVE  /\ fetch_ohlcv(a, t, start, end, today) = {}
              \/ fetch_ohlcv(a, t, start, end, today) = Candles(t, start, end, today)
           /\ iter_ohlcv(a, b, t, start, end, today) = {}
              \/ iter_ohlcv(a, b, t, start, end, today) = Candles(t, start, end, today)
  BY DEF fetch_ohlcv, moex_iter_ohlcv, iter_ohlcv

\* The ticker t is passed over, or its bars are held for the step pc.
Fetched(p, t, pc, start, end) ==
    \E r \in ScriptState :
        /\ Sets(p, r) /\ t \in proc[p].todo /\ t \in Tickers
        /\ r.todo = proc[p].todo \ {t} /\ r.day = proc[p].day
        /\ \/ r.pc = "next" /\ r.got = {}
           \/ /\ r.pc = pc /\ r.cur = t /\ r.got # {}
              /\ Days(r.got) = TradedIn(t, start, end)

LEMMA FetchEffect ==
    ASSUME ShapeInv, NEW p \in Scripts, NEW t, NEW pc \in Steps,
           NEW start \in Int, NEW end \in Int,
           NEW bars, bars = {} \/ bars = Candles(t, start, end, today),
           Takes(p, t, IF bars = {} THEN Without(p, t) ELSE
                         [Without(p, t) EXCEPT !.pc = pc, !.cur = t, !.got = bars])
    PROVE  Fetched(p, t, pc, start, end)
<1>1. At(p, "next") /\ t \in proc[p].todo /\ t \in Tickers
  BY TakesEffect
<1>2. CASE bars = {}
  <2>1. Sets(p, Without(p, t))
    BY <1>2, TakesEffect
  <2>2. QED
    BY <1>1, <2>1, WithoutEffect DEF Fetched
<1>3. CASE bars # {}
  <2> DEFINE r == [Without(p, t) EXCEPT !.pc = pc, !.cur = t, !.got = bars]
  <2>1. bars \in SUBSET BarSet(0..MaxDay) /\ Days(bars) = TradedIn(t, start, end)
    BY <1>1, <1>3, CandleFacts
  <2>2. Sets(p, r)
    BY <1>3, TakesEffect
  <2>3. /\ r \in ScriptState /\ r.pc = pc /\ r.cur = t /\ r.got = bars
        /\ r.todo = proc[p].todo \ {t} /\ r.day = proc[p].day
    <3>1. Without(p, t) \in ScriptState /\ Without(p, t).day = proc[p].day
          /\ Without(p, t).todo = proc[p].todo \ {t}
      BY <1>1, WithoutEffect
    <3>2. QED
      BY <1>1, <2>1, <3>1 DEF ScriptState
  <2> HIDE DEF r
  <2>4. QED
    BY <1>1, <1>3, <2>1, <2>2, <2>3 DEF Fetched
<1>4. QED
  BY <1>2, <1>3

LEMMA SyncFetchEffect ==
    ASSUME ShapeInv, NEW t, NEW a, SyncFetch(t, a)
    PROVE  Fetched("sync", t, "meta", proc["sync"].day - SyncDays, proc["sync"].day)
<1> DEFINE day == proc["sync"].day
<1> DEFINE bars == fetch_ohlcv(a, t, day - SyncDays, day, today)
<1>1. day \in Int /\ day - SyncDays \in Int /\ "meta" \in Steps /\ "sync" \in Scripts
  BY ScriptTypes, BackfillAssumption DEF Scripts, Steps, Null
<1>2. bars = {} \/ bars = Candles(t, day - SyncDays, day, today)
  BY FetchFacts
<1>3. Takes("sync", t, IF bars = {} THEN Without("sync", t) ELSE
                         [Without("sync", t) EXCEPT !.pc = "meta", !.cur = t, !.got = bars])
  BY DEF SyncFetch
<1> HIDE DEF bars
<1>4. QED
  BY <1>1, <1>2, <1>3, FetchEffect

LEMMA WeeklyFetchEffect ==
    ASSUME ShapeInv, NEW t, NEW a, WeeklyFetch(t, a)
    PROVE  Fetched("weekly", t, "store", 0, proc["weekly"].day)
<1> DEFINE day == proc["weekly"].day
<1> DEFINE bars == fetch_ohlcv(a, t, 0, day, today)
<1>1. 0 \in Int /\ day \in Int /\ "store" \in Steps /\ "weekly" \in Scripts
  BY ScriptTypes, BackfillAssumption DEF Scripts, Steps, Null
<1>2. bars = {} \/ bars = Candles(t, 0, day, today)
  BY FetchFacts
<1>3. Takes("weekly", t, IF bars = {} THEN Without("weekly", t) ELSE
                         [Without("weekly", t) EXCEPT !.pc = "store", !.cur = t, !.got = bars])
  BY DEF WeeklyFetch
<1> HIDE DEF bars
<1>4. QED
  BY <1>1, <1>2, <1>3, FetchEffect

LEMMA BfFetchEffect ==
    ASSUME ShapeInv, NEW t, NEW b, NEW m, NEW c, BfFetch(t, b, m, c)
    PROVE  \E r \in ScriptState :
               /\ Sets("bf", r) /\ t \in proc["bf"].todo /\ t \in Tickers
               /\ r.todo = proc["bf"].todo \ {t} /\ r.day = today /\ r.cur = t
               /\ \/ r.pc = "check" /\ r.got = {}
                  \/ r.pc = "store" /\ r.got # {} /\ Days(r.got) = TradedIn(t, 0, today)
<1> DEFINE bars == IF c THEN {} ELSE iter_ohlcv(b, m, t, 0, today, today)
<1> DEFINE pc == IF bars = {} THEN "check" ELSE "store"
<1> DEFINE r == [Without("bf", t) EXCEPT !.pc = pc, !.cur = t, !.day = today, !.got = bars]
<1>1. "bf" \in Scripts /\ Takes("bf", t, r)
  BY DEF BfFetch, Scripts
<1>2. Sets("bf", r) /\ t \in proc["bf"].todo /\ t \in Tickers /\ At("bf", "next")
  BY <1>1, TakesEffect
<1>3. bars = {} \/ bars = Candles(t, 0, today, today)
  BY FetchFacts
<1> HIDE DEF bars
<1>4. bars \in SUBSET BarSet(0..MaxDay) /\ (bars # {} => Days(bars) = TradedIn(t, 0, today))
  BY <1>2, <1>3, CandleFacts, TodayTypes
<1>5. pc \in Steps /\ (IF bars = {} THEN pc = "check" ELSE pc = "store")
  BY DEF Steps
<1>6. today \in (FirstDay..MaxDay) \cup {Null}
  BY TodayTypes
<1> HIDE DEF pc
<1>7. /\ r \in ScriptState /\ r.pc = pc /\ r.cur = t /\ r.got = bars
      /\ r.todo = proc["bf"].todo \ {t} /\ r.day = today
  <2>1. Without("bf", t) \in ScriptState /\ Without("bf", t).todo = proc["bf"].todo \ {t}
    BY <1>1, <1>2, WithoutEffect
  <2>2. QED
    BY <1>2, <1>4, <1>5, <1>6, <2>1 DEF ScriptState
<1> HIDE DEF r
<1>8. QED
  BY <1>2, <1>4, <1>5, <1>7

LEMMA BfSkipEffect ==
    ASSUME ShapeInv, NEW t, BfSkip(t)
    PROVE  \E r \in ScriptState :
               /\ Sets("bf", r) /\ t \in proc["bf"].todo /\ t \in Tickers
               /\ r.todo = proc["bf"].todo \ {t} /\ r.day = today /\ r.cur = t
               /\ r.pc = "mark" /\ r.got = {}
<1> DEFINE r == [Without("bf", t) EXCEPT !.pc = "mark", !.cur = t, !.day = today,
                                         !.checked = today]
<1>1. "bf" \in Scripts /\ Takes("bf", t, r)
  BY DEF BfSkip, Scripts
<1>2. Sets("bf", r) /\ t \in proc["bf"].todo /\ t \in Tickers /\ At("bf", "next")
  BY <1>1, TakesEffect
<1>3. today \in (FirstDay..MaxDay) \cup {Null} /\ "mark" \in Steps
  BY TodayTypes DEF Steps
<1>4. /\ r \in ScriptState /\ r.pc = "mark" /\ r.cur = t /\ r.got = {}
      /\ r.todo = proc["bf"].todo \ {t} /\ r.day = today
  <2>1. /\ Without("bf", t) \in ScriptState /\ Without("bf", t).got = {}
        /\ Without("bf", t).todo = proc["bf"].todo \ {t}
    BY <1>1, <1>2, WithoutEffect
  <2>2. QED
    BY <1>2, <1>3, <2>1 DEF ScriptState
<1> HIDE DEF r
<1>5. QED
  BY <1>2, <1>4

-----------------------------------------------------------------------------
(* The earliest and the newest day of a table.                               *)

\* A set of naturals has a least element ...
LEMMA NatMin ==
    ASSUME NEW S, S \subseteq Nat, S # {}
    PROVE  \E m \in S : \A y \in S : m <= y
<1>1. PICK m \in S : \A y \in S : ~ (<<y, m>> \in OpToRel(<, Nat))
  BY NatLessThanWellFounded, WFMin
<1>2. ASSUME NEW y \in S PROVE m <= y
  <2>1. m \in Nat /\ y \in Nat
    OBVIOUS
  <2>2. ~ (y < m)
    BY <1>1, <2>1 DEF OpToRel
  <2>3. QED
    BY <2>1, <2>2
<1>3. QED
  BY <1>2

\* ... and one below a bound has a greatest.
LEMMA NatMax ==
    ASSUME NEW n \in Nat, NEW S, S \subseteq 0..n, S # {}
    PROVE  \E m \in S : \A y \in S : m >= y
<1> DEFINE D == {n - x : x \in S}
<1>1. D \subseteq Nat /\ D # {}
  OBVIOUS
<1>2. PICK d \in D : \A y \in D : d <= y
  BY <1>1, NatMin
<1>3. PICK m \in S : d = n - m
  OBVIOUS
<1>4. ASSUME NEW y \in S PROVE m >= y
  <2>1. n - y \in D
    OBVIOUS
  <2>2. n - m <= n - y
    BY <1>2, <1>3, <2>1
  <2>3. QED
    BY <2>2
<1>5. QED
  BY <1>4

LEMMA StoredDays ==
    ASSUME ShapeInv, NEW t \in Tickers
    PROVE  /\ Days(rows[t]) \subseteq 0..MaxDay
           /\ rows[t] = {} => earliest_ts(rows[t]) = Null /\ latest_ts(rows[t]) = Null
           /\ rows[t] # {} => /\ latest_ts(rows[t]) \in Days(rows[t])
                              /\ earliest_ts(rows[t]) \in Days(rows[t])
                              /\ \A d \in Days(rows[t]) : d <= latest_ts(rows[t])
                              /\ \A d \in Days(rows[t]) : earliest_ts(rows[t]) <= d
<1>1. \A b \in rows[t] : b.ts \in 0..MaxDay
  <2>1. rows[t] \subseteq BarSet(0..MaxDay)
    BY DEF ShapeInv, TypeOK
  <2>2. QED
    BY <2>1 DEF BarSet
<1>2. Days(rows[t]) \subseteq 0..MaxDay
  BY <1>1 DEF Days
<1>3. CASE rows[t] = {}
  BY <1>2, <1>3 DEF earliest_ts, latest_ts
<1>4. CASE rows[t] # {}
  <2> DEFINE D == Days(rows[t])
  <2>1. D # {} /\ D \subseteq Nat
    BY <1>2, <1>4 DEF Days
  <2>2. latest_ts(rows[t]) = Max(D) /\ earliest_ts(rows[t]) = Min(D)
    BY <1>4 DEF latest_ts, earliest_ts
  <2> HIDE DEF D
  <2>3. \E m \in D : \A y \in D : m >= y
    BY <1>2, <2>1, NatMax, TodayTypes DEF D
  <2>4. Max(D) \in D /\ \A y \in D : y <= Max(D)
    <3>1. Max(D) \in D /\ \A y \in D : Max(D) >= y
      BY <2>3 DEF Max
    <3>2. QED
      BY <2>1, <3>1
  <2>5. Min(D) \in D /\ \A y \in D : Min(D) <= y
    BY <2>1, NatMin DEF Min
  <2>6. QED
    BY <1>2, <1>4, <2>2, <2>4, <2>5 DEF D
<1>5. QED
  BY <1>3, <1>4

LEMMA IncrWindowEffect ==
    ASSUME ShapeInv, NEW t, IncrWindow(t)
    PROVE  \E r \in ScriptState :
               /\ Sets("incr", r) /\ t \in proc["incr"].todo /\ t \in Tickers
               /\ r.todo = proc["incr"].todo \ {t} /\ r.day = proc["incr"].day /\ r.got = {}
               /\ \/ r.pc = "next"
                  \/ /\ r.pc = "fetch" /\ r.cur = t
                     /\ r.start \in Int /\ r.end = today - 1 /\ r.start <= r.end
                     /\ r.start = IF rows[t] = {} THEN today - 1 ELSE latest_ts(rows[t]) + 1
<1> DEFINE s == IF rows[t] = {} THEN today - 1 ELSE latest_ts(rows[t]) + 1
<1> DEFINE w == ClosedBarWindow(latest_ts(rows[t]))
<1> DEFINE r == [Without("incr", t) EXCEPT !.pc = "fetch", !.cur = t, !.start = s,
                                           !.end = today - 1]
<1>1. "incr" \in Scripts /\ Takes("incr", t, IF w[1] > w[2] THEN Without("incr", t) ELSE
                   [Without("incr", t) EXCEPT !.pc = "fetch", !.cur = t,
                                              !.start = w[1], !.end = w[2]])
  BY DEF IncrWindow, Scripts
<1>2. t \in proc["incr"].todo /\ t \in Tickers /\ At("incr", "next")
  BY <1>1, TakesEffect
<1>3. s \in Int /\ today - 1 \in Int /\ today \in 0..MaxDay
  <2>1. today \in Int /\ today \in 0..MaxDay /\ MaxDay \in Nat
    BY TodayTypes
  <2>2. rows[t] # {} => latest_ts(rows[t]) \in Int
    BY <1>2, <2>1, StoredDays
  <2>3. QED
    BY <2>1, <2>2
<1>4. w[1] = s /\ w[2] = today - 1
  <2>1. rows[t] # {} => latest_ts(rows[t]) # Null
    BY <1>2, StoredDays, TodayTypes DEF Null
  <2>2. rows[t] = {} => latest_ts(rows[t]) = Null
    BY <1>2, StoredDays
  <2>3. QED
    BY <2>1, <2>2 DEF ClosedBarWindow
<1> HIDE DEF w, s
<1>5. /\ Without("incr", t) \in ScriptState /\ Without("incr", t).todo = proc["incr"].todo \ {t}
      /\ Without("incr", t).day = proc["incr"].day /\ Without("incr", t).got = {}
      /\ Without("incr", t).pc = "next"
  BY <1>1, <1>2, WithoutEffect
<1>6. CASE s > today - 1
  <2>1. Sets("incr", Without("incr", t))
    BY <1>1, <1>4, <1>6, TakesEffect
  <2>2. QED
    BY <1>2, <1>5, <2>1
<1>7. CASE ~ (s > today - 1)
  <2>1. Sets("incr", r)
    BY <1>1, <1>4, <1>7, TakesEffect
  <2>2. "fetch" \in Steps /\ s <= today - 1
    BY <1>3, <1>7 DEF Steps
  <2>3. /\ r \in ScriptState /\ r.pc = "fetch" /\ r.cur = t /\ r.start = s /\ r.end = today - 1
        /\ r.todo = proc["incr"].todo \ {t} /\ r.day = proc["incr"].day /\ r.got = {}
    BY <1>2, <1>3, <1>5, <2>2 DEF ScriptState
  <2> HIDE DEF r
  <2>4. QED
    BY <1>2, <1>3, <2>1, <2>2, <2>3 DEF s
<1>8. QED
  BY <1>6, <1>7

LEMMA IncrFetchEffect ==
    ASSUME ShapeInv, NEW b, NEW m, IncrFetch(b, m)
    PROVE  /\ At("incr", "fetch") /\ proc["incr"].cur \in Tickers
           /\ \/ NextTicker("incr")
              \/ \E r \in ScriptState :
                     /\ Sets("incr", r) /\ r.pc = "store" /\ r.cur = proc["incr"].cur
                     /\ r.todo = proc["incr"].todo /\ r.day = proc["incr"].day
                     /\ r.got # {}
                     /\ \A x \in r.got : x.ts <= proc["incr"].end /\ (x.final <=> x.ts < today)
                     /\ Days(r.got) = TradedIn(proc["incr"].cur, proc["incr"].start, proc["incr"].end)
<1> DEFINE p == proc["incr"]
<1> DEFINE all == iter_ohlcv(b, m, p.cur, p.start, p.end, today)
<1> DEFINE bars == {x \in all : x.ts <= p.end}
<1> DEFINE r == [p EXCEPT !.pc = "store", !.got = bars, !.start = Null, !.end = Null]
<1>1. /\ At("incr", "fetch")
      /\ (bars = {} /\ NextTicker("incr")) \/ (bars # {} /\ Sets("incr", r))
  BY DEF IncrFetch, Sets
<1>2. /\ "incr" \in Scripts /\ p \in ScriptState /\ p.cur \in Tickers
      /\ p.start \in Int /\ p.end \in Int /\ "store" \in Steps /\ Null \in Int
  BY <1>1, ScriptTypes DEF ShapeInv, At, Scripts, Steps, Null
<1>3. all = {} \/ all = Candles(p.cur, p.start, p.end, today)
  BY FetchFacts
<1> HIDE DEF all
<1>4. /\ all \in SUBSET BarSet(0..MaxDay)
      /\ all # {} => Days(all) = TradedIn(p.cur, p.start, p.end)
      /\ \A x \in all : x.final <=> x.ts < today
  BY <1>2, <1>3, CandleFacts
<1>5. bars = all
  <2>1. ASSUME NEW x \in all PROVE x.ts <= p.end
    <3>1. x.ts \in Days(all)
      BY DEF Days
    <3>2. QED
      BY <1>2, <1>4, <3>1 DEF TradedIn
  <2>2. QED
    BY <2>1
<1>6. \A x \in bars : x.ts <= p.end /\ (x.final <=> x.ts < today)
  BY <1>4
<1> HIDE DEF bars
<1>7. CASE bars # {}
  <2>1. /\ r \in ScriptState /\ r.pc = "store" /\ r.cur = p.cur /\ r.todo = p.todo
        /\ r.day = p.day /\ r.got = bars
    BY <1>2, <1>4, <1>5 DEF ScriptState
  <2> HIDE DEF r
  <2>2. QED
    BY <1>1, <1>2, <1>4, <1>5, <1>6, <1>7, <2>1
<1>8. QED
  BY <1>1, <1>2, <1>7

-----------------------------------------------------------------------------
(* Types and shapes are kept.                                                *)

RowTypes(R) == R \in [Tickers -> SUBSET BarSet(0..MaxDay)]
UniverseTypes(U) == U \in [Tickers -> TickerRow(0..MaxDay)]

\* One script moves to the record r.
LEMMA ShapeStep ==
    ASSUME ShapeInv, NEW p \in Scripts, NEW r \in ScriptState, Sets(p, r),
           r.pc \in {"idle", "next", "fetch"} => r.got = {},
           r.pc \in {"meta", "store"} => r.got # {},
           r.pc \notin {"idle", "next"} => r.cur \in Tickers,
           r.pc = "meta" => p = "sync",
           r.pc = "fetch" => p = "incr",
           today' = today, RowTypes(rows'), UniverseTypes(universe'), liquid' = liquid
    PROVE  ShapeInv'
<1>1. /\ proc' \in [Scripts -> ScriptState] /\ proc'[p] = r
      /\ \A q \in Scripts \ {p} : proc'[q] = proc[q]
  BY SetsEffect
<1>2. ASSUME NEW q \in Scripts
      PROVE  /\ proc'[q].pc \in {"idle", "next", "fetch"} => proc'[q].got = {}
             /\ proc'[q].pc \in {"meta", "store"} => proc'[q].got # {}
             /\ proc'[q].pc \notin {"idle", "next"} => proc'[q].cur \in Tickers
             /\ proc'[q].pc = "meta" => q = "sync"
             /\ proc'[q].pc = "fetch" => q = "incr"
  BY <1>1 DEF ShapeInv, TypeOK
<1>3. today' \in FirstDay..MaxDay /\ liquid' \subseteq Tickers
  BY DEF ShapeInv, TypeOK
<1>4. QED
  BY <1>1, <1>2, <1>3 DEF ShapeInv, TypeOK, ScriptState, RowTypes, UniverseTypes

LEMMA TableTypes ==
    ASSUME ShapeInv PROVE RowTypes(rows) /\ UniverseTypes(universe)
  BY DEF ShapeInv, TypeOK, RowTypes, UniverseTypes

\* The rows of ticker_universe keep their types under each statement, and stay.
LEMMA TickerRowUpdates ==
    ASSUME NEW row \in TickerRow(0..MaxDay), NEW d \in (0..MaxDay) \cup {Null}
    PROVE  /\ upsert_ticker(row, d) \in TickerRow(0..MaxDay) /\ upsert_ticker(row, d).known
           /\ upsert_ticker(row, d).complete = row.complete
           /\ mark_backfill_complete(row) \in TickerRow(0..MaxDay)
           /\ mark_backfill_complete(row).known = row.known
           /\ mark_backfill_complete(row).complete = row.known
           /\ [row EXCEPT !.delistedAt = d] \in TickerRow(0..MaxDay)
           /\ [row EXCEPT !.delistedAt = d].known = row.known
           /\ [row EXCEPT !.delistedAt = d].complete = row.complete
<1>1. row.known \in BOOLEAN /\ row.complete \in BOOLEAN
  BY DEF TickerRow
<1>2. upsert_ticker(row, d) \in TickerRow(0..MaxDay) /\ upsert_ticker(row, d).known
      /\ upsert_ticker(row, d).complete = row.complete
  BY DEF TickerRow, upsert_ticker
<1>3. /\ mark_backfill_complete(row) \in TickerRow(0..MaxDay)
      /\ mark_backfill_complete(row).known = row.known
      /\ mark_backfill_complete(row).complete = row.known
  BY <1>1 DEF TickerRow, mark_backfill_complete
<1>4. /\ [row EXCEPT !.delistedAt = d] \in TickerRow(0..MaxDay)
      /\ [row EXCEPT !.delistedAt = d].known = row.known
      /\ [row EXCEPT !.delistedAt = d].complete = row.complete
  BY DEF TickerRow
<1>5. QED
  BY <1>2, <1>3, <1>4

\* No statement makes a ticker unknown, and complete is only a known one.
Keeps(U, V) ==
    /\ UniverseTypes(V)
    /\ \A t \in Tickers : /\ U[t].known => V[t].known
                          /\ V[t].complete => U[t].complete \/ U[t].known

LEMMA KeepsSame == ASSUME ShapeInv PROVE Keeps(universe, universe)
  BY TableTypes DEF Keeps

LEMMA SyncMetaKeeps ==
    ASSUME ShapeInv, SyncMeta
    PROVE  /\ Keeps(universe, universe') /\ proc["sync"].cur \in Tickers
           /\ universe'[proc["sync"].cur].known
<1>1. proc["sync"].cur \in Tickers /\ universe \in [Tickers -> TickerRow(0..MaxDay)]
  BY TableTypes DEF SyncMeta, At, ShapeInv, Scripts, UniverseTypes
<1> DEFINE c == proc["sync"].cur
<1> DEFINE row == upsert_ticker(universe[c], Null)
<1>2. /\ row \in TickerRow(0..MaxDay) /\ row.known
      /\ row.complete = universe[c].complete
  BY <1>1, TickerRowUpdates
<1>3. universe' = [universe EXCEPT ![c] = row]
  BY DEF SyncMeta
<1> HIDE DEF row
<1>4. universe' \in [Tickers -> TickerRow(0..MaxDay)] /\ universe'[c] = row
      /\ \A t \in Tickers \ {c} : universe'[t] = universe[t]
  BY <1>1, <1>2, <1>3
<1>5. QED
  BY <1>1, <1>2, <1>4 DEF Keeps, UniverseTypes

LEMMA MarkKeeps ==
    ASSUME ShapeInv, NEW p \in Scripts, Mark(p) PROVE Keeps(universe, universe')
<1>1. proc[p].cur \in Tickers /\ universe \in [Tickers -> TickerRow(0..MaxDay)]
  BY TableTypes DEF Mark, At, ShapeInv, UniverseTypes
<1> DEFINE c == proc[p].cur
<1> DEFINE row == mark_backfill_complete(universe[c])
<1>2. /\ row \in TickerRow(0..MaxDay) /\ row.known = universe[c].known
      /\ row.complete = universe[c].known
  BY <1>1, TickerRowUpdates
<1>3. universe' = [universe EXCEPT ![c] = row]
  BY DEF Mark
<1> HIDE DEF row
<1>4. universe' \in [Tickers -> TickerRow(0..MaxDay)] /\ universe'[c] = row
      /\ \A t \in Tickers \ {c} : universe'[t] = universe[t]
  BY <1>1, <1>2, <1>3
<1>5. QED
  BY <1>2, <1>4 DEF Keeps, UniverseTypes

\* The universe a backfill resolves: known tickers with their listing day or none.
LEMMA UniversesTypes ==
    ASSUME ShapeInv, NEW u \in Universes(today)
    PROVE  /\ DOMAIN u \subseteq Tickers
           /\ \A t \in DOMAIN u : u[t] \in (0..MaxDay) \cup {Null}
<1>1. today \in 0..MaxDay /\ MaxDay \in Nat /\ \A t \in Tickers : ListedAt[t] \in Nat
  BY TodayTypes, MarketDataAssumption
<1>2. CASE u = list_tickers(today)
  BY <1>2 DEF list_tickers, Traded
<1>3. CASE \E answered \in SUBSET Tickers : u = list_tickers_with_figi(answered, today)
  <2>1. PICK answered \in SUBSET Tickers : u = list_tickers_with_figi(answered, today)
    BY <1>3
  <2>2. \A t \in Traded(today) : t \in Tickers /\ ListedAt[t] \in 0..MaxDay
    BY <1>1 DEF Traded
  <2>3. QED
    BY <2>1, <2>2 DEF list_tickers_with_figi
<1>4. QED
  BY <1>2, <1>3 DEF Universes

LEMMA BfStartKeeps ==
    ASSUME ShapeInv, NEW u \in Universes(today), BfStart(u)
    PROVE  /\ Keeps(universe, universe') /\ DOMAIN u \in SUBSET Tickers
           /\ \A t \in DOMAIN u : universe'[t].known
<1>1. universe \in [Tickers -> TickerRow(0..MaxDay)]
  BY TableTypes DEF UniverseTypes
<1> DEFINE New(t) == IF t \in DOMAIN u THEN upsert_ticker(universe[t], u[t]) ELSE universe[t]
<1>2. universe' = [t \in Tickers |-> New(t)]
  BY DEF BfStart
<1>3. ASSUME NEW t \in Tickers
      PROVE  /\ New(t) \in TickerRow(0..MaxDay)
             /\ New(t).complete = universe[t].complete
             /\ New(t).known = universe[t].known \/ New(t).known
             /\ t \in DOMAIN u => New(t).known
  <2>1. CASE t \in DOMAIN u
    <3>1. u[t] \in (0..MaxDay) \cup {Null} /\ universe[t] \in TickerRow(0..MaxDay)
      BY <1>1, <2>1, UniversesTypes
    <3>2. QED
      BY <2>1, <3>1, TickerRowUpdates
  <2>2. CASE t \notin DOMAIN u
    BY <1>1, <2>2
  <2>3. QED
    BY <2>1, <2>2
<1> HIDE DEF New
<1>4. universe' \in [Tickers -> TickerRow(0..MaxDay)] /\ \A t \in Tickers : universe'[t] = New(t)
  BY <1>2, <1>3
<1>5. DOMAIN u \in SUBSET Tickers
  BY UniversesTypes
<1>6. QED
  BY <1>3, <1>4, <1>5 DEF Keeps, UniverseTypes

LEMMA MarkTerminallyFailedKeeps ==
    ASSUME ShapeInv, MarkTerminallyFailed PROVE Keeps(universe, universe')
<1>1. universe \in [Tickers -> TickerRow(0..MaxDay)] /\ today \in (0..MaxDay) \cup {Null}
  BY TableTypes, TodayTypes DEF UniverseTypes
<1> DEFINE New(t) == IF TerminallyFailed(universe[t], rows[t])
                     THEN [universe[t] EXCEPT !.delistedAt = today] ELSE universe[t]
<1>2. universe' = [t \in Tickers |-> New(t)]
  BY DEF MarkTerminallyFailed
<1>3. ASSUME NEW t \in Tickers
      PROVE  /\ New(t) \in TickerRow(0..MaxDay) /\ New(t).known = universe[t].known
             /\ New(t).complete = universe[t].complete
  <2>1. universe[t] \in TickerRow(0..MaxDay)
    BY <1>1
  <2>2. QED
    BY <1>1, <2>1, TickerRowUpdates
<1> HIDE DEF New
<1>4. universe' \in [Tickers -> TickerRow(0..MaxDay)] /\ \A t \in Tickers : universe'[t] = New(t)
  BY <1>2, <1>3
<1>5. QED
  BY <1>3, <1>4 DEF Keeps, UniverseTypes

LEMMA UpsertDays ==
    ASSUME NEW table, NEW new
    PROVE  Days(upsert_ohlcv(table, new)) = Days(table) \cup Days(new)
<1>1. ASSUME NEW d \in Days(new) PROVE d \in Days(upsert_ohlcv(table, new))
  <2>1. PICK b \in new : d = b.ts
    BY DEF Days
  <2>2. CASE d \in Days(table)
    BY <2>2 DEF Days, upsert_ohlcv
  <2>3. CASE d \notin Days(table)
    <3>1. b \in upsert_ohlcv(table, new)
      BY <2>1, <2>3 DEF upsert_ohlcv
    <3>2. QED
      BY <2>1, <3>1 DEF Days
  <2>4. QED
    BY <2>2, <2>3
<1>2. QED
  BY <1>1 DEF Days, upsert_ohlcv

LEMMA StoreEffect ==
    ASSUME ShapeInv, NEW p \in Scripts, Store(p)
    PROVE  /\ At(p, "store") /\ proc[p].cur \in Tickers /\ RowTypes(rows')
           /\ \A t \in Tickers \ {proc[p].cur} : rows'[t] = rows[t]
           /\ Days(rows'[proc[p].cur]) = Days(rows[proc[p].cur]) \cup Days(proc[p].got)
           /\ \E r \in ScriptState :
                  /\ Sets(p, r) /\ r.got = {} /\ r.todo = proc[p].todo
                  /\ r.day = proc[p].day \/ r.day = Null
                  /\ \/ r.pc = "next"
                     \/ r.pc = "check" /\ r.cur = proc[p].cur
<1>1. At(p, "store") /\ proc[p].cur \in Tickers /\ proc[p].got \in SUBSET BarSet(0..MaxDay)
  BY ScriptTypes DEF Store, At, ShapeInv
<1>2. rows \in [Tickers -> SUBSET BarSet(0..MaxDay)]
  BY TableTypes DEF RowTypes
<1> DEFINE c == proc[p].cur
<1> DEFINE new == upsert_ohlcv(rows[c], proc[p].got)
<1>3. new \in SUBSET BarSet(0..MaxDay) /\ Days(new) = Days(rows[c]) \cup Days(proc[p].got)
  <2>1. rows[c] \in SUBSET BarSet(0..MaxDay)
    BY <1>1, <1>2
  <2>2. new \in SUBSET BarSet(0..MaxDay)
    BY <1>1, <2>1 DEF upsert_ohlcv
  <2>3. QED
    BY <2>2, UpsertDays
<1>4. rows' = [rows EXCEPT ![c] = new]
  BY DEF Store
<1> HIDE DEF new
<1>5. /\ rows' \in [Tickers -> SUBSET BarSet(0..MaxDay)] /\ rows'[c] = new
      /\ \A t \in Tickers \ {c} : rows'[t] = rows[t]
  BY <1>1, <1>2, <1>3, <1>4
<1>6. \E r \in ScriptState :
          /\ Sets(p, r) /\ r.got = {} /\ r.todo = proc[p].todo
          /\ r.day = proc[p].day \/ r.day = Null
          /\ \/ r.pc = "next"
             \/ r.pc = "check" /\ r.cur = proc[p].cur
  <2>1. CASE NextTicker(p)
    BY <2>1, NextTickerEffect
  <2>2. CASE ~NextTicker(p)
    <3> DEFINE r == [proc[p] EXCEPT !.pc = "check", !.got = {}]
    <3>1. proc[p] \in ScriptState /\ proc \in [Scripts -> ScriptState]
      BY ScriptTypes
    <3>2. proc' = [proc EXCEPT ![p].pc = "check", ![p].got = {}]
      BY <2>2 DEF Store
    <3>3. Sets(p, r)
      BY <3>1, <3>2 DEF Sets
    <3>4. "check" \in Steps
      BY DEF Steps
    <3>5. /\ r \in ScriptState /\ r.pc = "check" /\ r.got = {} /\ r.cur = proc[p].cur
          /\ r.todo = proc[p].todo /\ r.day = proc[p].day
      BY <3>1, <3>4 DEF ScriptState
    <3> HIDE DEF r
    <3>6. QED
      BY <3>3, <3>5
  <2>3. QED
    BY <2>1, <2>2
<1>7. QED
  BY <1>1, <1>3, <1>5, <1>6 DEF RowTypes

LEMMA CheckEffect ==
    ASSUME ShapeInv, NEW p \in Scripts, Check(p)
    PROVE  /\ At(p, "check") /\ proc[p].cur \in Tickers
           /\ \/ NextTicker(p)
              \/ \E r \in ScriptState :
                     /\ Sets(p, r) /\ r.pc = "mark" /\ r.got = proc[p].got
                     /\ r.todo = proc[p].todo /\ r.day = proc[p].day /\ r.cur = proc[p].cur
<1>1. At(p, "check") /\ proc[p].cur \in Tickers
  BY DEF Check, At, ShapeInv
<1>2. CASE ~NextTicker(p)
  <2> DEFINE r == [proc[p] EXCEPT !.pc = "mark", !.checked = today]
  <2>1. /\ proc[p] \in ScriptState /\ proc \in [Scripts -> ScriptState]
        /\ "mark" \in Steps /\ today \in (FirstDay..MaxDay) \cup {Null}
    BY ScriptTypes, TodayTypes DEF Steps
  <2>2. proc' = [proc EXCEPT ![p].pc = "mark", ![p].checked = today]
    BY <1>2 DEF Check
  <2>3. Sets(p, r)
    BY <2>1, <2>2 DEF Sets
  <2>4. /\ r \in ScriptState /\ r.pc = "mark" /\ r.got = proc[p].got
        /\ r.todo = proc[p].todo /\ r.day = proc[p].day /\ r.cur = proc[p].cur
    BY <2>1 DEF ScriptState
  <2> HIDE DEF r
  <2>5. QED
    BY <1>1, <2>3, <2>4
<1>3. QED
  BY <1>1, <1>2

LEMMA SyncMetaEffect ==
    ASSUME ShapeInv, SyncMeta
    PROVE  /\ At("sync", "meta") /\ proc["sync"].cur \in Tickers
           /\ \E r \in ScriptState :
                  /\ Sets("sync", r) /\ r.pc = "store" /\ r.got = proc["sync"].got /\ r.got # {}
                  /\ r.todo = proc["sync"].todo /\ r.day = proc["sync"].day
                  /\ r.cur = proc["sync"].cur
<1> DEFINE r == [proc["sync"] EXCEPT !.pc = "store"]
<1>1. /\ proc["sync"] \in ScriptState /\ proc \in [Scripts -> ScriptState]
      /\ "store" \in Steps /\ "sync" \in Scripts
  BY ScriptTypes DEF Steps, Scripts
<1>2. At("sync", "meta") /\ proc["sync"].cur \in Tickers /\ proc["sync"].got # {}
  BY <1>1 DEF SyncMeta, At, ShapeInv, TypeOK
<1>3. proc' = [proc EXCEPT !["sync"].pc = "store"]
  BY DEF SyncMeta
<1>4. Sets("sync", r)
  BY <1>1, <1>3 DEF Sets
<1>5. /\ r \in ScriptState /\ r.pc = "store" /\ r.got = proc["sync"].got
      /\ r.todo = proc["sync"].todo /\ r.day = proc["sync"].day
      /\ r.cur = proc["sync"].cur
  BY <1>1 DEF ScriptState
<1> HIDE DEF r
<1>6. QED
  BY <1>2, <1>4, <1>5

LEMMA EndsEffect ==
    ASSUME ShapeInv, NEW p \in Scripts, Ends(p)
    PROVE  \E r \in ScriptState :
               /\ Sets(p, r) /\ r.pc = "idle" /\ r.got = {} /\ r.todo = {} /\ r.day = Null
<1>1. Sets(p, Idle)
  BY DEF Ends, Sets
<1>2. Idle.pc = "idle" /\ Idle.got = {} /\ Idle.todo = {} /\ Idle.day = Null
  BY DEF Idle
<1>3. QED
  BY <1>1, <1>2, IdleState

\* The lists a run starts from.
LEMMA StartLists ==
    ASSUME ShapeInv, NEW m
    PROVE  /\ liquid \in SUBSET Tickers
           /\ list_complete_universe(universe) \in SUBSET Tickers
           /\ \A t \in list_complete_universe(universe) : universe[t].complete
           /\ MissingTickers \cap m \in SUBSET Tickers
           /\ \A t \in MissingTickers \cap m : universe[t].known
  BY DEF ShapeInv, TypeOK, list_complete_universe, MissingTickers

LEMMA ShapeNextTicker ==
    ASSUME ShapeInv, NEW p \in Scripts, NextTicker(p), today' = today,
           RowTypes(rows'), UniverseTypes(universe'), liquid' = liquid
    PROVE  ShapeInv'
<1>1. PICK r \in ScriptState : Sets(p, r) /\ r.pc = "next" /\ r.got = {}
  BY NextTickerEffect
<1>2. QED
  BY <1>1, ShapeStep

LEMMA ShapeStart ==
    ASSUME ShapeInv, NEW p \in Scripts, NEW todo \in SUBSET Tickers, Start(p, todo),
           today' = today, rows' = rows, UniverseTypes(universe'), liquid' = liquid
    PROVE  ShapeInv'
<1>1. PICK r \in ScriptState : Sets(p, r) /\ r.pc = "next" /\ r.got = {}
  BY StartEffect
<1>2. QED
  BY <1>1, ShapeStep, TableTypes

LEMMA ShapeInvariant == Spec => []ShapeInv
<1>1. Init => ShapeInv
  <2> SUFFICES ASSUME Init PROVE ShapeInv
    OBVIOUS
  <2>1. proc \in [Scripts -> ScriptState]
    BY IdleState DEF Init
  <2>2. \A p \in Scripts : proc[p].pc = "idle" /\ proc[p].got = {}
    BY DEF Init, Idle
  <2>3. NoRow \in TickerRow(0..MaxDay)
    BY DEF NoRow, TickerRow
  <2>4. UniverseTypes(universe) /\ RowTypes(rows)
    BY <2>3 DEF Init, UniverseTypes, RowTypes
  <2>5. today \in FirstDay..MaxDay /\ liquid \subseteq Tickers
    BY BackfillAssumption DEF Init
  <2>6. QED
    BY <2>1, <2>2, <2>4, <2>5 DEF ShapeInv, TypeOK, ScriptState, UniverseTypes, RowTypes
<1>2. ShapeInv /\ [Next]_vars => ShapeInv'
  <2> SUFFICES ASSUME ShapeInv, [Next]_vars PROVE ShapeInv'
    OBVIOUS
  <2>0. /\ "sync" \in Scripts /\ "incr" \in Scripts /\ "bf" \in Scripts /\ "weekly" \in Scripts
        /\ RowTypes(rows) /\ UniverseTypes(universe)
    BY TableTypes DEF Scripts
  <2>1. CASE SyncStart
    BY <2>0, <2>1, StartLists, ShapeStart DEF SyncStart
  <2>2. CASE SyncMeta
    <3>1. PICK r \in ScriptState :
              /\ Sets("sync", r) /\ r.pc = "store" /\ r.got # {} /\ r.cur \in Tickers
      BY <2>2, SyncMetaEffect
    <3>2. UniverseTypes(universe')
      BY <2>2, SyncMetaKeeps DEF Keeps
    <3>3. QED
      BY <2>0, <2>2, <3>1, <3>2, ShapeStep DEF SyncMeta
  <2>3. ASSUME NEW t \in Tickers, NEW a \in Answers, SyncFetch(t, a) PROVE ShapeInv'
    <3>1. PICK r \in ScriptState :
              /\ Sets("sync", r)
              /\ \/ r.pc = "next" /\ r.got = {}
                 \/ r.pc = "meta" /\ r.cur = t /\ r.got # {}
      BY <2>3, SyncFetchEffect DEF Fetched
    <3>2. QED
      BY <2>0, <2>3, <3>1, ShapeStep DEF SyncFetch
  <2>4. CASE IncrStart
    BY <2>0, <2>4, StartLists, ShapeStart DEF IncrStart
  <2>5. ASSUME NEW t \in Tickers, IncrWindow(t) PROVE ShapeInv'
    <3>1. PICK r \in ScriptState :
              /\ Sets("incr", r) /\ r.got = {}
              /\ r.pc = "next" \/ (r.pc = "fetch" /\ r.cur = t)
      BY <2>5, IncrWindowEffect
    <3>2. QED
      BY <2>0, <2>5, <3>1, ShapeStep DEF IncrWindow
  <2>6. ASSUME NEW b \in Answers, NEW m \in Answers, IncrFetch(b, m) PROVE ShapeInv'
    <3>1. CASE NextTicker("incr")
      BY <2>0, <2>6, <3>1, ShapeNextTicker DEF IncrFetch
    <3>2. CASE ~NextTicker("incr")
      <4>1. PICK r \in ScriptState :
                /\ Sets("incr", r) /\ r.pc = "store" /\ r.cur \in Tickers /\ r.got # {}
        BY <2>6, <3>2, IncrFetchEffect
      <4>2. QED
        BY <2>0, <2>6, <4>1, ShapeStep DEF IncrFetch
    <3>3. QED
      BY <3>1, <3>2
  <2>7. ASSUME NEW u \in Universes(today), BfStart(u) PROVE ShapeInv'
    BY <2>0, <2>7, BfStartKeeps, ShapeStart DEF BfStart, Keeps
  <2>8. ASSUME NEW t \in Tickers, BfSkip(t) PROVE ShapeInv'
    <3>1. PICK r \in ScriptState : Sets("bf", r) /\ r.pc = "mark" /\ r.cur = t
      BY <2>8, BfSkipEffect
    <3>2. QED
      BY <2>0, <2>8, <3>1, ShapeStep DEF BfSkip
  <2>9. ASSUME NEW t \in Tickers, NEW b \in Answers, NEW m \in Answers, NEW c \in BOOLEAN,
               BfFetch(t, b, m, c)
        PROVE  ShapeInv'
    <3>1. PICK r \in ScriptState :
              /\ Sets("bf", r) /\ r.cur = t
              /\ r.pc = "check" \/ (r.pc = "store" /\ r.got # {})
      BY <2>9, BfFetchEffect
    <3>2. QED
      BY <2>0, <2>9, <3>1, ShapeStep DEF BfFetch
  <2>10. ASSUME NEW m \in SUBSET Tickers, WeeklyStart(m) PROVE ShapeInv'
    BY <2>0, <2>10, StartLists, ShapeStart DEF WeeklyStart
  <2>11. ASSUME NEW t \in Tickers, NEW a \in Answers, WeeklyFetch(t, a) PROVE ShapeInv'
    <3>1. PICK r \in ScriptState :
              /\ Sets("weekly", r)
              /\ \/ r.pc = "next" /\ r.got = {}
                 \/ r.pc = "store" /\ r.cur = t /\ r.got # {}
      BY <2>11, WeeklyFetchEffect DEF Fetched
    <3>2. QED
      BY <2>0, <2>11, <3>1, ShapeStep DEF WeeklyFetch
  <2>12. CASE MarkTerminallyFailed
    <3>1. UniverseTypes(universe')
      BY <2>12, MarkTerminallyFailedKeeps DEF Keeps
    <3>2. QED
      BY <2>0, <2>12, <3>1 DEF MarkTerminallyFailed, ShapeInv, TypeOK, UniverseTypes
  <2>13. ASSUME NEW p \in Scripts, Store(p) PROVE ShapeInv'
    <3>1. PICK r \in ScriptState :
              /\ Sets(p, r) /\ r.got = {}
              /\ r.pc = "next" \/ (r.pc = "check" /\ r.cur \in Tickers)
      BY <2>13, StoreEffect
    <3>2. RowTypes(rows')
      BY <2>13, StoreEffect
    <3>3. QED
      BY <2>0, <2>13, <3>1, <3>2, ShapeStep DEF Store
  <2>14. ASSUME NEW p \in Scripts, Check(p) PROVE ShapeInv'
    <3>1. CASE NextTicker(p)
      BY <2>0, <2>14, <3>1, ShapeNextTicker DEF Check
    <3>2. CASE ~NextTicker(p)
      <4>1. PICK r \in ScriptState : Sets(p, r) /\ r.pc = "mark" /\ r.cur \in Tickers
        BY <2>14, <3>2, CheckEffect
      <4>2. QED
        BY <2>0, <2>14, <4>1, ShapeStep DEF Check
    <3>3. QED
      BY <3>1, <3>2
  <2>15. ASSUME NEW p \in Scripts, Mark(p) PROVE ShapeInv'
    <3>1. UniverseTypes(universe')
      BY <2>15, MarkKeeps DEF Keeps
    <3>2. QED
      BY <2>0, <2>15, <3>1, ShapeNextTicker DEF Mark
  <2>16. ASSUME NEW p \in Scripts, TickerFails(p) PROVE ShapeInv'
    BY <2>0, <2>16, ShapeNextTicker DEF TickerFails
  <2>17. ASSUME NEW p \in Scripts, Ends(p) PROVE ShapeInv'
    <3>1. PICK r \in ScriptState : Sets(p, r) /\ r.pc = "idle" /\ r.got = {}
      BY <2>17, EndsEffect
    <3>2. QED
      BY <2>0, <2>17, <3>1, ShapeStep DEF Ends
  <2>18. CASE Midnight
    <3>1. today' \in FirstDay..MaxDay
      BY <2>18, TodayTypes DEF Midnight
    <3>2. QED
      BY <2>18, <3>1 DEF Midnight, ShapeInv, TypeOK
  <2>19. CASE UNCHANGED vars
    BY <2>19 DEF vars, ShapeInv, TypeOK
  <2>20. QED
    BY <2>1, <2>2, <2>3, <2>4, <2>5, <2>6, <2>7, <2>8, <2>9, <2>10, <2>11, <2>12, <2>13,
       <2>14, <2>15, <2>16, <2>17, <2>18, <2>19 DEF Next
<1>3. QED
  BY <1>1, <1>2, PTL DEF Spec

\* Every table, every row and every script's record keeps its type, and no script
\* comes to the upsert with no bar.
THEOREM TypeCorrect == Spec => []TypeOK
<1>1. ShapeInv => TypeOK
  BY DEF ShapeInv
<1>2. QED
  BY <1>1, ShapeInvariant, PTL

-----------------------------------------------------------------------------
(* Bars only of known tickers.                                               *)

\* What a script other than daily_sync has still to visit is known, and so is the
\* ticker at hand of every script from its ticker row on.
KnownScript(p, r, U) ==
    /\ p # "sync" => \A t \in r.todo : U[t].known
    /\ r.pc \notin {"idle", "next", "meta"} => U[r.cur].known

KnownInv ==
    /\ RowsHaveTicker
    /\ \A t \in Tickers : universe[t].complete => universe[t].known
    /\ \A p \in Scripts : KnownScript(p, proc[p], universe)

\* The universe moves on under scripts that stay as they are.
LEMMA KnownKept ==
    ASSUME ShapeInv, KnownInv, Keeps(universe, universe'), NEW p \in Scripts
    PROVE  KnownScript(p, proc[p], universe')
<1>1. proc[p].todo \subseteq Tickers
  BY ScriptTypes
<1>2. proc[p].pc \notin {"idle", "next"} => proc[p].cur \in Tickers
  BY DEF ShapeInv
<1>3. KnownScript(p, proc[p], universe)
  BY DEF KnownInv
<1>4. QED
  BY <1>1, <1>2, <1>3 DEF KnownScript, Keeps

LEMMA KnownTables ==
    ASSUME ShapeInv, KnownInv, Keeps(universe, universe'), rows' = rows
    PROVE  RowsHaveTicker' /\ \A t \in Tickers : universe'[t].complete => universe'[t].known
<1>1. \A t \in Tickers : rows[t] # {} => universe[t].known
  BY DEF KnownInv, RowsHaveTicker
<1>2. \A t \in Tickers : universe[t].complete => universe[t].known
  BY DEF KnownInv
<1>3. \A t \in Tickers : rows'[t] # {} => universe'[t].known
  BY <1>1 DEF Keeps
<1>4. \A t \in Tickers : universe'[t].complete => universe'[t].known
  BY <1>2 DEF Keeps
<1>5. QED
  BY <1>3, <1>4 DEF RowsHaveTicker

LEMMA KnownStep ==
    ASSUME ShapeInv, KnownInv, NEW p \in Scripts, NEW r \in ScriptState, Sets(p, r),
           Keeps(universe, universe'), rows' = rows, KnownScript(p, r, universe')
    PROVE  KnownInv'
<1>1. proc'[p] = r /\ \A q \in Scripts \ {p} : proc'[q] = proc[q]
  BY SetsEffect
<1>2. ASSUME NEW q \in Scripts PROVE KnownScript(q, proc'[q], universe')
  BY <1>1, KnownKept
<1>3. QED
  BY <1>2, KnownTables DEF KnownInv

LEMMA KnownNextTicker ==
    ASSUME ShapeInv, KnownInv, NEW p \in Scripts, NextTicker(p),
           Keeps(universe, universe'), rows' = rows
    PROVE  KnownInv'
<1>1. PICK r \in ScriptState : Sets(p, r) /\ r.pc = "next" /\ r.todo = proc[p].todo
  BY NextTickerEffect
<1>2. KnownScript(p, proc[p], universe')
  BY KnownKept
<1>3. KnownScript(p, r, universe')
  BY <1>1, <1>2 DEF KnownScript
<1>4. QED
  BY <1>1, <1>3, KnownStep

LEMMA KnownStart ==
    ASSUME ShapeInv, KnownInv, NEW p \in Scripts, NEW todo \in SUBSET Tickers, Start(p, todo),
           p # "sync" => \A t \in todo : universe'[t].known,
           Keeps(universe, universe'), rows' = rows
    PROVE  KnownInv'
<1>1. PICK r \in ScriptState : Sets(p, r) /\ r.pc = "next" /\ r.todo = todo
  BY StartEffect
<1>2. KnownScript(p, r, universe')
  BY <1>1 DEF KnownScript
<1>3. QED
  BY <1>1, <1>2, KnownStep

\* A script takes the ticker t of its list, which is known unless it is daily_sync.
LEMMA KnownTakes ==
    ASSUME ShapeInv, KnownInv, NEW p \in Scripts, NEW t \in Tickers, NEW r \in ScriptState,
           Sets(p, r), t \in proc[p].todo, r.todo = proc[p].todo \ {t},
           r.pc # "next" => r.cur = t, p = "sync" => r.pc \in {"next", "meta"},
           rows' = rows, universe' = universe
    PROVE  KnownInv'
<1>1. KnownScript(p, proc[p], universe)
  BY DEF KnownInv
<1>2. KnownScript(p, r, universe')
  BY <1>1 DEF KnownScript
<1>3. QED
  BY <1>2, KnownStep, KeepsSame

LEMMA KnownInvariant == Spec => []KnownInv
<1>1. Init => KnownInv
  <2> SUFFICES ASSUME Init PROVE KnownInv
    OBVIOUS
  <2>1. \A p \in Scripts : proc[p].pc = "idle" /\ proc[p].todo = {}
    BY DEF Init, Idle
  <2>2. \A t \in Tickers : rows[t] = {} /\ universe[t].complete = FALSE
    BY DEF Init, NoRow
  <2>3. QED
    BY <2>1, <2>2 DEF KnownInv, KnownScript, RowsHaveTicker
<1>2. ShapeInv /\ KnownInv /\ [Next]_vars => KnownInv'
  <2> SUFFICES ASSUME ShapeInv, KnownInv, [Next]_vars PROVE KnownInv'
    OBVIOUS
  <2>0. /\ "sync" \in Scripts /\ "incr" \in Scripts /\ "bf" \in Scripts /\ "weekly" \in Scripts
        /\ Keeps(universe, universe)
    BY KeepsSame DEF Scripts
  <2>1. CASE SyncStart
    BY <2>0, <2>1, StartLists, KnownStart DEF SyncStart
  <2>2. CASE SyncMeta
    <3>1. PICK r \in ScriptState : Sets("sync", r) /\ r.cur = proc["sync"].cur
      BY <2>2, SyncMetaEffect
    <3>2. Keeps(universe, universe') /\ KnownScript("sync", r, universe')
      BY <2>2, <3>1, SyncMetaKeeps DEF KnownScript
    <3>3. QED
      BY <2>0, <2>2, <3>1, <3>2, KnownStep DEF SyncMeta
  <2>3. ASSUME NEW t \in Tickers, NEW a \in Answers, SyncFetch(t, a) PROVE KnownInv'
    <3>1. PICK r \in ScriptState :
              /\ Sets("sync", r) /\ t \in proc["sync"].todo /\ r.todo = proc["sync"].todo \ {t}
              /\ r.pc = "next" \/ (r.pc = "meta" /\ r.cur = t)
      BY <2>3, SyncFetchEffect DEF Fetched
    <3>2. QED
      BY <2>0, <2>3, <3>1, KnownTakes DEF SyncFetch
  <2>4. CASE IncrStart
    <3>1. \A t \in list_complete_universe(universe) : universe[t].known
      BY StartLists DEF KnownInv
    <3>2. QED
      BY <2>0, <2>4, <3>1, StartLists, KnownStart DEF IncrStart
  <2>5. ASSUME NEW t \in Tickers, IncrWindow(t) PROVE KnownInv'
    <3>1. PICK r \in ScriptState :
              /\ Sets("incr", r) /\ t \in proc["incr"].todo /\ r.todo = proc["incr"].todo \ {t}
              /\ r.pc = "next" \/ (r.pc = "fetch" /\ r.cur = t)
      BY <2>5, IncrWindowEffect
    <3>2. QED
      BY <2>0, <2>5, <3>1, KnownTakes DEF IncrWindow
  <2>6. ASSUME NEW b \in Answers, NEW m \in Answers, IncrFetch(b, m) PROVE KnownInv'
    <3>1. CASE NextTicker("incr")
      BY <2>0, <2>6, <3>1, KnownNextTicker DEF IncrFetch
    <3>2. CASE ~NextTicker("incr")
      <4>1. PICK r \in ScriptState :
                /\ Sets("incr", r) /\ r.cur = proc["incr"].cur /\ r.todo = proc["incr"].todo
        BY <2>6, <3>2, IncrFetchEffect
      <4>2. At("incr", "fetch")
        BY <2>6 DEF IncrFetch
      <4>3. KnownScript("incr", proc["incr"], universe)
        BY <2>0 DEF KnownInv
      <4>4. KnownScript("incr", r, universe)
        BY <4>1, <4>2, <4>3 DEF KnownScript, At
      <4>5. QED
        BY <2>0, <2>6, <4>1, <4>4, KnownStep DEF IncrFetch
    <3>3. QED
      BY <3>1, <3>2
  <2>7. ASSUME NEW u \in Universes(today), BfStart(u) PROVE KnownInv'
    BY <2>0, <2>7, BfStartKeeps, KnownStart DEF BfStart
  <2>8. ASSUME NEW t \in Tickers, BfSkip(t) PROVE KnownInv'
    <3>1. PICK r \in ScriptState :
              /\ Sets("bf", r) /\ t \in proc["bf"].todo /\ r.todo = proc["bf"].todo \ {t}
              /\ r.cur = t
      BY <2>8, BfSkipEffect
    <3>2. QED
      BY <2>0, <2>8, <3>1, KnownTakes DEF BfSkip
  <2>9. ASSUME NEW t \in Tickers, NEW b \in Answers, NEW m \in Answers, NEW c \in BOOLEAN,
               BfFetch(t, b, m, c)
        PROVE  KnownInv'
    <3>1. PICK r \in ScriptState :
              /\ Sets("bf", r) /\ t \in proc["bf"].todo /\ r.todo = proc["bf"].todo \ {t}
              /\ r.cur = t
      BY <2>9, BfFetchEffect
    <3>2. QED
      BY <2>0, <2>9, <3>1, KnownTakes DEF BfFetch
  <2>10. ASSUME NEW m \in SUBSET Tickers, WeeklyStart(m) PROVE KnownInv'
    BY <2>0, <2>10, StartLists, KnownStart DEF WeeklyStart
  <2>11. ASSUME NEW t \in Tickers, NEW a \in Answers, WeeklyFetch(t, a) PROVE KnownInv'
    <3>1. PICK r \in ScriptState :
              /\ Sets("weekly", r) /\ t \in proc["weekly"].todo
              /\ r.todo = proc["weekly"].todo \ {t}
              /\ r.pc = "next" \/ r.cur = t
      BY <2>11, WeeklyFetchEffect DEF Fetched
    <3>2. QED
      BY <2>0, <2>11, <3>1, KnownTakes DEF WeeklyFetch
  <2>12. CASE MarkTerminallyFailed
    <3>1. Keeps(universe, universe') /\ rows' = rows /\ proc' = proc
      BY <2>12, MarkTerminallyFailedKeeps DEF MarkTerminallyFailed
    <3>2. QED
      BY <3>1, KnownTables, KnownKept DEF KnownInv
  <2>13. ASSUME NEW p \in Scripts, Store(p) PROVE KnownInv'
    <3>1. PICK r \in ScriptState :
              /\ Sets(p, r) /\ r.todo = proc[p].todo
              /\ r.pc = "next" \/ (r.pc = "check" /\ r.cur = proc[p].cur)
      BY <2>13, StoreEffect
    <3>2. KnownScript(p, proc[p], universe) /\ At(p, "store")
      BY <2>13 DEF KnownInv, Store
    <3>3. KnownScript(p, r, universe) /\ universe[proc[p].cur].known
      BY <3>1, <3>2 DEF KnownScript, At
    <3>4. \A t \in Tickers \ {proc[p].cur} : rows'[t] = rows[t]
      BY <2>13, StoreEffect
    <3>5. universe' = universe
      BY <2>13 DEF Store
    <3>6. RowsHaveTicker'
      BY <3>3, <3>4, <3>5 DEF KnownInv, RowsHaveTicker
    <3>7. proc'[p] = r /\ \A q \in Scripts \ {p} : proc'[q] = proc[q]
      BY <3>1, SetsEffect
    <3>8. QED
      BY <3>3, <3>5, <3>6, <3>7 DEF KnownInv
  <2>14. ASSUME NEW p \in Scripts, Check(p) PROVE KnownInv'
    <3>1. CASE NextTicker(p)
      BY <2>0, <2>14, <3>1, KnownNextTicker DEF Check
    <3>2. CASE ~NextTicker(p)
      <4>1. PICK r \in ScriptState :
                /\ Sets(p, r) /\ r.cur = proc[p].cur /\ r.todo = proc[p].todo
        BY <2>14, <3>2, CheckEffect
      <4>2. KnownScript(p, proc[p], universe) /\ At(p, "check")
        BY <2>14 DEF KnownInv, Check
      <4>3. KnownScript(p, r, universe)
        BY <4>1, <4>2 DEF KnownScript, At
      <4>4. QED
        BY <2>0, <2>14, <4>1, <4>3, KnownStep DEF Check
    <3>3. QED
      BY <3>1, <3>2
  <2>15. ASSUME NEW p \in Scripts, Mark(p) PROVE KnownInv'
    BY <2>15, MarkKeeps, KnownNextTicker DEF Mark
  <2>16. ASSUME NEW p \in Scripts, TickerFails(p) PROVE KnownInv'
    BY <2>0, <2>16, KnownNextTicker DEF TickerFails
  <2>17. ASSUME NEW p \in Scripts, Ends(p) PROVE KnownInv'
    <3>1. PICK r \in ScriptState : Sets(p, r) /\ r.pc = "idle" /\ r.todo = {}
      BY <2>17, EndsEffect
    <3>2. KnownScript(p, r, universe)
      BY <3>1 DEF KnownScript
    <3>3. QED
      BY <2>0, <2>17, <3>1, <3>2, KnownStep DEF Ends
  <2>18. CASE Midnight
    BY <2>18 DEF Midnight, KnownInv, RowsHaveTicker
  <2>19. CASE UNCHANGED vars
    BY <2>19 DEF vars, KnownInv, RowsHaveTicker
  <2>20. QED
    BY <2>1, <2>2, <2>3, <2>4, <2>5, <2>6, <2>7, <2>8, <2>9, <2>10, <2>11, <2>12, <2>13,
       <2>14, <2>15, <2>16, <2>17, <2>18, <2>19 DEF Next
<1>3. QED
  BY <1>1, <1>2, ShapeInvariant, PTL DEF Spec

\* Whatever scripts overlap and wherever one is killed, a bar is only stored of a
\* ticker that has a row in ticker_universe.
THEOREM BarsHaveTheirTicker == Spec => []RowsHaveTicker
<1>1. KnownInv => RowsHaveTicker
  BY DEF KnownInv
<1>2. QED
  BY <1>1, KnownInvariant, PTL

-----------------------------------------------------------------------------
(* The incremental run stores closed bars.                                   *)

\* The window of the incremental run ends before today, also after a midnight.
ClosedInv ==
    /\ IncrementalStoresClosedBars
    /\ At("incr", "fetch") => proc["incr"].end < today

LEMMA ClosedStep ==
    ASSUME ShapeInv, ClosedInv, NEW p \in Scripts, NEW r \in ScriptState, Sets(p, r),
           today' = today,
           p = "incr" => (\A b \in r.got : b.final) /\ (r.pc = "fetch" => r.end < today)
    PROVE  ClosedInv'
<1>1. "incr" \in Scripts /\ proc'[p] = r /\ \A q \in Scripts \ {p} : proc'[q] = proc[q]
  BY SetsEffect DEF Scripts
<1>2. CASE p = "incr"
  BY <1>1, <1>2 DEF ClosedInv, IncrementalStoresClosedBars, At
<1>3. CASE p # "incr"
  BY <1>1, <1>3 DEF ClosedInv, IncrementalStoresClosedBars, At
<1>4. QED
  BY <1>2, <1>3

LEMMA ClosedNextTicker ==
    ASSUME ShapeInv, ClosedInv, NEW p \in Scripts, NextTicker(p), today' = today
    PROVE  ClosedInv'
<1>1. PICK r \in ScriptState : Sets(p, r) /\ r.pc = "next" /\ r.got = {}
  BY NextTickerEffect
<1>2. QED
  BY <1>1, ClosedStep

LEMMA ClosedStart ==
    ASSUME ShapeInv, ClosedInv, NEW p \in Scripts, NEW todo \in SUBSET Tickers, Start(p, todo),
           today' = today
    PROVE  ClosedInv'
<1>1. PICK r \in ScriptState : Sets(p, r) /\ r.pc = "next" /\ r.got = {}
  BY StartEffect
<1>2. QED
  BY <1>1, ClosedStep

LEMMA ClosedInvariant == Spec => []ClosedInv
<1>1. Init => ClosedInv
  <2> SUFFICES ASSUME Init PROVE ClosedInv
    OBVIOUS
  <2>1. proc["incr"].pc = "idle" /\ proc["incr"].got = {}
    BY DEF Init, Idle, Scripts
  <2>2. QED
    BY <2>1 DEF ClosedInv, IncrementalStoresClosedBars, At
<1>2. ShapeInv /\ ClosedInv /\ [Next]_vars => ClosedInv'
  <2> SUFFICES ASSUME ShapeInv, ClosedInv, [Next]_vars PROVE ClosedInv'
    OBVIOUS
  <2>0. "sync" \in Scripts /\ "incr" \in Scripts /\ "bf" \in Scripts /\ "weekly" \in Scripts
    BY DEF Scripts
  <2>1. CASE SyncStart
    BY <2>0, <2>1, StartLists, ClosedStart DEF SyncStart
  <2>2. CASE SyncMeta
    <3>1. \E r \in ScriptState : Sets("sync", r)
      BY <2>2, SyncMetaEffect
    <3>2. QED
      BY <2>0, <2>2, <3>1, ClosedStep DEF SyncMeta
  <2>3. ASSUME NEW t \in Tickers, NEW a \in Answers, SyncFetch(t, a) PROVE ClosedInv'
    <3>1. \E r \in ScriptState : Sets("sync", r)
      BY <2>3, SyncFetchEffect DEF Fetched
    <3>2. QED
      BY <2>0, <2>3, <3>1, ClosedStep DEF SyncFetch
  <2>4. CASE IncrStart
    BY <2>0, <2>4, StartLists, ClosedStart DEF IncrStart
  <2>5. ASSUME NEW t \in Tickers, IncrWindow(t) PROVE ClosedInv'
    <3>1. PICK r \in ScriptState :
              /\ Sets("incr", r) /\ r.got = {}
              /\ r.pc = "next" \/ (r.pc = "fetch" /\ r.end = today - 1)
      BY <2>5, IncrWindowEffect
    <3>2. r.pc = "fetch" => r.end < today
      BY <3>1, TodayTypes
    <3>3. QED
      BY <2>0, <2>5, <3>1, <3>2, ClosedStep DEF IncrWindow
  <2>6. ASSUME NEW b \in Answers, NEW m \in Answers, IncrFetch(b, m) PROVE ClosedInv'
    <3>1. CASE NextTicker("incr")
      BY <2>0, <2>6, <3>1, ClosedNextTicker DEF IncrFetch
    <3>2. CASE ~NextTicker("incr")
      <4>1. PICK r \in ScriptState :
                /\ Sets("incr", r) /\ r.pc = "store"
                /\ \A x \in r.got : x.ts <= proc["incr"].end /\ (x.final <=> x.ts < today)
        BY <2>6, <3>2, IncrFetchEffect
      <4>2. proc["incr"].end < today /\ proc["incr"].end \in Int /\ today \in Int
        BY <2>0, <2>6, TodayTypes, ScriptTypes DEF IncrFetch, ClosedInv
      <4>3. ASSUME NEW x \in r.got PROVE x.final
        <5>1. x.ts \in 0..MaxDay /\ MaxDay \in Nat
          BY TodayTypes DEF ScriptState, BarSet
        <5>2. x.ts < today
          BY <4>1, <4>2, <5>1
        <5>3. QED
          BY <4>1, <5>2
      <4>4. QED
        BY <2>0, <2>6, <4>1, <4>3, ClosedStep DEF IncrFetch
    <3>3. QED
      BY <3>1, <3>2
  <2>7. ASSUME NEW u \in Universes(today), BfStart(u) PROVE ClosedInv'
    BY <2>0, <2>7, BfStartKeeps, ClosedStart DEF BfStart
  <2>8. ASSUME NEW t \in Tickers, BfSkip(t) PROVE ClosedInv'
    <3>1. \E r \in ScriptState : Sets("bf", r)
      BY <2>8, BfSkipEffect
    <3>2. QED
      BY <2>0, <2>8, <3>1, ClosedStep DEF BfSkip
  <2>9. ASSUME NEW t \in Tickers, NEW b \in Answers, NEW m \in Answers, NEW c \in BOOLEAN,
               BfFetch(t, b, m, c)
        PROVE  ClosedInv'
    <3>1. \E r \in ScriptState : Sets("bf", r)
      BY <2>9, BfFetchEffect
    <3>2. QED
      BY <2>0, <2>9, <3>1, ClosedStep DEF BfFetch
  <2>10. ASSUME NEW m \in SUBSET Tickers, WeeklyStart(m) PROVE ClosedInv'
    BY <2>0, <2>10, StartLists, ClosedStart DEF WeeklyStart
  <2>11. ASSUME NEW t \in Tickers, NEW a \in Answers, WeeklyFetch(t, a) PROVE ClosedInv'
    <3>1. \E r \in ScriptState : Sets("weekly", r)
      BY <2>11, WeeklyFetchEffect DEF Fetched
    <3>2. QED
      BY <2>0, <2>11, <3>1, ClosedStep DEF WeeklyFetch
  <2>12. CASE MarkTerminallyFailed
    BY <2>12 DEF MarkTerminallyFailed, ClosedInv, IncrementalStoresClosedBars, At
  <2>13. ASSUME NEW p \in Scripts, Store(p) PROVE ClosedInv'
    <3>1. PICK r \in ScriptState : Sets(p, r) /\ r.got = {} /\ r.pc \in {"next", "check"}
      BY <2>13, StoreEffect
    <3>2. QED
      BY <2>13, <3>1, ClosedStep DEF Store
  <2>14. ASSUME NEW p \in Scripts, Check(p) PROVE ClosedInv'
    <3>1. CASE NextTicker(p)
      BY <2>14, <3>1, ClosedNextTicker DEF Check
    <3>2. CASE ~NextTicker(p)
      <4>1. PICK r \in ScriptState : Sets(p, r) /\ r.pc = "mark" /\ r.got = proc[p].got
        BY <2>14, <3>2, CheckEffect
      <4>2. QED
        BY <2>14, <4>1, ClosedStep DEF Check, ClosedInv, IncrementalStoresClosedBars
    <3>3. QED
      BY <3>1, <3>2
  <2>15. ASSUME NEW p \in Scripts, Mark(p) \/ TickerFails(p) PROVE ClosedInv'
    BY <2>15, ClosedNextTicker DEF Mark, TickerFails
  <2>16. ASSUME NEW p \in Scripts, Ends(p) PROVE ClosedInv'
    <3>1. PICK r \in ScriptState : Sets(p, r) /\ r.pc = "idle" /\ r.got = {}
      BY <2>16, EndsEffect
    <3>2. QED
      BY <2>16, <3>1, ClosedStep DEF Ends
  <2>17. CASE Midnight
    <3>1. proc["incr"].end \in Int /\ today \in Int /\ today' = today + 1 /\ proc' = proc
      BY <2>0, <2>17, TodayTypes, ScriptTypes DEF Midnight
    <3>2. QED
      BY <3>1 DEF ClosedInv, IncrementalStoresClosedBars, At
  <2>18. CASE UNCHANGED vars
    BY <2>18 DEF vars, ClosedInv, IncrementalStoresClosedBars, At
  <2>19. QED
    BY <2>1, <2>2, <2>3, <2>4, <2>5, <2>6, <2>7, <2>8, <2>9, <2>10, <2>11, <2>12, <2>13,
       <2>14, <2>15, <2>16, <2>17, <2>18 DEF Next
<1>3. QED
  BY <1>1, <1>2, ShapeInvariant, PTL DEF Spec

\* What the incremental run is about to store are bars of days that are over, at
\* whichever of its steps midnight falls.
THEOREM OnlyClosedBars == Spec => []IncrementalStoresClosedBars
<1>1. ClosedInv => IncrementalStoresClosedBars
  BY DEF ClosedInv
<1>2. QED
  BY <1>1, ClosedInvariant, PTL

-----------------------------------------------------------------------------
(* The stored history has no hole.                                           *)

Convex(S) == \A x, y \in S : \A z \in x..y : z \in S

Asked(t, start, end) == {x \in start..end : ListedAt[t] <= x}

\* A full run (bf, weekly) holds everything from the listing to yesterday or today;
\* what the incremental run asks for, or holds, joins the days that are already
\* stored; daily_sync keeps to the liquid tickers.
HoleScript(p, r) ==
    /\ r.day \in {Null, today - 1, today}
    /\ p = "weekly" /\ r.pc # "idle" => r.day # Null
    /\ r.pc \in {"meta", "store"} => Days(r.got) \subseteq ListedAt[r.cur]..today
    /\ p = "sync" => r.todo \subseteq liquid /\ (r.pc \notin {"idle", "next"} => r.cur \in liquid)
    /\ p \in {"bf", "weekly"} /\ r.pc = "store" =>
           r.day # Null /\ Days(r.got) = ListedAt[r.cur]..r.day
    /\ p = "incr" /\ r.pc = "fetch" /\ r.cur \notin liquid =>
           Convex(Days(rows[r.cur]) \cup Asked(r.cur, r.start, r.end))
    /\ p = "incr" /\ r.pc = "store" /\ r.cur \notin liquid =>
           Convex(Days(rows[r.cur]) \cup Days(r.got))

HoleInv ==
    /\ \A t \in Tickers : Days(rows[t]) \subseteq ListedAt[t]..today
    /\ \A t \in Tickers \ liquid : Convex(Days(rows[t]))
    /\ \A p \in Scripts : HoleScript(p, proc[p])

\* All traded days but possibly today's, whatever of them is added.
LEMMA FullIsConvex ==
    ASSUME NEW n \in Int, NEW l \in Int, NEW S, l..(n - 1) \subseteq S, S \subseteq l..n
    PROVE  Convex(S)
<1> SUFFICES ASSUME NEW x \in S, NEW y \in S, NEW z \in x..y PROVE z \in S
  BY DEF Convex
<1>1. x \in l..n /\ y \in l..n
  OBVIOUS
<1>2. z \in Int /\ l <= z /\ z <= y /\ y <= n
  BY <1>1
<1>3. CASE z = n
  <2>1. z = y
    BY <1>1, <1>2, <1>3
  <2>2. QED
    BY <2>1
<1>4. CASE z # n
  <2>1. z \in l..(n - 1)
    BY <1>1, <1>2, <1>4
  <2>2. QED
    BY <2>1
<1>5. QED
  BY <1>3, <1>4

\* A window that starts the day after the newest of the stored days.
LEMMA JoinedIsConvex ==
    ASSUME NEW S, S \subseteq Int, Convex(S), NEW m \in S, \A d \in S : d <= m,
           NEW e \in Int
    PROVE  Convex(S \cup ((m + 1)..e))
<1> DEFINE W == (m + 1)..e
<1> SUFFICES ASSUME NEW x \in S \cup W, NEW y \in S \cup W, NEW z \in x..y
             PROVE  z \in S \cup W
  BY DEF Convex
<1>1. m \in Int /\ x \in Int /\ y \in Int /\ z \in Int /\ x <= z /\ z <= y
  OBVIOUS
<1>2. CASE z > m
  <2>1. y \notin S
    BY <1>1, <1>2
  <2>2. y <= e
    BY <2>1
  <2>3. QED
    BY <1>1, <1>2, <2>2
<1>3. CASE ~ (z > m)
  <2>1. x \in S /\ z <= m
    BY <1>1, <1>3
  <2>2. CASE y \in S
    BY <2>1, <2>2 DEF Convex
  <2>3. z \in x..m
    BY <1>1, <2>1
  <2>4. QED
    BY <2>1, <2>3 DEF Convex
<1>4. QED
  BY <1>2, <1>3

LEMMA HoleStep ==
    ASSUME ShapeInv, HoleInv, NEW p \in Scripts, NEW r \in ScriptState, Sets(p, r),
           today' = today, rows' = rows, liquid' = liquid, HoleScript(p, r)
    PROVE  HoleInv'
<1>1. proc'[p] = r /\ \A q \in Scripts \ {p} : proc'[q] = proc[q]
  BY SetsEffect
<1>2. \A q \in Scripts : HoleScript(q, proc'[q])
  BY <1>1 DEF HoleInv
<1>3. \A q \in Scripts : HoleScript(q, proc[q])'
  BY <1>2 DEF HoleScript
<1>4. \A t \in Tickers : Days(rows'[t]) \subseteq ListedAt[t]..today'
  BY DEF HoleInv
<1>5. \A t \in Tickers \ liquid' : Convex(Days(rows'[t]))
  BY DEF HoleInv
<1>6. QED
  BY <1>3, <1>4, <1>5 DEF HoleInv

LEMMA HoleNextTicker ==
    ASSUME ShapeInv, HoleInv, NEW p \in Scripts, ~At(p, "idle"), NextTicker(p),
           today' = today, rows' = rows, liquid' = liquid
    PROVE  HoleInv'
<1>1. PICK r \in ScriptState :
          /\ Sets(p, r) /\ r.pc = "next" /\ r.todo = proc[p].todo /\ r.got = {}
          /\ r.day = IF p = "bf" THEN Null ELSE proc[p].day
  BY NextTickerEffect
<1>2. HoleScript(p, proc[p])
  BY DEF HoleInv
<1>3. HoleScript(p, r)
  BY <1>1, <1>2 DEF HoleScript, At
<1>4. QED
  BY <1>1, <1>3, HoleStep

LEMMA HoleStart ==
    ASSUME ShapeInv, HoleInv, NEW p \in Scripts, NEW todo \in SUBSET Tickers, Start(p, todo),
           p = "sync" => todo \subseteq liquid,
           today' = today, rows' = rows, liquid' = liquid
    PROVE  HoleInv'
<1>1. PICK r \in ScriptState :
          /\ Sets(p, r) /\ r.pc = "next" /\ r.todo = todo
          /\ r.day = IF p = "bf" THEN Null ELSE today
  BY StartEffect
<1>2. today # Null
  BY TodayTypes DEF Null
<1>3. HoleScript(p, r)
  BY <1>1, <1>2 DEF HoleScript
<1>4. QED
  BY <1>1, <1>3, HoleStep

\* The listed days, as integers.
LEMMA ListedTypes == \A t \in Tickers : ListedAt[t] \in Nat /\ ListedAt[t] \in Int
  BY MarketDataAssumption

LEMMA HoleSyncFetch ==
    ASSUME ShapeInv, HoleInv, NEW t \in Tickers, NEW a, SyncFetch(t, a) PROVE HoleInv'
<1> DEFINE s == proc["sync"].day - SyncDays
<1> DEFINE e == proc["sync"].day
<1>1. PICK r \in ScriptState :
          /\ Sets("sync", r) /\ t \in proc["sync"].todo
          /\ r.todo = proc["sync"].todo \ {t} /\ r.day = proc["sync"].day
          /\ \/ r.pc = "next" /\ r.got = {}
             \/ r.pc = "meta" /\ r.cur = t /\ r.got # {} /\ Days(r.got) = TradedIn(t, s, e)
  BY SyncFetchEffect DEF Fetched
<1>2. TradedIn(t, s, e) \subseteq ListedAt[t]..today
  BY ListedTypes, TodayTypes DEF TradedIn
<1>3. HoleScript("sync", proc["sync"]) /\ "sync" \in Scripts
  BY DEF HoleInv, Scripts
<1> HIDE DEF s, e
<1>4. HoleScript("sync", r)
  BY <1>1, <1>2, <1>3 DEF HoleScript
<1>5. QED
  BY <1>1, <1>3, <1>4, HoleStep DEF SyncFetch

LEMMA HoleWeeklyFetch ==
    ASSUME ShapeInv, HoleInv, NEW t \in Tickers, NEW a, WeeklyFetch(t, a) PROVE HoleInv'
<1> DEFINE d == proc["weekly"].day
<1>1. PICK r \in ScriptState :
          /\ Sets("weekly", r) /\ r.day = d
          /\ \/ r.pc = "next" /\ r.got = {}
             \/ r.pc = "store" /\ r.cur = t /\ r.got # {} /\ Days(r.got) = TradedIn(t, 0, d)
  BY WeeklyFetchEffect DEF Fetched
<1>2. HoleScript("weekly", proc["weekly"]) /\ "weekly" \in Scripts
  BY DEF HoleInv, Scripts
<1>3. At("weekly", "next")
  BY DEF WeeklyFetch, Takes
<1>4. d \in {today - 1, today} /\ d # Null
  BY <1>2, <1>3 DEF HoleScript, At
<1>5. TradedIn(t, 0, d) = ListedAt[t]..d /\ ListedAt[t]..d \subseteq ListedAt[t]..today
  <2>1. d \in Int /\ d <= today /\ today \in Int
    BY <1>4, TodayTypes
  <2>2. QED
    BY <2>1, ListedTypes DEF TradedIn
<1> HIDE DEF d
<1>6. HoleScript("weekly", r)
  BY <1>1, <1>4, <1>5 DEF HoleScript
<1>7. QED
  BY <1>1, <1>2, <1>6, HoleStep DEF WeeklyFetch

LEMMA HoleBfFetch ==
    ASSUME ShapeInv, HoleInv, NEW t \in Tickers, NEW b, NEW m, NEW c, BfFetch(t, b, m, c)
    PROVE  HoleInv'
<1>1. PICK r \in ScriptState :
          /\ Sets("bf", r) /\ r.day = today /\ r.cur = t
          /\ \/ r.pc = "check" /\ r.got = {}
             \/ r.pc = "store" /\ r.got # {} /\ Days(r.got) = TradedIn(t, 0, today)
  BY BfFetchEffect
<1>2. TradedIn(t, 0, today) = ListedAt[t]..today /\ today # Null
  BY ListedTypes, TodayTypes DEF TradedIn, Null
<1>3. HoleScript("bf", r) /\ "bf" \in Scripts
  BY <1>1, <1>2 DEF HoleScript, Scripts
<1>4. QED
  BY <1>1, <1>3, HoleStep DEF BfFetch

LEMMA HoleIncrWindow ==
    ASSUME ShapeInv, HoleInv, NEW t \in Tickers, IncrWindow(t) PROVE HoleInv'
<1>1. PICK r \in ScriptState :
          /\ Sets("incr", r) /\ r.day = proc["incr"].day /\ r.got = {}
          /\ \/ r.pc = "next"
             \/ /\ r.pc = "fetch" /\ r.cur = t /\ r.end = today - 1
                /\ r.start = IF rows[t] = {} THEN today - 1 ELSE latest_ts(rows[t]) + 1
  BY IncrWindowEffect
<1>2. HoleScript("incr", proc["incr"]) /\ "incr" \in Scripts
  BY DEF HoleInv, Scripts
<1>3. ASSUME r.pc = "fetch", t \notin liquid
      PROVE  Convex(Days(rows[t]) \cup Asked(t, r.start, r.end))
  <2>1. r.end = today - 1
        /\ r.start = IF rows[t] = {} THEN today - 1 ELSE latest_ts(rows[t]) + 1
    BY <1>1, <1>3
  <2>2. CASE rows[t] = {}
    <3>1. Days(rows[t]) = {} /\ r.start = today - 1
      BY <2>1, <2>2 DEF Days
    <3>2. QED
      BY <2>1, <3>1, TodayTypes DEF Convex, Asked
  <2>3. CASE rows[t] # {}
    <3> DEFINE D == Days(rows[t])
    <3> DEFINE m == latest_ts(rows[t])
    <3>1. m \in D /\ D \subseteq Int /\ \A d \in D : d <= m
      BY <2>3, StoredDays
    <3>2. Convex(D) /\ D \subseteq ListedAt[t]..today
      BY <1>3 DEF HoleInv
    <3>3. r.start = m + 1
      BY <2>1, <2>3
    <3> HIDE DEF D, m
    <3>4. Asked(t, r.start, r.end) = (m + 1)..(today - 1)
      BY <2>1, <3>1, <3>2, <3>3, ListedTypes, TodayTypes DEF Asked
    <3>5. QED
      BY <3>1, <3>2, <3>4, JoinedIsConvex, TodayTypes DEF D
  <2>4. QED
    BY <2>2, <2>3
<1>4. HoleScript("incr", r)
  BY <1>1, <1>2, <1>3 DEF HoleScript
<1>5. QED
  BY <1>1, <1>2, <1>4, HoleStep DEF IncrWindow

LEMMA HoleIncrFetch ==
    ASSUME ShapeInv, ClosedInv, HoleInv, NEW b, NEW m, IncrFetch(b, m) PROVE HoleInv'
<1> DEFINE p == proc["incr"]
<1>1. /\ At("incr", "fetch") /\ p.cur \in Tickers /\ "incr" \in Scripts
      /\ p.start \in Int /\ p.end \in Int /\ p.end < today /\ today \in Int
  BY IncrFetchEffect, ScriptTypes, TodayTypes DEF ClosedInv, Scripts
<1>2. CASE NextTicker("incr")
  BY <1>1, <1>2, HoleNextTicker DEF IncrFetch, At
<1>3. CASE ~NextTicker("incr")
  <2>1. PICK r \in ScriptState :
            /\ Sets("incr", r) /\ r.pc = "store" /\ r.cur = p.cur /\ r.day = p.day
            /\ Days(r.got) = TradedIn(p.cur, p.start, p.end)
    BY <1>3, IncrFetchEffect
  <2>2. /\ TradedIn(p.cur, p.start, p.end) = Asked(p.cur, p.start, p.end)
        /\ TradedIn(p.cur, p.start, p.end) \subseteq ListedAt[p.cur]..today
    BY <1>1, ListedTypes DEF TradedIn, Asked
  <2>3. HoleScript("incr", p)
    BY <1>1 DEF HoleInv
  <2>4. HoleScript("incr", r)
    BY <1>1, <2>1, <2>2, <2>3 DEF HoleScript, At
  <2>5. QED
    BY <1>1, <2>1, <2>4, HoleStep DEF IncrFetch
<1>4. QED
  BY <1>2, <1>3

\* The upsert of the script p fills, or prolongs, the history of its ticker.
LEMMA HoleStore ==
    ASSUME ShapeInv, ClosedInv, HoleInv, NEW p \in Scripts, Store(p) PROVE HoleInv'
<1> DEFINE c == proc[p].cur
<1> DEFINE D == Days(rows[c])
<1> DEFINE G == Days(proc[p].got)
<1>0. today' = today /\ liquid' = liquid /\ "incr" \in Scripts
      /\ today \in Int /\ \A t \in Tickers : ListedAt[t] \in Int
  BY TodayTypes, ListedTypes DEF Store, Scripts
<1>1. /\ At(p, "store") /\ c \in Tickers /\ Days(rows'[c]) = D \cup G
      /\ \A t \in Tickers \ {c} : rows'[t] = rows[t]
  BY StoreEffect
<1>2. PICK r \in ScriptState :
          /\ Sets(p, r) /\ r.todo = proc[p].todo
          /\ r.day = proc[p].day \/ r.day = Null
          /\ r.pc = "next" \/ (r.pc = "check" /\ r.cur = proc[p].cur)
          /\ p = "weekly" => r.day = proc[p].day
  <2>1. CASE p \in {"sync", "bf"}
    BY <2>1, StoreEffect
  <2>2. CASE p \notin {"sync", "bf"}
    <3>1. NextTicker(p)
      BY <2>2 DEF Store
    <3>2. QED
      BY <2>2, <3>1, NextTickerEffect
  <2>3. QED
    BY <2>1, <2>2
<1>3. HoleScript(p, proc[p])
  BY DEF HoleInv
<1>4. D \subseteq ListedAt[c]..today /\ G \subseteq ListedAt[c]..today
  BY <1>1, <1>3 DEF HoleInv, HoleScript, At
\* A full run leaves all traded days but possibly today's.
<1>5. CASE p \in {"bf", "weekly"}
  <2>1. proc[p].day \in {today - 1, today} /\ G = ListedAt[c]..proc[p].day
    BY <1>1, <1>3, <1>5 DEF HoleScript, At
  <2>2. ListedAt[c]..(today - 1) \subseteq G
    BY <1>0, <1>1, <2>1
  <2>3. ASSUME NEW X, X \subseteq ListedAt[c]..today PROVE Convex(D \cup G \cup X)
    <3>1. ListedAt[c]..(today - 1) \subseteq D \cup G \cup X
          /\ D \cup G \cup X \subseteq ListedAt[c]..today
      BY <1>4, <2>2, <2>3
    <3>2. today \in Int /\ ListedAt[c] \in Int
      BY <1>0, <1>1
    <3> HIDE DEF D, G, c
    <3>3. QED
      BY <3>1, <3>2, FullIsConvex
  <2>4. Convex(Days(rows'[c]))
    <3>1. Convex(D \cup G \cup {})
      BY <2>3
    <3>2. D \cup G \cup {} = D \cup G
      OBVIOUS
    <3>3. QED
      BY <1>1, <3>1, <3>2
  <2>5. \A t \in Tickers \ liquid' : Convex(Days(rows'[t]))
    BY <1>0, <1>1, <2>4 DEF HoleInv
  <2>6. HoleScript("incr", proc["incr"])'
    <3> DEFINE q == proc["incr"]
    <3>1. proc'["incr"] = q
      BY <1>0, <1>2, <1>5, SetsEffect
    <3>2. HoleScript("incr", q)
      BY <1>0 DEF HoleInv
    <3>3. CASE q.cur # c \/ q.pc \notin {"fetch", "store"}
      <4>1. q.pc \in {"fetch", "store"} => q.cur \in Tickers
        BY <1>0 DEF ShapeInv
      <4>2. q.pc \in {"fetch", "store"} => rows'[q.cur] = rows[q.cur]
        BY <1>1, <3>3, <4>1
      <4>3. QED
        BY <1>0, <3>1, <3>2, <4>2 DEF HoleScript
    <3>4. CASE q.cur = c /\ q.pc = "fetch"
      <4>1. q.end < today /\ q.end \in Int /\ q.start \in Int
        BY <1>0, <3>4, ScriptTypes DEF ClosedInv, At
      <4>2. Asked(c, q.start, q.end) \subseteq ListedAt[c]..today
        BY <1>0, <1>1, <4>1 DEF Asked
      <4>3. Convex(Days(rows'[c]) \cup Asked(c, q.start, q.end))
        BY <1>1, <2>3, <4>2
      <4>4. QED
        BY <1>0, <3>1, <3>2, <3>4, <4>3 DEF HoleScript
    <3>5. CASE q.cur = c /\ q.pc = "store"
      <4>1. Days(q.got) \subseteq ListedAt[c]..today
        BY <3>2, <3>5 DEF HoleScript
      <4>2. Convex(Days(rows'[c]) \cup Days(q.got))
        BY <1>1, <2>3, <4>1
      <4>3. QED
        BY <1>0, <3>1, <3>2, <3>5, <4>2 DEF HoleScript
    <3>6. QED
      BY <3>3, <3>4, <3>5
  <2>7. QED
    <3>1. proc'[p] = r /\ \A q \in Scripts \ {p} : proc'[q] = proc[q]
      BY <1>2, SetsEffect
    <3>2. HoleScript(p, r)
      BY <1>1, <1>2, <1>3, <1>5, <2>1 DEF HoleScript, At
    <3>3. ASSUME NEW q \in Scripts \ {"incr"} PROVE HoleScript(q, proc'[q])
      BY <3>1, <3>2 DEF HoleInv
    <3>4. ASSUME NEW q \in Scripts \ {"incr"} PROVE HoleScript(q, proc[q])'
      BY <1>0, <3>3 DEF HoleScript
    <3>5. \A t \in Tickers : Days(rows'[t]) \subseteq ListedAt[t]..today'
      BY <1>0, <1>1, <1>4 DEF HoleInv
    <3>6. QED
      BY <2>5, <2>6, <3>4, <3>5 DEF HoleInv
\* What the incremental run holds joins what is stored; daily_sync writes only
\* tickers the property leaves out.
<1>6. CASE p \in {"sync", "incr"}
  <2>1. c \notin liquid => p = "incr" /\ Convex(D \cup G)
    BY <1>1, <1>3, <1>6 DEF HoleScript, At
  <2>2. \A t \in Tickers \ liquid' : Convex(Days(rows'[t]))
    BY <1>0, <1>1, <2>1 DEF HoleInv
  <2>3. \A t \in Tickers : Days(rows'[t]) \subseteq ListedAt[t]..today'
    BY <1>0, <1>1, <1>4 DEF HoleInv
  <2>4. proc'[p] = r /\ \A q \in Scripts \ {p} : proc'[q] = proc[q]
    BY <1>2, SetsEffect
  <2>5. HoleScript(p, r) /\ r.pc \in {"next", "check"}
    BY <1>1, <1>2, <1>3, <1>6 DEF HoleScript, At
  <2>6. ASSUME NEW q \in Scripts PROVE HoleScript(q, proc[q])'
    <3>1. HoleScript(q, proc'[q])
      BY <2>4, <2>5 DEF HoleInv
    <3>2. CASE q # "incr"
      BY <1>0, <3>1, <3>2 DEF HoleScript
    <3>3. CASE q = "incr" /\ p = "incr"
      BY <1>0, <2>4, <2>5, <3>1, <3>3 DEF HoleScript
    <3>4. CASE q = "incr" /\ p = "sync"
      <4>1. proc'[q] = proc[q] /\ c \in liquid
        BY <2>1, <2>4, <3>4
      <4>2. proc[q].pc \in {"fetch", "store"} => proc[q].cur \in Tickers
        BY DEF ShapeInv
      <4>3. proc[q].pc \in {"fetch", "store"} /\ proc[q].cur \notin liquid
                => rows'[proc[q].cur] = rows[proc[q].cur]
        BY <1>1, <4>1, <4>2
      <4>4. QED
        BY <1>0, <3>1, <3>4, <4>1, <4>3 DEF HoleScript
    <3>5. QED
      BY <1>6, <3>2, <3>3, <3>4
  <2>7. QED
    BY <2>2, <2>3, <2>6 DEF HoleInv
<1>7. QED
  BY <1>5, <1>6 DEF Scripts

LEMMA HoleMidnight ==
    ASSUME ShapeInv, HoleInv, Midnight PROVE HoleInv'
<1>1. /\ today \in Int /\ today' = today + 1 /\ today = today' - 1
      /\ rows' = rows /\ proc' = proc /\ liquid' = liquid
      /\ \A p \in Scripts : proc[p].day \in {Null, today}
  BY TodayTypes DEF Midnight
<1>2. ASSUME NEW l \in Int PROVE l..today \subseteq l..today'
  BY <1>1
<1>3. ASSUME NEW t \in Tickers PROVE Days(rows[t]) \subseteq ListedAt[t]..today'
  BY <1>2, ListedTypes DEF HoleInv
<1>4. ASSUME NEW p \in Scripts PROVE HoleScript(p, proc[p])'
  <2>1. HoleScript(p, proc[p])
    BY DEF HoleInv
  <2>2. proc[p].pc \in {"meta", "store"} => proc[p].cur \in Tickers
    BY DEF ShapeInv
  <2>3. proc[p].pc \in {"meta", "store"} => Days(proc[p].got) \subseteq ListedAt[proc[p].cur]..today'
    BY <1>2, <2>1, <2>2, ListedTypes DEF HoleScript
  <2>4. proc[p].day \in {Null, today' - 1}
    BY <1>1
  <2>5. QED
    BY <1>1, <2>1, <2>3, <2>4 DEF HoleScript
<1>5. QED
  BY <1>1, <1>3, <1>4 DEF HoleInv

LEMMA HoleInvariant == Spec => []HoleInv
<1>1. Init => HoleInv
  <2> SUFFICES ASSUME Init PROVE HoleInv
    OBVIOUS
  <2>1. \A p \in Scripts : /\ proc[p].pc = "idle" /\ proc[p].todo = {} /\ proc[p].day = Null
    BY DEF Init, Idle
  <2>2. \A t \in Tickers : Days(rows[t]) = {}
    BY DEF Init, Days
  <2>3. \A p \in Scripts : HoleScript(p, proc[p])
    BY <2>1 DEF HoleScript
  <2>4. QED
    BY <2>2, <2>3 DEF HoleInv, Convex
<1>2. ShapeInv /\ ClosedInv /\ HoleInv /\ [Next]_vars => HoleInv'
  <2> SUFFICES ASSUME ShapeInv, ClosedInv, HoleInv, [Next]_vars PROVE HoleInv'
    OBVIOUS
  <2>0. "sync" \in Scripts /\ "incr" \in Scripts /\ "bf" \in Scripts /\ "weekly" \in Scripts
    BY DEF Scripts
  <2>1. CASE SyncStart
    BY <2>0, <2>1, StartLists, HoleStart DEF SyncStart
  <2>2. CASE SyncMeta
    <3>1. PICK r \in ScriptState :
              /\ Sets("sync", r) /\ r.pc = "store" /\ r.got = proc["sync"].got
              /\ r.todo = proc["sync"].todo /\ r.day = proc["sync"].day
              /\ r.cur = proc["sync"].cur /\ At("sync", "meta")
      BY <2>2, SyncMetaEffect
    <3>2. HoleScript("sync", proc["sync"])
      BY <2>0 DEF HoleInv
    <3>3. HoleScript("sync", r)
      BY <3>1, <3>2 DEF HoleScript, At
    <3>4. QED
      BY <2>0, <2>2, <3>1, <3>3, HoleStep DEF SyncMeta
  <2>3. ASSUME NEW t \in Tickers, NEW a \in Answers, SyncFetch(t, a) PROVE HoleInv'
    BY <2>3, HoleSyncFetch
  <2>4. CASE IncrStart
    BY <2>0, <2>4, StartLists, HoleStart DEF IncrStart
  <2>5. ASSUME NEW t \in Tickers, IncrWindow(t) PROVE HoleInv'
    BY <2>5, HoleIncrWindow
  <2>6. ASSUME NEW b \in Answers, NEW m \in Answers, IncrFetch(b, m) PROVE HoleInv'
    BY <2>6, HoleIncrFetch
  <2>7. ASSUME NEW u \in Universes(today), BfStart(u) PROVE HoleInv'
    BY <2>0, <2>7, BfStartKeeps, HoleStart DEF BfStart
  <2>8. ASSUME NEW t \in Tickers, BfSkip(t) PROVE HoleInv'
    <3>1. PICK r \in ScriptState : Sets("bf", r) /\ r.day = today /\ r.pc = "mark"
      BY <2>8, BfSkipEffect
    <3>2. HoleScript("bf", r)
      BY <3>1 DEF HoleScript
    <3>3. QED
      BY <2>0, <2>8, <3>1, <3>2, HoleStep DEF BfSkip
  <2>9. ASSUME NEW t \in Tickers, NEW b \in Answers, NEW m \in Answers, NEW c \in BOOLEAN,
               BfFetch(t, b, m, c)
        PROVE  HoleInv'
    BY <2>9, HoleBfFetch
  <2>10. ASSUME NEW m \in SUBSET Tickers, WeeklyStart(m) PROVE HoleInv'
    BY <2>0, <2>10, StartLists, HoleStart DEF WeeklyStart
  <2>11. ASSUME NEW t \in Tickers, NEW a \in Answers, WeeklyFetch(t, a) PROVE HoleInv'
    BY <2>11, HoleWeeklyFetch
  <2>12. CASE MarkTerminallyFailed
    BY <2>12 DEF MarkTerminallyFailed, HoleInv, HoleScript
  <2>13. ASSUME NEW p \in Scripts, Store(p) PROVE HoleInv'
    BY <2>13, HoleStore
  <2>14. ASSUME NEW p \in Scripts, Check(p) PROVE HoleInv'
    <3>1. CASE NextTicker(p)
      BY <2>14, <3>1, HoleNextTicker DEF Check, At
    <3>2. CASE ~NextTicker(p)
      <4>1. PICK r \in ScriptState :
                /\ Sets(p, r) /\ r.pc = "mark" /\ r.todo = proc[p].todo
                /\ r.day = proc[p].day /\ r.cur = proc[p].cur /\ At(p, "check")
        BY <2>14, <3>2, CheckEffect
      <4>2. HoleScript(p, proc[p])
        BY DEF HoleInv
      <4>3. HoleScript(p, r)
        BY <4>1, <4>2 DEF HoleScript, At
      <4>4. QED
        BY <2>14, <4>1, <4>3, HoleStep DEF Check
    <3>3. QED
      BY <3>1, <3>2
  <2>15. ASSUME NEW p \in Scripts, Mark(p) \/ TickerFails(p) PROVE HoleInv'
    BY <2>15, HoleNextTicker DEF Mark, TickerFails, At
  <2>16. ASSUME NEW p \in Scripts, Ends(p) PROVE HoleInv'
    <3>1. PICK r \in ScriptState : Sets(p, r) /\ r.pc = "idle" /\ r.todo = {} /\ r.day = Null
      BY <2>16, EndsEffect
    <3>2. HoleScript(p, r)
      BY <3>1 DEF HoleScript
    <3>3. QED
      BY <2>16, <3>1, <3>2, HoleStep DEF Ends
  <2>17. CASE Midnight
    BY <2>17, HoleMidnight
  <2>18. CASE UNCHANGED vars
    BY <2>18 DEF vars, HoleInv, HoleScript
  <2>19. QED
    BY <2>1, <2>2, <2>3, <2>4, <2>5, <2>6, <2>7, <2>8, <2>9, <2>10, <2>11, <2>12, <2>13,
       <2>14, <2>15, <2>16, <2>17, <2>18 DEF Next
<1>3. QED
  BY <1>1, <1>2, ShapeInvariant, ClosedInvariant, PTL DEF Spec

\* Of a ticker outside LIQUID_UNIVERSE the stored days have no gap, whichever
\* scripts overlap, are killed or lose a feed, and wherever midnight falls.
THEOREM NoHoleInHistory == Spec => []HistoryHasNoHole
<1>1. ShapeInv /\ HoleInv => HistoryHasNoHole
  <2> SUFFICES ASSUME ShapeInv, HoleInv, NEW t \in Tickers \ liquid, rows[t] # {}
               PROVE  Days(rows[t]) = earliest_ts(rows[t])..latest_ts(rows[t])
    BY DEF HistoryHasNoHole
  <2> DEFINE D == Days(rows[t])
  <2> DEFINE lo == earliest_ts(rows[t])
  <2> DEFINE hi == latest_ts(rows[t])
  <2>1. /\ lo \in D /\ hi \in D /\ D \subseteq Int
        /\ \A d \in D : d <= hi
        /\ \A d \in D : lo <= d
    BY StoredDays
  <2>2. Convex(D)
    BY DEF HoleInv
  <2> HIDE DEF D, lo, hi
  <2>3. lo..hi \subseteq D
    BY <2>1, <2>2 DEF Convex
  <2>4. D \subseteq lo..hi
    BY <2>1
  <2>5. QED
    BY <2>3, <2>4 DEF D, lo, hi
<1>2. QED
  BY <1>1, ShapeInvariant, HoleInvariant, PTL
=============================================================================
