----------------------------- MODULE FeedProofs -----------------------------
(***************************************************************************)
(* Proofs about the two parts that deal with the exchange's feeds: the run *)
(* of CorporateActions, for every list MOEX may publish, every number of   *)
(* tickers and days; and TokenBucket, which throttles the requests, for    *)
(* every number of threads, every rate and every capacity.                 *)
(***************************************************************************)
EXTENDS CorporateActions, TokenBucket, FiniteSetTheorems, WellFoundedInduction, TLAPS

-----------------------------------------------------------------------------
(* The corporate actions run.  RunsInv, ValuesInv and FlatInv are inductive.  *)

\* The table's rows are those of one application of lists no older than day k.
AppliedSince(table, t, k) ==
    \E s, d \in k..MaxDay : table = Adjusted(t, DOMAIN table, Listed(t, s, d))

Days == -1..MaxDay

Fields == {"pc", "start", "todo", "cur", "cache", "splits", "dividends", "rows"}
Shape(r) == r = [f \in Fields |-> r[f]]

RunType(r) ==
    /\ Shape(r)
    /\ r.pc \in {"idle", "next", "apply", "write"} /\ r.start \in Days
    /\ r.todo \subseteq Tickers /\ r.cache \in [Tickers -> Days]
    /\ r.splits \in ListDays /\ r.dividends \in ListDays

\* The types, the values of the adjusted rows apart.
ShapeInv ==
    /\ today \in 0..MaxDay /\ raw \in [Tickers -> Days] /\ disk \in [Tickers -> Days]
    /\ adj = [t \in Tickers |-> adj[t]] /\ RunType(run) /\ bare \subseteq Tickers

\* A run fetches its lists on the day it starts or later, if they are not empty, and
\* what it is about to write covers every row of the table.
RunInv ==
    /\ run.pc = "idle" => run = Idle
    /\ run.pc # "idle" =>
          /\ 0 <= run.start /\ run.start <= today
          /\ run.splits >= 0 => run.start <= run.splits /\ run.splits <= today
          /\ run.dividends >= 0 => run.start <= run.dividends /\ run.dividends <= today
    /\ run.pc \in {"apply", "write"} => run.cur \in Tickers /\ run.splits # Null /\ run.dividends # Null
    /\ run.pc = "write" =>
          /\ run.rows = Adjusted(run.cur, DOMAIN run.rows, Listed(run.cur, run.splits, run.dividends))
          /\ Listed(run.cur, run.splits, run.dividends) # {}
          /\ DOMAIN adj[run.cur] \subseteq DOMAIN run.rows /\ DOMAIN run.rows \subseteq 0..raw[run.cur]

\* A table that has rows has them from one pair of lists, no newer than those the
\* run has fetched.
TableInv ==
    \A t \in Tickers :
       /\ adj[t] = [d \in DOMAIN adj[t] |-> adj[t][d]]
       /\ DOMAIN adj[t] \subseteq 0..raw[t]
       /\ raw[t] <= today
       /\ DOMAIN adj[t] # {} =>
            \E s, d \in ListDays :
               /\ s <= today /\ d <= today
               /\ adj[t] = Adjusted(t, DOMAIN adj[t], Listed(t, s, d))
               /\ Listed(t, s, d) # {}
               /\ run.splits >= 0 => s <= run.splits
               /\ run.dividends >= 0 => d <= run.dividends

\* No entry of either cache runs ahead of the table, unless the ticker was last
\* done with an empty list.
CacheInv ==
    \A t \in Tickers :
       /\ disk[t] <= today
       /\ t \notin bare /\ disk[t] # Null => AppliedSince(adj[t], t, disk[t])
       /\ run.pc # "idle" => disk[t] <= run.start /\ run.cache[t] <= run.start
       /\ run.pc # "idle" /\ t \notin bare /\ run.cache[t] # Null =>
             AppliedSince(adj[t], t, run.cache[t])

RunsInv == ShapeInv /\ RunInv /\ TableInv /\ CacheInv

LEMMA DaysFacts ==
    /\ MaxDay \in Nat /\ Null \in Days /\ 0..MaxDay \subseteq Days /\ Days \subseteq Int
    /\ Days \subseteq ListDays /\ NoTable \in ListDays /\ ListDays \subseteq Int
    /\ \A d \in ListDays : d >= 0 \/ d = Null \/ d = NoTable
    /\ Null = -1 /\ NoTable = -2
  BY CorporateActionsAssumption DEF Null, NoTable, Days, ListDays

\* A later list has every action of an earlier one.
LEMMA ListedGrows ==
    ASSUME NEW t, NEW s \in Int, NEW d \in Int, NEW s2 \in Int, NEW d2 \in Int, s <= s2, d <= d2
    PROVE  Listed(t, s, d) \subseteq Listed(t, s2, d2)
<1>1. \A e \in Published : e.ts \in Int
  BY CorporateActionsAssumption
<1>2. Visible(s) \subseteq Visible(s2) /\ Visible(d) \subseteq Visible(d2)
  BY <1>1 DEF Visible
<1>3. QED
  BY <1>2 DEF Listed, Parsed, Splits, Dividends

LEMMA AppliedSinceEarlier ==
    ASSUME NEW table, NEW t, NEW k \in Int, NEW l \in Int, k <= l, AppliedSince(table, t, l)
    PROVE  AppliedSince(table, t, k)
  BY DaysFacts DEF AppliedSince

LEMMA IdleType == RunType(Idle)
<1>1. NoEntries \in [Tickers -> Days]
  BY DaysFacts DEF NoEntries
<1>2. /\ Idle.pc = "idle" /\ Idle.start = Null /\ Idle.todo = {}
      /\ Idle.cur = "-" /\ Idle.cache = NoEntries /\ Idle.splits = Null
      /\ Idle.dividends = Null /\ Idle.rows = <<>>
  BY DEF Idle
<1>3. Shape(Idle)
  BY DEF Shape, Fields, Idle
<1>4. QED
  BY <1>1, <1>2, <1>3, DaysFacts DEF RunType

LEMMA RunsInit == Init => RunsInv
<1> SUFFICES ASSUME Init PROVE RunsInv
  OBVIOUS
<1>1. /\ today = 0 /\ raw = [t \in Tickers |-> Null] /\ adj = [t \in Tickers |-> <<>>]
      /\ disk = [t \in Tickers |-> Null] /\ run = Idle /\ bare = {}
  BY DEF Init, NoEntries
<1>2. run.pc = "idle"
  BY <1>1 DEF Idle
<1>3. ShapeInv
  BY <1>1, DaysFacts, IdleType DEF ShapeInv
<1>4. RunInv
  BY <1>1, <1>2 DEF RunInv
<1>5. TableInv
  BY <1>1, DaysFacts DEF TableInv, Null
<1>6. CacheInv
  BY <1>1, <1>2 DEF CacheInv, Null
<1>7. QED
  BY <1>3, <1>4, <1>5, <1>6 DEF RunsInv

\* The fields of a run after a ticker is done with, and after it failed.
LEMMA DoneFields ==
    ASSUME RunType(run), NEW t \in Tickers
    PROVE  LET r == Done(run, t)
           IN  /\ RunType(r) /\ r.pc = "next" /\ r.start = run.start
               /\ r.cache = [run.cache EXCEPT ![t] = run.start]
               /\ r.splits = run.splits /\ r.dividends = run.dividends
<1> DEFINE r == Done(run, t)
<1>1. /\ r.pc = "next" /\ r.start = run.start /\ r.todo = run.todo
      /\ r.cur = "-" /\ r.cache = [run.cache EXCEPT ![t] = run.start]
      /\ r.splits = run.splits /\ r.dividends = run.dividends /\ r.rows = <<>>
  BY DEF RunType, Shape, Fields, Done
<1>2. Shape(r)
  BY DEF RunType, Shape, Fields, Done
<1> HIDE DEF r
<1>3. r.cache \in [Tickers -> Days]
  BY <1>1 DEF RunType
<1>4. QED
  BY <1>1, <1>2, <1>3 DEF RunType, r

LEMMA FailedFields ==
    ASSUME RunType(run)
    PROVE  LET r == Failed(run)
           IN  /\ RunType(r) /\ r.pc = "next" /\ r.start = run.start /\ r.cache = run.cache
               /\ r.splits = run.splits /\ r.dividends = run.dividends
<1> DEFINE r == Failed(run)
<1>1. /\ r.pc = "next" /\ r.start = run.start /\ r.todo = run.todo
      /\ r.cur = "-" /\ r.cache = run.cache
      /\ r.splits = run.splits /\ r.dividends = run.dividends /\ r.rows = <<>>
  BY DEF RunType, Shape, Fields, Failed
<1>2. Shape(r)
  BY DEF RunType, Shape, Fields, Failed
<1> HIDE DEF r
<1>3. QED
  BY <1>1, <1>2 DEF RunType, r

\* Steps that leave the bars and the adjusted rows alone.
LEMMA KeepTable ==
    ASSUME RunsInv, raw' = raw, adj' = adj, today' = today,
           run'.splits \in {Null, NoTable, run.splits} \/ (run.splits = Null /\ run'.splits = today),
           run'.dividends \in {Null, NoTable, run.dividends} \/ (run.dividends = Null /\ run'.dividends = today)
    PROVE  TableInv'
<1> SUFFICES ASSUME NEW t \in Tickers, DOMAIN adj[t] # {}
             PROVE  \E s, d \in ListDays :
                       /\ s <= today /\ d <= today
                       /\ adj[t] = Adjusted(t, DOMAIN adj[t], Listed(t, s, d))
                       /\ Listed(t, s, d) # {}
                       /\ run'.splits >= 0 => s <= run'.splits
                       /\ run'.dividends >= 0 => d <= run'.dividends
  BY DEF TableInv, RunsInv
<1>1. PICK s \in ListDays, d \in ListDays :
         /\ s <= today /\ d <= today
         /\ adj[t] = Adjusted(t, DOMAIN adj[t], Listed(t, s, d))
         /\ Listed(t, s, d) # {}
         /\ run.splits >= 0 => s <= run.splits
         /\ run.dividends >= 0 => d <= run.dividends
  BY DEF RunsInv, TableInv
<1>2. run'.splits >= 0 => s <= run'.splits
  BY <1>1, DaysFacts
<1>3. run'.dividends >= 0 => d <= run'.dividends
  BY <1>1, DaysFacts
<1>4. QED
  BY <1>1, <1>2, <1>3

LEMMA StartStep ==
    ASSUME RunsInv, NEW listed \in SUBSET Tickers, NEW force \in BOOLEAN, Start(listed, force)
    PROVE  RunsInv'
<1>1. /\ run' = [Idle EXCEPT !.pc = "next", !.start = today, !.todo = listed,
                             !.cache = IF force THEN NoEntries ELSE disk]
      /\ UNCHANGED <<today, raw, adj, disk, bare>>
  BY DEF Start
<1>2. /\ run'.pc = "next" /\ run'.start = today /\ run'.todo = listed
      /\ run'.cache = (IF force THEN NoEntries ELSE disk)
      /\ run'.splits = Null /\ run'.dividends = Null
  BY <1>1 DEF Idle
<1>3. Shape(run')
  BY <1>1 DEF Idle, Shape, Fields
<1>4. /\ today \in 0..MaxDay /\ disk \in [Tickers -> Days] /\ NoEntries \in [Tickers -> Days]
      /\ today \in Days /\ today \in Nat
  BY DaysFacts DEF RunsInv, ShapeInv, NoEntries
<1>5. ShapeInv'
  <2>1. RunType(run)'
    BY <1>2, <1>3, <1>4, DaysFacts DEF RunType
  <2>2. QED
    BY <1>1, <2>1 DEF RunsInv, ShapeInv
<1>6. RunInv'
  BY <1>2, <1>1, <1>4, DaysFacts DEF RunInv
<1>7. TableInv'
  <2>1. /\ raw' = raw /\ adj' = adj /\ today' = today
        /\ run'.splits \in {Null, NoTable, run.splits} \/ (run.splits = Null /\ run'.splits = today)
        /\ run'.dividends \in {Null, NoTable, run.dividends} \/ (run.dividends = Null /\ run'.dividends = today)
    BY <1>1, <1>2
  <2>2. QED
    BY <2>1, KeepTable
<1>8. CacheInv'
  <2> SUFFICES ASSUME NEW t \in Tickers
               PROVE  /\ disk[t] <= today
                      /\ t \notin bare /\ disk[t] # Null => AppliedSince(adj[t], t, disk[t])
                      /\ run'.cache[t] <= today
                      /\ t \notin bare /\ run'.cache[t] # Null => AppliedSince(adj[t], t, run'.cache[t])
    BY <1>1, <1>2 DEF CacheInv
  <2>1. disk[t] <= today /\ (t \notin bare /\ disk[t] # Null => AppliedSince(adj[t], t, disk[t]))
    BY DEF RunsInv, CacheInv
  <2>2. run'.cache[t] \in {Null, disk[t]}
    BY <1>2 DEF NoEntries
  <2>3. Null <= today
    BY <1>4 DEF Null
  <2>4. QED
    BY <2>1, <2>2, <2>3
<1>9. QED
  BY <1>5, <1>6, <1>7, <1>8 DEF RunsInv

LEMMA SkipStep ==
    ASSUME RunsInv, NEW t \in Tickers, SkipFresh(t)
    PROVE  RunsInv'
<1>1. /\ run.pc = "next" /\ run' = [run EXCEPT !.todo = @ \ {t}]
      /\ UNCHANGED <<today, raw, adj, disk, bare>> /\ RunType(run)
  BY DEF SkipFresh, RunsInv, ShapeInv
<1>2. /\ run'.pc = "next" /\ run'.start = run.start
      /\ run'.todo = run.todo \ {t} /\ run'.cache = run.cache
      /\ run'.splits = run.splits /\ run'.dividends = run.dividends
  BY <1>1 DEF RunType, Shape, Fields
<1>3. Shape(run')
  BY <1>1 DEF RunType, Shape, Fields
<1>4. ShapeInv'
  <2>1. RunType(run)'
    BY <1>1, <1>2, <1>3 DEF RunType
  <2>2. QED
    BY <1>1, <2>1 DEF RunsInv, ShapeInv
<1>5. RunInv'
  BY <1>1, <1>2 DEF RunsInv, RunInv
<1>6. TableInv'
  <2>1. /\ raw' = raw /\ adj' = adj /\ today' = today
        /\ run'.splits \in {Null, NoTable, run.splits} \/ (run.splits = Null /\ run'.splits = today)
        /\ run'.dividends \in {Null, NoTable, run.dividends} \/ (run.dividends = Null /\ run'.dividends = today)
    BY <1>1, <1>2
  <2>2. QED
    BY <2>1, KeepTable
<1>7. CacheInv'
  BY <1>1, <1>2 DEF RunsInv, CacheInv
<1>8. QED
  BY <1>4, <1>5, <1>6, <1>7 DEF RunsInv

LEMMA FetchStep ==
    ASSUME RunsInv, NEW t \in Tickers, NEW s \in Answers, NEW d \in Answers, Fetch(t, s, d)
    PROVE  RunsInv'
<1> DEFINE sp == Fetched(run.splits, s)
           dv == IF sp = Null THEN run.dividends ELSE Fetched(run.dividends, d)
           next == [run EXCEPT !.todo = @ \ {t}, !.splits = sp, !.dividends = dv]
<1>1. /\ run.pc = "next" /\ UNCHANGED <<today, raw, adj, disk, bare>> /\ RunType(run)
      /\ run' = IF Null \in {sp, dv} THEN next ELSE [next EXCEPT !.pc = "apply", !.cur = t]
  BY DEF Fetch, RunsInv, ShapeInv
<1>2. /\ sp \in {run.splits, today, NoTable} /\ (sp # run.splits => run.splits = Null)
      /\ dv \in {run.dividends, today, NoTable} /\ (dv # run.dividends => run.dividends = Null)
  BY DEF Fetched
<1> HIDE DEF sp, dv
<1>3. /\ run'.start = run.start  /\ run'.todo = run.todo \ {t}
      /\ run'.cache = run.cache /\ run'.splits = sp /\ run'.dividends = dv
      /\ \/ run'.pc = "next"
         \/ run'.pc = "apply" /\ run'.cur = t /\ sp # Null /\ dv # Null
  BY <1>1 DEF RunType, Shape, Fields
<1>4. Shape(run')
  BY <1>1 DEF RunType, Shape, Fields
<1>5. today \in 0..MaxDay /\ today \in Days /\ today \in ListDays /\ today \in Nat
  BY DaysFacts DEF RunsInv, ShapeInv
<1>6. ShapeInv'
  <2>1. RunType(run)'
    BY <1>1, <1>2, <1>3, <1>4, <1>5, DaysFacts DEF RunType
  <2>2. QED
    BY <1>1, <2>1 DEF RunsInv, ShapeInv
<1>7. RunInv'
  <2>1. /\ 0 <= run.start /\ run.start <= today
        /\ sp >= 0 => run.start <= sp /\ sp <= today
        /\ dv >= 0 => run.start <= dv /\ dv <= today
    BY <1>1, <1>2, <1>5, DaysFacts DEF RunsInv, RunInv
  <2>2. QED
    BY <1>1, <1>3, <2>1 DEF RunInv
<1>8. TableInv'
  <2>1. /\ raw' = raw /\ adj' = adj /\ today' = today
        /\ run'.splits \in {Null, NoTable, run.splits} \/ (run.splits = Null /\ run'.splits = today)
        /\ run'.dividends \in {Null, NoTable, run.dividends} \/ (run.dividends = Null /\ run'.dividends = today)
    BY <1>1, <1>2, <1>3
  <2>2. QED
    BY <2>1, KeepTable
<1>9. CacheInv'
  BY <1>1, <1>3 DEF RunsInv, CacheInv
<1>10. QED
  BY <1>6, <1>7, <1>8, <1>9 DEF RunsInv

\* A ticker whose run ends without a write because nothing is on whole lists, or
\* nothing stored, has no rows at all.
LEMMA NothingStored ==
    ASSUME RunsInv, run.pc = "apply", NoTable \notin {run.splits, run.dividends},
           Listed(run.cur, run.splits, run.dividends) = {} \/ raw[run.cur] = Null
    PROVE  DOMAIN adj[run.cur] = {}
<1> DEFINE t == run.cur
<1>1. t \in Tickers /\ run.splits >= 0 /\ run.dividends >= 0
  BY DaysFacts DEF RunsInv, RunInv, ShapeInv, RunType
<1>2. run.splits \in Int /\ run.dividends \in Int
  BY DaysFacts DEF RunsInv, ShapeInv, RunType
<1>3. CASE raw[t] = Null
  <2>1. DOMAIN adj[t] \subseteq 0..raw[t]
    BY <1>1 DEF RunsInv, TableInv
  <2>2. QED
    BY <1>3, <2>1 DEF Null
<1>4. CASE Listed(t, run.splits, run.dividends) = {}
  <2> SUFFICES ASSUME DOMAIN adj[t] # {} PROVE FALSE
    OBVIOUS
  <2>1. PICK s \in ListDays, d \in ListDays :
           Listed(t, s, d) # {} /\ s <= run.splits /\ d <= run.dividends
    BY <1>1 DEF RunsInv, TableInv
  <2>2. s \in Int /\ d \in Int
    BY DaysFacts
  <2>3. Listed(t, s, d) \subseteq Listed(t, run.splits, run.dividends)
    BY <1>2, <2>1, <2>2, ListedGrows
  <2>4. QED
    BY <1>4, <2>1, <2>3
<1>5. QED
  BY <1>3, <1>4

LEMMA NothingApplied ==
    ASSUME RunsInv, run.pc = "apply", NoTable \notin {run.splits, run.dividends},
           Listed(run.cur, run.splits, run.dividends) = {} \/ raw[run.cur] = Null
    PROVE  AppliedSince(adj[run.cur], run.cur, run.start)
<1> DEFINE t == run.cur
<1>1. /\ t \in Tickers /\ run.start <= run.splits /\ run.splits <= today
      /\ run.start <= run.dividends /\ run.dividends <= today
  BY DaysFacts DEF RunsInv, RunInv, ShapeInv, RunType
<1>2. /\ run.splits \in Int /\ run.dividends \in Int /\ run.start \in Int
      /\ today \in 0..MaxDay /\ MaxDay \in Nat
  BY DaysFacts DEF RunsInv, ShapeInv, RunType
<1>3. DOMAIN adj[t] = {}
  BY NothingStored
<1>4. adj[t] = [e \in DOMAIN adj[t] |-> adj[t][e]]
  BY <1>1 DEF RunsInv, TableInv
<1>5. adj[t] = Adjusted(t, DOMAIN adj[t], Listed(t, run.splits, run.dividends))
  BY <1>3, <1>4 DEF Adjusted
<1>6. run.splits \in run.start..MaxDay /\ run.dividends \in run.start..MaxDay
  BY <1>1, <1>2
<1>7. QED
  BY <1>5, <1>6 DEF AppliedSince

\* A ticker that is done keeps the invariant once its rows are from the run's lists,
\* when these are whole.
LEMMA DoneStep ==
    ASSUME RunsInv, run.pc \in {"apply", "write"}, run' = Done(run, run.cur),
           today' = today, raw' = raw, disk' = disk, adj' = [t \in Tickers |-> adj'[t]], TableInv',
           \A t \in Tickers : t # run.cur => adj'[t] = adj[t],
           bare' = Served(run.cur),
           NoTable \notin {run.splits, run.dividends} => AppliedSince(adj'[run.cur], run.cur, run.start)
    PROVE  RunsInv'
<1>1. /\ run.cur \in Tickers /\ RunType(run)
  BY DEF RunsInv, RunInv, ShapeInv
<1>2. /\ RunType(run') /\ run'.pc = "next" /\ run'.start = run.start
      /\ run'.cache = [run.cache EXCEPT ![run.cur] = run.start]
      /\ run'.splits = run.splits /\ run'.dividends = run.dividends
  BY <1>1, DoneFields
<1>3. ShapeInv'
  BY <1>1, <1>2 DEF Served, RunsInv, ShapeInv
<1>4. RunInv'
  BY <1>2 DEF RunsInv, RunInv
<1>5. CacheInv'
  <2> SUFFICES ASSUME NEW t \in Tickers
               PROVE  /\ disk[t] <= today
                      /\ t \notin bare' /\ disk[t] # Null => AppliedSince(adj'[t], t, disk[t])
                      /\ disk[t] <= run.start /\ run'.cache[t] <= run.start
                      /\ t \notin bare' /\ run'.cache[t] # Null => AppliedSince(adj'[t], t, run'.cache[t])
    BY <1>2 DEF CacheInv
  <2>1. /\ disk[t] <= today /\ disk[t] <= run.start /\ run.cache[t] <= run.start
        /\ t \notin bare /\ disk[t] # Null => AppliedSince(adj[t], t, disk[t])
        /\ t \notin bare /\ run.cache[t] # Null => AppliedSince(adj[t], t, run.cache[t])
    BY DEF RunsInv, CacheInv
  <2>2. disk[t] \in Int /\ run.start \in Int
    BY DaysFacts DEF RunsInv, ShapeInv, RunType
  <2>3. CASE t = run.cur
    <3>1. run'.cache[t] = run.start
      BY <1>1, <1>2, <2>3 DEF RunType
    <3>2. ASSUME t \notin bare' PROVE AppliedSince(adj'[t], t, run.start)
      BY <2>3, <3>2 DEF Served
    <3>3. ASSUME t \notin bare' PROVE AppliedSince(adj'[t], t, disk[t])
      BY <2>1, <2>2, <3>2, <3>3, AppliedSinceEarlier
    <3>4. QED
      BY <2>1, <2>2, <3>1, <3>2, <3>3
  <2>4. CASE t # run.cur
    <3>1. run'.cache[t] = run.cache[t] /\ adj'[t] = adj[t] /\ (t \in bare' <=> t \in bare)
      BY <1>1, <1>2, <2>4 DEF RunType, Served
    <3>2. QED
      BY <2>1, <3>1
  <2>5. QED
    BY <2>3, <2>4
<1>6. QED
  BY <1>3, <1>4, <1>5 DEF RunsInv

LEMMA FailedStep ==
    ASSUME RunsInv, run.pc \in {"apply", "write"}, run' = Failed(run),
           today' = today, raw' = raw, adj' = adj, disk' = disk, bare' = bare
    PROVE  RunsInv'
<1>1. RunType(run)
  BY DEF RunsInv, ShapeInv
<1>2. /\ RunType(run') /\ run'.pc = "next" /\ run'.start = run.start /\ run'.cache = run.cache
      /\ run'.splits = run.splits /\ run'.dividends = run.dividends
  BY <1>1, FailedFields
<1>3. ShapeInv'
  BY <1>2 DEF RunsInv, ShapeInv
<1>4. RunInv'
  BY <1>2 DEF RunsInv, RunInv
<1>5. TableInv'
  <2>1. /\ raw' = raw /\ adj' = adj /\ today' = today
        /\ run'.splits \in {Null, NoTable, run.splits} \/ (run.splits = Null /\ run'.splits = today)
        /\ run'.dividends \in {Null, NoTable, run.dividends} \/ (run.dividends = Null /\ run'.dividends = today)
    BY <1>2
  <2>2. QED
    BY <2>1, KeepTable
<1>6. CacheInv'
  BY <1>2 DEF RunsInv, CacheInv
<1>7. QED
  BY <1>3, <1>4, <1>5, <1>6 DEF RunsInv

LEMMA AdjustStep ==
    ASSUME RunsInv, Adjust
    PROVE  RunsInv'
<1> DEFINE t == run.cur
           rows == Adjusted(t, 0..raw[t], Actions(t))
<1>1. /\ run.pc = "apply" /\ RunType(run) /\ t \in Tickers
      /\ today' = today /\ raw' = raw /\ adj' = adj /\ disk' = disk
      /\ IF Actions(t) = {} \/ raw[t] = Null
         THEN run' = Done(run, t) /\ bare' = Served(t)
         ELSE /\ run' = IF \E d \in DOMAIN rows : rows[d] < 0 THEN Failed(run)
                        ELSE [run EXCEPT !.pc = "write", !.rows = rows]
              /\ UNCHANGED bare
  BY DEF Adjust, RunsInv, ShapeInv, RunInv
<1>2. Actions(t) = Listed(t, run.splits, run.dividends)
  BY DEF Actions
<1>3. CASE Actions(t) = {} \/ raw[t] = Null
  <2>1. run' = Done(run, run.cur) /\ bare' = Served(run.cur)
    BY <1>1, <1>3
  <2>2. NoTable \notin {run.splits, run.dividends} => AppliedSince(adj[t], t, run.start)
    BY <1>1, <1>2, <1>3, NothingApplied
  <2>3. TableInv'
    <3>1. run'.splits = run.splits /\ run'.dividends = run.dividends
      BY <1>1, <2>1, DoneFields
    <3>2. /\ raw' = raw /\ adj' = adj /\ today' = today
          /\ run'.splits \in {Null, NoTable, run.splits} \/ (run.splits = Null /\ run'.splits = today)
          /\ run'.dividends \in {Null, NoTable, run.dividends} \/ (run.dividends = Null /\ run'.dividends = today)
      BY <1>1, <3>1
    <3>3. QED
      BY <3>2, KeepTable
  <2>4. adj' = [x \in Tickers |-> adj'[x]]
    BY <1>1 DEF RunsInv, ShapeInv
  <2>5. QED
    BY <1>1, <2>1, <2>2, <2>3, <2>4, DoneStep
<1>4. CASE /\ ~(Actions(t) = {} \/ raw[t] = Null)
           /\ \E d \in DOMAIN rows : rows[d] < 0
  <2>1. run' = Failed(run) /\ run.pc \in {"apply", "write"} /\ bare' = bare
    BY <1>1, <1>4
  <2>2. QED
    BY <1>1, <2>1, FailedStep
<1>5. CASE /\ ~(Actions(t) = {} \/ raw[t] = Null)
           /\ ~(\E d \in DOMAIN rows : rows[d] < 0)
  <2>1. run' = [run EXCEPT !.pc = "write", !.rows = rows] /\ bare' = bare
    BY <1>1, <1>5
  <2> HIDE DEF rows
  <2>2. /\ run'.pc = "write" /\ run'.start = run.start
        /\ run'.todo = run.todo /\ run'.cur = t /\ run'.cache = run.cache
        /\ run'.splits = run.splits /\ run'.dividends = run.dividends /\ run'.rows = rows
    BY <1>1, <2>1 DEF RunType, Shape, Fields
  <2>3. Shape(run')
    BY <1>1, <2>1 DEF RunType, Shape, Fields
  <2>4. ShapeInv'
    <3>1. RunType(run')
      BY <1>1, <2>2, <2>3 DEF RunType
    <3>2. QED
      BY <1>1, <2>1, <3>1 DEF RunsInv, ShapeInv
  <2>5. RunInv'
    <3>1. DOMAIN rows = 0..raw[t]
      BY DEF rows, Adjusted
    <3>2. rows = Adjusted(t, DOMAIN rows, Listed(t, run.splits, run.dividends))
      BY <1>2, <3>1 DEF rows
    <3>3. DOMAIN adj[t] \subseteq 0..raw[t]
      BY <1>1 DEF RunsInv, TableInv
    <3>4. Listed(t, run.splits, run.dividends) # {}
      BY <1>2, <1>5
    <3>5. /\ 0 <= run.start /\ run.start <= today
          /\ run.splits >= 0 => run.start <= run.splits /\ run.splits <= today
          /\ run.dividends >= 0 => run.start <= run.dividends /\ run.dividends <= today
          /\ run.splits # Null /\ run.dividends # Null
      BY <1>1 DEF RunsInv, RunInv
    <3> HIDE DEF t
    <3>6. /\ run'.rows = Adjusted(run'.cur, DOMAIN run'.rows, Listed(run'.cur, run'.splits, run'.dividends))
          /\ Listed(run'.cur, run'.splits, run'.dividends) # {}
          /\ DOMAIN adj'[run'.cur] \subseteq DOMAIN run'.rows
          /\ DOMAIN run'.rows \subseteq 0..raw'[run'.cur]
      BY <1>1, <2>2, <3>1, <3>2, <3>3, <3>4
    <3>7. QED
      BY <1>1, <2>2, <3>5, <3>6 DEF RunInv
  <2>6. TableInv'
    <3>1. /\ raw' = raw /\ adj' = adj /\ today' = today
          /\ run'.splits \in {Null, NoTable, run.splits} \/ (run.splits = Null /\ run'.splits = today)
          /\ run'.dividends \in {Null, NoTable, run.dividends} \/ (run.dividends = Null /\ run'.dividends = today)
      BY <1>1, <2>2
    <3>2. QED
      BY <3>1, KeepTable
  <2>7. CacheInv'
    BY <1>1, <2>1, <2>2 DEF RunsInv, CacheInv
  <2>8. QED
    BY <2>4, <2>5, <2>6, <2>7 DEF RunsInv
<1>6. QED
  BY <1>3, <1>4, <1>5

LEMMA WriteStep ==
    ASSUME RunsInv, Write
    PROVE  RunsInv'
<1> DEFINE t == run.cur
           new == upsert_ohlcv_adj(adj[t], run.rows)
<1>1. /\ run.pc = "write" /\ RunType(run) /\ t \in Tickers
      /\ today' = today /\ raw' = raw /\ disk' = disk
      /\ run' = Done(run, t) /\ bare' = Served(t)
      /\ adj' = [adj EXCEPT ![t] = new]
  BY DEF Write, RunsInv, ShapeInv, RunInv
<1>2. /\ run.rows = Adjusted(t, DOMAIN run.rows, Listed(t, run.splits, run.dividends))
      /\ Listed(t, run.splits, run.dividends) # {} /\ DOMAIN adj[t] \subseteq DOMAIN run.rows
      /\ DOMAIN run.rows \subseteq 0..raw[t]
      /\ run.splits # Null /\ run.dividends # Null /\ 0 <= run.start
      /\ run.splits >= 0 => run.start <= run.splits /\ run.splits <= today
      /\ run.dividends >= 0 => run.start <= run.dividends /\ run.dividends <= today
  BY <1>1 DEF RunsInv, RunInv
<1>3. run.rows = [d \in DOMAIN run.rows |-> run.rows[d]]
  <2> DEFINE D == DOMAIN run.rows
  <2>1. run.rows = Adjusted(t, D, Listed(t, run.splits, run.dividends))
    BY <1>2
  <2> HIDE DEF D
  <2>2. run.rows = [d \in D |-> run.rows[d]]
    BY <2>1 DEF Adjusted
  <2>3. QED
    BY <2>2
\* The upsert replaces every row there is.
<1>4. new = run.rows
  <2>1. new = [x \in (DOMAIN run.rows) \cup (DOMAIN adj[t]) |->
                  IF x \in DOMAIN run.rows THEN run.rows[x] ELSE adj[t][x]]
    BY DEF upsert_ohlcv_adj
  <2>2. (DOMAIN run.rows) \cup (DOMAIN adj[t]) = DOMAIN run.rows
    BY <1>2
  <2>3. QED
    BY <1>3, <2>1, <2>2
<1> HIDE DEF new
<1>5. /\ adj' = [x \in Tickers |-> adj'[x]] /\ adj'[t] = run.rows
      /\ \A x \in Tickers : x # t => adj'[x] = adj[x]
  BY <1>1, <1>4 DEF RunsInv, ShapeInv
<1>6. /\ run.splits \in Int /\ run.dividends \in Int /\ run.start \in Int
      /\ run.splits \in ListDays /\ run.dividends \in ListDays
      /\ run.splits >= 0 \/ run.splits = NoTable
      /\ run.dividends >= 0 \/ run.dividends = NoTable
      /\ today \in 0..MaxDay /\ MaxDay \in Nat /\ NoTable = -2
  BY <1>2, DaysFacts DEF RunsInv, ShapeInv, RunType
<1>7. ASSUME NoTable \notin {run.splits, run.dividends}
      PROVE  AppliedSince(adj'[t], t, run.start)
  <2>1. run.splits \in run.start..MaxDay /\ run.dividends \in run.start..MaxDay
    BY <1>2, <1>6, <1>7
  <2>2. QED
    BY <1>2, <1>5, <2>1 DEF AppliedSince
<1>8. TableInv'
  <2>1. run'.splits = run.splits /\ run'.dividends = run.dividends
    BY <1>1, DoneFields
  <2> SUFFICES ASSUME NEW x \in Tickers
               PROVE  /\ adj'[x] = [d \in DOMAIN adj'[x] |-> adj'[x][d]]
                      /\ DOMAIN adj'[x] \subseteq 0..raw[x]
                      /\ raw[x] <= today
                      /\ DOMAIN adj'[x] # {} =>
                            \E s, d \in ListDays :
                               /\ s <= today /\ d <= today
                               /\ adj'[x] = Adjusted(x, DOMAIN adj'[x], Listed(x, s, d))
                               /\ Listed(x, s, d) # {}
                               /\ run.splits >= 0 => s <= run.splits
                               /\ run.dividends >= 0 => d <= run.dividends
    BY <1>1, <2>1 DEF TableInv
  <2>2. CASE x = t
    <3>1. run.splits <= today /\ run.dividends <= today
      BY <1>2, <1>6
    <3>2. run.splits <= run.splits /\ run.dividends <= run.dividends
      BY <1>6
    <3>3. adj'[x] = run.rows
      BY <1>5, <2>2
    <3>4. \E s, d \in ListDays :
             /\ s <= today /\ d <= today
             /\ adj'[x] = Adjusted(x, DOMAIN adj'[x], Listed(x, s, d))
             /\ Listed(x, s, d) # {}
             /\ run.splits >= 0 => s <= run.splits
             /\ run.dividends >= 0 => d <= run.dividends
      BY <1>2, <1>6, <2>2, <3>1, <3>2, <3>3
    <3>5. raw[x] <= today
      BY DEF RunsInv, TableInv
    <3>6. DOMAIN adj'[x] \subseteq 0..raw[x]
      BY <1>2, <2>2, <3>3
    <3>7. adj'[x] = [d \in DOMAIN adj'[x] |-> adj'[x][d]]
      BY <1>3, <3>3
    <3>8. QED
      BY <3>4, <3>5, <3>6, <3>7
  <2>3. CASE x # t
    <3>1. adj'[x] = adj[x]
      BY <1>5, <2>3
    <3>2. /\ adj[x] = [d \in DOMAIN adj[x] |-> adj[x][d]]
          /\ DOMAIN adj[x] \subseteq 0..raw[x]
          /\ raw[x] <= today
      BY DEF RunsInv, TableInv
    <3>3. DOMAIN adj[x] # {} =>
             \E s, d \in ListDays :
                /\ s <= today /\ d <= today
                /\ adj[x] = Adjusted(x, DOMAIN adj[x], Listed(x, s, d))
                /\ Listed(x, s, d) # {}
                /\ run.splits >= 0 => s <= run.splits
                /\ run.dividends >= 0 => d <= run.dividends
      BY DEF RunsInv, TableInv
    <3>4. QED
      BY <3>1, <3>2, <3>3
  <2>4. QED
    BY <2>2, <2>3
<1>9. QED
  BY <1>1, <1>5, <1>7, <1>8, DoneStep

\* The end of a run, whether it writes its cache or not.
LEMMA EndStep ==
    ASSUME RunsInv, run' = Idle, today' = today, raw' = raw, adj' = adj, bare' = bare,
           \/ disk' = disk
           \/ disk' = run.cache /\ run.pc # "idle"
    PROVE  RunsInv'
<1>1. /\ RunType(run') /\ run'.pc = "idle" /\ run'.splits = Null /\ run'.dividends = Null
  BY IdleType DEF Idle
<1>2. ShapeInv'
  BY <1>1 DEF RunsInv, ShapeInv, RunType
<1>3. RunInv'
  BY <1>1 DEF RunInv
<1>4. TableInv'
  BY <1>1, KeepTable
<1>5. CacheInv'
  <2> SUFFICES ASSUME NEW t \in Tickers
               PROVE  disk'[t] <= today /\ (t \notin bare /\ disk'[t] # Null => AppliedSince(adj[t], t, disk'[t]))
    BY <1>1 DEF CacheInv
  <2>1. CASE disk' = disk
    BY <2>1 DEF RunsInv, CacheInv
  <2>2. CASE disk' = run.cache /\ run.pc # "idle"
    <3>1. /\ run.cache[t] <= run.start /\ run.start <= today
          /\ t \notin bare /\ run.cache[t] # Null => AppliedSince(adj[t], t, run.cache[t])
      BY <2>2 DEF RunsInv, CacheInv, RunInv
    <3>2. run.cache[t] \in Int /\ run.start \in Int /\ today \in Int
      BY DaysFacts DEF RunsInv, ShapeInv, RunType
    <3>3. QED
      BY <2>2, <3>1, <3>2
  <2>3. QED
    BY <2>1, <2>2
<1>6. QED
  BY <1>2, <1>3, <1>4, <1>5 DEF RunsInv

LEMMA CacheLostStep ==
    ASSUME RunsInv, CacheLost
    PROVE  RunsInv'
<1>1. /\ disk' = [t \in Tickers |-> Null] /\ today' = today /\ raw' = raw /\ adj' = adj
      /\ run' = run /\ bare' = bare
  BY DEF CacheLost, NoEntries
<1>2. ShapeInv'
  BY <1>1, DaysFacts DEF RunsInv, ShapeInv
<1>3. RunInv'
  BY <1>1 DEF RunsInv, RunInv
<1>4. TableInv'
  BY <1>1, KeepTable
<1>5. CacheInv'
  <2>1. today \in Nat /\ (run.pc # "idle" => Null <= run.start) /\ Null <= today
    BY DaysFacts DEF RunsInv, ShapeInv, RunType, RunInv, Null, Days
  <2>2. QED
    BY <1>1, <2>1 DEF RunsInv, CacheInv
<1>6. QED
  BY <1>2, <1>3, <1>4, <1>5 DEF RunsInv

LEMMA RawStoredStep ==
    ASSUME RunsInv, NEW t \in Tickers, RawStored(t)
    PROVE  RunsInv'
<1>1. /\ raw' = [raw EXCEPT ![t] = today] /\ raw[t] < today
      /\ today' = today /\ adj' = adj /\ disk' = disk /\ run' = run /\ bare' = bare
  BY DEF RawStored
<1>2. /\ raw \in [Tickers -> Days] /\ today \in Days /\ Days \subseteq Int
  BY DaysFacts DEF RunsInv, ShapeInv
<1>3. \A x \in Tickers : /\ raw'[x] \in Int /\ raw[x] \in Int /\ raw[x] <= raw'[x]
                         /\ raw[x] <= today => raw'[x] <= today
  <2>1. \A x \in Tickers : raw'[x] = IF x = t THEN today ELSE raw[x]
    BY <1>1, <1>2
  <2>2. today \in Int /\ \A x \in Tickers : raw[x] \in Int
    BY <1>2
  <2>3. QED
    BY <1>1, <2>1, <2>2
<1>4. \A x \in Tickers : 0..raw[x] \subseteq 0..raw'[x]
  BY <1>3
<1>5. ShapeInv'
  BY <1>1, <1>2 DEF RunsInv, ShapeInv
<1>6. RunInv'
  <2>1. run.pc = "write" => run.cur \in Tickers /\ 0..raw[run.cur] \subseteq 0..raw'[run.cur]
    BY <1>4 DEF RunsInv, RunInv
  <2>2. QED
    BY <1>1, <2>1 DEF RunsInv, RunInv
<1>7. TableInv'
  BY <1>1, <1>3, <1>4 DEF RunsInv, TableInv
<1>8. CacheInv'
  BY <1>1 DEF RunsInv, CacheInv
<1>9. QED
  BY <1>5, <1>6, <1>7, <1>8 DEF RunsInv

LEMMA MidnightStep ==
    ASSUME RunsInv, Midnight
    PROVE  RunsInv'
<1>1. /\ today' = today + 1 /\ today < LastDay /\ LastDay \in 0..MaxDay
      /\ raw' = raw /\ adj' = adj /\ disk' = disk /\ run' = run /\ bare' = bare
  BY CorporateActionsAssumption DEF Midnight
<1>2. today \in 0..MaxDay /\ MaxDay \in Nat /\ RunType(run) /\ Days \subseteq Int
  BY DaysFacts DEF RunsInv, ShapeInv
<1>3. \A k \in Int : k <= today => k <= today'
  BY <1>1, <1>2
<1>4. /\ run.start \in Int /\ run.splits \in Int /\ run.dividends \in Int
      /\ \A t \in Tickers : raw[t] \in Int /\ disk[t] \in Int
  BY <1>2, DaysFacts DEF RunsInv, ShapeInv, RunType
<1>5. ShapeInv'
  BY <1>1, <1>2 DEF RunsInv, ShapeInv
<1>6. RunInv'
  BY <1>1, <1>3, <1>4 DEF RunsInv, RunInv
<1>7. TableInv'
  <2>1. \A s \in ListDays : s <= today => s <= today'
    BY <1>3, DaysFacts
  <2>2. QED
    BY <1>1, <1>3, <1>4, <2>1 DEF RunsInv, TableInv
<1>8. CacheInv'
  BY <1>1, <1>3, <1>4 DEF RunsInv, CacheInv
<1>9. QED
  BY <1>5, <1>6, <1>7, <1>8 DEF RunsInv

LEMMA RunsStep == RunsInv /\ [Next]_vars => RunsInv'
<1> SUFFICES ASSUME RunsInv, [Next]_vars PROVE RunsInv'
  OBVIOUS
<1>1. ASSUME NEW listed \in SUBSET Tickers, NEW force \in BOOLEAN, Start(listed, force) PROVE RunsInv'
  BY <1>1, StartStep
<1>2. ASSUME NEW t \in Tickers, SkipFresh(t) PROVE RunsInv'
  BY <1>2, SkipStep
<1>3. ASSUME NEW t \in Tickers, NEW s \in Answers, NEW d \in Answers, Fetch(t, s, d) PROVE RunsInv'
  BY <1>3, FetchStep
<1>4. CASE Adjust
  BY <1>4, AdjustStep
<1>5. CASE Write
  BY <1>5, WriteStep
<1>6. CASE WriteFails
  <2>1. /\ run.pc \in {"apply", "write"} /\ run' = Failed(run)
        /\ today' = today /\ raw' = raw /\ adj' = adj /\ disk' = disk /\ bare' = bare
    BY <1>6 DEF WriteFails
  <2>2. QED
    BY <2>1, FailedStep
<1>7. CASE Finish
  <2>1. /\ run' = Idle /\ today' = today /\ raw' = raw /\ adj' = adj
        /\ disk' = run.cache /\ run.pc # "idle" /\ bare' = bare
    BY <1>7 DEF Finish
  <2>2. QED
    BY <2>1, EndStep
<1>8. CASE Killed
  <2>1. run' = Idle /\ today' = today /\ raw' = raw /\ adj' = adj /\ disk' = disk /\ bare' = bare
    BY <1>8 DEF Killed
  <2>2. QED
    BY <2>1, EndStep
<1>9. CASE CacheLost
  BY <1>9, CacheLostStep
<1>10. ASSUME NEW t \in Tickers, RawStored(t) PROVE RunsInv'
  BY <1>10, RawStoredStep
<1>11. CASE Midnight
  BY <1>11, MidnightStep
<1>12. CASE UNCHANGED vars
  BY <1>12 DEF vars, RunsInv, ShapeInv, RunInv, TableInv, CacheInv
<1>13. QED
  BY <1>1, <1>2, <1>3, <1>4, <1>5, <1>6, <1>7, <1>8, <1>9, <1>10, <1>11, <1>12 DEF Next

\* For every list MOEX may publish and every order of runs, failures, kills, empty
\* answers, new bars and midnights, the cache file of apply_corporate_actions.py
\* never calls a ticker applied whose adjusted rows miss an action of that day,
\* unless the last run that did the ticker had an empty list in place of MOEX's.
THEOREM CacheNeverRunsAhead == Spec => []CachedMeansApplied
<1>1. Spec => []RunsInv
  BY RunsInit, RunsStep, PTL DEF Spec
<1>2. RunsInv => CachedMeansApplied
  BY DEF RunsInv, CacheInv, CachedMeansApplied, AppliedSince
<1>3. QED
  BY <1>1, <1>2, PTL

-----------------------------------------------------------------------------
(* The adjusted prices are whole numbers.  Their products and sums are the   *)
(* library's folds, which take one member of a set after the other, and the  *)
(* closes of the exchange are computed from the last day back: both are      *)
(* shown to exist before anything is shown about their values.               *)

Some(s) == CHOOSE x \in s : TRUE
Rest(s) == s \ {Some(s)}
Products(g, S, k) == g = [s \in SUBSET S |-> IF s = {} THEN 1 ELSE Some(s)[k] * g[Rest(s)]]
Sums(g, S, k) == g = [s \in SUBSET S |-> IF s = {} THEN 0 ELSE Some(s)[k] + g[Rest(s)]]

Prod(S, k) == (CHOOSE g : Products(g, S, k))[S]
Total(S, k) == (CHOOSE g : Sums(g, S, k))[S]

DayBefore(t, d, x) ==
    (x * Product(ActionsOn(t, d, "split"), LAMBDA a : a.num)) \div Product(ActionsOn(t, d, "split"), LAMBDA a : a.den)
        + MapThenSumSet(LAMBDA a : a.num, ActionsOn(t, d, "dividend"))
Closes(f, t) ==
    f = [d \in 0..MaxDay |-> IF d = MaxDay THEN LastClose[t] ELSE DayBefore(t, d + 1, f[d + 1])]

\* The folds and the closes, written out.
LEMMA FoldsAre ==
    ASSUME NEW S
    PROVE  /\ Product(S, LAMBDA a : a.num) = Prod(S, "num")
           /\ Product(S, LAMBDA a : a.den) = Prod(S, "den")
           /\ MapThenSumSet(LAMBDA a : a.num, S) = Total(S, "num")
<1>1. Product(S, LAMBDA a : a.num) = Prod(S, "num")
  BY DEF Product, MapThenFoldSet, Prod, Products, Some, Rest
<1>2. Product(S, LAMBDA a : a.den) = Prod(S, "den")
  BY DEF Product, MapThenFoldSet, Prod, Products, Some, Rest
<1>3. MapThenSumSet(LAMBDA a : a.num, S) = Total(S, "num")
  BY DEF MapThenSumSet, MapThenFoldSet, Total, Sums, Some, Rest
<1>4. QED
  BY <1>1, <1>2, <1>3

LEMMA RawCloseIs ==
    ASSUME NEW t \in Tickers
    PROVE  RawClose[t] = CHOOSE f : Closes(f, t)
  BY DEF RawClose, Closes, DayBefore

\* Every non-empty set of natural numbers has a least element.
LEMMA NatMin ==
    ASSUME NEW S, S \subseteq Nat, S # {}
    PROVE  \E m \in S : \A y \in S : m <= y
<1>1. PICK m \in S : \A y \in S : ~ (<<y, m>> \in OpToRel(<, Nat))
  BY NatLessThanWellFounded, WFMin
<1>2. ASSUME NEW y \in S PROVE m <= y
  <2>1. m \in Nat /\ y \in Nat
    OBVIOUS
  <2>2. ~ (y < m)
    BY <1>1, <2>1 DEF OpToRel
  <2>3. QED
    BY <2>1, <2>2
<1>3. QED
  BY <1>2

LEMMA RestSmaller ==
    ASSUME NEW D, IsFiniteSet(D), NEW s \in SUBSET D, s # {}
    PROVE  /\ Some(s) \in s /\ Rest(s) \in SUBSET D
           /\ Cardinality(s) \in Nat /\ Cardinality(Rest(s)) \in Nat
           /\ Cardinality(Rest(s)) = Cardinality(s) - 1
<1>1. Some(s) \in s
  BY DEF Some
<1>2. IsFiniteSet(s)
  BY FS_Subset
<1>3. IsFiniteSet(Rest(s)) /\ Cardinality(Rest(s)) = Cardinality(s) - 1
  BY <1>1, <1>2, FS_RemoveElement DEF Rest
<1>4. Cardinality(s) \in Nat /\ Cardinality(Rest(s)) \in Nat
  BY <1>2, <1>3, FS_CardinalityType
<1>5. QED
  BY <1>1, <1>3, <1>4 DEF Rest

\* A chain of values over 0..n, each computed by h from the one before, exists.
ChainTo(f, h, b, n) == \A k \in 0..n : f[k] = IF k = 0 THEN b ELSE h[k][f[k - 1]]

LEMMA ChainExists ==
    ASSUME NEW n \in Nat, NEW V, NEW b \in V, NEW h \in [0..n -> [V -> V]]
    PROVE  \E f \in [0..n -> V] : ChainTo(f, h, b, n)
<1> DEFINE P(m) == m <= n => \E f \in [0..n -> V] : ChainTo(f, h, b, m)
           Bad == {m \in Nat : ~P(m)}
<1>1. ASSUME Bad # {} PROVE FALSE
  <2>1. PICK m \in Bad : \A y \in Bad : m <= y
    <3>1. Bad \subseteq Nat /\ Bad # {}
      BY <1>1
    <3> HIDE DEF Bad
    <3>2. QED
      BY <3>1, NatMin
  <2>2. m \in Nat /\ m <= n /\ ~(\E f \in [0..n -> V] : ChainTo(f, h, b, m))
    OBVIOUS
  <2>3. CASE m = 0
    <3> DEFINE f == [k \in 0..n |-> b]
    <3>1. f \in [0..n -> V] /\ f[0] = b
      OBVIOUS
    <3> HIDE DEF f
    <3>2. ChainTo(f, h, b, m)
      BY <2>3, <3>1 DEF ChainTo
    <3>3. QED
      BY <2>2, <3>1, <3>2
  <2>4. CASE m # 0
    <3>1. m - 1 \in Nat /\ m - 1 \notin Bad /\ m - 1 <= n
      <4> HIDE DEF Bad
      <4> QED
        BY <2>1, <2>2, <2>4
    <3>2. PICK f \in [0..n -> V] : ChainTo(f, h, b, m - 1)
      BY <3>1
    <3> DEFINE g == [f EXCEPT ![m] = h[m][f[m - 1]]]
    <3>3. m \in 0..n /\ m - 1 \in 0..n /\ h[m][f[m - 1]] \in V
      BY <2>2, <3>1
    <3>4. g \in [0..n -> V] /\ g[m] = h[m][f[m - 1]] /\ \A k \in 0..n : k # m => g[k] = f[k]
      BY <3>3
    <3> HIDE DEF g
    <3>5. ASSUME NEW k \in 0..m PROVE g[k] = IF k = 0 THEN b ELSE h[k][g[k - 1]]
      <4>1. CASE k = m
        <5>1. g[m - 1] = f[m - 1]
          BY <2>2, <3>3, <3>4
        <5>2. QED
          BY <2>4, <3>4, <4>1, <5>1
      <4>2. CASE k # m
        <5>1. k \in 0..(m - 1) /\ k \in 0..n
          BY <2>2, <4>2
        <5>2. g[k] = f[k] /\ f[k] = IF k = 0 THEN b ELSE h[k][f[k - 1]]
          BY <3>2, <3>4, <4>2, <5>1 DEF ChainTo
        <5>3. k # 0 => k - 1 \in 0..n /\ k - 1 # m
          BY <2>2, <5>1
        <5>4. k # 0 => g[k - 1] = f[k - 1]
          BY <3>4, <5>3
        <5>5. QED
          BY <5>2, <5>4
      <4>3. QED
        BY <4>1, <4>2
    <3>6. QED
      BY <2>2, <3>4, <3>5 DEF ChainTo
  <2>5. QED
    BY <2>3, <2>4
<1>2. P(n)
  <2>1. n \notin Bad
    BY <1>1
  <2>2. QED
    BY <2>1
<1>3. QED
  BY <1>2

\* A family of subsets that always has the rest of its members, but never the
\* empty set, has no members.
LEMMA NoDescent ==
    ASSUME NEW D, IsFiniteSet(D), NEW B, B \subseteq SUBSET D, {} \notin B,
           \A s \in B : Rest(s) \in B
    PROVE  B = {}
<1> SUFFICES ASSUME B # {} PROVE FALSE
  OBVIOUS
<1> DEFINE C == {Cardinality(s) : s \in B}
<1>1. \A s \in B : s \in SUBSET D /\ s # {}
  OBVIOUS
<1>2. C \subseteq Nat /\ C # {}
  BY <1>1, RestSmaller
<1>3. PICK c \in C : \A y \in C : c <= y
  <2> HIDE DEF C
  <2> QED
    BY <1>2, NatMin
<1>4. PICK s \in B : c = Cardinality(s)
  BY <1>3
<1>5. /\ Rest(s) \in B /\ Cardinality(s) \in Nat
      /\ Cardinality(Rest(s)) = Cardinality(s) - 1
  BY <1>1, RestSmaller
<1>6. c <= Cardinality(Rest(s))
  BY <1>3, <1>5
<1>7. QED
  BY <1>4, <1>5, <1>6

\* A fold over the subsets of a finite set exists.
FoldUpTo(g, S, h, b, n) ==
    \A s \in SUBSET S : Cardinality(s) <= n => g[s] = IF s = {} THEN b ELSE h[Some(s)][g[Rest(s)]]

LEMMA FoldUpToExists ==
    ASSUME NEW S, IsFiniteSet(S), NEW V, NEW b \in V, NEW h \in [S -> [V -> V]], NEW n \in Nat
    PROVE  \E g \in [SUBSET S -> V] : FoldUpTo(g, S, h, b, n)
<1> DEFINE P(m) == \E g \in [SUBSET S -> V] : FoldUpTo(g, S, h, b, m)
           Bad == {m \in Nat : ~P(m)}
<1>1. ASSUME Bad # {} PROVE FALSE
  <2>1. PICK m \in Bad : \A y \in Bad : m <= y
    <3>1. Bad \subseteq Nat /\ Bad # {}
      BY <1>1
    <3> HIDE DEF Bad
    <3>2. QED
      BY <3>1, NatMin
  <2>2. m \in Nat /\ ~P(m)
    OBVIOUS
  <2>3. PICK g \in [SUBSET S -> V] : \A k \in Nat : m = k + 1 => FoldUpTo(g, S, h, b, k)
    <3>1. CASE m = 0
      <4>1. [s \in SUBSET S |-> b] \in [SUBSET S -> V]
        OBVIOUS
      <4>2. \A k \in Nat : m # k + 1
        BY <3>1
      <4>3. PICK g \in [SUBSET S -> V] : TRUE
        BY <4>1
      <4>4. QED
        BY <4>2, <4>3
    <3>2. CASE m # 0
      <4>1. m - 1 \in Nat /\ m - 1 \notin Bad
        <5> HIDE DEF Bad
        <5> QED
          BY <2>1, <2>2, <3>2
      <4>2. P(m - 1)
        BY <4>1
      <4>3. PICK g \in [SUBSET S -> V] : FoldUpTo(g, S, h, b, m - 1)
        BY <4>2
      <4>4. \A k \in Nat : m = k + 1 => k = m - 1
        BY <2>2
      <4>5. QED
        BY <4>3, <4>4
    <3>3. QED
      BY <3>1, <3>2
  <2> DEFINE f == [s \in SUBSET S |-> IF s = {} THEN b ELSE h[Some(s)][g[Rest(s)]]]
  <2>4. ASSUME NEW s \in SUBSET S, s # {}
        PROVE  Some(s) \in S /\ Rest(s) \in SUBSET S
    BY <2>4, RestSmaller
  <2>5. f \in [SUBSET S -> V]
    <3>1. ASSUME NEW s \in SUBSET S
          PROVE  (IF s = {} THEN b ELSE h[Some(s)][g[Rest(s)]]) \in V
      BY <2>4
    <3>2. QED
      BY <3>1
  <2>6. ASSUME NEW s \in SUBSET S, Cardinality(s) <= m, s # {}
        PROVE  f[Rest(s)] = g[Rest(s)]
    <3>1. /\ Rest(s) \in SUBSET S /\ Cardinality(s) \in Nat
          /\ Cardinality(Rest(s)) \in Nat /\ Cardinality(Rest(s)) = Cardinality(s) - 1
      BY <2>6, RestSmaller
    <3>2. m - 1 \in Nat /\ m = (m - 1) + 1 /\ Cardinality(Rest(s)) <= m - 1
      BY <2>2, <2>6, <3>1
    <3>3. FoldUpTo(g, S, h, b, m - 1)
      BY <2>3, <3>2
    <3>4. g[Rest(s)] = IF Rest(s) = {} THEN b ELSE h[Some(Rest(s))][g[Rest(Rest(s))]]
      BY <3>1, <3>2, <3>3 DEF FoldUpTo
    <3>5. QED
      BY <3>1, <3>4
  <2>7. \A s \in SUBSET S : f[s] = IF s = {} THEN b ELSE h[Some(s)][g[Rest(s)]]
    OBVIOUS
  <2> HIDE DEF f
  <2>8. FoldUpTo(f, S, h, b, m)
    BY <2>6, <2>7 DEF FoldUpTo
  <2>9. QED
    BY <2>2, <2>5, <2>8
<1>2. QED
  BY <1>1

IsFold(g, S, h, b) ==
    \A s \in SUBSET S : g[s] = IF s = {} THEN b ELSE h[Some(s)][g[Rest(s)]]

LEMMA FoldExists ==
    ASSUME NEW S, IsFiniteSet(S), NEW V, NEW b \in V, NEW h \in [S -> [V -> V]]
    PROVE  \E g \in [SUBSET S -> V] : IsFold(g, S, h, b)
<1>1. Cardinality(S) \in Nat
  BY FS_CardinalityType
<1>2. PICK g \in [SUBSET S -> V] : FoldUpTo(g, S, h, b, Cardinality(S))
  BY <1>1, FoldUpToExists
<1>3. ASSUME NEW s \in SUBSET S
      PROVE  g[s] = IF s = {} THEN b ELSE h[Some(s)][g[Rest(s)]]
  <2>1. Cardinality(s) <= Cardinality(S)
    BY FS_Subset
  <2>2. QED
    BY <1>2, <2>1 DEF FoldUpTo
<1>4. QED
  BY <1>3 DEF IsFold

\* A commutative monoid, as an operation op[x][y] on V with the unit b, and a fold
\* with it of the field k of the members of S.
Monoid(V, op, b) ==
    /\ b \in V /\ op \in [V -> [V -> V]]
    /\ \A x \in V : op[b][x] = x
    /\ \A x, y \in V : op[x][y] = op[y][x]
    /\ \A x, y, z \in V : op[op[x][y]][z] = op[x][op[y][z]]

Folds(g, S, V, op, b, k) ==
    /\ g \in [SUBSET S -> V]
    /\ \A s \in SUBSET S : g[s] = IF s = {} THEN b ELSE op[Some(s)[k]][g[Rest(s)]]

LEMMA FoldsExist ==
    ASSUME NEW S, IsFiniteSet(S), NEW V, NEW op, NEW b, Monoid(V, op, b),
           NEW k, \A a \in S : a[k] \in V
    PROVE  \E g : Folds(g, S, V, op, b, k)
<1> DEFINE h == [a \in S |-> op[a[k]]]
<1>1. h \in [S -> [V -> V]] /\ b \in V
  BY DEF Monoid
<1>2. PICK g \in [SUBSET S -> V] : IsFold(g, S, h, b)
  <2> HIDE DEF h
  <2> QED
    BY <1>1, FoldExists
<1>3. ASSUME NEW s \in SUBSET S, s # {} PROVE Some(s) \in S
  BY <1>3, RestSmaller
<1>4. \A s \in SUBSET S : g[s] = IF s = {} THEN b ELSE op[Some(s)[k]][g[Rest(s)]]
  BY <1>2, <1>3 DEF IsFold
<1>5. QED
  BY <1>4 DEF Folds

\* The order in which a fold takes the members does not matter.
AnyOrder(g, S, op, k) == \A s \in SUBSET S : \A x \in s : g[s] = op[x[k]][g[s \ {x}]]

LEMMA FoldRemove ==
    ASSUME NEW S, IsFiniteSet(S), NEW V, NEW op, NEW b, Monoid(V, op, b),
           NEW k, \A a \in S : a[k] \in V, NEW g, Folds(g, S, V, op, b, k)
    PROVE  AnyOrder(g, S, op, k)
<1> DEFINE Good(s) == \A x \in s : g[s] = op[x[k]][g[s \ {x}]]
           Bad == {s \in SUBSET S : ~Good(s)}
           Sizes == {Cardinality(s) : s \in Bad}
<1>1. \A s \in SUBSET S : IsFiniteSet(s) /\ Cardinality(s) \in Nat
  BY FS_Subset, FS_CardinalityType
<1>2. ASSUME Bad # {} PROVE FALSE
  <2>1. Sizes \subseteq Nat /\ Sizes # {}
    BY <1>1, <1>2
  <2>2. PICK n \in Sizes : \A m \in Sizes : n <= m
    <3> HIDE DEF Sizes
    <3> QED
      BY <2>1, NatMin
  <2>3. PICK s \in Bad : n = Cardinality(s)
    BY <2>2
  <2>4. s \in SUBSET S /\ ~Good(s)
    BY <2>3
  <2>5. PICK x \in s : g[s] # op[x[k]][g[s \ {x}]]
    BY <2>4
  <2> DEFINE y == Some(s)
             r == (s \ {x}) \ {y}
  <2>6. y \in s /\ g[s] = op[y[k]][g[s \ {y}]]
    BY <2>4, <2>5, RestSmaller DEF Folds, Rest
  <2>7. x # y
    BY <2>5, <2>6
  <2>8. ASSUME NEW z \in s PROVE Good(s \ {z})
    <3>1. Cardinality(s \ {z}) = Cardinality(s) - 1 /\ Cardinality(s) \in Nat /\ s \ {z} \in SUBSET S
      BY <1>1, <2>4, FS_RemoveElement
    <3>2. Cardinality(s \ {z}) \notin Sizes
      <4> HIDE DEF Sizes
      <4> QED
        BY <2>2, <2>3, <3>1
    <3>3. s \ {z} \notin Bad
      BY <3>2
    <3>4. QED
      BY <3>1, <3>3
  <2>9. g[s \ {y}] = op[x[k]][g[r]]
    <3>1. x \in s \ {y} /\ r = (s \ {y}) \ {x}
      BY <2>7
    <3>2. Good(s \ {y})
      BY <2>6, <2>8
    <3>3. QED
      BY <3>1, <3>2
  <2>10. g[s \ {x}] = op[y[k]][g[r]]
    <3>1. y \in s \ {x}
      BY <2>6, <2>7
    <3>2. Good(s \ {x})
      BY <2>8
    <3>3. QED
      BY <3>1, <3>2
  <2>11. x[k] \in V /\ y[k] \in V /\ g[r] \in V
    <3>1. r \in SUBSET S /\ x \in S /\ y \in S
      BY <2>4, <2>6
    <3>2. QED
      BY <3>1 DEF Folds
  <2> HIDE DEF y, r
  <2>12. op[y[k]][op[x[k]][g[r]]] = op[x[k]][op[y[k]][g[r]]]
    <3> DEFINE u == x[k]
               v == y[k]
               w == g[r]
    <3>1. u \in V /\ v \in V /\ w \in V
      BY <2>11
    <3> HIDE DEF u, v, w
    <3>2. op[v][op[u][w]] = op[u][op[v][w]]
      BY <3>1 DEF Monoid
    <3>3. QED
      BY <3>2 DEF u, v, w
  <2>13. QED
    BY <2>5, <2>6, <2>9, <2>10, <2>12
<1>3. QED
  BY <1>2 DEF AnyOrder

LEMMA FoldUnion ==
    ASSUME NEW S, IsFiniteSet(S), NEW V, NEW op, NEW b, Monoid(V, op, b),
           NEW k, \A a \in S : a[k] \in V, NEW g, Folds(g, S, V, op, b, k),
           NEW A \in SUBSET S, NEW C \in SUBSET S, A \cap C = {}
    PROVE  g[A \cup C] = op[g[A]][g[C]]
<1> DEFINE B == {s \in SUBSET A : g[s \cup C] # op[g[s]][g[C]]}
<1>1. g[C] \in V /\ g[{}] = b
  BY DEF Folds
<1>2. {} \notin B
  <2>1. op[b][g[C]] = g[C] /\ {} \cup C = C
    BY <1>1 DEF Monoid
  <2>2. QED
    BY <1>1, <2>1
<1>3. ASSUME NEW s \in B PROVE Rest(s) \in B
  <2>1. s \in SUBSET A /\ s # {} /\ g[s \cup C] # op[g[s]][g[C]] /\ IsFiniteSet(A)
    BY <1>2, FS_Subset
  <2> DEFINE x == Some(s)
             r == Rest(s)
  <2>2. x \in s /\ r \in SUBSET A /\ r = s \ {x}
    BY <2>1, RestSmaller DEF Rest
  <2>3. x \notin C /\ (s \cup C) \ {x} = r \cup C /\ s \cup C \in SUBSET S /\ s \in SUBSET S /\ r \in SUBSET S
    BY <2>1, <2>2
  <2>4. \A q \in SUBSET S : \A z \in q : g[q] = op[z[k]][g[q \ {z}]]
    <3>1. AnyOrder(g, S, op, k)
      BY FoldRemove
    <3>2. QED
      BY <3>1 DEF AnyOrder
  <2>5. g[s \cup C] = op[x[k]][g[r \cup C]] /\ g[s] = op[x[k]][g[r]]
    <3> HIDE DEF x, r
    <3>1. x \in s \cup C
      BY <2>2
    <3>2. QED
      BY <2>2, <2>3, <2>4, <3>1
  <2>6. x[k] \in V /\ g[r] \in V
    BY <2>2, <2>3 DEF Folds
  <2> HIDE DEF x, r
  <2>7. op[op[x[k]][g[r]]][g[C]] = op[x[k]][op[g[r]][g[C]]]
    <3> DEFINE u == x[k]
               v == g[r]
               w == g[C]
    <3>1. u \in V /\ v \in V /\ w \in V
      BY <1>1, <2>6
    <3> HIDE DEF u, v, w
    <3>2. op[op[u][v]][w] = op[u][op[v][w]]
      BY <3>1 DEF Monoid
    <3>3. QED
      BY <3>2 DEF u, v, w
  <2>8. g[r \cup C] # op[g[r]][g[C]]
    BY <2>1, <2>5, <2>7
  <2>9. QED
    BY <2>2, <2>8 DEF r
<1>4. B \subseteq SUBSET A /\ IsFiniteSet(A)
  BY FS_Subset
<1>5. B = {}
  <2> HIDE DEF B
  <2> QED
    BY <1>2, <1>3, <1>4, NoDescent
<1>6. A \in SUBSET A
  OBVIOUS
<1>7. QED
  BY <1>5, <1>6

\* Products and sums are folds with these two.
Positive == Nat \ {0}
Times == [x \in Positive |-> [y \in Positive |-> x * y]]
Plus == [x \in Int |-> [y \in Int |-> x + y]]

LEMMA TimesMonoid == Monoid(Positive, Times, 1)
<1>1. \A x, y \in Positive : x * y \in Positive
  BY DEF Positive
<1>2. Times \in [Positive -> [Positive -> Positive]] /\ \A x, y \in Positive : Times[x][y] = x * y
  BY <1>1 DEF Times
<1>3. 1 \in Positive /\ Positive \subseteq Int
  BY DEF Positive
<1>4. \A x, y, z \in Int : 1 * x = x /\ x * y = y * x /\ (x * y) * z = x * (y * z)
  OBVIOUS
<1> HIDE DEF Positive, Times
<1>5. \A x, y, z \in Positive : Times[Times[x][y]][z] = Times[x][Times[y][z]]
  <2> TAKE x, y, z \in Positive
  <2>1. x * y \in Positive /\ y * z \in Positive
    BY <1>1
  <2>2. /\ Times[x][y] = x * y /\ Times[y][z] = y * z
        /\ Times[x * y][z] = (x * y) * z /\ Times[x][y * z] = x * (y * z)
    BY <1>2, <2>1
  <2>3. (x * y) * z = x * (y * z)
    BY <1>3, <1>4
  <2>4. QED
    BY <2>2, <2>3
<1>6. \A x, y \in Positive : Times[1][x] = x /\ Times[x][y] = Times[y][x]
  BY <1>2, <1>3, <1>4
<1>7. QED
  BY <1>2, <1>3, <1>5, <1>6 DEF Monoid

LEMMA PlusMonoid == Monoid(Int, Plus, 0)
<1>1. Plus \in [Int -> [Int -> Int]] /\ \A x, y \in Int : Plus[x][y] = x + y
  BY DEF Plus
<1>2. 0 \in Int /\ \A x, y \in Int : x + y \in Int /\ x + y = y + x /\ 0 + x = x
  OBVIOUS
<1>3. \A x, y, z \in Int : (x + y) + z = x + (y + z)
  OBVIOUS
<1>4. \A x, y, z \in Int : Plus[Plus[x][y]][z] = Plus[x][Plus[y][z]]
  <2> TAKE x, y, z \in Int
  <2>1. x + y \in Int /\ y + z \in Int
    OBVIOUS
  <2>2. /\ Plus[x][y] = x + y /\ Plus[y][z] = y + z
        /\ Plus[x + y][z] = (x + y) + z /\ Plus[x][y + z] = x + (y + z)
    BY <1>1, <2>1
  <2>3. QED
    BY <1>3, <2>2
<1>5. \A x, y \in Int : Plus[0][x] = x /\ Plus[x][y] = Plus[y][x]
  <2> TAKE x, y \in Int
  <2>1. Plus[0][x] = 0 + x /\ Plus[x][y] = x + y /\ Plus[y][x] = y + x
    BY <1>1, <1>2, Zenon
  <2>2. QED
    BY <2>1
<1>6. QED
  BY <1>1, <1>2, <1>4, <1>5, Zenon DEF Monoid

LEMMA ProductsFold ==
    ASSUME NEW S, IsFiniteSet(S), NEW k, \A a \in S : a[k] \in Positive,
           NEW g, Folds(g, S, Positive, Times, 1, k), NEW T \in SUBSET S
    PROVE  Prod(T, k) = g[T]
<1> DEFINE p == CHOOSE f : Products(f, T, k)
           q == [s \in SUBSET T |-> g[s]]
<1>1. ASSUME NEW s \in SUBSET T, s # {} PROVE Some(s) \in S /\ Rest(s) \in SUBSET T
  BY <1>1, FS_Subset, RestSmaller
<1>2. \A x, y \in Positive : Times[x][y] = x * y
  BY DEF Times
<1>3. \A s \in SUBSET T : g[s] = IF s = {} THEN 1 ELSE Some(s)[k] * g[Rest(s)]
  BY <1>1, <1>2 DEF Folds
<1>4. \A s \in SUBSET T : q[s] = IF s = {} THEN 1 ELSE Some(s)[k] * q[Rest(s)]
  BY <1>1, <1>3
<1>5. Products(q, T, k)
  BY <1>4 DEF Products
<1>6. Products(p, T, k)
  BY <1>5
<1> HIDE DEF p
<1>7. \A s \in SUBSET T : p[s] = IF s = {} THEN 1 ELSE Some(s)[k] * p[Rest(s)]
  BY <1>6 DEF Products
<1> DEFINE B == {s \in SUBSET T : p[s] # g[s]}
<1>8. {} \notin B /\ B \subseteq SUBSET T /\ IsFiniteSet(T)
  BY <1>3, <1>7, FS_Subset
<1>9. ASSUME NEW s \in B PROVE Rest(s) \in B
  <2>1. s \in SUBSET T /\ s # {} /\ p[s] # g[s]
    BY <1>8
  <2>2. QED
    BY <1>1, <1>3, <1>7, <2>1
<1>10. B = {}
  <2> HIDE DEF B
  <2> QED
    BY <1>8, <1>9, NoDescent
<1>11. QED
  BY <1>10 DEF p, Prod

LEMMA SumsFold ==
    ASSUME NEW S, IsFiniteSet(S), NEW k, \A a \in S : a[k] \in Int,
           NEW g, Folds(g, S, Int, Plus, 0, k), NEW T \in SUBSET S
    PROVE  Total(T, k) = g[T]
<1> DEFINE p == CHOOSE f : Sums(f, T, k)
           q == [s \in SUBSET T |-> g[s]]
<1>1. ASSUME NEW s \in SUBSET T, s # {} PROVE Some(s) \in S /\ Rest(s) \in SUBSET T
  BY <1>1, FS_Subset, RestSmaller
<1>2. \A x, y \in Int : Plus[x][y] = x + y
  BY DEF Plus
<1>3. \A s \in SUBSET T : g[s] = IF s = {} THEN 0 ELSE Some(s)[k] + g[Rest(s)]
  BY <1>1, <1>2 DEF Folds
<1>4. \A s \in SUBSET T : q[s] = IF s = {} THEN 0 ELSE Some(s)[k] + q[Rest(s)]
  BY <1>1, <1>3
<1>5. Sums(q, T, k)
  BY <1>4 DEF Sums
<1>6. Sums(p, T, k)
  BY <1>5
<1> HIDE DEF p
<1>7. \A s \in SUBSET T : p[s] = IF s = {} THEN 0 ELSE Some(s)[k] + p[Rest(s)]
  BY <1>6 DEF Sums
<1> DEFINE B == {s \in SUBSET T : p[s] # g[s]}
<1>8. {} \notin B /\ B \subseteq SUBSET T /\ IsFiniteSet(T)
  BY <1>3, <1>7, FS_Subset
<1>9. ASSUME NEW s \in B PROVE Rest(s) \in B
  <2>1. s \in SUBSET T /\ s # {} /\ p[s] # g[s]
    BY <1>8
  <2>2. QED
    BY <1>1, <1>3, <1>7, <2>1
<1>10. B = {}
  <2> HIDE DEF B
  <2> QED
    BY <1>8, <1>9, NoDescent
<1>11. QED
  BY <1>10 DEF p, Total

\* A product over two sets of positive factors, and a sum over two of amounts.
LEMMA ProductsUnion ==
    ASSUME NEW S, IsFiniteSet(S), NEW k, \A a \in S : a[k] \in Positive,
           NEW A \in SUBSET S, NEW C \in SUBSET S, A \cap C = {}
    PROVE  /\ Prod(A, k) \in Positive /\ Prod(C, k) \in Positive /\ Prod({}, k) = 1
           /\ Prod(A \cup C, k) = Prod(A, k) * Prod(C, k)
<1>1. Monoid(Positive, Times, 1)
  BY TimesMonoid
<1>2. PICK g : Folds(g, S, Positive, Times, 1, k)
  <2> HIDE DEF Positive, Times
  <2> QED
    BY <1>1, FoldsExist
<1>3. \A T \in SUBSET S : Prod(T, k) = g[T]
  BY <1>2, ProductsFold
<1>4. g[A \cup C] = Times[g[A]][g[C]]
  BY <1>1, <1>2, FoldUnion
<1>5. g[A] \in Positive /\ g[C] \in Positive /\ g[{}] = 1
  BY <1>2 DEF Folds
<1>6. Times[g[A]][g[C]] = g[A] * g[C]
  BY <1>5 DEF Times
<1>7. A \cup C \in SUBSET S /\ {} \in SUBSET S
  OBVIOUS
<1>8. QED
  BY <1>3, <1>4, <1>5, <1>6, <1>7

LEMMA SumsUnion ==
    ASSUME NEW S, IsFiniteSet(S), NEW k, \A a \in S : a[k] \in Int,
           NEW A \in SUBSET S, NEW C \in SUBSET S, A \cap C = {}
    PROVE  /\ Total(A, k) \in Int /\ Total(C, k) \in Int /\ Total({}, k) = 0
           /\ Total(A \cup C, k) = Total(A, k) + Total(C, k)
<1>1. Monoid(Int, Plus, 0)
  BY PlusMonoid
<1>2. PICK g : Folds(g, S, Int, Plus, 0, k)
  <2> HIDE DEF Plus
  <2> QED
    BY <1>1, FoldsExist
<1>3. \A T \in SUBSET S : Total(T, k) = g[T]
  BY <1>2, SumsFold
<1>4. g[A \cup C] = Plus[g[A]][g[C]]
  BY <1>1, <1>2, FoldUnion
<1>5. g[A] \in Int /\ g[C] \in Int /\ g[{}] = 0
  BY <1>2 DEF Folds
<1>6. Plus[g[A]][g[C]] = g[A] + g[C]
  BY <1>5 DEF Plus
<1>7. A \cup C \in SUBSET S /\ {} \in SUBSET S
  OBVIOUS
<1>8. QED
  BY <1>3, <1>4, <1>5, <1>6, <1>7

\* The factors and the amounts of a list of splits and dividends.
LEMMA FactorsUnion ==
    ASSUME NEW A \in SUBSET Published, NEW C \in SUBSET Published, A \cap C = {},
           \A a \in A \cup C : a.num > 0
    PROVE  /\ Product(A, LAMBDA a : a.num) \in Positive /\ Product(C, LAMBDA a : a.num) \in Positive
           /\ Product(A, LAMBDA a : a.den) \in Positive /\ Product(C, LAMBDA a : a.den) \in Positive
           /\ Product({}, LAMBDA a : a.num) = 1 /\ Product({}, LAMBDA a : a.den) = 1
           /\ Product(A \cup C, LAMBDA a : a.num) = Product(A, LAMBDA a : a.num) * Product(C, LAMBDA a : a.num)
           /\ Product(A \cup C, LAMBDA a : a.den) = Product(A, LAMBDA a : a.den) * Product(C, LAMBDA a : a.den)
<1> DEFINE S == A \cup C
<1>1. IsFiniteSet(S) /\ A \in SUBSET S /\ C \in SUBSET S
  BY CorporateActionsAssumption, FS_Subset
<1>2. \A a \in S : a["num"] \in Positive /\ a["den"] \in Positive
  BY CorporateActionsAssumption DEF Positive
<1> HIDE DEF S
<1>3. /\ Prod(A, "num") \in Positive /\ Prod(C, "num") \in Positive /\ Prod({}, "num") = 1
      /\ Prod(A \cup C, "num") = Prod(A, "num") * Prod(C, "num")
  BY <1>1, <1>2, ProductsUnion
<1>4. /\ Prod(A, "den") \in Positive /\ Prod(C, "den") \in Positive /\ Prod({}, "den") = 1
      /\ Prod(A \cup C, "den") = Prod(A, "den") * Prod(C, "den")
  BY <1>1, <1>2, ProductsUnion
<1>5. \A T : Product(T, LAMBDA a : a.num) = Prod(T, "num") /\ Product(T, LAMBDA a : a.den) = Prod(T, "den")
  BY FoldsAre
<1>6. QED
  BY <1>3, <1>4, <1>5

LEMMA AmountsUnion ==
    ASSUME NEW A \in SUBSET Published, NEW C \in SUBSET Published, A \cap C = {}
    PROVE  /\ MapThenSumSet(LAMBDA a : a.num, A) \in Int /\ MapThenSumSet(LAMBDA a : a.num, C) \in Int
           /\ MapThenSumSet(LAMBDA a : a.num, {}) = 0
           /\ MapThenSumSet(LAMBDA a : a.num, A \cup C)
                 = MapThenSumSet(LAMBDA a : a.num, A) + MapThenSumSet(LAMBDA a : a.num, C)
<1> DEFINE S == A \cup C
<1>1. IsFiniteSet(S) /\ A \in SUBSET S /\ C \in SUBSET S
  BY CorporateActionsAssumption, FS_Subset
<1>2. \A a \in S : a["num"] \in Int
  BY CorporateActionsAssumption
<1> HIDE DEF S
<1>3. /\ Total(A, "num") \in Int /\ Total(C, "num") \in Int /\ Total({}, "num") = 0
      /\ Total(A \cup C, "num") = Total(A, "num") + Total(C, "num")
  BY <1>1, <1>2, SumsUnion
<1>4. \A T : MapThenSumSet(LAMBDA a : a.num, T) = Total(T, "num")
  BY FoldsAre
<1>5. QED
  BY <1>3, <1>4

LEMMA FactorsPositive ==
    ASSUME NEW A \in SUBSET Published, \A a \in A : a.num > 0
    PROVE  /\ Product(A, LAMBDA a : a.num) \in Nat \ {0}
           /\ Product(A, LAMBDA a : a.den) \in Nat \ {0}
<1>1. {} \in SUBSET Published /\ A \cap {} = {} /\ \A a \in A \cup {} : a.num > 0
  OBVIOUS
<1>2. Product(A, LAMBDA a : a.num) \in Positive /\ Product(A, LAMBDA a : a.den) \in Positive
  BY <1>1, FactorsUnion
<1>3. QED
  BY <1>2 DEF Positive

LEMMA AmountsInt ==
    ASSUME NEW A \in SUBSET Published
    PROVE  MapThenSumSet(LAMBDA a : a.num, A) \in Int
<1>1. {} \in SUBSET Published /\ A \cap {} = {}
  OBVIOUS
<1>2. QED
  BY <1>1, AmountsUnion

LEMMA ScaledInt ==
    ASSUME NEW x \in Int, NEW n \in Nat \ {0}, NEW d \in Nat \ {0}
    PROVE  (x * n) \div d \in Int
<1>1. x * n \in Int
  OBVIOUS
<1> DEFINE y == x * n
<1> HIDE DEF y
<1>2. y \in Int
  BY <1>1 DEF y
<1>3. y \div d \in Int
  BY <1>2
<1>4. QED
  BY <1>3 DEF y

LEMMA DayBeforeInt ==
    ASSUME NEW t, NEW d, NEW x \in Int
    PROVE  DayBefore(t, d, x) \in Int
<1> DEFINE n == Product(ActionsOn(t, d, "split"), LAMBDA a : a.num)
           q == Product(ActionsOn(t, d, "split"), LAMBDA a : a.den)
           s == MapThenSumSet(LAMBDA a : a.num, ActionsOn(t, d, "dividend"))
<1>1. /\ ActionsOn(t, d, "split") \in SUBSET Published /\ \A a \in ActionsOn(t, d, "split") : a.num > 0
      /\ ActionsOn(t, d, "dividend") \in SUBSET Published
  BY DEF ActionsOn, Parsed
<1>2. n \in Nat \ {0} /\ q \in Nat \ {0} /\ s \in Int
  BY <1>1, FactorsPositive, AmountsInt
<1>3. DayBefore(t, d, x) = (x * n) \div q + s
  BY DEF DayBefore
<1> HIDE DEF n, q, s
<1>4. (x * n) \div q \in Int
  BY <1>2, ScaledInt
<1> DEFINE y == (x * n) \div q
<1> HIDE DEF y
<1>5. y \in Int
  BY <1>4 DEF y
<1>6. y + s \in Int
  BY <1>2, <1>5
<1>7. QED
  BY <1>3, <1>6 DEF y

\* Every close of the exchange is a whole number and follows from the next one.
LEMMA RawCloseInt ==
    ASSUME NEW t \in Tickers, NEW d \in 0..MaxDay
    PROVE  /\ RawClose[t][d] \in Int
           /\ d # MaxDay => RawClose[t][d] = DayBefore(t, d + 1, RawClose[t][d + 1])
<1>1. MaxDay \in Nat /\ LastClose[t] \in Int
  BY CorporateActionsAssumption
<1> DEFINE h == [k \in 0..MaxDay |-> [x \in Int |-> DayBefore(t, MaxDay - k + 1, x)]]
<1>2. h \in [0..MaxDay -> [Int -> Int]]
  BY DayBeforeInt
<1>3. PICK c \in [0..MaxDay -> Int] : ChainTo(c, h, LastClose[t], MaxDay)
  <2> HIDE DEF h
  <2> QED
    BY <1>1, <1>2, ChainExists
<1> DEFINE f == [e \in 0..MaxDay |-> c[MaxDay - e]]
<1>4. ASSUME NEW e \in 0..MaxDay
      PROVE  f[e] = IF e = MaxDay THEN LastClose[t] ELSE DayBefore(t, e + 1, f[e + 1])
  <2> DEFINE k == MaxDay - e
  <2>1. k \in 0..MaxDay /\ f[e] = c[k] /\ (k = 0) = (e = MaxDay)
    BY <1>1
  <2>2. c[k] = IF k = 0 THEN LastClose[t] ELSE h[k][c[k - 1]]
    BY <1>3, <2>1 DEF ChainTo
  <2>3. CASE e # MaxDay
    <3>1. e + 1 \in 0..MaxDay /\ k - 1 \in 0..MaxDay /\ MaxDay - k + 1 = e + 1 /\ MaxDay - (e + 1) = k - 1
      BY <1>1, <2>3
    <3>2. f[e + 1] = c[k - 1] /\ c[k - 1] \in Int
      BY <3>1
    <3>3. h[k][c[k - 1]] = DayBefore(t, e + 1, c[k - 1])
      BY <2>1, <3>1, <3>2
    <3> HIDE DEF h, f
    <3>4. QED
      BY <2>1, <2>2, <2>3, <3>2, <3>3
  <2>4. QED
    BY <2>1, <2>2, <2>3
<1>5. Closes(f, t)
  <2>1. f = [e \in 0..MaxDay |-> f[e]]
    OBVIOUS
  <2> HIDE DEF f
  <2>2. QED
    BY <1>4, <2>1 DEF Closes
<1> DEFINE w == RawClose[t]
<1>6. Closes(w, t)
  <2>1. w = CHOOSE g : Closes(g, t)
    BY RawCloseIs
  <2> HIDE DEF w, f
  <2>2. QED
    BY <1>5, <2>1
<1> HIDE DEF w, h, f
<1>7. \A e \in 0..MaxDay : w[e] = IF e = MaxDay THEN LastClose[t] ELSE DayBefore(t, e + 1, w[e + 1])
  BY <1>6 DEF Closes
<1> DEFINE Bad == {k \in 0..MaxDay : w[MaxDay - k] \notin Int}
<1>8. ASSUME Bad # {} PROVE FALSE
  <2>1. Bad \subseteq Nat
    OBVIOUS
  <2>2. PICK m \in Bad : \A y \in Bad : m <= y
    <3> HIDE DEF Bad
    <3> QED
      BY <1>8, <2>1, NatMin
  <2>3. m \in 0..MaxDay /\ w[MaxDay - m] \notin Int
    OBVIOUS
  <2>4. m # 0
    <3>1. w[MaxDay] = LastClose[t]
      BY <1>1, <1>7
    <3>2. m = 0 => MaxDay - m = MaxDay
      BY <1>1
    <3>3. QED
      BY <1>1, <2>3, <3>1, <3>2
  <2>5. /\ MaxDay - m \in 0..MaxDay /\ MaxDay - m # MaxDay /\ m - 1 \in 0..MaxDay
        /\ MaxDay - m + 1 = MaxDay - (m - 1)
    BY <1>1, <2>3, <2>4
  <2>6. w[MaxDay - (m - 1)] \in Int
    <3>1. m - 1 \notin Bad
      <4> HIDE DEF Bad
      <4> QED
        BY <2>2, <2>3
    <3>2. QED
      BY <2>5, <3>1
  <2>7. w[MaxDay - m] = DayBefore(t, MaxDay - m + 1, w[MaxDay - (m - 1)])
    BY <1>7, <2>5
  <2>8. QED
    BY <2>3, <2>6, <2>7, DayBeforeInt
<1>9. MaxDay - d \in 0..MaxDay /\ MaxDay - (MaxDay - d) = d
  BY <1>1
<1>10. w[d] \in Int
  <2>1. MaxDay - d \notin Bad
    BY <1>8
  <2>2. QED
    BY <1>9, <2>1
<1>11. d # MaxDay => w[d] = DayBefore(t, d + 1, w[d + 1])
  BY <1>7
<1>12. QED
  BY <1>10, <1>11 DEF w

\* What apply_adjustment makes of a close is a whole number.
LEMMA AdjustedInt ==
    ASSUME NEW t \in Tickers, NEW days \in SUBSET (0..MaxDay), NEW actions,
           actions \subseteq Parsed(Published, t)
    PROVE  \A d \in days : Adjusted(t, days, actions)[d] \in Int
<1> TAKE d \in days
<1> DEFINE splits == Later(Splits(actions), d)
           dividends == Later(Dividends(actions), d)
           x == RawClose[t][d]
           n == Product(splits, LAMBDA a : a.den)
           q == Product(splits, LAMBDA a : a.num)
           s == MapThenSumSet(LAMBDA a : a.num, dividends)
<1>1. /\ splits \in SUBSET Published /\ \A a \in splits : a.num > 0
      /\ dividends \in SUBSET Published
  BY DEF Later, Splits, Dividends, Parsed
<1>2. Adjusted(t, days, actions)[d] = (x * n) \div q - s
  BY DEF Adjusted, apply_adjustment, apply_dividend_adjustment, apply_split_adjustment
<1>3. x \in Int
  BY RawCloseInt
<1> HIDE DEF splits, dividends, x
<1>4. n \in Nat \ {0} /\ q \in Nat \ {0} /\ s \in Int
  BY <1>1, FactorsPositive, AmountsInt
<1> HIDE DEF n, q, s
<1>5. (x * n) \div q \in Int
  BY <1>3, <1>4, ScaledInt
<1> DEFINE y == (x * n) \div q
<1> HIDE DEF y
<1>6. y \in Int
  BY <1>5 DEF y
<1>7. y - s \in Int
  BY <1>4, <1>6
<1>8. QED
  BY <1>2, <1>7 DEF y

\* No row of the table, and none on its way there, is below zero.
ValuesInv ==
    /\ \A t \in Tickers : \A d \in DOMAIN adj[t] : adj[t][d] \in Nat
    /\ run.pc = "write" => \A d \in DOMAIN run.rows : run.rows[d] \in Nat

LEMMA ValuesInit == Init => ValuesInv
<1> SUFFICES ASSUME Init PROVE ValuesInv
  OBVIOUS
<1>1. adj = [t \in Tickers |-> <<>>] /\ run.pc = "idle"
  BY DEF Init, Idle
<1>2. QED
  BY <1>1 DEF ValuesInv

\* Adjust lets a list of rows pass only when none is below zero.
LEMMA AdjustValues ==
    ASSUME RunsInv, ValuesInv, Adjust
    PROVE  ValuesInv'
<1> DEFINE t == run.cur
           rows == Adjusted(t, 0..raw[t], Actions(t))
<1>1. /\ run.pc = "apply" /\ adj' = adj /\ RunType(run)
      /\ run' = IF Actions(t) = {} \/ raw[t] = Null THEN Done(run, t)
                ELSE IF \E d \in DOMAIN rows : rows[d] < 0 THEN Failed(run)
                ELSE [run EXCEPT !.pc = "write", !.rows = rows]
  BY DEF Adjust, RunsInv, ShapeInv
<1>2. t \in Tickers /\ raw[t] \in -1..MaxDay /\ MaxDay \in Nat
  BY <1>1, DaysFacts DEF RunsInv, RunInv, ShapeInv, Days
<1>3. Done(run, t).pc = "next" /\ Failed(run).pc = "next"
  BY <1>1, <1>2, DoneFields, FailedFields
<1>4. /\ [run EXCEPT !.pc = "write", !.rows = rows].rows = rows
      /\ DOMAIN rows = 0..raw[t]
  BY <1>1 DEF RunType, Shape, Fields, Adjusted
<1>5. \A d \in DOMAIN rows : rows[d] \in Int
  <2>1. 0..raw[t] \in SUBSET (0..MaxDay)
    BY <1>2
  <2>2. Actions(t) \subseteq Parsed(Published, t)
    BY DEF Actions, Listed, Parsed, Splits, Dividends, Visible
  <2>3. QED
    BY <1>2, <1>4, <2>1, <2>2, AdjustedInt
<1> HIDE DEF rows
<1>6. run'.pc = "write" => \A d \in DOMAIN run'.rows : run'.rows[d] \in Nat
  <2> SUFFICES ASSUME run'.pc = "write" PROVE \A d \in DOMAIN run'.rows : run'.rows[d] \in Nat
    OBVIOUS
  <2>1. ~(\E d \in DOMAIN rows : rows[d] < 0) /\ run' = [run EXCEPT !.pc = "write", !.rows = rows]
    BY <1>1, <1>3
  <2>2. run'.rows = rows
    BY <1>4, <2>1
  <2>3. \A d \in DOMAIN rows : rows[d] \in Nat
    BY <1>5, <2>1
  <2>4. QED
    BY <2>2, <2>3
<1>7. QED
  BY <1>1, <1>6 DEF ValuesInv

LEMMA WriteValues ==
    ASSUME RunsInv, ValuesInv, Write
    PROVE  ValuesInv'
<1> DEFINE c == run.cur
<1>1. /\ run.pc = "write" /\ run' = Done(run, c) /\ RunType(run)
      /\ adj' = [adj EXCEPT ![c] = upsert_ohlcv_adj(@, run.rows)]
  BY DEF Write, RunsInv, ShapeInv
<1>2. c \in Tickers /\ adj = [t \in Tickers |-> adj[t]]
  BY <1>1 DEF RunsInv, RunInv, ShapeInv
<1>3. run'.pc = "next"
  BY <1>1, <1>2, DoneFields
<1>4. \A d \in DOMAIN run.rows : run.rows[d] \in Nat
  BY <1>1 DEF ValuesInv
<1>5. ASSUME NEW t \in Tickers PROVE \A d \in DOMAIN adj'[t] : adj'[t][d] \in Nat
  <2>1. CASE t = c
    <3>1. adj'[t] = upsert_ohlcv_adj(adj[t], run.rows)
      BY <1>1, <1>2, <2>1
    <3>2. QED
      BY <1>4, <3>1 DEF ValuesInv, upsert_ohlcv_adj
  <2>2. CASE t # c
    <3>1. adj'[t] = adj[t]
      BY <1>1, <1>2, <2>2
    <3>2. QED
      BY <3>1 DEF ValuesInv
  <2>3. QED
    BY <2>1, <2>2
<1>6. QED
  BY <1>3, <1>5 DEF ValuesInv

LEMMA ValuesStep == RunsInv /\ ValuesInv /\ [Next]_vars => ValuesInv'
<1> SUFFICES ASSUME RunsInv, ValuesInv, [Next]_vars PROVE ValuesInv'
  OBVIOUS
<1>1. RunType(run)
  BY DEF RunsInv, ShapeInv
<1>2. ASSUME adj' = adj, run'.pc # "write" \/ run' = run PROVE ValuesInv'
  BY <1>2 DEF ValuesInv
<1>3. Idle.pc = "idle"
  BY DEF Idle
<1>4. ASSUME NEW listed \in SUBSET Tickers, NEW force \in BOOLEAN, Start(listed, force) PROVE ValuesInv'
  <2>1. adj' = adj /\ run'.pc = "next"
    BY <1>4 DEF Start, Idle
  <2>2. QED
    BY <1>2, <2>1
<1>5. ASSUME NEW t \in Tickers, SkipFresh(t) PROVE ValuesInv'
  <2>1. adj' = adj /\ run'.pc = "next"
    BY <1>1, <1>5 DEF SkipFresh, RunType, Shape, Fields
  <2>2. QED
    BY <1>2, <2>1
<1>6. ASSUME NEW t \in Tickers, NEW s \in Answers, NEW d \in Answers, Fetch(t, s, d) PROVE ValuesInv'
  <2>1. adj' = adj /\ run'.pc \in {"next", "apply"}
    BY <1>1, <1>6 DEF Fetch, RunType, Shape, Fields
  <2>2. QED
    BY <1>2, <2>1
<1>7. CASE Adjust
  BY <1>7, AdjustValues
<1>8. CASE Write
  BY <1>8, WriteValues
<1>9. CASE WriteFails
  <2>1. adj' = adj /\ run'.pc = "next"
    BY <1>1, <1>9, FailedFields DEF WriteFails
  <2>2. QED
    BY <1>2, <2>1
<1>10. CASE Finish \/ Killed
  <2>1. adj' = adj /\ run'.pc = "idle"
    BY <1>3, <1>10 DEF Finish, Killed
  <2>2. QED
    BY <1>2, <2>1
<1>11. ASSUME CacheLost \/ (\E t \in Tickers : RawStored(t)) \/ Midnight \/ UNCHANGED vars PROVE ValuesInv'
  <2>1. adj' = adj /\ run' = run
    BY <1>11 DEF CacheLost, RawStored, Midnight, vars
  <2>2. QED
    BY <1>2, <2>1
<1>12. QED
  BY <1>4, <1>5, <1>6, <1>7, <1>8, <1>9, <1>10, <1>11 DEF Next

\* For every list MOEX may publish, every state of the run and of its tables has
\* its type, and no price that apply_adjustment pushes below zero is ever stored.
THEOREM NoNegativePriceStored == Spec => []TypeOK
<1>1. Spec => [](RunsInv /\ ValuesInv)
  <2>1. Init => RunsInv /\ ValuesInv
    BY RunsInit, ValuesInit
  <2>2. (RunsInv /\ ValuesInv) /\ [Next]_vars => (RunsInv /\ ValuesInv)'
    BY RunsStep, ValuesStep
  <2>3. QED
    BY <2>1, <2>2, PTL DEF Spec
<1>2. RunsInv /\ ValuesInv => TypeOK
  <2> SUFFICES ASSUME RunsInv, ValuesInv PROVE TypeOK
    OBVIOUS
  <2>1. \A t \in Tickers : DOMAIN adj[t] \subseteq 0..MaxDay
    <3> TAKE t \in Tickers
    <3>1. DOMAIN adj[t] \subseteq 0..raw[t] /\ raw[t] \in -1..MaxDay
      BY DEF RunsInv, TableInv, ShapeInv, Days
    <3>2. 0..raw[t] \subseteq 0..MaxDay
      BY <3>1, DaysFacts
    <3>3. QED
      BY <3>1, <3>2
  <2>2. QED
    BY <2>1 DEF RunsInv, ValuesInv, ShapeInv, RunType, Days, TypeOK
<1>3. QED
  BY <1>1, <1>2, PTL

-----------------------------------------------------------------------------
(* The adjusted series is flat.  A split that takes effect on a day scales   *)
(* the close before it by the ratio that the adjustment takes out again, and *)
(* a dividend raises it by the amount that the adjustment takes off: the     *)
(* adjusted prices of a day and of the next one are the same.                *)

LEMMA ProductAtLeast ==
    ASSUME NEW a \in Int, NEW b \in Int, NEW z \in Positive, a <= b
    PROVE  a * z <= b * z
  BY DEF Positive

LEMMA QuotientIs ==
    ASSUME NEW x \in Int, NEW z \in Positive, NEW q \in Int, q * z <= x, x < (q + 1) * z
    PROVE  x \div z = q
<1> DEFINE p == x \div z
<1>1. p \in Int /\ p * z <= x /\ x < (p + 1) * z
  BY DEF Positive
<1> HIDE DEF p
<1>2. /\ p * z \in Int /\ q * z \in Int /\ (p + 1) * z \in Int /\ (q + 1) * z \in Int
      /\ p + 1 \in Int /\ q + 1 \in Int
  BY <1>1 DEF Positive
<1>3. ASSUME q + 1 <= p PROVE FALSE
  <2>1. (q + 1) * z <= p * z
    BY <1>1, <1>2, <1>3, ProductAtLeast
  <2>2. QED
    BY <1>1, <1>2, <2>1
<1>4. ASSUME p + 1 <= q PROVE FALSE
  <2>1. (p + 1) * z <= q * z
    BY <1>1, <1>2, <1>4, ProductAtLeast
  <2>2. QED
    BY <1>1, <1>2, <2>1
<1>5. p = q
  BY <1>1, <1>3, <1>4
<1>6. QED
  BY <1>5 DEF p

LEMMA CommonFactor ==
    ASSUME NEW a \in Int, NEW b \in Positive, NEW n \in Positive
    PROVE  (n * a) \div (n * b) = a \div b
<1> DEFINE q == a \div b
<1>1. q \in Int /\ q * b <= a /\ a < (q + 1) * b
  BY DEF Positive
<1> HIDE DEF q
<1>2. n * b \in Positive /\ n * a \in Int
  BY DEF Positive
<1>3. q * (n * b) <= n * a
  <2>1. (q * b) * n <= a * n
    <3>1. q * b \in Int
      BY <1>1 DEF Positive
    <3>2. QED
      BY <1>1, <3>1, ProductAtLeast
  <2>2. (q * b) * n = q * (n * b) /\ a * n = n * a
    BY <1>1 DEF Positive
  <2>3. QED
    BY <2>1, <2>2
<1>4. n * a < (q + 1) * (n * b)
  <2> DEFINE y == (q + 1) * b
  <2>1. y \in Int /\ a + 1 <= y
    BY <1>1 DEF Positive
  <2>2. y * n = (q + 1) * (n * b)
    BY <1>1 DEF Positive
  <2> HIDE DEF y
  <2>3. (a + 1) * n <= y * n
    BY <2>1, ProductAtLeast
  <2>4. (a + 1) * n = n * a + n /\ n > 0 /\ y * n \in Int
    BY <2>1 DEF Positive
  <2>5. n * a < y * n
    BY <1>2, <2>3, <2>4 DEF Positive
  <2>6. QED
    BY <2>2, <2>5
<1>5. (n * a) \div (n * b) = q
  <2> DEFINE x == n * a
             z == n * b
  <2>1. x \in Int /\ z \in Positive /\ q * z <= x /\ x < (q + 1) * z
    BY <1>2, <1>3, <1>4
  <2> HIDE DEF x, z
  <2>2. x \div z = q
    BY <1>1, <2>1, QuotientIs
  <2>3. QED
    BY <2>2 DEF x, z
<1>6. QED
  BY <1>5 DEF q

LEMMA ExactQuotient ==
    ASSUME NEW x \in Int, NEW q \in Positive, x % q = 0
    PROVE  x \div q \in Int /\ (x \div q) * q = x
  BY DEF Positive

\* Scaling a close by n/q and adjusting the result by (d * q)/(m * n) is to adjust
\* it by d/m.
LEMMA SplitUndone ==
    ASSUME NEW c \in Int, NEW n \in Positive, NEW q \in Positive,
           NEW d \in Positive, NEW m \in Positive, (c * n) % q = 0
    PROVE  (((c * n) \div q) * (d * q)) \div (m * n) = (c * d) \div m
<1> DEFINE y == (c * n) \div q
<1>1. c * n \in Int
  BY DEF Positive
<1>2. y \in Int /\ y * q = c * n
  BY <1>1, ExactQuotient
<1> HIDE DEF y
<1>3. y * (d * q) = n * (c * d)
  <2>1. y * (d * q) = d * (y * q)
    BY <1>2 DEF Positive
  <2>2. d * (c * n) = n * (c * d)
    BY DEF Positive
  <2>3. QED
    BY <1>2, <2>1, <2>2
<1>4. m * n = n * m /\ c * d \in Int
  BY DEF Positive
<1>5. (n * (c * d)) \div (n * m) = (c * d) \div m
  BY <1>4, CommonFactor
<1>6. (y * (d * q)) \div (m * n) = (c * d) \div m
  BY <1>3, <1>4, <1>5
<1>7. QED
  BY <1>6 DEF y

\* The splits of the list that come after a day are those of the next day and
\* those after it, and so are the dividends.
LEMMA LaterActions ==
    ASSUME NEW t \in Tickers, NEW s \in Int, NEW d \in Int, NEW e \in Nat, e <= s, e <= d
    PROVE  LET L == Listed(t, s, d)
               S == Later(Splits(L), e + 1)
               D == Later(Dividends(L), e + 1)
           IN  /\ Later(Splits(L), e) = S \cup ActionsOn(t, e + 1, "split")
               /\ S \cap ActionsOn(t, e + 1, "split") = {}
               /\ Later(Dividends(L), e) = D \cup ActionsOn(t, e + 1, "dividend")
               /\ D \cap ActionsOn(t, e + 1, "dividend") = {}
               /\ S \in SUBSET Splits(Parsed(Published, t)) /\ D \in SUBSET Published
               /\ ActionsOn(t, e + 1, "split") \in SUBSET Splits(Parsed(Published, t))
               /\ ActionsOn(t, e + 1, "dividend") \in SUBSET Dividends(Parsed(Published, t))
<1> DEFINE L == Listed(t, s, d)
           P == Parsed(Published, t)
<1>1. P \subseteq Published /\ \A a \in P : a.ts \in Int
  BY CorporateActionsAssumption DEF Parsed
<1>2. /\ Splits(L) = {a \in P : a.kind = "split" /\ a.ts <= s + 1}
      /\ Dividends(L) = {a \in P : a.kind = "dividend" /\ a.ts <= d + 1}
  BY DEF Listed, Parsed, Splits, Dividends, Visible
<1>3. /\ ActionsOn(t, e + 1, "split") = {a \in P : a.ts = e + 1 /\ a.kind = "split"}
      /\ ActionsOn(t, e + 1, "dividend") = {a \in P : a.ts = e + 1 /\ a.kind = "dividend"}
  BY DEF ActionsOn
<1> HIDE DEF L, P
<1>4. /\ Later(Splits(L), e) = Later(Splits(L), e + 1) \cup ActionsOn(t, e + 1, "split")
      /\ Later(Dividends(L), e) = Later(Dividends(L), e + 1) \cup ActionsOn(t, e + 1, "dividend")
  BY <1>1, <1>2, <1>3 DEF Later
<1>5. /\ Later(Splits(L), e + 1) \cap ActionsOn(t, e + 1, "split") = {}
      /\ Later(Dividends(L), e + 1) \cap ActionsOn(t, e + 1, "dividend") = {}
  BY <1>1, <1>2, <1>3 DEF Later
<1>6. /\ Later(Splits(L), e + 1) \in SUBSET Splits(P) /\ Later(Dividends(L), e + 1) \in SUBSET Published
      /\ ActionsOn(t, e + 1, "split") \in SUBSET Splits(P)
      /\ ActionsOn(t, e + 1, "dividend") \in SUBSET Dividends(P)
  BY <1>1, <1>2, <1>3 DEF Later, Splits, Dividends
<1>7. QED
  BY <1>4, <1>5, <1>6 DEF L, P

\* A day and the next one, both before the lists end, have one adjusted price.
LEMMA FlatStep ==
    ASSUME NEW t \in Tickers, DividendsAfterSplits(t), NEW s \in Int, NEW d \in Int,
           NEW e \in 0..MaxDay, e # MaxDay, e <= s, e <= d
    PROVE  apply_adjustment(RawClose[t][e], e, Listed(t, s, d))
             = apply_adjustment(RawClose[t][e + 1], e + 1, Listed(t, s, d))
<1> DEFINE L == Listed(t, s, d)
           S1 == Later(Splits(L), e + 1)
           S0 == Later(Splits(L), e)
           D1 == Later(Dividends(L), e + 1)
           D0 == Later(Dividends(L), e)
           SP == ActionsOn(t, e + 1, "split")
           DV == ActionsOn(t, e + 1, "dividend")
           c == RawClose[t][e + 1]
           n == Product(SP, LAMBDA a : a.num)
           q == Product(SP, LAMBDA a : a.den)
           m1 == Product(S1, LAMBDA a : a.num)
           d1 == Product(S1, LAMBDA a : a.den)
           x == MapThenSumSet(LAMBDA a : a.num, DV)
           x1 == MapThenSumSet(LAMBDA a : a.num, D1)
<1>1. e \in Nat /\ e + 1 \in 1..MaxDay /\ e + 1 \in 0..MaxDay /\ MaxDay \in Nat
  BY CorporateActionsAssumption
<1>2. /\ S0 = S1 \cup SP /\ S1 \cap SP = {} /\ D0 = D1 \cup DV /\ D1 \cap DV = {}
      /\ S1 \in SUBSET Splits(Parsed(Published, t)) /\ SP \in SUBSET Splits(Parsed(Published, t))
      /\ D1 \in SUBSET Published /\ DV \in SUBSET Dividends(Parsed(Published, t))
  BY <1>1, LaterActions
<1>3. c \in Int /\ RawClose[t][e] = (c * n) \div q + x
  BY <1>1, RawCloseInt DEF DayBefore
<1>4. (c * n) % q = 0
  BY <1>1, ClosesAreExact
<1>5. /\ apply_adjustment(c, e + 1, L) = (c * d1) \div m1 - x1
      /\ apply_adjustment(RawClose[t][e], e, L)
           = (RawClose[t][e] * Product(S0, LAMBDA a : a.den)) \div Product(S0, LAMBDA a : a.num)
               - MapThenSumSet(LAMBDA a : a.num, D0)
  BY DEF apply_adjustment, apply_dividend_adjustment, apply_split_adjustment
<1>6. /\ S1 \in SUBSET Published /\ SP \in SUBSET Published /\ DV \in SUBSET Published
      /\ \A a \in S1 \cup SP : a.num > 0
  <2>1. \A a \in Splits(Parsed(Published, t)) : a \in Published /\ a.num > 0
    BY DEF Splits, Parsed
  <2>2. \A a \in Dividends(Parsed(Published, t)) : a \in Published
    BY DEF Dividends, Parsed
  <2> HIDE DEF S1, SP, DV
  <2>3. QED
    BY <1>2, <2>1, <2>2
<1>7. DV # {} => S1 = {} /\ SP = {}
  <2> SUFFICES ASSUME DV # {} PROVE S1 = {} /\ SP = {}
    OBVIOUS
  <2>1. PICK v \in DV : TRUE
    OBVIOUS
  <2>2. v.ts = e + 1 /\ v \in Dividends(Parsed(Published, t))
    BY <1>2 DEF ActionsOn
  <2>3. \A a \in Splits(Parsed(Published, t)) : a.ts < e + 1
    BY <2>2 DEF DividendsAfterSplits
  <2>4. (\A a \in SP : a.ts = e + 1) /\ (\A a \in S1 : a.ts > e + 1)
    BY DEF ActionsOn, Later
  <2>5. \A a \in Splits(Parsed(Published, t)) : a.ts \in Int
    BY CorporateActionsAssumption DEF Splits, Parsed
  <2> HIDE DEF S1, SP
  <2>6. QED
    BY <1>1, <1>2, <2>3, <2>4, <2>5
<1> HIDE DEF L, S0, S1, D0, D1, SP, DV, c
<1>8. /\ m1 \in Positive /\ n \in Positive /\ d1 \in Positive /\ q \in Positive
      /\ Product({}, LAMBDA a : a.num) = 1 /\ Product({}, LAMBDA a : a.den) = 1
      /\ Product(S0, LAMBDA a : a.num) = m1 * n /\ Product(S0, LAMBDA a : a.den) = d1 * q
  BY <1>2, <1>6, FactorsUnion
<1>9. /\ x1 \in Int /\ x \in Int /\ MapThenSumSet(LAMBDA a : a.num, {}) = 0
      /\ MapThenSumSet(LAMBDA a : a.num, D0) = x1 + x
  BY <1>2, <1>6, AmountsUnion
<1>10. /\ DV = {} => x = 0
       /\ DV # {} => m1 = 1 /\ n = 1 /\ d1 = 1 /\ q = 1
  BY <1>7, <1>8, <1>9
<1> HIDE DEF n, q, m1, d1, x, x1
<1> DEFINE y == (c * n) \div q
           z == (c * d1) \div m1
<1>11. y \in Int /\ z \in Int
  <2>1. n \in Nat \ {0} /\ q \in Nat \ {0} /\ d1 \in Nat \ {0} /\ m1 \in Nat \ {0}
    BY <1>8 DEF Positive
  <2>2. QED
    BY <1>3, <2>1, ScaledInt
<1>12. ((y + x) * (d1 * q)) \div (m1 * n) = z + x
  <2>1. CASE DV = {}
    <3>1. (y * (d1 * q)) \div (m1 * n) = z
      BY <1>3, <1>4, <1>8, SplitUndone
    <3> HIDE DEF y, z
    <3>2. x = 0 /\ y + x = y /\ z + x = z
      BY <1>10, <1>11, <2>1
    <3>3. QED
      BY <3>1, <3>2
  <2>2. CASE DV # {}
    <3>1. m1 = 1 /\ n = 1 /\ d1 = 1 /\ q = 1
      BY <1>10, <2>2
    <3>2. y = c /\ z = c
      BY <1>3, <3>1
    <3>3. (c + x) * (1 * 1) = c + x /\ 1 * 1 = 1 /\ (c + x) \div 1 = c + x
      BY <1>3, <1>9
    <3> HIDE DEF y, z
    <3>4. QED
      BY <3>1, <3>2, <3>3
  <2>3. QED
    BY <2>1, <2>2
<1>13. RawClose[t][e] = y + x
  BY <1>3
<1> HIDE DEF y
<1>14. apply_adjustment(RawClose[t][e], e, L) = ((y + x) * (d1 * q)) \div (m1 * n) - (x1 + x)
  BY <1>5, <1>8, <1>9, <1>13
<1>15. apply_adjustment(c, e + 1, L) = z - x1
  BY <1>5
<1> HIDE DEF z
<1>16. apply_adjustment(RawClose[t][e], e, L) = (z + x) - (x1 + x)
  BY <1>12, <1>14
<1>17. (z + x) - (x1 + x) = z - x1
  BY <1>9, <1>11
<1>18. QED
  BY <1>15, <1>16, <1>17 DEF L, c

LEMMA FlatRows ==
    ASSUME NEW t \in Tickers, DividendsAfterSplits(t), NEW s \in Int, NEW d \in Int,
           NEW days \in SUBSET (0..MaxDay), \A e \in days : e <= s + 1 /\ e <= d + 1
    PROVE  \A e, f \in days :
              Adjusted(t, days, Listed(t, s, d))[e] = Adjusted(t, days, Listed(t, s, d))[f]
<1> DEFINE P(e) == apply_adjustment(RawClose[t][e], e, Listed(t, s, d))
           Bad == {e \in 0..MaxDay : e <= s + 1 /\ e <= d + 1 /\ P(e) # P(0)}
<1>1. ASSUME NEW e \in 0..MaxDay, e # MaxDay, e <= s, e <= d PROVE P(e) = P(e + 1)
  BY <1>1, FlatStep
<1> HIDE DEF P
<1>2. ASSUME Bad # {} PROVE FALSE
  <2>1. Bad \subseteq Nat
    OBVIOUS
  <2>2. PICK m \in Bad : \A y \in Bad : m <= y
    <3> HIDE DEF Bad
    <3> QED
      BY <1>2, <2>1, NatMin
  <2>3. m \in 0..MaxDay /\ m <= s + 1 /\ m <= d + 1 /\ P(m) # P(0) /\ MaxDay \in Nat
    BY CorporateActionsAssumption
  <2>4. m # 0
    BY <2>3
  <2>5. m - 1 \notin Bad
    <3> HIDE DEF Bad
    <3> QED
      BY <2>2, <2>3
  <2>6. m - 1 \in 0..MaxDay /\ m - 1 # MaxDay /\ m - 1 <= s /\ m - 1 <= d /\ m - 1 + 1 = m
    BY <2>3, <2>4
  <2>7. P(m - 1) = P(0)
    <3>1. m - 1 <= s + 1 /\ m - 1 <= d + 1
      BY <2>6
    <3>2. QED
      BY <2>5, <2>6, <3>1
  <2>8. P(m - 1) = P((m - 1) + 1) /\ (m - 1) + 1 = m
    BY <1>1, <2>6
  <2>9. QED
    BY <2>3, <2>7, <2>8
<1>3. \A e \in days : Adjusted(t, days, Listed(t, s, d))[e] = P(e)
  BY DEF Adjusted, P
<1>4. \A e \in days : P(e) = P(0)
  BY <1>2
<1>5. QED
  BY <1>3, <1>4

Flat(rows) == \A d, e \in DOMAIN rows : rows[d] = rows[e]

\* A run sees at most one midnight, so its lists have every action up to the newest
\* bar if they are whole; the rows it is about to write are then flat, and they
\* replace all of the table.
FlatInv ==
    /\ run.pc # "idle" => today <= run.start + 1
    /\ /\ run.pc = "write" /\ NoTable \notin {run.splits, run.dividends}
       /\ DividendsAfterSplits(run.cur)
       => Flat(run.rows)
    /\ \A t \in Tickers : t \notin bare /\ DividendsAfterSplits(t) => Flat(adj[t])

LEMMA FlatInit == Init => FlatInv
<1> SUFFICES ASSUME Init PROVE FlatInv
  OBVIOUS
<1>1. adj = [t \in Tickers |-> <<>>] /\ run.pc = "idle"
  BY DEF Init, Idle
<1>2. QED
  BY <1>1 DEF FlatInv, Flat

LEMMA AdjustFlat ==
    ASSUME RunsInv, FlatInv, Adjust
    PROVE  FlatInv'
<1> DEFINE t == run.cur
           rows == Adjusted(t, 0..raw[t], Actions(t))
<1>1. /\ run.pc = "apply" /\ adj' = adj /\ today' = today /\ RunType(run)
      /\ IF Actions(t) = {} \/ raw[t] = Null
         THEN run' = Done(run, t) /\ bare' = Served(t)
         ELSE /\ run' = IF \E d \in DOMAIN rows : rows[d] < 0 THEN Failed(run)
                        ELSE [run EXCEPT !.pc = "write", !.rows = rows]
              /\ UNCHANGED bare
  BY DEF Adjust, RunsInv, ShapeInv
<1>2. /\ t \in Tickers /\ raw[t] \in -1..MaxDay /\ MaxDay \in Nat
      /\ run.splits # Null /\ run.dividends # Null
  BY <1>1, DaysFacts DEF RunsInv, RunInv, ShapeInv, Days
<1>3. ASSUME NoTable \notin {run.splits, run.dividends}
      PROVE  /\ raw[t] <= run.splits + 1 /\ raw[t] <= run.dividends + 1
             /\ run.splits \in Int /\ run.dividends \in Int
  <2>0. run.splits >= 0 /\ run.dividends >= 0
    BY <1>1, <1>2, <1>3, DaysFacts DEF RunType
  <2>1. /\ run.start <= run.splits /\ run.start <= run.dividends
        /\ raw[t] <= today /\ today <= run.start + 1
    BY <1>1, <1>2, <2>0 DEF RunsInv, RunInv, TableInv, FlatInv
  <2>2. run.start \in Int /\ run.splits \in Int /\ run.dividends \in Int /\ today \in Int
    BY <1>1, DaysFacts DEF RunsInv, ShapeInv, RunType
  <2>3. QED
    BY <1>2, <2>1, <2>2
<1>4. ASSUME NoTable \notin {run.splits, run.dividends}, DividendsAfterSplits(t)
      PROVE  Flat(rows)
  <2>1. Actions(t) = Listed(t, run.splits, run.dividends) /\ DOMAIN rows = 0..raw[t]
    BY DEF Actions, Adjusted
  <2>2. 0..raw[t] \in SUBSET (0..MaxDay) /\ \A e \in 0..raw[t] : e <= run.splits + 1 /\ e <= run.dividends + 1
    BY <1>2, <1>3, <1>4
  <2>3. \A e, f \in 0..raw[t] : rows[e] = rows[f]
    <3> DEFINE days == 0..raw[t]
               s == run.splits
               d == run.dividends
    <3>1. /\ t \in Tickers /\ s \in Int /\ d \in Int /\ days \in SUBSET (0..MaxDay)
          /\ \A e \in days : e <= s + 1 /\ e <= d + 1
      BY <1>2, <1>3, <1>4, <2>2
    <3>2. rows = Adjusted(t, days, Listed(t, s, d))
      BY <2>1
    <3> HIDE DEF t, s, d, days, rows
    <3>3. \A e, f \in days : Adjusted(t, days, Listed(t, s, d))[e] = Adjusted(t, days, Listed(t, s, d))[f]
      BY ONLY <3>1, FlatRows, <1>4
    <3>4. \A e, f \in days : rows[e] = rows[f]
      BY <3>2, <3>3
    <3>5. QED
      BY <3>4 DEF days
  <2> HIDE DEF rows
  <2>4. QED
    BY <2>1, <2>3 DEF Flat
<1> HIDE DEF rows
<1>5. /\ Done(run, t).pc = "next" /\ Done(run, t).start = run.start
      /\ Failed(run).pc = "next" /\ Failed(run).start = run.start
  BY <1>1, <1>2, DoneFields, FailedFields
<1>6. CASE Actions(t) = {} \/ raw[t] = Null
  <2>1. run'.pc = "next" /\ run'.start = run.start /\ bare' = Served(t)
    BY <1>1, <1>5, <1>6
  <2>2. ASSUME NEW x \in Tickers, x \notin bare', DividendsAfterSplits(x) PROVE Flat(adj[x])
    <3>1. CASE x \notin bare
      BY <2>2, <3>1 DEF FlatInv
    <3>2. CASE x \in bare
      <4>1. x = t /\ NoTable \notin {run.splits, run.dividends}
        BY <2>1, <2>2, <3>2 DEF Served
      <4>2. Listed(run.cur, run.splits, run.dividends) = {} \/ raw[run.cur] = Null
        BY <1>6 DEF Actions
      <4>3. DOMAIN adj[x] = {}
        BY <1>1, <4>1, <4>2, NothingStored
      <4>4. QED
        BY <4>3 DEF Flat
    <3>3. QED
      BY <3>1, <3>2
  <2>3. QED
    BY <1>1, <2>1, <2>2 DEF FlatInv
<1>7. CASE ~(Actions(t) = {} \/ raw[t] = Null)
  <2>1. LET r == [run EXCEPT !.pc = "write", !.rows = rows]
        IN  /\ r.pc = "write" /\ r.start = run.start /\ r.cur = t /\ r.rows = rows
            /\ r.splits = run.splits /\ r.dividends = run.dividends
    BY <1>1 DEF RunType, Shape, Fields
  <2>2. \/ run'.pc = "next" /\ run'.start = run.start
        \/ /\ run'.pc = "write" /\ run'.start = run.start /\ run'.cur = t /\ run'.rows = rows
           /\ run'.splits = run.splits /\ run'.dividends = run.dividends
    BY <1>1, <1>5, <1>7, <2>1
  <2>3. bare' = bare
    BY <1>1, <1>7
  <2>4. QED
    BY <1>1, <1>4, <2>2, <2>3 DEF FlatInv
<1>8. QED
  BY <1>6, <1>7

LEMMA WriteFlat ==
    ASSUME RunsInv, FlatInv, Write
    PROVE  FlatInv'
<1> DEFINE c == run.cur
<1>1. /\ run.pc = "write" /\ run' = Done(run, c) /\ RunType(run) /\ today' = today
      /\ bare' = Served(c)
      /\ adj' = [adj EXCEPT ![c] = upsert_ohlcv_adj(@, run.rows)]
  BY DEF Write, RunsInv, ShapeInv
<1>2. c \in Tickers /\ adj = [t \in Tickers |-> adj[t]] /\ DOMAIN adj[c] \subseteq DOMAIN run.rows
  BY <1>1 DEF RunsInv, RunInv, ShapeInv
<1>3. run'.pc = "next" /\ run'.start = run.start
  BY <1>1, <1>2, DoneFields
<1>4. c \notin bare' /\ DividendsAfterSplits(c) => Flat(run.rows)
  BY <1>1 DEF FlatInv, Served
<1>5. ASSUME NEW t \in Tickers, t \notin bare', DividendsAfterSplits(t) PROVE Flat(adj'[t])
  <2>1. CASE t = c
    <3>1. adj'[t] = upsert_ohlcv_adj(adj[t], run.rows)
      BY <1>1, <1>2, <2>1
    <3>2. DOMAIN adj'[t] = DOMAIN run.rows /\ \A d \in DOMAIN run.rows : adj'[t][d] = run.rows[d]
      BY <1>2, <2>1, <3>1 DEF upsert_ohlcv_adj
    <3>3. QED
      BY <1>4, <1>5, <2>1, <3>2 DEF Flat
  <2>2. CASE t # c
    <3>1. adj'[t] = adj[t] /\ t \notin bare
      BY <1>1, <1>2, <1>5, <2>2 DEF Served
    <3>2. QED
      BY <1>5, <3>1 DEF FlatInv
  <2>3. QED
    BY <2>1, <2>2
<1>6. QED
  BY <1>1, <1>3, <1>5 DEF FlatInv

LEMMA FlatInvStep == RunsInv /\ FlatInv /\ [Next]_vars => FlatInv'
<1> SUFFICES ASSUME RunsInv, FlatInv, [Next]_vars PROVE FlatInv'
  OBVIOUS
<1>1. RunType(run) /\ today \in Int
  BY DaysFacts DEF RunsInv, ShapeInv
<1>2. ASSUME adj' = adj, today' = today, bare' = bare,
             \/ run' = run
             \/ run'.pc = "idle"
             \/ run'.pc \in {"next", "apply"} /\ run'.start = today
             \/ run'.pc \in {"next", "apply"} /\ run'.start = run.start /\ run.pc # "idle"
      PROVE  FlatInv'
  BY <1>1, <1>2 DEF FlatInv
<1>3. Idle.pc = "idle"
  BY DEF Idle
<1>4. ASSUME NEW listed \in SUBSET Tickers, NEW force \in BOOLEAN, Start(listed, force) PROVE FlatInv'
  <2>1. adj' = adj /\ bare' = bare /\ today' = today /\ run'.pc = "next" /\ run'.start = today
    BY <1>4 DEF Start, Idle
  <2>2. QED
    BY <1>2, <2>1
<1>5. ASSUME NEW t \in Tickers, SkipFresh(t) PROVE FlatInv'
  <2>1. adj' = adj /\ bare' = bare /\ today' = today /\ run'.pc = "next" /\ run'.start = run.start /\ run.pc # "idle"
    BY <1>1, <1>5 DEF SkipFresh, RunType, Shape, Fields
  <2>2. QED
    BY <1>2, <2>1
<1>6. ASSUME NEW t \in Tickers, NEW s \in Answers, NEW d \in Answers, Fetch(t, s, d) PROVE FlatInv'
  <2>1. /\ adj' = adj /\ bare' = bare /\ today' = today /\ run'.pc \in {"next", "apply"} /\ run'.start = run.start
        /\ run.pc # "idle"
    BY <1>1, <1>6 DEF Fetch, RunType, Shape, Fields
  <2>2. QED
    BY <1>2, <2>1
<1>7. CASE Adjust
  BY <1>7, AdjustFlat
<1>8. CASE Write
  BY <1>8, WriteFlat
<1>9. CASE WriteFails
  <2>1. adj' = adj /\ bare' = bare /\ today' = today /\ run'.pc = "next" /\ run'.start = run.start /\ run.pc # "idle"
    BY <1>1, <1>9, FailedFields DEF WriteFails
  <2>2. QED
    BY <1>2, <2>1
<1>10. CASE Finish \/ Killed
  <2>1. adj' = adj /\ bare' = bare /\ today' = today /\ run'.pc = "idle"
    BY <1>3, <1>10 DEF Finish, Killed
  <2>2. QED
    BY <1>2, <2>1
<1>11. ASSUME CacheLost \/ (\E t \in Tickers : RawStored(t)) \/ UNCHANGED vars PROVE FlatInv'
  <2>1. adj' = adj /\ bare' = bare /\ today' = today /\ run' = run
    BY <1>11 DEF CacheLost, RawStored, vars
  <2>2. QED
    BY <1>2, <2>1
<1>12. CASE Midnight
  <2>1. adj' = adj /\ bare' = bare /\ run' = run /\ today' = today + 1 /\ run.start \in {Null, today}
    BY <1>12 DEF Midnight
  <2>2. run.pc # "idle" => run.start = today
    BY <2>1 DEF RunsInv, RunInv, Null
  <2>3. QED
    BY <1>1, <2>1, <2>2 DEF FlatInv
<1>13. QED
  BY <1>4, <1>5, <1>6, <1>7, <1>8, <1>9, <1>10, <1>11, <1>12 DEF Next

\* For every list MOEX may publish and every order of runs, failures, kills, empty
\* answers, new bars and midnights, the adjusted rows of a ticker are those of one
\* application of one pair of lists; and if neither was an empty one, and the
\* dividends follow the splits, the series of a ticker moved by corporate actions
\* alone is flat: no row is ever adjusted by other actions than its neighbours.
THEOREM SeriesStaysFlat == Spec => []AdjustedSeriesIsContinuous
<1>1. Init => RunsInv /\ FlatInv
  BY RunsInit, FlatInit
<1>2. (RunsInv /\ FlatInv) /\ [Next]_vars => (RunsInv /\ FlatInv)'
  BY RunsStep, FlatInvStep
<1>3. RunsInv /\ FlatInv => AdjustedSeriesIsContinuous
  <2> SUFFICES ASSUME RunsInv, FlatInv, NEW t \in Tickers
               PROVE  /\ \E s, d \in ListDays : adj[t] = Adjusted(t, DOMAIN adj[t], Listed(t, s, d))
                      /\ t \notin bare /\ DividendsAfterSplits(t) =>
                            \A d, e \in DOMAIN adj[t] : adj[t][d] = adj[t][e]
    BY DEF AdjustedSeriesIsContinuous
  <2>1. \E s, d \in ListDays : adj[t] = Adjusted(t, DOMAIN adj[t], Listed(t, s, d))
    <3>1. CASE DOMAIN adj[t] # {}
      BY <3>1 DEF RunsInv, TableInv
    <3>2. CASE DOMAIN adj[t] = {}
      <4>1. adj[t] = [e \in DOMAIN adj[t] |-> adj[t][e]]
        BY DEF RunsInv, TableInv
      <4>2. adj[t] = Adjusted(t, DOMAIN adj[t], Listed(t, Null, Null))
        BY <3>2, <4>1 DEF Adjusted
      <4>3. Null \in ListDays
        BY DaysFacts
      <4>4. QED
        BY <4>2, <4>3
    <3>3. QED
      BY <3>1, <3>2
  <2>2. t \notin bare /\ DividendsAfterSplits(t) => Flat(adj[t])
    BY DEF FlatInv
  <2>3. QED
    BY <2>1, <2>2 DEF Flat
<1>4. QED
  BY <1>1, <1>2, <1>3, PTL DEF Spec

-----------------------------------------------------------------------------
(* The token bucket.  BudgetInv is inductive.                                 *)

\* The floor of __post_init__: a bucket can always hold a whole token.
LEMMA CapacityHoldsAToken == Capacity \in Nat /\ Capacity >= Unit
BY BucketAssumption DEF Capacity

\* _refill_locked never loses a token, never passes the capacity and never adds
\* more than the rate allows.
LEMMA RefillBounds ==
    ASSUME BucketTypeOK
    PROVE  /\ Refilled \in Nat /\ tokens <= Refilled /\ Refilled <= Capacity
           /\ Refilled <= tokens + Rate * (now - last)
<1>1. (now - last) * Rate \in Nat /\ (now - last) * Rate = Rate * (now - last)
  BY BucketAssumption DEF BucketTypeOK
<1>2. Capacity \in Nat
  BY CapacityHoldsAToken
<1>3. QED
  BY <1>1, <1>2 DEF BucketTypeOK, Refilled

\* The delay asked of time.sleep is a whole number of ticks, never negative.
LEMMA DelaysAreNat ==
    ASSUME BucketTypeOK, Refilled < Unit
    PROVE  Delays \subseteq Nat
<1>1. Refilled \in Nat
  BY RefillBounds
<1> DEFINE missing == Unit - Refilled
<1>2. missing \in Nat /\ missing + Rate - 1 \in Nat
  BY <1>1, BucketAssumption
<1> HIDE DEF missing
<1>3. missing \div Rate \in Nat /\ (missing + Rate - 1) \div Rate \in Nat
  BY <1>2, BucketAssumption
<1>4. QED
  BY <1>3 DEF Delays, missing

\* __post_init__ leaves a full bucket within its capacity.
LEMMA BucketTypeInit == BucketInit => BucketTypeOK
BY CapacityHoldsAToken DEF BucketInit, BucketTypeOK

\* Every operation keeps the bucket within its capacity and its clock behind now.
LEMMA BucketTypeStep == BucketTypeOK /\ [BucketNext]_bucketVars => BucketTypeOK'
<1> SUFFICES ASSUME BucketTypeOK, [BucketNext]_bucketVars PROVE BucketTypeOK'
  OBVIOUS
<1> USE DEF BucketTypeOK
<1>c. Capacity \in Nat /\ Capacity' = Capacity /\ Unit \in Nat
  BY CapacityHoldsAToken, BucketAssumption DEF Capacity
<1>r. Refilled \in Nat /\ Refilled <= Capacity
  BY RefillBounds
<1>1. CASE Peek
  BY <1>1, <1>c, <1>r DEF Peek, clock
<1>2. CASE Tick
  <2>1. now' \in Nat /\ last' \in 0..now'
    BY <1>2 DEF Tick
  <2>2. before' \in [0..now' -> Nat]
    BY <1>2 DEF Tick
  <2>3. QED
    BY <1>2, <1>c, <2>1, <2>2 DEF Tick
<1>3. ASSUME NEW t \in Threads, Call(t) PROVE BucketTypeOK'
  BY <1>3, <1>c DEF Call, clock
<1>4. ASSUME NEW t \in Threads, Take(t) PROVE BucketTypeOK'
  <2>1. tokens' \in Nat /\ tokens' <= Capacity
    BY <1>4, <1>c, <1>r, BucketAssumption DEF Take
  <2>2. QED
    BY <1>4, <1>c, <2>1 DEF Take, clock
<1>5. ASSUME NEW t \in Threads, Sleep(t) PROVE BucketTypeOK'
  <2>1. PICK d \in Delays : wake' = [wake EXCEPT ![t] = now + d]
    BY <1>5 DEF Sleep
  <2>2. d \in Nat
    BY <1>5, <2>1, DelaysAreNat DEF Sleep
  <2>3. wake' \in [Threads -> Nat]
    BY <2>1, <2>2
  <2>4. QED
    BY <1>5, <1>c, <1>r, <2>3 DEF Sleep, clock
<1>6. ASSUME NEW t \in Threads, GiveUp(t) PROVE BucketTypeOK'
  BY <1>6, <1>c, <1>r DEF GiveUp, clock
<1>7. CASE UNCHANGED bucketVars
  BY <1>7, <1>c DEF bucketVars, clock
<1>8. QED
  BY <1>1, <1>2, <1>3, <1>4, <1>5, <1>6, <1>7 DEF BucketNext, Acquire

\* The bucket never holds more than its capacity, its clock never runs ahead, and
\* every sleeper has a wake-up time.
THEOREM BucketTypeCorrect == BucketSpec => []BucketTypeOK
BY BucketTypeInit, BucketTypeStep, PTL DEF BucketSpec

-----------------------------------------------------------------------------
\* A new bucket has granted nothing.
LEMMA BudgetInit == BucketInit => BudgetInv
<1> SUFFICES ASSUME BucketInit PROVE BudgetInv
  OBVIOUS
<1>1. now = 0 /\ last = 0 /\ granted = 0 /\ before[0] = 0 /\ tokens = Capacity
  BY DEF BucketInit
<1>2. QED
  BY <1>1, CapacityHoldsAToken, BucketAssumption DEF BudgetInv

\* A refill of the bucket keeps every budget.
LEMMA RefillKeepsBudget ==
    ASSUME BucketTypeOK, BudgetInv, NEW s \in 0..now
    PROVE  Unit * (granted - before[s]) + Refilled <= Capacity + Rate * (now - s)
<1>1. /\ Refilled \in Nat /\ Refilled <= Capacity
      /\ Refilled <= tokens + Rate * (now - last)
  BY RefillBounds
<1>2. Capacity \in Nat /\ Unit \in Nat /\ Rate \in Nat
  BY CapacityHoldsAToken, BucketAssumption
<1>3. /\ now \in Nat /\ last \in Nat /\ s \in Nat /\ tokens \in Nat
      /\ granted \in Nat /\ before[s] \in Nat /\ last <= now /\ s <= now
  BY DEF BucketTypeOK
<1>4. CASE s <= last
  <2>1. Unit * (granted - before[s]) + tokens <= Capacity + Rate * (last - s)
    BY <1>4 DEF BudgetInv
  <2>2. Rate * (now - s) = Rate * (last - s) + Rate * (now - last)
    BY <1>2, <1>3
  <2> DEFINE spent == Unit * (granted - before[s])
             due   == Rate * (last - s)
             since == Rate * (now - last)
  <2>3. spent \in Int /\ due \in Int /\ since \in Int
    BY <1>2, <1>3
  <2>4. spent + tokens <= Capacity + due
    BY <2>1
  <2>5. Refilled <= tokens + since
    BY <1>1
  <2> HIDE DEF spent, due, since
  <2>6. spent + Refilled <= Capacity + (due + since)
    BY <2>3, <2>4, <2>5, <1>1, <1>2, <1>3
  <2>7. QED
    BY <2>6, <2>2 DEF spent, due, since
<1>5. CASE ~(s <= last)
  <2>1. granted = before[s]
    BY <1>5 DEF BudgetInv
  <2>2. Unit * (granted - before[s]) = 0
    BY <2>1, <1>2, <1>3
  <2>3. Rate * (now - s) \in Nat
    BY <1>2, <1>3
  <2>4. QED
    BY <1>1, <1>2, <2>2, <2>3
<1>6. QED
  BY <1>4, <1>5

\* No operation grants what was neither there at s nor refilled since.
LEMMA BudgetStep == BucketTypeOK /\ BudgetInv /\ [BucketNext]_bucketVars => BudgetInv'
<1> SUFFICES ASSUME BucketTypeOK, BudgetInv, [BucketNext]_bucketVars PROVE BudgetInv'
  OBVIOUS
<1>c. Capacity' = Capacity /\ Capacity \in Nat /\ Unit \in Nat /\ Rate \in Nat
  BY CapacityHoldsAToken, BucketAssumption DEF Capacity
<1>t. now \in Nat /\ granted \in Nat /\ Refilled \in Nat /\ before \in [0..now -> Nat]
  BY RefillBounds DEF BucketTypeOK
<1>r. ASSUME tokens' = Refilled, last' = now, UNCHANGED <<now, before, granted>>
      PROVE  BudgetInv'
  <2>1. \A s \in 0..now : Unit * (granted - before[s]) + Refilled <= Capacity + Rate * (now - s)
    BY RefillKeepsBudget
  <2>2. QED
    BY <1>r, <1>c, <1>t, <2>1 DEF BudgetInv
<1>1. CASE Peek
  BY <1>1, <1>r DEF Peek, clock
<1>2. CASE Tick
  <2> SUFFICES ASSUME NEW s \in 0..(now + 1)
               PROVE  IF s <= last
                      THEN Unit * (granted - before'[s]) + tokens <= Capacity + Rate * (last - s)
                      ELSE granted = before'[s]
    BY <1>2, <1>c DEF Tick, BudgetInv
  <2>1. CASE s = now + 1
    <3>1. before'[s] = granted /\ ~(s <= last)
      BY <1>2, <2>1 DEF Tick, BucketTypeOK
    <3>2. QED
      BY <3>1
  <2>2. CASE s # now + 1
    <3>1. s \in 0..now /\ before'[s] = before[s]
      BY <1>2, <1>t, <2>2 DEF Tick
    <3>2. QED
      BY <3>1 DEF BudgetInv
  <2>3. QED
    BY <2>1, <2>2
<1>3. ASSUME NEW t \in Threads, Call(t) PROVE BudgetInv'
  BY <1>3, <1>c DEF Call, clock, BudgetInv
<1>4. ASSUME NEW t \in Threads, Take(t) PROVE BudgetInv'
  <2>1. \A s \in 0..now : Unit * (granted - before[s]) + Refilled <= Capacity + Rate * (now - s)
    BY RefillKeepsBudget
  <2>2. \A s \in 0..now :
           Unit * (granted + 1 - before[s]) + (Refilled - Unit)
               = Unit * (granted - before[s]) + Refilled
    BY <1>c, <1>t
  <2>3. QED
    BY <1>4, <1>c, <1>t, <2>1, <2>2 DEF Take, clock, BudgetInv
<1>5. ASSUME NEW t \in Threads, Sleep(t) PROVE BudgetInv'
  BY <1>5, <1>r DEF Sleep, clock
<1>6. ASSUME NEW t \in Threads, GiveUp(t) PROVE BudgetInv'
  BY <1>6, <1>r DEF GiveUp, clock
<1>7. CASE UNCHANGED bucketVars
  BY <1>7, <1>c DEF bucketVars, clock, BudgetInv
<1>8. QED
  BY <1>1, <1>2, <1>3, <1>4, <1>5, <1>6, <1>7 DEF BucketNext, Acquire

\* The budget implies the bound on every stretch of time.
LEMMA BudgetBoundsRate == BucketTypeOK /\ BudgetInv => RateBounded
<1> SUFFICES ASSUME BucketTypeOK, BudgetInv, NEW s \in 0..now
             PROVE  Unit * (granted - before[s]) <= Capacity + Rate * (now - s)
  BY DEF RateBounded
<1>1. Unit * (granted - before[s]) + Refilled <= Capacity + Rate * (now - s)
  BY RefillKeepsBudget
<1>2. Refilled \in Nat
  BY RefillBounds
<1>3. Unit * (granted - before[s]) \in Int /\ Capacity + Rate * (now - s) \in Int
  BY CapacityHoldsAToken, BucketAssumption DEF BucketTypeOK
<1>4. QED
  BY <1>1, <1>2, <1>3

\* Whatever the threads do, a bucket never grants more in a stretch of time than
\* a full burst and the refill of that stretch.
THEOREM BucketRateBounded == BucketSpec => []RateBounded
<1>1. BucketInit => BucketTypeOK /\ BudgetInv
  BY BucketTypeInit, BudgetInit
<1>2. BucketTypeOK /\ BudgetInv /\ [BucketNext]_bucketVars => (BucketTypeOK /\ BudgetInv)'
  BY BucketTypeStep, BudgetStep
<1>3. BucketTypeOK /\ BudgetInv => RateBounded
  BY BudgetBoundsRate
<1>4. QED
  BY <1>1, <1>2, <1>3, PTL DEF BucketSpec
=============================================================================
