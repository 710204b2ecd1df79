--------------------------- MODULE DaemonsProofs ---------------------------
(***************************************************************************)
(* Proofs about Daemons for every set of jobs, every schedule and every    *)
(* watchdog setting under which a sync and the sleep before it fit into    *)
(* the watchdog's limit.                                                   *)
(***************************************************************************)
EXTENDS Daemons, TLAPS

Timers == [st : {"asleep", "running", "stuck", "ended"}, left : Nat]

\* TypeOK, and every thread has a timer; a thread ends only in a stopping process.
TimerInv ==
    /\ TypeOK
    /\ job \in [Jobs -> Timers]
    /\ main = "up" => \A j \in Jobs : job[j].st # "ended"

\* While every sync has succeeded, the age of the last success and the time the
\* sync thread still sleeps or runs add up to no more than one round.
RoundInv ==
    /\ job["sync"].st = "stuck" => syncs.failed
    /\ main = "up" /\ syncs.succeeded /\ ~syncs.failed =>
           /\ successAge # NeverRan
           /\ job["sync"].st = "asleep" => successAge + job["sync"].left <= Period["sync"]
           /\ job["sync"].st = "running"
                  => successAge + job["sync"].left <= Period["sync"] + MaxRun["sync"]

\* Until the first sync starts, the age of the container and the rest of its sleep
\* add up to no more than a day.
FirstInv ==
    ~syncs.started => /\ job["sync"].st = "asleep"
                      /\ uptime + job["sync"].left <= Day

-----------------------------------------------------------------------------
Flags == [started : BOOLEAN, succeeded : BOOLEAN, failed : BOOLEAN]

\* The first sleep of a thread is a duration; that of the sync is at most a day.
LEMMA FirstSleepBounds ==
    ASSUME hour \in 0..(Day - 1)
    PROVE  /\ \A j \in Jobs : FirstSleep(j) \in Nat
           /\ FirstSleep("sync") <= Day
<1>1. ASSUME NEW j \in DOMAIN AtHour PROVE FirstSleep(j) \in Nat /\ FirstSleep(j) <= Day
  BY DaemonsAssumption DEF FirstSleep, SecondsUntilTarget
<1>2. ASSUME NEW j \in DOMAIN FirstDelay, j \notin DOMAIN AtHour PROVE FirstSleep(j) \in Nat
  BY <1>2, DaemonsAssumption DEF FirstSleep
<1>3. QED
  BY <1>1, <1>2, DaemonsAssumption

\* What a thread's timer becomes after a run.
LEMMA AfterRunEffect ==
    ASSUME TimerInv, NEW j \in Jobs, AfterRun(j)
    PROVE  /\ job' \in [Jobs -> Timers]
           /\ \A k \in Jobs \ {j} : job'[k] = job[k]
           /\ main = "up" => job'[j].st = "asleep" /\ job'[j].left = Period[j]
           /\ main # "up" => job'[j].st = "ended" /\ job'[j].left = 0
<1>1. Period[j] \in Nat
  BY DaemonsAssumption
<1>2. PICK t \in Timers : /\ job' = [job EXCEPT ![j] = t]
                          /\ main = "up" => t.st = "asleep" /\ t.left = Period[j]
                          /\ main # "up" => t.st = "ended" /\ t.left = 0
  <2>1. CASE main = "up"
    <3>1. Asleep(Period[j]) \in Timers
      BY <1>1 DEF Asleep, Timers
    <3>2. QED
      BY <2>1, <3>1 DEF AfterRun, NextSleep, Asleep
  <2>2. CASE main # "up"
    <3>1. [st |-> "ended", left |-> 0] \in Timers
      BY DEF Timers
    <3>2. QED
      BY <2>2, <3>1 DEF AfterRun
  <2>3. QED
    BY <2>1, <2>2
<1>3. QED
  BY <1>2 DEF TimerInv

\* A change of one thread's timer to t.
LEMMA SetTimer ==
    ASSUME TimerInv, NEW j \in Jobs, NEW t \in Timers, job' = [job EXCEPT ![j] = t]
    PROVE  job' \in [Jobs -> Timers] /\ job'[j] = t /\ \A k \in Jobs \ {j} : job'[k] = job[k]
  BY DEF TimerInv

\* The timers of a starting container.
LEMMA BootedTimers ==
    ASSUME hour \in 0..(Day - 1), NEW J, J = [j \in Jobs |-> Asleep(FirstSleep(j))]
    PROVE  /\ J \in [Jobs -> Timers]
           /\ \A j \in Jobs : J[j].st = "asleep"
           /\ J["sync"].left <= Day
<1>1. ASSUME NEW j \in Jobs
      PROVE  Asleep(FirstSleep(j)) \in Timers /\ Asleep(FirstSleep(j)).st = "asleep"
  BY FirstSleepBounds DEF Asleep, Timers
<1>2. Asleep(FirstSleep("sync")).left <= Day
  BY FirstSleepBounds DEF Asleep
<1>3. QED
  BY <1>1, <1>2, DaemonsAssumption

\* A tick takes one off every timer but that of a wedged thread.
LEMMA TickEffect ==
    ASSUME TimerInv, Tick
    PROVE  /\ job' \in [Jobs -> Timers]
           /\ \A j \in Jobs : /\ job'[j].st = job[j].st
                              /\ job[j].st # "stuck" =>
                                     job[j].left > 0 /\ job'[j].left = job[j].left - 1
<1> DEFINE Next1(t) == IF t.st = "stuck" THEN t ELSE [t EXCEPT !.left = @ - 1]
<1>1. ASSUME NEW t \in Timers, t.st # "stuck" => t.left > 0
      PROVE  /\ Next1(t) \in Timers /\ Next1(t).st = t.st
             /\ t.st # "stuck" => Next1(t).left = t.left - 1
  <2>1. CASE t.st = "stuck"
    BY <2>1
  <2>2. CASE t.st # "stuck"
    <3>1. t.left \in Nat /\ t.left - 1 \in Nat
      BY <1>1, <2>2 DEF Timers
    <3>2. Next1(t) = [t EXCEPT !.left = t.left - 1]
      BY <2>2
    <3>3. QED
      BY <2>2, <3>1, <3>2 DEF Timers
  <2>3. QED
    BY <2>1, <2>2
<1>2. ASSUME NEW j \in Jobs
      PROVE  job[j] \in Timers /\ (job[j].st # "stuck" => job[j].left > 0)
  <2>1. job[j] \in Timers
    BY DEF TimerInv
  <2>2. job[j].left \in Nat
    BY <2>1 DEF Timers
  <2>3. QED
    BY <2>1, <2>2 DEF Tick, Due
<1>3. job' = [j \in Jobs |-> Next1(job[j])]
  BY DEF Tick
<1> HIDE DEF Next1
<1>4. QED
  BY <1>1, <1>2, <1>3

\* TypeOK is a statement about the timers' fields.
LEMMA TimerTypes ==
    ASSUME NEW J \in [Jobs -> Timers]
    PROVE  \A j \in Jobs : J[j].st \in {"asleep", "running", "stuck", "ended"} /\ J[j].left \in Nat
<1>1. ASSUME NEW j \in Jobs PROVE J[j] \in Timers
  OBVIOUS
<1>2. QED
  BY <1>1 DEF Timers

\* Types are kept, and no thread ever sleeps or runs for a negative time.
LEMMA TimerInvariant == Spec => []TimerInv
<1>1. Init => TimerInv
  <2> SUFFICES ASSUME Init PROVE TimerInv
    OBVIOUS
  <2>1. job \in [Jobs -> Timers] /\ \A j \in Jobs : job[j].st = "asleep"
    BY BootedTimers DEF Init
  <2>2. syncs \in Flags
    BY DEF Init, Flags
  <2>3. uptime \in 0..Day /\ beat \in 0..WatchEvery /\ hour \in 0..(Day - 1) /\ main = "up"
        /\ successAge = NeverRan
    BY DaemonsAssumption DEF Init
  <2>4. QED
    BY <2>1, <2>2, <2>3, TimerTypes DEF TimerInv, TypeOK, Flags
<1>2. TimerInv /\ [Next]_vars => TimerInv'
  <2> SUFFICES ASSUME TimerInv, [Next]_vars PROVE TimerInv'
    OBVIOUS
  <2>0. /\ hour \in 0..(Day - 1) /\ main \in {"up", "stopping"}
        /\ uptime \in 0..Day /\ beat \in 0..WatchEvery
        /\ successAge \in {NeverRan} \cup 0..(StaleAfter + 1)
        /\ syncs \in Flags /\ job \in [Jobs -> Timers] /\ "sync" \in Jobs
        /\ Day \in Nat \ {0} /\ WatchEvery \in Nat \ {0} /\ StaleAfter \in Nat
    BY DaemonsAssumption DEF TimerInv, TypeOK, Flags
  <2>1. ASSUME hour' \in 0..(Day - 1), main' \in {"up", "stopping"},
               uptime' \in 0..Day, beat' \in 0..WatchEvery,
               successAge' \in {NeverRan} \cup 0..(StaleAfter + 1), syncs' \in Flags,
               job' \in [Jobs -> Timers],
               main' = "up" => \A j \in Jobs : job'[j].st # "ended"
        PROVE  TimerInv'
    BY <2>1, TimerTypes DEF TimerInv, TypeOK, Flags
  <2>2. CASE Booted
    <3>1. job' \in [Jobs -> Timers] /\ \A j \in Jobs : job'[j].st = "asleep"
      BY <2>0, <2>2, BootedTimers DEF Booted
    <3>2. syncs' \in Flags
      BY <2>2 DEF Booted, Flags
    <3>3. QED
      BY <2>0, <2>1, <2>2, <3>1, <3>2 DEF Booted
  <2>3. CASE Tick
    <3>1. job' \in [Jobs -> Timers] /\ \A j \in Jobs : job'[j].st = job[j].st
      BY <2>3, TickEffect
    <3>2. hour' \in 0..(Day - 1) /\ uptime' \in 0..Day /\ beat' \in 0..WatchEvery
      BY <2>0, <2>3 DEF Tick, AtMost
    <3>3. successAge' \in {NeverRan} \cup 0..(StaleAfter + 1)
      BY <2>0, <2>3 DEF Tick, AtMost, NeverRan
    <3>4. main' = main /\ syncs' = syncs /\ \A j \in Jobs : main' = "up" => job'[j].st # "ended"
      BY <2>3, <3>1 DEF Tick, TimerInv
    <3>5. QED
      BY <2>0, <2>1, <3>1, <3>2, <3>3, <3>4
  <2>4. CASE WatchdogBlind
    BY <2>0, <2>1, <2>4 DEF WatchdogBlind, TimerInv
  <2>5. ASSUME NEW known \in BOOLEAN, WatchdogLooks(known) PROVE TimerInv'
    BY <2>0, <2>1, <2>5 DEF WatchdogLooks, TimerInv
  <2>6. ASSUME NEW status \in {"ok", "failed", "none"}, SyncEnds(status) PROVE TimerInv'
    <3>1. syncs' \in Flags
      BY <2>0, <2>6 DEF SyncEnds, Flags
    <3>2. successAge' \in {NeverRan} \cup 0..(StaleAfter + 1)
      BY <2>0, <2>6 DEF SyncEnds, Stamped
    <3>3. job' \in [Jobs -> Timers] /\ (main = "up" => \A j \in Jobs : job'[j].st # "ended")
      BY <2>0, <2>6, AfterRunEffect DEF SyncEnds, TimerInv
    <3>4. QED
      BY <2>0, <2>1, <2>6, <3>1, <3>2, <3>3 DEF SyncEnds
  <2>7. ASSUME NEW j \in Jobs, Fire(j) PROVE TimerInv'
    <3>1. [st |-> "running", left |-> MaxRun[j]] \in Timers
      BY DaemonsAssumption DEF Timers
    <3>2. job' \in [Jobs -> Timers] /\ \A k \in Jobs : job'[k].st # "ended"
      BY <2>7, <3>1, SetTimer DEF Fire, TimerInv
    <3>3. syncs' \in Flags
      BY <2>0, <2>7 DEF Fire, Flags
    <3>4. QED
      BY <2>0, <2>1, <2>7, <3>2, <3>3 DEF Fire
  <2>8. ASSUME NEW j \in Jobs, OtherEnds(j) PROVE TimerInv'
    <3>1. job' \in [Jobs -> Timers] /\ (main = "up" => \A k \in Jobs : job'[k].st # "ended")
      BY <2>0, <2>8, AfterRunEffect DEF OtherEnds, TimerInv
    <3>2. QED
      BY <2>0, <2>1, <2>8, <3>1 DEF OtherEnds
  <2>9. ASSUME NEW j \in Jobs, TimedOut(j) PROVE TimerInv'
    <3>1. job' \in [Jobs -> Timers] /\ (main = "up" => \A k \in Jobs : job'[k].st # "ended")
      BY <2>0, <2>9, AfterRunEffect DEF TimedOut, TimerInv
    <3>2. syncs' \in Flags
      BY <2>0, <2>9 DEF TimedOut, Flags
    <3>3. QED
      BY <2>0, <2>1, <2>9, <3>1, <3>2 DEF TimedOut
  <2>10. ASSUME NEW j \in Jobs, Wedged(j) PROVE TimerInv'
    <3>1. [st |-> "stuck", left |-> 0] \in Timers
      BY DEF Timers
    <3>2. job' \in [Jobs -> Timers] /\ (main = "up" => \A k \in Jobs : job'[k].st # "ended")
      BY <2>10, <3>1, SetTimer DEF Wedged, TimerInv
    <3>3. syncs' \in Flags
      BY <2>0, <2>10 DEF Wedged, Flags
    <3>4. QED
      BY <2>0, <2>1, <2>10, <3>2, <3>3 DEF Wedged
  <2>11. CASE UNCHANGED vars
    BY <2>0, <2>1, <2>11 DEF vars, TimerInv
  <2>12. QED
    BY <2>2, <2>3, <2>4, <2>5, <2>6, <2>7, <2>8, <2>9, <2>10, <2>11
    DEF Next, Heartbeat, SyncThread, DockerRestarts, ContainerReplaced, Thread
<1>3. QED
  BY <1>1, <1>2, PTL DEF Spec

\* Every variable keeps its type, in particular the sleep to an hour that is past.
THEOREM TypeCorrect == Spec => []TypeOK
<1>1. TimerInv => TypeOK
  BY DEF TimerInv
<1>2. QED
  BY <1>1, TimerInvariant, PTL

-----------------------------------------------------------------------------
\* A step of another thread, or of none, leaves the sync thread's round alone.
LEMMA RoundUntouched ==
    ASSUME RoundInv, job'["sync"] = job["sync"], syncs' = syncs, successAge' = successAge,
           main' = main \/ main' = "stopping"
    PROVE  RoundInv'
  BY DEF RoundInv

\* While every sync succeeds, the last success is never older than a round.
LEMMA RoundInvariant == Spec => [](RoundInv /\ QuietWhileSyncsSucceed)
<1>1. Init => RoundInv /\ QuietWhileSyncsSucceed
  <2> SUFFICES ASSUME Init PROVE RoundInv /\ QuietWhileSyncsSucceed
    OBVIOUS
  <2>1. job["sync"].st = "asleep"
    BY BootedTimers, DaemonsAssumption DEF Init
  <2>2. ~syncs.succeeded /\ main = "up"
    BY DEF Init
  <2>3. QED
    BY <2>1, <2>2 DEF RoundInv, QuietWhileSyncsSucceed
<1>2. TimerInv /\ RoundInv /\ QuietWhileSyncsSucceed /\ [Next]_vars
          => RoundInv' /\ QuietWhileSyncsSucceed'
  <2> SUFFICES ASSUME TimerInv, RoundInv, QuietWhileSyncsSucceed, [Next]_vars
               PROVE  RoundInv' /\ QuietWhileSyncsSucceed'
    OBVIOUS
  <2>0. /\ "sync" \in Jobs /\ job["sync"] \in Timers /\ job["sync"].left \in Nat
        /\ main \in {"up", "stopping"} /\ syncs \in Flags
        /\ successAge \in {NeverRan} \cup 0..(StaleAfter + 1)
        /\ Period["sync"] \in Nat /\ MaxRun["sync"] \in Nat /\ StaleAfter \in Nat
        /\ Period["sync"] + MaxRun["sync"] <= StaleAfter
    BY DaemonsAssumption, TimerTypes DEF TimerInv, TypeOK, Flags
  <2>1. CASE Booted
    <3>1. job'["sync"].st = "asleep"
      BY <2>0, <2>1, BootedTimers DEF Booted, TimerInv, TypeOK
    <3>2. ~syncs'.succeeded /\ main' = "up"
      BY <2>1 DEF Booted
    <3>3. QED
      BY <3>1, <3>2 DEF RoundInv, QuietWhileSyncsSucceed
  <2>2. CASE Tick
    <3>1. /\ job'["sync"].st = job["sync"].st /\ main' = main /\ main = "up" /\ syncs' = syncs
          /\ job["sync"].st # "stuck" =>
                 job["sync"].left > 0 /\ job'["sync"].left = job["sync"].left - 1
      BY <2>0, <2>2, TickEffect DEF Tick
    <3>2. /\ successAge = NeverRan => successAge' = NeverRan
          /\ successAge # NeverRan => successAge' <= successAge + 1 /\ successAge' # NeverRan
                                      /\ successAge' \in Nat
      BY <2>0, <2>2 DEF Tick, AtMost, NeverRan
    <3>3. QED
      BY <2>0, <3>1, <3>2 DEF RoundInv, QuietWhileSyncsSucceed, NeverRan
  <2>3. CASE WatchdogBlind
    BY <2>3, RoundUntouched DEF WatchdogBlind, QuietWhileSyncsSucceed
  <2>4. ASSUME NEW known \in BOOLEAN, WatchdogLooks(known)
        PROVE  RoundInv' /\ QuietWhileSyncsSucceed'
    <3>1. RoundInv'
      BY <2>4, RoundUntouched DEF WatchdogLooks
    <3>2. ASSUME syncs.succeeded, ~syncs.failed PROVE ~StopProcess(known)
      <4>1. main = "up" /\ job["sync"].st \in {"asleep", "running"}
        BY <2>0, <2>4, <3>2 DEF WatchdogLooks, RoundInv, TimerInv, Timers
      <4>2. successAge # NeverRan /\ successAge <= StaleAfter
        BY <2>0, <3>2, <4>1 DEF RoundInv, NeverRan
      <4>3. QED
        BY <2>0, <4>2 DEF StopProcess, NeverRan
    <3>3. QED
      BY <2>4, <3>1, <3>2 DEF WatchdogLooks, QuietWhileSyncsSucceed
  <2>5. ASSUME NEW status \in {"ok", "failed", "none"}, SyncEnds(status)
        PROVE  RoundInv' /\ QuietWhileSyncsSucceed'
    <3>1. main' = main /\ job["sync"].st = "running"
      BY <2>5 DEF SyncEnds
    <3>2. /\ main = "up" => job'["sync"].st = "asleep" /\ job'["sync"].left = Period["sync"]
          /\ job'["sync"].st # "stuck"
      BY <2>0, <2>5, AfterRunEffect DEF SyncEnds
    <3>3. CASE main = "stopping"
      BY <2>5, <3>1, <3>2, <3>3 DEF SyncEnds, RoundInv, QuietWhileSyncsSucceed
    <3>4. CASE main = "up" /\ status = "ok"
      <4>1. successAge' = 0
        BY <2>5, <3>4 DEF SyncEnds, Stamped
      <4>2. QED
        BY <2>0, <3>1, <3>2, <3>4, <4>1 DEF RoundInv, QuietWhileSyncsSucceed, NeverRan
    <3>5. CASE main = "up" /\ status # "ok"
      <4>1. syncs'.failed
        BY <2>0, <2>5, <3>5 DEF SyncEnds, Flags
      <4>2. QED
        BY <3>1, <3>2, <3>5, <4>1 DEF RoundInv, QuietWhileSyncsSucceed
    <3>6. QED
      BY <2>0, <3>3, <3>4, <3>5
  <2>6. ASSUME NEW j \in Jobs, Fire(j) PROVE RoundInv' /\ QuietWhileSyncsSucceed'
    <3>1. main' = main /\ main = "up" /\ successAge' = successAge /\ job[j] = Asleep(0)
      BY <2>6 DEF Fire
    <3>2. syncs'.succeeded = syncs.succeeded /\ syncs'.failed = syncs.failed
      BY <2>0, <2>6 DEF Fire, Flags
    <3>3. CASE j # "sync"
      <4>1. job'["sync"] = job["sync"] /\ syncs' = syncs
        BY <2>0, <2>6, <3>3 DEF Fire, TimerInv
      <4>2. QED
        BY <3>1, <4>1, RoundUntouched DEF QuietWhileSyncsSucceed
    <3>4. CASE j = "sync"
      <4>1. job'["sync"].st = "running" /\ job'["sync"].left = MaxRun["sync"]
        BY <2>0, <2>6, <3>4 DEF Fire, TimerInv
      <4>2. job["sync"].st = "asleep" /\ job["sync"].left = 0
        BY <3>1, <3>4 DEF Asleep
      <4>3. QED
        BY <2>0, <3>1, <3>2, <4>1, <4>2 DEF RoundInv, QuietWhileSyncsSucceed, NeverRan
    <3>5. QED
      BY <3>3, <3>4
  <2>7. ASSUME NEW j \in Jobs, OtherEnds(j) PROVE RoundInv' /\ QuietWhileSyncsSucceed'
    <3>1. job'["sync"] = job["sync"]
      BY <2>0, <2>7, AfterRunEffect DEF OtherEnds
    <3>2. QED
      BY <2>7, <3>1, RoundUntouched DEF OtherEnds, QuietWhileSyncsSucceed
  <2>8. ASSUME NEW j \in Jobs, TimedOut(j) \/ Wedged(j)
        PROVE  RoundInv' /\ QuietWhileSyncsSucceed'
    <3>1. main' = main /\ successAge' = successAge
      BY <2>8 DEF TimedOut, Wedged
    <3>2. CASE j = "sync"
      <4>1. syncs'.failed
        BY <2>0, <2>8, <3>2 DEF TimedOut, Wedged, Flags
      <4>2. QED
        BY <4>1 DEF RoundInv, QuietWhileSyncsSucceed
    <3>3. CASE j # "sync"
      <4>1. syncs' = syncs
        BY <2>8, <3>3 DEF TimedOut, Wedged
      <4>2. job'["sync"] = job["sync"]
        BY <2>0, <2>8, <3>3, AfterRunEffect DEF TimedOut, Wedged, TimerInv
      <4>3. QED
        BY <3>1, <4>1, <4>2, RoundUntouched DEF QuietWhileSyncsSucceed
    <3>4. QED
      BY <3>2, <3>3
  <2>9. CASE UNCHANGED vars
    BY <2>9, RoundUntouched DEF vars, QuietWhileSyncsSucceed
  <2>10. QED
    BY <2>1, <2>2, <2>3, <2>4, <2>5, <2>6, <2>7, <2>8, <2>9
    DEF Next, Heartbeat, SyncThread, DockerRestarts, ContainerReplaced, Thread
<1>3. QED
  BY <1>1, <1>2, TimerInvariant, PTL DEF Spec

\* The watchdog stops no container whose own syncs have all succeeded: a sleep and
\* a run always fit into its limit, however the schedule has drifted.
THEOREM QuietWatchdog == Spec => []QuietWhileSyncsSucceed
  BY RoundInvariant, PTL

-----------------------------------------------------------------------------
\* A step that leaves the sync thread, the age of the container and the record of
\* successes alone, and does not stop the process.
LEMMA FirstUntouched ==
    ASSUME FirstInv, FirstSlotBeforeFirstStop, job'["sync"] = job["sync"], uptime' = uptime,
           syncs'.started = syncs.started, successAge' = successAge, main' = main
    PROVE  FirstInv' /\ FirstSlotBeforeFirstStop'
  BY DEF FirstInv, FirstSlotBeforeFirstStop, Due

\* The container is a day old only once the first sync has started or is due.
LEMMA FirstInvariant == Spec => [](FirstInv /\ FirstSlotBeforeFirstStop)
<1>1. Init => FirstInv /\ FirstSlotBeforeFirstStop
  <2> SUFFICES ASSUME Init PROVE FirstInv /\ FirstSlotBeforeFirstStop
    OBVIOUS
  <2>1. job \in [Jobs -> Timers] /\ job["sync"].st = "asleep" /\ job["sync"].left <= Day
    BY BootedTimers, DaemonsAssumption DEF Init
  <2>2. job["sync"].left \in Nat /\ Day \in Nat
    BY <2>1, TimerTypes, DaemonsAssumption
  <2>3. uptime = 0 /\ main = "up"
    BY DEF Init
  <2>4. QED
    BY <2>1, <2>2, <2>3 DEF FirstInv, FirstSlotBeforeFirstStop
<1>2. TimerInv /\ FirstInv /\ FirstSlotBeforeFirstStop /\ [Next]_vars
          => FirstInv' /\ FirstSlotBeforeFirstStop'
  <2> SUFFICES ASSUME TimerInv, FirstInv, FirstSlotBeforeFirstStop, [Next]_vars
               PROVE  FirstInv' /\ FirstSlotBeforeFirstStop'
    OBVIOUS
  <2>0. /\ "sync" \in Jobs /\ job["sync"] \in Timers /\ job["sync"].left \in Nat
        /\ main \in {"up", "stopping"} /\ uptime \in 0..Day /\ Day \in Nat /\ syncs \in Flags
    BY DaemonsAssumption, TimerTypes DEF TimerInv, TypeOK, Flags
  <2>1. CASE Booted
    <3>1. job' \in [Jobs -> Timers] /\ job'["sync"].st = "asleep" /\ job'["sync"].left <= Day
      BY <2>0, <2>1, BootedTimers DEF Booted, TimerInv, TypeOK
    <3>2. job'["sync"].left \in Nat
      BY <2>0, <3>1, TimerTypes
    <3>3. uptime' = 0 /\ main' = "up"
      BY <2>1 DEF Booted
    <3>4. QED
      BY <2>0, <3>1, <3>2, <3>3 DEF FirstInv, FirstSlotBeforeFirstStop
  <2>2. CASE Tick
    <3>1. /\ job'["sync"].st = job["sync"].st /\ main' = "up" /\ syncs' = syncs
          /\ job["sync"].st # "stuck" =>
                 job["sync"].left > 0 /\ job'["sync"].left = job["sync"].left - 1
      BY <2>0, <2>2, TickEffect DEF Tick
    <3>2. uptime' \in Nat /\ uptime' <= uptime + 1
      BY <2>0, <2>2 DEF Tick, AtMost
    <3>3. QED
      BY <2>0, <3>1, <3>2 DEF FirstInv, FirstSlotBeforeFirstStop
  <2>3. CASE WatchdogBlind
    BY <2>3, FirstUntouched DEF WatchdogBlind
  <2>4. ASSUME NEW known \in BOOLEAN, WatchdogLooks(known)
        PROVE  FirstInv' /\ FirstSlotBeforeFirstStop'
    <3>1. FirstInv'
      BY <2>4 DEF WatchdogLooks, FirstInv
    <3>2. ASSUME StopProcess(known), successAge = NeverRan, ~syncs.started PROVE Due("sync")
      <4>1. uptime >= Day
        BY <3>2 DEF StopProcess
      <4>2. job["sync"].st = "asleep" /\ job["sync"].left = 0
        BY <2>0, <3>2, <4>1 DEF FirstInv
      <4>3. QED
        BY <4>2 DEF Due
    <3>3. QED
      BY <2>4, <3>1, <3>2 DEF WatchdogLooks, FirstSlotBeforeFirstStop, Due
  <2>5. ASSUME NEW status \in {"ok", "failed", "none"}, SyncEnds(status)
        PROVE  FirstInv' /\ FirstSlotBeforeFirstStop'
    <3>1. syncs.started
      BY <2>5 DEF SyncEnds, FirstInv
    <3>2. syncs'.started
      BY <2>0, <2>5, <3>1 DEF SyncEnds, Flags
    <3>3. QED
      BY <3>2 DEF FirstInv, FirstSlotBeforeFirstStop
  <2>6. ASSUME NEW j \in Jobs, Fire(j) PROVE FirstInv' /\ FirstSlotBeforeFirstStop'
    <3>1. CASE j = "sync"
      <4>1. syncs'.started
        BY <2>0, <2>6, <3>1 DEF Fire, Flags
      <4>2. QED
        BY <4>1 DEF FirstInv, FirstSlotBeforeFirstStop
    <3>2. CASE j # "sync"
      <4>1. job'["sync"] = job["sync"] /\ syncs' = syncs
        BY <2>0, <2>6, <3>2 DEF Fire, TimerInv
      <4>2. QED
        BY <2>6, <4>1, FirstUntouched DEF Fire
    <3>3. QED
      BY <3>1, <3>2
  <2>7. ASSUME NEW j \in Jobs, OtherEnds(j) PROVE FirstInv' /\ FirstSlotBeforeFirstStop'
    <3>1. job'["sync"] = job["sync"]
      BY <2>0, <2>7, AfterRunEffect DEF OtherEnds
    <3>2. QED
      BY <2>7, <3>1, FirstUntouched DEF OtherEnds
  <2>8. ASSUME NEW j \in Jobs, TimedOut(j) \/ Wedged(j)
        PROVE  FirstInv' /\ FirstSlotBeforeFirstStop'
    <3>1. CASE j = "sync"
      <4>1. syncs.started
        BY <2>8, <3>1 DEF TimedOut, Wedged, FirstInv
      <4>2. syncs'.started
        BY <2>0, <2>8, <4>1 DEF TimedOut, Wedged, Flags
      <4>3. QED
        BY <4>2 DEF FirstInv, FirstSlotBeforeFirstStop
    <3>2. CASE j # "sync"
      <4>1. job'["sync"] = job["sync"]
        BY <2>0, <2>8, <3>2, AfterRunEffect DEF TimedOut, Wedged, TimerInv
      <4>2. QED
        BY <2>8, <3>2, <4>1, FirstUntouched DEF TimedOut, Wedged
    <3>3. QED
      BY <3>1, <3>2
  <2>9. CASE UNCHANGED vars
    BY <2>9, FirstUntouched DEF vars
  <2>10. QED
    BY <2>1, <2>2, <2>3, <2>4, <2>5, <2>6, <2>7, <2>8, <2>9
    DEF Next, Heartbeat, SyncThread, DockerRestarts, ContainerReplaced, Thread
<1>3. QED
  BY <1>1, <1>2, TimerInvariant, PTL DEF Spec

\* Before any success is recorded the watchdog stops no container whose sync thread
\* has not had its first slot, whatever the hour at which the container started.
THEOREM FairChance == Spec => []FirstSlotBeforeFirstStop
  BY FirstInvariant, PTL
=============================================================================
