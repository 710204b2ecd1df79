------------------------------- MODULE Daemons -------------------------------
(***************************************************************************)
(* The scheduled daemon threads of src/src/main.py, the watchdog its       *)
(* heartbeat loop runs over the sentinel row of the daily sync, and        *)
(* Docker, which starts the container again whenever it stops.  A thread   *)
(* sleeps, runs its script as a subprocess with a timeout and sleeps its   *)
(* period again; nothing a script does ends the thread.  The backfill's    *)
(* thread is the module Supervisor.                                        *)
(*                                                                         *)
(* Time is counted in ticks; timers count down and ages stop at the first  *)
(* value the code treats like every later one, so the state space is       *)
(* finite without a horizon.                                               *)
(***************************************************************************)
EXTENDS Integers

CONSTANTS Jobs,          \* the daemon threads; "sync" is the daily sync
          AtHour,        \* jobs first started at a wall-clock hour |-> that hour
          FirstDelay,    \* the other jobs |-> delay from the start of the container
          Period,        \* job |-> sleep between the end of a run and the next
          MaxRun,        \* job |-> timeout of its subprocess
          Day,           \* 24 h, also the grace the watchdog gives a new container
          StaleAfter,    \* WATCHDOG_STALE_SECONDS
          WatchEvery     \* WATCHDOG_INTERVAL_SECONDS

ASSUME DaemonsAssumption ==
    /\ "sync" \in Jobs /\ "sync" \in DOMAIN AtHour
    /\ Jobs = DOMAIN AtHour \cup DOMAIN FirstDelay
    /\ Day \in Nat \ {0} /\ WatchEvery \in Nat \ {0}
    /\ \A j \in DOMAIN AtHour : AtHour[j] \in 0..(Day - 1)
    /\ \A j \in DOMAIN FirstDelay : FirstDelay[j] \in Nat
    /\ \A j \in Jobs : Period[j] \in Nat \ {0} /\ MaxRun[j] \in Nat \ {0}
    \* 24 h between two syncs and 10 min for one are below the 26 h.
    /\ StaleAfter \in Nat /\ Period["sync"] + MaxRun["sync"] <= StaleAfter

VARIABLES
    hour,                \* the wall clock, modulo a day
    main,                \* "up", or "stopping": in main's finally block
    uptime,              \* of the container, up to Day
    beat,                \* ticks to the watchdog's next look
    job,                 \* job |-> [st, left]: what its thread does, for how long
    successAge           \* age of last_successful_run_at, up to StaleAfter + 1

\* History: what the syncs of this container did.
VARIABLE syncs           \* [started, succeeded, failed]

vars == <<hour, main, uptime, beat, job, successAge, syncs>>

NeverRan == -1           \* last_successful_run_at IS NULL
AtMost(n, bound) == IF n > bound THEN bound ELSE n

Asleep(ticks) == [st |-> "asleep", left |-> ticks]

-----------------------------------------------------------------------------
(* Starting the container.                                                   *)

\* Mutant: a target that is past stays in the past.
SecondsUntilTarget_Today(target) == target - hour

\* A target that is now, or past, is tomorrow's.
SecondsUntilTarget(target) ==
    IF target > hour THEN target - hour ELSE target - hour + Day

FirstSleep(j) == IF j \in DOMAIN AtHour THEN SecondsUntilTarget(AtHour[j]) ELSE FirstDelay[j]

Booted ==
    /\ main' = "up" /\ uptime' = 0 /\ beat' = WatchEvery
    /\ job' = [j \in Jobs |-> Asleep(FirstSleep(j))]
    /\ syncs' = [started |-> FALSE, succeeded |-> FALSE, failed |-> FALSE]
    /\ UNCHANGED <<hour, successAge>>

\* main's finally joins every thread for some seconds and ends with sys.exit(0),
\* whatever the status was; under unless-stopped Docker restarts either way.
\* The children die with the container.
DockerRestarts == main = "stopping" /\ Booted

\* A redeployment or a reboot of the host, at any moment.
ContainerReplaced == main = "up" /\ Booted

-----------------------------------------------------------------------------
(* One daemon thread.                                                        *)

Fire(j) ==
    /\ main = "up" /\ job[j] = Asleep(0)
    /\ job' = [job EXCEPT ![j] = [st |-> "running", left |-> MaxRun[j]]]
    /\ syncs' = IF j = "sync" THEN [syncs EXCEPT !.started = TRUE] ELSE syncs
    /\ UNCHANGED <<hour, main, uptime, beat, successAge>>

\* Mutant: the sleep is computed to the next target hour, then a day is added.
NextSleep_ToHour(j) ==
    IF j \in DOMAIN AtHour THEN SecondsUntilTarget(AtHour[j]) + Period[j] ELSE Period[j]

\* After a run the thread looks at the shutdown event and sleeps its period,
\* counted from here and not from the hour it is meant to keep.
NextSleep(j) == Period[j]

AfterRun(j) ==
    job' = [job EXCEPT ![j] =
               IF main = "up" THEN Asleep(NextSleep(j)) ELSE [st |-> "ended", left |-> 0]]

\* record_daily_sync_run: only the status "ok" moves last_successful_run_at.
Stamped(status) == IF status = "ok" THEN 0 ELSE successAge

\* daily_sync ends by itself: stamped "ok", stamped "failed" because of a single
\* ticker, or not stamped at all ("none": it could not start, or the stamp failed).
SyncEnds(status) ==
    /\ job["sync"].st = "running"
    /\ successAge' = Stamped(status)
    /\ syncs' = IF main = "stopping" THEN syncs
                ELSE [syncs EXCEPT !.succeeded = @ \/ status = "ok", !.failed = @ \/ status # "ok"]
    /\ AfterRun("sync")
    /\ UNCHANGED <<hour, main, uptime, beat>>

\* Of the other scripts only the log sees the outcome.
OtherEnds(j) ==
    /\ j # "sync" /\ job[j].st = "running"
    /\ AfterRun(j)
    /\ UNCHANGED <<hour, main, uptime, beat, successAge, syncs>>

\* TimeoutExpired: the child is killed, and the loop goes on ...
TimedOut(j) ==
    /\ job[j].st = "running" /\ job[j].left = 0
    /\ AfterRun(j)
    /\ syncs' = IF j = "sync" THEN [syncs EXCEPT !.failed = TRUE] ELSE syncs
    /\ UNCHANGED <<hour, main, uptime, beat, successAge>>

\* ... unless the killed child does not go away: subprocess.run waits for it
\* without a limit and the thread is wedged.
Wedged(j) ==
    /\ job[j].st = "running" /\ job[j].left = 0
    /\ job' = [job EXCEPT ![j] = [st |-> "stuck", left |-> 0]]
    /\ syncs' = IF j = "sync" THEN [syncs EXCEPT !.failed = TRUE] ELSE syncs
    /\ UNCHANGED <<hour, main, uptime, beat, successAge>>

-----------------------------------------------------------------------------
(* The heartbeat and its watchdog.                                           *)

Due(j) == job[j].st # "stuck" /\ job[j].left = 0

Tick ==
    /\ main = "up" /\ beat > 0 /\ \A j \in Jobs : ~Due(j)
    /\ hour' = (hour + 1) % Day
    /\ uptime' = AtMost(uptime + 1, Day)
    /\ beat' = beat - 1
    /\ job' = [j \in Jobs |-> IF job[j].st = "stuck" THEN job[j] ELSE [job[j] EXCEPT !.left = @ - 1]]
    /\ successAge' = IF successAge = NeverRan THEN NeverRan ELSE AtMost(successAge + 1, StaleAfter + 1)
    /\ UNCHANGED <<main, syncs>>

\* Mutant: a container that never had a success is not left alone for a day.
StopProcess_NoGrace(uptimeKnown) ==
    IF successAge = NeverRan THEN uptimeKnown ELSE successAge > StaleAfter

\* Mutant: no success ever is always read as "not yet".
StopProcess_NullIsFine(uptimeKnown) == successAge > StaleAfter

\* Should this look at the sentinel stop the process?  Without any success ever,
\* a container younger than a day, or of unknown age, is left alone.
StopProcess(uptimeKnown) ==
    IF successAge = NeverRan THEN uptimeKnown /\ uptime >= Day
    ELSE successAge > StaleAfter

WatchdogLooks(uptimeKnown) ==
    /\ main = "up" /\ beat = 0
    /\ beat' = WatchEvery
    /\ main' = IF StopProcess(uptimeKnown) THEN "stopping" ELSE "up"
    /\ UNCHANGED <<hour, uptime, job, successAge, syncs>>

\* No store, or no answer from it: logged and skipped.
WatchdogBlind ==
    /\ main = "up" /\ beat = 0
    /\ beat' = WatchEvery
    /\ UNCHANGED <<hour, main, uptime, job, successAge, syncs>>

-----------------------------------------------------------------------------
Init ==
    /\ hour \in 0..(Day - 1)
    /\ main = "up" /\ uptime = 0 /\ beat = WatchEvery
    /\ job = [j \in Jobs |-> Asleep(FirstSleep(j))]
    /\ successAge = NeverRan
    /\ syncs = [started |-> FALSE, succeeded |-> FALSE, failed |-> FALSE]

Heartbeat == Tick \/ WatchdogBlind \/ \E known \in BOOLEAN : WatchdogLooks(known)

Thread(j) == Fire(j) \/ OtherEnds(j) \/ TimedOut(j) \/ Wedged(j)

SyncThread == \E status \in {"ok", "failed", "none"} : SyncEnds(status)

Next ==
    \/ Heartbeat \/ SyncThread \/ DockerRestarts \/ ContainerReplaced
    \/ \E j \in Jobs : Thread(j)

\* The heartbeat and the threads keep running; the database is not away each
\* time the watchdog looks, with a readable /proc; Docker restarts what stopped.
Fairness ==
    /\ WF_vars(Heartbeat) /\ SF_vars(WatchdogLooks(TRUE)) /\ WF_vars(DockerRestarts)
    /\ \A j \in Jobs : WF_vars(Fire(j)) /\ WF_vars(TimedOut(j) \/ Wedged(j))

Spec == Init /\ [][Next]_vars /\ Fairness

-----------------------------------------------------------------------------
\* Everything stays in its type; in particular no thread sleeps or runs for a
\* negative time, which an hour that is already past would give.
TypeOK ==
    /\ hour \in 0..(Day - 1) /\ main \in {"up", "stopping"}
    /\ uptime \in 0..Day /\ beat \in 0..WatchEvery
    /\ \A j \in Jobs : job[j].st \in {"asleep", "running", "stuck", "ended"} /\ job[j].left \in Nat
    /\ successAge \in {NeverRan} \cup 0..(StaleAfter + 1)
    /\ syncs \in [started : BOOLEAN, succeeded : BOOLEAN, failed : BOOLEAN]

\* A container whose own daily syncs have all succeeded, at least one of them, is
\* not stopped by the watchdog: a day, a run and the drift of the schedule fit
\* into the watchdog's 26 hours.
QuietWhileSyncsSucceed ==
    (main = "stopping" /\ syncs.succeeded) => syncs.failed

\* Without any success recorded the watchdog stops no container before the first
\* slot of its sync thread has come: the "fair chance" of _run_daily_sync_watchdog.
FirstSlotBeforeFirstStop ==
    (main = "stopping" /\ successAge = NeverRan) => syncs.started \/ Due("sync")

\* A sync thread that hangs on a child that cannot be killed is got rid of: the
\* watchdog notices the old sentinel, stops the process and Docker starts it anew.
WedgedSyncIsReplaced == job["sync"].st = "stuck" ~> job["sync"].st # "stuck"

=============================================================================
