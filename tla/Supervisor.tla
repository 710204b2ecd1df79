----------------------------- MODULE Supervisor -----------------------------
(***************************************************************************)
(* _backfill_supervisor_loop of src/src/main.py: it starts the backfill    *)
(* child, waits for it, backs off and starts it again, behind a circuit    *)
(* breaker for network outages and a cap on crashes per hour.  The main    *)
(* thread may shut it down, the child may be reaped by someone else, and   *)
(* the container may be killed and is restarted by Docker.                 *)
(***************************************************************************)
EXTENDS Integers, FiniteSets

CONSTANTS Backoff, CbBackoff, \* 30 s and 300 s, in ticks
          Threshold,          \* _CB_UNAVAILABLE_THRESHOLD
          ProbeWindow,        \* 30 s: see sinceClosed
          Hour, Cap,          \* 3600 s and _BACKFILL_MAX_RESPAWNS_PER_HOUR
          Lifetimes,          \* how long a child may run
          Exits,              \* how it may end: "clean", "network", "crash"
          MaxSpawns, MaxRestarts, MaxWriteFailures, MaxReaps

ASSUME SupervisorAssumption ==
    /\ Backoff \in Nat \ {0} /\ CbBackoff \in Nat /\ Backoff <= CbBackoff
    /\ Threshold \in Nat \ {0} /\ ProbeWindow \in Nat
    /\ Hour \in Nat \ {0} /\ Cap \in Nat
    /\ Lifetimes \subseteq Nat /\ Exits \subseteq {"clean", "network", "crash"}
    /\ MaxSpawns \in Nat /\ MaxRestarts \in Nat /\ MaxWriteFailures \in Nat
    /\ MaxReaps \in Nat

VARIABLES
    now,
    shutdown, main,           \* _shutdown_event; "up", "joining" or "down"
    spc, rc, backoff,         \* the supervisor thread
    death_timestamps,         \* the list, as a set of [child, at]: two may be as old
    child,                    \* "none", "running", "zombie", "reaped", "signalled"
    exit,                     \* how the last child ended
    outageLog,                \* the tail of the shared log shows an outage
    unavail_streak,           \* /tmp/alphard-cb-state.json
    bounds                    \* [spawns, restarts, writeFailures, reaps]

\* History: when the last child was gone and how long it ran, the crashes the
\* supervisor has seen since it started, the consecutive exits that looked like an
\* outage, and those since the breaker is closed by the account of the comments
\* (main.py 168-170, 344-347): there a child that outlives the probe window while
\* the breaker is open closes it.  The code knows no such probe.
VARIABLES endedAt, lived, crashes, outageRun, sinceClosed

thread == <<spc, rc, backoff, death_timestamps>>
childVars == <<child, exit, outageLog, endedAt, lived>>
outages == <<outageRun, sinceClosed>>
vars == <<now, shutdown, main, thread, childVars, unavail_streak, bounds, crashes, outages>>

Use(counter, limit) ==
    /\ bounds[counter] < limit
    /\ bounds' = [bounds EXCEPT ![counter] = @ + 1]

-----------------------------------------------------------------------------
(* The child.                                                                *)

\* It runs for a while and ends.  Only a child that got as far as logging pushes
\* an older outage out of the last 50 lines of the log.
ChildExits(kind, lifetime) ==
    /\ child = "running"
    /\ child' = "zombie" /\ exit' = kind
    /\ now' = now + lifetime /\ endedAt' = now + lifetime /\ lived' = lifetime
    /\ outageLog' \in IF kind = "network" THEN {TRUE} ELSE {FALSE, outageLog}
    /\ UNCHANGED <<shutdown, main, thread, unavail_streak, bounds, crashes, outages>>

\* Someone else reaps it: waitpid raises ChildProcessError.
ReapedElsewhere ==
    /\ child = "zombie" /\ Use("reaps", MaxReaps)
    /\ child' = "reaped"
    /\ UNCHANGED <<now, shutdown, main, thread, exit, outageLog, endedAt, lived, unavail_streak,
                   crashes, outages>>

-----------------------------------------------------------------------------
(* The supervisor thread.                                                    *)

\* The outer loop: the next child, with rc = 0 until its end is known.
Spawn ==
    /\ main # "down" /\ spc = "spawn"
    /\ IF shutdown
       THEN spc' = "stopped" /\ UNCHANGED <<rc, child, bounds>>
       ELSE /\ Use("spawns", MaxSpawns)
            /\ child' = "running" /\ rc' = 0 /\ spc' = "wait"
    /\ UNCHANGED <<now, shutdown, main, backoff, death_timestamps, exit, outageLog,
                   endedAt, lived, unavail_streak, crashes, outages>>

\* Popen raises: nothing catches it and the thread is gone.
SpawnFails ==
    /\ main # "down" /\ spc = "spawn" /\ ~shutdown
    /\ Use("spawns", MaxSpawns)
    /\ spc' = "dead"
    /\ UNCHANGED <<now, shutdown, main, rc, backoff, death_timestamps, childVars,
                   unavail_streak, crashes, outages>>

\* Mutant: a child that someone else has reaped is waited for all the same.
Wait_ZombieOnly ==
    /\ main # "down" /\ spc = "wait" /\ ~shutdown
    /\ child = "zombie"
    /\ rc' = IF exit # "clean" THEN 1 ELSE 0
    /\ child' = "none" /\ spc' = "judge"
    /\ UNCHANGED <<now, shutdown, main, backoff, death_timestamps, exit, outageLog,
                   endedAt, lived, unavail_streak, bounds, crashes, outages>>

\* waitpid finds the child's exit code, or nothing to wait for and rc stays 0.
Wait ==
    /\ main # "down" /\ spc = "wait" /\ ~shutdown
    /\ child \in {"zombie", "reaped"}
    /\ rc' = IF child = "zombie" /\ exit # "clean" THEN 1 ELSE 0
    /\ child' = "none" /\ spc' = "judge"
    /\ UNCHANGED <<now, shutdown, main, backoff, death_timestamps, exit, outageLog,
                   endedAt, lived, unavail_streak, bounds, crashes, outages>>

\* Mutant: the loop just ends.
WaitShutdown_NoKill ==
    /\ main # "down" /\ spc = "wait" /\ shutdown
    /\ spc' = "stopped"
    /\ UNCHANGED <<now, shutdown, main, rc, backoff, death_timestamps, childVars,
                   unavail_streak, bounds, crashes, outages>>

\* Shutdown while waiting: the child's process group gets SIGTERM.
WaitShutdown ==
    /\ main # "down" /\ spc = "wait" /\ shutdown
    /\ child' = IF child = "running" THEN "signalled" ELSE child
    /\ spc' = "stopped"
    /\ UNCHANGED <<now, shutdown, main, rc, backoff, death_timestamps, exit, outageLog,
                   endedAt, lived, unavail_streak, bounds, crashes, outages>>

\* _write_unavail_streak: a write that fails is logged and forgotten; it leaves the
\* old file, or a truncated one, which reads as 0.
WriteStreak(n) ==
    \/ unavail_streak' = n /\ UNCHANGED bounds
    \/ unavail_streak' \in {unavail_streak, 0} /\ Use("writeFailures", MaxWriteFailures)

Outage == rc # 0 /\ outageLog

\* Mutant: the streak is never reset.
Streak_NoReset ==
    IF Outage THEN WriteStreak(unavail_streak + 1) ELSE UNCHANGED <<unavail_streak, bounds>>

\* One more outage, or a reset when there is something to reset.
Streak ==
    IF Outage THEN WriteStreak(unavail_streak + 1)
    ELSE IF unavail_streak > 0 THEN WriteStreak(0)
    ELSE UNCHANGED <<unavail_streak, bounds>>

\* Mutant: a child that ended well is started again at once.
BackoffFor_CrashOnly ==
    IF rc = 0 THEN 0
    ELSE IF Outage /\ unavail_streak + 1 >= Threshold THEN CbBackoff ELSE Backoff

\* Mutant: the breaker's backoff grows with the streak.
BackoffFor_Growing ==
    IF Outage /\ unavail_streak + 1 >= Threshold
    THEN CbBackoff * (unavail_streak + 1) ELSE Backoff

BackoffFor == IF Outage /\ unavail_streak + 1 >= Threshold THEN CbBackoff ELSE Backoff

Judge ==
    /\ main # "down" /\ spc = "judge"
    /\ backoff' = BackoffFor
    /\ Streak
    /\ outageRun' = IF Outage THEN outageRun + 1 ELSE 0
    /\ sinceClosed' = IF ~Outage THEN 0
                       ELSE IF sinceClosed >= Threshold /\ lived > ProbeWindow THEN 1
                       ELSE sinceClosed + 1
    /\ spc' = "backoff"
    /\ UNCHANGED <<now, shutdown, main, rc, death_timestamps, childVars, crashes>>

Pruned(t) == {d \in death_timestamps : t - d.at < Hour}

\* The death, noticed at t, of the child that was started last.
Death(t) == [child |-> bounds.spawns, at |-> t]

\* Mutant: every exit counts as a death.
Deaths_AllExits(t) == Pruned(t) \cup {Death(t)}

\* The list is pruned in every iteration and grows by a crash only.
Deaths(t) == Pruned(t) \cup (IF rc # 0 THEN {Death(t)} ELSE {})

\* The sleep ends, early if there is a shutdown; more than Cap deaths end the
\* process with os._exit(1), whatever else is going on.
Backed ==
    /\ main # "down" /\ spc = "backoff"
    /\ \E slept \in IF shutdown THEN {0, backoff} ELSE {backoff} :
          /\ now' = now + slept
          /\ death_timestamps' = Deaths(now + slept)
          /\ crashes' = crashes \cup (IF rc # 0 THEN {Death(now + slept)} ELSE {})
    /\ IF rc # 0 /\ Cardinality(death_timestamps') > Cap
       THEN spc' = "aborted" /\ main' = "down"
       ELSE spc' = "spawn" /\ UNCHANGED main
    /\ UNCHANGED <<shutdown, rc, backoff, childVars, unavail_streak, bounds, outages>>

-----------------------------------------------------------------------------
(* The main thread and the container.                                        *)

\* The heartbeat loop ends: an interrupt, the watchdog or an uncaught error.
Shutdown ==
    /\ main = "up"
    /\ shutdown' = TRUE /\ main' = "joining"
    /\ UNCHANGED <<now, thread, childVars, unavail_streak, bounds, crashes, outages>>

\* join waits longer than the supervisor needs to notice, so it returns when the
\* thread has ended.
Joined ==
    /\ main = "joining" /\ spc \in {"stopped", "dead"}
    /\ main' = "down"
    /\ UNCHANGED <<now, shutdown, thread, childVars, unavail_streak, bounds, crashes, outages>>

\* The container is killed at any point, the child with it.
Kill ==
    /\ main # "down" /\ bounds.restarts < MaxRestarts
    /\ main' = "down"
    /\ child' = "none" /\ endedAt' = now
    /\ UNCHANGED <<now, shutdown, thread, exit, outageLog, lived, unavail_streak, bounds, crashes,
                   outages>>

\* restart: unless-stopped.  The log is a tmpfs and starts empty; /tmp survives,
\* unless the container is created anew.
Restart ==
    /\ main = "down" /\ Use("restarts", MaxRestarts)
    /\ main' = "up" /\ shutdown' = FALSE
    /\ spc' = "spawn" /\ rc' = 0 /\ backoff' = 0 /\ death_timestamps' = {}
    /\ child' = "none"
    /\ unavail_streak' \in {unavail_streak, 0}
    /\ outageLog' = FALSE /\ crashes' = {}
    /\ UNCHANGED <<now, exit, endedAt, lived, outages>>

-----------------------------------------------------------------------------
Init ==
    /\ now = 0 /\ shutdown = FALSE /\ main = "up"
    /\ spc = "spawn" /\ rc = 0 /\ backoff = 0 /\ death_timestamps = {}
    /\ child = "none" /\ exit = "clean" /\ endedAt = 0 - CbBackoff
    /\ outageLog = FALSE /\ unavail_streak = 0
    /\ bounds = [spawns |-> 0, restarts |-> 0, writeFailures |-> 0, reaps |-> 0]
    /\ lived = 0 /\ crashes = {} /\ outageRun = 0 /\ sinceClosed = 0

Child == \E kind \in Exits, lifetime \in Lifetimes : ChildExits(kind, lifetime)

Loop == Spawn \/ Wait \/ WaitShutdown \/ Judge \/ Backed

Next == Child \/ ReapedElsewhere \/ Loop \/ SpawnFails \/ Shutdown \/ Joined \/ Kill \/ Restart

\* The supervisor and the main thread are scheduled; a child need not end and
\* Docker need not restart.
Spec == Init /\ [][Next]_vars /\ WF_vars(Loop) /\ WF_vars(Joined)

-----------------------------------------------------------------------------
TypeOK ==
    /\ now \in Nat /\ endedAt \in Int /\ shutdown \in BOOLEAN
    /\ main \in {"up", "joining", "down"}
    /\ spc \in {"spawn", "wait", "judge", "backoff", "stopped", "dead", "aborted"}
    /\ rc \in {0, 1} /\ backoff \in {0, Backoff, CbBackoff}
    /\ death_timestamps \subseteq [child : Nat, at : Nat]
    /\ Cardinality(death_timestamps) <= Cap + 1
    /\ child \in {"none", "running", "zombie", "reaped", "signalled"}
    /\ exit \in {"clean", "network", "crash"} /\ outageLog \in BOOLEAN
    /\ unavail_streak \in Nat /\ lived \in Nat /\ outageRun \in Nat /\ sinceClosed \in Nat

CrashesSince(t) == {c \in crashes : t - c.at < Hour}

\* The container is aborted exactly when the supervisor has seen more than Cap
\* crashes within the last hour: clean exits, the pruning of the window and the
\* sleeps between never add or hide one.
AbortIffTooManyCrashes ==
    spc \in {"spawn", "aborted"} =>
        (spc = "aborted") = (Cardinality(CrashesSince(now)) > Cap)

\* A child that has not been sent SIGTERM never outlives an orderly shutdown.
NoOrphanOnShutdown ==
    main = "down" /\ spc = "stopped" => child # "running"

\* No child is started within the ordinary backoff of the end of the last one, a
\* restart of the container aside, nor within the breaker's backoff after
\* Threshold outages in a row, whose streak reached the disk, without a child that
\* outlived the probe window once the breaker was open.  Of a respawn after such
\* a child nothing is asked: the comments close the breaker for it, the code
\* keeps it open until an exit that is no outage.
SpawnsSpaced ==
    [][spc = "spawn" /\ spc' = "wait" /\ bounds.restarts = 0 =>
          /\ now - endedAt >= Backoff
          /\ sinceClosed >= Threshold /\ bounds.writeFailures = 0
                => now - endedAt >= CbBackoff]_vars

\* The streak on disk never exceeds the outages in a row it stands for, so the
\* breaker never opens, and never stays open, on older ones.
StreakIsConsecutive ==
    bounds.writeFailures = 0 => unavail_streak <= outageRun

\* A child that has ended is followed by another, unless the supervisor is told
\* to stop, gives up, or dies.
RespawnedOrStopped ==
    child \in {"zombie", "reaped"} /\ spc = "wait"
        ~> \/ spc = "wait" /\ child = "running"
           \/ main # "up" \/ spc \in {"dead", "aborted"}
           \/ bounds.spawns = MaxSpawns

=============================================================================
