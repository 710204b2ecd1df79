-------------------------- MODULE SupervisorProofs --------------------------
(***************************************************************************)
(* Proofs about Supervisor for all backoffs, thresholds, lifetimes and     *)
(* every number of children, restarts and failed writes: types, shutdown,  *)
(* the streak, the spacing of children and the cap on crashes per hour.    *)
(***************************************************************************)
EXTENDS Supervisor, FiniteSetTheorems, TLAPS

Counters == {"spawns", "restarts", "writeFailures", "reaps"}

\* The types of everything but the window of crash timestamps.
Types ==
    /\ now \in Nat /\ endedAt \in Int /\ shutdown \in BOOLEAN
    /\ main \in {"up", "joining", "down"}
    /\ spc \in {"spawn", "wait", "judge", "backoff", "stopped", "dead", "aborted"}
    /\ rc \in {0, 1} /\ backoff \in {0, Backoff, CbBackoff}
    /\ child \in {"none", "running", "zombie", "reaped", "signalled"}
    /\ exit \in {"clean", "network", "crash"} /\ outageLog \in BOOLEAN
    /\ unavail_streak \in Nat /\ lived \in Nat
    /\ outageRun \in Nat /\ sinceClosed \in Nat
    /\ bounds \in [Counters -> Nat]

\* A child runs only while the supervisor waits for it.
WaitInv == child = "running" => spc = "wait"

\* The comments' account of the breaker never counts more outages than there were.
ClosedInv == sinceClosed <= outageRun

\* In a container that was never restarted: the streak on disk is the run of
\* outages it stands for, and each phase of the loop keeps the distance to the
\* end of the last child.
SpacingInv ==
    bounds.restarts = 0 /\ main # "down" =>
        /\ bounds.writeFailures = 0 => unavail_streak = outageRun
        /\ child \in {"zombie", "reaped"} \/ spc \in {"judge", "backoff"} => now >= endedAt
        /\ spc = "backoff" =>
               /\ backoff >= Backoff
               /\ outageRun >= Threshold /\ bounds.writeFailures = 0 => backoff = CbBackoff
        /\ spc = "spawn" /\ ~shutdown =>
               /\ now - endedAt >= Backoff
               /\ outageRun >= Threshold /\ bounds.writeFailures = 0
                      => now - endedAt >= CbBackoff

\* The list of deaths has every crash of the last hour.  What was pruned from it
\* stays too old, since the clock never goes back; right after an iteration nothing
\* else is in it; and a child dies once, so no two deaths are the same.
WindowInv ==
    /\ crashes \subseteq [child : Nat, at : Nat] /\ IsFiniteSet(crashes)
    /\ death_timestamps \subseteq crashes
    /\ \A c \in crashes : /\ c.at <= now /\ c.child <= bounds["spawns"]
                          /\ spc \in {"wait", "judge", "backoff"} => c.child < bounds["spawns"]
                          /\ c \notin death_timestamps => now - c.at >= Hour
    /\ spc \in {"spawn", "aborted"} => \A d \in death_timestamps : now - d.at < Hour
    /\ spc # "aborted" => Cardinality(death_timestamps) <= Cap
    /\ spc = "aborted" => Cardinality(death_timestamps) = Cap + 1

-----------------------------------------------------------------------------
\* Using up a bound raises that counter and no other.
LEMMA UseTypes ==
    ASSUME bounds \in [Counters -> Nat], NEW c \in Counters, NEW limit, Use(c, limit)
    PROVE  /\ bounds' \in [Counters -> Nat]
           /\ bounds'[c] = bounds[c] + 1
           /\ \A d \in Counters \ {c} : bounds'[d] = bounds[d]
  BY DEF Use, Counters

\* A write of the streak gives it the value, keeps the old one, or truncates the
\* file; only the first does not count as a failed write.
LEMMA WriteStreakEffect ==
    ASSUME bounds \in [Counters -> Nat], unavail_streak \in Nat, NEW n \in Nat, WriteStreak(n)
    PROVE  /\ bounds' \in [Counters -> Nat] /\ unavail_streak' \in Nat
           /\ bounds'["restarts"] = bounds["restarts"]
           /\ bounds'["writeFailures"] >= bounds["writeFailures"]
           /\ bounds'["writeFailures"] = 0 => unavail_streak' = n
  BY UseTypes DEF WriteStreak, Counters

\* What _judge leaves of the streak: one more, or none.
LEMMA StreakEffect ==
    ASSUME Types, Streak
    PROVE  /\ bounds' \in [Counters -> Nat] /\ unavail_streak' \in Nat
           /\ bounds'["restarts"] = bounds["restarts"]
           /\ bounds'["writeFailures"] >= bounds["writeFailures"]
           /\ bounds'["writeFailures"] = 0
                  => unavail_streak' = IF Outage THEN unavail_streak + 1 ELSE 0
<1>1. CASE Outage
  BY <1>1, WriteStreakEffect DEF Streak, Types
<1>2. CASE ~Outage /\ unavail_streak > 0
  BY <1>2, WriteStreakEffect DEF Streak, Types
<1>3. CASE ~Outage /\ ~(unavail_streak > 0)
  BY <1>3 DEF Streak, Types, Counters
<1>4. QED
  BY <1>1, <1>2, <1>3

\* Variables keep their types, and a child runs only while it is waited for.
LEMMA TypesKept == Spec => [](Types /\ WaitInv)
<1>1. Init => Types /\ WaitInv
  <2> SUFFICES ASSUME Init PROVE Types /\ WaitInv
    OBVIOUS
  <2>1. bounds \in [Counters -> Nat]
    BY DEF Init, Counters
  <2>2. endedAt \in Int /\ now \in Nat /\ backoff = 0
    BY SupervisorAssumption DEF Init
  <2>3. outageLog \in BOOLEAN /\ shutdown \in BOOLEAN
    BY DEF Init
  <2>4. QED
    BY <2>1, <2>2, <2>3 DEF Init, Types, WaitInv
<1>2. Types /\ WaitInv /\ [Next]_vars => Types' /\ WaitInv'
  <2> SUFFICES ASSUME Types, WaitInv, [Next]_vars PROVE Types' /\ WaitInv'
    OBVIOUS
  <2> USE DEF thread, childVars, outages
  <2>0. bounds \in [Counters -> Nat]
    BY DEF Types
  <2>1. ASSUME NEW kind \in Exits, NEW lifetime \in Lifetimes, ChildExits(kind, lifetime)
        PROVE  Types' /\ WaitInv'
    <3>1. now' \in Nat /\ endedAt' \in Int /\ lived' \in Nat /\ exit' \in {"clean", "network", "crash"}
      BY <2>1, SupervisorAssumption DEF ChildExits, Types
    <3>2. outageLog' \in BOOLEAN
      BY <2>1 DEF ChildExits, Types
    <3>3. QED
      BY <2>1, <3>1, <3>2 DEF ChildExits, Types, WaitInv
  <2>2. CASE ReapedElsewhere
    BY <2>0, <2>2, UseTypes DEF ReapedElsewhere, Types, WaitInv, Counters
  <2>3. CASE Spawn
    BY <2>0, <2>3, UseTypes DEF Spawn, Types, WaitInv, Counters
  <2>4. CASE SpawnFails
    BY <2>0, <2>4, UseTypes DEF SpawnFails, Types, WaitInv, Counters
  <2>5. CASE Wait
    BY <2>5 DEF Wait, Types, WaitInv
  <2>6. CASE WaitShutdown
    BY <2>6 DEF WaitShutdown, Types, WaitInv
  <2>7. CASE Judge
    <3>1. bounds' \in [Counters -> Nat] /\ unavail_streak' \in Nat
      BY <2>7, StreakEffect DEF Judge
    <3>2. backoff' \in {0, Backoff, CbBackoff}
      BY <2>7 DEF Judge, BackoffFor
    <3>3. QED
      BY <2>7, <3>1, <3>2 DEF Judge, Types, WaitInv
  <2>8. CASE Backed
    <3>1. now' \in Nat /\ main' \in {main, "down"} /\ spc' \in {"spawn", "aborted"} /\ spc = "backoff"
      BY <2>8, SupervisorAssumption DEF Backed, Types
    <3>2. QED
      BY <2>8, <3>1 DEF Backed, Types, WaitInv
  <2>9. CASE Shutdown
    BY <2>9 DEF Shutdown, Types, WaitInv
  <2>10. CASE Joined
    BY <2>10 DEF Joined, Types, WaitInv
  <2>11. CASE Kill
    BY <2>11 DEF Kill, Types, WaitInv
  <2>12. CASE Restart
    <3>1. bounds' \in [Counters -> Nat]
      BY <2>0, <2>12, UseTypes DEF Restart, Counters
    <3>2. unavail_streak' \in Nat
      BY <2>12 DEF Restart, Types
    <3>3. outageLog' \in BOOLEAN /\ shutdown' \in BOOLEAN
      BY <2>12 DEF Restart
    <3>4. QED
      BY <2>12, <3>1, <3>2, <3>3 DEF Restart, Types, WaitInv
  <2>13. CASE UNCHANGED vars
    BY <2>13 DEF vars, Types, WaitInv
  <2>14. QED
    BY <2>1, <2>2, <2>3, <2>4, <2>5, <2>6, <2>7, <2>8, <2>9, <2>10, <2>11, <2>12, <2>13
    DEF Next, Child, Loop
<1>3. QED
  BY <1>1, <1>2, PTL DEF Spec

\* When the supervisor has stopped for a shutdown its child has ended or been sent
\* SIGTERM, wherever in its loop the shutdown met it.
THEOREM NoOrphan == Spec => []NoOrphanOnShutdown
<1>1. WaitInv => NoOrphanOnShutdown
  BY DEF WaitInv, NoOrphanOnShutdown
<1>2. QED
  BY <1>1, TypesKept, PTL

\* The streak on disk is never ahead of the outages in a row, through restarts that
\* keep or lose /tmp.
THEOREM StreakNeverAhead == Spec => []StreakIsConsecutive
<1>1. Init => StreakIsConsecutive
  BY DEF Init, StreakIsConsecutive
<1>2. Types /\ StreakIsConsecutive /\ [Next]_vars => StreakIsConsecutive'
  <2> SUFFICES ASSUME Types, StreakIsConsecutive, [Next]_vars PROVE StreakIsConsecutive'
    OBVIOUS
  <2> USE DEF StreakIsConsecutive, thread, childVars, outages
  <2>0. /\ bounds \in [Counters -> Nat] /\ unavail_streak \in Nat /\ outageRun \in Nat
        /\ "writeFailures" \in Counters
    BY DEF Types, Counters
  <2>1. CASE Judge
    <3>1. outageRun' = IF Outage THEN outageRun + 1 ELSE 0
      BY <2>1 DEF Judge
    <3>2. QED
      BY <2>0, <2>1, <3>1, StreakEffect DEF Judge
  <2>2. CASE Restart
    BY <2>0, <2>2, UseTypes DEF Restart, Counters
  <2>3. ASSUME UNCHANGED <<unavail_streak, outageRun>>,
               UNCHANGED bounds \/ \E c \in Counters, limit \in Nat : Use(c, limit)
        PROVE  StreakIsConsecutive'
    BY <2>0, <2>3, UseTypes
  <2>4. CASE Child \/ Wait \/ WaitShutdown \/ Backed \/ Shutdown \/ Joined \/ Kill \/ UNCHANGED vars
    BY <2>3, <2>4 DEF Child, ChildExits, Wait, WaitShutdown, Backed, Shutdown, Joined, Kill, vars
  <2>5. CASE ReapedElsewhere \/ Spawn \/ SpawnFails
    BY <2>3, <2>5, SupervisorAssumption DEF ReapedElsewhere, Spawn, SpawnFails, Counters
  <2>6. QED
    BY <2>1, <2>2, <2>4, <2>5 DEF Next, Loop
<1>3. QED
  BY <1>1, <1>2, TypesKept, PTL DEF Spec

-----------------------------------------------------------------------------
\* The distance kept to the end of the last child is kept by every step.
LEMMA SpacingInvariant == Spec => []SpacingInv
<1>1. Init => SpacingInv
  BY SupervisorAssumption DEF Init, SpacingInv
<1>2. Types /\ WaitInv /\ SpacingInv /\ [Next]_vars => SpacingInv'
  <2> SUFFICES ASSUME Types, WaitInv, SpacingInv, [Next]_vars PROVE SpacingInv'
    OBVIOUS
  <2> USE DEF thread, childVars, outages
  <2>0. /\ bounds \in [Counters -> Nat] /\ "restarts" \in Counters /\ "writeFailures" \in Counters
        /\ now \in Nat /\ endedAt \in Int /\ outageRun \in Nat /\ unavail_streak \in Nat
        /\ Backoff \in Nat /\ CbBackoff \in Nat /\ Backoff <= CbBackoff /\ Threshold \in Nat \ {0}
    BY SupervisorAssumption DEF Types, Counters
  <2>1. ASSUME NEW kind \in Exits, NEW lifetime \in Lifetimes, ChildExits(kind, lifetime)
        PROVE  SpacingInv'
    <3>1. lifetime \in Nat /\ spc = "wait"
      BY <2>1, SupervisorAssumption DEF ChildExits, WaitInv
    <3>2. QED
      BY <2>0, <2>1, <3>1 DEF ChildExits, SpacingInv
  <2>2. CASE ReapedElsewhere
    <3>1. /\ bounds'["restarts"] = bounds["restarts"]
          /\ bounds'["writeFailures"] = bounds["writeFailures"]
      BY <2>0, <2>2, UseTypes DEF ReapedElsewhere, Counters
    <3>2. QED
      BY <2>2, <3>1 DEF ReapedElsewhere, SpacingInv
  <2>3. CASE Spawn
    <3>1. /\ bounds'["restarts"] = bounds["restarts"]
          /\ bounds'["writeFailures"] = bounds["writeFailures"]
      BY <2>0, <2>3, UseTypes DEF Spawn, Counters
    <3>2. spc' \in {"stopped", "wait"} /\ (child' = child \/ child' = "running")
      BY <2>3 DEF Spawn
    <3>3. QED
      BY <2>3, <3>1, <3>2 DEF Spawn, SpacingInv
  <2>4. CASE SpawnFails
    <3>1. /\ bounds'["restarts"] = bounds["restarts"]
          /\ bounds'["writeFailures"] = bounds["writeFailures"]
      BY <2>0, <2>4, UseTypes DEF SpawnFails, Counters
    <3>2. QED
      BY <2>4, <3>1 DEF SpawnFails, SpacingInv
  <2>5. CASE Wait
    BY <2>5 DEF Wait, SpacingInv
  <2>6. CASE WaitShutdown
    BY <2>6 DEF WaitShutdown, SpacingInv
  <2>7. CASE Judge
    <3>1. SUFFICES ASSUME bounds'["restarts"] = 0, main' # "down"
                   PROVE  /\ bounds'["writeFailures"] = 0 => unavail_streak' = outageRun'
                          /\ now' >= endedAt'
                          /\ backoff' >= Backoff
                          /\ outageRun' >= Threshold /\ bounds'["writeFailures"] = 0
                                 => backoff' = CbBackoff
      BY <2>7 DEF Judge, SpacingInv
    <3>2. /\ bounds["restarts"] = 0 /\ main # "down"
          /\ bounds'["writeFailures"] >= bounds["writeFailures"]
          /\ bounds'["writeFailures"] = 0
                 => unavail_streak' = IF Outage THEN unavail_streak + 1 ELSE 0
      BY <2>7, <3>1, StreakEffect DEF Judge
    <3>3. /\ now >= endedAt
          /\ bounds["writeFailures"] = 0 => unavail_streak = outageRun
      BY <2>7, <3>2 DEF Judge, SpacingInv
    <3>4. /\ outageRun' = IF Outage THEN outageRun + 1 ELSE 0
          /\ backoff' = IF Outage /\ unavail_streak + 1 >= Threshold THEN CbBackoff ELSE Backoff
          /\ now' = now /\ endedAt' = endedAt
      BY <2>7 DEF Judge, BackoffFor
    <3>5. bounds'["writeFailures"] = 0 => bounds["writeFailures"] = 0
      BY <2>0, <3>2
    <3>6. QED
      BY <2>0, <3>2, <3>3, <3>4, <3>5
  <2>8. CASE Backed
    <3>1. PICK slept \in {0, backoff} : now' = now + slept /\ (~shutdown => slept = backoff)
      BY <2>8 DEF Backed
    <3>2. /\ spc = "backoff" /\ spc' \in {"spawn", "aborted"} /\ main # "down"
          /\ UNCHANGED <<endedAt, outageRun, bounds, unavail_streak, child, shutdown>>
      BY <2>8 DEF Backed
    <3>3. backoff \in Nat
      BY <2>0 DEF Types
    <3>4. QED
      BY <2>0, <3>1, <3>2, <3>3 DEF SpacingInv
  <2>9. CASE Shutdown
    BY <2>9 DEF Shutdown, SpacingInv
  <2>10. CASE Joined \/ Kill
    BY <2>10 DEF Joined, Kill, SpacingInv
  <2>11. CASE Restart
    <3>1. bounds'["restarts"] = bounds["restarts"] + 1
      BY <2>0, <2>11, UseTypes DEF Restart
    <3>2. bounds'["restarts"] # 0
      BY <2>0, <3>1
    <3>3. QED
      BY <3>2 DEF SpacingInv
  <2>12. CASE UNCHANGED vars
    BY <2>12 DEF vars, SpacingInv
  <2>13. QED
    BY <2>1, <2>2, <2>3, <2>4, <2>5, <2>6, <2>7, <2>8, <2>9, <2>10, <2>11, <2>12
    DEF Next, Child, Loop
<1>3. QED
  BY <1>1, <1>2, TypesKept, PTL DEF Spec

\* Only Judge counts outages, and it counts one more or starts again.
LEMMA ClosedInvariant == Spec => []ClosedInv
<1>1. Init => ClosedInv
  BY DEF Init, ClosedInv
<1>2. Types /\ ClosedInv /\ [Next]_vars => ClosedInv'
  <2> SUFFICES ASSUME Types, ClosedInv, [Next]_vars PROVE ClosedInv'
    OBVIOUS
  <2>0. outageRun \in Nat /\ sinceClosed \in Nat /\ Threshold \in Nat \ {0}
    BY SupervisorAssumption DEF Types
  <2>1. CASE Judge
    <3>1. /\ outageRun' = IF Outage THEN outageRun + 1 ELSE 0
          /\ sinceClosed' = IF ~Outage THEN 0
                             ELSE IF sinceClosed >= Threshold /\ lived > ProbeWindow THEN 1
                             ELSE sinceClosed + 1
      BY <2>1 DEF Judge
    <3>2. QED
      BY <2>0, <3>1 DEF ClosedInv
  <2>2. CASE UNCHANGED outages
    BY <2>2 DEF outages, ClosedInv
  <2>3. UNCHANGED outages \/ Judge
    BY DEF Next, Child, Loop, ChildExits, ReapedElsewhere, Spawn, Wait, WaitShutdown, Backed,
           SpawnFails, Shutdown, Joined, Kill, Restart, vars
  <2>4. QED
    BY <2>1, <2>2, <2>3
<1>3. QED
  BY <1>1, <1>2, TypesKept, PTL DEF Spec

\* No child starts within the backoff of the end of the last one, nor within the
\* breaker's once the streak of outages, as the comments count it, is long enough
\* and on disk.
THEOREM ChildrenSpaced == Spec => SpawnsSpaced
<1> DEFINE Spaced ==
        spc = "spawn" /\ spc' = "wait" /\ bounds.restarts = 0 =>
            /\ now - endedAt >= Backoff
            /\ sinceClosed >= Threshold /\ bounds.writeFailures = 0 => now - endedAt >= CbBackoff
<1>1. Types /\ WaitInv /\ SpacingInv /\ ClosedInv /\ [Next]_vars => Spaced
  <2> SUFFICES ASSUME Types, WaitInv, SpacingInv, ClosedInv, [Next]_vars,
                      spc = "spawn", spc' = "wait", bounds.restarts = 0
               PROVE  /\ now - endedAt >= Backoff
                      /\ sinceClosed >= Threshold /\ bounds.writeFailures = 0
                             => now - endedAt >= CbBackoff
    OBVIOUS
  <2>1. main # "down" /\ ~shutdown
    BY DEF Next, Child, Loop, ChildExits, ReapedElsewhere, Spawn, Wait, WaitShutdown, Judge, Backed,
           SpawnFails, Shutdown, Joined, Kill, Restart, vars, thread, childVars, outages
  <2>2. sinceClosed >= Threshold => outageRun >= Threshold
    BY SupervisorAssumption DEF Types, ClosedInv
  <2>3. QED
    BY <2>1, <2>2 DEF SpacingInv
<1>2. QED
  BY <1>1, TypesKept, SpacingInvariant, ClosedInvariant, PTL DEF Spec, SpawnsSpaced
-----------------------------------------------------------------------------
(* The cap on crashes per hour.                                              *)

\* A step that leaves both lists alone, and lets time pass only while a child runs.
LEMMA WindowUntouched ==
    ASSUME Types, WindowInv, UNCHANGED <<death_timestamps, crashes>>, now' \in Nat, now' >= now,
           bounds' \in [Counters -> Nat], bounds'["spawns"] >= bounds["spawns"],
           spc' \in {"spawn", "aborted"} => spc' = spc /\ now' = now,
           spc = "aborted" <=> spc' = "aborted",
           spc' \in {"wait", "judge", "backoff"} =>
               \/ spc \in {"wait", "judge", "backoff"}
               \/ bounds'["spawns"] > bounds["spawns"]
    PROVE  WindowInv'
<1>1. /\ now \in Nat /\ bounds["spawns"] \in Nat /\ bounds'["spawns"] \in Nat /\ Hour \in Nat
  BY SupervisorAssumption DEF Types, Counters
<1>2. /\ crashes' \subseteq [child : Nat, at : Nat] /\ IsFiniteSet(crashes')
      /\ death_timestamps' \subseteq crashes'
  BY DEF WindowInv
<1>3. ASSUME NEW c \in crashes'
      PROVE  /\ c.at <= now' /\ c.child <= bounds'["spawns"]
             /\ spc' \in {"wait", "judge", "backoff"} => c.child < bounds'["spawns"]
             /\ c \notin death_timestamps' => now' - c.at >= Hour
  <2>1. /\ c \in crashes /\ c.at \in Nat /\ c.child \in Nat
        /\ c.at <= now /\ c.child <= bounds["spawns"]
        /\ spc \in {"wait", "judge", "backoff"} => c.child < bounds["spawns"]
        /\ c \notin death_timestamps => now - c.at >= Hour
    BY DEF WindowInv
  <2>2. QED
    BY <1>1, <2>1
<1>4. spc' \in {"spawn", "aborted"} => \A d \in death_timestamps' : now' - d.at < Hour
  BY DEF WindowInv
<1>5. QED
  BY <1>2, <1>3, <1>4 DEF WindowInv

\* Pruning and one more crash: the end of an iteration of the loop.
LEMMA WindowAfterIteration ==
    ASSUME Types, WindowInv, Backed
    PROVE  WindowInv'
<1>1. PICK slept \in {0, backoff} :
          /\ now' = now + slept
          /\ death_timestamps' = Deaths(now + slept)
          /\ crashes' = crashes \cup (IF rc # 0 THEN {Death(now + slept)} ELSE {})
  BY DEF Backed
<1>2. /\ spc = "backoff" /\ bounds' = bounds
      /\ \/ rc # 0 /\ Cardinality(death_timestamps') > Cap /\ spc' = "aborted"
         \/ ~(rc # 0 /\ Cardinality(death_timestamps') > Cap) /\ spc' = "spawn"
  BY DEF Backed
<1>3. /\ now \in Nat /\ slept \in Nat /\ now' \in Nat /\ now' >= now
      /\ Hour \in Nat \ {0} /\ Cap \in Nat /\ bounds["spawns"] \in Nat
  BY <1>1, SupervisorAssumption DEF Types, Counters
<1> DEFINE d == Death(now')
           old == Pruned(now')
<1>4. /\ d \in [child : Nat, at : Nat] /\ d.at = now' /\ d.child = bounds["spawns"]
  BY <1>3 DEF Death
<1>5. /\ crashes \subseteq [child : Nat, at : Nat] /\ IsFiniteSet(crashes)
      /\ death_timestamps \subseteq crashes /\ Cardinality(death_timestamps) <= Cap
      /\ \A c \in crashes : /\ c.at \in Nat /\ c.child \in Nat /\ c.at <= now
                            /\ c.child < bounds["spawns"]
                            /\ c \notin death_timestamps => now - c.at >= Hour
  BY <1>2 DEF WindowInv
<1>6. d \notin crashes
  BY <1>3, <1>4, <1>5
<1>7. /\ old \subseteq death_timestamps /\ IsFiniteSet(old)
      /\ Cardinality(old) \in Nat /\ Cardinality(old) <= Cap
  <2>1. IsFiniteSet(death_timestamps) /\ old \in SUBSET death_timestamps
    BY <1>5, FS_Subset DEF Pruned
  <2>2. IsFiniteSet(old) /\ Cardinality(old) <= Cardinality(death_timestamps)
    BY <2>1, FS_Subset
  <2>3. Cardinality(old) \in Nat /\ Cardinality(death_timestamps) \in Nat
    BY <2>1, <2>2, FS_CardinalityType
  <2>4. QED
    BY <1>3, <1>5, <2>1, <2>2, <2>3
<1>8. \A c \in old : now' - c.at < Hour
  BY DEF Pruned
<1>9. \A c \in crashes \ old : now' - c.at >= Hour
  <2> SUFFICES ASSUME NEW c \in crashes, c \notin old PROVE now' - c.at >= Hour
    OBVIOUS
  <2>1. CASE c \in death_timestamps
    <3>1. ~(now' - c.at < Hour)
      BY <2>1 DEF Pruned
    <3>2. QED
      BY <1>3, <1>5, <3>1
  <2>2. CASE c \notin death_timestamps
    BY <1>3, <1>5, <2>2
  <2>3. QED
    BY <2>1, <2>2
<1>10. CASE rc = 0
  <2>1. crashes' = crashes /\ death_timestamps' = old /\ spc' = "spawn"
    BY <1>1, <1>2, <1>10 DEF Deaths
  <2>2. \A c \in crashes : c.at <= now' /\ c.child <= bounds'["spawns"]
    BY <1>2, <1>3, <1>5
  <2>3. QED
    BY <1>5, <1>7, <1>8, <1>9, <2>1, <2>2 DEF WindowInv
<1>11. CASE rc # 0
  <2>1. crashes' = crashes \cup {d} /\ death_timestamps' = old \cup {d}
    BY <1>1, <1>11 DEF Deaths
  <2>2. crashes' \subseteq [child : Nat, at : Nat] /\ IsFiniteSet(crashes')
        /\ death_timestamps' \subseteq crashes'
    BY <1>4, <1>5, <1>7, <2>1, FS_AddElement
  <2>3. Cardinality(death_timestamps') = Cardinality(old) + 1
    BY <1>5, <1>6, <1>7, <2>1, FS_AddElement
  <2>4. \A c \in crashes' : /\ c.at <= now' /\ c.child <= bounds'["spawns"]
                            /\ c \notin death_timestamps' => now' - c.at >= Hour
    BY <1>2, <1>3, <1>4, <1>5, <1>9, <2>1
  <2>5. \A c \in death_timestamps' : now' - c.at < Hour
    BY <1>3, <1>4, <1>8, <2>1
  <2>6. /\ spc' # "aborted" => Cardinality(death_timestamps') <= Cap
        /\ spc' = "aborted" => Cardinality(death_timestamps') = Cap + 1
    BY <1>2, <1>3, <1>7, <1>11, <2>3
  <2>7. spc' \in {"spawn", "aborted"}
    BY <1>2
  <2>8. QED
    BY <2>2, <2>4, <2>5, <2>6, <2>7 DEF WindowInv
<1>12. QED
  BY <1>10, <1>11

LEMMA WindowInvariant == Spec => []WindowInv
<1>1. Init => WindowInv
  BY FS_EmptySet, SupervisorAssumption DEF Init, WindowInv
<1>2. Types /\ Types' /\ WaitInv /\ WindowInv /\ [Next]_vars => WindowInv'
  <2> SUFFICES ASSUME Types, Types', WaitInv, WindowInv, [Next]_vars PROVE WindowInv'
    OBVIOUS
  <2> USE DEF thread, childVars, outages
  <2>0. /\ bounds \in [Counters -> Nat] /\ bounds' \in [Counters -> Nat]
        /\ "spawns" \in Counters /\ now \in Nat /\ now' \in Nat
        /\ bounds["spawns"] \in Nat /\ bounds'["spawns"] \in Nat
    BY DEF Types, Counters
  <2>1. ASSUME NEW kind \in Exits, NEW lifetime \in Lifetimes, ChildExits(kind, lifetime)
        PROVE  WindowInv'
    <3>1. now' >= now /\ spc = "wait"
      BY <2>0, <2>1, SupervisorAssumption DEF ChildExits, WaitInv
    <3>2. UNCHANGED <<death_timestamps, crashes, spc, bounds>>
      BY <2>1 DEF ChildExits
    <3>3. QED
      BY <2>0, <3>1, <3>2, WindowUntouched
  <2>2. CASE ReapedElsewhere
    <3>1. bounds'["spawns"] = bounds["spawns"]
      BY <2>0, <2>2, UseTypes DEF ReapedElsewhere, Counters
    <3>2. QED
      BY <2>0, <2>2, <3>1, WindowUntouched DEF ReapedElsewhere
  <2>3. CASE Spawn \/ SpawnFails
    <3>1. /\ spc = "spawn" /\ UNCHANGED <<death_timestamps, crashes, now>>
          /\ \/ spc' \in {"stopped", "dead"} /\ bounds'["spawns"] >= bounds["spawns"]
             \/ spc' = "wait" /\ bounds'["spawns"] > bounds["spawns"]
      BY <2>0, <2>3, UseTypes DEF Spawn, SpawnFails, Counters
    <3>2. QED
      BY <2>0, <3>1, WindowUntouched
  <2>4. CASE Judge
    <3>1. bounds'["spawns"] = bounds["spawns"]
      <4>1. bounds' = bounds \/ Use("writeFailures", MaxWriteFailures)
        BY <2>4 DEF Judge, Streak, WriteStreak
      <4>2. QED
        BY <2>0, <4>1, UseTypes DEF Counters
    <3>2. QED
      BY <2>0, <2>4, <3>1, WindowUntouched DEF Judge
  <2>5. CASE Backed
    BY <2>5, WindowAfterIteration
  <2>6. CASE Restart
    <3>1. death_timestamps' = {} /\ crashes' = {} /\ spc' = "spawn"
      BY <2>6 DEF Restart
    <3>2. QED
      BY <3>1, FS_EmptySet, SupervisorAssumption DEF WindowInv
  <2>7. CASE Wait \/ WaitShutdown \/ Shutdown \/ Joined \/ Kill \/ UNCHANGED vars
    <3>1. /\ UNCHANGED <<death_timestamps, crashes, now, bounds>>
          /\ \/ spc' = spc
             \/ spc = "wait" /\ spc' \in {"judge", "stopped"}
      BY <2>7 DEF Wait, WaitShutdown, Shutdown, Joined, Kill, vars
    <3>2. QED
      BY <2>0, <3>1, WindowUntouched
  <2>8. QED
    BY <2>1, <2>2, <2>3, <2>4, <2>5, <2>6, <2>7 DEF Next, Child, Loop
<1>3. QED
  BY <1>1, <1>2, TypesKept, PTL DEF Spec

\* Every variable keeps its type, and the list of deaths never holds more than one
\* above the cap: it is pruned in every iteration (issue #60).
THEOREM TypeCorrect == Spec => []TypeOK
<1>1. Types /\ WindowInv => TypeOK
  <2> SUFFICES ASSUME Types, WindowInv PROVE TypeOK
    OBVIOUS
  <2>1. IsFiniteSet(death_timestamps)
    BY FS_Subset DEF WindowInv
  <2>2. Cardinality(death_timestamps) <= Cap + 1
    BY <2>1, FS_CardinalityType, SupervisorAssumption DEF WindowInv
  <2>3. QED
    BY <2>2 DEF Types, WindowInv, TypeOK
<1>2. QED
  BY <1>1, TypesKept, WindowInvariant, PTL

\* The container is aborted if and only if the loop has seen more than the cap of
\* crashes within the hour: pruning, clean exits, long sleeps and children that die
\* at the same instant neither hide a crash nor add one.
THEOREM AbortedForCrashes == Spec => []AbortIffTooManyCrashes
<1>1. Types /\ WindowInv => AbortIffTooManyCrashes
  <2> SUFFICES ASSUME Types, WindowInv, spc \in {"spawn", "aborted"}
               PROVE  (spc = "aborted") = (Cardinality(CrashesSince(now)) > Cap)
    BY DEF AbortIffTooManyCrashes
  <2>0. now \in Nat /\ Hour \in Nat /\ Cap \in Nat
    BY SupervisorAssumption DEF Types
  <2>1. CrashesSince(now) = death_timestamps
    <3>1. \A c \in crashes : c.at \in Nat /\ (c \notin death_timestamps => now - c.at >= Hour)
      BY DEF WindowInv
    <3>2. \A c \in death_timestamps : c \in crashes /\ now - c.at < Hour
      BY DEF WindowInv
    <3>3. \A c \in crashes : now - c.at < Hour => c \in death_timestamps
      BY <2>0, <3>1
    <3>4. QED
      BY <3>2, <3>3 DEF CrashesSince
  <2>2. Cardinality(death_timestamps) \in Nat
    BY FS_Subset, FS_CardinalityType DEF WindowInv
  <2>3. CASE spc = "aborted"
    <3>1. Cardinality(death_timestamps) > Cap
      BY <2>0, <2>3 DEF WindowInv
    <3>2. QED
      BY <2>1, <2>3, <3>1
  <2>4. CASE spc # "aborted"
    <3>1. ~(Cardinality(death_timestamps) > Cap)
      BY <2>0, <2>2, <2>4 DEF WindowInv
    <3>2. QED
      BY <2>1, <2>4, <3>1
  <2>5. QED
    BY <2>3, <2>4
<1>2. QED
  BY <1>1, TypesKept, WindowInvariant, PTL
=============================================================================
