------------------------------ MODULE MCDaemons ------------------------------
(***************************************************************************)
(* Daemons with three threads, one of each kind: the daily sync, the daily *)
(* incremental refresh (a longer run at another hour) and a weekly job     *)
(* that starts a day after the container.  One tick stands for some hours: *)
(* a day is four of them, the watchdog's limit five, the week is cut short *)
(* to six.                                                                 *)
(***************************************************************************)
EXTENDS Daemons

MCJobs == {"sync", "incremental", "weekly"}
MCAtHour == [sync |-> 3, incremental |-> 2]
MCFirstDelay == [weekly |-> 4]
MCPeriod == [sync |-> 4, incremental |-> 4, weekly |-> 6]
MCMaxRun == [sync |-> 1, incremental |-> 1, weekly |-> 1]
=============================================================================
