---------------------------- MODULE Coordinator ----------------------------
(***************************************************************************)
(* Coordinator.run_once of src/src/coordinator.py: FETCH, VALIDATE, RISK,  *)
(* a staleness check, EXECUTE through TinkoffAccount.place_order, AUDIT.   *)
(* Each stage may fail or raise, the process may be killed between any two *)
(* steps, and the decision_log insert may fail.                            *)
(***************************************************************************)
EXTENDS Broker, Sequences
LOCAL INSTANCE SequencesExt

CONSTANTS Quantities, Limits,   \* order sizes and limit prices; 0 is invalid
          Equity, Peaks, Losses,\* the static portfolio of CoordinatorConfig
          Window,               \* toctou_max_seconds, in clock ticks
          Factories,            \* whether TinkoffAccount.from_env resolves: not in
                                \* the source, only where a test patches it in
          Stores,               \* whether CoordinatorConfig has a store_dsn
          MaxRuns, MaxKills, MaxAuditFailures

ASSUME CoordinatorAssumption ==
    /\ Quantities \subseteq Nat \ {0} /\ Limits \subseteq Nat
    /\ Equity \in Nat \ {0} /\ Peaks \subseteq Nat \ {0} /\ Losses \subseteq Nat
    /\ Window \in Nat /\ Factories \subseteq BOOLEAN /\ Stores \subseteq BOOLEAN
    /\ MaxRuns \in Nat /\ MaxKills \in Nat /\ MaxAuditFailures \in Nat

VARIABLES
    factory,                \* TinkoffAccount.from_env is an attribute of the class
    store,                  \* store_dsn is set
    cpc, config,            \* the run under way
    gap,                    \* ticks since _risk_completed_at
    stages, risk_allowed, violation, broker_status, audit_id,
    decision_log,           \* rows inserted, in order
    runs, kills, auditFailures

\* History: what the run's gate stages really concluded, and the runs without an
\* insert into decision_log that went through: killed ones and those where it failed.
VARIABLES validated, cleared, unwritten

runVars == <<config, gap, stages, risk_allowed, violation, broker_status, audit_id,
             validated, cleared>>
bounds  == <<runs, kills, auditFailures>>
setup   == <<factory, store>>
log     == <<decision_log, unwritten>>
vars == <<brokerVars, setup, cpc, runVars, log, bounds>>

None == "None"
LocalRejections == {"REJECTED_LIVE_TRADING_FALSE", "REJECTED_RISK_GATE"}
Errors == {"ERROR:AttributeError", "ERROR:BrokerError"}

\* Mutant: only a complete fill counts as decided.
Decided_Filled(s) == s = "FILLED"

\* PipelineResult.decided.
Decided(s) == s # None /\ s \notin Errors /\ s \notin LocalRejections

NoConfig == [side |-> "buy", qty |-> 0, limit |-> 0, peak |-> 1, loss |-> 0, live |-> FALSE]

\* The stages so far, plus ss; the run continues at pc.
Advance(ss, pc) == stages' = stages \o ss /\ cpc' = pc

\* Blocked: the remaining stages are skipped, the refusal goes to AUDIT.
Block(ss, v) ==
    /\ Advance(ss, "auditBlocked")
    /\ violation' = v
    /\ risk_allowed' = FALSE

-----------------------------------------------------------------------------
RunOnce(side, qty, limit, pk, loss, lv) ==
    /\ cpc = "idle" /\ runs < MaxRuns
    /\ runs' = runs + 1
    /\ config' = [side |-> side, qty |-> qty, limit |-> limit, peak |-> pk, loss |-> loss,
                  live |-> lv]
    /\ cpc' = "fetch" /\ stages' = <<>>
    /\ risk_allowed' = FALSE /\ violation' = None /\ broker_status' = None /\ audit_id' = 0
    /\ gap' = 0 /\ validated' = FALSE /\ cleared' = FALSE
    /\ sent' = 0 /\ answerLost' = FALSE
    /\ UNCHANGED <<live, market, peak, exchange, call, losses, sentTripped, setup,
                   log, kills, auditFailures>>

Fetch(ok) ==
    /\ cpc = "fetch"
    /\ IF ok THEN Advance(<<"FETCH">>, "validate") /\ UNCHANGED <<violation, risk_allowed>>
             ELSE Block(<<>>, "FETCH_ERROR")
    /\ UNCHANGED <<brokerVars, setup, config, gap, broker_status, audit_id, log,
                   bounds, validated, cleared>>

\* "critical" is a report of CRITICAL or HIGH severity, or no bars at all.
Validate(verdict) ==
    /\ cpc = "validate"
    /\ validated' = (verdict = "pass")
    /\ IF verdict = "pass"
       THEN Advance(<<"VALIDATE">>, "risk") /\ UNCHANGED <<violation, risk_allowed>>
       ELSE Block(<<"VALIDATE", "SKIPPED">>,
                  IF verdict = "raise" THEN "VALIDATE_EXCEPTION" ELSE "VALIDATE_CRITICAL")
    /\ UNCHANGED <<brokerVars, setup, config, gap, broker_status, audit_id, log,
                   bounds, cleared>>

RiskVerdict(c) ==
    /\ c.limit > 0
    /\ Gate!Allowed(Intent([side |-> c.side, num |-> c.qty, den |-> 1], c.limit),
                    Portfolio(Equity, 0, c.peak, -c.loss))

\* PortfolioState raises on a peak below the equity.  A refusal does not stop
\* the run here: EXECUTE refuses it.
Risk ==
    /\ cpc = "risk"
    /\ gap' = 0
    /\ IF config.limit > 0 /\ config.peak < Equity
       THEN Block(<<"SKIPPED">>, "RISK_EXCEPTION") /\ UNCHANGED cleared
       ELSE /\ risk_allowed' = RiskVerdict(config)
            /\ cleared' = RiskVerdict(config)
            /\ violation' = IF RiskVerdict(config) THEN None ELSE "RISK"
            /\ Advance(<<"RISK">>, "toctou")
    /\ UNCHANGED <<brokerVars, setup, config, broker_status, audit_id, log,
                   bounds, validated>>

Tick ==
    /\ cpc = "toctou" /\ gap <= Window
    /\ gap' = gap + 1
    /\ UNCHANGED <<brokerVars, setup, cpc, config, stages, risk_allowed, violation,
                   broker_status, audit_id, log, bounds, validated, cleared>>

\* Mutant: the age of the verdict is not looked at.
ToctouCheck_Off ==
    /\ cpc = "toctou"
    /\ cpc' = "execute"
    /\ UNCHANGED <<brokerVars, setup, runVars, log, bounds>>

ToctouCheck ==
    /\ cpc = "toctou"
    /\ IF gap <= Window
       THEN cpc' = "execute" /\ UNCHANGED <<stages, violation, risk_allowed>>
       ELSE Block(<<"SKIPPED">>, "TOCTOU_STATE_STALE")
    /\ UNCHANGED <<brokerVars, setup, config, gap, broker_status, audit_id, log,
                   bounds, validated, cleared>>

\* _execute: both locks, then the account, then the order; whatever raises on
\* the way is an ERROR.  The order is a MarketOrder, its limit price is dropped.
ExecuteLocal(s) ==
    /\ broker_status' = s
    /\ Advance(<<"EXECUTE">>, "audit")
    /\ UNCHANGED <<brokerVars, setup, config, gap, risk_allowed, violation, audit_id,
                   log, bounds, validated, cleared>>

Execute ==
    /\ cpc = "execute"
    /\ IF ~config.live THEN ExecuteLocal("REJECTED_LIVE_TRADING_FALSE")
       ELSE IF ~risk_allowed THEN ExecuteLocal("REJECTED_RISK_GATE")
       ELSE IF ~factory THEN ExecuteLocal("ERROR:AttributeError")
       ELSE /\ PlaceOrder([side |-> config.side, num |-> config.qty, den |-> 1])
            /\ cpc' = "broker"
            /\ UNCHANGED <<setup, runVars, log, bounds>>

BrokerIdle == /\ bpc' = "idle" /\ order' = NoOrder /\ seen' = NoSeen
              /\ reply' = "REJECTED" /\ status' = "REJECTED"

\* The call of place_order is over; broker_status says how.
Executed(s) ==
    /\ cpc = "broker" /\ bpc = "done"
    /\ broker_status' = s
    /\ Advance(<<"EXECUTE">>, "audit")
    /\ BrokerIdle
    /\ UNCHANGED <<live, market, peak, exchange, losses, ledger, setup, config, gap,
                   risk_allowed, violation, audit_id, log, bounds, validated, cleared>>

\* Mutant: a BrokerError is not caught.
BrokerDone_Uncaught == status # "RAISED" /\ Executed(status)

\* A status is recorded as it is, an exception as an ERROR.
BrokerDone == Executed(IF status = "RAISED" THEN "ERROR:BrokerError" ELSE status)

Row == [run |-> runs, stages |-> stages, allowed |-> risk_allowed, violation |-> violation,
        status |-> broker_status]

AuditOutcomes == {"ok", "failed", "unknown"}

\* _audit with row for a row; insert says whether the row is to be written.  Without
\* a store_dsn it returns at once.
AuditRow(row, insert, outcome) ==
    LET inserts == insert /\ store
    IN  /\ cpc \in {"audit", "auditBlocked"}
        /\ outcome # "ok" => store
        /\ decision_log' = IF inserts /\ outcome # "failed" THEN Append(decision_log, row)
                           ELSE decision_log
        /\ audit_id' = IF inserts /\ outcome = "ok" THEN Len(decision_log) + 1 ELSE 0
        /\ unwritten' = IF outcome = "failed" THEN unwritten \cup {runs} ELSE unwritten
        /\ IF outcome = "ok" THEN UNCHANGED auditFailures
           ELSE auditFailures < MaxAuditFailures /\ auditFailures' = auditFailures + 1
        /\ IF cpc = "audit" THEN Advance(<<"AUDIT", "DONE">>, "idle")
                            ELSE Advance(<<>>, "idle")
        /\ UNCHANGED <<brokerVars, setup, config, gap, risk_allowed, violation,
                       broker_status, runs, kills, validated, cleared>>

\* Mutant: only the runs that reached EXECUTE are written.
Audit_ExecutedOnly(outcome) == AuditRow(Row, cpc = "audit", outcome)

\* Mutant: the row is composed before the answer of EXECUTE is known.
Audit_Early(outcome) == AuditRow([Row EXCEPT !.status = None], TRUE, outcome)

\* _audit never raises: a failed insert, or one whose commit is not confirmed,
\* leaves no row id.  A blocked run returns at once, a complete one notes AUDIT
\* and DONE after the row is written.
Audit(outcome) == AuditRow(Row, TRUE, outcome)

\* The process dies; what is at the exchange and in Postgres stays.  One that dies
\* after its insert leaves what an insert without a confirmed commit leaves.
Kill ==
    /\ cpc # "idle" /\ kills < MaxKills
    /\ kills' = kills + 1
    /\ cpc' = "killed"
    /\ BrokerIdle
    /\ unwritten' = unwritten \cup {runs}
    /\ UNCHANGED <<live, market, peak, exchange, losses, ledger, setup, runVars,
                   decision_log, runs, auditFailures>>

\* The next process starts with an empty Coordinator.
Restart ==
    /\ cpc = "killed"
    /\ cpc' = "idle"
    /\ config' = NoConfig /\ gap' = 0 /\ stages' = <<>> /\ risk_allowed' = FALSE
    /\ violation' = None /\ broker_status' = None /\ audit_id' = 0
    /\ validated' = FALSE /\ cleared' = FALSE
    /\ sent' = 0 /\ answerLost' = FALSE
    /\ UNCHANGED <<live, market, peak, exchange, call, losses, sentTripped, setup,
                   log, bounds>>

-----------------------------------------------------------------------------
Init ==
    /\ BrokerInit
    /\ factory \in Factories /\ store \in Stores
    /\ cpc = "idle" /\ config = NoConfig /\ gap = 0 /\ stages = <<>>
    /\ risk_allowed = FALSE /\ violation = None /\ broker_status = None /\ audit_id = 0
    /\ decision_log = <<>> /\ unwritten = {}
    /\ runs = 0 /\ kills = 0 /\ auditFailures = 0
    /\ validated = FALSE /\ cleared = FALSE

Configure ==
    \E side \in Sides, q \in Quantities, l \in Limits, pk \in Peaks, loss \in Losses,
       lv \in BOOLEAN : RunOnce(side, q, l, pk, loss, lv)

BrokerStep ==
    /\ \/ Refuse \/ ReadQuote \/ ReadPortfolio \/ Evaluate \/ Exchange
    /\ cpc = "broker"
    /\ UNCHANGED <<setup, cpc, runVars, log, bounds>>

RunStep ==
    \/ \E ok \in BOOLEAN : Fetch(ok)
    \/ \E verdict \in {"pass", "critical", "raise"} : Validate(verdict)
    \/ Risk \/ ToctouCheck \/ Execute \/ BrokerDone
    \/ \E outcome \in AuditOutcomes : Audit(outcome)

EnvironmentStep == Environment /\ UNCHANGED <<setup, cpc, runVars, log, bounds>>

Next == Configure \/ RunStep \/ BrokerStep \/ Tick \/ Kill \/ Restart \/ EnvironmentStep

\* run_once is one thread of straight-line code: its steps are taken, unless it
\* is killed.  Round trips end and a killed container is restarted.
Fairness == WF_vars(RunStep) /\ WF_vars(BrokerStep) /\ WF_vars(Restart)

Spec == Init /\ [][Next]_vars /\ Fairness

-----------------------------------------------------------------------------

\* No order reaches the exchange unless this run's data passed validation, its
\* risk check allowed the trade, the verdict was fresh when EXECUTE began, and
\* both live-trading locks were open.
OrderOnlyAfterEveryGate ==
    sent > 0 => validated /\ cleared /\ gap <= Window /\ config.live /\ live

\* The status of a finished run does not hide an order: a refusal, whoever
\* refused, left nothing at the exchange, and decided is False for no trade but
\* one whose answer was lost.
StatusTellsWhatWasSent ==
    LET refused   == broker_status \in {"REJECTED", "CANCELLED"}
        undecided == ~Decided(broker_status) /\ ~answerLost
    IN  cpc = "idle" /\ (refused \/ undecided) => sent = 0

\* With a store_dsn, every run has its one row in decision_log once it is over,
\* blocked and raising runs included, except for exactly the runs that were killed
\* before their insert and those whose insert failed; a kill or a failure of one run costs no other run
\* its row, and an insert whose commit was not confirmed has written it.
EveryRunAudited ==
    LET ended == IF cpc \in {"idle", "killed"} THEN 1..runs ELSE 1..(runs - 1)
    IN  /\ { decision_log[i].run : i \in DOMAIN decision_log } =
               IF store THEN ended \ unwritten ELSE {}
        /\ \A i, j \in DOMAIN decision_log :
               i < j => decision_log[i].run < decision_log[j].run

\* A row is the run's own and says whether the order was tried.
RowMatchesRun ==
    audit_id # 0 =>
        LET row == decision_log[audit_id]
        IN  /\ row.run = runs
            /\ row.status = broker_status /\ row.allowed = risk_allowed
            /\ (broker_status # None) = ("EXECUTE" \in ToSet(row.stages))
            /\ IsPrefix(row.stages, stages)

\* Every run ends: with a result or with a kill.
RunEnds == cpc \notin {"idle", "killed"} ~> cpc \in {"idle", "killed"}
=============================================================================
