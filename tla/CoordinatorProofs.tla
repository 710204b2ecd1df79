------------------------- MODULE CoordinatorProofs -------------------------
(***************************************************************************)
(* Proofs about Coordinator for every set of configurations and every      *)
(* number of runs, kills, failed inserts, market moves and lost messages.  *)
(***************************************************************************)
EXTENDS Coordinator, SequenceTheorems, TLAPS
LOCAL INSTANCE SequencesExt

-----------------------------------------------------------------------------
(* The steps of place_order keep the types of the broker's variables.        *)

\* Rounding a quantity down to whole shares gives a natural number.
LEMMA SharesNat ==
    ASSUME NEW o \in [side : Sides, num : Nat, den : Nat \ {0}]
    PROVE  Shares(o) \in Nat
  BY DEF Shares

\* The types hold before the first call.
LEMMA BrokerInitTypes ==
    ASSUME BrokerInit
    PROVE  BrokerTypeOK
<1> USE DEF BrokerInit
<1>1. order \in [side : Sides, num : Nat, den : Nat \ {0}]
  BY DEF NoOrder, Sides
<1>2. seen \in [price : Nat, equity : Nat, qty : Int]
  BY DEF NoSeen
<1>3. live \in BOOLEAN /\ price \in Prices /\ nav \in Navs /\ peak \in Navs
  OBVIOUS
<1>4. position \in Int /\ working \in [Sides -> Nat]
  OBVIOUS
<1>5. /\ bpc \in {"idle", "quote", "portfolio", "gate", "post", "answer", "done"}
      /\ reply \in Outcomes /\ status \in OrderStatus \cup {"RAISED"}
  BY DEF Outcomes, OrderStatus
<1>6. /\ moves \in Nat /\ losses \in Nat
      /\ sent \in Nat /\ answerLost \in BOOLEAN /\ sentTripped \in Nat
  OBVIOUS
<1>7. QED
  BY <1>1, <1>2, <1>3, <1>4, <1>5, <1>6 DEF BrokerTypeOK

\* Starting a call keeps the types.
LEMMA PlaceOrderTypes ==
    ASSUME BrokerTypeOK, NEW o \in [side : Sides, num : Nat, den : Nat \ {0}],
           PlaceOrder(o)
    PROVE  BrokerTypeOK'
  BY DEF BrokerTypeOK, PlaceOrder, market, exchange, ledger, OrderStatus

\* Every step of a call keeps the types.
LEMMA BrokerStepTypes ==
    ASSUME BrokerTypeOK, Refuse \/ ReadQuote \/ ReadPortfolio \/ Evaluate \/ Exchange
    PROVE  BrokerTypeOK'
<1> USE DEF BrokerTypeOK, market, exchange, ledger
<1>1. CASE Refuse
  BY <1>1 DEF Refuse, OrderStatus
<1>2. CASE ReadQuote
  BY <1>2, MarketAssumption DEF ReadQuote
<1>3. CASE ReadPortfolio
  BY <1>3, MarketAssumption DEF ReadPortfolio
<1>4. CASE Evaluate
  BY <1>4 DEF Evaluate, OrderStatus
<1>5. ASSUME NEW outcome \in Outcomes, NEW filled \in 0..Shares(order), Post(outcome, filled)
      PROVE  BrokerTypeOK'
  <2>1. Shares(order) \in Nat /\ filled \in Nat /\ filled <= Shares(order)
    BY SharesNat
  <2>2. position' \in Int /\ sent' \in Nat /\ sentTripped' \in Nat
    BY <1>5, <2>1 DEF Post, Signed
  <2>3. working' \in [Sides -> Nat]
    <3>1. order.side \in Sides /\ working[order.side] + Shares(order) - filled \in Nat
      BY <2>1
    <3>2. QED
      BY <1>5, <3>1 DEF Post
  <2>4. QED
    BY <1>5, <2>2, <2>3 DEF Post
<1>6. CASE RequestLost
  BY <1>6 DEF RequestLost
<1>7. CASE Answer
  BY <1>7 DEF Answer, MapStatus, OrderStatus
<1>8. CASE AnswerLost
  BY <1>8 DEF AnswerLost
<1>9. QED
  BY <1>1, <1>2, <1>3, <1>4, <1>5, <1>6, <1>7, <1>8 DEF Exchange

\* The market and the fills of resting orders keep the types.
LEMMA EnvironmentTypes ==
    ASSUME BrokerTypeOK, Environment
    PROVE  BrokerTypeOK'
<1> USE DEF BrokerTypeOK, market, exchange, ledger, call
<1>1. ASSUME NEW p \in Prices, NEW v \in Navs, MarketMoves(p, v) PROVE BrokerTypeOK'
  BY <1>1 DEF MarketMoves
<1>2. ASSUME NEW side \in Sides, FillWorking(side) PROVE BrokerTypeOK'
  BY <1>2 DEF FillWorking, Signed
<1>3. QED
  BY <1>1, <1>2 DEF Environment

-----------------------------------------------------------------------------
(* The coordinator.                                                        *)

Stages == {"FETCH", "VALIDATE", "RISK", "EXECUTE", "AUDIT", "DONE", "SKIPPED"}
Phases == {"fetch", "validate", "risk", "toctou", "execute", "broker", "audit",
           "auditBlocked", "idle", "killed"}
Statuses == OrderStatus \cup LocalRejections \cup Errors
Configs == [side : Sides, qty : Nat, limit : Nat, peak : Nat, loss : Nat, live : BOOLEAN]
Violations == {None, "FETCH_ERROR", "VALIDATE_EXCEPTION", "VALIDATE_CRITICAL", "RISK_EXCEPTION",
               "RISK", "TOCTOU_STATE_STALE"}
Rows == [run : Nat, stages : Seq(Stages), allowed : BOOLEAN, violation : Violations,
         status : Statuses \cup {None}]

\* Types of the coordinator's own variables and of the broker's.
TypeInv ==
    /\ BrokerTypeOK
    /\ factory \in BOOLEAN /\ store \in BOOLEAN /\ unwritten \subseteq Nat
    /\ cpc \in Phases /\ config \in Configs /\ gap \in Nat
    /\ stages \in Seq(Stages) /\ risk_allowed \in BOOLEAN /\ violation \in Violations
    /\ broker_status \in Statuses \cup {None}
    /\ audit_id \in Nat /\ decision_log \in Seq(Rows)
    /\ runs \in Nat /\ kills \in Nat /\ auditFailures \in Nat
    /\ validated \in BOOLEAN /\ cleared \in BOOLEAN

\* What each phase of a run has established before an order may leave.
GateInv ==
    /\ cpc \in {"risk", "toctou", "execute", "broker"} => validated
    /\ cpc \in {"toctou", "execute"} /\ risk_allowed => cleared
    /\ cpc \in {"execute", "broker"} => gap <= Window
    /\ cpc = "broker" => cleared /\ config.live
    /\ bpc # "idle" => cpc = "broker"
    /\ bpc \notin {"idle", "done"} => live
    /\ cpc \notin {"broker", "audit", "idle", "killed"} => sent = 0 /\ ~answerLost

\* An outcome s that is a refusal, or an exception with its answer not lost, has
\* nothing at the exchange.
Silent(s) ==
    \/ s \in {"REJECTED", "CANCELLED", None} \cup LocalRejections
    \/ s \in Errors \cup {"RAISED"} /\ ~answerLost

\* What the exchange has accepted at each step of the call, and after it.
SentInv ==
    /\ cpc = "broker" => bpc # "idle"
    /\ bpc \in {"quote", "portfolio", "gate", "post"} => sent = 0 /\ ~answerLost
    /\ bpc = "answer" /\ reply \in {"REJECTED", "CANCELLED"} => sent = 0
    /\ bpc = "done" /\ Silent(status) => sent = 0
    /\ cpc \in {"audit", "idle"} /\ Silent(broker_status) => sent = 0

\* The log says it of the runs that are over; the run under way is not among those
\* without a row, a killed one is.
LogInv ==
    /\ unwritten \subseteq 1..runs
    /\ cpc # "idle" => runs > 0
    /\ cpc \notin {"idle", "killed"} => runs \notin unwritten
    /\ cpc = "killed" => runs \in unwritten
    /\ EveryRunAudited

\* EXECUTE is among the stages when it is over, and not before.
RowInv ==
    /\ audit_id # 0 => cpc = "idle" /\ audit_id \in DOMAIN decision_log
    /\ cpc = "audit" => broker_status # None /\ "EXECUTE" \in ToSet(stages)
    /\ cpc \notin {"audit", "idle", "killed"}
           => broker_status = None /\ "EXECUTE" \notin ToSet(stages)
    /\ RowMatchesRun

-----------------------------------------------------------------------------
\* What the stages of a run are extended by.
LEMMA StageLists ==
    /\ <<>> \in Seq(Stages) /\ <<"FETCH">> \in Seq(Stages) /\ <<"VALIDATE">> \in Seq(Stages)
    /\ <<"VALIDATE", "SKIPPED">> \in Seq(Stages) /\ <<"RISK">> \in Seq(Stages)
    /\ <<"SKIPPED">> \in Seq(Stages) /\ <<"EXECUTE">> \in Seq(Stages)
    /\ <<"AUDIT", "DONE">> \in Seq(Stages)
  BY DEF Stages

\* Noting stages keeps the list of stages a list of stages.
LEMMA AdvanceTypes ==
    ASSUME stages \in Seq(Stages), NEW ss \in Seq(Stages), NEW pc \in Phases,
           Advance(ss, pc)
    PROVE  stages' \in Seq(Stages) /\ cpc' \in Phases
  BY ConcatProperties DEF Advance

\* Every variable of the coordinator and of its broker keeps its type.
THEOREM TypeCorrect == Spec => []TypeInv
<1>1. Init => TypeInv
  <2> SUFFICES ASSUME Init PROVE TypeInv
    OBVIOUS
  <2>1. BrokerTypeOK
    BY BrokerInitTypes DEF Init
  <2>2. stages \in Seq(Stages) /\ decision_log \in Seq(Rows)
    BY StageLists DEF Init
  <2>3. config \in Configs
    BY DEF Init, NoConfig, Configs, Sides
  <2>4. violation \in Violations /\ broker_status \in Statuses \cup {None}
    BY DEF Init, Violations
  <2>5. QED
    BY <2>1, <2>2, <2>3, <2>4, CoordinatorAssumption DEF Init, TypeInv, Phases
<1>2. TypeInv /\ [Next]_vars => TypeInv'
  <2> SUFFICES ASSUME TypeInv, [Next]_vars PROVE TypeInv'
    OBVIOUS
  <2> USE DEF TypeInv
  <2>1. ASSUME NEW side \in Sides, NEW q \in Quantities, NEW l \in Limits, NEW pk \in Peaks,
               NEW loss \in Losses, NEW lv \in BOOLEAN, RunOnce(side, q, l, pk, loss, lv)
        PROVE  TypeInv'
    <3>1. BrokerTypeOK'
      BY <2>1 DEF RunOnce, BrokerTypeOK, market, exchange, call
    <3>2. config' \in Configs
      BY <2>1, CoordinatorAssumption DEF RunOnce, Configs
    <3>3. stages' \in Seq(Stages) /\ decision_log' \in Seq(Rows)
      BY <2>1, StageLists DEF RunOnce, log
    <3>4. /\ cpc' \in Phases /\ gap' \in Nat /\ audit_id' \in Nat
          /\ runs' \in Nat /\ kills' \in Nat /\ auditFailures' \in Nat
      BY <2>1 DEF RunOnce, Phases
    <3>5. /\ factory' \in BOOLEAN /\ store' \in BOOLEAN /\ unwritten' \subseteq Nat
          /\ risk_allowed' \in BOOLEAN
          /\ validated' \in BOOLEAN /\ cleared' \in BOOLEAN
      BY <2>1 DEF RunOnce, log, setup
    <3>6. violation' \in Violations /\ broker_status' \in Statuses \cup {None}
      BY <2>1 DEF RunOnce, Violations
    <3>7. QED
      BY <3>1, <3>2, <3>3, <3>4, <3>5, <3>6
  <2>2. ASSUME NEW ok \in BOOLEAN, Fetch(ok) PROVE TypeInv'
    <3>1. BrokerTypeOK'
      BY <2>2 DEF Fetch, BrokerTypeOK, brokerVars, market, exchange, call, ledger
    <3>2. stages' \in Seq(Stages) /\ cpc' \in Phases
      BY <2>2, AdvanceTypes, StageLists DEF Fetch, Block, Phases
    <3>3. QED
      BY <2>2, <3>1, <3>2 DEF Fetch, Block, bounds, log, setup, Violations
  <2>3. ASSUME NEW v \in {"pass", "critical", "raise"}, Validate(v) PROVE TypeInv'
    <3>1. BrokerTypeOK'
      BY <2>3 DEF Validate, BrokerTypeOK, brokerVars, market, exchange, call, ledger
    <3>2. stages' \in Seq(Stages) /\ cpc' \in Phases
      BY <2>3, AdvanceTypes, StageLists DEF Validate, Block, Phases
    <3>3. QED
      BY <2>3, <3>1, <3>2 DEF Validate, Block, bounds, log, setup, Violations
  <2>4. CASE Risk
    <3>1. BrokerTypeOK'
      BY <2>4 DEF Risk, BrokerTypeOK, brokerVars, market, exchange, call, ledger
    <3>2. stages' \in Seq(Stages) /\ cpc' \in Phases
      BY <2>4, AdvanceTypes, StageLists DEF Risk, Block, Phases
    <3>3. RiskVerdict(config) \in BOOLEAN
      BY DEF RiskVerdict
    <3>4. QED
      BY <2>4, <3>1, <3>2, <3>3 DEF Risk, Block, bounds, log, setup, Violations
  <2>5. CASE Tick
    BY <2>5 DEF Tick, BrokerTypeOK, brokerVars, market, exchange, call, ledger, bounds, log, setup
  <2>6. CASE ToctouCheck
    <3>1. BrokerTypeOK'
      BY <2>6 DEF ToctouCheck, BrokerTypeOK, brokerVars, market, exchange, call, ledger
    <3>2. stages' \in Seq(Stages) /\ cpc' \in Phases
      BY <2>6, AdvanceTypes, StageLists DEF ToctouCheck, Block, Phases
    <3>3. QED
      BY <2>6, <3>1, <3>2 DEF ToctouCheck, Block, bounds, log, setup, Violations
  <2>7. CASE Execute
    <3>1. ASSUME NEW s \in LocalRejections \cup Errors, ExecuteLocal(s) PROVE TypeInv'
      <4>1. BrokerTypeOK'
        BY <3>1 DEF ExecuteLocal, BrokerTypeOK, brokerVars, market, exchange, call, ledger
      <4>2. stages' \in Seq(Stages) /\ cpc' \in Phases
        BY <3>1, AdvanceTypes, StageLists DEF ExecuteLocal, Phases
      <4>3. QED
        BY <3>1, <4>1, <4>2 DEF ExecuteLocal, bounds, log, setup, Statuses
    <3>2. ASSUME PlaceOrder([side |-> config.side, num |-> config.qty, den |-> 1]),
                 cpc' = "broker", UNCHANGED <<setup, runVars, log, bounds>>
          PROVE  TypeInv'
      <4>1. BrokerTypeOK'
        BY <3>2, PlaceOrderTypes DEF Configs
      <4>2. QED
        BY <3>2, <4>1 DEF runVars, bounds, log, setup, Phases
    <3>3. QED
      BY <2>7, <3>1, <3>2 DEF Execute, LocalRejections, Errors
  <2>8. CASE BrokerDone
    <3>1. PICK s \in Statuses : Executed(s)
      BY <2>8 DEF BrokerDone, Statuses, Errors, BrokerTypeOK
    <3>2. BrokerTypeOK'
      BY <3>1 DEF Executed, BrokerIdle, BrokerTypeOK, NoOrder, NoSeen, Sides, Outcomes, OrderStatus,
                  market, exchange, ledger
    <3>3. stages' \in Seq(Stages) /\ cpc' \in Phases
      BY <3>1, AdvanceTypes, StageLists DEF Executed, Phases
    <3>4. QED
      BY <3>1, <3>2, <3>3 DEF Executed, bounds, log, setup
  <2>9. ASSUME NEW outcome \in AuditOutcomes, Audit(outcome) PROVE TypeInv'
    <3>1. BrokerTypeOK'
      BY <2>9 DEF Audit, AuditRow, BrokerTypeOK, brokerVars, market, exchange, call, ledger
    <3>2. Row \in Rows
      BY DEF Row, Rows
    <3>3. decision_log' \in Seq(Rows) /\ audit_id' \in Nat /\ auditFailures' \in Nat
      BY <2>9, <3>2 DEF Audit, AuditRow
    <3>4. stages' \in Seq(Stages) /\ cpc' \in Phases
      BY <2>9, AdvanceTypes, StageLists DEF Audit, AuditRow, Phases
    <3>5. QED
      BY <2>9, <3>1, <3>3, <3>4 DEF Audit, AuditRow, setup
  <2>10. CASE BrokerStep
    BY <2>10, BrokerStepTypes DEF BrokerStep, runVars, bounds, log, setup
  <2>11. CASE EnvironmentStep
    BY <2>11, EnvironmentTypes DEF EnvironmentStep, runVars, bounds, log, setup
  <2>12. CASE Kill
    BY <2>12 DEF Kill, BrokerIdle, BrokerTypeOK, NoOrder, NoSeen, Sides, Outcomes, OrderStatus,
                 market, exchange, ledger, runVars, bounds, log, setup, Phases
  <2>13. CASE Restart
    BY <2>13, StageLists DEF Restart, NoConfig, Configs, Sides, BrokerTypeOK, market, exchange, call,
                 bounds, log, setup, Phases, Violations
  <2>14. CASE UNCHANGED vars
    BY <2>14 DEF vars, BrokerTypeOK, brokerVars, market, exchange, call, ledger, runVars, bounds, log, setup
  <2>15. QED
    BY <2>1, <2>2, <2>3, <2>4, <2>5, <2>6, <2>7, <2>8, <2>9, <2>10, <2>11, <2>12, <2>13, <2>14
    DEF Next, Configure, RunStep
<1>3. QED
  BY <1>1, <1>2, PTL DEF Spec

-----------------------------------------------------------------------------
\* What every phase has established is kept by every step, kills and restarts
\* included.
LEMMA GateInvariant == Spec => [](GateInv /\ OrderOnlyAfterEveryGate)
<1> DEFINE Inv == GateInv /\ OrderOnlyAfterEveryGate
<1> USE DEF GateInv, OrderOnlyAfterEveryGate
<1>1. Init => Inv
  BY DEF Init, BrokerInit
<1>2. TypeInv /\ Inv /\ [Next]_vars => Inv'
  <2> SUFFICES ASSUME TypeInv, Inv, [Next]_vars PROVE Inv'
    OBVIOUS
  <2> USE DEF runVars, brokerVars, market, exchange, call, ledger
  <2>1. ASSUME NEW side \in Sides, NEW q \in Quantities, NEW l \in Limits, NEW pk \in Peaks,
               NEW loss \in Losses, NEW lv \in BOOLEAN, RunOnce(side, q, l, pk, loss, lv)
        PROVE  Inv'
    BY <2>1 DEF RunOnce
  <2>2. ASSUME NEW ok \in BOOLEAN, Fetch(ok) PROVE Inv'
    BY <2>2 DEF Fetch, Advance, Block
  <2>3. ASSUME NEW v \in {"pass", "critical", "raise"}, Validate(v) PROVE Inv'
    <3>1. cpc = "validate" /\ ((cpc' = "risk" /\ validated') \/ cpc' = "auditBlocked")
      BY <2>3 DEF Validate, Advance, Block
    <3>2. UNCHANGED <<bpc, live, sent, answerLost>>
      BY <2>3 DEF Validate
    <3>3. QED
      BY <3>1, <3>2
  <2>4. CASE Risk
    BY <2>4 DEF Risk, Advance, Block
  <2>5. CASE Tick
    BY <2>5 DEF Tick
  <2>6. CASE ToctouCheck
    BY <2>6 DEF ToctouCheck, Advance, Block
  <2>7. CASE Execute
    BY <2>7 DEF Execute, ExecuteLocal, Advance, PlaceOrder
  <2>8. CASE BrokerDone
    BY <2>8 DEF BrokerDone, Executed, BrokerIdle, Advance
  <2>9. ASSUME NEW outcome \in AuditOutcomes, Audit(outcome) PROVE Inv'
    BY <2>9 DEF Audit, AuditRow, Advance
  <2>10. CASE BrokerStep
    BY <2>10 DEF BrokerStep, Refuse, ReadQuote, ReadPortfolio, Evaluate, Exchange, Post,
                 RequestLost, Answer, AnswerLost
  <2>11. CASE EnvironmentStep
    BY <2>11 DEF EnvironmentStep, Environment, MarketMoves, FillWorking
  <2>12. CASE Kill
    BY <2>12 DEF Kill, BrokerIdle
  <2>13. CASE Restart
    BY <2>13 DEF Restart
  <2>14. CASE UNCHANGED vars
    BY <2>14 DEF vars
  <2>15. QED
    BY <2>1, <2>2, <2>3, <2>4, <2>5, <2>6, <2>7, <2>8, <2>9, <2>10, <2>11, <2>12, <2>13, <2>14
    DEF Next, Configure, RunStep
<1>3. QED
  BY <1>1, <1>2, TypeCorrect, PTL DEF Spec

\* No order reaches the exchange before validation, risk verdict, freshness check
\* and both locks have let the run through: _execute is only reached past them,
\* and a run starts with nothing sent.
THEOREM GatesBeforeOrder == Spec => []OrderOnlyAfterEveryGate
  BY GateInvariant, PTL

-----------------------------------------------------------------------------
\* The status with which a run ends hides no order: what place_order returned or
\* raised, and what run_once made of it, agree with what the exchange accepted.
THEOREM StatusIsTrue == Spec => []StatusTellsWhatWasSent
<1> USE DEF SentInv, Silent, LocalRejections, Errors, None
<1>1. Init => SentInv
  BY DEF Init, BrokerInit
<1>2. TypeInv /\ GateInv /\ SentInv /\ [Next]_vars => SentInv'
  <2> SUFFICES ASSUME TypeInv, GateInv, SentInv, [Next]_vars PROVE SentInv'
    OBVIOUS
  <2> USE DEF GateInv, runVars, brokerVars, market, exchange, call, ledger
  <2>1. ASSUME NEW side \in Sides, NEW q \in Quantities, NEW l \in Limits, NEW pk \in Peaks,
               NEW loss \in Losses, NEW lv \in BOOLEAN, RunOnce(side, q, l, pk, loss, lv)
        PROVE  SentInv'
    BY <2>1 DEF RunOnce
  <2>2. ASSUME NEW ok \in BOOLEAN, Fetch(ok) PROVE SentInv'
    BY <2>2 DEF Fetch, Advance, Block
  <2>3. ASSUME NEW v \in {"pass", "critical", "raise"}, Validate(v) PROVE SentInv'
    BY <2>3 DEF Validate, Advance, Block
  <2>4. CASE Risk
    BY <2>4 DEF Risk, Advance, Block
  <2>5. CASE Tick
    BY <2>5 DEF Tick
  <2>6. CASE ToctouCheck
    BY <2>6 DEF ToctouCheck, Advance, Block
  <2>7. CASE Execute
    BY <2>7 DEF Execute, ExecuteLocal, Advance, PlaceOrder
  <2>8. CASE BrokerDone
    <3>1. status \in OrderStatus \cup {"RAISED"}
      BY DEF TypeInv, BrokerTypeOK
    <3>2. QED
      BY <2>8, <3>1 DEF BrokerDone, Executed, BrokerIdle, Advance, OrderStatus
  <2>9. ASSUME NEW outcome \in AuditOutcomes, Audit(outcome) PROVE SentInv'
    BY <2>9 DEF Audit, AuditRow, Advance
  <2>10. CASE BrokerStep
    <3>1. reply \in Outcomes
      BY DEF TypeInv, BrokerTypeOK
    <3>2. CASE Refuse \/ ReadQuote \/ ReadPortfolio \/ Evaluate
      BY <2>10, <3>2 DEF BrokerStep, Refuse, ReadQuote, ReadPortfolio, Evaluate
    <3>3. CASE Exchange
      BY <2>10, <3>1, <3>3 DEF BrokerStep, Exchange, Post, RequestLost, Answer, AnswerLost,
                               MapStatus, Outcomes
    <3>4. QED
      BY <2>10, <3>2, <3>3 DEF BrokerStep
  <2>11. CASE EnvironmentStep
    BY <2>11 DEF EnvironmentStep, Environment, MarketMoves, FillWorking
  <2>12. CASE Kill
    BY <2>12 DEF Kill, BrokerIdle
  <2>13. CASE Restart
    BY <2>13 DEF Restart
  <2>14. CASE UNCHANGED vars
    BY <2>14 DEF vars
  <2>15. QED
    BY <2>1, <2>2, <2>3, <2>4, <2>5, <2>6, <2>7, <2>8, <2>9, <2>10, <2>11, <2>12, <2>13, <2>14
    DEF Next, Configure, RunStep
<1>3. SentInv => StatusTellsWhatWasSent
  BY DEF StatusTellsWhatWasSent, Decided
<1>4. QED
  BY <1>1, <1>2, <1>3, TypeCorrect, GateInvariant, PTL DEF Spec

-----------------------------------------------------------------------------
\* Steps inside a run touch neither the log nor what it is held against.
LEMMA RunKeepsLog ==
    ASSUME UNCHANGED <<log, setup, runs>>, LogInv,
           cpc \notin {"idle", "killed"}, cpc' \notin {"idle", "killed"}
    PROVE  LogInv'
  BY DEF LogInv, EveryRunAudited, log, setup

\* The run of a row is a number.
LEMMA RowOfLog ==
    ASSUME NEW rows \in Seq(Rows), NEW i \in DOMAIN rows
    PROVE  rows[i] \in Rows /\ rows[i].run \in Nat
<1>1. rows[i] \in Rows
  OBVIOUS
<1>2. QED
  BY <1>1 DEF Rows

\* The runs that have a row in a log.
RunsOf(rows) == { rows[i].run : i \in DOMAIN rows }

\* A row of a later run, appended to a log in run order, adds its run.
LEMMA AppendRow ==
    ASSUME NEW rows \in Seq(Rows), NEW row \in Rows,
           \A i \in DOMAIN rows : rows[i].run < row.run,
           \A i, j \in DOMAIN rows : i < j => rows[i].run < rows[j].run
    PROVE  LET longer == Append(rows, row)
           IN  /\ RunsOf(longer) = RunsOf(rows) \cup {row.run}
               /\ \A i, j \in DOMAIN longer : i < j => longer[i].run < longer[j].run
<1> DEFINE longer == Append(rows, row)
<1>1. /\ DOMAIN rows = 1..Len(rows) /\ Len(rows) \in Nat
      /\ DOMAIN longer = 1..(Len(rows) + 1)
      /\ \A i \in 1..Len(rows) : longer[i] = rows[i]
      /\ longer[Len(rows) + 1] = row
  OBVIOUS
<1> HIDE DEF longer
<1>2. RunsOf(longer) \subseteq RunsOf(rows) \cup {row.run}
  <2> SUFFICES ASSUME NEW i \in DOMAIN longer
               PROVE  longer[i].run \in RunsOf(rows) \cup {row.run}
    BY DEF RunsOf
  <2>1. CASE i = Len(rows) + 1
    BY <1>1, <2>1
  <2>2. CASE i # Len(rows) + 1
    BY <1>1, <2>2 DEF RunsOf
  <2>3. QED
    BY <2>1, <2>2
<1>3. RunsOf(rows) \subseteq RunsOf(longer)
  <2> SUFFICES ASSUME NEW i \in DOMAIN rows PROVE rows[i].run \in RunsOf(longer)
    BY DEF RunsOf
  <2>1. i \in DOMAIN longer /\ longer[i] = rows[i]
    BY <1>1
  <2>2. QED
    BY <2>1 DEF RunsOf
<1>4. row.run \in RunsOf(longer)
  <2>1. Len(rows) + 1 \in DOMAIN longer
    BY <1>1
  <2>2. QED
    BY <1>1, <2>1 DEF RunsOf
<1>5. \A i, j \in DOMAIN longer : i < j => longer[i].run < longer[j].run
  BY <1>1
<1>6. QED
  BY <1>2, <1>3, <1>4, <1>5 DEF longer

\* With a store_dsn every run that is over has its one row, in run order, unless it
\* is one of those that were killed or whose insert failed; whatever befell other
\* runs, no blocked or raising stage slips past _audit.
THEOREM RunsAudited == Spec => []EveryRunAudited
<1>1. Init => LogInv
  BY DEF Init, LogInv, EveryRunAudited
<1>2. TypeInv /\ GateInv /\ LogInv /\ [Next]_vars => LogInv'
  <2> SUFFICES ASSUME TypeInv, GateInv, LogInv, [Next]_vars PROVE LogInv'
    OBVIOUS
  <2>1. ASSUME NEW side \in Sides, NEW q \in Quantities, NEW l \in Limits, NEW pk \in Peaks,
               NEW loss \in Losses, NEW lv \in BOOLEAN, RunOnce(side, q, l, pk, loss, lv)
        PROVE  LogInv'
    <3>1. /\ cpc = "idle" /\ cpc' = "fetch" /\ runs' = runs + 1 /\ runs \in Nat
          /\ UNCHANGED <<decision_log, unwritten, store>>
      BY <2>1 DEF RunOnce, setup, log, TypeInv
    <3>2. 1..runs \subseteq 1..runs' /\ runs' > 0 /\ runs' \notin 1..runs
          /\ 1..(runs' - 1) = 1..runs
      BY <3>1
    <3>3. EveryRunAudited'
      BY <3>1, <3>2 DEF EveryRunAudited, LogInv
    <3>4. QED
      BY <3>1, <3>2, <3>3 DEF LogInv
  <2>2. ASSUME NEW ok \in BOOLEAN, Fetch(ok) PROVE LogInv'
    BY <2>2, RunKeepsLog DEF Fetch, Advance, Block, bounds
  <2>3. ASSUME NEW v \in {"pass", "critical", "raise"}, Validate(v) PROVE LogInv'
    BY <2>3, RunKeepsLog DEF Validate, Advance, Block, bounds
  <2>4. CASE Risk
    BY <2>4, RunKeepsLog DEF Risk, Advance, Block, bounds
  <2>5. CASE Tick
    BY <2>5, RunKeepsLog DEF Tick, bounds
  <2>6. CASE ToctouCheck
    BY <2>6, RunKeepsLog DEF ToctouCheck, Advance, Block, bounds
  <2>7. CASE Execute
    BY <2>7, RunKeepsLog DEF Execute, ExecuteLocal, Advance, bounds
  <2>8. CASE BrokerDone
    BY <2>8, RunKeepsLog DEF BrokerDone, Executed, Advance, bounds
  <2>9. ASSUME NEW outcome \in AuditOutcomes, Audit(outcome) PROVE LogInv'
    <3>1. /\ cpc \notin {"idle", "killed"} /\ cpc' = "idle"
          /\ runs' = runs /\ store' = store /\ runs \in Nat /\ store \in BOOLEAN
      BY <2>9 DEF Audit, AuditRow, Advance, setup, TypeInv
    <3>2. /\ RunsOf(decision_log) = IF store THEN (1..(runs - 1)) \ unwritten ELSE {}
          /\ \A i, j \in DOMAIN decision_log :
                 i < j => decision_log[i].run < decision_log[j].run
      BY <3>1 DEF LogInv, EveryRunAudited, RunsOf
    <3>3. runs > 0 /\ runs \in 1..runs /\ runs \notin unwritten /\ unwritten \subseteq 1..runs
      BY <3>1 DEF LogInv
    <3>4. 1..runs = (1..(runs - 1)) \cup {runs}
      BY <3>1, <3>3
    <3>5. SUFFICES ASSUME TRUE
                   PROVE  /\ unwritten' \subseteq 1..runs
                          /\ RunsOf(decision_log') = IF store THEN (1..runs) \ unwritten' ELSE {}
                          /\ \A i, j \in DOMAIN decision_log' :
                                 i < j => decision_log'[i].run < decision_log'[j].run
      BY <3>1 DEF LogInv, EveryRunAudited, RunsOf
    <3>6. CASE outcome = "failed"
      <4>1. /\ decision_log' = decision_log /\ unwritten' = unwritten \cup {runs} /\ store
        BY <2>9, <3>6 DEF Audit, AuditRow
      <4>2. (1..runs) \ (unwritten \cup {runs}) = (1..(runs - 1)) \ unwritten
        BY <3>1, <3>3, <3>4
      <4>3. QED
        BY <3>2, <3>3, <4>1, <4>2
    <3>7. CASE outcome # "failed" /\ ~store
      BY <2>9, <3>2, <3>3, <3>7 DEF Audit, AuditRow
    <3>8. CASE outcome # "failed" /\ store
      <4>1. decision_log' = Append(decision_log, Row) /\ unwritten' = unwritten
        BY <2>9, <3>8 DEF Audit, AuditRow
      <4>2. Row \in Rows /\ Row.run = runs /\ decision_log \in Seq(Rows)
        BY DEF Row, Rows, TypeInv
      <4>3. \A i \in DOMAIN decision_log : decision_log[i].run < runs
        <5> SUFFICES ASSUME NEW i \in DOMAIN decision_log PROVE decision_log[i].run < runs
          OBVIOUS
        <5>1. decision_log[i].run \in 1..(runs - 1)
          BY <3>2, <3>8 DEF RunsOf
        <5>2. QED
          BY <3>1, <5>1
      <4>4. /\ RunsOf(decision_log') = RunsOf(decision_log) \cup {runs}
            /\ \A i, j \in DOMAIN decision_log' :
                   i < j => decision_log'[i].run < decision_log'[j].run
        BY <3>2, <4>1, <4>2, <4>3, AppendRow
      <4>5. (1..runs) \ unwritten = ((1..(runs - 1)) \ unwritten) \cup {runs}
        BY <3>3, <3>4
      <4>6. QED
        BY <3>2, <3>3, <3>8, <4>1, <4>4, <4>5
    <3>9. QED
      BY <3>6, <3>7, <3>8
  <2>10. CASE BrokerStep
    BY <2>10, RunKeepsLog DEF BrokerStep, bounds
  <2>11. CASE EnvironmentStep
    BY <2>11 DEF EnvironmentStep, LogInv, EveryRunAudited, log, setup, bounds
  <2>12. CASE Kill
    <3>1. /\ cpc # "idle" /\ cpc' = "killed" /\ unwritten' = unwritten \cup {runs}
          /\ runs \in Nat /\ UNCHANGED <<decision_log, store, runs>>
      BY <2>12 DEF Kill, setup, TypeInv
    <3>2. runs \in 1..runs /\ unwritten' \subseteq 1..runs
      BY <3>1 DEF LogInv
    <3>3. CASE cpc = "killed"
      <4>1. unwritten' = unwritten
        BY <3>1, <3>3 DEF LogInv
      <4>2. QED
        BY <3>1, <3>2, <3>3, <4>1 DEF LogInv, EveryRunAudited
    <3>4. CASE cpc # "killed"
      <4>1. (1..runs) \ unwritten' = (1..(runs - 1)) \ unwritten
        BY <3>1, <3>2
      <4>2. EveryRunAudited'
        BY <3>1, <3>4, <4>1 DEF LogInv, EveryRunAudited
      <4>3. QED
        BY <3>1, <3>2, <4>2 DEF LogInv
    <3>5. QED
      BY <3>3, <3>4
  <2>13. CASE Restart
    BY <2>13 DEF Restart, LogInv, EveryRunAudited, log, setup, bounds
  <2>14. CASE UNCHANGED vars
    BY <2>14 DEF vars, LogInv, EveryRunAudited, log, setup, bounds
  <2>15. QED
    BY <2>1, <2>2, <2>3, <2>4, <2>5, <2>6, <2>7, <2>8, <2>9, <2>10, <2>11, <2>12, <2>13, <2>14
    DEF Next, Configure, RunStep
<1>3. LogInv => EveryRunAudited
  BY DEF LogInv
<1>4. QED
  BY <1>1, <1>2, <1>3, TypeCorrect, GateInvariant, PTL DEF Spec

-----------------------------------------------------------------------------
\* Noting stages that are not EXECUTE does not make EXECUTE one of them, and
\* noting it does.
LEMMA AdvanceStages ==
    ASSUME stages \in Seq(Stages), NEW ss \in Seq(Stages), NEW pc, Advance(ss, pc)
    PROVE  ToSet(stages') = ToSet(stages) \cup ToSet(ss)
<1>1. stages' = stages \o ss
  BY DEF Advance
<1>2. /\ DOMAIN stages' = 1 .. Len(stages) + Len(ss)
      /\ \A i \in 1 .. Len(stages) + Len(ss) :
             stages'[i] = IF i <= Len(stages) THEN stages[i] ELSE ss[i - Len(stages)]
  BY <1>1, ConcatProperties
<1>3. ASSUME NEW x \in ToSet(stages') PROVE x \in ToSet(stages) \cup ToSet(ss)
  BY <1>2, <1>3 DEF ToSet
<1>4. ASSUME NEW x \in ToSet(stages) PROVE x \in ToSet(stages')
  BY <1>2, <1>4 DEF ToSet
<1>5. ASSUME NEW x \in ToSet(ss) PROVE x \in ToSet(stages')
  <2>1. PICK i \in 1 .. Len(ss) : x = ss[i]
    BY <1>5 DEF ToSet
  <2>2. i + Len(stages) \in DOMAIN stages' /\ stages'[i + Len(stages)] = ss[i]
    BY <1>2
  <2>3. QED
    BY <2>1, <2>2 DEF ToSet
<1>6. QED
  BY <1>3, <1>4, <1>5

\* A step before EXECUTE that notes the stages ss leaves no row id and no broker status.
LEMMA BeforeExecute ==
    ASSUME TypeInv, RowInv, cpc \notin {"audit", "idle", "killed"},
           NEW ss \in Seq(Stages), NEW pc \in Phases \ {"audit", "idle", "killed"},
           Advance(ss, pc), "EXECUTE" \notin ToSet(ss),
           broker_status' = broker_status, audit_id' = audit_id
    PROVE  RowInv'
<1>1. ToSet(stages') = ToSet(stages) \cup ToSet(ss)
  BY AdvanceStages DEF TypeInv
<1>2. QED
  BY <1>1 DEF RowInv, Advance, RowMatchesRun

\* The stages noted other than by _execute.
LEMMA NotExecute ==
    /\ "EXECUTE" \notin ToSet(<<>>) /\ "EXECUTE" \notin ToSet(<<"FETCH">>)
    /\ "EXECUTE" \notin ToSet(<<"VALIDATE">>) /\ "EXECUTE" \notin ToSet(<<"VALIDATE", "SKIPPED">>)
    /\ "EXECUTE" \notin ToSet(<<"RISK">>) /\ "EXECUTE" \notin ToSet(<<"SKIPPED">>)
    /\ "EXECUTE" \in ToSet(<<"EXECUTE">>)
  BY DEF ToSet

\* The row whose id a run reports is its own: run, verdict and status are the ones
\* of the result, it has a status if and only if EXECUTE is among its stages, and
\* its stages are the run's.
THEOREM RowIsTheRuns == Spec => []RowMatchesRun
<1>1. Init => RowInv
  BY DEF Init, RowInv, RowMatchesRun
<1>2. TypeInv /\ RowInv /\ [Next]_vars => RowInv'
  <2> SUFFICES ASSUME TypeInv, RowInv, [Next]_vars PROVE RowInv'
    OBVIOUS
  <2>1. ASSUME NEW side \in Sides, NEW q \in Quantities, NEW l \in Limits, NEW pk \in Peaks,
               NEW loss \in Losses, NEW lv \in BOOLEAN, RunOnce(side, q, l, pk, loss, lv)
        PROVE  RowInv'
    BY <2>1, NotExecute DEF RunOnce, log, RowInv, RowMatchesRun
  <2>2. ASSUME NEW ok \in BOOLEAN, Fetch(ok) PROVE RowInv'
    BY <2>2, BeforeExecute, NotExecute, StageLists DEF Fetch, Block, Phases
  <2>3. ASSUME NEW v \in {"pass", "critical", "raise"}, Validate(v) PROVE RowInv'
    BY <2>3, BeforeExecute, NotExecute, StageLists DEF Validate, Block, Phases
  <2>4. CASE Risk
    BY <2>4, BeforeExecute, NotExecute, StageLists DEF Risk, Block, Phases
  <2>5. CASE Tick
    BY <2>5 DEF Tick, RowInv, RowMatchesRun, bounds, log
  <2>6. CASE ToctouCheck
    <3>1. CASE gap <= Window
      BY <2>6, <3>1 DEF ToctouCheck, bounds, log, RowInv, RowMatchesRun
    <3>2. CASE ~(gap <= Window)
      BY <2>6, <3>2, BeforeExecute, NotExecute, StageLists DEF ToctouCheck, Block, Phases
    <3>3. QED
      BY <3>1, <3>2
  <2>7. CASE Execute
    <3>1. ASSUME NEW s \in LocalRejections \cup Errors, ExecuteLocal(s) PROVE RowInv'
      <4>1. "EXECUTE" \in ToSet(stages')
        BY <3>1, AdvanceStages, StageLists, NotExecute DEF ExecuteLocal, TypeInv
      <4>2. QED
        BY <2>7, <3>1, <4>1
        DEF Execute, ExecuteLocal, Advance, RowInv, RowMatchesRun, LocalRejections, Errors, None
    <3>2. ASSUME cpc' = "broker", UNCHANGED <<setup, runVars, log, bounds>>
          PROVE  RowInv'
      BY <2>7, <3>2 DEF Execute, RowInv, RowMatchesRun, runVars, bounds, log
    <3>3. QED
      BY <2>7, <3>1, <3>2 DEF Execute, LocalRejections, Errors
  <2>8. CASE BrokerDone
    <3>1. PICK s \in OrderStatus \cup Errors : Executed(s)
      BY <2>8 DEF BrokerDone, Errors, TypeInv, BrokerTypeOK
    <3>2. "EXECUTE" \in ToSet(stages')
      BY <3>1, AdvanceStages, StageLists, NotExecute DEF Executed, TypeInv
    <3>3. QED
      BY <3>1, <3>2 DEF Executed, Advance, RowInv, RowMatchesRun, OrderStatus, Errors, None
  <2>9. ASSUME NEW outcome \in AuditOutcomes, Audit(outcome) PROVE RowInv'
    <3>1. /\ cpc \in {"audit", "auditBlocked"} /\ cpc' = "idle"
          /\ UNCHANGED <<runs, risk_allowed, broker_status>>
      BY <2>9 DEF Audit, AuditRow, Advance
    <3>2. SUFFICES ASSUME audit_id' # 0
                   PROVE  audit_id' \in DOMAIN decision_log' /\ RowMatchesRun'
      <4>1. audit_id' = 0 => RowMatchesRun'
        BY DEF RowMatchesRun
      <4>2. QED
        BY <3>1, <4>1 DEF RowInv
    <3>3. /\ decision_log' = Append(decision_log, Row) /\ Row \in Rows
          /\ audit_id' = Len(decision_log) + 1
      BY <2>9, <3>2 DEF Audit, AuditRow, Row, Rows, TypeInv, AuditOutcomes
    <3>4. audit_id' \in DOMAIN decision_log' /\ decision_log'[audit_id'] = Row
      BY <3>3 DEF TypeInv
    <3>5. (broker_status # None) = ("EXECUTE" \in ToSet(stages))
      BY <3>1 DEF RowInv
    <3>6. PICK ss \in Seq(Stages) : stages' = stages \o ss
      BY <2>9, StageLists DEF Audit, AuditRow, Advance
    <3>7. IsPrefix(stages, stages')
      BY <3>6, ConcatProperties DEF TypeInv, IsPrefix
    <3>8. QED
      BY <3>1, <3>4, <3>5, <3>7 DEF RowMatchesRun, Row
  <2>10. CASE BrokerStep
    BY <2>10 DEF BrokerStep, RowInv, RowMatchesRun, runVars, bounds, log
  <2>11. CASE EnvironmentStep
    BY <2>11 DEF EnvironmentStep, RowInv, RowMatchesRun, runVars, bounds, log
  <2>12. CASE Kill
    BY <2>12 DEF Kill, RowInv, RowMatchesRun, runVars, bounds, log
  <2>13. CASE Restart
    BY <2>13 DEF Restart, bounds, log, RowInv, RowMatchesRun
  <2>14. CASE UNCHANGED vars
    BY <2>14 DEF vars, RowInv, RowMatchesRun, runVars, bounds, log
  <2>15. QED
    BY <2>1, <2>2, <2>3, <2>4, <2>5, <2>6, <2>7, <2>8, <2>9, <2>10, <2>11, <2>12, <2>13, <2>14
    DEF Next, Configure, RunStep
<1>3. RowInv => RowMatchesRun
  BY DEF RowInv
<1>4. QED
  BY <1>1, <1>2, <1>3, TypeCorrect, PTL DEF Spec
=============================================================================
