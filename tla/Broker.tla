------------------------------- MODULE Broker -------------------------------
(***************************************************************************)
(* TinkoffAccount.place_order of src/src/broker/tinkoff_account.py against *)
(* the exchange it posts to.  Quote, portfolio and answer are separate     *)
(* round trips: prices move and earlier orders fill between them, and a    *)
(* request or its answer may be lost.  One symbol is traded.               *)
(***************************************************************************)
EXTENDS Integers

CONSTANTS Prices, Navs,       \* market values the environment moves through
          MaxMoves,           \* market moves
          MaxLost,            \* requests or answers lost
          DayOpen,            \* the day's basis of the daily P&L
          MaxPositionPct, MaxSectorPct, MaxDailyLossPct, MaxDdPct

ASSUME MarketAssumption ==
    /\ Prices \subseteq Nat \ {0} /\ Navs \subseteq Nat \ {0}
    /\ DayOpen \in Nat /\ MaxMoves \in Nat /\ MaxLost \in Nat

ASSUME LimitsAssumption ==
    /\ MaxPositionPct \in 0..100 /\ MaxSectorPct \in 0..100
    /\ MaxDailyLossPct \in 0..100 /\ MaxDdPct \in 0..100

VARIABLES
    live,                     \* LIVE_TRADING=true
    price, nav,               \* the market and the account's NAV
    peak,                     \* the account's high-water mark
    position, working,        \* what the exchange holds for the account
    bpc, order, seen, reply,  \* the call of place_order under way
    status,                   \* what it returned, or "RAISED" for BrokerError
    moves, losses

\* History: shares the exchange accepted, whether an answer of an accepted
\* order was lost, and orders accepted since a kill switch fell due.
VARIABLES sent, answerLost, sentTripped

market   == <<price, nav, moves>>
exchange == <<position, working>>
call     == <<bpc, order, seen, reply, status>>
ledger   == <<sent, answerLost, sentTripped>>
brokerVars == <<live, market, peak, exchange, call, losses, ledger>>

Gate == INSTANCE RiskGate

Sides == {"buy", "sell"}
OrderStatus == {"REJECTED", "FILLED", "CANCELLED", "SUBMITTED"}
Outcomes == {"FILL", "PARTIALLYFILL", "NEW", "REJECTED", "CANCELLED"}

NoOrder == [side |-> "buy", num |-> 0, den |-> 1]
NoSeen  == [price |-> 0, equity |-> 0, qty |-> 0]

-----------------------------------------------------------------------------
(* What the gate is asked: the order at the quoted price against the        *)
(* portfolio as read.  The broker path knows no sectors.                     *)

Intent(o, p) == [symbol |-> "S", side |-> o.side, num |-> o.num, den |-> o.den,
                 price |-> p, sector |-> Gate!NoSector]

Portfolio(equity, qty, hwm, pnl) ==
    [equity |-> equity, peak |-> hwm, pnl |-> pnl,
     positions |-> [s \in {"S"} |-> [qty |-> qty, sector |-> Gate!NoSector]]]

\* A kill switch is due at NAV v: RISK_DD or RISK_DAILY_LOSS.
TrippedAt(v) == LET state == Portfolio(v, position, peak, v - DayOpen)
                IN  Gate!DrawdownViolated(state) \/ Gate!DailyLossViolated(state)

-----------------------------------------------------------------------------
(* place_order, step by step.                                                *)

\* The LIVE_TRADING gate comes before anything touches the broker.
PlaceOrder(o) ==
    /\ bpc = "idle"
    /\ order' = o
    /\ IF live THEN bpc' = "quote" /\ UNCHANGED status
               ELSE bpc' = "done" /\ status' = "REJECTED"
    /\ UNCHANGED <<live, market, peak, exchange, seen, reply, losses, ledger>>

\* The quote, the portfolio or, once the gate has approved, the FIGI lookup fails:
\* a BrokerError before the order is posted is a refusal.
Refuse ==
    /\ bpc \in {"quote", "portfolio", "post"}
    /\ status' = "REJECTED" /\ bpc' = "done"
    /\ UNCHANGED <<live, market, peak, exchange, order, seen, reply, losses, ledger>>

ReadQuote ==
    /\ bpc = "quote"
    /\ seen' = [seen EXCEPT !.price = price]
    /\ bpc' = "portfolio"
    /\ UNCHANGED <<live, market, peak, exchange, order, reply, status, losses, ledger>>

\* Position.quantity is at least zero: a portfolio with a short cannot be built.
Representable(qty) == qty >= 0

\* _fetch_real_portfolio_state: the mark is raised before the gate sees it.  The
\* ValidationError of a short position is not a refusal but a BrokerError.
ReadPortfolio ==
    /\ bpc = "portfolio"
    /\ seen' = [seen EXCEPT !.equity = nav, !.qty = position]
    /\ peak' = IF nav > peak THEN nav ELSE peak
    /\ IF Representable(position)
       THEN bpc' = "gate" /\ UNCHANGED status
       ELSE bpc' = "done" /\ status' = "RAISED"
    /\ UNCHANGED <<live, market, exchange, order, reply, losses, ledger>>

\* Mutant: the order is posted on the parent's approval alone.
Evaluate_Skip ==
    /\ bpc = "gate"
    /\ bpc' = "post"
    /\ UNCHANGED <<live, market, peak, exchange, order, seen, reply, status, losses, ledger>>

Evaluate ==
    /\ bpc = "gate"
    /\ IF Gate!Allowed(Intent(order, seen.price),
                       Portfolio(seen.equity, seen.qty, peak, seen.equity - DayOpen))
       THEN bpc' = "post" /\ UNCHANGED status
       ELSE bpc' = "done" /\ status' = "REJECTED"
    /\ UNCHANGED <<live, market, peak, exchange, order, seen, reply, losses, ledger>>

\* Mutant: a fractional quantity is rounded up.
Shares_Ceil(o) == (o.num + o.den - 1) \div o.den

\* int(order.quantity) truncates.
Shares(o) == o.num \div o.den

\* The connection cannot be opened, or the order never arrives: the caller gets
\* BrokerError.
RequestLost ==
    /\ bpc \in {"quote", "post"} /\ losses < MaxLost
    /\ losses' = losses + 1
    /\ status' = "RAISED" /\ bpc' = "done"
    /\ UNCHANGED <<live, market, peak, exchange, order, seen, reply, ledger>>

Signed(side, q) == IF side = "buy" THEN q ELSE -q

\* The exchange takes the order and answers: a fill takes all of it, a partial
\* fill takes one share and leaves the rest working.
Post(outcome, filled) ==
    /\ bpc = "post"
    /\ filled \in CASE outcome = "FILL" -> {Shares(order)}
                    [] outcome = "PARTIALLYFILL" -> IF Shares(order) > 1 THEN {1} ELSE {}
                    [] OTHER -> {0}
    /\ position' = position + Signed(order.side, filled)
    /\ working' = IF outcome \in {"NEW", "PARTIALLYFILL"}
                  THEN [working EXCEPT ![order.side] = @ + Shares(order) - filled]
                  ELSE working
    /\ IF outcome \in {"REJECTED", "CANCELLED"}
       THEN UNCHANGED <<sent, sentTripped>>
       ELSE /\ sent' = sent + Shares(order)
            /\ sentTripped' = IF TrippedAt(nav) THEN sentTripped + 1 ELSE 0
    /\ reply' = outcome
    /\ bpc' = "answer"
    /\ UNCHANGED <<live, market, peak, order, seen, status, losses, answerLost>>

\* _map_status: a partial fill counts as FILLED.
MapStatus(outcome) ==
    CASE outcome \in {"FILL", "PARTIALLYFILL"} -> "FILLED"
      [] outcome = "REJECTED" -> "REJECTED"
      [] outcome = "CANCELLED" -> "CANCELLED"
      [] OTHER -> "SUBMITTED"

Answer ==
    /\ bpc = "answer"
    /\ status' = MapStatus(reply) /\ bpc' = "done"
    /\ UNCHANGED <<live, market, peak, exchange, order, seen, reply, losses, ledger>>

\* The order stands at the exchange, the caller gets BrokerError.
AnswerLost ==
    /\ bpc = "answer" /\ losses < MaxLost
    /\ losses' = losses + 1
    /\ answerLost' = (answerLost \/ reply \in {"FILL", "PARTIALLYFILL", "NEW"})
    /\ status' = "RAISED" /\ bpc' = "done"
    /\ UNCHANGED <<live, market, peak, exchange, order, seen, reply, sent, sentTripped>>

-----------------------------------------------------------------------------
(* The environment.                                                          *)

MarketMoves(p, v) ==
    /\ moves < MaxMoves
    /\ <<p, v>> # <<price, nav>>
    /\ price' = p /\ nav' = v /\ moves' = moves + 1
    /\ sentTripped' = IF TrippedAt(v) THEN sentTripped ELSE 0
    /\ UNCHANGED <<live, peak, exchange, call, losses, sent, answerLost>>

FillWorking(side) ==
    /\ working[side] > 0
    /\ position' = position + Signed(side, working[side])
    /\ working' = [working EXCEPT ![side] = 0]
    /\ UNCHANGED <<live, market, peak, call, losses, ledger>>

BrokerInit ==
    /\ live \in BOOLEAN
    /\ price \in Prices /\ nav \in Navs /\ peak = nav
    /\ position = 0 /\ working = [s \in Sides |-> 0]
    /\ bpc = "idle" /\ order = NoOrder /\ seen = NoSeen /\ reply = "REJECTED"
    /\ status = "REJECTED"
    /\ moves = 0 /\ losses = 0
    /\ sent = 0 /\ answerLost = FALSE /\ sentTripped = 0

Exchange ==
    \/ \E outcome \in Outcomes, filled \in 0..Shares(order) : Post(outcome, filled)
    \/ RequestLost \/ Answer \/ AnswerLost

Environment ==
    \/ \E p \in Prices, v \in Navs : MarketMoves(p, v)
    \/ \E side \in Sides : FillWorking(side)

BrokerTypeOK ==
    /\ live \in BOOLEAN /\ price \in Prices /\ nav \in Navs /\ peak \in Navs
    /\ position \in Int /\ working \in [Sides -> Nat]
    /\ bpc \in {"idle", "quote", "portfolio", "gate", "post", "answer", "done"}
    /\ order \in [side : Sides, num : Nat, den : Nat \ {0}]
    /\ seen \in [price : Nat, equity : Nat, qty : Int]
    /\ reply \in Outcomes /\ status \in OrderStatus \cup {"RAISED"}
    /\ moves \in Nat /\ losses \in Nat
    /\ sent \in Nat /\ answerLost \in BOOLEAN /\ sentTripped \in Nat
=============================================================================
