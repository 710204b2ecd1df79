------------------------------ MODULE RiskGate ------------------------------
(***************************************************************************)
(* RiskGate.evaluate of src/src/risk/gate.py, a pure function of an intent *)
(* and a portfolio state.  Decimal quantities are num/den and every        *)
(* comparison of a percentage is multiplied out, so that integers suffice. *)
(***************************************************************************)
EXTENDS Integers
LOCAL INSTANCE FiniteSetsExt

CONSTANTS MaxPositionPct, MaxSectorPct, MaxDailyLossPct, MaxDdPct

(* An intent: [symbol, side, num, den, price, sector]; a state: [equity,     *)
(* peak, pnl, positions], positions a function from symbols to [qty, sector]. *)
NoSector == "none"

Existing(intent, state) == state.positions[intent.symbol].qty

\* The short a SELL would open, in units of 1/den: the part that trims a long
\* is not counted.
Short(intent, existing) ==
    intent.num - (IF intent.num <= existing * intent.den
                  THEN intent.num ELSE existing * intent.den)

\* Mutant: the order alone is measured, not the position it leads to.
Exposure_DeltaOnly(intent, state) ==
    IF intent.side = "sell" THEN Short(intent, Existing(intent, state)) ELSE intent.num

Exposure(intent, state) ==
    IF intent.side = "sell"
    THEN Short(intent, Existing(intent, state))
    ELSE Existing(intent, state) * intent.den + intent.num

PositionViolated(intent, state) ==
    Exposure(intent, state) * intent.price * 100
        > MaxPositionPct * state.equity * intent.den
    /\ Exposure(intent, state) > 0

InSector(intent, state) ==
    {s \in DOMAIN state.positions : state.positions[s].sector = intent.sector}

OwnInSector(intent, state) ==
    IF intent.symbol \in InSector(intent, state) THEN Existing(intent, state) ELSE 0

\* The whole sector at the intent's price, after the trade.
SectorExposure(intent, state) ==
    LET sector == MapThenSumSet(LAMBDA s : state.positions[s].qty, InSector(intent, state))
                      * intent.den
        short  == Short(intent, OwnInSector(intent, state))
    IN  IF intent.side = "sell" THEN sector - (intent.num - short) + short
        ELSE sector + intent.num

SectorViolated(intent, state) ==
    /\ intent.sector # NoSector
    /\ SectorExposure(intent, state) * intent.price * 100
           > MaxSectorPct * state.equity * intent.den

DailyLossViolated(state) ==
    state.pnl < 0 /\ (-state.pnl) * 100 > MaxDailyLossPct * state.equity

DrawdownViolated(state) ==
    state.peak <= 0 \/ (state.peak - state.equity) * 100 > MaxDdPct * state.peak

\* The price 1 stands for "no quote" in any order of more than one share.
NoQuote(intent) == intent.price = 1 /\ intent.num > intent.den

Allowed(intent, state) ==
    /\ ~NoQuote(intent)
    /\ ~PositionViolated(intent, state)
    /\ ~SectorViolated(intent, state)
    /\ ~DailyLossViolated(state)
    /\ ~DrawdownViolated(state)
=============================================================================
