-------------------------------- MODULE Sizing --------------------------------
(***************************************************************************)
(* Position sizing (src/src/broker/sizing.py): the pure function           *)
(* compute_position_size over the macro regime of                          *)
(* src/src/macro/regime.py, and the audit hook that appends one line per   *)
(* call to a JSONL file by writing a sibling .tmp and renaming it over the *)
(* file.                                                                   *)
(*                                                                         *)
(* Money is whole kopecks, scalars are whole percents and the ATR is in    *)
(* basis points, each product cut to a whole unit where the code keeps 28  *)
(* decimal digits.  A record of the audit file is the number of its call;  *)
(* one process writes the file, as the directory layout of the docstring   *)
(* supposes, and may be killed between any two system calls.               *)
(***************************************************************************)
EXTENDS Integers, Sequences, FiniteSets, SequencesExt

CONSTANTS
    Cash, Peak, Equities, Confidences, Prices, Series, Snapshots,   \* the arguments of a call
    RiskPct,         \* SizingConfig.risk_per_trade_pct, in percent of the cash
    AtrLookback,     \* SizingConfig.atr_lookback
    EwmaMinBars,     \* SizingConfig.ewma_min_bars
    LotSize,         \* SizingConfig.lot_size
    MaxCalls,        \* bound: calls of compute_position_size in a behaviour
    MaxFaults        \* bound: kills, failed reads and failed writes

None == 0                    \* Quote.reference_price is None
TargetAtr == 200             \* TARGET_ATR_FRAC, in basis points
MinAtr == 1                  \* MIN_ATR_FRAC
MaxVol == 300                \* MAX_VOL_SCALAR, in percent
MaxLiq == 200                \* MAX_LIQ_SCALAR
MaxAdvPct == 5               \* MAX_ADV_PCT
DDFloor == 25                \* DD_FLOOR
DDKnee == 50                 \* DD_KNEE_PCT
MaxCashPct == 10             \* MAX_SIZE_PCT_OF_CASH
MinLots == 1                 \* MIN_SIZE_LOTS
EwmaLambda == 94             \* EWMA_LAMBDA, in percent
SeedBars == 20               \* the bars that seed the EWMA; DEFAULT_ATR_LOOKBACK

ASSUME SizingAssumption ==
    /\ RiskPct \in 1..100 /\ AtrLookback \in Nat \ {0} /\ LotSize \in Nat \ {0}
    /\ EwmaMinBars \in Nat /\ MaxCalls \in Nat /\ MaxFaults \in Nat
    /\ Cash \subseteq Nat /\ Peak \in Nat /\ Equities \subseteq 1..Peak   \* PortfolioState's validators
    /\ Confidences \subseteq 0..100 /\ Prices \subseteq Nat               \* Quote's
    /\ Series \subseteq Seq([high : Nat \ {0}, low : Nat, close : Nat \ {0}, volume : Nat])   \* Bar's
    /\ Snapshots \subseteq [cbr : Int, usd : Int, usdPrev : Int, imoex : Int, imoexPrev : Int]

Inputs == [cash : Cash, equity : Equities, confidence : Confidences,
           reference : Prices, bars : Series, macro : Snapshots]

VARIABLES
    input,           \* the arguments of the last call
    spec,            \* its OrderSpec: [quantity, price, skip]
    calls,           \* calls made so far; the record of a call is its number
    pc,              \* where the audit hook is
    file, tmp,       \* the audit file and its sibling: [lines, partial]
    existing,        \* what write_audit_jsonl has read
    returned,        \* ghost: the records whose write returned
    unread,          \* ghost: a read of the file has failed
    faults

vars == <<input, spec, calls, pc, file, tmp, existing, returned, unread, faults>>

Smaller(a, b) == IF a < b THEN a ELSE b
Larger(a, b) == IF a < b THEN b ELSE a
Of(amount, percent) == (amount * percent) \div 100
Window(bars, lookback) == SubSeq(bars, Larger(1, Len(bars) - lookback + 1), Len(bars))
Total(seq) == FoldSeq(LAMBDA x, y : x + y, 0, seq)

-------------------------------------------------------------------------------
(* The scalars.                                                            *)

compute_atr_simple(bars, lookback) ==
    LET window == Window(bars, lookback)
        range  == Total([k \in DOMAIN window |-> window[k].high - window[k].low])
        close  == Total([k \in DOMAIN window |-> window[k].close])
    IN  (range * 10000) \div close

\* The whole part of the root.
_decimal_sqrt(value) ==
    CHOOSE r \in 0..value : r * r <= value /\ value < (r + 1) * (r + 1)

\* The square of a bar's relative range.
Move2(bar) ==
    LET move == ((bar.high - bar.low) * 10000) \div bar.close IN move * move

\* The root of a variance that starts from the simple ATR of the first bars and
\* forgets a little of itself with each bar.
compute_atr_ewma(bars) ==
    LET first == SubSeq(bars, 1, Smaller(SeedBars, Len(bars)))
        seed  == compute_atr_simple(first, SeedBars)
        variance[k \in 0..Len(bars)] ==
            IF k = 0 THEN seed * seed
            ELSE (EwmaLambda * variance[k - 1] + (100 - EwmaLambda) * Move2(bars[k])) \div 100
    IN  IF Len(bars) < 2 THEN 0 ELSE _decimal_sqrt(variance[Len(bars)])

compute_atr_actual(bars) ==
    IF Len(bars) < EwmaMinBars THEN compute_atr_simple(bars, AtrLookback)
    ELSE compute_atr_ewma(bars)

vol_scalar(bars) ==
    Smaller((TargetAtr * 100) \div Larger(compute_atr_actual(bars), MinAtr), MaxVol)

adv(bars) ==
    LET window == Window(bars, AtrLookback) IN Total([k \in DOMAIN window |-> window[k].volume])

\* No volume counts as plenty of it.
_liquidity_scalar(volume, cash, price) ==
    LET base == Of(cash, RiskPct)
    IN  IF volume <= 0 \/ Of(base, MaxAdvPct) <= 0 THEN MaxLiq
        ELSE Smaller((volume * price * 100) \div Of(base, MaxAdvPct), MaxLiq)

drawdown_pct(i) == ((Peak - i.equity) * 100) \div Peak

\* Mutant: the curve is turned around, the deeper the drawdown, the larger the scalar.
drawdown_reduction_curve_Rising(dd) ==
    IF dd >= DDKnee THEN 100 ELSE DDFloor + ((100 - DDFloor) * dd) \div DDKnee

drawdown_reduction_curve(dd) ==
    IF dd >= DDKnee THEN DDFloor ELSE 100 - ((100 - DDFloor) * dd) \div DDKnee

\* The macro regime of a snapshot [cbr, usd, usdPrev, imoex, imoexPrev]; a move
\* from a previous value of zero counts as none.
classify(m) ==
    LET off     == m.cbr > 15 \/ (m.imoexPrev # 0 /\ (m.imoexPrev - m.imoex) * 100 > 20 * m.imoexPrev)
        reduced == m.usdPrev # 0 /\ (m.usd - m.usdPrev) * 100 > 5 * m.usdPrev
    IN  IF off THEN "risk_off" ELSE IF reduced THEN "risk_on_reduced" ELSE "neutral"

regime_scalar(regime) ==
    CASE regime = "risk_off" -> 50 [] regime = "risk_on_reduced" -> 75 [] regime = "neutral" -> 100

_cap_against_cash(raw, cash) == Smaller(raw, Of(cash, MaxCashPct))

_quantize_lots(raw) == IF raw <= 0 THEN 0 ELSE raw \div LotSize

_reference_price(i) ==
    IF i.reference # None THEN i.reference
    ELSE IF i.bars # <<>> THEN Last(i.bars).close ELSE 1

compute_position_size(i) ==
    LET price == _reference_price(i)
        base  == Of(i.cash, RiskPct)
        raw   == Of(Of(Of(Of(Of(base, vol_scalar(i.bars)),
                       _liquidity_scalar(adv(i.bars), i.cash, price)),
                       drawdown_reduction_curve(drawdown_pct(i))),
                       regime_scalar(classify(i.macro))), i.confidence)
        lots  == _quantize_lots(_cap_against_cash(raw, i.cash) \div price)
        spec0 == [quantity |-> 0, price |-> price, skip |-> TRUE]
    IN  IF i.bars = <<>> \/ i.cash <= 0 \/ lots < MinLots THEN spec0
        ELSE [spec0 EXCEPT !.quantity = lots * LotSize, !.skip = FALSE]

-------------------------------------------------------------------------------
(* The audit file.                                                         *)

Absent == [lines |-> <<>>, partial |-> FALSE]

\* What the file may hold when the process starts: nothing, whole lines, or a
\* last line cut short by the implementation before issue 222.
Inherited == { [lines |-> <<0>>, partial |-> p] : p \in BOOLEAN } \cup {Absent}

Init ==
    /\ input \in Inputs /\ spec = compute_position_size(input)
    /\ calls = 1 /\ pc = "sized"
    /\ file \in Inherited /\ tmp = Absent /\ existing = <<>>
    /\ returned = ToSet(file.lines) /\ unread = FALSE /\ faults = 0

\* The audit hook takes the record; input and spec are of no more use.
Hook ==
    /\ pc = "sized" /\ pc' = "read"
    /\ input' = CHOOSE i \in Inputs : TRUE
    /\ spec' = compute_position_size(input')
    /\ UNCHANGED <<calls, file, tmp, existing, returned, unread, faults>>

\* A last line without its newline is dropped: the whole lines are kept.
Read ==
    /\ pc = "read" /\ pc' = "open"
    /\ existing' = file.lines
    /\ UNCHANGED <<input, spec, calls, file, tmp, returned, unread, faults>>

\* OSError: only the new line will be written.
ReadFails ==
    /\ pc = "read" /\ pc' = "open" /\ file # Absent
    /\ faults < MaxFaults /\ faults' = faults + 1
    /\ existing' = <<>> /\ unread' = TRUE
    /\ UNCHANGED <<input, spec, calls, file, tmp, returned>>

\* Mutant: the audit file itself is opened for writing.
OpenTmp_InPlace ==
    /\ pc = "open" /\ pc' = "write"
    /\ file' = [lines |-> <<>>, partial |-> TRUE]
    /\ UNCHANGED <<input, spec, calls, tmp, existing, returned, unread, faults>>

\* open("wb") truncates what an earlier process left in .tmp.
OpenTmp ==
    /\ pc = "open" /\ pc' = "write"
    /\ tmp' = [lines |-> <<>>, partial |-> TRUE]
    /\ UNCHANGED <<input, spec, calls, file, existing, returned, unread, faults>>

WriteTmp ==
    /\ pc = "write" /\ pc' = "replace"
    /\ tmp' = [lines |-> Append(existing, calls), partial |-> FALSE]
    /\ UNCHANGED <<input, spec, calls, file, existing, returned, unread, faults>>

Replace ==
    /\ pc = "replace" /\ pc' = "idle"
    /\ file' = tmp /\ tmp' = Absent
    /\ returned' = returned \cup {calls}
    /\ UNCHANGED <<input, spec, calls, existing, unread, faults>>

\* Opening, writing, flushing or renaming raises: .tmp is removed, or stays
\* when the removal fails as well, and the error reaches the caller.
WriteFails ==
    /\ pc \in {"open", "write", "replace"} /\ pc' = "idle"
    /\ faults < MaxFaults /\ faults' = faults + 1
    /\ tmp' \in {tmp, Absent}
    /\ UNCHANGED <<input, spec, calls, file, existing, returned, unread>>

\* SIGKILL; files keep what they have.
Kill ==
    /\ pc \in {"read", "open", "write", "replace"} /\ pc' = "idle"
    /\ faults < MaxFaults /\ faults' = faults + 1
    /\ UNCHANGED <<input, spec, calls, file, tmp, existing, returned, unread>>

\* Another quote is sized, by this process or by the next one.
Call ==
    /\ pc = "idle" /\ calls < MaxCalls
    /\ calls' = calls + 1 /\ pc' = "read" /\ existing' = <<>>
    /\ UNCHANGED <<input, spec, file, tmp, returned, unread, faults>>

Next == Hook \/ Read \/ ReadFails \/ OpenTmp \/ WriteTmp \/ Replace \/ WriteFails
            \/ Kill \/ Call

Spec == Init /\ [][Next]_vars

-------------------------------------------------------------------------------
(* Properties.                                                             *)

\* The same bars, none narrower, with no more volume but some.  Bar does not ask
\* for high >= low, and the EWMA takes an inverted bar by its size.
WorseBars(bars) ==
    { b \in Series :
        /\ Len(b) = Len(bars)
        /\ \A k \in DOMAIN b :
              /\ b[k].close = bars[k].close
              /\ bars[k].low <= bars[k].high
              /\ b[k].high - b[k].low >= bars[k].high - bars[k].low
              /\ b[k].volume \in 1..bars[k].volume }

\* Calls in which one condition is worse: a deeper drawdown, a less confident
\* signal, a higher key rate, a weaker ruble, a lower index, wider bars or a
\* thinner market.
Worse(i) ==
    { [i EXCEPT !.equity = e] : e \in { x \in Equities : x < i.equity } } \cup
    { [i EXCEPT !.confidence = c] : c \in { x \in Confidences : x < i.confidence } } \cup
    { [i EXCEPT !.macro = m] :
        m \in { x \in Snapshots :
                  /\ x.usdPrev = i.macro.usdPrev /\ x.imoexPrev = i.macro.imoexPrev
                  /\ x.cbr >= i.macro.cbr /\ x.usd >= i.macro.usd /\ x.imoex <= i.macro.imoex } } \cup
    { [i EXCEPT !.bars = b] : b \in WorseBars(i.bars) }

\* An order is at most a tenth of the cash, is skipped exactly when it is
\* empty, and never grows when one condition of the market or of the account
\* gets worse: five scalars, a cap and two roundings leave no combination in
\* which more risk buys a larger position (compute_position_size).
WorseNeverSizesMore ==
    pc = "sized" =>
        /\ spec.quantity * spec.price <= Of(input.cash, MaxCashPct)
        /\ spec.skip <=> spec.quantity = 0
        /\ \A j \in Worse(input) : compute_position_size(j).quantity <= spec.quantity

\* A kill or an error at any point of write_audit_jsonl leaves a file of whole
\* lines (the torn line it may have started with apart) that has every record
\* whose write returned, in order, unless a read of it failed and the code
\* chose to start over.
AuditKeepsRecords ==
    /\ file.partial => file \in Inherited
    /\ \A k, l \in DOMAIN file.lines : k < l => file.lines[k] < file.lines[l]
    /\ ~unread => returned \subseteq ToSet(file.lines)
===============================================================================
