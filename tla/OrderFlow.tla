------------------------------ MODULE OrderFlow ------------------------------
(***************************************************************************)
(* OrderFlow.submit_market of src/src/broker/integration.py: a parent      *)
(* order is approved against the caller's portfolio snapshot, cut by       *)
(* OrderSlicer (src/src/broker/slicer.py) and placed slice by slice        *)
(* through TinkoffAccount.place_order, whose statuses are summed up.       *)
(***************************************************************************)
EXTENDS Broker, Sequences
LOCAL INSTANCE SequencesExt

CONSTANTS Quantities,         \* parent quantities
          Advs,               \* average daily volumes; 0 is an invalid answer
          MaxChunks,          \* MAX_DURATION / MIN_INTERVAL_MS
          MaxParents          \* parent orders

ASSUME FlowAssumption ==
    /\ Quantities \subseteq Nat \ {0} /\ Advs \subseteq Nat
    /\ MaxChunks \in Nat \ {0} /\ MaxParents \in Nat

VARIABLES
    fpc, parent,              \* the call of submit_market under way
    snapshot,                 \* the portfolio its caller holds
    peakProvider,             \* _peak_equity_provider is still set
    slices, submitted,        \* slice_count and the statuses under way
    result,                   \* final_status and the violation, if any
    parents

\* History: the snapshot was the account's state at Submit and no order was
\* working then; the market has not moved since.
VARIABLES fresh, calm

flowVars == <<fpc, parent, snapshot, peakProvider, slices, submitted, result, parents,
              fresh, calm>>
vars == <<brokerVars, flowVars>>

NoParent == [side |-> "buy", qty |-> 0]
NoResult == [final |-> "NONE", violation |-> "NONE"]
Account  == [equity |-> nav, qty |-> position]

-----------------------------------------------------------------------------
(* OrderSlicer.slice.  A chunk is 5% of ADV, that is adv / 20.               *)

RoundHalfEven(a, b) ==
    LET q == a \div b
        r == 2 * (a % b)
    IN  IF r > b \/ (r = b /\ q % 2 = 1) THEN q + 1 ELSE q

AtLeastOne(n) == IF n < 1 THEN 1 ELSE n
AtMost(cap, n) == IF n > cap THEN cap ELSE n

SliceCount(qty, adv) ==
    IF qty * 20 <= adv THEN 1
    ELSE LET n == AtMost(MaxChunks, AtLeastOne(RoundHalfEven(qty * 20, adv)))
         IN  IF qty < n THEN AtLeastOne(qty) ELSE n

\* Without an adv_provider the ADV is made up from the quantity itself.
PlaceholderAdv(qty) == IF qty * 20 < 100 THEN 100 ELSE qty * 20

-----------------------------------------------------------------------------
(* submit_market.                                                            *)

\* The caller reads the portfolio it will pass; it may use it much later.
TakeSnapshot ==
    /\ fpc = "idle" /\ snapshot # Account
    /\ snapshot' = Account
    /\ UNCHANGED <<brokerVars, fpc, parent, peakProvider, slices, submitted, result,
                   parents, fresh, calm>>

Submit(side, qty) ==
    /\ fpc = "idle" /\ parents < MaxParents
    /\ parents' = parents + 1
    /\ parent' = [side |-> side, qty |-> qty]
    /\ fpc' = "approve"
    /\ slices' = 0 /\ submitted' = <<>> /\ result' = NoResult
    /\ sent' = 0 /\ answerLost' = FALSE
    /\ fresh' = (snapshot = Account /\ \A s \in Sides : working[s] = 0)
    /\ calm' = TRUE
    /\ UNCHANGED <<live, market, peak, exchange, call, losses, sentTripped,
                   snapshot, peakProvider>>

Reject(violation) ==
    /\ result' = [final |-> "REJECTED", violation |-> violation]
    /\ fpc' = "idle"

\* UNIVERSE_BLOCKED, QUOTE_UNAVAILABLE and QUOTE_INVALID come before the gate,
\* ADV_UNAVAILABLE after it.
RefuseParent(violation) ==
    /\ fpc = IF violation = "ADV" THEN "adv" ELSE "approve"
    /\ Reject(violation)
    /\ UNCHANGED <<brokerVars, parent, snapshot, peakProvider, slices, submitted, parents,
                   fresh, calm>>

\* The high-water mark handed to the gate is never below the snapshot's NAV; a
\* provider that raises is dropped for good and RISK_DD then sees no drawdown.
PeakFor(provided) ==
    IF provided /\ peak > snapshot.equity THEN peak ELSE snapshot.equity

\* A snapshot with a short cannot be built: the ValidationError reaches the caller.
ApproveRaises ==
    /\ fpc = "approve" /\ ~Representable(snapshot.qty)
    /\ fpc' = "idle"
    /\ UNCHANGED <<brokerVars, parent, snapshot, peakProvider, slices, submitted, result,
                   parents, fresh, calm>>

Approve(providerWorks) ==
    /\ fpc = "approve" /\ Representable(snapshot.qty)
    /\ peakProvider' = (peakProvider /\ providerWorks)
    /\ IF Gate!Allowed(Intent([side |-> parent.side, num |-> parent.qty, den |-> 1], price),
                       Portfolio(snapshot.equity, snapshot.qty, PeakFor(peakProvider'), 0))
       THEN fpc' = "adv" /\ UNCHANGED result
       ELSE Reject("RISK")
    /\ UNCHANGED <<brokerVars, parent, snapshot, slices, submitted, parents, fresh, calm>>

\* adv_provider answers a volume, or there is no provider.
Slice(hasProvider, adv) ==
    /\ fpc = "adv"
    /\ IF hasProvider /\ adv = 0
       THEN Reject("ADV_INVALID") /\ UNCHANGED slices
       ELSE /\ slices' = SliceCount(parent.qty,
                                    IF hasProvider THEN adv ELSE PlaceholderAdv(parent.qty))
            /\ fpc' = "slicing" /\ UNCHANGED result
    /\ UNCHANGED <<brokerVars, parent, snapshot, peakProvider, submitted, parents, fresh, calm>>

\* Every slice is the parent divided by their number, a fraction of a share
\* included, and they go out one after another without waiting.
PlaceSlice ==
    /\ fpc = "slicing" /\ Len(submitted) < slices
    /\ PlaceOrder([side |-> parent.side, num |-> parent.qty, den |-> slices])
    /\ UNCHANGED flowVars

\* Mutant: the failure itself is put among the statuses.
SliceStatus_Raw(s) == s

\* A BrokerError is recorded as REJECTED.
SliceStatus(s) == IF s = "RAISED" THEN "REJECTED" ELSE s

SliceDone ==
    /\ fpc = "slicing" /\ bpc = "done"
    /\ submitted' = Append(submitted, SliceStatus(status))
    /\ bpc' = "idle" /\ order' = NoOrder /\ seen' = NoSeen
    /\ reply' = "REJECTED" /\ status' = "REJECTED"
    /\ UNCHANGED <<live, market, peak, exchange, losses, ledger, fpc, parent, snapshot,
                   peakProvider, slices, result, parents, fresh, calm>>

\* Mutant: one refused slice makes a refused parent.
FinalStatus_AnyRejected(statuses) ==
    IF "REJECTED" \in ToSet(statuses) THEN "REJECTED"
    ELSE IF ToSet(statuses) = {"FILLED"} THEN "FILLED"
    ELSE "SUBMITTED"

FinalStatus(statuses) ==
    IF ToSet(statuses) \subseteq {"REJECTED"} THEN "REJECTED"
    ELSE IF ToSet(statuses) = {"FILLED"} THEN "FILLED"
    ELSE "SUBMITTED"

Finish ==
    /\ fpc = "slicing" /\ Len(submitted) = slices /\ bpc = "idle"
    /\ result' = [final |-> FinalStatus(submitted), violation |-> "NONE"]
    /\ submitted' = <<>>
    /\ fpc' = "idle"
    /\ UNCHANGED <<brokerVars, parent, snapshot, peakProvider, slices, parents, fresh, calm>>

-----------------------------------------------------------------------------
Init ==
    /\ BrokerInit
    /\ fpc = "idle" /\ parent = NoParent /\ snapshot = Account
    /\ peakProvider \in BOOLEAN
    /\ slices = 0 /\ submitted = <<>> /\ result = NoResult /\ parents = 0
    /\ fresh = FALSE /\ calm = FALSE

BrokerStep ==
    /\ \/ Refuse \/ ReadQuote \/ ReadPortfolio \/ Evaluate \/ Exchange
    /\ UNCHANGED flowVars

MarketStep ==
    /\ \E p \in Prices, v \in Navs : MarketMoves(p, v)
    /\ calm' = FALSE
    /\ UNCHANGED <<fpc, parent, snapshot, peakProvider, slices, submitted, result, parents,
                   fresh>>

FillStep == (\E side \in Sides : FillWorking(side)) /\ UNCHANGED flowVars

FlowStep ==
    \/ \E v \in {"UNIVERSE", "QUOTE", "ADV"} : RefuseParent(v)
    \/ ApproveRaises \/ \E ok \in BOOLEAN : Approve(ok)
    \/ \E has \in BOOLEAN, adv \in Advs : Slice(has, adv)
    \/ PlaceSlice \/ SliceDone \/ Finish

Next ==
    \/ TakeSnapshot
    \/ \E side \in Sides, q \in Quantities : Submit(side, q)
    \/ FlowStep \/ BrokerStep \/ MarketStep \/ FillStep

Spec == Init /\ [][Next]_vars

-----------------------------------------------------------------------------
TypeOK ==
    /\ BrokerTypeOK
    /\ fpc \in {"idle", "approve", "adv", "slicing"}
    /\ parent \in [side : Sides, qty : Nat]
    /\ snapshot \in [equity : Nat, qty : Int]
    /\ peakProvider \in BOOLEAN /\ slices \in Nat
    /\ submitted \in Seq(OrderStatus) /\ Len(submitted) <= slices
    /\ result.final \in OrderStatus \cup {"NONE"}
    /\ parents \in 0..MaxParents /\ fresh \in BOOLEAN /\ calm \in BOOLEAN

\* Rounding of the slice count and of each slice never lets the exchange accept
\* more shares than the parent order asked for.
NeverOverParent == sent <= parent.qty

\* The comment on final_status says it without the condition: REJECTED means
\* that nothing reached the broker or that the broker refused all.
RejectedMeansNothingLive == result.final = "REJECTED" => sent = 0

\* The one status of a parent hides no slice: REJECTED with every answer received
\* means that the exchange accepted nothing, FILLED that it accepted every slice,
\* so that less than a share per slice is missing.
StatusTellsWhatWasSent ==
    /\ result.final = "REJECTED" /\ ~answerLost => sent = 0
    /\ result.final = "FILLED" => sent > 0 /\ sent + slices > parent.qty

\* With a fresh snapshot, no order working and a still market, a parent cannot
\* take the position past max_position_pct, however its slices fill.
PositionWithinLimit ==
    LET total == position + working["buy"] - working["sell"]
    IN  fresh /\ calm /\ sent > 0
          => /\ parent.side = "buy"
                    => total * price * 100 <= MaxPositionPct * nav
             /\ parent.side = "sell" /\ total < 0
                    => (-total) * price * 100 <= MaxPositionPct * nav

\* Once RISK_DD or RISK_DAILY_LOSS is due, at most the slice already past its
\* own gate reaches the exchange, in this parent and in the next ones.
KillSwitchStopsParent == sentTripped <= 1
=============================================================================
