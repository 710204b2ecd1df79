-------------------------- MODULE OrderFlowProofs --------------------------
(***************************************************************************)
(* Proofs about OrderFlow for all quantities, volumes, prices, limits and  *)
(* every number of slices, market moves and lost messages.                 *)
(***************************************************************************)
EXTENDS OrderFlow, SequenceTheorems, TLAPS
LOCAL INSTANCE SequencesExt

-----------------------------------------------------------------------------
(* The steps of place_order keep the types of the broker's variables.        *)

\* Rounding a quantity down to whole shares gives a natural number.
LEMMA SharesNat ==
    ASSUME NEW o \in [side : Sides, num : Nat, den : Nat \ {0}]
    PROVE  Shares(o) \in Nat
  BY DEF Shares

\* The types hold before the first call.
LEMMA BrokerInitTypes ==
    ASSUME BrokerInit
    PROVE  BrokerTypeOK
<1> USE DEF BrokerInit
<1>1. order \in [side : Sides, num : Nat, den : Nat \ {0}]
  BY DEF NoOrder, Sides
<1>2. seen \in [price : Nat, equity : Nat, qty : Int]
  BY DEF NoSeen
<1>3. live \in BOOLEAN /\ price \in Prices /\ nav \in Navs /\ peak \in Navs
  OBVIOUS
<1>4. position \in Int /\ working \in [Sides -> Nat]
  OBVIOUS
<1>5. /\ bpc \in {"idle", "quote", "portfolio", "gate", "post", "answer", "done"}
      /\ reply \in Outcomes /\ status \in OrderStatus \cup {"RAISED"}
  BY DEF Outcomes, OrderStatus
<1>6. /\ moves \in Nat /\ losses \in Nat
      /\ sent \in Nat /\ answerLost \in BOOLEAN /\ sentTripped \in Nat
  OBVIOUS
<1>7. QED
  BY <1>1, <1>2, <1>3, <1>4, <1>5, <1>6 DEF BrokerTypeOK

\* Starting a call keeps the types.
LEMMA PlaceOrderTypes ==
    ASSUME BrokerTypeOK, NEW o \in [side : Sides, num : Nat, den : Nat \ {0}],
           PlaceOrder(o)
    PROVE  BrokerTypeOK'
  BY DEF BrokerTypeOK, PlaceOrder, market, exchange, ledger, OrderStatus

\* Every step of a call keeps the types.
LEMMA BrokerStepTypes ==
    ASSUME BrokerTypeOK, Refuse \/ ReadQuote \/ ReadPortfolio \/ Evaluate \/ Exchange
    PROVE  BrokerTypeOK'
<1> USE DEF BrokerTypeOK, market, exchange, ledger
<1>1. CASE Refuse
  BY <1>1 DEF Refuse, OrderStatus
<1>2. CASE ReadQuote
  BY <1>2, MarketAssumption DEF ReadQuote
<1>3. CASE ReadPortfolio
  BY <1>3, MarketAssumption DEF ReadPortfolio
<1>4. CASE Evaluate
  BY <1>4 DEF Evaluate, OrderStatus
<1>5. ASSUME NEW outcome \in Outcomes, NEW filled \in 0..Shares(order), Post(outcome, filled)
      PROVE  BrokerTypeOK'
  <2>1. Shares(order) \in Nat /\ filled \in Nat /\ filled <= Shares(order)
    BY SharesNat
  <2>2. position' \in Int /\ sent' \in Nat /\ sentTripped' \in Nat
    BY <1>5, <2>1 DEF Post, Signed
  <2>3. working' \in [Sides -> Nat]
    <3>1. order.side \in Sides /\ working[order.side] + Shares(order) - filled \in Nat
      BY <2>1
    <3>2. QED
      BY <1>5, <3>1 DEF Post
  <2>4. QED
    BY <1>5, <2>2, <2>3 DEF Post
<1>6. CASE RequestLost
  BY <1>6 DEF RequestLost
<1>7. CASE Answer
  BY <1>7 DEF Answer, MapStatus, OrderStatus
<1>8. CASE AnswerLost
  BY <1>8 DEF AnswerLost
<1>9. QED
  BY <1>1, <1>2, <1>3, <1>4, <1>5, <1>6, <1>7, <1>8 DEF Exchange

\* The market and the fills of resting orders keep the types.
LEMMA EnvironmentTypes ==
    ASSUME BrokerTypeOK, Environment
    PROVE  BrokerTypeOK'
<1> USE DEF BrokerTypeOK, market, exchange, ledger, call
<1>1. ASSUME NEW p \in Prices, NEW v \in Navs, MarketMoves(p, v) PROVE BrokerTypeOK'
  BY <1>1 DEF MarketMoves
<1>2. ASSUME NEW side \in Sides, FillWorking(side) PROVE BrokerTypeOK'
  BY <1>2 DEF FillWorking, Signed
<1>3. QED
  BY <1>1, <1>2 DEF Environment

-----------------------------------------------------------------------------
(* The order flow.                                                         *)

\* The shares of one slice.
Chunk == parent.qty \div slices

\* The slice under way has been taken to the exchange.
Posted == bpc \in {"answer", "done"}

\* Slices taken to the exchange or given up before it.
Gone == IF Posted THEN Len(submitted) + 1 ELSE Len(submitted)

\* Every slice recorded so far has the status s.
AllAre(s) == \A i \in DOMAIN submitted : submitted[i] = s

\* Where the call of place_order and the list of statuses stand in each phase.
CallInv ==
    /\ fpc # "idle" => parent.qty > 0
    /\ fpc # "slicing" => submitted = <<>> /\ bpc = "idle"
    /\ fpc \in {"approve", "adv"} => result = NoResult
    /\ fpc = "slicing" => slices > 0 /\ slices <= parent.qty /\ result = NoResult
    /\ bpc # "idle" => /\ Len(submitted) < slices
                       /\ order = [side |-> parent.side, num |-> parent.qty, den |-> slices]

\* Every slice so far was filled, the one under way included.
Filled ==
    /\ AllAre("FILLED")
    /\ bpc = "answer" => reply \in {"FILL", "PARTIALLYFILL"}
    /\ bpc = "done" => status = "FILLED"

\* Every slice so far was refused and no answer was lost.
Refused ==
    /\ AllAre("REJECTED") /\ ~answerLost
    /\ bpc = "answer" => reply \in {"REJECTED", "CANCELLED"}
    /\ bpc = "done" => status \in {"REJECTED", "CANCELLED", "RAISED"}

\* What the exchange has accepted of the parent, slice by slice.
SentInv ==
    /\ fpc \in {"approve", "adv"} => sent = 0
    /\ fpc = "slicing" => /\ sent <= Gone * Chunk
                          /\ Filled => sent = Gone * Chunk
                          /\ Refused => sent = 0
    /\ NeverOverParent
    /\ StatusTellsWhatWasSent

\* A kill switch that is due and has let an order through holds until the market
\* moves it away, and the gate refuses whatever is read meanwhile.
SwitchInv ==
    /\ sentTripped <= 1
    /\ sentTripped > 0 => /\ TrippedAt(nav)
                          /\ bpc # "post"
                          /\ bpc = "gate" => TrippedAt(seen.equity)

\* The position once every order working at the exchange is filled.
Total == position + working["buy"] - working["sell"]

\* The position an order of qty shares leads to from held, as RISK_POSITION sees it,
\* is within max_position_pct of v at price p.
Fits(side, qty, held, p, v) ==
    LET exposure == IF side = "sell" THEN qty - (IF qty <= held THEN qty ELSE held)
                                     ELSE held + qty
    IN  exposure > 0 => exposure * p * 100 <= MaxPositionPct * v

\* The parent passed its own check against the snapshot.
ParentFits ==
    /\ Representable(snapshot.qty)
    /\ Fits(parent.side, parent.qty, snapshot.qty, price, snapshot.equity)

\* While the market stands still the account is the snapshot plus what was sent.
TotalInv ==
    /\ fresh /\ calm /\ fpc # "idle" =>
           /\ snapshot.equity = nav
           /\ Total = snapshot.qty + Signed(parent.side, sent)
           /\ fpc \in {"adv", "slicing"} => ParentFits
    /\ PositionWithinLimit

-----------------------------------------------------------------------------
\* The slicer cuts an order into at least one slice and at most as many slices as
\* shares, whatever the volume.
LEMMA SliceCountBounds ==
    ASSUME NEW qty \in Nat \ {0}, NEW adv \in Nat \ {0}
    PROVE  SliceCount(qty, adv) \in 1..qty
<1>1. RoundHalfEven(qty * 20, adv) \in Int
  <2>1. (qty * 20) \div adv \in Int
    OBVIOUS
  <2>2. QED
    BY <2>1 DEF RoundHalfEven
<1>2. QED
  BY <1>1, FlowAssumption DEF SliceCount, AtMost, AtLeastOne

\* The volume made up from the quantity is not zero.
LEMMA PlaceholderPositive ==
    ASSUME NEW qty \in Nat \ {0}
    PROVE  PlaceholderAdv(qty) \in Nat \ {0}
  BY DEF PlaceholderAdv

\* Variables keep their types, the list of statuses never outgrows the slices, and
\* the call of place_order under way is the one of the next slice.
LEMMA TypeAndCall == Spec => [](TypeOK /\ CallInv)
<1>1. Init => TypeOK /\ CallInv
  <2> SUFFICES ASSUME Init PROVE TypeOK /\ CallInv
    OBVIOUS
  <2>1. BrokerTypeOK
    BY BrokerInitTypes DEF Init
  <2>2. parent \in [side : Sides, qty : Nat]
    BY DEF Init, NoParent, Sides
  <2>3. snapshot \in [equity : Nat, qty : Int]
    BY <2>1, MarketAssumption DEF Init, Account, BrokerTypeOK
  <2>4. submitted \in Seq(OrderStatus) /\ Len(submitted) <= slices
    BY DEF Init
  <2>5. result.final \in OrderStatus \cup {"NONE"}
    BY DEF Init, NoResult
  <2>6. parents \in 0..MaxParents /\ slices \in Nat /\ fpc = "idle" /\ bpc = "idle"
    BY FlowAssumption DEF Init, BrokerInit
  <2>7. peakProvider \in BOOLEAN /\ fresh \in BOOLEAN /\ calm \in BOOLEAN /\ submitted = <<>>
    BY DEF Init
  <2>8. QED
    BY <2>1, <2>2, <2>3, <2>4, <2>5, <2>6, <2>7 DEF TypeOK, CallInv
<1>2. TypeOK /\ CallInv /\ [Next]_vars => TypeOK' /\ CallInv'
  <2> SUFFICES ASSUME TypeOK, CallInv, [Next]_vars PROVE TypeOK' /\ CallInv'
    OBVIOUS
  <2>1. CASE TakeSnapshot
    <3>1. snapshot' \in [equity : Nat, qty : Int]
      BY <2>1, MarketAssumption DEF TakeSnapshot, Account, TypeOK, BrokerTypeOK
    <3>2. BrokerTypeOK'
      BY <2>1 DEF TakeSnapshot, TypeOK, BrokerTypeOK, brokerVars, market, exchange, call, ledger
    <3>3. QED
      BY <2>1, <3>1, <3>2 DEF TakeSnapshot, TypeOK, CallInv, brokerVars, call
  <2>2. ASSUME NEW side \in Sides, NEW q \in Quantities, Submit(side, q)
        PROVE  TypeOK' /\ CallInv'
    <3>1. BrokerTypeOK'
      BY <2>2 DEF Submit, TypeOK, BrokerTypeOK, market, exchange, call
    <3>2. parent' \in [side : Sides, qty : Nat] /\ parent'.qty > 0
      BY <2>2, FlowAssumption DEF Submit
    <3>3. submitted' = <<>> /\ submitted' \in Seq(OrderStatus) /\ Len(submitted') <= slices'
      BY <2>2 DEF Submit
    <3>4. result' = NoResult /\ result'.final \in OrderStatus \cup {"NONE"}
      BY <2>2 DEF Submit, NoResult
    <3>5. fresh' \in BOOLEAN /\ calm' \in BOOLEAN
      BY <2>2 DEF Submit
    <3>6. parents' \in 0..MaxParents /\ slices' \in Nat
      BY <2>2, FlowAssumption DEF Submit, TypeOK
    <3>7. fpc' = "approve" /\ bpc' = bpc /\ fpc = "idle"
      BY <2>2 DEF Submit, call
    <3>8. peakProvider' \in BOOLEAN /\ snapshot' \in [equity : Nat, qty : Int]
      BY <2>2 DEF Submit, TypeOK
    <3>9. QED
      BY <3>1, <3>2, <3>3, <3>4, <3>5, <3>6, <3>7, <3>8 DEF TypeOK, CallInv
  <2>3. ASSUME NEW v \in {"UNIVERSE", "QUOTE", "ADV"}, RefuseParent(v)
        PROVE  TypeOK' /\ CallInv'
    <3>1. BrokerTypeOK'
      BY <2>3 DEF RefuseParent, TypeOK, BrokerTypeOK, brokerVars, market, exchange, call, ledger
    <3>2. result'.final \in OrderStatus \cup {"NONE"}
      BY <2>3 DEF RefuseParent, Reject, OrderStatus
    <3>3. QED
      BY <2>3, <3>1, <3>2 DEF RefuseParent, Reject, TypeOK, CallInv, brokerVars, call
  <2>4. CASE ApproveRaises
    <3>1. BrokerTypeOK'
      BY <2>4 DEF ApproveRaises, TypeOK, BrokerTypeOK, brokerVars, market, exchange, call, ledger
    <3>2. QED
      BY <2>4, <3>1 DEF ApproveRaises, TypeOK, CallInv, brokerVars, call
  <2>5. ASSUME NEW ok \in BOOLEAN, Approve(ok) PROVE TypeOK' /\ CallInv'
    <3>1. BrokerTypeOK'
      BY <2>5 DEF Approve, TypeOK, BrokerTypeOK, brokerVars, market, exchange, call, ledger
    <3>2. result'.final \in OrderStatus \cup {"NONE"}
      BY <2>5 DEF Approve, Reject, OrderStatus, TypeOK
    <3>3. peakProvider' \in BOOLEAN
      BY <2>5 DEF Approve
    <3>4. \/ fpc' = "adv" /\ result' = result
          \/ fpc' = "idle"
      BY <2>5 DEF Approve, Reject
    <3>5. QED
      BY <2>5, <3>1, <3>2, <3>3, <3>4 DEF Approve, TypeOK, CallInv, brokerVars, call
  <2>6. ASSUME NEW has \in BOOLEAN, NEW adv \in Advs, Slice(has, adv)
        PROVE  TypeOK' /\ CallInv'
    <3>1. BrokerTypeOK'
      BY <2>6 DEF Slice, TypeOK, BrokerTypeOK, brokerVars, market, exchange, call, ledger
    <3>2. parent.qty \in Nat \ {0} /\ submitted = <<>> /\ bpc = "idle" /\ result = NoResult
      BY <2>6 DEF Slice, CallInv, TypeOK
    <3>3. CASE has /\ adv = 0
      <4>1. result'.final \in OrderStatus \cup {"NONE"}
        BY <2>6, <3>3 DEF Slice, Reject, OrderStatus
      <4>2. QED
        BY <2>6, <3>1, <3>2, <3>3, <4>1 DEF Slice, Reject, TypeOK, CallInv, brokerVars, call
    <3>4. CASE ~(has /\ adv = 0)
      <4>1. slices' \in 1..parent.qty
        BY <2>6, <3>2, <3>4, SliceCountBounds, PlaceholderPositive, FlowAssumption DEF Slice
      <4>2. fpc' = "slicing" /\ result' = result
        BY <2>6, <3>4 DEF Slice
      <4>3. QED
        BY <2>6, <3>1, <3>2, <4>1, <4>2 DEF Slice, TypeOK, CallInv, brokerVars, call
    <3>5. QED
      BY <3>3, <3>4
  <2>7. CASE PlaceSlice
    <3>1. [side |-> parent.side, num |-> parent.qty, den |-> slices]
              \in [side : Sides, num : Nat, den : Nat \ {0}]
      BY <2>7 DEF PlaceSlice, TypeOK, CallInv
    <3>2. BrokerTypeOK'
      BY <2>7, <3>1, PlaceOrderTypes DEF PlaceSlice, TypeOK
    <3>3. QED
      BY <2>7, <3>2 DEF PlaceSlice, PlaceOrder, TypeOK, CallInv, flowVars
  <2>8. CASE SliceDone
    <3>1. BrokerTypeOK'
      BY <2>8 DEF SliceDone, TypeOK, BrokerTypeOK, NoOrder, NoSeen, Sides, Outcomes, OrderStatus,
                  market, exchange, ledger
    <3>2. SliceStatus(status) \in OrderStatus
      BY DEF SliceStatus, OrderStatus, TypeOK, BrokerTypeOK
    <3>3. submitted' \in Seq(OrderStatus) /\ Len(submitted') = Len(submitted) + 1
      BY <2>8, <3>2 DEF SliceDone, TypeOK
    <3>4. QED
      BY <2>8, <3>1, <3>3 DEF SliceDone, TypeOK, CallInv
  <2>9. CASE Finish
    <3>1. BrokerTypeOK'
      BY <2>9 DEF Finish, TypeOK, BrokerTypeOK, brokerVars, market, exchange, call, ledger
    <3>2. result'.final \in OrderStatus \cup {"NONE"}
      BY <2>9 DEF Finish, FinalStatus, OrderStatus
    <3>3. submitted' = <<>> /\ submitted' \in Seq(OrderStatus) /\ Len(submitted') = 0
      BY <2>9 DEF Finish
    <3>4. QED
      BY <2>9, <3>1, <3>2, <3>3 DEF Finish, TypeOK, CallInv, brokerVars, call
  <2>10. CASE BrokerStep
    <3>1. BrokerTypeOK'
      BY <2>10, BrokerStepTypes DEF BrokerStep, TypeOK
    <3>2. bpc # "idle" /\ order' = order
      BY <2>10 DEF BrokerStep, Refuse, ReadQuote, ReadPortfolio, Evaluate, Exchange, Post,
                   RequestLost, Answer, AnswerLost
    <3>3. QED
      BY <2>10, <3>1, <3>2 DEF BrokerStep, TypeOK, CallInv, flowVars
  <2>11. CASE MarketStep
    <3>1. BrokerTypeOK'
      BY <2>11, EnvironmentTypes DEF MarketStep, Environment, TypeOK
    <3>2. QED
      BY <2>11, <3>1 DEF MarketStep, MarketMoves, TypeOK, CallInv, call
  <2>12. CASE FillStep
    <3>1. BrokerTypeOK'
      BY <2>12, EnvironmentTypes DEF FillStep, Environment, TypeOK
    <3>2. QED
      BY <2>12, <3>1 DEF FillStep, FillWorking, TypeOK, CallInv, flowVars, call
  <2>13. CASE UNCHANGED vars
    BY <2>13 DEF vars, TypeOK, CallInv, BrokerTypeOK, brokerVars, market, exchange, call, ledger,
                 flowVars
  <2>14. QED
    BY <2>1, <2>2, <2>3, <2>4, <2>5, <2>6, <2>7, <2>8, <2>9, <2>10, <2>11, <2>12, <2>13
    DEF Next, FlowStep
<1>3. QED
  BY <1>1, <1>2, PTL DEF Spec

\* Every variable of the order flow and of its broker keeps its type, and a parent
\* never records more statuses than it has slices.
THEOREM TypeCorrect == Spec => []TypeOK
  BY TypeAndCall, PTL

-----------------------------------------------------------------------------
\* Slices of qty \div n shares: k of them are no more than the parent, all of them
\* fall short of it by less than a share each.
LEMMA ChunkBounds ==
    ASSUME NEW qty \in Nat, NEW n \in 1..qty
    PROVE  /\ qty \div n \in Nat \ {0}
           /\ n * (qty \div n) <= qty /\ n * (qty \div n) + n > qty
           /\ \A k \in 0..n : k * (qty \div n) <= qty
<1> DEFINE c == qty \div n
<1>1. c \in Nat /\ n * c <= qty /\ n * c + n > qty
  OBVIOUS
<1>2. c # 0
  BY <1>1
<1> HIDE DEF c
<1>3. ASSUME NEW k \in 0..n PROVE k * c <= qty
  <2>1. k * c <= n * c
    BY <1>1
  <2>2. QED
    BY <1>1, <2>1
<1>4. QED
  BY <1>1, <1>2, <1>3 DEF c

\* A step that changes nothing SentInv speaks of keeps it.
LEMMA SentUntouched ==
    ASSUME SentInv,
           UNCHANGED <<fpc, parent, slices, submitted, result, bpc, reply, status, sent, answerLost>>
    PROVE  SentInv'
  BY DEF SentInv, Filled, Refused, AllAre, Gone, Posted, Chunk, NeverOverParent,
         StatusTellsWhatWasSent

\* The exchange never accepts more than the parent asked for, and final_status
\* hides no slice: the sum over the slices is kept through every loss and refusal.
LEMMA SentInvariant == Spec => []SentInv
<1>1. Init => SentInv
  BY DEF Init, BrokerInit, SentInv, NeverOverParent, StatusTellsWhatWasSent, NoResult, NoParent
<1>2. TypeOK /\ CallInv /\ SentInv /\ [Next]_vars => SentInv'
  <2> SUFFICES ASSUME TypeOK, CallInv, SentInv, [Next]_vars PROVE SentInv'
    OBVIOUS
  <2>0. /\ sent \in Nat /\ parent.qty \in Nat /\ slices \in Nat /\ Len(submitted) \in Nat
        /\ status \in OrderStatus \cup {"RAISED"} /\ reply \in Outcomes
        /\ submitted \in Seq(OrderStatus) /\ answerLost \in BOOLEAN
    BY DEF TypeOK, BrokerTypeOK
  <2>1. CASE TakeSnapshot
    BY <2>1, SentUntouched DEF TakeSnapshot, brokerVars, call, ledger
  <2>2. ASSUME NEW side \in Sides, NEW q \in Quantities, Submit(side, q) PROVE SentInv'
    BY <2>2, FlowAssumption DEF Submit, SentInv, NeverOverParent, StatusTellsWhatWasSent, NoResult
  <2>3. ASSUME NEW v \in {"UNIVERSE", "QUOTE", "ADV"}, RefuseParent(v) PROVE SentInv'
    BY <2>3 DEF RefuseParent, Reject, SentInv, NeverOverParent, StatusTellsWhatWasSent,
                brokerVars, ledger
  <2>4. CASE ApproveRaises
    BY <2>4 DEF ApproveRaises, SentInv, NeverOverParent, StatusTellsWhatWasSent,
                brokerVars, ledger
  <2>5. ASSUME NEW ok \in BOOLEAN, Approve(ok) PROVE SentInv'
    <3>1. /\ fpc = "approve" /\ fpc' \in {"adv", "idle"}
          /\ result' = result \/ result'.final = "REJECTED"
          /\ UNCHANGED <<parent, slices, sent, answerLost>>
      BY <2>5 DEF Approve, Reject, brokerVars, ledger
    <3>2. sent = 0
      BY <3>1 DEF SentInv
    <3>3. QED
      BY <3>1, <3>2 DEF SentInv, NeverOverParent, StatusTellsWhatWasSent
  <2>6. ASSUME NEW has \in BOOLEAN, NEW adv \in Advs, Slice(has, adv) PROVE SentInv'
    <3>1. /\ fpc = "adv" /\ fpc' \in {"slicing", "idle"}
          /\ fpc' = "idle" => result'.final = "REJECTED"
          /\ fpc' = "slicing" => result' = result
          /\ UNCHANGED <<parent, sent, answerLost, submitted, bpc, reply, status>>
      BY <2>6 DEF Slice, Reject, brokerVars, ledger, call
    <3>2. sent = 0 /\ bpc = "idle" /\ submitted = <<>> /\ result = NoResult
      BY <3>1 DEF SentInv, CallInv
    <3>3. fpc' = "slicing" => Gone' = 0 /\ Gone' * Chunk' = 0
      <4>1. fpc' = "slicing" => slices' \in Nat \ {0}
        <5>1. parent.qty \in Nat \ {0} /\ adv \in Nat
          BY <2>0, <3>1, FlowAssumption DEF CallInv
        <5>2. fpc' = "slicing" =>
                 /\ ~(has /\ adv = 0)
                 /\ slices' = SliceCount(parent.qty, IF has THEN adv ELSE PlaceholderAdv(parent.qty))
          BY <2>6 DEF Slice, Reject
        <5>3. fpc' = "slicing" => slices' \in 1..parent.qty
          BY <5>1, <5>2, SliceCountBounds, PlaceholderPositive
        <5>4. QED
          BY <5>1, <5>3
      <4>2. fpc' = "slicing" => Chunk' \in Int
        BY <2>0, <3>1, <4>1 DEF Chunk
      <4>3. QED
        BY <3>1, <3>2, <4>2 DEF Gone, Posted
    <3>4. QED
      BY <2>0, <3>1, <3>2, <3>3 DEF SentInv, NeverOverParent, StatusTellsWhatWasSent, NoResult
  <2>7. CASE PlaceSlice
    <3>1. /\ fpc = "slicing" /\ bpc = "idle" /\ bpc' \in {"quote", "done"}
          /\ bpc' = "done" => status' = "REJECTED"
          /\ UNCHANGED <<fpc, parent, slices, submitted, result, sent, answerLost>>
      BY <2>7 DEF PlaceSlice, PlaceOrder, flowVars, ledger
    <3>2. Chunk \in Nat /\ Chunk' = Chunk
      BY <2>0, <3>1, ChunkBounds DEF Chunk, CallInv
    <3>3. /\ Gone = Len(submitted) /\ Gone' >= Gone /\ Gone' \in Nat
          /\ bpc' = "quote" => Gone' = Gone
      BY <2>0, <3>1 DEF Gone, Posted
    <3>4. sent <= Gone' * Chunk'
      <4>1. /\ Gone * Chunk <= Gone' * Chunk
            /\ Gone * Chunk \in Int /\ Gone' * Chunk \in Int
        BY <2>0, <3>2, <3>3
      <4>2. sent <= Gone * Chunk
        BY <3>1 DEF SentInv
      <4>3. QED
        BY <2>0, <3>2, <4>1, <4>2
    <3>5. Filled' => sent' = Gone' * Chunk'
      BY <3>1, <3>2, <3>3 DEF SentInv, Filled, AllAre
    <3>6. Refused' => sent' = 0
      BY <3>1 DEF SentInv, Refused, AllAre
    <3>7. QED
      BY <3>1, <3>4, <3>5, <3>6 DEF SentInv, NeverOverParent, StatusTellsWhatWasSent
  <2>8. CASE SliceDone
    <3>1. /\ fpc = "slicing" /\ bpc = "done" /\ bpc' = "idle"
          /\ submitted' = Append(submitted, SliceStatus(status))
          /\ UNCHANGED <<fpc, parent, slices, result, sent, answerLost>>
      BY <2>8 DEF SliceDone, ledger
    <3>2. SliceStatus(status) \in OrderStatus
      BY <2>0 DEF SliceStatus, OrderStatus
    <3>3. /\ Len(submitted') = Len(submitted) + 1
          /\ DOMAIN submitted' = 1 .. Len(submitted) + 1
          /\ \A i \in DOMAIN submitted : i \in DOMAIN submitted' /\ submitted'[i] = submitted[i]
          /\ submitted'[Len(submitted) + 1] = SliceStatus(status)
      BY <2>0, <3>1, <3>2
    <3>4. Gone' = Gone /\ Chunk' = Chunk
      BY <3>1, <3>3 DEF Gone, Posted, Chunk
    <3>5. ASSUME Filled' PROVE Filled
      BY <2>0, <3>1, <3>3, <3>5 DEF Filled, AllAre, SliceStatus
    <3>6. ASSUME Refused' PROVE Refused
      BY <2>0, <3>1, <3>3, <3>6 DEF Refused, AllAre, SliceStatus
    <3>7. QED
      BY <3>1, <3>4, <3>5, <3>6 DEF SentInv, NeverOverParent, StatusTellsWhatWasSent
  <2>9. CASE Finish
    <3>1. /\ fpc = "slicing" /\ bpc = "idle" /\ fpc' = "idle" /\ Len(submitted) = slices
          /\ result'.final = FinalStatus(submitted)
          /\ UNCHANGED <<parent, slices, sent, answerLost>>
      BY <2>9 DEF Finish, brokerVars, ledger
    <3>2. Gone = slices
      BY <3>1 DEF Gone, Posted
    <3>3. ASSUME result'.final = "FILLED" PROVE sent > 0 /\ sent + slices > parent.qty
      <4>1. AllAre("FILLED")
        BY <3>1, <3>3 DEF FinalStatus, ToSet, AllAre
      <4>2. sent = slices * Chunk
        BY <3>1, <3>2, <4>1 DEF SentInv, Filled
      <4>3. slices \in 1..parent.qty
        BY <2>0, <3>1 DEF CallInv
      <4>4. Chunk \in Nat \ {0} /\ slices * Chunk + slices > parent.qty
        BY <2>0, <4>3, ChunkBounds DEF Chunk
      <4>5. slices * Chunk > 0
        BY <2>0, <4>3, <4>4
      <4>6. QED
        BY <4>2, <4>4, <4>5
    <3>4. ASSUME result'.final = "REJECTED", ~answerLost PROVE sent = 0
      <4>1. AllAre("REJECTED")
        BY <3>1, <3>4 DEF FinalStatus, ToSet, AllAre
      <4>2. QED
        BY <3>1, <3>4, <4>1 DEF SentInv, Refused
    <3>5. QED
      BY <3>1, <3>3, <3>4 DEF SentInv, NeverOverParent, StatusTellsWhatWasSent
  <2>10. CASE BrokerStep
    <3>0. UNCHANGED <<fpc, parent, slices, submitted, result>>
      BY <2>10 DEF BrokerStep, flowVars
    <3>1. fpc = "slicing" /\ slices \in 1..parent.qty /\ Len(submitted) < slices
      <4>1. bpc # "idle"
        BY <2>10 DEF BrokerStep, Refuse, ReadQuote, ReadPortfolio, Evaluate, Exchange, Post,
                     RequestLost, Answer, AnswerLost
      <4>2. QED
        BY <2>0, <4>1 DEF CallInv
    <3>2. Chunk \in Nat /\ Chunk' = Chunk
      BY <2>0, <3>0, <3>1, ChunkBounds DEF Chunk
    <3>3. /\ bpc \in {"quote", "portfolio", "gate", "post"} => Gone = Len(submitted)
          /\ bpc \in {"answer", "done"} => Gone = Len(submitted) + 1
          /\ bpc' \in {"quote", "portfolio", "gate", "post"} => Gone' = Len(submitted)
          /\ bpc' \in {"answer", "done"} => Gone' = Len(submitted) + 1
      BY <3>0 DEF Gone, Posted
    <3>4. Len(submitted) * Chunk + Chunk = (Len(submitted) + 1) * Chunk
      BY <2>0, <3>2
    <3>5. AllAre("FILLED")' = AllAre("FILLED") /\ AllAre("REJECTED")' = AllAre("REJECTED")
      BY <3>0 DEF AllAre
    <3>6. CASE \/ Refuse \/ ReadQuote \/ ReadPortfolio \/ Evaluate \/ RequestLost
      <4>1. /\ bpc \in {"quote", "portfolio", "gate", "post"}
            /\ \/ bpc' \in {"quote", "portfolio", "gate", "post"}
               \/ bpc' = "done" /\ status' \in {"REJECTED", "RAISED"}
            /\ UNCHANGED <<sent, answerLost>>
        BY <3>6 DEF Refuse, ReadQuote, ReadPortfolio, Evaluate, RequestLost, ledger
      <4>2. sent <= Gone' * Chunk'
        BY <2>0, <3>1, <3>2, <3>3, <3>4, <4>1 DEF SentInv
      <4>3. Filled' => Filled /\ Gone' = Gone
        BY <3>3, <3>5, <4>1 DEF Filled
      <4>4. Refused' => Refused
        BY <3>5, <4>1 DEF Refused
      <4>5. QED
        BY <3>0, <3>1, <3>2, <4>1, <4>2, <4>3, <4>4
        DEF SentInv, NeverOverParent, StatusTellsWhatWasSent, CallInv, NoResult
    <3>7. ASSUME NEW outcome \in Outcomes, NEW filled \in 0..Shares(order), Post(outcome, filled)
          PROVE  SentInv'
      <4>1. /\ bpc = "post" /\ bpc' = "answer" /\ reply' = outcome /\ answerLost' = answerLost
            /\ sent' = IF outcome \in {"REJECTED", "CANCELLED"} THEN sent ELSE sent + Shares(order)
        BY <3>7 DEF Post
      <4>2. Shares(order) = Chunk
        BY <4>1 DEF CallInv, Shares, Chunk
      <4>3. sent' \in Nat /\ sent' <= Gone' * Chunk'
        BY <2>0, <3>1, <3>2, <3>3, <3>4, <4>1, <4>2 DEF SentInv
      <4>4. Filled' => sent' = Gone' * Chunk'
        BY <2>0, <3>1, <3>2, <3>3, <3>4, <3>5, <4>1, <4>2 DEF SentInv, Filled
      <4>5. Refused' => sent' = 0
        BY <3>1, <3>5, <4>1 DEF SentInv, Refused
      <4>6. sent' <= parent.qty
        <5>1. Gone' \in 0..slices
          BY <2>0, <3>1, <3>3, <4>1
        <5>2. Gone' * Chunk <= parent.qty
          BY <2>0, <3>1, <5>1, ChunkBounds DEF Chunk
        <5>3. Gone' * Chunk' <= parent.qty /\ Gone' * Chunk' \in Int
          BY <3>2, <5>1, <5>2
        <5>4. QED
          BY <2>0, <4>3, <5>3
      <4>7. QED
        BY <3>0, <3>1, <4>3, <4>4, <4>5, <4>6
        DEF SentInv, NeverOverParent, StatusTellsWhatWasSent, CallInv, NoResult
    <3>8. CASE Answer \/ AnswerLost
      <4>1. /\ bpc = "answer" /\ bpc' = "done" /\ sent' = sent
            /\ \/ status' = MapStatus(reply) /\ answerLost' = answerLost
               \/ /\ status' = "RAISED"
                  /\ answerLost' = (answerLost \/ reply \in {"FILL", "PARTIALLYFILL", "NEW"})
        BY <3>8 DEF Answer, AnswerLost, ledger
      <4>2. Gone' = Gone
        BY <3>3, <4>1
      <4>3. ASSUME Filled' PROVE Filled
        BY <2>0, <3>5, <4>1, <4>3 DEF Filled, MapStatus, Outcomes
      <4>4. ASSUME Refused' PROVE Refused
        BY <2>0, <3>5, <4>1, <4>4 DEF Refused, MapStatus, Outcomes
      <4>5. QED
        BY <3>0, <3>1, <3>2, <4>1, <4>2, <4>3, <4>4
        DEF SentInv, NeverOverParent, StatusTellsWhatWasSent, CallInv, NoResult
    <3>9. QED
      BY <2>10, <3>6, <3>7, <3>8 DEF BrokerStep, Exchange
  <2>11. CASE MarketStep
    BY <2>11, SentUntouched DEF MarketStep, MarketMoves, call
  <2>12. CASE FillStep
    BY <2>12, SentUntouched DEF FillStep, FillWorking, call, ledger, flowVars
  <2>13. CASE UNCHANGED vars
    BY <2>13, SentUntouched DEF vars, brokerVars, call, ledger, flowVars
  <2>14. QED
    BY <2>1, <2>2, <2>3, <2>4, <2>5, <2>6, <2>7, <2>8, <2>9, <2>10, <2>11, <2>12, <2>13
    DEF Next, FlowStep
<1>3. QED
  BY <1>1, <1>2, TypeAndCall, PTL DEF Spec

\* However a parent is cut and whatever is lost, the exchange never accepts more
\* shares than it asked for.
THEOREM NoOverfill == Spec => []NeverOverParent
<1>1. SentInv => NeverOverParent
  BY DEF SentInv
<1>2. QED
  BY <1>1, SentInvariant, PTL

\* final_status REJECTED with every answer received means nothing was accepted,
\* FILLED that every slice was.
THEOREM FinalStatusIsTrue == Spec => []StatusTellsWhatWasSent
<1>1. SentInv => StatusTellsWhatWasSent
  BY DEF SentInv
<1>2. QED
  BY <1>1, SentInvariant, PTL

-----------------------------------------------------------------------------
\* A kill switch is due at NAV v under the high-water mark pk.
Tripped(pk, v) ==
    \/ pk <= 0 \/ (pk - v) * 100 > MaxDdPct * pk
    \/ v - DayOpen < 0 /\ (-(v - DayOpen)) * 100 > MaxDailyLossPct * v

\* The switches look at the mark and the NAV alone.
LEMMA TrippedAtMark ==
    /\ \A v \in Nat : TrippedAt(v) <=> Tripped(peak, v)
    /\ \A v \in Nat : TrippedAt(v)' <=> Tripped(peak', v)
    /\ TrippedAt(nav)' <=> Tripped(peak', nav')
    /\ TrippedAt(seen.equity)' <=> Tripped(peak', seen'.equity)
  BY DEF TrippedAt, Tripped, Portfolio, Gate!DrawdownViolated, Gate!DailyLossViolated

\* A NAV above the mark is no drawdown: a switch that is due stays due when the
\* mark is raised to it.
LEMMA RaisingKeepsTripped ==
    ASSUME NEW pk \in Nat, NEW v \in Nat, Tripped(pk, v), v > pk, pk > 0
    PROVE  Tripped(v, v)
<1>1. MaxDdPct * pk >= 0 /\ MaxDdPct * pk \in Int
  BY LimitsAssumption
<1>2. ~((pk - v) * 100 > MaxDdPct * pk)
  BY <1>1
<1>3. QED
  BY <1>2 DEF Tripped

\* The gate refuses every order while a switch is due.
LEMMA TrippedRefuses ==
    ASSUME NEW i, NEW pk, NEW v, NEW q, Tripped(pk, v)
    PROVE  ~Gate!Allowed(i, Portfolio(v, q, pk, v - DayOpen))
  BY DEF Tripped, Portfolio, Gate!Allowed, Gate!DrawdownViolated, Gate!DailyLossViolated

\* Once RISK_DD or RISK_DAILY_LOSS is due at most one order reaches the exchange:
\* the one whose own gate had been passed before.
THEOREM SwitchHolds == Spec => []KillSwitchStopsParent
<1>1. Init => SwitchInv
  BY DEF Init, BrokerInit, SwitchInv
<1>2. TypeOK /\ SwitchInv /\ [Next]_vars => SwitchInv'
  <2> SUFFICES ASSUME TypeOK, SwitchInv, [Next]_vars PROVE SwitchInv'
    OBVIOUS
  <2>0. /\ nav \in Nat /\ nav > 0 /\ peak \in Nat /\ peak > 0
        /\ seen \in [price : Nat, equity : Nat, qty : Int] /\ seen.equity \in Nat
        /\ sentTripped \in Nat
    BY MarketAssumption DEF TypeOK, BrokerTypeOK
  <2>1. ASSUME UNCHANGED <<peak, nav, seen, sentTripped>>, bpc' = bpc \/ bpc' \in {"quote", "done"}
        PROVE  SwitchInv'
    BY <2>0, <2>1, TrippedAtMark DEF SwitchInv
  <2>2. CASE TakeSnapshot
    BY <2>1, <2>2 DEF TakeSnapshot, brokerVars, market, call, ledger
  <2>3. ASSUME NEW side \in Sides, NEW q \in Quantities, Submit(side, q) PROVE SwitchInv'
    BY <2>1, <2>3 DEF Submit, market, call
  <2>4. CASE FlowStep /\ UNCHANGED brokerVars
    BY <2>1, <2>4 DEF brokerVars, market, call, ledger
  <2>5. CASE PlaceSlice
    BY <2>1, <2>5 DEF PlaceSlice, PlaceOrder, market, ledger
  <2>6. CASE SliceDone
    <3>1. UNCHANGED <<peak, nav, sentTripped>> /\ bpc' = "idle"
      BY <2>6 DEF SliceDone, market, ledger
    <3>2. QED
      BY <2>0, <3>1, TrippedAtMark DEF SwitchInv
  <2>7. CASE BrokerStep
    <3>1. CASE Refuse \/ RequestLost \/ Answer \/ AnswerLost
      BY <2>1, <3>1 DEF Refuse, RequestLost, Answer, AnswerLost, market, ledger
    <3>2. CASE ReadQuote
      <4>1. UNCHANGED <<peak, nav, sentTripped>> /\ bpc' = "portfolio"
        BY <3>2 DEF ReadQuote, market, ledger
      <4>2. QED
        BY <2>0, <4>1, TrippedAtMark DEF SwitchInv
    <3>3. CASE ReadPortfolio
      <4>1. /\ UNCHANGED <<nav, sentTripped>> /\ bpc' \in {"gate", "done"}
            /\ seen'.equity = nav /\ peak' = IF nav > peak THEN nav ELSE peak
        BY <2>0, <3>3 DEF ReadPortfolio, market, ledger
      <4>2. Tripped(peak, nav) => Tripped(peak', nav)
        BY <2>0, <4>1, RaisingKeepsTripped
      <4>3. QED
        BY <2>0, <4>1, <4>2, TrippedAtMark DEF SwitchInv
    <3>4. CASE Evaluate
      <4>1. UNCHANGED <<peak, nav, seen, sentTripped>> /\ bpc = "gate" /\ bpc' \in {"post", "done"}
        BY <3>4 DEF Evaluate, market, ledger
      <4>2. sentTripped > 0 => bpc' = "done"
        BY <2>0, <3>4, <4>1, TrippedAtMark, TrippedRefuses DEF SwitchInv, Evaluate
      <4>3. QED
        BY <2>0, <4>1, <4>2, TrippedAtMark DEF SwitchInv
    <3>5. ASSUME NEW outcome \in Outcomes, NEW filled \in 0..Shares(order), Post(outcome, filled)
          PROVE  SwitchInv'
      <4>1. /\ UNCHANGED <<peak, nav>> /\ bpc = "post" /\ bpc' = "answer"
            /\ \/ sentTripped' = sentTripped
               \/ sentTripped' = IF TrippedAt(nav) THEN sentTripped + 1 ELSE 0
        BY <3>5 DEF Post, market
      <4>2. sentTripped = 0
        BY <2>0, <4>1 DEF SwitchInv
      <4>3. QED
        BY <2>0, <4>1, <4>2, TrippedAtMark DEF SwitchInv
    <3>6. QED
      BY <2>7, <3>1, <3>2, <3>3, <3>4, <3>5 DEF BrokerStep, Exchange
  <2>8. CASE MarketStep
    <3>1. PICK p \in Prices, v \in Navs : MarketMoves(p, v)
      BY <2>8 DEF MarketStep
    <3>2. /\ UNCHANGED <<peak, seen, bpc>> /\ nav' = v
          /\ sentTripped' = IF TrippedAt(v) THEN sentTripped ELSE 0
      BY <3>1 DEF MarketMoves, call
    <3>3. v \in Nat
      BY MarketAssumption
    <3>4. QED
      BY <2>0, <3>2, <3>3, TrippedAtMark DEF SwitchInv
  <2>9. CASE FillStep
    BY <2>1, <2>9 DEF FillStep, FillWorking, market, call, ledger
  <2>10. CASE UNCHANGED vars
    BY <2>1, <2>10 DEF vars, brokerVars, market, call, ledger
  <2>11. FlowStep => UNCHANGED brokerVars \/ PlaceSlice \/ SliceDone
    BY DEF FlowStep, RefuseParent, ApproveRaises, Approve, Slice, Finish
  <2>12. QED
    BY <2>2, <2>3, <2>4, <2>5, <2>6, <2>7, <2>8, <2>9, <2>10, <2>11 DEF Next
<1>3. SwitchInv => KillSwitchStopsParent
  BY DEF SwitchInv, KillSwitchStopsParent
<1>4. QED
  BY <1>1, <1>2, <1>3, TypeCorrect, PTL DEF Spec

-----------------------------------------------------------------------------
\* What an approval of the gate says about the position.
LEMMA AllowedFits ==
    ASSUME NEW side \in Sides, NEW qty \in Nat, NEW held \in Nat, NEW p \in Nat, NEW v \in Nat,
           NEW pk, NEW pnl,
           Gate!Allowed(Intent([side |-> side, num |-> qty, den |-> 1], p),
                        Portfolio(v, held, pk, pnl))
    PROVE  Fits(side, qty, held, p, v)
<1> DEFINE intent == Intent([side |-> side, num |-> qty, den |-> 1], p)
           state == Portfolio(v, held, pk, pnl)
           exposure == IF side = "sell" THEN qty - (IF qty <= held THEN qty ELSE held)
                                        ELSE held + qty
<1>1. Gate!Existing(intent, state) = held
  BY DEF Gate!Existing, Intent, Portfolio
<1>2. /\ intent.side = side /\ intent.num = qty /\ intent.den = 1 /\ intent.price = p
      /\ state.equity = v
  BY DEF Intent, Portfolio
<1>3. ~Gate!PositionViolated(intent, state)
  BY DEF Gate!Allowed
<1> HIDE DEF intent, state
<1>4. Gate!Exposure(intent, state) = exposure /\ exposure \in Int
  BY <1>1, <1>2 DEF Gate!Exposure, Gate!Short, Sides
<1> HIDE DEF exposure
<1>5. MaxPositionPct * v \in Int /\ MaxPositionPct * v * 1 = MaxPositionPct * v
  BY LimitsAssumption
<1>6. exposure > 0 => ~(exposure * p * 100 > MaxPositionPct * v)
  BY <1>2, <1>3, <1>4, <1>5 DEF Gate!PositionViolated
<1>7. exposure * p * 100 \in Int
  BY <1>4
<1>8. exposure > 0 => exposure * p * 100 <= MaxPositionPct * v
  BY <1>5, <1>6, <1>7
<1>9. QED
  BY <1>8 DEF exposure, Fits

\* A smaller position is worth no more.
LEMMA SmallerIsCheaper ==
    ASSUME NEW a \in Int, NEW b \in Int, a <= b, NEW p \in Nat
    PROVE  a * p * 100 <= b * p * 100
<1>1. a * p <= b * p /\ a * p \in Int /\ b * p \in Int
  OBVIOUS
<1>2. QED
  BY <1>1

\* A part of an order that fits fits: what was sent of the parent, bought or sold
\* from held, is within the limit.
LEMMA PartFits ==
    ASSUME NEW side \in Sides, NEW qty \in Nat, NEW held \in Nat, NEW p \in Nat, NEW v \in Nat,
           Fits(side, qty, held, p, v), NEW s \in 0..qty
    PROVE  LET total == held + Signed(side, s)
           IN  /\ side = "buy" => total * p * 100 <= MaxPositionPct * v
               /\ side = "sell" /\ total < 0 => (-total) * p * 100 <= MaxPositionPct * v
<1>1. MaxPositionPct * v \in Int /\ MaxPositionPct * v >= 0
  BY LimitsAssumption
<1>2. ASSUME side = "buy" PROVE (held + s) * p * 100 <= MaxPositionPct * v
  <2>1. (held + s) * p * 100 <= (held + qty) * p * 100
    BY SmallerIsCheaper
  <2>2. CASE held + qty > 0
    <3>1. (held + qty) * p * 100 <= MaxPositionPct * v
      BY <1>2, <2>2 DEF Fits
    <3>2. (held + s) * p * 100 \in Int /\ (held + qty) * p * 100 \in Int
      OBVIOUS
    <3>3. QED
      BY <1>1, <2>1, <3>1, <3>2
  <2>3. CASE held + qty = 0
    <3>1. held + s = 0 /\ (held + s) * p * 100 = 0
      BY <2>3
    <3>2. QED
      BY <1>1, <3>1
  <2>4. QED
    BY <2>2, <2>3
<1>3. ASSUME side = "sell", held - s < 0 PROVE (-(held - s)) * p * 100 <= MaxPositionPct * v
  <2>1. qty - held > 0 /\ ~(qty <= held) /\ -(held - s) <= qty - held
    BY <1>3
  <2>2. (-(held - s)) * p * 100 <= (qty - held) * p * 100
    BY <2>1, SmallerIsCheaper
  <2>3. (qty - held) * p * 100 <= MaxPositionPct * v
    BY <1>3, <2>1 DEF Fits
  <2>4. (-(held - s)) * p * 100 \in Int /\ (qty - held) * p * 100 \in Int
    OBVIOUS
  <2>5. QED
    BY <1>1, <2>2, <2>3, <2>4
<1>4. side = "buy" => held + Signed(side, s) = held + s
  BY DEF Signed
<1>5. side = "sell" => held + Signed(side, s) = held - s
  BY DEF Signed
<1>6. QED
  BY <1>2, <1>3, <1>4, <1>5

\* A step that changes nothing TotalInv speaks of, or starts no new phase, keeps it.
LEMMA TotalUntouched ==
    ASSUME TotalInv,
           UNCHANGED <<nav, price, position, working, sent, parent, fresh, calm>>,
           fpc' = "idle" \/ UNCHANGED <<fpc, snapshot>> \/ (fpc = "adv" /\ fpc' = "slicing" /\ UNCHANGED snapshot)
    PROVE  TotalInv'
  BY DEF TotalInv, Total, ParentFits, PositionWithinLimit

\* From a fresh snapshot, with nothing working and a still market, no parent takes
\* the position past max_position_pct, whatever fills and whatever stays working.
THEOREM PositionStaysWithinLimit == Spec => []PositionWithinLimit
<1>1. Init => TotalInv
  BY DEF Init, BrokerInit, TotalInv, PositionWithinLimit
<1>2. TypeOK /\ CallInv /\ SentInv /\ SentInv' /\ TypeOK' /\ TotalInv /\ [Next]_vars => TotalInv'
  <2> SUFFICES ASSUME TypeOK, CallInv, SentInv, SentInv', TypeOK', TotalInv, [Next]_vars
               PROVE  TotalInv'
    OBVIOUS
  <2>0. /\ sent \in Nat /\ parent.qty \in Nat /\ parent.side \in Sides
        /\ position \in Int /\ working \in [Sides -> Nat]
        /\ nav \in Nat /\ price \in Nat /\ snapshot.equity \in Nat /\ snapshot.qty \in Int
    BY MarketAssumption DEF TypeOK, BrokerTypeOK
  <2>1. CASE TakeSnapshot
    <3>1. /\ fpc' = "idle"
          /\ UNCHANGED <<nav, price, position, working, sent, parent, fresh, calm>>
      BY <2>1 DEF TakeSnapshot, brokerVars, market, exchange, ledger
    <3>2. QED
      BY <3>1, TotalUntouched
  <2>2. ASSUME NEW side \in Sides, NEW q \in Quantities, Submit(side, q) PROVE TotalInv'
    <3>1. /\ fpc' = "approve" /\ sent' = 0 /\ parent'.side = side
          /\ fresh' => snapshot = Account /\ \A x \in Sides : working[x] = 0
          /\ UNCHANGED <<nav, position, working, snapshot>>
      BY <2>2 DEF Submit, market, exchange
    <3>2. fresh' => /\ snapshot'.equity = nav'
                    /\ Total' = snapshot'.qty + Signed(parent'.side, sent')
      BY <2>0, <3>1 DEF Account, Total, Signed, Sides
    <3>3. QED
      BY <3>1, <3>2 DEF TotalInv, PositionWithinLimit
  <2>3. ASSUME NEW v \in {"UNIVERSE", "QUOTE", "ADV"}, RefuseParent(v) PROVE TotalInv'
    <3>1. /\ fpc' = "idle"
          /\ UNCHANGED <<nav, price, position, working, sent, parent, fresh, calm>>
      BY <2>3 DEF RefuseParent, Reject, brokerVars, market, exchange, ledger
    <3>2. QED
      BY <3>1, TotalUntouched
  <2>4. CASE ApproveRaises
    <3>1. /\ fpc' = "idle"
          /\ UNCHANGED <<nav, price, position, working, sent, parent, fresh, calm>>
      BY <2>4 DEF ApproveRaises, brokerVars, market, exchange, ledger
    <3>2. QED
      BY <3>1, TotalUntouched
  <2>5. ASSUME NEW ok \in BOOLEAN, Approve(ok) PROVE TotalInv'
    <3>1. /\ fpc = "approve" /\ fpc' \in {"adv", "idle"} /\ Representable(snapshot.qty)
          /\ UNCHANGED <<nav, price, position, working, sent, parent, fresh, calm, snapshot>>
      BY <2>5 DEF Approve, Reject, brokerVars, market, exchange, ledger
    <3>2. fpc' = "adv" =>
              Gate!Allowed(Intent([side |-> parent.side, num |-> parent.qty, den |-> 1], price),
                           Portfolio(snapshot.equity, snapshot.qty, PeakFor(peakProvider'), 0))
      BY <2>5 DEF Approve, Reject
    <3>3. fpc' = "adv" => ParentFits
      BY <2>0, <3>1, <3>2, AllowedFits DEF ParentFits, Representable
    <3>4. fpc' = "adv" => ParentFits'
      BY <3>1, <3>3 DEF ParentFits
    <3>5. QED
      BY <3>1, <3>4 DEF TotalInv, Total, PositionWithinLimit
  <2>6. ASSUME NEW has \in BOOLEAN, NEW adv \in Advs, Slice(has, adv) PROVE TotalInv'
    <3>1. /\ fpc = "adv" /\ fpc' \in {"slicing", "idle"}
          /\ UNCHANGED <<nav, price, position, working, sent, parent, fresh, calm, snapshot>>
      BY <2>6 DEF Slice, Reject, brokerVars, market, exchange, ledger
    <3>2. QED
      BY <3>1, TotalUntouched
  <2>7. CASE PlaceSlice \/ SliceDone
    <3>1. UNCHANGED <<nav, price, position, working, sent, parent, fresh, calm, fpc, snapshot>>
      BY <2>7 DEF PlaceSlice, PlaceOrder, SliceDone, flowVars, market, exchange, ledger
    <3>2. QED
      BY <3>1, TotalUntouched
  <2>8. CASE Finish
    <3>1. /\ fpc' = "idle"
          /\ UNCHANGED <<nav, price, position, working, sent, parent, fresh, calm>>
      BY <2>8 DEF Finish, brokerVars, market, exchange, ledger
    <3>2. QED
      BY <3>1, TotalUntouched
  <2>9. CASE BrokerStep
    <3>1. UNCHANGED <<parent, fresh, calm, fpc, snapshot>>
      BY <2>9 DEF BrokerStep, flowVars
    <3>2. CASE \/ Refuse \/ ReadQuote \/ ReadPortfolio \/ Evaluate
               \/ RequestLost \/ Answer \/ AnswerLost
      <4>1. UNCHANGED <<nav, price, position, working, sent>>
        BY <3>2 DEF Refuse, ReadQuote, ReadPortfolio, Evaluate, RequestLost, Answer, AnswerLost,
                    market, exchange, ledger
      <4>2. QED
        BY <3>1, <4>1, TotalUntouched
    <3>3. ASSUME NEW outcome \in Outcomes, NEW filled \in 0..Shares(order), Post(outcome, filled)
          PROVE  TotalInv'
      <4>1. UNCHANGED <<nav, price>> /\ bpc = "post"
        BY <3>3 DEF Post, market
      <4>2. fpc = "slicing" /\ order.side = parent.side /\ Shares(order) \in Nat
        <5>1. fpc = "slicing" /\ order.side = parent.side
          BY <4>1 DEF CallInv
        <5>2. order \in [side : Sides, num : Nat, den : Nat \ {0}]
          BY DEF TypeOK, BrokerTypeOK
        <5>3. QED
          BY <5>1, <5>2, SharesNat
      <4>3. PICK a \in {0, Shares(order)} :
                sent' = sent + a /\ Total' = Total + Signed(parent.side, a)
        <5>1. CASE outcome \in {"REJECTED", "CANCELLED"}
          <6>1. sent' = sent /\ working' = working /\ position' = position + Signed(order.side, 0)
            BY <3>3, <5>1 DEF Post
          <6>2. QED
            BY <2>0, <4>2, <6>1 DEF Total, Signed, Sides
        <5>2. CASE outcome = "FILL"
          <6>1. /\ sent' = sent + Shares(order) /\ working' = working
                /\ position' = position + Signed(order.side, Shares(order))
            BY <3>3, <5>2 DEF Post
          <6>2. QED
            BY <2>0, <4>2, <6>1 DEF Total, Signed, Sides
        <5>3. CASE outcome \in {"NEW", "PARTIALLYFILL"}
          <6>1. /\ sent' = sent + Shares(order)
                /\ working' = [working EXCEPT ![order.side] = @ + Shares(order) - filled]
                /\ position' = position + Signed(order.side, filled)
            BY <3>3, <5>3 DEF Post
          <6>2. QED
            BY <2>0, <4>2, <6>1 DEF Total, Signed, Sides
        <5>4. QED
          BY <5>1, <5>2, <5>3 DEF Outcomes
      <4>4. ASSUME fresh, calm
            PROVE  /\ snapshot.equity = nav /\ ParentFits
                   /\ Total' = snapshot.qty + Signed(parent.side, sent')
        <5>1. /\ snapshot.equity = nav /\ ParentFits
              /\ Total = snapshot.qty + Signed(parent.side, sent)
          BY <4>2, <4>4 DEF TotalInv
        <5>2. Signed(parent.side, sent) + Signed(parent.side, a) = Signed(parent.side, sent')
          BY <2>0, <4>2, <4>3 DEF Signed
        <5>3. Signed(parent.side, sent) \in Int /\ Signed(parent.side, a) \in Int
          BY <2>0, <4>2 DEF Signed
        <5>4. QED
          BY <2>0, <4>3, <5>1, <5>2, <5>3
      <4>5. sent' \in 0..parent.qty
        BY <3>1 DEF SentInv, NeverOverParent, TypeOK, BrokerTypeOK
      <4>6. PositionWithinLimit'
        <5>1. ASSUME fresh, calm
              PROVE  /\ parent.side = "buy" => Total' * price * 100 <= MaxPositionPct * nav
                     /\ parent.side = "sell" /\ Total' < 0
                            => (-(Total')) * price * 100 <= MaxPositionPct * nav
          BY <2>0, <4>4, <4>5, <5>1, PartFits DEF ParentFits, Representable
        <5>2. QED
          BY <3>1, <4>1, <5>1 DEF PositionWithinLimit, Total
      <4>7. QED
        BY <3>1, <4>1, <4>2, <4>4, <4>6 DEF TotalInv, ParentFits
    <3>4. QED
      BY <2>9, <3>2, <3>3 DEF BrokerStep, Exchange
  <2>10. CASE MarketStep
    BY <2>10 DEF MarketStep, TotalInv, PositionWithinLimit
  <2>11. CASE FillStep
    <3>1. PICK side \in Sides : FillWorking(side)
      BY <2>11 DEF FillStep
    <3>2. UNCHANGED <<nav, price, sent, parent, fresh, calm, fpc, snapshot>>
      BY <2>11, <3>1 DEF FillStep, FillWorking, flowVars, market, ledger
    <3>3. Total' = Total
      BY <2>0, <3>1 DEF FillWorking, Total, Signed, Sides
    <3>4. QED
      BY <3>2, <3>3 DEF TotalInv, ParentFits, PositionWithinLimit, Total
  <2>12. CASE UNCHANGED vars
    <3>1. UNCHANGED <<nav, price, position, working, sent, parent, fresh, calm, fpc, snapshot>>
      BY <2>12 DEF vars, brokerVars, flowVars, market, exchange, ledger
    <3>2. QED
      BY <3>1, TotalUntouched
  <2>13. QED
    BY <2>1, <2>2, <2>3, <2>4, <2>5, <2>6, <2>7, <2>8, <2>9, <2>10, <2>11, <2>12
    DEF Next, FlowStep
<1>3. TotalInv => PositionWithinLimit
  BY DEF TotalInv
<1>4. QED
  BY <1>1, <1>2, <1>3, TypeAndCall, SentInvariant, PTL DEF Spec
=============================================================================
