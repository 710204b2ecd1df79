--------------------------- MODULE HighWaterMark ---------------------------
(***************************************************************************)
(* What the peak-equity store of TinkoffAccount promises its RiskGate: a   *)
(* mark that only rises while the process runs, of which a lower or equal  *)
(* stored copy survives every crash.  The stored copy never falls either,  *)
(* unless a file has been damaged by something other than the program.     *)
(***************************************************************************)
EXTENDS Naturals

VARIABLES mark, stored, running, damaged

hwVars == <<mark, stored, running, damaged>>

HwInit == mark = 0 /\ stored = 0 /\ ~running /\ ~damaged

Raise == /\ running
         /\ mark' > mark
         /\ UNCHANGED <<stored, running, damaged>>

Store == /\ running
         /\ stored' = mark
         /\ stored <= mark
         /\ UNCHANGED <<mark, running, damaged>>

Stop == /\ running
        /\ running' = FALSE
        /\ mark' = 0
        /\ UNCHANGED <<stored, damaged>>

Start == /\ ~running
         /\ running' = TRUE
         /\ mark' = stored
         /\ UNCHANGED <<stored, damaged>>

\* Once a file has been damaged, nothing is promised of the stored copy.
Damage == /\ damaged'
          /\ stored' \in Nat
          /\ UNCHANGED <<mark, running>>

HwNext == Raise \/ Store \/ Stop \/ Start \/ Damage

HwSpec == HwInit /\ [][HwNext]_hwVars
=============================================================================
