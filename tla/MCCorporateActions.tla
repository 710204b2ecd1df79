------------------------- MODULE MCCorporateActions -------------------------
(* SPLIT is split 1:2 and then pays a dividend, and MOEX lists a nonsense     *)
(* ratio for it.  DIV pays a dividend so large that, taken off the price      *)
(* after the split that follows, it leaves less than nothing.                 *)
EXTENDS CorporateActions

MCPublished ==
    {[ticker |-> "SPLIT", ts |-> 1, kind |-> "split", num |-> 2, den |-> 1],
     [ticker |-> "SPLIT", ts |-> 1, kind |-> "split", num |-> 0, den |-> 1],
     [ticker |-> "SPLIT", ts |-> 2, kind |-> "dividend", num |-> 1, den |-> 1],
     [ticker |-> "DIV", ts |-> 1, kind |-> "dividend", num |-> 10, den |-> 1],
     [ticker |-> "DIV", ts |-> 2, kind |-> "split", num |-> 2, den |-> 1]}

MCLastClose == [SPLIT |-> 6, DIV |-> 4]
=============================================================================
