------------------------------- MODULE MCSizing -------------------------------
(***************************************************************************)
(* Every account, signal and series of up to two bars (the ATR of two is   *)
(* the EWMA's) from small sets: an empty account, drawdowns up to, at and  *)
(* beyond the knee, narrow and wide bars, no volume, little and plenty,    *)
(* and each macro figure at its threshold and just beyond it.              *)
(***************************************************************************)
EXTENDS Sizing

Bars == { [high |-> 1000 + w, low |-> 1000 - w, close |-> 1000, volume |-> v] :
            w \in {0, 15}, v \in {0, 2, 300} }

MCSnapshots ==
    { [cbr |-> c, usd |-> u, usdPrev |-> 100, imoex |-> i, imoexPrev |-> 100] :
        c \in {15, 16}, u \in {105, 106}, i \in {80, 79} } \cup
    { [cbr |-> 10, usd |-> 90, usdPrev |-> 0, imoex |-> 90, imoexPrev |-> 0] }

MCSeries == {<<>>} \cup { <<x>> : x \in Bars } \cup
    { <<x, y>> : x \in Bars, y \in { z \in Bars : z.volume # 300 } }
===============================================================================
