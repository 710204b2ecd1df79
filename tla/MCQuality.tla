------------------------------ MODULE MCQuality ------------------------------
(***************************************************************************)
(* A Friday, the Saturday after it, Monday and Tuesday, with bars at three *)
(* price levels in the ratio 1 : 2 : 4, one a little off, a bar without a  *)
(* wick, one whose low is above its open, an infinite and a quiet one.     *)
(***************************************************************************)
EXTENDS Quality

Level(p) == [open |-> p, high |-> p + p \div 10, low |-> p - p \div 10, close |-> p, volume |-> 10]

MCDays == {4, 5, 7, 8}
MCKinds == { Level(400), Level(800), Level(1600),
             [Level(400) EXCEPT !.close = 404],
             [Level(800) EXCEPT !.high = 800],
             [Level(800) EXCEPT !.low = 840],
             [Level(800) EXCEPT !.high = 999999],
             [Level(800) EXCEPT !.volume = 0] }
MCDelistings == {NoDay, 7}
===============================================================================
