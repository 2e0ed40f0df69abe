-------------------------- MODULE MCMarketCuration --------------------------
(* Instances of MarketCuration for TLC.  Amounts stand for the ranges the  *)
(* two gates tell apart: LiqMin = 2; VolMin = 1, four times that is 4.     *)
EXTENDS MarketCuration

CONSTANTS m1, m2, m3

Deep   == [liq |-> 3, vol24 |-> 5, vol |-> 5]
Blank  == [liq |-> Null, vol24 |-> Null, vol |-> 5]    \* selected, and thin for the honesty layer
Poor   == [liq |-> 1, vol24 |-> 3, vol |-> Null]       \* fails the gate of the collector

Mixed == {Deep, Blank, Poor}
Good ==  {Deep, Blank}
=============================================================================
