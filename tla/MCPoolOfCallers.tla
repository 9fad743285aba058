---------------------------- MODULE MCPoolOfCallers --------------------------
(* Two calls, both made by threads of a pool of two.                        *)
EXTENDS GridTiles

CONSTANTS first, second

MCCalls == {first, second}
MCEstimates == {2}
=============================================================================
