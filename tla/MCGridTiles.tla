----------------------------- MODULE MCGridTiles -----------------------------
(***************************************************************************)
(* Two calls share a pool of three threads, and one of them is made by a   *)
(* thread of the pool.  Either that call has up to four tiles, whose       *)
(* estimates leave room for two small ones, for a single large one, or are *)
(* unknown, and the other call only its first one; or both have up to two  *)
(* tiles for the two threads that are left.                                *)
(***************************************************************************)
EXTENDS GridTiles

CONSTANTS first, second

MCCalls == {first, second}
MCOneInside == {first}
MCEstimates == {Unknown, 2, 7}

\* The instances of the two calls that are explored: `tiles` and `estimate` never
\* change, so the constraint leaves out whole behaviours.
MCChosen ==
    \/ tiles[second] = 0
    \/ \A c \in Calls : tiles[c] <= 2 /\ \A i \in Tiles(c) : estimate[c][i] = 2
=============================================================================
