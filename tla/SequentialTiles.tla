-------------------------- MODULE SequentialTiles ---------------------------
(***************************************************************************)
(* What the decoding of a grid promises, however many threads do it: the   *)
(* loop of a build without parallel-grid.  The tiles are decoded and       *)
(* consumed one after another, and the first tile in row-major order that  *)
(* cannot be decoded or consumed decides the error.  Calls that run at the *)
(* same time have nothing to do with each other.                           *)
(***************************************************************************)
EXTENDS Naturals, Sequences

CONSTANT Calls

VARIABLES
    tiles,      \* of each call: the number of tiles after the first
    delivered,  \*   the tiles consumed so far
    result      \*   how it ended: why, and at which tile

vars == <<tiles, delivered, result>>

\* Why a tile ends the call.
Failures == {"decode", "consume", "panic"}

Undecided == [why |-> "none", tile |-> 0]

Init ==
    /\ delivered = [c \in Calls |-> << >>]
    /\ result = [c \in Calls |-> Undecided]

\* Tile 0 is consumed first, then tiles 1 to the last.
ConsumeNext(c) ==
    /\ result[c] = Undecided
    /\ Len(delivered[c]) <= tiles[c]
    /\ delivered' = [delivered EXCEPT ![c] = Append(@, Len(@))]
    /\ UNCHANGED <<tiles, result>>

FailNext(c) ==
    /\ result[c] = Undecided
    /\ Len(delivered[c]) <= tiles[c]
    /\ \E why \in Failures :
           result' = [result EXCEPT ![c] =
                         [why |-> why, tile |-> Len(delivered[c])]]
    /\ UNCHANGED <<tiles, delivered>>

Finish(c) ==
    /\ result[c] = Undecided
    /\ Len(delivered[c]) = tiles[c] + 1
    /\ result' = [result EXCEPT ![c] = [why |-> "done", tile |-> 0]]
    /\ UNCHANGED <<tiles, delivered>>

Next == \E c \in Calls : ConsumeNext(c) \/ FailNext(c) \/ Finish(c)

Spec == Init /\ [][Next]_vars
=============================================================================
