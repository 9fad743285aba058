-------------------------- MODULE MCBoundedDecode --------------------------
(***************************************************************************)
(* A grid of four tiles in two columns, one of them outside the crop, and  *)
(* budgets from "refused at once" to "three workers fit".                  *)
(*                                                                         *)
(* Beside it, in the call whose options are refused, the memory of a tile  *)
(* in real sizes.  Pictures fit their reservation barely or not at all     *)
(* after a change of the block sizes, of the crop or of the sides;         *)
(* payloads are much smaller and much larger than the slack; parameter     *)
(* sets and slices are without and with as many removed bytes as they can  *)
(* have.                                                                   *)
(***************************************************************************)
EXTENDS BoundedDecode, TileMemory

MCStageBytes ==
    [runtime |-> 1, metadata |-> 1, index |-> 0, tiles |-> 1, color |-> 1,
     boundary |-> 1, output |-> 2]

MCContribution == [i \in 1 .. Count |-> IF i = 2 THEN 2 ELSE 1]

Picture(codedWidth, codedHeight, width, height, minCb) ==
    [codedWidth |-> codedWidth, codedHeight |-> codedHeight, width |-> width,
     height |-> height, ctb |-> 16, minCb |-> minCb, minTb |-> 4]

\* One size with two sizes of blocks and two crops, another size, the smallest
\* and the one with the most rows of CTBs.
MCPictures ==
    {Picture(512, 512, 512, 512, 16), Picture(512, 512, 512, 512, 8),
     Picture(512, 512, 500, 400, 8), Picture(520, 504, 512, 500, 8),
     Picture(8, 8, 2, 2, 8), Picture(8, 16384, 8, 16384, 8)}

MCParameterNals ==
    {[length |-> 40, removed |-> 0], [length |-> 65536, removed |-> 21844]}

MCSliceNals ==
    {[length |-> 39, removed |-> 0], [length |-> 39, removed |-> 12],
     [length |-> 5999999, removed |-> 1999999]}

MCRegions ==
    {[width |-> 0, height |-> 0, scaled |-> TRUE],
     [width |-> 512, height |-> 512, scaled |-> FALSE],
     [width |-> 300, height |-> 2, scaled |-> TRUE]}

-----------------------------------------------------------------------------
\* The two share nothing: one is explored where the other has one state.
TileIsExplored == limit < MinLimit

MCInit ==
    /\ Init
    /\ TileInit
    /\ ~TileIsExplored => length = 40 /\ ~region.scaled

MCNext ==
    \/ Next /\ UNCHANGED tileVars
    \/ TileIsExplored /\ pc = "returned" /\ TileNext /\ UNCHANGED vars

MCSpec == MCInit /\ [][MCNext]_<<vars, tileVars>> /\ Fairness
=============================================================================
