---------------------------- MODULE RollingWindow ----------------------------
(***************************************************************************)
(* The incremental HEVC decoder (hevc/incremental.rs): a picture is        *)
(* decoded one row of coding tree blocks (CTBs) at a time, and never kept  *)
(* whole.  Three frames roll down the picture:                             *)
(*                                                                         *)
(*   raw        two CTB rows as reconstructed, for intra prediction;       *)
(*   filtered   three CTB rows that are deblocked in place;                *)
(*   output     one CTB row after sample adaptive offset (SAO).            *)
(*                                                                         *)
(* A row is emitted one row late: its last lines are deblocked together    *)
(* with the first lines of the next, and SAO looks one line further.  The  *)
(* SAO parameters live in a ring of three rows.                            *)
(*                                                                         *)
(* The samples of a line are abstracted to what they were computed from,   *)
(* so two lines are equal exactly when the decoder went through the same   *)
(* passes over the same lines.  Which edges are flagged, which filter they *)
(* take and how a CTB is offset is left to the samples: every edge and     *)
(* every offset is given all the lines that it could read.  Lines are      *)
(* those of one plane: luma, or chroma at half the height.                 *)
(***************************************************************************)
EXTENDS Integers, Sequences

CONSTANTS
    Sizes,      \* CTB sizes, in luma lines
    Heights     \* picture heights, in luma lines

\* validate_sps: log2_ctb_size in 4..=6, whole coding blocks of 8 or more.
ASSUME SizesAssumption == Sizes \subseteq {16, 32, 64}
ASSUME HeightsAssumption == \A h \in Heights : h \in Nat \ {0} /\ h % 8 = 0

VARIABLES
    chroma,     \* the plane: chroma at half height, or luma
    size,       \* lines of the plane in a CTB row
    height,     \* lines of the plane in the picture
    deblocking, \* ~slice_deblocking_filter_disabled_flag
    coded,      \* the CTB row in which the coded slice ends
    pc,         \* what decode does next
    row,        \* the CTB row it works on
    raw,
    filtered,
    sao,        \* the ring of SAO parameters
    emitted,    \* the bands emitted so far
    result

shapeVars == <<chroma, size, height, deblocking, coded>>
vars == <<shapeVars, pc, row, raw, filtered, sao, emitted, result>>

Sub == IF chroma THEN 2 ELSE 1

Rows == (height + size - 1) \div size

Start == row * size

Count == IF size < height - Start THEN size ELSE height - Start

\* Monus: a row number that saturates at zero.
Less(r, n) == IF r > n THEN r - n ELSE 0

\* Samples that no pass has written, and samples reconstructed from them.
Uninit == [pass |-> "none"]
Spoilt == [pass |-> "spoilt"]

\* The reconstructed samples of line y.
Raw(y) == [pass |-> "raw", line |-> y]

-----------------------------------------------------------------------------
(* A frame that rolls down the picture.                                    *)

Lines(first, count) == first .. first + count - 1

Frame(count) == [y \in Lines(0, count) |-> Uninit]

\* DecodedFrame::advance_rows to a new first line: the lines above it leave,
\* and as many uninitialized ones enter below.
Advance(frame, origin, count) ==
    [y \in Lines(origin, count) |-> IF y \in DOMAIN frame THEN frame[y] ELSE Uninit]

\* The lines of the current row are replaced.
Write(frame, Content(_)) ==
    [y \in DOMAIN frame |-> IF y \in Lines(Start, Count) THEN Content(y) ELSE frame[y]]

-----------------------------------------------------------------------------
(* The filters.                                                            *)

\* Horizontal edges lie on a grid of eight lines.  On each side of an edge
\* the luma filter reads four lines and changes three, the chroma filter
\* reads two and changes one.
Grid == 8
Reads == IF chroma THEN 2 ELSE 4
Changes == IF chroma THEN 1 ELSE 3

\* Vertical edges mix the samples of a line with each other only.
Vertical(line) == [pass |-> "vertical", of |-> line]

\* A line that an edge changes depends on every line the edge reads.
Horizontal(frame, edge, y) ==
    [pass |-> "horizontal", edge |-> edge, line |-> y,
     of |-> [k \in edge - Reads .. edge + Reads - 1 |-> frame[k]]]

\* The edge whose reach a line is in.
EdgeOf(y) == Grid * ((y + Changes) \div Grid)

\* The horizontal edge that changes line y is among the lines of a range.
Crossed(y, first, end) ==
    LET edge == EdgeOf(y)
    IN  edge # 0 /\ first <= edge /\ edge < end /\ y < edge + Changes

\* Mutant of Deblock: the edge above a CTB row is left out.
DeblockInside(frame, first, end) ==
    LET upright == [y \in DOMAIN frame |->
                       IF first <= y /\ y < end THEN Vertical(frame[y])
                                                ELSE frame[y]]
    IN  [y \in DOMAIN frame |->
            IF Crossed(y, first + 1, end) THEN Horizontal(upright, EdgeOf(y), y)
                                          ELSE upright[y]]

\* apply_deblocking_rows over the lines first .. end - 1: the vertical edges
\* of these lines, then the horizontal edges among them, which reach up into
\* the row before.  No line that one edge changes is read at another.
Deblock(frame, first, end) ==
    LET upright == [y \in DOMAIN frame |->
                       IF first <= y /\ y < end THEN Vertical(frame[y])
                                                ELSE frame[y]]
    IN  [y \in DOMAIN frame |->
            IF Crossed(y, first, end) THEN Horizontal(upright, EdgeOf(y), y)
                                      ELSE upright[y]]

\* Sample adaptive offset of a line with the parameters of a CTB row: the
\* edge offset reads the deblocked lines above and below, inside the picture.
Offset(frame, info, y) ==
    [sao |-> info, line |-> frame[y],
     above |-> IF y = 0 THEN Uninit ELSE frame[y - 1],
     below |-> IF y = height - 1 THEN Uninit ELSE frame[y + 1]]

-----------------------------------------------------------------------------
(* The ring of SAO parameters: three rows, or all of a picture of one or   *)
(* two.                                                                    *)

Ring == IF 2 * size < height THEN 3 ELSE Rows

Info(r) == sao[r % Ring]

\* Parameters that are not those of a row.
NoInfo == -1

Init ==
    /\ chroma \in BOOLEAN
    /\ size \in {s \div Sub : s \in Sizes}
    /\ height \in {h \div Sub : h \in Heights}
    /\ deblocking \in BOOLEAN
    /\ coded \in 0 .. Rows
    /\ pc = "decode"
    /\ row = 0
    /\ raw = Frame(2 * size)
    /\ filtered = Frame(3 * size)
    /\ sao = [i \in 0 .. Ring - 1 |-> NoInfo]
    /\ emitted = << >>
    /\ result = "none"

-----------------------------------------------------------------------------
(* SliceContext::decode_row.                                               *)

\* The origin of the raw frame while a row is decoded.
RawOrigin(r) == Less(r, 1) * size

\* Intra prediction reads the reconstructed line above the row.
Reconstructed(frame, y) ==
    IF row = 0 \/ frame[Start - 1] = Raw(Start - 1) THEN Raw(y) ELSE Spoilt

\* The parameters of a CTB may be merged from the one above.
Merged == IF row = 0 \/ Info(row - 1) = row - 1 THEN row ELSE NoInfo

\* The CTBs of a row are decoded; the slice ends with the last CTB of the
\* picture and nowhere else.
DecodeRow ==
    /\ pc = "decode"
    /\ row < Rows
    /\ (row = coded) = (row = Rows - 1)
    /\ LET frame == Advance(raw, RawOrigin(row), 2 * size)
       IN  raw' = Write(frame, LAMBDA y : Reconstructed(frame, y))
    /\ sao' = [sao EXCEPT ![row % Ring] = Merged]
    /\ pc' = "filter"
    /\ UNCHANGED <<shapeVars, row, filtered, emitted, result>>

\* Bad coded data, a read error, or an end of the slice in the wrong place.
FailRow ==
    /\ pc = "decode"
    /\ row < Rows
    /\ pc' = "returned"
    /\ result' = "error"
    /\ UNCHANGED <<shapeVars, row, raw, filtered, sao, emitted>>

-----------------------------------------------------------------------------
(* The rest of the loop in incremental::decode.                            *)

\* The origin of the filtered frame from the filtering of a row on.
FilteredOrigin(r) == Less(r, 2) * size

\* The row is copied below its predecessors and deblocked with them.
FilterRow ==
    /\ pc = "filter"
    /\ LET copied == Write(Advance(filtered, FilteredOrigin(row), 3 * size),
                           LAMBDA y : raw[y])
       IN  filtered' = IF deblocking
                       THEN Deblock(copied, Start, Start + Count) ELSE copied
    /\ pc' = IF row > 0 THEN "above" ELSE "last"
    /\ UNCHANGED <<shapeVars, row, raw, sao, emitted, result>>

\* emit_rows: the band of a CTB row after SAO.
Band(r, count) ==
    [start |-> r * size,
     lines |-> [k \in 1 .. count |->
                   Offset(filtered, Info(r), r * size + k - 1)]]

\* The row above is complete.
EmitAbove ==
    /\ pc = "above"
    /\ emitted' = Append(emitted, Band(row - 1, size))
    /\ pc' = "last"
    /\ UNCHANGED <<shapeVars, row, raw, filtered, sao, result>>

\* Nothing follows the last row; after any other the next one is decoded.
EmitLast ==
    /\ pc = "last"
    /\ emitted' = IF Start + Count = height
                  THEN Append(emitted, Band(row, Count)) ELSE emitted
    /\ row' = row + 1
    /\ pc' = "decode"
    /\ UNCHANGED <<shapeVars, raw, filtered, sao, result>>

\* emit returns an error.
FailEmit ==
    /\ \/ pc = "above"
       \/ pc = "last" /\ Start + Count = height
    /\ pc' = "returned"
    /\ result' = "error"
    /\ UNCHANGED <<shapeVars, row, raw, filtered, sao, emitted>>

Complete ==
    /\ pc = "decode"
    /\ row = Rows
    /\ pc' = "returned"
    /\ result' = "done"
    /\ UNCHANGED <<shapeVars, row, raw, filtered, sao, emitted>>

Returned == pc = "returned" /\ UNCHANGED vars

Next ==
    \/ DecodeRow \/ FailRow
    \/ FilterRow \/ EmitAbove \/ EmitLast \/ FailEmit
    \/ Complete
    \/ Returned

Spec == Init /\ [][Next]_vars

-----------------------------------------------------------------------------
\* What decode_slice, apply_deblocking_filter and apply_sao make of the whole
\* picture: every line is reconstructed, all of them are deblocked in one go
\* and then offset with the parameters of their own CTB row.
WholePicture ==
    LET decoded == [y \in Lines(0, height) |-> Raw(y)]
        deblocked == IF deblocking THEN Deblock(decoded, 0, height) ELSE decoded
        Of(r) == IF r = Rows - 1 THEN height - r * size ELSE size
    IN  [n \in 1 .. Rows |->
           [start |-> (n - 1) * size,
            lines |-> [k \in 1 .. Of(n - 1) |->
                Offset(deblocked, n - 1, (n - 1) * size + k - 1)]]]

Stream == INSTANCE BandStream WITH
              picture <- WholePicture, shown <- emitted, result <- result

\* The bands of the rolling frames are those of the picture decoded whole:
\* no line leaves a frame before its last reader, or is shown before its last
\* writer, and no SAO parameter is overwritten before its row is shown.
DeliversStream == Stream!Spec

=============================================================================
