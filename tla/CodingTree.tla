----------------------------- MODULE CodingTree -----------------------------
(***************************************************************************)
(* The decoding of the coding trees of a slice (hevc/ctu.rs, the borders   *)
(* of hevc/intra.rs, the maps of hevc/picture.rs).  What is decoded of a   *)
(* block depends on blocks decoded before it: the samples it is predicted  *)
(* from, the intra modes, depths and quantization parameters (QPs) of its  *)
(* neighbours.  The decoder looks all of them up in flat arrays, and has   *)
(* two drivers over the same functions:                                    *)
(*                                                                         *)
(*   decode_slice   the whole picture, its arrays as large as the picture, *)
(*                  with wavefronts (WPP);                                 *)
(*   decode_row     one row of coding tree blocks (CTBs) after another,    *)
(*                  its arrays two rows high and shifted in front of every *)
(*                  row.                                                   *)
(*                                                                         *)
(* The recursion of the functions is a stack of what is left to decode.    *)
(* Syntax elements are chosen where the stream may choose them.  Lengths   *)
(* and positions are in units of four samples, the smallest block; sizes   *)
(* are logarithms in that unit, two less than in the code.  A sample is    *)
(* known by where it is: a plane is the set of indices that are no longer  *)
(* UNINIT_SAMPLE, which a decoded sample of at most 15 bits never equals.  *)
(***************************************************************************)
EXTENDS Integers, Sequences, FiniteSets

VARIABLES
    pic,        \* the picture: parameters that the stream has set
    pc,         \* "ctu", "tree", "end", "done" or "failed"
    ctb,        \* ctb_x, ctb_y
    stack,      \* what is left of the coding tree
    origin,     \* map_origin and row_origin
    planes,     \* per component, the indices of the samples decoded
    depthMap, lumaModes, chromaModes, qpMap,
    deblock,    \* the frame's deblock_flags and qp_map
    qp,         \* quantization: current_qpy and what it is predicted from
    cu,         \* the coding unit under way
    entropy,    \* context models, snapshot of the row above, substream read
    saoMap,
    log,        \* ghost: the coding units decoded so far
    seen        \* ghost: what the last step looked up

mapVars == <<depthMap, lumaModes, chromaModes, qpMap>>
vars == <<pic, pc, ctb, stack, origin, planes, mapVars, deblock, qp, cu,
          entropy, saoMap, log, seen>>

Smaller(a, b) == IF a < b THEN a ELSE b
Larger(a, b) == IF a > b THEN a ELSE b
Pow(n) == 2 ^ n
DivCeil(a, b) == (a + b - 1) \div b

-----------------------------------------------------------------------------
(* The picture.  pic has w, h; ctb, cb, maxTb, the sizes of coding tree    *)
(* blocks, smallest coding blocks and largest transform blocks (the        *)
(* smallest are one unit); hierarchy, the depth of transform trees; chroma,*)
(* the chroma format; qp, the slice QP; delta and qgDepth, for QPs coded   *)
(* per quantization group; rows, the driver; wpp and entries, the          *)
(* substream each entry point leads to; last, the CTB with end_of_slice;   *)
(* sao; bits, the bit depth; free, the syntax elements not fixed.          *)

CtbSize == Pow(pic.ctb)
WidthInCtbs == DivCeil(pic.w, CtbSize)
HeightInCtbs == DivCeil(pic.h, CtbSize)
Address(x, y) == y * WidthInCtbs + x

\* Lines that the arrays hold: new_with_height and new_stream.
Kept == IF pic.rows THEN 2 * CtbSize ELSE pic.h

Components == IF pic.chroma = 0 THEN {0} ELSE {0, 1, 2}
SubX(c) == IF c # 0 /\ pic.chroma \in {1, 2} THEN 2 ELSE 1
SubY(c) == IF c # 0 /\ pic.chroma = 1 THEN 2 ELSE 1
Width(c) == pic.w \div SubX(c)
Height(c) == pic.h \div SubY(c)
PlaneOrigin(c) == origin \div SubY(c)

\* The unit that a map has an entry for: a smallest coding block, half of
\* one for the intra modes.
CbUnit == Pow(pic.cb)
PuUnit == CbUnit \div 2

\* A flat array of width * height entries.
Filled(width, height, value) == [i \in 0 .. width * height - 1 |-> value]

\* shift_rows: count entries leave in front, as many new ones follow.
Shifted(map, count, value) ==
    [i \in DOMAIN map |-> IF i + count \in DOMAIN map THEN map[i + count] ELSE value]
ShiftedSet(set, count) == {i - count : i \in {j \in set : j >= count}}

\* The indices of a square of an array, those beyond its end left out.
Square(x, y, n, width, height) ==
    {(y + dy) * width + x + dx : dx \in 0 .. n - 1, dy \in 0 .. n - 1}
        \cap 0 .. width * height - 1

Stored(map, square, value) == [i \in DOMAIN map |-> IF i \in square THEN value ELSE map[i]]

\* The entry of a map of a given unit for a position, or the default for
\* one above the lines kept or beyond the end.
Entry(map, unit, x, y, default) ==
    LET i == ((y - origin) \div unit) * DivCeil(pic.w, unit) + (x \div unit)
    IN  IF y >= origin /\ i \in DOMAIN map THEN map[i] ELSE default

StoredBlock(map, unit, x, y, n, value) ==
    Stored(map,
           Square(x \div unit, (y - origin) \div unit, Larger(n \div unit, 1),
                  DivCeil(pic.w, unit), DivCeil(Kept, unit)),
           value)

Dc == 1
NoDepth == 255
DepthAt(x, y) == Entry(depthMap, CbUnit, x, y, NoDepth)
LumaModeAt(x, y) == Entry(lumaModes, PuUnit, x, y, Dc)
ChromaModeAt(x, y) == Entry(chromaModes, PuUnit, x, y, Dc)
QpAt(x, y) == Entry(qpMap, 1, x, y, pic.qp)

-----------------------------------------------------------------------------
(* What the stream may say.                                                *)

Flag(name) == IF name \in pic.free THEN BOOLEAN ELSE {FALSE}

Bits(name) == IF name \in pic.free THEN {0, 1} ELSE {0}

Top == Head(stack)

\* Lookups of a step, for reference.
Nothing == [looked |-> {}, border |-> << >>, mode |-> << >>]

-----------------------------------------------------------------------------
(* Quantization.                                                           *)

\* Remainder as in Rust: it has the sign of the dividend.
Rem(a, b) == IF a >= 0 THEN a % b ELSE -((-a) % b)

\* A position rounded down to its quantization group.
InGroup(v) == LET size == Pow(pic.ctb - pic.qgDepth) IN v - (v % size)

\* decode_quantization_parameters of the coding unit at (x, y): the QP is
\* predicted from the groups to the left and above, inside the CTB, and from
\* the coding unit before the group.
DecodeQuantizationParameters(q, x, y) ==
    LET gx == InGroup(x)
        gy == InGroup(y)
        prev == IF <<gx, gy>> # q.group THEN q.current ELSE q.previous
        first == gx = 0 /\ gy % CtbSize = 0
        pred == IF <<gx, gy>> = <<0, 0>> \/ (first /\ pic.wpp) THEN pic.qp ELSE prev
        left == IF gx > 0 /\ (gx - 1) \div CtbSize = ctb[1]
                THEN QpAt(gx - 1, gy) ELSE pred
        above == IF gy > 0 /\ (gy - 1) \div CtbSize = ctb[2]
                 THEN QpAt(gx, gy - 1) ELSE pred
        more == 6 * (pic.bits - 8)
        sum == ((left + above + 1) \div 2) + q.delta + 52 + (2 * more)
    IN  [q EXCEPT !.group = <<gx, gy>>, !.previous = prev,
                  !.current = Rem(sum, 52 + more) - more]

\* Mutant of GroupReset: the last delta goes on.
GroupKeepsDelta(q) == [q EXCEPT !.coded = FALSE]

\* What a new group forgets: is_cu_qp_delta_coded and cu_qp_delta.
GroupReset(q) == [q EXCEPT !.coded = FALSE, !.delta = 0]

-----------------------------------------------------------------------------
(* Intra modes.                                                            *)

\* fill_mpm_candidates: three different modes from those of two neighbours.
MpmCandidates(a, b) ==
    IF a # b
    THEN <<a, b, IF a # 0 /\ b # 0 THEN 0 ELSE IF a # Dc /\ b # Dc THEN Dc ELSE 26>>
    ELSE IF a < 2 THEN <<0, Dc, 26>>
    ELSE <<a, 2 + ((a + 29) % 32), 2 + ((a - 1) % 32)>>

\* map_rem_mode_to_intra: the candidates are passed over, smallest first.
RemainingMode(rem, mpm) ==
    LET Past(m, rank) ==
            LET c == CHOOSE v \in {mpm[1], mpm[2], mpm[3]} :
                         Cardinality({u \in {mpm[1], mpm[2], mpm[3]} : u < v}) = rank
            IN  IF m >= c THEN m + 1 ELSE m
    IN  Past(Past(Past(rem, 0), 1), 2)

LeftMode(x, y) == IF x = 0 THEN Dc ELSE LumaModeAt(x - 1, y)

\* Mutant of AboveMode: the row of CTBs above is looked at too.
AboveModeAcrossRows(x, y) == IF y = 0 THEN Dc ELSE LumaModeAt(x, y - 1)

AboveMode(x, y) == IF y % CtbSize = 0 THEN Dc ELSE LumaModeAt(x, y - 1)

\* prev_intra_luma_pred_flag with mpm_idx, or rem_intra_luma_pred_mode.
LumaSyntax == IF "modes" \in pic.free
              THEN {<<"mpm", 0>>, <<"mpm", 2>>, <<"rem", 9>>, <<"rem", 31>>}
              ELSE {<<"mpm", 0>>}

DeriveIntraLumaMode(x, y, syntax) ==
    LET mpm == MpmCandidates(LeftMode(x, y), AboveMode(x, y))
    IN  IF syntax[1] = "mpm" THEN mpm[syntax[2] + 1]
        ELSE RemainingMode(syntax[2], mpm)

Map422 == <<0, 1, 2, 2, 2, 2, 3, 5, 7, 8, 10, 12, 13, 15, 17, 18, 19, 20, 21,
            22, 23, 23, 24, 24, 25, 25, 26, 27, 27, 28, 28, 29, 29, 30, 31>>

\* intra_chroma_pred_mode: 4 is the luma mode.
ChromaSyntax == IF "modes" \in pic.free THEN {1, 4} ELSE {4}

DecodeIntraChromaMode(luma, syntax) ==
    LET candidate == <<0, 26, 10, Dc>>[syntax + 1]
        mode == IF syntax = 4 THEN luma
                ELSE IF candidate = luma THEN 34 ELSE candidate
    IN  IF pic.chroma = 0 THEN luma
        ELSE IF pic.chroma = 2 THEN Map422[mode + 1] ELSE mode

-----------------------------------------------------------------------------
(* The samples a block is predicted from: 4 n + 1 units around it, those   *)
(* to the left from the bottom, -2 n .. -1, the corner, 0, and those above *)
(* from the left, 1 .. 2 n.  Each is the position of a decoded sample, or  *)
(* none for the default value.                                             *)

None == << >>

\* Mutant of TopCount: what is above is read past the right edge.
TopCountUnclipped(c, x, n) == 2 * n

\* fill_border_samples: how many units above and to the left are in the
\* picture.
TopCount(c, x, n) == Smaller(2 * n, Width(c) - x)
LeftCount(c, y, n) == Smaller(2 * n, Height(c) - y)

\* Whether the sample that is at an index of the plane has been decoded, for
\* a position in the window of lines kept.
Decoded(c, x, y) == (y - PlaneOrigin(c)) * Width(c) + x \in planes[c]

\* The samples found, by their place around the block.
FillBorder(c, x, y, n) ==
    LET hasLeft == x > 0
        hasTop == y > PlaneOrigin(c)
        corners == << <<x - 1, y - 1>>, <<x, y - 1>>, <<x - 1, y>> >>
        tried == {k \in 1 .. 3 :
                     /\ k \in {1, 3} => hasLeft
                     /\ k \in {1, 2} => hasTop
                     /\ Decoded(c, corners[k][1], corners[k][2])}
        At(i) ==
            IF i = 0
            THEN IF tried = {} THEN None
                 ELSE corners[CHOOSE k \in tried : \A j \in tried : k <= j]
            ELSE IF i > 0
            THEN IF hasTop /\ i <= TopCount(c, x, n) /\ Decoded(c, x + i - 1, y - 1)
                 THEN <<x + i - 1, y - 1>> ELSE None
            ELSE IF hasLeft /\ -i <= LeftCount(c, y, n) /\ Decoded(c, x - 1, y - i - 1)
            THEN <<x - 1, y - i - 1>> ELSE None
    IN  [i \in -2 * n .. 2 * n |-> At(i)]

\* reference_sample_substitution: a sample that is missing is that of the
\* place before it, the first is the first one there is.
SubstituteReferences(border) ==
    LET there == {i \in DOMAIN border : border[i] # None}
        Before(i) == {j \in there : j <= i}
        Nearest(i) ==
            IF Before(i) # {} THEN CHOOSE j \in Before(i) : \A k \in Before(i) : k <= j
            ELSE CHOOSE j \in there : \A k \in there : j <= k
    IN  [i \in DOMAIN border |-> IF there = {} THEN None ELSE border[Nearest(i)]]

-----------------------------------------------------------------------------
(* Sample adaptive offset (SAO) parameters.                                *)

SaoRows == IF pic.rows /\ 2 * CtbSize < pic.h THEN 3 ELSE HeightInCtbs
SaoIndex(x, y) == (y % SaoRows) * WidthInCtbs + x

NoOffsets == [k \in 0 .. 3 |-> 0]
NoSao == [c \in 0 .. 2 |-> [type |-> 0, offsets |-> NoOffsets, class |-> 0, band |-> 0]]

\* i8, as two's complement.
Byte(v) == ((v + 128) % 256) - 128

\* What decode_sao stores of a component: an offset that is not zero has a
\* sign with bands only.
SaoComponent(syntax, type, class) ==
    [type |-> type,
     offsets |-> IF type = 0 THEN NoOffsets
                 ELSE [k \in 0 .. 3 |-> Byte(syntax.offsets[k] * Pow(pic.sao.scale))],
     class |-> IF type = 2 THEN class ELSE 0,
     band |-> IF type = 1 THEN syntax.at ELSE 0]

\* Mutant of SaoCoded: the class is stored where it is read, for Cb.
ClassOfCbOnly(luma, cb, cr) ==
    [NoSao EXCEPT
        ![0] = IF pic.sao.luma THEN SaoComponent(luma, luma.type, luma.at) ELSE @,
        ![1] = IF pic.sao.chroma /\ pic.chroma # 0
               THEN SaoComponent(cb, cb.type, cb.at) ELSE @,
        ![2] = IF pic.sao.chroma /\ pic.chroma # 0
               THEN SaoComponent(cr, cb.type, 0) ELSE @]

\* The parameters of a CTB that are not merged: Cr has the type and the
\* class of Cb, and its own offsets and band.
SaoCoded(luma, cb, cr) ==
    [NoSao EXCEPT
        ![0] = IF pic.sao.luma THEN SaoComponent(luma, luma.type, luma.at) ELSE @,
        ![1] = IF pic.sao.chroma /\ pic.chroma # 0
               THEN SaoComponent(cb, cb.type, cb.at) ELSE @,
        ![2] = IF pic.sao.chroma /\ pic.chroma # 0
               THEN SaoComponent(cr, cb.type, cb.at) ELSE @]

-----------------------------------------------------------------------------
(* The start of a slice: with_cabac.                                       *)

InitFor(p) ==
    /\ pic = p
    /\ pc = "ctu"
    /\ ctb = <<0, 0>>
    /\ stack = << >>
    /\ origin = 0
    /\ planes = [c \in Components |-> {}]
    /\ depthMap = Filled(DivCeil(pic.w, CbUnit), DivCeil(Kept, CbUnit), NoDepth)
    /\ lumaModes = Filled(DivCeil(pic.w, PuUnit), DivCeil(Kept, PuUnit), Dc)
    /\ chromaModes = lumaModes
    /\ qpMap = Filled(pic.w, Kept, pic.qp)
    /\ deblock = [qp |-> Filled(pic.w, Kept, 0),
                  vert |-> {}, horiz |-> {}, bypass |-> {}]
    /\ qp = [current |-> pic.qp, previous |-> pic.qp, group |-> <<-1, -1>>,
             coded |-> FALSE, delta |-> 0]
    /\ cu = [x |-> 0, y |-> 0, log2 |-> 0, nxn |-> FALSE, chroma |-> Dc]
    /\ entropy = [ctx |-> << >>, saved |-> << >>, substream |-> 0, start |-> << >>]
    /\ saoMap = [i \in 0 .. SaoRows * WidthInCtbs - 1 |-> NoSao]
    /\ log = [units |-> << >>, sao |-> << >>]
    /\ seen = Nothing

-----------------------------------------------------------------------------
(* A coding tree unit (CTU).                                               *)

\* What decode_sao may find for the CTB: parameters of its own, or a merge.
SaoSyntax ==
    pic.sao.coded
    \cup {f \in {[from |-> "left"], [from |-> "up"]} :
             /\ f.from = "left" => ctb[1] > 0
             /\ f.from = "up" => ctb[2] > 0}

DecodeSao(f) ==
    CASE f.from = "left" -> saoMap[SaoIndex(ctb[1] - 1, ctb[2])]
      [] f.from = "up" -> saoMap[SaoIndex(ctb[1], ctb[2] - 1)]
      [] OTHER -> SaoCoded(f.luma, f.cb, f.cr)

\* The contexts a CTU starts with: in a wavefront those saved of the row
\* above, unless the picture is one CTB wide.
Restored ==
    IF pic.wpp /\ ctb[1] = 0 /\ ctb[2] > 0 /\ WidthInCtbs > 1 /\ entropy.saved # << >>
    THEN entropy.saved[1] ELSE entropy.ctx

\* decode_row in front of the first CTB of a row: all arrays are shifted to
\* keep the row above.
RowOrigin == IF pic.rows /\ ctb[1] = 0 THEN Larger(ctb[2] - 1, 0) * CtbSize ELSE origin

ShiftArrays ==
    LET lines == RowOrigin - origin
        flat(unit) == (lines \div unit) * DivCeil(pic.w, unit)
    IN  /\ origin' = RowOrigin
        /\ depthMap' = Shifted(depthMap, flat(CbUnit), NoDepth)
        /\ lumaModes' = Shifted(lumaModes, flat(PuUnit), Dc)
        /\ chromaModes' = Shifted(chromaModes, flat(PuUnit), Dc)
        /\ qpMap' = Shifted(qpMap, flat(1), pic.qp)
        /\ planes' = [c \in Components |->
                         ShiftedSet(planes[c], (lines \div SubY(c)) * Width(c))]
        /\ deblock' = [qp |-> Shifted(deblock.qp, flat(1), 0),
                       vert |-> ShiftedSet(deblock.vert, flat(1)),
                       horiz |-> ShiftedSet(deblock.horiz, flat(1)),
                       bypass |-> ShiftedSet(deblock.bypass, flat(1))]

\* The start of a turn of decode_slice or decode_row, and decode_ctu.
StartCtu ==
    /\ pc = "ctu"
    /\ pc' = "tree"
    /\ ShiftArrays
    /\ LET at == SaoIndex(ctb[1], ctb[2])
           cleared == IF pic.rows THEN [saoMap EXCEPT ![at] = NoSao] ELSE saoMap
       IN  IF pic.sao.luma \/ pic.sao.chroma
           THEN \E f \in SaoSyntax :
                   /\ saoMap' = [cleared EXCEPT ![at] = DecodeSao(f)]
                   /\ log' = [log EXCEPT !.sao = Append(@, f)]
           ELSE /\ saoMap' = cleared
                /\ UNCHANGED log
    /\ stack' = <<[kind |-> "quadtree", x |-> ctb[1] * CtbSize, y |-> ctb[2] * CtbSize,
                   log2 |-> pic.ctb, depth |-> 0]>>
    /\ qp' = IF pic.delta THEN GroupReset(qp) ELSE qp
    /\ entropy' = [entropy EXCEPT
                      !.ctx = Append(Restored, Address(ctb[1], ctb[2])),
                      !.start = <<Restored, entropy.substream>>]
    /\ seen' = Nothing
    /\ UNCHANGED <<pic, ctb, cu>>

-----------------------------------------------------------------------------
(* The coding quadtree.                                                    *)

InTree(kind) == pc = "tree" /\ stack # << >> /\ Top.kind = kind

Fits(node) == /\ node.x + Pow(node.log2) <= pic.w
              /\ node.y + Pow(node.log2) <= pic.h

\* split_cu_flag: coded, or implied by the edges of the picture.
SplitFlags(node) ==
    IF Fits(node) /\ node.log2 > pic.cb THEN Flag("split") ELSE {node.log2 > pic.cb}

\* decode_split_cu_flag: the depths to the left and above that its context
\* depends on.
SplitLookups(node) ==
    IF ~Fits(node) \/ node.log2 = pic.cb THEN {}
    ELSE {<<"depth", n[1], n[2], DepthAt(n[1], n[2])>> :
             n \in {m \in {<<node.x - 1, node.y>>, <<node.x, node.y - 1>>} :
                       m[1] >= 0 /\ m[2] >= 0}}

\* A quantization group starts at a block of its size, or a larger one.
AtGroup(node) ==
    IF pic.delta /\ node.log2 >= pic.ctb - pic.qgDepth THEN GroupReset(qp) ELSE qp

Quarters(node) ==
    LET half == Pow(node.log2 - 1)
        At(dx, dy) == [node EXCEPT !.x = @ + dx, !.y = @ + dy,
                                   !.log2 = @ - 1, !.depth = @ + 1]
    IN  <<At(0, 0), At(half, 0), At(0, half), At(half, half)>>

SplitQuadtree ==
    /\ InTree("quadtree")
    /\ TRUE \in SplitFlags(Top)
    /\ LET Inside(node) == node.x < pic.w /\ node.y < pic.h
       IN  stack' = SelectSeq(Quarters(Top), Inside) \o Tail(stack)
    /\ qp' = AtGroup(Top)
    /\ seen' = [Nothing EXCEPT !.looked = SplitLookups(Top)]
    /\ UNCHANGED <<pic, pc, ctb, origin, planes, mapVars, deblock, cu, entropy, saoMap, log>>

-----------------------------------------------------------------------------
(* Coding units.                                                           *)

\* The prediction units of a coding unit, one or, with PART_NxN, four.
Units(kind, node, nxn) ==
    LET n == Pow(node.log2)
        Unit(i, dx, dy, size) == [kind |-> kind, x |-> node.x + dx, y |-> node.y + dy,
                                  n |-> size, of |-> i]
    IN  IF nxn
        THEN <<Unit(1, 0, 0, n \div 2), Unit(2, n \div 2, 0, n \div 2),
               Unit(3, 0, n \div 2, n \div 2), Unit(4, n \div 2, n \div 2, n \div 2)>>
        ELSE <<Unit(1, 0, 0, n)>>

\* decode_coding_unit as far as its part mode.  The luma modes follow, each
\* stored in front of the next, then the chroma modes and the transform
\* tree.
DecodeCodingUnit ==
    /\ InTree("quadtree")
    /\ FALSE \in SplitFlags(Top)
    /\ \E nxn \in (IF Top.log2 = pic.cb THEN Flag("nxn") ELSE {FALSE}),
          bypass \in Flag("bypass") :
          LET x == Top.x
              y == Top.y
              n == Pow(Top.log2)
              q == DecodeQuantizationParameters(AtGroup(Top), x, y)
          IN  /\ qp' = q
              /\ qpMap' = StoredBlock(qpMap, 1, x, y, n, q.current)
              /\ depthMap' = StoredBlock(depthMap, CbUnit, x, y, n, Top.depth)
              /\ deblock' = IF bypass
                            THEN [deblock EXCEPT !.bypass =
                                     @ \cup Square(x, y - origin, n, pic.w, Kept)]
                            ELSE deblock
              /\ cu' = [x |-> x, y |-> y, log2 |-> Top.log2, nxn |-> nxn, chroma |-> Dc]
              /\ log' = [log EXCEPT !.units =
                            Append(@, [x |-> x, y |-> y, n |-> n, depth |-> Top.depth,
                                       qp |-> q.current, coded |-> << >>,
                                       residual |-> FALSE, bypass |-> bypass,
                                       luma |-> << >>, chroma |-> << >>, blocks |-> {}])]
              /\ stack' = Units("luma mode", Top, nxn)
                          \o Units("chroma mode", Top, nxn /\ pic.chroma = 3)
                          \o <<[kind |-> "transform", x |-> x, y |-> y, log2 |-> Top.log2,
                                depth |-> 0, cb |-> 1, cr |-> 1]>>
                          \o Tail(stack)
    /\ seen' = [Nothing EXCEPT !.looked = SplitLookups(Top)]
    /\ UNCHANGED <<pic, pc, ctb, origin, planes, lumaModes, chromaModes, entropy, saoMap>>

LastUnit == log.units[Len(log.units)]

NoteUnit(entry) == log' = [log EXCEPT !.units[Len(log.units)] = entry]

\* derive_intra_luma_mode and store_intra_mode.
DecodeLumaMode ==
    /\ InTree("luma mode")
    /\ \E syntax \in LumaSyntax :
          LET x == Top.x
              y == Top.y
              mode == DeriveIntraLumaMode(x, y, syntax)
          IN  /\ lumaModes' = StoredBlock(lumaModes, PuUnit, x, y, Top.n, mode)
              /\ NoteUnit([LastUnit EXCEPT !.luma =
                     Append(@, [x |-> x, y |-> y, n |-> Top.n, mode |-> mode])])
              /\ seen' = [Nothing EXCEPT
                             !.looked = {<<"left", x, y, LeftMode(x, y)>>,
                                         <<"above", x, y, AboveMode(x, y)>>},
                             !.mode = <<syntax, LeftMode(x, y), AboveMode(x, y), mode>>]
    /\ stack' = Tail(stack)
    /\ UNCHANGED <<pic, pc, ctb, origin, planes, depthMap, chromaModes, qpMap, deblock,
                   qp, cu, entropy, saoMap>>

\* decode_intra_chroma_mode and store_intra_chroma_mode; the transform tree
\* is given the first one.
DecodeChromaMode ==
    /\ InTree("chroma mode")
    /\ \E syntax \in ChromaSyntax :
          LET mode == DecodeIntraChromaMode(LastUnit.luma[Top.of].mode, syntax)
          IN  /\ chromaModes' = StoredBlock(chromaModes, PuUnit, Top.x, Top.y, Top.n, mode)
              /\ cu' = IF Top.of = 1 THEN [cu EXCEPT !.chroma = mode] ELSE cu
              /\ NoteUnit([LastUnit EXCEPT !.chroma =
                     Append(@, [x |-> Top.x, y |-> Top.y, n |-> Top.n, mode |-> mode])])
    /\ stack' = Tail(stack)
    /\ seen' = Nothing
    /\ UNCHANGED <<pic, pc, ctb, origin, planes, depthMap, lumaModes, qpMap, deblock, qp,
                   entropy, saoMap>>

-----------------------------------------------------------------------------
(* The transform tree.                                                     *)

\* split_transform_flag: coded, or implied by the sizes and PART_NxN.
TransformSplitFlags(node) ==
    LET implied == node.log2 > pic.maxTb \/ (cu.nxn /\ node.depth = 0)
        deepest == pic.hierarchy + IF cu.nxn THEN 1 ELSE 0
    IN  IF ~implied /\ node.log2 > 0 /\ node.depth < deepest
        THEN Flag("split transform") ELSE {implied}

\* cbf_cb or cbf_cr, one bit or in 4:2:2 two: the smallest blocks of a
\* subsampled picture have that of the block they are split from.
CodedChroma(node, parent, split) ==
    LET two == pic.chroma = 2 /\ (~split \/ node.log2 = 1)
        bits == Bits("chroma residual")
    IN  IF pic.chroma = 3 \/ (pic.chroma # 0 /\ node.log2 > 0)
        THEN IF parent = 0 THEN {0}
             ELSE {b + (2 * e) : b \in bits, e \in IF two THEN bits ELSE {0}}
        ELSE IF node.depth > 0 /\ node.log2 = 0 THEN {parent} ELSE {0}

Block(c, x, y, n) == [kind |-> "block", c |-> c, x |-> x, y |-> y, n |-> n]

\* The chroma blocks of a luma block: decode_split_subsampled_chroma for one
\* split into smallest blocks, decode_leaf_chroma for another.
ChromaBlocks(x, y, n) ==
    LET Of(c) == CASE pic.chroma = 1 -> <<Block(c, x \div 2, y \div 2, n \div 2)>>
                   [] pic.chroma = 2 -> <<Block(c, x \div 2, y, n \div 2),
                                          Block(c, x \div 2, y + (n \div 2), n \div 2)>>
                   [] pic.chroma = 3 -> <<Block(c, x, y, n)>>
                   [] OTHER -> << >>
    IN  Of(1) \o Of(2)

LeafChroma(node) ==
    IF pic.chroma = 3 \/ node.log2 > 0 THEN ChromaBlocks(node.x, node.y, Pow(node.log2))
    ELSE << >>

SplitChroma(node) ==
    IF pic.chroma \in {1, 2} /\ node.log2 = 1 THEN ChromaBlocks(node.x, node.y, 2)
    ELSE << >>

\* decode_transform_tree_inner: four trees, and the chroma that they are too
\* small for.
SplitTransform ==
    /\ InTree("transform")
    /\ TRUE \in TransformSplitFlags(Top)
    /\ \E cb \in CodedChroma(Top, Top.cb, TRUE), cr \in CodedChroma(Top, Top.cr, TRUE) :
          stack' = Quarters([Top EXCEPT !.cb = cb, !.cr = cr])
                   \o SplitChroma(Top) \o Tail(stack)
    /\ seen' = Nothing
    /\ UNCHANGED <<pic, pc, ctb, origin, planes, mapVars, deblock, qp, cu, entropy, saoMap, log>>

\* mark_tu_boundary: the left edge, unless it is that of the picture, and the
\* upper one.
MarkBoundary(flags, x, y, n) ==
    LET units == Square(x, y - origin, n, pic.w, Kept)
    IN  [flags EXCEPT
            !.vert = @ \cup {i \in units : x > 0 /\ i % pic.w = x},
            !.horiz = @ \cup {i \in units : y > 0 /\ i \div pic.w = y - origin}]

\* store_block_qp.
Stamped(map, at, n, value) ==
    Stored(map, Square(at.x, at.y - origin, n, pic.w, Kept), value)

\* Mutant of Restamped: blocks decoded before the delta keep their QP.
NotRestamped(map, value) == map

\* The QP of a delta goes for the whole coding unit.
Restamped(map, value) == Stamped(map, cu, Pow(cu.log2), value)

\* decode_transform_unit_leaf: the first residual of a quantization group
\* has the QP delta, which goes for the whole coding unit.
DecodeTransformUnit ==
    /\ InTree("transform")
    /\ FALSE \in TransformSplitFlags(Top)
    /\ \E cb \in CodedChroma(Top, Top.cb, FALSE), cr \in CodedChroma(Top, Top.cr, FALSE),
          luma \in Bits("luma residual") :
          LET residual == luma + cb + cr > 0
              codes == residual /\ pic.delta /\ ~qp.coded
              x == Top.x
              y == Top.y
              n == Pow(Top.log2)
          IN  \E d \in IF codes THEN pic.deltas ELSE {0} :
                LET q == IF codes
                         THEN DecodeQuantizationParameters(
                                  [qp EXCEPT !.coded = TRUE, !.delta = d], cu.x, cu.y)
                         ELSE qp
                    unit == IF codes THEN Restamped(deblock.qp, q.current) ELSE deblock.qp
                IN  /\ qp' = q
                    /\ qpMap' = IF codes
                                THEN StoredBlock(qpMap, 1, cu.x, cu.y, Pow(cu.log2), q.current)
                                ELSE qpMap
                    /\ deblock' = [MarkBoundary(deblock, x, y, n) EXCEPT
                                      !.qp = Stamped(unit, Top, n, q.current)]
                    /\ NoteUnit([LastUnit EXCEPT
                           !.qp = q.current,
                           !.coded = IF codes THEN Append(@, d) ELSE @,
                           !.residual = @ \/ residual,
                           !.blocks = @ \cup {[x |-> x, y |-> y, n |-> n]}])
    /\ stack' = <<Block(0, Top.x, Top.y, Pow(Top.log2))>> \o LeafChroma(Top) \o Tail(stack)
    /\ seen' = Nothing
    /\ UNCHANGED <<pic, pc, ctb, origin, planes, depthMap, lumaModes, chromaModes, cu,
                   entropy, saoMap>>

\* The mode a block is predicted with: luma has that of the map, chroma that
\* of the map with 4:4:4 and otherwise that of the coding unit.
BlockMode(b) ==
    IF b.c = 0 THEN LumaModeAt(b.x, b.y)
    ELSE IF pic.chroma = 3 THEN ChromaModeAt(b.x, b.y) ELSE cu.chroma

\* predict_intra, and add_residual_to_plane, which leaves decoded samples.
PredictBlock ==
    /\ InTree("block")
    /\ LET c == Top.c
           square == Square(Top.x, Top.y - PlaneOrigin(c), Top.n, Width(c), Kept \div SubY(c))
       IN  /\ planes' = [planes EXCEPT ![c] = @ \cup square]
           /\ seen' = [Nothing EXCEPT
                          !.looked = {<<IF c = 0 THEN "luma" ELSE "chroma",
                                        Top.x * SubX(c), Top.y * SubY(c), BlockMode(Top)>>},
                          !.border = <<Top, square \cap planes[c],
                                       SubstituteReferences(
                                           FillBorder(c, Top.x, Top.y, Top.n))>>]
    /\ stack' = Tail(stack)
    /\ UNCHANGED <<pic, pc, ctb, origin, mapVars, deblock, qp, cu, entropy, saoMap, log>>

-----------------------------------------------------------------------------
(* After a CTU.                                                            *)

AtEnd == pc = "tree" /\ stack = << >>

\* end_of_slice_segment_flag.
EndOfSlice == pic.last = Address(ctb[1], ctb[2])

Following == IF ctb[1] + 1 < WidthInCtbs THEN <<ctb[1] + 1, ctb[2]>> ELSE <<0, ctb[2] + 1>>

IsLast == Following = <<0, HeightInCtbs>>

\* decode_slice in front of a row of a wavefront: the reader goes to the
\* entry point, if there is one, or on to the next byte.  Contexts start
\* anew when there are none to be restored.
NextRow(e) ==
    [e EXCEPT !.substream = IF ctb[2] + 1 <= Len(pic.entries)
                            THEN pic.entries[ctb[2] + 1] ELSE @ + 1,
              !.ctx = IF WidthInCtbs = 1 THEN << >> ELSE @]

\* Mutant of Snapshot: it is taken after the first CTU.
SnapshotTooEarly(e) ==
    IF pic.wpp /\ ctb[1] = 0 /\ ctb[2] < HeightInCtbs - 1
    THEN [e EXCEPT !.saved = <<e.ctx>>] ELSE e

\* The contexts after the second CTU of a row are kept for the next.
Snapshot(e) ==
    IF pic.wpp /\ ctb[1] = 1 /\ ctb[2] < HeightInCtbs - 1
    THEN [e EXCEPT !.saved = <<e.ctx>>] ELSE e

\* Entry points beyond the slice data.
Beyond == -1

\* The rest of a turn of decode_slice.
EndCtuOfSlice ==
    /\ AtEnd
    /\ ~pic.rows
    /\ LET e == Snapshot(entropy)
           turns == pic.wpp /\ ctb[1] + 1 = WidthInCtbs
           next == IF turns THEN NextRow(e) ELSE e
       IN  IF EndOfSlice
           THEN /\ pc' = IF IsLast THEN "done" ELSE "failed"
                /\ entropy' = e
                /\ UNCHANGED ctb
           ELSE /\ ctb' = Following
                /\ entropy' = next
                /\ pc' = IF turns /\ next.substream = Beyond THEN "failed"
                         ELSE IF IsLast THEN "done" ELSE "ctu"
    /\ seen' = Nothing
    /\ UNCHANGED <<pic, stack, origin, planes, mapVars, deblock, qp, cu, saoMap, log>>

\* The rest of a turn of decode_row: the slice ends with the picture.
EndCtuOfRow ==
    /\ AtEnd
    /\ pic.rows
    /\ pc' = IF EndOfSlice # IsLast THEN "failed" ELSE IF IsLast THEN "done" ELSE "ctu"
    /\ ctb' = Following
    /\ seen' = Nothing
    /\ UNCHANGED <<pic, stack, origin, planes, mapVars, deblock, qp, cu, entropy, saoMap, log>>

Next ==
    \/ StartCtu
    \/ SplitQuadtree
    \/ DecodeCodingUnit
    \/ DecodeLumaMode
    \/ DecodeChromaMode
    \/ SplitTransform
    \/ DecodeTransformUnit
    \/ PredictBlock
    \/ EndCtuOfSlice
    \/ EndCtuOfRow

=============================================================================
