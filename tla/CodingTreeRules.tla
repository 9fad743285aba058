--------------------------- MODULE CodingTreeRules ---------------------------
(***************************************************************************)
(* What decoding the coding trees must come to, whatever arrays and drivers *)
(* it uses, stated over the coding units decoded so far (the ghost log) and *)
(* over positions in the picture.                                          *)
(***************************************************************************)
EXTENDS CodingTree

-----------------------------------------------------------------------------
(* The order of decoding.                                                  *)

\* The bits of a number, each moved to twice its place.
Spread == [v \in 0 .. 15 |-> (v % 2) + (4 * ((v \div 2) % 2)) + (16 * ((v \div 4) % 2))
                             + (64 * (v \div 8))]

\* CTBs go in rows; within one, quarters go left to right, then down.
Order(x, y) ==
    (Address(x \div CtbSize, y \div CtbSize) * CtbSize * CtbSize)
        + Spread[x % CtbSize] + (2 * Spread[y % CtbSize])

\* Where a block's border comes from: a place is in the picture and before
\* the block in the order, or it takes what the place before it has, and the
\* first ones what the first place that is there has.
BorderRule(b) ==
    LET c == b.c
        Place(i) == IF i = 0 THEN <<b.x - 1, b.y - 1>>
                    ELSE IF i > 0 THEN <<b.x + i - 1, b.y - 1>>
                    ELSE <<b.x - 1, b.y - i - 1>>
        now == Order(b.x * SubX(c), b.y * SubY(c))
        Available(p) == /\ p[1] \in 0 .. Width(c) - 1
                        /\ p[2] \in 0 .. Height(c) - 1
                        /\ Order(p[1] * SubX(c), p[2] * SubY(c)) < now
        there == {i \in -2 * b.n .. 2 * b.n : Available(Place(i))}
        Source(i) == CHOOSE j \in there :
                         \/ j <= i /\ \A k \in there : k <= i => k <= j
                         \/ \A k \in there : k > i /\ j <= k
    IN  [i \in -2 * b.n .. 2 * b.n |-> IF there = {} THEN None ELSE Place(Source(i))]

\* The part of the picture in the CTB, of a component.
CtbCells(c) ==
    {p \in (0 .. Width(c) - 1) \X (0 .. Height(c) - 1) :
        /\ (p[1] * SubX(c)) \div CtbSize = ctb[1]
        /\ (p[2] * SubY(c)) \div CtbSize = ctb[2]}

Covers(u, x, y) == x \in u.x .. u.x + u.n - 1 /\ y \in u.y .. u.y + u.n - 1

\* Every block is predicted from the samples around it that come before it in
\* the order of decoding, those and no others, though the decoder goes by
\* which samples of a flat array, in the bounded decoder a window that is
\* shifted, are still unset.  No sample is decoded twice, at the end of a CTB
\* all of its samples are decoded, in every chroma format, and a slice that is
\* accepted has decoded every place of the picture.
ReferencesDecoded ==
    /\ seen.border # << >> =>
          /\ seen.border[2] = {}
          /\ seen.border[3] = BorderRule(seen.border[1])
    /\ AtEnd => \A c \in Components : \A p \in CtbCells(c) : Decoded(c, p[1], p[2])
    /\ pc = "done" => \A x \in 0 .. pic.w - 1, y \in 0 .. pic.h - 1 :
                         \E i \in DOMAIN log.units : Covers(log.units[i], x, y)

-----------------------------------------------------------------------------
(* Quantization.                                                           *)

GroupOf(u) == <<InGroup(u.x), InGroup(u.y)>>
InCtb(x, y) == x >= 0 /\ y >= 0 /\ <<x \div CtbSize, y \div CtbSize>> = ctb

UnitsOfCtb == {i \in DOMAIN log.units : InCtb(log.units[i].x, log.units[i].y)}

\* The QP that coding unit i must have: predicted from the units to the left
\* and above of its quantization group, if they are in the CTB, and else from
\* the last unit of the group before, changed by the delta coded in its group
\* up to the unit.
QpRule(i) ==
    LET units == log.units
        g == GroupOf(units[i])
        before == {j \in 1 .. i - 1 : GroupOf(units[j]) # g}
        previous == IF before = {} \/ (pic.wpp /\ g[1] = 0 /\ g[2] % CtbSize = 0)
                    THEN pic.qp
                    ELSE units[CHOOSE j \in before : \A k \in before : k <= j].qp
        At(x, y) == IF InCtb(x, y)
                    THEN units[CHOOSE j \in 1 .. i - 1 : Covers(units[j], x, y)].qp
                    ELSE previous
        deltas == {j \in 1 .. i : GroupOf(units[j]) = g /\ units[j].coded # << >>}
        delta == IF deltas = {} THEN 0
                 ELSE units[CHOOSE j \in deltas : \A k \in deltas : k <= j].coded[1]
        more == 6 * (pic.bits - 8)
        sum == ((At(g[1] - 1, g[2]) + At(g[1], g[2] - 1) + 1) \div 2) + delta
    IN  CHOOSE v \in -more .. 51 : (v - sum) % (52 + more) = 0

\* The QP of every coding unit is the one that its neighbours, the unit before
\* its group and the one delta of its group give: the decoder has a record
\* that units, groups and deltas change one after the other.  A group with a
\* residual has one delta, at the first unit with one.
QpAgrees ==
    AtEnd =>
        \A i \in UnitsOfCtb :
            LET u == log.units[i]
                first == \A j \in UnitsOfCtb :
                            j < i /\ GroupOf(log.units[j]) = GroupOf(u) => ~log.units[j].residual
            IN  /\ u.qp = QpRule(i)
                /\ Len(u.coded) = IF pic.delta /\ u.residual /\ first THEN 1 ELSE 0

\* What the deblocking filter is given of a CTB is what was decoded: the QP of
\* the coding unit even where a delta came after the first of its blocks, the
\* edges of transform blocks but those of the picture, the units that bypass
\* the transform.
DeblockingAgrees ==
    AtEnd =>
        \A i \in UnitsOfCtb :
            LET u == log.units[i]
            IN  \A x \in u.x .. u.x + u.n - 1, y \in u.y .. u.y + u.n - 1 :
                    LET at == (y - origin) * pic.w + x
                    IN  /\ deblock.qp[at] = u.qp
                        /\ at \in deblock.bypass <=> u.bypass
                        /\ at \in deblock.vert <=>
                              x > 0 /\ \E b \in u.blocks : b.x = x /\ Covers(b, x, y)
                        /\ at \in deblock.horiz <=>
                              y > 0 /\ \E b \in u.blocks : b.y = y /\ Covers(b, x, y)

-----------------------------------------------------------------------------
(* What is looked up of neighbours.                                        *)

UnitAt(x, y) == log.units[CHOOSE i \in DOMAIN log.units : Covers(log.units[i], x, y)]

ModeIn(modes, x, y) == modes[CHOOSE k \in DOMAIN modes : Covers(modes[k], x, y)].mode

LookupRule(kind, x, y) ==
    CASE kind = "depth" -> UnitAt(x, y).depth
      [] kind = "luma" -> ModeIn(UnitAt(x, y).luma, x, y)
      [] kind = "chroma" -> ModeIn(UnitAt(x, y).chroma, x, y)
      [] kind = "left" -> IF x = 0 THEN Dc ELSE ModeIn(UnitAt(x - 1, y).luma, x - 1, y)
      [] kind = "above" ->
            IF y % CtbSize = 0 THEN Dc ELSE ModeIn(UnitAt(x, y - 1).luma, x, y - 1)

\* Every depth and intra mode found in the maps is that of the unit decoded at
\* the place meant, or DC to the left of the picture and above the row of CTBs;
\* and a mode coded as a remainder is the one of that rank among the modes that
\* are not candidates.
NeighboursAgree ==
    /\ \A l \in seen.looked : l[4] = LookupRule(l[1], l[2], l[3])
    /\ seen.mode # << >> =>
          LET mpm == MpmCandidates(seen.mode[2], seen.mode[3])
              candidates == {mpm[1], mpm[2], mpm[3]}
              mode == seen.mode[4]
          IN  /\ Cardinality(candidates) = 3
              /\ seen.mode[1][1] = "rem" =>
                    /\ mode \in 0 .. 34 \ candidates
                    /\ Cardinality({m \in 0 .. mode - 1 : m \notin candidates})
                          = seen.mode[1][2]

-----------------------------------------------------------------------------
(* The entropy decoder.                                                    *)

\* The CTUs whose symbols the context models have adapted to at the start of
\* a CTU: all those before it, or in a wavefront those before it in its row
\* and the first two of every row above, if there is a second.
ContextRule(x, y) ==
    LET w == WidthInCtbs
        pairs == [k \in 1 .. 2 * y |-> (((k - 1) \div 2) * w) + ((k - 1) % 2)]
        row == [k \in 1 .. x |-> Address(k - 1, y)]
    IN  IF ~pic.wpp THEN [k \in 1 .. Address(x, y) |-> k - 1]
        ELSE IF w = 1 THEN << >> ELSE pairs \o row

\* Every CTU is decoded from the substream and with the context models that
\* the encoder had for it: the reader goes to the substream of the row by its
\* entry point or, without one, from where the row above has ended.
ContextsSynced ==
    pc = "tree" => entropy.start = <<ContextRule(ctb[1], ctb[2]),
                                     IF pic.wpp THEN ctb[2] ELSE 0>>

-----------------------------------------------------------------------------
(* Sample adaptive offset.                                                 *)

\* The CTB that the parameters of a CTB come from, through merges.
SaoRoot ==
    LET root[i \in DOMAIN log.sao] ==
            CASE log.sao[i].from = "left" -> root[i - 1]
              [] log.sao[i].from = "up" -> root[i - WidthInCtbs]
              [] OTHER -> i
    IN  root

SaoRule(f, c) ==
    LET own == <<f.luma, f.cb, f.cr>>[c + 1]
        shape == IF c = 0 THEN f.luma ELSE f.cb
        on == IF c = 0 THEN pic.sao.luma ELSE pic.sao.chroma /\ pic.chroma # 0
    IN  IF ~on \/ shape.type = 0 THEN NoSao[c]
        ELSE [type |-> shape.type,
              offsets |-> [k \in 0 .. 3 |-> own.offsets[k] * Pow(pic.sao.scale)],
              class |-> IF shape.type = 2 THEN shape.at ELSE 0,
              band |-> IF shape.type = 1 THEN own.at ELSE 0]

\* The parameters kept of every CTB that a filter may still ask for are those
\* coded where its chain of merges starts, their offsets to scale, also when
\* the map is a ring of three rows.
SaoAsCoded ==
    AtEnd /\ log.sao # << >> =>
        LET root == SaoRoot
        IN  \A a \in {b \in DOMAIN log.sao : (b - 1) \div WidthInCtbs > ctb[2] - SaoRows} :
                \A c \in 0 .. 2 :
                    saoMap[SaoIndex((a - 1) % WidthInCtbs, (a - 1) \div WidthInCtbs)][c]
                        = SaoRule(log.sao[root[a]], c)

=============================================================================
