-------------------------- MODULE UncompressedLayout --------------------------
(***************************************************************************)
(* What an uncompressed image (an item of type unci) says of the bits of   *)
(* its samples: components and roles, interleaving, alignment, tiles, and   *)
(* the number of bytes that all of it takes.  An image is a record of the   *)
(* properties ispe, cmpd, uncC, cmpC and icef as they were parsed.          *)
(***************************************************************************)
EXTENDS Integers, FiniteSets, Sequences, SequencesExt

Chroma == {"Cb", "Cr"}
Rgb == {"R", "G", "B"}
YCbCr == {"Y", "Cb", "Cr"}
Channels == {"mono", "A"} \cup Rgb \cup YCbCr

(* The values of cmpd that have a role; any other one is not supported. *)
Roles == Channels \cup {"padded"}

Interleaves == {"component", "pixel", "mixed", "row", "tileComponent", "multiY"}
Profiles == {"rgb3", "rgba", "abgr"}

CeilDiv(a, b) == (a + b - 1) \div b

AlignUp(value, alignment) ==
  IF alignment = 0 THEN value ELSE alignment * CeilDiv(value, alignment)

ToByte(bit) == AlignUp(bit, 8)

Sum(seq) == MapThenSumSet(LAMBDA k : seq[k], DOMAIN seq)

Before(seq, k) == SubSeq(seq, 1, k - 1)

(***************************************************************************)
(* The properties of the item.                                             *)
(***************************************************************************)
(* A frame configuration of version 1 names a known profile; one of version *)
(* 0 has codes in range, and its fields fit the box.                        *)
UncCParses(i) ==
  /\ i.whole["uncC"]
  /\ i.profile \in {"none", "other"} \cup Profiles
  /\ i.profile = "none" =>
       /\ \A k \in 1 .. Len(i.components) :
            i.components[k].format \in {"unsigned", "signed", "float", "complex"}
       /\ i.sampling \in {"444", "422", "420", "411"}
       /\ i.interleave \in Interleaves

CmpdParses(i) == i.whole["cmpd"]

PropertiesResolve(i) ==
  /\ \A kind \in {"ispe", "cmpd", "uncC"} : i.count[kind] <= 1
  /\ i.count["ispe"] = 1
  /\ i.count["uncC"] = 1
  /\ UncCParses(i)
  /\ i.count["cmpd"] = 1 => CmpdParses(i)
  /\ i.profile = "none" => i.count["cmpd"] = 1
  /\ i.width > 0
  /\ i.height > 0
  /\ i.count["cmpd"] = 1 =>
       \A k \in 1 .. Len(i.components) : i.components[k].index <= Len(i.types)

Byte(role) == [role |-> role, depth |-> 8, align |-> 0]

ProfileSpecs(profile) ==
  CASE profile = "rgb3" -> << Byte("R"), Byte("G"), Byte("B") >>
    [] profile = "rgba" -> << Byte("R"), Byte("G"), Byte("B"), Byte("A") >>
    [] profile = "abgr" -> << Byte("A"), Byte("B"), Byte("G"), Byte("R") >>

ComponentsSupported(i) ==
  IF i.profile # "none"
  THEN i.profile \in Profiles
  ELSE \A k \in 1 .. Len(i.components) :
         LET c == i.components[k] IN
         /\ c.format = "unsigned"
         /\ c.depth \in 1 .. 16
         /\ i.types[c.index] \in Roles

Specs(i) ==
  IF i.profile # "none"
  THEN ProfileSpecs(i.profile)
  ELSE [k \in 1 .. Len(i.components) |->
         LET c == i.components[k] IN
         [role |-> i.types[c.index], depth |-> c.depth, align |-> c.align]]

InterleaveType(i) == IF i.profile # "none" THEN "pixel" ELSE i.interleave
Sampling(i) == IF i.profile # "none" THEN "444" ELSE i.sampling

Positions(i, role) == {k \in 1 .. Len(Specs(i)) : Specs(i)[k].role = role}
Count(i, role) == Cardinality(Positions(i, role))
Present(i) == {role \in Channels : Positions(i, role) # {}}
SpecOf(i, role) == Specs(i)[Min(Positions(i, role))]
DepthOf(i, role) == SpecOf(i, role).depth

(* Only the luma samples of a multi-Y group may occur more than once. *)
ChannelMapResolves(i) ==
  \A role \in Present(i) :
    Count(i, role) > 1 =>
      /\ InterleaveType(i) = "multiY"
      /\ role = "Y"
      /\ \A k \in Positions(i, role) : Specs(i)[k].depth = DepthOf(i, role)

(***************************************************************************)
(* Subsampling, tiles and what the decoder supports of them.               *)
(***************************************************************************)
ChromaStep(sampling) ==
  CASE sampling = "444" -> << 1, 1 >>
    [] sampling = "422" -> << 2, 1 >>
    [] sampling = "420" -> << 2, 2 >>

Step(i, role) ==
  IF role \in Chroma THEN ChromaStep(Sampling(i)) ELSE << 1, 1 >>

TileWidth(i) == i.width \div i.cols
TileHeight(i) == i.height \div i.rows
TileCount(i) == i.rows * i.cols

KindSupported(i) ==
  /\ Sampling(i) \in {"444", "422", "420"}
  /\ InterleaveType(i) \in Interleaves
  /\ ~i.blocks
  /\ InterleaveType(i) \notin {"pixel", "multiY"} => i.pixelSize = 0
  /\ Specs(i) # << >>

TilesSupported(i) ==
  /\ i.cols <= i.width
  /\ i.rows <= i.height
  /\ i.width % i.cols = 0
  /\ i.height % i.rows = 0

ColoursSupported(i) ==
  LET present == Present(i) IN
  /\ "mono" \in present => present \cap (Rgb \cup YCbCr) = {}
  /\ present \cap Rgb # {} => present \cap YCbCr = {} /\ Rgb \subseteq present
  /\ present \cap YCbCr # {} => YCbCr \subseteq present
  /\ "mono" \in present \/ Rgb \subseteq present \/ YCbCr \subseteq present

MultiYSupported(i) ==
  InterleaveType(i) = "multiY" =>
    /\ Sampling(i) = "422"
    /\ \A k \in 1 .. Len(Specs(i)) : Specs(i)[k].role \in YCbCr \cup {"padded"}

SamplingSupported(i) ==
  LET step == ChromaStep(Sampling(i)) IN
  Sampling(i) # "444" =>
    /\ YCbCr \subseteq Present(i)
    /\ InterleaveType(i) \in {"component", "mixed", "tileComponent", "multiY"}
    /\ InterleaveType(i) = "mixed" => \A role \in YCbCr : Count(i, role) = 1
    /\ InterleaveType(i) = "multiY" =>
         /\ Count(i, "Y") = step[1] * step[2]
         /\ \A role \in Chroma : Count(i, role) = 1
    /\ TileWidth(i) % step[1] = 0
    /\ TileHeight(i) % step[2] = 0
    /\ i.rowAlign % 2 = 0
    /\ i.tileAlign % (IF Sampling(i) = "422" THEN 2 ELSE 4) = 0

LayoutSupported(i) ==
  /\ ComponentsSupported(i)
  /\ KindSupported(i)
  /\ TilesSupported(i)
  /\ ChannelMapResolves(i)
  /\ ColoursSupported(i)
  /\ MultiYSupported(i)
  /\ SamplingSupported(i)

(***************************************************************************)
(* Sizes, as the decoder computes them before it reads anything.           *)
(***************************************************************************)
MinimumBits(i, specs) ==
  Sum([k \in 1 .. Len(specs) |->
        LET step == IF InterleaveType(i) = "multiY" THEN ChromaStep(Sampling(i))
                    ELSE Step(i, specs[k].role)
        IN CeilDiv(i.width, step[1]) * CeilDiv(i.height, step[2])
             * specs[k].depth])

SampleBits(spec) ==
  IF spec.align = 0 THEN spec.depth
  ELSE 8 * AlignUp(CeilDiv(spec.depth, 8), spec.align)

RowBytes(i, spec) ==
  AlignUp(CeilDiv(SampleBits(spec) * (TileWidth(i) \div Step(i, spec.role)[1]), 8),
          i.rowAlign)

ComponentTileBytes(i, spec, tileAlign) ==
  AlignUp(RowBytes(i, spec) * (TileHeight(i) \div Step(i, spec.role)[2]), tileAlign)

ComponentTileSizes(i, tileAlign) ==
  [k \in 1 .. Len(Specs(i)) |-> ComponentTileBytes(i, Specs(i)[k], tileAlign)]

GroupEndBit(group, startBit) ==
  FoldLeft(LAMBDA bit, spec :
             (IF spec.align # 0 THEN ToByte(bit) ELSE bit) + SampleBits(spec),
           startBit, group)

\* Mutant of GroupRunBits: every group is taken to begin on a byte.
GroupRunBitsOfFirst(group, groups) == GroupEndBit(group, 0) * groups

(* The first group begins on a byte; all later ones begin at one phase. *)
GroupRunBits(group, groups) ==
  IF groups = 0 THEN 0
  ELSE LET first == GroupEndBit(group, 0)
           phase == first % 8
       IN first + (GroupEndBit(group, phase) - phase) * (groups - 1)

GroupRowBytes(i) ==
  LET groups == TileWidth(i) \div ChromaStep(Sampling(i))[1] IN
  AlignUp(IF i.pixelSize = 0 THEN CeilDiv(GroupRunBits(Specs(i), groups), 8)
          ELSE i.pixelSize * groups,
          i.rowAlign)

GroupTileBytes(i) == AlignUp(GroupRowBytes(i) * TileHeight(i), i.tileAlign)

FirstChroma(i) == SelectInSeq(Specs(i), LAMBDA spec : spec.role \in Chroma)

Complementary(i, role) == SpecOf(i, IF role = "Cb" THEN "Cr" ELSE "Cb")

(* What one turn of the loop over the components reads in mixed interleave. *)
MixedGroup(i, k) ==
  LET spec == Specs(i)[k] IN
  IF spec.role \notin Chroma THEN << spec >>
  ELSE IF k = FirstChroma(i) THEN << spec, Complementary(i, spec.role) >>
  ELSE << >>

MixedGroupBytes(i, k) ==
  LET step == Step(i, Specs(i)[k].role) IN
  CeilDiv(GroupRunBits(MixedGroup(i, k), TileWidth(i) \div step[1]), 8)
    * (TileHeight(i) \div step[2])

MixedTileBytes(i) ==
  AlignUp(Sum([k \in 1 .. Len(Specs(i)) |-> MixedGroupBytes(i, k)]), i.tileAlign)

TileBytes(i) ==
  CASE InterleaveType(i) \in {"pixel", "multiY"} -> GroupTileBytes(i)
    [] InterleaveType(i) = "mixed" -> MixedTileBytes(i)
    [] InterleaveType(i) = "tileComponent" -> Sum(ComponentTileSizes(i, i.tileAlign))
    [] OTHER -> AlignUp(Sum(ComponentTileSizes(i, 0)), i.tileAlign)

PayloadBytes(i) == TileBytes(i) * TileCount(i)

(***************************************************************************)
(* Depths.  A sample is widened by repeating its bits; when components     *)
(* differ, all are brought to eight or to sixteen bits.                    *)
(***************************************************************************)
OutputDepth(i) ==
  LET depths == {DepthOf(i, role) : role \in Present(i)} IN
  IF \E d \in depths : depths = {d} THEN CHOOSE d \in depths : TRUE
  ELSE IF \A d \in depths : d <= 8 THEN 8 ELSE 16

(* A number, and n times the same digit after it. *)
Digits(number, digit, base, n) ==
  FoldLeft(LAMBDA a, k : a * base + digit, number, [k \in 1 .. n |-> k])

PowerOfTwo(n) == Digits(1, 0, 2, n)

LargestSample(depth) == PowerOfTwo(depth) - 1

Widened(sample, from, to) ==
  IF from = to THEN sample
  ELSE LET repeats == CeilDiv(to, from)
           expanded == Digits(0, sample, PowerOfTwo(from), repeats)
       IN expanded \div PowerOfTwo(repeats * from - to)

(***************************************************************************)
(* The reference: where the sample of a role for a pixel lies in the        *)
(* payload, as the interval of its bits.                                   *)
(***************************************************************************)
BitsFrom(bit, spec) ==
  << bit + SampleBits(spec) - spec.depth, bit + SampleBits(spec) - 1 >>

Tile(i, x, y) == (y \div TileHeight(i)) * i.cols + x \div TileWidth(i)

InGroup(group, startBit, k) ==
  LET bit == GroupEndBit(Before(group, k), startBit) IN
  BitsFrom(IF group[k].align # 0 THEN ToByte(bit) ELSE bit, group[k])

ComponentAddress(i, k, tile, x, y) ==
  LET spec == Specs(i)[k]
      step == Step(i, spec.role)
      sizes == ComponentTileSizes(i, IF InterleaveType(i) = "tileComponent"
                                     THEN i.tileAlign ELSE 0)
      base == IF InterleaveType(i) = "tileComponent"
              THEN Sum(Before(sizes, k)) * TileCount(i) + sizes[k] * tile
              ELSE TileBytes(i) * tile + Sum(Before(sizes, k))
  IN BitsFrom(8 * (base + RowBytes(i, spec) * (y \div step[2]))
                + SampleBits(spec) * (x \div step[1]), spec)

RowAddress(i, k, tile, x, y) ==
  LET spec == Specs(i)[k]
      rows == [n \in 1 .. Len(Specs(i)) |-> RowBytes(i, Specs(i)[n])]
  IN BitsFrom(8 * (TileBytes(i) * tile + Sum(rows) * y + Sum(Before(rows, k)))
                + SampleBits(spec) * x, spec)

GroupAddress(i, k, tile, x, y) ==
  LET column == x \div ChromaStep(Sampling(i))[1]
      row == 8 * (TileBytes(i) * tile + GroupRowBytes(i) * y)
  IN InGroup(Specs(i),
             row + (IF i.pixelSize = 0 THEN GroupRunBits(Specs(i), column)
                    ELSE 8 * i.pixelSize * column), k)

MixedAddress(i, k, tile, x, y) ==
  LET spec == Specs(i)[k]
      turn == IF spec.role \in Chroma THEN FirstChroma(i) ELSE k
      group == MixedGroup(i, turn)
      step == Step(i, spec.role)
      rowBytes == CeilDiv(GroupRunBits(group, TileWidth(i) \div step[1]), 8)
      before == Sum([n \in 1 .. turn - 1 |-> MixedGroupBytes(i, n)])
      row == 8 * (TileBytes(i) * tile + before + rowBytes * (y \div step[2]))
  IN InGroup(group, row + GroupRunBits(group, x \div step[1]),
             IF k = turn THEN 1 ELSE 2)

(* Of several luma components the n-th belongs to the n-th pixel of a group. *)
ComponentFor(i, role, x) ==
  LET nth == IF role = "Y" THEN x % Count(i, "Y") ELSE 0
  IN CHOOSE k \in Positions(i, role) :
       Cardinality({n \in Positions(i, role) : n < k}) = nth

Address(i, role, x, y) ==
  LET k == ComponentFor(i, role, x)
      tile == Tile(i, x, y)
      u == x % TileWidth(i)
      v == y % TileHeight(i)
  IN CASE InterleaveType(i) \in {"component", "tileComponent"} ->
            ComponentAddress(i, k, tile, u, v)
       [] InterleaveType(i) = "row" -> RowAddress(i, k, tile, u, v)
       [] InterleaveType(i) \in {"pixel", "multiY"} -> GroupAddress(i, k, tile, u, v)
       [] InterleaveType(i) = "mixed" -> MixedAddress(i, k, tile, u, v)
===============================================================================
