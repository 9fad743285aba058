------------------------- MODULE UncompressedProofs -------------------------
(***************************************************************************)
(* The inflation of an uncompressed image stays within the budget of its   *)
(* layout, the loops of its interleaving consume exactly that layout, and  *)
(* they take every sample from where the layout has it: for every image,   *)
(* every way its units deal out their bytes and every value of the limits. *)
(***************************************************************************)
EXTENDS UncompressedDecode, SetSums, SequenceTheorems

(***************************************************************************)
(* The layout of a supported image takes a natural number of bytes.        *)
(***************************************************************************)
ComponentSpecs == [role : Roles, depth : Nat, align : Nat]

\* Division that rounds up gives a natural number.
LEMMA CeilNatural ==
    ASSUME NEW a \in Nat, NEW b \in Nat \ {0}
    PROVE  CeilDiv(a, b) \in Nat
<1>1. a + b - 1 \in Nat
  OBVIOUS
<1>q. QED
  BY <1>1, DivNatural DEF CeilDiv

\* Aligning a natural number gives one, also to an alignment of zero.
LEMMA AlignNatural ==
    ASSUME NEW a \in Nat, NEW b \in Nat
    PROVE  AlignUp(a, b) \in Nat
<1>1. CASE b = 0
  BY <1>1 DEF AlignUp
<1>2. CASE b # 0
  <2>1. CeilDiv(a, b) \in Nat
    BY <1>2, CeilNatural
  <2>2. b * CeilDiv(a, b) \in Nat
    BY <2>1, ProductNatural
  <2>q. QED
    BY <2>2, <1>2 DEF AlignUp
<1>q. QED
  BY <1>1, <1>2

\* Aligning to a byte does not go back.
LEMMA ToByteGrows ==
    ASSUME NEW bit \in Nat
    PROVE  ToByte(bit) \in Nat /\ bit <= ToByte(bit)
  BY DEF ToByte, AlignUp, CeilDiv

\* The sum of a sequence is that of a function over its positions.
LEMMA SumOfSequence ==
    ASSUME NEW s
    PROVE  Sum(s) = SumOver(s, DOMAIN s)
  BY DEF Sum, SumOver

\* The sum of a sequence of natural numbers is one.
LEMMA SequenceSum ==
    ASSUME NEW s \in Seq(Nat)
    PROVE  Sum(s) \in Nat
<1>1. IsFiniteSet(DOMAIN s) /\ \A k \in DOMAIN s : s[k] \in Nat
  <2>1. Len(s) \in Nat /\ DOMAIN s = 1 .. Len(s)
    BY LenProperties
  <2>2. 1 \in Int /\ Len(s) \in Int
    BY <2>1
  <2>3. IsFiniteSet(1 .. Len(s))
    BY <2>2, FS_Interval
  <2>q. QED
    BY <2>1, <2>3
<1>2. Sum(s) = SumOver(s, DOMAIN s)
  BY SumOfSequence
<1>q. QED
  BY <1>1, <1>2, SumNatural

(***************************************************************************)
(* The bit at which a group of samples ends: a fold over the group.        *)
(***************************************************************************)
LEMMA SampleBitsNatural ==
    ASSUME NEW spec \in ComponentSpecs
    PROVE  SampleBits(spec) \in Nat
<1>1. CASE spec.align = 0
  BY <1>1 DEF SampleBits, ComponentSpecs
<1>2. CASE spec.align # 0
  <2>1. CeilDiv(spec.depth, 8) \in Nat /\ spec.align \in Nat
    BY CeilNatural DEF ComponentSpecs
  <2>2. AlignUp(CeilDiv(spec.depth, 8), spec.align) \in Nat
    BY <2>1, AlignNatural
  <2>q. QED
    BY <2>2, <1>2, ProductNatural DEF SampleBits
<1>q. QED
  BY <1>1, <1>2

(***************************************************************************)
(* Where the samples of a group end.                                       *)
(***************************************************************************)
EndAfter(bit, spec) == (IF spec.align # 0 THEN ToByte(bit) ELSE bit) + SampleBits(spec)

IsEnd(g, group, start, S) ==
    g = [s \in SUBSET S |-> IF s = {} THEN start
                            ELSE EndAfter(g[s \ {Top(s)}], group[Top(s)])]

\* The end of a group is the last value of the function that goes through the
\* subsets of its positions.
LEMMA EndAsFunction ==
    ASSUME NEW group, NEW start
    PROVE  GroupEndBit(group, start)
              = (CHOOSE g : IsEnd(g, group, start, DOMAIN group))[DOMAIN group]
  BY DEF GroupEndBit, FoldLeft, MapThenFoldSet, Max, IsEnd, EndAfter, Top

\* One sample more ends no earlier.
LEMMA EndAfterGrows ==
    ASSUME NEW bit \in Nat, NEW spec \in ComponentSpecs
    PROVE  EndAfter(bit, spec) \in Nat /\ bit <= EndAfter(bit, spec)
<1>1. SampleBits(spec) \in Nat
  BY SampleBitsNatural
<1>2. ToByte(bit) \in Nat /\ bit <= ToByte(bit)
  BY ToByteGrows
<1>q. QED
  BY <1>1, <1>2 DEF EndAfter

(* The ends of the samples of a group, the first of them its start. *)
IsChain(h, group, start) ==
  /\ h[0] = start
  /\ \A k \in 1 .. Len(group) : h[k] = EndAfter(h[k - 1], group[k])

\* The end of a group is the last of the ends of its samples.
LEMMA EndChain ==
    ASSUME NEW group \in Seq(ComponentSpecs), NEW start \in Nat
    PROVE  \E h : IsChain(h, group, start) /\ h[Len(group)] = GroupEndBit(group, start)
<1> DEFINE n == Len(group)
           D == 1 .. n
           step == [x \in Nat \X D |-> EndAfter(x[1], group[x[2]])]
           g == CHOOSE f : IsEnd(f, group, start, D)
<1>0. n \in Nat /\ DOMAIN group = D /\ \A k \in D : group[k] \in ComponentSpecs
  BY LenProperties, ElementOfSeq
<1>d. IsFiniteSet(D) /\ HasTops(D)
  BY <1>0, PositionTops
<1>s. step \in [Nat \X D -> Nat]
  BY <1>0, EndAfterGrows
<1>1. \E f : IsEnd(f, group, start, D)
  <2>1. PICK f : IsFold(f, step, start, D)
    <3> HIDE DEF D, step
    <3>q. QED
      BY ONLY <1>d, FoldExists
  <2>2. \A s \in SUBSET D : f[s] \in Nat
    <3> HIDE DEF n, step
    <3>q. QED
      BY ONLY <1>0, <1>s, <2>1, FoldTyped
  <2>3. ASSUME NEW s \in SUBSET D
        PROVE  f[s] = IF s = {} THEN start
                      ELSE EndAfter(f[s \ {Top(s)}], group[Top(s)])
    <3>1. f[s] = IF s = {} THEN start ELSE step[<< f[s \ {Top(s)}], Top(s) >>]
      BY <2>1 DEF IsFold
    <3>2. CASE s = {}
      BY <3>1, <3>2
    <3>3. CASE s # {}
      <4>1. Top(s) \in D /\ s \ {Top(s)} \in SUBSET D
        BY <1>d, <3>3 DEF HasTops
      <4>2. f[s \ {Top(s)}] \in Nat
        BY <2>2, <4>1
      <4>q. QED
        BY <3>1, <3>3, <4>1, <4>2
    <3>q. QED
      BY <3>2, <3>3
  <2>4. f = [s \in SUBSET D |-> f[s]]
    BY <2>1 DEF IsFold
  <2> HIDE DEF D
  <2>5. IsEnd(f, group, start, D)
    BY <2>3, <2>4 DEF IsEnd
  <2>q. QED
    BY <2>5
<1>2. IsEnd(g, group, start, D)
  BY <1>1
<1>3. GroupEndBit(group, start) = g[D]
  BY <1>0, EndAsFunction
<1> DEFINE h == [k \in 0 .. n |-> g[1 .. k]]
<1> HIDE DEF g
<1>4. h[0] = start
  <2>1. g[{}] = start
    BY <1>2 DEF IsEnd
  <2>2. 1 .. 0 = {} /\ 0 \in 0 .. n
    BY <1>0
  <2>q. QED
    BY <2>1, <2>2
<1>5. ASSUME NEW k \in D
      PROVE  h[k] = EndAfter(h[k - 1], group[k])
  <2>1. /\ Top(1 .. k) = k /\ (1 .. k) \ {k} = 1 .. k - 1
        /\ 1 .. k \in SUBSET D /\ 1 .. k # {}
    BY <1>0, PositionTops
  <2>2. g[1 .. k] = EndAfter(g[1 .. k - 1], group[k])
    BY <1>2, <2>1 DEF IsEnd
  <2>3. k \in 0 .. n /\ k - 1 \in 0 .. n
    BY <1>0
  <2>q. QED
    BY <2>2, <2>3
<1>6. h[n] = GroupEndBit(group, start)
  <2>1. n \in 0 .. n
    BY <1>0
  <2>q. QED
    BY <1>3, <2>1
<1> HIDE DEF h
<1>7. IsChain(h, group, start)
  BY <1>4, <1>5 DEF IsChain
<1>q. QED
  BY <1>6, <1>7

\* Two such chains are the same.
LEMMA ChainUnique ==
    ASSUME NEW group, Len(group) \in Nat, NEW start, NEW g, NEW h,
           IsChain(g, group, start), IsChain(h, group, start)
    PROVE  \A k \in 0 .. Len(group) : g[k] = h[k]
<1> DEFINE S == {k \in Nat : g[k] = h[k]}
<1>1. 0 \in S
  BY DEF IsChain
<1>2. ASSUME NEW k \in 0 .. Len(group), k < Len(group), k \in S
      PROVE  k + 1 \in S
  <2>1. k + 1 \in 1 .. Len(group) /\ (k + 1) - 1 = k /\ k + 1 \in Nat
    BY <1>2
  <2>2. /\ g[k + 1] = EndAfter(g[k], group[k + 1])
        /\ h[k + 1] = EndAfter(h[k], group[k + 1])
    BY <2>1 DEF IsChain
  <2>q. QED
    BY <1>2, <2>1, <2>2
<1>3. \A k \in 0 .. Len(group) : k \in S
  <2> HIDE DEF S
  <2>q. QED
    BY <1>1, <1>2, Climb
<1>q. QED
  BY <1>3

(* Where the first k samples of a group end. *)
EndUpto(group, start, k) == GroupEndBit(SubSeq(group, 1, k), start)

\* The first samples of a group are a group.
LEMMA Prefix ==
    ASSUME NEW group \in Seq(ComponentSpecs), NEW k \in 0 .. Len(group)
    PROVE  /\ SubSeq(group, 1, k) \in Seq(ComponentSpecs)
           /\ Len(SubSeq(group, 1, k)) = k
           /\ \A n \in 1 .. k : SubSeq(group, 1, k)[n] = group[n]
<1>0. Len(group) \in Nat /\ \A n \in 1 .. Len(group) : group[n] \in ComponentSpecs
  BY LenProperties, ElementOfSeq
<1>1. k \in Nat /\ k <= Len(group)
  BY <1>0
<1>2. SubSeq(group, 1, k) = [n \in 1 .. k |-> group[n]]
  BY <1>1
<1>3. \A n \in 1 .. k : group[n] \in ComponentSpecs
  BY <1>0, <1>1
<1>4. [n \in 1 .. k |-> group[n]] \in Seq(ComponentSpecs)
  <2> HIDE DEF ComponentSpecs
  <2>q. QED
    BY <1>1, <1>3, SeqDef
<1>q. QED
  BY <1>1, <1>2, <1>4, LenProperties

\* The end of a group is reached sample by sample.
LEMMA EndSteps ==
    ASSUME NEW group \in Seq(ComponentSpecs), NEW start \in Nat
    PROVE  /\ EndUpto(group, start, 0) = start
           /\ \A k \in 1 .. Len(group) :
                EndUpto(group, start, k) = EndAfter(EndUpto(group, start, k - 1), group[k])
           /\ EndUpto(group, start, Len(group)) = GroupEndBit(group, start)
<1>0. Len(group) \in Nat
  BY LenProperties
<1>1. PICK h : IsChain(h, group, start) /\ h[Len(group)] = GroupEndBit(group, start)
  BY EndChain
<1>2. ASSUME NEW k \in 0 .. Len(group)
      PROVE  EndUpto(group, start, k) = h[k]
  <2> DEFINE part == SubSeq(group, 1, k)
  <2>1. /\ part \in Seq(ComponentSpecs) /\ Len(part) = k /\ k \in Nat /\ k <= Len(group)
        /\ \A n \in 1 .. k : part[n] = group[n]
    BY <1>0, Prefix
  <2>x. EndUpto(group, start, k) = GroupEndBit(part, start)
    BY DEF EndUpto
  <2> HIDE DEF part
  <2>2. PICK g : IsChain(g, part, start) /\ g[Len(part)] = GroupEndBit(part, start)
    BY <2>1, EndChain
  <2>3. IsChain(h, part, start)
    <3>1. \A n \in 1 .. k : n \in 1 .. Len(group)
      BY <1>0, <2>1
    <3>q. QED
      BY <1>1, <2>1, <3>1 DEF IsChain
  <2>4. g[k] = h[k]
    <3>1. Len(part) \in Nat /\ Len(part) \in 0 .. Len(part)
      BY <2>1
    <3>2. \A n \in 0 .. Len(part) : g[n] = h[n]
      BY ONLY <3>1, <2>2, <2>3, ChainUnique
    <3>q. QED
      BY <2>1, <3>1, <3>2
  <2>q. QED
    BY <2>1, <2>2, <2>4, <2>x
<1>3. 0 \in 0 .. Len(group) /\ Len(group) \in 0 .. Len(group)
  BY <1>0
<1>4. ASSUME NEW k \in 1 .. Len(group)
      PROVE  EndUpto(group, start, k) = EndAfter(EndUpto(group, start, k - 1), group[k])
  <2>1. k \in 0 .. Len(group) /\ k - 1 \in 0 .. Len(group)
    BY <1>0
  <2>2. h[k] = EndAfter(h[k - 1], group[k])
    BY <1>1 DEF IsChain
  <2>q. QED
    BY <1>2, <2>1, <2>2
<1>q. QED
  BY <1>1, <1>2, <1>3, <1>4 DEF IsChain

\* No sample of a group ends before it starts, or before an earlier one.
LEMMA EndGrows ==
    ASSUME NEW group \in Seq(ComponentSpecs), NEW start \in Nat
    PROVE  /\ \A k \in 0 .. Len(group) : /\ EndUpto(group, start, k) \in Nat
                                        /\ start <= EndUpto(group, start, k)
           /\ \A k \in 1 .. Len(group) :
                EndUpto(group, start, k - 1) <= EndUpto(group, start, k)
<1>0. Len(group) \in Nat /\ \A k \in 1 .. Len(group) : group[k] \in ComponentSpecs
  BY LenProperties, ElementOfSeq
<1> DEFINE f(k) == EndUpto(group, start, k)
<1>1. /\ f(0) = start
      /\ \A k \in 1 .. Len(group) : f(k) = EndAfter(f(k - 1), group[k])
  BY EndSteps
<1> HIDE DEF f
<1> DEFINE S == {k \in Nat : f(k) \in Nat /\ start <= f(k)}
<1>2. 0 \in S
  BY <1>1
<1>3. ASSUME NEW k \in 0 .. Len(group), k < Len(group), k \in S
      PROVE  k + 1 \in S
  <2>1. k + 1 \in 1 .. Len(group) /\ (k + 1) - 1 = k /\ k + 1 \in Nat
    BY <1>0, <1>3
  <2>2. f(k + 1) = EndAfter(f(k), group[k + 1]) /\ group[k + 1] \in ComponentSpecs
    BY <1>0, <1>1, <2>1
  <2>3. f(k) \in Nat /\ start <= f(k)
    BY <1>3
  <2>4. EndAfter(f(k), group[k + 1]) \in Nat /\ f(k) <= EndAfter(f(k), group[k + 1])
    BY <2>2, <2>3, EndAfterGrows
  <2>5. f(k + 1) \in Nat /\ start <= f(k + 1)
    BY <2>2, <2>3, <2>4
  <2>q. QED
    BY <2>1, <2>5
<1>4. \A k \in 0 .. Len(group) : k \in S
  <2> HIDE DEF S
  <2>q. QED
    BY <1>0, <1>2, <1>3, Climb
<1>5. ASSUME NEW k \in 1 .. Len(group)
      PROVE  f(k - 1) <= f(k)
  <2>1. k - 1 \in 0 .. Len(group)
    BY <1>0
  <2>2. f(k - 1) \in Nat /\ group[k] \in ComponentSpecs
    BY <1>0, <1>4, <2>1
  <2>q. QED
    BY <1>1, <2>2, EndAfterGrows
<1>q. QED
  BY <1>4, <1>5 DEF f

\* A group does not end before it starts.
LEMMA GroupEnds ==
    ASSUME NEW group \in Seq(ComponentSpecs), NEW start \in Nat
    PROVE  GroupEndBit(group, start) \in Nat /\ start <= GroupEndBit(group, start)
<1>1. Len(group) \in Nat /\ Len(group) \in 0 .. Len(group)
  BY LenProperties
<1>2. EndUpto(group, start, Len(group)) = GroupEndBit(group, start)
  BY EndSteps
<1>q. QED
  BY <1>1, <1>2, EndGrows

(***************************************************************************)
(* The components of a supported image and the bytes they take.            *)
(***************************************************************************)
Supported(i) == IsImage(i) /\ PropertiesResolve(i) /\ LayoutSupported(i)

\* Known profiles and listed components give a sequence of components.
LEMMA SpecsTyped ==
    ASSUME NEW i, Supported(i)
    PROVE  Specs(i) \in Seq(ComponentSpecs)
<1>1. CASE i.profile # "none"
  <2>1. i.profile \in Profiles
    BY <1>1 DEF Supported, LayoutSupported, ComponentsSupported
  <2>2. Byte("R") \in ComponentSpecs /\ Byte("G") \in ComponentSpecs
        /\ Byte("B") \in ComponentSpecs /\ Byte("A") \in ComponentSpecs
    BY DEF Byte, ComponentSpecs, Roles, Channels, Rgb, YCbCr
  <2> HIDE DEF ComponentSpecs
  <2>3. /\ << Byte("R"), Byte("G"), Byte("B") >> \in Seq(ComponentSpecs)
        /\ << Byte("R"), Byte("G"), Byte("B"), Byte("A") >> \in Seq(ComponentSpecs)
        /\ << Byte("A"), Byte("B"), Byte("G"), Byte("R") >> \in Seq(ComponentSpecs)
    BY <2>2
  <2>4. ProfileSpecs(i.profile) \in Seq(ComponentSpecs)
    BY <2>1, <2>3 DEF ProfileSpecs, Profiles
  <2>q. QED
    BY <2>4, <1>1 DEF Specs
<1>2. CASE i.profile = "none"
  <2> DEFINE n == Len(i.components)
             spec(k) == [role |-> i.types[i.components[k].index],
                         depth |-> i.components[k].depth,
                         align |-> i.components[k].align]
  <2>1. i.components \in Seq([index : Nat \ {0}, depth : Nat, align : Nat,
                              format : STRING])
    BY DEF Supported, IsImage
  <2>2. n \in Nat /\ \A k \in 1 .. n : /\ i.components[k].depth \in Nat
                                       /\ i.components[k].align \in Nat
    <3>1. n \in Nat
      BY <2>1, LenProperties
    <3>2. \A k \in 1 .. n : i.components[k] \in [index : Nat \ {0}, depth : Nat,
                                                 align : Nat, format : STRING]
      BY <2>1, <3>1, ElementOfSeq
    <3>q. QED
      BY <3>1, <3>2
  <2>3. \A k \in 1 .. n : i.types[i.components[k].index] \in Roles
    BY <1>2 DEF Supported, LayoutSupported, ComponentsSupported
  <2>5. \A k \in 1 .. n : spec(k) \in ComponentSpecs
    BY <2>2, <2>3 DEF ComponentSpecs
  <2>6. Specs(i) = [k \in 1 .. n |-> spec(k)]
    BY <1>2 DEF Specs
  <2> HIDE DEF n, spec
  <2>7. [k \in 1 .. n |-> spec(k)] \in Seq(ComponentSpecs)
    BY <2>2, <2>5, SeqDef
  <2>q. QED
    BY <2>6, <2>7
<1>q. QED
  BY <1>1, <1>2

\* The subsampling steps of supported layouts are positive.
LEMMA StepsPositive ==
    ASSUME NEW i, Supported(i)
    PROVE  /\ ChromaStep(Sampling(i))[1] \in Nat \ {0}
           /\ ChromaStep(Sampling(i))[2] \in Nat \ {0}
           /\ \A role : /\ Step(i, role)[1] \in Nat \ {0}
                        /\ Step(i, role)[2] \in Nat \ {0}
<1>1. Sampling(i) \in {"444", "422", "420"}
  BY DEF Supported, LayoutSupported, KindSupported
<1>2. /\ ChromaStep("444") = << 1, 1 >>
      /\ ChromaStep("422") = << 2, 1 >>
      /\ ChromaStep("420") = << 2, 2 >>
  BY DEF ChromaStep
<1>3. /\ ChromaStep(Sampling(i))[1] \in Nat \ {0}
      /\ ChromaStep(Sampling(i))[2] \in Nat \ {0}
  BY <1>1, <1>2
<1>q. QED
  BY <1>3 DEF Step

\* The dimensions of tiles and the alignments are natural numbers.
LEMMA TilesNatural ==
    ASSUME NEW i, Supported(i)
    PROVE  /\ TileWidth(i) \in Nat /\ TileHeight(i) \in Nat /\ TileCount(i) \in Nat
           /\ i.pixelSize \in Nat /\ i.rowAlign \in Nat /\ i.tileAlign \in Nat
<1>1. /\ i.width \in Nat /\ i.height \in Nat
      /\ i.cols \in Nat \ {0} /\ i.rows \in Nat \ {0}
      /\ i.pixelSize \in Nat /\ i.rowAlign \in Nat /\ i.tileAlign \in Nat
  BY DEF Supported, IsImage
<1>2. i.width \div i.cols \in Nat /\ i.height \div i.rows \in Nat
  BY <1>1, DivNatural
<1>3. i.rows * i.cols \in Nat
  BY <1>1, ProductNatural
<1>q. QED
  BY <1>1, <1>2, <1>3 DEF TileWidth, TileHeight, TileCount

\* So are the bytes of a component in a tile,
LEMMA ComponentBytes ==
    ASSUME NEW i, Supported(i), NEW spec \in ComponentSpecs, NEW align \in Nat
    PROVE  ComponentTileBytes(i, spec, align) \in Nat
<1> DEFINE across == TileWidth(i) \div Step(i, spec.role)[1]
           down == TileHeight(i) \div Step(i, spec.role)[2]
<1>1. across \in Nat /\ down \in Nat
  <2>1. /\ Step(i, spec.role)[1] \in Nat \ {0}
        /\ Step(i, spec.role)[2] \in Nat \ {0}
        /\ TileWidth(i) \in Nat /\ TileHeight(i) \in Nat
    BY StepsPositive, TilesNatural
  <2>q. QED
    BY <2>1, DivNatural
<1> HIDE DEF across, down
<1>2. SampleBits(spec) * across \in Nat
  BY <1>1, SampleBitsNatural, ProductNatural
<1>3. CeilDiv(SampleBits(spec) * across, 8) \in Nat /\ i.rowAlign \in Nat
  BY <1>2, CeilNatural, TilesNatural
<1>4. RowBytes(i, spec) \in Nat
  BY <1>3, AlignNatural DEF RowBytes, across
<1>5. RowBytes(i, spec) * down \in Nat
  BY <1>1, <1>4, ProductNatural
<1>q. QED
  BY <1>5, AlignNatural DEF ComponentTileBytes, down

\* their sum over the components,
LEMMA ComponentSum ==
    ASSUME NEW i, Supported(i), NEW align \in Nat
    PROVE  Sum(ComponentTileSizes(i, align)) \in Nat
<1>1. Specs(i) \in Seq(ComponentSpecs)
  BY SpecsTyped
<1>2. Len(Specs(i)) \in Nat /\ \A k \in 1 .. Len(Specs(i)) : Specs(i)[k] \in ComponentSpecs
  BY <1>1, LenProperties, ElementOfSeq
<1>3. \A k \in 1 .. Len(Specs(i)) : ComponentTileBytes(i, Specs(i)[k], align) \in Nat
  BY <1>2, ComponentBytes
<1>4. ComponentTileSizes(i, align) \in Seq(Nat)
  BY <1>2, <1>3, SeqDef DEF ComponentTileSizes
<1>q. QED
  BY <1>4, SequenceSum

\* Groups one after the other take a natural number of bits, because no group
\* ends before it starts.
LEMMA RunNatural ==
    ASSUME NEW group \in Seq(ComponentSpecs), NEW groups \in Nat
    PROVE  GroupRunBits(group, groups) \in Nat
<1>1. CASE groups = 0
  BY <1>1 DEF GroupRunBits
<1>2. CASE groups # 0
  <2> DEFINE first == GroupEndBit(group, 0)
             phase == first % 8
             length == GroupEndBit(group, phase) - phase
  <2>1. first \in Nat
    BY GroupEnds
  <2>2. phase \in Nat
    BY <2>1
  <2> HIDE DEF first
  <2>3. length \in Nat
    <3> HIDE DEF phase
    <3>1. GroupEndBit(group, phase) \in Nat /\ phase <= GroupEndBit(group, phase)
      BY <2>2, GroupEnds
    <3>q. QED
      BY <3>1, <2>2
  <2>4. groups - 1 \in Nat
    BY <1>2
  <2>5. GroupRunBits(group, groups) = first + length * (groups - 1)
    BY <1>2 DEF GroupRunBits, first
  <2> HIDE DEF length
  <2>6. length * (groups - 1) \in Nat
    BY <2>3, <2>4, ProductNatural
  <2>q. QED
    BY <2>1, <2>5, <2>6
<1>q. QED
  BY <1>1, <1>2

\* the bytes of a tile of groups,
LEMMA GroupBytes ==
    ASSUME NEW i, Supported(i)
    PROVE  GroupTileBytes(i) \in Nat
<1> DEFINE groups == TileWidth(i) \div ChromaStep(Sampling(i))[1]
           bytes == IF i.pixelSize = 0 THEN CeilDiv(GroupRunBits(Specs(i), groups), 8)
                    ELSE i.pixelSize * groups
<1>1. groups \in Nat
  <2>1. ChromaStep(Sampling(i))[1] \in Nat \ {0} /\ TileWidth(i) \in Nat
    BY StepsPositive, TilesNatural
  <2>q. QED
    BY <2>1, DivNatural
<1>2. GroupRowBytes(i) = AlignUp(bytes, i.rowAlign)
  BY DEF GroupRowBytes
<1> HIDE DEF groups
<1>3. bytes \in Nat
  <2>1. GroupRunBits(Specs(i), groups) \in Nat
    BY <1>1, SpecsTyped, RunNatural
  <2>2. CeilDiv(GroupRunBits(Specs(i), groups), 8) \in Nat
    BY <2>1, CeilNatural
  <2>3. i.pixelSize * groups \in Nat
    BY <1>1, TilesNatural, ProductNatural
  <2>q. QED
    BY <2>2, <2>3
<1> HIDE DEF bytes
<1>4. GroupRowBytes(i) \in Nat
  BY <1>2, <1>3, AlignNatural, TilesNatural
<1>5. GroupRowBytes(i) * TileHeight(i) \in Nat
  BY <1>4, TilesNatural, ProductNatural
<1>q. QED
  BY <1>5, AlignNatural, TilesNatural DEF GroupTileBytes

\* A role that occurs has a first component.
LEMMA SpecTyped ==
    ASSUME NEW i, Supported(i), NEW role, Positions(i, role) # {}
    PROVE  SpecOf(i, role) \in ComponentSpecs
<1>1. Specs(i) \in Seq(ComponentSpecs)
  BY SpecsTyped
<1>2. Len(Specs(i)) \in Nat /\ \A k \in 1 .. Len(Specs(i)) : Specs(i)[k] \in ComponentSpecs
  BY <1>1, LenProperties, ElementOfSeq
<1>3. Positions(i, role) \in SUBSET Nat /\ Positions(i, role) \subseteq 1 .. Len(Specs(i))
  BY <1>2 DEF Positions
<1>4. Min(Positions(i, role)) \in Positions(i, role)
  BY <1>3, LeastOfNaturals
<1>q. QED
  BY <1>2, <1>3, <1>4 DEF SpecOf

\* An image with one chroma component has the other.
LEMMA ComplementaryTyped ==
    ASSUME NEW i, Supported(i), NEW k \in 1 .. Len(Specs(i)), Specs(i)[k].role \in Chroma
    PROVE  Complementary(i, Specs(i)[k].role) \in ComponentSpecs
<1> DEFINE role == Specs(i)[k].role
<1>1. Positions(i, role) # {}
  BY DEF Positions
<1>2. role \in Present(i) \cap YCbCr
  BY <1>1 DEF Present, Chroma, Channels, YCbCr
<1>3. YCbCr \subseteq Present(i)
  BY <1>2 DEF Supported, LayoutSupported, ColoursSupported
<1>4. Positions(i, "Cb") # {} /\ Positions(i, "Cr") # {}
  BY <1>3 DEF Present, YCbCr
<1>5. SpecOf(i, "Cb") \in ComponentSpecs /\ SpecOf(i, "Cr") \in ComponentSpecs
  BY <1>4, SpecTyped
<1>q. QED
  BY <1>5 DEF Complementary

\* and the bytes of a tile in which two chroma components alternate.
LEMMA MixedSum ==
    ASSUME NEW i, Supported(i)
    PROVE  MixedTileBytes(i) \in Nat
<1>1. Specs(i) \in Seq(ComponentSpecs)
  BY SpecsTyped
<1>2. Len(Specs(i)) \in Nat /\ \A k \in 1 .. Len(Specs(i)) : Specs(i)[k] \in ComponentSpecs
  BY <1>1, LenProperties, ElementOfSeq
<1>3. ASSUME NEW k \in 1 .. Len(Specs(i))
      PROVE  MixedGroupBytes(i, k) \in Nat
  <2> DEFINE spec == Specs(i)[k]
             across == TileWidth(i) \div Step(i, spec.role)[1]
             down == TileHeight(i) \div Step(i, spec.role)[2]
  <2>1. spec \in ComponentSpecs
    BY <1>2
  <2>2. MixedGroup(i, k) \in Seq(ComponentSpecs)
    <3>1. CASE spec.role \notin Chroma
      <4>1. << spec >> \in Seq(ComponentSpecs)
        BY <2>1
      <4>q. QED
        BY <3>1, <4>1 DEF MixedGroup
    <3>2. CASE spec.role \in Chroma
      <4>1. Complementary(i, spec.role) \in ComponentSpecs
        BY <3>2, ComplementaryTyped
      <4>2. << spec, Complementary(i, spec.role) >> \in Seq(ComponentSpecs)
            /\ << >> \in Seq(ComponentSpecs)
        BY <2>1, <4>1
      <4>q. QED
        BY <3>2, <4>2 DEF MixedGroup
    <3>q. QED
      BY <3>1, <3>2
  <2>3. across \in Nat /\ down \in Nat
    <3>1. /\ Step(i, spec.role)[1] \in Nat \ {0}
          /\ Step(i, spec.role)[2] \in Nat \ {0}
          /\ TileWidth(i) \in Nat /\ TileHeight(i) \in Nat
      BY StepsPositive, TilesNatural
    <3>q. QED
      BY <3>1, DivNatural
  <2>4. MixedGroupBytes(i, k) = CeilDiv(GroupRunBits(MixedGroup(i, k), across), 8) * down
    BY DEF MixedGroupBytes
  <2> HIDE DEF across, down
  <2>6. GroupRunBits(MixedGroup(i, k), across) \in Nat
    BY <2>2, <2>3, RunNatural
  <2>5. CeilDiv(GroupRunBits(MixedGroup(i, k), across), 8) \in Nat
    BY <2>6, CeilNatural
  <2>q. QED
    BY <2>3, <2>4, <2>5, ProductNatural
<1>4. [k \in 1 .. Len(Specs(i)) |-> MixedGroupBytes(i, k)] \in Seq(Nat)
  BY <1>2, <1>3, SeqDef
<1>5. Sum([k \in 1 .. Len(Specs(i)) |-> MixedGroupBytes(i, k)]) \in Nat
  BY <1>4, SequenceSum
<1>q. QED
  BY <1>5, AlignNatural, TilesNatural DEF MixedTileBytes

\* The budget of the inflation is a natural number.
LEMMA LayoutNatural ==
    ASSUME NEW i, Supported(i)
    PROVE  PayloadBytes(i) \in Nat
<1>1. GroupTileBytes(i) \in Nat /\ MixedTileBytes(i) \in Nat
  BY GroupBytes, MixedSum
<1>2. Sum(ComponentTileSizes(i, i.tileAlign)) \in Nat
  BY ComponentSum, TilesNatural
<1>3. Sum(ComponentTileSizes(i, 0)) \in Nat
  BY ComponentSum
<1>4. AlignUp(Sum(ComponentTileSizes(i, 0)), i.tileAlign) \in Nat
  BY <1>3, AlignNatural, TilesNatural
<1>5. TileBytes(i) \in Nat
  BY <1>1, <1>2, <1>4 DEF TileBytes
<1>q. QED
  BY <1>5, TilesNatural, ProductNatural DEF PayloadBytes

(***************************************************************************)
(* The inductive invariant.                                                *)
(***************************************************************************)
Early == {"properties", "layout", "extents", "copy", "compression"}
Late == {"size", "read", "convert", "done"}

\* Units of an item whose compression is supported, and what they give.
UnitCount(i) ==
    IF i.icef = << >> \/ i.icef[1].sizes = << >> THEN 1 ELSE Len(i.icef[1].sizes)

Gives(i) == [k \in 1 .. UnitCount(i) |-> i.contents[k].bytes]

\* What the first n units give together.
GivenBy(i, n) == SumOver(Gives(i), 1 .. n)

Typed ==
    /\ IsImage(image)
    /\ pc \in Early \cup Late \cup {"unit", "inflate", "refused"}
    /\ extent \in Nat /\ payload \in Nat
    /\ unit \in Nat /\ given \in Nat /\ out \in Nat /\ cap \in Nat

\* An image that was not refused has passed the checks behind it.
Passed ==
    /\ pc \notin {"properties", "refused"} => PropertiesResolve(image)
    /\ pc \notin {"properties", "layout", "refused"} => LayoutSupported(image)
    /\ pc # "refused" => cause = "none"

\* The buffer never holds more than it may.
Bounded ==
    /\ cap > 0 => cap <= Budget /\ Budget <= LayoutLimit(image)
    /\ out <= cap
    /\ pc \in Early => unit = 0 /\ out = 0 /\ cap = 0

\* The bytes in the buffer are those of the units inflated so far.
Accounted ==
    /\ pc \in {"unit", "inflate"} => Compressed(image) /\ Budget <= LayoutLimit(image)
    /\ pc = "unit" => unit <= UnitCount(image) /\ out = GivenBy(image, unit)
    /\ pc = "inflate" => /\ unit < UnitCount(image)
                         /\ given <= image.contents[unit + 1].bytes
                         /\ out = GivenBy(image, unit) + given
    /\ pc \in Late /\ Compressed(image) =>
         out = GivenBy(image, UnitCount(image))
    /\ cause = "budget" => GivenBy(image, UnitCount(image)) > Budget

IInv == Typed /\ Passed /\ Bounded /\ Accounted

\* The number of units does not depend on the payload.
LEMMA UnitsCounted ==
    ASSUME IsImage(image)
    PROVE  Len(Units(image)) = UnitCount(image) /\ UnitCount(image) \in Nat
<1> DEFINE icef == image.icef
<1>0. icef \in Seq([implied : BOOLEAN, offsets : Seq(Nat), sizes : Seq(Nat),
                    whole : BOOLEAN])
  BY DEF IsImage
<1>1. CASE icef = << >>
  <2>1. StatedUnits(image) = << >>
    BY <1>1 DEF StatedUnits
  <2>2. Len(Units(image)) = 1
    BY <2>1 DEF Units
  <2>q. QED
    BY <1>1, <2>2 DEF UnitCount
<1>2. CASE icef # << >>
  <2> DEFINE sizes == icef[1].sizes
             n == Len(sizes)
             one(k) == [offset |-> IF icef[1].implied THEN Sum(Before(sizes, k))
                                   ELSE icef[1].offsets[k],
                        size |-> sizes[k]]
  <2>1. sizes \in Seq(Nat)
    <3>1. icef[1] \in [implied : BOOLEAN, offsets : Seq(Nat), sizes : Seq(Nat),
                       whole : BOOLEAN]
      <4>1. Len(icef) \in Nat /\ Len(icef) # 0
        BY <1>0, <1>2, EmptySeq, LenProperties
      <4>2. 1 \in 1 .. Len(icef)
        BY <4>1
      <4>q. QED
        BY <1>0, <4>2, ElementOfSeq
    <3>q. QED
      BY <3>1
  <2>2. n \in Nat /\ (sizes = << >> <=> n = 0)
    BY <2>1, EmptySeq, LenProperties
  <2>3. StatedUnits(image) = [k \in 1 .. n |-> one(k)]
    BY <1>2 DEF StatedUnits, UnitsOf
  <2>4. UnitCount(image) = IF sizes = << >> THEN 1 ELSE n
    BY <1>2 DEF UnitCount
  <2> HIDE DEF one, n, sizes
  <2>5. StatedUnits(image) \in Seq({one(k) : k \in 1 .. n})
    BY <2>2, <2>3, SeqDef
  <2>6. Len(StatedUnits(image)) = n
    <3>1. DOMAIN StatedUnits(image) = 1 .. n
      BY <2>3
    <3>2. /\ DOMAIN StatedUnits(image) = 1 .. Len(StatedUnits(image))
          /\ Len(StatedUnits(image)) \in Nat
      BY <2>5, LenProperties
    <3> DEFINE m == Len(StatedUnits(image))
    <3>3. 1 .. m = 1 .. n /\ m \in Nat
      BY <3>1, <3>2
    <3> HIDE DEF m
    <3>4. m = n
      <4>1. m # 0 => m \in 1 .. n
        <5>1. m # 0 => m \in 1 .. m
          BY <3>3
        <5>q. QED
          BY <3>3, <5>1
      <4>2. n # 0 => n \in 1 .. m
        <5>1. n # 0 => n \in 1 .. n
          BY <2>2
        <5>q. QED
          BY <3>3, <5>1
      <4>q. QED
        BY <4>1, <4>2, <3>3, <2>2
    <3>q. QED
      BY <3>4 DEF m
  <2>7. StatedUnits(image) = << >> <=> n = 0
    BY <2>5, <2>6, EmptySeq
  <2>8. CASE n = 0
    <3>1. Len(Units(image)) = 1
      BY <2>7, <2>8 DEF Units
    <3>q. QED
      BY <3>1, <2>4, <2>8, <2>2
  <2>9. CASE n # 0
    <3>1. Units(image) = StatedUnits(image)
      BY <2>7, <2>9 DEF Units
    <3>q. QED
      BY <3>1, <2>4, <2>9, <2>6, <2>2
  <2>q. QED
    BY <2>8, <2>9
<1>q. QED
  BY <1>1, <1>2

\* Each unit of a compressed image gives a natural number of bytes.
LEMMA GivesTyped ==
    ASSUME NEW i, IsImage(i), Compressed(i), UnitCount(i) \in Nat
    PROVE  \A k \in 1 .. UnitCount(i) : /\ Gives(i)[k] \in Nat
                                        /\ Gives(i)[k] = i.contents[k].bytes
<1> SUFFICES ASSUME NEW k \in 1 .. UnitCount(i)
             PROVE  i.contents[k].bytes \in Nat
  BY DEF Gives
<1>1. i.contents \in Seq([bytes : Nat, ends : STRING]) /\ i.contents # << >>
  BY DEF IsImage, Compressed
<1>2. Len(i.contents) \in Nat /\ Len(i.contents) # 0
  BY <1>1, EmptySeq, LenProperties
<1>3. UnitCount(i) = 1 \/ UnitCount(i) <= Len(i.contents)
  BY DEF UnitCount, IsImage, Compressed
<1>4. k \in 1 .. Len(i.contents)
  BY <1>2, <1>3
<1>5. i.contents[k] \in [bytes : Nat, ends : STRING]
  BY <1>1, <1>4, ElementOfSeq
<1>q. QED
  BY <1>5

\* What the units give together grows unit by unit.
LEMMA GivenFacts ==
    ASSUME NEW i, IsImage(i), Compressed(i), UnitCount(i) \in Nat
    PROVE  /\ GivenBy(i, 0) = 0
           /\ \A n \in 0 .. UnitCount(i) : GivenBy(i, n) \in Nat
           /\ \A n \in 0 .. UnitCount(i) :
                n < UnitCount(i) =>
                   /\ i.contents[n + 1].bytes \in Nat
                   /\ GivenBy(i, n + 1) = GivenBy(i, n) + i.contents[n + 1].bytes
                   /\ GivenBy(i, n + 1) <= GivenBy(i, UnitCount(i))
<1> DEFINE e == Gives(i)
           c == UnitCount(i)
<1>1. \A k \in 1 .. c : e[k] \in Nat /\ e[k] = i.contents[k].bytes
  BY GivesTyped
<1>2. \A n \in 0 .. c : IsFiniteSet(1 .. n) /\ (1 .. n) \subseteq (1 .. c)
  <2> SUFFICES ASSUME NEW n \in 0 .. c
               PROVE  IsFiniteSet(1 .. n) /\ (1 .. n) \subseteq (1 .. c)
    OBVIOUS
  <2>1. 1 \in Int /\ n \in Int
    OBVIOUS
  <2>2. IsFiniteSet(1 .. n)
    BY <2>1, FS_Interval
  <2>q. QED
    BY <2>2
<1> HIDE DEF e
<1>3. SumOver(e, 1 .. 0) = 0
  <2>1. 1 .. 0 = {} /\ IsFiniteSet(1 .. 0)
    BY <1>2
  <2>q. QED
    BY <2>1, SumUnfolds
<1>4. \A n \in 0 .. c : SumOver(e, 1 .. n) \in Nat
  <2> SUFFICES ASSUME NEW n \in 0 .. c
               PROVE  SumOver(e, 1 .. n) \in Nat
    OBVIOUS
  <2>1. IsFiniteSet(1 .. n) /\ \A k \in 1 .. n : e[k] \in Nat
    BY <1>1, <1>2
  <2>q. QED
    BY <2>1, SumNatural
<1>5. ASSUME NEW n \in 0 .. c, n < c
      PROVE  /\ i.contents[n + 1].bytes \in Nat
             /\ SumOver(e, 1 .. n + 1) = SumOver(e, 1 .. n) + i.contents[n + 1].bytes
             /\ SumOver(e, 1 .. n + 1) <= SumOver(e, 1 .. c)
  <2> DEFINE S == 1 .. n + 1
  <2>1. n + 1 \in S /\ n + 1 \in 0 .. c /\ n + 1 \in 1 .. c /\ S \ {n + 1} = 1 .. n
    BY <1>5
  <2>2. IsFiniteSet(S) /\ S \in SUBSET (1 .. c) /\ IsFiniteSet(1 .. c)
    BY <1>2, <2>1
  <2>3. \A k \in S : e[k] \in Nat
    BY <1>1, <2>2
  <2>4. e[n + 1] \in Nat /\ e[n + 1] = i.contents[n + 1].bytes
    BY <1>1, <2>1
  <2> HIDE DEF S
  <2>5. SumOver(e, S) = e[n + 1] + SumOver(e, S \ {n + 1})
    BY <2>1, <2>2, <2>3, SumTakesOut
  <2>6. SumOver(e, S) <= SumOver(e, 1 .. c)
    BY <1>1, <2>2, SumGrows
  <2>7. SumOver(e, 1 .. n) \in Nat
    BY <1>4
  <2> DEFINE a == SumOver(e, 1 .. n)
             b == i.contents[n + 1].bytes
  <2>8. SumOver(e, S) = b + a
    BY <2>1, <2>4, <2>5
  <2>9. a \in Nat /\ b \in Nat
    BY <2>4, <2>7
  <2> HIDE DEF a, b
  <2>10. SumOver(e, S) = a + b
    BY <2>8, <2>9
  <2>q. QED
    BY <2>6, <2>9, <2>10 DEF a, b, S
<1>q. QED
  BY <1>3, <1>4, <1>5 DEF GivenBy, e

\* The sum of the property is what all units give.
LEMMA GivenInAll ==
    ASSUME IsImage(image)
    PROVE  Sum([k \in 1 .. Len(Units(image)) |-> image.contents[k].bytes])
              = GivenBy(image, UnitCount(image))
<1>1. Len(Units(image)) = UnitCount(image)
  BY UnitsCounted
<1>2. [k \in 1 .. Len(Units(image)) |-> image.contents[k].bytes] = Gives(image)
  BY <1>1 DEF Gives
<1>3. DOMAIN Gives(image) = 1 .. UnitCount(image)
  BY DEF Gives
<1>4. Sum(Gives(image)) = SumOver(Gives(image), DOMAIN Gives(image))
  BY SumOfSequence
<1>q. QED
  BY <1>2, <1>3, <1>4 DEF GivenBy

\* The invariant implies the property that the run checks.
LEMMA InvImplies == IInv => InflatesWithinBudget
<1> SUFFICES ASSUME IInv PROVE InflatesWithinBudget
  OBVIOUS
<1>1. Sum([k \in 1 .. Len(Units(image)) |-> image.contents[k].bytes])
         = GivenBy(image, UnitCount(image))
  BY GivenInAll DEF IInv, Typed
<1>q. QED
  BY <1>1 DEF IInv, Bounded, Accounted, Late, InflatesWithinBudget

\* The invariant holds at first.
LEMMA Initially == Init => IInv
  BY DEF Init, Starts, IInv, Typed, Passed, Bounded, Accounted, Early, Late

(***************************************************************************)
(* The steps.                                                              *)
(***************************************************************************)
\* A refusal ends the decode; only one of them is for the budget.
LEMMA RefusalKeeps ==
    ASSUME IInv, NEW why, Refuse(why),
           why = "budget" => GivenBy(image, UnitCount(image)) > Budget
    PROVE  IInv'
<1>1. pc' = "refused" /\ cause' = why
      /\ UNCHANGED << image, extent, payload, unit, given, out, cap >>
  BY DEF Refuse
<1>2. Budget' = Budget
  BY <1>1 DEF Budget
<1>3. Typed'
  BY <1>1 DEF IInv, Typed
<1>4. Passed'
  BY <1>1 DEF Passed
<1>5. Bounded'
  BY <1>1, <1>2 DEF IInv, Bounded, Early
<1>6. Accounted'
  BY <1>1, <1>2 DEF Accounted, Late
<1>q. QED
  BY <1>3, <1>4, <1>5, <1>6 DEF IInv

\* Before and after the inflation, steps that leave the buffer alone.
LEMMA MoveKeeps ==
    ASSUME IInv,
           UNCHANGED << image, unit, given, out, cap >>,
           extent' \in Nat, payload' \in Nat, cause' = "none",
           \/ pc \in Early /\ pc' \in Early
           \/ pc = "compression" /\ pc' = "size" /\ ~Compressed(image)
           \/ pc \in Late /\ pc' \in Late,
           PropertiesResolve(image),
           pc' # "layout" => LayoutSupported(image)
    PROVE  IInv'
<1>1. Budget' = Budget
  BY DEF Budget
<1>2. Typed'
  BY DEF IInv, Typed, Early, Late
<1>3. Passed'
  BY DEF Passed, Early, Late
<1>4. Bounded'
  BY <1>1 DEF IInv, Bounded, Early, Late
<1>5. Accounted'
  BY <1>1 DEF IInv, Accounted, Early, Late, Compressed
<1>q. QED
  BY <1>2, <1>3, <1>4, <1>5 DEF IInv

\* Steps that check properties, layout, extents or matrix.
LEMMA Checks ==
    ASSUME IInv
    PROVE  /\ ResolveProperties => IInv'
           /\ CheckLayout => IInv'
           /\ CheckExtents => IInv'
           /\ Convert => IInv'
<1>0. extent \in Nat /\ payload \in Nat /\ (pc # "refused" => cause = "none")
  BY DEF IInv, Typed, Passed
<1>1. ASSUME ResolveProperties PROVE IInv'
  <2>1. CASE Refuse("properties")
    BY <2>1, RefusalKeeps
  <2>2. CASE ~Refuse("properties")
    <3>1. /\ pc = "properties" /\ pc' = "layout" /\ PropertiesResolve(image)
          /\ UNCHANGED << image, cause, extent, payload, unit, given, out, cap >>
      BY <1>1, <2>2 DEF ResolveProperties, Check
    <3>q. QED
      BY <1>0, <3>1, MoveKeeps DEF Early
  <2>q. QED
    BY <2>1, <2>2
<1>2. ASSUME CheckLayout PROVE IInv'
  <2>1. CASE Refuse("layout")
    BY <2>1, RefusalKeeps
  <2>2. CASE ~Refuse("layout")
    <3>1. /\ pc = "layout" /\ pc' = "extents" /\ LayoutSupported(image)
          /\ UNCHANGED << image, cause, extent, payload, unit, given, out, cap >>
      BY <1>2, <2>2 DEF CheckLayout, Check
    <3>2. PropertiesResolve(image)
      BY <3>1 DEF IInv, Passed
    <3>q. QED
      BY <1>0, <3>1, <3>2, MoveKeeps DEF Early
  <2>q. QED
    BY <2>1, <2>2
<1>3. ASSUME CheckExtents PROVE IInv'
  <2>1. CASE Refuse("extents")
    BY <2>1, RefusalKeeps
  <2>2. CASE ~Refuse("extents")
    <3>1. /\ pc = "extents" /\ pc' = "copy"
          /\ UNCHANGED << image, cause, extent, payload, unit, given, out, cap >>
      BY <1>3, <2>2 DEF CheckExtents, Check
    <3>2. PropertiesResolve(image) /\ LayoutSupported(image)
      BY <3>1 DEF IInv, Passed
    <3>q. QED
      BY <1>0, <3>1, <3>2, MoveKeeps DEF Early
  <2>q. QED
    BY <2>1, <2>2
<1>4. ASSUME Convert PROVE IInv'
  <2>1. CASE Refuse("matrix")
    BY <2>1, RefusalKeeps
  <2>2. CASE ~Refuse("matrix")
    <3>1. /\ pc = "convert" /\ pc' = "done"
          /\ UNCHANGED << image, cause, extent, payload, unit, given, out, cap >>
      BY <1>4, <2>2 DEF Convert, Check
    <3>2. PropertiesResolve(image) /\ LayoutSupported(image)
      BY <3>1 DEF IInv, Passed
    <3>q. QED
      BY <1>0, <3>1, <3>2, MoveKeeps DEF Late
  <2>q. QED
    BY <2>1, <2>2
<1>q. QED
  BY <1>1, <1>2, <1>3, <1>4

\* Steps that copy extents and decide whether and how to inflate.
LEMMA Copies ==
    ASSUME IInv
    PROVE  /\ CopyExtent => IInv'
           /\ FailExtent => IInv'
           /\ EndCopy => IInv'
           /\ WithoutCompression => IInv'
           /\ RefuseCompression => IInv'
<1>0. extent \in Nat /\ payload \in Nat /\ (pc # "refused" => cause = "none")
  BY DEF IInv, Typed, Passed
<1>p. pc \in {"copy", "compression"} => PropertiesResolve(image) /\ LayoutSupported(image)
  BY DEF IInv, Passed
<1>1. ASSUME CopyExtent PROVE IInv'
  <2>1. /\ pc = "copy" /\ pc' = "copy" /\ extent < Len(image.extents)
        /\ extent' = extent + 1
        /\ payload' = payload + image.extents[extent + 1].length
        /\ UNCHANGED << image, cause, unit, given, out, cap >>
    BY <1>1 DEF CopyExtent
  <2>2. image.extents[extent + 1].length \in Nat
    <3>1. image.extents \in Seq([start : Nat, length : Nat])
      BY DEF IInv, Typed, IsImage
    <3>2. Len(image.extents) \in Nat /\ extent + 1 \in 1 .. Len(image.extents)
      BY <1>0, <2>1, <3>1, LenProperties
    <3>3. image.extents[extent + 1] \in [start : Nat, length : Nat]
      BY <3>1, <3>2, ElementOfSeq
    <3>q. QED
      BY <3>3
  <2>3. extent' \in Nat /\ payload' \in Nat
    BY <1>0, <2>1, <2>2
  <2>q. QED
    BY <1>0, <1>p, <2>1, <2>3, MoveKeeps DEF Early
<1>2. ASSUME FailExtent PROVE IInv'
  BY <1>2, RefusalKeeps DEF FailExtent
<1>3. ASSUME EndCopy PROVE IInv'
  <2>1. /\ pc = "copy" /\ pc' = "compression"
        /\ UNCHANGED << image, cause, extent, payload, unit, given, out, cap >>
    BY <1>3 DEF EndCopy
  <2>q. QED
    BY <1>0, <1>p, <2>1, MoveKeeps DEF Early
<1>4. ASSUME WithoutCompression PROVE IInv'
  <2>1. /\ pc = "compression" /\ pc' = "size" /\ ~Compressed(image)
        /\ UNCHANGED << image, cause, extent, payload, unit, given, out, cap >>
    BY <1>4 DEF WithoutCompression
  <2>q. QED
    BY <1>0, <1>p, <2>1, MoveKeeps
<1>5. ASSUME RefuseCompression PROVE IInv'
  <2>1. Refuse("compression") \/ Refuse("limit")
    BY <1>5 DEF RefuseCompression
  <2>q. QED
    BY <2>1, RefusalKeeps
<1>q. QED
  BY <1>1, <1>2, <1>3, <1>4, <1>5

\* Steps that read samples leave the inflated bytes alone.
LEMMA Reads ==
    ASSUME IInv
    PROVE  /\ CheckSize => IInv'
           /\ ReadComponents \/ ReadMixed \/ ReadRows \/ ReadPixels \/ ReadMultiY => IInv'
<1>0. extent \in Nat /\ payload \in Nat /\ (pc # "refused" => cause = "none")
  BY DEF IInv, Typed, Passed
<1>p. pc \in {"size", "read"} => PropertiesResolve(image) /\ LayoutSupported(image)
  BY DEF IInv, Passed
<1>1. ASSUME CheckSize PROVE IInv'
  <2>1. CASE Refuse("size") \/ Refuse("truncated")
    BY <2>1, RefusalKeeps
  <2>2. CASE ~(Refuse("size") \/ Refuse("truncated"))
    <3>1. /\ pc = "size" /\ pc' = "read"
          /\ UNCHANGED << image, cause, extent, payload, unit, given, out, cap >>
      BY <1>1, <2>2 DEF CheckSize
    <3>q. QED
      BY <1>0, <1>p, <3>1, MoveKeeps DEF Late
  <2>q. QED
    BY <2>1, <2>2
<1>2. ASSUME ReadComponents \/ ReadMixed \/ ReadRows \/ ReadPixels \/ ReadMultiY
      PROVE  IInv'
  <2>1. /\ pc = "read"
        /\ UNCHANGED << image, extent, payload, unit, given, out, cap >>
        /\ \/ pc' = "refused" /\ cause' = "reader"
           \/ pc' \in {"convert", "read"} /\ cause' = "none"
    <3>1. ASSUME NEW shape, ReadColumn(shape)
          PROVE  /\ UNCHANGED << image, extent, payload, unit, given, out, cap >>
                 /\ \/ pc' = "refused" /\ cause' = "reader"
                    \/ pc' \in {"convert", "read"} /\ cause' = "none"
      <4> DEFINE read == ReadSamples(Marked(rd, pos), shape.group, ReaderBits)
                 after == Aligned(read.r, shape, image, pos, ReaderBits)
                 ended == after.cause # "none"
                 last == pos'.tile = TileCount(image)
      <4>1. /\ UNCHANGED << image, extent, payload, unit, given, out, cap >>
            /\ cause' = IF ended THEN "reader" ELSE "none"
            /\ pc' = IF ended THEN "refused" ELSE IF last THEN "convert" ELSE "read"
        BY <3>1, Zenon DEF ReadColumn
      <4> HIDE DEF ended, last
      <4>q. QED
        BY <4>1
    <3>q. QED
      BY <1>2, <3>1 DEF ReadComponents, ReadMixed, ReadRows, ReadPixels, ReadMultiY
  <2>2. CASE pc' = "refused" /\ cause' = "reader"
    <3>1. Budget' = Budget
      BY <2>1 DEF Budget
    <3>2. Typed'
      BY <2>1, <2>2 DEF IInv, Typed
    <3>3. Passed'
      BY <2>2 DEF Passed
    <3>4. Bounded'
      BY <2>1, <2>2, <3>1 DEF IInv, Bounded, Early
    <3>5. Accounted'
      BY <2>2 DEF Accounted, Late
    <3>q. QED
      BY <3>2, <3>3, <3>4, <3>5 DEF IInv
  <2>3. CASE pc' \in {"convert", "read"} /\ cause' = "none"
    BY <1>0, <1>p, <2>1, <2>3, MoveKeeps DEF Late
  <2>q. QED
    BY <2>1, <2>2, <2>3
<1>q. QED
  BY <1>1, <1>2

\* The lesser and the greater of two numbers.
LEMMA OfTwo ==
    ASSUME NEW a \in Int, NEW b \in Int
    PROVE  /\ Lesser(a, b) \in Int /\ Lesser(a, b) <= a /\ Lesser(a, b) <= b
           /\ Lesser(a, b) = a \/ Lesser(a, b) = b
           /\ Greater(a, b) \in Int /\ a <= Greater(a, b) /\ b <= Greater(a, b)
           /\ Greater(a, b) = a \/ Greater(a, b) = b
  BY DEF Lesser, Greater

\* What the steps of the inflation need to know of the numbers.
LEMMA Inflating ==
    ASSUME IInv, pc \in {"unit", "inflate"} \/ (pc = "compression" /\ Compressed(image))
    PROVE  /\ Budget \in Nat /\ Compressed(image) /\ IsImage(image)
           /\ PropertiesResolve(image) /\ LayoutSupported(image)
           /\ Len(Units(image)) = UnitCount(image) /\ UnitCount(image) \in Nat
           /\ UnitCount(image) >= 1
           /\ cap \in Nat /\ out \in Nat /\ out <= cap
           /\ (cap > 0 => cap <= Budget) /\ cap <= Budget
           /\ cause = "none"
<1>1. /\ PropertiesResolve(image) /\ LayoutSupported(image) /\ IsImage(image)
      /\ cause = "none"
  BY DEF IInv, Passed, Typed
<1>2. Budget \in Nat
  BY <1>1, LayoutNatural DEF Supported, Budget
<1>3. Len(Units(image)) = UnitCount(image) /\ UnitCount(image) \in Nat
  BY <1>1, UnitsCounted
<1>4. Compressed(image)
  BY DEF IInv, Accounted
<1>5. UnitCount(image) # 0
  <2>1. CASE image.icef = << >> \/ image.icef[1].sizes = << >>
    BY <2>1 DEF UnitCount
  <2>2. CASE ~(image.icef = << >> \/ image.icef[1].sizes = << >>)
    <3>1. image.icef[1].sizes \in Seq(Nat)
      <4>1. image.icef \in Seq([implied : BOOLEAN, offsets : Seq(Nat), sizes : Seq(Nat),
                                whole : BOOLEAN])
        BY <1>1 DEF IsImage
      <4>2. 1 \in 1 .. Len(image.icef)
        BY <2>2, <4>1, EmptySeq, LenProperties
      <4>3. image.icef[1] \in [implied : BOOLEAN, offsets : Seq(Nat), sizes : Seq(Nat),
                               whole : BOOLEAN]
        BY <4>1, <4>2, ElementOfSeq
      <4>q. QED
        BY <4>3
    <3>2. Len(image.icef[1].sizes) # 0
      BY <2>2, <3>1, EmptySeq
    <3>q. QED
      BY <2>2, <3>2 DEF UnitCount
  <2>q. QED
    BY <2>1, <2>2
<1>6. cap \in Nat /\ out \in Nat /\ out <= cap /\ (cap > 0 => cap <= Budget)
  BY DEF IInv, Typed, Bounded
<1>q. QED
  BY <1>1, <1>2, <1>3, <1>4, <1>5, <1>6

\* The initial reserve is within the budget.
LEMMA Starting ==
    ASSUME IInv, StartInflation
    PROVE  IInv'
<1>1. /\ pc = "compression" /\ pc' = "unit" /\ Compressed(image)
      /\ Budget <= LayoutLimit(image)
      /\ cap' = Lesser(Budget, Greater(payload * 4, InitialReserve))
      /\ UNCHANGED << image, cause, extent, payload, unit, given, out >>
  BY DEF StartInflation
<1>2. /\ Budget \in Nat /\ IsImage(image) /\ UnitCount(image) \in Nat
      /\ UnitCount(image) >= 1 /\ cause = "none"
      /\ PropertiesResolve(image) /\ LayoutSupported(image)
  BY <1>1, Inflating
<1>3. unit = 0 /\ out = 0 /\ extent \in Nat /\ payload \in Nat /\ given \in Nat
  BY <1>1 DEF IInv, Bounded, Typed, Early
<1>4. cap' \in Nat /\ cap' <= Budget
  <2> DEFINE reserve == Greater(payload * 4, InitialReserve)
  <2>1. payload * 4 \in Int /\ InitialReserve \in Int
    BY <1>3, LimitsAssumption
  <2>2. reserve \in Int /\ payload * 4 <= reserve
    BY <2>1, OfTwo
  <2>3. reserve \in Nat
    BY <1>3, <2>2
  <2> HIDE DEF reserve
  <2>4. /\ Lesser(Budget, reserve) <= Budget
        /\ Lesser(Budget, reserve) = Budget \/ Lesser(Budget, reserve) = reserve
    <3>1. Budget \in Int /\ reserve \in Int
      BY <1>2, <2>3
    <3>q. QED
      BY ONLY <3>1, OfTwo
  <2>q. QED
    BY <1>1, <1>2, <2>3, <2>4 DEF reserve
<1>5. Budget' = Budget
  BY <1>1 DEF Budget
<1>6. GivenBy(image, 0) = 0
  BY <1>1, <1>2, GivenFacts
<1>7. Typed'
  BY <1>1, <1>2, <1>3, <1>4 DEF Typed
<1>8. Passed'
  BY <1>1, <1>2 DEF Passed
<1>9. Bounded'
  BY <1>1, <1>3, <1>4, <1>5 DEF Bounded, Early
<1>10. Accounted'
  BY <1>1, <1>2, <1>3, <1>5, <1>6 DEF Accounted, Late
<1>q. QED
  BY <1>7, <1>8, <1>9, <1>10 DEF IInv

\* The buffer grows for a chunk without passing the budget.
LEMMA GrownFits ==
    ASSUME Budget \in Nat, cap \in Nat, out \in Nat, out <= cap, cap <= Budget
    PROVE  /\ Remaining \in Nat /\ Chunk \in Nat /\ Chunk <= Remaining
           /\ Grown \in Nat /\ cap <= Grown /\ out + Chunk <= Grown /\ Grown <= Budget
<1>1. Remaining \in Nat /\ Remaining = Budget - out
  BY DEF Remaining
<1>2. Chunk \in Nat /\ Chunk <= Remaining
  <2>1. ReadChunk \in Nat
    BY LimitsAssumption
  <2> DEFINE left == Remaining
  <2>2. Chunk = IF left < ReadChunk THEN left ELSE ReadChunk
    BY DEF Chunk, Lesser
  <2>3. left \in Nat
    BY <1>1
  <2> HIDE DEF left
  <2>4. Chunk \in Nat /\ Chunk <= left
    BY <2>1, <2>2, <2>3
  <2>q. QED
    BY <2>4 DEF left
<1> DEFINE chunk == Chunk
           budget == Budget
<1>3. chunk \in Nat /\ out + chunk <= budget /\ budget \in Nat /\ cap <= budget
  BY <1>1, <1>2
<1>4. Grown = IF cap - out >= chunk THEN cap
              ELSE Lesser(Greater(cap * 2, out + chunk), budget)
  BY DEF Grown
<1> HIDE DEF chunk, budget
<1>5. Grown \in Nat /\ cap <= Grown /\ out + chunk <= Grown /\ Grown <= budget
  BY <1>3, <1>4 DEF Lesser, Greater
<1>q. QED
  BY <1>1, <1>2, <1>5 DEF chunk, budget

\* Steps of the loop over units and of the loop that inflates one.
LEMMA UnitSteps ==
    ASSUME IInv
    PROVE  /\ StartUnit => IInv'
           /\ InflateChunk => IInv'
           /\ EndUnit => IInv'
           /\ FailUnit => IInv'
           /\ EndInflation => IInv'
<1> SUFFICES ASSUME pc \in {"unit", "inflate"}
             PROVE  /\ StartUnit => IInv'
                    /\ InflateChunk => IInv'
                    /\ EndUnit => IInv'
                    /\ FailUnit => IInv'
                    /\ EndInflation => IInv'
  BY DEF StartUnit, InflateChunk, EndUnit, FailUnit, EndInflation
<1>0. /\ Budget \in Nat /\ Compressed(image) /\ IsImage(image)
      /\ PropertiesResolve(image) /\ LayoutSupported(image)
      /\ Len(Units(image)) = UnitCount(image) /\ UnitCount(image) \in Nat
      /\ cap \in Nat /\ out \in Nat /\ out <= cap /\ cap <= Budget
      /\ cause = "none"
  <2>1. pc \in {"unit", "inflate"} \/ (pc = "compression" /\ Compressed(image))
    OBVIOUS
  <2>q. QED
    BY <2>1, Inflating
<1>1. /\ unit \in Nat /\ given \in Nat /\ extent \in Nat /\ payload \in Nat
      /\ Budget <= LayoutLimit(image)
  BY DEF IInv, Typed, Accounted
<1>2. /\ GivenBy(image, 0) = 0
      /\ \A n \in 0 .. UnitCount(image) : GivenBy(image, n) \in Nat
      /\ \A n \in 0 .. UnitCount(image) :
           n < UnitCount(image) =>
              /\ image.contents[n + 1].bytes \in Nat
              /\ GivenBy(image, n + 1) = GivenBy(image, n) + image.contents[n + 1].bytes
              /\ GivenBy(image, n + 1) <= GivenBy(image, UnitCount(image))
  BY <1>0, GivenFacts
<1>3. /\ Remaining \in Nat /\ Chunk \in Nat /\ Chunk <= Remaining
      /\ Grown \in Nat /\ cap <= Grown /\ out + Chunk <= Grown /\ Grown <= Budget
  BY <1>0, GrownFits
<1>4. pc = "unit" => unit <= UnitCount(image) /\ out = GivenBy(image, unit)
  BY DEF IInv, Accounted
<1>5. pc = "inflate" =>
        /\ unit < UnitCount(image)
        /\ given <= image.contents[unit + 1].bytes
        /\ out = GivenBy(image, unit) + given
        /\ image.contents[unit + 1].bytes \in Nat /\ GivenBy(image, unit) \in Nat
        /\ GivenBy(image, unit + 1)
             = GivenBy(image, unit) + image.contents[unit + 1].bytes
        /\ GivenBy(image, unit + 1) <= GivenBy(image, UnitCount(image))
  <2> SUFFICES ASSUME pc = "inflate"
               PROVE  /\ unit < UnitCount(image)
                      /\ given <= image.contents[unit + 1].bytes
                      /\ out = GivenBy(image, unit) + given
                      /\ image.contents[unit + 1].bytes \in Nat
                      /\ GivenBy(image, unit) \in Nat
                      /\ GivenBy(image, unit + 1)
                           = GivenBy(image, unit) + image.contents[unit + 1].bytes
                      /\ GivenBy(image, unit + 1) <= GivenBy(image, UnitCount(image))
    OBVIOUS
  <2>1. /\ unit < UnitCount(image)
        /\ given <= image.contents[unit + 1].bytes
        /\ out = GivenBy(image, unit) + given
    BY DEF IInv, Accounted
  <2>2. unit \in 0 .. UnitCount(image)
    BY <1>0, <1>1, <2>1
  <2>q. QED
    BY <1>2, <2>1, <2>2
<1>6. ASSUME UNCHANGED << image, cause, extent, payload >>,
             pc' \in {"unit", "inflate", "size"},
             unit' \in Nat, given' \in Nat, out' \in Nat, cap' \in Nat,
             cap' <= Budget, out' <= cap', Accounted'
      PROVE  IInv'
  <2>1. Budget' = Budget
    BY <1>6 DEF Budget
  <2>2. Typed'
    BY <1>0, <1>1, <1>6 DEF Typed, Late
  <2>3. Passed'
    BY <1>0, <1>6 DEF Passed
  <2>4. Bounded'
    BY <1>1, <1>6, <2>1 DEF Bounded, Early
  <2>q. QED
    BY <1>6, <2>2, <2>3, <2>4 DEF IInv
<1>7. ASSUME StartUnit PROVE IInv'
  <2>1. CASE Refuse("unitRange") \/ Refuse("window")
    BY <2>1, RefusalKeeps
  <2>2. CASE ~(Refuse("unitRange") \/ Refuse("window"))
    <3>1. /\ pc = "unit" /\ unit < Len(Units(image)) /\ given' = 0 /\ pc' = "inflate"
          /\ UNCHANGED << image, cause, extent, payload, unit, out, cap >>
      BY <1>7, <2>2 DEF StartUnit
    <3>2. unit \in 0 .. UnitCount(image) /\ unit < UnitCount(image)
      BY <1>0, <1>1, <3>1
    <3>3. image.contents[unit + 1].bytes \in Nat /\ GivenBy(image, unit) \in Nat
      BY <1>2, <3>2
    <3>4. out = GivenBy(image, unit) + 0 /\ 0 <= image.contents[unit + 1].bytes
      BY <1>4, <3>1, <3>3
    <3>5. Accounted'
      BY <1>0, <1>1, <3>1, <3>2, <3>4 DEF Accounted, Late, Budget
    <3>q. QED
      BY <1>0, <1>1, <1>6, <3>1, <3>5
  <2>q. QED
    BY <2>1, <2>2
<1>8. ASSUME InflateChunk PROVE IInv'
  <2>1. PICK n \in 1 .. Lesser(Chunk, Left) :
           /\ given' = given + n
           /\ out' = out + n
    BY <1>8 DEF InflateChunk
  <2>2. /\ pc = "inflate" /\ pc' = "inflate" /\ cap' = Grown
        /\ UNCHANGED << image, cause, extent, payload, unit >>
    BY <1>8 DEF InflateChunk
  <2>3. Left \in Int /\ Left = image.contents[unit + 1].bytes - given
    BY <1>1, <1>5, <2>2 DEF Left, Content
  <2>4. n \in Nat /\ n <= Chunk /\ n <= Left
    <3>1. Lesser(Chunk, Left) \in Int /\ Lesser(Chunk, Left) <= Chunk
          /\ Lesser(Chunk, Left) <= Left
      <4>1. Chunk \in Int /\ Left \in Int
        BY <1>3, <2>3
      <4>q. QED
        BY ONLY <4>1, OfTwo
    <3>q. QED
      BY <3>1, <1>3, <2>3
  <2>5. given' \in Nat /\ out' \in Nat /\ given' <= image.contents[unit + 1].bytes
    <3>1. given' \in Nat /\ out' \in Nat
      BY <1>0, <1>1, <2>1, <2>4
    <3> DEFINE bytes == image.contents[unit + 1].bytes
    <3>2. bytes \in Nat /\ n <= bytes - given
      BY <1>5, <2>2, <2>3, <2>4
    <3>3. given' = given + n
      BY <2>1
    <3> HIDE DEF bytes
    <3>4. given' <= bytes
      BY <1>1, <2>4, <3>2, <3>3
    <3>q. QED
      BY <3>1, <3>4 DEF bytes
  <2>6. out' <= cap' /\ cap' \in Nat /\ cap' <= Budget
    BY <1>0, <1>3, <2>1, <2>2, <2>4
  <2>7. out' = GivenBy(image, unit) + given'
    BY <1>1, <1>5, <2>1, <2>2, <2>4
  <2>8. Accounted'
    BY <1>0, <1>1, <1>5, <2>2, <2>5, <2>7 DEF Accounted, Late, Budget
  <2>q. QED
    BY <1>1, <1>6, <2>2, <2>5, <2>6, <2>8
<1>9. ASSUME EndUnit PROVE IInv'
  <2>1. /\ pc = "inflate" /\ Left = 0 /\ unit' = unit + 1 /\ pc' = "unit"
        /\ cap' = IF Remaining = 0 THEN cap ELSE Grown
        /\ UNCHANGED << image, cause, extent, payload, given, out >>
    BY <1>9 DEF EndUnit
  <2>2. given = image.contents[unit + 1].bytes
    BY <1>1, <1>5, <2>1 DEF Left, Content
  <2>3. unit' \in Nat /\ unit' <= UnitCount(image) /\ out = GivenBy(image, unit')
    BY <1>0, <1>1, <1>5, <2>1, <2>2
  <2>4. cap' \in Nat /\ cap' <= Budget /\ out' <= cap' /\ out' \in Nat /\ given' \in Nat
    BY <1>0, <1>1, <1>3, <2>1
  <2>5. Accounted'
    BY <1>0, <1>1, <2>1, <2>3 DEF Accounted, Late, Budget
  <2>q. QED
    BY <1>6, <2>1, <2>3, <2>4, <2>5
<1>10. ASSUME FailUnit PROVE IInv'
  <2>1. CASE Refuse("corrupt")
    BY <2>1, RefusalKeeps
  <2>2. CASE ~Refuse("corrupt")
    <3>1. pc = "inflate" /\ Left > 0 /\ Remaining = 0 /\ Refuse("budget")
      BY <1>10, <2>2 DEF FailUnit
    <3>2. given < image.contents[unit + 1].bytes /\ out = Budget
      BY <1>0, <1>1, <1>5, <3>1 DEF Left, Content, Remaining
    <3>3. unit + 1 \in 0 .. UnitCount(image)
      BY <1>0, <1>1, <1>5, <3>1
    <3>4. /\ GivenBy(image, unit + 1) \in Nat
          /\ GivenBy(image, UnitCount(image)) \in Nat
      BY <1>0, <1>2, <3>3
    <3>5. GivenBy(image, UnitCount(image)) > Budget
      BY SMTT(30), <1>0, <1>1, <1>5, <3>1, <3>2, <3>4
    <3>q. QED
      BY <3>1, <3>5, RefusalKeeps
  <2>q. QED
    BY <2>1, <2>2
<1>11. ASSUME EndInflation PROVE IInv'
  <2>1. /\ pc = "unit" /\ unit = Len(Units(image)) /\ pc' = "size"
        /\ UNCHANGED << image, cause, extent, payload, unit, given, out, cap >>
    BY <1>11 DEF EndInflation
  <2>2. out = GivenBy(image, UnitCount(image))
    BY <1>0, <1>4, <2>1
  <2>3. Accounted'
    BY <1>0, <2>1, <2>2 DEF Accounted, Late
  <2>q. QED
    BY <1>0, <1>1, <1>6, <2>1, <2>3
<1>q. QED
  BY <1>7, <1>8, <1>9, <1>10, <1>11

\* Every step keeps the invariant.
LEMMA StepKeeps == IInv /\ [Next]_vars => IInv'
<1> SUFFICES ASSUME IInv, [Next]_vars PROVE IInv'
  OBVIOUS
<1>1. CASE ResolveProperties \/ CheckLayout \/ CheckExtents \/ Convert
  BY <1>1, Checks
<1>2. CASE \/ CopyExtent \/ FailExtent \/ EndCopy
           \/ WithoutCompression \/ RefuseCompression
  BY <1>2, Copies
<1>3. CASE StartInflation
  BY <1>3, Starting
<1>4. CASE StartUnit \/ InflateChunk \/ EndUnit \/ FailUnit \/ EndInflation
  BY <1>4, UnitSteps
<1>5. CASE CheckSize
  BY <1>5, Reads
<1>6. CASE ReadComponents \/ ReadMixed \/ ReadRows \/ ReadPixels \/ ReadMultiY
  BY <1>6, Reads
<1>7. CASE UNCHANGED vars
  <2>1. UNCHANGED << image, pc, cause, extent, payload, unit, given, out, cap >>
    BY <1>7 DEF vars
  <2>2. Budget' = Budget
    BY <2>1 DEF Budget
  <2>q. QED
    BY <2>1, <2>2 DEF IInv, Typed, Passed, Bounded, Accounted, Early, Late
<1>q. QED
  BY <1>1, <1>2, <1>3, <1>4, <1>5, <1>6, <1>7 DEF Next

\* The inductive invariant holds in every behaviour.
THEOREM InvAlways == Spec => []IInv
  BY Initially, StepKeeps, PTL DEF Spec

\* However the decoders of the units deal out their bytes, the buffer stays
\* within the budget of the layout and the image is read from whole units
\* (read_unit_into_budget of lib.rs and its caller).
THEOREM BudgetOfLayoutKept == Spec => []InflatesWithinBudget
  BY InvAlways, InvImplies, PTL

\* A quotient that is rounded up reaches the number by less than one divisor.
LEMMA CeilBounds ==
    ASSUME NEW x \in Nat, NEW a \in Nat \ {0}
    PROVE  /\ CeilDiv(x, a) \in Nat /\ x <= a * CeilDiv(x, a) /\ a * CeilDiv(x, a) < x + a
<1>1. x + a - 1 \in Int
  OBVIOUS
<1>2. /\ (x + a - 1) \div a \in Int /\ a * ((x + a - 1) \div a) <= x + a - 1
      /\ x + a - 1 < a * ((x + a - 1) \div a) + a
  BY ONLY <1>1, a \in Nat \ {0}, DivBounds
<1>q. QED
  BY <1>2, CeilNatural DEF CeilDiv

\* It is the only one that does.
LEMMA CeilUnique ==
    ASSUME NEW x \in Nat, NEW a \in Nat \ {0}, NEW q \in Nat,
           x <= a * q, a * q < x + a
    PROVE  CeilDiv(x, a) = q
<1>1. x + a - 1 \in Int /\ a * q <= x + a - 1 /\ x + a - 1 < a * q + a /\ q \in Int
  BY ProductNatural
<1>q. QED
  BY ONLY <1>1, a \in Nat \ {0}, DivUnique DEF CeilDiv

\* Aligning does not go back.
LEMMA AlignGrows ==
    ASSUME NEW v \in Nat, NEW a \in Nat
    PROVE  AlignUp(v, a) \in Nat /\ v <= AlignUp(v, a)
  BY CeilBounds, AlignNatural DEF AlignUp

\* Whole units of the alignment before a number stay before it.
LEMMA AlignShifts ==
    ASSUME NEW v \in Nat, NEW a \in Nat, NEW q \in Nat
    PROVE  AlignUp(a * q + v, a) = a * q + AlignUp(v, a)
<1>1. CASE a = 0
  BY <1>1 DEF AlignUp
<1>2. CASE a # 0
  <2> DEFINE c == CeilDiv(v, a)
  <2>1. c \in Nat /\ v <= a * c /\ a * c < v + a
    BY <1>2, CeilBounds
  <2>x. AlignUp(v, a) = a * c
    BY <1>2 DEF AlignUp
  <2> HIDE DEF c
  <2>2. a * q \in Nat /\ a * c \in Nat /\ a * (q + c) = a * q + a * c /\ q + c \in Nat
    BY <2>1, ProductNatural, Distributes
  <2>3. CeilDiv(a * q + v, a) = q + c
    <3>1. a * q + v \in Nat /\ a * q + v <= a * (q + c) /\ a * (q + c) < (a * q + v) + a
      BY <2>1, <2>2
    <3>2. a \in Nat \ {0}
      BY <1>2
    <3>q. QED
      BY ONLY <3>1, <3>2, <2>2, CeilUnique
  <2>q. QED
    BY <1>2, <2>2, <2>3, <2>x DEF AlignUp
<1>q. QED
  BY <1>1, <1>2

\* Bytes: alignment to eight bits does not depend on whole bytes before.
LEMMA ByteAlign ==
    ASSUME NEW b \in Nat, NEW m \in Nat
    PROVE  /\ ToByte(8 * m + b) = 8 * m + ToByte(b)
           /\ ToByte(b) = 8 * CeilDiv(b, 8) /\ ToByte(b) \in Nat
           /\ ToByte(b) % 8 = 0 /\ b <= ToByte(b) /\ ToByte(b) < b + 8
           /\ (ToByte(b) \div 8) = CeilDiv(b, 8) /\ CeilDiv(b, 8) \in Nat
           /\ CeilDiv(8 * m, 8) = m
           /\ (8 * m) \div 8 = m
  BY DEF ToByte, AlignUp, CeilDiv

(***************************************************************************)
(* Runs of groups: the ends of a group do not depend on whole bytes before  *)
(* it, so that a run is a first group and others that are all as long.     *)
(***************************************************************************)
\* A sample takes at least its depth; an aligned one takes whole bytes.
LEMMA SampleFacts ==
    ASSUME NEW spec \in ComponentSpecs
    PROVE  /\ SampleBits(spec) \in Nat /\ spec.depth \in Nat /\ spec.depth <= SampleBits(spec)
           /\ spec.align # 0 => SampleBits(spec) % 8 = 0
<1>0. spec.depth \in Nat /\ spec.align \in Nat
  BY DEF ComponentSpecs
<1>1. CASE spec.align = 0
  BY <1>0, <1>1 DEF SampleBits
<1>2. CASE spec.align # 0
  <2> DEFINE c == CeilDiv(spec.depth, 8)
             v == AlignUp(c, spec.align)
  <2>1. c \in Nat /\ spec.depth <= 8 * c
    BY <1>0, CeilBounds
  <2>2. v \in Nat /\ c <= v
    BY <1>0, <2>1, AlignGrows
  <2>3. SampleBits(spec) = 8 * v
    BY <1>2 DEF SampleBits
  <2> HIDE DEF c, v
  <2>q. QED
    BY <1>0, <2>1, <2>2, <2>3
<1>q. QED
  BY <1>1, <1>2

\* Whole bytes before a sample are before its end.
LEMMA EndAfterShifts ==
    ASSUME NEW bit \in Nat, NEW m \in Nat, NEW spec \in ComponentSpecs
    PROVE  EndAfter(8 * m + bit, spec) = 8 * m + EndAfter(bit, spec)
<1>1. SampleBits(spec) \in Nat
  BY SampleFacts
<1>2. ToByte(8 * m + bit) = 8 * m + ToByte(bit) /\ ToByte(bit) \in Nat
  BY ByteAlign
<1>q. QED
  BY <1>1, <1>2 DEF EndAfter

\* Whole bytes before a group are before the end of each of its samples.
LEMMA EndShifts ==
    ASSUME NEW group \in Seq(ComponentSpecs), NEW start \in Nat, NEW m \in Nat
    PROVE  \A k \in 0 .. Len(group) :
             EndUpto(group, 8 * m + start, k) = 8 * m + EndUpto(group, start, k)
<1>0. Len(group) \in Nat /\ \A k \in 1 .. Len(group) : group[k] \in ComponentSpecs
  BY LenProperties, ElementOfSeq
<1> DEFINE f(k) == EndUpto(group, 8 * m + start, k)
           g(k) == EndUpto(group, start, k)
<1>s. 8 * m + start \in Nat
  OBVIOUS
<1>1. /\ f(0) = 8 * m + start
      /\ \A k \in 1 .. Len(group) : f(k) = EndAfter(f(k - 1), group[k])
  BY <1>s, EndSteps
<1>2. /\ g(0) = start
      /\ \A k \in 1 .. Len(group) : g(k) = EndAfter(g(k - 1), group[k])
      /\ \A k \in 0 .. Len(group) : g(k) \in Nat
  BY EndSteps, EndGrows
<1> DEFINE S == {k \in Nat : f(k) = 8 * m + g(k)}
<1> HIDE DEF f, g
<1>3. 0 \in S
  BY <1>1, <1>2
<1>4. ASSUME NEW k \in 0 .. Len(group), k < Len(group), k \in S
      PROVE  k + 1 \in S
  <2>1. k + 1 \in 1 .. Len(group) /\ (k + 1) - 1 = k /\ k + 1 \in Nat
    BY <1>0, <1>4
  <2>2. /\ f(k + 1) = EndAfter(f(k), group[k + 1])
        /\ g(k + 1) = EndAfter(g(k), group[k + 1])
        /\ group[k + 1] \in ComponentSpecs
    BY <1>0, <1>1, <1>2, <2>1
  <2>3. f(k) = 8 * m + g(k) /\ g(k) \in Nat
    BY <1>2, <1>4
  <2>4. EndAfter(8 * m + g(k), group[k + 1]) = 8 * m + EndAfter(g(k), group[k + 1])
    BY <2>2, <2>3, EndAfterShifts
  <2>q. QED
    BY <2>1, <2>2, <2>3, <2>4
<1>5. \A k \in 0 .. Len(group) : k \in S
  <2> HIDE DEF S
  <2>q. QED
    BY <1>0, <1>3, <1>4, Climb
<1>q. QED
  BY <1>5 DEF f, g

\* A group without alignment takes as many bits wherever it starts.
LEMMA PlainShifts ==
    ASSUME NEW group \in Seq(ComponentSpecs), NEW start \in Nat,
           \A k \in 1 .. Len(group) : group[k].align = 0
    PROVE  GroupEndBit(group, start) = start + GroupEndBit(group, 0)
<1>0. Len(group) \in Nat /\ \A k \in 1 .. Len(group) : group[k] \in ComponentSpecs
  BY LenProperties, ElementOfSeq
<1> DEFINE f(k) == EndUpto(group, start, k)
           g(k) == EndUpto(group, 0, k)
<1>1. /\ f(0) = start
      /\ \A k \in 1 .. Len(group) : f(k) = EndAfter(f(k - 1), group[k])
      /\ f(Len(group)) = GroupEndBit(group, start)
  BY EndSteps
<1>2. /\ g(0) = 0
      /\ \A k \in 1 .. Len(group) : g(k) = EndAfter(g(k - 1), group[k])
      /\ \A k \in 0 .. Len(group) : g(k) \in Nat
      /\ g(Len(group)) = GroupEndBit(group, 0)
  BY EndSteps, EndGrows
<1> DEFINE S == {k \in Nat : f(k) = start + g(k)}
<1> HIDE DEF f, g
<1>3. 0 \in S
  BY <1>1, <1>2
<1>4. ASSUME NEW k \in 0 .. Len(group), k < Len(group), k \in S
      PROVE  k + 1 \in S
  <2>1. k + 1 \in 1 .. Len(group) /\ (k + 1) - 1 = k /\ k + 1 \in Nat
    BY <1>0, <1>4
  <2>2. /\ f(k + 1) = EndAfter(f(k), group[k + 1])
        /\ g(k + 1) = EndAfter(g(k), group[k + 1])
        /\ group[k + 1] \in ComponentSpecs /\ group[k + 1].align = 0
    BY <1>0, <1>1, <1>2, <2>1
  <2>3. f(k) = start + g(k) /\ g(k) \in Nat /\ SampleBits(group[k + 1]) \in Nat
    BY <1>2, <1>4, <2>2, SampleFacts
  <2>q. QED
    BY <2>1, <2>2, <2>3 DEF EndAfter
<1>5. \A k \in 0 .. Len(group) : k \in S
  <2> HIDE DEF S
  <2>q. QED
    BY <1>0, <1>3, <1>4, Climb
<1>q. QED
  BY <1>0, <1>1, <1>2, <1>5

\* After an aligned sample the phase of the bits is always the same.
LEMMA AlignedPhase ==
    ASSUME NEW group \in Seq(ComponentSpecs), NEW start \in Nat,
           NEW j \in 1 .. Len(group), group[j].align # 0
    PROVE  GroupEndBit(group, start) % 8 = GroupEndBit(group, 0) % 8
<1>0. Len(group) \in Nat /\ \A k \in 1 .. Len(group) : group[k] \in ComponentSpecs
  BY LenProperties, ElementOfSeq
<1> DEFINE f(k) == EndUpto(group, start, k)
           g(k) == EndUpto(group, 0, k)
<1>1. /\ \A k \in 1 .. Len(group) : f(k) = EndAfter(f(k - 1), group[k])
      /\ \A k \in 0 .. Len(group) : f(k) \in Nat
      /\ f(Len(group)) = GroupEndBit(group, start)
  BY EndSteps, EndGrows
<1>2. /\ \A k \in 1 .. Len(group) : g(k) = EndAfter(g(k - 1), group[k])
      /\ \A k \in 0 .. Len(group) : g(k) \in Nat
      /\ g(Len(group)) = GroupEndBit(group, 0)
  BY EndSteps, EndGrows
<1> DEFINE S == {k \in Nat : j <= k => f(k) % 8 = g(k) % 8}
<1> HIDE DEF f, g
<1>3. 0 \in S
  OBVIOUS
<1>4. ASSUME NEW k \in 0 .. Len(group), k < Len(group), k \in S
      PROVE  k + 1 \in S
  <2>1. k + 1 \in 1 .. Len(group) /\ (k + 1) - 1 = k /\ k + 1 \in Nat
    BY <1>0, <1>4
  <2> DEFINE spec == group[k + 1]
             size == SampleBits(spec)
             a == f(k)
             b == g(k)
  <2>2. /\ f(k + 1) = EndAfter(a, spec) /\ g(k + 1) = EndAfter(b, spec)
        /\ spec \in ComponentSpecs /\ a \in Nat /\ b \in Nat
    BY <1>0, <1>1, <1>2, <2>1
  <2>3. size \in Nat /\ (spec.align # 0 => size % 8 = 0)
    BY <2>2, SampleFacts
  <2>4. /\ ToByte(a) \in Nat /\ ToByte(a) % 8 = 0
        /\ ToByte(b) \in Nat /\ ToByte(b) % 8 = 0
    <3> HIDE DEF a, b
    <3>1. 0 \in Nat
      OBVIOUS
    <3>q. QED
      BY <2>2, <3>1, ByteAlign
  <2>5. k + 1 # j => (j <= k + 1 => a % 8 = b % 8)
    BY <1>4
  <2>6. k + 1 = j => spec.align # 0
    OBVIOUS
  <2>7. /\ EndAfter(a, spec) = (IF spec.align # 0 THEN ToByte(a) ELSE a) + size
        /\ EndAfter(b, spec) = (IF spec.align # 0 THEN ToByte(b) ELSE b) + size
    BY DEF EndAfter
  <2> HIDE DEF a, b, size, spec
  <2>8. j <= k + 1 => EndAfter(a, spec) % 8 = EndAfter(b, spec) % 8
    <3>1. CASE spec.align # 0
      <4> DEFINE x == ToByte(a)
                 y == ToByte(b)
      <4>1. EndAfter(a, spec) = x + size /\ EndAfter(b, spec) = y + size
        BY <3>1, <2>7
      <4>2. x \in Nat /\ x % 8 = 0 /\ y \in Nat /\ y % 8 = 0 /\ size \in Nat /\ size % 8 = 0
        BY <3>1, <2>3, <2>4
      <4> HIDE DEF x, y
      <4>3. (x + size) % 8 = (y + size) % 8
        BY <4>2
      <4>q. QED
        BY <4>1, <4>3
    <3>2. CASE spec.align = 0
      BY <3>2, <2>2, <2>3, <2>5, <2>6, <2>7
    <3>q. QED
      BY <3>1, <3>2
  <2>q. QED
    BY <2>1, <2>2, <2>8
<1>5. \A k \in 0 .. Len(group) : k \in S
  <2> HIDE DEF S
  <2>q. QED
    BY <1>0, <1>3, <1>4, Climb
<1>q. QED
  BY <1>0, <1>1, <1>2, <1>5

\* A run with one group more ends where that group ends.
LEMMA RunNext ==
    ASSUME NEW group \in Seq(ComponentSpecs), NEW n \in Nat
    PROVE  /\ GroupRunBits(group, n) \in Nat
           /\ GroupEndBit(group, GroupRunBits(group, n)) = GroupRunBits(group, n + 1)
           /\ GroupRunBits(group, 0) = 0
<1> DEFINE first == GroupEndBit(group, 0)
           phase == first % 8
           size == GroupEndBit(group, phase) - phase
<1>1. first \in Nat
  BY GroupEnds
<1>2. phase \in Nat /\ phase < 8 /\ first - phase = 8 * (first \div 8) /\ first \div 8 \in Nat
  <2> HIDE DEF first
  <2>q. QED
    BY <1>1
<1>3. size \in Nat /\ GroupEndBit(group, phase) = size + phase
  <2>1. GroupEndBit(group, phase) \in Nat /\ phase <= GroupEndBit(group, phase)
    BY <1>2, GroupEnds
  <2> HIDE DEF phase
  <2>q. QED
    BY <1>2, <2>1
<1>4. GroupRunBits(group, 0) = 0
  BY DEF GroupRunBits
<1>5. \A k \in Nat \ {0} : GroupRunBits(group, k) = first + size * (k - 1)
  BY DEF GroupRunBits
<1>6. CASE n = 0
  <2>1. GroupRunBits(group, 1) = first + size * 0
    BY <1>5
  <2> HIDE DEF first, size
  <2>2. GroupRunBits(group, 1) = first
    BY <1>1, <1>3, <2>1
  <2>q. QED
    BY <1>4, <1>6, <2>2 DEF first
<1>7. CASE n # 0
  <2> DEFINE run == first + size * (n - 1)
  <2>1. GroupRunBits(group, n) = run /\ GroupRunBits(group, n + 1) = first + size * n
    <3>1. n \in Nat \ {0} /\ n + 1 \in Nat \ {0} /\ (n + 1) - 1 = n
      BY <1>7
    <3>q. QED
      BY <1>5, <3>1
  <2>2. size * (n - 1) \in Nat /\ size * n = size * (n - 1) + size
    <3> HIDE DEF size
    <3>1. n - 1 \in Nat
      BY <1>7
    <3>2. size * (n - 1) \in Nat
      BY <1>3, <3>1, ProductNatural
    <3>3. size * ((n - 1) + 1) = size * (n - 1) + size * 1
      BY <1>3, <3>1, Distributes
    <3>q. QED
      BY <1>3, <3>1, <3>2, <3>3
  <2>3. run \in Nat
    <3> HIDE DEF first, size
    <3>q. QED
      BY <1>1, <2>2
  <2>4. CASE \A k \in 1 .. Len(group) : group[k].align = 0
    <3>1. GroupEndBit(group, run) = run + first
      BY <2>3, <2>4, PlainShifts
    <3>2. GroupEndBit(group, phase) = phase + first
      BY <1>2, <2>4, PlainShifts
    <3>3. size = first
      <4> HIDE DEF first, phase
      <4>q. QED
        BY <1>1, <1>2, <3>2
    <3>4. run + first = first + size * n
      <4> HIDE DEF first, size
      <4>q. QED
        BY <1>1, <2>2, <3>3
    <3>q. QED
      BY <1>4, <2>1, <2>3, <3>1, <3>4
  <2>5. CASE \E j \in 1 .. Len(group) : group[j].align # 0
    <3>1. PICK j \in 1 .. Len(group) : group[j].align # 0
      BY <2>5
    <3>2. GroupEndBit(group, phase) % 8 = phase
      BY <1>2, <3>1, AlignedPhase
    <3> DEFINE e == size \div 8
               m == first \div 8 + e * (n - 1)
    <3>3. e \in Nat /\ size = 8 * e
      <4> HIDE DEF size, phase
      <4>q. QED
        BY <1>2, <1>3, <3>2
    <3>4. e * (n - 1) \in Nat /\ size * (n - 1) = 8 * (e * (n - 1))
      <4> HIDE DEF e, size
      <4>1. n - 1 \in Nat
        BY <1>7
      <4>q. QED
        BY <3>3, <4>1, ProductNatural, Distributes
    <3>5. m \in Nat /\ run = 8 * m + phase
      <4> HIDE DEF size, phase, first, e
      <4>q. QED
        BY SMTT(30), <1>1, <1>2, <2>2, <3>4
    <3>6. GroupEndBit(group, run) = 8 * m + GroupEndBit(group, phase)
      <4>1. Len(group) \in Nat
        BY LenProperties
      <4>2. Len(group) \in 0 .. Len(group)
        BY <4>1
      <4> HIDE DEF m, phase, run
      <4>3. 8 * m + phase \in Nat
        BY <1>2, <3>5
      <4>4. EndUpto(group, 8 * m + phase, Len(group)) = 8 * m + EndUpto(group, phase, Len(group))
        BY <1>2, <3>5, <4>2, EndShifts
      <4>5. /\ EndUpto(group, 8 * m + phase, Len(group)) = GroupEndBit(group, 8 * m + phase)
            /\ EndUpto(group, phase, Len(group)) = GroupEndBit(group, phase)
        BY <1>2, <4>3, EndSteps
      <4>q. QED
        BY <3>5, <4>4, <4>5
    <3>7. 8 * m + GroupEndBit(group, phase) = first + size * n
      <4> HIDE DEF size, first, m, phase
      <4>q. QED
        BY <1>1, <1>2, <1>3, <2>2, <3>5
    <3>q. QED
      BY <1>4, <2>1, <2>3, <3>6, <3>7
  <2>q. QED
    BY <2>4, <2>5
<1>q. QED
  BY <1>6, <1>7

\* Longer runs do not end earlier.
LEMMA RunGrows ==
    ASSUME NEW group \in Seq(ComponentSpecs), NEW n \in Nat, NEW m \in 0 .. n
    PROVE  GroupRunBits(group, m) <= GroupRunBits(group, n)
<1> DEFINE f(k) == GroupRunBits(group, k)
           S == {k \in Nat : f(m) <= f(m + k)}
           d == n - m
<1>0. d \in Nat /\ m \in Nat /\ m + d = n
  OBVIOUS
<1>1. \A k \in Nat : f(k) \in Nat /\ f(k) <= f(k + 1)
  <2> SUFFICES ASSUME NEW k \in Nat PROVE f(k) \in Nat /\ f(k) <= f(k + 1)
    OBVIOUS
  <2>1. f(k) \in Nat /\ GroupEndBit(group, f(k)) = f(k + 1)
    BY RunNext
  <2> HIDE DEF f
  <2>q. QED
    BY <2>1, GroupEnds
<1> HIDE DEF f
<1>2. 0 \in S
  BY <1>0, <1>1
<1>3. ASSUME NEW k \in 0 .. d, k < d, k \in S
      PROVE  k + 1 \in S
  <2>1. m + k \in Nat /\ m + (k + 1) = (m + k) + 1 /\ k + 1 \in Nat
    BY <1>0, <1>3
  <2>2. f(m) \in Nat /\ f(m + k) \in Nat /\ f(m + k) <= f((m + k) + 1) /\ f((m + k) + 1) \in Nat
    <3> DEFINE j == m + k
    <3>1. j \in Nat /\ j + 1 \in Nat /\ m \in Nat
      BY <1>0, <2>1
    <3> HIDE DEF j
    <3>2. f(j) \in Nat /\ f(j) <= f(j + 1) /\ f(j + 1) \in Nat /\ f(m) \in Nat
      BY <1>1, <3>1
    <3>q. QED
      BY <3>2 DEF j
  <2>3. f(m) <= f(m + k)
    BY <1>3
  <2>4. f(m) <= f((m + k) + 1)
    BY <2>2, <2>3
  <2>q. QED
    BY <2>1, <2>4
<1>4. \A k \in 0 .. d : k \in S
  <2> HIDE DEF S, d
  <2>q. QED
    BY <1>0, <1>2, <1>3, Climb
<1>q. QED
  BY <1>0, <1>4 DEF f

\* A run of one sample takes as many times its bits.
LEMMA RunOfOne ==
    ASSUME NEW spec \in ComponentSpecs, NEW n \in Nat
    PROVE  GroupRunBits(<< spec >>, n) = SampleBits(spec) * n
<1> DEFINE group == << spec >>
           f(k) == GroupRunBits(group, k)
           S == {k \in Nat : f(k) = SampleBits(spec) * k}
<1>0. SampleBits(spec) \in Nat /\ (spec.align # 0 => SampleBits(spec) % 8 = 0)
  BY SampleFacts
<1>1. group \in Seq(ComponentSpecs) /\ Len(group) = 1 /\ group[1] = spec
  <2> HIDE DEF ComponentSpecs
  <2>q. QED
    OBVIOUS
<1> HIDE DEF group
<1>2. ASSUME NEW start \in Nat
      PROVE  GroupEndBit(group, start) = EndAfter(start, spec)
  <2>1. 1 \in 1 .. Len(group) /\ 1 - 1 = 0
    BY <1>1
  <2>2. /\ EndUpto(group, start, 0) = start
        /\ \A k \in 1 .. Len(group) :
             EndUpto(group, start, k) = EndAfter(EndUpto(group, start, k - 1), group[k])
        /\ EndUpto(group, start, Len(group)) = GroupEndBit(group, start)
    BY <1>1, EndSteps
  <2>3. EndUpto(group, start, 1) = EndAfter(EndUpto(group, start, 1 - 1), group[1])
    BY <2>1, <2>2
  <2>q. QED
    BY <1>1, <2>1, <2>2, <2>3
<1>3. 0 \in S
  <2>1. f(0) = 0
    <3>1. 0 \in Nat
      OBVIOUS
    <3>q. QED
      BY <1>1, <3>1, RunNext
  <2>q. QED
    BY <1>0, <2>1
<1>4. ASSUME NEW k \in 0 .. n, k < n, k \in S
      PROVE  k + 1 \in S
  <2> DEFINE size == SampleBits(spec)
             run == size * k
  <2>1. f(k) = run /\ f(k) \in Nat /\ GroupEndBit(group, f(k)) = f(k + 1) /\ k + 1 \in Nat
    BY <1>1, <1>4, RunNext
  <2>2. f(k + 1) = EndAfter(run, spec)
    BY <1>2, <2>1
  <2>3. size * (k + 1) = run + size
    <3> HIDE DEF size
    <3>q. QED
      BY <1>0, Distributes DEF size
  <2>4. spec.align # 0 => ToByte(run) = run
    <3> SUFFICES ASSUME spec.align # 0 PROVE ToByte(run) = run
      OBVIOUS
    <3> DEFINE e == size \div 8
    <3>1. size = 8 * e /\ e \in Nat
      <4> HIDE DEF size
      <4>q. QED
        BY <1>0 DEF size
    <3> HIDE DEF e, size
    <3>2. run = 8 * (e * k) /\ e * k \in Nat
      BY <3>1, ProductNatural, Distributes
    <3> HIDE DEF run
    <3> DEFINE m == e * k
    <3>3. m \in Nat /\ run = 8 * m
      BY <3>2
    <3> HIDE DEF m
    <3>q. QED
      BY <3>3 DEF ToByte, AlignUp, CeilDiv
  <2>5. f(k + 1) = run + size
    BY <2>2, <2>4 DEF EndAfter
  <2>q. QED
    BY <2>1, <2>3, <2>5
<1>5. \A k \in 0 .. n : k \in S
  <2> HIDE DEF S
  <2>q. QED
    BY <1>3, <1>4, Climb
<1>q. QED
  BY <1>5 DEF f, group

\* A run of empty groups takes nothing.
LEMMA RunOfNone ==
    ASSUME NEW n \in Nat
    PROVE  GroupRunBits(<< >>, n) = 0
<1> DEFINE group == << >>
           f(k) == GroupRunBits(group, k)
           S == {k \in Nat : f(k) = 0}
<1>1. group \in Seq(ComponentSpecs) /\ Len(group) = 0
  OBVIOUS
<1> HIDE DEF group
<1>2. 0 \in S
  <2>1. 0 \in Nat
    OBVIOUS
  <2>q. QED
    BY <1>1, <2>1, RunNext
<1>3. ASSUME NEW k \in 0 .. n, k < n, k \in S
      PROVE  k + 1 \in S
  <2>0. k \in Nat /\ k + 1 \in Nat /\ f(k) = 0
    BY <1>3
  <2>1. GroupEndBit(group, f(k)) = f(k + 1)
    BY <1>1, <2>0, RunNext
  <2>2. 0 \in Nat
    OBVIOUS
  <2>3. EndUpto(group, 0, 0) = 0 /\ EndUpto(group, 0, Len(group)) = GroupEndBit(group, 0)
    BY <1>1, <2>2, EndSteps
  <2>q. QED
    BY <1>1, <2>0, <2>1, <2>3
<1>4. \A k \in 0 .. n : k \in S
  <2> HIDE DEF S
  <2>q. QED
    BY <1>2, <1>3, Climb
<1>q. QED
  BY <1>4 DEF f, group

(***************************************************************************)
(* Sums of the first members of a sequence.                                *)
(***************************************************************************)
\* The sum of a sequence is that of all of its members.
LEMMA SumIsUpto ==
    ASSUME NEW c \in Nat, NEW e, DOMAIN e = 1 .. c
    PROVE  Sum(e) = Upto(e, c)
  BY SumOfSequence DEF Upto

\* A run holds the bits of all the samples of its groups.
LEMMA RunHolds ==
    ASSUME NEW group \in Seq(ComponentSpecs), NEW n \in Nat
    PROVE  /\ Upto([k \in 1 .. Len(group) |-> group[k].depth], Len(group)) \in Nat
           /\ Upto([k \in 1 .. Len(group) |-> group[k].depth], Len(group)) * n
                <= GroupRunBits(group, n)
<1>0. Len(group) \in Nat /\ \A k \in 1 .. Len(group) : group[k] \in ComponentSpecs
  BY LenProperties, ElementOfSeq
<1> DEFINE c == Len(group)
           e == [k \in 1 .. c |-> group[k].depth]
           d == Upto(e, c)
<1>1. \A k \in 1 .. c : e[k] \in Nat /\ e[k] = group[k].depth
  BY <1>0 DEF ComponentSpecs
<1>2. /\ Upto(e, 0) = 0 /\ \A k \in 0 .. c : Upto(e, k) \in Nat
      /\ \A k \in 1 .. c : Upto(e, k) = Upto(e, k - 1) + e[k]
  <2> HIDE DEF e
  <2>q. QED
    BY <1>0, <1>1, UptoFacts
<1>3. ASSUME NEW start \in Nat
      PROVE  start + d <= GroupEndBit(group, start)
  <2> DEFINE f(k) == EndUpto(group, start, k)
  <2>1. /\ f(0) = start
        /\ \A k \in 1 .. c : f(k) = EndAfter(f(k - 1), group[k])
        /\ f(c) = GroupEndBit(group, start)
        /\ \A k \in 0 .. c : f(k) \in Nat
    BY EndSteps, EndGrows
  <2> DEFINE S == {k \in Nat : start + Upto(e, k) <= f(k)}
  <2> HIDE DEF f, e
  <2>2. 0 \in S
    BY <1>2, <2>1
  <2>3. ASSUME NEW k \in 0 .. c, k < c, k \in S
        PROVE  k + 1 \in S
    <3>1. k + 1 \in 1 .. c /\ (k + 1) - 1 = k /\ k + 1 \in Nat
      BY <1>0, <2>3
    <3>2. /\ f(k + 1) = EndAfter(f(k), group[k + 1]) /\ f(k) \in Nat
          /\ Upto(e, k + 1) = Upto(e, k) + e[k + 1] /\ Upto(e, k) \in Nat
          /\ e[k + 1] = group[k + 1].depth /\ group[k + 1] \in ComponentSpecs
      BY <1>0, <1>1, <1>2, <2>1, <3>1
    <3> DEFINE spec == group[k + 1]
               size == SampleBits(spec)
               bit == f(k)
    <3>3. size \in Nat /\ spec.depth \in Nat /\ spec.depth <= size
      BY <3>2, SampleFacts
    <3>4. ToByte(bit) \in Nat /\ bit <= ToByte(bit)
      BY <3>2, ToByteGrows
    <3>5. EndAfter(bit, spec) = (IF spec.align # 0 THEN ToByte(bit) ELSE bit) + size
      BY DEF EndAfter
    <3>6. start + Upto(e, k) <= bit
      BY <2>3
    <3>7. bit + e[k + 1] <= f(k + 1) /\ e[k + 1] \in Nat
      <4> HIDE DEF size, spec
      <4>1. f(k + 1) = EndAfter(bit, spec) /\ e[k + 1] = spec.depth /\ bit \in Nat
        BY <3>2 DEF spec
      <4> HIDE DEF bit
      <4>q. QED
        BY <3>3, <3>4, <3>5, <4>1
    <3>8. start + Upto(e, k + 1) <= f(k + 1)
      <4>1. f(k + 1) \in Nat
        BY <1>0, <2>1, <3>1
      <4>2. f(k) \in Nat
        BY <3>2
      <4>q. QED
        BY <3>2, <3>6, <3>7, <4>1, <4>2
    <3>q. QED
      BY <3>1, <3>8
  <2>4. \A k \in 0 .. c : k \in S
    <3> HIDE DEF S, c
    <3>q. QED
      BY <1>0, <2>2, <2>3, Climb DEF c
  <2>5. c \in 0 .. c
    BY <1>0
  <2>q. QED
    BY <2>1, <2>4, <2>5
<1>4. d \in Nat
  <2>1. c \in 0 .. c
    BY <1>0
  <2>q. QED
    BY <1>2, <2>1
<1> DEFINE f(k) == GroupRunBits(group, k)
           T == {k \in Nat : d * k <= f(k)}
<1>5. \A k \in Nat : f(k) \in Nat /\ GroupEndBit(group, f(k)) = f(k + 1)
  BY RunNext
<1> HIDE DEF d, f
<1>6. 0 \in T
  BY <1>4, <1>5
<1>7. ASSUME NEW k \in 0 .. n, k < n, k \in T
      PROVE  k + 1 \in T
  <2>1. f(k) + d <= f(k + 1) /\ f(k) \in Nat /\ f(k + 1) \in Nat /\ k \in Nat /\ k + 1 \in Nat
    <3>1. k \in Nat /\ k + 1 \in Nat
      BY <1>7
    <3>2. f(k) \in Nat /\ f(k + 1) \in Nat /\ GroupEndBit(group, f(k)) = f(k + 1)
      BY <1>5, <3>1
    <3>3. f(k) + d <= GroupEndBit(group, f(k))
      BY <1>3, <3>2
    <3>q. QED
      BY <3>1, <3>2, <3>3
  <2>2. d * (k + 1) = d * k + d
    BY <1>4, Distributes
  <2>3. d * k \in Nat /\ d * k <= f(k)
    BY <1>4, <1>7, ProductNatural
  <2> DEFINE x == d * k
  <2>4. x \in Nat /\ x <= f(k) /\ d * (k + 1) = x + d
    BY <2>2, <2>3
  <2> HIDE DEF x
  <2>q. QED
    BY <1>4, <2>1, <2>4
<1>8. \A k \in 0 .. n : k \in T
  <2> HIDE DEF T
  <2>q. QED
    BY <1>6, <1>7, Climb
<1>q. QED
  BY <1>4, <1>8 DEF d, f

(***************************************************************************)
(* The bits that the reader takes for a group of samples.                  *)
(***************************************************************************)
\* What a bit reader can be, and what it leaves of a group of samples.
Causes == {"none", "truncated", "align", "pixelSize", "chroma"}
Readers == [bit : Nat, pixel : Nat, row : Nat, tile : Nat, cause : Causes]
Spans == Int \X Int
GroupReads == [r : Readers, spans : Seq(Spans)]

\* A component that the decoder supports has a depth.
RealSpecs == {spec \in ComponentSpecs : spec.depth >= 1}

\* A component that has a depth and whose alignment holds it takes the bytes
\* of its alignment.
LEMMA SampleReach ==
    ASSUME NEW spec \in RealSpecs, NEW bit \in Nat,
           spec.align # 0 => spec.depth <= spec.align * 8
    PROVE  /\ SampleStart(bit, spec) \in Nat
           /\ SampleStart(bit, spec) + spec.depth = EndAfter(bit, spec)
           /\ << SampleStart(bit, spec), SampleStart(bit, spec) + spec.depth - 1 >>
                = BitsFrom(IF spec.align # 0 THEN ToByte(bit) ELSE bit, spec)
<1> DEFINE d == spec.depth
           a == spec.align
           s == SampleBits(spec)
           b == ToByte(bit)
<1>1. d \in Nat /\ a \in Nat /\ d >= 1 /\ b \in Nat
  BY ToByteGrows DEF RealSpecs, ComponentSpecs
<1>2. CASE a = 0
  <2>1. s = d /\ SampleStart(bit, spec) = bit /\ EndAfter(bit, spec) = bit + d
    BY <1>2 DEF SampleBits, SampleStart, EndAfter
  <2>2. BitsFrom(IF spec.align # 0 THEN ToByte(bit) ELSE bit, spec)
          = << bit + d - d, bit + d - 1 >>
    BY <1>2, <2>1 DEF BitsFrom
  <2>3. bit + d - d = bit
    BY <1>1
  <2>q. QED
    BY <2>1, <2>2, <2>3
<1>3. CASE a # 0
  <2>1. s = 8 * a
    <3> DEFINE c == CeilDiv(d, 8)
    <3>1. s = 8 * AlignUp(c, a) /\ AlignUp(c, a) = a * CeilDiv(c, a)
      BY <1>3 DEF SampleBits, AlignUp
    <3>2. c \in Nat /\ 1 <= c /\ c <= a
      <4>1. d <= a * 8
        BY <1>3
      <4> HIDE DEF a, d
      <4>q. QED
        BY <1>1, <1>3, <4>1 DEF CeilDiv
    <3> HIDE DEF c, a
    <3>3. a \in Nat \ {0} /\ 1 \in Nat /\ c <= a * 1 /\ a * 1 < c + a
      BY <1>1, <1>3, <3>2
    <3>4. CeilDiv(c, a) = 1
      BY ONLY <3>2, <3>3, CeilUnique
    <3>q. QED
      BY <1>1, <3>1, <3>4
  <2>2. SampleStart(bit, spec) = b + a * 8 - d /\ EndAfter(bit, spec) = b + s
    BY <1>3 DEF SampleStart, EndAfter
  <2>3. d <= a * 8
    BY <1>3
  <2>4. BitsFrom(IF spec.align # 0 THEN ToByte(bit) ELSE bit, spec)
          = << b + s - d, b + s - 1 >>
    BY <1>3 DEF BitsFrom
  <2> HIDE DEF a, b, d, s
  <2>5. /\ b + a * 8 - d \in Nat /\ (b + a * 8 - d) + d = b + s
        /\ b + s - d = b + a * 8 - d
        /\ (b + a * 8 - d) + d - 1 = b + s - 1
    BY <1>1, <2>1, <2>3
  <2>q. QED
    BY <2>2, <2>4, <2>5 DEF d
<1>q. QED
  BY <1>2, <1>3

\* A reader that is moved, or ended, is a reader.
LEMMA SkipTyped ==
    ASSUME NEW r \in Readers, NEW bit \in Nat, NEW total \in Nat
    PROVE  /\ SkipTo(r, bit, total) \in Readers
           /\ r.cause # "none" => SkipTo(r, bit, total) = r
           /\ r.cause = "none" =>
                /\ bit <= total => SkipTo(r, bit, total) = [r EXCEPT !.bit = bit]
                /\ total < bit => SkipTo(r, bit, total) = [r EXCEPT !.cause = "truncated"]
  BY DEF SkipTo, Ends, Readers, Causes

\* A reader that fails keeps the first cause.
LEMMA EndsTyped ==
    ASSUME NEW r \in Readers, NEW why \in Causes
    PROVE  /\ Ends(r, why) \in Readers
           /\ r.cause # "none" => Ends(r, why) = r
           /\ r.cause = "none" => Ends(r, why) = [r EXCEPT !.cause = why]
  BY DEF Ends, Readers

\* The two ways that a sample is read.
LEMMA SampleRead ==
    ASSUME NEW s \in GroupReads, NEW spec \in RealSpecs, NEW total \in Nat
    PROVE  /\ ReadSample(s, spec, total) \in GroupReads
           /\ spec.align # 0 /\ spec.align * 8 < spec.depth =>
                ReadSample(s, spec, total) = [s EXCEPT !.r = Ends(s.r, "align")]
           /\ ~(spec.align # 0 /\ spec.align * 8 < spec.depth) =>
                ReadSample(s, spec, total)
                  = [r |-> SkipTo(s.r, EndAfter(s.r.bit, spec), total),
                     spans |-> Append(s.spans,
                                 BitsFrom(IF spec.align # 0 THEN ToByte(s.r.bit)
                                          ELSE s.r.bit, spec))]
<1>1. s.r \in Readers /\ s.spans \in Seq(Spans) /\ s.r.bit \in Nat
      /\ s = [r |-> s.r, spans |-> s.spans]
  BY DEF GroupReads, Readers
<1>2. CASE spec.align # 0 /\ spec.align * 8 < spec.depth
  <2>1. ReadSample(s, spec, total) = [s EXCEPT !.r = Ends(s.r, "align")]
    BY <1>2 DEF ReadSample
  <2>2. Ends(s.r, "align") \in Readers
    <3>1. "align" \in Causes
      BY DEF Causes
    <3>q. QED
      BY <1>1, <3>1, EndsTyped
  <2>q. QED
    BY <1>2, <2>1, <2>2 DEF GroupReads
<1>3. CASE ~(spec.align # 0 /\ spec.align * 8 < spec.depth)
  <2> DEFINE start == SampleStart(s.r.bit, spec)
             span == BitsFrom(IF spec.align # 0 THEN ToByte(s.r.bit) ELSE s.r.bit, spec)
             next == SkipTo(s.r, EndAfter(s.r.bit, spec), total)
  <2>1. spec.align # 0 => spec.depth <= spec.align * 8
    BY <1>3 DEF RealSpecs, ComponentSpecs
  <2>2. /\ start \in Nat /\ start + spec.depth = EndAfter(s.r.bit, spec)
        /\ << start, start + spec.depth - 1 >> = span
    BY <1>1, <2>1, SampleReach
  <2>3. ReadSample(s, spec, total) = [r |-> next, spans |-> Append(s.spans, span)]
    BY <1>3, <2>2 DEF ReadSample
  <2>4. next \in Readers
    <3>1. EndAfter(s.r.bit, spec) \in Nat
      BY <1>1, EndAfterGrows DEF RealSpecs
    <3>q. QED
      BY <1>1, <3>1, SkipTyped
  <2>5. Append(s.spans, span) \in Seq(Spans)
    <3>1. << start, start + spec.depth - 1 >> \in Spans
      <4>1. start \in Int /\ start + spec.depth - 1 \in Int
        BY <2>2 DEF RealSpecs, ComponentSpecs
      <4>q. QED
        BY <4>1 DEF Spans
    <3>2. span \in Spans
      BY <2>2, <3>1
    <3> HIDE DEF span, Spans
    <3>q. QED
      BY <1>1, <3>2
  <2> HIDE DEF start, span, next
  <2>6. [r |-> next, spans |-> Append(s.spans, span)] \in GroupReads
    BY <2>4, <2>5 DEF GroupReads
  <2>q. QED
    BY <1>3, <2>3, <2>6 DEF span, next
<1>q. QED
  BY <1>2, <1>3

\* The fold over a group as a function of the sets of its positions.
IsRead(g, group, first, total, S) ==
    g = [s \in SUBSET S |-> IF s = {} THEN first
                            ELSE ReadSample(g[s \ {Top(s)}], group[Top(s)], total)]

\* A group is read by the function that goes through the subsets of its
\* positions,
LEMMA ReadAsFunction ==
    ASSUME NEW r, NEW group, NEW total
    PROVE  ReadSamples(r, group, total)
              = (CHOOSE g : IsRead(g, group, [r |-> r, spans |-> << >>], total,
                                   DOMAIN group))[DOMAIN group]
  BY DEF ReadSamples, FoldLeft, MapThenFoldSet, Max, IsRead, Top

\* The same fold as a chain, one sample after the other.
IsReadChain(h, group, first, total) ==
  /\ h[0] = first
  /\ \A k \in 1 .. Len(group) : h[k] = ReadSample(h[k - 1], group[k], total)

\* that is, one sample after the other.
LEMMA ReadChain ==
    ASSUME NEW group \in Seq(RealSpecs), NEW r \in Readers, NEW total \in Nat
    PROVE  \E h : /\ IsReadChain(h, group, [r |-> r, spans |-> << >>], total)
                  /\ h[Len(group)] = ReadSamples(r, group, total)
<1> DEFINE n == Len(group)
           D == 1 .. n
           first == [r |-> r, spans |-> << >>]
           step == [x \in GroupReads \X D |-> ReadSample(x[1], group[x[2]], total)]
           g == CHOOSE f : IsRead(f, group, first, total, D)
<1>0. n \in Nat /\ DOMAIN group = D /\ \A k \in D : group[k] \in RealSpecs
  BY LenProperties, ElementOfSeq
<1>d. IsFiniteSet(D) /\ HasTops(D)
  BY <1>0, PositionTops
<1>f. first \in GroupReads
  BY DEF GroupReads
<1>s. step \in [GroupReads \X D -> GroupReads]
  BY <1>0, SampleRead
<1>1. \E f : IsRead(f, group, first, total, D)
  <2>1. PICK f : IsFold(f, step, first, D)
    <3> HIDE DEF D, step, first
    <3>q. QED
      BY ONLY <1>d, FoldExists
  <2>2. \A s \in SUBSET D : f[s] \in GroupReads
    <3> HIDE DEF n, step, first
    <3>q. QED
      BY ONLY <1>0, <1>s, <1>f, <2>1, FoldTyped
  <2>3. ASSUME NEW s \in SUBSET D
        PROVE  f[s] = IF s = {} THEN first
                      ELSE ReadSample(f[s \ {Top(s)}], group[Top(s)], total)
    <3>1. f[s] = IF s = {} THEN first ELSE step[<< f[s \ {Top(s)}], Top(s) >>]
      BY <2>1 DEF IsFold
    <3>2. CASE s = {}
      BY <3>1, <3>2
    <3>3. CASE s # {}
      <4>1. Top(s) \in D /\ s \ {Top(s)} \in SUBSET D
        BY <1>d, <3>3 DEF HasTops
      <4>2. f[s \ {Top(s)}] \in GroupReads
        BY <2>2, <4>1
      <4> HIDE DEF first
      <4>q. QED
        BY <3>1, <3>3, <4>1, <4>2
    <3>q. QED
      BY <3>2, <3>3
  <2>4. f = [s \in SUBSET D |-> f[s]]
    BY <2>1 DEF IsFold
  <2> HIDE DEF D, first
  <2>5. IsRead(f, group, first, total, D)
    BY <2>3, <2>4 DEF IsRead
  <2>q. QED
    BY <2>5
<1>2. IsRead(g, group, first, total, D)
  BY <1>1
<1>3. ReadSamples(r, group, total) = g[D]
  BY <1>0, ReadAsFunction
<1> DEFINE h == [k \in 0 .. n |-> g[1 .. k]]
<1> HIDE DEF g, first
<1>4. h[0] = first
  <2>1. g[{}] = first
    BY <1>2 DEF IsRead
  <2>2. 1 .. 0 = {} /\ 0 \in 0 .. n
    BY <1>0
  <2>q. QED
    BY <2>1, <2>2
<1>5. ASSUME NEW k \in D
      PROVE  h[k] = ReadSample(h[k - 1], group[k], total)
  <2>1. /\ Top(1 .. k) = k /\ (1 .. k) \ {k} = 1 .. k - 1
        /\ 1 .. k \in SUBSET D /\ 1 .. k # {}
    BY <1>0, PositionTops
  <2>2. g[1 .. k] = ReadSample(g[1 .. k - 1], group[k], total)
    BY <1>2, <2>1 DEF IsRead
  <2>3. k \in 0 .. n /\ k - 1 \in 0 .. n
    BY <1>0
  <2>q. QED
    BY <2>2, <2>3
<1>6. h[n] = ReadSamples(r, group, total)
  <2>1. n \in 0 .. n
    BY <1>0
  <2>q. QED
    BY <1>3, <2>1
<1> HIDE DEF h
<1>7. IsReadChain(h, group, first, total)
  BY <1>4, <1>5 DEF IsReadChain
<1>q. QED
  BY <1>6, <1>7 DEF first

\* What a group that is read leaves: the reader at the end of the group and
\* each sample where the layout puts it, or the reason that it was not read.
LEMMA GroupRead ==
    ASSUME NEW group \in Seq(RealSpecs), NEW r \in Readers, NEW total \in Nat,
           r.cause = "none", r.bit <= total
    PROVE  /\ ReadSamples(r, group, total) \in GroupReads
           /\ ReadSamples(r, group, total).r.cause = "none" =>
                /\ ReadSamples(r, group, total).r
                     = [r EXCEPT !.bit = GroupEndBit(group, r.bit)]
                /\ GroupEndBit(group, r.bit) <= total
                /\ Len(ReadSamples(r, group, total).spans) = Len(group)
                /\ \A n \in 1 .. Len(group) :
                     ReadSamples(r, group, total).spans[n] = InGroup(group, r.bit, n)
           /\ ReadSamples(r, group, total).r.cause = "truncated" =>
                total < GroupEndBit(group, r.bit)
<1>0. /\ Len(group) \in Nat /\ group \in Seq(ComponentSpecs)
      /\ \A k \in 1 .. Len(group) : group[k] \in RealSpecs /\ group[k] \in ComponentSpecs
  <2>1. Len(group) \in Nat /\ \A k \in 1 .. Len(group) : group[k] \in RealSpecs
    BY LenProperties, ElementOfSeq
  <2>2. \A k \in 1 .. Len(group) : group[k] \in ComponentSpecs
    BY <2>1 DEF RealSpecs
  <2>3. group = [k \in 1 .. Len(group) |-> group[k]]
    BY LenProperties
  <2>4. [k \in 1 .. Len(group) |-> group[k]] \in Seq(ComponentSpecs)
    <3> HIDE DEF ComponentSpecs
    <3>q. QED
      BY <2>1, <2>2, SeqDef
  <2>q. QED
    BY <2>1, <2>2, <2>3, <2>4
<1> DEFINE c == Len(group)
           start == r.bit
           f(k) == EndUpto(group, start, k)
           first == [r |-> r, spans |-> << >>]
           Out(s, k) ==
             /\ s \in GroupReads
             /\ s.r.cause = "none" =>
                  /\ s.r = [r EXCEPT !.bit = f(k)]
                  /\ f(k) <= total
                  /\ Len(s.spans) = k
                  /\ \A n \in 1 .. k : s.spans[n] = InGroup(group, start, n)
             /\ s.r.cause = "truncated" => total < f(k)
<1>b. start \in Nat /\ r = [r EXCEPT !.bit = start]
  BY DEF Readers
<1>1. /\ f(0) = start
      /\ \A k \in 1 .. c : f(k) = EndAfter(f(k - 1), group[k])
      /\ f(c) = GroupEndBit(group, start)
      /\ \A k \in 0 .. c : f(k) \in Nat
      /\ \A k \in 1 .. c : f(k - 1) <= f(k)
  BY <1>0, <1>b, EndSteps, EndGrows
<1>2. PICK h : /\ IsReadChain(h, group, first, total)
               /\ h[c] = ReadSamples(r, group, total)
  BY ReadChain
<1>3. h[0] = first /\ \A k \in 1 .. c : h[k] = ReadSample(h[k - 1], group[k], total)
  BY <1>2 DEF IsReadChain
<1>i. \A n \in 1 .. c :
        InGroup(group, start, n)
          = BitsFrom(IF group[n].align # 0 THEN ToByte(f(n - 1)) ELSE f(n - 1), group[n])
  BY DEF InGroup, EndUpto, Before
<1> HIDE DEF f
<1>4. Out(h[0], 0)
  <2>1. first \in GroupReads /\ first.r = r /\ first.spans = << >> /\ Len(first.spans) = 0
    BY DEF GroupReads
  <2>2. r.cause = "none" /\ r = [r EXCEPT !.bit = f(0)] /\ f(0) <= total
    BY <1>b, <1>1
  <2> HIDE DEF first
  <2>q. QED
    BY <1>3, <2>1, <2>2
<1>5. ASSUME NEW k \in 1 .. c, NEW s, Out(s, k - 1)
      PROVE  Out(ReadSample(s, group[k], total), k)
  <2> DEFINE spec == group[k]
             t == ReadSample(s, spec, total)
             bad == spec.align # 0 /\ spec.align * 8 < spec.depth
             span == BitsFrom(IF spec.align # 0 THEN ToByte(s.r.bit) ELSE s.r.bit, spec)
             end == EndAfter(s.r.bit, spec)
             next == SkipTo(s.r, end, total)
  <2>0. /\ spec \in RealSpecs /\ spec \in ComponentSpecs /\ s \in GroupReads /\ s.r \in Readers
        /\ s.spans \in Seq(Spans) /\ s.r.bit \in Nat
        /\ k \in Nat /\ k - 1 \in 0 .. c /\ k \in 0 .. c
    BY <1>0, <1>5 DEF GroupReads, Readers
  <2>1. /\ t \in GroupReads
        /\ bad => t = [s EXCEPT !.r = Ends(s.r, "align")]
        /\ ~bad => t = [r |-> next, spans |-> Append(s.spans, span)]
    BY <2>0, SampleRead
  <2>2. end \in Nat
    BY <2>0, EndAfterGrows
  <2>g. f(k - 1) \in Nat /\ f(k) \in Nat /\ f(k - 1) <= f(k)
        /\ f(k) = EndAfter(f(k - 1), spec)
    BY <1>1, <2>0
  <2>3. CASE s.r.cause # "none"
    <3>1. t.r = s.r
      <4>1. CASE bad
        <5>1. Ends(s.r, "align") = s.r
          BY <2>3 DEF Ends
        <5> HIDE DEF t, bad
        <5>2. t = [s EXCEPT !.r = s.r]
          BY <2>1, <4>1, <5>1
        <5>q. QED
          BY <5>2, <2>0 DEF GroupReads
      <4>2. CASE ~bad
        <5>1. next = s.r
          BY <2>3 DEF SkipTo
        <5> HIDE DEF t, bad, next
        <5>q. QED
          BY <2>1, <4>2, <5>1
      <4>q. QED
        BY <4>1, <4>2
    <3>2. s.r.cause = "truncated" => total < f(k - 1)
      BY <1>5
    <3>o. Out(t, k)
      <4> HIDE DEF t
      <4>q. QED
        BY <2>1, <2>3, <2>g, <3>1, <3>2
    <3>q. QED
      BY <3>o
  <2>4. CASE s.r.cause = "none"
    <3>0. /\ s.r = [r EXCEPT !.bit = f(k - 1)]
          /\ Len(s.spans) = k - 1
          /\ \A n \in 1 .. k - 1 : s.spans[n] = InGroup(group, start, n)
      BY <1>5, <2>4
    <3>b. s.r.bit = f(k - 1)
      BY <3>0 DEF Readers
    <3>e. end = f(k) /\ span = InGroup(group, start, k)
      BY <1>i, <2>g, <3>b
    <3>1. CASE bad
      <4>1. t.r = [s.r EXCEPT !.cause = "align"]
        <5>1. Ends(s.r, "align") = [s.r EXCEPT !.cause = "align"]
          BY <2>4 DEF Ends
        <5> HIDE DEF t, bad
        <5>2. t = [s EXCEPT !.r = [s.r EXCEPT !.cause = "align"]]
          BY <2>1, <3>1, <5>1
        <5>q. QED
          BY <5>2, <2>0 DEF GroupReads
      <4>2. t.r.cause = "align"
        <5> HIDE DEF t
        <5>q. QED
          BY <4>1, <2>0 DEF Readers
      <4>o. Out(t, k)
        <5> HIDE DEF t
        <5>q. QED
          BY <2>1, <4>2
      <4>q. QED
        BY <4>o
    <3>2. CASE ~bad
      <4>1. t.r = next /\ t.spans = Append(s.spans, span)
        <5> HIDE DEF t, bad, next, span
        <5>q. QED
          BY <2>1, <3>2
      <4>2. CASE end <= total
        <5>1. next = [s.r EXCEPT !.bit = end]
          BY <2>0, <2>2, <2>4, <4>2, SkipTyped
        <5>2. next = [r EXCEPT !.bit = f(k)]
          BY <3>0, <3>e, <5>1 DEF Readers
        <5>3. next.cause = "none"
          BY <5>2 DEF Readers
        <5>4. /\ Len(t.spans) = k
              /\ \A n \in 1 .. k : t.spans[n] = InGroup(group, start, n)
          <6> DEFINE spans == s.spans
          <6>1. spans \in Seq(Spans) /\ Len(spans) = k - 1
            BY <2>0, <3>0
          <6>2. t.spans = Append(spans, span)
            BY <4>1
          <6> HIDE DEF spans, span, t
          <6>3. /\ Len(Append(spans, span)) = Len(spans) + 1
                /\ \A n \in 1 .. Len(spans) : Append(spans, span)[n] = spans[n]
                /\ Append(spans, span)[Len(spans) + 1] = span
            BY <6>1
          <6>4. \A n \in 1 .. k - 1 : spans[n] = InGroup(group, start, n)
            BY <3>0 DEF spans
          <6>5. (k - 1) + 1 = k /\ \A n \in 1 .. k : n \in 1 .. k - 1 \/ n = k
            BY <2>0
          <6>q. QED
            BY <3>e, <6>1, <6>2, <6>3, <6>4, <6>5
        <5>5. f(k) <= total
          BY <3>e, <4>2
        <5>o. Out(t, k)
          <6> HIDE DEF t, next
          <6>q. QED
            BY <2>1, <4>1, <5>2, <5>3, <5>4, <5>5
        <5>q. QED
          BY <5>o
      <4>3. CASE total < end
        <5>1. next = [s.r EXCEPT !.cause = "truncated"]
          <6> HIDE DEF end
          <6>1. end > total
            BY <2>2, <4>3
          <6>q. QED
            BY <2>4, <6>1 DEF SkipTo, Ends
        <5>2. next.cause = "truncated"
          BY <5>1, <2>0 DEF Readers
        <5>3. total < f(k)
          BY <3>e, <4>3
        <5>o. Out(t, k)
          <6> HIDE DEF t, next
          <6>q. QED
            BY <2>1, <4>1, <5>2, <5>3
        <5>q. QED
          BY <5>o
      <4>q. QED
        BY <2>2, <4>2, <4>3
    <3>q. QED
      BY <3>1, <3>2
  <2>q. QED
    BY <2>3, <2>4
<1> DEFINE S == {k \in Nat : Out(h[k], k)}
<1> HIDE DEF Out, first
<1>6. 0 \in S
  BY <1>4
<1>7. ASSUME NEW k \in 0 .. c, k < c, k \in S
      PROVE  k + 1 \in S
  <2>1. k + 1 \in 1 .. c /\ (k + 1) - 1 = k /\ k + 1 \in Nat
    BY <1>0, <1>7
  <2>2. Out(h[k], (k + 1) - 1)
    BY <1>7, <2>1
  <2>3. h[k + 1] = ReadSample(h[k], group[k + 1], total)
    BY <1>3, <2>1
  <2>4. Out(ReadSample(h[k], group[k + 1], total), k + 1)
    BY <1>5, <2>1, <2>2
  <2>q. QED
    BY <2>1, <2>3, <2>4
<1>8. \A k \in 0 .. c : k \in S
  <2> HIDE DEF S, c
  <2>q. QED
    BY <1>0, <1>6, <1>7, Climb DEF c
<1>9. Out(ReadSamples(r, group, total), c)
  <2>1. c \in 0 .. c
    BY <1>0
  <2>q. QED
    BY <1>2, <1>8, <2>1
<1>q. QED
  BY <1>1, <1>9 DEF Out

(***************************************************************************)
(* Where the loops of an interleaving are: their bounds, and the byte that *)
(* each line of samples starts at.                                         *)
(***************************************************************************)
\* The interleavings that differ in their loops; in the others a group has a
\* sample of every component.
ByTile(i) == InterleaveType(i) = "tileComponent"
ByComponent(i) == InterleaveType(i) \in {"component", "tileComponent"}
Mixed(i) == InterleaveType(i) = "mixed"
ByRow(i) == InterleaveType(i) = "row"

\* The parts of a tile that the outer loop goes through, and the next one.
Parts(i) ==
  IF ByComponent(i) \/ Mixed(i) THEN Len(Specs(i))
  ELSE IF ByRow(i) THEN TileHeight(i) ELSE 1

NextPart(i, part) == IF Mixed(i) THEN NextTurn(i, part) ELSE part + 1

\* A turn of the loop over components is passed over when it has no group.
Turn(i, part) == Mixed(i) => MixedGroup(i, part + 1) # << >>

\* The pixels that a column of a part stands for.
StepOf(i, part) ==
  IF ByComponent(i) \/ Mixed(i) THEN Step(i, Specs(i)[part + 1].role)
  ELSE IF ByRow(i) THEN << 1, 1 >> ELSE ChromaStep(Sampling(i))

\* The lines of a part, the columns of a line and the group of a column.
LinesOf(i, part) ==
  IF ByRow(i) THEN Len(Specs(i)) ELSE TileHeight(i) \div StepOf(i, part)[2]

ColumnsOf(i, part) == TileWidth(i) \div StepOf(i, part)[1]

GroupOf(i, part, line) ==
  IF ByComponent(i) THEN << Specs(i)[part + 1] >>
  ELSE IF Mixed(i) THEN MixedGroup(i, part + 1)
  ELSE IF ByRow(i) THEN << Specs(i)[line + 1] >>
  ELSE Specs(i)

\* The place of a loop at one of its columns.
InLoops(i, p) ==
  /\ p \in [tile : Nat, part : Nat, line : Nat, column : Nat]
  /\ p.tile < TileCount(i)
  /\ p.part < Parts(i) /\ Turn(i, p.part)
  /\ p.line < LinesOf(i, p.part)
  /\ p.column < ColumnsOf(i, p.part)

\* The shape that the action of the interleaving reads a column with.
ShapeAt(i, p) ==
  IF ByComponent(i) THEN ComponentShape(i, p)
  ELSE IF Mixed(i) THEN MixedShape(i, p)
  ELSE IF ByRow(i) THEN RowShape(i, p)
  ELSE GroupShape(i, p)

\* The bytes of the parts of a tile: components, rows of all components, or
\* turns of the mixed interleaving.
PartSizes(i) == ComponentTileSizes(i, IF ByTile(i) THEN i.tileAlign ELSE 0)
RowSizes(i) == [k \in 1 .. Len(Specs(i)) |-> RowBytes(i, Specs(i)[k])]
MixedSizes(i) == [k \in 1 .. Len(Specs(i)) |-> MixedGroupBytes(i, k)]

\* The byte of a tile that a part starts at.
PartStart(i, part) ==
  IF ByComponent(i) THEN Upto(PartSizes(i), part)
  ELSE IF Mixed(i) THEN Upto(MixedSizes(i), part)
  ELSE IF ByRow(i) THEN Upto(RowSizes(i), Len(Specs(i))) * part
  ELSE (GroupRowBytes(i) * TileHeight(i)) * part

\* The bit of a line that a column starts at.
ColumnBits(i, group, column) ==
  IF i.pixelSize = 0 THEN GroupRunBits(group, column) ELSE 8 * (i.pixelSize * column)

\* The bits and the bytes of a line, with its padding.
LineBits(i, part, line) == ColumnBits(i, GroupOf(i, part, line), ColumnsOf(i, part))

LineBytes(i, part, line) ==
  IF Mixed(i) THEN CeilDiv(LineBits(i, part, line), 8)
  ELSE AlignUp(CeilDiv(LineBits(i, part, line), 8), i.rowAlign)

\* The bytes that lines and tiles start at, and the bit of a place.
LineStart(i, part, line) ==
  IF ByRow(i) THEN Upto(RowSizes(i), line) ELSE LineBytes(i, part, 0) * line

TileStart(i, tile) == IF ByTile(i) THEN 0 ELSE TileBytes(i) * tile

LineByte(i, p) == TileStart(i, p.tile) + PartStart(i, p.part) + LineStart(i, p.part, p.line)

Place(i, p) == 8 * LineByte(i, p) + ColumnBits(i, GroupOf(i, p.part, p.line), p.column)

\* Tiles are aligned as a whole, or each of their parts is.
PartAlign(i) == IF ByTile(i) THEN i.tileAlign ELSE 0
TileAlign(i) == IF ByTile(i) THEN 0 ELSE i.tileAlign

(***************************************************************************)
(* The components and the steps of a supported image.                      *)
(***************************************************************************)
\* Every component of a supported image has a depth.
LEMMA SpecsReal ==
    ASSUME NEW i, Supported(i)
    PROVE  /\ Specs(i) \in Seq(RealSpecs) /\ Specs(i) \in Seq(ComponentSpecs)
           /\ Len(Specs(i)) \in Nat \ {0}
           /\ \A k \in 1 .. Len(Specs(i)) : /\ Specs(i)[k] \in RealSpecs
                                            /\ Specs(i)[k] \in ComponentSpecs
           /\ DOMAIN Specs(i) = 1 .. Len(Specs(i))
<1>1. Specs(i) \in Seq(ComponentSpecs) /\ Specs(i) # << >>
  BY SpecsTyped DEF Supported, LayoutSupported, KindSupported
<1>2. /\ Len(Specs(i)) \in Nat /\ DOMAIN Specs(i) = 1 .. Len(Specs(i))
      /\ \A k \in 1 .. Len(Specs(i)) : Specs(i)[k] \in ComponentSpecs
  BY <1>1, LenProperties, ElementOfSeq
<1>3. Len(Specs(i)) # 0
  BY <1>1, EmptySeq
<1>4. \A k \in 1 .. Len(Specs(i)) : Specs(i)[k].depth \in 1 .. 16
  <2>1. CASE i.profile # "none"
    <3>1. i.profile \in Profiles
      BY <2>1 DEF Supported, LayoutSupported, ComponentsSupported
    <3>2. Byte("R").depth = 8 /\ Byte("G").depth = 8 /\ Byte("B").depth = 8 /\ Byte("A").depth = 8
      BY DEF Byte
    <3> DEFINE s == ProfileSpecs(i.profile)
    <3>3. \/ s = << Byte("R"), Byte("G"), Byte("B") >>
          \/ s = << Byte("R"), Byte("G"), Byte("B"), Byte("A") >>
          \/ s = << Byte("A"), Byte("B"), Byte("G"), Byte("R") >>
      BY <3>1 DEF ProfileSpecs, Profiles
    <3>4. Specs(i) = s
      BY <2>1 DEF Specs
    <3> HIDE DEF s
    <3>5. \A k \in 1 .. Len(s) : s[k].depth = 8
      BY <3>2, <3>3
    <3>q. QED
      BY <3>4, <3>5
  <2>2. CASE i.profile = "none"
    <3>1. i.components \in Seq([index : Nat \ {0}, depth : Nat, align : Nat, format : STRING])
      BY DEF Supported, IsImage
    <3>2. Len(i.components) \in Nat
      BY <3>1, LenProperties
    <3>3. \A k \in 1 .. Len(i.components) : i.components[k].depth \in 1 .. 16
      BY <2>2 DEF Supported, LayoutSupported, ComponentsSupported
    <3>4. Specs(i) = [k \in 1 .. Len(i.components) |->
                        [role |-> i.types[i.components[k].index],
                         depth |-> i.components[k].depth, align |-> i.components[k].align]]
      BY <2>2 DEF Specs
    <3>5. Len(Specs(i)) = Len(i.components)
      BY <1>2, <3>2, <3>4
    <3>q. QED
      BY <3>3, <3>4, <3>5
  <2>q. QED
    BY <2>1, <2>2
<1>5. \A k \in 1 .. Len(Specs(i)) : Specs(i)[k] \in RealSpecs
  BY SMTT(30), <1>2, <1>4 DEF RealSpecs
<1>6. Specs(i) = [k \in 1 .. Len(Specs(i)) |-> Specs(i)[k]]
  BY <1>1, LenProperties
<1>7. [k \in 1 .. Len(Specs(i)) |-> Specs(i)[k]] \in Seq(RealSpecs)
  <2> HIDE DEF RealSpecs
  <2>q. QED
    BY <1>2, <1>5, SeqDef
<1>q. QED
  BY <1>1, <1>2, <1>3, <1>5, <1>6, <1>7

\* Tiles are whole and not empty.
LEMMA TilesWhole ==
    ASSUME NEW i, Supported(i)
    PROVE  /\ i.cols \in Nat \ {0} /\ i.rows \in Nat \ {0}
           /\ TileWidth(i) \in Nat \ {0} /\ TileHeight(i) \in Nat \ {0}
           /\ TileCount(i) \in Nat /\ TileCount(i) = i.rows * i.cols /\ TileCount(i) >= 1
           /\ i.width = i.cols * TileWidth(i) /\ i.height = i.rows * TileHeight(i)
           /\ i.pixelSize \in Nat /\ i.rowAlign \in Nat /\ i.tileAlign \in Nat
<1>1. /\ i.width \in Nat /\ i.height \in Nat
      /\ i.cols \in Nat \ {0} /\ i.rows \in Nat \ {0}
  BY DEF Supported, IsImage
<1>2. /\ i.cols <= i.width /\ i.rows <= i.height
      /\ i.width % i.cols = 0 /\ i.height % i.rows = 0
  BY DEF Supported, LayoutSupported, TilesSupported
<1>3. ASSUME NEW x \in Nat, NEW a \in Nat \ {0}, a <= x, x % a = 0
      PROVE  x = a * (x \div a) /\ x \div a \in Nat \ {0}
  <2>1. x = a * (x \div a) + (x % a)
    OBVIOUS
  <2>2. x \div a \in Nat
    BY DivNatural
  <2> DEFINE q == x \div a
  <2>3. x = a * q /\ q \in Nat
    BY <1>3, <2>1, <2>2
  <2> HIDE DEF q
  <2>4. q # 0
    BY <1>3, <2>3
  <2>q. QED
    BY <2>3, <2>4 DEF q
<1>4. TileCount(i) = i.rows * i.cols /\ i.rows * i.cols \in Nat /\ i.rows * i.cols >= 1
  BY <1>1 DEF TileCount
<1>q. QED
  BY <1>1, <1>2, <1>3, <1>4, TilesNatural DEF TileWidth, TileHeight

\* A tile holds whole steps of every component, and at least one.
LEMMA StepsDivide ==
    ASSUME NEW i, Supported(i), NEW step \in {<< 1, 1 >>, ChromaStep(Sampling(i))}
    PROVE  /\ step[1] \in Nat \ {0} /\ step[2] \in Nat \ {0}
           /\ TileWidth(i) \div step[1] \in Nat \ {0}
           /\ TileHeight(i) \div step[2] \in Nat \ {0}
           /\ TileWidth(i) = step[1] * (TileWidth(i) \div step[1])
           /\ TileHeight(i) = step[2] * (TileHeight(i) \div step[2])
<1>1. Sampling(i) \in {"444", "422", "420"}
  BY DEF Supported, LayoutSupported, KindSupported
<1>2. /\ ChromaStep("444") = << 1, 1 >>
      /\ ChromaStep("422") = << 2, 1 >>
      /\ ChromaStep("420") = << 2, 2 >>
  BY DEF ChromaStep
<1>3. step[1] \in {1, 2} /\ step[2] \in {1, 2}
  BY <1>1, <1>2
<1>4. TileWidth(i) % step[1] = 0 /\ TileHeight(i) % step[2] = 0
  <2>1. CASE step = << 1, 1 >>
    <3>1. TileWidth(i) % 1 = 0 /\ TileHeight(i) % 1 = 0
      BY TilesWhole
    <3>2. step[1] = 1 /\ step[2] = 1
      BY <2>1
    <3>q. QED
      BY <3>1, <3>2
  <2>2. CASE step # << 1, 1 >>
    <3>1. step = ChromaStep(Sampling(i)) /\ Sampling(i) # "444"
      BY <1>1, <1>2, <2>2
    <3>q. QED
      BY <3>1 DEF Supported, LayoutSupported, SamplingSupported
  <2>q. QED
    BY <2>1, <2>2
<1>5. TileWidth(i) \in Nat \ {0} /\ TileHeight(i) \in Nat \ {0}
  BY TilesWhole
<1>6. ASSUME NEW x \in Nat \ {0}, NEW a \in {1, 2}, x % a = 0
      PROVE  x = a * (x \div a) /\ x \div a \in Nat \ {0}
  <2>1. CASE a = 1
    BY <1>6, <2>1
  <2>2. CASE a = 2
    BY <1>6, <2>2
  <2>q. QED
    BY <2>1, <2>2
<1>q. QED
  BY <1>3, <1>4, <1>5, <1>6

\* The step of a role is one of the two.
LEMMA StepOfRole ==
    ASSUME NEW i, NEW role
    PROVE  Step(i, role) \in {<< 1, 1 >>, ChromaStep(Sampling(i))}
  BY DEF Step

\* The steps of a part divide its tile.
LEMMA PartSteps ==
    ASSUME NEW i, NEW part
    PROVE  StepOf(i, part) \in {<< 1, 1 >>, ChromaStep(Sampling(i))}
  BY StepOfRole DEF StepOf

\* Only where groups of all components are read can a pixel have a size; only
\* rows read component after component are not subsampled.
LEMMA KindsApart ==
    ASSUME NEW i, Supported(i)
    PROVE  /\ InterleaveType(i) \in Interleaves
           /\ ByComponent(i) \/ Mixed(i) \/ ByRow(i) => i.pixelSize = 0
           /\ ByRow(i) => ChromaStep(Sampling(i)) = << 1, 1 >>
           /\ ~(ByComponent(i) \/ Mixed(i) \/ ByRow(i)) =>
                /\ InterleaveType(i) \in {"pixel", "multiY"}
                /\ ChromaStep(Sampling(i))[2] = 1
           /\ ByTile(i) => ByComponent(i)
           /\ ByComponent(i) => ~Mixed(i) /\ ~ByRow(i)
           /\ Mixed(i) => ~ByRow(i)
<1>1. InterleaveType(i) \in Interleaves
  BY DEF Supported, LayoutSupported, KindSupported
<1>2. ByComponent(i) \/ Mixed(i) \/ ByRow(i) => i.pixelSize = 0
  BY DEF Supported, LayoutSupported, KindSupported, ByComponent, Mixed, ByRow
<1>3. /\ ChromaStep("444") = << 1, 1 >> /\ ChromaStep("422") = << 2, 1 >>
  BY DEF ChromaStep
<1>4. ByRow(i) => Sampling(i) = "444"
  BY DEF Supported, LayoutSupported, SamplingSupported, ByRow
<1>5. ~(ByComponent(i) \/ Mixed(i) \/ ByRow(i)) => InterleaveType(i) \in {"pixel", "multiY"}
  BY <1>1 DEF ByComponent, Mixed, ByRow, Interleaves
<1>6. InterleaveType(i) = "pixel" => Sampling(i) = "444"
  BY DEF Supported, LayoutSupported, SamplingSupported
<1>7. InterleaveType(i) = "multiY" => Sampling(i) = "422"
  BY DEF Supported, LayoutSupported, MultiYSupported
<1>8. ~(ByComponent(i) \/ Mixed(i) \/ ByRow(i)) => ChromaStep(Sampling(i))[2] = 1
  BY <1>3, <1>5, <1>6, <1>7
<1>9. /\ ByTile(i) => ByComponent(i)
      /\ ByComponent(i) => ~Mixed(i) /\ ~ByRow(i)
      /\ Mixed(i) => ~ByRow(i)
  BY DEF ByTile, ByComponent, Mixed, ByRow
<1>q. QED
  BY <1>1, <1>2, <1>3, <1>4, <1>5, <1>8, <1>9

\* The columns of a line start one after the other.
LEMMA ColumnFacts ==
    ASSUME NEW i, Supported(i), NEW group \in Seq(ComponentSpecs), NEW n \in Nat
    PROVE  /\ ColumnBits(i, group, n) \in Nat
           /\ ColumnBits(i, group, 0) = 0
           /\ \A m \in 0 .. n : ColumnBits(i, group, m) <= ColumnBits(i, group, n)
           /\ i.pixelSize = 0 =>
                GroupEndBit(group, ColumnBits(i, group, n)) = ColumnBits(i, group, n + 1)
           /\ i.pixelSize # 0 =>
                ColumnBits(i, group, n + 1) = ColumnBits(i, group, n) + 8 * i.pixelSize
<1>0. i.pixelSize \in Nat
  BY TilesWhole
<1>1. CASE i.pixelSize = 0
  <2>1. \A k : ColumnBits(i, group, k) = GroupRunBits(group, k)
    BY <1>1 DEF ColumnBits
  <2>2. /\ GroupRunBits(group, n) \in Nat
        /\ GroupEndBit(group, GroupRunBits(group, n)) = GroupRunBits(group, n + 1)
        /\ GroupRunBits(group, 0) = 0
    BY RunNext
  <2>3. \A m \in 0 .. n : GroupRunBits(group, m) <= GroupRunBits(group, n)
    BY RunGrows
  <2>q. QED
    BY <1>1, <2>1, <2>2, <2>3
<1>2. CASE i.pixelSize # 0
  <2> DEFINE s == i.pixelSize
  <2>1. \A k : ColumnBits(i, group, k) = 8 * (s * k)
    BY <1>2 DEF ColumnBits
  <2>2. s * n \in Nat /\ s * (n + 1) = s * n + s /\ s * 0 = 0
    <3> HIDE DEF s
    <3>1. s * (n + 1) = s * n + s * 1 /\ s * 1 = s /\ s * 0 = 0
      BY <1>0, Distributes DEF s
    <3>q. QED
      BY <1>0, <3>1, ProductNatural DEF s
  <2>3. \A m \in 0 .. n : s * m <= s * n /\ s * m \in Nat
    <3> SUFFICES ASSUME NEW m \in 0 .. n PROVE s * m <= s * n /\ s * m \in Nat
      OBVIOUS
    <3>1. m \in Nat /\ m <= n /\ s \in Nat
      BY <1>0
    <3>q. QED
      BY ONLY <3>1, n \in Nat, ProductGrows, ProductNatural
  <2> HIDE DEF s
  <2>4. \A m \in 0 .. n : 8 * (s * m) <= 8 * (s * n)
    <3> SUFFICES ASSUME NEW m \in 0 .. n PROVE 8 * (s * m) <= 8 * (s * n)
      OBVIOUS
    <3> DEFINE x == s * m
               y == s * n
    <3>1. x \in Nat /\ y \in Nat /\ x <= y
      BY <2>2, <2>3
    <3> HIDE DEF x, y
    <3>2. 8 * x <= 8 * y
      BY <3>1
    <3>q. QED
      BY <3>2 DEF x, y
  <2>5. 8 * (s * n) \in Nat /\ 8 * (s * (n + 1)) = 8 * (s * n) + 8 * s
    <3> DEFINE y == s * n
    <3>1. y \in Nat /\ s * (n + 1) = y + s /\ s \in Nat
      BY <1>0, <2>2 DEF s
    <3> HIDE DEF y
    <3>2. 8 * y \in Nat /\ 8 * (y + s) = 8 * y + 8 * s
      BY <3>1
    <3>q. QED
      BY <3>1, <3>2 DEF y
  <2>q. QED
    BY <1>2, <2>1, <2>2, <2>4, <2>5 DEF s
<1>q. QED
  BY <1>1, <1>2

\* A line holds its columns.
LEMMA LineHolds ==
    ASSUME NEW i, Supported(i), NEW part, NEW line,
           GroupOf(i, part, line) \in Seq(ComponentSpecs)
    PROVE  /\ ColumnsOf(i, part) \in Nat \ {0}
           /\ LineBits(i, part, line) \in Nat
           /\ CeilDiv(LineBits(i, part, line), 8) \in Nat
           /\ LineBytes(i, part, line) \in Nat
           /\ LineBits(i, part, line) <= 8 * LineBytes(i, part, line)
<1> DEFINE bits == LineBits(i, part, line)
           bytes == CeilDiv(bits, 8)
<1>1. ColumnsOf(i, part) \in Nat \ {0}
  <2>1. StepOf(i, part) \in {<< 1, 1 >>, ChromaStep(Sampling(i))}
    BY PartSteps
  <2>q. QED
    BY <2>1, StepsDivide DEF ColumnsOf
<1>2. bits \in Nat
  BY <1>1, ColumnFacts DEF LineBits
<1>3. bytes \in Nat /\ bits <= 8 * bytes
  <2>1. 8 \in Nat \ {0}
    OBVIOUS
  <2> HIDE DEF bits
  <2>q. QED
    BY ONLY <1>2, <2>1, CeilBounds
<1>4. AlignUp(bytes, i.rowAlign) \in Nat /\ bytes <= AlignUp(bytes, i.rowAlign)
  <2>1. i.rowAlign \in Nat
    BY TilesWhole
  <2> HIDE DEF bytes
  <2>q. QED
    BY <1>3, <2>1, AlignGrows
<1>5. LineBytes(i, part, line) = bytes \/ LineBytes(i, part, line) = AlignUp(bytes, i.rowAlign)
  BY DEF LineBytes
<1> HIDE DEF bits, bytes
<1>6. bits <= 8 * LineBytes(i, part, line) /\ LineBytes(i, part, line) \in Nat
  BY <1>2, <1>3, <1>4, <1>5
<1>q. QED
  BY <1>1, <1>2, <1>3, <1>6 DEF bits, bytes

(***************************************************************************)
(* What each interleaving has in common: lines follow each other in a      *)
(* part, parts in a tile, and an aligned tile holds all of them.           *)
(***************************************************************************)
\* The parts of a tile.
TileLaid(i) ==
  /\ Parts(i) \in Nat \ {0}
  /\ Turn(i, 0)
  /\ PartStart(i, 0) = 0
  /\ \A n \in 0 .. Parts(i) : /\ PartStart(i, n) \in Nat
                              /\ PartStart(i, n) <= PartStart(i, Parts(i))
  /\ TileBytes(i) = AlignUp(PartStart(i, Parts(i)), TileAlign(i))

\* The lines of a part that has a turn.
PartLaid(i, part) ==
  /\ NextPart(i, part) \in part + 1 .. Parts(i)
  /\ NextPart(i, part) < Parts(i) => Turn(i, NextPart(i, part))
  /\ LinesOf(i, part) \in Nat \ {0}
  /\ ColumnsOf(i, part) \in Nat \ {0}
  /\ LineStart(i, part, 0) = 0
  /\ \A line \in 0 .. LinesOf(i, part) - 1 :
       /\ GroupOf(i, part, line) \in Seq(RealSpecs)
       /\ GroupOf(i, part, line) \in Seq(ComponentSpecs)
       /\ GroupOf(i, part, line) # << >>
       /\ LineStart(i, part, line) \in Nat
       /\ LineStart(i, part, line + 1) = LineStart(i, part, line) + LineBytes(i, part, line)
  /\ AlignUp(PartStart(i, part) + LineStart(i, part, LinesOf(i, part)), PartAlign(i))
       = PartStart(i, NextPart(i, part))

\* A group of one component is a group.
LEMMA OneSpec ==
    ASSUME NEW spec \in RealSpecs
    PROVE  /\ << spec >> \in Seq(RealSpecs) /\ << spec >> \in Seq(ComponentSpecs)
           /\ << spec >> # << >> /\ spec \in ComponentSpecs
<1>1. spec \in ComponentSpecs
  BY DEF RealSpecs
<1> HIDE DEF RealSpecs, ComponentSpecs
<1>q. QED
  BY <1>1

\* Lines that are all as long start at multiples of their length.
LEMMA EqualLines ==
    ASSUME NEW bytes \in Nat, NEW line \in Nat
    PROVE  /\ bytes * 0 = 0 /\ bytes * line \in Nat
           /\ bytes * (line + 1) = bytes * line + bytes
<1>1. bytes * (line + 1) = bytes * line + bytes * 1
  BY Distributes
<1>q. QED
  BY <1>1, ProductNatural

\* The bytes of a line of one component are those of the layout.
LEMMA ComponentLine ==
    ASSUME NEW i, Supported(i), ByComponent(i), NEW part \in 0 .. Parts(i) - 1
    PROVE  /\ part + 1 \in 1 .. Len(Specs(i)) /\ Parts(i) = Len(Specs(i))
           /\ \A line : LineBytes(i, part, line) = RowBytes(i, Specs(i)[part + 1])
           /\ RowBytes(i, Specs(i)[part + 1]) \in Nat
           /\ PartSizes(i)[part + 1]
                = AlignUp(RowBytes(i, Specs(i)[part + 1]) * LinesOf(i, part), PartAlign(i))
           /\ LinesOf(i, part) \in Nat \ {0}
<1> DEFINE spec == Specs(i)[part + 1]
           c == ColumnsOf(i, part)
<1>1. part + 1 \in 1 .. Len(Specs(i)) /\ Parts(i) = Len(Specs(i))
  <2>1. Parts(i) = Len(Specs(i)) /\ Len(Specs(i)) \in Nat
    BY SpecsReal DEF Parts
  <2>q. QED
    BY <2>1
<1>2. spec \in RealSpecs /\ spec \in ComponentSpecs
  BY <1>1, SpecsReal
<1>3. StepOf(i, part) = Step(i, spec.role)
  BY DEF StepOf
<1>4. /\ Step(i, spec.role) \in {<< 1, 1 >>, ChromaStep(Sampling(i))}
      /\ c \in Nat \ {0} /\ LinesOf(i, part) \in Nat \ {0}
      /\ LinesOf(i, part) = TileHeight(i) \div Step(i, spec.role)[2]
      /\ c = TileWidth(i) \div Step(i, spec.role)[1]
  <2>1. Step(i, spec.role) \in {<< 1, 1 >>, ChromaStep(Sampling(i))}
    BY StepOfRole
  <2>2. ~ByRow(i)
    BY KindsApart
  <2>q. QED
    BY <1>3, <2>1, <2>2, StepsDivide DEF LinesOf, ColumnsOf
<1>5. ASSUME NEW line
      PROVE  LineBytes(i, part, line) = RowBytes(i, spec)
  <2>1. GroupOf(i, part, line) = << spec >>
    BY DEF GroupOf
  <2>2. i.pixelSize = 0 /\ ~Mixed(i)
    BY KindsApart
  <2>3. LineBits(i, part, line) = GroupRunBits(<< spec >>, c)
    BY <2>1, <2>2 DEF LineBits, ColumnBits
  <2>4. GroupRunBits(<< spec >>, c) = SampleBits(spec) * c
    BY <1>2, <1>4, RunOfOne
  <2>q. QED
    BY <1>4, <2>2, <2>3, <2>4 DEF LineBytes, RowBytes
<1>6. RowBytes(i, spec) \in Nat
  <2>1. GroupOf(i, part, 0) = << spec >>
    BY DEF GroupOf
  <2>2. << spec >> \in Seq(ComponentSpecs)
    BY <1>2, OneSpec
  <2>q. QED
    BY <1>5, <2>1, <2>2, LineHolds
<1>7. PartSizes(i)[part + 1] = AlignUp(RowBytes(i, spec) * LinesOf(i, part), PartAlign(i))
  BY <1>1, <1>4 DEF PartSizes, ComponentTileSizes, ComponentTileBytes, PartAlign
<1>q. QED
  BY <1>1, <1>4, <1>5, <1>6, <1>7

\* The tiles and the parts of the component interleavings.
LEMMA ComponentTile ==
    ASSUME NEW i, Supported(i), ByComponent(i)
    PROVE  TileLaid(i) /\ \A part \in 0 .. Parts(i) - 1 : PartLaid(i, part)
<1> DEFINE c == Len(Specs(i))
           a == PartAlign(i)
           e == PartSizes(i)
<1>0. c \in Nat \ {0} /\ Parts(i) = c /\ a \in Nat
  BY SpecsReal, TilesWhole DEF Parts, PartAlign
<1>n. ~Mixed(i) /\ ~ByRow(i) /\ (ByTile(i) => ByComponent(i))
  BY KindsApart
<1>1. ASSUME NEW k \in 1 .. c
      PROVE  /\ e[k] \in Nat
             /\ a # 0 => IsMultiple(e[k], a)
  <2> DEFINE part == k - 1
             v == RowBytes(i, Specs(i)[part + 1]) * LinesOf(i, part)
  <2>1. part \in 0 .. Parts(i) - 1 /\ part + 1 = k
    BY <1>0
  <2>2. /\ e[k] = AlignUp(v, a)
        /\ RowBytes(i, Specs(i)[part + 1]) \in Nat /\ LinesOf(i, part) \in Nat \ {0}
    BY <2>1, ComponentLine
  <2>3. v \in Nat
    BY <2>2, ProductNatural
  <2> HIDE DEF v
  <2>4. e[k] \in Nat
    BY <1>0, <2>2, <2>3, AlignNatural
  <2>5. a # 0 => e[k] = a * CeilDiv(v, a) /\ CeilDiv(v, a) \in Nat
    BY <1>0, <2>2, <2>3, CeilNatural DEF AlignUp
  <2>q. QED
    BY <2>4, <2>5 DEF IsMultiple
<1>2. \A n : PartStart(i, n) = Upto(e, n)
  BY DEF PartStart
<1>3. /\ Upto(e, 0) = 0
      /\ \A n \in 0 .. c : Upto(e, n) \in Nat
      /\ \A n \in 1 .. c : Upto(e, n) = Upto(e, n - 1) + e[n]
      /\ \A n \in 0 .. c : \A m \in 0 .. n : Upto(e, m) <= Upto(e, n)
  <2> HIDE DEF e
  <2>q. QED
    BY <1>0, <1>1, UptoFacts
<1>4. TileBytes(i) = AlignUp(PartStart(i, c), TileAlign(i))
  <2>0. DOMAIN e = 1 .. c
    BY DEF PartSizes, ComponentTileSizes
  <2>1. Sum(e) = Upto(e, c)
    <3> HIDE DEF e
    <3>q. QED
      BY <1>0, <2>0, SumIsUpto
  <2>2. CASE ByTile(i)
    <3>1. TileBytes(i) = Sum(e)
      BY <2>2 DEF TileBytes, ByTile, PartSizes
    <3>2. TileAlign(i) = 0
      BY <2>2 DEF TileAlign
    <3>q. QED
      BY <1>2, <2>1, <3>1, <3>2 DEF AlignUp
  <2>3. CASE ~ByTile(i)
    <3>1. TileBytes(i) = AlignUp(Sum(e), i.tileAlign)
      BY <2>3 DEF TileBytes, ByTile, ByComponent, PartSizes
    <3>2. TileAlign(i) = i.tileAlign
      BY <2>3 DEF TileAlign
    <3>q. QED
      BY <1>2, <2>1, <3>1, <3>2
  <2>q. QED
    BY <2>2, <2>3
<1>5. TileLaid(i)
  <2>1. Turn(i, 0)
    BY <1>n DEF Turn
  <2>2. \A n \in 0 .. c : Upto(e, n) \in Nat /\ Upto(e, n) <= Upto(e, c)
    <3>1. c \in 0 .. c
      BY <1>0
    <3>q. QED
      BY <1>3, <3>1
  <2>q. QED
    BY <1>0, <1>2, <1>3, <1>4, <2>1, <2>2 DEF TileLaid
<1>6. ASSUME NEW part \in 0 .. Parts(i) - 1
      PROVE  PartLaid(i, part)
  <2> DEFINE spec == Specs(i)[part + 1]
             row == RowBytes(i, spec)
             n == LinesOf(i, part)
  <2>1. /\ part + 1 \in 1 .. c
        /\ \A line : LineBytes(i, part, line) = row
        /\ row \in Nat /\ n \in Nat \ {0}
        /\ e[part + 1] = AlignUp(row * n, a)
    BY ComponentLine
  <2>2. spec \in RealSpecs
    BY <2>1, SpecsReal
  <2>3. NextPart(i, part) = part + 1 /\ part + 1 \in part + 1 .. Parts(i)
    BY <1>0, <1>n DEF NextPart
  <2>4. \A line : LineStart(i, part, line) = row * line
    BY <1>n, <2>1 DEF LineStart
  <2>5. ColumnsOf(i, part) \in Nat \ {0}
    <3>1. StepOf(i, part) \in {<< 1, 1 >>, ChromaStep(Sampling(i))}
      BY PartSteps
    <3>q. QED
      BY <3>1, StepsDivide DEF ColumnsOf
  <2>6. \A line : GroupOf(i, part, line) = << spec >>
    BY DEF GroupOf
  <2>7. /\ << spec >> \in Seq(RealSpecs) /\ << spec >> \in Seq(ComponentSpecs)
        /\ << spec >> # << >>
    BY <2>2, OneSpec
  <2> DEFINE at == Upto(e, part)
  <2>8. at \in Nat /\ Upto(e, part + 1) = at + e[part + 1]
    <3>1. part \in 0 .. c /\ (part + 1) - 1 = part
      BY <1>0
    <3>q. QED
      BY <1>3, <2>1, <3>1
  <2>9. AlignUp(at + row * n, a) = at + AlignUp(row * n, a)
    <3> DEFINE v == row * n
    <3>1. v \in Nat
      <4>1. n \in Nat
        BY <2>1
      <4> HIDE DEF n, row
      <4>q. QED
        BY <2>1, <4>1, ProductNatural
    <3>2. CASE a = 0
      BY <3>2 DEF AlignUp
    <3>3. CASE a # 0
      <4>1. \A k \in 1 .. c : IsMultiple(e[k], a)
        BY <1>1, <3>3
      <4>2. \A k \in 0 .. c : IsMultiple(Upto(e, k), a)
        <5> HIDE DEF e, a, c
        <5>1. c \in Nat /\ a \in Nat
          BY <1>0
        <5>q. QED
          BY ONLY <5>1, <4>1, UptoMultiple
      <4>3. PICK q \in Nat : at = a * q
        <5>1. part \in 0 .. c
          BY <1>0
        <5>q. QED
          BY <4>2, <5>1 DEF IsMultiple
      <4>4. AlignUp(at + v, a) = at + AlignUp(v, a)
        <5> HIDE DEF v, a, at
        <5>q. QED
          BY <1>0, <3>1, <4>3, AlignShifts
      <4>q. QED
        BY <4>4
    <3>q. QED
      BY <3>2, <3>3
  <2>10. AlignUp(PartStart(i, part) + LineStart(i, part, n), a) = PartStart(i, part + 1)
    BY <1>2, <2>1, <2>4, <2>8, <2>9
  <2>11. \A line \in 0 .. n - 1 :
           /\ LineStart(i, part, line) \in Nat
           /\ LineStart(i, part, line + 1) = LineStart(i, part, line) + LineBytes(i, part, line)
    <3> SUFFICES ASSUME NEW line \in 0 .. n - 1
                 PROVE  /\ row * line \in Nat
                        /\ row * (line + 1) = row * line + row
      BY <2>1, <2>4
    <3>1. line \in Nat
      BY <2>1
    <3> HIDE DEF row
    <3>q. QED
      BY <2>1, <3>1, EqualLines
  <2>12. LineStart(i, part, 0) = 0
    BY <2>1, <2>4
  <2>13. NextPart(i, part) < Parts(i) => Turn(i, NextPart(i, part))
    BY <1>n DEF Turn
  <2>14. \A line \in 0 .. n - 1 :
           /\ GroupOf(i, part, line) \in Seq(RealSpecs)
           /\ GroupOf(i, part, line) \in Seq(ComponentSpecs)
           /\ GroupOf(i, part, line) # << >>
    BY <2>6, <2>7
  <2> HIDE DEF spec, row
  <2>q. QED
    BY <2>1, <2>3, <2>5, <2>10, <2>11, <2>12, <2>13, <2>14 DEF PartLaid
<1>q. QED
  BY <1>5, <1>6

\* The rows of components, one line of each after the other.
LEMMA RowTile ==
    ASSUME NEW i, Supported(i), ByRow(i)
    PROVE  TileLaid(i) /\ \A part \in 0 .. Parts(i) - 1 : PartLaid(i, part)
<1> DEFINE c == Len(Specs(i))
           e == RowSizes(i)
           h == TileHeight(i)
           all == Upto(e, c)
<1>n. ~ByComponent(i) /\ ~Mixed(i) /\ ~ByTile(i) /\ i.pixelSize = 0
      /\ ChromaStep(Sampling(i)) = << 1, 1 >>
  BY KindsApart
<1>0. c \in Nat \ {0} /\ h \in Nat \ {0} /\ Parts(i) = h
      /\ PartAlign(i) = 0 /\ TileAlign(i) = i.tileAlign
  BY <1>n, SpecsReal, TilesWhole DEF Parts, PartAlign, TileAlign
<1>w. TileWidth(i) \div 1 = TileWidth(i) /\ h \div 1 = h
  BY TilesWhole
<1>s. \A role : Step(i, role)[1] = 1 /\ Step(i, role)[2] = 1
  BY <1>n DEF Step
<1>1. ASSUME NEW line \in 0 .. c - 1, NEW part
      PROVE  /\ GroupOf(i, part, line) = << Specs(i)[line + 1] >>
             /\ << Specs(i)[line + 1] >> \in Seq(RealSpecs)
             /\ << Specs(i)[line + 1] >> \in Seq(ComponentSpecs)
             /\ LineBytes(i, part, line) = e[line + 1]
             /\ LineBytes(i, part, line) \in Nat
  <2> DEFINE spec == Specs(i)[line + 1]
  <2>1. line + 1 \in 1 .. c
    BY <1>0
  <2>2. spec \in RealSpecs /\ spec \in ComponentSpecs
    BY <2>1, SpecsReal
  <2>3. GroupOf(i, part, line) = << spec >>
    BY <1>n DEF GroupOf
  <2>4. << spec >> \in Seq(RealSpecs) /\ << spec >> \in Seq(ComponentSpecs)
    BY <2>2, OneSpec
  <2>5. ColumnsOf(i, part) = TileWidth(i) /\ TileWidth(i) \in Nat
    <3>1. StepOf(i, part)[1] = 1
      BY <1>n DEF StepOf
    <3>q. QED
      BY <1>w, <3>1, TilesWhole DEF ColumnsOf
  <2>6. LineBits(i, part, line) = SampleBits(spec) * TileWidth(i)
    BY <1>n, <2>2, <2>3, <2>5, RunOfOne DEF LineBits, ColumnBits
  <2>7. LineBytes(i, part, line) = RowBytes(i, spec)
    <3>1. RowBytes(i, spec)
            = AlignUp(CeilDiv(SampleBits(spec) * (TileWidth(i) \div 1), 8), i.rowAlign)
      BY <1>s DEF RowBytes
    <3>q. QED
      BY <1>n, <1>w, <2>6, <3>1 DEF LineBytes
  <2>8. e[line + 1] = RowBytes(i, spec)
    BY <2>1 DEF RowSizes
  <2>9. LineBytes(i, part, line) \in Nat
    BY <2>3, <2>4, LineHolds
  <2>q. QED
    BY <2>3, <2>4, <2>7, <2>8, <2>9
<1>2. \A k \in 1 .. c : e[k] \in Nat /\ e[k] = RowBytes(i, Specs(i)[k])
  <2> SUFFICES ASSUME NEW k \in 1 .. c
               PROVE  e[k] \in Nat /\ e[k] = RowBytes(i, Specs(i)[k])
    OBVIOUS
  <2>1. k - 1 \in 0 .. c - 1 /\ (k - 1) + 1 = k
    BY <1>0
  <2>2. LineBytes(i, 0, k - 1) = e[(k - 1) + 1] /\ LineBytes(i, 0, k - 1) \in Nat
    BY <1>1, <2>1
  <2>q. QED
    BY <2>1, <2>2 DEF RowSizes
<1>3. /\ Upto(e, 0) = 0
      /\ \A n \in 0 .. c : Upto(e, n) \in Nat
      /\ \A n \in 1 .. c : Upto(e, n) = Upto(e, n - 1) + e[n]
  <2> HIDE DEF e
  <2>q. QED
    BY <1>0, <1>2, UptoFacts
<1>4. all \in Nat
  <2>1. c \in 0 .. c
    BY <1>0
  <2>q. QED
    BY <1>3, <2>1
<1>5. /\ \A n : PartStart(i, n) = all * n
      /\ \A part, line : LineStart(i, part, line) = Upto(e, line)
  BY <1>n DEF PartStart, LineStart
<1>6. TileBytes(i) = AlignUp(all * h, i.tileAlign)
  <2> DEFINE f == ComponentTileSizes(i, 0)
  <2>1. ASSUME NEW k \in 1 .. c
        PROVE  f[k] = e[k] * h
    <3>1. f[k] = AlignUp(RowBytes(i, Specs(i)[k]) * (h \div 1), 0)
      BY <1>s DEF ComponentTileSizes, ComponentTileBytes
    <3>q. QED
      BY <1>2, <1>w, <3>1 DEF AlignUp
  <2>2. DOMAIN f = 1 .. c
    BY DEF ComponentTileSizes
  <2>3. TileBytes(i) = AlignUp(Sum(f), i.tileAlign)
    BY DEF TileBytes, ByRow
  <2> HIDE DEF e, f
  <2>4. \A n \in 0 .. c : Upto(f, n) = Upto(e, n) * h
    <3>1. \A k \in 1 .. c : e[k] \in Nat
      BY <1>2
    <3>2. \A k \in 1 .. c : f[k] = e[k] * h
      BY <2>1
    <3>3. c \in Nat /\ h \in Nat
      BY <1>0
    <3> HIDE DEF c, h
    <3>q. QED
      BY ONLY <3>1, <3>2, <3>3, UptoScales
  <2>5. Sum(f) = Upto(f, c)
    BY <1>0, <2>2, SumIsUpto
  <2>6. c \in 0 .. c
    BY <1>0
  <2>q. QED
    BY <2>3, <2>4, <2>5, <2>6
<1>7. TileLaid(i)
  <2>1. Turn(i, 0)
    BY <1>n DEF Turn
  <2>2. ASSUME NEW n \in 0 .. h
        PROVE  all * n \in Nat /\ all * n <= all * h
    <3>1. n \in Nat /\ h \in Nat /\ n <= h
      BY <1>0
    <3> HIDE DEF all, h
    <3>q. QED
      BY ONLY <3>1, <1>4, ProductNatural, ProductGrows
  <2>3. all * 0 = 0
    BY <1>4
  <2> HIDE DEF all
  <2>q. QED
    BY <1>0, <1>5, <1>6, <2>1, <2>2, <2>3 DEF TileLaid
<1>8. ASSUME NEW part \in 0 .. Parts(i) - 1
      PROVE  PartLaid(i, part)
  <2>1. LinesOf(i, part) = c /\ ColumnsOf(i, part) \in Nat \ {0}
    <3>1. StepOf(i, part) \in {<< 1, 1 >>, ChromaStep(Sampling(i))}
      BY PartSteps
    <3>q. QED
      BY <3>1, StepsDivide DEF ColumnsOf, LinesOf
  <2>2. NextPart(i, part) = part + 1 /\ part + 1 \in part + 1 .. Parts(i)
    BY <1>0, <1>n DEF NextPart
  <2>3. NextPart(i, part) < Parts(i) => Turn(i, NextPart(i, part))
    BY <1>n DEF Turn
  <2>4. ASSUME NEW line \in 0 .. c - 1
        PROVE  /\ GroupOf(i, part, line) \in Seq(RealSpecs)
               /\ GroupOf(i, part, line) \in Seq(ComponentSpecs)
               /\ GroupOf(i, part, line) # << >>
               /\ LineStart(i, part, line) \in Nat
               /\ LineStart(i, part, line + 1)
                    = LineStart(i, part, line) + LineBytes(i, part, line)
    <3>1. /\ GroupOf(i, part, line) = << Specs(i)[line + 1] >>
          /\ << Specs(i)[line + 1] >> \in Seq(RealSpecs)
          /\ << Specs(i)[line + 1] >> \in Seq(ComponentSpecs)
          /\ LineBytes(i, part, line) = e[line + 1]
      BY <1>1
    <3>2. line \in 0 .. c /\ line + 1 \in 1 .. c /\ (line + 1) - 1 = line
      BY <1>0
    <3>3. Upto(e, line) \in Nat /\ Upto(e, line + 1) = Upto(e, line) + e[line + 1]
      <4> HIDE DEF e
      <4>1. Upto(e, line + 1) = Upto(e, (line + 1) - 1) + e[line + 1]
        BY <1>3, <3>2
      <4>q. QED
        BY <1>3, <3>2, <4>1
    <3>4. << Specs(i)[line + 1] >> # << >>
      OBVIOUS
    <3> HIDE DEF e
    <3>q. QED
      BY <1>5, <3>1, <3>3, <3>4
  <2>5. LineStart(i, part, 0) = 0
    BY <1>3, <1>5
  <2>6. AlignUp(PartStart(i, part) + LineStart(i, part, c), 0) = PartStart(i, part + 1)
    <3>1. all * (part + 1) = all * part + all
      <4>1. part \in Nat
        BY <1>0
      <4> HIDE DEF all
      <4>q. QED
        BY <1>4, <4>1, EqualLines
    <3>q. QED
      BY <1>5, <3>1 DEF AlignUp
  <2> HIDE DEF c
  <2>q. QED
    BY <1>0, <2>1, <2>2, <2>3, <2>4, <2>5, <2>6 DEF PartLaid
<1>q. QED
  BY <1>7, <1>8

\* A line of groups of all components.
LEMMA GroupLine ==
    ASSUME NEW i, Supported(i), ~(ByComponent(i) \/ Mixed(i) \/ ByRow(i)),
           NEW part, NEW line
    PROVE  /\ GroupOf(i, part, line) = Specs(i)
           /\ LineBytes(i, part, line) = GroupRowBytes(i) /\ GroupRowBytes(i) \in Nat
<1> DEFINE row == GroupRowBytes(i)
           columns == TileWidth(i) \div ChromaStep(Sampling(i))[1]
<1>n. ~ByComponent(i) /\ ~Mixed(i) /\ ~ByRow(i) /\ i.pixelSize \in Nat
  BY KindsApart, TilesWhole
<1>1. Specs(i) \in Seq(ComponentSpecs)
  BY SpecsReal
<1>2. StepOf(i, part) = ChromaStep(Sampling(i))
  BY <1>n DEF StepOf
<1>3. ColumnsOf(i, part) = columns
  BY <1>2 DEF ColumnsOf
<1>4. columns \in Nat \ {0}
  <2>1. ChromaStep(Sampling(i)) \in {<< 1, 1 >>, ChromaStep(Sampling(i))}
    OBVIOUS
  <2>q. QED
    BY ONLY Supported(i), <2>1, StepsDivide
<1>5. GroupOf(i, part, line) = Specs(i)
  BY <1>n DEF GroupOf
<1>6. LineBits(i, part, line) = ColumnBits(i, Specs(i), columns)
  BY <1>3, <1>5 DEF LineBits
<1>7. CeilDiv(LineBits(i, part, line), 8)
        = IF i.pixelSize = 0 THEN CeilDiv(GroupRunBits(Specs(i), columns), 8)
          ELSE i.pixelSize * columns
  <2>1. i.pixelSize * columns \in Nat
    <3>1. columns \in Nat
      BY <1>4
    <3> HIDE DEF columns
    <3>q. QED
      BY <1>n, <3>1, ProductNatural
  <2> DEFINE m == i.pixelSize * columns
  <2>2. CeilDiv(8 * m, 8) = m
    <3>1. 0 \in Nat
      OBVIOUS
    <3> HIDE DEF m
    <3>q. QED
      BY <2>1, <3>1, ByteAlign DEF m
  <2>q. QED
    BY <1>6, <2>2 DEF ColumnBits
<1>8. LineBytes(i, part, line) = row
  BY <1>n, <1>7 DEF LineBytes, GroupRowBytes
<1>9. LineBytes(i, part, line) \in Nat
  BY <1>1, <1>5, LineHolds
<1>q. QED
  BY <1>5, <1>8, <1>9

\* Groups of all components, one after the other.
LEMMA GroupTile ==
    ASSUME NEW i, Supported(i), ~(ByComponent(i) \/ Mixed(i) \/ ByRow(i))
    PROVE  TileLaid(i) /\ \A part \in 0 .. Parts(i) - 1 : PartLaid(i, part)
<1> DEFINE h == TileHeight(i)
           row == GroupRowBytes(i)
           columns == TileWidth(i) \div ChromaStep(Sampling(i))[1]
<1>n. /\ ~ByComponent(i) /\ ~Mixed(i) /\ ~ByRow(i) /\ ~ByTile(i)
      /\ InterleaveType(i) \in {"pixel", "multiY"}
      /\ ChromaStep(Sampling(i))[2] = 1
  BY KindsApart
<1>0. /\ h \in Nat \ {0} /\ Parts(i) = 1
      /\ PartAlign(i) = 0 /\ TileAlign(i) = i.tileAlign
      /\ h \div 1 = h /\ i.pixelSize \in Nat
  BY <1>n, TilesWhole DEF Parts, PartAlign, TileAlign
<1>1. /\ Specs(i) \in Seq(RealSpecs) /\ Specs(i) \in Seq(ComponentSpecs) /\ Specs(i) # << >>
  BY SpecsReal DEF Supported, LayoutSupported, KindSupported
<1>2. \A part : StepOf(i, part) = ChromaStep(Sampling(i))
  BY <1>n DEF StepOf
<1>3. \A part : ColumnsOf(i, part) = columns /\ LinesOf(i, part) = h
  BY <1>0, <1>2, <1>n DEF ColumnsOf, LinesOf
<1>4. columns \in Nat \ {0}
  <2>1. ChromaStep(Sampling(i)) \in {<< 1, 1 >>, ChromaStep(Sampling(i))}
    OBVIOUS
  <2>q. QED
    BY ONLY Supported(i), <2>1, StepsDivide
<1>5. \A part, line : GroupOf(i, part, line) = Specs(i)
  BY <1>n DEF GroupOf
<1>6. \A part, line : LineBytes(i, part, line) = row /\ row \in Nat
  BY GroupLine
<1>7. /\ \A n : PartStart(i, n) = (row * h) * n
      /\ \A part, line : LineStart(i, part, line) = row * line
  BY <1>n, <1>6 DEF PartStart, LineStart
<1>8. TileBytes(i) = AlignUp(row * h, i.tileAlign)
  BY <1>n DEF TileBytes, GroupTileBytes
<1>r. row * h \in Nat /\ (row * h) * 0 = 0 /\ (row * h) * 1 = row * h /\ row * 0 = 0
      /\ row \in Nat
  <2>1. row \in Nat /\ h \in Nat
    BY <1>0, <1>6
  <2> HIDE DEF row, h
  <2>2. row * h \in Nat
    BY <2>1, ProductNatural
  <2> DEFINE x == row * h
  <2> HIDE DEF x
  <2>3. x \in Nat => x * 0 = 0 /\ x * 1 = x
    OBVIOUS
  <2>q. QED
    BY <2>1, <2>2, <2>3 DEF x
<1> HIDE DEF row, h
<1> DEFINE x == row * h
<1>9. TileLaid(i)
  <2>1. Turn(i, 0)
    BY <1>n DEF Turn
  <2>2. \A n : PartStart(i, n) = x * n
    BY <1>7
  <2>3. x \in Nat /\ x * 0 = 0 /\ x * 1 = x /\ TileBytes(i) = AlignUp(x, i.tileAlign)
    BY <1>r, <1>8
  <2> HIDE DEF x
  <2>4. \A n \in 0 .. 1 : x * n \in Nat /\ x * n <= x * 1
    <3> SUFFICES ASSUME NEW n \in {0, 1} PROVE x * n \in Nat /\ x * n <= x * 1
      OBVIOUS
    <3>q. QED
      BY <2>3
  <2>q. QED
    BY <1>0, <2>1, <2>2, <2>3, <2>4 DEF TileLaid
<1>10. ASSUME NEW part \in 0 .. Parts(i) - 1
       PROVE  PartLaid(i, part)
  <2>0. part = 0
    BY <1>0
  <2>1. NextPart(i, part) = 1 /\ NextPart(i, part) \in part + 1 .. Parts(i)
    BY <1>0, <1>n, <2>0 DEF NextPart
  <2>2. ~(NextPart(i, part) < Parts(i))
    BY <1>0, <2>1
  <2>3. ASSUME NEW line \in 0 .. h - 1
        PROVE  /\ LineStart(i, part, line) \in Nat
               /\ LineStart(i, part, line + 1)
                    = LineStart(i, part, line) + LineBytes(i, part, line)
    <3>1. line \in Nat
      BY <1>0
    <3>2. row * line \in Nat /\ row * (line + 1) = row * line + row
      BY <1>r, <3>1, EqualLines
    <3>q. QED
      BY <1>6, <1>7, <3>2
  <2>4. LineStart(i, part, 0) = 0
    BY <1>7, <1>r
  <2>5. AlignUp(PartStart(i, part) + LineStart(i, part, h), 0) = PartStart(i, 1)
    <3>1. /\ PartStart(i, part) = (row * h) * 0 /\ LineStart(i, part, h) = row * h
          /\ PartStart(i, 1) = (row * h) * 1
      BY <1>7, <2>0
    <3>2. PartStart(i, part) = 0 /\ LineStart(i, part, h) = x /\ PartStart(i, 1) = x /\ x \in Nat
      BY <1>r, <3>1
    <3> HIDE DEF x
    <3>q. QED
      BY <3>2 DEF AlignUp
  <2>6. LinesOf(i, part) = h /\ h \in Nat \ {0} /\ ColumnsOf(i, part) \in Nat \ {0}
    BY <1>0, <1>3, <1>4
  <2>7. \A line \in 0 .. h - 1 :
           /\ GroupOf(i, part, line) \in Seq(RealSpecs)
           /\ GroupOf(i, part, line) \in Seq(ComponentSpecs)
           /\ GroupOf(i, part, line) # << >>
    BY <1>1, <1>5
  <2>q. QED
    BY <1>0, <2>1, <2>2, <2>3, <2>4, <2>5, <2>6, <2>7 DEF PartLaid
<1>q. QED
  BY <1>9, <1>10

\* Two components make a group.
LEMMA TwoSpecs ==
    ASSUME NEW spec \in RealSpecs, NEW other \in RealSpecs
    PROVE  /\ << spec, other >> \in Seq(RealSpecs)
           /\ << spec, other >> \in Seq(ComponentSpecs)
           /\ << spec, other >> # << >>
<1>1. spec \in ComponentSpecs /\ other \in ComponentSpecs
  BY DEF RealSpecs
<1> HIDE DEF RealSpecs, ComponentSpecs
<1>q. QED
  BY <1>1

\* The component that is read with the first chroma component is another of
\* the image.
LEMMA ComplementaryReal ==
    ASSUME NEW i, Supported(i), NEW k \in 1 .. Len(Specs(i)), Specs(i)[k].role \in Chroma
    PROVE  /\ Complementary(i, Specs(i)[k].role) \in RealSpecs
           /\ \E n \in 1 .. Len(Specs(i)) :
                /\ Complementary(i, Specs(i)[k].role) = Specs(i)[n]
                /\ Specs(i)[n].role = IF Specs(i)[k].role = "Cb" THEN "Cr" ELSE "Cb"
<1> DEFINE role == Specs(i)[k].role
           other == IF role = "Cb" THEN "Cr" ELSE "Cb"
<1>1. Positions(i, role) # {}
  BY DEF Positions
<1>2. role \in Present(i) \cap YCbCr
  BY <1>1 DEF Present, Chroma, Channels, YCbCr
<1>3. YCbCr \subseteq Present(i)
  BY <1>2 DEF Supported, LayoutSupported, ColoursSupported
<1>4. Positions(i, other) # {}
  BY <1>3 DEF Present, YCbCr
<1>5. Len(Specs(i)) \in Nat /\ \A n \in 1 .. Len(Specs(i)) : Specs(i)[n] \in RealSpecs
  BY SpecsReal
<1>6. Positions(i, other) \in SUBSET Nat /\ Positions(i, other) \subseteq 1 .. Len(Specs(i))
  BY <1>5 DEF Positions
<1> DEFINE n == Min(Positions(i, other))
<1>7. n \in Positions(i, other)
  <2> HIDE DEF other
  <2>q. QED
    BY <1>4, <1>6, LeastOfNaturals
<1>8. n \in 1 .. Len(Specs(i)) /\ Specs(i)[n].role = other
  <2> HIDE DEF n, other
  <2>q. QED
    BY <1>7 DEF Positions
<1>9. Complementary(i, role) = Specs(i)[n]
  BY DEF Complementary, SpecOf
<1> HIDE DEF n
<1>q. QED
  BY <1>5, <1>8, <1>9

\* The first chroma component comes before all others.
LEMMA FirstChromaLeast ==
    ASSUME NEW i, Supported(i)
    PROVE  /\ FirstChroma(i) \in 0 .. Len(Specs(i))
           /\ FirstChroma(i) # 0 => Specs(i)[FirstChroma(i)].role \in Chroma
           /\ \A k \in 1 .. Len(Specs(i)) :
                Specs(i)[k].role \in Chroma => FirstChroma(i) # 0 /\ FirstChroma(i) <= k
<1> DEFINE T == {k \in 1 .. Len(Specs(i)) : Specs(i)[k].role \in Chroma}
<1>1. FirstChroma(i) = IF T # {} THEN Min(T) ELSE 0
  BY DEF FirstChroma, SelectInSeq
<1>2. Len(Specs(i)) \in Nat
  BY SpecsReal
<1>3. T # {} => Min(T) \in T /\ \A k \in T : Min(T) <= k
  <2>1. T \in SUBSET Nat
    BY <1>2
  <2> HIDE DEF T
  <2>q. QED
    BY <2>1, LeastOfNaturals
<1>4. CASE T = {}
  BY <1>1, <1>2, <1>4
<1>5. CASE T # {}
  <2> DEFINE m == Min(T)
  <2>1. m \in T /\ \A k \in T : m <= k
    BY <1>3, <1>5
  <2>2. FirstChroma(i) = m
    BY <1>1, <1>5
  <2> HIDE DEF m
  <2>q. QED
    BY <1>2, <2>1, <2>2
<1>q. QED
  BY <1>4, <1>5

\* The groups of the mixed interleaving.
LEMMA MixedGroupReal ==
    ASSUME NEW i, Supported(i), NEW k \in 1 .. Len(Specs(i))
    PROVE  MixedGroup(i, k) \in Seq(RealSpecs) /\ MixedGroup(i, k) \in Seq(ComponentSpecs)
<1> DEFINE spec == Specs(i)[k]
           other == Complementary(i, spec.role)
<1>1. spec \in RealSpecs
  BY SpecsReal
<1>2. CASE spec.role \notin Chroma
  <2>1. MixedGroup(i, k) = << spec >>
    BY <1>2 DEF MixedGroup
  <2>q. QED
    BY <1>1, <2>1, OneSpec
<1>3. CASE spec.role \in Chroma /\ k = FirstChroma(i)
  <2>1. MixedGroup(i, k) = << spec, other >>
    BY <1>3 DEF MixedGroup
  <2>2. other \in RealSpecs
    BY <1>3, ComplementaryReal
  <2> HIDE DEF spec, other
  <2>q. QED
    BY <1>1, <2>1, <2>2, TwoSpecs
<1>4. CASE spec.role \in Chroma /\ k # FirstChroma(i)
  <2>1. MixedGroup(i, k) = << >>
    BY <1>4 DEF MixedGroup
  <2>q. QED
    BY <2>1
<1>q. QED
  BY <1>2, <1>3, <1>4

\* The lines of one turn of the mixed interleaving.
LEMMA MixedLine ==
    ASSUME NEW i, Supported(i), Mixed(i), NEW k \in 1 .. Len(Specs(i))
    PROVE  /\ MixedGroup(i, k) \in Seq(RealSpecs)
           /\ MixedGroup(i, k) \in Seq(ComponentSpecs)
           /\ \A line : /\ GroupOf(i, k - 1, line) = MixedGroup(i, k)
                        /\ LineBytes(i, k - 1, line) = LineBytes(i, k - 1, 0)
           /\ LineBytes(i, k - 1, 0) \in Nat
           /\ LinesOf(i, k - 1) \in Nat \ {0}
           /\ ColumnsOf(i, k - 1) \in Nat \ {0}
           /\ MixedSizes(i)[k] = LineBytes(i, k - 1, 0) * LinesOf(i, k - 1)
           /\ MixedSizes(i)[k] \in Nat
           /\ MixedGroup(i, k) = << >> => MixedSizes(i)[k] = 0
<1>n. ~ByComponent(i) /\ ~ByRow(i) /\ ~ByTile(i) /\ i.pixelSize = 0
  BY KindsApart
<1> DEFINE e == MixedSizes(i)
           part == k - 1
           step == Step(i, Specs(i)[k].role)
           group == MixedGroup(i, k)
           columns == TileWidth(i) \div step[1]
           lines == TileHeight(i) \div step[2]
           row == CeilDiv(GroupRunBits(group, columns), 8)
<1>0. part + 1 = k
  BY SpecsReal
<1>1. group \in Seq(RealSpecs) /\ group \in Seq(ComponentSpecs)
  BY MixedGroupReal
<1>2. StepOf(i, part) = step
  BY <1>0 DEF StepOf
<1>3. step \in {<< 1, 1 >>, ChromaStep(Sampling(i))}
  BY StepOfRole
<1>4. /\ columns \in Nat \ {0} /\ lines \in Nat \ {0}
      /\ ColumnsOf(i, part) = columns /\ LinesOf(i, part) = lines
  <2> HIDE DEF step
  <2>q. QED
    BY <1>n, <1>2, <1>3, StepsDivide DEF ColumnsOf, LinesOf
<1>5. \A line : GroupOf(i, part, line) = group
  BY <1>n, <1>0 DEF GroupOf
<1>6. \A line : LineBits(i, part, line) = GroupRunBits(group, columns)
  BY <1>n, <1>4, <1>5 DEF LineBits, ColumnBits
<1>7. \A line : LineBytes(i, part, line) = row
  BY <1>6 DEF LineBytes
<1>8. row \in Nat
  BY <1>1, <1>5, <1>7, LineHolds
<1>9. e[k] = row * lines
  BY DEF MixedSizes, MixedGroupBytes
<1>10. row * lines \in Nat
  <2>1. lines \in Nat
    BY <1>4
  <2> HIDE DEF row, lines
  <2>q. QED
    BY <1>8, <2>1, ProductNatural
<1>11. group = << >> => row = 0
  <2> SUFFICES ASSUME group = << >> PROVE row = 0
    OBVIOUS
  <2>1. GroupRunBits(<< >>, columns) = 0
    <3>1. columns \in Nat
      BY <1>4
    <3> HIDE DEF columns
    <3>q. QED
      BY <3>1, RunOfNone
  <2>2. CeilDiv(0, 8) = 0
    BY DEF CeilDiv
  <2>q. QED
    BY <2>1, <2>2
<1>12. row = 0 => row * lines = 0
  <2>1. lines \in Nat
    BY <1>4
  <2> HIDE DEF row, lines
  <2>q. QED
    BY <2>1
<1> HIDE DEF row, lines, columns, step, e
<1>q. QED
  BY <1>1, <1>4, <1>5, <1>7, <1>8, <1>9, <1>10, <1>11, <1>12 DEF e

\* The turns of the mixed interleaving, of which those without a group take
\* no bytes.
LEMMA MixedTile ==
    ASSUME NEW i, Supported(i), Mixed(i)
    PROVE  TileLaid(i) /\ \A part \in 0 .. Parts(i) - 1 : Turn(i, part) => PartLaid(i, part)
<1> DEFINE c == Len(Specs(i))
           e == MixedSizes(i)
<1>n. ~ByComponent(i) /\ ~ByRow(i) /\ ~ByTile(i) /\ i.pixelSize = 0
  BY KindsApart
<1>0. c \in Nat \ {0} /\ Parts(i) = c /\ PartAlign(i) = 0 /\ TileAlign(i) = i.tileAlign
  BY <1>n, SpecsReal DEF Parts, PartAlign, TileAlign
<1>1. ASSUME NEW k \in 1 .. c
      PROVE  /\ MixedGroup(i, k) \in Seq(RealSpecs)
             /\ MixedGroup(i, k) \in Seq(ComponentSpecs)
             /\ \A line : /\ GroupOf(i, k - 1, line) = MixedGroup(i, k)
                          /\ LineBytes(i, k - 1, line) = LineBytes(i, k - 1, 0)
             /\ LineBytes(i, k - 1, 0) \in Nat
             /\ LinesOf(i, k - 1) \in Nat \ {0}
             /\ ColumnsOf(i, k - 1) \in Nat \ {0}
             /\ e[k] = LineBytes(i, k - 1, 0) * LinesOf(i, k - 1)
             /\ e[k] \in Nat
             /\ MixedGroup(i, k) = << >> => e[k] = 0
  BY MixedLine
<1>2. \A n : PartStart(i, n) = Upto(e, n)
  BY <1>n DEF PartStart
<1>3. /\ Upto(e, 0) = 0
      /\ \A n \in 0 .. c : Upto(e, n) \in Nat
      /\ \A n \in 1 .. c : Upto(e, n) = Upto(e, n - 1) + e[n]
      /\ \A n \in 0 .. c : \A m \in 0 .. n : Upto(e, m) <= Upto(e, n)
  <2>1. \A k \in 1 .. c : e[k] \in Nat
    BY <1>1
  <2> HIDE DEF e
  <2>q. QED
    BY <1>0, <2>1, UptoFacts
<1>4. TileBytes(i) = AlignUp(PartStart(i, c), i.tileAlign)
  <2>1. TileBytes(i) = AlignUp(Sum(e), i.tileAlign)
    BY DEF TileBytes, MixedTileBytes, Mixed, MixedSizes
  <2>2. DOMAIN e = 1 .. c
    BY DEF MixedSizes
  <2>3. Sum(e) = Upto(e, c)
    <3> HIDE DEF e
    <3>q. QED
      BY <1>0, <2>2, SumIsUpto
  <2>q. QED
    BY <1>2, <2>1, <2>3
<1>5. Turn(i, 0)
  <2>1. 1 \in 1 .. c /\ 0 + 1 = 1
    BY <1>0
  <2>2. Specs(i)[1].role \in Chroma => FirstChroma(i) = 1
    <3>1. FirstChroma(i) \in 0 .. c
      BY FirstChromaLeast
    <3>2. Specs(i)[1].role \in Chroma => FirstChroma(i) # 0 /\ FirstChroma(i) <= 1
      BY <2>1, FirstChromaLeast
    <3>q. QED
      BY <1>0, <3>1, <3>2
  <2>3. MixedGroup(i, 1) # << >>
    BY <2>2 DEF MixedGroup
  <2>q. QED
    BY <2>1, <2>3 DEF Turn
<1>6. TileLaid(i)
  <2>1. \A n \in 0 .. c : Upto(e, n) \in Nat /\ Upto(e, n) <= Upto(e, c)
    <3>1. c \in 0 .. c
      BY <1>0
    <3>q. QED
      BY <1>3, <3>1
  <2>q. QED
    BY <1>0, <1>2, <1>3, <1>4, <1>5, <2>1 DEF TileLaid
<1>7. ASSUME NEW part \in 0 .. Parts(i) - 1, Turn(i, part)
      PROVE  PartLaid(i, part)
  <2> DEFINE k == part + 1
             row == LineBytes(i, part, 0)
             n == LinesOf(i, part)
             next == NextPart(i, part)
  <2>0. k \in 1 .. c /\ k - 1 = part
    BY <1>0
  <2>1. /\ MixedGroup(i, k) \in Seq(RealSpecs) /\ MixedGroup(i, k) \in Seq(ComponentSpecs)
        /\ \A line : GroupOf(i, part, line) = MixedGroup(i, k) /\ LineBytes(i, part, line) = row
        /\ row \in Nat /\ n \in Nat \ {0} /\ ColumnsOf(i, part) \in Nat \ {0}
        /\ e[k] = row * n
    <3> HIDE DEF e, k
    <3>q. QED
      BY <1>1, <2>0
  <2>2. MixedGroup(i, k) # << >>
    BY <1>7 DEF Turn
  <2>3. /\ next \in k .. c
        /\ next < c => MixedGroup(i, next + 1) # << >>
        /\ \A m \in k .. c : m < next => MixedGroup(i, m + 1) = << >>
    <3> DEFINE T == {m \in k .. c : m = c \/ MixedGroup(i, m + 1) # << >>}
    <3>1. next = Min(T)
      BY DEF NextPart, NextTurn
    <3>2. c \in T /\ T \in SUBSET Nat
      BY <1>0, <2>0
    <3>3. Min(T) \in T /\ \A m \in T : Min(T) <= m
      <4> HIDE DEF T
      <4>q. QED
        BY <3>2, LeastOfNaturals
    <3> HIDE DEF next
    <3>4. next \in T /\ \A m \in T : next <= m
      BY <3>1, <3>3
    <3>5. ASSUME NEW m \in k .. c, m < next
          PROVE  MixedGroup(i, m + 1) = << >>
      <4>1. m \notin T
        <5>1. next \in Nat /\ m \in Nat
          BY <2>0, <3>2, <3>4
        <5> HIDE DEF T
        <5>q. QED
          BY <3>4, <3>5, <5>1
      <4>q. QED
        BY <4>1
    <3>6. next \in k .. c /\ (next < c => MixedGroup(i, next + 1) # << >>)
      BY <1>0, <2>0, <3>4
    <3>q. QED
      BY <3>5, <3>6
  <2>4. Upto(e, next) = Upto(e, k)
    <3>1. \A m \in k + 1 .. next : e[m] = 0
      <4> SUFFICES ASSUME NEW m \in k + 1 .. next PROVE e[m] = 0
        OBVIOUS
      <4> HIDE DEF next, e
      <4>1. m - 1 \in k .. c /\ m - 1 < next /\ (m - 1) + 1 = m /\ m \in 1 .. c
        BY <1>0, <2>0, <2>3
      <4>2. MixedGroup(i, m) = << >>
        BY <2>3, <4>1
      <4>q. QED
        BY <1>1, <4>1, <4>2
    <3>2. next \in 0 .. c /\ k \in 0 .. next /\ c \in Nat
      <4> HIDE DEF next
      <4>q. QED
        BY <1>0, <2>0, <2>3
    <3>3. \A m \in 1 .. c : e[m] \in Nat
      BY <1>1
    <3> HIDE DEF e, c, k, next
    <3>q. QED
      BY ONLY <3>1, <3>2, <3>3, UptoZeros
  <2>5. Upto(e, k) = Upto(e, part) + row * n
    <3>1. Upto(e, k) = Upto(e, k - 1) + e[k]
      <4> HIDE DEF e, k
      <4>q. QED
        BY <1>3, <2>0
    <3>q. QED
      BY <2>0, <2>1, <3>1
  <2>6. \A line : LineStart(i, part, line) = row * line
    BY <1>n DEF LineStart
  <2>7. AlignUp(PartStart(i, part) + LineStart(i, part, n), 0) = PartStart(i, next)
    BY <1>2, <2>4, <2>5, <2>6 DEF AlignUp
  <2>8. ASSUME NEW line \in 0 .. n - 1
        PROVE  /\ LineStart(i, part, line) \in Nat
               /\ LineStart(i, part, line + 1)
                    = LineStart(i, part, line) + LineBytes(i, part, line)
    <3>1. line \in Nat
      BY <2>1
    <3> HIDE DEF row
    <3>2. row * line \in Nat /\ row * (line + 1) = row * line + row
      BY <2>1, <3>1, EqualLines
    <3>q. QED
      BY <2>1, <2>6, <3>2
  <2>9. LineStart(i, part, 0) = 0
    <3>1. row * 0 = 0
      <4> HIDE DEF row
      <4>q. QED
        BY <2>1
    <3>q. QED
      BY <2>6, <3>1
  <2>10. \A line \in 0 .. n - 1 :
           /\ GroupOf(i, part, line) \in Seq(RealSpecs)
           /\ GroupOf(i, part, line) \in Seq(ComponentSpecs)
           /\ GroupOf(i, part, line) # << >>
    BY <2>1, <2>2
  <2>11. next < Parts(i) => Turn(i, next)
    BY <1>0, <2>3 DEF Turn
  <2>12. NextPart(i, part) \in part + 1 .. Parts(i)
    BY <1>0, <2>3
  <2> HIDE DEF row
  <2>q. QED
    BY <1>0, <2>1, <2>7, <2>8, <2>9, <2>10, <2>11, <2>12 DEF PartLaid
<1>q. QED
  BY <1>6, <1>7

\* Every supported image is laid out in this way.
LEMMA AllLaid ==
    ASSUME NEW i, Supported(i)
    PROVE  TileLaid(i) /\ \A part \in 0 .. Parts(i) - 1 : Turn(i, part) => PartLaid(i, part)
  BY ComponentTile, MixedTile, RowTile, GroupTile

\* The shape of a place of the loops is that of its interleaving.
LEMMA ShapeFields ==
    ASSUME NEW i, Supported(i), NEW p, InLoops(i, p)
    PROVE  /\ ShapeAt(i, p).group = GroupOf(i, p.part, p.line)
           /\ ShapeAt(i, p).parts = Parts(i)
           /\ ShapeAt(i, p).next = NextPart(i, p.part)
           /\ ShapeAt(i, p).lines = LinesOf(i, p.part)
           /\ ShapeAt(i, p).columns = ColumnsOf(i, p.part)
<1> DEFINE spec == Specs(i)[p.part + 1]
<1>n. /\ ByComponent(i) => ~Mixed(i) /\ ~ByRow(i)
      /\ Mixed(i) => ~ByRow(i)
  BY KindsApart
<1>1. CASE ByComponent(i)
  <2>1. << spec >>[1] = spec
    OBVIOUS
  <2>2. ShapeAt(i, p) = SampledShape(i, p.part + 1, << spec >>, p)
    BY <1>1 DEF ShapeAt, ComponentShape
  <2>3. StepOf(i, p.part) = Step(i, spec.role)
    BY <1>1 DEF StepOf
  <2> HIDE DEF spec
  <2>q. QED
    BY <1>n, <1>1, <2>1, <2>2, <2>3
       DEF SampledShape, GroupOf, Parts, NextPart, LinesOf, ColumnsOf, spec
<1>2. CASE Mixed(i)
  <2> DEFINE group == MixedGroup(i, p.part + 1)
  <2>1. group # << >>
    BY <1>2 DEF InLoops, Turn
  <2>2. group[1] = spec
    BY <2>1 DEF MixedGroup
  <2>3. ShapeAt(i, p) = SampledShape(i, NextTurn(i, p.part), group, p)
    BY <1>n, <1>2 DEF ShapeAt, MixedShape
  <2>4. StepOf(i, p.part) = Step(i, spec.role)
    BY <1>2 DEF StepOf
  <2>5. GroupOf(i, p.part, p.line) = group
    BY <1>n, <1>2 DEF GroupOf
  <2> HIDE DEF spec, group
  <2>q. QED
    BY <1>n, <1>2, <2>2, <2>3, <2>4, <2>5
       DEF SampledShape, Parts, NextPart, LinesOf, ColumnsOf
<1>3. CASE ByRow(i)
  <2>1. ShapeAt(i, p) = RowShape(i, p)
    BY <1>n, <1>3 DEF ShapeAt
  <2>2. StepOf(i, p.part)[1] = 1
    BY <1>n, <1>3 DEF StepOf
  <2>3. TileWidth(i) \div 1 = TileWidth(i)
    BY TilesWhole
  <2>q. QED
    BY <1>n, <1>3, <2>1, <2>2, <2>3
       DEF RowShape, GroupOf, Parts, NextPart, LinesOf, ColumnsOf
<1>4. CASE ~(ByComponent(i) \/ Mixed(i) \/ ByRow(i))
  <2>1. ShapeAt(i, p) = GroupShape(i, p)
    BY <1>4 DEF ShapeAt
  <2>2. StepOf(i, p.part) = ChromaStep(Sampling(i))
    BY <1>4 DEF StepOf
  <2>3. p.part + 1 = NextPart(i, p.part)
    BY <1>4 DEF NextPart
  <2>q. QED
    BY <1>4, <2>1, <2>2, <2>3 DEF GroupShape, GroupOf, Parts, LinesOf, ColumnsOf
<1>q. QED
  BY <1>1, <1>2, <1>3, <1>4

\* The bytes that the reader is given at least.
ReadBytes(i) == IF ByTile(i) THEN TileBytes(i) ELSE PayloadBytes(i)

\* A tile has a number of bytes, and all tiles together have those of the image.
LEMMA TileFits ==
    ASSUME NEW i, Supported(i)
    PROVE  /\ TileBytes(i) \in Nat /\ ReadBytes(i) \in Nat
           /\ TileStart(i, 0) = 0
           /\ \A n \in 0 .. TileCount(i) : TileStart(i, n) \in Nat
           /\ \A n \in 0 .. TileCount(i) - 1 : TileStart(i, n) + TileBytes(i) <= ReadBytes(i)
           /\ ~ByTile(i) =>
                /\ \A n \in Nat : TileStart(i, n + 1) = TileStart(i, n) + TileBytes(i)
                /\ TileStart(i, TileCount(i)) = PayloadBytes(i)
           /\ ByTile(i) => \A n : TileStart(i, n) = 0
<1> DEFINE b == TileBytes(i)
           c == TileCount(i)
<1>1. b \in Nat
  <2>1. TileLaid(i)
    BY AllLaid
  <2>2. PartStart(i, Parts(i)) \in Nat /\ TileAlign(i) \in Nat
    <3>1. Parts(i) \in Nat
      BY <2>1 DEF TileLaid
    <3>2. Parts(i) \in 0 .. Parts(i)
      BY <3>1
    <3>q. QED
      BY <2>1, <3>2, TilesWhole DEF TileLaid, TileAlign
  <2>q. QED
    BY <2>1, <2>2, AlignNatural DEF TileLaid
<1>2. c \in Nat /\ c >= 1
  BY TilesWhole
<1>3. PayloadBytes(i) = b * c /\ PayloadBytes(i) \in Nat
  BY LayoutNatural DEF PayloadBytes
<1>4. CASE ByTile(i)
  <2>1. /\ \A n : TileStart(i, n) = 0
        /\ ReadBytes(i) = b
    BY <1>4 DEF TileStart, ReadBytes
  <2> HIDE DEF b, c
  <2>q. QED
    BY <1>1, <1>4, <2>1 DEF b
<1>5. CASE ~ByTile(i)
  <2>1. /\ \A n : TileStart(i, n) = b * n
        /\ ReadBytes(i) = b * c
    BY <1>3, <1>5 DEF TileStart, ReadBytes
  <2>2. \A n \in Nat : b * n \in Nat /\ b * (n + 1) = b * n + b
    <3> HIDE DEF b
    <3>q. QED
      BY <1>1, EqualLines
  <2>3. ASSUME NEW n \in 0 .. c - 1
        PROVE  b * n + b <= b * c
    <3>1. n + 1 \in Nat /\ n \in Nat /\ c \in Nat /\ n + 1 <= c
      BY <1>2
    <3> HIDE DEF b, c
    <3>2. b * (n + 1) <= b * c
      BY ONLY <1>1, <3>1, ProductGrows
    <3>3. b * (n + 1) = b * n + b
      BY <2>2, <3>1
    <3>q. QED
      BY <3>2, <3>3
  <2>4. b * 0 = 0
    <3> HIDE DEF b
    <3>q. QED
      BY <1>1
  <2>5. TileStart(i, 0) = 0
    BY <2>1, <2>4
  <2>6. \A n \in 0 .. c : TileStart(i, n) \in Nat
    <3>1. \A n \in 0 .. c : n \in Nat
      BY <1>2
    <3> HIDE DEF b, c
    <3>q. QED
      BY <2>1, <2>2, <3>1
  <2>7. \A n \in 0 .. c - 1 : TileStart(i, n) + b <= ReadBytes(i)
    <3> HIDE DEF b, c
    <3>q. QED
      BY <2>1, <2>3
  <2>8. \A n \in Nat : TileStart(i, n + 1) = TileStart(i, n) + b
    <3> HIDE DEF b, c
    <3>q. QED
      BY <2>1, <2>2
  <2>9. TileStart(i, c) = PayloadBytes(i) /\ ReadBytes(i) = PayloadBytes(i)
    <3> HIDE DEF b, c
    <3>q. QED
      BY <1>3, <2>1
  <2>q. QED
    BY <1>1, <1>3, <1>5, <2>5, <2>6, <2>7, <2>8, <2>9
<1>q. QED
  BY <1>4, <1>5

\* The lines of a part end within the tile.
LEMMA LineFits ==
    ASSUME NEW i, Supported(i), NEW part \in 0 .. Parts(i) - 1, Turn(i, part),
           NEW line \in 0 .. LinesOf(i, part) - 1
    PROVE  /\ PartStart(i, part) \in Nat /\ LineStart(i, part, line) \in Nat
           /\ LineBytes(i, part, line) \in Nat
           /\ PartStart(i, NextPart(i, part)) \in Nat
           /\ PartStart(i, part) + LineStart(i, part, line) + LineBytes(i, part, line)
                <= PartStart(i, NextPart(i, part))
           /\ PartStart(i, NextPart(i, part)) <= PartStart(i, Parts(i))
           /\ PartStart(i, Parts(i)) <= TileBytes(i)
           /\ PartStart(i, Parts(i)) \in Nat
<1> DEFINE c == LinesOf(i, part)
           f(k) == LineStart(i, part, k)
           next == NextPart(i, part)
<1>1. TileLaid(i) /\ PartLaid(i, part)
  BY AllLaid
<1>2. /\ c \in Nat \ {0} /\ f(0) = 0
      /\ \A k \in 0 .. c - 1 : /\ f(k) \in Nat
                               /\ f(k + 1) = f(k) + LineBytes(i, part, k)
                               /\ GroupOf(i, part, k) \in Seq(ComponentSpecs)
      /\ next \in part + 1 .. Parts(i)
      /\ AlignUp(PartStart(i, part) + f(c), PartAlign(i)) = PartStart(i, next)
  BY <1>1 DEF PartLaid
<1>3. /\ Parts(i) \in Nat
      /\ \A n \in 0 .. Parts(i) : /\ PartStart(i, n) \in Nat
                                  /\ PartStart(i, n) <= PartStart(i, Parts(i))
      /\ TileBytes(i) = AlignUp(PartStart(i, Parts(i)), TileAlign(i))
  BY <1>1 DEF TileLaid
<1>4. \A k \in 0 .. c - 1 : LineBytes(i, part, k) \in Nat
  BY <1>2, LineHolds
<1> HIDE DEF f, next, c
<1> DEFINE S == {k \in Nat : line + 1 + k <= c => f(line + 1) <= f(line + 1 + k) /\ f(line + 1 + k) \in Nat}
           d == c - (line + 1)
<1>l. line \in Nat /\ line < c /\ d \in Nat /\ line + 1 + d = c /\ line \in 0 .. c - 1
  BY <1>2 DEF c
<1>5. f(line + 1) = f(line) + LineBytes(i, part, line) /\ f(line) \in Nat /\ f(line + 1) \in Nat
  BY <1>2, <1>4, <1>l
<1>6. 0 \in S
  BY <1>5, <1>l
<1>7. ASSUME NEW k \in 0 .. d, k < d, k \in S
      PROVE  k + 1 \in S
  <2> DEFINE j == line + 1 + k
  <2>1. j \in 0 .. c - 1 /\ line + 1 + (k + 1) = j + 1 /\ k + 1 \in Nat /\ j <= c
    BY <1>2, <1>7, <1>l
  <2>2. f(line + 1) <= f(j) /\ f(j) \in Nat
    BY <1>7, <2>1
  <2> HIDE DEF j
  <2>3. f(j + 1) = f(j) + LineBytes(i, part, j) /\ LineBytes(i, part, j) \in Nat
    BY <1>2, <1>4, <2>1
  <2>4. f(line + 1) <= f(j + 1) /\ f(j + 1) \in Nat
    BY <1>5, <2>2, <2>3
  <2>q. QED
    BY <2>1, <2>4
<1>8. \A k \in 0 .. d : k \in S
  <2> HIDE DEF S, d
  <2>q. QED
    BY <1>6, <1>7, <1>l, Climb
<1>9. f(line + 1) <= f(c) /\ f(c) \in Nat
  <2>1. d \in S
    <3>1. d \in 0 .. d
      BY <1>l
    <3>q. QED
      BY <1>8, <3>1
  <2>q. QED
    BY <1>l, <2>1
<1>10. part \in 0 .. Parts(i) /\ next \in 0 .. Parts(i) /\ Parts(i) \in 0 .. Parts(i)
  BY <1>2, <1>3
<1>11. PartStart(i, part) + f(c) <= PartStart(i, next)
  <2> DEFINE v == PartStart(i, part) + f(c)
  <2>1. v \in Nat /\ PartAlign(i) \in Nat
    BY <1>3, <1>9, <1>10, TilesWhole DEF PartAlign
  <2>2. AlignUp(v, PartAlign(i)) = PartStart(i, next)
    BY <1>2
  <2> HIDE DEF v
  <2>3. v <= AlignUp(v, PartAlign(i))
    BY <2>1, AlignGrows
  <2>q. QED
    BY <2>2, <2>3 DEF v
<1>12. PartStart(i, Parts(i)) <= TileBytes(i)
  <2>1. PartStart(i, Parts(i)) \in Nat /\ TileAlign(i) \in Nat
    BY <1>3, <1>10, TilesWhole DEF TileAlign
  <2>q. QED
    BY <1>3, <2>1, AlignGrows
<1>13. /\ PartStart(i, part) \in Nat /\ PartStart(i, next) \in Nat
       /\ PartStart(i, Parts(i)) \in Nat /\ PartStart(i, next) <= PartStart(i, Parts(i))
  BY <1>3, <1>10
<1>14. PartStart(i, part) + f(line) + LineBytes(i, part, line) <= PartStart(i, next)
  <2>1. LineBytes(i, part, line) \in Nat
    BY <1>4, <1>l
  <2>q. QED
    BY <1>5, <1>9, <1>11, <1>13, <2>1
<1>q. QED
  BY <1>4, <1>5, <1>l, <1>12, <1>13, <1>14 DEF f, next

(***************************************************************************)
(* One turn of the loops: where the reader stands before it reads a        *)
(* column, and where it is brought to afterwards.                          *)
(***************************************************************************)
\* The line of a place lies within the part, the tile and the data.
LEMMA PlaceFacts ==
    ASSUME NEW i, Supported(i), NEW p, InLoops(i, p)
    PROVE  /\ p.part \in 0 .. Parts(i) - 1 /\ p.line \in 0 .. LinesOf(i, p.part) - 1
           /\ p.tile \in 0 .. TileCount(i) - 1 /\ p.column \in 0 .. ColumnsOf(i, p.part) - 1
           /\ PartLaid(i, p.part) /\ TileLaid(i)
           /\ GroupOf(i, p.part, p.line) \in Seq(RealSpecs)
           /\ GroupOf(i, p.part, p.line) \in Seq(ComponentSpecs)
           /\ LineByte(i, p) \in Nat /\ LineBytes(i, p.part, p.line) \in Nat
           /\ TileStart(i, p.tile) \in Nat /\ TileBytes(i) \in Nat
           /\ PartStart(i, p.part) \in Nat /\ LineStart(i, p.part, p.line) \in Nat
           /\ PartStart(i, NextPart(i, p.part)) \in Nat /\ PartStart(i, Parts(i)) \in Nat
           /\ ReadBytes(i) \in Nat
           /\ LineByte(i, p) + LineBytes(i, p.part, p.line)
                <= TileStart(i, p.tile) + PartStart(i, NextPart(i, p.part))
           /\ PartStart(i, NextPart(i, p.part)) <= PartStart(i, Parts(i))
           /\ PartStart(i, Parts(i)) <= TileBytes(i)
           /\ TileStart(i, p.tile) + TileBytes(i) <= ReadBytes(i)
<1>1. TileLaid(i) /\ (Turn(i, p.part) => PartLaid(i, p.part)) /\ Parts(i) \in Nat \ {0}
  <2>1. TileLaid(i) /\ \A part \in 0 .. Parts(i) - 1 : Turn(i, part) => PartLaid(i, part)
    BY AllLaid
  <2>2. Parts(i) \in Nat \ {0}
    BY <2>1 DEF TileLaid
  <2>3. p.part \in 0 .. Parts(i) - 1
    BY <2>2 DEF InLoops
  <2>q. QED
    BY <2>1, <2>2, <2>3
<1>2. Turn(i, p.part) /\ PartLaid(i, p.part)
  BY <1>1 DEF InLoops
<1>3. LinesOf(i, p.part) \in Nat \ {0} /\ ColumnsOf(i, p.part) \in Nat \ {0} /\ TileCount(i) \in Nat
  BY <1>2, TilesWhole DEF PartLaid
<1>4. /\ p.part \in 0 .. Parts(i) - 1 /\ p.line \in 0 .. LinesOf(i, p.part) - 1
      /\ p.tile \in 0 .. TileCount(i) - 1 /\ p.column \in 0 .. ColumnsOf(i, p.part) - 1
  BY <1>1, <1>3 DEF InLoops
<1>5. /\ GroupOf(i, p.part, p.line) \in Seq(RealSpecs)
      /\ GroupOf(i, p.part, p.line) \in Seq(ComponentSpecs)
  BY <1>2, <1>4 DEF PartLaid
<1> DEFINE a == PartStart(i, p.part)
           l == LineStart(i, p.part, p.line)
           b == LineBytes(i, p.part, p.line)
           n == PartStart(i, NextPart(i, p.part))
           e == PartStart(i, Parts(i))
           t == TileBytes(i)
           s == TileStart(i, p.tile)
<1>6. /\ a \in Nat /\ l \in Nat /\ b \in Nat /\ n \in Nat /\ e \in Nat
      /\ a + l + b <= n /\ n <= e /\ e <= t
  BY <1>2, <1>4, LineFits
<1>7. t \in Nat /\ ReadBytes(i) \in Nat /\ s \in Nat /\ s + t <= ReadBytes(i)
  <2>1. p.tile \in 0 .. TileCount(i)
    BY <1>3, <1>4
  <2>q. QED
    BY <1>4, <2>1, TileFits
<1>8. LineByte(i, p) = s + a + l
  BY DEF LineByte
<1>9. s + a + l \in Nat /\ s + a + l + b <= s + n
  <2> HIDE DEF a, l, b, n, e, t, s
  <2>q. QED
    BY <1>6, <1>7
<1>q. QED
  BY <1>1, <1>2, <1>4, <1>5, <1>6, <1>7, <1>8, <1>9

\* The columns of a place lie within its line.
LEMMA ColumnFits ==
    ASSUME NEW i, Supported(i), NEW p, InLoops(i, p), NEW n \in 0 .. ColumnsOf(i, p.part)
    PROVE  /\ ColumnBits(i, GroupOf(i, p.part, p.line), n) \in Nat
           /\ ColumnBits(i, GroupOf(i, p.part, p.line), n) <= LineBits(i, p.part, p.line)
           /\ LineBits(i, p.part, p.line) \in Nat
           /\ LineBits(i, p.part, p.line) <= 8 * LineBytes(i, p.part, p.line)
           /\ CeilDiv(LineBits(i, p.part, p.line), 8) \in Nat
           /\ Place(i, p) \in Nat
<1> DEFINE g == GroupOf(i, p.part, p.line)
           c == ColumnsOf(i, p.part)
<1>1. g \in Seq(ComponentSpecs) /\ p.column \in 0 .. c - 1 /\ LineByte(i, p) \in Nat
  BY PlaceFacts
<1>2. /\ c \in Nat \ {0} /\ LineBits(i, p.part, p.line) \in Nat
      /\ CeilDiv(LineBits(i, p.part, p.line), 8) \in Nat
      /\ LineBits(i, p.part, p.line) <= 8 * LineBytes(i, p.part, p.line)
  BY <1>1, LineHolds
<1>3. c \in Nat /\ n \in Nat /\ p.column \in Nat /\ n \in 0 .. c
  BY <1>1, <1>2
<1> HIDE DEF g, c
<1>4. \A m \in 0 .. c : ColumnBits(i, g, m) <= ColumnBits(i, g, c)
  BY <1>1, <1>3, ColumnFacts
<1>5. ColumnBits(i, g, n) \in Nat /\ ColumnBits(i, g, p.column) \in Nat
  BY <1>1, <1>3, ColumnFacts
<1>6. Place(i, p) = 8 * LineByte(i, p) + ColumnBits(i, g, p.column)
  BY DEF Place, g
<1>7. Place(i, p) \in Nat
  BY <1>1, <1>5, <1>6
<1>8. LineBits(i, p.part, p.line) = ColumnBits(i, g, c)
  BY DEF LineBits, g, c
<1>q. QED
  BY <1>2, <1>3, <1>4, <1>5, <1>7, <1>8 DEF g

(* The reader before a column. *)
Standing(i, p, x) ==
  [bit |-> x, pixel |-> Place(i, p), row |-> LineByte(i, p),
   tile |-> TileStart(i, p.tile), cause |-> "none"]

\* The first column of a tile.
AtTileOrigin(p) == p.part = 0 /\ p.line = 0 /\ p.column = 0

\* A reader that is at a place of the loops and has marked its row and tile.
Reading(i, r, p, total) ==
  /\ InLoops(i, p)
  /\ r \in Readers
  /\ r.cause = "none"
  /\ r.bit = Place(i, p)
  /\ r.bit <= total
  /\ p.column # 0 => r.row = LineByte(i, p)
  /\ ~AtTileOrigin(p) => r.tile = TileStart(i, p.tile)

\* A reader has marked the pixel, the row and the tile that it is in.
LEMMA MarksStand ==
    ASSUME NEW i, Supported(i), NEW p, NEW r, NEW total \in Nat, Reading(i, r, p, total)
    PROVE  Marked(r, p) = Standing(i, p, Place(i, p)) /\ Marked(r, p) \in Readers
<1>0. InLoops(i, p) /\ r \in Readers /\ r.cause = "none" /\ r.bit = Place(i, p)
  BY DEF Reading
<1>1. LineByte(i, p) \in Nat /\ TileStart(i, p.tile) \in Nat
  BY <1>0, PlaceFacts
<1>2. PartLaid(i, p.part) /\ TileLaid(i) /\ GroupOf(i, p.part, p.line) \in Seq(ComponentSpecs)
  BY <1>0, PlaceFacts
<1>3. Place(i, p) \in Nat
  <2>1. p.column \in 0 .. ColumnsOf(i, p.part) - 1
    BY <1>0, PlaceFacts
  <2>2. p.column \in 0 .. ColumnsOf(i, p.part)
    BY <1>2, <2>1 DEF PartLaid
  <2>q. QED
    BY <1>0, <2>2, ColumnFits
<1>4. p.column = 0 => r.bit \div 8 = LineByte(i, p)
  <2>1. SUFFICES ASSUME p.column = 0 PROVE r.bit \div 8 = LineByte(i, p)
    OBVIOUS
  <2>2. ColumnBits(i, GroupOf(i, p.part, p.line), 0) = 0
    BY <1>2, ColumnFacts, 0 \in Nat
  <2>3. r.bit = 8 * LineByte(i, p) + 0
    BY <1>0, <2>1, <2>2 DEF Place
  <2> DEFINE L == LineByte(i, p)
  <2> HIDE DEF L
  <2>4. L \in Nat => (8 * L + 0) \div 8 = L
    OBVIOUS
  <2>q. QED
    BY <1>1, <2>3, <2>4 DEF L
<1>5. AtTileOrigin(p) => r.bit \div 8 = TileStart(i, p.tile)
  <2>1. SUFFICES ASSUME AtTileOrigin(p) PROVE LineByte(i, p) = TileStart(i, p.tile)
    BY <1>4 DEF AtTileOrigin
  <2>2. PartStart(i, 0) = 0 /\ LineStart(i, 0, 0) = 0
    BY <1>2, <2>1 DEF TileLaid, PartLaid, AtTileOrigin
  <2>q. QED
    BY <1>1, <2>1, <2>2 DEF LineByte, AtTileOrigin
<1>6. Marked(r, p) = [bit |-> r.bit, pixel |-> r.bit,
                      row |-> IF p.column = 0 THEN r.bit \div 8 ELSE r.row,
                      tile |-> IF AtTileOrigin(p) THEN r.bit \div 8 ELSE r.tile,
                      cause |-> r.cause]
  <2>1. r = [bit |-> r.bit, pixel |-> r.pixel, row |-> r.row, tile |-> r.tile, cause |-> r.cause]
    BY <1>0 DEF Readers
  <2> DEFINE t == IF AtTileOrigin(p) THEN MarkTile(r) ELSE r
             l == IF p.column = 0 THEN MarkRow(t) ELSE t
  <2>2. t = [bit |-> r.bit, pixel |-> r.pixel, row |-> r.row,
             tile |-> IF AtTileOrigin(p) THEN r.bit \div 8 ELSE r.tile, cause |-> r.cause]
    BY <2>1 DEF MarkTile
  <2>3. Marked(r, p) = MarkPixel(l)
    BY DEF Marked, AtTileOrigin
  <2> HIDE DEF t
  <2>4. t.bit = r.bit /\ t.row = r.row
    BY <2>2
  <2>5. l = [bit |-> r.bit, pixel |-> r.pixel,
             row |-> IF p.column = 0 THEN r.bit \div 8 ELSE r.row,
             tile |-> IF AtTileOrigin(p) THEN r.bit \div 8 ELSE r.tile, cause |-> r.cause]
    BY <2>2, <2>4 DEF MarkRow
  <2> HIDE DEF l
  <2>q. QED
    BY <2>3, <2>5 DEF MarkPixel
<1>7. /\ (IF p.column = 0 THEN r.bit \div 8 ELSE r.row) = LineByte(i, p)
      /\ (IF AtTileOrigin(p) THEN r.bit \div 8 ELSE r.tile) = TileStart(i, p.tile)
  BY <1>4, <1>5 DEF Reading
<1>8. Marked(r, p) = Standing(i, p, Place(i, p))
  BY <1>0, <1>6, <1>7 DEF Standing
<1>9. Standing(i, p, Place(i, p)) \in Readers
  BY <1>1, <1>3 DEF Standing, Readers, Causes
<1>q. QED
  BY <1>8, <1>9

(* A reader that has been brought to a bit, or has failed: that the data   *)
(* were truncated means that they were shorter than the layout.            *)
Moved(i, p, s, x, total) ==
  /\ s \in Readers
  /\ s.cause = "none" => s = Standing(i, p, x) /\ x <= total
  /\ s.cause = "truncated" /\ PixelFits(i) => total < 8 * ReadBytes(i)

\* Going on to a bit that the layout has.
LEMMA SkipMoves ==
    ASSUME NEW i, NEW p, NEW s, NEW x, NEW total \in Nat, Moved(i, p, s, x, total),
           NEW y \in Nat, PixelFits(i) => y <= 8 * ReadBytes(i), ReadBytes(i) \in Nat
    PROVE  Moved(i, p, SkipTo(s, y, total), y, total)
<1>0. s \in Readers
  BY DEF Moved
<1>1. CASE s.cause # "none"
  <2>1. SkipTo(s, y, total) = s
    BY <1>1 DEF SkipTo
  <2>q. QED
    BY <1>1, <2>1 DEF Moved
<1>2. CASE s.cause = "none" /\ y <= total
  <2>1. SkipTo(s, y, total) = [s EXCEPT !.bit = y] /\ SkipTo(s, y, total) \in Readers
    BY <1>0, <1>2, SkipTyped
  <2>2. s = Standing(i, p, x)
    BY <1>2 DEF Moved
  <2>3. [Standing(i, p, x) EXCEPT !.bit = y] = Standing(i, p, y)
    BY DEF Standing
  <2>4. Standing(i, p, y).cause = "none"
    BY DEF Standing
  <2>q. QED
    BY <1>2, <2>1, <2>2, <2>3, <2>4 DEF Moved
<1>3. CASE s.cause = "none" /\ total < y
  <2>1. SkipTo(s, y, total) = [s EXCEPT !.cause = "truncated"] /\ SkipTo(s, y, total) \in Readers
    BY <1>0, <1>3, SkipTyped
  <2>2. [s EXCEPT !.cause = "truncated"].cause = "truncated"
    BY <1>0 DEF Readers
  <2>3. PixelFits(i) => total < 8 * ReadBytes(i)
    BY <1>3
  <2>q. QED
    BY <2>1, <2>2, <2>3 DEF Moved
<1>q. QED
  BY <1>1, <1>2, <1>3

\* What moves keep of a reader that stands: its marks.
LEMMA StandingFields ==
    ASSUME NEW i, NEW p, NEW x
    PROVE  /\ Standing(i, p, x).bit = x /\ Standing(i, p, x).pixel = Place(i, p)
           /\ Standing(i, p, x).row = LineByte(i, p)
           /\ Standing(i, p, x).tile = TileStart(i, p.tile)
           /\ Standing(i, p, x).cause = "none"
           /\ \A y : [Standing(i, p, x) EXCEPT !.bit = y] = Standing(i, p, y)
  BY DEF Standing

\* A reader that has failed is left as it is.
LEMMA FailedStays ==
    ASSUME NEW s, s.cause # "none"
    PROVE  /\ \A y, total : SkipTo(s, y, total) = s
           /\ \A why : Ends(s, why) = s
  BY DEF SkipTo, Ends

\* A failure is one for every bit that is gone on to.
LEMMA FailedMoves ==
    ASSUME NEW i, NEW p, NEW s, NEW x, NEW total, Moved(i, p, s, x, total), s.cause # "none"
    PROVE  \A y : Moved(i, p, s, y, total)
  BY DEF Moved

\* The samples of a column, and the rest of its pixel.
LEMMA ColumnMoves ==
    ASSUME NEW i, Supported(i), NEW p, InLoops(i, p), NEW total \in Nat,
           Place(i, p) <= total, Standing(i, p, Place(i, p)) \in Readers
    PROVE  Moved(i, p,
                 AfterColumn(ReadSamples(Standing(i, p, Place(i, p)),
                                         GroupOf(i, p.part, p.line), total).r, i, total),
                 8 * LineByte(i, p) + ColumnBits(i, GroupOf(i, p.part, p.line), p.column + 1),
                 total)
<1> DEFINE g == GroupOf(i, p.part, p.line)
           L == LineByte(i, p)
           a == ColumnBits(i, g, p.column)
           z == ColumnBits(i, g, p.column + 1)
           x == Place(i, p)
           m == Standing(i, p, x)
           s == ReadSamples(m, g, total).r
           e == GroupEndBit(g, x)
           q == 8 * ReadBytes(i)
<1>1. /\ g \in Seq(RealSpecs) /\ g \in Seq(ComponentSpecs) /\ L \in Nat
      /\ p.column \in Nat /\ p.column \in 0 .. ColumnsOf(i, p.part) - 1
      /\ ReadBytes(i) \in Nat
  BY PlaceFacts
<1>2. p.column + 1 \in 0 .. ColumnsOf(i, p.part) /\ p.column \in 0 .. ColumnsOf(i, p.part)
  <2>1. PartLaid(i, p.part)
    BY PlaceFacts
  <2>q. QED
    BY <1>1, <2>1 DEF PartLaid
<1>3. /\ z \in Nat /\ z <= 8 * LineBytes(i, p.part, p.line) /\ a \in Nat /\ x \in Nat
  <2>1. /\ z \in Nat /\ z <= LineBits(i, p.part, p.line)
        /\ LineBits(i, p.part, p.line) \in Nat
        /\ LineBits(i, p.part, p.line) <= 8 * LineBytes(i, p.part, p.line)
        /\ x \in Nat
    BY <1>2, ColumnFits
  <2>2. a \in Nat
    BY <1>2, ColumnFits
  <2>3. LineBytes(i, p.part, p.line) \in Nat
    BY PlaceFacts
  <2> HIDE DEF z, a, x
  <2>q. QED
    BY <2>1, <2>2, <2>3
<1>4. x = 8 * L + a
  BY DEF Place
<1>5. 8 * L + z <= q /\ q \in Nat
  <2> DEFINE b == LineBytes(i, p.part, p.line)
             t == TileStart(i, p.tile)
             n == PartStart(i, NextPart(i, p.part))
             k == PartStart(i, Parts(i))
             w == TileBytes(i)
             v == ReadBytes(i)
  <2>1. /\ b \in Nat /\ t \in Nat /\ n \in Nat /\ k \in Nat /\ w \in Nat /\ v \in Nat
        /\ L + b <= t + n /\ n <= k /\ k <= w /\ t + w <= v
    BY PlaceFacts
  <2>2. z <= 8 * b /\ q = 8 * v
    BY <1>3
  <2> HIDE DEF b, t, n, k, w, v, z, L, q
  <2>q. QED
    BY <1>1, <1>3, <2>1, <2>2
<1>6. GroupEndBit(g, x) = 8 * L + GroupEndBit(g, a) /\ GroupEndBit(g, a) \in Nat
  <2>1. Len(g) \in Nat /\ Len(g) \in 0 .. Len(g)
    BY <1>1, LenProperties
  <2> HIDE DEF g, L, a, x
  <2>2. EndUpto(g, 8 * L + a, Len(g)) = 8 * L + EndUpto(g, a, Len(g))
    BY <1>1, <1>3, <2>1, EndShifts
  <2>3. 8 * L + a \in Nat
    BY <1>1, <1>3
  <2>4. /\ EndUpto(g, 8 * L + a, Len(g)) = GroupEndBit(g, 8 * L + a)
        /\ EndUpto(g, a, Len(g)) = GroupEndBit(g, a)
    BY <1>1, <1>3, <2>3, EndSteps
  <2>5. GroupEndBit(g, a) \in Nat
    BY <1>1, <1>3, GroupEnds
  <2>q. QED
    BY <1>4, <2>2, <2>4, <2>5
<1>7. /\ m \in Readers /\ m.cause = "none" /\ m.bit = x /\ m.pixel = x
      /\ \A y : [m EXCEPT !.bit = y] = Standing(i, p, y)
  BY StandingFields
<1> DEFINE goal == Moved(i, p, AfterColumn(s, i, total), 8 * L + z, total)
<1> SUFFICES goal
  OBVIOUS
<1> HIDE DEF m
<1>8. /\ s \in Readers
      /\ s.cause = "none" => s = Standing(i, p, e) /\ e <= total
      /\ s.cause = "truncated" => total < e
  <2>1. m.bit <= total
    BY <1>7
  <2>2. /\ ReadSamples(m, g, total) \in GroupReads
        /\ s.cause = "none" => s = [m EXCEPT !.bit = GroupEndBit(g, m.bit)]
                               /\ GroupEndBit(g, m.bit) <= total
        /\ s.cause = "truncated" => total < GroupEndBit(g, m.bit)
    <3> HIDE DEF g
    <3>1. /\ ReadSamples(m, g, total) \in GroupReads
          /\ ReadSamples(m, g, total).r.cause = "none" =>
               /\ ReadSamples(m, g, total).r = [m EXCEPT !.bit = GroupEndBit(g, m.bit)]
               /\ GroupEndBit(g, m.bit) <= total
          /\ ReadSamples(m, g, total).r.cause = "truncated" => total < GroupEndBit(g, m.bit)
      BY <1>1, <1>7, <2>1, GroupRead
    <3>q. QED
      BY <3>1
  <2>3. s \in Readers
    BY <2>2 DEF GroupReads
  <2> HIDE DEF s, g
  <2>q. QED
    BY <1>7, <2>2, <2>3
<1>9. i.pixelSize \in Nat
  BY TilesWhole
<1>10. CASE i.pixelSize = 0
  <2>1. e = 8 * L + z
    <3>1. GroupEndBit(g, a) = z
      BY <1>1, <1>10, ColumnFacts
    <3>q. QED
      BY <1>6, <3>1
  <2>2. AfterColumn(s, i, total) = s
    BY <1>10 DEF AfterColumn, AlignPixel
  <2>3. Moved(i, p, s, 8 * L + z, total)
    <3>1. s.cause = "truncated" => total < q
      <4>1. e \in Nat
        <5> HIDE DEF e, L, z
        <5>q. QED
          BY <1>1, <1>3, <2>1
      <4> HIDE DEF e, s, q, z, L
      <4>q. QED
        BY <1>1, <1>3, <1>5, <1>8, <2>1, <4>1
    <3> HIDE DEF s, e, z, L
    <3>q. QED
      BY <1>8, <2>1, <3>1 DEF Moved
  <2>q. QED
    BY <2>2, <2>3
<1>11. CASE i.pixelSize # 0
  <2> DEFINE y == x + i.pixelSize * 8
  <2>1. z = a + 8 * i.pixelSize
    BY <1>1, <1>11, ColumnFacts
  <2>2. y = 8 * L + z /\ y \in Nat
    <3> HIDE DEF x, z, a, L
    <3>q. QED
      BY SMTT(30), <1>1, <1>3, <1>4, <1>9, <2>1
  <2>3. ~(ByComponent(i) \/ Mixed(i) \/ ByRow(i)) /\ InterleaveType(i) \in {"pixel", "multiY"}
    BY <1>11, KindsApart
  <2>4. AfterColumn(s, i, total) = AlignPixel(s, i.pixelSize, total)
    BY <2>3 DEF AfterColumn
  <2>5. PixelFits(i) => e <= 8 * L + z
    <3>1. SUFFICES ASSUME PixelFits(i) PROVE e <= 8 * L + z
      OBVIOUS
    <3>2. g = Specs(i)
      BY <2>3 DEF GroupOf
    <3>3. GroupEndBit(g, 0) <= 8 * i.pixelSize
      BY <1>11, <3>1, <3>2 DEF PixelFits
    <3> DEFINE d == i.pixelSize * p.column
    <3>4. a = 8 * d
      BY <1>11 DEF ColumnBits
    <3>5. d \in Nat
      BY <1>1, <1>9, ProductNatural
    <3>6. GroupEndBit(g, a) = 8 * d + GroupEndBit(g, 0) /\ GroupEndBit(g, 0) \in Nat
      <4>1. Len(g) \in Nat /\ Len(g) \in 0 .. Len(g)
        BY <1>1, LenProperties
      <4>z. 0 \in Nat /\ 8 * d + 0 = a /\ a \in Nat
        <5> HIDE DEF a, d
        <5>q. QED
          BY <3>4, <3>5
      <4> HIDE DEF g, d, a
      <4>2. EndUpto(g, 8 * d + 0, Len(g)) = 8 * d + EndUpto(g, 0, Len(g))
        BY <1>1, <3>5, <4>1, <4>z, EndShifts
      <4>4. /\ EndUpto(g, a, Len(g)) = GroupEndBit(g, a)
            /\ EndUpto(g, 0, Len(g)) = GroupEndBit(g, 0)
        BY <1>1, <4>z, EndSteps
      <4>5. GroupEndBit(g, 0) \in Nat
        BY <1>1, <4>z, GroupEnds
      <4>q. QED
        BY <4>z, <4>2, <4>4, <4>5
    <3> DEFINE h == GroupEndBit(g, 0)
               f == GroupEndBit(g, a)
    <3>7. e = 8 * L + f
      BY <1>6
    <3>8. f = 8 * d + h /\ h \in Nat /\ h <= 8 * i.pixelSize
      BY <3>3, <3>6
    <3> HIDE DEF e, f, h, d, a, z, L
    <3>q. QED
      BY SMTT(30), <1>1, <1>3, <1>9, <2>1, <3>4, <3>5, <3>7, <3>8
  <2>6. e \in Nat
    <3> HIDE DEF e, L, a, g
    <3>q. QED
      BY <1>1, <1>6 DEF e
  <2>7. CASE s.cause # "none"
    <3>1. AlignPixel(s, i.pixelSize, total) = s
      BY <2>7, FailedStays DEF AlignPixel
    <3>2. s.cause = "truncated" /\ PixelFits(i) => total < q
      <4>1. SUFFICES ASSUME s.cause = "truncated", PixelFits(i) PROVE total < q
        OBVIOUS
      <4>2. total < e /\ e <= 8 * L + z
        BY <1>8, <2>5, <4>1
      <4> HIDE DEF e, s, q, z, L
      <4>q. QED
        BY <1>1, <1>3, <1>5, <2>6, <4>2
    <3>3. Moved(i, p, s, 8 * L + z, total)
      <4> HIDE DEF s, e, z, L
      <4>q. QED
        BY <1>8, <2>7, <3>2 DEF Moved
    <3>q. QED
      BY <2>4, <3>1, <3>3
  <2>8. CASE s.cause = "none"
    <3>1. s = Standing(i, p, e) /\ e <= total /\ s \in Readers
      BY <1>8, <2>8
    <3>2. s.bit = e /\ s.pixel = x
      BY <3>1, StandingFields
    <3>3. Moved(i, p, s, e, total)
      <4> HIDE DEF s, e
      <4>q. QED
        BY <2>8, <3>1 DEF Moved
    <3>4. CASE s.bit - s.pixel > i.pixelSize * 8
      <4>1. AlignPixel(s, i.pixelSize, total) = Ends(s, "pixelSize")
        BY <1>11, <3>4 DEF AlignPixel
      <4>2. /\ Ends(s, "pixelSize") \in Readers
            /\ Ends(s, "pixelSize") = [s EXCEPT !.cause = "pixelSize"]
        <5>1. "pixelSize" \in Causes
          BY DEF Causes
        <5> HIDE DEF s
        <5>q. QED
          BY <2>8, <3>1, <5>1, EndsTyped
      <4>3. [s EXCEPT !.cause = "pixelSize"].cause = "pixelSize"
        <5> HIDE DEF s
        <5>q. QED
          BY <3>1 DEF Readers
      <4>4. Moved(i, p, Ends(s, "pixelSize"), 8 * L + z, total)
        <5> HIDE DEF s, L, z
        <5>q. QED
          BY <4>2, <4>3 DEF Moved
      <4>q. QED
        BY <2>4, <4>1, <4>4
    <3>5. CASE ~(s.bit - s.pixel > i.pixelSize * 8)
      <4>1. AlignPixel(s, i.pixelSize, total) = SkipTo(s, y, total)
        BY <1>11, <3>2, <3>5 DEF AlignPixel
      <4>2. y <= 8 * ReadBytes(i)
        BY <1>5, <2>2
      <4>3. Moved(i, p, SkipTo(s, y, total), y, total)
        <5> HIDE DEF s, y, e
        <5>q. QED
          BY <1>1, <2>2, <3>3, <4>2, SkipMoves
      <4>q. QED
        BY <2>2, <2>4, <4>1, <4>3
    <3>q. QED
      BY <3>4, <3>5
  <2>q. QED
    BY <2>7, <2>8
<1>q. QED
  BY <1>9, <1>10, <1>11

\* Aligning a reader from a byte to an alignment.
LEMMA AlignMoves ==
    ASSUME NEW i, NEW p, NEW s, NEW total \in Nat, ReadBytes(i) \in Nat,
           NEW byte \in Nat, NEW v \in Nat, NEW a \in Nat,
           Moved(i, p, s, 8 * (byte + v), total),
           byte + AlignUp(v, a) <= ReadBytes(i)
    PROVE  Moved(i, p, AlignFrom(s, byte, a, total), 8 * (byte + AlignUp(v, a)), total)
<1>1. AlignUp(v, a) \in Nat
  BY AlignNatural
<1> DEFINE w == AlignUp(v, a)
           y == 8 * (byte + w)
           x == 8 * (byte + v)
<1>2. y \in Nat /\ y <= 8 * ReadBytes(i)
  <2> DEFINE r == ReadBytes(i)
  <2>1. r \in Nat /\ w \in Nat /\ byte + w <= r
    BY <1>1
  <2> HIDE DEF w, r
  <2>2. y \in Nat /\ y <= 8 * r
    BY <2>1
  <2>q. QED
    BY <2>2 DEF r
<1>3. Moved(i, p, SkipTo(s, y, total), y, total)
  <2> HIDE DEF y
  <2>q. QED
    BY <1>2, SkipMoves
<1>4. CASE s.cause # "none"
  <2>1. AlignFrom(s, byte, a, total) = s /\ SkipTo(s, y, total) = s
    BY <1>4, FailedStays DEF AlignFrom
  <2>q. QED
    BY <1>3, <2>1
<1>5. CASE s.cause = "none"
  <2>1. s.bit = x
    BY <1>5, StandingFields DEF Moved
  <2>2. (s.bit \div 8) - byte = v
    <3>1. \A n \in Nat : (8 * n) \div 8 = n
      OBVIOUS
    <3>2. byte + v \in Nat
      OBVIOUS
    <3>3. s.bit \div 8 = byte + v
      BY <2>1, <3>1, <3>2
    <3>q. QED
      BY <3>3
  <2>3. AlignFrom(s, byte, a, total) = SkipTo(s, y, total)
    BY <2>2 DEF AlignFrom
  <2>q. QED
    BY <1>3, <2>3
<1>q. QED
  BY <1>4, <1>5

\* The rest of the last byte of a line is passed over.
LEMMA ByteMoves ==
    ASSUME NEW i, NEW p, NEW s, NEW total \in Nat, total % 8 = 0,
           NEW byte \in Nat, NEW b \in Nat, Moved(i, p, s, 8 * byte + b, total)
    PROVE  /\ Moved(i, p, AlignByte(s), 8 * (byte + CeilDiv(b, 8)), total)
           /\ AlignByte(s).row = s.row /\ AlignByte(s).tile = s.tile
<1> DEFINE x == 8 * byte + b
           y == 8 * (byte + CeilDiv(b, 8))
<1>0. s \in Readers
  BY DEF Moved
<1>2. ToByte(x) = y /\ (x <= total => y <= total)
  <2>1. ToByte(x) = 8 * byte + ToByte(b) /\ ToByte(b) = 8 * CeilDiv(b, 8) /\ CeilDiv(b, 8) \in Nat
    BY ByteAlign
  <2> DEFINE c == CeilDiv(b, 8)
  <2>2. x \in Nat
    OBVIOUS
  <2>3. ToByte(x) < x + 8
    <3> HIDE DEF x
    <3>q. QED
      BY <2>2, ByteAlign, 0 \in Nat
  <2>4. ToByte(x) = y
    <3> HIDE DEF x, c
    <3>q. QED
      BY <2>1
  <2>5. y \in Nat /\ y % 8 = 0
    <3> HIDE DEF c
    <3>q. QED
      BY <2>1
  <2> HIDE DEF x, y
  <2>q. QED
    BY <2>2, <2>3, <2>4, <2>5
<1>3. AlignByte(s) = [s EXCEPT !.bit = ToByte(s.bit)]
  BY DEF AlignByte
<1>4. s.bit \in Nat /\ ToByte(s.bit) \in Nat
  <2>1. s.bit \in Nat
    BY <1>0 DEF Readers
  <2>q. QED
    BY <2>1, ByteAlign, 0 \in Nat
<1>5. /\ AlignByte(s) \in Readers /\ AlignByte(s).cause = s.cause
      /\ AlignByte(s).row = s.row /\ AlignByte(s).tile = s.tile
  BY <1>0, <1>3, <1>4 DEF Readers
<1>6. s.cause = "none" => AlignByte(s) = Standing(i, p, y) /\ y <= total
  <2>1. SUFFICES ASSUME s.cause = "none" PROVE AlignByte(s) = Standing(i, p, y) /\ y <= total
    OBVIOUS
  <2>2. s = Standing(i, p, x) /\ x <= total
    BY <2>1 DEF Moved
  <2> HIDE DEF x, y
  <2>3. s.bit = x /\ [s EXCEPT !.bit = y] = Standing(i, p, y)
    BY <2>2, StandingFields
  <2>q. QED
    BY <1>2, <1>3, <2>2, <2>3
<1>q. QED
  <2> HIDE DEF x
  <2>1. Moved(i, p, AlignByte(s), y, total)
    <3> HIDE DEF y
    <3>q. QED
      BY <1>5, <1>6 DEF Moved
  <2>q. QED
    BY <1>5, <2>1

\* The end of a line.
LEMMA LineMoves ==
    ASSUME NEW i, Supported(i), NEW p, InLoops(i, p), NEW total \in Nat, total % 8 = 0,
           NEW s, Moved(i, p, s, 8 * LineByte(i, p) + LineBits(i, p.part, p.line), total)
    PROVE  Moved(i, p, AfterLine(s, i, total),
                 8 * (LineByte(i, p) + LineBytes(i, p.part, p.line)), total)
<1> DEFINE L == LineByte(i, p)
           b == LineBits(i, p.part, p.line)
           c == CeilDiv(b, 8)
           l == LineBytes(i, p.part, p.line)
           u == AlignByte(s)
<1>1. /\ L \in Nat /\ l \in Nat /\ ReadBytes(i) \in Nat /\ L + l <= ReadBytes(i)
  <2> DEFINE t == TileStart(i, p.tile)
             n == PartStart(i, NextPart(i, p.part))
             k == PartStart(i, Parts(i))
             w == TileBytes(i)
             v == ReadBytes(i)
  <2>1. /\ L \in Nat /\ l \in Nat /\ t \in Nat /\ n \in Nat /\ k \in Nat /\ w \in Nat /\ v \in Nat
        /\ L + l <= t + n /\ n <= k /\ k <= w /\ t + w <= v
    BY PlaceFacts
  <2> HIDE DEF L, l, t, n, k, w, v
  <2>2. L + l <= v
    BY <2>1
  <2>q. QED
    BY <2>1, <2>2 DEF v
<1>2. b \in Nat /\ c \in Nat
  <2>1. 0 \in 0 .. ColumnsOf(i, p.part)
    <3>1. PartLaid(i, p.part)
      BY PlaceFacts
    <3>q. QED
      BY <3>1 DEF PartLaid
  <2>q. QED
    BY <2>1, ColumnFits
<1>3. Moved(i, p, u, 8 * (L + c), total) /\ u.row = s.row
  <2> HIDE DEF L, b
  <2>1. Moved(i, p, s, 8 * L + b, total)
    BY DEF L, b
  <2>q. QED
    BY <1>1, <1>2, <2>1, ByteMoves
<1>4. CASE Mixed(i)
  <2>1. AfterLine(s, i, total) = u
    BY <1>4 DEF AfterLine, Mixed
  <2>2. l = c
    BY <1>4 DEF LineBytes
  <2>q. QED
    BY <1>3, <2>1, <2>2
<1>5. CASE ~Mixed(i)
  <2>1. AfterLine(s, i, total) = AlignFrom(u, u.row, i.rowAlign, total)
    <3>1. AfterLine(s, i, total) = AlignFrom(u, s.row, i.rowAlign, total)
      BY <1>5 DEF AfterLine, Mixed, AlignRow
    <3>q. QED
      BY <1>3, <3>1
  <2>2. l = AlignUp(c, i.rowAlign) /\ i.rowAlign \in Nat
    BY <1>5, TilesWhole DEF LineBytes
  <2>3. Moved(i, p, AlignFrom(u, L, i.rowAlign, total), 8 * (L + AlignUp(c, i.rowAlign)), total)
    <3> DEFINE al == i.rowAlign
    <3> HIDE DEF L, c, u, al, l
    <3>1. al \in Nat /\ L + AlignUp(c, al) <= ReadBytes(i)
      BY <1>1, <2>2 DEF al
    <3>2. Moved(i, p, AlignFrom(u, L, al, total), 8 * (L + AlignUp(c, al)), total)
      BY <1>1, <1>2, <1>3, <3>1, AlignMoves
    <3>q. QED
      BY <3>2 DEF al
  <2>4. AfterLine(s, i, total) = AlignFrom(u, L, i.rowAlign, total)
    <3>1. CASE u.cause # "none"
      BY <2>1, <3>1, FailedStays DEF AlignFrom
    <3>2. CASE u.cause = "none"
      <4>1. u.row = L
        BY <1>3, <3>2, StandingFields DEF Moved
      <4>q. QED
        BY <2>1, <4>1
    <3>q. QED
      BY <3>1, <3>2
  <2>q. QED
    BY <2>2, <2>3, <2>4
<1>q. QED
  BY <1>4, <1>5

\* The end of a part.
LEMMA PartMoves ==
    ASSUME NEW i, Supported(i), NEW p, InLoops(i, p), NEW total \in Nat,
           p.line + 1 = LinesOf(i, p.part),
           NEW s, Moved(i, p, s, 8 * (LineByte(i, p) + LineBytes(i, p.part, p.line)), total)
    PROVE  Moved(i, p, AfterPart(s, i, total),
                 8 * (TileStart(i, p.tile) + PartStart(i, NextPart(i, p.part))), total)
<1> DEFINE t == TileStart(i, p.tile)
           a == PartStart(i, p.part)
           l == LineStart(i, p.part, p.line)
           b == LineBytes(i, p.part, p.line)
           v == a + (l + b)
           n == PartStart(i, NextPart(i, p.part))
<1>1. /\ PartLaid(i, p.part) /\ p.line \in 0 .. LinesOf(i, p.part) - 1
      /\ t \in Nat /\ a \in Nat /\ l \in Nat /\ b \in Nat /\ n \in Nat
      /\ ReadBytes(i) \in Nat
  BY PlaceFacts
<1>2. t + n <= ReadBytes(i)
  <2> DEFINE k == PartStart(i, Parts(i))
             w == TileBytes(i)
             r == ReadBytes(i)
  <2>1. k \in Nat /\ w \in Nat /\ r \in Nat /\ n <= k /\ k <= w /\ t + w <= r
    BY PlaceFacts
  <2> HIDE DEF k, w, r, n, t
  <2>2. t + n <= r
    BY <1>1, <2>1
  <2>q. QED
    BY <2>2 DEF r
<1>3. v \in Nat /\ AlignUp(v, PartAlign(i)) = n
  <2>1. LineStart(i, p.part, LinesOf(i, p.part)) = l + b
    BY <1>1 DEF PartLaid
  <2>2. AlignUp(a + LineStart(i, p.part, LinesOf(i, p.part)), PartAlign(i)) = n
    BY <1>1 DEF PartLaid
  <2>3. v \in Nat
    <3> HIDE DEF a, l, b
    <3>q. QED
      BY <1>1
  <2>q. QED
    BY <2>1, <2>2, <2>3
<1>4. LineByte(i, p) + b = t + v
  <2>1. LineByte(i, p) = t + a + l
    BY DEF LineByte
  <2> HIDE DEF t, a, l, b
  <2>q. QED
    BY <1>1, <2>1
<1>5. Moved(i, p, s, 8 * (t + v), total)
  BY <1>4
<1> HIDE DEF t, v, n
<1>6. CASE PartAlign(i) = 0
  <2>1. n = v
    BY <1>3, <1>6 DEF AlignUp
  <2>2. AfterPart(s, i, total) = s
    BY <1>6 DEF AfterPart, PartAlign, ByTile, AlignTile
  <2>q. QED
    BY <1>5, <2>1, <2>2 DEF t, n
<1>7. CASE PartAlign(i) # 0
  <2>1. ByTile(i) /\ PartAlign(i) = i.tileAlign /\ i.tileAlign \in Nat
    BY <1>7, TilesWhole DEF PartAlign
  <2>2. AfterPart(s, i, total) = AlignFrom(s, s.tile, i.tileAlign, total)
    BY <1>7, <2>1 DEF AfterPart, ByTile, AlignTile
  <2>3. Moved(i, p, AlignFrom(s, t, i.tileAlign, total), 8 * (t + n), total)
    <3> DEFINE al == i.tileAlign
    <3>0. al \in Nat /\ AlignUp(v, al) = n
      BY <1>3, <2>1
    <3> HIDE DEF al
    <3>1. t + AlignUp(v, al) <= ReadBytes(i)
      BY <1>2, <3>0
    <3>2. Moved(i, p, AlignFrom(s, t, al, total), 8 * (t + AlignUp(v, al)), total)
      BY <1>1, <1>3, <1>5, <3>0, <3>1, AlignMoves
    <3>q. QED
      BY <3>0, <3>2 DEF al
  <2>4. AfterPart(s, i, total) = AlignFrom(s, t, i.tileAlign, total)
    <3>1. CASE s.cause # "none"
      BY <2>2, <3>1, FailedStays DEF AlignFrom
    <3>2. CASE s.cause = "none"
      <4>1. s.tile = t
        BY <1>5, <3>2, StandingFields DEF Moved, t
      <4>q. QED
        BY <2>2, <4>1
    <3>q. QED
      BY <3>1, <3>2
  <2>q. QED
    BY <2>3, <2>4 DEF t, n
<1>q. QED
  BY <1>6, <1>7

\* The end of a tile.
LEMMA TileMoves ==
    ASSUME NEW i, Supported(i), NEW p, InLoops(i, p), NEW total \in Nat,
           NEW s, s.cause = "none",
           Moved(i, p, s, 8 * (TileStart(i, p.tile) + PartStart(i, Parts(i))), total)
    PROVE  Moved(i, p, AfterTile(s, i, total), 8 * TileStart(i, p.tile + 1), total)
<1> DEFINE t == TileStart(i, p.tile)
           e == PartStart(i, Parts(i))
           x == 8 * (t + e)
           b == TileBytes(i)
           z == TileStart(i, p.tile + 1)
<1>1. /\ t \in Nat /\ e \in Nat /\ b \in Nat /\ ReadBytes(i) \in Nat /\ t + b <= ReadBytes(i)
      /\ TileLaid(i) /\ p.tile \in Nat
  BY PlaceFacts DEF InLoops
<1>2. AlignUp(e, TileAlign(i)) = b
  BY <1>1 DEF TileLaid
<1>3. s = Standing(i, p, x) /\ x <= total /\ s \in Readers
  BY DEF Moved
<1>4. s.tile = t
  BY <1>3, StandingFields
<1>5. Moved(i, p, s, 8 * (t + e), total)
  OBVIOUS
<1>6. CASE Mixed(i) /\ FirstChroma(i) = 0
  <2>1. AfterTile(s, i, total) = Ends(s, "chroma")
    BY <1>6 DEF AfterTile, Mixed
  <2>2. "chroma" \in Causes
    BY DEF Causes
  <2> HIDE DEF x, z
  <2>3. /\ Ends(s, "chroma") \in Readers
        /\ Ends(s, "chroma") = [s EXCEPT !.cause = "chroma"]
    BY <1>3, <2>2, EndsTyped
  <2>4. [s EXCEPT !.cause = "chroma"].cause = "chroma"
    BY <1>3 DEF Readers
  <2>5. Moved(i, p, Ends(s, "chroma"), 8 * z, total)
    BY <2>3, <2>4 DEF Moved
  <2>q. QED
    BY <2>1, <2>5 DEF z
<1>7. CASE ByTile(i)
  <2>1. ~Mixed(i)
    BY <1>7, KindsApart
  <2>2. AfterTile(s, i, total) = [s EXCEPT !.bit = 0]
    BY <1>7, <2>1 DEF AfterTile, Mixed, ByTile
  <2>3. 8 * z = 0
    BY <1>7 DEF TileStart
  <2>4. [s EXCEPT !.bit = 0] = Standing(i, p, 0)
    BY <1>3, StandingFields
  <2>5. [s EXCEPT !.bit = 0] \in Readers
    BY <1>3 DEF Readers
  <2>6. Standing(i, p, 0).cause = "none"
    BY StandingFields
  <2>7. Moved(i, p, [s EXCEPT !.bit = 0], 0, total)
    <3> HIDE DEF x
    <3>q. QED
      BY <2>4, <2>5, <2>6 DEF Moved
  <2>q. QED
    BY <2>2, <2>3, <2>7
<1>8. CASE ~ByTile(i) /\ ~(Mixed(i) /\ FirstChroma(i) = 0)
  <2>1. AfterTile(s, i, total) = AlignTile(s, i, total)
    BY <1>8 DEF AfterTile, Mixed, ByTile
  <2>2. TileAlign(i) = i.tileAlign /\ i.tileAlign \in Nat
    BY <1>8, TilesWhole DEF TileAlign
  <2>3. z = t + b
    BY <1>1, <1>8, TileFits
  <2> HIDE DEF t, e, b, z
  <2>4. CASE i.tileAlign = 0
    <3>1. b = e
      BY <1>2, <2>2, <2>4 DEF AlignUp
    <3>2. AlignTile(s, i, total) = s
      BY <2>4 DEF AlignTile
    <3>q. QED
      BY <1>5, <2>1, <2>3, <3>1, <3>2 DEF z
  <2>5. CASE i.tileAlign # 0
    <3> DEFINE al == i.tileAlign
    <3>1. al \in Nat /\ AlignUp(e, al) = b
      BY <1>2, <2>2
    <3>2. AlignTile(s, i, total) = AlignFrom(s, t, al, total)
      BY <1>4, <2>5 DEF AlignTile
    <3> HIDE DEF al
    <3>3. t + AlignUp(e, al) <= ReadBytes(i)
      BY <1>1, <3>1
    <3>4. Moved(i, p, AlignFrom(s, t, al, total), 8 * (t + AlignUp(e, al)), total)
      BY <1>1, <1>5, <3>1, <3>3, AlignMoves
    <3>q. QED
      BY <2>1, <2>3, <3>1, <3>2, <3>4 DEF z
  <2>q. QED
    BY <2>4, <2>5
<1>q. QED
  BY <1>6, <1>7, <1>8

\* The next column of a line.
LEMMA NextColumn ==
    ASSUME NEW i, Supported(i), NEW p, InLoops(i, p), NEW total \in Nat,
           p.column + 1 # ColumnsOf(i, p.part), NEW x,
           x = 8 * LineByte(i, p) + ColumnBits(i, GroupOf(i, p.part, p.line), p.column + 1),
           x <= total, Standing(i, p, x) \in Readers
    PROVE  Reading(i, Standing(i, p, x), [p EXCEPT !.column = @ + 1], total)
<1> DEFINE q == [p EXCEPT !.column = @ + 1]
<1>1. p \in [tile : Nat, part : Nat, line : Nat, column : Nat]
  BY DEF InLoops
<1>2. /\ q \in [tile : Nat, part : Nat, line : Nat, column : Nat]
      /\ q.tile = p.tile /\ q.part = p.part /\ q.line = p.line /\ q.column = p.column + 1
  BY <1>1
<1> HIDE DEF q
<1>3. p.column + 1 < ColumnsOf(i, p.part)
  <2>1. p.column \in 0 .. ColumnsOf(i, p.part) - 1 /\ PartLaid(i, p.part)
    BY PlaceFacts
  <2>2. ColumnsOf(i, p.part) \in Nat
    BY <2>1 DEF PartLaid
  <2>q. QED
    BY <2>1, <2>2
<1>4. InLoops(i, q)
  BY <1>2, <1>3 DEF InLoops
<1>5. LineByte(i, q) = LineByte(i, p) /\ Place(i, q) = x
  BY <1>2 DEF LineByte, Place
<1>q. QED
  BY <1>2, <1>4, <1>5, StandingFields DEF Reading, q

\* The next line of a part.
LEMMA NextLine ==
    ASSUME NEW i, Supported(i), NEW p, InLoops(i, p), NEW total \in Nat,
           p.line + 1 # LinesOf(i, p.part), NEW x,
           x = 8 * (LineByte(i, p) + LineBytes(i, p.part, p.line)),
           x <= total, Standing(i, p, x) \in Readers
    PROVE  Reading(i, Standing(i, p, x), [p EXCEPT !.column = 0, !.line = @ + 1], total)
<1> DEFINE q == [p EXCEPT !.column = 0, !.line = @ + 1]
<1>1. p \in [tile : Nat, part : Nat, line : Nat, column : Nat]
  BY DEF InLoops
<1>2. /\ q \in [tile : Nat, part : Nat, line : Nat, column : Nat]
      /\ q.tile = p.tile /\ q.part = p.part /\ q.line = p.line + 1 /\ q.column = 0
  <2> DEFINE r == [p EXCEPT !.column = 0]
  <2>1. /\ r \in [tile : Nat, part : Nat, line : Nat, column : Nat]
        /\ r.tile = p.tile /\ r.part = p.part /\ r.line = p.line /\ r.column = 0
    BY <1>1
  <2>2. q = [r EXCEPT !.line = @ + 1]
    OBVIOUS
  <2> HIDE DEF q, r
  <2>q. QED
    BY <2>1, <2>2
<1> HIDE DEF q
<1>3. /\ p.line \in 0 .. LinesOf(i, p.part) - 1 /\ PartLaid(i, p.part)
      /\ TileStart(i, p.tile) \in Nat /\ PartStart(i, p.part) \in Nat
      /\ LineStart(i, p.part, p.line) \in Nat /\ LineBytes(i, p.part, p.line) \in Nat
  BY PlaceFacts
<1>4. /\ LinesOf(i, p.part) \in Nat \ {0} /\ ColumnsOf(i, p.part) \in Nat \ {0}
      /\ LineStart(i, p.part, p.line + 1)
           = LineStart(i, p.part, p.line) + LineBytes(i, p.part, p.line)
  BY <1>3 DEF PartLaid
<1>5. InLoops(i, q)
  BY <1>2, <1>3, <1>4 DEF InLoops
<1>6. LineByte(i, q) = LineByte(i, p) + LineBytes(i, p.part, p.line)
  <2> DEFINE t == TileStart(i, p.tile)
             a == PartStart(i, p.part)
             l == LineStart(i, p.part, p.line)
             b == LineBytes(i, p.part, p.line)
  <2>1. LineByte(i, q) = t + a + (l + b) /\ LineByte(i, p) = t + a + l
    BY <1>2, <1>4 DEF LineByte
  <2>2. t \in Nat /\ a \in Nat /\ l \in Nat /\ b \in Nat
    BY <1>3
  <2>3. LineByte(i, q) = LineByte(i, p) + b
    <3> HIDE DEF t, a, l, b
    <3>q. QED
      BY <2>1, <2>2
  <2>q. QED
    BY <2>3
<1>7. Place(i, q) = x
  <2>1. GroupOf(i, q.part, q.line) \in Seq(ComponentSpecs) /\ LineByte(i, q) \in Nat
    BY <1>5, PlaceFacts
  <2>2. ColumnBits(i, GroupOf(i, q.part, q.line), q.column) = 0
    BY <1>2, <2>1, ColumnFacts, 0 \in Nat
  <2>3. Place(i, q) = 8 * LineByte(i, q) + 0
    BY <2>2 DEF Place
  <2>q. QED
    BY <1>6, <2>1, <2>3
<1>8. ~AtTileOrigin(q)
  BY <1>2, <1>3 DEF AtTileOrigin
<1>q. QED
  BY <1>2, <1>5, <1>7, <1>8, StandingFields DEF Reading, q

\* The first column of a part.
LEMMA PartOrigin ==
    ASSUME NEW i, Supported(i), NEW q, q \in [tile : Nat, part : Nat, line : Nat, column : Nat],
           q.tile < TileCount(i), q.part < Parts(i), Turn(i, q.part), q.line = 0, q.column = 0
    PROVE  /\ InLoops(i, q)
           /\ LineByte(i, q) = TileStart(i, q.tile) + PartStart(i, q.part)
           /\ Place(i, q) = 8 * (TileStart(i, q.tile) + PartStart(i, q.part))
<1>1. Parts(i) \in Nat
  <2>1. TileLaid(i)
    BY AllLaid
  <2>q. QED
    BY <2>1 DEF TileLaid
<1>2. q.part \in 0 .. Parts(i) - 1
  BY <1>1
<1>3. PartLaid(i, q.part)
  BY <1>2, AllLaid
<1>4. InLoops(i, q)
  BY <1>3 DEF InLoops, PartLaid
<1>5. LineStart(i, q.part, q.line) = 0
  BY <1>3 DEF PartLaid
<1>6. /\ GroupOf(i, q.part, q.line) \in Seq(ComponentSpecs)
      /\ TileStart(i, q.tile) \in Nat /\ PartStart(i, q.part) \in Nat
  BY <1>4, PlaceFacts
<1>7. LineByte(i, q) = TileStart(i, q.tile) + PartStart(i, q.part)
  BY <1>5, <1>6 DEF LineByte
<1>8. ColumnBits(i, GroupOf(i, q.part, q.line), q.column) = 0
  BY <1>6, ColumnFacts, 0 \in Nat
<1>9. Place(i, q) = 8 * LineByte(i, q) + 0
  BY <1>8 DEF Place
<1>10. Place(i, q) = 8 * (TileStart(i, q.tile) + PartStart(i, q.part))
  BY <1>6, <1>7, <1>9
<1>q. QED
  BY <1>4, <1>7, <1>10

\* The next part of a tile.
LEMMA NextOfParts ==
    ASSUME NEW i, Supported(i), NEW p, InLoops(i, p), NEW total \in Nat,
           NextPart(i, p.part) # Parts(i), NEW x,
           x = 8 * (TileStart(i, p.tile) + PartStart(i, NextPart(i, p.part))),
           x <= total, Standing(i, p, x) \in Readers
    PROVE  Reading(i, Standing(i, p, x),
                   [p EXCEPT !.column = 0, !.line = 0, !.part = NextPart(i, p.part)], total)
<1> DEFINE n == NextPart(i, p.part)
           q == [p EXCEPT !.column = 0, !.line = 0, !.part = n]
<1>1. p \in [tile : Nat, part : Nat, line : Nat, column : Nat] /\ p.tile < TileCount(i)
  BY DEF InLoops
<1>2. PartLaid(i, p.part) /\ TileLaid(i) /\ p.part \in 0 .. Parts(i) - 1
  BY PlaceFacts
<1>3. n \in p.part + 1 .. Parts(i) /\ Parts(i) \in Nat /\ (n < Parts(i) => Turn(i, n))
  BY <1>2 DEF PartLaid, TileLaid
<1>4. n \in Nat /\ n < Parts(i) /\ n # 0 /\ Turn(i, n)
  <2>1. n \in Nat /\ n < Parts(i) /\ n # 0
    <3> HIDE DEF n
    <3>1. n # Parts(i)
      BY DEF n
    <3>q. QED
      BY <1>1, <1>2, <1>3, <3>1
  <2>q. QED
    BY <1>3, <2>1
<1> HIDE DEF n
<1>5. /\ q \in [tile : Nat, part : Nat, line : Nat, column : Nat]
      /\ q.tile = p.tile /\ q.part = n /\ q.line = 0 /\ q.column = 0
  BY <1>1, <1>4
<1> HIDE DEF q
<1>6. InLoops(i, q) /\ Place(i, q) = x
  <2>1. /\ InLoops(i, q)
        /\ Place(i, q) = 8 * (TileStart(i, q.tile) + PartStart(i, q.part))
    BY <1>1, <1>4, <1>5, PartOrigin
  <2>q. QED
    BY <1>5, <2>1 DEF n
<1>7. ~AtTileOrigin(q)
  BY <1>4, <1>5 DEF AtTileOrigin
<1>q. QED
  BY <1>5, <1>6, <1>7, StandingFields DEF Reading, q, n

\* The next tile.
LEMMA NextTile ==
    ASSUME NEW i, Supported(i), NEW p, InLoops(i, p), NEW total \in Nat,
           p.tile + 1 # TileCount(i), NEW x, x = 8 * TileStart(i, p.tile + 1),
           x <= total, Standing(i, p, x) \in Readers
    PROVE  Reading(i, Standing(i, p, x), [Origin EXCEPT !.tile = p.tile + 1], total)
<1> DEFINE q == [Origin EXCEPT !.tile = p.tile + 1]
<1>1. p.tile \in Nat /\ p.tile < TileCount(i) /\ TileCount(i) \in Nat
  BY TilesWhole DEF InLoops
<1>2. /\ q \in [tile : Nat, part : Nat, line : Nat, column : Nat]
      /\ q.tile = p.tile + 1 /\ q.part = 0 /\ q.line = 0 /\ q.column = 0
      /\ q.tile < TileCount(i)
  BY <1>1 DEF Origin
<1> HIDE DEF q
<1>3. TileLaid(i)
  BY AllLaid
<1>4. 0 < Parts(i) /\ Turn(i, 0) /\ PartStart(i, 0) = 0
  BY <1>3 DEF TileLaid
<1>5. /\ InLoops(i, q)
      /\ Place(i, q) = 8 * (TileStart(i, q.tile) + PartStart(i, q.part))
  BY <1>2, <1>4, PartOrigin
<1>6. TileStart(i, q.tile) \in Nat
  BY <1>5, PlaceFacts
<1>7. Place(i, q) = x
  BY <1>2, <1>4, <1>5, <1>6
<1>8. AtTileOrigin(q)
  BY <1>2 DEF AtTileOrigin
<1>q. QED
  BY <1>2, <1>5, <1>7, <1>8, StandingFields DEF Reading, q

(***************************************************************************)
(* What a column leaves: the reader at the next column, or at the end of   *)
(* all tiles, or a failure.                                                *)
(***************************************************************************)
\* The reader after a column, and the place that comes next.
Goes(i, r, p, total) ==
  /\ r \in Readers
  /\ r.cause = "none" =>
       /\ r.bit <= total
       /\ p.tile # TileCount(i) => Reading(i, r, p, total)
       /\ p.tile = TileCount(i) /\ ~ByTile(i) => r.bit = 8 * PayloadBytes(i)
  /\ r.cause = "truncated" /\ PixelFits(i) => total < 8 * ReadBytes(i)

\* A reader that has been brought to the next column goes on there.
LEMMA MovedGoes ==
    ASSUME NEW i, Supported(i), NEW p, NEW s, NEW x, NEW total \in Nat, NEW q,
           Moved(i, p, s, x, total), q.tile # TileCount(i),
           s.cause = "none" /\ x <= total /\ Standing(i, p, x) \in Readers =>
             Reading(i, Standing(i, p, x), q, total)
    PROVE  Goes(i, s, q, total)
<1>1. CASE s.cause # "none"
  BY <1>1 DEF Moved, Goes
<1>2. CASE s.cause = "none"
  <2>1. s = Standing(i, p, x) /\ x <= total /\ s \in Readers
    BY <1>2 DEF Moved
  <2>2. Reading(i, s, q, total) /\ s.bit = x
    BY <1>2, <2>1, StandingFields
  <2>q. QED
    BY <1>2, <2>1, <2>2 DEF Goes
<1>q. QED
  BY <1>1, <1>2

\* A column of any interleaving.
LEMMA ColumnStep ==
    ASSUME NEW i, Supported(i), NEW p, NEW r, NEW total \in Nat, total % 8 = 0,
           Reading(i, r, p, total)
    PROVE  Goes(i, Aligned(ReadSamples(Marked(r, p), ShapeAt(i, p).group, total).r,
                           ShapeAt(i, p), i, p, total),
                NextPosition(ShapeAt(i, p), p), total)
<1> DEFINE shape == ShapeAt(i, p)
           g == GroupOf(i, p.part, p.line)
           L == LineByte(i, p)
           read == ReadSamples(Marked(r, p), shape.group, total).r
           column == AfterColumn(read, i, total)
           line == IF LastColumn(shape, p) THEN AfterLine(column, i, total) ELSE column
           part == IF LastLine(shape, p) THEN AfterPart(line, i, total) ELSE line
           tile == IF LastPart(shape, p) THEN AfterTile(part, i, total) ELSE part
           after == Aligned(read, shape, i, p, total)
           next == NextPosition(shape, p)
<1>0. InLoops(i, p) /\ r.bit = Place(i, p) /\ r.bit <= total
  BY DEF Reading
<1>1. /\ shape.group = g
      /\ shape.parts = Parts(i)
      /\ shape.next = NextPart(i, p.part)
      /\ shape.lines = LinesOf(i, p.part)
      /\ shape.columns = ColumnsOf(i, p.part)
  BY <1>0, ShapeFields
<1>2. after = IF part.cause = "none" THEN tile ELSE part
  BY DEF Aligned
<1>3. Moved(i, p, column, 8 * L + ColumnBits(i, g, p.column + 1), total)
  <2>1. Marked(r, p) = Standing(i, p, Place(i, p)) /\ Marked(r, p) \in Readers
    BY MarksStand
  <2>2. Place(i, p) <= total /\ Standing(i, p, Place(i, p)) \in Readers
    BY <1>0, <2>1
  <2>3. column = AfterColumn(ReadSamples(Standing(i, p, Place(i, p)), g, total).r, i, total)
    BY <1>1, <2>1
  <2>4. Moved(i, p,
              AfterColumn(ReadSamples(Standing(i, p, Place(i, p)), g, total).r, i, total),
              8 * L + ColumnBits(i, g, p.column + 1), total)
    BY <1>0, <2>2, ColumnMoves
  <2>q. QED
    BY <2>3, <2>4
<1>t. p.tile \in Nat /\ p.tile < TileCount(i) /\ TileCount(i) \in Nat
  BY <1>0, TilesWhole DEF InLoops
<1>p. p \in [tile : Nat, part : Nat, line : Nat, column : Nat]
  BY <1>0 DEF InLoops
<1>s. SUFFICES Goes(i, after, next, total)
  OBVIOUS
<1> HIDE DEF shape, read, column, g, L
<1>4. CASE ~LastColumn(shape, p)
  <2>1. after = column /\ next = [p EXCEPT !.column = @ + 1]
    BY <1>2, <1>4 DEF LastLine, LastPart, NextPosition
  <2>2. p.column + 1 # ColumnsOf(i, p.part)
    BY <1>1, <1>4 DEF LastColumn
  <2>3. next.tile # TileCount(i)
    <3>1. next.tile = p.tile
      BY <1>p, <2>1
    <3>q. QED
      BY <1>t, <3>1
  <2> DEFINE x == 8 * L + ColumnBits(i, g, p.column + 1)
  <2>4. x <= total /\ Standing(i, p, x) \in Readers =>
          Reading(i, Standing(i, p, x), [p EXCEPT !.column = @ + 1], total)
    BY <1>0, <2>2, NextColumn DEF L, g
  <2> HIDE DEF x, next, after
  <2>5. Moved(i, p, after, x, total)
    BY <1>3, <2>1 DEF x
  <2>q. QED
    BY <2>1, <2>3, <2>4, <2>5, MovedGoes
<1>5. CASE LastColumn(shape, p)
  <2> DEFINE y == 8 * (L + LineBytes(i, p.part, p.line))
  <2>1. p.column + 1 = ColumnsOf(i, p.part) /\ line = AfterLine(column, i, total)
    BY <1>1, <1>5 DEF LastColumn
  <2>2. Moved(i, p, line, y, total)
    <3>1. ColumnBits(i, g, p.column + 1) = LineBits(i, p.part, p.line)
      BY <2>1 DEF LineBits, g
    <3>2. Moved(i, p, column, 8 * L + LineBits(i, p.part, p.line), total)
      BY <1>3, <3>1
    <3>3. Moved(i, p, AfterLine(column, i, total), y, total)
      BY <1>0, <3>2, LineMoves DEF L
    <3>q. QED
      BY <2>1, <3>3
  <2> HIDE DEF line
  <2>3. CASE ~LastLine(shape, p)
    <3>1. after = line /\ next = [p EXCEPT !.column = 0, !.line = @ + 1]
      BY <1>2, <1>5, <2>3 DEF LastPart, NextPosition
    <3>2. p.line + 1 # LinesOf(i, p.part)
      BY <1>1, <1>5, <2>3 DEF LastLine
    <3>3. next.tile # TileCount(i)
      <4>1. next.tile = p.tile
        BY <1>p, <3>1
      <4>q. QED
        BY <1>t, <4>1
    <3>4. y <= total /\ Standing(i, p, y) \in Readers =>
            Reading(i, Standing(i, p, y), [p EXCEPT !.column = 0, !.line = @ + 1], total)
      BY <1>0, <3>2, NextLine DEF L
    <3> HIDE DEF y, next, after
    <3>5. Moved(i, p, after, y, total)
      BY <2>2, <3>1
    <3>q. QED
      BY <3>1, <3>3, <3>4, <3>5, MovedGoes
  <2>4. CASE LastLine(shape, p)
    <3> DEFINE n == NextPart(i, p.part)
               t == TileStart(i, p.tile)
               z == 8 * (t + PartStart(i, n))
    <3>1. p.line + 1 = LinesOf(i, p.part) /\ part = AfterPart(line, i, total)
      BY <1>1, <2>4 DEF LastLine
    <3>2. Moved(i, p, part, z, total)
      <4>1. Moved(i, p, line, 8 * (LineByte(i, p) + LineBytes(i, p.part, p.line)), total)
        BY <2>2 DEF L
      <4>2. Moved(i, p, AfterPart(line, i, total), z, total)
        BY <1>0, <3>1, <4>1, PartMoves
      <4>q. QED
        BY <3>1, <4>2
    <3> HIDE DEF part
    <3>3. CASE ~LastPart(shape, p)
      <4>1. after = part /\ next = [p EXCEPT !.column = 0, !.line = 0, !.part = shape.next]
        BY <1>2, <1>5, <2>4, <3>3 DEF NextPosition
      <4>2. next = [p EXCEPT !.column = 0, !.line = 0, !.part = n] /\ n # Parts(i)
        BY <1>1, <2>4, <3>3, <4>1 DEF LastPart
      <4>3. next.tile # TileCount(i)
        <5>1. next.tile = p.tile
          BY <1>p, <4>2
        <5>q. QED
          BY <1>t, <5>1
      <4>4. z <= total /\ Standing(i, p, z) \in Readers =>
              Reading(i, Standing(i, p, z),
                      [p EXCEPT !.column = 0, !.line = 0, !.part = n], total)
        BY <1>0, <4>2, NextOfParts
      <4> HIDE DEF z, next, after, n
      <4>5. Moved(i, p, after, z, total)
        BY <3>2, <4>1
      <4>q. QED
        BY <4>2, <4>3, <4>4, <4>5, MovedGoes
    <3>4. CASE LastPart(shape, p)
      <4>1. n = Parts(i)
        BY <1>1, <3>4 DEF LastPart
      <4>2. next = [Origin EXCEPT !.tile = p.tile + 1]
        BY <1>5, <2>4, <3>4 DEF NextPosition
      <4>3. after = IF part.cause = "none" THEN AfterTile(part, i, total) ELSE part
        BY <1>2, <3>4
      <4> DEFINE w == 8 * TileStart(i, p.tile + 1)
      <4>4. Moved(i, p, after, w, total)
        <5>1. CASE part.cause # "none"
          BY <3>2, <4>3, <5>1, FailedMoves
        <5>2. CASE part.cause = "none"
          <6>1. Moved(i, p, part, 8 * (TileStart(i, p.tile) + PartStart(i, Parts(i))), total)
            BY <3>2, <4>1
          <6>2. Moved(i, p, AfterTile(part, i, total), w, total)
            BY <1>0, <5>2, <6>1, TileMoves
          <6>q. QED
            BY <4>3, <5>2, <6>2
        <5>q. QED
          BY <5>1, <5>2
      <4>5. next.tile = p.tile + 1
        BY <4>2 DEF Origin
      <4>6. CASE p.tile + 1 # TileCount(i)
        <5>1. w <= total /\ Standing(i, p, w) \in Readers =>
                Reading(i, Standing(i, p, w), [Origin EXCEPT !.tile = p.tile + 1], total)
          BY <1>0, <4>6, NextTile
        <5> HIDE DEF w, next, after
        <5>q. QED
          BY <4>2, <4>4, <4>5, <4>6, <5>1, MovedGoes
      <4>7. CASE p.tile + 1 = TileCount(i)
        <5>1. ~ByTile(i) => w = 8 * PayloadBytes(i)
          BY <4>7, TileFits
        <5>2. next.tile = TileCount(i)
          BY <4>5, <4>7
        <5> HIDE DEF w, next, after
        <5>3. after.cause = "none" => after.bit = w /\ w <= total
          BY <4>4, StandingFields DEF Moved
        <5>q. QED
          BY <4>4, <5>1, <5>2, <5>3 DEF Goes, Moved
      <4>q. QED
        BY <4>6, <4>7
    <3>q. QED
      BY <3>3, <3>4
  <2>q. QED
    BY <2>3, <2>4
<1>q. QED
  BY <1>4, <1>5

(***************************************************************************)
(* The bits of all samples fit the layout, when pixels fit their size.     *)
(***************************************************************************)
\* The bits of the samples of a group without their padding.
GroupDepth(group) == Upto([k \in 1 .. Len(group) |-> group[k].depth], Len(group))

\* The pixels that a sample of a component stands for when sizes are checked.
NeedStep(i, k) ==
  IF InterleaveType(i) = "multiY" THEN ChromaStep(Sampling(i)) ELSE Step(i, Specs(i)[k].role)

(* The bits of the samples of a component in a tile. *)
Needs(i) ==
  [k \in 1 .. Len(Specs(i)) |->
     Specs(i)[k].depth
       * ((TileWidth(i) \div NeedStep(i, k)[1]) * (TileHeight(i) \div NeedStep(i, k)[2]))]

\* The groups of whole tiles are whole.
LEMMA CeilOfTiles ==
    ASSUME NEW n \in Nat, NEW step \in Nat \ {0}, NEW a \in Nat
    PROVE  CeilDiv(n * (step * a), step) = n * a
<1> DEFINE q == n * a
           x == n * (step * a)
<1>1. q \in Nat /\ x = step * q
  <2>1. q \in Nat
    BY ProductNatural
  <2>2. n * (step * a) = (n * step) * a
    OBVIOUS
  <2>3. (n * step) * a = (step * n) * a
    OBVIOUS
  <2>4. (step * n) * a = step * (n * a)
    OBVIOUS
  <2>q. QED
    BY <2>1, <2>2, <2>3, <2>4
<1> HIDE DEF q, x
<1>2. step * q \in Nat
  BY <1>1, ProductNatural
<1>3. x \in Nat /\ x <= step * q /\ step * q < x + step
  BY <1>1, <1>2
<1>4. CeilDiv(x, step) = q
  BY ONLY <1>1, <1>3, step \in Nat \ {0}, CeilUnique
<1>q. QED
  BY <1>4 DEF x, q

\* What the tiles need of a component in all.
LEMMA NeedScales ==
    ASSUME NEW C \in Nat, NEW W \in Nat, NEW R \in Nat, NEW H \in Nat, NEW D \in Nat
    PROVE  ((C * W) * (R * H)) * D = (D * (W * H)) * (R * C)
<1>1. (C * W) * (R * H) = (R * C) * (W * H)
  <2> DEFINE a == W * H
  <2>1. (C * W) * (R * H) = C * (W * (R * H))
    OBVIOUS
  <2>2. W * (R * H) = R * a
    OBVIOUS
  <2>3. C * (R * a) = (C * R) * a
    OBVIOUS
  <2>4. C * R = R * C
    OBVIOUS
  <2>q. QED
    BY <2>1, <2>2, <2>3, <2>4
<1> DEFINE n == R * C
           a == W * H
<1>2. n \in Nat /\ a \in Nat
  BY ProductNatural
<1> HIDE DEF n, a
<1>3. (n * a) * D = (D * a) * n
  BY <1>2
<1>q. QED
  BY <1>1, <1>3 DEF n, a

\* The samples of the image are those of its tiles.
LEMMA MinimumOfTiles ==
    ASSUME NEW i, Supported(i)
    PROVE  /\ \A k \in 1 .. Len(Specs(i)) :
                /\ NeedStep(i, k) \in {<< 1, 1 >>, ChromaStep(Sampling(i))}
                /\ Specs(i)[k].depth \in Nat
                /\ TileWidth(i) \div NeedStep(i, k)[1] \in Nat
                /\ TileHeight(i) \div NeedStep(i, k)[2] \in Nat
                /\ Needs(i)[k] \in Nat
           /\ MinimumBits(i, Specs(i)) = Upto(Needs(i), Len(Specs(i))) * TileCount(i)
<1> DEFINE c == Len(Specs(i))
           step(k) == NeedStep(i, k)
           w(k) == TileWidth(i) \div step(k)[1]
           h(k) == TileHeight(i) \div step(k)[2]
           d(k) == Specs(i)[k].depth
           m == [k \in 1 .. c |-> CeilDiv(i.width, step(k)[1]) * CeilDiv(i.height, step(k)[2]) * d(k)]
           e == Needs(i)
<1>1. c \in Nat /\ \A k \in 1 .. c : d(k) \in Nat
  BY SpecsReal DEF RealSpecs, ComponentSpecs
<1>2. /\ i.cols \in Nat /\ i.rows \in Nat
      /\ i.width = i.cols * TileWidth(i) /\ i.height = i.rows * TileHeight(i)
      /\ TileCount(i) = i.rows * i.cols /\ TileCount(i) \in Nat
  BY TilesWhole
<1>3. ASSUME NEW k \in 1 .. c
      PROVE  /\ step(k) \in {<< 1, 1 >>, ChromaStep(Sampling(i))}
             /\ w(k) \in Nat /\ h(k) \in Nat
             /\ step(k)[1] \in Nat \ {0} /\ step(k)[2] \in Nat \ {0}
             /\ TileWidth(i) = step(k)[1] * w(k) /\ TileHeight(i) = step(k)[2] * h(k)
  <2>1. step(k) \in {<< 1, 1 >>, ChromaStep(Sampling(i))}
    BY StepOfRole DEF NeedStep
  <2> DEFINE s == step(k)
  <2> HIDE DEF s
  <2>2. s \in {<< 1, 1 >>, ChromaStep(Sampling(i))}
    BY <2>1 DEF s
  <2>3. /\ s[1] \in Nat \ {0} /\ s[2] \in Nat \ {0}
        /\ TileWidth(i) \div s[1] \in Nat \ {0}
        /\ TileHeight(i) \div s[2] \in Nat \ {0}
        /\ TileWidth(i) = s[1] * (TileWidth(i) \div s[1])
        /\ TileHeight(i) = s[2] * (TileHeight(i) \div s[2])
    BY <2>2, StepsDivide
  <2>q. QED
    BY <2>1, <2>3 DEF s
<1>4. ASSUME NEW k \in 1 .. c
      PROVE  e[k] \in Nat /\ m[k] = e[k] * TileCount(i)
  <2> DEFINE W == w(k)
             H == h(k)
             D == d(k)
             a == step(k)[1]
             b == step(k)[2]
             C == i.cols
             R == i.rows
  <2>1. e[k] = D * (W * H)
    BY DEF Needs
  <2>2. m[k] = CeilDiv(i.width, a) * CeilDiv(i.height, b) * D
    OBVIOUS
  <2>3. /\ i.width = C * (a * W) /\ i.height = R * (b * H)
        /\ W \in Nat /\ H \in Nat /\ a \in Nat \ {0} /\ b \in Nat \ {0} /\ D \in Nat
        /\ C \in Nat /\ R \in Nat /\ TileCount(i) = R * C
    BY <1>1, <1>2, <1>3
  <2> HIDE DEF W, H, D, a, b, C, R, e, m
  <2>4. CeilDiv(i.width, a) = C * W /\ CeilDiv(i.height, b) = R * H
    <3>1. CeilDiv(C * (a * W), a) = C * W
      BY <2>3, CeilOfTiles
    <3>2. CeilDiv(R * (b * H), b) = R * H
      BY <2>3, CeilOfTiles
    <3>q. QED
      BY <2>3, <3>1, <3>2
  <2>5. m[k] = (D * (W * H)) * (R * C)
    <3>1. ((C * W) * (R * H)) * D = (D * (W * H)) * (R * C)
      BY <2>3, NeedScales
    <3>q. QED
      BY <2>2, <2>4, <3>1
  <2>6. D * (W * H) \in Nat
    BY <2>3, ProductNatural
  <2>q. QED
    BY <2>1, <2>3, <2>5, <2>6
<1>5. MinimumBits(i, Specs(i)) = Sum(m)
  BY DEF MinimumBits, NeedStep
<1>6. Sum(m) = Upto(m, c)
  <2>1. DOMAIN m = 1 .. c
    OBVIOUS
  <2> HIDE DEF m
  <2>q. QED
    BY <1>1, <2>1, SumIsUpto
<1>7. Upto(m, c) = Upto(e, c) * TileCount(i)
  <2>1. c \in 0 .. c
    BY <1>1
  <2>2. /\ \A k \in 1 .. c : e[k] \in Nat
        /\ \A k \in 1 .. c : m[k] = e[k] * TileCount(i)
    BY <1>4
  <2> DEFINE t == TileCount(i)
  <2>3. /\ c \in Nat /\ t \in Nat
        /\ \A k \in 1 .. c : e[k] \in Nat
        /\ \A k \in 1 .. c : m[k] = e[k] * t
    BY <1>1, <1>2, <2>2
  <2> HIDE DEF m, e, c, t
  <2>4. \A n \in 0 .. c : Upto(m, n) = Upto(e, n) * t
    BY ONLY <2>3, UptoScales
  <2>q. QED
    BY <2>1, <2>4 DEF t
<1> HIDE DEF m
<1>q. QED
  BY <1>1, <1>3, <1>4, <1>5, <1>6, <1>7

\* A line holds the samples of its columns.
LEMMA LineNeeds ==
    ASSUME NEW i, Supported(i), PixelFits(i), NEW part, NEW line,
           GroupOf(i, part, line) \in Seq(ComponentSpecs)
    PROVE  /\ GroupDepth(GroupOf(i, part, line)) \in Nat
           /\ GroupDepth(GroupOf(i, part, line)) * ColumnsOf(i, part)
                <= 8 * LineBytes(i, part, line)
<1> DEFINE g == GroupOf(i, part, line)
           n == ColumnsOf(i, part)
           d == GroupDepth(g)
           b == LineBits(i, part, line)
<1>1. /\ n \in Nat /\ b \in Nat /\ LineBytes(i, part, line) \in Nat
      /\ b <= 8 * LineBytes(i, part, line)
  BY LineHolds
<1>2. \A m \in Nat : d \in Nat /\ d * m <= GroupRunBits(g, m)
  <2> HIDE DEF g
  <2>1. g \in Seq(ComponentSpecs)
    BY DEF g
  <2>q. QED
    BY <2>1, RunHolds DEF GroupDepth
<1>3. d * n <= b
  <2>1. CASE i.pixelSize = 0
    <3>1. b = GroupRunBits(g, n)
      BY <2>1 DEF LineBits, ColumnBits
    <3>q. QED
      BY <1>1, <1>2, <3>1
  <2>2. CASE i.pixelSize # 0
    <3> DEFINE s == i.pixelSize
    <3>1. b = 8 * (s * n) /\ s \in Nat
      BY <2>2, TilesWhole DEF LineBits, ColumnBits
    <3>2. g = Specs(i)
      BY <2>2, KindsApart DEF GroupOf
    <3>3. GroupEndBit(g, 0) <= 8 * s
      BY <2>2, <3>2 DEF PixelFits
    <3>4. GroupEndBit(g, 0) = GroupRunBits(g, 1) /\ GroupRunBits(g, 1) \in Nat
      <4>1. g \in Seq(ComponentSpecs) /\ 0 \in Nat /\ 0 + 1 = 1 /\ 1 \in Nat
        OBVIOUS
      <4> HIDE DEF g
      <4>2. /\ GroupRunBits(g, 0) = 0
            /\ GroupEndBit(g, GroupRunBits(g, 0)) = GroupRunBits(g, 0 + 1)
        BY <4>1, RunNext
      <4>3. GroupRunBits(g, 1) \in Nat
        BY <4>1, RunNext
      <4>q. QED
        BY <4>1, <4>2, <4>3
    <3>5. d \in Nat /\ d * 1 <= GroupRunBits(g, 1)
      BY <1>2
    <3> HIDE DEF g, d, n, s, b
    <3>6. d <= 8 * s
      BY <3>1, <3>3, <3>4, <3>5
    <3>7. 8 * s \in Nat
      BY <3>1
    <3>8. d * n <= (8 * s) * n
      BY ONLY <1>1, <3>5, <3>6, <3>7, ProductGrows
    <3>9. (8 * s) * n = 8 * (s * n)
      BY <1>1, <3>1
    <3>q. QED
      BY <3>1, <3>8, <3>9
  <2>q. QED
    BY <2>1, <2>2
<1>4. d * n \in Nat /\ d \in Nat
  <2>1. d \in Nat
    BY <1>2, 0 \in Nat
  <2>q. QED
    BY <1>1, <2>1, ProductNatural
<1> HIDE DEF d, n, b
<1>q. QED
  BY <1>1, <1>3, <1>4 DEF d, n

\* The depth of a group is the sum of those of its components.
LEMMA DepthOfOne ==
    ASSUME NEW spec \in ComponentSpecs
    PROVE  GroupDepth(<< spec >>) = spec.depth
<1> DEFINE g == << spec >>
           e == [k \in 1 .. 1 |-> g[k].depth]
<1>1. Len(g) = 1 /\ g[1] = spec /\ spec.depth \in Nat
  BY DEF ComponentSpecs
<1>2. GroupDepth(g) = Upto(e, 1)
  BY <1>1 DEF GroupDepth
<1>3. e[1] = spec.depth
  BY <1>1
<1> HIDE DEF e, g
<1>4. \A k \in 1 .. 1 : e[k] \in Nat
  BY <1>1, <1>3
<1>5. Upto(e, 0) = 0 /\ \A n \in 1 .. 1 : Upto(e, n) = Upto(e, n - 1) + e[n]
  BY <1>4, UptoFacts
<1>6. Upto(e, 1) = spec.depth
  BY <1>1, <1>3, <1>5
<1>q. QED
  BY <1>2, <1>6 DEF g

\* So is that of two components.
LEMMA DepthOfTwo ==
    ASSUME NEW spec \in ComponentSpecs, NEW other \in ComponentSpecs
    PROVE  GroupDepth(<< spec, other >>) = spec.depth + other.depth
<1> DEFINE g == << spec, other >>
           e == [k \in 1 .. 2 |-> g[k].depth]
<1>1. Len(g) = 2 /\ g[1] = spec /\ g[2] = other /\ spec.depth \in Nat /\ other.depth \in Nat
  BY DEF ComponentSpecs
<1>2. GroupDepth(g) = Upto(e, 2)
  BY <1>1 DEF GroupDepth
<1>3. e[1] = spec.depth /\ e[2] = other.depth
  BY <1>1
<1> HIDE DEF e, g
<1>4. \A k \in 1 .. 2 : e[k] \in Nat
  BY <1>1, <1>3
<1>5. Upto(e, 0) = 0 /\ \A n \in 1 .. 2 : Upto(e, n) = Upto(e, n - 1) + e[n]
  BY <1>4, UptoFacts
<1>6. Upto(e, 1) = spec.depth /\ Upto(e, 2) = Upto(e, 1) + other.depth
  BY <1>1, <1>3, <1>5
<1>q. QED
  BY <1>2, <1>6 DEF g

\* A part of equal lines that hold their samples holds the samples of all.
LEMMA LinesNeed ==
    ASSUME NEW d \in Nat, NEW n \in Nat, NEW b \in Nat, d * n <= 8 * b, NEW lines \in Nat
    PROVE  d * (n * lines) <= (b * lines) * 8
<1>1. (d * n) * lines <= (8 * b) * lines
  <2> DEFINE x == d * n
             y == 8 * b
  <2>1. x \in Nat /\ y \in Nat /\ x <= y
    BY ProductNatural
  <2> HIDE DEF x, y
  <2>2. x * lines <= y * lines
    BY ONLY <2>1, lines \in Nat, ProductGrows
  <2>q. QED
    BY <2>2 DEF x, y
<1>2. d * (n * lines) = (d * n) * lines
  OBVIOUS
<1>3. (b * lines) * 8 = (8 * b) * lines
  OBVIOUS
<1>q. QED
  BY <1>1, <1>2, <1>3

\* If the parts hold what they need, their sum holds the sum of the needs.
LEMMA NeedsWithin ==
    ASSUME NEW c \in Nat, NEW m, NEW e, NEW h \in Nat,
           \A k \in 1 .. c : m[k] \in Nat /\ e[k] \in Nat /\ m[k] <= e[k] * h
    PROVE  Upto(m, c) <= Upto(e, c) * h
<1> DEFINE f == [k \in 1 .. c |-> e[k] * h]
<1>1. \A k \in 1 .. c : m[k] \in Nat /\ f[k] \in Nat /\ m[k] <= f[k]
  BY ProductNatural
<1>2. /\ \A k \in 1 .. c : e[k] \in Nat
      /\ \A k \in 1 .. c : f[k] = e[k] * h
  OBVIOUS
<1>3. c \in 0 .. c
  OBVIOUS
<1> HIDE DEF f
<1>4. \A n \in 0 .. c : Upto(m, n) <= Upto(f, n)
  BY ONLY <1>1, c \in Nat, UptoBounds
<1>5. \A n \in 0 .. c : Upto(f, n) = Upto(e, n) * h
  BY ONLY <1>2, c \in Nat, h \in Nat, UptoScales
<1>q. QED
  BY <1>3, <1>4, <1>5

\* A tile of components, one after the other.
LEMMA ComponentNeeds ==
    ASSUME NEW i, Supported(i), PixelFits(i), ByComponent(i)
    PROVE  Upto(Needs(i), Len(Specs(i))) <= PartStart(i, Parts(i)) * 8
<1> DEFINE c == Len(Specs(i))
           e == PartSizes(i)
           m == Needs(i)
<1>1. c \in Nat /\ Parts(i) = c /\ ~Mixed(i) /\ ~ByRow(i)
  BY SpecsReal, KindsApart DEF Parts
<1>n. InterleaveType(i) # "multiY"
  BY DEF ByComponent
<1>2. ASSUME NEW k \in 1 .. c
      PROVE  m[k] \in Nat /\ e[k] \in Nat /\ m[k] <= e[k] * 8
  <2> DEFINE part == k - 1
             spec == Specs(i)[k]
             b == RowBytes(i, spec)
             lines == LinesOf(i, part)
             n == ColumnsOf(i, part)
             d == spec.depth
  <2>1. part \in 0 .. Parts(i) - 1 /\ part + 1 = k
    BY <1>1
  <2>2. /\ LineBytes(i, part, 0) = b /\ b \in Nat /\ lines \in Nat
        /\ e[k] = AlignUp(b * lines, PartAlign(i))
    <3> HIDE DEF part, e
    <3>q. QED
      BY <2>1, ComponentLine DEF e
  <2>3. GroupOf(i, part, 0) = << spec >>
    BY <2>1 DEF GroupOf
  <2>4. << spec >> \in Seq(ComponentSpecs) /\ spec \in ComponentSpecs
    BY SpecsReal, OneSpec
  <2>5. GroupDepth(<< spec >>) = d
    <3> HIDE DEF spec
    <3>q. QED
      BY <2>4, DepthOfOne DEF spec
  <2>6. d \in Nat /\ d * n <= 8 * b
    BY <2>2, <2>3, <2>4, <2>5, LineNeeds
  <2>7. n \in Nat /\ m[k] = d * (n * lines)
    <3>1. NeedStep(i, k) = StepOf(i, part)
      BY <1>n, <2>1 DEF NeedStep, StepOf
    <3>2. n = TileWidth(i) \div NeedStep(i, k)[1] /\ lines = TileHeight(i) \div NeedStep(i, k)[2]
      BY <1>1, <3>1 DEF ColumnsOf, LinesOf
    <3>3. TileWidth(i) \div NeedStep(i, k)[1] \in Nat
      BY MinimumOfTiles
    <3>q. QED
      BY <3>2, <3>3 DEF Needs
  <2>8. PartAlign(i) \in Nat
    BY TilesWhole DEF PartAlign
  <2> HIDE DEF b, lines, n, d, e, m
  <2>9. d * (n * lines) <= (b * lines) * 8
    BY <2>2, <2>6, <2>7, LinesNeed
  <2>10. b * lines \in Nat
    BY <2>2, ProductNatural
  <2>11. b * lines <= e[k] /\ e[k] \in Nat
    BY <2>2, <2>8, <2>10, AlignGrows
  <2>12. m[k] \in Nat
    BY MinimumOfTiles DEF m
  <2> DEFINE x == b * lines
             y == d * (n * lines)
  <2>13. x \in Nat /\ y <= x * 8 /\ x <= e[k] /\ e[k] \in Nat /\ m[k] = y /\ m[k] \in Nat
    BY <2>7, <2>9, <2>10, <2>11, <2>12
  <2> HIDE DEF x, y
  <2>q. QED
    BY <2>13
<1>3. PartStart(i, Parts(i)) = Upto(e, c)
  BY <1>1 DEF PartStart
<1> HIDE DEF c, e, m
<1>4. Upto(m, c) <= Upto(e, c) * 8
  BY <1>1, <1>2, NeedsWithin, 8 \in Nat
<1>q. QED
  BY <1>3, <1>4 DEF c, m

\* A tile of rows, of all components after each other.
LEMMA RowNeeds ==
    ASSUME NEW i, Supported(i), PixelFits(i), ByRow(i)
    PROVE  Upto(Needs(i), Len(Specs(i))) <= PartStart(i, Parts(i)) * 8
<1> DEFINE c == Len(Specs(i))
           e == RowSizes(i)
           m == Needs(i)
           h == TileHeight(i)
           w == TileWidth(i)
<1>1. /\ c \in Nat \ {0} /\ ~Mixed(i) /\ ~ByComponent(i) /\ Parts(i) = h /\ h \in Nat \ {0}
      /\ ChromaStep(Sampling(i)) = << 1, 1 >> /\ w \in Nat
  BY SpecsReal, KindsApart, TilesWhole DEF Parts
<1>2. PartLaid(i, 0)
  <2>1. 0 \in 0 .. Parts(i) - 1
    BY <1>1
  <2>2. Turn(i, 0)
    BY <1>1 DEF Turn
  <2>q. QED
    BY <2>1, <2>2, AllLaid
<1>3. LinesOf(i, 0) = c /\ \A n : LineStart(i, 0, n) = Upto(e, n)
  BY DEF LinesOf, LineStart
<1>4. ColumnsOf(i, 0) = w
  <2>1. StepOf(i, 0)[1] = 1
    BY <1>1 DEF StepOf
  <2>2. w \div 1 = w
    BY <1>1
  <2>q. QED
    BY <2>1, <2>2 DEF ColumnsOf
<1>5. ASSUME NEW k \in 1 .. c
      PROVE  /\ e[k] = RowBytes(i, Specs(i)[k]) /\ e[k] \in Nat
             /\ e[k] = LineBytes(i, 0, k - 1)
  <2> DEFINE spec == Specs(i)[k]
             line == k - 1
  <2>0. line \in 0 .. c - 1 /\ line + 1 = k
    BY <1>1
  <2>1. e[k] = RowBytes(i, spec)
    BY DEF RowSizes
  <2>2. GroupOf(i, 0, line) = << spec >>
    BY <1>1, <2>0 DEF GroupOf
  <2>3. << spec >> \in Seq(ComponentSpecs) /\ spec \in ComponentSpecs
    BY SpecsReal, OneSpec
  <2>4. LineBytes(i, 0, line) \in Nat
    BY <2>2, <2>3, LineHolds
  <2>5. LineBits(i, 0, line) = SampleBits(spec) * w
    <3>1. i.pixelSize = 0
      BY KindsApart
    <3>2. LineBits(i, 0, line) = GroupRunBits(<< spec >>, w)
      BY <1>4, <2>2, <3>1 DEF LineBits, ColumnBits
    <3> HIDE DEF spec, w
    <3>3. GroupRunBits(<< spec >>, w) = SampleBits(spec) * w
      BY <1>1, <2>3, RunOfOne
    <3>q. QED
      BY <3>2, <3>3
  <2>6. RowBytes(i, spec) = AlignUp(CeilDiv(SampleBits(spec) * w, 8), i.rowAlign)
    <3>1. Step(i, spec.role) = << 1, 1 >>
      BY <1>1 DEF Step
    <3>2. w \div 1 = w
      BY <1>1
    <3>3. Step(i, spec.role)[1] = 1
      BY <3>1
    <3>q. QED
      BY <3>2, <3>3 DEF RowBytes
  <2>7. LineBytes(i, 0, line) = RowBytes(i, spec)
    BY <1>1, <2>5, <2>6 DEF LineBytes
  <2>q. QED
    BY <2>1, <2>4, <2>7
<1>6. ASSUME NEW k \in 1 .. c
      PROVE  m[k] \in Nat /\ e[k] \in Nat /\ m[k] <= e[k] * (h * 8)
  <2> DEFINE spec == Specs(i)[k]
             b == e[k]
             d == spec.depth
  <2>0. k - 1 \in Nat /\ (k - 1) + 1 = k
    BY <1>1
  <2>1. GroupOf(i, 0, k - 1) = << spec >>
    BY <1>1, <2>0 DEF GroupOf
  <2>2. << spec >> \in Seq(ComponentSpecs) /\ spec \in ComponentSpecs
    BY SpecsReal, OneSpec
  <2>3. GroupDepth(<< spec >>) = d
    <3> HIDE DEF spec
    <3>q. QED
      BY <2>2, DepthOfOne DEF spec
  <2>4. d \in Nat /\ d * w <= 8 * b /\ b \in Nat
    BY <1>4, <1>5, <2>1, <2>2, <2>3, LineNeeds
  <2>5. m[k] = d * (w * h)
    <3>1. NeedStep(i, k) = << 1, 1 >>
      BY <1>1, StepOfRole DEF NeedStep, Step
    <3>2. w \div 1 = w /\ h \div 1 = h
      BY <1>1
    <3>3. NeedStep(i, k)[1] = 1 /\ NeedStep(i, k)[2] = 1
      BY <3>1
    <3>q. QED
      BY <3>2, <3>3 DEF Needs
  <2>6. m[k] \in Nat
    BY MinimumOfTiles
  <2> HIDE DEF b, d, w, h, m
  <2>7. d * (w * h) <= (b * h) * 8
    BY <1>1, <2>4, LinesNeed
  <2>8. (b * h) * 8 = b * (h * 8)
    BY <1>1, <2>4
  <2>q. QED
    BY <2>4, <2>5, <2>6, <2>7, <2>8 DEF b
<1>7. PartStart(i, Parts(i)) = Upto(e, c) * h
  BY <1>1 DEF PartStart
<1> HIDE DEF c, e, m, h
<1>8. h * 8 \in Nat
  BY <1>1
<1>9. Upto(m, c) <= Upto(e, c) * (h * 8)
  BY <1>1, <1>6, <1>8, NeedsWithin
<1>10. Upto(e, c) \in Nat
  <2>1. \A k \in 1 .. c : e[k] \in Nat
    BY <1>5
  <2>2. \A n \in 0 .. c : Upto(e, n) \in Nat
    BY <1>1, <2>1, UptoFacts
  <2>q. QED
    BY <1>1, <2>2
<1>11. Upto(e, c) * (h * 8) = (Upto(e, c) * h) * 8
  BY <1>1, <1>10
<1>q. QED
  BY <1>7, <1>9, <1>11 DEF c, m

\* A tile of groups of all components.
LEMMA GroupNeeds ==
    ASSUME NEW i, Supported(i), PixelFits(i), ~(ByComponent(i) \/ Mixed(i) \/ ByRow(i))
    PROVE  Upto(Needs(i), Len(Specs(i))) <= PartStart(i, Parts(i)) * 8
<1> DEFINE c == Len(Specs(i))
           m == Needs(i)
           e == [k \in 1 .. c |-> Specs(i)[k].depth]
           n == ColumnsOf(i, 0)
           lines == LinesOf(i, 0)
           b == LineBytes(i, 0, 0)
           d == GroupDepth(Specs(i))
<1>1. /\ c \in Nat \ {0} /\ Specs(i) \in Seq(ComponentSpecs)
      /\ Parts(i) = 1
      /\ \A k \in 1 .. c : Specs(i)[k] \in ComponentSpecs
  BY SpecsReal DEF Parts
<1>2. PartLaid(i, 0) /\ TileLaid(i)
  <2>1. 0 \in 0 .. Parts(i) - 1
    BY <1>1
  <2>2. Turn(i, 0)
    BY DEF Turn
  <2>q. QED
    BY <2>1, <2>2, AllLaid
<1>3. /\ lines \in Nat \ {0} /\ n \in Nat \ {0}
      /\ AlignUp(PartStart(i, 0) + LineStart(i, 0, lines), PartAlign(i)) = PartStart(i, 1)
      /\ PartStart(i, 0) = 0
  <2>1. NextPart(i, 0) = 1
    BY DEF NextPart
  <2>q. QED
    BY <1>2, <2>1 DEF PartLaid, TileLaid
<1>4. GroupOf(i, 0, 0) = Specs(i)
  BY DEF GroupOf
<1>5. d \in Nat /\ d * n <= 8 * b /\ b \in Nat
  BY <1>1, <1>4, LineNeeds, LineHolds
<1>6. b * lines <= PartStart(i, 1) /\ PartStart(i, 1) \in Nat
  <2>1. LineStart(i, 0, lines) = b * lines
    BY DEF LineStart
  <2>2. PartAlign(i) = 0
    BY KindsApart DEF PartAlign
  <2>3. b * lines \in Nat
    <3> HIDE DEF b, lines
    <3>q. QED
      BY <1>3, <1>5, ProductNatural
  <2>4. AlignUp(0 + b * lines, 0) = PartStart(i, 1)
    BY <1>3, <2>1, <2>2
  <2>5. AlignUp(0 + b * lines, 0) = 0 + b * lines
    BY DEF AlignUp
  <2> HIDE DEF b, lines
  <2>q. QED
    BY <2>3, <2>4, <2>5
<1>7. ASSUME NEW k \in 1 .. c
      PROVE  m[k] = e[k] * (n * lines) /\ e[k] \in Nat
  <2>1. NeedStep(i, k) = StepOf(i, 0)
    <3>1. CASE InterleaveType(i) = "multiY"
      BY <3>1 DEF NeedStep, StepOf
    <3>2. CASE InterleaveType(i) # "multiY"
      <4>1. InterleaveType(i) = "pixel"
        BY <3>2, KindsApart
      <4>2. Sampling(i) = "444"
        BY <4>1 DEF Supported, LayoutSupported, SamplingSupported
      <4>3. ChromaStep(Sampling(i)) = << 1, 1 >>
        BY <4>2 DEF ChromaStep
      <4>q. QED
        BY <3>2, <4>3 DEF NeedStep, Step, StepOf
    <3>q. QED
      BY <3>1, <3>2
  <2>2. n = TileWidth(i) \div NeedStep(i, k)[1] /\ lines = TileHeight(i) \div NeedStep(i, k)[2]
    BY <2>1 DEF ColumnsOf, LinesOf
  <2>3. m[k] = e[k] * (n * lines)
    BY <2>2 DEF Needs
  <2>4. e[k] \in Nat
    BY MinimumOfTiles
  <2>q. QED
    BY <2>3, <2>4
<1>8. d = Upto(e, c)
  BY DEF GroupDepth
<1> HIDE DEF c, m, e, n, lines, b, d
<1>9. n * lines \in Nat /\ c \in Nat /\ c \in 0 .. c
  BY <1>1, <1>3, ProductNatural
<1>10. Upto(m, c) = d * (n * lines)
  <2> DEFINE h == n * lines
  <2>1. /\ \A k \in 1 .. c : e[k] \in Nat
        /\ \A k \in 1 .. c : m[k] = e[k] * h
        /\ h \in Nat /\ c \in Nat
    BY <1>7, <1>9
  <2> HIDE DEF h
  <2>2. \A j \in 0 .. c : Upto(m, j) = Upto(e, j) * h
    BY ONLY <2>1, UptoScales
  <2>q. QED
    BY <1>8, <1>9, <2>2 DEF h
<1>11. d * (n * lines) <= (b * lines) * 8
  BY <1>3, <1>5, LinesNeed
<1>12. Upto(m, c) <= PartStart(i, 1) * 8
  <2> DEFINE x == b * lines
             y == PartStart(i, 1)
             z == d * (n * lines)
  <2>1. x <= y /\ y \in Nat /\ x \in Nat /\ z <= x * 8 /\ z \in Nat /\ Upto(m, c) = z
    <3>1. x \in Nat /\ z \in Nat
      BY <1>3, <1>5, <1>9, ProductNatural
    <3>q. QED
      BY <1>6, <1>10, <1>11, <3>1
  <2> HIDE DEF x, y, z
  <2>2. Upto(m, c) <= y * 8
    BY <2>1
  <2>q. QED
    BY <2>2 DEF y
<1>q. QED
  BY <1>1, <1>12 DEF m, c

\* No role of a channel has two components, but luma in groups of several.
LEMMA RolesOnce ==
    ASSUME NEW i, Supported(i), NEW j \in 1 .. Len(Specs(i)),
           NEW k \in 1 .. Len(Specs(i)), Specs(i)[j].role = Specs(i)[k].role,
           Specs(i)[j].role \in Channels,
           InterleaveType(i) # "multiY" \/ Specs(i)[j].role # "Y"
    PROVE  j = k
<1> DEFINE role == Specs(i)[j].role
           P == Positions(i, role)
<1>1. j \in P /\ k \in P
  BY DEF Positions
<1>2. role \in Present(i)
  BY <1>1 DEF Present
<1>3. ~(Count(i, role) > 1)
  BY <1>2 DEF Supported, LayoutSupported, ChannelMapResolves
<1>4. IsFiniteSet(P)
  <2>1. Len(Specs(i)) \in Nat
    BY SpecsReal
  <2>2. 1 \in Int /\ Len(Specs(i)) \in Int
    BY <2>1
  <2>3. IsFiniteSet(1 .. Len(Specs(i)))
    BY <2>2, FS_Interval
  <2>4. P \subseteq 1 .. Len(Specs(i))
    BY DEF Positions
  <2>q. QED
    BY <2>3, <2>4, FS_Subset
<1>5. Count(i, role) = Cardinality(P)
  BY DEF Count
<1> HIDE DEF P, role
<1>6. ASSUME j # k PROVE FALSE
  <2> DEFINE Q == P \ {j}
             R == Q \ {k}
  <2>1. IsFiniteSet(Q) /\ Cardinality(Q) = Cardinality(P) - 1 /\ Cardinality(P) \in Nat
    BY <1>1, <1>4, FS_RemoveElement, FS_CardinalityType
  <2>2. k \in Q
    BY <1>1, <1>6
  <2> HIDE DEF Q
  <2>3. IsFiniteSet(R) /\ Cardinality(R) = Cardinality(Q) - 1
    BY <2>1, <2>2, FS_RemoveElement
  <2>4. Cardinality(R) \in Nat
    BY <2>3, FS_CardinalityType
  <2>q. QED
    BY <1>3, <1>5, <2>1, <2>3, <2>4
<1>q. QED
  BY <1>6

\* What a turn of the mixed interleaving holds.
LEMMA MixedTurnNeeds ==
    ASSUME NEW i, Supported(i), PixelFits(i), Mixed(i), NEW k \in 1 .. Len(Specs(i))
    PROVE  /\ GroupDepth(MixedGroup(i, k)) \in Nat
           /\ ColumnsOf(i, k - 1) \in Nat /\ LinesOf(i, k - 1) \in Nat
           /\ GroupDepth(MixedGroup(i, k)) * (ColumnsOf(i, k - 1) * LinesOf(i, k - 1))
                <= MixedSizes(i)[k] * 8
           /\ MixedSizes(i)[k] \in Nat
           /\ Needs(i)[k] = Specs(i)[k].depth * (ColumnsOf(i, k - 1) * LinesOf(i, k - 1))
           /\ Needs(i)[k] \in Nat /\ Specs(i)[k].depth \in Nat
<1> DEFINE part == k - 1
           n == ColumnsOf(i, part)
           lines == LinesOf(i, part)
           b == LineBytes(i, part, 0)
           d == GroupDepth(MixedGroup(i, k))
<1>1. /\ MixedGroup(i, k) \in Seq(ComponentSpecs) /\ GroupOf(i, part, 0) = MixedGroup(i, k)
      /\ b \in Nat /\ lines \in Nat /\ n \in Nat
      /\ MixedSizes(i)[k] = b * lines /\ MixedSizes(i)[k] \in Nat
  BY MixedLine
<1>2. d \in Nat /\ d * n <= 8 * b
  BY <1>1, LineNeeds
<1>3. d * (n * lines) <= (b * lines) * 8
  <2> HIDE DEF d, n, lines, b
  <2>q. QED
    BY <1>1, <1>2, LinesNeed
<1>4. Needs(i)[k] = Specs(i)[k].depth * (n * lines)
  <2>1. part + 1 = k
    BY SpecsReal
  <2>2. NeedStep(i, k) = StepOf(i, part)
    BY <2>1 DEF NeedStep, StepOf, Mixed
  <2>3. n = TileWidth(i) \div NeedStep(i, k)[1]
    BY <2>2 DEF ColumnsOf
  <2>4. lines = TileHeight(i) \div NeedStep(i, k)[2]
    BY <2>2, KindsApart DEF LinesOf
  <2>q. QED
    BY <2>3, <2>4 DEF Needs
<1>5. Needs(i)[k] \in Nat /\ Specs(i)[k].depth \in Nat
  BY MinimumOfTiles
<1>6. d * (n * lines) <= MixedSizes(i)[k] * 8
  BY <1>1, <1>3
<1> HIDE DEF d, n, lines, b
<1>q. QED
  BY <1>1, <1>2, <1>4, <1>5, <1>6 DEF d, n, lines

\* A turn that reads one component holds it.
LEMMA PlainTurnNeeds ==
    ASSUME NEW i, Supported(i), PixelFits(i), Mixed(i), NEW k \in 1 .. Len(Specs(i)),
           Specs(i)[k].role \notin Chroma
    PROVE  Needs(i)[k] <= MixedSizes(i)[k] * 8
<1> DEFINE spec == Specs(i)[k]
<1>1. MixedGroup(i, k) = << spec >>
  BY DEF MixedGroup
<1>2. spec \in ComponentSpecs
  BY SpecsReal
<1>3. GroupDepth(<< spec >>) = spec.depth
  <2> HIDE DEF spec
  <2>q. QED
    BY <1>2, DepthOfOne
<1>q. QED
  BY <1>1, <1>3, MixedTurnNeeds

\* Tiles of the mixed interleaving: the first chroma turn holds both
\* components.
LEMMA MixedNeeds ==
    ASSUME NEW i, Supported(i), PixelFits(i), Mixed(i)
    PROVE  Upto(Needs(i), Len(Specs(i))) <= PartStart(i, Parts(i)) * 8
<1> DEFINE c == Len(Specs(i))
           e == MixedSizes(i)
           m == Needs(i)
           a == FirstChroma(i)
<1>1. c \in Nat \ {0} /\ PartStart(i, Parts(i)) = Upto(e, c)
  BY SpecsReal, KindsApart DEF Parts, PartStart
<1>2. \A k \in 1 .. c : m[k] \in Nat /\ e[k] \in Nat
  BY MixedTurnNeeds
<1>3. \A k \in 1 .. c : Specs(i)[k].role \notin Chroma => m[k] <= e[k] * 8
  BY PlainTurnNeeds
<1>s. SUFFICES Upto(m, c) <= Upto(e, c) * 8
  BY <1>1
<1>4. CASE \A k \in 1 .. c : Specs(i)[k].role \notin Chroma
  <2>1. \A k \in 1 .. c : m[k] \in Nat /\ e[k] \in Nat /\ m[k] <= e[k] * 8
    BY <1>2, <1>3, <1>4
  <2> HIDE DEF m, e, c
  <2>q. QED
    BY <1>1, <2>1, NeedsWithin, 8 \in Nat
<1>5. CASE \E k \in 1 .. c : Specs(i)[k].role \in Chroma
  <2>1. a \in 1 .. c /\ Specs(i)[a].role \in Chroma
    <3>1. a \in 0 .. c /\ a # 0 /\ Specs(i)[a].role \in Chroma
      BY <1>5, FirstChromaLeast
    <3>q. QED
      BY <1>1, <3>1
  <2> DEFINE role == Specs(i)[a].role
             other == IF role = "Cb" THEN "Cr" ELSE "Cb"
  <2>2. PICK b \in 1 .. c : /\ Complementary(i, role) = Specs(i)[b]
                            /\ Specs(i)[b].role = other
    BY <2>1, ComplementaryReal
  <2>3. role \in {"Cb", "Cr"} /\ Specs(i)[b].role \in Chroma /\ a # b
    BY <2>1, <2>2 DEF Chroma
  <2>4. \A k \in 1 .. c : k # a /\ k # b => Specs(i)[k].role \notin Chroma
    <3>1. SUFFICES ASSUME NEW k \in 1 .. c, Specs(i)[k].role \in Chroma, k # a, k # b
                   PROVE FALSE
      OBVIOUS
    <3>2. Specs(i)[k].role = role \/ Specs(i)[k].role = Specs(i)[b].role
      BY <2>2, <2>3, <3>1 DEF Chroma
    <3>3. Specs(i)[k].role \in Channels /\ InterleaveType(i) # "multiY"
      BY <3>1 DEF Mixed, Chroma, Channels, YCbCr
    <3>q. QED
      BY <2>1, <2>3, <3>1, <3>2, <3>3, RolesOnce
  <2> DEFINE n == ColumnsOf(i, a - 1)
             lines == LinesOf(i, a - 1)
             A == Specs(i)[a].depth
             B == Specs(i)[b].depth
  <2>5. ColumnsOf(i, b - 1) = n /\ LinesOf(i, b - 1) = lines
    <3>1. StepOf(i, a - 1) = ChromaStep(Sampling(i)) /\ StepOf(i, b - 1) = ChromaStep(Sampling(i))
      <4>1. (a - 1) + 1 = a /\ (b - 1) + 1 = b
        BY <1>1, <2>1
      <4>q. QED
        BY <2>1, <2>3, <4>1 DEF StepOf, Step
    <3>q. QED
      BY <3>1, KindsApart DEF ColumnsOf, LinesOf
  <2>6. /\ m[a] = A * (n * lines) /\ m[b] = B * (n * lines)
        /\ A \in Nat /\ B \in Nat /\ n \in Nat /\ lines \in Nat
    <3>1. /\ m[a] = A * (n * lines) /\ A \in Nat /\ n \in Nat /\ lines \in Nat
      BY <2>1, MixedTurnNeeds
    <3>2. m[b] = B * (ColumnsOf(i, b - 1) * LinesOf(i, b - 1)) /\ B \in Nat
      BY MixedTurnNeeds
    <3>q. QED
      BY <2>5, <3>1, <3>2
  <2>7. (A + B) * (n * lines) <= e[a] * 8
    <3>1. MixedGroup(i, a) = << Specs(i)[a], Specs(i)[b] >>
      BY <2>1, <2>2 DEF MixedGroup
    <3>2. Specs(i)[a] \in ComponentSpecs /\ Specs(i)[b] \in ComponentSpecs
      BY <2>1, SpecsReal
    <3>3. GroupDepth(<< Specs(i)[a], Specs(i)[b] >>) = A + B
      BY <3>2, DepthOfTwo
    <3>q. QED
      BY <2>1, <3>1, <3>3, MixedTurnNeeds
  <2>8. m[a] + m[b] <= e[a] * 8 /\ m[a] \in Nat /\ m[b] \in Nat
    <3>1. m[a] \in Nat /\ m[b] \in Nat
      BY <1>2, <2>1
    <3>2. n * lines \in Nat
      BY <2>6, ProductNatural
    <3> HIDE DEF m, e, A, B
    <3> DEFINE h == n * lines
    <3>3. m[a] = A * h /\ m[b] = B * h /\ h \in Nat /\ (A + B) * h <= e[a] * 8
      BY <2>6, <2>7, <3>2
    <3> HIDE DEF h
    <3>4. (A + B) * h = A * h + B * h
      BY <2>6, <3>3, Distributes
    <3>q. QED
      BY <3>1, <3>3, <3>4
  <2> DEFINE f == [k \in 1 .. c |-> IF k = a THEN m[a] + m[b] ELSE IF k = b THEN 0 ELSE m[k]]
  <2>9. f[a] = m[a] + m[b] /\ f[b] = 0
    BY <2>1, <2>3
  <2>10. \A k \in 1 .. c : k # a /\ k # b => f[k] = m[k]
    OBVIOUS
  <2> HIDE DEF f, m, e, c, a
  <2>11. ASSUME NEW k \in 1 .. c
         PROVE  f[k] \in Nat /\ e[k] \in Nat /\ f[k] <= e[k] * 8 /\ m[k] \in Nat
    <3>0. e[k] \in Nat /\ m[k] \in Nat
      BY <1>2
    <3>1. CASE k = a
      BY <2>8, <2>9, <3>0, <3>1
    <3>2. CASE k = b
      BY <2>9, <3>0, <3>2
    <3>3. CASE k # a /\ k # b
      BY <1>3, <2>4, <2>10, <3>0, <3>3
    <3>q. QED
      BY <3>1, <3>2, <3>3
  <2>12. Upto(f, c) = Upto(m, c)
    <3>1. f[a] + f[b] = m[a] + m[b]
      BY <2>8, <2>9
    <3>2. \A k \in 1 .. c : f[k] \in Nat /\ m[k] \in Nat
      BY <2>11
    <3>q. QED
      BY <1>1, <2>1, <2>2, <2>3, <2>10, <3>1, <3>2, UptoExchange
  <2>13. Upto(f, c) <= Upto(e, c) * 8
    BY <1>1, <2>11, NeedsWithin, 8 \in Nat
  <2>q. QED
    BY <2>12, <2>13
<1>q. QED
  BY <1>4, <1>5

\* The size that is checked before anything is read is no more than what
\* the layout takes.
LEMMA MinimumFits ==
    ASSUME NEW i, Supported(i), PixelFits(i)
    PROVE  /\ MinimumBits(i, Specs(i)) \in Nat
           /\ MinimumBits(i, Specs(i)) <= 8 * PayloadBytes(i)
<1> DEFINE u == Upto(Needs(i), Len(Specs(i)))
           s == PartStart(i, Parts(i))
           b == TileBytes(i)
           t == TileCount(i)
<1>1. u <= s * 8
  BY ComponentNeeds, RowNeeds, GroupNeeds, MixedNeeds
<1>2. b \in Nat /\ t \in Nat /\ PayloadBytes(i) = b * t
  BY TileFits, TilesWhole DEF PayloadBytes
<1>3. s \in Nat /\ s <= b
  <2>1. TileLaid(i)
    BY AllLaid
  <2>2. s \in Nat /\ TileAlign(i) \in Nat /\ b = AlignUp(s, TileAlign(i))
    <3>1. Parts(i) \in 0 .. Parts(i)
      BY <2>1 DEF TileLaid
    <3>q. QED
      BY <2>1, <3>1, TilesWhole DEF TileLaid, TileAlign
  <2>q. QED
    BY <2>2, AlignGrows
<1>4. MinimumBits(i, Specs(i)) = u * t
  BY MinimumOfTiles
<1>5. u \in Nat
  <2>1. Len(Specs(i)) \in Nat /\ \A k \in 1 .. Len(Specs(i)) : Needs(i)[k] \in Nat
    BY SpecsReal, MinimumOfTiles
  <2>2. \A n \in 0 .. Len(Specs(i)) : Upto(Needs(i), n) \in Nat
    BY <2>1, UptoFacts
  <2>q. QED
    BY <2>1, <2>2
<1> HIDE DEF u, s, b, t
<1>6. u <= 8 * b /\ 8 * b \in Nat
  BY <1>1, <1>2, <1>3, <1>5
<1>7. u * t \in Nat /\ u * t <= (8 * b) * t
  BY <1>2, <1>5, <1>6, ProductGrows
<1>8. (8 * b) * t = 8 * (b * t)
  BY <1>2
<1>q. QED
  BY <1>2, <1>4, <1>7, <1>8

(***************************************************************************)
(* The reader over the steps of the decode.                                *)
(***************************************************************************)
\* The steps before the reader is used.
Unread == Early \cup {"unit", "inflate", "size"}

\* The data is shorter than the layout of the image.
ShortData == DataBytes < PayloadBytes(image)

\* Where the reader is: at the origin before it reads, at a place of the loops
\* while it does, and at the end of the layout after it has.
Placed ==
  /\ pc \in Unread => rd = Reader(0) /\ pos = Origin
  /\ pc \in {"read", "convert", "done"} =>
       SlicesSuffice /\ rd.cause = "none" /\ rd.bit \in 0 .. ReaderBits
  /\ pc = "read" => Reading(image, rd, pos, ReaderBits)
  /\ pc \in {"convert", "done"} /\ ~ByTile(image) => rd.bit = 8 * PayloadBytes(image)
  /\ (cause \in {"truncated", "size"} \/ rd.cause = "truncated") /\ PixelFits(image) =>
       ShortData

\* What the reader is given, once the layout is supported.
LEMMA ReaderGiven ==
    ASSUME IInv, pc \in Late
    PROVE  /\ Supported(image)
           /\ DataBytes \in Nat /\ PayloadBytes(image) \in Nat
           /\ ReaderBits \in Nat /\ ReaderBits % 8 = 0
           /\ ByTile(image) =>
                /\ ReaderBits = 8 * ReadBytes(image)
                /\ SlicesSuffice <=> PayloadBytes(image) <= DataBytes
           /\ ~ByTile(image) =>
                /\ ReaderBits = 8 * DataBytes /\ ReadBytes(image) = PayloadBytes(image)
                /\ SlicesSuffice
<1>1. Supported(image)
  BY DEF IInv, Typed, Passed, Supported, Late
<1>2. DataBytes \in Nat
  BY DEF IInv, Typed, DataBytes
<1>3. PayloadBytes(image) \in Nat /\ ReadBytes(image) \in Nat /\ TileBytes(image) \in Nat
  BY <1>1, LayoutNatural, TileFits
<1>4. CASE ByTile(image)
  <2>1. TileBytes(image) = Sum(Slices(image))
    BY <1>4 DEF ByTile, TileBytes, Slices
  <2>2. ReaderBits = 8 * TileBytes(image) /\ ReadBytes(image) = TileBytes(image)
    BY <1>4, <2>1 DEF ReaderBits, ByTile, ReadBytes
  <2>3. SlicesSuffice <=> PayloadBytes(image) <= DataBytes
    BY <1>4, <2>1 DEF SlicesSuffice, ByTile, PayloadBytes
  <2>4. (8 * TileBytes(image)) \in Nat /\ (8 * TileBytes(image)) % 8 = 0
    <3> DEFINE b == TileBytes(image)
    <3>1. b \in Nat
      BY <1>3
    <3> HIDE DEF b
    <3>2. (8 * b) \in Nat /\ (8 * b) % 8 = 0
      BY <3>1
    <3>q. QED
      BY <3>2 DEF b
  <2>q. QED
    BY <1>1, <1>2, <1>3, <1>4, <2>2, <2>3, <2>4
<1>5. CASE ~ByTile(image)
  <2>1. ReaderBits = 8 * DataBytes /\ ReadBytes(image) = PayloadBytes(image) /\ SlicesSuffice
    BY <1>5 DEF ReaderBits, ByTile, ReadBytes, SlicesSuffice
  <2>2. (8 * DataBytes) \in Nat /\ (8 * DataBytes) % 8 = 0
    <3> DEFINE b == DataBytes
    <3>1. b \in Nat
      BY <1>2
    <3> HIDE DEF b
    <3>2. (8 * b) \in Nat /\ (8 * b) % 8 = 0
      BY <3>1
    <3>q. QED
      BY <3>2 DEF b
  <2>q. QED
    BY <1>1, <1>2, <1>3, <1>5, <2>1, <2>2
<1>q. QED
  BY <1>4, <1>5

\* The reader starts at the origin of the loops.
LEMMA OriginRead ==
    ASSUME NEW i, Supported(i), NEW total \in Nat
    PROVE  Reading(i, Reader(0), Origin, total)
<1>1. /\ Origin \in [tile : Nat, part : Nat, line : Nat, column : Nat]
      /\ Origin.tile = 0 /\ Origin.part = 0 /\ Origin.line = 0 /\ Origin.column = 0
  BY DEF Origin
<1>2. 0 < TileCount(i) /\ TileStart(i, 0) = 0
  BY TilesWhole, TileFits
<1>3. TileLaid(i)
  BY AllLaid
<1>4. 0 < Parts(i) /\ Turn(i, 0) /\ PartStart(i, 0) = 0
  BY <1>3 DEF TileLaid
<1>5. InLoops(i, Origin) /\ Place(i, Origin) = 8 * (TileStart(i, 0) + PartStart(i, 0))
  <2> HIDE DEF Origin
  <2>1. /\ InLoops(i, Origin)
        /\ Place(i, Origin) = 8 * (TileStart(i, Origin.tile) + PartStart(i, Origin.part))
    BY <1>1, <1>2, <1>4, PartOrigin
  <2>q. QED
    BY <1>1, <2>1
<1>6. Place(i, Origin) = 0
  BY <1>2, <1>4, <1>5
<1>7. 0 \div 8 = 0
  OBVIOUS
<1>8. Reader(0) \in Readers /\ Reader(0).cause = "none" /\ Reader(0).bit = 0
  BY <1>7 DEF Reader, Readers, Causes
<1>9. AtTileOrigin(Origin)
  BY <1>1 DEF AtTileOrigin
<1>q. QED
  BY <1>1, <1>5, <1>6, <1>8, <1>9 DEF Reading

\* Before anything is read, the reader stays where it is.
LEMMA UnreadKeeps ==
    ASSUME Placed, pc \in Unread, UNCHANGED << rd, pos >>,
           pc' \in Unread \cup {"refused"}, cause' \notin {"truncated", "size"}
    PROVE  Placed'
<1>1. rd = Reader(0) /\ pos = Origin
  BY DEF Placed
<1>2. rd'.cause = "none"
  BY <1>1 DEF Reader
<1>3. rd' = Reader(0) /\ pos' = Origin
  BY <1>1
<1>4. pc' \notin {"read", "convert", "done"}
  BY DEF Unread, Early
<1>q. QED
  BY <1>2, <1>3, <1>4 DEF Placed

\* The reader stands at the origin when the decode starts.
LEMMA PlacedAtFirst == Init => Placed
<1> SUFFICES ASSUME Init PROVE Placed
  OBVIOUS
<1>1. pc = "properties" /\ cause = "none" /\ rd = Reader(0) /\ pos = Origin
  BY DEF Init, Starts
<1>2. rd.cause = "none"
  BY <1>1 DEF Reader
<1>q. QED
  BY <1>1, <1>2 DEF Placed

\* A step before the reader's that is not refused for the size of the data.
LEMMA UnreadSteps ==
    ASSUME IInv, Placed,
           \/ ResolveProperties \/ CheckLayout
           \/ CheckExtents \/ CopyExtent \/ FailExtent \/ EndCopy
           \/ WithoutCompression \/ RefuseCompression \/ StartInflation
           \/ StartUnit \/ InflateChunk \/ EndUnit \/ FailUnit \/ EndInflation
    PROVE  Placed'
<1>0. pc \in Unread => cause = "none"
  BY DEF IInv, Passed, Unread, Early
<1>1. ASSUME NEW why, Refuse(why), why \notin {"truncated", "size"}, pc \in Unread
      PROVE  Placed'
  <2>1. UNCHANGED << rd, pos >> /\ pc' = "refused" /\ cause' = why
    BY <1>1 DEF Refuse
  <2>q. QED
    BY <1>1, <2>1, UnreadKeeps
<1>2. ASSUME pc \in Unread, pc' \in Unread, UNCHANGED << rd, pos, cause >>
      PROVE  Placed'
  <2>1. cause' = "none"
    BY <1>0, <1>2
  <2>q. QED
    BY <1>2, <2>1, UnreadKeeps
<1>3. ASSUME NEW at \in Unread, NEW holds, NEW next \in Unread, NEW why,
             why \notin {"truncated", "size"}, Check(at, holds, next, why)
      PROVE  Placed'
  <2>1. pc = at /\ (Refuse(why) \/ (pc' = next /\ UNCHANGED << rd, pos, cause >>))
    BY <1>3 DEF Check
  <2>q. QED
    BY <1>1, <1>2, <1>3, <2>1
<1>u. {"properties", "layout", "extents", "copy", "compression", "unit", "inflate", "size"}
        \subseteq Unread
  BY DEF Unread, Early
<1>4. CASE ResolveProperties
  BY <1>3, <1>4, <1>u DEF ResolveProperties
<1>5. CASE CheckLayout
  BY <1>3, <1>5, <1>u DEF CheckLayout
<1>6. CASE CheckExtents
  BY <1>3, <1>6, <1>u DEF CheckExtents
<1>7. CASE CopyExtent \/ EndCopy
  BY <1>2, <1>7, <1>u DEF CopyExtent, EndCopy
<1>8. CASE FailExtent
  BY <1>1, <1>8, <1>u DEF FailExtent
<1>9. CASE WithoutCompression \/ StartInflation
  BY <1>2, <1>9, <1>u DEF WithoutCompression, StartInflation
<1>10. CASE RefuseCompression
  BY <1>1, <1>10, <1>u DEF RefuseCompression
<1>11. CASE StartUnit
  <2>1. /\ pc = "unit"
        /\ \/ Refuse("unitRange")
           \/ Refuse("window")
           \/ pc' = "inflate" /\ UNCHANGED << rd, pos, cause >>
    BY <1>11 DEF StartUnit
  <2>q. QED
    BY <1>1, <1>2, <1>u, <2>1
<1>12. CASE InflateChunk \/ EndUnit \/ EndInflation
  <2>1. pc \in Unread /\ pc' \in Unread /\ UNCHANGED << rd, pos, cause >>
    BY <1>12, <1>u DEF InflateChunk, EndUnit, EndInflation
  <2>q. QED
    BY <1>2, <2>1
<1>13. CASE FailUnit
  <2>1. pc = "inflate" /\ (Refuse("corrupt") \/ Refuse("budget"))
    BY <1>13 DEF FailUnit
  <2>q. QED
    BY <1>1, <1>u, <2>1
<1>q. QED
  BY <1>4, <1>5, <1>6, <1>7, <1>8, <1>9, <1>10, <1>11, <1>12, <1>13

\* What the reader is given depends on the item and on its bytes alone.
LEMMA GivenStays ==
    ASSUME UNCHANGED << image, out, payload >>
    PROVE  /\ DataBytes' = DataBytes /\ ReaderBits' = ReaderBits
           /\ SlicesSuffice' = SlicesSuffice /\ ShortData' = ShortData
<1>1. DataBytes' = DataBytes
  BY DEF DataBytes
<1>2. ReaderBits' = ReaderBits
  BY <1>1 DEF ReaderBits
<1>3. SlicesSuffice' = SlicesSuffice
  BY <1>1 DEF SlicesSuffice
<1>4. ShortData' = ShortData
  BY <1>1 DEF ShortData
<1>q. QED
  BY <1>1, <1>2, <1>3, <1>4

\* Data is found too small before it is read only if it is shorter than the
\* layout.
LEMMA SizeSteps ==
    ASSUME IInv, Placed, CheckSize
    PROVE  Placed'
<1>1. pc = "size" /\ UNCHANGED << image, out, payload, rd, pos >>
  BY DEF CheckSize, Refuse
<1>2. /\ Supported(image) /\ DataBytes \in Nat /\ PayloadBytes(image) \in Nat
      /\ ReaderBits \in Nat
      /\ ByTile(image) => (SlicesSuffice <=> PayloadBytes(image) <= DataBytes)
      /\ ~ByTile(image) => SlicesSuffice
  BY <1>1, ReaderGiven DEF Late
<1>3. rd = Reader(0) /\ pos = Origin
  BY <1>1 DEF Placed, Unread
<1>4. 0 \div 8 = 0
  OBVIOUS
<1>5. Reader(0).cause = "none" /\ Reader(0).bit = 0
  BY DEF Reader
<1>6. rd'.cause = "none" /\ rd'.bit = 0
  BY <1>1, <1>3, <1>5
<1>7. cause = "none"
  BY <1>1 DEF IInv, Passed
<1>8. CASE ~SizeSuffices /\ Refuse("size")
  <2>1. PixelFits(image) => ShortData
    <3> SUFFICES ASSUME PixelFits(image) PROVE ShortData
      OBVIOUS
    <3> DEFINE need == MinimumBits(image, Specs(image))
               d == DataBytes
               b == PayloadBytes(image)
    <3>1. need <= 8 * b
      BY <1>2, MinimumFits
    <3>2. ~(d * 8 >= need)
      BY <1>8 DEF SizeSuffices
    <3>3. need \in Int
      BY <1>2, MinimumFits
    <3>4. d \in Nat /\ b \in Nat
      BY <1>2
    <3> HIDE DEF need, d, b
    <3>5. d < b
      BY <3>1, <3>2, <3>3, <3>4
    <3>q. QED
      BY <3>5 DEF d, b, ShortData
  <2>2. pc' = "refused"
    BY <1>8 DEF Refuse
  <2>3. PixelFits(image)' = PixelFits(image) /\ ShortData' = ShortData
    BY <1>1, GivenStays
  <2>q. QED
    BY <2>1, <2>2, <2>3 DEF Placed, Unread, Early
<1>9. CASE ~SlicesSuffice /\ Refuse("truncated")
  <2>1. ShortData
    BY <1>2, <1>9 DEF ShortData
  <2>2. pc' = "refused"
    BY <1>9 DEF Refuse
  <2>3. ShortData' = ShortData
    BY <1>1, GivenStays
  <2>q. QED
    BY <2>1, <2>2, <2>3 DEF Placed, Unread, Early
<1>10. CASE SlicesSuffice /\ pc' = "read" /\ cause' = cause
  <2>1. SlicesSuffice' /\ ReaderBits' = ReaderBits /\ image' = image
    BY <1>1, <1>10, GivenStays
  <2>2. Reading(image, rd, pos, ReaderBits)
    BY <1>2, <1>3, OriginRead
  <2>3. Reading(image, rd, pos, ReaderBits)'
    BY <1>1, <2>1, <2>2
  <2>4. rd'.bit \in 0 .. ReaderBits'
    BY <1>2, <1>6, <2>1
  <2>q. QED
    BY <1>6, <1>7, <1>10, <2>1, <2>3, <2>4 DEF Placed, Unread, Early
<1>q. QED
  BY <1>8, <1>9, <1>10 DEF CheckSize

\* The colours are converted after the reader has done.
LEMMA ConvertSteps ==
    ASSUME IInv, Placed, Convert
    PROVE  Placed'
<1>1. /\ pc = "convert" /\ UNCHANGED << image, out, payload, rd >>
      /\ \/ pc' = "refused" /\ cause' = "matrix"
         \/ pc' = "done" /\ cause' = cause
  BY DEF Convert, Check, Refuse
<1>2. cause = "none"
  BY <1>1 DEF IInv, Passed
<1>3. SlicesSuffice' = SlicesSuffice /\ ReaderBits' = ReaderBits
  BY <1>1, GivenStays
<1>4. SlicesSuffice /\ rd.cause = "none" /\ rd.bit \in 0 .. ReaderBits
  BY <1>1 DEF Placed
<1>5. ~ByTile(image) => rd.bit = 8 * PayloadBytes(image)
  BY <1>1 DEF Placed
<1>q. QED
  BY <1>1, <1>2, <1>3, <1>4, <1>5 DEF Placed, Unread, Early

\* A column of samples brings the reader to the next one, to the end of the
\* layout, or to the end of data that is shorter.
LEMMA ColumnKeeps ==
    ASSUME IInv, Placed, pc = "read", ReadColumn(ShapeAt(image, pos))
    PROVE  Placed'
<1> DEFINE shape == ShapeAt(image, pos)
           after == Aligned(ReadSamples(Marked(rd, pos), shape.group, ReaderBits).r,
                            shape, image, pos, ReaderBits)
           next == NextPosition(shape, pos)
           ended == after.cause # "none"
           last == pos'.tile = TileCount(image)
<1>1. /\ rd' = after /\ pos' = next
      /\ cause' = IF ended THEN "reader" ELSE "none"
      /\ pc' = IF ended THEN "refused" ELSE IF last THEN "convert" ELSE "read"
      /\ UNCHANGED << image, out, payload >>
  BY Zenon DEF ReadColumn
<1>2. /\ Supported(image) /\ DataBytes \in Nat /\ PayloadBytes(image) \in Nat
      /\ ReaderBits \in Nat /\ ReaderBits % 8 = 0
      /\ ByTile(image) => ReaderBits = 8 * ReadBytes(image)
      /\ ~ByTile(image) =>
           ReaderBits = 8 * DataBytes /\ ReadBytes(image) = PayloadBytes(image)
  BY ReaderGiven DEF Late
<1>3. Reading(image, rd, pos, ReaderBits) /\ SlicesSuffice
  BY DEF Placed
<1>4. Goes(image, after, next, ReaderBits)
  BY <1>2, <1>3, ColumnStep
<1> HIDE DEF shape, after, next
<1>5. /\ ReaderBits' = ReaderBits /\ SlicesSuffice' = SlicesSuffice
      /\ ShortData' = ShortData /\ image' = image
  BY <1>1, GivenStays
<1>6. rd' \in Readers /\ (rd'.cause = "none" => rd'.bit \in 0 .. ReaderBits')
  <2>1. after \in Readers /\ (after.cause = "none" => after.bit <= ReaderBits)
    BY <1>4 DEF Goes
  <2>2. after.bit \in Nat
    BY <2>1 DEF Readers
  <2>q. QED
    BY <1>1, <1>2, <1>5, <2>1, <2>2
<1>7. ended <=> rd'.cause # "none"
  BY <1>1
<1>8. last <=> next.tile = TileCount(image)
  BY <1>1
<1> HIDE DEF ended, last
<1>9. pc' = "read" => Reading(image, rd, pos, ReaderBits)'
  <2> SUFFICES ASSUME pc' = "read" PROVE Reading(image, rd, pos, ReaderBits)'
    OBVIOUS
  <2>1. ~ended /\ ~last
    BY <1>1
  <2>2. after.cause = "none" /\ next.tile # TileCount(image)
    BY <1>1, <1>7, <1>8, <2>1
  <2>3. Reading(image, after, next, ReaderBits)
    BY <1>4, <2>2 DEF Goes
  <2>q. QED
    BY <1>1, <1>5, <2>3
<1>10. pc' = "convert" /\ ~ByTile(image) => rd'.bit = 8 * PayloadBytes(image)
  <2> SUFFICES ASSUME pc' = "convert", ~ByTile(image) PROVE rd'.bit = 8 * PayloadBytes(image)
    OBVIOUS
  <2>1. ~ended /\ last
    BY <1>1
  <2>2. after.cause = "none" /\ next.tile = TileCount(image)
    BY <1>1, <1>7, <1>8, <2>1
  <2>q. QED
    BY <1>1, <1>4, <2>2 DEF Goes
<1>11. rd'.cause = "truncated" /\ PixelFits(image) => ShortData
  <2> SUFFICES ASSUME rd'.cause = "truncated", PixelFits(image) PROVE ShortData
    OBVIOUS
  <2>1. ReaderBits < 8 * ReadBytes(image)
    BY <1>1, <1>4 DEF Goes
  <2>2. ~ByTile(image)
    BY <1>2, <2>1
  <2> DEFINE d == DataBytes
             b == PayloadBytes(image)
  <2>3. d \in Nat /\ b \in Nat /\ 8 * d < 8 * b
    BY <1>2, <2>1, <2>2
  <2> HIDE DEF d, b
  <2>4. d < b
    BY <2>3
  <2>q. QED
    BY <2>4 DEF d, b, ShortData
<1>12. pc' \in {"refused", "convert", "read"} /\ cause' \in {"reader", "none"}
       /\ (pc' # "refused" => rd'.cause = "none")
  BY <1>1, <1>7
<1>q. QED
  <2>1. pc' \notin Unread /\ pc' # "done"
    BY <1>12 DEF Unread, Early
  <2>2. pc' \in {"read", "convert", "done"} =>
          (SlicesSuffice /\ rd.cause = "none" /\ rd.bit \in 0 .. ReaderBits)'
    BY <1>3, <1>5, <1>6, <1>12
  <2>3. (PixelFits(image) /\ rd.cause = "truncated" => ShortData)'
    BY <1>5, <1>11
  <2>4. (pc \in {"convert", "done"} /\ ~ByTile(image) =>
           rd.bit = 8 * PayloadBytes(image))'
    BY <1>5, <1>10, <2>1
  <2>q. QED
    BY <1>9, <1>12, <2>1, <2>2, <2>3, <2>4 DEF Placed

\* Every interleaving reads a column of its own shape.
LEMMA ReadShaped ==
    ASSUME ReadComponents \/ ReadMixed \/ ReadRows \/ ReadPixels \/ ReadMultiY
    PROVE  pc = "read" /\ ReadColumn(ShapeAt(image, pos))
<1>1. CASE ReadComponents
  BY <1>1 DEF ReadComponents, ShapeAt, ByComponent
<1>2. CASE ReadMixed
  BY <1>2 DEF ReadMixed, ShapeAt, ByComponent, Mixed
<1>3. CASE ReadRows
  BY <1>3 DEF ReadRows, ShapeAt, ByComponent, Mixed, ByRow
<1>4. CASE ReadPixels
  BY <1>4 DEF ReadPixels, ShapeAt, ByComponent, Mixed, ByRow
<1>5. CASE ReadMultiY
  BY <1>5 DEF ReadMultiY, ShapeAt, ByComponent, Mixed, ByRow
<1>q. QED
  BY <1>1, <1>2, <1>3, <1>4, <1>5

\* So the reader goes on to the next column.
LEMMA ReadSteps ==
    ASSUME IInv, Placed,
           ReadComponents \/ ReadMixed \/ ReadRows \/ ReadPixels \/ ReadMultiY
    PROVE  Placed'
  BY ReadShaped, ColumnKeeps

\* Every step keeps the reader in its place.
LEMMA PlacedKeeps == IInv /\ Placed /\ [Next]_vars => Placed'
<1> SUFFICES ASSUME IInv, Placed, [Next]_vars PROVE Placed'
  OBVIOUS
<1>1. CASE \/ ResolveProperties \/ CheckLayout
           \/ CheckExtents \/ CopyExtent \/ FailExtent \/ EndCopy
           \/ WithoutCompression \/ RefuseCompression \/ StartInflation
           \/ StartUnit \/ InflateChunk \/ EndUnit \/ FailUnit \/ EndInflation
  BY <1>1, UnreadSteps
<1>2. CASE CheckSize
  BY <1>2, SizeSteps
<1>3. CASE ReadComponents \/ ReadMixed \/ ReadRows \/ ReadPixels \/ ReadMultiY
  BY <1>3, ReadSteps
<1>4. CASE Convert
  BY <1>4, ConvertSteps
<1>5. CASE UNCHANGED vars
  <2>1. UNCHANGED << image, pc, cause, out, payload, rd, pos >>
    BY <1>5 DEF vars
  <2>2. /\ ReaderBits' = ReaderBits /\ SlicesSuffice' = SlicesSuffice
        /\ ShortData' = ShortData
    BY <2>1, GivenStays
  <2>q. QED
    BY <2>1, <2>2 DEF Placed
<1>q. QED
  BY <1>1, <1>2, <1>3, <1>4, <1>5 DEF Next

\* The places of the reader give what it has read when it is done.
LEMMA PlacedImplies == IInv /\ Placed => ReadsExactlyLayout
<1> SUFFICES ASSUME IInv, Placed PROVE ReadsExactlyLayout
  OBVIOUS
<1>1. pc \in {"read", "done"} => rd.bit \in 0 .. ReaderBits
  BY DEF Placed
<1>2. pc = "done" /\ InterleaveType(image) # "tileComponent" =>
        rd.bit = 8 * PayloadBytes(image)
  BY DEF Placed, ByTile
<1>3. pc = "done" => DataBytes >= PayloadBytes(image)
  <2> SUFFICES ASSUME pc = "done" PROVE DataBytes >= PayloadBytes(image)
    OBVIOUS
  <2>1. /\ DataBytes \in Nat /\ PayloadBytes(image) \in Nat
        /\ ByTile(image) => (SlicesSuffice <=> PayloadBytes(image) <= DataBytes)
        /\ ~ByTile(image) => ReaderBits = 8 * DataBytes
    BY ReaderGiven DEF Late
  <2>2. SlicesSuffice /\ rd.bit \in 0 .. ReaderBits
    BY DEF Placed
  <2>3. CASE ByTile(image)
    BY <2>1, <2>2, <2>3
  <2>4. CASE ~ByTile(image)
    <3> DEFINE d == DataBytes
               b == PayloadBytes(image)
    <3>1. 8 * b \in 0 .. 8 * d
      BY <2>1, <2>2, <2>4 DEF Placed
    <3>2. d \in Nat /\ b \in Nat
      BY <2>1
    <3> HIDE DEF d, b
    <3>3. d >= b
      BY <3>1, <3>2
    <3>q. QED
      BY <3>3 DEF d, b
  <2>q. QED
    BY <2>3, <2>4
<1>4. (cause \in {"truncated", "size"} \/ rd.cause = "truncated") /\ PixelFits(image) =>
        DataBytes < PayloadBytes(image)
  BY DEF Placed, ShortData
<1>q. QED
  BY <1>1, <1>2, <1>3, <1>4 DEF ReadsExactlyLayout

\* The reader is always in its place.
THEOREM PlacedAlways == Spec => []Placed
  BY InvAlways, PlacedAtFirst, PlacedKeeps, PTL DEF Spec

\* Whatever the interleaving, the alignments and the subsampling, the size
\* that uncompressed_payload_size_bytes computes in advance is what the reader
\* consumes, and only data shorter than that is found truncated.
THEOREM LayoutReadExactly == Spec => []ReadsExactlyLayout
  BY InvAlways, PlacedAlways, PlacedImplies, PTL

(***************************************************************************)
(* The pixels of a tile.                                                   *)
(***************************************************************************)
\* A pixel of a tile is a pixel of the image, which gives back the tile and the
\* pixel.
LEMMA TilePixel ==
    ASSUME NEW i, Supported(i), NEW tile \in 0 .. TileCount(i) - 1,
           NEW u \in 0 .. TileWidth(i) - 1, NEW v \in 0 .. TileHeight(i) - 1,
           NEW x, x = (tile % i.cols) * TileWidth(i) + u,
           NEW y, y = (tile \div i.cols) * TileHeight(i) + v
    PROVE  Tile(i, x, y) = tile /\ x % TileWidth(i) = u /\ y % TileHeight(i) = v
<1> DEFINE w == TileWidth(i)
           h == TileHeight(i)
           c == i.cols
<1>1. c \in Nat \ {0} /\ w \in Nat \ {0} /\ h \in Nat \ {0} /\ TileCount(i) \in Nat
  BY TilesWhole
<1> DEFINE d == tile \div c
           m == tile % c
<1>2. tile \in Nat /\ u \in 0 .. w - 1 /\ v \in 0 .. h - 1
  BY <1>1
<1>x. x = m * w + u /\ y = d * h + v
  OBVIOUS
<1> HIDE DEF w, h, c
<1>3. d \in Nat /\ m \in Nat /\ tile = c * d + m
  <2>1. d \in Nat /\ m \in 0 .. c - 1 /\ tile = c * d + m
    BY ONLY <1>1, <1>2, Splits
  <2>q. QED
    BY <1>1, <2>1
<1> HIDE DEF d, m
<1>4. x \div w = m /\ x % w = u
  BY ONLY <1>1, <1>2, <1>3, <1>x, Joins
<1>5. y \div h = d /\ y % h = v
  BY ONLY <1>1, <1>2, <1>3, <1>x, Joins
<1>6. Tile(i, x, y) = d * c + m
  BY <1>4, <1>5 DEF Tile, w, h, c
<1>7. d * c = c * d
  BY <1>1, <1>3, Distributes
<1>q. QED
  BY <1>3, <1>4, <1>5, <1>6, <1>7 DEF w, h

\* Every pixel of the image is one of a tile.
LEMMA PixelTile ==
    ASSUME NEW i, Supported(i), NEW x \in 0 .. i.width - 1, NEW y \in 0 .. i.height - 1
    PROVE  /\ Tile(i, x, y) \in 0 .. TileCount(i) - 1
           /\ x % TileWidth(i) \in 0 .. TileWidth(i) - 1
           /\ y % TileHeight(i) \in 0 .. TileHeight(i) - 1
           /\ x = (Tile(i, x, y) % i.cols) * TileWidth(i) + (x % TileWidth(i))
           /\ y = (Tile(i, x, y) \div i.cols) * TileHeight(i) + (y % TileHeight(i))
<1> DEFINE w == TileWidth(i)
           h == TileHeight(i)
           c == i.cols
           r == i.rows
           q == x \div w
           n == y \div h
           t == Tile(i, x, y)
<1>1. /\ c \in Nat \ {0} /\ r \in Nat \ {0} /\ w \in Nat \ {0} /\ h \in Nat \ {0}
      /\ i.width = c * w /\ i.height = r * h /\ TileCount(i) = r * c
  BY TilesWhole
<1>2. x \in Nat /\ y \in Nat /\ x < c * w /\ y < r * h
  <2>1. c * w \in Nat /\ r * h \in Nat
    BY <1>1, ProductNatural
  <2>q. QED
    BY <1>1, <2>1
<1>3. t = n * c + q
  BY DEF Tile
<1> HIDE DEF w, h, c, r, t
<1>4. q \in Nat /\ x % w \in 0 .. w - 1 /\ x = w * q + (x % w)
  BY <1>1, <1>2, Splits
<1>5. n \in Nat /\ y % h \in 0 .. h - 1 /\ y = h * n + (y % h)
  BY <1>1, <1>2, Splits
<1> HIDE DEF q, n
<1>6. ASSUME NEW a \in Nat \ {0}, NEW b \in Nat \ {0}, NEW k \in Nat,
             NEW z \in Nat, z < b * a, a * k <= z
      PROVE  k <= b - 1
  <2>1. CASE b <= k
    <3>1. b * a <= k * a
      BY <1>6, <2>1, ProductGrows
    <3>2. k * a = a * k /\ b * a \in Nat /\ a * k \in Nat
      BY <1>6, Distributes, ProductNatural
    <3>q. QED
      BY <1>6, <3>1, <3>2
  <2>q. QED
    BY <1>6, <2>1
<1>7. w * q \in Nat /\ w * q <= x
  <2>1. w * q \in Nat
    BY <1>1, <1>4, ProductNatural
  <2>q. QED
    BY <1>4, <2>1
<1>8. h * n \in Nat /\ h * n <= y
  <2>1. h * n \in Nat
    BY <1>1, <1>5, ProductNatural
  <2>q. QED
    BY <1>5, <2>1
<1>9. q \in 0 .. c - 1 /\ n <= r - 1
  <2>1. q <= c - 1
    BY <1>1, <1>2, <1>4, <1>6, <1>7
  <2>2. n <= r - 1
    BY <1>1, <1>2, <1>5, <1>6, <1>8
  <2>q. QED
    BY <1>1, <1>4, <2>1, <2>2
<1>10. t \div c = n /\ t % c = q
  BY ZenonT(60), <1>1, <1>3, <1>5, <1>9, Joins
<1>11. t \in 0 .. TileCount(i) - 1
  <2>1. n * c \in Nat /\ (r - 1) * c \in Nat /\ n * c <= (r - 1) * c
    <3>1. r - 1 \in Nat /\ c \in Nat
      BY <1>1
    <3>q. QED
      BY <1>5, <1>9, <3>1, ProductGrows, ProductNatural
  <2>2. (r - 1) * c = r * c - c /\ r * c \in Int
    BY <1>1, Distributes
  <2>q. QED
    BY <1>1, <1>3, <1>9, <2>1, <2>2
<1>12. w * q = q * w /\ h * n = n * h
  BY <1>1, <1>4, <1>5, Distributes
<1>13. x = q * w + (x % w) /\ y = n * h + (y % h)
  BY <1>4, <1>5, <1>12
<1>q. QED
  BY <1>4, <1>5, <1>10, <1>11, <1>13 DEF w, h, c, t

(***************************************************************************)
(* The components of an image, by role and pixel.                          *)
(***************************************************************************)
\* How many luma components come before a component.
Nth(i, k) == Cardinality({n \in Positions(i, "Y") : n < k})

\* Component n is the one that sample k of the columns of a line is of.
IsComponent(i, p, k, n) ==
  /\ n \in 1 .. Len(Specs(i))
  /\ Specs(i)[n] = GroupOf(i, p.part, p.line)[k]
  /\ ByComponent(i) => n = p.part + 1
  /\ Mixed(i) => /\ k \in {1, 2}
                 /\ k = 1 <=> n = p.part + 1
                 /\ Specs(i)[n].role \in Chroma => FirstChroma(i) = p.part + 1
                 /\ k = 2 => Specs(i)[n].role \in Chroma
  /\ ByRow(i) => n = p.line + 1
  /\ ~(ByComponent(i) \/ Mixed(i) \/ ByRow(i)) => n = k

\* Every sample is one of a component.
LEMMA SampleComponent ==
    ASSUME NEW i, Supported(i), NEW p, InLoops(i, p),
           NEW k \in 1 .. Len(GroupOf(i, p.part, p.line))
    PROVE  \E n : IsComponent(i, p, k, n)
<1>n. /\ ByComponent(i) => ~Mixed(i) /\ ~ByRow(i)
      /\ Mixed(i) => ~ByRow(i)
  BY KindsApart
<1>0. /\ p.part \in 0 .. Parts(i) - 1 /\ p.line \in 0 .. LinesOf(i, p.part) - 1
      /\ Parts(i) \in Nat /\ LinesOf(i, p.part) \in Nat /\ Len(Specs(i)) \in Nat
  BY PlaceFacts, SpecsReal DEF TileLaid, PartLaid
<1>1. CASE ByComponent(i)
  <2>1. GroupOf(i, p.part, p.line) = << Specs(i)[p.part + 1] >> /\ Parts(i) = Len(Specs(i))
    BY <1>1 DEF GroupOf, Parts
  <2>2. k = 1 /\ p.part + 1 \in 1 .. Len(Specs(i))
    BY <1>0, <2>1
  <2>q. QED
    BY <1>n, <1>1, <2>1, <2>2 DEF IsComponent
<1>2. CASE Mixed(i)
  <2> DEFINE n == p.part + 1
             spec == Specs(i)[n]
             group == MixedGroup(i, n)
             other == IF spec.role = "Cb" THEN "Cr" ELSE "Cb"
  <2>1. GroupOf(i, p.part, p.line) = group /\ Parts(i) = Len(Specs(i)) /\ ~ByComponent(i)
    BY <1>n, <1>2 DEF GroupOf, Parts
  <2>2. n \in 1 .. Len(Specs(i)) /\ group # << >>
    BY <1>0, <1>2, <2>1 DEF InLoops, Turn
  <2>3. CASE spec.role \notin Chroma
    <3>1. group = << spec >>
      BY <2>3 DEF MixedGroup
    <3>2. k = 1 /\ group[k] = spec
      <4> HIDE DEF spec, group
      <4>1. k \in 1 .. Len(<< spec >>)
        BY <2>1, <3>1
      <4>q. QED
        BY <3>1, <4>1
    <3>q. QED
      BY <1>n, <1>2, <2>1, <2>2, <2>3, <3>2 DEF IsComponent
  <2>4. CASE spec.role \in Chroma
    <3>1. group = << spec, Complementary(i, spec.role) >> /\ n = FirstChroma(i)
      BY <2>2, <2>4 DEF MixedGroup
    <3>2. PICK m \in 1 .. Len(Specs(i)) : /\ Complementary(i, spec.role) = Specs(i)[m]
                                          /\ Specs(i)[m].role = other
      BY <2>2, <2>4, ComplementaryReal
    <3>3. m # n /\ Specs(i)[m].role \in Chroma
      BY <2>4, <3>2 DEF Chroma
    <3>4. k \in {1, 2} /\ group[1] = spec /\ group[2] = Specs(i)[m]
      <4> DEFINE c == Complementary(i, spec.role)
      <4>1. group = << spec, c >> /\ c = Specs(i)[m]
        BY <3>1, <3>2
      <4> HIDE DEF spec, group, c
      <4>2. k \in 1 .. Len(<< spec, c >>)
        BY <2>1, <4>1
      <4>q. QED
        BY <4>1, <4>2
    <3> HIDE DEF spec, group, n, other
    <3>5. CASE k = 1
      <4>1. IsComponent(i, p, k, n)
        BY <1>n, <1>2, <2>1, <2>2, <3>1, <3>4, <3>5 DEF IsComponent, n, spec
      <4>q. QED
        BY <4>1
    <3>6. CASE k = 2
      <4>1. IsComponent(i, p, k, m)
        BY <1>n, <1>2, <2>1, <2>2, <3>1, <3>2, <3>3, <3>4, <3>6 DEF IsComponent, n
      <4>q. QED
        BY <4>1
    <3>q. QED
      BY <3>4, <3>5, <3>6
  <2>q. QED
    BY <2>3, <2>4
<1>3. CASE ByRow(i)
  <2>1. /\ GroupOf(i, p.part, p.line) = << Specs(i)[p.line + 1] >>
        /\ LinesOf(i, p.part) = Len(Specs(i))
    BY <1>n, <1>3 DEF GroupOf, LinesOf
  <2>2. k = 1 /\ p.line + 1 \in 1 .. Len(Specs(i))
    BY <1>0, <2>1
  <2>q. QED
    BY <1>n, <1>3, <2>1, <2>2 DEF IsComponent
<1>4. CASE ~(ByComponent(i) \/ Mixed(i) \/ ByRow(i))
  <2>1. GroupOf(i, p.part, p.line) = Specs(i)
    BY <1>4 DEF GroupOf
  <2>q. QED
    BY <1>4, <2>1 DEF IsComponent
<1>q. QED
  BY <1>1, <1>2, <1>3, <1>4

\* Components are finitely many.
LEMMA PositionsFinite ==
    ASSUME NEW i, Supported(i), NEW role
    PROVE  /\ IsFiniteSet(Positions(i, role)) /\ Positions(i, role) \in SUBSET Nat
           /\ Positions(i, role) \subseteq 1 .. Len(Specs(i))
<1>1. Len(Specs(i)) \in Nat
  BY SpecsReal
<1>2. 1 \in Int /\ Len(Specs(i)) \in Int
  BY <1>1
<1>3. IsFiniteSet(1 .. Len(Specs(i)))
  BY <1>2, FS_Interval
<1>4. Positions(i, role) \subseteq 1 .. Len(Specs(i))
  BY DEF Positions
<1>q. QED
  BY <1>1, <1>3, <1>4, FS_Subset

\* Groups of several luma samples have two of them.
LEMMA TwoLumas ==
    ASSUME NEW i, Supported(i), InterleaveType(i) = "multiY"
    PROVE  /\ ChromaStep(Sampling(i)) = << 2, 1 >>
           /\ Count(i, "Y") = 2
           /\ \E a, b : /\ a \in Nat /\ b \in Nat /\ a < b
                        /\ Positions(i, "Y") = {a, b} /\ Nth(i, a) = 0 /\ Nth(i, b) = 1
<1> DEFINE P == Positions(i, "Y")
<1>1. Sampling(i) = "422"
  BY DEF Supported, LayoutSupported, MultiYSupported
<1>2. ChromaStep(Sampling(i)) = << 2, 1 >>
  BY <1>1 DEF ChromaStep
<1>3. Cardinality(P) = 2
  <2>1. Count(i, "Y") = ChromaStep(Sampling(i))[1] * ChromaStep(Sampling(i))[2]
    BY <1>1 DEF Supported, LayoutSupported, SamplingSupported
  <2>2. Count(i, "Y") = 2 * 1
    BY <1>2, <2>1
  <2>q. QED
    BY <2>2 DEF Count
<1>4. IsFiniteSet(P) /\ P \in SUBSET Nat
  BY PositionsFinite
<1>5. Count(i, "Y") = Cardinality(P) /\ \A k : Nth(i, k) = Cardinality({n \in P : n < k})
  BY DEF Count, Nth
<1> HIDE DEF P
<1> DEFINE a == Min(P)
<1>6. P # {}
  BY <1>3, FS_EmptySet
<1>7. a \in P /\ \A n \in P : a <= n
  BY <1>4, <1>6, LeastOfNaturals
<1> HIDE DEF a
<1>8. IsFiniteSet(P \ {a}) /\ Cardinality(P \ {a}) = 1
  BY <1>3, <1>4, <1>7, FS_RemoveElement
<1>9. PICK b : P \ {a} = {b}
  BY <1>8, FS_Singleton
<1>10. b \in P /\ P = {a, b} /\ a \in Nat /\ b \in Nat /\ a < b
  <2>1. b \in P \ {a}
    BY <1>9
  <2>2. P = {a, b}
    BY <1>7, <1>9
  <2>3. a \in Nat /\ b \in Nat /\ a <= b
    BY <1>4, <1>7, <2>1
  <2>q. QED
    BY <2>1, <2>2, <2>3
<1>11. {n \in P : n < a} = {} /\ {n \in P : n < b} = {a}
  BY <1>10
<1>12. Nth(i, a) = 0 /\ Nth(i, b) = 1
  BY <1>5, <1>11, FS_EmptySet, FS_Singleton
<1>q. QED
  BY <1>2, <1>3, <1>5, <1>10, <1>12 DEF P

\* The component of a role, and of one of two pixels for luma of groups of
\* several, is the one that the reference looks for.
LEMMA ComponentFound ==
    ASSUME NEW i, Supported(i), NEW n \in 1 .. Len(Specs(i)), NEW x \in Nat,
           Specs(i)[n].role \in Channels,
           InterleaveType(i) = "multiY" /\ Specs(i)[n].role = "Y" => x % 2 = Nth(i, n)
    PROVE  ComponentFor(i, Specs(i)[n].role, x) = n
<1> DEFINE role == Specs(i)[n].role
           P == Positions(i, role)
           nth == IF role = "Y" THEN x % Count(i, "Y") ELSE 0
           Is(k) == Cardinality({m \in P : m < k}) = nth
<1>1. n \in P
  BY DEF Positions
<1>2. SUFFICES Is(n) /\ \A k \in P : Is(k) => k = n
  <2>1. ComponentFor(i, role, x) = CHOOSE k \in P : Is(k)
    BY DEF ComponentFor
  <2> HIDE DEF Is, P, role
  <2>2. (CHOOSE k \in P : Is(k)) = n
    BY <1>1, <1>2
  <2>q. QED
    BY <2>1, <2>2 DEF role
<1>3. CASE InterleaveType(i) = "multiY" /\ role = "Y"
  <2>1. PICK a, b : /\ a \in Nat /\ b \in Nat /\ a < b
                    /\ Positions(i, "Y") = {a, b} /\ Nth(i, a) = 0 /\ Nth(i, b) = 1
    BY <1>3, TwoLumas
  <2>2. nth = Nth(i, n)
    BY <1>3, TwoLumas
  <2>3. P = {a, b}
    BY <1>3, <2>1
  <2>4. \A k : Cardinality({m \in P : m < k}) = Nth(i, k)
    BY <1>3 DEF Nth
  <2> HIDE DEF P, nth
  <2>5. Is(n)
    BY <2>2, <2>4
  <2>6. ASSUME NEW k \in P, Is(k) PROVE k = n
    <3>1. Nth(i, k) = Nth(i, n)
      BY <2>2, <2>4, <2>6
    <3>q. QED
      BY <1>1, <2>1, <2>3, <2>6, <3>1
  <2>q. QED
    BY <2>5, <2>6
<1>4. CASE ~(InterleaveType(i) = "multiY" /\ role = "Y")
  <2>1. P = {n}
    <3>1. ASSUME NEW k \in P PROVE k = n
      <4>1. k \in 1 .. Len(Specs(i)) /\ Specs(i)[k].role = role
        BY <3>1 DEF Positions
      <4>q. QED
        BY <1>4, <4>1, RolesOnce
    <3>q. QED
      BY <1>1, <3>1
  <2>2. nth = 0
    <3>1. CASE role = "Y"
      <4>1. Count(i, "Y") = 1
        BY <2>1, <3>1, FS_Singleton DEF Count
      <4>2. x % 1 = 0
        OBVIOUS
      <4>q. QED
        BY <3>1, <4>1, <4>2
    <3>2. CASE role # "Y"
      BY <3>2
    <3>q. QED
      BY <3>1, <3>2
  <2>3. n \in Int
    BY SpecsReal
  <2> HIDE DEF P, nth
  <2>4. {m \in P : m < n} = {}
    BY <2>1, <2>3
  <2>5. Is(n)
    BY <2>2, <2>4, FS_EmptySet
  <2>q. QED
    BY <2>1, <2>5
<1>q. QED
  BY <1>3, <1>4

(***************************************************************************)
(* The pixels that a column stands for.                                    *)
(***************************************************************************)
\* The line of a tile that a place of the loops is at, in steps.
Across(i, p) == IF ByRow(i) THEN p.part ELSE p.line

\* Only luma samples of groups of several do not stand for the whole step.
OneOfGroup(i, n) == InterleaveType(i) = "multiY" /\ Specs(i)[n].role = "Y"

\* All samples of a column have the step of its part.
LEMMA SampleSteps ==
    ASSUME NEW i, Supported(i), NEW p, InLoops(i, p), NEW k, NEW n,
           IsComponent(i, p, k, n), Specs(i)[n].role \in Channels
    PROVE  IF OneOfGroup(i, n) THEN Step(i, Specs(i)[n].role) = << 1, 1 >>
           ELSE Step(i, Specs(i)[n].role) = StepOf(i, p.part)
<1> DEFINE role == Specs(i)[n].role
<1>n. /\ InterleaveType(i) \in Interleaves
      /\ ByComponent(i) => ~Mixed(i) /\ ~ByRow(i)
      /\ Mixed(i) => ~ByRow(i)
      /\ ByRow(i) => ChromaStep(Sampling(i)) = << 1, 1 >>
      /\ ~(ByComponent(i) \/ Mixed(i) \/ ByRow(i)) =>
           InterleaveType(i) \in {"pixel", "multiY"}
  BY KindsApart
<1>1. CASE OneOfGroup(i, n)
  BY <1>1 DEF OneOfGroup, Step, Chroma
<1>2. CASE ByComponent(i)
  <2>1. ~OneOfGroup(i, n)
    BY <1>2 DEF OneOfGroup, ByComponent
  <2>q. QED
    BY <1>2, <2>1 DEF IsComponent, StepOf
<1>3. CASE Mixed(i)
  <2>1. ~OneOfGroup(i, n) /\ StepOf(i, p.part) = Step(i, Specs(i)[p.part + 1].role)
    BY <1>n, <1>3 DEF OneOfGroup, Mixed, StepOf
  <2>2. CASE n = p.part + 1
    BY <2>1, <2>2
  <2>3. CASE n # p.part + 1
    <3>1. role \in Chroma /\ FirstChroma(i) = p.part + 1 /\ p.part + 1 # 0
      <4>1. p.part \in Nat
        BY DEF InLoops
      <4>q. QED
        BY <1>3, <2>3, <4>1 DEF IsComponent
    <3>2. Specs(i)[p.part + 1].role \in Chroma
      BY <3>1, FirstChromaLeast
    <3>q. QED
      BY <2>1, <3>1, <3>2 DEF Step
  <2>q. QED
    BY <2>2, <2>3
<1>4. CASE ByRow(i)
  <2>1. ~OneOfGroup(i, n) /\ StepOf(i, p.part) = << 1, 1 >>
    BY <1>n, <1>4 DEF OneOfGroup, ByRow, StepOf
  <2>2. Step(i, role) = << 1, 1 >>
    BY <1>n, <1>4, StepOfRole
  <2>q. QED
    BY <2>1, <2>2
<1>5. CASE InterleaveType(i) = "pixel"
  <2>1. ~OneOfGroup(i, n) /\ StepOf(i, p.part) = ChromaStep(Sampling(i))
    BY <1>5 DEF OneOfGroup, ByComponent, Mixed, ByRow, StepOf
  <2>2. Sampling(i) = "444"
    BY <1>5 DEF Supported, LayoutSupported, SamplingSupported
  <2>3. ChromaStep(Sampling(i)) = << 1, 1 >>
    BY <2>2 DEF ChromaStep
  <2>q. QED
    BY <2>1, <2>3 DEF Step
<1>6. CASE InterleaveType(i) = "multiY" /\ ~OneOfGroup(i, n)
  <2>1. StepOf(i, p.part) = ChromaStep(Sampling(i))
    BY <1>6 DEF ByComponent, Mixed, ByRow, StepOf
  <2>2. n \in 1 .. Len(Specs(i))
    BY DEF IsComponent
  <2>3. role \in YCbCr \cup {"padded"}
    BY <1>6, <2>2 DEF Supported, LayoutSupported, MultiYSupported
  <2>4. role \in Chroma
    BY <1>6, <2>3 DEF OneOfGroup, YCbCr, Chroma, Channels, Rgb
  <2>q. QED
    BY <1>6, <2>1, <2>4 DEF Step
<1>q. QED
  BY <1>n, <1>1, <1>2, <1>3, <1>4, <1>5, <1>6

\* The first pixel of a column, in its tile.
LEMMA ColumnPixel ==
    ASSUME NEW i, Supported(i), NEW p, InLoops(i, p)
    PROVE  ShapeAt(i, p).at = << p.column * StepOf(i, p.part)[1],
                                 Across(i, p) * StepOf(i, p.part)[2] >>
<1>n. /\ ByComponent(i) => ~Mixed(i) /\ ~ByRow(i)
      /\ Mixed(i) => ~ByRow(i)
  BY KindsApart
<1>1. CASE ByComponent(i)
  <2> DEFINE spec == Specs(i)[p.part + 1]
  <2>1. << spec >>[1] = spec
    OBVIOUS
  <2>2. ShapeAt(i, p) = SampledShape(i, p.part + 1, << spec >>, p)
    BY <1>1 DEF ShapeAt, ComponentShape
  <2>3. StepOf(i, p.part) = Step(i, spec.role)
    BY <1>1 DEF StepOf
  <2> HIDE DEF spec
  <2>q. QED
    BY <1>n, <1>1, <2>1, <2>2, <2>3 DEF SampledShape, Across
<1>2. CASE Mixed(i)
  <2> DEFINE group == MixedGroup(i, p.part + 1)
             spec == Specs(i)[p.part + 1]
  <2>1. group # << >>
    BY <1>2 DEF InLoops, Turn
  <2>2. group[1] = spec
    BY <2>1 DEF MixedGroup
  <2>3. ShapeAt(i, p) = SampledShape(i, NextTurn(i, p.part), group, p)
    BY <1>n, <1>2 DEF ShapeAt, MixedShape
  <2>4. StepOf(i, p.part) = Step(i, spec.role)
    BY <1>2 DEF StepOf
  <2> HIDE DEF spec, group
  <2>q. QED
    BY <1>n, <1>2, <2>2, <2>3, <2>4 DEF SampledShape, Across
<1>3. CASE ByRow(i)
  <2>1. ShapeAt(i, p).at = << p.column, p.part >>
    BY <1>n, <1>3 DEF ShapeAt, RowShape
  <2>2. StepOf(i, p.part) = << 1, 1 >>
    BY <1>n, <1>3 DEF StepOf
  <2>3. p.column * 1 = p.column /\ p.part * 1 = p.part
    BY DEF InLoops
  <2>q. QED
    BY <1>3, <2>1, <2>2, <2>3 DEF Across
<1>4. CASE ~(ByComponent(i) \/ Mixed(i) \/ ByRow(i))
  <2>1. ShapeAt(i, p) = GroupShape(i, p)
    BY <1>4 DEF ShapeAt
  <2>2. StepOf(i, p.part) = ChromaStep(Sampling(i))
    BY <1>4 DEF StepOf
  <2>q. QED
    BY <1>4, <2>1, <2>2 DEF GroupShape, Across
<1>q. QED
  BY <1>1, <1>2, <1>3, <1>4

\* The n-th luma sample of a group of several belongs to its n-th pixel.
LEMMA LumaPixel ==
    ASSUME NEW i, Supported(i), NEW p, InLoops(i, p), NEW k, NEW n,
           IsComponent(i, p, k, n), OneOfGroup(i, n)
    PROVE  /\ Nth(i, n) \in {0, 1} /\ StepOf(i, p.part) = << 2, 1 >>
           /\ SampleAt(ShapeAt(i, p), i, k) = << ShapeAt(i, p).at[1] + Nth(i, n),
                                                 ShapeAt(i, p).at[2] >>
<1> DEFINE shape == ShapeAt(i, p)
           at == shape.at
           nth == Cardinality({m \in 1 .. k - 1 : shape.group[m].role = "Y"})
<1>1. /\ InterleaveType(i) = "multiY" /\ Specs(i)[n].role = "Y"
      /\ ~(ByComponent(i) \/ Mixed(i) \/ ByRow(i))
  BY DEF OneOfGroup, ByComponent, Mixed, ByRow
<1>2. ChromaStep(Sampling(i)) = << 2, 1 >> /\ StepOf(i, p.part) = ChromaStep(Sampling(i))
  BY <1>1, TwoLumas DEF StepOf
<1>3. n = k /\ n \in 1 .. Len(Specs(i)) /\ Len(Specs(i)) \in Nat
  BY <1>1, SpecsReal DEF IsComponent
<1>4. shape.group = Specs(i)
  BY <1>1, ShapeFields DEF GroupOf
<1>5. n \in Positions(i, "Y")
  BY <1>1, <1>3 DEF Positions
<1>6. Nth(i, n) \in {0, 1}
  BY <1>1, <1>5, TwoLumas
<1>7. nth = Nth(i, n)
  <2>1. {m \in 1 .. n - 1 : Specs(i)[m].role = "Y"} = {m \in Positions(i, "Y") : m < n}
    BY <1>3 DEF Positions
  <2>q. QED
    BY <1>3, <1>4, <2>1 DEF Nth
<1>8. SampleAt(shape, i, k) = << at[1] + (nth % 2), at[2] + (nth \div 2) >>
  BY <1>1, <1>2, <1>3, <1>4 DEF SampleAt
<1>9. at[2] \in Int
  <2>1. at = << p.column * StepOf(i, p.part)[1], Across(i, p) * StepOf(i, p.part)[2] >>
    BY ColumnPixel
  <2>2. Across(i, p) = p.line /\ p.line \in Nat
    BY <1>1 DEF Across, InLoops
  <2>3. at[2] = p.line * 1
    BY <1>2, <2>1, <2>2
  <2>q. QED
    BY <2>2, <2>3
<1> HIDE DEF at, nth, shape
<1>10. nth % 2 = nth /\ nth \div 2 = 0
  BY <1>6, <1>7
<1>11. SampleAt(shape, i, k) = << at[1] + nth, at[2] + 0 >>
  BY <1>8, <1>10
<1>q. QED
  BY <1>2, <1>6, <1>7, <1>9, <1>11 DEF at, shape

\* Component n gives a sample to a pixel in the column of a place: the pixel is
\* one of those that the column stands for, and of several luma samples the n-th
\* is its own.
Covers(i, p, n, x, y) ==
  /\ x \in Nat /\ y \in Nat
  /\ Tile(i, x, y) = p.tile
  /\ (x % TileWidth(i)) \div StepOf(i, p.part)[1] = p.column
  /\ (y % TileHeight(i)) \div StepOf(i, p.part)[2] = Across(i, p)
  /\ OneOfGroup(i, n) => x % 2 = Nth(i, n)

\* The columns and lines of a place stay in its tile.
LEMMA ColumnWithin ==
    ASSUME NEW i, Supported(i), NEW p, InLoops(i, p)
    PROVE  /\ StepOf(i, p.part)[1] \in Nat \ {0} /\ StepOf(i, p.part)[2] \in Nat \ {0}
           /\ TileWidth(i) \div StepOf(i, p.part)[1] \in Nat
           /\ TileHeight(i) \div StepOf(i, p.part)[2] \in Nat
           /\ TileWidth(i)
                = StepOf(i, p.part)[1] * (TileWidth(i) \div StepOf(i, p.part)[1])
           /\ TileHeight(i)
                = StepOf(i, p.part)[2] * (TileHeight(i) \div StepOf(i, p.part)[2])
           /\ p.column \in 0 .. (TileWidth(i) \div StepOf(i, p.part)[1]) - 1
           /\ Across(i, p) \in 0 .. (TileHeight(i) \div StepOf(i, p.part)[2]) - 1
<1>n. /\ ByComponent(i) => ~Mixed(i) /\ ~ByRow(i)
      /\ Mixed(i) => ~ByRow(i)
  BY KindsApart
<1>1. /\ StepOf(i, p.part)[1] \in Nat \ {0} /\ StepOf(i, p.part)[2] \in Nat \ {0}
      /\ TileWidth(i) \div StepOf(i, p.part)[1] \in Nat
      /\ TileHeight(i) \div StepOf(i, p.part)[2] \in Nat
      /\ TileWidth(i)
           = StepOf(i, p.part)[1] * (TileWidth(i) \div StepOf(i, p.part)[1])
      /\ TileHeight(i)
           = StepOf(i, p.part)[2] * (TileHeight(i) \div StepOf(i, p.part)[2])
  BY PartSteps, StepsDivide
<1>2. /\ p.part \in 0 .. Parts(i) - 1 /\ p.line \in 0 .. LinesOf(i, p.part) - 1
      /\ p.column \in 0 .. ColumnsOf(i, p.part) - 1
  BY PlaceFacts
<1>3. p.column \in 0 .. (TileWidth(i) \div StepOf(i, p.part)[1]) - 1
  BY <1>2 DEF ColumnsOf
<1>4. Across(i, p) \in 0 .. (TileHeight(i) \div StepOf(i, p.part)[2]) - 1
  <2>1. CASE ByRow(i)
    <3>1. StepOf(i, p.part) = << 1, 1 >> /\ Parts(i) = TileHeight(i)
      BY <1>n, <2>1 DEF StepOf, Parts
    <3>2. TileHeight(i) \in Nat \ {0}
      BY TilesWhole
    <3>3. TileHeight(i) \div StepOf(i, p.part)[2] = TileHeight(i)
      BY <3>1, <3>2
    <3>q. QED
      BY <1>2, <2>1, <3>1, <3>3 DEF Across
  <2>2. CASE ~ByRow(i)
    BY <1>2, <2>2 DEF Across, LinesOf
  <2>q. QED
    BY <2>1, <2>2
<1>q. QED
  BY <1>1, <1>3, <1>4

\* The multiple of a step, within a number of steps.
LEMMA WithinSteps ==
    ASSUME NEW s \in Nat \ {0}, NEW n \in Nat, NEW q \in 0 .. n - 1, NEW d \in 0 .. s - 1
    PROVE  /\ q * s + d \in 0 .. s * n - 1
           /\ (q * s + d) \div s = q /\ (q * s + d) % s = d
<1>1. (q * s + d) \div s = q /\ (q * s + d) % s = d
  BY Joins
<1>2. q * s \in Nat /\ s * n = n * s /\ (q + 1) * s = q * s + s
  <2>1. (q + 1) * s = q * s + 1 * s /\ s * n = n * s /\ q * s \in Nat
    BY Distributes, ProductNatural
  <2>q. QED
    BY <2>1
<1>3. (q + 1) * s <= n * s
  BY ProductGrows
<1>4. n * s \in Int /\ (q + 1) * s \in Int
  BY Distributes
<1>5. q * s + d \in 0 .. s * n - 1
  BY <1>2, <1>3, <1>4
<1>q. QED
  BY <1>1, <1>5

\* The pixels that a column stands for are told from all others by their tile and
\* by the steps before them.
LEMMA StepPixel ==
    ASSUME NEW i, Supported(i), NEW p, InLoops(i, p),
           NEW d \in 0 .. StepOf(i, p.part)[1] - 1,
           NEW e \in 0 .. StepOf(i, p.part)[2] - 1,
           NEW x, x = (p.tile % i.cols) * TileWidth(i)
                        + (p.column * StepOf(i, p.part)[1] + d),
           NEW y, y = (p.tile \div i.cols) * TileHeight(i)
                        + (Across(i, p) * StepOf(i, p.part)[2] + e)
    PROVE  /\ x \in Nat /\ y \in Nat
           /\ Tile(i, x, y) = p.tile
           /\ (x % TileWidth(i)) \div StepOf(i, p.part)[1] = p.column
           /\ (y % TileHeight(i)) \div StepOf(i, p.part)[2] = Across(i, p)
           /\ (x % TileWidth(i)) % StepOf(i, p.part)[1] = d
           /\ x % TileWidth(i) \in Nat
<1> DEFINE s == StepOf(i, p.part)[1]
           t == StepOf(i, p.part)[2]
           m == TileWidth(i) \div s
           n == TileHeight(i) \div t
           u == p.column * s + d
           v == Across(i, p) * t + e
<1>1. /\ s \in Nat \ {0} /\ t \in Nat \ {0} /\ m \in Nat /\ n \in Nat
      /\ TileWidth(i) = s * m /\ TileHeight(i) = t * n
      /\ p.column \in 0 .. m - 1 /\ Across(i, p) \in 0 .. n - 1
  BY ColumnWithin
<1>2. d \in 0 .. s - 1 /\ e \in 0 .. t - 1
  OBVIOUS
<1>x. /\ x = (p.tile % i.cols) * TileWidth(i) + u
      /\ y = (p.tile \div i.cols) * TileHeight(i) + v
  OBVIOUS
<1> HIDE DEF m, n
<1>3. u \in 0 .. s * m - 1 /\ u \div s = p.column /\ u % s = d
  <2> HIDE DEF s
  <2>q. QED
    BY ZenonT(60), <1>1, <1>2, WithinSteps
<1>4. v \in 0 .. t * n - 1 /\ v \div t = Across(i, p)
  <2> HIDE DEF t
  <2>q. QED
    BY <1>1, <1>2, WithinSteps
<1> HIDE DEF s, t, u, v
<1>5. u \in 0 .. TileWidth(i) - 1 /\ v \in 0 .. TileHeight(i) - 1
  BY <1>1, <1>3, <1>4
<1>6. p.tile \in 0 .. TileCount(i) - 1
  BY PlaceFacts
<1>7. Tile(i, x, y) = p.tile /\ x % TileWidth(i) = u /\ y % TileHeight(i) = v
  BY ONLY <1>x, <1>5, <1>6, Supported(i), TilePixel
<1>8. x \in Nat /\ y \in Nat
  <2>1. i.cols \in Nat \ {0} /\ TileWidth(i) \in Nat /\ TileHeight(i) \in Nat
        /\ TileCount(i) \in Nat
    BY TilesWhole
  <2>2. p.tile % i.cols \in Nat /\ p.tile \div i.cols \in Nat
    <3>1. p.tile \in Nat
      BY <1>6, <2>1
    <3>2. p.tile % i.cols \in 0 .. i.cols - 1 /\ p.tile \div i.cols \in Nat
      BY <2>1, <3>1, Splits
    <3>q. QED
      BY <2>1, <3>2
  <2>3. (p.tile % i.cols) * TileWidth(i) \in Nat /\ (p.tile \div i.cols) * TileHeight(i) \in Nat
    BY <2>1, <2>2, ProductNatural
  <2>q. QED
    BY <1>x, <1>5, <2>3
<1>9. u \in Nat
  BY <1>3
<1>q. QED
  BY <1>3, <1>4, <1>7, <1>8, <1>9 DEF s, t

\* The pixels that a sample of component n is written to.
InBlock(i, p, n, x, y) ==
  \E d \in 0 .. StepOf(i, p.part)[1] - 1, e \in 0 .. StepOf(i, p.part)[2] - 1 :
    /\ OneOfGroup(i, n) => d = Nth(i, n)
    /\ x = (p.tile % i.cols) * TileWidth(i) + (p.column * StepOf(i, p.part)[1] + d)
    /\ y = (p.tile \div i.cols) * TileHeight(i)
             + (Across(i, p) * StepOf(i, p.part)[2] + e)

\* The block of a sample is made of these.
LEMMA BlockPixels ==
    ASSUME NEW i, Supported(i), NEW p, InLoops(i, p), NEW k, NEW n,
           IsComponent(i, p, k, n), Specs(i)[n].role \in Channels, NEW x, NEW y
    PROVE  << x, y >> \in Block(ShapeAt(i, p), i, p.tile, k) <=> InBlock(i, p, n, x, y)
<1> DEFINE s == StepOf(i, p.part)[1]
           t == StepOf(i, p.part)[2]
           a == (p.tile % i.cols) * TileWidth(i)
           b == (p.tile \div i.cols) * TileHeight(i)
           u == p.column * s
           v == Across(i, p) * t
           at == SampleAt(ShapeAt(i, p), i, k)
           step == Step(i, Specs(i)[n].role)
<1>1. ShapeAt(i, p).group[k] = Specs(i)[n]
  BY ShapeFields DEF IsComponent
<1>2. /\ s \in Nat \ {0} /\ t \in Nat \ {0} /\ a \in Nat /\ b \in Nat /\ u \in Nat /\ v \in Nat
  <2>1. /\ s \in Nat \ {0} /\ t \in Nat \ {0}
        /\ TileWidth(i) \div s \in Nat /\ TileHeight(i) \div t \in Nat
        /\ p.column \in 0 .. (TileWidth(i) \div s) - 1
        /\ Across(i, p) \in 0 .. (TileHeight(i) \div t) - 1
    BY ColumnWithin
  <2>2. /\ i.cols \in Nat \ {0} /\ TileWidth(i) \in Nat /\ TileHeight(i) \in Nat
        /\ TileCount(i) \in Nat
    BY TilesWhole
  <2>3. p.tile \in Nat
    BY DEF InLoops
  <2>4. p.tile % i.cols \in Nat /\ p.tile \div i.cols \in Nat
    <3>1. p.tile % i.cols \in 0 .. i.cols - 1 /\ p.tile \div i.cols \in Nat
      BY <2>2, <2>3, Splits
    <3>q. QED
      BY <2>2, <3>1
  <2> HIDE DEF s, t
  <2>5. p.column \in Nat /\ Across(i, p) \in Nat
    BY <2>1
  <2>q. QED
    BY <2>1, <2>2, <2>4, <2>5, ProductNatural
<1>3. << x, y >> \in Block(ShapeAt(i, p), i, p.tile, k)
        <=> /\ x \in (a + at[1]) .. ((a + at[1]) + step[1] - 1)
            /\ y \in (b + at[2]) .. ((b + at[2]) + step[2] - 1)
  <2>1. Block(ShapeAt(i, p), i, p.tile, k)
          = ((a + at[1]) .. ((a + at[1]) + step[1] - 1))
              \X ((b + at[2]) .. ((b + at[2]) + step[2] - 1))
    BY <1>1 DEF Block
  <2> HIDE DEF a, b, at, step
  <2>q. QED
    BY <2>1
<1>4. InBlock(i, p, n, x, y)
        <=> \E d \in 0 .. s - 1, e \in 0 .. t - 1 :
              /\ OneOfGroup(i, n) => d = Nth(i, n)
              /\ x = a + (u + d)
              /\ y = b + (v + e)
  BY DEF InBlock
<1>5. CASE OneOfGroup(i, n)
  <2>1. Nth(i, n) \in {0, 1} /\ StepOf(i, p.part) = << 2, 1 >> /\ s = 2 /\ t = 1
        /\ at = << ShapeAt(i, p).at[1] + Nth(i, n), ShapeAt(i, p).at[2] >>
    BY <1>5, LumaPixel
  <2>2. ShapeAt(i, p).at = << u, v >>
    BY ColumnPixel
  <2>3. step = << 1, 1 >>
    BY <1>5, SampleSteps
  <2>4. at[1] = u + Nth(i, n) /\ at[2] = v /\ step[1] = 1 /\ step[2] = 1
    BY <2>1, <2>2, <2>3
  <2> DEFINE m == Nth(i, n)
  <2>5. m \in {0, 1}
    BY <2>1
  <2> HIDE DEF a, b, u, v, at, step, s, t, m
  <2>6. /\ x \in (a + at[1]) .. ((a + at[1]) + step[1] - 1)
           <=> x = a + (u + m)
        /\ y \in (b + at[2]) .. ((b + at[2]) + step[2] - 1)
           <=> y = b + (v + 0)
    BY <1>2, <2>4, <2>5 DEF m
  <2>7. (\E d \in 0 .. s - 1, e \in 0 .. t - 1 :
           d = m /\ x = a + (u + d) /\ y = b + (v + e))
         <=> x = a + (u + m) /\ y = b + (v + 0)
    BY <2>1, <2>5 DEF m
  <2>q. QED
    BY <1>3, <1>4, <1>5, <2>6, <2>7 DEF m
<1>6. CASE ~OneOfGroup(i, n)
  <2>1. step = StepOf(i, p.part)
    BY <1>6, SampleSteps
  <2>2. at = ShapeAt(i, p).at
    BY <1>1, <1>6 DEF SampleAt, OneOfGroup
  <2>3. at[1] = u /\ at[2] = v /\ step[1] = s /\ step[2] = t
    BY <2>1, <2>2, ColumnPixel
  <2> HIDE DEF a, b, u, v, at, step, s, t
  <2>5. x \in (a + at[1]) .. ((a + at[1]) + step[1] - 1)
          <=> \E d \in 0 .. s - 1 : x = a + (u + d)
    <3>1. x \in (a + u) .. ((a + u) + s - 1)
            <=> \E d \in 0 .. s - 1 : x = a + (u + d)
      <4>1. (a + u) .. ((a + u) + s - 1) = {a + (u + f) : f \in 0 .. s - 1}
        <5>1. s \in Nat /\ a \in Nat /\ u \in Nat
          BY <1>2
        <5>q. QED
          BY <5>1, ShiftedRange
      <4>q. QED
        BY <4>1, Zenon
    <3>2. at[1] = u /\ step[1] = s
      BY <2>3
    <3>q. QED
      BY <3>1, <3>2
  <2>6. y \in (b + at[2]) .. ((b + at[2]) + step[2] - 1)
          <=> \E e \in 0 .. t - 1 : y = b + (v + e)
    <3>1. y \in (b + v) .. ((b + v) + t - 1)
            <=> \E e \in 0 .. t - 1 : y = b + (v + e)
      <4>1. (b + v) .. ((b + v) + t - 1) = {b + (v + f) : f \in 0 .. t - 1}
        <5>1. t \in Nat /\ b \in Nat /\ v \in Nat
          BY <1>2
        <5>q. QED
          BY <5>1, ShiftedRange
      <4>q. QED
        BY <4>1, Zenon
    <3>2. at[2] = v /\ step[2] = t
      BY <2>3
    <3>q. QED
      BY <3>1, <3>2
  <2>q. QED
    BY <1>3, <1>4, <1>6, <2>5, <2>6
<1>q. QED
  BY <1>5, <1>6

\* They are pixels of the column,
LEMMA BlockCovers ==
    ASSUME NEW i, Supported(i), NEW p, InLoops(i, p), NEW k, NEW n,
           IsComponent(i, p, k, n), Specs(i)[n].role \in Channels, NEW x, NEW y,
           << x, y >> \in Block(ShapeAt(i, p), i, p.tile, k)
    PROVE  Covers(i, p, n, x, y)
<1> DEFINE s == StepOf(i, p.part)[1]
<1>1. PICK d \in 0 .. StepOf(i, p.part)[1] - 1, e \in 0 .. StepOf(i, p.part)[2] - 1 :
        /\ OneOfGroup(i, n) => d = Nth(i, n)
        /\ x = (p.tile % i.cols) * TileWidth(i) + (p.column * StepOf(i, p.part)[1] + d)
        /\ y = (p.tile \div i.cols) * TileHeight(i)
                 + (Across(i, p) * StepOf(i, p.part)[2] + e)
  BY BlockPixels DEF InBlock
<1>2. /\ x \in Nat /\ y \in Nat
      /\ Tile(i, x, y) = p.tile
      /\ (x % TileWidth(i)) \div StepOf(i, p.part)[1] = p.column
      /\ (y % TileHeight(i)) \div StepOf(i, p.part)[2] = Across(i, p)
      /\ (x % TileWidth(i)) % StepOf(i, p.part)[1] = d
      /\ x % TileWidth(i) \in Nat
  BY <1>1, StepPixel
<1>3. ASSUME OneOfGroup(i, n)
      PROVE  x % 2 = Nth(i, n)
  <2>1. s = 2
    BY <1>3, LumaPixel
  <2>2. (x % TileWidth(i)) % 2 = Nth(i, n)
    BY <1>1, <1>2, <1>3, <2>1
  <2>3. TileWidth(i) = 2 * (TileWidth(i) \div 2) /\ TileWidth(i) \in Nat \ {0}
        /\ TileWidth(i) \div 2 \in Nat
    BY <2>1, ColumnWithin, TilesWhole
  <2>4. x % 2 = (x % TileWidth(i)) % 2
    BY <1>2, <2>3, EvenTile
  <2>q. QED
    BY <2>2, <2>4
<1>q. QED
  BY <1>2, <1>3 DEF Covers

\* and all of these that the image has.
LEMMA CoversBlock ==
    ASSUME NEW i, Supported(i), NEW p, InLoops(i, p), NEW k, NEW n,
           IsComponent(i, p, k, n), Specs(i)[n].role \in Channels,
           NEW x \in 0 .. i.width - 1, NEW y \in 0 .. i.height - 1,
           Covers(i, p, n, x, y)
    PROVE  << x, y >> \in Block(ShapeAt(i, p), i, p.tile, k)
<1> DEFINE s == StepOf(i, p.part)[1]
           t == StepOf(i, p.part)[2]
           u == x % TileWidth(i)
           v == y % TileHeight(i)
<1>1. /\ Tile(i, x, y) = p.tile /\ u \div s = p.column /\ v \div t = Across(i, p)
      /\ OneOfGroup(i, n) => x % 2 = Nth(i, n)
      /\ x \in Nat /\ y \in Nat
  BY DEF Covers
<1>2. /\ u \in 0 .. TileWidth(i) - 1 /\ v \in 0 .. TileHeight(i) - 1
      /\ x = (p.tile % i.cols) * TileWidth(i) + u
      /\ y = (p.tile \div i.cols) * TileHeight(i) + v
  BY <1>1, PixelTile
<1>3. s \in Nat \ {0} /\ t \in Nat \ {0}
  BY ColumnWithin
<1>4. ASSUME OneOfGroup(i, n)
      PROVE  u % s = Nth(i, n)
  <2>1. s = 2
    BY <1>4, LumaPixel
  <2>3. TileWidth(i) = 2 * (TileWidth(i) \div 2) /\ TileWidth(i) \in Nat \ {0}
        /\ TileWidth(i) \div 2 \in Nat
    BY <2>1, ColumnWithin, TilesWhole
  <2>4. x % 2 = (x % TileWidth(i)) % 2
    BY <1>1, <2>3, EvenTile
  <2>q. QED
    BY <1>1, <1>4, <2>1, <2>4
<1> HIDE DEF s, t, u, v
<1>5. u \in Nat /\ v \in Nat
  BY <1>2
<1> DEFINE d == u % s
           e == v % t
<1>6. /\ d \in 0 .. s - 1 /\ u = s * p.column + d
      /\ e \in 0 .. t - 1 /\ v = t * Across(i, p) + e
  BY <1>1, <1>3, <1>5, Splits
<1>7. s * p.column = p.column * s /\ t * Across(i, p) = Across(i, p) * t
  <2>1. p.column \in Int /\ Across(i, p) \in Int
    BY ColumnWithin
  <2>q. QED
    BY <1>3, <2>1, Distributes
<1>8. /\ OneOfGroup(i, n) => d = Nth(i, n)
      /\ x = (p.tile % i.cols) * TileWidth(i) + (p.column * s + d)
      /\ y = (p.tile \div i.cols) * TileHeight(i) + (Across(i, p) * t + e)
  BY <1>2, <1>4, <1>6, <1>7
<1> HIDE DEF d, e
<1>9. InBlock(i, p, n, x, y)
  BY <1>6, <1>8 DEF InBlock, s, t
<1>q. QED
  BY <1>9, BlockPixels

(***************************************************************************)
(* The bit that the reader is at is the one that the layout gives.         *)
(***************************************************************************)
\* The sum of the numbers before one of a sequence.
LEMMA SumBefore ==
    ASSUME NEW c \in Nat, NEW e, e = [j \in 1 .. c |-> e[j]], NEW k \in 1 .. c
    PROVE  Sum(Before(e, k)) = Upto(e, k - 1)
<1> DEFINE f == [j \in 1 .. k - 1 |-> e[j]]
<1>1. k - 1 \in Nat /\ k \in Nat /\ k <= c
  OBVIOUS
<1>2. Before(e, k) = f
  <2> DEFINE g == [j \in 1 .. c |-> e[j]]
  <2>1. SubSeq(g, 1, k - 1) = [j \in 1 .. k - 1 |-> g[j]]
    BY <1>1
  <2>2. \A j \in 1 .. k - 1 : j \in 1 .. c
    BY <1>1
  <2>3. \A j \in 1 .. k - 1 : g[j] = e[j]
    BY <2>2
  <2>4. e = g
    OBVIOUS
  <2>5. Before(e, k) = SubSeq(e, 1, k - 1)
    BY DEF Before
  <2> HIDE DEF g
  <2>q. QED
    BY <2>1, <2>3, <2>4, <2>5
<1>3. DOMAIN f = 1 .. k - 1 /\ \A j \in 1 .. k - 1 : f[j] = e[j]
  OBVIOUS
<1> HIDE DEF f
<1>4. Sum(f) = Upto(f, k - 1)
  BY <1>1, <1>3, SumIsUpto
<1>5. Upto(f, k - 1) = Upto(e, k - 1)
  BY <1>1, <1>3, UptoAgrees
<1>q. QED
  BY <1>2, <1>4, <1>5

\* The bits of a sample that is alone in its column.
LEMMA AloneInGroup ==
    ASSUME NEW spec \in RealSpecs, NEW m \in Nat, NEW x \in Nat
    PROVE  InGroup(<< spec >>, 8 * m + SampleBits(spec) * x, 1)
             = BitsFrom(8 * m + SampleBits(spec) * x, spec)
<1> DEFINE b == 8 * m + SampleBits(spec) * x
           group == << spec >>
<1>1. /\ group \in Seq(ComponentSpecs) /\ spec \in ComponentSpecs
      /\ SampleBits(spec) \in Nat /\ (spec.align # 0 => SampleBits(spec) % 8 = 0)
  BY OneSpec, SampleFacts
<1>2. b \in Nat
  BY <1>1, ProductNatural
<1>3. GroupEndBit(Before(group, 1), b) = b
  <2>1. group[1] = spec /\ Before(group, 1) = SubSeq(group, 1, 0)
    BY DEF Before
  <2> HIDE DEF group, b
  <2>2. EndUpto(group, b, 0) = b
    BY <1>1, <1>2, EndSteps
  <2>q. QED
    BY <2>1, <2>2 DEF EndUpto
<1>4. ASSUME spec.align # 0
      PROVE  ToByte(b) = b
  <2> DEFINE q == SampleBits(spec) \div 8
  <2>1. q \in Nat /\ SampleBits(spec) = 8 * q
    BY <1>1, <1>4
  <2> HIDE DEF q
  <2>2. SampleBits(spec) * x = 8 * (q * x) /\ q * x \in Nat
    BY <2>1, Distributes, ProductNatural
  <2> DEFINE a == q * x
  <2>3. b = 8 * (m + a) /\ a \in Nat
    BY <2>2
  <2> HIDE DEF a, b
  <2>4. CeilDiv(8 * (m + a), 8) = m + a
    BY <2>3, ByteAlign
  <2>q. QED
    BY <1>2, <2>3, <2>4, ByteAlign
<1>5. group[1] = spec
  OBVIOUS
<1> HIDE DEF group, b
<1>6. InGroup(group, b, 1) = BitsFrom(b, spec)
  BY <1>3, <1>4, <1>5 DEF InGroup
<1>q. QED
  BY <1>6 DEF group, b

\* Components one after the other, in each tile.
LEMMA ComponentPlace ==
    ASSUME NEW i, Supported(i), ByComponent(i), NEW p, InLoops(i, p)
    PROVE  /\ p.part + 1 \in 1 .. Len(Specs(i))
           /\ Specs(i)[p.part + 1] \in RealSpecs
           /\ GroupOf(i, p.part, p.line) = << Specs(i)[p.part + 1] >>
           /\ LineByte(i, p) = TileStart(i, p.tile) + Upto(PartSizes(i), p.part)
                                 + RowBytes(i, Specs(i)[p.part + 1]) * p.line
           /\ Place(i, p) = 8 * LineByte(i, p)
                              + SampleBits(Specs(i)[p.part + 1]) * p.column
           /\ LineByte(i, p) \in Nat
           /\ Sum(Before(PartSizes(i), p.part + 1)) = Upto(PartSizes(i), p.part)
<1> DEFINE n == p.part + 1
           spec == Specs(i)[n]
<1>0. p.part \in 0 .. Parts(i) - 1 /\ LineByte(i, p) \in Nat /\ p.column \in Nat
      /\ Parts(i) \in Nat /\ p.line \in Nat
  BY PlaceFacts DEF InLoops, TileLaid
<1>n. i.pixelSize = 0 /\ ~Mixed(i) /\ ~ByRow(i)
  BY KindsApart
<1>1. n \in 1 .. Len(Specs(i)) /\ \A line : LineBytes(i, p.part, line) = RowBytes(i, spec)
  BY <1>0, ComponentLine
<1>2. spec \in RealSpecs /\ spec \in ComponentSpecs
  BY <1>1, SpecsReal
<1>3. GroupOf(i, p.part, p.line) = << spec >>
  BY DEF GroupOf
<1>4. LineByte(i, p) = TileStart(i, p.tile) + Upto(PartSizes(i), p.part)
                         + RowBytes(i, spec) * p.line
  BY <1>1, <1>n DEF LineByte, PartStart, LineStart
<1>5. Place(i, p) = 8 * LineByte(i, p) + SampleBits(spec) * p.column
  <2>1. GroupRunBits(<< spec >>, p.column) = SampleBits(spec) * p.column
    BY <1>0, <1>2, RunOfOne
  <2>q. QED
    BY <1>3, <1>n, <2>1 DEF Place, ColumnBits
<1>6. Sum(Before(PartSizes(i), n)) = Upto(PartSizes(i), p.part)
  <2> DEFINE e == PartSizes(i)
             c == Len(Specs(i))
  <2>1. e = [j \in 1 .. c |-> e[j]]
    BY DEF PartSizes, ComponentTileSizes
  <2>2. c \in Nat /\ n - 1 = p.part
    BY <1>0, SpecsReal
  <2> HIDE DEF e, c
  <2>3. n \in 1 .. c
    BY <1>1 DEF c
  <2> HIDE DEF n
  <2>4. Sum(Before(e, n)) = Upto(e, n - 1)
    BY <2>1, <2>2, <2>3, SumBefore
  <2>q. QED
    BY <2>2, <2>4 DEF e
<1>q. QED
  BY <1>0, <1>1, <1>2, <1>3, <1>4, <1>5, <1>6

\* So the samples of a component are read where the layout has them.
LEMMA ComponentSpan ==
    ASSUME NEW i, Supported(i), ByComponent(i), ~ByTile(i), NEW p, InLoops(i, p),
           NEW u, u \div StepOf(i, p.part)[1] = p.column,
           NEW v, v \div StepOf(i, p.part)[2] = p.line
    PROVE  InGroup(GroupOf(i, p.part, p.line), Place(i, p), 1)
             = ComponentAddress(i, p.part + 1, p.tile, u, v)
<1> DEFINE n == p.part + 1
           spec == Specs(i)[n]
           e == PartSizes(i)
<1>1. /\ spec \in RealSpecs
      /\ GroupOf(i, p.part, p.line) = << spec >>
      /\ LineByte(i, p) = TileStart(i, p.tile) + Upto(e, p.part) + RowBytes(i, spec) * p.line
      /\ Place(i, p) = 8 * LineByte(i, p) + SampleBits(spec) * p.column
      /\ LineByte(i, p) \in Nat
      /\ Sum(Before(e, n)) = Upto(e, p.part)
  BY ComponentPlace
<1>2. InGroup(GroupOf(i, p.part, p.line), Place(i, p), 1) = BitsFrom(Place(i, p), spec)
  <2>1. p.column \in Nat
    BY DEF InLoops
  <2> HIDE DEF spec
  <2>q. QED
    BY <1>1, <2>1, AloneInGroup
<1>3. StepOf(i, p.part) = Step(i, spec.role)
  BY DEF StepOf
<1>4. TileStart(i, p.tile) = TileBytes(i) * p.tile
  BY DEF TileStart
<1>5. ComponentAddress(i, n, p.tile, u, v)
        = BitsFrom(8 * ((TileBytes(i) * p.tile + Sum(Before(e, n)))
                          + RowBytes(i, spec) * (v \div Step(i, spec.role)[2]))
                     + SampleBits(spec) * (u \div Step(i, spec.role)[1]), spec)
  <2>1. InterleaveType(i) # "tileComponent" /\ e = ComponentTileSizes(i, 0)
    BY DEF ByTile, PartSizes
  <2>q. QED
    BY <2>1 DEF ComponentAddress
<1> HIDE DEF n, spec, e
<1>6. ComponentAddress(i, n, p.tile, u, v) = BitsFrom(Place(i, p), spec)
  BY <1>1, <1>3, <1>4, <1>5
<1>q. QED
  BY <1>2, <1>6 DEF n

\* A tile of components of their own is read from its slices: the bit of a slice
\* is as far into the component's bytes of the tile as it is into the slice.
LEMMA GatheredBit ==
    ASSUME NEW i, Supported(i), ByTile(i), NEW n \in 1 .. Len(Specs(i)),
           NEW tile \in Nat, NEW bit \in Nat,
           8 * Upto(Slices(i), n - 1) <= bit,
           bit < 8 * (Upto(Slices(i), n - 1) + Slices(i)[n])
    PROVE  /\ Slices(i)[n] \in Nat /\ Upto(Slices(i), n - 1) \in Nat /\ TileCount(i) \in Nat
           /\ Gathered(i, tile, bit)
                = bit + 8 * (Upto(Slices(i), n - 1) * TileCount(i)
                               + Slices(i)[n] * tile - Upto(Slices(i), n - 1))
<1> DEFINE e == Slices(i)
           c == Len(Specs(i))
           byte == bit \div 8
           start(k) == Sum(Before(e, k))
           Holds(k) == start(k) <= byte /\ byte < start(k) + e[k]
           a == Upto(e, n - 1)
<1>0. c \in Nat /\ e = [j \in 1 .. c |-> e[j]] /\ Len(e) = c /\ n \in 1 .. c
  BY SpecsReal DEF Slices, ComponentTileSizes
<1>1. \A k \in 1 .. c : e[k] \in Nat
  <2> SUFFICES ASSUME NEW k \in 1 .. c PROVE e[k] \in Nat
    OBVIOUS
  <2>1. ByComponent(i)
    BY KindsApart
  <2> DEFINE part == k - 1
             w == RowBytes(i, Specs(i)[part + 1]) * LinesOf(i, part)
  <2>2. Parts(i) = c
    BY <2>1 DEF Parts
  <2>3. part \in 0 .. Parts(i) - 1 /\ part + 1 = k
    BY <1>0, <2>2
  <2>4. /\ PartSizes(i)[k] = AlignUp(w, PartAlign(i))
        /\ RowBytes(i, Specs(i)[part + 1]) \in Nat /\ LinesOf(i, part) \in Nat \ {0}
    BY <2>1, <2>3, ComponentLine
  <2>5. w \in Nat
    BY <2>4, ProductNatural
  <2>6. PartAlign(i) \in Nat
    BY TilesWhole DEF PartAlign
  <2> HIDE DEF w
  <2>7. PartSizes(i)[k] \in Nat
    BY <2>4, <2>5, <2>6, AlignNatural
  <2>q. QED
    BY <2>7 DEF PartSizes, Slices
<1> HIDE DEF e, c
<1>2. /\ \A k \in 0 .. c : Upto(e, k) \in Nat
      /\ \A k \in 1 .. c : Upto(e, k) = Upto(e, k - 1) + e[k]
      /\ \A k \in 0 .. c : \A m \in 0 .. k : Upto(e, m) <= Upto(e, k)
  BY <1>0, <1>1, UptoFacts
<1>3. \A k \in 1 .. c : start(k) = Upto(e, k - 1)
  BY <1>0, SumBefore
<1>4. a \in Nat /\ e[n] \in Nat
  <2>1. n - 1 \in 0 .. c
    BY <1>0
  <2>q. QED
    BY <1>0, <1>1, <1>2, <2>1
<1>5. 8 * a <= bit /\ bit < 8 * (a + e[n])
  BY DEF e
<1> HIDE DEF a
<1>6. byte \in Nat /\ bit = 8 * byte + (bit % 8) /\ bit % 8 \in 0 .. 7
      /\ a <= byte /\ byte < a + e[n]
  BY <1>4, <1>5
<1> HIDE DEF byte
<1>7. Holds(n)
  BY <1>0, <1>3, <1>6 DEF a
<1>8. ASSUME NEW k \in 1 .. c, Holds(k)
      PROVE  k = n
  <2>1. /\ Upto(e, k - 1) <= byte /\ byte < Upto(e, k - 1) + e[k]
        /\ Upto(e, n - 1) <= byte /\ byte < Upto(e, n - 1) + e[n]
    BY <1>0, <1>3, <1>7, <1>8
  <2> HIDE DEF Holds, start
  <2>2. ASSUME NEW j \in 1 .. c, NEW m \in 1 .. c, j < m
        PROVE  Upto(e, j - 1) + e[j] <= Upto(e, m - 1)
    <3>1. j \in 0 .. m - 1 /\ m - 1 \in 0 .. c
      BY <1>0, <2>2
    <3>2. Upto(e, j) <= Upto(e, m - 1)
      BY <1>2, <3>1
    <3>q. QED
      BY <1>2, <3>2
  <2>3. /\ Upto(e, k - 1) \in Nat /\ Upto(e, n - 1) \in Nat
        /\ e[k] \in Nat /\ e[n] \in Nat
    <3>1. k - 1 \in 0 .. c /\ n - 1 \in 0 .. c
      BY <1>0
    <3>q. QED
      BY <1>0, <1>1, <1>2, <3>1
  <2>4. ~(k < n)
    <3> SUFFICES ASSUME k < n PROVE FALSE
      OBVIOUS
    <3>1. Upto(e, k - 1) + e[k] <= Upto(e, n - 1)
      BY <1>0, <2>2
    <3>q. QED
      BY <1>6, <2>1, <2>3, <3>1
  <2>5. ~(n < k)
    <3> SUFFICES ASSUME n < k PROVE FALSE
      OBVIOUS
    <3>1. Upto(e, n - 1) + e[n] <= Upto(e, k - 1)
      BY <1>0, <2>2
    <3>q. QED
      BY <1>6, <2>1, <2>3, <3>1
  <2>6. k \in Int /\ n \in Int
    BY <1>0
  <2>q. QED
    BY <2>4, <2>5, <2>6
<1>9. (CHOOSE k \in 1 .. c : Holds(k)) = n
  <2> HIDE DEF Holds
  <2>q. QED
    BY <1>0, <1>7, <1>8
<1>10. Gathered(i, tile, bit) = 8 * (a * TileCount(i) + e[n] * tile + (byte - a)) + (bit % 8)
  <2>1. (CHOOSE k \in 1 .. Len(e) : Sum(Before(e, k)) <= byte /\ byte < Sum(Before(e, k)) + e[k])
          = n
    BY <1>0, <1>9
  <2>2. Sum(Before(e, n)) = a
    BY <1>0, <1>3 DEF a
  <2>q. QED
    BY <2>1, <2>2 DEF Gathered, e, byte
<1>11. TileCount(i) \in Nat /\ a * TileCount(i) \in Nat /\ e[n] * tile \in Nat
  BY <1>4, TilesWhole, ProductNatural
<1> DEFINE x == a * TileCount(i)
           y == e[n] * tile
<1>12. Gathered(i, tile, bit) = bit + 8 * (x + y - a)
  <2>1. x \in Nat /\ y \in Nat
    BY <1>11
  <2>2. Gathered(i, tile, bit) = 8 * (x + y + (byte - a)) + (bit % 8)
    BY <1>10
  <2> HIDE DEF x, y
  <2>q. QED
    BY <1>4, <1>6, <2>1, <2>2
<1>q. QED
  BY <1>4, <1>11, <1>12 DEF a, e

\* So the samples of such a component are read where the layout has them.
LEMMA GatheredSpan ==
    ASSUME NEW i, Supported(i), ByTile(i), NEW p, InLoops(i, p),
           NEW u, u \div StepOf(i, p.part)[1] = p.column,
           NEW v, v \div StepOf(i, p.part)[2] = p.line
    PROVE  InPayload(i, p.tile, InGroup(GroupOf(i, p.part, p.line), Place(i, p), 1))
             = ComponentAddress(i, p.part + 1, p.tile, u, v)
<1> DEFINE n == p.part + 1
           spec == Specs(i)[n]
           e == PartSizes(i)
           A == Upto(e, p.part)
           r == RowBytes(i, spec) * p.line
           s == SampleBits(spec)
           b == Place(i, p)
           k == A * TileCount(i) + e[n] * p.tile
<1>0. ByComponent(i)
  BY KindsApart
<1>1. /\ n \in 1 .. Len(Specs(i)) /\ spec \in RealSpecs
      /\ GroupOf(i, p.part, p.line) = << spec >>
      /\ LineByte(i, p) = TileStart(i, p.tile) + A + r
      /\ b = 8 * LineByte(i, p) + s * p.column
      /\ LineByte(i, p) \in Nat
      /\ Sum(Before(e, n)) = A
  BY <1>0, ComponentPlace
<1>2. InGroup(GroupOf(i, p.part, p.line), b, 1) = BitsFrom(b, spec)
  <2>1. p.column \in Nat
    BY DEF InLoops
  <2> HIDE DEF spec, n
  <2>q. QED
    BY <1>1, <2>1, AloneInGroup
<1>3. StepOf(i, p.part) = Step(i, spec.role) /\ TileStart(i, p.tile) = 0 /\ e = Slices(i)
  BY <1>0 DEF StepOf, TileStart, PartSizes, Slices
<1>4. ComponentAddress(i, n, p.tile, u, v)
        = BitsFrom(8 * ((Sum(Before(e, n)) * TileCount(i) + e[n] * p.tile)
                          + RowBytes(i, spec) * (v \div Step(i, spec.role)[2]))
                     + s * (u \div Step(i, spec.role)[1]), spec)
  <2>1. InterleaveType(i) = "tileComponent" /\ e = ComponentTileSizes(i, i.tileAlign)
    BY DEF ByTile, PartSizes
  <2>q. QED
    BY <2>1 DEF ComponentAddress
<1>5. /\ RowBytes(i, spec) \in Nat /\ p.line \in Nat /\ p.column \in Nat /\ p.part \in Nat
      /\ p.tile \in Nat /\ spec \in ComponentSpecs
  <2>1. p.part \in 0 .. Parts(i) - 1 /\ Parts(i) \in Nat
    BY PlaceFacts DEF TileLaid
  <2>q. QED
    BY <1>0, <1>1, <2>1, SpecsReal, ComponentLine DEF InLoops
<1>6. /\ s \in Nat /\ r \in Nat /\ s * p.column \in Nat /\ s * (p.column + 1) = s * p.column + s
      /\ spec.depth \in 1 .. s
  <2>1. s \in Nat /\ spec.depth \in Nat /\ spec.depth <= s /\ spec.depth >= 1
    BY <1>1, <1>5, SampleFacts DEF RealSpecs
  <2>2. r \in Nat
    BY <1>5, ProductNatural
  <2> HIDE DEF s, spec
  <2>3. s * (p.column + 1) = s * p.column + s * 1 /\ s * p.column \in Nat
    BY <1>5, <2>1, Distributes, ProductNatural
  <2>q. QED
    BY <2>1, <2>2, <2>3
<1>7. A \in Nat /\ A = Upto(e, n - 1) /\ e[n] \in Nat /\ Upto(e, n) = A + e[n]
  <2>1. p.part \in 0 .. Len(Specs(i)) /\ n - 1 = p.part /\ n \in 0 .. Len(Specs(i))
        /\ Len(Specs(i)) \in Nat
    BY SMTT(30), <1>1, <1>5, SpecsReal
  <2>2. ASSUME NEW j \in 1 .. Len(Specs(i))
        PROVE  e[j] \in Nat
    <3> DEFINE part == j - 1
               w == RowBytes(i, Specs(i)[part + 1]) * LinesOf(i, part)
    <3>1. Parts(i) = Len(Specs(i))
      BY <1>0 DEF Parts
    <3>2. part \in 0 .. Parts(i) - 1 /\ part + 1 = j
      BY <2>1, <3>1
    <3>3. /\ e[j] = AlignUp(w, PartAlign(i))
          /\ RowBytes(i, Specs(i)[part + 1]) \in Nat /\ LinesOf(i, part) \in Nat \ {0}
      BY <1>0, <3>2, ComponentLine
    <3>4. w \in Nat /\ PartAlign(i) \in Nat
      BY <3>3, ProductNatural, TilesWhole DEF PartAlign
    <3> HIDE DEF w, e
    <3>q. QED
      BY <3>3, <3>4, AlignNatural
  <2> HIDE DEF e
  <2>3. /\ \A m \in 0 .. Len(Specs(i)) : Upto(e, m) \in Nat
        /\ \A m \in 1 .. Len(Specs(i)) : Upto(e, m) = Upto(e, m - 1) + e[m]
    BY <2>1, <2>2, UptoFacts
  <2>q. QED
    BY <1>1, <2>1, <2>2, <2>3
<1>8. b + s <= 8 * (A + e[n])
  <2>1. /\ LineByte(i, p) + LineBytes(i, p.part, p.line)
             <= TileStart(i, p.tile) + PartStart(i, NextPart(i, p.part))
        /\ LineBytes(i, p.part, p.line) \in Nat
        /\ p.column \in 0 .. ColumnsOf(i, p.part) - 1
        /\ ColumnsOf(i, p.part) \in Nat
    BY PlaceFacts DEF PartLaid
  <2>2. NextPart(i, p.part) = n /\ PartStart(i, n) = Upto(e, n) /\ i.pixelSize = 0
    BY <1>0, KindsApart DEF NextPart, PartStart
  <2>3. p.column + 1 \in 0 .. ColumnsOf(i, p.part) /\ p.column + 1 \in Nat
    BY <1>5, <2>1
  <2>4. /\ ColumnBits(i, << spec >>, p.column + 1) <= LineBits(i, p.part, p.line)
        /\ LineBits(i, p.part, p.line) <= 8 * LineBytes(i, p.part, p.line)
        /\ LineBits(i, p.part, p.line) \in Nat
    BY <1>1, <2>3, ColumnFits
  <2>5. ColumnBits(i, << spec >>, p.column + 1) = s * (p.column + 1)
    <3>1. GroupRunBits(<< spec >>, p.column + 1) = s * (p.column + 1)
      BY <1>5, <2>3, RunOfOne
    <3>q. QED
      BY <2>2, <3>1 DEF ColumnBits
  <2> DEFINE w == s * p.column
             l == LineByte(i, p)
             m == LineBytes(i, p.part, p.line)
             x == LineBits(i, p.part, p.line)
  <2>6. b = 8 * l + w /\ w \in Nat /\ l \in Nat /\ s \in Nat /\ m \in Nat /\ x \in Nat
    BY <1>1, <1>6, <2>1, <2>4
  <2>7. w + s <= x /\ x <= 8 * m
    BY <1>6, <2>4, <2>5
  <2>8. l + m <= A + e[n] /\ A + e[n] \in Nat
    <3>1. A + e[n] \in Nat
      BY <1>7
    <3>2. TileStart(i, p.tile) + PartStart(i, NextPart(i, p.part)) = A + e[n]
      BY <1>3, <1>7, <2>2
    <3>q. QED
      BY <2>1, <3>1, <3>2
  <2> DEFINE z == A + e[n]
  <2> HIDE DEF s, b, w, l, m, x, z
  <2>9. b + s <= 8 * z
    <3>1. z \in Nat /\ l + m <= z
      BY <2>8 DEF z
    <3>q. QED
      BY <2>6, <2>7, <3>1
  <2>q. QED
    BY <2>9 DEF z
<1> DEFINE bits == {b + s - spec.depth, b + s - 1}
<1>9. b = 8 * (A + r) + s * p.column /\ b \in Nat
  <2> HIDE DEF spec, s, e, n, A, b, r
  <2>1. b = 8 * (0 + A + r) + s * p.column
    BY <1>1, <1>3
  <2>q. QED
    BY <1>6, <1>7, <2>1
<1>10. ASSUME NEW bit \in bits
       PROVE  Gathered(i, p.tile, bit) = bit + 8 * (k - A) /\ bit \in Nat
  <2>1. bit \in Nat /\ 8 * A <= bit /\ bit < 8 * (A + e[n])
    <3> DEFINE d == spec.depth
    <3>1. d \in 1 .. s /\ (bit = b + s - d \/ bit = b + s - 1)
      BY <1>6
    <3> HIDE DEF d, s, A, b, r, e, n
    <3>q. QED
      BY <1>6, <1>7, <1>8, <1>9, <3>1
  <2>2. /\ Slices(i)[n] = e[n] /\ Upto(Slices(i), n - 1) = A
    BY <1>3, <1>7
  <2>3. 8 * Upto(Slices(i), n - 1) <= bit /\ bit < 8 * (Upto(Slices(i), n - 1) + Slices(i)[n])
    BY <2>1, <2>2
  <2>4. n \in 1 .. Len(Specs(i)) /\ p.tile \in Nat
    BY <1>1, <1>5
  <2> HIDE DEF n, e, A
  <2>5. Gathered(i, p.tile, bit)
          = bit + 8 * (Upto(Slices(i), n - 1) * TileCount(i)
                         + Slices(i)[n] * p.tile - Upto(Slices(i), n - 1))
    BY <2>1, <2>3, <2>4, GatheredBit
  <2>6. Upto(Slices(i), n - 1) * TileCount(i) + Slices(i)[n] * p.tile - Upto(Slices(i), n - 1)
          = k - A
    <3> DEFINE f(x, y) == x * TileCount(i) + y * p.tile - x
    <3>1. f(A, e[n]) = k - A
      <4> DEFINE x == A * TileCount(i)
                 y == e[n] * p.tile
      <4>1. x \in Nat /\ y \in Nat
        BY <1>5, <1>7, TilesWhole, ProductNatural
      <4>2. f(A, e[n]) = x + y - A /\ k = x + y
        OBVIOUS
      <4> HIDE DEF x, y, k, f
      <4>q. QED
        BY <1>7, <4>1, <4>2
    <3> HIDE DEF f
    <3>2. f(Upto(Slices(i), n - 1), Slices(i)[n]) = f(A, e[n])
      BY <2>2
    <3>q. QED
      BY <3>1, <3>2 DEF f
  <2> HIDE DEF k
  <2>7. Gathered(i, p.tile, bit) = bit + 8 * (k - A)
    BY <2>5, <2>6
  <2>q. QED
    BY <2>1, <2>7
<1>11. k \in Nat
  <2>1. TileCount(i) \in Nat
    BY TilesWhole
  <2> HIDE DEF A, e, n
  <2>q. QED
    BY <1>5, <1>7, <2>1, ProductNatural
<1>12. InPayload(i, p.tile, BitsFrom(b, spec))
         = << (b + s - spec.depth) + 8 * (k - A), (b + s - 1) + 8 * (k - A) >>
  <2>1. BitsFrom(b, spec) = << b + s - spec.depth, b + s - 1 >>
    BY DEF BitsFrom
  <2>2. InPayload(i, p.tile, BitsFrom(b, spec))
          = << Gathered(i, p.tile, b + s - spec.depth), Gathered(i, p.tile, b + s - 1) >>
    <3>1. InterleaveType(i) = "tileComponent"
      BY DEF ByTile
    <3> HIDE DEF b, s
    <3>q. QED
      BY <2>1, <3>1 DEF InPayload
  <2>3. b + s - spec.depth \in bits /\ b + s - 1 \in bits
    OBVIOUS
  <2> HIDE DEF k, bits, b, s, spec, A
  <2>q. QED
    BY <1>10, <2>2, <2>3
<1>13. ComponentAddress(i, n, p.tile, u, v)
         = << (8 * (k + r) + s * p.column) + s - spec.depth,
              (8 * (k + r) + s * p.column) + s - 1 >>
  <2>1. ComponentAddress(i, n, p.tile, u, v) = BitsFrom(8 * (k + r) + s * p.column, spec)
    BY <1>1, <1>3, <1>4
  <2> HIDE DEF k, r
  <2>q. QED
    BY <2>1 DEF BitsFrom
<1> DEFINE d == spec.depth
           w == s * p.column
<1>14. d \in 1 .. s /\ w \in Nat
  BY <1>6
<1>15. /\ (b + s - d) + 8 * (k - A) = (8 * (k + r) + w) + s - d
       /\ (b + s - 1) + 8 * (k - A) = (8 * (k + r) + w) + s - 1
  <2>0. /\ s \in Nat /\ r \in Nat /\ A \in Nat /\ k \in Nat /\ d \in Int /\ w \in Nat
        /\ b \in Nat
    BY <1>6, <1>7, <1>9, <1>11, <1>14
  <2>1. b = 8 * (A + r) + w
    BY <1>9
  <2> HIDE DEF b, s, k, A, r, w, d
  <2>q. QED
    BY <2>0, <2>1
<1>q. QED
  BY <1>2, <1>12, <1>13, <1>15

\* The rows of a tile, one of each component.
LEMMA RowSpan ==
    ASSUME NEW i, Supported(i), ByRow(i), NEW p, InLoops(i, p)
    PROVE  InGroup(GroupOf(i, p.part, p.line), Place(i, p), 1)
             = RowAddress(i, p.line + 1, p.tile, p.column, p.part)
<1> DEFINE n == p.line + 1
           c == Len(Specs(i))
           spec == Specs(i)[n]
           e == RowSizes(i)
<1>n. ~ByComponent(i) /\ ~Mixed(i) /\ ~ByTile(i) /\ i.pixelSize = 0
  BY KindsApart
<1>0. c \in Nat /\ p.line \in 0 .. LinesOf(i, p.part) - 1 /\ p.column \in Nat
      /\ LineByte(i, p) \in Nat
  BY SpecsReal, PlaceFacts DEF InLoops
<1>1. LinesOf(i, p.part) = c
  BY DEF LinesOf
<1>2. n \in 1 .. c /\ n - 1 = p.line
  BY <1>0, <1>1
<1>3. spec \in RealSpecs /\ spec \in ComponentSpecs
  BY <1>2, SpecsReal
<1>4. GroupOf(i, p.part, p.line) = << spec >>
  BY <1>n DEF GroupOf
<1>5. Place(i, p) = 8 * LineByte(i, p) + SampleBits(spec) * p.column
  <2>1. GroupRunBits(<< spec >>, p.column) = SampleBits(spec) * p.column
    BY <1>0, <1>3, RunOfOne
  <2>q. QED
    BY <1>4, <1>n, <2>1 DEF Place, ColumnBits
<1>6. LineByte(i, p) = TileBytes(i) * p.tile + Upto(e, c) * p.part + Upto(e, p.line)
  BY <1>n DEF LineByte, TileStart, PartStart, LineStart
<1>7. Sum(e) = Upto(e, c) /\ Sum(Before(e, n)) = Upto(e, p.line)
  <2>1. e = [j \in 1 .. c |-> e[j]] /\ DOMAIN e = 1 .. c
    BY DEF RowSizes
  <2> HIDE DEF e, c
  <2>2. Sum(e) = Upto(e, c)
    BY <1>0, <2>1, SumIsUpto
  <2> HIDE DEF n
  <2>3. Sum(Before(e, n)) = Upto(e, n - 1)
    BY <1>0, <1>2, <2>1, SumBefore
  <2>q. QED
    BY <1>2, <2>2, <2>3
<1>8. InGroup(<< spec >>, Place(i, p), 1) = BitsFrom(Place(i, p), spec)
  <2> HIDE DEF spec
  <2>q. QED
    BY <1>0, <1>3, <1>5, AloneInGroup
<1>9. RowAddress(i, n, p.tile, p.column, p.part)
        = BitsFrom(8 * (TileBytes(i) * p.tile + Sum(e) * p.part + Sum(Before(e, n)))
                     + SampleBits(spec) * p.column, spec)
  BY DEF RowAddress, RowSizes
<1> HIDE DEF n, spec, e, c
<1>10. RowAddress(i, n, p.tile, p.column, p.part) = BitsFrom(Place(i, p), spec)
  BY <1>5, <1>6, <1>7, <1>9
<1>q. QED
  BY <1>4, <1>8, <1>10 DEF n

\* The groups of a line, one of all components after the other.
LEMMA GroupSpan ==
    ASSUME NEW i, Supported(i), ~(ByComponent(i) \/ Mixed(i) \/ ByRow(i)),
           NEW p, InLoops(i, p), NEW k,
           NEW u, u \div StepOf(i, p.part)[1] = p.column
    PROVE  InGroup(GroupOf(i, p.part, p.line), Place(i, p), k)
             = GroupAddress(i, k, p.tile, u, p.line)
<1>n. /\ ~ByComponent(i) /\ ~Mixed(i) /\ ~ByRow(i) /\ ~ByTile(i) /\ i.pixelSize \in Nat
  BY KindsApart, TilesWhole
<1>0. p.part = 0 /\ p.column \in Nat /\ p.line \in Nat /\ p.tile \in Nat
  <2>1. Parts(i) = 1 /\ p.part \in 0 .. Parts(i) - 1
    BY <1>n, PlaceFacts DEF Parts
  <2>q. QED
    BY <2>1 DEF InLoops
<1>1. /\ \A line : GroupOf(i, p.part, line) = Specs(i)
      /\ \A line : LineBytes(i, p.part, line) = GroupRowBytes(i)
  BY <1>n, GroupLine
<1>2. u \div ChromaStep(Sampling(i))[1] = p.column
  BY <1>n DEF StepOf
<1>3. LineByte(i, p) = TileBytes(i) * p.tile + GroupRowBytes(i) * p.line
  <2> DEFINE x == GroupRowBytes(i) * TileHeight(i)
             y == TileBytes(i) * p.tile
             z == GroupRowBytes(i) * p.line
  <2>1. x \in Nat /\ y \in Nat /\ z \in Nat
    <3>1. GroupRowBytes(i) \in Nat /\ TileHeight(i) \in Nat /\ TileBytes(i) \in Nat
      BY <1>n, GroupLine, TilesWhole, TileFits
    <3>q. QED
      BY <1>0, <3>1, ProductNatural
  <2>2. LineByte(i, p) = y + x * 0 + z
    BY <1>n, <1>0, <1>1 DEF LineByte, TileStart, PartStart, LineStart
  <2> HIDE DEF x, y, z
  <2>3. LineByte(i, p) = y + z
    BY <2>1, <2>2
  <2>q. QED
    BY <2>3 DEF y, z
<1>4. ColumnBits(i, Specs(i), p.column)
        = IF i.pixelSize = 0 THEN GroupRunBits(Specs(i), p.column)
          ELSE 8 * i.pixelSize * p.column
  <2>1. 8 * (i.pixelSize * p.column) = (8 * i.pixelSize) * p.column
    BY <1>0, <1>n, Distributes
  <2>q. QED
    BY <2>1 DEF ColumnBits
<1>5. Place(i, p) = 8 * (TileBytes(i) * p.tile + GroupRowBytes(i) * p.line)
                      + ColumnBits(i, Specs(i), p.column)
  BY <1>1, <1>3 DEF Place
<1>q. QED
  BY <1>1, <1>2, <1>4, <1>5 DEF GroupAddress

\* A pixel of a tile is in the column of a place.
InColumn(i, p, u, v) ==
  /\ u \div StepOf(i, p.part)[1] = p.column
  /\ v \div StepOf(i, p.part)[2] = Across(i, p)

\* The turns of the mixed interleaving, of which one reads both chroma components.
LEMMA MixedSpan ==
    ASSUME NEW i, Supported(i), Mixed(i), NEW p, InLoops(i, p), NEW k, NEW n,
           IsComponent(i, p, k, n), Specs(i)[n].role \in Channels,
           NEW u, NEW v, InColumn(i, p, u, v)
    PROVE  InGroup(GroupOf(i, p.part, p.line), Place(i, p), k)
             = MixedAddress(i, n, p.tile, u, v)
<1> DEFINE m == p.part + 1
           group == MixedGroup(i, m)
           e == MixedSizes(i)
           spec == Specs(i)[n]
           turn == IF spec.role \in Chroma THEN FirstChroma(i) ELSE n
           step == Step(i, spec.role)
<1>n. ~ByComponent(i) /\ ~ByRow(i) /\ ~ByTile(i) /\ i.pixelSize = 0
  BY KindsApart
<1>c. u \div StepOf(i, p.part)[1] = p.column /\ v \div StepOf(i, p.part)[2] = p.line
  BY <1>n DEF InColumn, Across
<1>0. p.part \in Nat /\ m \in 1 .. Len(Specs(i)) /\ m - 1 = p.part /\ Len(Specs(i)) \in Nat
  <2>1. Parts(i) = Len(Specs(i)) /\ p.part \in 0 .. Parts(i) - 1 /\ Len(Specs(i)) \in Nat
    BY <1>n, PlaceFacts, SpecsReal DEF Parts
  <2>q. QED
    BY <2>1
<1>1. \A line : /\ GroupOf(i, p.part, line) = group
                /\ LineBytes(i, p.part, line) = LineBytes(i, p.part, 0)
  BY <1>0, MixedLine
<1>2. turn = m /\ (k = 1 <=> n = m) /\ k \in {1, 2}
  BY DEF IsComponent
<1>3. step = StepOf(i, p.part)
  <2>1. ~OneOfGroup(i, n)
    BY DEF OneOfGroup, Mixed
  <2>q. QED
    BY <2>1, SampleSteps
<1>4. LineBytes(i, p.part, 0) = CeilDiv(GroupRunBits(group, TileWidth(i) \div step[1]), 8)
  BY <1>n, <1>1, <1>3 DEF LineBytes, LineBits, ColumnBits, ColumnsOf
<1>5. Sum([j \in 1 .. m - 1 |-> MixedGroupBytes(i, j)]) = Upto(e, p.part)
  <2> DEFINE f == [j \in 1 .. m - 1 |-> MixedGroupBytes(i, j)]
  <2>1. DOMAIN f = 1 .. p.part
    BY <1>0
  <2>2. \A j \in 1 .. p.part : f[j] = e[j]
    <3>1. \A j \in 1 .. p.part : j \in 1 .. m - 1 /\ j \in 1 .. Len(Specs(i))
      BY <1>0
    <3>q. QED
      BY <3>1 DEF MixedSizes
  <2> HIDE DEF f, e
  <2>3. Sum(f) = Upto(f, p.part)
    BY <1>0, <2>1, SumIsUpto
  <2>4. Upto(f, p.part) = Upto(e, p.part)
    BY <1>0, <2>2, UptoAgrees
  <2>q. QED
    BY <2>3, <2>4 DEF f
<1>6. Place(i, p) = 8 * (TileBytes(i) * p.tile + Upto(e, p.part)
                           + LineBytes(i, p.part, 0) * p.line)
                      + GroupRunBits(group, p.column)
  <2>1. LineByte(i, p) = TileBytes(i) * p.tile + Upto(e, p.part)
                           + LineBytes(i, p.part, 0) * p.line
    BY <1>n DEF LineByte, TileStart, PartStart, LineStart
  <2>q. QED
    BY <1>n, <1>1, <2>1 DEF Place, ColumnBits
<1>7. MixedAddress(i, n, p.tile, u, v)
        = LET rowBytes == CeilDiv(GroupRunBits(MixedGroup(i, turn),
                                               TileWidth(i) \div step[1]), 8)
              before == Sum([j \in 1 .. turn - 1 |-> MixedGroupBytes(i, j)])
              row == 8 * (TileBytes(i) * p.tile + before + rowBytes * (v \div step[2]))
          IN InGroup(MixedGroup(i, turn),
                     row + GroupRunBits(MixedGroup(i, turn), u \div step[1]),
                     IF n = turn THEN 1 ELSE 2)
  BY DEF MixedAddress
<1> HIDE DEF turn, step, e
<1>8. MixedAddress(i, n, p.tile, u, v)
        = InGroup(group, Place(i, p), IF n = m THEN 1 ELSE 2)
  BY <1>c, <1>2, <1>3, <1>4, <1>5, <1>6, <1>7
<1>9. k = IF n = m THEN 1 ELSE 2
  BY <1>2
<1>q. QED
  BY <1>1, <1>8, <1>9

\* A group of one sample.
LEMMA OneSample ==
    ASSUME NEW group, NEW spec, group = << spec >>, NEW k \in 1 .. Len(group)
    PROVE  k = 1
<1>1. Len(<< spec >>) = 1
  OBVIOUS
<1>2. k \in 1 .. 1
  BY <1>1
<1>q. QED
  BY <1>2

\* The bits that the reader finds for a pixel are those that the layout gives it.
LEMMA SpanAddress ==
    ASSUME NEW i, Supported(i), NEW p, InLoops(i, p),
           NEW k \in 1 .. Len(GroupOf(i, p.part, p.line)), NEW n,
           IsComponent(i, p, k, n), Specs(i)[n].role \in Channels,
           NEW x, NEW y, Covers(i, p, n, x, y)
    PROVE  InPayload(i, p.tile, InGroup(GroupOf(i, p.part, p.line), Place(i, p), k))
             = Address(i, Specs(i)[n].role, x, y)
<1> DEFINE role == Specs(i)[n].role
           u == x % TileWidth(i)
           v == y % TileHeight(i)
           span == InGroup(GroupOf(i, p.part, p.line), Place(i, p), k)
<1>n. /\ InterleaveType(i) \in Interleaves
      /\ ByComponent(i) => ~Mixed(i) /\ ~ByRow(i)
      /\ Mixed(i) => ~ByRow(i)
      /\ ByTile(i) => ByComponent(i)
      /\ ByRow(i) => ChromaStep(Sampling(i)) = << 1, 1 >>
      /\ ~(ByComponent(i) \/ Mixed(i) \/ ByRow(i)) => ChromaStep(Sampling(i))[2] = 1
  BY KindsApart
<1>1. /\ x \in Nat /\ y \in Nat /\ Tile(i, x, y) = p.tile
      /\ u \div StepOf(i, p.part)[1] = p.column
      /\ v \div StepOf(i, p.part)[2] = Across(i, p)
      /\ OneOfGroup(i, n) => x % 2 = Nth(i, n)
  BY DEF Covers
<1>2. n \in 1 .. Len(Specs(i)) /\ Len(Specs(i)) \in Nat
  BY SpecsReal DEF IsComponent
<1>3. ComponentFor(i, role, x) = n
  BY <1>1, <1>2, ComponentFound DEF OneOfGroup
<1>4. u \in Nat /\ v \in Nat /\ u \div 1 = u /\ v \div 1 = v
  <2>1. TileWidth(i) \in Nat \ {0} /\ TileHeight(i) \in Nat \ {0}
    BY TilesWhole
  <2>2. u \in 0 .. TileWidth(i) - 1 /\ v \in 0 .. TileHeight(i) - 1
    BY <1>1, <2>1, Splits
  <2> HIDE DEF u, v
  <2>3. u \in Nat /\ v \in Nat
    BY <2>1, <2>2
  <2>q. QED
    BY <2>3
<1> HIDE DEF u, v
<1>5. CASE ByComponent(i)
  <2>1. n = p.part + 1 /\ Across(i, p) = p.line
    BY <1>n, <1>5 DEF IsComponent, Across
  <2>2. k = 1
    <3>1. GroupOf(i, p.part, p.line) = << Specs(i)[p.part + 1] >>
      BY <1>5, ComponentPlace
    <3>q. QED
      BY <3>1, OneSample
  <2>3. CASE ByTile(i)
    <3>1. InPayload(i, p.tile, InGroup(GroupOf(i, p.part, p.line), Place(i, p), 1))
            = ComponentAddress(i, p.part + 1, p.tile, u, v)
      BY <1>1, <2>1, <2>3, GatheredSpan
    <3>2. Address(i, role, x, y) = ComponentAddress(i, n, p.tile, u, v)
      BY <1>1, <1>3, <2>3 DEF Address, ByTile, u, v
    <3>q. QED
      BY <2>1, <2>2, <3>1, <3>2
  <2>4. CASE ~ByTile(i)
    <3>1. InGroup(GroupOf(i, p.part, p.line), Place(i, p), 1)
            = ComponentAddress(i, p.part + 1, p.tile, u, v)
      BY <1>1, <1>5, <2>1, <2>4, ComponentSpan
    <3>2. Address(i, role, x, y) = ComponentAddress(i, n, p.tile, u, v)
      BY <1>1, <1>3, <1>5 DEF Address, ByComponent, u, v
    <3>3. InPayload(i, p.tile, span) = span
      BY <2>4 DEF InPayload, ByTile
    <3>q. QED
      BY <2>1, <2>2, <3>1, <3>2, <3>3
  <2>q. QED
    BY <2>3, <2>4
<1>6. CASE Mixed(i)
  <2>2. span = MixedAddress(i, n, p.tile, u, v)
    <3>1. InColumn(i, p, u, v)
      BY <1>1 DEF InColumn
    <3>q. QED
      BY <1>6, <3>1, MixedSpan
  <2>3. Address(i, role, x, y) = MixedAddress(i, n, p.tile, u, v)
    BY <1>1, <1>3, <1>6 DEF Address, Mixed, u, v
  <2>4. InPayload(i, p.tile, span) = span
    BY <1>6 DEF InPayload, Mixed
  <2>q. QED
    BY <2>2, <2>3, <2>4
<1>7. CASE ByRow(i)
  <2>1. n = p.line + 1 /\ Across(i, p) = p.part /\ StepOf(i, p.part) = << 1, 1 >>
    BY <1>n, <1>7 DEF IsComponent, Across, StepOf
  <2>2. u = p.column /\ v = p.part
    BY <1>1, <1>4, <2>1
  <2>3. k = 1
    <3>1. GroupOf(i, p.part, p.line) = << Specs(i)[p.line + 1] >>
      BY <1>n, <1>7 DEF GroupOf
    <3>q. QED
      BY <3>1, OneSample
  <2>4. span = RowAddress(i, n, p.tile, u, v)
    BY <1>7, <2>1, <2>2, <2>3, RowSpan
  <2>5. Address(i, role, x, y) = RowAddress(i, n, p.tile, u, v)
    BY <1>1, <1>3, <1>7 DEF Address, ByRow, u, v
  <2>6. InPayload(i, p.tile, span) = span
    BY <1>7 DEF InPayload, ByRow
  <2>q. QED
    BY <2>4, <2>5, <2>6
<1>8. CASE ~(ByComponent(i) \/ Mixed(i) \/ ByRow(i))
  <2>1. n = k /\ Across(i, p) = p.line /\ StepOf(i, p.part)[2] = 1
    BY <1>n, <1>8 DEF IsComponent, Across, StepOf
  <2>2. v = p.line
    BY <1>1, <1>4, <2>1
  <2>3. span = GroupAddress(i, n, p.tile, u, v)
    BY <1>1, <1>8, <2>1, <2>2, GroupSpan
  <2>4. Address(i, role, x, y) = GroupAddress(i, n, p.tile, u, v)
    <3>1. InterleaveType(i) \in {"pixel", "multiY"}
      BY <1>8, KindsApart
    <3>q. QED
      BY <1>1, <1>3, <3>1 DEF Address, u, v
  <2>5. InPayload(i, p.tile, span) = span
    BY <1>n, <1>8 DEF InPayload, ByTile
  <2>q. QED
    BY <2>3, <2>4, <2>5
<1>q. QED
  BY <1>5, <1>6, <1>7, <1>8

(***************************************************************************)
(* The loops reach every sample of every pixel.                            *)
(***************************************************************************)
\* A pixel of a tile is in one of the steps of it.
LEMMA StepWithin ==
    ASSUME NEW s \in Nat \ {0}, NEW n \in Nat, NEW w \in Nat, w = s * n,
           NEW u \in 0 .. w - 1
    PROVE  u \div s \in 0 .. n - 1
<1> DEFINE q == u \div s
<1>1. u \in Nat /\ u < s * n
  OBVIOUS
<1>2. q \in Nat /\ u % s \in 0 .. s - 1 /\ u = s * q + (u % s)
  BY <1>1, Splits
<1> HIDE DEF q
<1>3. s * q \in Nat /\ s * q <= u
  <2>1. s * q \in Nat
    BY <1>2, ProductNatural
  <2>q. QED
    BY <1>2, <2>1
<1>4. ~(n <= q)
  <2> SUFFICES ASSUME n <= q PROVE FALSE
    OBVIOUS
  <2>1. s * n <= s * q
    BY <1>2, ProductGrows
  <2>2. s * n \in Nat
    BY ProductNatural
  <2>q. QED
    BY <1>1, <1>3, <2>1, <2>2
<1>5. q \in 0 .. n - 1
  BY <1>2, <1>4
<1>q. QED
  BY <1>5 DEF q

\* A component of each role has the pixel.
LEMMA PixelComponent ==
    ASSUME NEW i, Supported(i), NEW role \in Present(i), NEW x \in Nat
    PROVE  \E n \in 1 .. Len(Specs(i)) :
             /\ Specs(i)[n].role = role
             /\ OneOfGroup(i, n) => x % 2 = Nth(i, n)
<1>1. role \in Channels /\ Positions(i, role) # {}
  BY DEF Present
<1>2. CASE InterleaveType(i) = "multiY" /\ role = "Y"
  <2>1. PICK a, b : /\ a \in Nat /\ b \in Nat /\ a < b
                    /\ Positions(i, "Y") = {a, b} /\ Nth(i, a) = 0 /\ Nth(i, b) = 1
    BY <1>2, TwoLumas
  <2>2. x % 2 = 0 \/ x % 2 = 1
    OBVIOUS
  <2>3. PICK n \in {a, b} : x % 2 = Nth(i, n)
    BY <2>1, <2>2
  <2>4. n \in Positions(i, "Y")
    BY <2>1
  <2>q. QED
    BY <1>2, <2>3, <2>4 DEF Positions
<1>3. CASE ~(InterleaveType(i) = "multiY" /\ role = "Y")
  <2>1. PICK n \in Positions(i, role) : TRUE
    BY <1>1
  <2>2. n \in 1 .. Len(Specs(i)) /\ Specs(i)[n].role = role
    BY DEF Positions
  <2>q. QED
    BY <1>3, <2>2 DEF OneOfGroup
<1>q. QED
  BY <1>2, <1>3

\* The place of the loops at a column of a line.
At(tile, part, line, column) ==
  [tile |-> tile, part |-> part, line |-> line, column |-> column]

\* The sample of component n for a pixel is the k-th of a column.
Reached(i, n, x, y) ==
  \E p, k : /\ InLoops(i, p)
            /\ k \in 1 .. Len(GroupOf(i, p.part, p.line))
            /\ IsComponent(i, p, k, n)
            /\ Covers(i, p, n, x, y)

\* A turn of the mixed interleaving reads the components that it is of.
LEMMA TurnOf ==
    ASSUME NEW i, Supported(i), Mixed(i), NEW n \in 1 .. Len(Specs(i)),
           Specs(i)[n].role \in Channels
    PROVE  \E m \in 1 .. Len(Specs(i)), k \in {1, 2} :
             /\ k \in 1 .. Len(MixedGroup(i, m))
             /\ MixedGroup(i, m) # << >>
             /\ MixedGroup(i, m)[k] = Specs(i)[n]
             /\ k = 1 <=> n = m
             /\ Specs(i)[n].role \in Chroma => FirstChroma(i) = m
             /\ k = 2 => Specs(i)[n].role \in Chroma
<1> DEFINE spec == Specs(i)[n]
           f == FirstChroma(i)
<1>1. CASE spec.role \notin Chroma
  <2>1. MixedGroup(i, n) = << spec >>
    BY <1>1 DEF MixedGroup
  <2>2. Len(<< spec >>) = 1 /\ << spec >>[1] = spec /\ << spec >> # << >>
    OBVIOUS
  <2>3. 1 \in 1 .. Len(MixedGroup(i, n)) /\ MixedGroup(i, n)[1] = spec
        /\ MixedGroup(i, n) # << >>
    BY <2>1, <2>2
  <2>4. 1 \in {1, 2} /\ 1 # 2
    OBVIOUS
  <2> HIDE DEF spec
  <2>q. QED
    BY <1>1, <2>3, <2>4 DEF spec
<1>2. CASE spec.role \in Chroma
  <2>1. /\ f \in 1 .. Len(Specs(i)) /\ Specs(i)[f].role \in Chroma
    <3>1. f \in 0 .. Len(Specs(i)) /\ f # 0
      BY <1>2, FirstChromaLeast
    <3>q. QED
      BY <3>1, FirstChromaLeast, SpecsReal
  <2> DEFINE first == Specs(i)[f]
             second == Complementary(i, first.role)
  <2>2. MixedGroup(i, f) = << first, second >>
    BY <2>1 DEF MixedGroup
  <2>3. /\ Len(<< first, second >>) = 2 /\ << first, second >>[1] = first
        /\ << first, second >>[2] = second /\ << first, second >> # << >>
    OBVIOUS
  <2>4. CASE n = f
    <3>1. /\ 1 \in 1 .. Len(MixedGroup(i, f)) /\ MixedGroup(i, f)[1] = spec
          /\ MixedGroup(i, f) # << >> /\ 1 \in {1, 2} /\ 1 # 2
      BY <2>2, <2>3, <2>4
    <3>q. QED
      BY <1>2, <2>1, <2>4, <3>1
  <2>5. CASE n # f
    <3>0. InterleaveType(i) # "multiY"
      BY DEF Mixed
    <3>1. PICK m \in 1 .. Len(Specs(i)) :
            /\ second = Specs(i)[m]
            /\ Specs(i)[m].role = IF first.role = "Cb" THEN "Cr" ELSE "Cb"
      BY <2>1, ComplementaryReal
    <3>2. Specs(i)[f].role # spec.role
      BY <2>1, <2>5, <3>0, RolesOnce
    <3>3. Specs(i)[m].role = spec.role
      BY <1>2, <2>1, <3>1, <3>2 DEF Chroma
    <3>4. m = n
      BY <3>0, <3>3, RolesOnce
    <3>5. second = spec
      BY <3>1, <3>4
    <3>6. /\ 2 \in 1 .. Len(MixedGroup(i, f)) /\ MixedGroup(i, f)[2] = spec
          /\ MixedGroup(i, f) # << >> /\ 2 \in {1, 2} /\ 1 # 2
      BY <2>2, <2>3, <3>5
    <3>q. QED
      BY <1>2, <2>1, <2>5, <3>6
  <2>q. QED
    BY <2>4, <2>5
<1>q. QED
  BY <1>1, <1>2

\* The column of a line that a pixel is in.
LEMMA PlaceReached ==
    ASSUME NEW i, Supported(i), NEW x \in 0 .. i.width - 1, NEW y \in 0 .. i.height - 1,
           NEW n, OneOfGroup(i, n) => x % 2 = Nth(i, n),
           NEW part \in Nat, part < Parts(i), Turn(i, part),
           NEW line \in Nat, line < LinesOf(i, part),
           (y % TileHeight(i)) \div StepOf(i, part)[2] = IF ByRow(i) THEN part ELSE line,
           NEW p, p = At(Tile(i, x, y), part, line,
                         (x % TileWidth(i)) \div StepOf(i, part)[1])
    PROVE  /\ InLoops(i, p) /\ Covers(i, p, n, x, y)
           /\ p.part = part /\ p.line = line
<1> DEFINE u == x % TileWidth(i)
           column == u \div StepOf(i, part)[1]
           tile == Tile(i, x, y)
<1>1. /\ i.width \in Nat /\ i.height \in Nat /\ TileCount(i) \in Nat
      /\ TileWidth(i) \in Nat
  BY TilesWhole, ProductNatural
<1>2. tile \in 0 .. TileCount(i) - 1 /\ u \in 0 .. TileWidth(i) - 1
  BY PixelTile
<1>3. column \in 0 .. ColumnsOf(i, part) - 1 /\ ColumnsOf(i, part) \in Nat
  <2> DEFINE s == StepOf(i, part)[1]
             m == TileWidth(i) \div s
             w == TileWidth(i)
  <2>1. s \in Nat \ {0} /\ m \in Nat /\ w = s * m
    BY PartSteps, StepsDivide
  <2>2. m = ColumnsOf(i, part) /\ w \in Nat /\ u \in 0 .. w - 1
    BY <1>1, <1>2 DEF ColumnsOf
  <2> HIDE DEF s, m, w, u
  <2>3. u \div s \in 0 .. m - 1
    BY <2>1, <2>2, StepWithin
  <2>q. QED
    BY <2>1, <2>2, <2>3 DEF s
<1>4. /\ p.tile = tile /\ p.part = part /\ p.line = line /\ p.column = column
      /\ p = [tile |-> tile, part |-> part, line |-> line, column |-> column]
  BY DEF At
<1>5. x \in Nat /\ y \in Nat
  BY <1>1
<1> HIDE DEF tile, column, u
<1>6. tile \in Nat /\ tile < TileCount(i) /\ column \in Nat /\ column < ColumnsOf(i, part)
  BY <1>1, <1>2, <1>3
<1>7. InLoops(i, p)
  <2>1. p \in [tile : Nat, part : Nat, line : Nat, column : Nat]
    BY <1>4, <1>6
  <2>q. QED
    BY <1>4, <1>6, <2>1 DEF InLoops
<1>8. Covers(i, p, n, x, y)
  <2>1. Across(i, p) = IF ByRow(i) THEN part ELSE line
    BY <1>4 DEF Across
  <2>q. QED
    BY <1>4, <1>5, <2>1 DEF Covers, tile, column, u
<1>q. QED
  BY <1>4, <1>7, <1>8

\* It is a line of the part.
LEMMA LineReached ==
    ASSUME NEW i, Supported(i), ~ByRow(i), NEW part, NEW y \in 0 .. i.height - 1
    PROVE  /\ (y % TileHeight(i)) \div StepOf(i, part)[2] \in Nat
           /\ (y % TileHeight(i)) \div StepOf(i, part)[2] < LinesOf(i, part)
<1> DEFINE v == y % TileHeight(i)
           s == StepOf(i, part)[2]
           h == TileHeight(i)
           m == h \div s
<1>1. 0 \in 0 .. i.width - 1
  BY TilesWhole DEF Supported, IsImage, PropertiesResolve
<1>2. v \in 0 .. h - 1
  BY <1>1, PixelTile
<1>3. s \in Nat \ {0} /\ m \in Nat /\ h = s * m /\ h \in Nat
  BY PartSteps, StepsDivide, TilesWhole
<1>4. m = LinesOf(i, part)
  BY DEF LinesOf
<1> HIDE DEF v, s, h, m
<1>5. v \div s \in 0 .. m - 1
  BY <1>2, <1>3, StepWithin
<1>6. v \div s \in Nat /\ v \div s < LinesOf(i, part)
  BY <1>3, <1>4, <1>5
<1>q. QED
  BY <1>6 DEF v, s, h

\* Every sample of every pixel is read in one of the columns.
LEMMA PixelReached ==
    ASSUME NEW i, Supported(i), NEW role \in Present(i),
           NEW x \in 0 .. i.width - 1, NEW y \in 0 .. i.height - 1
    PROVE  \E n \in 1 .. Len(Specs(i)) : Specs(i)[n].role = role /\ Reached(i, n, x, y)
<1> DEFINE c == Len(Specs(i))
           v == y % TileHeight(i)
<1>n. /\ ByComponent(i) => ~Mixed(i) /\ ~ByRow(i)
      /\ Mixed(i) => ~ByRow(i)
  BY KindsApart
<1>0. x \in Nat /\ c \in Nat /\ role \in Channels
  BY SpecsReal, TilesWhole, ProductNatural DEF Present
<1>1. PICK n \in 1 .. c :
        /\ Specs(i)[n].role = role
        /\ OneOfGroup(i, n) => x % 2 = Nth(i, n)
  BY <1>0, PixelComponent
<1>2. SUFFICES Reached(i, n, x, y)
  BY <1>1
<1> HIDE DEF c
<1>3. n \in Nat /\ n - 1 \in Nat /\ n <= c /\ (n - 1) + 1 = n /\ 1 <= n
  BY <1>0, <1>1
<1>4. CASE ByComponent(i)
  <2> DEFINE part == n - 1
             line == v \div StepOf(i, part)[2]
             p == At(Tile(i, x, y), part, line, (x % TileWidth(i)) \div StepOf(i, part)[1])
  <2>1. part \in Nat /\ part < Parts(i) /\ Turn(i, part)
    BY <1>n, <1>0, <1>3, <1>4 DEF Parts, Turn, c
  <2>2. line \in Nat /\ line < LinesOf(i, part) /\ line = IF ByRow(i) THEN part ELSE line
    BY <1>n, <1>4, LineReached
  <2> HIDE DEF part
  <2>3. InLoops(i, p) /\ Covers(i, p, n, x, y) /\ p.part = part /\ p.line = line
    <3>1. v \div StepOf(i, part)[2] = IF ByRow(i) THEN part ELSE line
      BY <2>2
    <3> HIDE DEF line
    <3>q. QED
      BY <1>1, <2>1, <2>2, <3>1, PlaceReached
  <2> HIDE DEF p, line
  <2>4. GroupOf(i, p.part, p.line) = << Specs(i)[n] >>
    BY <1>3, <1>4, <2>3 DEF GroupOf, part
  <2> DEFINE spec == Specs(i)[n]
  <2>5. Len(<< spec >>) = 1 /\ << spec >>[1] = spec
    OBVIOUS
  <2>6. 1 \in 1 .. Len(GroupOf(i, p.part, p.line)) /\ GroupOf(i, p.part, p.line)[1] = spec
    <3> HIDE DEF spec
    <3>1. 1 \in 1 .. 1
      OBVIOUS
    <3>q. QED
      BY <2>4, <2>5, <3>1 DEF spec
  <2>7. IsComponent(i, p, 1, n)
    BY <1>n, <1>1, <1>3, <1>4, <2>3, <2>6 DEF IsComponent, part, c
  <2>q. QED
    BY <2>3, <2>6, <2>7 DEF Reached
<1>5. CASE Mixed(i)
  <2>1. PICK m \in 1 .. c, k \in {1, 2} :
          /\ k \in 1 .. Len(MixedGroup(i, m))
          /\ MixedGroup(i, m) # << >>
          /\ MixedGroup(i, m)[k] = Specs(i)[n]
          /\ k = 1 <=> n = m
          /\ Specs(i)[n].role \in Chroma => FirstChroma(i) = m
          /\ k = 2 => Specs(i)[n].role \in Chroma
    BY <1>0, <1>1, <1>5, TurnOf DEF c
  <2> DEFINE part == m - 1
             line == v \div StepOf(i, part)[2]
             p == At(Tile(i, x, y), part, line, (x % TileWidth(i)) \div StepOf(i, part)[1])
  <2>2. part \in Nat /\ part + 1 = m /\ part < c
    BY <1>0
  <2>3. part < Parts(i) /\ Turn(i, part)
    BY <1>n, <1>5, <2>1, <2>2 DEF Parts, Turn, c
  <2>4. line \in Nat /\ line < LinesOf(i, part) /\ line = IF ByRow(i) THEN part ELSE line
    BY <1>n, <1>5, LineReached
  <2> HIDE DEF part
  <2>5. InLoops(i, p) /\ Covers(i, p, n, x, y) /\ p.part = part /\ p.line = line
    <3>1. v \div StepOf(i, part)[2] = IF ByRow(i) THEN part ELSE line
      BY <2>4
    <3> HIDE DEF line
    <3>q. QED
      BY <1>1, <2>2, <2>3, <2>4, <3>1, PlaceReached
  <2> HIDE DEF p, line
  <2>6. GroupOf(i, p.part, p.line) = MixedGroup(i, m)
    BY <1>n, <1>5, <2>2, <2>5 DEF GroupOf
  <2>7. IsComponent(i, p, k, n)
    BY <1>n, <1>1, <1>5, <2>1, <2>2, <2>5, <2>6 DEF IsComponent, c
  <2>q. QED
    BY <2>1, <2>5, <2>6, <2>7 DEF Reached
<1>6. CASE ByRow(i)
  <2> DEFINE line == n - 1
             p == At(Tile(i, x, y), v, line, (x % TileWidth(i)) \div StepOf(i, v)[1])
  <2>1. StepOf(i, v) = << 1, 1 >> /\ ~ByComponent(i) /\ ~Mixed(i)
    BY <1>n, <1>6 DEF StepOf
  <2>2. v \in 0 .. TileHeight(i) - 1 /\ TileHeight(i) \in Nat
    BY PixelTile, TilesWhole
  <2>3. v \in Nat /\ v < Parts(i) /\ Turn(i, v)
    BY <1>6, <2>1, <2>2 DEF Parts, Turn
  <2>4. line \in Nat /\ line < LinesOf(i, v)
    BY <1>0, <1>3, <1>6 DEF LinesOf, c
  <2>5. v \div StepOf(i, v)[2] = IF ByRow(i) THEN v ELSE line
    <3>1. v \div 1 = v
      BY <2>3
    <3>2. StepOf(i, v)[2] = 1
      BY <2>1
    <3> HIDE DEF v
    <3>q. QED
      BY <1>6, <3>1, <3>2
  <2> HIDE DEF line
  <2>6. InLoops(i, p) /\ Covers(i, p, n, x, y) /\ p.part = v /\ p.line = line
    BY <1>1, <2>3, <2>4, <2>5, PlaceReached
  <2> HIDE DEF p
  <2>7. GroupOf(i, p.part, p.line) = << Specs(i)[n] >>
    BY <1>3, <1>6, <2>1, <2>6 DEF GroupOf, line
  <2> DEFINE spec == Specs(i)[n]
  <2>8. Len(<< spec >>) = 1 /\ << spec >>[1] = spec
    OBVIOUS
  <2>9. 1 \in 1 .. Len(GroupOf(i, p.part, p.line)) /\ GroupOf(i, p.part, p.line)[1] = spec
    <3> HIDE DEF spec
    <3>1. 1 \in 1 .. 1
      OBVIOUS
    <3>q. QED
      BY <2>7, <2>8, <3>1 DEF spec
  <2>10. IsComponent(i, p, 1, n)
    BY <1>1, <1>3, <1>6, <2>1, <2>6, <2>9 DEF IsComponent, line, c
  <2>q. QED
    BY <2>6, <2>9, <2>10 DEF Reached
<1>7. CASE ~(ByComponent(i) \/ Mixed(i) \/ ByRow(i))
  <2> DEFINE line == v \div StepOf(i, 0)[2]
             p == At(Tile(i, x, y), 0, line, (x % TileWidth(i)) \div StepOf(i, 0)[1])
  <2>1. 0 \in Nat /\ 0 < Parts(i) /\ Turn(i, 0)
    BY <1>7 DEF Parts, Turn
  <2>2. line \in Nat /\ line < LinesOf(i, 0) /\ line = IF ByRow(i) THEN 0 ELSE line
    BY <1>7, LineReached
  <2>3. InLoops(i, p) /\ Covers(i, p, n, x, y) /\ p.part = 0 /\ p.line = line
    <3>1. v \div StepOf(i, 0)[2] = IF ByRow(i) THEN 0 ELSE line
      BY <2>2
    <3> HIDE DEF line
    <3>q. QED
      BY <1>1, <2>1, <2>2, <3>1, PlaceReached
  <2> HIDE DEF p, line
  <2>4. GroupOf(i, p.part, p.line) = Specs(i)
    BY <1>7 DEF GroupOf
  <2>5. IsComponent(i, p, n, n)
    BY <1>1, <1>7, <2>4 DEF IsComponent, c
  <2>6. n \in 1 .. Len(GroupOf(i, p.part, p.line))
    BY <1>1, <2>4 DEF c
  <2>q. QED
    BY <2>3, <2>5, <2>6 DEF Reached
<1>q. QED
  BY <1>4, <1>5, <1>6, <1>7

(***************************************************************************)
(* The order of the loops.                                                 *)
(***************************************************************************)
\* A place that the loops are at before another one.
Precedes(p, q) ==
  \/ p.tile < q.tile
  \/ /\ p.tile = q.tile
     /\ \/ p.part < q.part
        \/ /\ p.part = q.part
           /\ p.line < q.line \/ (p.line = q.line /\ p.column < q.column)

\* No turn is passed over.
LEMMA NoTurnBetween ==
    ASSUME NEW i, Supported(i), NEW part \in Nat, part < Parts(i),
           NEW m \in Nat, part < m, m < Parts(i), Turn(i, m)
    PROVE  NextPart(i, part) <= m /\ NextPart(i, part) \in Nat
<1> DEFINE c == Len(Specs(i))
           T == {k \in part + 1 .. c : k = c \/ MixedGroup(i, k + 1) # << >>}
<1>1. CASE Mixed(i)
  <2>1. Parts(i) = c /\ c \in Nat
    BY <1>1, SpecsReal DEF Parts
  <2>2. NextPart(i, part) = Min(T)
    BY <1>1 DEF NextPart, NextTurn
  <2>3. m \in T
    <3>1. m \in part + 1 .. c
      BY <2>1
    <3>q. QED
      BY <1>1, <3>1 DEF Turn
  <2>4. T \in SUBSET Nat
    BY <2>1
  <2> HIDE DEF T
  <2>q. QED
    BY ZenonT(60), <2>2, <2>3, <2>4, LeastOfNaturals
<1>2. CASE ~Mixed(i)
  <2>1. NextPart(i, part) = part + 1
    BY <1>2 DEF NextPart
  <2>q. QED
    BY <2>1
<1>q. QED
  BY <1>1, <1>2

\* What the next place is.
LEMMA NextFields ==
    ASSUME NEW i, Supported(i), NEW p, InLoops(i, p),
           NEW q, q = NextPosition(ShapeAt(i, p), p)
    PROVE  \/ /\ p.column + 1 # ColumnsOf(i, p.part)
              /\ q.tile = p.tile /\ q.part = p.part /\ q.line = p.line
              /\ q.column = p.column + 1
           \/ /\ p.column + 1 = ColumnsOf(i, p.part) /\ p.line + 1 # LinesOf(i, p.part)
              /\ q.tile = p.tile /\ q.part = p.part /\ q.line = p.line + 1 /\ q.column = 0
           \/ /\ p.column + 1 = ColumnsOf(i, p.part) /\ p.line + 1 = LinesOf(i, p.part)
              /\ NextPart(i, p.part) # Parts(i)
              /\ q.tile = p.tile /\ q.part = NextPart(i, p.part) /\ q.line = 0 /\ q.column = 0
           \/ /\ p.column + 1 = ColumnsOf(i, p.part) /\ p.line + 1 = LinesOf(i, p.part)
              /\ NextPart(i, p.part) = Parts(i)
              /\ q.tile = p.tile + 1 /\ q.part = 0 /\ q.line = 0 /\ q.column = 0
<1> DEFINE shape == ShapeAt(i, p)
<1>1. /\ shape.parts = Parts(i) /\ shape.next = NextPart(i, p.part)
      /\ shape.lines = LinesOf(i, p.part) /\ shape.columns = ColumnsOf(i, p.part)
  BY ShapeFields
<1> HIDE DEF shape
<1>2. q = NextPosition(shape, p)
  BY DEF shape
<1>3. p \in [tile : Nat, part : Nat, line : Nat, column : Nat]
  BY DEF InLoops
<1>4. CASE p.column + 1 # ColumnsOf(i, p.part)
  <2>1. q = [p EXCEPT !.column = @ + 1]
    BY <1>1, <1>2, <1>4 DEF NextPosition, LastColumn
  <2>q. QED
    BY <1>3, <1>4, <2>1
<1>5. CASE p.column + 1 = ColumnsOf(i, p.part) /\ p.line + 1 # LinesOf(i, p.part)
  <2>1. q = [p EXCEPT !.column = 0, !.line = @ + 1]
    BY <1>1, <1>2, <1>5 DEF NextPosition, LastColumn, LastLine
  <2> DEFINE r == [p EXCEPT !.column = 0]
  <2>2. /\ r \in [tile : Nat, part : Nat, line : Nat, column : Nat]
        /\ r.tile = p.tile /\ r.part = p.part /\ r.line = p.line /\ r.column = 0
    BY <1>3
  <2>3. q = [r EXCEPT !.line = @ + 1]
    BY <2>1
  <2> HIDE DEF r
  <2>4. /\ q.tile = r.tile /\ q.part = r.part /\ q.line = r.line + 1
        /\ q.column = r.column
    BY <2>2, <2>3
  <2>q. QED
    BY <1>5, <2>2, <2>4
<1>6. CASE /\ p.column + 1 = ColumnsOf(i, p.part) /\ p.line + 1 = LinesOf(i, p.part)
           /\ NextPart(i, p.part) # Parts(i)
  <2>1. q = [p EXCEPT !.column = 0, !.line = 0, !.part = shape.next]
    BY <1>1, <1>2, <1>6 DEF NextPosition, LastColumn, LastLine, LastPart
  <2> DEFINE r == [p EXCEPT !.column = 0]
             s == [r EXCEPT !.line = 0]
  <2>2. /\ r \in [tile : Nat, part : Nat, line : Nat, column : Nat]
        /\ r.tile = p.tile /\ r.column = 0
    BY <1>3
  <2>3. q = [s EXCEPT !.part = shape.next]
    BY <2>1
  <2> HIDE DEF r
  <2>4. /\ s \in [tile : Nat, part : Nat, line : Nat, column : Nat]
        /\ s.tile = p.tile /\ s.line = 0 /\ s.column = 0
    BY <2>2
  <2> HIDE DEF s
  <2>5. q.tile = s.tile /\ q.part = shape.next /\ q.line = s.line /\ q.column = s.column
    BY <2>3, <2>4
  <2>q. QED
    BY <1>1, <1>6, <2>4, <2>5
<1>7. CASE /\ p.column + 1 = ColumnsOf(i, p.part) /\ p.line + 1 = LinesOf(i, p.part)
           /\ NextPart(i, p.part) = Parts(i)
  <2>1. q = [Origin EXCEPT !.tile = p.tile + 1]
    BY <1>1, <1>2, <1>7 DEF NextPosition, LastColumn, LastLine, LastPart
  <2>q. QED
    BY <1>7, <2>1 DEF Origin
<1>q. QED
  BY <1>4, <1>5, <1>6, <1>7

\* Only the place itself comes between those before it and the next one.
LEMMA NextPrecedes ==
    ASSUME NEW i, Supported(i), NEW p, InLoops(i, p), NEW q, InLoops(i, q),
           Precedes(q, NextPosition(ShapeAt(i, p), p))
    PROVE  Precedes(q, p) \/ q = p
<1> DEFINE r == NextPosition(ShapeAt(i, p), p)
<1>1. /\ p \in [tile : Nat, part : Nat, line : Nat, column : Nat]
      /\ q \in [tile : Nat, part : Nat, line : Nat, column : Nat]
      /\ q.part < Parts(i) /\ Turn(i, q.part) /\ p.part < Parts(i)
      /\ q.line < LinesOf(i, q.part) /\ q.column < ColumnsOf(i, q.part)
  BY DEF InLoops
<1>2. /\ Parts(i) \in Nat /\ LinesOf(i, p.part) \in Nat /\ ColumnsOf(i, p.part) \in Nat
      /\ NextPart(i, p.part) \in Nat
  <2>1. TileLaid(i) /\ PartLaid(i, p.part)
    BY PlaceFacts
  <2>2. Parts(i) \in Nat /\ NextPart(i, p.part) \in p.part + 1 .. Parts(i)
    BY <2>1 DEF TileLaid, PartLaid
  <2>3. NextPart(i, p.part) \in Nat
    BY <1>1, <2>2
  <2>q. QED
    BY <2>1, <2>2, <2>3 DEF PartLaid
<1>3. p.part < q.part => NextPart(i, p.part) <= q.part
  BY <1>1, NoTurnBetween
<1>4. \/ /\ p.column + 1 # ColumnsOf(i, p.part)
         /\ r.tile = p.tile /\ r.part = p.part /\ r.line = p.line /\ r.column = p.column + 1
      \/ /\ p.column + 1 = ColumnsOf(i, p.part) /\ p.line + 1 # LinesOf(i, p.part)
         /\ r.tile = p.tile /\ r.part = p.part /\ r.line = p.line + 1 /\ r.column = 0
      \/ /\ p.column + 1 = ColumnsOf(i, p.part) /\ p.line + 1 = LinesOf(i, p.part)
         /\ NextPart(i, p.part) # Parts(i)
         /\ r.tile = p.tile /\ r.part = NextPart(i, p.part) /\ r.line = 0 /\ r.column = 0
      \/ /\ p.column + 1 = ColumnsOf(i, p.part) /\ p.line + 1 = LinesOf(i, p.part)
         /\ NextPart(i, p.part) = Parts(i)
         /\ r.tile = p.tile + 1 /\ r.part = 0 /\ r.line = 0 /\ r.column = 0
  BY NextFields
<1>5. Precedes(q, r)
  OBVIOUS
<1> HIDE DEF r
<1>6. /\ p.tile \in Nat /\ p.part \in Nat /\ p.line \in Nat /\ p.column \in Nat
      /\ q.tile \in Nat /\ q.part \in Nat /\ q.line \in Nat /\ q.column \in Nat
  BY <1>1
<1>7. CASE ~(q.tile = p.tile /\ q.part = p.part /\ q.line = p.line /\ q.column = p.column)
  <2>1. q.part = p.part => q.line < LinesOf(i, p.part) /\ q.column < ColumnsOf(i, p.part)
    BY <1>1
  <2>2. Precedes(q, p)
    BY <1>1, <1>2, <1>3, <1>4, <1>5, <1>6, <1>7, <2>1 DEF Precedes
  <2>q. QED
    BY <2>2
<1>8. CASE q.tile = p.tile /\ q.part = p.part /\ q.line = p.line /\ q.column = p.column
  BY <1>1, <1>8
<1>q. QED
  BY <1>7, <1>8

\* All places of the image precede the end.
LEMMA AllPrecede ==
    ASSUME NEW i, NEW p, InLoops(i, p), NEW q, q.tile = TileCount(i)
    PROVE  Precedes(p, q)
  BY DEF InLoops, Precedes

\* None precedes the first place.
LEMMA NonePrecedes ==
    ASSUME NEW i, NEW p, InLoops(i, p)
    PROVE  ~Precedes(p, Origin)
  BY DEF InLoops, Precedes, Origin

(***************************************************************************)
(* The samples that have been written.                                     *)
(***************************************************************************)
\* The samples of an image: a role and a pixel.
Sampled(i) == {<< role, p[1], p[2] >> : role \in Present(i), p \in Pixels(i)}

\* Where the layout has a sample.
Laid(i, at) == Address(i, at[1], at[2], at[3])

\* A sample that the column of a place holds.
Holds(i, p, at) ==
  \E k, n : /\ k \in 1 .. Len(GroupOf(i, p.part, p.line))
            /\ IsComponent(i, p, k, n)
            /\ Specs(i)[n].role = at[1]
            /\ Covers(i, p, n, at[2], at[3])

\* A sample that the loops have passed before a place.
Passes(i, at, q) == \E p : InLoops(i, p) /\ Precedes(p, q) /\ Holds(i, p, at)

\* Samples that have been read at their place or not at all.
InPlace(i, ch) == \A at \in DOMAIN ch : ch[at] = Laid(i, at) \/ ch[at] = << >>

\* The samples before a place have been read, those after it perhaps.
ReadBefore(i, ch, q) ==
  /\ DOMAIN ch = Sampled(i)
  /\ InPlace(i, ch)
  /\ \A at \in Sampled(i) : Passes(i, at, q) => ch[at] = Laid(i, at)

\* What the channels hold: nothing before the reader starts, the samples of
\* the columns before its place while it reads, and all of them at the end.
Collected ==
  /\ pc \in Unread => channels = << >>
  /\ InPlace(image, channels)
  /\ pc = "read" => ReadBefore(image, channels, pos)
  /\ pc \in {"convert", "done"} =>
       \A at \in DOMAIN channels : channels[at] = Laid(image, at)

\* A sample of the image has a role that is present and a pixel.
LEMMA SampledFields ==
    ASSUME NEW i, NEW at \in Sampled(i)
    PROVE  /\ at[1] \in Present(i) /\ at[1] \in Channels
           /\ at[2] \in 0 .. i.width - 1 /\ at[3] \in 0 .. i.height - 1
<1>1. PICK role \in Present(i), q \in Pixels(i) : at = << role, q[1], q[2] >>
  BY DEF Sampled
<1>2. q[1] \in 0 .. i.width - 1 /\ q[2] \in 0 .. i.height - 1
  BY DEF Pixels
<1>3. role \in Channels
  BY DEF Present
<1>q. QED
  BY <1>1, <1>2, <1>3

\* At the end every sample has been passed.
LEMMA AllPassed ==
    ASSUME NEW i, Supported(i), NEW at \in Sampled(i), NEW q, q.tile = TileCount(i)
    PROVE  Passes(i, at, q)
<1>1. /\ at[1] \in Present(i)
      /\ at[2] \in 0 .. i.width - 1 /\ at[3] \in 0 .. i.height - 1
  BY SampledFields
<1>2. PICK n \in 1 .. Len(Specs(i)) : Specs(i)[n].role = at[1] /\ Reached(i, n, at[2], at[3])
  BY <1>1, PixelReached
<1>3. PICK p, k : /\ InLoops(i, p)
                  /\ k \in 1 .. Len(GroupOf(i, p.part, p.line))
                  /\ IsComponent(i, p, k, n)
                  /\ Covers(i, p, n, at[2], at[3])
  BY <1>2 DEF Reached
<1>4. Holds(i, p, at)
  BY <1>2, <1>3 DEF Holds
<1>5. Precedes(p, q)
  BY <1>3, AllPrecede
<1>q. QED
  BY <1>3, <1>4, <1>5 DEF Passes

\* Before the first place none has.
LEMMA NonePassed ==
    ASSUME NEW i, NEW at
    PROVE  ~Passes(i, at, Origin)
  BY NonePrecedes DEF Passes

\* A span that a column has read is where the layout has each of its samples.
LEMMA HitInPlace ==
    ASSUME NEW i, Supported(i), NEW p, InLoops(i, p),
           NEW k \in 1 .. Len(GroupOf(i, p.part, p.line)), NEW at \in Sampled(i),
           GroupOf(i, p.part, p.line)[k].role = at[1],
           << at[2], at[3] >> \in Block(ShapeAt(i, p), i, p.tile, k)
    PROVE  InPayload(i, p.tile, InGroup(GroupOf(i, p.part, p.line), Place(i, p), k))
             = Laid(i, at)
<1>1. PICK n : IsComponent(i, p, k, n)
  BY SampleComponent
<1>2. Specs(i)[n].role = at[1]
  BY <1>1 DEF IsComponent
<1>3. at[1] \in Channels
  BY SampledFields
<1>4. Specs(i)[n].role \in Channels
  BY <1>2, <1>3
<1>5. Covers(i, p, n, at[2], at[3])
  BY <1>1, <1>4, BlockCovers
<1>6. InPayload(i, p.tile, InGroup(GroupOf(i, p.part, p.line), Place(i, p), k))
        = Address(i, Specs(i)[n].role, at[2], at[3])
  BY <1>1, <1>4, <1>5, SpanAddress
<1>q. QED
  BY <1>2, <1>6 DEF Laid

\* The spans of a column that holds a sample write it.
LEMMA HoldsHits ==
    ASSUME NEW i, Supported(i), NEW p, InLoops(i, p), NEW at \in Sampled(i), Holds(i, p, at)
    PROVE  \E k \in 1 .. Len(GroupOf(i, p.part, p.line)) :
             /\ GroupOf(i, p.part, p.line)[k].role = at[1]
             /\ << at[2], at[3] >> \in Block(ShapeAt(i, p), i, p.tile, k)
<1>1. PICK k, n : /\ k \in 1 .. Len(GroupOf(i, p.part, p.line))
                  /\ IsComponent(i, p, k, n)
                  /\ Specs(i)[n].role = at[1]
                  /\ Covers(i, p, n, at[2], at[3])
  BY DEF Holds
<1>2. /\ at[1] \in Channels
      /\ at[2] \in 0 .. i.width - 1 /\ at[3] \in 0 .. i.height - 1
  BY SampledFields
<1>3. GroupOf(i, p.part, p.line)[k].role = at[1]
  BY <1>1 DEF IsComponent
<1>4. Specs(i)[n].role \in Channels
  BY <1>1, <1>2
<1>5. << at[2], at[3] >> \in Block(ShapeAt(i, p), i, p.tile, k)
  BY <1>1, <1>2, <1>4, CoversBlock
<1>q. QED
  BY <1>1, <1>3, <1>5

\* What a column writes of one sample.
LEMMA WrittenSample ==
    ASSUME NEW i, Supported(i), NEW p, InLoops(i, p), NEW spans,
           Len(spans) = Len(GroupOf(i, p.part, p.line)),
           \A k \in 1 .. Len(GroupOf(i, p.part, p.line)) :
             spans[k] = InGroup(GroupOf(i, p.part, p.line), Place(i, p), k),
           NEW at \in DOMAIN channels, at \in Sampled(i)
    PROVE  LET w == Written(i, ShapeAt(i, p), p.tile, spans) IN
           /\ w[at] = channels[at] \/ w[at] = Laid(i, at)
           /\ Holds(i, p, at) => w[at] = Laid(i, at)
<1> DEFINE g == GroupOf(i, p.part, p.line)
           shape == ShapeAt(i, p)
           hits == {k \in 1 .. Len(spans) :
                      /\ shape.group[k].role = at[1]
                      /\ << at[2], at[3] >> \in Block(shape, i, p.tile, k)}
           last == CHOOSE k \in hits : \A n \in hits : n <= k
           w == Written(i, shape, p.tile, spans)
<1>1. w[at] = IF hits = {} THEN channels[at] ELSE InPayload(i, p.tile, spans[last])
  BY Zenon DEF Written
<1>2. shape.group = g
  BY ShapeFields
<1>3. Len(g) \in Nat
  <2>1. g \in Seq(RealSpecs)
    BY PlaceFacts
  <2> HIDE DEF g
  <2>q. QED
    BY <2>1, LenProperties
<1>4. \A k \in 1 .. Len(g) : spans[k] = InGroup(g, Place(i, p), k)
  OBVIOUS
<1>5. Holds(i, p, at) => hits # {}
  <2> SUFFICES ASSUME Holds(i, p, at) PROVE hits # {}
    OBVIOUS
  <2>1. PICK k \in 1 .. Len(g) : /\ g[k].role = at[1]
                                 /\ << at[2], at[3] >> \in Block(shape, i, p.tile, k)
    BY HoldsHits
  <2>2. k \in 1 .. Len(spans)
    OBVIOUS
  <2>3. shape.group[k].role = at[1]
    BY <1>2, <2>1
  <2>4. k \in hits
    BY <2>1, <2>2, <2>3
  <2>q. QED
    BY <2>4
<1>6. ASSUME NEW k \in hits PROVE InPayload(i, p.tile, spans[k]) = Laid(i, at)
  <2>1. k \in 1 .. Len(g)
    OBVIOUS
  <2>2. g[k].role = at[1] /\ << at[2], at[3] >> \in Block(shape, i, p.tile, k)
    BY <1>2, <1>6
  <2>3. InPayload(i, p.tile, InGroup(g, Place(i, p), k)) = Laid(i, at)
    BY <2>1, <2>2, HitInPlace
  <2>q. QED
    BY <1>4, <2>1, <2>3
<1>7. hits # {} => last \in hits
  <2> SUFFICES ASSUME hits # {} PROVE last \in hits
    OBVIOUS
  <2>1. hits \in SUBSET (1 .. Len(g))
    OBVIOUS
  <2> HIDE DEF hits
  <2>2. \E k \in hits : \A n \in hits : n <= k
    BY <1>3, <2>1, GreatestPosition
  <2>q. QED
    BY <2>2
<1> HIDE DEF hits, last, shape, w
<1>8. hits # {} => w[at] = Laid(i, at)
  BY <1>1, <1>6, <1>7
<1>9. hits = {} => w[at] = channels[at]
  BY <1>1
<1>10. /\ w[at] = channels[at] \/ w[at] = Laid(i, at)
       /\ Holds(i, p, at) => w[at] = Laid(i, at)
  BY <1>5, <1>8, <1>9
<1>q. QED
  BY <1>10 DEF w, shape

\* A column writes its samples where the layout has them, and no others.
LEMMA WrittenBefore ==
    ASSUME NEW i, Supported(i), NEW p, InLoops(i, p), NEW spans,
           Len(spans) = Len(GroupOf(i, p.part, p.line)),
           \A k \in 1 .. Len(GroupOf(i, p.part, p.line)) :
             spans[k] = InGroup(GroupOf(i, p.part, p.line), Place(i, p), k),
           ReadBefore(i, channels, p)
    PROVE  ReadBefore(i, Written(i, ShapeAt(i, p), p.tile, spans),
                      NextPosition(ShapeAt(i, p), p))
<1> DEFINE w == Written(i, ShapeAt(i, p), p.tile, spans)
           q == NextPosition(ShapeAt(i, p), p)
<1>1. /\ DOMAIN channels = Sampled(i)
      /\ \A at \in Sampled(i) : channels[at] = Laid(i, at) \/ channels[at] = << >>
      /\ \A at \in Sampled(i) : Passes(i, at, p) => channels[at] = Laid(i, at)
  BY DEF ReadBefore, InPlace
<1>2. DOMAIN w = Sampled(i)
  BY <1>1 DEF Written
<1>3. ASSUME NEW at \in Sampled(i)
      PROVE  /\ w[at] = channels[at] \/ w[at] = Laid(i, at)
             /\ Holds(i, p, at) => w[at] = Laid(i, at)
  BY <1>1, <1>3, WrittenSample
<1> HIDE DEF w
<1>4. ASSUME NEW at \in Sampled(i), Passes(i, at, q)
      PROVE  w[at] = Laid(i, at)
  <2>1. PICK r : InLoops(i, r) /\ Precedes(r, q) /\ Holds(i, r, at)
    BY <1>4 DEF Passes
  <2>2. Precedes(r, p) \/ r = p
    BY <2>1, NextPrecedes
  <2>3. CASE Precedes(r, p)
    <3>1. Passes(i, at, p)
      BY <2>1, <2>3 DEF Passes
    <3>q. QED
      BY <1>1, <1>3, <3>1
  <2>4. CASE r = p
    BY <1>3, <2>1, <2>4
  <2>q. QED
    BY <2>2, <2>3, <2>4
<1> HIDE DEF q
<1>5. InPlace(i, w)
  BY <1>1, <1>2, <1>3 DEF InPlace
<1>6. ReadBefore(i, w, q)
  BY <1>2, <1>4, <1>5 DEF ReadBefore
<1>q. QED
  BY <1>6 DEF w, q

\* No sample is held when the decode starts.
LEMMA CollectedAtFirst == Init => Collected
<1> SUFFICES ASSUME Init PROVE Collected
  OBVIOUS
<1>1. pc = "properties" /\ channels = << >>
  BY DEF Init, Starts
<1>2. DOMAIN channels = {}
  BY <1>1
<1>q. QED
  BY <1>1, <1>2 DEF Collected, InPlace

\* Steps that leave the samples alone.
LEMMA KeepsSamples ==
    ASSUME Collected, UNCHANGED << image, channels >>,
           pc' \in Unread => pc \in Unread, pc' # "read",
           pc' \in {"convert", "done"} => pc \in {"convert", "done"}
    PROVE  Collected'
<1>1. image' = image /\ channels' = channels
  OBVIOUS
<1>2. InPlace(image, channels)'
  BY <1>1 DEF Collected
<1>3. pc' \in {"convert", "done"} =>
        \A at \in DOMAIN channels' : channels'[at] = Laid(image', at)
  BY <1>1 DEF Collected
<1>q. QED
  BY <1>1, <1>2, <1>3 DEF Collected

\* A step before the reader's takes no sample.
LEMMA UnreadCollects ==
    ASSUME Collected,
           \/ ResolveProperties \/ CheckLayout
           \/ CheckExtents \/ CopyExtent \/ FailExtent \/ EndCopy
           \/ WithoutCompression \/ RefuseCompression \/ StartInflation
           \/ StartUnit \/ InflateChunk \/ EndUnit \/ FailUnit \/ EndInflation
    PROVE  Collected'
<1>1. pc \in Unread /\ pc' \in Unread \cup {"refused"} /\ UNCHANGED << image, channels >>
  <2>u. {"properties", "layout", "extents", "copy", "compression", "unit", "inflate",
         "size"} \subseteq Unread
    BY DEF Unread, Early
  <2>1. ASSUME NEW why, Refuse(why), pc \in Unread
        PROVE  pc \in Unread /\ pc' \in Unread \cup {"refused"} /\ UNCHANGED << image, channels >>
    BY <2>1 DEF Refuse
  <2>2. ASSUME NEW at \in Unread, NEW holds, NEW next \in Unread, NEW why,
               Check(at, holds, next, why)
        PROVE  pc \in Unread /\ pc' \in Unread \cup {"refused"} /\ UNCHANGED << image, channels >>
    BY <2>2 DEF Check, Refuse
  <2>3. CASE ResolveProperties \/ CheckLayout \/ CheckExtents
    BY <2>2, <2>3, <2>u DEF ResolveProperties, CheckLayout, CheckExtents
  <2>4. CASE CopyExtent \/ EndCopy
    BY <2>4, <2>u DEF CopyExtent, EndCopy
  <2>5. CASE FailExtent
    BY <2>1, <2>5, <2>u DEF FailExtent
  <2>6. CASE WithoutCompression \/ StartInflation
    BY <2>6, <2>u DEF WithoutCompression, StartInflation
  <2>7. CASE RefuseCompression
    BY <2>1, <2>7, <2>u DEF RefuseCompression
  <2>8. CASE StartUnit
    <3>1. /\ pc = "unit"
          /\ \/ Refuse("unitRange")
             \/ Refuse("window")
             \/ pc' = "inflate" /\ UNCHANGED << image, channels >>
      BY <2>8 DEF StartUnit
    <3>q. QED
      BY <2>1, <2>u, <3>1
  <2>9. CASE InflateChunk \/ EndUnit \/ EndInflation
    BY <2>9, <2>u DEF InflateChunk, EndUnit, EndInflation
  <2>10. CASE FailUnit
    <3>1. pc = "inflate" /\ (Refuse("corrupt") \/ Refuse("budget"))
      BY <2>10 DEF FailUnit
    <3>q. QED
      BY <2>1, <2>u, <3>1
  <2>q. QED
    BY <2>3, <2>4, <2>5, <2>6, <2>7, <2>8, <2>9, <2>10
<1>2. pc' # "read" /\ pc' \notin {"convert", "done"}
  BY <1>1 DEF Unread, Early
<1>q. QED
  BY <1>1, <1>2, KeepsSamples

\* The reader starts with a channel of every role that is present and no sample
\* of it.
LEMMA SizeCollects ==
    ASSUME Placed, Collected, CheckSize
    PROVE  Collected'
<1>1. pc = "size" /\ UNCHANGED << image, pos >> /\ pc \in Unread
  BY DEF CheckSize, Refuse, Unread
<1>2. pos = Origin
  BY <1>1 DEF Placed
<1>3. CASE pc' = "refused" /\ UNCHANGED << image, channels >>
  <2>1. pc' \notin Unread
    BY <1>3 DEF Unread, Early
  <2>q. QED
    BY <1>1, <1>3, <2>1, KeepsSamples
<1>4. CASE pc' = "read" /\ channels' = [at \in Sampled(image) |-> << >>]
  <2> DEFINE c == [at \in Sampled(image) |-> << >>]
  <2>1. DOMAIN c = Sampled(image) /\ \A at \in Sampled(image) : c[at] = << >>
    OBVIOUS
  <2> HIDE DEF c
  <2>2. InPlace(image, c)
    BY <2>1 DEF InPlace
  <2>3. \A at \in Sampled(image) : ~Passes(image, at, Origin)
    BY NonePassed
  <2>4. ReadBefore(image, c, Origin)
    BY <2>1, <2>2, <2>3 DEF ReadBefore
  <2>5. image' = image /\ pos' = Origin /\ channels' = c /\ pc' = "read"
    BY <1>1, <1>2, <1>4 DEF c
  <2>6. pc' \notin Unread
    BY <1>4 DEF Unread, Early
  <2>q. QED
    BY <2>2, <2>4, <2>5, <2>6 DEF Collected
<1>5. \/ pc' = "refused" /\ UNCHANGED << image, channels >>
      \/ pc' = "read" /\ channels' = [at \in Sampled(image) |-> << >>]
  BY DEF CheckSize, Refuse, Sampled
<1>q. QED
  BY <1>3, <1>4, <1>5

\* The colours are converted from the samples as they were read.
LEMMA ConvertCollects ==
    ASSUME Collected, Convert
    PROVE  Collected'
<1>1. /\ pc = "convert" /\ UNCHANGED << image, channels >>
      /\ pc' \in {"refused", "done"}
  BY DEF Convert, Check, Refuse
<1>2. pc' \notin Unread /\ pc' # "read"
  BY <1>1 DEF Unread, Early
<1>q. QED
  BY <1>1, <1>2, KeepsSamples

\* What the reader has read of a column, and that a group read whole is at its
\* place.
LEMMA SpansRead ==
    ASSUME NEW i, Supported(i), NEW p, NEW r, NEW total \in Nat, Reading(i, r, p, total),
           NEW read, read = ReadSamples(Marked(r, p), ShapeAt(i, p).group, total),
           read.r.cause = "none"
    PROVE  /\ Len(read.spans) = Len(GroupOf(i, p.part, p.line))
           /\ \A k \in 1 .. Len(GroupOf(i, p.part, p.line)) :
                read.spans[k] = InGroup(GroupOf(i, p.part, p.line), Place(i, p), k)
<1> DEFINE g == GroupOf(i, p.part, p.line)
           m == Marked(r, p)
<1>1. InLoops(i, p) /\ r.bit = Place(i, p) /\ r.bit <= total
  BY DEF Reading
<1>2. m = Standing(i, p, Place(i, p)) /\ m \in Readers
  BY MarksStand
<1>3. m.bit = Place(i, p) /\ m.cause = "none"
  BY <1>2 DEF Standing
<1>4. g \in Seq(RealSpecs)
  BY <1>1, PlaceFacts
<1>5. ShapeAt(i, p).group = g
  BY <1>1, ShapeFields
<1> HIDE DEF g, m
<1>6. read = ReadSamples(m, g, total)
  BY <1>5 DEF m
<1>7. m.bit <= total
  BY <1>1, <1>3
<1>8. /\ Len(read.spans) = Len(g)
      /\ \A k \in 1 .. Len(g) : read.spans[k] = InGroup(g, m.bit, k)
  <2>1. ReadSamples(m, g, total).r.cause = "none"
    BY <1>6
  <2>2. m \in Readers /\ m.cause = "none" /\ m.bit <= total
    BY <1>2, <1>3, <1>7
  <2> HIDE DEF Readers
  <2>3. ReadSamples(m, g, total).r.cause = "none" =>
          /\ Len(ReadSamples(m, g, total).spans) = Len(g)
          /\ \A k \in 1 .. Len(g) :
               ReadSamples(m, g, total).spans[k] = InGroup(g, m.bit, k)
    BY ONLY ZenonT(60), total \in Nat, <1>4, <2>2, GroupRead
  <2>q. QED
    BY <1>6, <2>1, <2>3
<1>q. QED
  BY <1>3, <1>8 DEF g

\* A reader that has failed stays so, whatever it is aligned to.
Failed(r) == r \in Readers /\ r.cause # "none"

\* No skip and no other failure changes it,
LEMMA FailedSkips ==
    ASSUME NEW r, Failed(r), NEW bit, NEW total, NEW why \in Causes
    PROVE  SkipTo(r, bit, total) = r /\ Ends(r, why) = r
  BY DEF Failed, SkipTo, Ends

\* bytes can still be aligned,
LEMMA FailedBytes ==
    ASSUME NEW r, Failed(r)
    PROVE  Failed(AlignByte(r)) /\ Failed([r EXCEPT !.bit = 0])
<1>0. r.bit \in Nat
  BY DEF Failed, Readers
<1>1. ToByte(r.bit) \in Nat
  BY <1>0, ByteAlign, 0 \in Nat
<1>2. \A b \in Nat : Failed([r EXCEPT !.bit = b])
  BY DEF Failed, Readers
<1>q. QED
  BY <1>1, <1>2 DEF AlignByte

\* and so it stays after all that follows a column.
LEMMA FailedAligns ==
    ASSUME NEW r, Failed(r), NEW shape, NEW i, NEW p, NEW total
    PROVE  Failed(Aligned(r, shape, i, p, total))
<1> DEFINE column == AfterColumn(r, i, total)
           line == IF LastColumn(shape, p) THEN AfterLine(column, i, total) ELSE column
           part == IF LastLine(shape, p) THEN AfterPart(line, i, total) ELSE line
           tile == IF LastPart(shape, p) THEN AfterTile(part, i, total) ELSE part
<1>0. "pixelSize" \in Causes /\ "chroma" \in Causes
  BY DEF Causes
<1>1. Failed(column)
  BY <1>0, FailedSkips DEF AfterColumn, AlignPixel
<1> HIDE DEF column
<1>2. Failed(line)
  <2>1. Failed(AlignByte(column))
    BY <1>1, FailedBytes
  <2>2. Failed(AlignRow(column, i, total))
    BY <2>1, FailedSkips, <1>0 DEF AlignRow, AlignFrom
  <2>q. QED
    BY <1>1, <2>1, <2>2 DEF AfterLine
<1> HIDE DEF line
<1>3. Failed(part)
  BY <1>0, <1>2, FailedSkips DEF AfterPart, AlignTile, AlignFrom
<1> HIDE DEF part
<1>4. Aligned(r, shape, i, p, total) = part
  BY <1>3 DEF Aligned, Failed, column, line, part
<1>q. QED
  BY <1>3, <1>4

\* A column of samples is written where the layout has them, also if what comes
\* after it fails.
LEMMA ColumnCollects ==
    ASSUME IInv, Placed, Collected, pc = "read", ReadColumn(ShapeAt(image, pos))
    PROVE  Collected'
<1> DEFINE shape == ShapeAt(image, pos)
           read == ReadSamples(Marked(rd, pos), shape.group, ReaderBits)
           after == Aligned(read.r, shape, image, pos, ReaderBits)
           next == NextPosition(shape, pos)
           written == Written(image, shape, pos.tile, read.spans)
           whole == read.r.cause = "none"
           ended == after.cause # "none"
           last == pos'.tile = TileCount(image)
<1>1. /\ pos' = next /\ image' = image
      /\ channels' = IF ~whole THEN channels ELSE written
      /\ pc' = IF ended THEN "refused" ELSE IF last THEN "convert" ELSE "read"
  BY Zenon DEF ReadColumn
<1>2. Supported(image) /\ ReaderBits \in Nat
  BY ReaderGiven DEF Late
<1>3. Reading(image, rd, pos, ReaderBits) /\ InLoops(image, pos)
  BY DEF Placed, Reading
<1>4. whole => ReadBefore(image, written, next)
  <2> SUFFICES ASSUME whole PROVE ReadBefore(image, written, next)
    OBVIOUS
  <2> DEFINE g == GroupOf(image, pos.part, pos.line)
  <2>1. Len(read.spans) = Len(g)
        /\ \A k \in 1 .. Len(g) : read.spans[k] = InGroup(g, Place(image, pos), k)
    BY <1>2, <1>3, SpansRead
  <2>2. ReadBefore(image, channels, pos)
    BY DEF Collected
  <2>q. QED
    BY <1>2, <1>3, <2>1, <2>2, WrittenBefore
<1>5. ~whole => ended
  <2> SUFFICES ASSUME ~whole PROVE ended
    OBVIOUS
  <2>1. read.r \in Readers
    <3>1. Marked(rd, pos) \in Readers
      BY <1>2, <1>3, MarksStand
    <3>2. Marked(rd, pos).cause = "none" /\ Marked(rd, pos).bit <= ReaderBits
      <4>1. Marked(rd, pos) = Standing(image, pos, Place(image, pos))
        BY <1>2, <1>3, MarksStand
      <4>2. rd.bit = Place(image, pos) /\ rd.bit <= ReaderBits
        BY <1>3 DEF Reading
      <4>q. QED
        BY <4>1, <4>2 DEF Standing
    <3>3. shape.group \in Seq(RealSpecs)
      BY <1>2, <1>3, ShapeFields, PlaceFacts
    <3>4. read \in GroupReads
      BY <1>2, <3>1, <3>2, <3>3, GroupRead
    <3>q. QED
      BY <3>4 DEF GroupReads
  <2> HIDE DEF read
  <2>2. Failed(read.r)
    BY <2>1 DEF Failed
  <2>3. Failed(after)
    BY <2>2, FailedAligns
  <2> HIDE DEF after
  <2>q. QED
    BY <2>3 DEF Failed
<1>6. whole /\ next.tile = TileCount(image) =>
        \A at \in DOMAIN written : written[at] = Laid(image, at)
  BY <1>2, <1>4, AllPassed DEF ReadBefore
<1>7. last <=> next.tile = TileCount(image)
  BY <1>1
<1>8. InPlace(image, channels)
  BY DEF Collected
<1> HIDE DEF read, after, next, written, whole, ended, last
<1>9. InPlace(image, channels')
  BY <1>1, <1>4, <1>8 DEF ReadBefore
<1>10. pc' \in {"refused", "convert", "read"}
  BY <1>1
<1>11. pc' = "read" => ReadBefore(image, channels', pos')
  BY <1>1, <1>4, <1>5
<1>12. pc' = "convert" => \A at \in DOMAIN channels' : channels'[at] = Laid(image, at)
  BY <1>1, <1>5, <1>6, <1>7
<1>13. pc' \notin Unread /\ pc' # "done"
  BY <1>10 DEF Unread, Early
<1>q. QED
  BY <1>1, <1>9, <1>11, <1>12, <1>13 DEF Collected

\* Every interleaving takes the samples of a column of its own shape.
LEMMA ReadCollects ==
    ASSUME IInv, Placed, Collected,
           ReadComponents \/ ReadMixed \/ ReadRows \/ ReadPixels \/ ReadMultiY
    PROVE  Collected'
  BY ReadShaped, ColumnCollects

\* Every step keeps the samples at their places.
LEMMA CollectedKeeps == IInv /\ Placed /\ Collected /\ [Next]_vars => Collected'
<1> SUFFICES ASSUME IInv, Placed, Collected, [Next]_vars PROVE Collected'
  OBVIOUS
<1>1. CASE \/ ResolveProperties \/ CheckLayout
           \/ CheckExtents \/ CopyExtent \/ FailExtent \/ EndCopy
           \/ WithoutCompression \/ RefuseCompression \/ StartInflation
           \/ StartUnit \/ InflateChunk \/ EndUnit \/ FailUnit \/ EndInflation
  BY <1>1, UnreadCollects
<1>2. CASE CheckSize
  BY <1>2, SizeCollects
<1>3. CASE ReadComponents \/ ReadMixed \/ ReadRows \/ ReadPixels \/ ReadMultiY
  BY <1>3, ReadCollects
<1>4. CASE Convert
  BY <1>4, ConvertCollects
<1>5. CASE UNCHANGED vars
  <2>1. UNCHANGED << image, pc, pos, channels >>
    BY <1>5 DEF vars
  <2>q. QED
    BY <2>1 DEF Collected
<1>q. QED
  BY <1>1, <1>2, <1>3, <1>4, <1>5 DEF Next

\* The samples are always at their places.
THEOREM CollectedAlways == Spec => []Collected
  BY InvAlways, PlacedAlways, CollectedAtFirst, CollectedKeeps, PTL DEF Spec

(***************************************************************************)
(* Depths.                                                                 *)
(***************************************************************************)
\* A number and its digits, one digit more at a time.
IsNumber(g, number, digit, base, S) ==
    g = [s \in SUBSET S |-> IF s = {} THEN number ELSE g[s \ {Top(s)}] * base + digit]

\* Digits are added by the function that goes through the subsets of their
\* positions,
LEMMA DigitsAsFunction ==
    ASSUME NEW number, NEW digit, NEW base, NEW n \in Nat
    PROVE  Digits(number, digit, base, n)
              = (CHOOSE g : IsNumber(g, number, digit, base, 1 .. n))[1 .. n]
<1>1. DOMAIN [k \in 1 .. n |-> k] = 1 .. n
  OBVIOUS
<1>q. QED
  BY <1>1 DEF Digits, FoldLeft, MapThenFoldSet, Max, IsNumber, Top

AreDigits(h, number, digit, base, n) ==
  /\ h[0] = number /\ h[n] = Digits(number, digit, base, n)
  /\ \A k \in 1 .. n : h[k] = h[k - 1] * base + digit

\* that is, one after the other.
LEMMA DigitsChain ==
    ASSUME NEW number \in Nat, NEW digit \in Nat, NEW base \in Nat, NEW n \in Nat
    PROVE  \E h : AreDigits(h, number, digit, base, n)
<1> DEFINE D == 1 .. n
           step == [x \in Nat \X D |-> x[1] * base + digit]
           g == CHOOSE f : IsNumber(f, number, digit, base, D)
<1>d. IsFiniteSet(D) /\ HasTops(D)
  BY PositionTops
<1>s. step \in [Nat \X D -> Nat]
  <2>1. ASSUME NEW a \in Nat PROVE a * base + digit \in Nat
    <3>1. a * base \in Nat
      BY ProductNatural
    <3>q. QED
      BY <3>1
  <2>q. QED
    BY <2>1
<1>1. \E f : IsNumber(f, number, digit, base, D)
  <2>1. PICK f : IsFold(f, step, number, D)
    <3> HIDE DEF D, step
    <3>q. QED
      BY ONLY <1>d, FoldExists
  <2>2. \A s \in SUBSET D : f[s] \in Nat
    <3> HIDE DEF step
    <3>q. QED
      BY ONLY number \in Nat, n \in Nat, <1>s, <2>1, FoldTyped
  <2>3. ASSUME NEW s \in SUBSET D
        PROVE  f[s] = IF s = {} THEN number ELSE f[s \ {Top(s)}] * base + digit
    <3>1. f[s] = IF s = {} THEN number ELSE step[<< f[s \ {Top(s)}], Top(s) >>]
      BY <2>1 DEF IsFold
    <3>2. CASE s = {}
      BY <3>1, <3>2
    <3>3. CASE s # {}
      <4>1. Top(s) \in D /\ s \ {Top(s)} \in SUBSET D
        BY <1>d, <3>3 DEF HasTops
      <4>2. f[s \ {Top(s)}] \in Nat
        BY <2>2, <4>1
      <4>3. << f[s \ {Top(s)}], Top(s) >> \in Nat \X D
        BY <4>1, <4>2
      <4>4. step[<< f[s \ {Top(s)}], Top(s) >>] = f[s \ {Top(s)}] * base + digit
        BY <4>3
      <4> HIDE DEF step
      <4>q. QED
        BY <3>1, <3>3, <4>4
    <3>q. QED
      BY <3>2, <3>3
  <2>4. f = [s \in SUBSET D |-> f[s]]
    BY <2>1 DEF IsFold
  <2> HIDE DEF D
  <2>5. IsNumber(f, number, digit, base, D)
    BY <2>3, <2>4, Zenon DEF IsNumber
  <2>q. QED
    BY <2>5
<1>2. IsNumber(g, number, digit, base, D)
  BY <1>1
<1>3. Digits(number, digit, base, n) = g[D]
  BY DigitsAsFunction
<1> DEFINE h == [k \in 0 .. n |-> g[1 .. k]]
<1> HIDE DEF g
<1>4. h[0] = number
  <2>1. g[{}] = number
    BY <1>2 DEF IsNumber
  <2>2. 1 .. 0 = {} /\ 0 \in 0 .. n
    OBVIOUS
  <2>q. QED
    BY <2>1, <2>2
<1>5. ASSUME NEW k \in D
      PROVE  h[k] = h[k - 1] * base + digit
  <2>1. /\ Top(1 .. k) = k /\ (1 .. k) \ {k} = 1 .. k - 1
        /\ 1 .. k \in SUBSET D /\ 1 .. k # {}
    BY PositionTops
  <2>2. g[1 .. k] = g[1 .. k - 1] * base + digit
    BY <1>2, <2>1 DEF IsNumber
  <2>3. k \in 0 .. n /\ k - 1 \in 0 .. n
    OBVIOUS
  <2>q. QED
    BY <2>2, <2>3
<1>6. h[n] = Digits(number, digit, base, n)
  <2>1. n \in 0 .. n
    OBVIOUS
  <2>q. QED
    BY <1>3, <2>1
<1> HIDE DEF h
<1>q. QED
  BY <1>4, <1>5, <1>6 DEF AreDigits

\* One digit more.
LEMMA OneDigit ==
    ASSUME NEW number \in Nat, NEW digit \in Nat, NEW base \in Nat
    PROVE  /\ Digits(number, digit, base, 0) = number
           /\ \A n \in Nat : Digits(number, digit, base, n + 1)
                               = Digits(number, digit, base, n) * base + digit
<1> DEFINE d(n) == Digits(number, digit, base, n)
<1>1. d(0) = number
  <2>1. PICK h : AreDigits(h, number, digit, base, 0)
    BY DigitsChain, 0 \in Nat
  <2>q. QED
    BY <2>1 DEF AreDigits
<1>2. ASSUME NEW n \in Nat PROVE d(n + 1) = d(n) * base + digit
  <2>2. n + 1 \in Nat
    OBVIOUS
  <2>h. PICK h : AreDigits(h, number, digit, base, n)
    BY DigitsChain
  <2>1. /\ h[0] = number /\ h[n] = d(n)
        /\ \A k \in 1 .. n : h[k] = h[k - 1] * base + digit
    BY <2>h DEF AreDigits
  <2>g. PICK g : AreDigits(g, number, digit, base, n + 1)
    BY <2>2, DigitsChain
  <2>3. /\ g[0] = number /\ g[n + 1] = d(n + 1)
        /\ \A k \in 1 .. n + 1 : g[k] = g[k - 1] * base + digit
    BY <2>g DEF AreDigits
  <2> HIDE DEF d
  <2> DEFINE S == {k \in Nat : g[k] = h[k]}
  <2>4. 0 \in S
    BY <2>1, <2>3
  <2>5. ASSUME NEW k \in 0 .. n, k < n /\ k \in S PROVE k + 1 \in S
    <3>1. k + 1 \in 1 .. n /\ k + 1 \in 1 .. n + 1 /\ (k + 1) - 1 = k /\ k + 1 \in Nat
      BY <2>5
    <3>2. g[k + 1] = g[k] * base + digit /\ h[k + 1] = h[k] * base + digit
      BY <2>1, <2>3, <3>1
    <3>q. QED
      BY <2>5, <3>1, <3>2
  <2>6. n \in S
    <3> HIDE DEF S
    <3>1. \A k \in 0 .. n : k \in S
      BY <2>4, <2>5, Climb
    <3>q. QED
      BY <3>1
  <2>7. n + 1 \in 1 .. n + 1 /\ (n + 1) - 1 = n
    OBVIOUS
  <2>8. g[n + 1] = g[n] * base + digit
    BY <2>3, <2>7
  <2>q. QED
    BY <2>1, <2>3, <2>6, <2>8
<1>q. QED
  BY <1>1, <1>2

\* Powers of two.
LEMMA Powers ==
    /\ PowerOfTwo(0) = 1
    /\ \A n \in Nat : PowerOfTwo(n) \in Nat \ {0} /\ PowerOfTwo(n + 1) = 2 * PowerOfTwo(n)
<1> DEFINE f(n) == PowerOfTwo(n)
<1>1. f(0) = 1
  BY OneDigit, 0 \in Nat, 1 \in Nat, 2 \in Nat DEF PowerOfTwo
<1>2. \A n \in Nat : f(n + 1) = f(n) * 2 + 0
  BY OneDigit, 0 \in Nat, 1 \in Nat, 2 \in Nat DEF PowerOfTwo
<1> HIDE DEF f
<1>3. ASSUME NEW n \in Nat PROVE f(n) \in Nat \ {0}
  <2> DEFINE S == {k \in Nat : f(k) \in Nat \ {0}}
  <2>1. 0 \in S
    BY <1>1
  <2>2. ASSUME NEW k \in 0 .. n, k < n /\ k \in S PROVE k + 1 \in S
    <3>1. k \in Nat /\ k + 1 \in Nat /\ f(k) \in Nat \ {0} /\ f(k + 1) = f(k) * 2 + 0
      BY <1>2, <2>2
    <3>q. QED
      BY <3>1
  <2> HIDE DEF S
  <2>3. \A k \in 0 .. n : k \in S
    BY <2>1, <2>2, Climb
  <2>q. QED
    BY <2>3 DEF S
<1>4. ASSUME NEW n \in Nat PROVE f(n + 1) = 2 * f(n)
  <2>1. f(n + 1) = f(n) * 2 + 0 /\ f(n) \in Nat
    BY <1>2, <1>3
  <2>q. QED
    BY <2>1
<1>q. QED
  BY <1>1, <1>3, <1>4 DEF f

\* They multiply as their exponents add.
LEMMA PowersMultiply ==
    ASSUME NEW a \in Nat, NEW b \in Nat
    PROVE  PowerOfTwo(a + b) = PowerOfTwo(a) * PowerOfTwo(b)
<1> DEFINE S == {k \in Nat : PowerOfTwo(a + k) = PowerOfTwo(a) * PowerOfTwo(k)}
<1>1. 0 \in S
  <2>1. PowerOfTwo(0) = 1 /\ PowerOfTwo(a) \in Nat /\ a + 0 = a
    BY Powers
  <2>q. QED
    BY <2>1
<1>2. ASSUME NEW k \in 0 .. b, k < b /\ k \in S PROVE k + 1 \in S
  <2> DEFINE p == PowerOfTwo(a)
             q == PowerOfTwo(k)
             r == PowerOfTwo(a + k)
  <2>1. k \in Nat /\ k + 1 \in Nat /\ a + k \in Nat /\ a + (k + 1) = (a + k) + 1
    OBVIOUS
  <2>2. p \in Nat /\ q \in Nat /\ r \in Nat
    BY <2>1, Powers
  <2>3. PowerOfTwo(k + 1) = 2 * q
    BY <2>1, Powers
  <2>4. PowerOfTwo(a + (k + 1)) = 2 * r
    BY <2>1, Powers
  <2>5. r = p * q
    BY <1>2
  <2> HIDE DEF p, q, r
  <2>6. 2 * r = p * (2 * q)
    BY <2>2, <2>5
  <2>7. PowerOfTwo(a + (k + 1)) = p * PowerOfTwo(k + 1)
    BY <2>3, <2>4, <2>6
  <2>q. QED
    BY <2>1, <2>7 DEF p
<1> HIDE DEF S
<1>3. \A k \in 0 .. b : k \in S
  BY <1>1, <1>2, Climb
<1>q. QED
  BY <1>3 DEF S

\* Digits that are zero,
LEMMA ZeroDigits ==
    ASSUME NEW base \in Nat, NEW n \in Nat
    PROVE  Digits(0, 0, base, n) = 0
<1> DEFINE d(k) == Digits(0, 0, base, k)
           S == {k \in Nat : d(k) = 0}
<1>0. d(0) = 0 /\ \A k \in Nat : d(k + 1) = d(k) * base + 0
  BY OneDigit, 0 \in Nat
<1> HIDE DEF d
<1>1. 0 \in S
  BY <1>0
<1>2. ASSUME NEW k \in 0 .. n, k < n /\ k \in S PROVE k + 1 \in S
  <2>1. k \in Nat /\ k + 1 \in Nat /\ d(k) = 0 /\ d(k + 1) = d(k) * base + 0
    BY <1>0, <1>2
  <2>q. QED
    BY <2>1
<1> HIDE DEF S
<1>3. \A k \in 0 .. n : k \in S
  BY <1>1, <1>2, Climb
<1>q. QED
  BY <1>3 DEF S, d

\* and digits that are the largest of their base.
LEMMA LargestDigits ==
    ASSUME NEW from \in Nat, NEW n \in Nat
    PROVE  Digits(0, LargestSample(from), PowerOfTwo(from), n) = PowerOfTwo(n * from) - 1
<1> DEFINE b == PowerOfTwo(from)
           d(k) == Digits(0, b - 1, b, k)
           S == {k \in Nat : d(k) = PowerOfTwo(k * from) - 1}
<1>b. b \in Nat /\ b - 1 \in Nat
  <2>1. b \in Nat \ {0}
    BY Powers
  <2> HIDE DEF b
  <2>q. QED
    BY <2>1
<1>0. d(0) = 0 /\ \A k \in Nat : d(k + 1) = d(k) * b + (b - 1)
  <2> HIDE DEF b
  <2>q. QED
    BY <1>b, OneDigit, 0 \in Nat
<1> HIDE DEF d
<1>1. 0 \in S
  <2>1. 0 * from = 0 /\ PowerOfTwo(0) = 1
    BY Powers
  <2>q. QED
    BY <1>0, <2>1
<1>2. ASSUME NEW k \in 0 .. n, k < n /\ k \in S PROVE k + 1 \in S
  <2> DEFINE q == PowerOfTwo(k * from)
  <2>1. k \in Nat /\ k + 1 \in Nat /\ (k + 1) * from = k * from + from /\ k * from \in Nat
    <3>1. k \in Nat
      OBVIOUS
    <3>2. k * from \in Nat
      BY <3>1, ProductNatural
    <3>q. QED
      BY <3>1, <3>2
  <2>2. q \in Nat
    BY <2>1, Powers
  <2>3. PowerOfTwo((k + 1) * from) = q * b
    <3> DEFINE u == k * from
    <3>1. u \in Nat /\ (k + 1) * from = u + from
      BY <2>1
    <3> HIDE DEF u
    <3>2. PowerOfTwo(u + from) = PowerOfTwo(u) * PowerOfTwo(from)
      BY <3>1, PowersMultiply
    <3>q. QED
      BY <3>1, <3>2 DEF u
  <2>4. d(k + 1) = (q - 1) * b + (b - 1)
    BY <1>0, <1>2, <2>1
  <2> HIDE DEF q, b
  <2>5. (q - 1) * b + (b - 1) = q * b - 1
    BY <1>b, <2>2
  <2>q. QED
    BY <2>1, <2>3, <2>4, <2>5
<1> HIDE DEF S
<1>3. \A k \in 0 .. n : k \in S
  BY <1>1, <1>2, Climb
<1>4. d(n) = PowerOfTwo(n * from) - 1
  BY <1>3 DEF S
<1>q. QED
  BY <1>4 DEF d, LargestSample

\* Samples that are widened keep black and white.
LEMMA WidenedEnds ==
    ASSUME NEW from \in Nat \ {0}, NEW to \in Nat, from <= to
    PROVE  /\ Widened(0, from, to) = 0
           /\ Widened(LargestSample(from), from, to) = LargestSample(to)
<1>1. CASE from = to
  BY <1>1 DEF Widened
<1>2. CASE from # to
  <2> DEFINE n == CeilDiv(to, from)
             rest == n * from - to
             p == PowerOfTwo(rest)
             q == PowerOfTwo(to)
  <2>1. n \in Nat /\ rest \in Nat /\ n * from = to + rest
    <3>1. n \in Nat /\ to <= from * n
      BY CeilBounds
    <3> HIDE DEF n
    <3>2. n * from \in Nat /\ n * from = from * n
      BY <3>1, ProductNatural
    <3>q. QED
      BY <3>1, <3>2
  <2> HIDE DEF n
  <2>2. p \in Nat \ {0} /\ q \in Nat \ {0} /\ PowerOfTwo(from) \in Nat
    BY <2>1, Powers
  <2>3. Widened(0, from, to) = Digits(0, 0, PowerOfTwo(from), n) \div p
    BY <1>2 DEF Widened, n
  <2>4. Widened(LargestSample(from), from, to)
          = Digits(0, LargestSample(from), PowerOfTwo(from), n) \div p
    BY <1>2 DEF Widened, n
  <2>5. Digits(0, 0, PowerOfTwo(from), n) = 0
    BY <2>1, <2>2, ZeroDigits
  <2>6. Digits(0, LargestSample(from), PowerOfTwo(from), n) = q * p - 1
    <3>1. Digits(0, LargestSample(from), PowerOfTwo(from), n) = PowerOfTwo(n * from) - 1
      BY <2>1, LargestDigits
    <3>2. PowerOfTwo(to + rest) = q * p
      BY <2>1, PowersMultiply
    <3> HIDE DEF rest
    <3>q. QED
      BY <2>1, <3>1, <3>2
  <2> HIDE DEF p, q, rest
  <2>7. 0 \div p = 0
    BY <2>2, DivUnique, 0 \in Int
  <2>8. (q * p - 1) \div p = q - 1
    <3> DEFINE x == q * p - 1
    <3>1. q * p \in Nat /\ p * (q - 1) = q * p - p
      BY <2>2
    <3>2. x \in Int /\ q - 1 \in Int /\ p * (q - 1) <= x /\ x < p * (q - 1) + p
      BY <2>2, <3>1
    <3> HIDE DEF x
    <3>3. x \div p = q - 1
      BY <2>2, <3>2, DivUnique
    <3>q. QED
      BY <3>3 DEF x
  <2>q. QED
    BY <2>3, <2>4, <2>5, <2>6, <2>7, <2>8 DEF LargestSample, q
<1>q. QED
  BY <1>1, <1>2

\* The depth of a channel.
LEMMA DepthBounds ==
    ASSUME NEW i, Supported(i), NEW role \in Present(i)
    PROVE  DepthOf(i, role) \in 1 .. 16
<1> DEFINE P == Positions(i, role)
           k == Min(P)
<1>1. k \in P
  <2>1. P \in SUBSET Nat
    BY PositionsFinite
  <2>2. P # {}
    BY DEF Present
  <2> HIDE DEF P
  <2>q. QED
    BY <2>1, <2>2, LeastOfNaturals
<1>2. DepthOf(i, role) = Specs(i)[k].depth
  BY DEF DepthOf, SpecOf
<1> HIDE DEF k
<1>3. k \in 1 .. Len(Specs(i))
  BY <1>1 DEF Positions
<1>4. CASE i.profile # "none"
  <2>1. Specs(i) = ProfileSpecs(i.profile) /\ i.profile \in Profiles
    BY <1>4 DEF Specs, Supported, LayoutSupported, ComponentsSupported
  <2>2. \A n \in 1 .. Len(ProfileSpecs(i.profile)) : ProfileSpecs(i.profile)[n].depth = 8
    BY <2>1 DEF ProfileSpecs, Profiles, Byte
  <2>3. Specs(i)[k].depth = 8
    BY <1>3, <2>1, <2>2
  <2>q. QED
    BY <1>2, <2>3
<1>5. CASE i.profile = "none"
  <2>1. Specs(i) = [n \in 1 .. Len(i.components) |->
                     [role |-> i.types[i.components[n].index],
                      depth |-> i.components[n].depth, align |-> i.components[n].align]]
    BY <1>5 DEF Specs
  <2>2. DOMAIN Specs(i) = 1 .. Len(Specs(i))
    BY SpecsReal
  <2>3. k \in 1 .. Len(i.components)
    BY <1>3, <2>1, <2>2
  <2>4. Specs(i)[k].depth = i.components[k].depth
    BY <2>1, <2>3
  <2>5. i.components[k].depth \in 1 .. 16
    BY <1>5, <2>3 DEF Supported, LayoutSupported, ComponentsSupported
  <2>q. QED
    BY <1>2, <2>4, <2>5
<1>q. QED
  BY <1>4, <1>5

\* No channel is deeper than the picture.
LEMMA OutputCovers ==
    ASSUME NEW i, Supported(i), NEW role \in Present(i)
    PROVE  OutputDepth(i) \in Nat /\ DepthOf(i, role) <= OutputDepth(i)
<1> DEFINE D == {DepthOf(i, r) : r \in Present(i)}
           d == DepthOf(i, role)
<1>1. D \subseteq 1 .. 16
  BY DepthBounds
<1>2. d \in D
  OBVIOUS
<1>3. OutputDepth(i) = IF \E e \in D : D = {e} THEN CHOOSE e \in D : TRUE
                       ELSE IF \A e \in D : e <= 8 THEN 8 ELSE 16
  BY Zenon DEF OutputDepth
<1> HIDE DEF D, d
<1>4. CASE \E e \in D : D = {e}
  <2>1. OutputDepth(i) = CHOOSE e \in D : TRUE
    BY <1>3, <1>4
  <2>2. (CHOOSE e \in D : TRUE) \in D
    BY <1>2
  <2>3. OutputDepth(i) = d
    BY <1>2, <1>4, <2>1, <2>2
  <2>4. d \in 1 .. 16
    BY <1>1, <1>2
  <2>5. OutputDepth(i) \in Nat /\ d <= OutputDepth(i)
    BY <2>3, <2>4
  <2>q. QED
    BY <2>5 DEF d
<1>5. CASE ~ \E e \in D : D = {e}
  <2>1. OutputDepth(i) = IF \A e \in D : e <= 8 THEN 8 ELSE 16
    BY <1>3, <1>5
  <2>2. d \in 1 .. 16
    BY <1>1, <1>2
  <2>3. OutputDepth(i) \in Nat /\ d <= OutputDepth(i)
    BY <1>2, <2>1, <2>2
  <2>q. QED
    BY <2>3 DEF d
<1>q. QED
  BY <1>4, <1>5

\* The colours of a picture are channels that it has.
LEMMA ColoursPresent ==
    ASSUME NEW i, Supported(i)
    PROVE  Range(ColourRoles(i)) \subseteq Present(i)
<1>1. "mono" \in Present(i) \/ Rgb \subseteq Present(i) \/ YCbCr \subseteq Present(i)
  BY DEF Supported, LayoutSupported, ColoursSupported
<1>2. CASE "mono" \in Present(i)
  <2>1. ColourRoles(i) = << "mono", "mono", "mono" >>
    BY <1>2 DEF ColourRoles
  <2>q. QED
    BY <1>2, <2>1 DEF Range
<1>3. CASE "mono" \notin Present(i) /\ YCbCr \subseteq Present(i)
  <2>1. ColourRoles(i) = << "Y", "Cb", "Cr" >>
    BY <1>3 DEF ColourRoles
  <2>q. QED
    BY <1>3, <2>1 DEF Range, YCbCr
<1>4. CASE "mono" \notin Present(i) /\ ~(YCbCr \subseteq Present(i))
  <2>1. ColourRoles(i) = << "R", "G", "B" >> /\ Rgb \subseteq Present(i)
    BY <1>1, <1>4 DEF ColourRoles
  <2>q. QED
    BY <2>1 DEF Range, Rgb
<1>q. QED
  BY <1>2, <1>3, <1>4

\* The samples that have been collected are those of the layout.
LEMMA CollectedImplies == IInv /\ Collected => SamplesAtAddress
<1> SUFFICES ASSUME IInv, Collected PROVE SamplesAtAddress
  OBVIOUS
<1>1. pc \in {"done", "refused"} =>
        \A at \in DOMAIN channels :
          \/ channels[at] = Address(image, at[1], at[2], at[3])
          \/ pc = "refused" /\ channels[at] = << >>
  BY DEF Collected, InPlace, Laid
<1>2. ASSUME pc = "done"
      PROVE  /\ Range(ColourRoles(image)) \subseteq Present(image)
             /\ \A role \in Present(image) :
                  /\ DepthOf(image, role) <= OutputDepth(image)
                  /\ Widened(0, DepthOf(image, role), OutputDepth(image)) = 0
                  /\ Widened(LargestSample(DepthOf(image, role)), DepthOf(image, role),
                             OutputDepth(image))
                       = LargestSample(OutputDepth(image))
  <2>1. Supported(image)
    BY <1>2, ReaderGiven DEF Late
  <2>2. ASSUME NEW role \in Present(image)
        PROVE  /\ DepthOf(image, role) <= OutputDepth(image)
               /\ Widened(0, DepthOf(image, role), OutputDepth(image)) = 0
               /\ Widened(LargestSample(DepthOf(image, role)), DepthOf(image, role),
                          OutputDepth(image))
                    = LargestSample(OutputDepth(image))
    <3> DEFINE d == DepthOf(image, role)
               o == OutputDepth(image)
    <3>1. d \in 1 .. 16 /\ o \in Nat /\ d <= o
      BY <2>1, DepthBounds, OutputCovers
    <3> HIDE DEF d, o
    <3>2. d \in Nat \ {0}
      BY <3>1
    <3>3. Widened(0, d, o) = 0 /\ Widened(LargestSample(d), d, o) = LargestSample(o)
      BY <3>1, <3>2, WidenedEnds
    <3>q. QED
      BY <3>1, <3>3 DEF d, o
  <2>q. QED
    BY <2>1, <2>2, ColoursPresent
<1>q. QED
  BY <1>1, <1>2 DEF SamplesAtAddress

\* Whatever the interleaving, the alignments, the tiles and the subsampling,
\* every sample that a decode leaves in its channels is the bits that the
\* layout gives it, none is missing when it is done, and the channels are
\* there and reach one depth without losing black or white.
THEOREM SamplesPlaced == Spec => []SamplesAtAddress
  BY InvAlways, CollectedAlways, CollectedImplies, PTL

=============================================================================
