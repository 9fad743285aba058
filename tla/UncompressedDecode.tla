-------------------------- MODULE UncompressedDecode --------------------------
(***************************************************************************)
(* The decode of an uncompressed image, from the properties of its item to *)
(* the samples of its channels: the properties are checked, the extents of *)
(* the item are copied, its compressed units are inflated into a budget     *)
(* that the layout alone decides, and the bits are read in the order of the *)
(* interleaving.  A sample is the interval of its bits in the payload.      *)
(***************************************************************************)
EXTENDS UncompressedLayout

CONSTANTS
  InitialReserve,       \* bytes reserved for a small payload
  ReadChunk,            \* GENERIC_COMPRESSION_READ_CHUNK_BYTES
  UnconditionalLayout,  \* GENERIC_COMPRESSION_UNCONDITIONAL_LAYOUT_BYTES
  LayoutRatio,          \* GENERIC_COMPRESSION_MAX_LAYOUT_TO_SAMPLE_RATIO
  MaxTotal,             \* GENERIC_COMPRESSION_LIMITS.max_total_bytes
  MaxUnits              \* GENERIC_COMPRESSION_LIMITS.max_units

ASSUME LimitsAssumption ==
  /\ {InitialReserve, ReadChunk, UnconditionalLayout, LayoutRatio, MaxUnits}
       \subseteq Nat \ {0}
  /\ MaxTotal \in Nat
  /\ UnconditionalLayout <= MaxTotal

VARIABLES
  image,     \* the properties, extents and compressed units of the item
  pc,        \* the step that decode_primary_uncompressed is at
  cause,     \* why it was refused
  extent,    \* extents copied so far
  payload,   \* bytes copied so far
  unit,      \* compressed units inflated so far
  given,     \* bytes that the current unit has given
  out,       \* bytes inflated so far, over all units
  cap,       \* capacity of the buffer they are in
  rd,        \* the bit reader
  pos,       \* the counters of its loops: tile, part, line, column
  channels   \* the samples, by role and pixel

vars == << image, pc, cause, extent, payload, unit, given, out, cap, rd, pos,
           channels >>

Lesser(a, b) == IF a < b THEN a ELSE b
Greater(a, b) == IF a > b THEN a ELSE b

Reader(bit) == [bit |-> bit, pixel |-> bit, row |-> bit \div 8,
                tile |-> bit \div 8, cause |-> "none"]
Origin == [tile |-> 0, part |-> 0, line |-> 0, column |-> 0]
Pixels(i) == (0 .. i.width - 1) \X (0 .. i.height - 1)

(* What the boxes of the item can hold, whether or not it is supported: the *)
(* counts of tiles are stored less one, and each unit inflates to something. *)
IsImage(i) ==
  /\ {i.width, i.height, i.pixelSize, i.rowAlign, i.tileAlign} \subseteq Nat
  /\ {i.cols, i.rows} \subseteq Nat \ {0}
  /\ i.components \in Seq([index : Nat \ {0}, depth : Nat, align : Nat,
                           format : STRING])
  /\ i.extents \in Seq([start : Nat, length : Nat])
  /\ i.icef \in Seq([implied : BOOLEAN, offsets : Seq(Nat), sizes : Seq(Nat),
                     whole : BOOLEAN])
  /\ i.contents \in Seq([bytes : Nat, ends : STRING])
  /\ i.cmpC # << >> =>
       /\ i.contents # << >>
       /\ i.icef # << >> => Len(i.contents) >= Len(i.icef[1].sizes)

Starts(i) ==
  /\ image = i
  /\ pc = "properties"
  /\ cause = "none"
  /\ extent = 0 /\ payload = 0
  /\ unit = 0 /\ given = 0 /\ out = 0 /\ cap = 0
  /\ rd = Reader(0)
  /\ pos = Origin
  /\ channels = << >>

Init == Starts(image) /\ IsImage(image)

Refuse(why) ==
  /\ pc' = "refused"
  /\ cause' = why
  /\ UNCHANGED << image, extent, payload, unit, given, out, cap, rd, pos,
                  channels >>

Check(at, holds, next, why) ==
  /\ pc = at
  /\ \/ ~holds /\ Refuse(why)
     \/ /\ holds
        /\ pc' = next
        /\ UNCHANGED << image, cause, extent, payload, unit, given, out, cap, rd,
                        pos, channels >>

(***************************************************************************)
(* Properties and extents.                                                 *)
(***************************************************************************)
ResolveProperties ==
  Check("properties", PropertiesResolve(image), "layout", "properties")

CheckLayout == Check("layout", LayoutSupported(image), "extents", "layout")

ExtentLengths(i) == [k \in 1 .. Len(i.extents) |-> i.extents[k].length]

ExtentsInside(i) ==
  /\ i.external = FALSE
  /\ i.method \in {"file", "idat"}
  /\ \A k \in 1 .. Len(i.extents) :
       i.extents[k].start + i.extents[k].length <= i.available
  /\ Sum(ExtentLengths(i)) <= i.available

CheckExtents == Check("extents", ExtentsInside(image), "copy", "extents")

CopyExtent ==
  /\ pc = "copy"
  /\ extent < Len(image.extents)
  /\ extent' = extent + 1
  /\ payload' = payload + image.extents[extent + 1].length
  /\ UNCHANGED << image, pc, cause, unit, given, out, cap, rd, pos, channels >>

(* Only the extents of a file that is read through a source can fail. *)
FailExtent ==
  /\ pc = "copy"
  /\ extent < Len(image.extents)
  /\ image.method = "file"
  /\ Refuse("source")

EndCopy ==
  /\ pc = "copy"
  /\ extent = Len(image.extents)
  /\ pc' = "compression"
  /\ UNCHANGED << image, cause, extent, payload, unit, given, out, cap, rd, pos,
                  channels >>

(***************************************************************************)
(* Generic compression.                                                    *)
(***************************************************************************)
Compressed(i) == i.cmpC # << >>

(* The offset of a unit that states none is the end of the one before it. *)
UnitsOf(icef) ==
  [k \in 1 .. Len(icef.sizes) |->
    [offset |-> IF icef.implied THEN Sum(Before(icef.sizes, k)) ELSE icef.offsets[k],
     size |-> icef.sizes[k]]]

StatedUnits(i) == IF i.icef = << >> THEN << >> ELSE UnitsOf(i.icef[1])

Units(i) ==
  IF StatedUnits(i) = << >> THEN << [offset |-> 0, size |-> payload] >>
  ELSE StatedUnits(i)

CmpCParses(cmpC) ==
  cmpC.kind \in {"fullItem", "image", "tile", "row", "pixel"}

CompressionSupported(i) ==
  /\ Len(i.cmpC) <= 1
  /\ Len(i.icef) <= 1
  /\ Compressed(i) =>
       /\ CmpCParses(i.cmpC[1])
       /\ i.icef # << >> => i.icef[1].whole
       /\ i.cmpC[1].kind # "pixel"
       /\ i.cmpC[1].kind \in {"tile", "row"} => StatedUnits(i) # << >>
       /\ i.cmpC[1].codec \in {"brotli", "zlib", "deflate"}

(* The layout may pad its samples, but not without a bound. *)
SampleBytes(i) ==
  CeilDiv(MinimumBits(i, SelectSeq(Specs(i), LAMBDA spec : spec.role # "padded")), 8)

LayoutLimit(i) ==
  Lesser(Greater(SampleBytes(i) * LayoutRatio, UnconditionalLayout), MaxTotal)

Budget == PayloadBytes(image)

WithoutCompression ==
  /\ pc = "compression"
  /\ CompressionSupported(image)
  /\ ~Compressed(image)
  /\ pc' = "size"
  /\ UNCHANGED << image, cause, extent, payload, unit, given, out, cap, rd, pos,
                  channels >>

RefuseCompression ==
  /\ pc = "compression"
  /\ \/ ~CompressionSupported(image) /\ Refuse("compression")
     \/ /\ CompressionSupported(image)
        /\ Compressed(image)
        /\ Budget > LayoutLimit(image) \/ Len(Units(image)) > MaxUnits
        /\ Refuse("limit")

StartInflation ==
  /\ pc = "compression"
  /\ CompressionSupported(image)
  /\ Compressed(image)
  /\ Budget <= LayoutLimit(image)
  /\ Len(Units(image)) <= MaxUnits
  /\ cap' = Lesser(Budget, Greater(payload * 4, InitialReserve))
  /\ pc' = "unit"
  /\ UNCHANGED << image, cause, extent, payload, unit, given, out, rd, pos,
                  channels >>

Current == Units(image)[unit + 1]
Content == image.contents[unit + 1]
Left == Content.bytes - given
Remaining == Budget - out

UnitInside == Current.offset + Current.size <= payload
UnitOpens == ~(image.cmpC[1].codec = "brotli" /\ Content.ends = "largeWindow")

StartUnit ==
  /\ pc = "unit"
  /\ unit < Len(Units(image))
  /\ \/ ~UnitInside /\ Refuse("unitRange")
     \/ UnitInside /\ ~UnitOpens /\ Refuse("window")
     \/ /\ UnitInside
        /\ UnitOpens
        /\ given' = 0
        /\ pc' = "inflate"
        /\ UNCHANGED << image, cause, extent, payload, unit, out, cap, rd, pos,
                        channels >>

\* Mutant of Chunk: a whole chunk is read whatever remains of the budget.
WholeChunk == ReadChunk

Chunk == Lesser(Remaining, ReadChunk)

Grown ==
  IF cap - out >= Chunk THEN cap
  ELSE Lesser(Greater(cap * 2, out + Chunk), Budget)

(* The decoder of a unit gives as many bytes as it likes, at least one. *)
InflateChunk ==
  /\ pc = "inflate"
  /\ Remaining > 0
  /\ \E n \in 1 .. Lesser(Chunk, Left) :
       /\ given' = given + n
       /\ out' = out + n
  /\ cap' = Grown
  /\ UNCHANGED << image, pc, cause, extent, payload, unit, rd, pos, channels >>

(* At its end it gives nothing, and no more is asked for.  With the budget  *)
(* used up, one byte too many is enough to refuse.                          *)
EndUnit ==
  /\ pc = "inflate"
  /\ Left = 0
  /\ Content.ends = "well"
  /\ unit' = unit + 1
  /\ pc' = "unit"
  /\ cap' = IF Remaining = 0 THEN cap ELSE Grown
  /\ UNCHANGED << image, cause, extent, payload, given, out, rd, pos, channels >>

FailUnit ==
  /\ pc = "inflate"
  /\ \/ Left = 0 /\ Content.ends # "well" /\ Refuse("corrupt")
     \/ Left > 0 /\ Remaining = 0 /\ Refuse("budget")

EndInflation ==
  /\ pc = "unit"
  /\ unit = Len(Units(image))
  /\ pc' = "size"
  /\ UNCHANGED << image, cause, extent, payload, unit, given, out, cap, rd, pos,
                  channels >>

DataBytes == IF Compressed(image) THEN out ELSE payload

(***************************************************************************)
(* The bit reader.  An error in it ends the decode.                        *)
(***************************************************************************)
Ends(r, why) == IF r.cause = "none" THEN [r EXCEPT !.cause = why] ELSE r

SkipTo(r, bit, total) ==
  IF r.cause # "none" THEN r
  ELSE IF bit > total THEN Ends(r, "truncated")
  ELSE [r EXCEPT !.bit = bit]

\* Mutant of SampleStart: the padding is not skipped.
SampleAtByte(bit, spec) == IF spec.align = 0 THEN bit ELSE ToByte(bit)

(* The padding of an aligned sample precedes its bits. *)
SampleStart(bit, spec) ==
  IF spec.align = 0 THEN bit ELSE ToByte(bit) + spec.align * 8 - spec.depth

ReadSample(s, spec, total) ==
  IF spec.align # 0 /\ spec.align * 8 < spec.depth
  THEN [s EXCEPT !.r = Ends(s.r, "align")]
  ELSE LET start == SampleStart(s.r.bit, spec)
       IN [r |-> SkipTo(s.r, start + spec.depth, total),
           spans |-> Append(s.spans, << start, start + spec.depth - 1 >>)]

ReadSamples(r, group, total) ==
  FoldLeft(LAMBDA s, spec : ReadSample(s, spec, total),
           [r |-> r, spans |-> << >>], group)

MarkPixel(r) == [r EXCEPT !.pixel = r.bit]
MarkRow(r) == [r EXCEPT !.row = r.bit \div 8]
MarkTile(r) == [r EXCEPT !.tile = r.bit \div 8]

AlignPixel(r, size, total) ==
  IF size = 0 THEN r
  ELSE IF r.bit - r.pixel > size * 8 THEN Ends(r, "pixelSize")
  ELSE SkipTo(r, r.pixel + size * 8, total)

AlignFrom(r, byte, alignment, total) ==
  SkipTo(r, 8 * (byte + AlignUp(r.bit \div 8 - byte, alignment)), total)

AlignByte(r) == [r EXCEPT !.bit = ToByte(r.bit)]
AlignRow(r, i, total) == AlignFrom(AlignByte(r), r.row, i.rowAlign, total)

AlignTile(r, i, total) ==
  IF i.tileAlign = 0 THEN r ELSE AlignFrom(r, r.tile, i.tileAlign, total)

(***************************************************************************)
(* The loops.  Every interleaving is a part, its lines and their columns;  *)
(* a column is a group of samples that are read one after the other.  The  *)
(* shape of a position says how far its loops go, the group, the pixel     *)
(* that the column stands for and how far each sample of it reaches.       *)
(***************************************************************************)
SampledShape(i, next, group, p) ==
  LET step == Step(i, group[1].role) IN
  [group |-> group,
   parts |-> Len(Specs(i)),
   next |-> next,
   lines |-> TileHeight(i) \div step[2],
   columns |-> TileWidth(i) \div step[1],
   at |-> << p.column * step[1], p.line * step[2] >>]

ComponentShape(i, p) ==
  SampledShape(i, p.part + 1, << Specs(i)[p.part + 1] >>, p)

(* The second chroma component was read with the first: it is passed over. *)
NextTurn(i, part) ==
  Min({k \in part + 1 .. Len(Specs(i)) :
         k = Len(Specs(i)) \/ MixedGroup(i, k + 1) # << >>})

MixedShape(i, p) ==
  SampledShape(i, NextTurn(i, p.part), MixedGroup(i, p.part + 1), p)

RowShape(i, p) ==
  [group |-> << Specs(i)[p.line + 1] >>,
   parts |-> TileHeight(i),
   next |-> p.part + 1,
   lines |-> Len(Specs(i)),
   columns |-> TileWidth(i),
   at |-> << p.column, p.part >>]

GroupShape(i, p) ==
  LET step == ChromaStep(Sampling(i)) IN
  [group |-> Specs(i),
   parts |-> 1,
   next |-> p.part + 1,
   lines |-> TileHeight(i) \div step[2],
   columns |-> TileWidth(i) \div step[1],
   at |-> << p.column * step[1], p.line * step[2] >>]

(* Of the luma samples of a group each has a pixel of its own. *)
SampleAt(shape, i, k) ==
  IF InterleaveType(i) = "multiY" /\ shape.group[k].role = "Y"
  THEN LET nth == Cardinality({n \in 1 .. k - 1 : shape.group[n].role = "Y"})
           step == ChromaStep(Sampling(i))
       IN << shape.at[1] + (nth % step[1]), shape.at[2] + (nth \div step[1]) >>
  ELSE shape.at

(* write_uncompressed_component_sample_block *)
Block(shape, i, tile, k) ==
  LET at == SampleAt(shape, i, k)
      step == Step(i, shape.group[k].role)
      x == (tile % i.cols) * TileWidth(i) + at[1]
      y == (tile \div i.cols) * TileHeight(i) + at[2]
  IN (x .. x + step[1] - 1) \X (y .. y + step[2] - 1)

(* A tile of the tile-component interleaving is read from a copy of its     *)
(* components' slices; the bit of the copy lies in the payload.             *)
Slices(i) == ComponentTileSizes(i, i.tileAlign)

Gathered(i, tile, bit) ==
  LET sizes == Slices(i)
      byte == bit \div 8
      k == CHOOSE n \in 1 .. Len(sizes) :
             /\ Sum(Before(sizes, n)) <= byte
             /\ byte < Sum(Before(sizes, n)) + sizes[n]
      offset == byte - Sum(Before(sizes, k))
  IN 8 * (Sum(Before(sizes, k)) * TileCount(i) + sizes[k] * tile + offset) + (bit % 8)

InPayload(i, tile, span) ==
  IF InterleaveType(i) = "tileComponent"
  THEN << Gathered(i, tile, span[1]), Gathered(i, tile, span[2]) >>
  ELSE span

ReaderBits == 8 * (IF InterleaveType(image) = "tileComponent" THEN Sum(Slices(image))
                   ELSE DataBytes)

(* What the decoder does before a column and after it.  The samples of a    *)
(* column that fails are dropped with all the others, and are not written.  *)
Marked(r, p) ==
  LET t == IF p.part = 0 /\ p.line = 0 /\ p.column = 0 THEN MarkTile(r) ELSE r
      l == IF p.column = 0 THEN MarkRow(t) ELSE t
  IN MarkPixel(l)

LastColumn(shape, p) == p.column + 1 = shape.columns
LastLine(shape, p) == LastColumn(shape, p) /\ p.line + 1 = shape.lines
LastPart(shape, p) == LastLine(shape, p) /\ shape.next = shape.parts

AfterColumn(r, i, total) ==
  IF InterleaveType(i) \in {"pixel", "multiY"} THEN AlignPixel(r, i.pixelSize, total)
  ELSE r

AfterLine(r, i, total) ==
  IF InterleaveType(i) = "mixed" THEN AlignByte(r) ELSE AlignRow(r, i, total)

AfterPart(r, i, total) ==
  IF InterleaveType(i) = "tileComponent" THEN AlignTile(r, i, total) ELSE r

AfterTile(r, i, total) ==
  IF InterleaveType(i) = "mixed" /\ FirstChroma(i) = 0 THEN Ends(r, "chroma")
  ELSE IF InterleaveType(i) = "tileComponent" THEN [r EXCEPT !.bit = 0]
  ELSE AlignTile(r, i, total)

Aligned(r, shape, i, p, total) ==
  LET column == AfterColumn(r, i, total)
      line == IF LastColumn(shape, p) THEN AfterLine(column, i, total) ELSE column
      part == IF LastLine(shape, p) THEN AfterPart(line, i, total) ELSE line
      tile == IF LastPart(shape, p) THEN AfterTile(part, i, total) ELSE part
  IN IF part.cause = "none" THEN tile ELSE part

NextPosition(shape, p) ==
  IF ~LastColumn(shape, p) THEN [p EXCEPT !.column = @ + 1]
  ELSE IF ~LastLine(shape, p) THEN [p EXCEPT !.column = 0, !.line = @ + 1]
  ELSE IF ~LastPart(shape, p) THEN [p EXCEPT !.column = 0, !.line = 0, !.part = shape.next]
  ELSE [Origin EXCEPT !.tile = p.tile + 1]

Written(i, shape, tile, spans) ==
  [at \in DOMAIN channels |->
    LET hits == {k \in 1 .. Len(spans) :
                   /\ shape.group[k].role = at[1]
                   /\ << at[2], at[3] >> \in Block(shape, i, tile, k)}
    IN IF hits = {} THEN channels[at]
       ELSE InPayload(i, tile, spans[CHOOSE k \in hits : \A n \in hits : n <= k])]

ReadColumn(shape) ==
  LET read == ReadSamples(Marked(rd, pos), shape.group, ReaderBits)
      after == Aligned(read.r, shape, image, pos, ReaderBits)
  IN /\ rd' = after
     /\ channels' = IF read.r.cause # "none" THEN channels
                    ELSE Written(image, shape, pos.tile, read.spans)
     /\ pos' = NextPosition(shape, pos)
     /\ cause' = IF after.cause # "none" THEN "reader" ELSE "none"
     /\ pc' = IF after.cause # "none" THEN "refused"
              ELSE IF pos'.tile = TileCount(image) THEN "convert"
              ELSE "read"
     /\ UNCHANGED << image, extent, payload, unit, given, out, cap >>

SizeSuffices ==
  DataBytes * 8 >= MinimumBits(image, Specs(image))

SlicesSuffice ==
  InterleaveType(image) = "tileComponent" =>
    Sum(Slices(image)) * TileCount(image) <= DataBytes

CheckSize ==
  /\ pc = "size"
  /\ \/ ~SizeSuffices /\ Refuse("size")
     \/ SizeSuffices /\ ~SlicesSuffice /\ Refuse("truncated")
     \/ /\ SizeSuffices
        /\ SlicesSuffice
        /\ pc' = "read"
        /\ channels' = [at \in {<< role, p[1], p[2] >> :
                                  role \in Present(image), p \in Pixels(image)} |-> << >>]
        /\ UNCHANGED << image, cause, extent, payload, unit, given, out, cap, rd, pos >>

ReadComponents ==
  /\ pc = "read"
  /\ InterleaveType(image) \in {"component", "tileComponent"}
  /\ ReadColumn(ComponentShape(image, pos))

ReadMixed ==
  /\ pc = "read"
  /\ InterleaveType(image) = "mixed"
  /\ ReadColumn(MixedShape(image, pos))

ReadRows ==
  /\ pc = "read"
  /\ InterleaveType(image) = "row"
  /\ ReadColumn(RowShape(image, pos))

ReadPixels ==
  /\ pc = "read"
  /\ InterleaveType(image) = "pixel"
  /\ ReadColumn(GroupShape(image, pos))

ReadMultiY ==
  /\ pc = "read"
  /\ InterleaveType(image) = "multiY"
  /\ ReadColumn(GroupShape(image, pos))

(***************************************************************************)
(* The pixels.  Every channel is widened to one depth; luma and chroma need *)
(* a matrix that is supported, and a missing alpha is the largest sample.   *)
(***************************************************************************)
ColourRoles(i) ==
  IF "mono" \in Present(i) THEN << "mono", "mono", "mono" >>
  ELSE IF YCbCr \subseteq Present(i) THEN << "Y", "Cb", "Cr" >>
  ELSE << "R", "G", "B" >>

Convert ==
  Check("convert", YCbCr \subseteq Present(image) => image.matrix # "other",
        "done", "matrix")

Next ==
  \/ ResolveProperties \/ CheckLayout
  \/ CheckExtents \/ CopyExtent \/ FailExtent \/ EndCopy
  \/ WithoutCompression \/ RefuseCompression \/ StartInflation
  \/ StartUnit \/ InflateChunk \/ EndUnit \/ FailUnit \/ EndInflation
  \/ CheckSize
  \/ ReadComponents \/ ReadMixed \/ ReadRows \/ ReadPixels \/ ReadMultiY
  \/ Convert

Spec == Init /\ [][Next]_vars

(***************************************************************************)
(* Properties.                                                             *)
(***************************************************************************)
(* Every sample of every pixel is the bits that the layout of the image     *)
(* gives it, whatever the interleaving, the alignments of samples, pixels,  *)
(* rows and tiles and the subsampling; a decode that is cut short has       *)
(* written no sample of another place.  The loops of the interleavings      *)
(* keep a cursor and never compute an address (lib.rs 2667 to 3215, 3486 to *)
(* 3560).  A pixel is made of channels that the image has, brought to one   *)
(* depth in a way that keeps black and white at the ends of its range.      *)
SamplesAtAddress ==
  /\ pc \in {"done", "refused"} =>
    \A at \in DOMAIN channels :
      \/ channels[at] = Address(image, at[1], at[2], at[3])
      \/ pc = "refused" /\ channels[at] = << >>
  /\ pc = "done" =>
    /\ Range(ColourRoles(image)) \subseteq Present(image)
    /\ \A role \in Present(image) :
         LET depth == DepthOf(image, role) IN
         /\ depth <= OutputDepth(image)
         /\ Widened(0, depth, OutputDepth(image)) = 0
         /\ Widened(LargestSample(depth), depth, OutputDepth(image))
              = LargestSample(OutputDepth(image))

PixelFits(i) ==
  i.pixelSize # 0 => GroupEndBit(Specs(i), 0) <= 8 * i.pixelSize

(* The size that uncompressed_payload_size_bytes computes in advance is     *)
(* what the reader consumes: it is the budget of the inflation, so a size   *)
(* too small would refuse valid images and one too large would inflate more *)
(* than is read.  Only data shorter than that is found truncated, unless    *)
(* pixel_size is too small for a pixel.                                     *)
ReadsExactlyLayout ==
  /\ pc \in {"read", "done"} => rd.bit \in 0 .. ReaderBits
  /\ pc = "done" /\ InterleaveType(image) # "tileComponent" =>
       rd.bit = 8 * PayloadBytes(image)
  /\ pc = "done" => DataBytes >= PayloadBytes(image)
  /\ (cause \in {"truncated", "size"} \/ rd.cause = "truncated") /\ PixelFits(image) =>
       DataBytes < PayloadBytes(image)

(* However the decoders of the units deal out their bytes, what they give   *)
(* stays within the budget of the layout, the buffer within what was        *)
(* allowed before, and an image is read only from units inflated whole.     *)
InflatesWithinBudget ==
  /\ cap > 0 => cap <= Budget /\ Budget <= LayoutLimit(image)
  /\ out <= cap
  /\ pc \in {"size", "read", "done"} /\ Compressed(image) =>
       out = Sum([k \in 1 .. Len(Units(image)) |-> image.contents[k].bytes])
  /\ cause = "budget" =>
       Sum([k \in 1 .. Len(Units(image)) |-> image.contents[k].bytes]) > Budget

===============================================================================
