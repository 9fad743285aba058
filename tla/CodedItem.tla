------------------------------ MODULE CodedItem ------------------------------
(***************************************************************************)
(* The NAL units of HEVC items, and which of them are decoded.  They are   *)
(* those of the configuration (hvcC) and then those of the payload, and    *)
(* nothing makes a file carry one parameter set of a kind, or one picture. *)
(*                                                                         *)
(*   the eager path    foresees the memory of a decode from every sequence *)
(*                     parameter set (geometry.rs), takes the metadata     *)
(*                     from the first, and decodes all slices with the     *)
(*                     last of each kind (hevc/mod.rs);                    *)
(*   codec::prepare    of the bounded path takes sets that are repeated    *)
(*                     byte for byte, and one IDR slice;                   *)
(*   slice() and prepared() of the incremental path take the sets of the   *)
(*                     configuration only and scan the payload.            *)
(*                                                                         *)
(* A NAL unit has a kind, what its header says, a size, a number of        *)
(* emulation prevention bytes, and the name of what it holds.              *)
(***************************************************************************)
EXTENDS Transforms, FiniteSetsExt

CONSTANTS
    Sps,                \* the sequence parameter sets that parse, by name
    MaxExtent,          \* of a coded picture, per side (16384)
    MaxNals,            \* NAL units that Nals::add takes (1024)
    MaxParameterBytes,  \* of one parameter set there (65536)
    TileBudget,         \* GRID_TILE_DECODE_MEMORY_BUDGET
    SpanLimit,          \* GRID_SINGLE_SPAN_TILE_EXTENT_LIMIT
    NalBytes, UnitBytes \* size_of::<NalUnit>, of LengthPrefixedHevcNalUnit

\* A sequence parameter set as it parses: nothing says yet that a picture of it
\* can be shown, or decoded.
ASSUME SpsAssumption ==
    \A name \in DOMAIN Sps :
        Sps[name] \in [w : Nat, h : Nat, right : Nat, bottom : Nat, chroma : Nat,
                      planes : BOOLEAN, luma : Nat, chromaDepth : Nat, ctb : Nat,
                      tool : BOOLEAN]

ASSUME LimitsAssumption ==
    /\ {MaxExtent, MaxNals, MaxParameterBytes, TileBudget, SpanLimit} \subseteq Nat
    /\ {NalBytes, UnitBytes} \subseteq Nat \ {0}

VARIABLES
    item,       \* [kind, streams, w, h, columns, rows, limit]; the limit of
                \* pixels is a set of none or one, w and h those of ispe, of
                \* the primary item (alpha), or of the output (grid)
    stage,      \* of the eager path
    tile,       \* the stream it is at
    next,       \* and the next of its NAL units
    largest,    \* bytes of the largest picture foreseen, none yet if 0
    counted,    \* HeicGridTileStreamMemoryEstimate
    foreseen,   \* what the preflight found, per stream
    buffer,     \* bytes used and allocated of the assembled stream
    metadata,   \* of the first sequence parameter set
    kept,       \* the parameter sets decode_nal_units has
    frames,     \* allocated, per stream
    drawn,      \* the slices decoded into the last of them
    images,     \* the tiles that are done
    prepared,   \* what codec::prepare gives
    streamed    \* what slice() and prepared() give

eagerVars == <<stage, tile, next, largest, counted, foreseen, buffer, metadata,
               kept, frames, drawn, images>>
otherVars == <<item, prepared, streamed>>
codedVars == <<eagerVars, otherVars>>

ParameterKinds == {"vps", "sps", "pps"}
SliceKinds == {"idr", "slice"}
VclKinds == SliceKinds \cup {"vcl"}
NalKinds == ParameterKinds \cup VclKinds \cup {"aside", "other"}

\* NAL units of less than two bytes have no header.
NalUnit ==
    {nal \in [kind : NalKinds, content : STRING, size : Nat, removed : Nat,
              header : {"base", "layer", "temporal", "damaged", "short"}] :
         nal.header = "short" <=> nal.size < 2}

Items ==
    {i \in [kind : {"coded", "alpha", "grid"}, w : Nat, h : Nat,
            columns : Nat \ {0}, rows : Nat \ {0}, limit : SUBSET Nat,
            streams : Seq([config : Seq(NalUnit), payload : Seq(NalUnit),
                           transforms : Seq(Transform)])] :
         i.kind # "grid" => Len(i.streams) = 1}

Stream == item.streams[tile]
Nals == Stream.config \o Stream.payload

\* nal_unit_type: a NAL unit of less than two bytes has none.
HasType(nal) == nal.header # "short"
IsSps(nal) == HasType(nal) /\ nal.kind = "sps"

\* parse_nal_header: the forbidden bit is not set, the temporal id not zero.
HeaderParses(nal) == nal.header \notin {"short", "damaged"}

\* hevc_sps_from_nal.
SpsParses(nal) == HeaderParses(nal) /\ nal.content \in DOMAIN Sps

Refused == [is |-> "refused"]
Pending == [is |-> "pending"]

-----------------------------------------------------------------------------
(* Sequence parameter sets.                                                *)

SubWidth(chroma) == IF chroma \in {1, 2} THEN 2 ELSE 1
SubHeight(chroma) == IF chroma = 1 THEN 2 ELSE 1

CropX(s) == s.right * SubWidth(s.chroma)
CropY(s) == s.bottom * SubHeight(s.chroma)

\* hevc_metadata_from_sps.
Metadata(s) ==
    [w |-> Greater(s.w - CropX(s), 0), h |-> Greater(s.h - CropY(s), 0),
     layout |-> IF s.planes THEN 0 ELSE s.chroma,
     luma |-> s.luma, chroma |-> s.chromaDepth]

HasMetadata(s) ==
    Metadata(s).w > 0 /\ Metadata(s).h > 0 /\ Metadata(s).layout <= 3

\* estimate_heic_grid_sps_decode_bytes.
WorkingBytes == <<4, 6, 8, 12>>
SpsBytes(s) == s.w * s.h * WorkingBytes[s.chroma + 1]

Turned(transforms) == Len(SelectSeq(transforms, Swaps)) % 2 = 1

-----------------------------------------------------------------------------
(* The preflight.                                                          *)

PaddedExtent(value, alignment) == CeilDiv(value, alignment) * alignment

SingleSpan(extent, alignment, stacks) ==
    Greater(PaddedExtent(extent, alignment), IF stacks THEN SpanLimit ELSE 0)

\* The longest side of a tile: each column and row begins within the output.
MaxSpan(extent, spans, others, alignment) ==
    IF spans > 1 THEN (extent - 1) \div (spans - 1)
    ELSE SingleSpan(extent, alignment, others > 1)

GridBudgetExtent(extent, spans, others) ==
    IF spans = 1 /\ others > 1 THEN Greater(extent, SpanLimit) ELSE extent

DecodedByteBudget(pixels) == 12 * pixels + TileBudget

\* The pixels of which the least decides.
BudgetPixels ==
    item.limit \cup
        CASE item.kind = "coded" -> {}
          [] item.kind = "alpha" -> {item.w * item.h}
          [] item.kind = "grid"  ->
                 {GridBudgetExtent(item.w, item.columns, item.rows)
                      * GridBudgetExtent(item.h, item.rows, item.columns)}

OverBudget(bytes) == \E p \in BudgetPixels : bytes > DecodedByteBudget(p)

OverLimit(w, h) == \E m \in item.limit : w * h > m

\* check_sps, but for the limit of pixels.
SpsRefused(s) ==
    \/ s.ctb \notin 4 .. 6
    \/ s.chroma > 3
    \/ ~HasMetadata(s)
    \/ item.kind = "alpha" /\ <<Metadata(s).w, Metadata(s).h>> # <<item.w, item.h>>

\* The checks of preflight_grid of one set of a tile.
TileRefused(s) ==
    LET shown == Metadata(s)
        plan == Plan(shown.w, shown.h, Stream.transforms)
        side == 2 ^ s.ctb
        maxWidth == MaxSpan(item.w, item.columns, item.rows, side)
        maxHeight == MaxSpan(item.h, item.rows, item.columns, side)
        turned == Turned(Stream.transforms)
    IN  \/ ~plan.valid
        \/ plan.w > maxWidth \/ plan.h > maxHeight
        \/ s.w > PaddedExtent(shown.w, side) \/ s.h > PaddedExtent(shown.h, side)
        \/ (IF turned THEN s.h ELSE s.w) > PaddedExtent(maxWidth, side)
        \/ (IF turned THEN s.w ELSE s.h) > PaddedExtent(maxHeight, side)

NothingCounted == [stream |-> 0, rbsp |-> 0, positions |-> 0, nals |-> 0]

\* add_nal.
Counted(c, nal) ==
    [stream |-> c.stream + nal.size + 4,
     rbsp |-> c.rbsp + Greater(nal.size - 2, 0),
     positions |-> c.positions + (IF nal.removed > 0 THEN 4 * (2 * nal.removed + 4) ELSE 0),
     nals |-> c.nals + 1]

VecBytes(count, bytes) == IF count = 0 THEN 0 ELSE (2 * count + 4) * bytes

\* estimated_decoder_bytes.
StreamBytes(c) ==
    2 * c.stream + c.rbsp + c.positions
        + VecBytes(c.nals, NalBytes) + VecBytes(c.nals, UnitBytes)

\* Mutant of Larger: the first set counts, as it does for the metadata.
FirstOf(bytes, candidate) == IF bytes = 0 THEN candidate ELSE bytes

Larger(bytes, candidate) == Greater(bytes, candidate)

-----------------------------------------------------------------------------
(* Memory of the decode.  A Vec grows to twice its capacity or to what is  *)
(* needed; one that is pushed to begins with four elements.                *)

Extended(b, bytes) ==
    LET used == b.used + bytes
    IN  [used |-> used,
         capacity |-> IF used <= b.capacity THEN b.capacity
                      ELSE Greater(8, Greater(2 * b.capacity, used))]

Pushed(capacity, count) ==
    IF count <= capacity THEN capacity ELSE Greater(4, 2 * capacity)

PushCapacity(count) == FoldLeft(Pushed, 0, [n \in 1 .. count |-> n])

SumOf(values) == MapThenSumSet(LAMBDA i : values[i], DOMAIN values)

\* parse_length_prefixed_ext drops what has no header.
Units == {i \in DOMAIN Nals : HeaderParses(Nals[i])}

\* The bytes of a NAL unit without those that are removed, and where these were.
UnitHeld(nal) == nal.size - 2 + 4 * PushCapacity(nal.removed)

\* The stream, the two lists of its NAL units and their bytes.
HeldBytes ==
    buffer.capacity
        + PushCapacity(Len(Nals)) * UnitBytes + PushCapacity(Cardinality(Units)) * NalBytes
        + SumOf([i \in Units |-> UnitHeld(Nals[i])])

\* try_with_params: planes of two bytes, and two maps of four by four blocks.
FrameBytes(s) ==
    LET chroma == IF s.chroma = 0 THEN 0
                  ELSE CeilDiv(s.w, SubWidth(s.chroma)) * CeilDiv(s.h, SubHeight(s.chroma))
    IN  2 * (s.w * s.h + 2 * chroma) + 2 * CeilDiv(s.w, 4) * CeilDiv(s.h, 4)

-----------------------------------------------------------------------------
(* The eager path.                                                         *)

NoSets == [k \in ParameterKinds |-> << >>]
Empty == [used |-> 0, capacity |-> 0]

EagerInit ==
    /\ stage = "start" /\ tile = 1 /\ next = 1
    /\ largest = 0 /\ counted = NothingCounted /\ foreseen = << >>
    /\ buffer = Empty /\ metadata = Pending
    /\ kept = NoSets /\ frames = << >> /\ drawn = << >> /\ images = << >>

Decided == stage \in {"accepted", "refused", "limit"}

End(outcome) ==
    /\ stage' = outcome
    /\ UNCHANGED <<tile, next, largest, counted, foreseen, buffer, metadata, kept,
                   frames, drawn, images>>

\* validate_heic_grid_descriptor_and_tile_count, and the limit of the output.
Start ==
    /\ stage = "start"
    /\ UNCHANGED otherVars
    /\ IF item.kind # "grid" THEN End("preflight")
       ELSE IF item.w = 0 \/ item.h = 0 \/ Len(item.streams) # item.columns * item.rows
       THEN End("refused")
       ELSE IF OverLimit(item.w, item.h) THEN End("limit")
       ELSE End("preflight")

\* The checks of one set, in the order of check_sps and preflight_grid.
Verdict(nal) ==
    LET s == Sps[nal.content]
        grid == item.kind = "grid"
    IN  CASE ~SpsParses(nal) -> "refused"
          [] SpsParses(nal) /\ SpsRefused(s) -> "refused"
          [] OTHER -> IF OverLimit(s.w, s.h) THEN "limit"
                      ELSE IF grid /\ TileRefused(s) THEN "refused"
                      ELSE IF grid /\ OverBudget(SpsBytes(s)) THEN "limit"
                      ELSE "allowed"

\* A NAL unit that preflight_hevc or preflight_grid walks.  The decode of a grid
\* walks them again without a limit, which refuses nothing more.
Walk ==
    /\ stage = "preflight" /\ next <= Len(Nals)
    /\ UNCHANGED otherVars
    /\ LET nal == Nals[next]
           verdict == IF IsSps(nal) THEN Verdict(nal) ELSE "allowed"
       IN  IF verdict # "allowed" THEN End(verdict)
           ELSE /\ largest' = IF IsSps(nal) THEN Larger(largest, SpsBytes(Sps[nal.content]))
                              ELSE largest
                /\ counted' = Counted(counted, nal)
                /\ next' = next + 1
                /\ UNCHANGED <<stage, tile, foreseen, buffer, metadata, kept, frames,
                               drawn, images>>

TotalOf(f) == f.frame + f.stream

\* The end of a stream: its bytes and those of all so far.
Foresee ==
    /\ stage = "preflight" /\ next > Len(Nals)
    /\ UNCHANGED otherVars
    /\ LET all == Append(foreseen, [frame |-> largest, stream |-> StreamBytes(counted)])
           last == tile = Len(item.streams)
       IN  IF largest = 0 THEN End("refused")
           ELSE IF OverBudget(SumOf([t \in DOMAIN all |-> TotalOf(all[t])]))
           THEN End("limit")
           ELSE /\ foreseen' = all
                /\ largest' = 0 /\ counted' = NothingCounted /\ next' = 1
                /\ tile' = IF last THEN 1 ELSE tile + 1
                /\ stage' = IF last THEN "assemble" ELSE "preflight"
                /\ UNCHANGED <<buffer, metadata, kept, frames, drawn, images>>

\* append_nal_with_u32_length_prefix.
Assemble ==
    /\ stage = "assemble"
    /\ UNCHANGED otherVars
    /\ IF next > Len(Nals)
       THEN stage' = "metadata" /\ next' = 1 /\ UNCHANGED buffer
       ELSE /\ buffer' = Extended(Extended(buffer, 4), Nals[next].size)
            /\ next' = next + 1 /\ UNCHANGED stage
    /\ UNCHANGED <<tile, largest, counted, foreseen, metadata, kept, frames, drawn, images>>

\* decode_hevc_stream_metadata_from_sps, and the size of ispe; there is an SPS,
\* or the preflight had refused.  Alpha has no metadata.
ReadMetadata ==
    /\ stage = "metadata"
    /\ UNCHANGED otherVars
    /\ LET first == Nals[Min({i \in DOMAIN Nals : IsSps(Nals[i])})]
           found == Metadata(Sps[first.content])
       IN  IF item.kind = "coded" /\ <<found.w, found.h>> # <<item.w, item.h>>
           THEN End("refused")
           ELSE /\ metadata' = found
                /\ stage' = "units"
                /\ UNCHANGED <<tile, next, largest, counted, foreseen, buffer, kept, frames,
                               drawn, images>>

\* decode_hevc_stream_to_image asks for a VCL NAL unit of any layer.
ParseUnits ==
    /\ stage = "units"
    /\ UNCHANGED otherVars
    /\ IF \E i \in DOMAIN Nals : HasType(Nals[i]) /\ Nals[i].kind \in VclKinds
       THEN End("sets")
       ELSE End("refused")

SetParses(nal) ==
    IF nal.kind = "sps" THEN SpsParses(nal) ELSE nal.content # "bad"

\* decode_nal_units: each parameter set replaces the one before it.
KeepSet ==
    /\ stage = "sets" /\ next <= Len(Nals)
    /\ UNCHANGED otherVars
    /\ LET nal == Nals[next]
       IN  IF next \notin Units \/ nal.kind \notin ParameterKinds
           THEN next' = next + 1 /\ UNCHANGED <<stage, kept>>
           ELSE IF ~SetParses(nal) THEN stage' = "refused" /\ UNCHANGED <<next, kept>>
           ELSE /\ kept' = [kept EXCEPT ![nal.kind] = <<nal.content>>]
                /\ next' = next + 1 /\ UNCHANGED stage
    /\ UNCHANGED <<tile, largest, counted, foreseen, buffer, metadata, frames, drawn,
                   images>>

IsBaseSlice(nal) == nal.kind \in SliceKinds /\ nal.header # "layer"
Slices == {i \in Units : IsBaseSlice(Nals[i])}

KeptSps == Sps[kept["sps"][1]]

CannotDecode(s) ==
    \/ s.tool
    \/ s.chroma # 0 /\ s.luma # s.chromaDepth
    \/ s.w \notin 1 .. MaxExtent \/ s.h \notin 1 .. MaxExtent
    \/ Slices = {}
    \/ CropX(s) >= s.w \/ CropY(s) >= s.h

\* The frame is allocated.
StartPicture ==
    /\ stage = "sets" /\ next > Len(Nals)
    /\ UNCHANGED otherVars
    /\ IF kept["sps"] = << >> \/ kept["pps"] = << >> THEN End("refused")
       ELSE IF CannotDecode(KeptSps) THEN End("refused")
       ELSE /\ frames' = Append(frames, [sps |-> KeptSps, bytes |-> FrameBytes(KeptSps),
                                         held |-> HeldBytes])
            /\ drawn' = << >> /\ next' = 1
            /\ stage' = "slices"
            /\ UNCHANGED <<tile, largest, counted, foreseen, buffer, metadata, kept, images>>

\* decode_slice, once for every slice.
DrawSlice ==
    /\ stage = "slices" /\ next <= Len(Nals)
    /\ UNCHANGED otherVars
    /\ IF next \in Slices /\ Nals[next].content = "bad" THEN End("refused")
       ELSE /\ drawn' = IF next \in Slices THEN Append(drawn, Nals[next].content) ELSE drawn
            /\ next' = next + 1
            /\ UNCHANGED <<stage, tile, largest, counted, foreseen, buffer, metadata, kept,
                           frames, images>>

\* heic_frame_to_internal_image; both depths are that of the luma.
Image ==
    [w |-> KeptSps.w - CropX(KeptSps), h |-> KeptSps.h - CropY(KeptSps),
     layout |-> KeptSps.chroma, luma |-> KeptSps.luma, chroma |-> KeptSps.luma]

\* apply_heic_grid_tile_transforms crops only.
Shaped(image) ==
    LET size == TransformedSize(image.w, image.h, Stream.transforms)
    IN  [image EXCEPT !.w = size.w, !.h = size.h]

CannotShape(image) ==
    \/ \E i \in DOMAIN Stream.transforms :
           ~IsClap(Stream.transforms[i]) /\ ~IsIdentity(Stream.transforms[i])
    \/ ~TransformedSize(image.w, image.h, Stream.transforms).valid

\* The first tile is not too small for the grid, the others are like it.
DoesNotFit(image) ==
    IF images = << >>
    THEN image.w < item.w \div item.columns \/ image.h < item.h \div item.rows
    ELSE image # images[1]

\* What is done with a decoded picture, and the next tile of a grid.
TakeImage ==
    /\ stage = "slices" /\ next > Len(Nals)
    /\ UNCHANGED otherVars
    /\ CASE item.kind = "alpha" ->
              End(IF <<Image.w, Image.h>> = <<item.w, item.h>> THEN "accepted" ELSE "refused")
         [] item.kind = "coded" ->
              End(IF Image # metadata THEN "refused"
                  ELSE IF OverLimit(Image.w, Image.h) THEN "limit" ELSE "accepted")
         [] item.kind = "grid" ->
              IF Image # metadata THEN End("refused")
              ELSE IF CannotShape(Image) THEN End("refused")
              ELSE IF DoesNotFit(Shaped(Image)) THEN End("refused")
              ELSE /\ images' = Append(images, Shaped(Image))
                   /\ IF tile = Len(item.streams)
                      THEN stage' = "accepted" /\ UNCHANGED <<tile, next, buffer, kept>>
                      ELSE /\ stage' = "assemble" /\ tile' = tile + 1 /\ next' = 1
                           /\ buffer' = Empty /\ kept' = NoSets
                   /\ UNCHANGED <<largest, counted, foreseen, metadata, frames, drawn>>

EagerNext ==
    \/ Start \/ Walk \/ Foresee \/ Assemble \/ ReadMetadata \/ ParseUnits
    \/ KeepSet \/ StartPicture \/ DrawSlice \/ TakeImage

-----------------------------------------------------------------------------
(* The bounded readers.                                                    *)

NoNals == [ok |-> TRUE, count |-> 0, sets |-> NoSets, slice |-> << >>]

\* Mutant of Conflicts: the set that comes last is taken.
NeverConflicts(slot, nal) == FALSE

\* A parameter set may only be repeated.
Conflicts(slot, nal) == slot \notin {<< >>, <<nal>>}

\* What Nals::add asks of the next NAL unit: a parameter set may be repeated,
\* a slice comes once, and in the payload.
Adds(n, nal, inPayload) ==
    /\ n.ok /\ n.count < MaxNals /\ nal.header = "base"
    /\ \/ /\ nal.kind \in ParameterKinds
          /\ nal.size <= MaxParameterBytes /\ ~Conflicts(n.sets[nal.kind], nal)
       \/ nal.kind = "idr" /\ inPayload /\ n.slice = << >>
       \/ nal.kind = "aside"

WithSet(sets, nal) ==
    IF nal.kind \in ParameterKinds THEN [sets EXCEPT ![nal.kind] = <<nal>>] ELSE sets
WithSlice(slice, nal) == IF nal.kind = "idr" THEN <<nal>> ELSE slice

\* Nals::add; once refused, nothing else counts.
Added(n, nal, inPayload) ==
    [ok |-> Adds(n, nal, inPayload), count |-> n.count + 1,
     sets |-> WithSet(n.sets, nal), slice |-> WithSlice(n.slice, nal)]

Configuration(s) == FoldLeft(LAMBDA n, nal : Added(n, nal, FALSE), NoNals, s.config)

\* codec::prepare.
Collected(s) ==
    FoldLeft(LAMBDA n, nal : Added(n, nal, TRUE), Configuration(s), s.payload)

\* slice(): the payload holds no parameter sets.
Scanned(n, nal) ==
    [ok |-> Adds(n, nal, TRUE) /\ nal.kind \notin ParameterKinds, count |-> n.count + 1,
     sets |-> n.sets, slice |-> WithSlice(n.slice, nal)]

Scan(s) ==
    LET configured == Configuration(s)
        scanned == FoldLeft(Scanned, NoNals, s.payload)
    IN  [ok |-> configured.ok /\ scanned.ok, count |-> configured.count + scanned.count,
         sets |-> configured.sets, slice |-> scanned.slice]

\* What of validate_sps a set of this model can break.
SpsUnfit(s) ==
    \/ s.w \notin 1 .. MaxExtent \/ s.h \notin 1 .. MaxExtent
    \/ s.chroma # 1 \/ s.luma # 8 \/ s.chromaDepth # 8 \/ s.planes \/ s.tool
    \/ s.ctb \notin 4 .. 6 \/ s.w % 8 # 0 \/ s.h % 8 # 0
    \/ CropX(s) >= s.w \/ CropY(s) >= s.h

\* Prepared::new, and the comparison with ispe; incremental_workspace refuses
\* wavefronts.
PreparedNew(n, incremental) ==
    LET s == Sps[n.sets["sps"][1].content]
    IN  IF ~n.ok \/ << >> \in {n.sets[k] : k \in ParameterKinds} \cup {n.slice} THEN Refused
        ELSE IF \/ n.sets["vps"][1].content \in {"bad", "layers"}
                \/ n.sets["sps"][1].content \notin DOMAIN Sps
                \/ n.sets["pps"][1].content = "bad"
                \/ n.slice[1].content = "bad"
        THEN Refused
        ELSE IF \/ SpsUnfit(s)
                \/ incremental /\ n.sets["pps"][1].content = "wavefronts"
                \/ <<Metadata(s).w, Metadata(s).h>> # <<item.w, item.h>>
        THEN Refused
        ELSE [is |-> "picture",
              sets |-> [k \in ParameterKinds |-> <<n.sets[k][1].content>>],
              slices |-> <<n.slice[1].content>>]

\* The paths do not know of each other: one after the other stands for any
\* order.
Prepare ==
    /\ Decided /\ item.kind = "coded" /\ prepared = Pending
    /\ prepared' = PreparedNew(Collected(Stream), FALSE)
    /\ UNCHANGED <<item, eagerVars, streamed>>

PrepareStreamed ==
    /\ Decided /\ item.kind = "coded" /\ prepared # Pending /\ streamed = Pending
    /\ streamed' = PreparedNew(Scan(Stream), TRUE)
    /\ UNCHANGED <<item, eagerVars, prepared>>

CodedInit ==
    /\ item \in Items
    /\ EagerInit
    /\ prepared = Pending /\ streamed = Pending

CodedNext == EagerNext \/ Prepare \/ PrepareStreamed

CodedSpec == CodedInit /\ [][CodedNext]_codedVars

-----------------------------------------------------------------------------
\* No picture is allocated that has more pixels than the limit.
PixelsForeseen ==
    \A t \in DOMAIN frames : ~OverLimit(frames[t].sps.w, frames[t].sps.h)

\* A frame takes no more than was foreseen for a frame (one of a single pixel two
\* bytes more, which its stream leaves), its stream and what is parsed of it no
\* more than was foreseen for these, and all of an item together fit in the
\* budget.
BytesForeseen ==
    /\ \A t \in DOMAIN frames :
           /\ \/ frames[t].bytes <= foreseen[t].frame
              \/ frames[t].sps.w * frames[t].sps.h = 1
           /\ frames[t].held <= foreseen[t].stream
           /\ frames[t].bytes + frames[t].held <= TotalOf(foreseen[t])
    /\ ~OverBudget(SumOf([t \in DOMAIN frames |-> frames[t].bytes + frames[t].held]))

\* Each row and column of decoded tiles begins within the output.
TilesForeseen ==
    item.kind = "grid" =>
        \A t \in DOMAIN frames :
            LET shown == Metadata(frames[t].sps)
                plan == Plan(shown.w, shown.h, item.streams[t].transforms)
            IN  /\ (item.columns - 1) * plan.w < item.w
                /\ (item.rows - 1) * plan.h < item.h

\* Whichever of its parameter sets a stream is decoded with, the preflight,
\* which does not know which it is, has foreseen the decode (geometry.rs,
\* lib.rs:4596: "Use the largest allocation advertised by any SPS").
DecodeForeseen == PixelsForeseen /\ BytesForeseen /\ TilesForeseen

\* What a bounded reader accepts, the eager path decodes with the same sets and
\* the same slice, if no limit forbids it; and what the incremental reader
\* accepts, codec::prepare does, unless it counts too many NAL units, which it
\* counts in configuration and payload together.
ReadersAgree ==
    /\ prepared.is = "picture" =>
           \/ stage = "limit"
           \/ stage = "accepted" /\ kept = prepared.sets /\ drawn = prepared.slices
    /\ streamed.is = "picture" => prepared = streamed \/ Len(Nals) > MaxNals

=============================================================================
