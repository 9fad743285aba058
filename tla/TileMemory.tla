----------------------------- MODULE TileMemory -----------------------------
(***************************************************************************)
(* The memory of one tile of decode_bounded, from its preflight            *)
(* (src/bounded/grid.rs) to the result of its job (src/bounded.rs): the    *)
(* buffers of the header parser, of the decoder, of the conversion to RGB  *)
(* and of the resampler, in the order in which they come and go, beside    *)
(* what has been reserved for the tile at that time.                       *)
(*                                                                         *)
(* The tile is read twice.  What preflight found in it decides what is     *)
(* reserved for the job, but the job parses, and decodes, what it reads    *)
(* itself, and the file may have changed.  Only sizes in bytes are         *)
(* modelled; those that do not depend on the input are left out, as are    *)
(* the lists of at most 255 numbers in the parsers of parameter sets.      *)
(* BoundedDecode says what becomes of the reservation.                     *)
(***************************************************************************)
EXTENDS Naturals

CONSTANTS
    Pictures,        \* what an SPS that is accepted may describe
    PayloadLengths,  \* lengths of the coded item
    ParameterNals,   \* NAL units of parameter sets
    SliceNals,       \* NAL units of slices
    EntryPoints,     \* numbers of entry points in a slice header
    Regions,         \* what the tile may contribute to the output
    ParameterLimit,  \* the 65536 bytes that a parameter set may have
    CodecSlack,      \* the 1 MiB beside the sizes that are computed
    SaoInfoBytes     \* size_of::<SaoInfo>()

MaxSide == 16384

\* validate_sps bounds the sides of a picture and the size of a CTB.
IsPicture(p) ==
    /\ p.codedWidth \in 1 .. MaxSide /\ p.codedHeight \in 1 .. MaxSide
    /\ p.width \in 1 .. p.codedWidth /\ p.height \in 1 .. p.codedHeight
    /\ p.ctb \in {16, 32, 64}
    /\ p.minCb \in {8, 16, 32, 64} /\ p.minTb \in {4, 8, 16, 32}

\* A removed byte follows two that stay, and none of these serves twice.
IsNal(nal) ==
    /\ nal.length \in Nat /\ nal.length >= 2
    /\ nal.removed \in Nat /\ 3 * nal.removed <= nal.length - 2

IsRegion(r) == r.width \in Nat /\ r.height \in Nat /\ r.scaled \in BOOLEAN

ASSUME TileAssumption ==
    /\ \A p \in Pictures : IsPicture(p)
    /\ PayloadLengths \subseteq Nat
    /\ \A nal \in ParameterNals : IsNal(nal) /\ nal.length <= ParameterLimit
    /\ \A nal \in SliceNals : IsNal(nal)
    /\ EntryPoints \subseteq Nat
    /\ \A r \in Regions : IsRegion(r)
    /\ ParameterLimit \in Nat
    /\ SaoInfoBytes \in Nat

\* Three parameter sets and the entry points of 1024 rows of CTBs.
ASSUME SlackAssumption ==
    CodecSlack \in Nat /\ 7 * ParameterLimit + 4 * 1023 <= CodecSlack

VARIABLES
    stage,       \* what happens to the tile next
    length,      \* payload_len
    region,      \* job.region, and whether the layout is scaled
    tile,        \* what preflight keeps of the tile, NoTile before
    content,     \* what the payload that was read last holds
    reservation, \* bytes reserved for the tile
    held         \* bytes of each of its buffers

tileVars == <<stage, length, region, tile, content, reservation, held>>

-----------------------------------------------------------------------------
(* Sizes.                                                                  *)

Chunks(extent, side) == (extent + side - 1) \div side

\* Blocks of that side in the coded picture.
Blocks(p, side) == Chunks(p.codedWidth, side) * Chunks(p.codedHeight, side)

RowsOfCtbs(p) == Chunks(p.codedHeight, p.ctb)

LumaBytes(p) == 2 * (p.codedWidth * p.codedHeight)
ChromaBytes(p) == 2 * Blocks(p, 2)
PlaneBytes(p) == LumaBytes(p) + 2 * ChromaBytes(p)

\* A byte for each block of 4x4: deblock_flags, qp_map, a copy of the flags.
MarkBytes(p) == Blocks(p, 4)

\* The maps of SliceContext.
MapBytes(p) ==
    Blocks(p, p.minCb) + 2 * Blocks(p, p.minCb \div 2) + Blocks(p, p.minTb)
  + SaoInfoBytes * Blocks(p, p.ctb)

\* A byte for each of the three channels.
RgbBytes(p) == 3 * (p.width * p.height)

Larger(a, b) == IF a < b THEN b ELSE a

\* Prepared::reconstruction_bytes: the decoder, then the conversion to RGB,
\* then the transform of colours.
ReconstructionBytes(p) ==
    Larger(2 * PlaneBytes(p) + 3 * MarkBytes(p) + MapBytes(p),
           Larger(PlaneBytes(p) + RgbBytes(p) + 2 * MarkBytes(p),
                  2 * RgbBytes(p) + 2 * MarkBytes(p)))

TileWorkspace(p, bytes) == ReconstructionBytes(p) + 3 * bytes + CodecSlack

\* What preflight reserves before it parses the headers.
HeaderReservation(bytes) == 5 * bytes + CodecSlack

\* Contribution::workspace_bytes: pixels, edges, and the rows being summed.
ContributionBytes(r) ==
    IF ~r.scaled \/ r.width * r.height = 0 THEN 0
    ELSE 3 * (r.width * r.height) + 24 * (5 * r.width + 2 * r.height)

\* What of it is part of the result.
ResultBytes(r) == 3 * (r.width * r.height) + 24 * (2 * r.width + 2 * r.height)

\* parse_single_nal_bounded: what remains, and where a byte was removed.
CopyBytes(nal) == nal.length - 2 + 4 * nal.removed

\* The buffers of a tile.
Nothing ==
    [payload |-> 0, parameters |-> 0, slice |-> 0, entries |-> 0,
     planes |-> 0, marks |-> 0, maps |-> 0, copies |-> 0,
     rgb |-> 0, converted |-> 0, sums |-> 0]

HeaderBuffers == held.parameters + held.slice + held.entries

PictureBuffers ==
    held.planes + held.marks + held.maps + held.copies + held.rgb
  + held.converted

Allocated == held.payload + HeaderBuffers + PictureBuffers + held.sums

NoTile == [picture |-> "none"]

\* What can be read as a payload of so many bytes.  The parameter sets may
\* be those of hvcC instead; a slice is in the payload, after its length.
Contents(bytes) ==
    {c \in [picture : Pictures, vps : ParameterNals, sps : ParameterNals,
            pps : ParameterNals, slice : SliceNals, entries : EntryPoints] :
        c.slice.length < bytes /\ c.entries < RowsOfCtbs(c.picture)}

\* Mutant of JobReservation: the payload is not counted.
JobReservationOfDecoder == tile.workspace + ContributionBytes(region)

\* job_bytes.
JobReservation == tile.workspace + length + ContributionBytes(region)

-----------------------------------------------------------------------------
TileInit ==
    /\ length \in PayloadLengths
    /\ region \in Regions
    /\ Contents(length) # {}
    /\ stage = "listed"
    /\ tile = NoTile
    /\ content = << >>
    /\ reservation = 0
    /\ held = Nothing

Follows(from, to) == stage = from /\ stage' = to

\* Tile::preflight reads the item and reserves what its headers may take.
ReadForPreflight ==
    /\ Follows("listed", "parameters")
    /\ content' \in Contents(length)
    /\ reservation' = length + HeaderReservation(length)
    /\ held' = [Nothing EXCEPT !.payload = length]
    /\ UNCHANGED <<length, region, tile>>

HiddenTile == region.width * region.height = 0

\* Prepared::new, in preflight and again in render_tile.  The copies of the
\* parameter sets stay until it returns.
CopyParameters ==
    /\ Follows("parameters", "slice")
    /\ tile # NoTile => ~HiddenTile
    /\ held' = [held EXCEPT !.parameters = CopyBytes(content.vps)
                          + CopyBytes(content.sps) + CopyBytes(content.pps)]
    /\ UNCHANGED <<length, region, tile, content, reservation>>

CopySlice ==
    /\ Follows("slice", "header")
    /\ held' = [held EXCEPT !.slice = CopyBytes(content.slice)]
    /\ UNCHANGED <<length, region, tile, content, reservation>>

ParseSliceHeader ==
    /\ Follows("header", "parsed")
    /\ held' = [held EXCEPT !.entries = 4 * content.entries]
    /\ UNCHANGED <<length, region, tile, content, reservation>>

\* Only the slice is part of Prepared.
ReturnPrepared ==
    /\ Follows("parsed", "prepared")
    /\ held' = [held EXCEPT !.parameters = 0, !.entries = 0]
    /\ UNCHANGED <<length, region, tile, content, reservation>>

\* The rest of Tile::preflight.  What it allocated and reserved is given back.
PlanTileMemory ==
    /\ tile = NoTile
    /\ Follows("prepared", "planned")
    /\ tile' = [picture |-> content.picture,
                workspace |-> TileWorkspace(content.picture, length)]
    /\ content' = << >>
    /\ reservation' = 0
    /\ held' = Nothing
    /\ UNCHANGED <<length, region>>

\* The calling thread reserves job_bytes and reads the item again.
GatherTile ==
    /\ Follows("planned", "parameters")
    /\ content' \in Contents(length)
    /\ reservation' = JobReservation
    /\ held' = [Nothing EXCEPT !.payload = length]
    /\ UNCHANGED <<length, region, tile>>

\* run_job of a tile that the crop leaves no pixel of.
SkipHiddenTile ==
    /\ tile # NoTile /\ HiddenTile
    /\ Follows("parameters", "done")
    /\ held' = Nothing
    /\ UNCHANGED <<length, region, tile, content, reservation>>

Geometry(p) == <<p.codedWidth, p.codedHeight, p.width, p.height>>

\* Mutant of SameAsPlanned: the workspace is not compared.
SameGeometry(p) == Geometry(p) = Geometry(tile.picture)

\* The two comparisons of render_tile.
SameAsPlanned(p) ==
    /\ TileWorkspace(p, length) <= tile.workspace
    /\ Geometry(p) = Geometry(tile.picture)

CompareWithPlan ==
    /\ tile # NoTile
    /\ Follows("prepared", "frame")
    /\ SameAsPlanned(content.picture)
    /\ UNCHANGED <<length, region, tile, content, reservation, held>>

\* DecodedFrame::try_with_params.
AllocateFrame ==
    /\ Follows("frame", "context")
    /\ held' = [held EXCEPT !.planes = PlaneBytes(content.picture),
                            !.marks = 2 * MarkBytes(content.picture)]
    /\ UNCHANGED <<length, region, tile, content, reservation>>

\* decode_slice parses the slice header again and makes the maps.
AllocateMaps ==
    /\ Follows("context", "coded")
    /\ held' = [held EXCEPT !.entries = 4 * content.entries,
                            !.maps = MapBytes(content.picture)]
    /\ UNCHANGED <<length, region, tile, content, reservation>>

\* apply_sao copies the planes with an edge offset, and the flags if a block
\* bypasses the filters.
CopyForSao ==
    /\ Follows("coded", "filtered")
    /\ \E luma, cb, cr, bypass \in {0, 1} :
         held' = [held EXCEPT !.copies =
                    luma * LumaBytes(content.picture)
                  + (cb + cr) * ChromaBytes(content.picture)
                  + bypass * MarkBytes(content.picture)]
    /\ UNCHANGED <<length, region, tile, content, reservation>>

\* Prepared::decode returns the frame: its planes and the two marks remain.
ReturnFrame ==
    /\ Follows("filtered", "decoded")
    /\ held' = [held EXCEPT !.maps = 0, !.copies = 0, !.entries = 0,
                            !.slice = 0]
    /\ UNCHANGED <<length, region, tile, content, reservation>>

ConvertToRgb ==
    /\ Follows("decoded", "rgb")
    /\ held' = [held EXCEPT !.rgb = RgbBytes(tile.picture)]
    /\ UNCHANGED <<length, region, tile, content, reservation>>

\* drop(decoded) takes the planes; the marks stay until render_tile returns.
DropPlanes ==
    /\ Follows("rgb", "colour")
    /\ held' = [held EXCEPT !.planes = 0]
    /\ UNCHANGED <<length, region, tile, content, reservation>>

\* The pixels are returned as they are, or transformed into a second buffer.
TransformColours ==
    /\ Follows("colour", "rendered")
    /\ held' = [held EXCEPT !.converted = RgbBytes(tile.picture)]
    /\ UNCHANGED <<length, region, tile, content, reservation>>

ReturnPixels ==
    /\ stage \in {"colour", "rendered"}
    /\ stage' = "pixels"
    /\ held' = [held EXCEPT !.marks = 0, !.rgb = RgbBytes(tile.picture),
                            !.converted = 0]
    /\ UNCHANGED <<length, region, tile, content, reservation>>

\* Without scaling the pixels are the result of the job.
KeepPixels ==
    /\ ~region.scaled
    /\ Follows("pixels", "done")
    /\ held' = [Nothing EXCEPT !.rgb = held.rgb]
    /\ UNCHANGED <<length, region, tile, content, reservation>>

SumPixels ==
    /\ region.scaled
    /\ Follows("pixels", "summed")
    /\ held' = [held EXCEPT !.sums = ContributionBytes(region)]
    /\ UNCHANGED <<length, region, tile, content, reservation>>

KeepSums ==
    /\ region.scaled
    /\ Follows("summed", "done")
    /\ held' = [Nothing EXCEPT !.sums = ResultBytes(region)]
    /\ UNCHANGED <<length, region, tile, content, reservation>>

\* Any error, of preflight or of the job, which a comparison that fails is as
\* well: everything is given back.
RefuseTile ==
    /\ stage \notin {"done", "refused"}
    /\ stage' = "refused"
    /\ reservation' = 0
    /\ held' = Nothing
    /\ UNCHANGED <<length, region, tile, content>>

TileEnded == stage \in {"done", "refused"} /\ UNCHANGED tileVars

TileNext ==
    \/ ReadForPreflight \/ CopyParameters \/ CopySlice \/ ParseSliceHeader
    \/ ReturnPrepared \/ PlanTileMemory \/ GatherTile \/ SkipHiddenTile
    \/ CompareWithPlan \/ AllocateFrame \/ AllocateMaps \/ CopyForSao
    \/ ReturnFrame \/ ConvertToRgb \/ DropPlanes \/ TransformColours
    \/ ReturnPixels \/ KeepPixels \/ SumPixels \/ KeepSums \/ RefuseTile
    \/ TileEnded

TileSpec == TileInit /\ [][TileNext]_tileVars

-----------------------------------------------------------------------------
\* A tile never has more memory than is reserved for it at that time, while
\* its headers are parsed for the first time, while a job parses whatever it
\* finds when it reads the item again, and to the last buffer of the job.
\* API.md:428 says that max_memory_bytes caps the memory that depends on the
\* input.
AllocatedWithinReservation == Allocated <= reservation

\* The 1 MiB that is reserved beside the computed sizes would hide most errors
\* in them.  It is there for the headers: the buffers of the picture, the RGB
\* pixels included, are within what reconstruction_bytes said in preflight,
\* whatever headers the job has found, and the headers within the rest.
EstimateCoversPicture ==
    tile # NoTile =>
        /\ PictureBuffers <= ReconstructionBytes(tile.picture)
        /\ HeaderBuffers <= 3 * length + CodecSlack
=============================================================================
