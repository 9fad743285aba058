# TLA+ models of heic-decoder

heic-decoder reads HEIF, HEIC and AVIF files and decodes them to RGB or RGBA.
This directory models the parts of it where the order of events matters: two
threads that pass frames to each other, a pool that runs jobs from one memory
budget, a window that rolls down a picture, readers stacked on a cut-up file,
and the parts where several pieces of code must come to the same result: two
parsers of one file, two drivers of one slice, many loops that write a picture.
TLC checks the models on small instances, TLAPS proves what matters most for
every value of their constants.

Source paths below are those of the repository (`src/...`). `PROJECT.json` maps
every definition to the lines it models.

## 1. The system

| component | state it keeps | operations | talks to |
|---|---|---|---|
| Entry points, guardrails (`lib.rs` 9820-10900) | none across calls | decode bytes, path, reader, source to RGBA, RGB8, PNG | ingestion, container, decoders |
| Ingestion (`source.rs`) | a process-wide name counter, temporary files | open a source, spool a reader, read a range, drop | file system |
| Container, eager path (`isobmff.rs`) | parsed boxes | resolve the primary item, its properties, references and extents | entry points, sources |
| Geometry preflight (`geometry.rs`, `av1_geometry.rs`) | none | estimate the pixels and bytes of a decode before it starts | guardrails |
| HEVC decoder (`heic-decoder/hevc`) | a frame, contexts, maps per slice | parameter sets, slice header, CABAC, coding trees, deblocking, SAO | all paths |
| Parallel grid decode (`lib.rs` 4412-4842) | the window of one call | decode tiles on a rayon pool, consume them in order | HEVC decoder, rayon |
| Uncompressed images (`lib.rs` 1435-4300) | a bit reader | unpack the sample layouts of uncC | container |
| Transforms and alpha (`lib.rs` 5166-6460, 11324-11915) | none | clap, irot, imir, Exif orientation, auxiliary alpha | all outputs |
| Bounded decode (`bounded.rs`, `bounded/memory.rs`) | a byte budget shared by threads | `decode_bounded`: preflight, size a pool, run batches, merge | grid plan, HEVC decoder, resampler |
| Bounded grid plan (`bounded/grid.rs`, `codec.rs`) | the plan of a call | properties, tiles, references, preflight | bounded container |
| Bounded container (`bounded/container.rs`) | an index into the metadata | parse, read ranges of an item | sources |
| Incremental decode (`bounded/incremental.rs`) | frames, channels, readers of one tile | decode a tile in bands on two threads | rolling decoder, colour conversion |
| Rolling HEVC decoder (`hevc/incremental.rs`) | three frames, a ring of SAO parameters | decode a CTB row, filter it, emit the row above | CABAC over a stream |
| Resampling and colour (`bounded/resample.rs`, `color.rs`, `hevc/color_convert.rs`) | accumulators per output row | convert rows, add them to the output | both bounded decoders |
| AVIF (`lib.rs` 13368-13790) | the handle of dav1d | decode a frame | dav1d, external |
| `image` integration, tools (`image_integration.rs`, `bin/`) | registered hooks | adapt calls | entry points |

How a call flows: an entry point gets the input (bytes, a seekable source or a
reader spooled to a file), checks the guardrails, resolves the primary item and
hands coded items to a decoder. The eager path assembles a whole HEVC stream,
decodes whole frames, pastes tiles and transforms the result. The two bounded
paths first plan the whole call and reserve all memory it can need, then decode:
`decode_bounded` decodes whole tiles, several at a time; the incremental one
decodes a tile in bands of one CTB row and never holds a whole tile.

What is hard here, and what makes each component correct:

- **Bounded decode.** Jobs on worker threads take and give back memory of one
  budget, may fail one by one, and end in any order. Correct: the counter is the
  sum of what is alive and within the limit, a call that does not fit is refused
  before its first pixel, the reported error and the pixels do not depend on
  scheduling, and the call returns. A tile is read twice, and the file may have
  changed: what a tile allocates never exceeds what is reserved for it, whatever
  the second reading finds.
- **Incremental tile pipeline.** Three frames circulate between two threads over
  a rendezvous channel and a channel of capacity one; either thread may fail or
  panic. Correct: the sink sees every band once, in order, with the right
  neighbouring rows, no thread waits for ever, and the error reported is the one
  that came first in cause.
- **Rolling decoder.** Lines are dropped while filters still look back. Correct:
  the bands equal those of the picture decoded whole, for every shape.
- **Slice input.** Four readers keep positions and counts across boundaries that
  fall anywhere. Correct: the arithmetic decoder gets the bytes of the slice.
- **Parallel grid decode.** A window over tiles with two bounds, workers of a
  shared pool, panics, and a caller that may itself be a worker. Correct: the
  result is that of the sequential loop, the bounds hold, the bytes counted as
  retained are those of the tiles in flight, and the call returns.
- **Ingestion.** Temporary files of several calls and processes in one
  directory, failures at each step. Correct: a call reads what it was given,
  removes its own file and nothing else, and limits hold while the file grows.
- **Coding trees.** Sequential, but a state machine with much carried state:
  maps of modes and depths that each keep a part of the picture, a quantisation
  parameter that depends on the unit before its group, a coded delta that comes
  after the first blocks it is for, context models saved and restored, arrays
  that the bounded decoder shifts. Correct: whatever the arrays hold, each
  lookup gives what was decoded at the place meant, and each CTU is decoded with
  the contexts and the substream that the encoder had for it.
- **Parameter sets and slice header.** Elements are kept in fewer bits than they
  are coded in, and the eager decoder checks less than the bounded one. Correct:
  what the bounded decoder accepts means the same to both.
- **Uncompressed images.** Bits are read in an order that five interleavings,
  three paddings and subsampling decide, from units that inflate to a size known
  only from the layout. Correct: every sample is read from its own bits, nothing
  of the payload is left or missing, and memory stays within the layout's size.
- **Transforms and alpha.** Every output has its own loops for crops, turns,
  grids, gaps and alpha. Correct: all of them give the picture that the
  properties, taken one after the other, describe.
- **Container.** Sequential, but with much arithmetic near limits and two
  implementations of the same thing. Correct: the two agree.
- **Geometry preflight.** Nothing makes a file carry one parameter set of a
  kind. The estimates look at every sequence parameter set, the metadata at the
  first, and the decoder keeps the last. Correct: what is allocated was foreseen
  and within the limits, whichever set is used, and the bounded readers use the
  same sets and slice as the eager path.

## 2. Modules

| module | models | state and actions in the code |
|---|---|---|
| `BoundedDecode` | `bounded.rs`, `bounded/memory.rs`, preflight of `bounded/grid.rs` | `used`, `base`, `slots` are the budget's counter, the long-lived reservations of the calling thread and what each job of the batch has reserved. The calling thread goes through `CheckOptions` ... `Admit`, `SizePool`, `GatherJob`, `RunBatch`, `CollectResults`, `MergeResult`; a worker through `StartDecode`, `FinishDecode` or `FailDecode` |
| `TileMemory` | `Tile::preflight` of `bounded/grid.rs`, `render_tile` and `run_job` of `bounded.rs`, with the allocations of `hevc/bounded.rs`, `bitstream.rs`, `slice.rs`, `picture.rs`, `ctu.rs`, `sao.rs` and `bounded/resample.rs` | `held` is the size of each buffer that one tile has, `reservation` what is reserved for it. `ReadForPreflight`, the parser (`CopyParameters` to `ReturnPrepared`), `PlanTileMemory`; then `GatherTile`, the parser again on what is read then, `CompareWithPlan`, the phases of the decode, of the conversion and of the resampling |
| `BandStream` | what a tile promises its sink | bands shown in order, then success or an error |
| `BandPipeline` | `decode` and `ChromaBands` of `bounded/incremental.rs` | `output`, `held`, `free`, `lent`, `kept` are where the three frames are; `Caller` is the decoding thread, `Worker` the converting one |
| `RollingWindow` | `hevc/incremental.rs`, `decode_row` of `ctu.rs`, row functions of `picture.rs`, `deblock.rs`, `sao.rs` | a line is the record of what it was computed from; one action per stage of a row |
| `SliceBytes` | `slice`, `ItemRange`, `Rbsp` of `bounded/incremental.rs`, `read_range` of `bounded/container.rs`, the stream input of `cabac.rs`, entry points of `hevc/mod.rs` | bytes are 0, 3 or another; one action per byte that `Rbsp` handles and per call between the readers |
| `Ingestion` | `source.rs`, the entry points of `lib.rs` for bytes, files and readers, detection of the family | `files` is the directory of spools, `counter` the `TEMP_SPOOL_COUNTER` of a process; `path`, `attempts`, `written`, `view`, `found` belong to one call. `StartSpool`, `NameSpool`, `CreateSpool` or `SpoolExists`, `CopyBytes`, `ReopenSpool`, `Resolve`, `Decode`, `RemoveSpool` are its steps; `Kill` ends a process between any two |
| `HeifMetadata` | what both parsers read: items, extents, properties, associations, references, a grid | `meta`, the metadata as it is in the file, with repeated entries and indices that point nowhere |
| `EagerItems` | item resolution in `isobmff.rs`, the Exif lookup of `lib.rs` | `EagerResolve` is everything up to the tiles, `ExtractTile` one turn of the loop over them; `cache` holds `property_cache`, the maps by item and the byte counts |
| `BoundedItems` | `Index` of `bounded/container.rs`, `bounded/grid.rs` | `ParseIndex`, `PlanPrimary`, `PlanTile` and `CheckReference` once per tile and reference, `AcceptPlan` |
| `ItemResolution` | both on the same metadata | the eager path first, then the bounded one; they share nothing |
| `SequentialTiles` | the loop of a build without `parallel-grid` | tiles consumed one after the other, first failure returned |
| `GridTiles` | `for_each_ordered_bounded_parallel` and its caller in `lib.rs` | the variables of the window, a status per tile, threads of the pool counted |
| `UncompressedLayout` | `uncC`, `cmpd` and the layout arithmetic of `lib.rs`; beside it, the address of each sample stated from the meaning of the interleavings | pure operators |
| `UncompressedDecode` | `decode_primary_uncompressed` and what it calls | `ResolveProperties`, `CheckLayout`, `CheckExtents`, `CopyExtent`, `StartInflation`, `InflateChunk` once per chunk a unit gives, then one action per column that the reader goes through, by interleaving, with what follows a line, a part and a tile; `rd` is the bit reader, `cap` the capacity of the buffer |
| `Transforms` | clap, irot, imir, Exif orientation on pictures, and the plan of `lib.rs` that maps a place of the output back to the source | pure operators |
| `PixelOutput` | the alpha search and the outputs of `lib.rs` and `image_integration.rs`: RGBA, three channels, planes, and the buffer of the caller that an `image` hook fills | a sample is the tile and the place it was decoded at; `ScanCandidate` once per alpha candidate, then one action per property, tile or conversion, each as its path does it |
| `CodingTree` | `ctu.rs`, the references of `intra.rs`, rows and marks of `picture.rs`, the substreams of `cabac.rs` | arrays as functions of their index, a sample is whether it is decoded; one action per coding unit and per step between CTUs; what the slice codes is chosen as it is read. `log` and `seen` are ghosts: the units decoded, and what the last step looked up |
| `CodingTreeRules` | nothing: what the former must come to, stated over places of the picture | invariants |
| `HevcHeaders` | `params.rs`, `slice.rs`, `hevc/mod.rs`, `hevc/bounded.rs` | `coded` are the syntax elements; `Prepare` is the bounded acceptance, `DecodeNalUnits` the eager one |
| `CodedItem` | `geometry.rs` with the estimates of `lib.rs`, `decode_nal_units` of `hevc/mod.rs`, `bounded/codec.rs`, the slice scan of `bounded/incremental.rs` | a NAL unit is its kind, what its header says, its size and a name for its content. `Start`, then `Walk` once per NAL unit and `Foresee` once per stream; `Assemble`, `ReadMetadata`, `ParseUnits`, `KeepSet`, `StartPicture`, `DrawSlice`, `TakeImage` are the decode that follows; `Prepare` and `PrepareStreamed` are the bounded readers. `frames` is a ghost: what was allocated, with the set it was for |

`MCxxx` modules give the constants of a module values for TLC, `xxxProofs` hold
theorems about a module, and `SetSums` is about sums over finite sets and
positions.
`BandPipeline` implements `BandStream`, `RollingWindow` implements the decoding
of the whole picture followed by `BandStream`'s order of bands, `GridTiles`
implements `SequentialTiles`. The band that `BandPipeline` treats as a number is
the band that `RollingWindow` computes, and the bytes the latter decodes are
those that `SliceBytes` supplies.

Abstractions worth knowing: samples are never modelled. A tile, a band or a line
is a number or the record of the passes it went through, so two results are
equal in a model exactly when the same operations were applied to the same
inputs. Sizes in bytes are small numbers with the same order relations, except in
`TileMemory`, where they are real. A decode
may fail at any time for reasons of the data, so failure is a nondeterministic
choice at every place where the code can return an error.

## 3. Runs

| run | instance | what it shows |
|---|---|---|
| `bounded_decode` | four tiles in two columns, one hidden by the crop, limits from "refused" to "three workers"; beside it, in real sizes, one tile read twice with contents that need not agree | `BudgetExact`, `NoLateRefusal`, `FirstErrorWins`, `ImageComplete`, and `CallReturns` under fairness; of `TileMemory`, that a tile allocates within its reservation at every step, and that the computed sizes cover the picture without the slack |
| `band_pipeline` | up to four bands, with and without a worker thread and interpolation | the pipeline implements `BandStream`; `ReturnNeverBlocks`, `CauseReported`, `TileReturns` |
| `rolling_window` | CTB sizes 16 and 32, heights from 8 to 88, luma and chroma | the bands are those of the whole picture |
| `slice_bytes` | every slice of zeroes and threes up to four bytes and some of up to six, two extents in either order plus an empty one, read ahead two, buffer three | the decoder gets the bytes of the slice, entry points are right, nothing is accepted after a failed read |
| `ingestion` | one call with every input of up to three boxes as bytes or file, with and without hint and limits; or three readers, two in one process and one in another of the same id, the clock standing still, two attempts, either process killed at any time | a call reads its own input and leaves nothing, limits hold while the spool grows, the entry points agree on the input |
| `item_resolution` | a grid of two tiles and a coded picture, and everything two edits away: 27,476 inputs | the bounded path decodes what the eager path decodes, with the exceptions named in `EagerOnly`; a plan is a partition of the picture; caches are transparent |
| `grid_tiles` | two calls in a pool of three threads, one made by a thread of the pool: one call with up to four tiles, estimates small, over budget and unknown, or both with up to two | both bounds, refinement of the sequential loop, what is counted as retained is what is in flight, each call returns |
| `uncompressed` | images of up to four by four pixels in every interleaving with odd depths, alignments and paddings, payloads a byte short, exact or long, up to two compressed units that inflate to anything up to past the layout | every sample is read from its address, the reader is at the end of the payload when it accepts, and inflation stays within the budget of the layout |
| `rgba_output` | coded, AVIF, uncompressed and grid pictures of up to six by six pixels, in every layout, lists of up to three transforms and candidates, apertures of every small rational size and offset | each path gives the picture that the properties taken one after the other describe, with the first usable alpha; an aperture keeps the pixels it covers |
| `coding_tree` | pictures of up to 48 samples a side in every chroma format and tree shape, quantisation groups of every size, up to three by three CTBs in wavefronts with all, some, wrong or no entry points, SAO; parameter sets with up to two elements changed | `ReferencesDecoded`, `QpAgrees`, `DeblockingAgrees`, `NeighboursAgree`, `ContextsSynced`, `SaoAsCoded`, `BoundedHeaderAgrees` |
| `coded_item` | one each of VPS, SPS, PPS and slice, and what is up to two edits away (37,673 inputs): sets repeated, replaced, of another layer, cropped or not parsed, several slices, long units with removed bytes; as coded item, alpha or tile of a grid of up to two by two, with and without a limit of pixels | `DecodeForeseen`, `ReadersAgree` |
| `pool_of_callers` | two calls, both from the threads of a pool of two | a *violation*: see findings |

Why the bounds are enough. Four tiles in two columns give a batch that is full,
a batch that is not, a hidden tile first and last in a batch, and rows that are
flushed within and between batches. Four bands pass each of the three frames
through every place and once more. Six CTB rows are twice the ring of SAO
parameters. Two-byte read-ahead and three-byte buffers put a boundary in front
of, inside and behind each `0 0 3`. Four tiles with a window of three let the
window slide, wait for memory and meet an unknown tile in the middle. Two
attempts and one instant of the clock make every collision of names happen, with
a live call and with a file that a killed process has left. For the two item
resolutions nearly each rule has an edit that breaks it, and pairs of edits make
the cases in which two rules, or a rule and an exception, meet; the budget for
copies is twice the file instead of four times it, so that three tiles exceed
it. The other limits on counts are above what these inputs reach.

`bounded_decode` explores `TileMemory` beside `BoundedDecode`, in the call whose
options are refused, as the two share no state. Its tile has one of six
pictures, which differ from each other by the size of blocks only, by the crop
only and by the sides at about the same area, so that each of the two
comparisons of `render_tile` is the only one that refuses in some pair; one is
as small and one has as many rows of CTBs as can be. In the small payload the
parameter sets come from `hvcC` and the 1 MiB of slack is all there is for their
copies; in the large one the copy of the slice is over ten times the slack. The
slack would hide most errors in the computed sizes, so that `EstimateCoversPicture`
states them without it.

An uncompressed sample of five or twelve bits next to one of three starts at
every bit of a byte; four pixels a side are two tiles of two, or two blocks of
subsampled chroma. Reads of three bytes, a reserve of two and layouts up to six
that are always allowed make a unit end inside, at and behind a chunk and the
buffer grow before, at and past the limit. Pictures of five by four have an odd
and an even side for chroma; three transforms make every composition of a turn,
a mirror and another. The pictures of `coding_tree` have, in every family, one
dimension that is free (tree shapes, modes, transform trees, deltas, ends,
entry points, SAO), while the others are as plain as possible: their product is
out of reach, and each invariant relates state of one family or two. In
`coded_item` the 64 MiB that a decode may always take are 2,500 bytes, so that
one edit exceeds them in a grid and in alpha, while four plain tiles fit; five
NAL units are the limit of the bounded readers, so that an edit reaches it; the
512 samples that a single column may be wide are 24, between one tile and two.

Fairness. Every run with a liveness property uses weak fairness of each thread's
own steps: the calling thread, the worker of a tile, a job of the pool that has
a free thread. The operating system runs threads that can run, rayon starts a
job when a thread of its pool is idle, and the steps of a job are finite
decodes. A thread that waits (in `recv`, `send`, `join`, at the end of a scope)
has no enabled step until what it waits for happens, so no strong fairness is
needed. Nothing is assumed about a thread of the pool that waits in `recv` of
another call: that is what `pool_of_callers` shows.

Finding. `for_each_ordered_bounded_parallel` waits in `receiver.recv()`, which
is not a wait that rayon knows of. When all threads of a pool are in such a call
no thread is left for their tiles, and all of them wait for ever.

## 4. Proofs

What a run checks on a small instance, the theorems below say for every value
of the constants, which the named assumptions of each module only give their
types and the bounds that the code has. Each module of proofs states one
inductive invariant, shows that it holds at first and that every action keeps
it, and derives the properties from it. TLC has checked each of these invariants
on the instance of the run as well.

`BoundedDecodeProofs`, for any number of tiles, columns, workers, sizes and
limits: `TypeOK`, `BudgetExact`, `NoLateRefusal`, `FirstErrorWins`,
`ImageComplete`. The first is proved only, no run checks it.
None of them is inductive alone. `IInv` adds: where in the call the thread is
determines what is reserved (`Control`, `Admitted`), the slots of the batch that
are not yet merged are occupied and the others idle (`SlotsFilled`), failed
tiles lie in the current batch (`FailedInBatch`), and an image is returned only
complete (`Complete`). The sum over the slots is handled by one lemma: replacing
the holding of one slot moves the sum by the difference. For `ImageComplete`
it takes one thing more: the rows flushed are those of the tiles merged, in
whole.

The same module proves `AllocatedWithinReservation` and `EstimateCoversPicture`
of `TileMemory`, for any pictures that `validate_sps` accepts, any payload, NAL
units, regions and entry points. `TileInv` says which buffers exist at each stage
and bounds each of them: the copies of parameter sets by the limit that a set
has (`SlackAssumption` says that the slack has room for three of them and for the
entry points), the copy of the slice by the payload (`CopyBound`: a copy takes at
most seven thirds of its unit), and the buffers of the picture by what was found when the tile was
planned. The last is where the two comparisons are needed. The sizes of planes,
marks and RGB follow from the geometry alone (`SameSizes`); the maps depend on
the sizes of blocks, which the geometry does not tell, and are bounded because
the workspace that is computed anew is not larger than the planned one.
`ReconstructionCovers` is the arithmetic of the three phases.

The same module proves `BoundedHeaderAgrees` of `HevcHeaders`, for syntax
elements of any size (`HeaderSpec`; the run of `coding_tree` takes its initial
states from the same `HeaderInit`). What the bounded parsers do not refuse,
narrowing does not change (`FitsKept`), so the parameter sets and the slice
header are the same from both (`SpsParsed`, `PpsParsed`, `SliceParsed`); the
ranges that `validate_sps` demands keep the sums computed in a byte from
wrapping, and leave no check of the other decoder that could still fail
(`PicturesAgree`).

`BandPipelineProofs`, for any number of bands: `TypeOK` (proved only as well),
`ReturnNeverBlocks`, `CauseReported`, and that the pipeline implements
`BandStream`. The heart of its `IInv` is that the three frames are always in
three different places (`OtherFrame`), that the bands reconstructed are those pushed plus the one
waiting and the one lent (`Counts`), and that each frame that someone will still
read holds the band it is read as (`Contents`, `HeldBack`).

`RollingWindowProofs`, for luma and chroma, CTBs of 16, 32 and 64 and pictures
of any height that is a multiple of eight: the rolling decoder implements the
stream of the bands of the picture filtered whole. `IInv` says what the frames
hold after `n` rows: the raw one the last two rows, the filtered one the last
three, each line as it is when deblocking has reached the end of row `n`
(`Settled`), and the ring the parameters of the last two. The step that takes
thought is that a line emitted one row late is `Settled` for good: the next edge
lies further away than deblocking and SAO together can reach.

`SliceBytesProofs`, for any slice, any item around it, any cut of the item into
its two extents and the empty one, in either order, any read-ahead, capacity and
number of units: `SameBytes`, `NoneAfterFailure`, `EntryPointsRight`. `IInv`
follows a byte along the chain of readers. What is read ahead is the piece of
the slice behind what `Rbsp` has consumed, its count of zeroes is that of the
slice at this place (`Chained`), and what it has given on is the piece of the
stripped slice that ends there (`Matched`). Bytes that are kept are counted by
the positions that are not skipped, which is also what the entry points are
corrected by. `ItemAssumption` asks that the NAL units in front of the slice
have lengths that delimit them and that none of them is an IDR slice too, which
the decoder refuses (a call has one).

`GridTilesProofs`, for any number of calls on one pool, from inside or outside
of it, any window, budget and estimates: `WithinBounds`, `AccountsExact`, and
that the calls implement `SequentialTiles`. A call has either handed out nothing
(`Unopened`), or `consumed` and `scheduled` cut its tiles into those that are
gone, those in flight and those that wait; what it retains are the estimates of
the ones in flight, in order (`Accounts`), and only the tile that is due is ever
held (`Placed`).

The same module proves that these estimates are enough: `DecodeForeseen` of
`CodedItem`, for any coded, alpha or grid item, any parameter sets as they parse
(`SpsAssumption` only says what their fields are), any limit and budget, stated
for `CodedSpec`, from whose `CodedInit` the run starts too. `ForeseenInv`
follows the preflight NAL unit by NAL unit: each set walked so far is one that
passed every check (`Good`), the estimate is at least that of its picture
(`WalkedTo`), and the counters are sums over the NAL units walked (`CountedTo`).
After it, the set a picture is allocated for is one of the stream (`KeptOne`),
whichever the stream repeats, and so one of those. What is left is arithmetic on
what a `Vec` grows to: the planes and maps of a frame (`FrameFits`), and the
assembled stream, the two lists of its units and their bytes (`HeldFits`).
`BytesForeseen` says what came out of the proof: a 4:2:0 picture of a single
pixel takes eight bytes where six are foreseen for a frame, and fits only
because the estimate of its stream leaves more than that.

`ReadersAgree` rests on what the bounded reader knows when it has refused
nothing (`TakenOf`): every NAL unit so far is of the base layer, each parameter
set is the one it keeps of that kind, and there is at most one slice. This is
shown NAL unit by NAL unit for `codec::prepare` (`StreamsTaken`), together with
the scan of the payload by `slice()`, whose own count of NAL units is the only
difference. `AgreeInv` then follows the eager path for an item that
`codec::prepare` takes (`Fit`): no stage of it refuses (`Proceeding`), what it
keeps and draws of the first *n* NAL units is what is prepared as far as those
hold it, and its metadata, taken from the first set, are those of the last.

`ApertureKept` is about one state, and all of its proof is arithmetic on the
fractions of a clean aperture, for a picture and an aperture of any size and
any offset (`CropKept`): what division does to a fraction that is to be rounded
(`Truncated`, `Rounded`); that clamping a whole number and a fraction into the
picture takes them no further apart (`ClampApart`); that the last edge, which
the code makes from the first one after rounding that, is off by half a pixel
more (`LastEdge`); and that an aperture in the picture leaves room for its
extent after its first edge was rounded up (`RoomFor`, `ExtentKept`). The proof
found what the run had missed with its pictures of two rows: division drops
fractions towards zero, so adding a half rounds a negative edge by up to one and
a half, and the last row follows. A row above the picture does not show, but the
last row may be almost two off where a column is at most one and a half off.
`ApertureKept` now says so, and its run has pictures of up to six rows.

`IngestionProofs`, for any calls, processes, ids, clocks, inputs and limits:
`TypeOK`, `OwnSpool`, `NothingLeft`, `AgreesWithBytes`. Only the invariant sees
why `create_new` is enough although names are not unique: every spool in the
directory is that of the call that made it, which still holds it or has left it
for a reason (`Holders`), so a name that is free belongs to nobody. `Copied`
carries the content from byte to byte. For `AgreesWithBytes` a second invariant
relates what a call has found so far to what the entry point for bytes finds in
the same input.

The same module proves two invariants of the container, in `ItemResolution`:
`CacheIsTransparent` and `PlanCovers`, for any metadata (`Metadata` only says
what fields hold; entries may be repeated, missing or point nowhere) and any
limits. They are stated for `ItemsSpec`; the run checks them from the same
`ItemsInit`. `CacheInv` says that whatever the caches hold is what would be
computed without them (`Kept`), and so is every tile extracted. Its step
(`TileKept`) needs that a tile looks up no property that it did not just
remember: the last profile of a kind is one of the uses (`LastUseIsUsed`),
and those that are selected are uses that name a property of the kind
(`OfKindFrom`). `PlanInv` says that while a grid is planned fewer tiles are
planned than it names, all with the parameter sets of the first, and that
afterwards all of them are and satisfy the checks on the size of the picture;
that these make a partition is arithmetic (`PartitionOfPicture`). What the
indexing established for the whole file is part of it (`Indexed`): every
association names a property that is there, also the one with the parameter sets
of a tile. Selections of properties and associations are folds over
positions, and `SelectedFrom` and `UsesFrom` say what they may contain.

`UncompressedProofs`, for any image that the boxes can describe (`IsImage`), any
number of units that give any number of bytes in chunks of any size, and any
limits: `InflatesWithinBudget`, `ReadsExactlyLayout` and `SamplesAtAddress`. For
the first, the buffer holds what the units before this one give plus what this
one has given so far (`Accounted`), within its capacity, which is within the
layout's size (`Bounded`). For the second, `Placed` says where the bit reader is
while its loops run: at the bit that the layout gives the column (`Place`), with
the row and the tile marked where they start (`Reading`). Nothing in the code
computes that bit; the proof has to show that the padding after a sample, pixel,
line, part and tile always ends at it. Three facts carry this. A group of
samples that is moved by whole bytes ends moved by as many (`EndShifts`), so a
run of groups is a first one and others that are all as long (`RunNext`). For
each of the five interleavings lines follow each other in a part and parts in a
tile, and the aligned tile holds them all (`TileLaid`, `PartLaid`, `AllLaid`).
And whatever the place, one column takes a reader from its bit to that of the
next column, or fails, as truncated only if the data end before the layout does
(`ColumnStep`). That data refused for its size is short as well needs one more:
the samples alone, without any padding, never take more than the layout
(`MinimumFits`).

`SamplesAtAddress` compares what the loops leave in the channels with an address
that is computed from the pixel. `Collected` says that the samples of all
columns before the reader's place are at their address already, and that no
sample ever holds bits of another one. Four facts carry it. The pixels that a
column writes are those whose tile and whose steps before them are the column's
(`BlockCovers` and its converse `CoversBlock`). For such a pixel the bits that
the group gives are those of the address, in each of the interleavings
(`SpanAddress`). Between a place of the loops and the next one there is no other
place (`NextPrecedes`). And each sample of each pixel has a place that holds it
(`PixelReached`), so that none is left when the last place has been passed. The
depths need a fact on digits: as many digits as fit, each the largest, make the
largest number, and so does what is left when some of their bits are cut off
(`LargestDigits`, `WidenedEnds`).

`SetSums` has the lemma that four of them rest on: any element may be taken out
of a sum over a finite set first, and the same for the folds that go through the
positions of a sequence. Sums are folds, and the prover cannot use
induction theorems that take an operator as their parameter; but for one given
fold, a least subset at which the fact fails does as well, and that it exists
follows from a theorem without such a parameter.

Only model-checked:

- Liveness (`CallReturns`, `TileReturns`, `CallsReturn`), which the prover
  cannot treat under fairness.
- `BoundedAgreesWithEager`. It compares two walks over the same metadata that
  look entries up differently (the first of several, or the only one) and sums
  what one of them keeps in its caches as it goes with what a tile by itself
  needs: an induction over both walks at once, on sums over their caches.
- `SamePicture` of `PixelOutput`: one pass over lists of transforms and tiles,
  checked against the composition of what each does.
- The six invariants of `CodingTreeRules`. They hold because of what the arrays
  hold everywhere behind the decoding order, down to the order of units in a
  quadtree, which the model states by recursion over sizes.

## 5. Not modelled

The values of samples (coefficients, inverse transforms, predicted samples,
filters, colour matrices, resampling): arithmetic on data that reference vectors
of the repository's tests cover. What the models keep of a sample is where it
comes from. dav1d, the inflater and the SIMD kernels. The command line tools,
and of the `image` integration the registration of its hooks: one call each.
Time and space used by the file system and the allocator, except where the code
counts it.

Of the ingestion: files that change while they are decoded (nothing compares),
and `max_input_bytes`, which a reader meets only after the copy; the spool has a
limit of its own. Entry points for files and readers parse an input only as far
as the metadata, so they accept some inputs with bytes behind it that the entry
points for bytes refuse, and refuse a malformed file type that the latter
forgive when they have a hint: `AgreesWithBytes` states what is common.

Of the bounded decode: buffers whose size does not depend on the input, the lists
of at most 255 numbers that the parsers of parameter sets make, the list of jobs
and the buffers that read the input are not part of `TileMemory`. The error that
`FirstErrorWins` is about is that of a job. A payload that cannot be read while a
batch is gathered ends the call before the jobs gathered so far have run
(`bounded.rs:228-229`), so an earlier tile that would not decode goes unseen,
where one worker would have reported it; the property states the order within a
batch. Of rayon, that a pool runs all jobs of a batch and that the scope of the
parallel grid waits for its jobs is taken as given (`CollectResults`, `Close`).

Of the container: the encoding of boxes (headers, versions, field widths,
overflow of offsets) and malformed property bodies, which both parsers refuse;
AVIF and uncompressed primary items; auxiliary alpha items, of which
`PixelOutput` has the search. `BoundedAgreesWithEager` is about what both
resolve, not about what the estimates of `geometry.rs` then allow: that is
`CodedItem`, where NAL units come already cut from their payload. The bounded
path also refuses an `hvcC` of more than 1 MiB (`grid.rs:49`), of whose bytes the
model has no number: it accepts less than the model, which weakens no
property.

Of the preflight: `av1_geometry.rs`, which reads the OBU headers of an AVIF item
bit by bit; saturation at 64 bits; what a `Vec` allocates is its documented
growth, and the sizes of the two structures are parameters. A frame is its
planes and its two maps; the maps and copies that the decode of a slice makes,
for which the estimate leaves about as much again, and the cropped planes that
follow are not modelled (for the bounded path, which makes no cropped planes,
`TileMemory` has the maps and the copies). A broken
set whose picture is never allocated is refused before or after, which
`StartPicture` does not tell apart.

Of the coding trees: coefficients (a block has some or none), the chroma
quantisation parameters, `cu_qp_delta` outside the range that the format allows,
`pcm`, tiles and dependent slices (which the headers refuse). The smallest
transform block is four samples, and pictures have sides that are multiples of
the smallest coding block, which only the bounded decoder checks. Three facts
the models make visible and no text of the repository speaks of: the eager
driver accepts a slice that has no `end_of_slice_segment_flag` after its last
CTU, the bounded one refuses it; without entry points the reader goes on where
the row above ended, which is where the next substream starts; and the corner of
the border falls back to the first sample above and then to the left, which is
what the format says, because where both neighbours are decoded the corner is.

Of the headers: elements that are only passed over (profiles, VUI, HRD, picture
sets) count by whether they are refused. Bit depths are at most fifteen. A slice
header is modelled as the code reads it where the format differs, as with
`num_long_term_sps`, which the code reads whatever the sequence has.
`BoundedHeaderAgrees` is about what the bounded decoder accepts.

Of the uncompressed images: the bytes of the property boxes, and the values of
samples (a sample is the interval of its bits). Of the output: an aperture on a
tile that begins at an odd place of subsampled chroma is cropped there by the
plane, which the code calls a known divergence from libheif
(`lib.rs:6468-6475`); the reference of `SamePicture` crops planes in the same way
(`CropPlanes`), so it says that all paths do what a single crop does, not that
this phase of chroma is right. The refusals of `preflight_grid`
(`geometry.rs:192-217`) are in `CodedItem`, not here. Rounding in
colour conversion and in the scaling of alpha (a pixel is the luma, chroma and
alpha samples it is made of). An aperture of less than a pixel at the first row
or column keeps one pixel instead of being refused; `ApertureKept` allows it, as
it allows the last row to be almost two off when the first lies above the
picture (section 4).

## 6. Plan

1. Core, done: the two bounded decoders, their memory, pipeline, window and
   input, the parallel grid; proofs for the first two.
2. Ingestion, done: several calls and processes, one directory, failures and
   panics; the entry points for bytes, files and readers against each other;
   proofs.
3. Container, done for HEVC items and grids: resolution in both implementations
   against each other; then the geometry estimates against what is allocated,
   and the readers of NAL units against each other, done.
4. Transforms, alpha and outputs, done: every path against the composition of
   the properties.
5. Uncompressed images, done: bit reader and compressed units within their
   budgets.
6. Slice decode, done: headers in both parsers, coding trees, wavefronts, ends.
7. Proofs, done: the core, the window, the slice input, the parallel grid, the
   ingestion, the headers in both parsers, the caches and the plan of a grid,
   the estimates of the preflight, the readers of NAL units, the budget of the
   inflation, the bit reader and the samples of uncompressed images, the bounds
   of crops. To do: `BoundedAgreesWithEager`, and the invariants of
   `CodingTree` on rows and substreams.
