----------------------------- MODULE PixelOutput -----------------------------
(***************************************************************************)
(* From decoded planes to the pixels a caller gets.  The same image leaves  *)
(* the decoder through several paths: as an RGBA picture the decoder owns,   *)
(* as a three-channel picture, as planes, or written into the buffer of a    *)
(* caller that asked for the size first (the hook of the image crate).  Each *)
(* path has its own loops for crops, turns, grids, gaps and alpha.          *)
(*                                                                          *)
(* Pixels are symbolic: a sample is << source, x, y >>, where source is the  *)
(* tile it was decoded in (a coded picture is tile 1), so that two pixels    *)
(* are equal exactly when they are made of the same samples.                *)
(***************************************************************************)
EXTENDS Transforms

VARIABLES
  image,      \* what the file holds
  path,       \* the entry point: rgba, rgb8, planes or hook
  phase,      \* what the decoder does next
  cursor,     \* the next alpha candidate, then the next tile
  gridTried,  \* whether a candidate that is a grid was decoded
  alpha,      \* the alpha plane that was chosen, or NoAlpha
  planes,     \* the decoded picture, as far as it is cropped
  rest,       \* the transforms that are still to be applied
  out         \* the pixels: a buffer of the decoder or of the caller

pixelVars == << image, path, phase, cursor, gridTried, alpha, planes, rest, out >>

Zero == << 0, 0, 0 >>       \* a sample of a canvas nothing was pasted on
Middle == << -1, 0, 0 >>    \* the chroma of a picture without chroma
Opaque == << -2, 0, 0 >>
Junk == << -3, 0, 0 >>      \* whatever the caller's buffer holds
OwnAlpha == 99              \* the alpha channel of an uncompressed image
AlphaSource(k) == 100 + k   \* candidate k

Pixel(y, c, a) == [luma |-> y, chroma |-> c, alpha |-> a]
Untouched == Pixel(Junk, Junk, Junk)
NoPicture == [w |-> 0, h |-> 0, px |-> << >>]
NoAlpha == [source |-> 0, w |-> 0, h |-> 0]

Coordinates(w, h) == (0 .. w - 1) \X (0 .. h - 1)

(***************************************************************************)
(* Planes.                                                                 *)
(***************************************************************************)
SubX(layout) == IF layout \in {"420", "422"} THEN 2 ELSE 1
SubY(layout) == IF layout = "420" THEN 2 ELSE 1

ChromaSize(w, h, layout) ==
  IF layout = "400" THEN << 0, 0 >>
  ELSE << CeilDiv(w, SubX(layout)), CeilDiv(h, SubY(layout)) >>

Plane(k, w, h) == [at \in Coordinates(w, h) |-> << k, at[1], at[2] >>]

Decoded(k, w, h, layout) ==
  LET size == ChromaSize(w, h, layout)
  IN  [w |-> w, h |-> h, layout |-> layout,
       luma |-> Plane(k, w, h), chroma |-> Plane(k, size[1], size[2])]

NoPlanes == Decoded(0, 0, 0, "400")

Cutout(plane, left, top, w, h) ==
  [at \in Coordinates(w, h) |-> plane[<< at[1] + left, at[2] + top >>]]

(* Chroma is cropped by whole samples: an odd edge loses half of one. *)
CropPlanes(p, c) ==
  LET size == ChromaSize(c.width, c.height, p.layout)
  IN  [p EXCEPT !.w = c.width, !.h = c.height,
         !.luma = Cutout(p.luma, c.left, c.top, c.width, c.height),
         !.chroma = Cutout(p.chroma, c.left \div SubX(p.layout), c.top \div SubY(p.layout),
                           size[1], size[2])]

\* Mutant of KeepsChromaPhase: only the left edge is looked at.
LeftKeepsChromaPhase(p, t) ==
  \/ SubX(p.layout) = 1
  \/ LET c == CropBounds(t, p.w, p.h)
     IN  c.valid /\ c.left % SubX(p.layout) = 0
KeepsChromaPhase(p, t) ==
  \/ SubX(p.layout) = 1 /\ SubY(p.layout) = 1
  \/ LET c == CropBounds(t, p.w, p.h)
     IN  /\ c.valid
         /\ c.left % SubX(p.layout) = 0
         /\ c.top % SubY(p.layout) = 0

(* The nearest chroma sample of a pixel. *)
ChromaAt(p, x, y) ==
  IF p.layout = "400" THEN Middle
  ELSE p.chroma[<< x \div SubX(p.layout), y \div SubY(p.layout) >>]

PixelAt(p, x, y) == Pixel(p.luma[<< x, y >>], ChromaAt(p, x, y), Opaque)

Converted(p) ==
  [w |-> p.w, h |-> p.h,
   px |-> [i \in Pixels(p.w, p.h) |-> PixelAt(p, i % p.w, i \div p.w)]]

(* The channels of an uncompressed image bring their alpha along. *)
ConvertedOwn(p) ==
  [w |-> p.w, h |-> p.h,
   px |-> [i \in Pixels(p.w, p.h) |->
             [PixelAt(p, i % p.w, i \div p.w) EXCEPT
                !.alpha = << OwnAlpha, i % p.w, i \div p.w >>]]]

(***************************************************************************)
(* The auxiliary alpha plane.                                              *)
(***************************************************************************)
AlphaSample(a, i) == << a.source, i % a.w, i \div a.w >>

AlphaFits(a, w, h) == a.w = w /\ a.h = h

WithAlpha(p, a) ==
  IF a = NoAlpha THEN p
  ELSE [p EXCEPT !.px = [i \in DOMAIN p.px |-> [p.px[i] EXCEPT !.alpha = AlphaSample(a, i)]]]

Candidate(k) == image.candidates[k]

(* What a candidate has to be before its payload is looked at. *)
ItemPrepared(c, type) ==
  /\ c.type = type
  /\ c.local
  /\ c.aux = "alpha"
  /\ c.ispe # "other"
  /\ c.coded = "same"

PlaneOf(k) ==
  [source |-> AlphaSource(k), h |-> image.h,
   w |-> IF Candidate(k).coded = "same" THEN image.w ELSE image.w + 1]

(* The three things a candidate can be: it fails quietly, it exhausts the   *)
(* memory, or it gives a plane.                                             *)
Outcome(c) ==
  CASE c.type = "grid" -> IF c.coded = "same" THEN c.fate ELSE "fails"
    [] image.kind = "avif" ->
         IF ItemPrepared(c, "av01") /\ c.fate = "decodes" THEN "decodes" ELSE "fails"
    [] OTHER -> IF ItemPrepared(c, "hvc1") THEN c.fate ELSE "fails"

Passed(c) ==
  /\ c.type = "grid"
  /\ image.kind = "avif" \/ gridTried \/ ~c.local \/ c.aux # "alpha"

HasOwnAlpha == image.kind = "uncompressed"

ScanCandidate ==
  /\ phase = "alpha"
  /\ cursor <= Len(image.candidates)
  /\ LET c == Candidate(cursor)
         result == IF Passed(c) THEN "fails" ELSE Outcome(c)
     IN  /\ phase' = CASE result = "decodes" /\ AlphaFits(PlaneOf(cursor), image.w, image.h)
                            -> "decode"
                       [] result = "exhausted" -> "refused"
                       [] OTHER -> "alpha"
         /\ alpha' = IF phase' = "decode" THEN PlaneOf(cursor) ELSE alpha
         /\ gridTried' = (gridTried \/ (c.type = "grid" /\ ~Passed(c)))
  /\ cursor' = IF phase' = "decode" THEN 1 ELSE cursor + 1
  /\ UNCHANGED << image, path, planes, rest, out >>

NoCandidateLeft ==
  /\ phase = "alpha"
  /\ cursor > Len(image.candidates)
  /\ phase' = "decode"
  /\ cursor' = 1
  /\ UNCHANGED << image, path, gridTried, alpha, planes, rest, out >>

(***************************************************************************)
(* The caller of the hook learns the size and makes the buffer.            *)
(***************************************************************************)
StorageDepth(depth) == IF depth <= 8 THEN 8 ELSE 16
DepthsAgree == image.depth = image.chromaDepth

Probe ==
  /\ phase = "start"
  /\ path = "hook"
  /\ LET size == TransformedSize(image.w, image.h, image.transforms)
     IN  IF size.valid /\ DepthsAgree
         THEN /\ out' = [w |-> size.w, h |-> size.h,
                         px |-> [i \in Pixels(size.w, size.h) |-> Untouched]]
              /\ phase' = IF HasOwnAlpha THEN "decode" ELSE "alpha"
         ELSE /\ phase' = "refused"
              /\ UNCHANGED out
  /\ UNCHANGED << image, path, cursor, gridTried, alpha, planes, rest >>

Call ==
  /\ phase = "start"
  /\ path # "hook"
  /\ phase' = IF path = "rgba" /\ ~HasOwnAlpha THEN "alpha" ELSE "decode"
  /\ UNCHANGED << image, path, cursor, gridTried, alpha, planes, rest, out >>

DecodePicture ==
  /\ phase = "decode"
  /\ image.kind # "grid"
  /\ planes' = Decoded(1, image.w, image.h, image.layout)
  /\ rest' = image.transforms
  /\ phase' = IF path = "hook" THEN "fill" ELSE "crop"
  /\ UNCHANGED << image, path, cursor, gridTried, alpha, out >>

(***************************************************************************)
(* Pictures the decoder owns.  Crops that come first are made on the planes *)
(* when that keeps the phase of chroma and no alpha has to be cropped along. *)
(***************************************************************************)
CropsPlanes ==
  /\ image.kind = "coded"
  /\ alpha = NoAlpha
  /\ rest # << >>
  /\ IsClap(Head(rest))
  /\ KeepsChromaPhase(planes, Head(rest))

CropLeading ==
  /\ phase = "crop"
  /\ CropsPlanes
  /\ LET c == CropBounds(Head(rest), planes.w, planes.h)
     IN  IF c.valid
         THEN /\ planes' = CropPlanes(planes, c)
              /\ rest' = Tail(rest)
              /\ UNCHANGED phase
         ELSE /\ phase' = "refused"
              /\ UNCHANGED << planes, rest >>
  /\ UNCHANGED << image, path, cursor, gridTried, alpha, out >>

ConvertOwned ==
  /\ phase = "crop"
  /\ path = "rgba"
  /\ ~CropsPlanes
  /\ IF DepthsAgree /\ (alpha # NoAlpha => AlphaFits(alpha, planes.w, planes.h))
     THEN /\ out' = IF HasOwnAlpha THEN ConvertedOwn(planes)
                    ELSE WithAlpha(Converted(planes), alpha)
          /\ phase' = "transform"
     ELSE /\ phase' = "refused"
          /\ UNCHANGED out
  /\ UNCHANGED << image, path, cursor, gridTried, alpha, planes, rest >>

TransformOwned ==
  /\ phase = "transform"
  /\ rest # << >>
  /\ IF CanApply(out, Head(rest))
     THEN /\ out' = Applied(out, Head(rest))
          /\ rest' = Tail(rest)
          /\ UNCHANGED phase
     ELSE /\ phase' = "refused"
          /\ UNCHANGED << out, rest >>
  /\ UNCHANGED << image, path, cursor, gridTried, alpha, planes >>

EndTransforms ==
  /\ phase = "transform"
  /\ rest = << >>
  /\ phase' = "done"
  /\ UNCHANGED << image, path, cursor, gridTried, alpha, planes, rest, out >>

(* Three channels have no alpha and go through the plan at once. *)
ConvertRgb8 ==
  /\ phase = "crop"
  /\ path = "rgb8"
  /\ ~CropsPlanes
  /\ IF DepthsAgree /\ Plan(planes.w, planes.h, rest).valid
     THEN /\ out' = Replanned(Converted(planes), rest)
          /\ phase' = "done"
     ELSE /\ phase' = "refused"
          /\ UNCHANGED out
  /\ UNCHANGED << image, path, cursor, gridTried, alpha, planes, rest >>

PlanesAsTheyAre ==
  /\ phase = "crop"
  /\ path = "planes"
  /\ phase' = "done"
  /\ UNCHANGED << image, path, cursor, gridTried, alpha, planes, rest, out >>

(***************************************************************************)
(* The buffer of the caller.  Eight-bit pictures that are only cropped are  *)
(* converted as a region of the planes; samples of sixteen bits that are    *)
(* not transformed are converted in place when the buffer is aligned.       *)
(***************************************************************************)
ImagePlan == Plan(image.w, image.h, image.transforms)

(* The buffer holds exactly the pixels of the plan. *)
BufferFits(plan) == DOMAIN out.px = Pixels(plan.w, plan.h)

OnlyCrops(plan) == \A k \in 1 .. Len(plan.steps) : plan.steps[k].kind = "clap"

CanFill(plan) ==
  /\ DepthsAgree
  /\ plan.valid
  /\ BufferFits(plan)
  /\ alpha # NoAlpha => AlphaFits(alpha, planes.w, planes.h)

AlphaOr(i, own) == IF alpha = NoAlpha THEN own ELSE AlphaSample(alpha, i)

Region(plan) ==
  LET first == MapDestination(plan, 0, 0)
  IN  [d \in Pixels(plan.w, plan.h) |->
         PixelAt(planes, first[1] + (d % plan.w), first[2] + (d \div plan.w))]

InPlace(plan) == WithAlpha([out EXCEPT !.px = Region(plan)], alpha).px

Gathered(plan) ==
  [d \in Pixels(plan.w, plan.h) |->
     LET at == MapDestination(plan, d % plan.w, d \div plan.w)
         i == at[2] * planes.w + at[1]
         pixel == IF HasOwnAlpha THEN ConvertedOwn(planes).px[i] ELSE PixelAt(planes, at[1], at[2])
     IN  [pixel EXCEPT !.alpha = AlphaOr(i, pixel.alpha)]]

Fill(pixels) ==
  /\ out' = [out EXCEPT !.px = pixels]
  /\ phase' = "done"
  /\ UNCHANGED << image, path, cursor, gridTried, alpha, planes, rest >>

TakesRegion(plan) ==
  /\ image.kind = "coded"
  /\ StorageDepth(image.depth) = 8
  /\ alpha = NoAlpha \/ image.transforms = << >>
  /\ OnlyCrops(plan)

TakesPlace == image.kind = "coded" /\ StorageDepth(image.depth) = 16 /\ image.transforms = << >>

FillRegion ==
  LET plan == ImagePlan
  IN  phase = "fill" /\ CanFill(plan) /\ TakesRegion(plan) /\ Fill(InPlace(plan))

FillAligned ==
  LET plan == ImagePlan
  IN  phase = "fill" /\ CanFill(plan) /\ TakesPlace /\ Fill(InPlace(plan))

(* Everything else goes pixel by pixel, a buffer that does not fit nowhere. *)
FillByPixel ==
  LET plan == ImagePlan
  IN  /\ phase = "fill"
      /\ ~(CanFill(plan) /\ TakesRegion(plan))
      /\ IF CanFill(plan) THEN Fill(Gathered(plan))
         ELSE /\ phase' = "refused"
              /\ UNCHANGED << image, path, cursor, gridTried, alpha, planes, rest, out >>

(***************************************************************************)
(* Grids.  Tiles are decoded one after the other and pasted where they      *)
(* belong, as far as they lie inside the picture.                           *)
(***************************************************************************)
Tile(k) == image.tiles[k]

(* A tile may be cropped by its own properties, but neither turned nor       *)
(* mirrored.                                                                *)
TileTransformed(p, t) ==
  IF ~p.ok \/ IsIdentity(t) THEN p
  ELSE IF ~IsClap(t) THEN [p EXCEPT !.ok = FALSE]
  ELSE LET c == CropBounds(t, p.planes.w, p.planes.h)
       IN  IF c.valid THEN [p EXCEPT !.planes = CropPlanes(p.planes, c)]
           ELSE [p EXCEPT !.ok = FALSE]

TileDecoded(k) ==
  FoldLeft(TileTransformed,
           [ok |-> TRUE, planes |-> Decoded(k, Tile(k).w, Tile(k).h, Tile(k).layout)],
           Tile(k).transforms)

First == TileDecoded(1).planes

FirstSuffices ==
  LET first == TileDecoded(1)
  IN  /\ image.w > 0 /\ image.h > 0
      /\ Len(image.tiles) = image.cols * image.rows
      /\ first.ok
      /\ first.planes.w >= image.w \div image.cols
      /\ first.planes.h >= image.h \div image.rows

(* Every tile is like the first one. *)
SameAsFirst(k) ==
  LET p == TileDecoded(k)
      first == First
  IN  /\ p.ok
      /\ p.planes.w = first.w /\ p.planes.h = first.h
      /\ Tile(k).layout = Tile(1).layout
      /\ Tile(k).depth = Tile(1).depth
      /\ Tile(k).matrix = Tile(1).matrix

Covered == image.cols * First.w >= image.w /\ image.rows * First.h >= image.h

OriginX(k) == ((k - 1) % image.cols) * First.w
OriginY(k) == ((k - 1) \div image.cols) * First.h

OriginAligned(k) ==
  OriginX(k) % SubX(First.layout) = 0 /\ OriginY(k) % SubY(First.layout) = 0

GapPixel == Pixel(Zero, IF First.layout = "400" THEN Middle ELSE Zero, Opaque)

(* A canvas is seeded only when the tiles leave a part of it free. *)
Canvas(w, h, old) ==
  [w |-> w, h |-> h,
   px |-> IF Covered THEN old ELSE LET gap == GapPixel IN [i \in Pixels(w, h) |-> gap]]

(* The new contents of a buffer after the writes: index to pixel. *)
Overwritten(px, writes) ==
  [i \in DOMAIN px \cup DOMAIN writes |-> IF i \in DOMAIN writes THEN writes[i] ELSE px[i]]

(* The places of the picture that lie in tile k, which begins at << ox, oy >>. *)
TilePart(tile, ox, oy) ==
  (ox .. Lesser(ox + tile.w, image.w) - 1) \X (oy .. Lesser(oy + tile.h, image.h) - 1)

(* The writes that put the pixels of tile k where index says, -1 for nowhere, *)
(* with the alpha of the place.                                             *)
Written(k, index, a) ==
  LET tile == TileDecoded(k).planes
      ox == OriginX(k)
      oy == OriginY(k)
      inside == {at \in TilePart(tile, ox, oy) : index[at] # -1}
  IN  [i \in {index[at] : at \in inside} |->
         LET at == CHOOSE at \in inside : index[at] = i
             pixel == PixelAt(tile, at[1] - ox, at[2] - oy)
         IN  IF a = NoAlpha THEN pixel
             ELSE [pixel EXCEPT !.alpha = AlphaSample(a, at[2] * image.w + at[1])]]

Places == Coordinates(image.w, image.h)

ImageOrientation == Orientation(image.w, image.h, image.transforms)

(* The picture that is owned is turned while it is pasted unless there is a  *)
(* crop or an alpha plane.                                                  *)
TurnsOwned == alpha = NoAlpha /\ ImageOrientation.effective

PasteTurned(k) ==
  LET o == ImageOrientation
  IN  Written(k, [at \in Places |-> LET to == MapOriented(o, at[1], at[2]) IN to[2] * o.w + to[1]],
              NoAlpha)

PasteClipped(k) == Written(k, [at \in Places |-> at[2] * image.w + at[1]], NoAlpha)

(* Through the plan, a pixel that is cropped away is skipped. *)
PlannedPlaces(plan) ==
  [at \in Places |-> LET to == MapSource(plan, at[1], at[2])
                     IN  IF to = Nowhere THEN -1 ELSE to[2] * plan.w + to[1]]

PasteRgb8(k) == Written(k, PlannedPlaces(ImagePlan), NoAlpha)

PasteHookPlanned(k) == Written(k, PlannedPlaces(ImagePlan), alpha)

(* Without crops and alpha a row is written with one stride, from the place  *)
(* of its first pixel on.                                                   *)
HookDirect == alpha = NoAlpha /\ \A j \in 1 .. Len(image.transforms) : ~IsClap(image.transforms[j])

Stride(o, width) == o.y.fx * width + o.x.fx

PasteHookDirect(k) ==
  LET o == ImageOrientation
      width == ImagePlan.w
      stride == Stride(o, width)
      left == OriginX(k)
  IN  Written(k,
        [at \in Places |->
           IF ~o.effective THEN at[2] * width + at[1]
           ELSE LET start == MapOriented(o, left, at[2])
                IN  start[2] * width + start[1] + (at[1] - left) * stride],
        NoAlpha)

PasteHook(k) == IF HookDirect THEN PasteHookDirect(k) ELSE PasteHookPlanned(k)

(* The gaps of the buffer of the caller get their alpha before any tile. *)
Seeded(plan, px) ==
  IF Covered \/ alpha = NoAlpha THEN px
  ELSE LET index == PlannedPlaces(plan)
           seeds == {at \in Places : index[at] # -1}
       IN  Overwritten(px, [d \in {index[at] : at \in seeds} |->
             LET at == CHOOSE at \in seeds : index[at] = d
             IN  [px[d] EXCEPT !.alpha = AlphaSample(alpha, at[2] * image.w + at[1])]])

(* A canvas of planes is zero, luma and chroma. *)
ZeroPlanes(w, h, layout) ==
  LET size == ChromaSize(w, h, layout)
  IN  [w |-> w, h |-> h, layout |-> layout,
       luma |-> [at \in Coordinates(w, h) |-> Zero],
       chroma |-> [at \in Coordinates(size[1], size[2]) |-> Zero]]

PastedPlane(canvas, tile, ox, oy) ==
  [at \in DOMAIN canvas |->
     IF << at[1] - ox, at[2] - oy >> \in DOMAIN tile
     THEN tile[<< at[1] - ox, at[2] - oy >>] ELSE canvas[at]]

PastePlanes(k) ==
  LET tile == TileDecoded(k).planes
  IN  [planes EXCEPT
         !.luma = PastedPlane(planes.luma, tile.luma, OriginX(k), OriginY(k)),
         !.chroma = PastedPlane(planes.chroma, tile.chroma,
                                OriginX(k) \div SubX(tile.layout),
                                OriginY(k) \div SubY(tile.layout))]

CanOpen ==
  /\ FirstSuffices
  /\ path # "planes" => DepthsAgree
  /\ path \in {"rgb8", "hook"} => ImagePlan.valid
  /\ path = "hook" =>
       /\ BufferFits(ImagePlan)
       /\ alpha # NoAlpha => AlphaFits(alpha, image.w, image.h)

Opened ==
  CASE path = "rgba" /\ TurnsOwned ->
         Canvas(ImageOrientation.w, ImageOrientation.h,
                [i \in Pixels(image.w, image.h) |-> Untouched])
    [] path = "rgba" /\ ~TurnsOwned ->
         Canvas(image.w, image.h, [i \in Pixels(image.w, image.h) |-> Untouched])
    [] path = "rgb8" ->
         Canvas(ImagePlan.w, ImagePlan.h, [i \in Pixels(ImagePlan.w, ImagePlan.h) |-> Untouched])
    [] path = "hook" ->
         LET canvas == Canvas(ImagePlan.w, ImagePlan.h, out.px)
         IN  [canvas EXCEPT !.px = Seeded(ImagePlan, canvas.px)]
    [] OTHER -> out

OpenGrid ==
  /\ phase = "decode"
  /\ image.kind = "grid"
  /\ IF CanOpen
     THEN /\ out' = Opened
          /\ planes' = IF path = "planes" THEN ZeroPlanes(image.w, image.h, First.layout)
                       ELSE planes
          /\ rest' = IF path = "rgba" /\ ~TurnsOwned THEN image.transforms ELSE << >>
          /\ phase' = "paste"
     ELSE /\ phase' = "refused"
          /\ UNCHANGED << out, planes, rest >>
  /\ UNCHANGED << image, path, cursor, gridTried, alpha >>

Pasted(k) ==
  CASE path = "rgba" /\ TurnsOwned -> PasteTurned(k)
    [] path = "rgba" /\ ~TurnsOwned -> PasteClipped(k)
    [] path = "rgb8" -> PasteRgb8(k)
    [] path = "hook" -> PasteHook(k)

PasteTile ==
  /\ phase = "paste"
  /\ cursor <= Len(image.tiles)
  /\ IF SameAsFirst(cursor) /\ OriginAligned(cursor)
     THEN /\ IF path = "planes"
             THEN planes' = PastePlanes(cursor) /\ UNCHANGED out
             ELSE /\ out' = [out EXCEPT !.px = Overwritten(out.px, Pasted(cursor))]
                  /\ UNCHANGED planes
          /\ cursor' = cursor + 1
          /\ UNCHANGED phase
     ELSE /\ phase' = "refused"
          /\ UNCHANGED << planes, out, cursor >>
  /\ UNCHANGED << image, path, gridTried, alpha, rest >>

(* Alpha comes after the last tile, and the transforms after alpha. *)
CloseGrid ==
  /\ phase = "paste"
  /\ cursor > Len(image.tiles)
  /\ IF path = "rgba" /\ alpha # NoAlpha /\ ~AlphaFits(alpha, image.w, image.h)
     THEN phase' = "refused" /\ UNCHANGED out
     ELSE /\ out' = IF path = "rgba" THEN WithAlpha(out, alpha) ELSE out
          /\ phase' = IF path = "rgba" THEN "transform" ELSE "done"
  /\ UNCHANGED << image, path, cursor, gridTried, alpha, planes, rest >>

InitWith(i, p) ==
  /\ image = i
  /\ path = p
  /\ phase = "start"
  /\ cursor = 1
  /\ gridTried = FALSE
  /\ alpha = NoAlpha
  /\ planes = NoPlanes
  /\ rest = << >>
  /\ out = NoPicture

PixelNext ==
  \/ Probe \/ Call
  \/ ScanCandidate \/ NoCandidateLeft
  \/ DecodePicture \/ CropLeading
  \/ ConvertOwned \/ TransformOwned \/ EndTransforms \/ ConvertRgb8 \/ PlanesAsTheyAre
  \/ FillRegion \/ FillAligned \/ FillByPixel
  \/ OpenGrid \/ PasteTile \/ CloseGrid

(* What a file can hold, and the paths it can leave by. *)
Layouts == {"400", "420", "422", "444"}

TileItems ==
  [w : Nat, h : Nat, layout : Layouts, depth : 8 .. 16, matrix : {"bt601", "bt709"},
   transforms : Seq(Transform)]

AlphaItems ==
  [type : {"hvc1", "av01", "grid"}, local : BOOLEAN, aux : {"alpha", "depth"},
   ispe : {"same", "other", "absent"}, coded : {"same", "other"},
   fate : {"decodes", "fails", "exhausted"}]

Images ==
  [kind : {"coded", "avif", "uncompressed", "grid"}, w : Nat, h : Nat, layout : Layouts,
   depth : 8 .. 16, chromaDepth : 8 .. 16, transforms : Seq(Transform),
   candidates : Seq(AlphaItems), cols : Nat \ {0}, rows : Nat \ {0}, tiles : Seq(TileItems)]

PixelInit == \E i \in Images, p \in {"rgba", "rgb8", "planes", "hook"} : InitWith(i, p)

PixelSpec == PixelInit /\ [][PixelNext]_pixelVars

(***************************************************************************)
(* What the picture should be, said without coordinates that are mapped:    *)
(* a picture is a sequence of rows, and turning, mirroring and cropping are *)
(* reversals, transpositions and parts of sequences.                        *)
(***************************************************************************)
Columns(rows) == [x \in 1 .. Len(rows[1]) |-> [y \in 1 .. Len(rows) |-> rows[y][x]]]
Mirrored(rows) == [y \in 1 .. Len(rows) |-> Reverse(rows[y])]
QuarterTurn(rows) == Reverse(Columns(rows))

Part(rows, c) ==
  [y \in 1 .. c.height |-> SubSeq(rows[c.top + y], c.left + 1, c.right + 1)]

Wanted(rows, t) ==
  CASE rows = << >> -> rows
    [] t.kind = "clap" ->
         LET c == CropBounds(t, Len(rows[1]), Len(rows)) IN IF c.valid THEN Part(rows, c) ELSE << >>
    [] t.kind = "irot" /\ t.degrees = 0 -> rows
    [] t.kind = "irot" /\ t.degrees = 90 -> QuarterTurn(rows)
    [] t.kind = "irot" /\ t.degrees = 180 -> QuarterTurn(QuarterTurn(rows))
    [] t.kind = "irot" /\ t.degrees = 270 -> QuarterTurn(QuarterTurn(QuarterTurn(rows)))
    [] t.kind = "imir" /\ t.axis = "horizontal" -> Mirrored(rows)
    [] t.kind = "imir" /\ t.axis = "vertical" -> Reverse(rows)

(* The candidate that gives alpha: the first one that is a plane of the      *)
(* image, where of the grids only the first that says it is alpha counts.    *)
FirstAlphaGrid(k) ==
  /\ image.kind # "avif"
  /\ Candidate(k).local /\ Candidate(k).aux = "alpha"
  /\ \A j \in 1 .. k - 1 :
       Candidate(j).type = "grid" => ~(Candidate(j).local /\ Candidate(j).aux = "alpha")

Tried(k) == Candidate(k).type = "grid" => FirstAlphaGrid(k)
Usable(k) == Tried(k) /\ Outcome(Candidate(k)) # "fails"
UsableOnes == {k \in 1 .. Len(image.candidates) : Usable(k)}
ChosenItem == CHOOSE k \in UsableOnes : \A j \in UsableOnes : k <= j
AlphaWanted == path \in {"rgba", "hook"} /\ ~HasOwnAlpha /\ UsableOnes # {}
Exhausts == AlphaWanted /\ Outcome(Candidate(ChosenItem)) = "exhausted"

WantedAlpha(x, y) ==
  IF HasOwnAlpha THEN << OwnAlpha, x, y >>
  ELSE IF image.candidates # << >> /\ AlphaWanted THEN << AlphaSource(ChosenItem), x, y >> ELSE Opaque

(* A pixel of a grid is the pixel of the tile it lies in, or of the gap. *)
GridPixel(tiles, x, y) ==
  LET w == tiles[1].w
      h == tiles[1].h
  IN  IF x < image.cols * w /\ y < image.rows * h
      THEN PixelAt(tiles[(y \div h) * image.cols + (x \div w) + 1], x % w, y % h)
      ELSE GapPixel

SourcePixel(tiles, whole, x, y) ==
  IF image.kind = "grid" THEN GridPixel(tiles, x, y) ELSE PixelAt(whole, x, y)

SourceRows ==
  LET tiles == [k \in DOMAIN image.tiles |-> TileDecoded(k).planes]
      whole == Decoded(1, image.w, image.h, image.layout)
  IN  [y \in 1 .. image.h |-> [x \in 1 .. image.w |->
         [SourcePixel(tiles, whole, x - 1, y - 1) EXCEPT !.alpha = WantedAlpha(x - 1, y - 1)]]]

WantedTransforms == IF path = "planes" THEN << >> ELSE image.transforms
WantedRows == FoldLeft(Wanted, SourceRows, WantedTransforms)

GridWanted ==
  /\ FirstSuffices
  /\ \A k \in 1 .. Len(image.tiles) : SameAsFirst(k) /\ OriginAligned(k)

(* What an image has to be for the path to give a picture of it. *)
Decodable(rows) ==
  /\ ~Exhausts
  /\ path # "planes" => DepthsAgree
  /\ image.kind = "grid" => GridWanted
  /\ rows # << >>

RowsOf(p) == [y \in 1 .. p.h |-> [x \in 1 .. p.w |-> p.px[(y - 1) * p.w + x - 1]]]

Result == IF path = "planes" THEN Converted(planes) ELSE out

(***************************************************************************)
(* Properties.                                                             *)
(***************************************************************************)
(* Whatever the path, the picture is the one the properties of the item      *)
(* describe: each pixel made of the luma, the chroma and the alpha of its    *)
(* place, gaps of a grid filled, nothing of the caller's buffer left; and an *)
(* image that has such a picture is never refused, also not because the size *)
(* the caller was told is another one than the decoder finds.               *)
SamePicture ==
  /\ phase = "done" =>
       LET rows == WantedRows
           result == Result
       IN  /\ Decodable(rows)
           /\ RowsOf(result) = rows
           /\ DOMAIN result.px = Pixels(result.w, result.h)
  /\ phase = "refused" => ~Decodable(WantedRows)

(* Exact edges of a clean aperture, as rationals: the offset is that of the  *)
(* centre, and the size counts pixels.                                      *)
ExactStart(offset, extent, size) ==
  Minus(Plus(offset, Ratio(size - 1, 2)), Over(MinusInt(extent, 1), 2))
ExactEnd(offset, extent, size) == Plus(ExactStart(offset, extent, size), MinusInt(extent, 1))

Below(a, b) == a.n * b.d < b.n * a.d
AtMost(a, b) == ~Below(b, a)
Apart(k, a, limit) ==
  /\ AtMost(Minus(a, Ratio(k, 1)), limit)
  /\ AtMost(Minus(Ratio(k, 1), a), limit)
Clamped(a, size) ==
  IF Below(a, Ratio(0, 1)) THEN Ratio(0, 1)
  ELSE IF Below(Ratio(size - 1, 1), a) THEN Ratio(size - 1, 1) ELSE a
Whole(a) == a.n % a.d = 0
Contained(offset, extent, size) ==
  AtMost(Ratio(0, 1), ExactStart(offset, extent, size))
  /\ AtMost(ExactEnd(offset, extent, size), Ratio(size - 1, 1))

(* The last edge has half a pixel more of slack, or that of an aperture that  *)
(* begins before the picture.                                               *)
EdgesKept(offset, extent, size, first, last, slack, before) ==
  LET start == ExactStart(offset, extent, size)
  IN  /\ Apart(first, Clamped(start, size), slack)
      /\ Apart(last, Clamped(ExactEnd(offset, extent, size), size),
               IF Below(start, Ratio(0, 1)) THEN before ELSE Plus(slack, Ratio(1, 2)))
      /\ Contained(offset, extent, size) /\ Whole(extent) /\ AtMost(Ratio(1, 1), extent) =>
           (last - first + 1) * extent.d = extent.n

(* A crop that is made is the aperture of the file: the first column lies    *)
(* within one pixel of the exact rational edge and the first row within half *)
(* a pixel, the last ones within half a pixel more, an aperture of whole     *)
(* pixels inside the picture keeps its size whatever its offset rounds to,   *)
(* and one that lies inside is never refused.  Division drops fractions      *)
(* towards zero: a first row above the picture is rounded down into it, and  *)
(* takes the last row with it, by less than two.                            *)
ApertureKept ==
  phase = "start" => \A k \in 1 .. Len(image.transforms) :
    LET t == image.transforms[k]
        c == CropBounds(t, image.w, image.h)
    IN  IsClap(t) =>
          /\ c.valid =>
               /\ EdgesKept(t.x, t.width, image.w, c.left, c.right,
                            Ratio(1, 1), Ratio(3, 2))
               /\ EdgesKept(t.y, t.height, image.h, c.top, c.bottom,
                            Ratio(1, 2), Ratio(2, 1))
          /\ /\ Contained(t.x, t.width, image.w) /\ Contained(t.y, t.height, image.h)
             /\ AtMost(Ratio(1, 1), t.width) /\ AtMost(Ratio(1, 1), t.height)
             => c.valid
===============================================================================
