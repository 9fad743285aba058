---------------------------- MODULE MCPixelOutput ----------------------------
(* Small pictures of every layout with every short list of transforms, grids *)
(* with and without gaps, lists of alpha candidates, and apertures of many    *)
(* rational sizes and offsets, through every path.                           *)
EXTENDS PixelOutput

Irot(degrees) == [kind |-> "irot", degrees |-> degrees]
Imir(axis) == [kind |-> "imir", axis |-> axis]
Aperture(width, height, x, y) ==
  [kind |-> "clap", width |-> width, height |-> height, x |-> x, y |-> y]

Int1(n) == Ratio(n, 1)

(* Even and odd edges, a fraction of a pixel, and one outside the picture. *)
Even == Aperture(Int1(2), Int1(2), Ratio(1, 2), Ratio(-1, 1))
OddLeft == Aperture(Int1(3), Int1(2), Int1(1), Int1(-1))
OddTop == Aperture(Int1(3), Int1(2), Int1(-1), Int1(0))
Partial == Aperture(Ratio(7, 2), Ratio(4, 3), Ratio(-1, 3), Ratio(2, 3))
Outside == Aperture(Int1(1), Int1(1), Int1(9), Int1(0))

Turns == {Irot(0), Irot(90), Irot(180), Irot(270), Imir("horizontal"), Imir("vertical")}
Claps == {Even, OddLeft, OddTop, Partial, Outside}
AnyTransform == Turns \cup Claps

UpTo(n, S) == UNION {[1 .. k -> S] : k \in 0 .. n}

OneTile == [w |-> 1, h |-> 1, layout |-> "400", depth |-> 8, matrix |-> "bt601",
            transforms |-> << >>]

Coded ==
  [kind |-> "coded", w |-> 3, h |-> 2, layout |-> "444", depth |-> 8, chromaDepth |-> 8,
   transforms |-> << >>, candidates |-> << >>, cols |-> 1, rows |-> 1, tiles |-> << OneTile >>]

GoodAlpha == [type |-> "hvc1", local |-> TRUE, aux |-> "alpha", ispe |-> "same",
              coded |-> "same", fate |-> "decodes"]
AvifAlpha == [GoodAlpha EXCEPT !.type = "av01"]
GridAlpha == [GoodAlpha EXCEPT !.type = "grid"]
Goods == {GoodAlpha, AvifAlpha, GridAlpha}

Alphas(kind) == {<< >>, << IF kind = "avif" THEN AvifAlpha ELSE GoodAlpha >>}

Candidates ==
  UNION {{c, [c EXCEPT !.local = FALSE], [c EXCEPT !.aux = "depth"], [c EXCEPT !.ispe = "other"],
          [c EXCEPT !.ispe = "absent"], [c EXCEPT !.ispe = "absent", !.coded = "other"],
          [c EXCEPT !.fate = "fails"], [c EXCEPT !.fate = "exhausted"]} : c \in Goods}
Few ==
  {GoodAlpha, GridAlpha, [GridAlpha EXCEPT !.aux = "depth"], [GridAlpha EXCEPT !.fate = "fails"],
   [GoodAlpha EXCEPT !.fate = "exhausted"], [GridAlpha EXCEPT !.coded = "other"]}

(* Every way to combine three transforms, on a picture whose sides differ. *)
Combined ==
  \E kind \in {"coded", "avif", "uncompressed"}, layout \in {"444", "400"}, ts \in UpTo(3, Turns) :
    \E p \in {"rgba", "hook"} \cup (IF kind = "coded" THEN {"rgb8"} ELSE {}),
       candidates \in (IF layout = "444" THEN Alphas(kind) ELSE {<< >>}) :
      InitWith([Coded EXCEPT !.kind = kind, !.layout = layout, !.transforms = ts,
                             !.candidates = candidates], p)

(* Crops among turns, with chroma that has fewer samples than luma. *)
Cropping ==
  \E kind \in {"coded", "avif"}, layout \in {"420", "422"}, ts \in UpTo(2, AnyTransform),
     depth \in {8, 10} :
    \E p \in {"rgba", "hook"} \cup (IF kind = "coded" THEN {"rgb8"} ELSE {}),
       candidates \in Alphas(kind) :
      InitWith([Coded EXCEPT !.kind = kind, !.w = 5, !.h = 4, !.layout = layout,
                             !.transforms = ts, !.depth = depth, !.chromaDepth = depth,
                             !.candidates = candidates], p)

(* Two crops and a turn. *)
CropTwice ==
  \E a, b \in Claps, t \in {Irot(90), Imir("vertical")}, p \in {"rgba", "hook", "rgb8"} :
    \E ts \in {<< a, b, t >>, << a, t, b >>} :
      InitWith([Coded EXCEPT !.w = 6, !.h = 5, !.layout = "420", !.transforms = ts], p)

Apertures ==
  \E n \in 0 .. 8, d \in 1 .. 3, xn \in -7 .. 7, xd \in 1 .. 3, w \in 1 .. 5 :
    LET t == Aperture(Ratio(n, d), Ratio(n, d), Ratio(xn, xd), Ratio(xn, xd))
    IN  InitWith([Coded EXCEPT !.w = w, !.h = w + 1, !.transforms = << t >>], "hook")

AlphaChoices ==
  \E p \in {"rgba", "hook"}, kind \in {"coded", "avif", "grid"},
     candidates \in UpTo(2, Candidates) \cup UpTo(3, Few) :
    InitWith([Coded EXCEPT !.kind = kind, !.candidates = candidates,
                !.tiles = << [OneTile EXCEPT !.w = 3, !.h = 2, !.layout = "444"] >>], p)

Depths ==
  \E p \in {"rgba", "rgb8", "hook", "planes"}, depth, chroma \in {8, 10},
     candidates \in Alphas("coded"), ts \in UpTo(1, Turns) :
    InitWith([Coded EXCEPT !.depth = depth, !.chromaDepth = chroma, !.transforms = ts, !.candidates = candidates], p)

(* Grids that cover the picture, leave a gap, or have tiles beyond it. *)
TileSizes == {<< 2, 2 >>, << 3, 1 >>}
Beyond == {<< 0, 0 >>, << -1, 0 >>, << 1, 0 >>, << 0, 1 >>}
Crop == Aperture(Int1(2), Int1(1), Ratio(1, 2), Ratio(-1, 2))
FewTurns ==
  UpTo(1, {Irot(90), Imir("horizontal"), Crop})
  \cup {<< Irot(270), Crop >>, << Imir("vertical"), Irot(90) >>}

Grids ==
  \E cols \in 1 .. 2, rows \in 1 .. 2, size \in TileSizes, more \in Beyond,
     layout \in {"400", "420", "422", "444"}, ts \in FewTurns,
     p \in {"rgba", "rgb8", "hook", "planes"} :
    \E candidates \in (IF p \in {"rgba", "hook"} THEN Alphas("grid") ELSE {<< >>}) :
      LET tile == [OneTile EXCEPT !.w = size[1], !.h = size[2], !.layout = layout]
      IN  InitWith([Coded EXCEPT !.kind = "grid",
                      !.w = cols * size[1] + more[1], !.h = rows * size[2] + more[2],
                      !.layout = layout, !.transforms = ts, !.candidates = candidates,
                      !.cols = cols, !.rows = rows, !.tiles = [k \in 1 .. cols * rows |-> tile]], p)

(* Tiles that are not like the first one, or are cropped themselves. *)
MixedTiles ==
  LET tile == [OneTile EXCEPT !.w = 4, !.h = 4, !.layout = "420"]
      crop == Aperture(Int1(2), Int1(2), Int1(0), Int1(0))
      cropped == [tile EXCEPT !.transforms = << crop, Irot(0) >>]
  IN  \E p \in {"rgba", "rgb8", "hook", "planes"}, ts \in UpTo(1, {Irot(90), Crop}) :
        \E tiles \in {<< tile, [tile EXCEPT !.w = 2] >>, << tile, [tile EXCEPT !.layout = "444"] >>,
                      << tile, [tile EXCEPT !.depth = 10] >>, << tile, [tile EXCEPT !.matrix = "bt709"] >>,
                      << cropped, cropped >>, << cropped, tile >>, << tile >>,
                      << [tile EXCEPT !.transforms = << Irot(90) >>], tile >>,
                      << tile, [tile EXCEPT !.transforms = << Imir("vertical") >>] >>} :
          InitWith([Coded EXCEPT !.kind = "grid", !.w = 4, !.h = 2, !.layout = "420",
                      !.transforms = ts, !.cols = 2, !.tiles = tiles], p)

MCInit ==
  Combined \/ Cropping \/ CropTwice \/ Apertures \/ AlphaChoices \/ Depths \/ Grids \/ MixedTiles

MCSpec == MCInit /\ [][PixelNext]_pixelVars
===============================================================================
