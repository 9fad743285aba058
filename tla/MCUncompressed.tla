---------------------------- MODULE MCUncompressed ----------------------------
(* Small images of every interleaving, each with the payload it needs and a   *)
(* byte less or more, whole or as compressed units that inflate to it.        *)
EXTENDS UncompressedDecode

Spec8(index) == [index |-> index, depth |-> 8, align |-> 0, format |-> "unsigned"]
Comp(index, depth, align) ==
  [index |-> index, depth |-> depth, align |-> align, format |-> "unsigned"]

Plain ==
  [count |-> [ispe |-> 1, cmpd |-> 1, uncC |-> 1],
   whole |-> [cmpd |-> TRUE, uncC |-> TRUE],
   profile |-> "none", width |-> 2, height |-> 2,
   types |-> << "mono" >>, components |-> << Spec8(1) >>,
   interleave |-> "component", sampling |-> "444", blocks |-> FALSE,
   pixelSize |-> 0, rowAlign |-> 0, tileAlign |-> 0, cols |-> 1, rows |-> 1,
   external |-> FALSE, method |-> "file", available |-> 0, extents |-> << >>,
   cmpC |-> << >>, icef |-> << >>, contents |-> << >>, matrix |-> "bt601"]

(* A payload of the wanted size in one extent or in two. *)
Stored(i, bytes) == [i EXCEPT !.available = bytes, !.extents = << [start |-> 0, length |-> bytes] >>]
Split(i, bytes) ==
  [i EXCEPT !.available = bytes, !.method = "idat",
     !.extents = << [start |-> 0, length |-> bytes \div 2],
                    [start |-> bytes \div 2, length |-> bytes - bytes \div 2] >>]

WellKnown(i, types, components) == [i EXCEPT !.types = types, !.components = components]

Types == {<< "Y", "Cb", "Cr" >>, << "Cr", "Y", "Cb" >>, << "R", "G", "B" >>,
          << "mono", "A" >>, << "padded", "mono" >>}

Depths == {<< 8, 0 >>, << 5, 0 >>, << 5, 1 >>, << 12, 0 >>, << 12, 3 >>, << 12, 1 >>}

(* The first component has a depth of its own. *)
Components(n, first, others) ==
  [k \in 1 .. n |-> IF k = 1 THEN Comp(k, first[1], first[2])
                    ELSE Comp(k, others[1], others[2])]

Shapes == {[w |-> 2, h |-> 2, c |-> 1, r |-> 1], [w |-> 4, h |-> 2, c |-> 2, r |-> 1],
           [w |-> 2, h |-> 4, c |-> 1, r |-> 2]}

Aligns == {[row |-> 0, tile |-> 0], [row |-> 4, tile |-> 0], [row |-> 2, tile |-> 8],
           [row |-> 0, tile |-> 3]}

(* Every layout with the exact payload, one byte short and one byte long. *)
LaidOut(types, first, others, interleave, sampling, shape, align, pixelSize) ==
  [Plain EXCEPT !.types = types, !.components = Components(Len(types), first, others),
     !.interleave = interleave, !.sampling = sampling,
     !.width = shape.w, !.height = shape.h, !.cols = shape.c, !.rows = shape.r,
     !.rowAlign = align.row, !.tileAlign = align.tile, !.pixelSize = pixelSize]

Exact(i, delta) ==
  Stored(i, IF PropertiesResolve(i) /\ LayoutSupported(i)
            THEN Greater(0, PayloadBytes(i) + delta) ELSE 1)

MultiY == WellKnown([Plain EXCEPT !.interleave = "multiY", !.sampling = "422", !.width = 4],
                    << "Cb", "Y", "Cr" >>, << >>)
MultiYOf(first, others, align, pixelSize) ==
  [MultiY EXCEPT !.rowAlign = align.row, !.tileAlign = align.tile, !.pixelSize = pixelSize,
     !.components = << Comp(1, others[1], others[2]), Comp(2, first[1], first[2]),
                       Comp(3, others[1], others[2]), Comp(2, first[1], first[2]) >>]

Layouts ==
  \/ \E types \in Types, first \in Depths, others \in {<< 3, 0 >>},
        interleave \in {"component", "mixed", "row", "tileComponent"},
        sampling \in {"444", "422", "420"}, shape \in Shapes, align \in Aligns,
        delta \in {-1, 0} :
       Starts(Exact(LaidOut(types, first, others, interleave, sampling, shape,
                            align, 0), delta))
  \/ \E types \in Types, first \in Depths, others \in {<< 3, 0 >>},
        shape \in Shapes, align \in Aligns, pixelSize \in {0, 5}, delta \in {-1, 1} :
       Starts(Exact(LaidOut(types, first, others, "pixel", "444", shape, align,
                            pixelSize), delta))
  \/ \E first \in Depths, others \in {<< 8, 0 >>, << 3, 0 >>}, align \in Aligns,
        pixelSize \in {0, 6}, delta \in {-1, 0} :
       Starts(Exact(MultiYOf(first, others, align, pixelSize), delta))
  \/ \E profile \in Profiles \cup {"other", "unknown"}, delta \in {-1, 0} :
       Starts(Exact([Plain EXCEPT !.profile = profile, !.count.cmpd = 0,
                       !.types = << >>, !.components = << >>], delta))

(* Items that are refused before a payload is looked at, or whose extents are. *)
Faulty ==
  { [Plain EXCEPT !.count.ispe = 2], [Plain EXCEPT !.count.uncC = 0],
    [Plain EXCEPT !.count.cmpd = 0], [Plain EXCEPT !.whole.cmpd = FALSE],
    [Plain EXCEPT !.whole.uncC = FALSE], [Plain EXCEPT !.width = 0],
    [Plain EXCEPT !.components[1].index = 2], [Plain EXCEPT !.components[1].format = "signed"],
    [Plain EXCEPT !.types = << "depth" >>], [Plain EXCEPT !.blocks = TRUE],
    [Plain EXCEPT !.cols = 3], [Plain EXCEPT !.sampling = "411"],
    [Plain EXCEPT !.components = << >>], [Plain EXCEPT !.pixelSize = 1],
    [Plain EXCEPT !.components = << Spec8(1), Spec8(1) >>],
    WellKnown(Plain, << "mono", "Y" >>, << Spec8(1), Spec8(2) >>),
    WellKnown(Plain, << "R", "G" >>, << Spec8(1), Spec8(2) >>),
    WellKnown(Plain, << "A" >>, << Spec8(1) >>) }

Items ==
  \/ \E i \in Faulty : Starts(i)
  \/ \E interleave \in {"row", "component"} :
       Starts(Exact([LaidOut(<< "Y", "Cb", "Cr" >>, << 8, 0 >>, << 8, 0 >>, interleave,
                             "444", [w |-> 2, h |-> 2, c |-> 1, r |-> 1],
                             [row |-> 0, tile |-> 0], 0) EXCEPT !.matrix = "other"], 0))
  \/ Starts(Split(Plain, 4))
  \/ Starts([Split(Plain, 4) EXCEPT !.available = 3])
  \/ Starts([Split(Plain, 4) EXCEPT !.extents[2].start = 0])
  \/ Starts([Stored(Plain, 4) EXCEPT !.method = "item"])
  \/ Starts([Stored(Plain, 4) EXCEPT !.external = TRUE])

(* Four samples padded to a layout that grows with the row alignment, given  *)
(* by up to two units.                                                       *)
Unit(bytes, ends) == [bytes |-> bytes, ends |-> ends]
CmpC(codec, kind) == [codec |-> codec, kind |-> kind]
Icef(implied, offsets, sizes, whole) ==
  [implied |-> implied, offsets |-> offsets, sizes |-> sizes, whole |-> whole]

Packed == [Stored(Plain, 3) EXCEPT !.cmpC = << CmpC("zlib", "image") >>]

Inflated ==
  \/ \E bytes \in 0 .. 9, align \in {0, 3, 4, 6}, ends \in {"well", "corrupt"} :
       Starts([Packed EXCEPT !.rowAlign = align, !.contents = << Unit(bytes, ends) >>])
  \/ \E one \in 0 .. 5, two \in 0 .. 4, align \in {0, 3, 4},
        ends \in {"well", "corrupt", "largeWindow"}, implied \in BOOLEAN,
        codec \in {"brotli", "deflate"} :
       Starts([Packed EXCEPT !.rowAlign = align, !.cmpC = << CmpC(codec, "row") >>,
                 !.icef = << Icef(implied, << 1, 0 >>, << 1, 2 >>, TRUE) >>,
                 !.contents = << Unit(one, "well"), Unit(two, ends) >>])
  \/ \E i \in { [Packed EXCEPT !.cmpC = << CmpC("zlib", "image"), CmpC("zlib", "image") >>],
                [Packed EXCEPT !.cmpC[1].kind = "pixel"],
                [Packed EXCEPT !.cmpC[1].kind = "tile"],
                [Packed EXCEPT !.cmpC[1].codec = "other"],
                [Packed EXCEPT !.icef = << Icef(TRUE, << >>, << 1, 3 >>, TRUE) >>],
                [Packed EXCEPT !.icef = << Icef(TRUE, << >>, << 1, 1, 1 >>, TRUE) >>],
                [Packed EXCEPT !.icef = << Icef(TRUE, << >>, << 1 >>, FALSE) >>] } :
       Starts([i EXCEPT !.contents = << Unit(2, "well"), Unit(2, "well"), Unit(0, "well") >>])

MCInit == (Layouts \/ Items \/ Inflated) /\ Init
MCSpec == MCInit /\ [][Next]_vars
===============================================================================
