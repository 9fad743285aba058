----------------------------- MODULE MCCodedItem -----------------------------
(* An item with one of each NAL unit, everything one and two edits away from *)
(* it as a primary or an alpha item, and grids of one to four tiles that are *)
(* up to one edit away.                                                      *)
EXTENDS CodedItem

Set(w, h) ==
    [w |-> w, h |-> h, right |-> 0, bottom |-> 0, chroma |-> 1, planes |-> FALSE,
     luma |-> 8, chromaDepth |-> 8, ctb |-> 4, tool |-> FALSE]

\* "cut" is a larger picture of which as much is shown as of "plain".
MCSps ==
    [name \in {"plain", "wide", "cut", "narrow", "full", "planes", "deep", "mixed", "tool",
               "small", "large", "gone", "grey", "none", "odd", "dot"} |->
        CASE name = "plain"  -> Set(16, 16)
          [] name = "wide"   -> Set(32, 16)
          [] name = "cut"    -> [Set(32, 24) EXCEPT !.right = 8, !.bottom = 4]
          [] name = "narrow" -> [Set(16, 16) EXCEPT !.right = 4]
          [] name = "full"   -> [Set(16, 16) EXCEPT !.chroma = 3]
          [] name = "planes" -> [Set(16, 16) EXCEPT !.chroma = 3, !.planes = TRUE]
          [] name = "deep"   -> [Set(16, 16) EXCEPT !.luma = 10, !.chromaDepth = 10]
          [] name = "mixed"  -> [Set(16, 16) EXCEPT !.chromaDepth = 10]
          [] name = "tool"   -> [Set(16, 16) EXCEPT !.tool = TRUE]
          [] name = "small"  -> [Set(16, 16) EXCEPT !.ctb = 3]
          [] name = "large"  -> Set(72, 8)
          [] name = "gone"   -> [Set(16, 16) EXCEPT !.right = 8]
          [] name = "grey"   -> [Set(16, 16) EXCEPT !.chroma = 0]
          [] name = "none"   -> [Set(16, 16) EXCEPT !.chroma = 4]
          [] name = "odd"    -> Set(17, 15)
          [] name = "dot"    -> Set(1, 1)]

Nal(kind, content) ==
    [kind |-> kind, header |-> "base", content |-> content, size |-> 6, removed |-> 0]

Plain == <<Nal("vps", "plain"), Nal("sps", "plain"), Nal("pps", "plain"), Nal("idr", "plain")>>

\* NAL units to put anywhere.
MCSets == {Nal("sps", n) : n \in DOMAIN MCSps \cup {"bad"}}
              \cup {Nal("pps", n) : n \in {"other", "wavefronts", "bad"}}
              \cup {Nal("vps", n) : n \in {"layers", "bad"}}
MCSlices == {Nal("idr", "other"), Nal("idr", "bad"), Nal("slice", "plain"), Nal("vcl", "plain")}
MCHeaders ==
    {[Nal(k, "plain") EXCEPT !.header = h] :
         k \in {"sps", "idr"}, h \in {"layer", "temporal", "damaged"}}
    \cup {[Nal("sps", "cut") EXCEPT !.header = "layer"],
          [Nal("other", "plain") EXCEPT !.header = "short", !.size = 0],
          [Nal("sps", "plain") EXCEPT !.header = "short", !.size = 1]}
MCSizes ==
    {[Nal("idr", "plain") EXCEPT !.size = 200, !.removed = 5],
     [Nal("sps", "plain") EXCEPT !.size = 20],
     [Nal("aside", "plain") EXCEPT !.size = 2],
     [Nal("aside", "plain") EXCEPT !.size = 40, !.removed = 1], Nal("other", "plain")}
MCNals == MCSets \cup MCSlices \cup MCHeaders \cup MCSizes

Coded(nals, configured) ==
    LET n == Lesser(configured, Len(nals))
    IN  [config |-> SubSeq(nals, 1, n), payload |-> SubSeq(nals, n + 1, Len(nals)),
         transforms |-> << >>]

Inserted(nals, extra) ==
    {SubSeq(nals, 1, i) \o <<n>> \o SubSeq(nals, i + 1, Len(nals)) :
         i \in 0 .. Len(nals), n \in extra}

Edits(nals, extra) ==
    Inserted(nals, extra)
    \cup {[nals EXCEPT ![i] = n] : i \in DOMAIN nals, n \in extra}
    \cup {SubSeq(nals, 1, i - 1) \o SubSeq(nals, i + 1, Len(nals)) : i \in DOMAIN nals}

OnceEdited == {Plain} \cup Edits(Plain, MCNals)

Few == {Nal("sps", "plain"), Nal("sps", "cut"), Nal("sps", "wide"), Nal("sps", "narrow"),
        Nal("pps", "other"), Nal("idr", "other"), Nal("aside", "plain")}
TwiceEdited == OnceEdited \cup UNION {Edits(e, Few) : e \in OnceEdited}

Item(kind, streams, w, h, columns, rows, limit) ==
    [kind |-> kind, streams |-> streams, w |-> w, h |-> h,
     columns |-> columns, rows |-> rows, limit |-> limit]

MCCodedItems ==
    {Item(kind, <<Coded(nals, configured)>>, w, 16, 1, 1, limit) :
        kind \in {"coded", "alpha"}, nals \in OnceEdited, configured \in {0, 3, 4},
        w \in {16, 32}, limit \in {{}, {256}}}
    \cup {Item("coded", <<Coded(nals, 3)>>, 16, 16, 1, 1, {}) : nals \in TwiceEdited}
    \cup {Item(kind, <<Coded([Plain EXCEPT ![2] = Nal("sps", "dot")], 3)>>, 1, 1, 1, 1, {}) :
              kind \in {"coded", "alpha"}}

Turn90 == [kind |-> "irot", degrees |-> 90]
NoTurn == [kind |-> "irot", degrees |-> 0]
Aperture ==
    [kind |-> "clap", width |-> Ratio(8, 1), height |-> Ratio(16, 1), x |-> Ratio(0, 1),
     y |-> Ratio(0, 1)]
MCTransforms == {<< >>, <<Turn90>>, <<NoTurn>>, <<Aperture>>}

MCTiles == {[Coded(nals, 3) EXCEPT !.transforms = ts] : nals \in OnceEdited, ts \in {<< >>}}
               \cup {[Coded(nals, 3) EXCEPT !.transforms = ts] :
                         nals \in {[Plain EXCEPT ![2] = Nal("sps", n)] :
                                       n \in {"plain", "wide", "cut", "odd"}},
                         ts \in MCTransforms}
PlainTile == Coded(Plain, 3)

MCGrids ==
    {Item("grid", <<a, PlainTile>>, size[1], size[2], shape[1], shape[2], limit) :
        a \in MCTiles, shape \in {<<2, 1>>, <<1, 2>>},
        size \in {<<16, 16>>, <<17, 16>>, <<32, 16>>, <<8, 32>>, <<33, 24>>}, limit \in {{}, {256}}}
    \cup {Item("grid", <<PlainTile, a>>, size[1], size[2], 2, 1, {}) :
              a \in MCTiles, size \in {<<32, 16>>, <<18, 16>>}}
    \cup {Item("grid", streams, 32, 32, 2, 2, {}) :
              streams \in {[i \in 1 .. n |-> a] : n \in {3, 4}, a \in MCTiles}}
    \cup {Item("grid", <<a>>, size[1], size[2], 1, 1, {}) :
              a \in MCTiles, size \in {<<16, 16>>, <<0, 16>>, <<9, 16>>, <<20, 16>>}}

MCInit ==
    /\ item \in MCCodedItems \cup MCGrids
    /\ CodedInit

MCSpec == MCInit /\ [][CodedNext]_codedVars
=============================================================================
