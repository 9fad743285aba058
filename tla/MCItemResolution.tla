-------------------------- MODULE MCItemResolution --------------------------
(* A grid of one row and two tiles, a coded picture, and everything one and *)
(* two edits away from them.                                                *)
EXTENDS ItemResolution

MCProperty(kind, value) == [kind |-> kind, value |-> value]
Uses1(indices) == [i \in DOMAIN indices |->
                      [index |-> indices[i], essential |-> FALSE]]
Reference(kind, from, to) == [kind |-> kind, from |-> from, to |-> to]
Location(id, method, at, length) ==
    [id |-> id, method |-> method, reference |-> 0,
     extents |-> <<[at |-> at, length |-> length]>>]
Item(id, kind, orientation) ==
    [id |-> id, kind |-> kind, protected |-> FALSE, orientation |-> orientation]

MCProperties ==
    << MCProperty("hvcC", <<2, 2, 0>>), MCProperty("ispe", <<2, 2>>),
       MCProperty("ispe", <<4, 2>>), MCProperty("nclx", <<1>>),
       MCProperty("nclx", <<0>>), MCProperty("icc", <<1, 1>>),
       MCProperty("icc", <<1, 1>>), MCProperty("icc", <<2, 2>>),
       MCProperty("irot", <<1>>), MCProperty("irot", <<0>>),
       MCProperty("imir", <<0>>), MCProperty("clap", <<>>),
       MCProperty("pixi", <<8>>), MCProperty("pixi", <<10>>),
       MCProperty("auxC", <<Alpha>>), MCProperty("auxC", <<KnownAuxiliary>>),
       MCProperty("auxC", <<2>>), MCProperty("other", <<>>),
       MCProperty("hvcC", <<2, 2, 1>>), MCProperty("nclx", <<1>>) >>

MCGrid ==
    [items |-> << Item(1, "grid", 0), Item(2, "hvc1", 0), Item(3, "hev1", 0),
                  Item(4, "hvc1", 0), Item(5, "Exif", 6), Item(6, "Exif", 0) >>,
     primary |-> 1, repeated |-> FALSE,
     locations |-> << Location(1, 1, 0, 8), Location(2, 0, 0, 2),
                      Location(3, 0, 1, 2), Location(4, 0, 0, 1),
                      Location(5, 0, 2, 1), Location(6, 1, 0, 1) >>,
     source |-> 3, idat |-> 12,
     properties |-> MCProperties,
     associations |-> << [id |-> 1, uses |-> Uses1(<<3>>)],
                         [id |-> 2, uses |-> Uses1(<<1, 2>>)],
                         [id |-> 3, uses |-> Uses1(<<2, 1>>)],
                         [id |-> 4, uses |-> Uses1(<<1, 2>>)] >>,
     references |-> << Reference("dimg", 1, <<2, 3>>),
                       Reference("cdsc", 5, <<1, 2>>) >>,
     grid |-> [wide |-> FALSE, rows |-> 1, columns |-> 2,
               width |-> 4, height |-> 2]]

MCCoded == [MCGrid EXCEPT !.primary = 2]

Resized(m, width, height) ==
    [m EXCEPT !.grid.width = width, !.grid.height = height,
              !.properties[3].value = <<width, height>>]

Without(sequence, i) ==
    SubSeq(sequence, 1, i - 1) \o SubSeq(sequence, i + 1, Len(sequence))

ItemEdits(m) ==
    {[m EXCEPT !.items[i].protected = TRUE] : i \in {1, 3, 6}}
    \cup {[m EXCEPT !.items[i].kind = k] : i \in 1 .. 3, k \in {"grid", "other"}}
    \cup {[m EXCEPT !.items = <<Item(2, "other", 0)>> \o @]}
    \cup {[m EXCEPT !.items[i].orientation = n] : i \in {5, 6}, n \in {3, 6, 9}}
    \cup {[m EXCEPT !.primary = 7], [m EXCEPT !.repeated = TRUE]}

LocationEdits(m) ==
    {[m EXCEPT !.locations[i].method = 2] : i \in {3, 5}}
    \cup {[m EXCEPT !.locations[i].reference = 1] : i \in {2, 5}}
    \cup {[m EXCEPT !.locations = <<Location(2, 0, 1, 1)>> \o @]}
    \cup {[m EXCEPT !.locations[i].extents = e] :
             i \in {2, 3, 5},
             e \in {<<>>, <<[at |-> 2, length |-> 2]>>,
                    <<[at |-> 1, length |-> 1], [at |-> 0, length |-> 1]>>,
                    <<[at |-> 0, length |-> 3], [at |-> 1, length |-> 1]>>,
                    <<[at |-> 0, length |-> 3], [at |-> 0, length |-> 3]>>}}
    \cup {[m EXCEPT !.locations[1].extents[1].length = n] : n \in {7, 12}}
    \cup {[m EXCEPT !.locations[1].extents = Append(@, [at |-> n, length |-> n])] :
             n \in {4, 6}}
    \cup {[m EXCEPT !.idat = n] : n \in {NoIdat, 4}}

UseEdits(m) ==
    {[m EXCEPT !.associations[i].uses =
         Append(@, [index |-> n, essential |-> n = 18])] :
        i \in 1 .. 3, n \in 0 .. Len(MCProperties) + 1}
    \cup {[m EXCEPT !.associations =
             Append(@, [id |-> i, uses |-> Uses1(<<4>>)])] : i \in {2, 5, 7}}
    \cup {[m EXCEPT !.associations[3].uses = Uses1(<<2, 19>>)]}
    \cup {[m EXCEPT !.associations[2].uses = @ \o Uses1(<<pair[1]>>),
                      !.associations[3].uses = @ \o Uses1(<<pair[2]>>)] :
             pair \in {<<4, 4>>, <<4, 20>>, <<5, 5>>, <<6, 7>>, <<10, 10>>}}
    \cup {[m EXCEPT !.associations = Append(@,
             [id |-> 6, uses |-> <<[index |-> n, essential |-> TRUE]>>])] :
             n \in {15, 16, 17}}

ReferenceEdits(m) ==
    {[m EXCEPT !.references = Append(@, r)] :
        r \in {Reference("dimg", 1, <<4>>), Reference("dimg", 4, <<2>>),
               Reference("dimg", 2, <<4>>), Reference("dimg", 4, <<>>),
               Reference("auxl", 6, <<1>>), Reference("auxl", 7, <<1>>),
               Reference("cdsc", 6, <<1>>), Reference("cdsc", 7, <<1>>),
               Reference("thmb", 4, <<1>>), Reference("other", 4, <<2>>),
               Reference("other", 4, <<5>>)}}
    \cup {[m EXCEPT !.references = <<Reference("cdsc", 6, <<1>>)>> \o @]}
    \cup {[m EXCEPT !.references[1].to = t] :
             t \in {<<2, 2>>, <<2>>, <<2, 7>>, <<3, 4>>}}

GridEdits(m) ==
    {Resized(m, w, h) : w \in 2 .. 5, h \in 1 .. 3}
    \cup {[m EXCEPT !.grid.wide = TRUE], [m EXCEPT !.grid.width = 3]}
    \cup {[Resized(m, 6, 2) EXCEPT !.grid.columns = 3,
                                   !.references[1].to = <<2, 3, 4>>],
          [Resized(m, 4, 4) EXCEPT !.grid.rows = 2,
                                   !.references[1].to = <<2, 2, 2, 2>>]}

Edits(m) == ItemEdits(m) \cup LocationEdits(m) \cup UseEdits(m)
            \cup ReferenceEdits(m) \cup GridEdits(m)

Removals(m) ==
    {[m EXCEPT !.items = Without(@, i)] : i \in {3, 5}}
    \cup {[m EXCEPT !.locations = Without(@, i)] : i \in {1, 3, 5}}
    \cup {[m EXCEPT !.associations[i].uses = Without(@, 1)] : i \in 1 .. 3}
    \cup {[m EXCEPT !.references = Without(@, 1)]}

Once == Edits(MCGrid) \cup Edits(MCCoded)

MCInit ==
    /\ \E once \in Once : meta \in Edits(once) \cup Removals(once)
    /\ ItemsInit

MCSpec == MCInit /\ [][ItemsNext]_itemVars

=============================================================================
