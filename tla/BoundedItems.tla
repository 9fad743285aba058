---------------------------- MODULE BoundedItems ----------------------------
(***************************************************************************)
(* The bounded way to the coded bytes of a picture                         *)
(* (src/bounded/container.rs and src/bounded/grid.rs).  Nothing may be     *)
(* there twice, every entry is checked when the metadata is indexed,       *)
(* whether it is used or not, and the whole picture is planned before a    *)
(* tile is decoded: properties, payload and geometry of every tile, then   *)
(* every reference that touches the picture.                               *)
(***************************************************************************)
EXTENDS HeifMetadata

CONSTANTS
    MaxItems,       \* 16384; also references
    MaxProperties,  \* 4096
    MaxReferences,  \* 65536; also extents and associations
    MaxTiles,       \* 4096
    MaxPixels,      \* of a grid, 256 million
    MaxInputBytes,  \* of any item, 512 MiB
    MaxItemBytes,   \* of a tile, 16 MiB
    MaxExifBytes    \* 1 MiB

ASSUME BoundedAssumption ==
    {MaxItems, MaxProperties, MaxReferences, MaxTiles, MaxPixels,
     MaxInputBytes, MaxItemBytes, MaxExifBytes} \subseteq Nat

VARIABLES
    step,
    plan,       \* Grid::tiles
    checked,    \* references gone through
    exif        \* orientation found in them, 0 for none

boundedVars == <<step, plan, checked, exif>>

BoundedInit == step = "index" /\ plan = <<>> /\ checked = 0 /\ exif = 0

-----------------------------------------------------------------------------
(* Index::parse *)

CountOf(entries, count(_)) ==
    FoldLeft(LAMBDA n, e : n + count(e), 0, entries)

\* Index::locations: also of items that are never read.
LocationsValid ==
    LET available(l) == IF l.method = 0 THEN meta.source
                        ELSE IF meta.idat = NoIdat THEN 0 ELSE meta.idat
    IN  /\ Ids(meta.locations) \subseteq Ids(meta.items)
        /\ Distinct(meta.locations)
        /\ CountOf(meta.locations, LAMBDA l : Len(l.extents)) <= MaxReferences
        /\ \A i \in DOMAIN meta.locations :
             LET l == meta.locations[i]
             IN  /\ l.method \in {0, 1} /\ l.reference = 0
                 /\ \A e \in ToSet(l.extents) : e.at + e.length <= available(l)
                 /\ Total(l.extents) <= MaxInputBytes

\* Index::associations
AssociationsValid ==
    /\ Ids(meta.associations) \subseteq Ids(meta.items)
    /\ Distinct(meta.associations)
    /\ CountOf(meta.associations, LAMBDA a : Len(a.uses)) <= MaxReferences
    /\ \A i \in DOMAIN meta.associations : InRange(meta.associations[i].uses)

IndexValid ==
    /\ ~meta.repeated
    /\ Len(meta.items) \in 1 .. MaxItems /\ Distinct(meta.items)
    /\ \A i \in DOMAIN meta.items : ~meta.items[i].protected
    /\ Has(meta.items, meta.primary)
    /\ First(meta.items, meta.primary).kind \in Coded \cup {"grid"}
    /\ LocationsValid
    /\ Len(meta.properties) <= MaxProperties
    /\ AssociationsValid
    /\ Len(meta.references) <= MaxItems
    /\ CountOf(meta.references, LAMBDA r : Len(r.to)) <= MaxReferences

ParseIndex ==
    /\ step = "index"
    /\ step' = IF IndexValid THEN "plan" ELSE "refused"
    /\ UNCHANGED <<plan, checked, exif>>

-----------------------------------------------------------------------------
(* What the index holds of an item: at most one entry of each kind. *)

Kind(id) == First(meta.items, id).kind

Uses(id) == IF Has(meta.associations, id)
            THEN First(meta.associations, id).uses ELSE <<>>

Extents(id) == First(meta.locations, id).extents

Length(id) == Total(Extents(id))

\* Index::read_item: the extents in turn, up to the length of the item.
ReadItem(id) ==
    LET extents == Extents(id)
        start(k) == Total(SubSeq(extents, 1, k - 1))
        method == First(meta.locations, id).method
    IN  [n \in 1 .. Length(id) |->
            LET k == CHOOSE k \in DOMAIN extents :
                         n \in start(k) + 1 .. start(k) + extents[k].length
            IN  <<method, extents[k].at + n - 1 - start(k)>>]

ValueOf(uses, kind) ==
    LET found == OfKind(uses, {kind})
    IN  IF found = <<>> THEN <<>> ELSE Values(found)[1].value

\* Properties::read.  A grid takes pixels from its tiles as they are coded:
\* a tile may not be turned, mirrored or cropped.  That an hvcC of
\* more than 1 MiB is refused is left out: a value has no size in bytes here.
PropertiesAccepted(id, tile) ==
    /\ NoneTwice(Uses(id), {"ispe", "hvcC", "nclx", "icc"} \cup TransformKinds)
    /\ OfKind(Uses(id), {"auxC"}) = <<>>
    /\ \A u \in ToSet(OfKind(Uses(id), {"other"})) : ~u.essential
    /\ \A p \in ToSet(Values(OfKind(Uses(id), {"pixi"}))) : p.value = <<8>>
    /\ tile =>
         \A p \in ToSet(Values(OfKind(Uses(id), TransformKinds))) :
             p.kind = "irot" /\ p.value = <<0>>

ColourOf(id) == [nclx |-> ValueOf(Uses(id), "nclx"),
                 icc |-> ValueOf(Uses(id), "icc")]

\* Width and height of the parameter sets.
Geometry(config) == SubSeq(config, 1, 2)

\* Tile::preflight
TileAccepted(id) ==
    LET config == ValueOf(Uses(id), "hvcC")
    IN  /\ config # <<>>
        /\ Has(meta.locations, id)
        /\ Length(id) > 0
        /\ ValueOf(Uses(id), "ispe") = Geometry(config)

Planned(id) == [id |-> id, config |-> ValueOf(Uses(id), "hvcC"),
                colour |-> ColourOf(id), payload |-> ReadItem(id)]

-----------------------------------------------------------------------------
(* Grid::preflight *)

BoundedTransforms == Values(OfKind(Uses(meta.primary), TransformKinds))

\* The only derivation of the primary item, if there is just one.
Derivations == DerivedFrom(meta.references, meta.primary)

GridTiles == Derivations[1].to

\* Grid::tiled, up to its loop over the tiles.
GridAccepted ==
    LET grid == meta.grid
    IN  /\ Has(meta.locations, meta.primary)
        /\ Length(meta.primary) = IF grid.wide THEN 12 ELSE 8
        /\ grid.width * grid.height \in 1 .. MaxPixels
        /\ grid.rows * grid.columns <= MaxTiles
        /\ PropertiesAccepted(meta.primary, FALSE)
        /\ ValueOf(Uses(meta.primary), "ispe") = <<grid.width, grid.height>>
        /\ OfKind(Uses(meta.primary), {"hvcC"}) = <<>>
        /\ Len(Derivations) = 1
        /\ Len(GridTiles) = grid.rows * grid.columns

\* Grid::single plans the primary item itself, whatever its size.
SingleAccepted ==
    /\ PropertiesAccepted(meta.primary, FALSE)
    /\ TileAccepted(meta.primary)

PlanPrimary ==
    /\ step = "plan"
    /\ LET single == Kind(meta.primary) \in Coded
       IN  /\ step' = IF single
                      THEN IF SingleAccepted THEN "references" ELSE "refused"
                      ELSE IF GridAccepted THEN "tiles" ELSE "refused"
           /\ plan' = IF single /\ SingleAccepted
                      THEN <<Planned(meta.primary)>> ELSE <<>>
    /\ UNCHANGED <<checked, exif>>

\* Geometry with its video usability information, and colours.
Uniform(tile, first) ==
    tile.config = first.config /\ tile.colour = first.colour

\* Mutant of Covers: a grid whose last column is empty passes.
CoversLoosely(tile) ==
    LET size == Geometry(tile.config)
    IN  /\ size[1] * meta.grid.columns >= meta.grid.width
        /\ size[2] * meta.grid.rows >= meta.grid.height
        /\ size[1] * (meta.grid.columns - 1) <= meta.grid.width
        /\ size[2] * (meta.grid.rows - 1) < meta.grid.height

\* The tiles cover the picture and the last row and column are needed.
Covers(tile) ==
    LET size == Geometry(tile.config)
    IN  /\ size[1] * meta.grid.columns >= meta.grid.width
        /\ size[2] * meta.grid.rows >= meta.grid.height
        /\ size[1] * (meta.grid.columns - 1) < meta.grid.width
        /\ size[2] * (meta.grid.rows - 1) < meta.grid.height

PlanTile ==
    /\ step = "tiles"
    /\ LET id == GridTiles[Len(plan) + 1]
           planned == Append(plan, Planned(id))
           accepted ==
               /\ Has(meta.items, id) /\ Kind(id) \in Coded
               /\ PropertiesAccepted(id, TRUE)
               /\ TileAccepted(id) /\ Length(id) <= MaxItemBytes
               /\ Uniform(Planned(id), planned[1])
           last == Len(plan) + 1 = Len(GridTiles)
       IN  IF accepted
           THEN /\ plan' = planned
                /\ step' = IF ~last THEN "tiles"
                           ELSE IF Covers(planned[1]) THEN "references"
                           ELSE "refused"
           ELSE step' = "refused" /\ UNCHANGED plan
    /\ UNCHANGED <<checked, exif>>

-----------------------------------------------------------------------------
(* validate_references *)

Planning == {meta.primary} \cup {plan[i].id : i \in DOMAIN plan}

AuxiliaryAccepted(id) ==
    LET types == OfKind(Uses(id), {"auxC"})
    IN  /\ Has(meta.items, id) /\ types # <<>>
        /\ \A u \in ToSet(types) :
             LET type == meta.properties[u.index].value[1]
             IN  type # Alpha /\ (u.essential => type = KnownAuxiliary)

DescribesPrimary(r) ==
    /\ r.kind = "cdsc" /\ meta.primary \in ToSet(r.to)
    /\ Kind(r.from) = "Exif"

OrientationOf(id) ==
    LET n == First(meta.items, id).orientation
    IN  IF IsOrientation(n) THEN n ELSE 0

\* The orientation after a description: an earlier one may not differ.
ReferenceAccepted(r) ==
    \/ r.kind = "dimg"
         /\ \/ r.from = meta.primary /\ Kind(meta.primary) = "grid"
            \/ r.from \notin Planning
    \/ r.kind = "auxl" /\ AuxiliaryAccepted(r.from)
    \/ /\ r.kind = "cdsc" /\ Has(meta.items, r.from)
       /\ DescribesPrimary(r) =>
            /\ Has(meta.locations, r.from)
            /\ Length(r.from) <= MaxExifBytes
            /\ exif \in {0, OrientationOf(r.from)}
    \/ r.kind = "thmb"

CheckReference ==
    /\ step = "references" /\ checked < Len(meta.references)
    /\ LET r == meta.references[checked + 1]
           touches == (ToSet(r.to) \cup {r.from}) \cap Planning # {}
       IN  IF touches /\ ~ReferenceAccepted(r)
           THEN step' = "refused" /\ UNCHANGED <<checked, exif>>
           ELSE /\ checked' = checked + 1
                /\ exif' = IF touches /\ DescribesPrimary(r)
                           THEN OrientationOf(r.from) ELSE exif
                /\ UNCHANGED step
    /\ UNCHANGED plan

AcceptPlan ==
    /\ step = "references" /\ checked = Len(meta.references)
    /\ step' = "accepted"
    /\ UNCHANGED <<plan, checked, exif>>

BoundedNext ==
    ParseIndex \/ PlanPrimary \/ PlanTile \/ CheckReference \/ AcceptPlan

-----------------------------------------------------------------------------
(* What an accepted plan is decoded with. *)

\* Mutant of BoundedColour: an undefined profile of the primary item counts.
BoundedColourOfAny ==
    LET primary == ColourOf(meta.primary)
        nclx == IF primary.nclx # <<>> THEN primary.nclx
                ELSE plan[1].colour.nclx
    IN  [nclx |-> IF IsDefined(nclx) THEN nclx ELSE <<>>,
         icc |-> IF primary.icc # <<>> THEN primary.icc
                 ELSE plan[1].colour.icc]

\* decode_bounded: the first tile, but what the primary item defines; the
\* conversion takes an undefined profile for none.
BoundedColour ==
    LET primary == ColourOf(meta.primary)
        nclx == IF IsDefined(primary.nclx) THEN primary.nclx
                ELSE plan[1].colour.nclx
    IN  [nclx |-> IF IsDefined(nclx) THEN nclx ELSE <<>>,
         icc |-> IF primary.icc # <<>> THEN primary.icc
                 ELSE plan[1].colour.icc]

\* Layout::new
BoundedOrientation == IF HasOrientation(BoundedTransforms) THEN 0 ELSE exif

=============================================================================
