----------------------------- MODULE EagerItems -----------------------------
(***************************************************************************)
(* The eager way to the coded bytes of a picture (src/isobmff.rs): the     *)
(* first of several boxes or entries counts, all properties are copied,    *)
(* and the tiles of a grid are extracted one by one with caches for parsed *)
(* properties, colours, tiles and payloads.                                *)
(***************************************************************************)
EXTENDS HeifMetadata

CONSTANTS
    CopyFactor,     \* copies may be so many times the file, 4
    PayloadFloor,   \* MAX_GRID_TILE_PAYLOAD_BYTES, 128 MiB
    MaxAssociations,\* MAX_GRID_TILE_ASSOCIATIONS, 65536
    MaxExtents      \* MAX_ILOC_EXTENTS, 65536

ASSUME EagerAssumption ==
    {CopyFactor, PayloadFloor, MaxAssociations, MaxExtents} \subseteq Nat

VARIABLES
    stage,
    tiles,      \* extracted so far
    cache       \* property_cache, tile_properties_by_item, ...

eagerVars == <<stage, tiles, cache>>

EmptyCache == [parsed |-> <<>>, colours |-> <<>>, properties |-> <<>>,
               payloads |-> <<>>, profileBytes |-> 0, copied |-> 0, total |-> 0]

EagerInit == stage = "resolve" /\ tiles = <<>> /\ cache = EmptyCache

EagerDecided == stage \in {"accepted", "refused"}

-----------------------------------------------------------------------------
(* Payloads *)

Available(location) ==
    IF location.method = 0 THEN meta.source ELSE meta.idat

\* extract_heic_item_payload_from_location_with_idat, up to the copy.
Readable(location) ==
    /\ location.reference = 0
    /\ location.method \in {0, 1}
    /\ location.method = 1 => meta.idat # NoIdat
    /\ \A i \in DOMAIN location.extents :
           location.extents[i].at + location.extents[i].length
               <= Available(location)
    /\ Total(location.extents) <= Available(location)

Payload(location) ==
    FlattenSeq([i \in DOMAIN location.extents |->
        [n \in 1 .. location.extents[i].length |->
            <<location.method, location.extents[i].at + n - 1>>]])

ReadableItem(id) ==
    Has(meta.locations, id) /\ Readable(First(meta.locations, id))

PayloadOf(id) == Payload(First(meta.locations, id))

-----------------------------------------------------------------------------
(* The primary item *)

\* The entries of an item in all boxes of associations, one after the other.
UsesOf(id) == UsesIn(meta.associations, id)

PrimaryUses == UsesOf(meta.primary)
PrimaryKind == First(meta.items, meta.primary).kind

\* resolve_primary_item with the parsers it calls, and the transforms.
PrimaryResolves ==
    /\ \A i \in DOMAIN meta.references : meta.references[i].to # <<>>
    /\ FoldLeft(LAMBDA n, l : n + Len(l.extents), 0, meta.locations)
           <= MaxExtents
    /\ Has(meta.items, meta.primary)
    /\ ReadableItem(meta.primary)
    /\ InRange(PrimaryUses)
    /\ NoneTwice(PrimaryUses, TransformKinds)

EagerTransforms == Values(OfKind(PrimaryUses, TransformKinds))

\* parse_primary_heic_item_preflight_properties, and the geometry of the
\* parameter sets.
CodedResolves ==
    LET config == OfKind(PrimaryUses, {"hvcC"})
        extent == OfKind(PrimaryUses, {"ispe"})
    IN  /\ NoneTwice(PrimaryUses, {"hvcC", "ispe", "pixi"})
        /\ config # <<>> /\ extent # <<>>
        /\ SubSeq(Values(config)[1].value, 1, 2) = Values(extent)[1].value

\* parse_heic_grid_descriptor
DescriptorResolves ==
    Len(PayloadOf(meta.primary)) >= IF meta.grid.wide THEN 12 ELSE 8

\* grid_tile_item_ids
Targets ==
    LET derived == DerivedFrom(meta.references, meta.primary)
    IN  FlattenSeq([i \in DOMAIN derived |-> derived[i].to])

AssociationsFit ==
    FoldLeft(LAMBDA n, e :
                 n + IF e.id \in ToSet(Targets) THEN Len(e.uses) ELSE 0,
             0, meta.associations) <= MaxAssociations

EagerResolve ==
    /\ stage = "resolve"
    /\ stage' =
        IF ~PrimaryResolves THEN "refused"
        ELSE IF PrimaryKind \in Coded
             THEN IF CodedResolves THEN "accepted" ELSE "refused"
        ELSE IF /\ PrimaryKind = "grid" /\ DescriptorResolves
                /\ Len(Targets) = meta.grid.rows * meta.grid.columns
                /\ AssociationsFit
             THEN "tiles"
        ELSE "refused"
    /\ tiles' =
        IF stage' = "accepted"
        THEN <<[id |-> meta.primary,
                config |-> Values(OfKind(PrimaryUses, {"hvcC"}))[1].value,
                payload |-> PayloadOf(meta.primary)]>>
        ELSE <<>>
    /\ UNCHANGED cache

-----------------------------------------------------------------------------
(* The tiles of a grid *)

TileResolves(id) ==
    /\ Has(meta.items, id) /\ First(meta.items, id).kind \in Coded
    /\ InRange(UsesOf(id))
    /\ Len(OfKind(UsesOf(id), {"hvcC"})) = 1
    /\ NoneTwice(UsesOf(id), TransformKinds)
    /\ ReadableItem(id)

\* A function that keeps what it has: what is cached is not computed again.
Remember(known, new) ==
    [k \in DOMAIN known \cup DOMAIN new |->
        IF k \in DOMAIN known THEN known[k] ELSE new[k]]

LastUse(uses, kind) ==
    LET found == OfKind(uses, {kind})
    IN  IF found = <<>> THEN 0 ELSE Last(found).index

\* What turns a picture or cuts it.
Effective(transforms) ==
    SelectSeq(transforms, LAMBDA t : t # [kind |-> "irot", value |-> <<0>>])

\* Mutant of ColourKey: tiles with one ICC profile share their colours.
ColourKeyOfIcc(nclx, icc) == <<icc>>

\* The key of colours: the last property used of each kind, 0 for none.
ColourKey(nclx, icc) == <<nclx, icc>>

\* resolve_grid_tile_hvcc_colr_and_transforms_indexed, with the cache after it.
ResolveTile(known, uses) ==
    LET used == {uses[i].index : i \in DOMAIN uses} \ {0}
        parsed == Remember(known.parsed, [i \in used |-> meta.properties[i]])
        nclx == LastUse(uses, "nclx")
        icc == LastUse(uses, "icc")
        key == ColourKey(nclx, icc)
        colour == [nclx |-> IF nclx = 0 THEN <<>> ELSE parsed[nclx].value,
                   icc |-> IF icc = 0 THEN <<>> ELSE parsed[icc].value]
        colours == Remember(known.colours, [k \in {key} |-> colour])
        config == OfKind(uses, {"hvcC"})[1].index
        turns == OfKind(uses, TransformKinds)
        transforms == [i \in DOMAIN turns |-> parsed[turns[i].index]]
    IN  [properties |->
            [config |-> parsed[config].value, colour |-> colours[key],
             transforms |-> Effective(transforms)],
         cache |->
            [known EXCEPT !.parsed = parsed, !.colours = colours,
                !.profileBytes = @ +
                    IF key \in DOMAIN known.colours \/ icc = 0 THEN 0
                    ELSE parsed[icc].value[2]]]

\* The cache after the properties and the payload of a tile are in it.
CacheWith(known, id) ==
    LET resolved == ResolveTile(known, UsesOf(id))
        withProperties ==
            IF id \in DOMAIN known.properties THEN known
            ELSE [resolved.cache EXCEPT !.properties =
                      Remember(@, [k \in {id} |-> resolved.properties])]
        payloads == Remember(known.payloads, [k \in {id} |-> PayloadOf(id)])
        length == Len(payloads[id])
    IN  [withProperties EXCEPT !.payloads = payloads,
            !.copied = @ + IF id \in DOMAIN known.payloads THEN 0 ELSE length,
            !.total = @ + length]

CopyBudget == CopyFactor * meta.source

WithinLimits(c) ==
    /\ c.total + c.profileBytes <=
           IF CopyBudget > PayloadFloor THEN CopyBudget ELSE PayloadFloor
    /\ c.copied + c.profileBytes <= CopyBudget

TileFrom(c, id) ==
    [id |-> id, config |-> c.properties[id].config,
     colour |-> c.properties[id].colour,
     transforms |-> c.properties[id].transforms,
     payload |-> c.payloads[id]]

ExtractTile ==
    /\ stage = "tiles"
    /\ LET id == Targets[Len(tiles) + 1]
           known == CacheWith(cache, id)
       IN  IF TileResolves(id) /\ WithinLimits(known)
           THEN /\ cache' = known
                /\ tiles' = Append(tiles, TileFrom(known, id))
                /\ stage' = IF Len(tiles') = Len(Targets) THEN "accepted"
                            ELSE "tiles"
           ELSE /\ stage' = "refused"
                /\ UNCHANGED <<tiles, cache>>

EagerNext == EagerResolve \/ ExtractTile

-----------------------------------------------------------------------------
(* What the caller asks of an accepted input besides its tiles. *)

\* A tile for itself: resolve_grid_tile_hvcc_colr_and_transforms.
Alone(id) == TileFrom(CacheWith(EmptyCache, id), id)

PrimaryColour ==
    LET last(kind) == LastUse(PrimaryUses, kind)
        value(index) == IF index = 0 THEN <<>> ELSE meta.properties[index].value
    IN  [nclx |-> value(last("nclx")), icc |-> value(last("icc"))]

\* primary_heic_color_properties, where an undefined nclx counts as none.
EagerColour ==
    LET tile == IF PrimaryKind = "grid" THEN Alone(Targets[1]).colour
                ELSE NoColour
        nclx == IF IsDefined(PrimaryColour.nclx) THEN PrimaryColour.nclx
                ELSE tile.nclx
    IN  [nclx |-> IF IsDefined(nclx) THEN nclx ELSE <<>>,
         icc |-> IF PrimaryColour.icc # <<>> THEN PrimaryColour.icc
                 ELSE tile.icc]

\* primary_exif_orientation: the first that has a value, 0 is none.
ExifOrientation ==
    LET describes(r) ==
            /\ r.kind = "cdsc" /\ meta.primary \in ToSet(r.to)
            /\ Has(meta.items, r.from)
            /\ First(meta.items, r.from).kind = "Exif"
            /\ ReadableItem(r.from)
            /\ IsOrientation(First(meta.items, r.from).orientation)
        found == SelectSeq(meta.references, describes)
    IN  IF found = <<>> THEN 0
        ELSE First(meta.items, found[1].from).orientation

EagerOrientation == IF HasOrientation(EagerTransforms) THEN 0
                    ELSE ExifOrientation

=============================================================================
