--------------------------- MODULE ItemResolution ---------------------------
(***************************************************************************)
(* The same metadata given to the eager and to the bounded path.  They     *)
(* share no state, so one may run after the other.  The bounded path       *)
(* accepts less, by design; what it accepts is the same picture.           *)
(***************************************************************************)
EXTENDS EagerItems, BoundedItems

itemVars == <<meta, eagerVars, boundedVars>>

ItemsInit == meta \in Metadata /\ EagerInit /\ BoundedInit

ItemsNext ==
    /\ \/ EagerNext /\ UNCHANGED boundedVars
       \/ EagerDecided /\ BoundedNext /\ UNCHANGED eagerVars
    /\ UNCHANGED meta

ItemsSpec == ItemsInit /\ [][ItemsNext]_itemVars

-----------------------------------------------------------------------------
\* The sum of the second components.
SumOfSeconds(pairs) == FoldSet(LAMBDA p, n : p[2] + n, 0, pairs)

\* The caches of the eager path are invisible: a tile is what it would be if
\* it were the only one, although property boxes, colours and payloads are
\* shared by tiles that name them in other orders and combinations.  The
\* colours a caller is told are resolved that way, without the caches.
CacheIsTransparent ==
    tiles # <<>> /\ PrimaryKind = "grid" =>
        \A i \in DOMAIN tiles : tiles[i] = Alone(Targets[i])

\* Eager refusals of what the bounded path plans: a reference to nothing; an
\* item with more bytes than the file, in extents that overlap; two pixi on a
\* coded picture; tiles that name, or need copies of, too many bytes.
EagerOnly ==
    LET read == {meta.primary} \cup {plan[i].id : i \in DOMAIN plan}
        lastUses == {<<LastUse(Uses(plan[i].id), "nclx"),
                       LastUse(Uses(plan[i].id), "icc")>> : i \in DOMAIN plan}
        profiles == SumOfSeconds({<<key, meta.properties[key[2]].value[2]>> :
                               key \in {k \in lastUses : k[2] # 0}})
        copied == SumOfSeconds({<<plan[i].id, Len(plan[i].payload)>> :
                             i \in DOMAIN plan})
        named == SumOfSeconds({<<i, Len(plan[i].payload)>> : i \in DOMAIN plan})
    IN  \/ \E i \in DOMAIN meta.references : meta.references[i].to = <<>>
        \/ \E id \in read : ~Readable(First(meta.locations, id))
        \/ PrimaryKind \in Coded /\ Len(OfKind(PrimaryUses, {"pixi"})) > 1
        \/ /\ PrimaryKind = "grid"
           /\ \/ copied + profiles > CopyBudget
              \/ named + profiles > CopyBudget /\ named + profiles > PayloadFloor

\* Exif data that only the bounded path reads.
OverlongExif ==
    \E i \in DOMAIN meta.references :
        /\ DescribesPrimary(meta.references[i])
        /\ ~ReadableItem(meta.references[i].from)

\* What the bounded path accepts, the eager path accepts too, but for what
\* EagerOnly names, and it is the same picture: the same tiles in the same
\* places, each with the same bytes and parameter sets and neither turned nor
\* cropped, the same colours and the same display transforms.
BoundedAgreesWithEager ==
    step = "accepted" =>
        /\ stage = "accepted" <=> ~EagerOnly
        /\ stage = "accepted" =>
             /\ [i \in DOMAIN tiles |-> <<tiles[i].config, tiles[i].payload>>]
                = [i \in DOMAIN plan |-> <<plan[i].config, plan[i].payload>>]
             /\ PrimaryKind = "grid" =>
                  \A i \in DOMAIN tiles : tiles[i].transforms = <<>>
             /\ EagerColour = BoundedColour
             /\ EagerTransforms = BoundedTransforms
             /\ EagerOrientation = BoundedOrientation \/ OverlongExif

\* An accepted grid is a partition: every pixel comes from one tile and every
\* tile gives at least one, so that resampling may add tiles up one by one.
PlanCovers ==
    step \in {"references", "accepted"} /\ Kind(meta.primary) = "grid" =>
        LET size == Geometry(plan[1].config)
            pixels == (0 .. meta.grid.width - 1) \X (0 .. meta.grid.height - 1)
            tileAt(p) == (p[2] \div size[2]) * meta.grid.columns
                         + p[1] \div size[1] + 1
        IN  /\ \A i \in DOMAIN plan : Geometry(plan[i].config) = size
            /\ \A p \in pixels : p[1] \div size[1] < meta.grid.columns
            /\ {tileAt(p) : p \in pixels} = DOMAIN plan

=============================================================================
