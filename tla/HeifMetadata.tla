---------------------------- MODULE HeifMetadata ----------------------------
(***************************************************************************)
(* The metadata of a HEIC file, which src/isobmff.rs and                   *)
(* src/bounded/container.rs both parse: items, where their bytes are, the  *)
(* properties they use and the references between them.  A byte of an      *)
(* item is known by where it comes from.  What the entries say is kept as  *)
(* it is in the file: entries may be repeated, point nowhere, or reach     *)
(* outside the file.                                                       *)
(*                                                                         *)
(* A property has a kind and a value: hvcC <<width, height, VUI>> of its   *)
(* parameter sets, ispe <<width, height>>, nclx <<n>> with 0 for the       *)
(* undefined profile, icc <<identity, size>>, irot <<quarter turns>>,      *)
(* imir <<axis>>, pixi <<bits>>, auxC <<type>>, and nothing of the others. *)
(***************************************************************************)
EXTENDS Integers, Sequences, FiniteSets, SequencesExt

NoIdat == -1

Coded == {"hvc1", "hev1"}
Kinds == Coded \cup {"grid", "Exif", "other"}
TransformKinds == {"clap", "irot", "imir"}
PropertyKinds ==
    TransformKinds \cup {"hvcC", "ispe", "nclx", "icc", "pixi", "auxC", "other"}
ReferenceKinds == {"dimg", "auxl", "cdsc", "thmb", "other"}

\* Types of auxC.
Alpha == 0
KnownAuxiliary == 1

Extent == [at : Nat, length : Nat]
Use == [index : Nat, essential : BOOLEAN]

\* The numbers in a value.
Width(kind) == CASE kind = "hvcC" -> 3
                 [] kind \in {"ispe", "icc"} -> 2
                 [] kind \in {"nclx", "irot", "imir", "pixi", "auxC"} -> 1
                 [] OTHER -> 0

Property ==
    {p \in [kind : PropertyKinds, value : Seq(Nat)] : Len(p.value) = Width(p.kind)}

Metadata ==
    [items : Seq([id : Nat, kind : Kinds, protected : BOOLEAN,
                  orientation : Nat]),
     primary : Nat,
     repeated : BOOLEAN,        \* some metadata box is there twice
     locations : Seq([id : Nat, method : Nat, reference : Nat,
                      extents : Seq(Extent)]),
     source : Nat,              \* bytes in the file
     idat : Nat \cup {NoIdat},  \* bytes in the idat box
     properties : Seq(Property),
     associations : Seq([id : Nat, uses : Seq(Use)]),
     references : Seq([kind : ReferenceKinds, from : Nat, to : Seq(Nat)]),
     grid : [wide : BOOLEAN, rows : Nat \ {0}, columns : Nat \ {0},
             width : Nat, height : Nat]]

VARIABLE meta

-----------------------------------------------------------------------------
Has(entries, id) == \E i \in DOMAIN entries : entries[i].id = id

First(entries, id) == entries[Min({i \in DOMAIN entries : entries[i].id = id})]

\* The uses that all entries of an item have, one after the other.
UsesIn(associations, id) ==
    FoldLeft(LAMBDA before, e : IF e.id = id THEN before \o e.uses ELSE before,
             << >>, associations)

\* The references from an item to what it is derived from.
DerivedFrom(references, id) ==
    SelectSeq(references, LAMBDA r : r.from = id /\ r.kind = "dimg")

Distinct(entries) ==
    \A i, j \in DOMAIN entries : entries[i].id = entries[j].id => i = j

Ids(entries) == {entries[i].id : i \in DOMAIN entries}

\* The uses of properties of some kinds; index 0 uses none.
UsesOfKinds(properties, uses, kinds) ==
    FoldLeft(LAMBDA before, u :
                 IF u.index # 0 /\ properties[u.index].kind \in kinds
                 THEN Append(before, u) ELSE before,
             << >>, uses)

OfKind(uses, kinds) == UsesOfKinds(meta.properties, uses, kinds)

InRange(uses) == \A i \in DOMAIN uses : uses[i].index <= Len(meta.properties)

Values(uses) ==
    [i \in DOMAIN uses |-> meta.properties[uses[i].index]]

NoneTwice(uses, kinds) ==
    \A kind \in kinds : Len(OfKind(uses, {kind})) <= 1

\* PrimaryItemColorProperties: a profile is a value or missing.
NoColour == [nclx |-> <<>>, icc |-> <<>>]
IsDefined(nclx) == nclx # <<>> /\ nclx # <<0>>

\* transforms_include_orientation
HasOrientation(transforms) ==
    \E i \in DOMAIN transforms :
        \/ transforms[i].kind = "imir"
        \/ transforms[i].kind = "irot" /\ transforms[i].value # <<0>>

IsOrientation(n) == n \in 1 .. 8

Total(extents) ==
    FoldLeft(LAMBDA sum, e : sum + e.length, 0, extents)

=============================================================================
