------------------------- MODULE RollingWindowProofs -------------------------
(***************************************************************************)
(* Proofs about RollingWindow, for pictures of any height and every size   *)
(* of CTB, luma or chroma.  The invariant says what the frames hold after  *)
(* so many rows: the raw frame the last two rows as reconstructed, the     *)
(* filtered frame the last three as deblocked up to the end of the row,    *)
(* the ring the parameters of the last two.  A line behind which the next  *)
(* edge lies further than it can reach is that of the picture filtered     *)
(* whole.                                                                  *)
(***************************************************************************)
EXTENDS RollingWindow, SequenceTheorems, TLAPS
-----------------------------------------------------------------------------
(* The inductive invariant.                                                *)

\* The first line behind the first n rows of the picture.
Top(n) == IF n * size < height THEN n * size ELSE height

\* A line once the horizontal edge at e has changed it.
Edged(e, y) ==
    [pass |-> "horizontal", edge |-> e, line |-> y,
     of |-> [k \in e - Reads .. e + Reads - 1 |-> Vertical(Raw(k))]]

\* What deblocking makes of line y when it has reached line end.
Settled(y, end) ==
    IF ~deblocking THEN Raw(y)
    ELSE IF Crossed(y, 0, end) THEN Edged(EdgeOf(y), y)
    ELSE Vertical(Raw(y))

\* Rows that have been reconstructed, that have been deblocked, and that have
\* been emitted.
RawRows == IF pc = "decode" THEN row ELSE row + 1
FilteredRows == IF pc \in {"decode", "filter"} THEN row ELSE row + 1
Shown == IF pc = "last" \/ row = Rows THEN row ELSE Less(row, 1)

Shape ==
    /\ chroma \in BOOLEAN
    /\ deblocking \in BOOLEAN
    /\ size \in {8, 16, 32, 64} /\ (~chroma => size # 8)
    /\ height \in Nat \ {0} /\ height % 4 = 0 /\ (~chroma => height % 8 = 0)

TypeOK ==
    /\ Shape
    /\ row \in Nat
    /\ pc \in {"decode", "filter", "above", "last", "returned"}
    /\ pc = "decode" => row <= Rows
    /\ pc \in {"filter", "above", "last"} => row < Rows
    /\ pc = "above" => row > 0
    /\ pc # "returned" => result = "none"

\* After n rows the raw frame has the last two of them.
RawHolds ==
    \E n \in 0 .. Rows :
        /\ n = RawRows
        /\ DOMAIN raw = Lines(Less(n, 2) * size, 2 * size)
        /\ \A y \in DOMAIN raw : y < Top(n) => raw[y] = Raw(y)

\* And the filtered frame has the last three of those it was given.
FilteredHolds ==
    \E n \in 0 .. Rows :
        /\ n = FilteredRows
        /\ DOMAIN filtered = Lines(Less(n, 3) * size, 3 * size)
        /\ \A y \in DOMAIN filtered :
               y < Top(n) => filtered[y] = Settled(y, Top(n))

\* The ring has the parameters of the last two rows.
SaoHolds ==
    /\ DOMAIN sao = 0 .. Ring - 1
    /\ RawRows > 0 => Info(RawRows - 1) = RawRows - 1
    /\ RawRows > 1 => Info(RawRows - 2) = RawRows - 2

EmittedHolds ==
    \E n \in 0 .. Rows :
        /\ n = Shown
        /\ emitted = SubSeq(WholePicture, 1, n)

IInv ==
    /\ TypeOK
    /\ pc # "returned" =>
           RawHolds /\ FilteredHolds /\ SaoHolds /\ EmittedHolds

-----------------------------------------------------------------------------
(* Rows and lines.                                                         *)

\* The last row of a picture is the one that reaches its end.
LEMMA RowsReach ==
    ASSUME Shape, NEW r \in Nat
    PROVE  /\ Rows \in Nat \ {0}
           /\ r < Rows <=> r * size < height
           /\ r >= Rows <=> r * size >= height
<1>1. size \in {8, 16, 32, 64} /\ height \in Nat \ {0}
  BY DEF Shape
<1>2. CASE size = 8
  BY <1>1, <1>2 DEF Rows
<1>3. CASE size = 16
  BY <1>1, <1>3 DEF Rows
<1>4. CASE size = 32
  BY <1>1, <1>4 DEF Rows
<1>5. CASE size = 64
  BY <1>1, <1>5 DEF Rows
<1>q. QED
  BY <1>1, <1>2, <1>3, <1>4, <1>5

\* Where a row begins and ends.
LEMMA RowLines ==
    ASSUME Shape, row \in Nat, row < Rows
    PROVE  /\ Start \in Nat /\ Count \in Nat \ {0}
           /\ Top(row) = Start
           /\ Top(row + 1) = Start + Count
           /\ Start < Start + Count /\ Start + Count <= height
           /\ Start % 8 = 0
           /\ (Start + Count = height) <=> row = Rows - 1
           /\ row # Rows - 1 => Count = size
           /\ Count <= size
           /\ (Start + Count) % 4 = 0
           /\ ~chroma => (Start + Count) % 8 = 0
<1>1. size \in {8, 16, 32, 64} /\ height \in Nat \ {0} /\ height % 4 = 0
      /\ (~chroma => height % 8 = 0)
  BY DEF Shape
<1>2. /\ row * size < height /\ Rows \in Nat \ {0}
      /\ row + 1 < Rows <=> (row + 1) * size < height
  BY RowsReach
<1> DEFINE s == row * size
<1>3. /\ s \in Nat /\ s < height /\ s % 8 = 0 /\ (row + 1) * size = s + size
  <2>1. CASE size = 8
    BY <1>2, <2>1
  <2>2. CASE size = 16
    BY <1>2, <2>2
  <2>3. CASE size = 32
    BY <1>2, <2>3
  <2>4. CASE size = 64
    BY <1>2, <2>4
  <2>q. QED
    BY <1>1, <2>1, <2>2, <2>3, <2>4
<1>4. /\ Start = s
      /\ Count = IF size < height - s THEN size ELSE height - s
      /\ Top(row) = IF s < height THEN s ELSE height
      /\ Top(row + 1) = IF (row + 1) * size < height THEN (row + 1) * size
                        ELSE height
  BY DEF Start, Count, Top
<1> HIDE DEF s
<1>5. row + 1 < Rows <=> s + size < height
  BY <1>2, <1>3
<1>6. Top(row) = s
  BY <1>3, <1>4
<1>7. CASE size < height - s
  <2>1. Count = size /\ Top(row + 1) = s + size /\ row # Rows - 1
    BY <1>1, <1>2, <1>3, <1>4, <1>5, <1>7
  <2>2. (s + size) % 8 = 0 /\ (s + size) % 4 = 0
    <3>1. size = 8 \/ size = 16 \/ size = 32 \/ size = 64
      BY <1>1
    <3>q. QED
      BY ONLY <3>1, <1>3
  <2>q. QED
    BY <1>1, <1>2, <1>3, <1>4, <1>6, <1>7, <2>1, <2>2
<1>8. CASE ~(size < height - s)
  <2>1. Count = height - s /\ Top(row + 1) = height /\ row = Rows - 1
    BY <1>1, <1>2, <1>3, <1>4, <1>5, <1>8
  <2>2. s + (height - s) = height
    BY <1>1, <1>3
  <2>q. QED
    BY <1>1, <1>2, <1>3, <1>4, <1>6, <1>8, <2>1, <2>2
<1>q. QED
  BY <1>7, <1>8

-----------------------------------------------------------------------------
(* Deblocking.                                                             *)

\* The edge in whose reach a line is.
LEMMA EdgeProperties ==
    ASSUME chroma \in BOOLEAN, NEW y \in Nat
    PROVE  /\ EdgeOf(y) \in Nat /\ EdgeOf(y) % 8 = 0
           /\ EdgeOf(y) <= y + Changes /\ y + Changes < EdgeOf(y) + 8
<1>1. CASE chroma
  BY <1>1 DEF EdgeOf, Changes, Grid
<1>2. CASE ~chroma
  BY <1>2 DEF EdgeOf, Changes, Grid
<1>q. QED
  BY <1>1, <1>2

\* The lines of a deblocked frame.
LEMMA DeblockedLine ==
    ASSUME NEW frame, NEW first, NEW end, NEW y \in DOMAIN frame
    PROVE  LET upright == [z \in DOMAIN frame |->
                              IF first <= z /\ z < end THEN Vertical(frame[z])
                                                       ELSE frame[z]]
           IN  /\ DOMAIN Deblock(frame, first, end) = DOMAIN frame
               /\ Deblock(frame, first, end)[y]
                      = IF Crossed(y, first, end)
                        THEN Horizontal(upright, EdgeOf(y), y)
                        ELSE upright[y]
  BY DEF Deblock

\* An edge whose lines have been through the vertical edges only.
LEMMA EdgedLine ==
    ASSUME NEW frame, NEW e, NEW y,
           \A k \in e - Reads .. e + Reads - 1 : frame[k] = Vertical(Raw(k))
    PROVE  Horizontal(frame, e, y) = Edged(e, y)
<1>1. [k \in e - Reads .. e + Reads - 1 |-> frame[k]]
         = [k \in e - Reads .. e + Reads - 1 |-> Vertical(Raw(k))]
  OBVIOUS
<1>q. QED
  BY <1>1 DEF Horizontal, Edged

\* Behind the end of a row a line is the one of the whole picture, but for
\* the last ones in front of the next row's first edge.
LEMMA SettledEarly ==
    ASSUME Shape, NEW y \in Nat, NEW end \in Nat, end <= height,
           y + Changes < end \/ end = height
    PROVE  Settled(y, end) = Settled(y, height)
<1>1. CASE end = height
  BY <1>1
<1>2. CASE y + Changes < end
  <2>1. EdgeOf(y) \in Nat /\ EdgeOf(y) < end /\ EdgeOf(y) < height
    <3> HIDE DEF EdgeOf, Changes
    <3>1. Changes \in Nat
      BY DEF Changes
    <3>2. EdgeOf(y) \in Nat /\ EdgeOf(y) <= y + Changes
      BY EdgeProperties DEF Shape
    <3>q. QED
      BY <1>2, <3>1, <3>2 DEF Shape
  <2>2. Crossed(y, 0, end) <=> Crossed(y, 0, height)
    BY <2>1 DEF Crossed
  <2>q. QED
    BY <2>2 DEF Settled
<1>q. QED
  BY <1>1, <1>2

\* Whether a line has met its edge, after the rows that end at first and one
\* more that ends at end.
LEMMA CrossedOnce ==
    ASSUME Shape, NEW y \in Nat, NEW first \in Nat, NEW end \in Nat,
           first <= end
    PROVE  /\ Crossed(y, 0, end)
                  <=> Crossed(y, 0, first) \/ Crossed(y, first, end)
           /\ y >= first /\ first % 8 = 0 => ~Crossed(y, 0, first)
           /\ y < end /\ Crossed(y, first, end) => first <= EdgeOf(y)
<1>1. /\ EdgeOf(y) \in Nat /\ EdgeOf(y) % 8 = 0
  BY EdgeProperties DEF Shape
<1>2. Changes \in {1, 3}
  BY DEF Changes
<1> DEFINE e == EdgeOf(y)
           c == Changes
<1>3. \A a, b \in Nat :
          Crossed(y, a, b) <=> e # 0 /\ a <= e /\ e < b /\ y < e + c
  BY DEF Crossed
<1> HIDE DEF e, c
<1>4. e \in Nat /\ e % 8 = 0 /\ c \in {1, 3}
  BY <1>1, <1>2 DEF e, c
<1>5. first % 8 = 0 /\ e < first => e + c <= first
  BY <1>4
<1>q. QED
  BY <1>3, <1>4, <1>5 DEF e

\* Before its row's end a line whose edge lies there finds all that the edge
\* reads in front of the end.
LEMMA EdgeInside ==
    ASSUME Shape, NEW e \in Nat, e % 8 = 0, e # 0,
           NEW end \in Nat, end % 4 = 0, ~chroma => end % 8 = 0, e < end
    PROVE  /\ Reads \in {2, 4}
           /\ e - Reads \in Nat /\ e + Reads <= end
<1>1. CASE chroma
  BY <1>1 DEF Reads
<1>2. CASE ~chroma
  BY <1>2 DEF Reads
<1>q. QED
  BY <1>1, <1>2 DEF Shape

\* In front of an edge the lines that it reads have not met theirs.
LEMMA ReadAboveUncrossed ==
    ASSUME Shape, NEW e \in Nat, e % 8 = 0,
           NEW k \in Nat, k >= e - Reads, k < e
    PROVE  ~Crossed(k, 0, e)
<1>1. /\ EdgeOf(k) \in Nat /\ EdgeOf(k) % 8 = 0
      /\ EdgeOf(k) <= k + Changes /\ k + Changes < EdgeOf(k) + 8
  BY EdgeProperties DEF Shape
<1>2. \/ Reads = 4 /\ Changes = 3
      \/ Reads = 2 /\ Changes = 1
  BY DEF Reads, Changes, Shape
<1> DEFINE d == EdgeOf(k)
           c == Changes
           n == Reads
<1>3. Crossed(k, 0, e) => d < e /\ k < d + c
  BY DEF Crossed
<1> HIDE DEF c, d, n
<1>4. /\ d \in Nat /\ d % 8 = 0 /\ k >= e - n
      /\ (n = 4 /\ c = 3) \/ (n = 2 /\ c = 1)
  BY <1>1, <1>2 DEF c, d, n
<1>5. ~(d < e /\ k < d + c)
  <2> SUFFICES ASSUME d < e, k < d + c PROVE FALSE
    OBVIOUS
  <2>1. d + 8 <= e
    BY <1>4
  <2>q. QED
    BY <1>4, <2>1
<1>q. QED
  BY <1>3, <1>5

\* The whole picture, line by line.
LEMMA PictureLine ==
    ASSUME Shape, deblocking, NEW y \in Lines(0, height)
    PROVE  Deblock([z \in Lines(0, height) |-> Raw(z)], 0, height)[y]
              = Settled(y, height)
<1> DEFINE frame == [z \in Lines(0, height) |-> Raw(z)]
           upright == [z \in DOMAIN frame |->
                          IF 0 <= z /\ z < height THEN Vertical(frame[z])
                                                  ELSE frame[z]]
<1>1. height \in Nat \ {0} /\ y \in Nat /\ y < height
      /\ \A z \in Nat : z \in Lines(0, height) <=> z < height
  BY DEF Shape, Lines
<1>2. \A z \in Nat : z < height => upright[z] = Vertical(Raw(z))
  BY <1>1
<1>3. Deblock(frame, 0, height)[y]
         = IF Crossed(y, 0, height) THEN Horizontal(upright, EdgeOf(y), y)
           ELSE upright[y]
  BY DeblockedLine
<1>4. ASSUME Crossed(y, 0, height)
      PROVE  Horizontal(upright, EdgeOf(y), y) = Edged(EdgeOf(y), y)
  <2> DEFINE e == EdgeOf(y)
  <2>1. e \in Nat /\ e % 8 = 0 /\ e # 0 /\ e < height
    BY <1>1, <1>4, EdgeProperties DEF Crossed, Shape
  <2> HIDE DEF e, upright
  <2>2. Reads \in {2, 4} /\ e - Reads \in Nat /\ e + Reads <= height
    BY <1>1, <2>1, EdgeInside DEF Shape
  <2>3. \A k \in e - Reads .. e + Reads - 1 : k \in Nat /\ k < height
    BY <1>1, <2>1, <2>2
  <2>4. \A k \in e - Reads .. e + Reads - 1 : upright[k] = Vertical(Raw(k))
    BY <1>2, <2>3
  <2>5. Horizontal(upright, e, y) = Edged(e, y)
    BY <2>4, EdgedLine
  <2>q. QED
    BY <2>5 DEF e
<1> HIDE DEF upright, frame
<1>q. QED
  BY <1>1, <1>2, <1>3, <1>4 DEF Settled, frame

-----------------------------------------------------------------------------
(* The picture stays the same.                                             *)

\* Nothing that depends on the shape of the picture ever changes.
LEMMA ShapeStays ==
    ASSUME UNCHANGED shapeVars
    PROVE  /\ Rows' = Rows /\ Ring' = Ring
           /\ \A n : Top(n)' = Top(n)
           /\ Shape => Shape'
  BY DEF shapeVars, Rows, Ring, Top, Shape

\* Which edge a line belongs to, and whether it has met it.
LEMMA CrossedStays ==
    ASSUME UNCHANGED shapeVars, NEW y, NEW first, NEW end
    PROVE  /\ Reads' = Reads /\ EdgeOf(y)' = EdgeOf(y)
           /\ Crossed(y, first, end)' <=> Crossed(y, first, end)
<1>1. chroma' = chroma
  BY DEF shapeVars
<1>2. Reads' = Reads /\ Changes' = Changes
  BY <1>1 DEF Reads, Changes
<1>3. EdgeOf(y)' = EdgeOf(y)
  BY <1>2 DEF EdgeOf, Grid
<1>q. QED
  BY <1>2, <1>3 DEF Crossed

\* What an edge makes of a line.
LEMMA HorizontalStays ==
    ASSUME UNCHANGED shapeVars, NEW frame, NEW e, NEW y
    PROVE  Horizontal(frame, e, y)' = Horizontal(frame, e, y)
<1>1. Reads' = Reads
  BY CrossedStays
<1>2. [k \in e - Reads' .. e + Reads' - 1 |-> frame[k]]
         = [k \in e - Reads .. e + Reads - 1 |-> frame[k]]
  BY <1>1
<1>q. QED
  BY <1>2 DEF Horizontal

\* What deblocking makes of a line.
LEMMA SettledStays ==
    ASSUME UNCHANGED shapeVars, NEW y, NEW end
    PROVE  Settled(y, end)' = Settled(y, end)
<1>1. \A e : Edged(e, y)' = Edged(e, y)
  <2> TAKE e
  <2>1. Reads' = Reads
    BY CrossedStays
  <2>2. [k \in e - Reads' .. e + Reads' - 1 |-> Vertical(Raw(k))]
           = [k \in e - Reads .. e + Reads - 1 |-> Vertical(Raw(k))]
    BY <2>1
  <2>q. QED
    BY <2>2 DEF Edged
<1>2. /\ deblocking' = deblocking
      /\ EdgeOf(y)' = EdgeOf(y)
      /\ Crossed(y, 0, end)' <=> Crossed(y, 0, end)
  BY CrossedStays DEF shapeVars
<1>3. Edged(EdgeOf(y), y)' = Edged(EdgeOf(y), y)
  BY <1>1, <1>2
<1>q. QED
  BY <1>2, <1>3 DEF Settled

\* What deblocking makes of a frame.
LEMMA DeblockStays ==
    ASSUME UNCHANGED shapeVars, NEW frame, NEW first, NEW end
    PROVE  Deblock(frame, first, end)' = Deblock(frame, first, end)
<1> DEFINE upright == [y \in DOMAIN frame |->
                          IF first <= y /\ y < end THEN Vertical(frame[y])
                                                   ELSE frame[y]]
           Line(y) == IF Crossed(y, first, end)
                      THEN Horizontal(upright, EdgeOf(y), y) ELSE upright[y]
<1>1. Deblock(frame, first, end) = [y \in DOMAIN frame |-> Line(y)]
  BY DEF Deblock
<1>2. \A y : Line(y)' = Line(y)
  <2> TAKE y
  <2> HIDE DEF upright
  <2>1. \A e : Horizontal(upright, e, y)' = Horizontal(upright, e, y)
    BY HorizontalStays
  <2>q. QED
    BY <2>1, CrossedStays
<1>3. Deblock(frame, first, end)' = [y \in DOMAIN frame |-> Line(y)']
  BY DEF Deblock
<1>4. [y \in DOMAIN frame |-> Line(y)'] = [y \in DOMAIN frame |-> Line(y)]
  <2> HIDE DEF Line
  <2>q. QED
    BY <1>2
<1>q. QED
  BY <1>1, <1>3, <1>4


\* The picture: where it is cut into bands, and what a line of it holds.
BandOf(n, frame, count) ==
    [start |-> (n - 1) * size,
     lines |-> [k \in 1 .. count |->
                   Offset(frame, n - 1, (n - 1) * size + k - 1)]]

Decoded == [y \in Lines(0, height) |-> Raw(y)]

Deblocked == IF deblocking THEN Deblock(Decoded, 0, height) ELSE Decoded

LinesOf(n) == IF n = Rows THEN height - (n - 1) * size ELSE size

\* The picture decoded whole, band by band.
LEMMA PictureBands ==
    Rows \in Nat =>
        WholePicture = [n \in 1 .. Rows |-> BandOf(n, Deblocked, LinesOf(n))]
<1> SUFFICES ASSUME Rows \in Nat
             PROVE  WholePicture
                       = [n \in 1 .. Rows |-> BandOf(n, Deblocked, LinesOf(n))]
  OBVIOUS
<1>1. \A n \in 1 .. Rows : n - 1 = Rows - 1 <=> n = Rows
  OBVIOUS
<1>q. QED
  BY <1>1 DEF WholePicture, BandOf, Deblocked, Decoded, LinesOf

\* What SAO makes of a line.
LEMMA OffsetStays ==
    ASSUME UNCHANGED shapeVars, NEW frame, NEW info, NEW y
    PROVE  Offset(frame, info, y)' = Offset(frame, info, y)
  BY DEF shapeVars, Offset

\* The picture decoded whole.
LEMMA PictureStays ==
    ASSUME UNCHANGED shapeVars, Rows \in Nat
    PROVE  WholePicture' = WholePicture
<1>1. Rows' = Rows /\ size' = size /\ height' = height
      /\ deblocking' = deblocking
  BY ShapeStays DEF shapeVars
<1>2. Decoded' = Decoded
  BY <1>1 DEF Decoded, Lines, Raw
<1>3. Deblocked' = Deblocked
  <2>1. \A frame, first, end :
            Deblock(frame, first, end)' = Deblock(frame, first, end)
    BY DeblockStays
  <2>2. ASSUME NEW frame, NEW end, frame = Decoded, end = height
        PROVE  Deblocked' = Deblocked
    <3>1. Deblocked = IF deblocking THEN Deblock(frame, 0, end) ELSE frame
      BY <2>2 DEF Deblocked
    <3>2. Deblocked' = IF deblocking THEN Deblock(frame, 0, end)' ELSE frame
      BY <1>1, <1>2, <2>2 DEF Deblocked
    <3>q. QED
      BY <2>1, <3>1, <3>2
  <2>q. QED
    BY <2>2
<1>4. ASSUME NEW n, NEW frame, NEW count
      PROVE  BandOf(n, frame, count)' = BandOf(n, frame, count)
  <2>1. [k \in 1 .. count |-> Offset(frame, n - 1, (n - 1) * size + k - 1)]
           = [k \in 1 .. count |-> Offset(frame, n - 1, (n - 1) * size + k - 1)']
    BY <1>1, OffsetStays
  <2>q. QED
    BY <1>1, <2>1 DEF BandOf
<1>5. \A n : LinesOf(n)' = LinesOf(n)
  BY <1>1 DEF LinesOf
<1>6. (Rows \in Nat =>
          WholePicture = [n \in 1 .. Rows |-> BandOf(n, Deblocked, LinesOf(n))])'
  BY PictureBands, PTL
<1>7. WholePicture' = [n \in 1 .. Rows' |-> BandOf(n, Deblocked, LinesOf(n))']
  BY <1>1, <1>6
<1>8. \A n : BandOf(n, Deblocked, LinesOf(n))' = BandOf(n, Deblocked, LinesOf(n))
  <2> TAKE n
  <2>q. QED
    BY <1>3, <1>4, <1>5
<1>q. QED
  BY <1>1, <1>7, <1>8, PictureBands
-----------------------------------------------------------------------------
(* Each action keeps the invariant.                                        *)

\* A picture is at first nothing but its shape.
LEMMA InitHolds == Init => IInv
<1> SUFFICES ASSUME Init PROVE IInv
  OBVIOUS
<1>1. /\ chroma \in BOOLEAN /\ deblocking \in BOOLEAN
      /\ size \in {s \div Sub : s \in Sizes}
      /\ height \in {h \div Sub : h \in Heights}
  BY DEF Init
<1>2. /\ pc = "decode" /\ row = 0 /\ result = "none" /\ emitted = << >>
      /\ raw = Frame(2 * size) /\ filtered = Frame(3 * size)
      /\ sao = [i \in 0 .. Ring - 1 |-> NoInfo]
  BY DEF Init
<1>3. Shape
  <2>1. PICK s \in Sizes : size = s \div Sub
    BY <1>1
  <2>2. PICK h \in Heights : height = h \div Sub
    BY <1>1
  <2>3. s \in {16, 32, 64} /\ h \in Nat \ {0} /\ h % 8 = 0
    BY SizesAssumption, HeightsAssumption
  <2>4. CASE chroma
    <3>1. Sub = 2
      BY <2>4 DEF Sub
    <3>2. size \in {8, 16, 32, 64}
      BY <2>1, <2>3, <3>1
    <3>3. height \in Nat \ {0} /\ height % 4 = 0
      <4>1. height = h \div 2
        BY <2>2, <3>1
      <4>q. QED
        BY ONLY <4>1, <2>3
    <3>q. QED
      BY <1>1, <2>4, <3>2, <3>3 DEF Shape
  <2>5. CASE ~chroma
    <3>1. Sub = 1
      BY <2>5 DEF Sub
    <3>2. size \in {16, 32, 64} /\ height = h
      BY <2>1, <2>2, <2>3, <3>1
    <3>3. height \in Nat \ {0} /\ height % 4 = 0 /\ height % 8 = 0
      BY ONLY <2>3, <3>2
    <3>4. size \in {8, 16, 32, 64} /\ size # 8
      BY <3>2
    <3>q. QED
      BY <1>1, <3>3, <3>4 DEF Shape
  <2>q. QED
    BY <2>4, <2>5
<1>4. Rows \in Nat \ {0} /\ 0 \in 0 .. Rows /\ size \in Nat
      /\ height \in Nat /\ 0 < height
  BY <1>3, RowsReach DEF Shape
<1>5. TypeOK
  BY <1>2, <1>3, <1>4 DEF TypeOK
<1>6. Top(0) = 0
  BY <1>4 DEF Top
<1>7. RawHolds
  <2>1. RawRows = 0 /\ DOMAIN raw = Lines(Less(0, 2) * size, 2 * size)
    BY <1>2, <1>4 DEF RawRows, Frame, Less
  <2>2. \A y \in DOMAIN raw : ~(y < Top(0))
    BY <1>2, <1>4, <1>6 DEF Frame, Lines
  <2>q. QED
    BY <1>4, <2>1, <2>2 DEF RawHolds
<1>8. FilteredHolds
  <2>1. FilteredRows = 0 /\ DOMAIN filtered = Lines(Less(0, 3) * size, 3 * size)
    BY <1>2, <1>4 DEF FilteredRows, Frame, Less
  <2>2. \A y \in DOMAIN filtered : ~(y < Top(0))
    BY <1>2, <1>4, <1>6 DEF Frame, Lines
  <2>q. QED
    BY <1>4, <2>1, <2>2 DEF FilteredHolds
<1>9. SaoHolds
  BY <1>2 DEF SaoHolds, RawRows
<1>10. EmittedHolds
  <2>1. Shown = 0
    BY <1>2, <1>4 DEF Shown, Less
  <2>2. SubSeq(WholePicture, 1, 0) = << >>
    BY SubSeqEmpty
  <2>q. QED
    BY <1>2, <1>4, <2>1, <2>2 DEF EmittedHolds
<1>q. QED
  BY <1>5, <1>7, <1>8, <1>9, <1>10 DEF IInv

\* Reconstruction: the line above the row is there, and so are the
\* parameters of the row above.
LEMMA DecodeRowKeeps ==
    ASSUME IInv, DecodeRow
    PROVE  IInv'
<1>1. /\ pc = "decode" /\ row < Rows /\ pc' = "filter" /\ row' = row
      /\ raw' = Write(Advance(raw, RawOrigin(row), 2 * size),
                      LAMBDA y : Reconstructed(
                          Advance(raw, RawOrigin(row), 2 * size), y))
      /\ sao' = [sao EXCEPT ![row % Ring] = Merged]
      /\ filtered' = filtered /\ emitted' = emitted /\ result' = result
      /\ UNCHANGED shapeVars
  BY DEF DecodeRow
<1>2. TypeOK /\ RawHolds /\ FilteredHolds /\ SaoHolds /\ EmittedHolds
  BY <1>1 DEF IInv
<1>3. Shape /\ row \in Nat /\ result = "none"
  BY <1>1, <1>2 DEF TypeOK
<1>4. /\ Rows' = Rows /\ Ring' = Ring /\ \A n : Top(n)' = Top(n)
      /\ Shape' /\ size' = size /\ height' = height
  BY <1>1, <1>3, ShapeStays DEF shapeVars
<1>5. /\ Start \in Nat /\ Count \in Nat \ {0} /\ Top(row) = Start
      /\ Top(row + 1) = Start + Count /\ Count <= size
      /\ Rows \in Nat \ {0} /\ size \in Nat \ {0}
      /\ Start = row * size
  BY <1>1, <1>3, RowLines, RowsReach DEF Shape, Start
<1>6. TypeOK'
  BY <1>1, <1>3, <1>4 DEF TypeOK
<1>7. RawHolds'
  <2> DEFINE frame == Advance(raw, RawOrigin(row), 2 * size)
             origin == Less(row + 1, 2) * size
  <2>1. /\ DOMAIN raw = Lines(Less(row, 2) * size, 2 * size)
        /\ \A y \in DOMAIN raw : y < Start => raw[y] = Raw(y)
    BY <1>1, <1>2, <1>5 DEF RawHolds, RawRows
  <2>2. Less(row + 1, 2) = Less(row, 1)
    BY <1>3 DEF Less
  <2>3. DOMAIN frame = Lines(origin, 2 * size)
    BY <2>2 DEF Advance, RawOrigin
  <2>4. /\ origin \in Nat /\ origin + 2 * size >= Start + Count
        /\ row # 0 => origin = Start - size
        /\ row = 0 => Start = 0
    <3>1. CASE row = 0
      BY <1>5, <2>2, <3>1 DEF Less
    <3>2. CASE row # 0
      <4>1. Less(row, 1) = row - 1 /\ (row - 1) * size = row * size - size
        BY <1>3, <1>5, <3>2 DEF Less
      <4>2. (row - 1) * size \in Nat
        BY <1>3, <1>5, <3>2
      <4>3. origin = Start - size /\ origin \in Nat
        BY <1>5, <2>2, <4>1, <4>2
      <4> HIDE DEF origin
      <4>q. QED
        BY <1>5, <3>2, <4>3
    <3>q. QED
      BY <3>1, <3>2
  <2>5. ASSUME NEW y \in DOMAIN frame, y < Start
        PROVE  frame[y] = Raw(y)
    <3>1. row # 0 /\ y \in Int /\ Start - size <= y
      BY SMTT(30), <1>5, <2>3, <2>4, <2>5 DEF Lines
    <3>2. /\ Less(row, 2) * size \in Nat
          /\ Less(row, 2) * size <= Start - size
          /\ Start <= Less(row, 2) * size + 2 * size
      <4>1. CASE row = 1
        BY <1>5, <4>1 DEF Less
      <4>2. CASE row # 1
        <5>1. Less(row, 2) = row - 2 /\ (row - 2) * size = row * size - 2 * size
          BY <1>3, <1>5, <3>1, <4>2 DEF Less
        <5>2. row * size >= 2 * size
          BY <1>3, <1>5, <3>1, <4>2
        <5>q. QED
          BY <1>5, <5>1, <5>2
      <4>q. QED
        BY <4>1, <4>2
    <3>3. y \in DOMAIN raw
      BY <1>5, <2>1, <2>5, <3>1, <3>2 DEF Lines
    <3>4. frame[y] = raw[y]
      BY <2>3, <3>3 DEF Advance, RawOrigin
    <3>q. QED
      BY <2>1, <2>5, <3>3, <3>4
  <2>6. \A y : Reconstructed(frame, y) = Raw(y)
    <3>1. CASE row = 0
      BY <3>1 DEF Reconstructed
    <3>2. CASE row # 0
      <4>1. Start - 1 \in DOMAIN frame /\ Start - 1 < Start
        BY SMTT(30), <1>5, <2>3, <2>4, <3>2 DEF Lines
      <4>2. frame[Start - 1] = Raw(Start - 1)
        BY <2>5, <4>1
      <4>q. QED
        BY <4>2 DEF Reconstructed
    <3>q. QED
      BY <3>1, <3>2
  <2>7. raw' = [y \in DOMAIN frame |->
                   IF y \in Lines(Start, Count) THEN Reconstructed(frame, y)
                   ELSE frame[y]]
    BY <1>1 DEF Write
  <2> HIDE DEF frame, origin
  <2>8. DOMAIN raw' = Lines(origin, 2 * size)
    BY <2>3, <2>7
  <2>9. ASSUME NEW y \in DOMAIN raw', y < Start + Count
        PROVE  raw'[y] = Raw(y)
    <3>1. y \in DOMAIN frame /\ y \in Int
      BY <1>5, <2>4, <2>7, <2>3 DEF Lines
    <3>2. CASE y < Start
      BY <1>5, <2>5, <2>7, <3>1, <3>2 DEF Lines
    <3>3. CASE ~(y < Start)
      <4>1. y \in Lines(Start, Count)
        BY <1>5, <2>9, <3>1, <3>3 DEF Lines
      <4>q. QED
        BY <2>6, <2>7, <3>1, <4>1
    <3>q. QED
      BY <3>2, <3>3
  <2>10. RawRows' = row + 1 /\ row + 1 \in 0 .. Rows
    BY <1>1, <1>3, <1>5 DEF RawRows
  <2>11. ASSUME NEW n, n = row + 1
         PROVE  /\ DOMAIN raw' = Lines(Less(n, 2) * size, 2 * size)
                /\ \A y \in DOMAIN raw' : y < Top(n) => raw'[y] = Raw(y)
    BY <1>5, <2>8, <2>9, <2>11 DEF origin
  <2>q. QED
    BY <1>4, <2>10, <2>11 DEF RawHolds, Lines, Less
<1>8. FilteredHolds'
  <2>1. FilteredRows' = FilteredRows
    BY <1>1 DEF FilteredRows
  <2>2. \A y, end : Settled(y, end)' = Settled(y, end)
    BY <1>1, SettledStays
  <2>q. QED
    BY <1>1, <1>2, <1>4, <2>1, <2>2 DEF FilteredHolds, Lines, Less
<1>9. SaoHolds'
  <2>1. /\ DOMAIN sao = 0 .. Ring - 1
        /\ row > 0 => sao[(row - 1) % Ring] = row - 1
    BY <1>1, <1>2 DEF SaoHolds, RawRows, Info
  <2>2. RawRows' = row + 1
    BY <1>1 DEF RawRows
  <2>3. Ring \in {1, 2, 3} /\ (row > 0 => Ring # 1)
    <3>1. 2 * size < height \/ Rows <= 2
      <4>1. 2 * size >= height => 2 >= Rows
        BY <1>3, RowsReach
      <4>q. QED
        BY <1>3, <1>5, <4>1 DEF Shape
    <3>q. QED
      BY <1>1, <1>3, <1>5, <3>1 DEF Ring
  <2>4. /\ row % Ring \in 0 .. Ring - 1
        /\ row > 0 => (row - 1) % Ring # row % Ring
                      /\ (row - 1) % Ring \in 0 .. Ring - 1
    BY ONLY <2>3, <1>3
  <2>5. Merged = row
    BY <1>3, <2>1 DEF Merged, Info
  <2>6. /\ sao'[row % Ring] = row
        /\ row > 0 => sao'[(row - 1) % Ring] = row - 1
        /\ DOMAIN sao' = 0 .. Ring - 1
    BY <1>1, <2>1, <2>4, <2>5
  <2>7. (row + 1) - 1 = row /\ (row + 1) - 2 = row - 1
        /\ (row + 1 > 1 <=> row > 0)
    BY <1>3
  <2>q. QED
    BY <1>4, <2>2, <2>6, <2>7 DEF SaoHolds, Info
<1>10. EmittedHolds'
  <2>1. Shown' = Shown
    BY <1>1, <1>4, <1>5 DEF Shown
  <2>2. WholePicture' = WholePicture
    BY <1>1, <1>5, PictureStays
  <2>q. QED
    BY <1>1, <1>2, <1>4, <2>1, <2>2 DEF EmittedHolds
<1>q. QED
  BY <1>6, <1>7, <1>8, <1>9, <1>10 DEF IInv

\* The row is copied and deblocked: its first edge changes the last lines of
\* the row above, which are there and have not met another edge.
LEMMA FilterRowKeeps ==
    ASSUME IInv, FilterRow
    PROVE  IInv'
<1> DEFINE end == Start + Count
           advanced == Advance(filtered, FilteredOrigin(row), 3 * size)
           copied == Write(advanced, LAMBDA y : raw[y])
<1>1. /\ pc = "filter" /\ pc' = (IF row > 0 THEN "above" ELSE "last")
      /\ filtered' = IF deblocking THEN Deblock(copied, Start, end) ELSE copied
      /\ row' = row /\ raw' = raw /\ sao' = sao
      /\ emitted' = emitted /\ result' = result
      /\ UNCHANGED shapeVars
  BY DEF FilterRow
<1>2. TypeOK /\ RawHolds /\ FilteredHolds /\ SaoHolds /\ EmittedHolds
  BY <1>1 DEF IInv
<1>3. Shape /\ row \in Nat /\ row < Rows /\ result = "none"
  BY <1>1, <1>2 DEF TypeOK
<1>4. /\ Rows' = Rows /\ Ring' = Ring /\ \A n : Top(n)' = Top(n)
      /\ Shape' /\ size' = size /\ height' = height
  BY <1>1, <1>3, ShapeStays DEF shapeVars
<1>5. /\ Start \in Nat /\ Count \in Nat \ {0} /\ Top(row) = Start
      /\ Top(row + 1) = Start + Count /\ Count <= size
      /\ Rows \in Nat \ {0} /\ size \in Nat \ {0} /\ size >= 8
      /\ Start = row * size /\ Start % 8 = 0
      /\ Start + Count <= height /\ height \in Nat
      /\ (Start + Count) % 4 = 0 /\ (~chroma => (Start + Count) % 8 = 0)
  BY <1>3, RowLines, RowsReach DEF Shape, Start
<1>6. TypeOK'
  BY <1>1, <1>3, <1>4 DEF TypeOK
<1>7. RawRows' = RawRows /\ RawRows = row + 1 /\ RawHolds'
  <2>1. RawRows' = RawRows /\ RawRows = row + 1
    BY <1>1 DEF RawRows
  <2>q. QED
    BY <1>1, <1>2, <1>4, <2>1 DEF RawHolds, Lines, Less
<1>8. SaoHolds'
  BY <1>1, <1>2, <1>4, <1>7 DEF SaoHolds, Info
<1>9. EmittedHolds'
  <2>1. Shown' = Shown
    BY <1>1, <1>3, <1>4, <1>5 DEF Shown, Less
  <2>2. WholePicture' = WholePicture
    BY <1>1, <1>5, PictureStays
  <2>q. QED
    BY <1>1, <1>2, <1>4, <2>1, <2>2 DEF EmittedHolds
<1>10. FilteredHolds'
  <2> DEFINE origin == Less(row + 1, 3) * size
  <2>1. /\ DOMAIN filtered = Lines(Less(row, 3) * size, 3 * size)
        /\ \A y \in DOMAIN filtered :
               y < Start => filtered[y] = Settled(y, Start)
    BY <1>1, <1>2, <1>5 DEF FilteredHolds, FilteredRows
  <2>2. /\ DOMAIN raw = Lines(Less(row + 1, 2) * size, 2 * size)
        /\ \A y \in DOMAIN raw : y < end => raw[y] = Raw(y)
    BY <1>2, <1>5, <1>7 DEF RawHolds
  <2>3. Less(row + 1, 3) = Less(row, 2) /\ Less(row + 1, 2) = Less(row, 1)
    BY <1>3 DEF Less
  <2>4. /\ DOMAIN advanced = Lines(origin, 3 * size)
        /\ DOMAIN copied = Lines(origin, 3 * size)
    BY <2>3 DEF Advance, FilteredOrigin, Write
  <2>5. /\ origin \in Nat /\ end <= origin + 3 * size
        /\ origin = 0 \/ origin + size <= Start
        /\ row # 0 => size <= Start
        /\ row = 0 => Start = 0
    <3>1. CASE row = 0
      BY <1>5, <2>3, <3>1 DEF Less
    <3>2. CASE row = 1
      BY <1>5, <2>3, <3>2 DEF Less
    <3>3. CASE row # 0 /\ row # 1
      <4>1. Less(row, 2) = row - 2 /\ (row - 2) * size = row * size - 2 * size
        BY <1>3, <1>5, <3>3 DEF Less
      <4>2. (row - 2) * size \in Nat
        BY <1>3, <1>5, <3>3
      <4>3. origin = Start - 2 * size /\ origin \in Nat
        BY <1>5, <2>3, <4>1, <4>2
      <4> HIDE DEF origin
      <4>q. QED
        BY <1>5, <3>3, <4>3
    <3>q. QED
      BY <3>1, <3>2, <3>3
  <2>6. ASSUME NEW y \in DOMAIN copied
        PROVE  /\ y \in Nat /\ y >= origin
               /\ y < Start => copied[y] = Settled(y, Start)
               /\ y >= Start /\ y < end => copied[y] = Raw(y)
    <3>1. y \in Nat /\ y >= origin /\ y \in Int /\ y < origin + 3 * size
      BY SMTT(30), <1>5, <2>4, <2>5 DEF Lines
    <3>2. CASE y < Start
      <4>1. y \notin Lines(Start, Count)
        BY <1>5, <3>1, <3>2 DEF Lines
      <4>2. y \in DOMAIN filtered
        <5>1. Less(row, 3) * size \in Nat /\ Less(row, 3) * size <= origin
              /\ Start <= Less(row, 3) * size + 3 * size
          <6>1. CASE row <= 3
            <7>1. Less(row, 3) = 0 /\ row * size <= 3 * size
              BY <1>3, <1>5, <6>1 DEF Less
            <7>2. 0 * size = 0 /\ origin \in Nat /\ 0 <= origin
              BY <1>5, <2>5
            <7> HIDE DEF origin
            <7>q. QED
              BY <1>5, <7>1, <7>2
          <6>2. CASE ~(row <= 3)
            <7>1. Less(row, 3) = row - 3 /\ Less(row, 2) = row - 2
                  /\ (row - 3) * size = row * size - 3 * size
                  /\ (row - 2) * size = row * size - 2 * size
              BY <1>3, <1>5, <6>2 DEF Less
            <7>2. (row - 3) * size \in Nat
              BY <1>3, <1>5, <6>2
            <7>q. QED
              BY <1>5, <2>3, <7>1, <7>2
          <6>q. QED
            BY <1>3, <6>1, <6>2
        <5> HIDE DEF origin
        <5> DEFINE from == Less(row, 3) * size
        <5>2. DOMAIN filtered = from .. from + 3 * size - 1
          BY <2>1 DEF Lines
        <5> HIDE DEF from
        <5>3. from \in Nat /\ from <= origin /\ Start <= from + 3 * size
          BY <5>1 DEF from
        <5>4. y \in Int /\ y >= origin /\ y < Start /\ origin \in Nat
          BY <2>5, <3>1, <3>2
        <5>q. QED
          BY ONLY SMTT(30), <1>5, <5>2, <5>3, <5>4
      <4>3. copied[y] = filtered[y]
        BY <2>4, <4>1, <4>2 DEF Write, Advance
      <4>q. QED
        BY <1>5, <2>1, <3>1, <3>2, <4>2, <4>3
    <3>3. CASE y >= Start /\ y < end
      <4>1. y \in Lines(Start, Count)
        BY <1>5, <3>1, <3>3 DEF Lines
      <4>2. y \in DOMAIN raw
        <5>1. Less(row, 1) * size \in Nat /\ Less(row, 1) * size <= Start
              /\ end <= Less(row, 1) * size + 2 * size
          <6>1. CASE row = 0
            <7>1. Less(row, 1) = 0 /\ 0 * size = 0 /\ Start = 0
              BY <1>5, <2>5, <6>1 DEF Less
            <7>q. QED
              BY <1>5, <7>1
          <6>2. CASE row # 0
            <7>1. Less(row, 1) = row - 1 /\ (row - 1) * size = row * size - size
              BY <1>3, <1>5, <6>2 DEF Less
            <7>2. (row - 1) * size \in Nat
              BY <1>3, <1>5, <6>2
            <7>q. QED
              BY <1>5, <7>1, <7>2
          <6>q. QED
            BY <6>1, <6>2
        <5> DEFINE from == Less(row, 1) * size
        <5>2. DOMAIN raw = from .. from + 2 * size - 1
          BY <2>2, <2>3 DEF Lines
        <5> HIDE DEF from
        <5>3. from \in Nat /\ from <= Start /\ end <= from + 2 * size
          BY <5>1 DEF from
        <5>4. /\ y \in Int /\ y >= Start /\ y < end /\ end \in Int
              /\ Start \in Nat /\ size \in Nat
          BY <1>5, <3>1, <3>3
        <5> HIDE DEF end
        <5>q. QED
          BY ONLY <5>2, <5>3, <5>4
      <4>3. copied[y] = raw[y]
        BY <2>4, <4>1 DEF Write
      <4>q. QED
        BY <1>5, <2>2, <3>1, <3>3, <4>2, <4>3
    <3>q. QED
      BY <3>1, <3>2, <3>3
  <2> HIDE DEF copied, advanced, origin
  <2>7. ASSUME deblocking, NEW y \in DOMAIN copied, y < end
        PROVE  Deblock(copied, Start, end)[y] = Settled(y, end)
    <3> DEFINE upright == [z \in DOMAIN copied |->
                              IF Start <= z /\ z < end THEN Vertical(copied[z])
                                                       ELSE copied[z]]
    <3>0. end \in Nat /\ Start <= end /\ y \in Nat
      BY <1>5, <2>6
    <3>1. Deblock(copied, Start, end)[y]
             = IF Crossed(y, Start, end) THEN Horizontal(upright, EdgeOf(y), y)
               ELSE upright[y]
      BY DeblockedLine
    <3>2. ASSUME NEW z \in DOMAIN copied, z < end,
                 z >= Start \/ ~Crossed(z, 0, Start)
          PROVE  upright[z] = Vertical(Raw(z))
      BY <1>5, <2>6, <2>7, <3>2 DEF Settled
    <3>3. CASE Crossed(y, Start, end)
      <4> DEFINE e == EdgeOf(y)
      <4>1. /\ Crossed(y, 0, end)
            /\ e \in Nat /\ e % 8 = 0 /\ e # 0 /\ e < end /\ Start <= e
        BY <1>3, <1>5, <2>7, <3>0, <3>3, CrossedOnce, EdgeProperties
           DEF Crossed, Shape
      <4> HIDE DEF e
      <4>2. Reads \in {2, 4} /\ e - Reads \in Nat /\ e + Reads <= end
        BY <1>3, <1>5, <3>0, <4>1, EdgeInside
      <4>3. ASSUME NEW k \in e - Reads .. e + Reads - 1
            PROVE  upright[k] = Vertical(Raw(k))
        <5>1. k \in Nat /\ k < end /\ k >= e - Reads
          BY <3>0, <4>1, <4>2
        <5>2. k >= Start \/ ~Crossed(k, 0, Start)
          <6>1. CASE e = Start /\ k < Start
            BY <1>3, <4>1, <5>1, <6>1, ReadAboveUncrossed
          <6>2. CASE e # Start
            <7>1. Start + 8 <= e
              BY ONLY <1>5, <4>1, <6>2
            <7>q. QED
              BY <1>5, <4>1, <4>2, <5>1, <7>1
          <6>q. QED
            BY <1>5, <5>1, <6>1, <6>2
        <5>3. k \in DOMAIN copied
          <6>1. k >= origin /\ k < origin + 3 * size
            BY <1>5, <2>5, <3>0, <4>1, <4>2, <5>1
          <6>q. QED
            BY <1>5, <2>4, <2>5, <5>1, <6>1 DEF Lines
        <5>q. QED
          BY <3>2, <5>1, <5>2, <5>3
      <4> HIDE DEF upright
      <4>4. Horizontal(upright, e, y) = Edged(e, y)
        BY <4>3, EdgedLine
      <4>q. QED
        BY <2>7, <3>1, <3>3, <4>1, <4>4 DEF Settled, e
    <3>4. CASE ~Crossed(y, Start, end)
      <4>1. Crossed(y, 0, end) <=> Crossed(y, 0, Start)
        BY <1>3, <1>5, <3>0, <3>4, CrossedOnce
      <4>2. CASE y >= Start
        <5>1. ~Crossed(y, 0, end)
          BY <1>3, <1>5, <3>0, <4>1, <4>2, CrossedOnce
        <5>2. upright[y] = Vertical(Raw(y))
          BY <2>7, <3>2, <4>2
        <5>q. QED
          BY <2>7, <3>1, <3>4, <5>1, <5>2 DEF Settled
      <4>3. CASE ~(y >= Start)
        <5>1. upright[y] = Settled(y, Start)
          BY <1>5, <2>6, <3>0, <4>3
        <5>2. Settled(y, Start) = Settled(y, end)
          BY <4>1 DEF Settled
        <5>q. QED
          BY <3>1, <3>4, <5>1, <5>2
      <4>q. QED
        BY <4>2, <4>3
    <3>q. QED
      BY <3>3, <3>4
  <2>8. ASSUME NEW y \in DOMAIN filtered', y < end
        PROVE  filtered'[y] = Settled(y, end)
    <3>1. CASE deblocking
      <4>1. filtered' = Deblock(copied, Start, end)
        BY <1>1, <3>1
      <4>2. y \in DOMAIN copied
        BY <4>1 DEF Deblock
      <4>q. QED
        BY <2>7, <2>8, <3>1, <4>1, <4>2
    <3>2. CASE ~deblocking
      <4>1. filtered' = copied
        BY <1>1, <3>2
      <4>q. QED
        BY <1>5, <2>6, <2>8, <3>2, <4>1 DEF Settled
    <3>q. QED
      BY <3>1, <3>2
  <2>9. DOMAIN filtered' = Lines(origin, 3 * size)
    <3>1. CASE deblocking
      BY <1>1, <2>4, <3>1 DEF Deblock
    <3>2. CASE ~deblocking
      BY <1>1, <2>4, <3>2
    <3>q. QED
      BY <3>1, <3>2
  <2>10. FilteredRows' = row + 1 /\ row + 1 \in 0 .. Rows
    BY <1>1, <1>3, <1>5 DEF FilteredRows
  <2>11. \A y, at : Settled(y, at)' = Settled(y, at)
    BY <1>1, SettledStays
  <2>12. ASSUME NEW n, n = row + 1
         PROVE  /\ DOMAIN filtered' = Lines(Less(n, 3) * size, 3 * size)
                /\ \A y \in DOMAIN filtered' :
                       y < Top(n) => filtered'[y] = Settled(y, Top(n))
    BY <1>5, <2>8, <2>9, <2>12 DEF origin
  <2>13. PICK n : n = row + 1
    OBVIOUS
  <2>14. PICK top : top = Top(n)
    OBVIOUS
  <2>15. Top(n)' = top /\ \A y : Settled(y, top)' = Settled(y, top)
    BY <1>4, <2>11, <2>14
  <2>16. \A y \in DOMAIN filtered' : y < top => filtered'[y] = Settled(y, top)'
    BY <2>12, <2>13, <2>14, <2>15
  <2>q. QED
    BY <1>4, <2>10, <2>12, <2>13, <2>14, <2>15, <2>16
       DEF FilteredHolds, Lines, Less
<1>q. QED
  BY <1>6, <1>7, <1>8, <1>9, <1>10 DEF IInv

\* A band of the rolling frame is the band of the picture when its lines and
\* those next to it are settled.
LEMMA BandOfPicture ==
    ASSUME Shape, NEW end \in Nat, end <= height, end % 4 = 0,
           NEW r \in Nat, r < Rows, Info(r) = r,
           NEW count \in Nat, count = LinesOf(r + 1),
           r * size + count <= height,
           \/ r * size + count + Changes < end
           \/ end = height,
           \A y \in Nat : y < end /\ y + 1 >= r * size
                             => y \in DOMAIN filtered
                                /\ filtered[y] = Settled(y, end)
    PROVE  Band(r, count) = WholePicture[r + 1]
<1>1. height \in Nat \ {0} /\ size \in Nat \ {0} /\ r * size \in Nat
  <2>1. size \in {8, 16, 32, 64} /\ height \in Nat \ {0}
    BY DEF Shape
  <2>q. QED
    BY <2>1
<1>2. Rows \in Nat \ {0} /\ r + 1 \in 1 .. Rows /\ (r + 1) - 1 = r
  BY RowsReach
<1>3. Changes \in Nat /\ Changes >= 1
  BY DEF Changes
<1>4. ASSUME NEW y \in Nat, y < height
      PROVE  Deblocked[y] = Settled(y, height)
  <2>1. y \in Lines(0, height)
    BY <1>1, <1>4 DEF Lines
  <2>2. CASE deblocking
    BY <2>1, <2>2, PictureLine DEF Deblocked, Decoded
  <2>3. CASE ~deblocking
    BY <2>1, <2>3 DEF Deblocked, Decoded, Settled
  <2>q. QED
    BY <2>2, <2>3
<1>5. ASSUME NEW y \in Nat, y + 1 >= r * size, y < height,
             y <= r * size + count
      PROVE  filtered[y] = Deblocked[y]
  <2> DEFINE c == Changes
             first == r * size
  <2>0. c \in Nat /\ c >= 1 /\ first \in Nat
    BY <1>1, <1>3
  <2>1. y < end /\ (y + c < end \/ end = height)
    <3>1. first + count + c < end \/ end = height
      OBVIOUS
    <3>2. y <= first + count /\ y < height
      BY <1>5
    <3> HIDE DEF c, first
    <3>q. QED
      BY <2>0, <3>1, <3>2, <1>1
  <2>2. Settled(y, end) = Settled(y, height)
    BY <2>1, SettledEarly
  <2>3. filtered[y] = Settled(y, end)
    BY <1>5, <2>1
  <2>q. QED
    BY <1>4, <1>5, <2>2, <2>3
<1>6. ASSUME NEW k \in 1 .. count
      PROVE  Offset(filtered, r, r * size + k - 1)
                = Offset(Deblocked, r, r * size + k - 1)
  <2> DEFINE y == r * size + k - 1
             first == r * size
  <2>1. /\ y \in Nat /\ y < height /\ first <= y /\ y < first + count
    BY <1>1
  <2>2. /\ y + 1 >= first /\ y <= first + count
        /\ y # 0 => y - 1 \in Nat /\ (y - 1) + 1 >= first /\ y - 1 < height
                    /\ y - 1 <= first + count
        /\ y # height - 1 => y + 1 \in Nat /\ (y + 1) + 1 >= first
                             /\ y + 1 < height /\ y + 1 <= first + count
    <3> HIDE DEF y
    <3>1. first \in Nat
      BY <1>1
    <3> HIDE DEF first
    <3>q. QED
      BY <1>1, <2>1, <3>1
  <2> HIDE DEF y
  <2>3. filtered[y] = Deblocked[y]
    BY <1>5, <2>1, <2>2
  <2>4. y # 0 => filtered[y - 1] = Deblocked[y - 1]
    BY <1>5, <2>2
  <2>5. y # height - 1 => filtered[y + 1] = Deblocked[y + 1]
    BY <1>5, <2>2
  <2>6. Offset(filtered, r, y) = Offset(Deblocked, r, y)
    BY <2>3, <2>4, <2>5 DEF Offset
  <2>q. QED
    BY <2>6 DEF y
<1>7. [k \in 1 .. count |-> Offset(filtered, r, r * size + k - 1)]
         = [k \in 1 .. count |-> Offset(Deblocked, r, r * size + k - 1)]
  BY <1>6
<1>8. Band(r, count) = BandOf(r + 1, Deblocked, count)
  BY <1>2, <1>7 DEF Band, BandOf
<1>q. QED
  BY <1>2, <1>8, PictureBands

\* One more band of the picture is shown.
LEMMA OneMoreBand ==
    ASSUME NEW n \in Nat, n < Rows, Rows \in Nat,
           emitted = SubSeq(WholePicture, 1, n),
           NEW band, band = WholePicture[n + 1]
    PROVE  /\ Len(emitted) = n /\ Len(WholePicture) = Rows
           /\ Append(emitted, band) = SubSeq(WholePicture, 1, n + 1)
<1> DEFINE S == {WholePicture[k] : k \in 1 .. Rows}
           p == WholePicture
<1>1. p \in Seq(S) /\ Len(p) = Rows
  <2>1. p \in [1 .. Rows -> S]
    BY PictureBands
  <2> HIDE DEF p, S
  <2>q. QED
    BY <2>1
<1> HIDE DEF p, S
<1>2. /\ SubSeq(p, 1, n) \in Seq(S) /\ Len(SubSeq(p, 1, n)) = n
      /\ \A i \in 1 .. n : SubSeq(p, 1, n)[i] = p[i]
  <2>1. n \in Int /\ \A i \in 1 .. n : i \in 1 .. Len(p) /\ p[i] \in S
    BY <1>1, ElementOfSeq
  <2>2. /\ SubSeq(p, 1, n) \in Seq(S)
        /\ Len(SubSeq(p, 1, n)) = (IF 1 <= n THEN n - 1 + 1 ELSE 0)
        /\ \A i \in 1 .. n - 1 + 1 : SubSeq(p, 1, n)[i] = p[1 + i - 1]
    BY <1>1, <2>1, SubSeqProperties
  <2>q. QED
    BY <2>2
<1>3. SubSeq(p, 1, n + 1) = SubSeq(p, 1, n) \o <<p[n + 1]>>
  <2>1. /\ 1 \in 1 .. Len(p) /\ n + 1 \in 1 .. Len(p)
        /\ (n + 1) - 1 = n
    BY <1>1
  <2>q. QED
    BY <1>1, <2>1, SubSeqRecursiveSecond
<1>4. Append(SubSeq(p, 1, n), p[n + 1]) = SubSeq(p, 1, n) \o <<p[n + 1]>>
  <2>1. n + 1 \in 1 .. Len(p)
    BY <1>1
  <2>2. p[n + 1] \in S
    BY <1>1, <2>1, ElementOfSeq
  <2>q. QED
    BY <1>2, <2>2, AppendIsConcat
<1>q. QED
  BY <1>1, <1>2, <1>3, <1>4 DEF p

\* All bands make up the picture.
LEMMA PictureWhole ==
    ASSUME Rows \in Nat
    PROVE  SubSeq(WholePicture, 1, Rows) = WholePicture
<1> DEFINE S == {WholePicture[k] : k \in 1 .. Rows}
           p == WholePicture
<1>1. p \in [1 .. Rows -> S]
  BY PictureBands
<1> HIDE DEF p, S
<1>2. p \in Seq(S) /\ Len(p) = Rows
  BY <1>1
<1>3. SubSeq(p, 1, Len(p)) = p
  BY <1>2, SubSeqFull
<1>q. QED
  BY <1>2, <1>3 DEF p

\* The lines of the row, those of the row above and the line above that are
\* in the filtered frame, as far deblocked as the row.
LEMMA LinesThere ==
    ASSUME Shape, row \in Nat, row < Rows, FilteredHolds, FilteredRows = row + 1,
           NEW y \in Nat, y < Start + Count, y + 1 >= Less(row, 1) * size
    PROVE  y \in DOMAIN filtered /\ filtered[y] = Settled(y, Start + Count)
<1>1. /\ Top(row + 1) = Start + Count /\ Start = row * size
      /\ Start \in Nat /\ Count \in Nat /\ Count <= size
  BY RowLines DEF Start
<1>2. /\ DOMAIN filtered = Lines(Less(row + 1, 3) * size, 3 * size)
      /\ \A z \in DOMAIN filtered :
             z < Start + Count => filtered[z] = Settled(z, Start + Count)
  BY <1>1 DEF FilteredHolds
<1>3. size \in Nat \ {0}
  BY DEF Shape
<1> DEFINE from == Less(row + 1, 3) * size
<1>4. from \in Nat /\ from <= y /\ Start + Count <= from + 3 * size
  <2>1. CASE row = 0
    <3>1. Less(row + 1, 3) = 0 /\ 0 * size = 0 /\ Start = 0
      BY <1>1, <1>3, <2>1 DEF Less
    <3>q. QED
      BY <1>1, <1>3, <3>1
  <2>2. CASE row = 1
    <3>1. Less(row + 1, 3) = 0 /\ 0 * size = 0 /\ Start = size
      BY <1>1, <1>3, <2>2 DEF Less
    <3>q. QED
      BY <1>1, <1>3, <3>1
  <2>3. CASE row # 0 /\ row # 1
    <3>1. /\ Less(row + 1, 3) = row - 2 /\ Less(row, 1) = row - 1
          /\ (row - 2) * size = row * size - 2 * size
          /\ (row - 1) * size = row * size - size
      BY <1>3, <2>3 DEF Less
    <3>2. (row - 2) * size \in Nat
      BY <1>3, <2>3
    <3>3. from = Start - 2 * size /\ from \in Nat /\ y + 1 >= Start - size
      BY <1>1, <3>1, <3>2
    <3> HIDE DEF from
    <3>q. QED
      BY <1>1, <1>3, <3>3
  <2>q. QED
    BY <2>1, <2>2, <2>3
<1>5. DOMAIN filtered = from .. from + 3 * size - 1
  BY <1>2 DEF Lines
<1>6. y \in DOMAIN filtered
  <2> HIDE DEF from
  <2>1. y < Start + Count /\ Start + Count \in Int
    BY <1>1
  <2>q. QED
    BY <1>3, <1>4, <1>5, <2>1
<1>q. QED
  BY <1>2, <1>6

\* The row above is emitted: its last lines were deblocked with the row's
\* first, and the offset of its last line looks no further than those.
LEMMA EmitAboveShows ==
    ASSUME IInv, EmitAbove
    PROVE  /\ row - 1 \in Nat /\ row - 1 < Rows
           /\ emitted = SubSeq(WholePicture, 1, row - 1)
           /\ emitted' = Append(emitted, WholePicture[row])
           /\ result = "none" /\ result' = "none"
<1>1. /\ pc = "above" /\ emitted' = Append(emitted, Band(row - 1, size))
      /\ result' = result
  BY DEF EmitAbove
<1>2. TypeOK /\ FilteredHolds /\ SaoHolds /\ EmittedHolds
  BY <1>1 DEF IInv
<1>3. Shape /\ row \in Nat /\ row > 0 /\ row < Rows /\ result = "none"
  BY <1>1, <1>2 DEF TypeOK
<1>4. FilteredRows = row + 1 /\ RawRows = row + 1 /\ Shown = row - 1
      /\ Rows \in Nat
  <2>1. Rows \in Nat
    BY <1>3, RowsReach
  <2>q. QED
    BY <1>1, <1>3, <2>1 DEF FilteredRows, RawRows, Shown, Less
<1>5. Info(row - 1) = row - 1
  <2>1. (row + 1) - 2 = row - 1 /\ row + 1 > 1
    BY <1>3
  <2>q. QED
    BY <1>2, <1>4, <2>1 DEF SaoHolds
<1> DEFINE end == Start + Count
           r == row - 1
<1>6. /\ end \in Nat /\ end <= height /\ end % 4 = 0
      /\ Start \in Nat /\ Count \in Nat \ {0} /\ Start % 8 = 0
      /\ Start = row * size /\ size \in {8, 16, 32, 64} /\ height \in Nat
      /\ (~chroma => size # 8)
  BY <1>3, RowLines DEF Start, Shape
<1>7. r \in Nat /\ r < Rows /\ r + 1 = row /\ row # Rows
      /\ r * size = Start - size /\ r * size + size = Start
  BY <1>3, <1>4, <1>6
<1>8. size = LinesOf(r + 1)
  BY <1>7 DEF LinesOf
<1>9. r * size + size + Changes < end \/ end = height
  <2>1. row # Rows - 1 => Count = size
    BY <1>3, RowLines
  <2>2. row = Rows - 1 => end = height
    BY <1>3, RowLines
  <2>3. Changes \in {1, 3}
    BY DEF Changes
  <2> HIDE DEF r
  <2>q. QED
    BY <1>6, <1>7, <2>1, <2>2, <2>3
<1>10. \A y \in Nat : y < end /\ y + 1 >= r * size
                         => y \in DOMAIN filtered
                            /\ filtered[y] = Settled(y, end)
  <2>1. Less(row, 1) = r
    BY <1>3 DEF Less
  <2>q. QED
    BY <1>2, <1>3, <1>4, <2>1, LinesThere
<1>11. Band(r, size) = WholePicture[r + 1]
  <2>1. size \in Nat /\ r * size + size <= height /\ Info(r) = r
    BY <1>5, <1>6, <1>7
  <2> HIDE DEF r, end
  <2>2. /\ Shape /\ end \in Nat /\ end <= height /\ end % 4 = 0
        /\ r \in Nat /\ r < Rows /\ Info(r) = r
        /\ size \in Nat /\ size = LinesOf(r + 1)
        /\ r * size + size <= height
        /\ r * size + size + Changes < end \/ end = height
    BY <1>3, <1>6, <1>7, <1>8, <1>9, <2>1, Zenon
  <2>3. \A y \in Nat : y < end /\ y + 1 >= r * size
                         => y \in DOMAIN filtered
                            /\ filtered[y] = Settled(y, end)
    BY <1>10, Zenon
  <2>q. QED
    BY ONLY <2>2, <2>3, BandOfPicture
<1>q. QED
  BY <1>1, <1>2, <1>3, <1>4, <1>7, <1>11 DEF EmittedHolds

\* The last row is emitted when it has been deblocked, nothing being below.
LEMMA EmitLastShows ==
    ASSUME IInv, EmitLast
    PROVE  /\ row \in Nat /\ row < Rows
           /\ emitted = SubSeq(WholePicture, 1, row)
           /\ emitted' = IF row = Rows - 1
                         THEN Append(emitted, WholePicture[row + 1]) ELSE emitted
           /\ result = "none" /\ result' = "none"
<1>1. /\ pc = "last" /\ result' = result
      /\ emitted' = IF Start + Count = height
                    THEN Append(emitted, Band(row, Count)) ELSE emitted
  BY DEF EmitLast
<1>2. TypeOK /\ FilteredHolds /\ SaoHolds /\ EmittedHolds
  BY <1>1 DEF IInv
<1>3. Shape /\ row \in Nat /\ row < Rows /\ result = "none" /\ Rows \in Nat
  BY <1>1, <1>2, RowsReach DEF TypeOK
<1>4. FilteredRows = row + 1 /\ RawRows = row + 1 /\ Shown = row
  BY <1>1 DEF FilteredRows, RawRows, Shown
<1>5. Info(row) = row
  <2>1. (row + 1) - 1 = row /\ row + 1 > 0
    BY <1>3
  <2>q. QED
    BY <1>2, <1>4, <2>1 DEF SaoHolds
<1> DEFINE end == Start + Count
<1>6. /\ end \in Nat /\ end <= height /\ end % 4 = 0
      /\ Start \in Nat /\ Count \in Nat /\ Start = row * size
      /\ (end = height <=> row = Rows - 1)
      /\ height \in Nat /\ size \in Nat \ {0}
  BY <1>3, RowLines DEF Start, Shape
<1>7. ASSUME row = Rows - 1
      PROVE  Band(row, Count) = WholePicture[row + 1]
  <2>1. end = height /\ row + 1 = Rows /\ (row + 1) - 1 = row
    BY <1>3, <1>6, <1>7
  <2>2. Count = LinesOf(row + 1)
    BY <1>6, <2>1 DEF LinesOf
  <2>3. \A y \in Nat : y < end /\ y + 1 >= row * size
                         => y \in DOMAIN filtered
                            /\ filtered[y] = Settled(y, end)
    <3>1. Less(row, 1) * size <= row * size /\ Less(row, 1) * size \in Nat
      <4>1. CASE row = 0
        BY <1>6, <4>1 DEF Less
      <4>2. CASE row # 0
        <5>1. Less(row, 1) = row - 1 /\ (row - 1) * size = row * size - size
          BY <1>3, <1>6, <4>2 DEF Less
        <5>2. (row - 1) * size \in Nat
          BY <1>3, <1>6, <4>2
        <5>q. QED
          BY <1>6, <5>1, <5>2
      <4>q. QED
        BY <4>1, <4>2
    <3>2. \A y \in Nat : y + 1 >= row * size => y + 1 >= Less(row, 1) * size
      <4> DEFINE a == Less(row, 1) * size
                 b == row * size
      <4>1. a \in Nat /\ b \in Nat /\ a <= b
        BY <1>6, <3>1
      <4> HIDE DEF a, b
      <4>2. \A y \in Nat : y + 1 >= b => y + 1 >= a
        BY ONLY <4>1
      <4>q. QED
        BY <4>2 DEF a, b
    <3>q. QED
      BY <1>2, <1>3, <1>4, <3>2, LinesThere
  <2>4. row * size + Count <= height
    BY <1>6
  <2> HIDE DEF end
  <2>q. QED
    BY <1>3, <1>5, <1>6, <2>1, <2>2, <2>3, <2>4, BandOfPicture
<1>q. QED
  BY <1>1, <1>2, <1>3, <1>4, <1>6, <1>7 DEF EmittedHolds

\* The band of the row above is shown.
LEMMA EmitAboveKeeps ==
    ASSUME IInv, EmitAbove
    PROVE  IInv'
<1>1. /\ pc = "above" /\ pc' = "last"
      /\ UNCHANGED <<row, raw, filtered, sao, result>>
      /\ UNCHANGED shapeVars
  BY DEF EmitAbove
<1>2. TypeOK /\ RawHolds /\ FilteredHolds /\ SaoHolds
  BY <1>1 DEF IInv
<1>3. Shape /\ row \in Nat /\ row < Rows /\ row > 0 /\ result = "none"
  BY <1>1, <1>2 DEF TypeOK
<1>4. /\ Rows' = Rows /\ Ring' = Ring /\ \A n : Top(n)' = Top(n)
      /\ Shape' /\ size' = size /\ height' = height /\ Rows \in Nat
  BY <1>1, <1>3, ShapeStays, RowsReach DEF shapeVars
<1>5. TypeOK'
  BY <1>1, <1>3, <1>4 DEF TypeOK
<1>6. RawRows' = RawRows /\ FilteredRows' = FilteredRows
  BY <1>1 DEF RawRows, FilteredRows
<1>7. RawHolds' /\ SaoHolds'
  BY <1>1, <1>2, <1>4, <1>6 DEF RawHolds, SaoHolds, Info, Lines, Less
<1>8. FilteredHolds'
  <2>1. \A y, end : Settled(y, end)' = Settled(y, end)
    BY <1>1, SettledStays
  <2>q. QED
    BY <1>1, <1>2, <1>4, <1>6, <2>1 DEF FilteredHolds, Lines, Less
<1>9. EmittedHolds'
  <2>1. /\ row - 1 \in Nat /\ row - 1 < Rows
        /\ emitted = SubSeq(WholePicture, 1, row - 1)
        /\ emitted' = Append(emitted, WholePicture[row])
    BY EmitAboveShows
  <2>2. (row - 1) + 1 = row /\ row \in 0 .. Rows
    BY <1>3, <1>4
  <2>3. emitted' = SubSeq(WholePicture, 1, row)
    BY <1>4, <2>1, <2>2, OneMoreBand
  <2>4. WholePicture' = WholePicture /\ Shown' = row
    BY <1>1, <1>4, PictureStays DEF Shown
  <2>q. QED
    BY <1>4, <2>2, <2>3, <2>4 DEF EmittedHolds
<1>q. QED
  BY <1>5, <1>7, <1>8, <1>9 DEF IInv

\* The band of the last row is shown, or the next row begins.
LEMMA EmitLastKeeps ==
    ASSUME IInv, EmitLast
    PROVE  IInv'
<1>1. /\ pc = "last" /\ pc' = "decode" /\ row' = row + 1
      /\ UNCHANGED <<raw, filtered, sao, result>>
      /\ UNCHANGED shapeVars
  BY DEF EmitLast
<1>2. TypeOK /\ RawHolds /\ FilteredHolds /\ SaoHolds
  BY <1>1 DEF IInv
<1>3. Shape /\ row \in Nat /\ row < Rows /\ result = "none"
  BY <1>1, <1>2 DEF TypeOK
<1>4. /\ Rows' = Rows /\ Ring' = Ring /\ \A n : Top(n)' = Top(n)
      /\ Shape' /\ size' = size /\ height' = height /\ Rows \in Nat
  BY <1>1, <1>3, ShapeStays, RowsReach DEF shapeVars
<1>5. TypeOK'
  BY <1>1, <1>3, <1>4 DEF TypeOK
<1>6. RawRows' = RawRows /\ FilteredRows' = FilteredRows
  BY <1>1 DEF RawRows, FilteredRows
<1>7. RawHolds' /\ SaoHolds'
  BY <1>1, <1>2, <1>4, <1>6 DEF RawHolds, SaoHolds, Info, Lines, Less
<1>8. FilteredHolds'
  <2>1. \A y, end : Settled(y, end)' = Settled(y, end)
    BY <1>1, SettledStays
  <2>q. QED
    BY <1>1, <1>2, <1>4, <1>6, <2>1 DEF FilteredHolds, Lines, Less
<1>9. EmittedHolds'
  <2>1. /\ emitted = SubSeq(WholePicture, 1, row)
        /\ emitted' = IF row = Rows - 1
                      THEN Append(emitted, WholePicture[row + 1]) ELSE emitted
    BY EmitLastShows
  <2>2. WholePicture' = WholePicture
    BY <1>1, <1>4, PictureStays
  <2>3. Shown' = IF row = Rows - 1 THEN row + 1 ELSE row
    BY <1>1, <1>3, <1>4 DEF Shown, Less
  <2>4. CASE row = Rows - 1
    <3>1. emitted' = SubSeq(WholePicture, 1, row + 1)
      BY <1>3, <1>4, <2>1, <2>4, OneMoreBand
    <3>2. row + 1 \in 0 .. Rows
      BY <1>3, <1>4
    <3>q. QED
      BY <1>4, <2>2, <2>3, <2>4, <3>1, <3>2 DEF EmittedHolds
  <2>5. CASE row # Rows - 1
    <3>1. row \in 0 .. Rows
      BY <1>3, <1>4
    <3>q. QED
      BY <1>4, <2>1, <2>2, <2>3, <2>5, <3>1 DEF EmittedHolds
  <2>q. QED
    BY <2>4, <2>5
<1>q. QED
  BY <1>5, <1>7, <1>8, <1>9 DEF IInv

-----------------------------------------------------------------------------
(* The theorems.                                                           *)

\* An error or the end of the decode.
LEMMA ReturnKeeps ==
    ASSUME IInv, FailRow \/ FailEmit \/ Complete
    PROVE  IInv'
<1>1. /\ pc' = "returned" /\ row' = row
      /\ UNCHANGED shapeVars
  BY DEF FailRow, FailEmit, Complete
<1>2. Shape' /\ row \in Nat
  BY <1>1, ShapeStays DEF IInv, TypeOK
<1>q. QED
  BY <1>1, <1>2 DEF IInv, TypeOK

\* A step in which nothing changes.
LEMMA StutterKeeps ==
    ASSUME IInv, UNCHANGED vars
    PROVE  IInv'
<1>1. /\ pc' = pc /\ row' = row /\ result' = result
      /\ raw' = raw /\ filtered' = filtered /\ sao' = sao /\ emitted' = emitted
      /\ UNCHANGED shapeVars
  BY DEF vars
<1>2. TypeOK /\ Shape
  BY DEF IInv, TypeOK
<1>3. /\ Rows' = Rows /\ Ring' = Ring /\ \A n : Top(n)' = Top(n)
      /\ Shape' /\ size' = size /\ height' = height /\ Rows \in Nat
  BY <1>1, <1>2, ShapeStays, RowsReach DEF shapeVars
<1>4. TypeOK'
  BY <1>1, <1>2, <1>3 DEF TypeOK
<1>5. ASSUME pc # "returned"
      PROVE  (RawHolds /\ FilteredHolds /\ SaoHolds /\ EmittedHolds)'
  <2>1. RawHolds /\ FilteredHolds /\ SaoHolds /\ EmittedHolds
    BY <1>5 DEF IInv
  <2>2. RawRows' = RawRows /\ FilteredRows' = FilteredRows /\ Shown' = Shown
    BY <1>1, <1>3 DEF RawRows, FilteredRows, Shown, Less
  <2>3. RawHolds' /\ SaoHolds'
    BY <1>1, <1>3, <2>1, <2>2 DEF RawHolds, SaoHolds, Info, Lines, Less
  <2>4. FilteredHolds'
    <3>1. \A y, end : Settled(y, end)' = Settled(y, end)
      BY <1>1, SettledStays
    <3>q. QED
      BY <1>1, <1>3, <2>1, <2>2, <3>1 DEF FilteredHolds, Lines, Less
  <2>5. EmittedHolds'
    <3>1. WholePicture' = WholePicture
      BY <1>1, <1>3, PictureStays
    <3>q. QED
      BY <1>1, <1>3, <2>1, <2>2, <3>1 DEF EmittedHolds
  <2>q. QED
    BY <2>3, <2>4, <2>5
<1>q. QED
  BY <1>1, <1>4, <1>5 DEF IInv

\* The invariant is inductive.
LEMMA IInvNext == IInv /\ [Next]_vars => IInv'
<1> SUFFICES ASSUME IInv, [Next]_vars PROVE IInv'
  OBVIOUS
<1>1. CASE DecodeRow
  BY <1>1, DecodeRowKeeps
<1>2. CASE FilterRow
  BY <1>2, FilterRowKeeps
<1>3. CASE EmitAbove
  BY <1>3, EmitAboveKeeps
<1>4. CASE EmitLast
  BY <1>4, EmitLastKeeps
<1>5. CASE FailRow \/ FailEmit \/ Complete
  BY <1>5, ReturnKeeps
<1>6. CASE Returned \/ UNCHANGED vars
  BY <1>6, StutterKeeps DEF Returned
<1>q. QED
  BY <1>1, <1>2, <1>3, <1>4, <1>5, <1>6 DEF Next

\* The invariant holds for every size of CTB, every height, and either plane.
THEOREM Invariant == Spec => []IInv
  BY InitHolds, IInvNext, PTL DEF Spec

\* The rows in use are in their frames, and nothing else is.
THEOREM TypeCorrect == Spec => []TypeOK
<1>1. IInv => TypeOK
  BY DEF IInv
<1>q. QED
  BY <1>1, Invariant, PTL

\* Each step of the rolling decoder is one of the stream of bands, or shows
\* nothing.
LEMMA StepStreams ==
    ASSUME IInv, [Next]_vars
    PROVE  [Stream!Next]_(Stream!vars)
<1>0. TypeOK /\ Shape /\ Rows \in Nat
  BY RowsReach DEF IInv, TypeOK
<1>1. WholePicture' = WholePicture
  <2>1. UNCHANGED shapeVars
    BY DEF Next, DecodeRow, FailRow, FilterRow, EmitAbove, EmitLast, FailEmit,
           Complete, Returned, vars
  <2>q. QED
    BY <1>0, <2>1, PictureStays
<1> HIDE DEF WholePicture
<1>2. CASE DecodeRow \/ FilterRow \/ Returned \/ UNCHANGED vars
  <2>1. emitted' = emitted /\ result' = result
    BY <1>2 DEF DecodeRow, FilterRow, Returned, vars
  <2>q. QED
    BY <1>1, <2>1 DEF Stream!vars
<1>3. CASE FailRow \/ FailEmit
  <2>1. emitted' = emitted /\ result' = "error" /\ pc # "returned"
    BY <1>3 DEF FailRow, FailEmit
  <2>2. result = "none"
    BY <1>0, <2>1 DEF TypeOK
  <2>q. QED
    BY <1>1, <2>1, <2>2 DEF Stream!Next, Stream!Fail
<1>4. CASE EmitAbove
  <2>1. /\ row - 1 \in Nat /\ row - 1 < Rows
        /\ emitted = SubSeq(WholePicture, 1, row - 1)
        /\ emitted' = Append(emitted, WholePicture[row])
        /\ result = "none" /\ result' = "none"
    BY <1>4, EmitAboveShows
  <2>2. (row - 1) + 1 = row
    BY <1>0 DEF TypeOK
  <2>3. Len(emitted) = row - 1 /\ Len(WholePicture) = Rows
    BY <1>0, <2>1, OneMoreBand
  <2>4. Stream!Show
    BY <1>1, <2>1, <2>2, <2>3 DEF Stream!Show
  <2>q. QED
    BY <2>4 DEF Stream!Next
<1>5. CASE EmitLast
  <2>1. /\ row \in Nat /\ row < Rows
        /\ emitted = SubSeq(WholePicture, 1, row)
        /\ emitted' = IF row = Rows - 1
                      THEN Append(emitted, WholePicture[row + 1]) ELSE emitted
        /\ result = "none" /\ result' = "none"
    BY <1>5, EmitLastShows
  <2>2. Len(emitted) = row /\ Len(WholePicture) = Rows
    BY <1>0, <2>1, OneMoreBand
  <2>3. CASE row = Rows - 1
    <3>1. Stream!Show
      BY <1>1, <2>1, <2>2, <2>3 DEF Stream!Show
    <3>q. QED
      BY <3>1 DEF Stream!Next
  <2>4. CASE row # Rows - 1
    BY <1>1, <2>1, <2>4 DEF Stream!vars
  <2>q. QED
    BY <2>3, <2>4
<1>6. CASE Complete
  <2>1. /\ pc = "decode" /\ row = Rows /\ result' = "done" /\ emitted' = emitted
    BY <1>6 DEF Complete
  <2>2. result = "none" /\ EmittedHolds /\ Shown = Rows
    BY <1>0, <2>1 DEF IInv, TypeOK, Shown
  <2>3. emitted = SubSeq(WholePicture, 1, Rows)
    BY <2>2 DEF EmittedHolds
  <2>4. emitted = WholePicture
    BY <1>0, <2>3, PictureWhole
  <2>5. Stream!Finish
    BY <1>1, <2>1, <2>2, <2>4 DEF Stream!Finish
  <2>q. QED
    BY <2>5 DEF Stream!Next
<1>q. QED
  BY <1>2, <1>3, <1>4, <1>5, <1>6 DEF Next

\* The rolling decoder delivers the picture that is decoded and filtered
\* whole: for every size of CTB and every height no line leaves a frame
\* before its last reader, or is shown before its last writer, and no SAO
\* parameter is overwritten before its row is shown.
THEOREM DeliversPicture == Spec => DeliversStream
<1>1. Init => Stream!Init
  BY DEF Init, Stream!Init
<1>2. IInv /\ [Next]_vars => [Stream!Next]_(Stream!vars)
  BY StepStreams
<1>q. QED
  BY <1>1, <1>2, Invariant, PTL DEF Spec, DeliversStream, Stream!Spec
=============================================================================
