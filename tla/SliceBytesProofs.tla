-------------------------- MODULE SliceBytesProofs --------------------------
(***************************************************************************)
(* Proofs about SliceBytes, for every slice, every item around it, every   *)
(* cut of the item into extents, and any sizes of the buffers.  The        *)
(* invariant follows a byte along the chain of readers: what is read ahead *)
(* is the piece of the slice behind what Rbsp has consumed, and what Rbsp  *)
(* has delivered is the piece of the stripped slice that ends where the    *)
(* bytes kept so far end.  The slice's place in the item is the layout's;  *)
(* the reads over the three extents are computed from the fold's           *)
(* definition.                                                             *)
(***************************************************************************)
EXTENDS SliceBytes, SetSums, SequenceTheorems
-----------------------------------------------------------------------------
(* The inductive invariant.                                                *)

\* The members of a set of positions that lie in front of c, and their number.
Below(positions, c) == {i \in 0 .. c - 1 : i \in positions}
CountBelow(positions, c) == Cardinality(Below(positions, c))

\* How many bytes the decoder has been given once c bytes of a slice have been
\* read: those that are not EPBs.
KeptCount(bytes, c) == CountBelow(Nat \ Skipped(bytes), c)

\* Zeroes that end the first c bytes, up to two.
ZeroesAt(bytes, c) ==
    IF c = 0 \/ bytes[c] # 0 THEN 0
    ELSE IF c = 1 \/ bytes[c - 1] # 0 THEN 1
    ELSE 2

\* The item, and where its source has it.
Bytes(before, after) == before \o Nal(Idr, payload) \o after

LaidOut(bytes) ==
    \E cut \in 0 .. Len(bytes), swapped \in BOOLEAN :
        /\ file = Layout(bytes, cut, swapped).file
        /\ extents = Layout(bytes, cut, swapped).extents

Running == pc \in {"skip", "read", "start", "ctu"}

\* Bytes of the slice that have passed Rbsp.
Consumed == Len(payload) - remaining - Len(ahead)

\* Bytes that Rbsp has given on, the skipped ones of the header excepted.
Delivered == taken \o buffer \o filling

TypeOK ==
    /\ payload \in Seq(Nat)
    /\ pc \in {"scan", "skip", "read", "start", "ctu", "returned"}
    /\ resume \in {"scan", "skip", "start", "ctu"}
    /\ position \in Nat /\ nals \in Nat
    /\ dataOffset \in Nat /\ remaining \in Nat /\ toSkip \in Nat
    /\ ahead \in Seq(Nat) /\ filling \in Seq(Nat)
    /\ buffer \in Seq(Nat) /\ taken \in Seq(Nat)
    /\ failed \in BOOLEAN /\ dry \in BOOLEAN
    /\ zeroes \in 0 .. 2
    /\ asked \in Nat
    /\ ctus \in Nat
    /\ result \in {"none", "refused", "error", "done"}

\* What each step of the decode finds in the buffers.
Phases ==
    /\ pc = "scan" => /\ taken = << >> /\ buffer = << >> /\ filling = << >>
                      /\ ahead = << >> /\ zeroes = 0
                      /\ ~dry /\ ~failed
    /\ pc = "skip" => /\ taken = << >> /\ buffer = << >> /\ filling = << >>
                      /\ ~dry /\ ~failed
    /\ pc = "read" => /\ resume # "scan" /\ buffer = << >>
                      /\ Len(filling) <= Wanted
    /\ pc = "read" /\ resume = "skip" => taken = << >> /\ ~dry /\ ~failed
    /\ pc = "read" /\ resume # "skip" => toSkip = 0
    /\ pc \in {"start", "ctu"} => toSkip = 0 /\ filling = << >>

\* The slice that slice() finds is the payload.
Scanned(before, starts) ==
    /\ pc = "scan" /\ found = << >> => position \in starts
    /\ found # << >> =>
           found = <<[offset |-> Len(before) + 3, length |-> Len(payload)]>>

\* What is read ahead is what follows, and the zeroes are those of the slice.
Chained(before) ==
    Running =>
        /\ position + remaining = Len(before) + 3 + Len(payload)
        /\ remaining + Len(ahead) <= Len(payload)
        /\ ahead = SubSeq(payload, Consumed + 1, Consumed + Len(ahead))
        /\ zeroes = ZeroesAt(payload, Consumed)

\* What has been delivered is what the stripped slice has at that place.
Matched ==
    Running /\ ~failed =>
        /\ toSkip <= dataOffset
        /\ dataOffset - toSkip <= KeptCount(payload, Consumed)
        /\ Delivered = SubSeq(Stripped(payload), dataOffset - toSkip + 1,
                              KeptCount(payload, Consumed))
        /\ dry => /\ remaining = 0 /\ ahead = << >>
                  /\ buffer = << >> /\ filling = << >>

\* A failed slice has a coding tree unit to go, and none is accepted.
Unfinished ==
    /\ pc # "returned" => result = "none"
    /\ pc = "read" /\ resume = "ctu" => ctus < MaxCtus
    /\ failed /\ pc = "ctu" => ctus < MaxCtus
    /\ failed => result # "done"

\* What may stand around the slice in the item, and where its NAL units start.
Framed(before, after, starts) ==
    /\ before \in Before /\ after \in After
    /\ starts \in SUBSET (0 .. Len(before))
    /\ Delimits(starts, before)

Holds(before, after, starts) ==
    /\ TypeOK /\ Phases /\ Matched /\ Unfinished /\ SameBytes
    /\ LaidOut(Bytes(before, after))
    /\ Scanned(before, starts)
    /\ Chained(before)

IInv ==
    \E before \in Before, after \in After :
        \E starts \in SUBSET (0 .. Len(before)) :
            Delimits(starts, before) /\ Holds(before, after, starts)

\* The position that the folds over the extents take first.
LastPlace(s) == CHOOSE x \in s : \A y \in s : x >= y

\* One step of the fold of ReadRange.
ReadOn(read, e, count) ==
    IF Len(read.output) = count THEN read
    ELSE IF read.skip >= e.length
    THEN [read EXCEPT !.skip = @ - e.length]
    ELSE LET n == Smaller(count - Len(read.output), e.length - read.skip)
             start == e.offset + read.skip
         IN  [skip |-> 0,
              output |-> read.output \o SubSeq(file, start + 1, start + n)]

NothingRead(from) == [skip |-> from, output |-> << >>]

\* g gives what the fold has read after each set of extents.
IsReading(g, from, count) ==
    g = [s \in SUBSET (DOMAIN extents) |->
            IF s = {} THEN NothingRead(from)
            ELSE ReadOn(g[s \ {LastPlace(s)}], extents[LastPlace(s)], count)]

\* What ReadRange reads, as the recursive function that the fold over the
\* extents is.
LEMMA ReadAsFunction ==
    ASSUME NEW from, NEW count
    PROVE  ReadRange(from, count)
              = (CHOOSE g : IsReading(g, from, count))[DOMAIN extents].output
  BY DEF ReadRange, FoldLeft, MapThenFoldSet, Max, IsReading, ReadOn,
         NothingRead, LastPlace

\* g gives the length of each set of extents.
IsMeasure(g) ==
    g = [s \in SUBSET (DOMAIN extents) |->
            IF s = {} THEN 0 ELSE g[s \ {LastPlace(s)}] + extents[LastPlace(s)].length]

\* The same for ItemLength.
LEMMA LengthAsFunction ==
    ItemLength = (CHOOSE g : IsMeasure(g))[DOMAIN extents]
  BY DEF ItemLength, FoldLeft, MapThenFoldSet, Max, IsMeasure, LastPlace

\* Three extents are taken from the first to the last.
LEMMA LastOfThree ==
    ASSUME NEW s \in SUBSET (1 .. 3)
    PROVE  /\ 3 \in s => LastPlace(s) = 3
           /\ 3 \notin s /\ 2 \in s => LastPlace(s) = 2
           /\ 3 \notin s /\ 2 \notin s /\ 1 \in s => LastPlace(s) = 1
           /\ s # {} => 1 \in s \/ 2 \in s \/ 3 \in s
<1>0. \A x \in s : x = 1 \/ x = 2 \/ x = 3
  OBVIOUS
<1>1. ASSUME NEW x \in s, \A y \in s : x >= y
      PROVE  LastPlace(s) = x
  <2>1. LastPlace(s) \in s /\ \A y \in s : LastPlace(s) >= y
    BY <1>1 DEF LastPlace
  <2>2. LastPlace(s) >= x /\ x >= LastPlace(s)
    BY <2>1, <1>1
  <2>3. /\ LastPlace(s) = 1 \/ LastPlace(s) = 2 \/ LastPlace(s) = 3
        /\ x = 1 \/ x = 2 \/ x = 3
    BY <2>1, <1>1, <1>0, Zenon
  <2>q. QED
    BY ONLY <2>2, <2>3
<1>2. 3 \in s => LastPlace(s) = 3
  BY <1>0, <1>1
<1>3. 3 \notin s /\ 2 \in s => LastPlace(s) = 2
  BY <1>0, <1>1
<1>4. 3 \notin s /\ 2 \notin s /\ 1 \in s => LastPlace(s) = 1
  BY <1>0, <1>1
<1>q. QED
  BY <1>0, <1>2, <1>3, <1>4

\* A read over three extents reads them one after the other.
LEMMA ReadOfThree ==
    ASSUME DOMAIN extents = 1 .. 3, NEW from, NEW count
    PROVE  ReadRange(from, count)
              = ReadOn(ReadOn(ReadOn(NothingRead(from), extents[1], count),
                              extents[2], count),
                       extents[3], count).output
<1> DEFINE Turn(k, s, read) == IF k \in s THEN ReadOn(read, extents[k], count)
                               ELSE read
           G == [s \in SUBSET (1 .. 3) |->
                    Turn(3, s, Turn(2, s, Turn(1, s, NothingRead(from))))]
<1>1. ASSUME NEW s \in SUBSET (1 .. 3)
      PROVE  G[s] = IF s = {} THEN NothingRead(from)
                    ELSE ReadOn(G[s \ {LastPlace(s)}], extents[LastPlace(s)], count)
  <2>1. CASE s = {}
    BY <2>1
  <2>2. CASE 3 \in s
    <3>1. LastPlace(s) = 3
      BY <2>2, LastOfThree
    <3>2. G[s \ {3}] = Turn(2, s, Turn(1, s, NothingRead(from)))
      OBVIOUS
    <3>q. QED
      BY <3>1, <3>2, <2>2, Zenon
  <2>3. CASE 3 \notin s /\ 2 \in s
    <3>1. LastPlace(s) = 2
      BY <2>3, LastOfThree
    <3>2. G[s \ {2}] = Turn(1, s, NothingRead(from))
      BY <2>3
    <3>q. QED
      BY <3>1, <3>2, <2>3, Zenon
  <2>4. CASE 3 \notin s /\ 2 \notin s /\ 1 \in s
    <3>1. LastPlace(s) = 1
      BY <2>4, LastOfThree
    <3>2. G[s \ {1}] = NothingRead(from)
      BY <2>4
    <3>q. QED
      BY <3>1, <3>2, <2>4, Zenon
  <2>q. QED
    BY <2>1, <2>2, <2>3, <2>4, LastOfThree
<1>2. IsReading(G, from, count)
  <2>1. G = [s \in SUBSET (1 .. 3) |-> G[s]]
    OBVIOUS
  <2> HIDE DEF G
  <2>q. QED
    BY <1>1, <2>1 DEF IsReading
<1> HIDE DEF G
<1> DEFINE g == CHOOSE h : IsReading(h, from, count)
<1>3. IsReading(g, from, count)
  BY <1>2
<1> HIDE DEF g
<1>4. \A s \in SUBSET (1 .. 3) :
          g[s] = IF s = {} THEN NothingRead(from)
                 ELSE ReadOn(g[s \ {LastPlace(s)}], extents[LastPlace(s)], count)
  BY <1>3 DEF IsReading
<1>5. g[{}] = NothingRead(from)
  BY <1>4
<1>6. g[{1}] = ReadOn(g[{}], extents[1], count)
  <2>1. LastPlace({1}) = 1 /\ {1} \ {1} = {} /\ {1} \in SUBSET (1 .. 3) /\ {1} # {}
    BY LastOfThree
  <2>q. QED
    BY <2>1, <1>4, Zenon
<1>7. g[{1, 2}] = ReadOn(g[{1}], extents[2], count)
  <2>1. LastPlace({1, 2}) = 2 /\ {1, 2} \ {2} = {1}
        /\ {1, 2} \in SUBSET (1 .. 3) /\ {1, 2} # {}
    BY LastOfThree
  <2>q. QED
    BY <2>1, <1>4, Zenon
<1>8. g[1 .. 3] = ReadOn(g[{1, 2}], extents[3], count)
  <2>1. LastPlace(1 .. 3) = 3 /\ (1 .. 3) \ {3} = {1, 2}
        /\ (1 .. 3) \in SUBSET (1 .. 3) /\ (1 .. 3) # {}
    <3>1. 3 \in 1 .. 3
      OBVIOUS
    <3>2. (1 .. 3) \ {3} = {1, 2}
      OBVIOUS
    <3>q. QED
      BY <3>1, <3>2, LastOfThree
  <2>q. QED
    BY <2>1, <1>4, Zenon
<1>9. ReadRange(from, count) = g[1 .. 3].output
  BY ReadAsFunction DEF g
<1>q. QED
  BY <1>5, <1>6, <1>7, <1>8, <1>9, Zenon

\* The item is as long as its three extents.
LEMMA LengthOfThree ==
    ASSUME DOMAIN extents = 1 .. 3, \A k \in 1 .. 3 : extents[k].length \in Nat
    PROVE  ItemLength = extents[1].length + extents[2].length + extents[3].length
<1> DEFINE Turn(k, s, n) == IF k \in s THEN n + extents[k].length ELSE n
           G == [s \in SUBSET (1 .. 3) |-> Turn(3, s, Turn(2, s, Turn(1, s, 0)))]
<1>1. ASSUME NEW s \in SUBSET (1 .. 3)
      PROVE  G[s] = IF s = {} THEN 0
                    ELSE G[s \ {LastPlace(s)}] + extents[LastPlace(s)].length
  <2>1. CASE s = {}
    BY <2>1
  <2>2. CASE 3 \in s
    <3>1. LastPlace(s) = 3
      BY <2>2, LastOfThree
    <3>2. G[s \ {3}] = Turn(2, s, Turn(1, s, 0))
      OBVIOUS
    <3>q. QED
      BY <3>1, <3>2, <2>2, Zenon
  <2>3. CASE 3 \notin s /\ 2 \in s
    <3>1. LastPlace(s) = 2
      BY <2>3, LastOfThree
    <3>2. G[s \ {2}] = Turn(1, s, 0)
      BY <2>3
    <3>q. QED
      BY <3>1, <3>2, <2>3, Zenon
  <2>4. CASE 3 \notin s /\ 2 \notin s /\ 1 \in s
    <3>1. LastPlace(s) = 1
      BY <2>4, LastOfThree
    <3>2. G[s \ {1}] = 0
      BY <2>4
    <3>q. QED
      BY <3>1, <3>2, <2>4, Zenon
  <2>q. QED
    BY <2>1, <2>2, <2>3, <2>4, LastOfThree
<1>2. IsMeasure(G)
  <2>1. G = [s \in SUBSET (1 .. 3) |-> G[s]]
    OBVIOUS
  <2> HIDE DEF G
  <2>q. QED
    BY <1>1, <2>1 DEF IsMeasure
<1> HIDE DEF G
<1> DEFINE g == CHOOSE h : IsMeasure(h)
<1>3. IsMeasure(g)
  BY <1>2
<1> HIDE DEF g
<1>4. \A s \in SUBSET (1 .. 3) :
          g[s] = IF s = {} THEN 0 ELSE g[s \ {LastPlace(s)}] + extents[LastPlace(s)].length
  BY <1>3 DEF IsMeasure
<1>5. g[{}] = 0
  BY <1>4
<1>6. g[{1}] = g[{}] + extents[1].length
  <2>1. LastPlace({1}) = 1 /\ {1} \ {1} = {} /\ {1} \in SUBSET (1 .. 3) /\ {1} # {}
    BY LastOfThree
  <2>q. QED
    BY <2>1, <1>4, Zenon
<1>7. g[{1, 2}] = g[{1}] + extents[2].length
  <2>1. LastPlace({1, 2}) = 2 /\ {1, 2} \ {2} = {1}
        /\ {1, 2} \in SUBSET (1 .. 3) /\ {1, 2} # {}
    BY LastOfThree
  <2>q. QED
    BY <2>1, <1>4, Zenon
<1>8. g[1 .. 3] = g[{1, 2}] + extents[3].length
  <2>1. LastPlace(1 .. 3) = 3 /\ (1 .. 3) \ {3} = {1, 2}
        /\ (1 .. 3) \in SUBSET (1 .. 3) /\ (1 .. 3) # {}
    <3>1. 3 \in 1 .. 3
      OBVIOUS
    <3>2. (1 .. 3) \ {3} = {1, 2}
      OBVIOUS
    <3>q. QED
      BY <3>1, <3>2, LastOfThree
  <2>q. QED
    BY <2>1, <1>4, Zenon
<1>9. ItemLength = g[1 .. 3]
  BY LengthAsFunction DEF g
<1>q. QED
  BY <1>5, <1>6, <1>7, <1>8, <1>9

-----------------------------------------------------------------------------
\* The bytes of a piece of a sequence.
LEMMA PartProperties ==
    ASSUME NEW S, NEW s \in Seq(S), NEW m \in Nat, NEW n \in Nat,
           m <= n, n <= Len(s)
    PROVE  /\ SubSeq(s, m + 1, n) \in Seq(S)
           /\ Len(SubSeq(s, m + 1, n)) = n - m
           /\ \A i \in 1 .. n - m : SubSeq(s, m + 1, n)[i] = s[m + i]
<1>1. \A i \in m + 1 .. n : s[i] \in S
  BY LenProperties, ElementOfSeq
<1>2. m + 1 \in Int /\ n \in Int
  OBVIOUS
<1>3. /\ SubSeq(s, m + 1, n) \in Seq(S)
      /\ Len(SubSeq(s, m + 1, n)) = IF m + 1 <= n THEN n - (m + 1) + 1 ELSE 0
      /\ \A i \in 1 .. n - (m + 1) + 1 :
             SubSeq(s, m + 1, n)[i] = s[(m + 1) + i - 1]
  BY <1>1, <1>2, SubSeqProperties
<1>4. (IF m + 1 <= n THEN n - (m + 1) + 1 ELSE 0) = n - m
  OBVIOUS
<1>5. ASSUME NEW i \in 1 .. n - m
      PROVE  i \in 1 .. n - (m + 1) + 1 /\ (m + 1) + i - 1 = m + i
  OBVIOUS
<1>q. QED
  BY <1>3, <1>4, <1>5

\* A piece that ends within the first of two joined sequences.
LEMMA PartOfFirst ==
    ASSUME NEW S, NEW s \in Seq(S), NEW t \in Seq(S), NEW m \in Nat, NEW n \in Nat,
           m <= n, n <= Len(s)
    PROVE  SubSeq(s \o t, m + 1, n) = SubSeq(s, m + 1, n)
<1>1. /\ s \o t \in Seq(S)
      /\ Len(s) \in Nat /\ Len(t) \in Nat
      /\ Len(s \o t) = Len(s) + Len(t)
      /\ \A i \in 1 .. Len(s) + Len(t) :
             (s \o t)[i] = IF i <= Len(s) THEN s[i] ELSE t[i - Len(s)]
  BY ConcatProperties, LenProperties
<1>2. n <= Len(s \o t)
  BY <1>1
<1>3. /\ SubSeq(s \o t, m + 1, n) \in Seq(S)
      /\ Len(SubSeq(s \o t, m + 1, n)) = n - m
      /\ \A i \in 1 .. n - m : SubSeq(s \o t, m + 1, n)[i] = (s \o t)[m + i]
  BY <1>1, <1>2, PartProperties
<1>4. /\ SubSeq(s, m + 1, n) \in Seq(S)
      /\ Len(SubSeq(s, m + 1, n)) = n - m
      /\ \A i \in 1 .. n - m : SubSeq(s, m + 1, n)[i] = s[m + i]
  BY PartProperties
<1>5. ASSUME NEW i \in 1 .. n - m
      PROVE  (s \o t)[m + i] = s[m + i]
  BY <1>1
<1>q. QED
  BY <1>3, <1>4, <1>5, SeqEqual

\* A piece that begins within the second of two joined sequences.
LEMMA PartOfSecond ==
    ASSUME NEW S, NEW s \in Seq(S), NEW t \in Seq(S), NEW m \in Nat, NEW n \in Nat,
           m <= n, n <= Len(t)
    PROVE  SubSeq(s \o t, Len(s) + m + 1, Len(s) + n) = SubSeq(t, m + 1, n)
<1>1. /\ s \o t \in Seq(S)
      /\ Len(s) \in Nat /\ Len(t) \in Nat
      /\ Len(s \o t) = Len(s) + Len(t)
      /\ \A i \in 1 .. Len(s) + Len(t) :
             (s \o t)[i] = IF i <= Len(s) THEN s[i] ELSE t[i - Len(s)]
  BY ConcatProperties, LenProperties
<1> DEFINE a == Len(s) + m
           b == Len(s) + n
<1>2. a \in Nat /\ b \in Nat /\ a <= b /\ b <= Len(s \o t) /\ b - a = n - m
  BY <1>1
<1>3. /\ SubSeq(s \o t, a + 1, b) \in Seq(S)
      /\ Len(SubSeq(s \o t, a + 1, b)) = b - a
      /\ \A i \in 1 .. b - a : SubSeq(s \o t, a + 1, b)[i] = (s \o t)[a + i]
  <2> HIDE DEF a, b
  <2>q. QED
    BY <1>1, <1>2, PartProperties
<1>4. /\ SubSeq(t, m + 1, n) \in Seq(S)
      /\ Len(SubSeq(t, m + 1, n)) = n - m
      /\ \A i \in 1 .. n - m : SubSeq(t, m + 1, n)[i] = t[m + i]
  BY PartProperties
<1>5. ASSUME NEW i \in 1 .. n - m
      PROVE  (s \o t)[a + i] = t[m + i]
  BY <1>1
<1>6. SubSeq(s \o t, a + 1, b) = SubSeq(t, m + 1, n)
  <2> HIDE DEF a, b
  <2> DEFINE u == SubSeq(s \o t, a + 1, b)
             v == SubSeq(t, m + 1, n)
  <2>2. /\ u \in Seq(S) /\ v \in Seq(S)
        /\ Len(u) = n - m /\ Len(v) = n - m
        /\ \A i \in 1 .. n - m : u[i] = v[i]
    BY <1>2, <1>3, <1>4, <1>5
  <2> HIDE DEF u, v
  <2>3. u = v
    BY <2>2, SeqEqual
  <2>q. QED
    BY <2>3 DEF u, v
<1>q. QED
  BY <1>6

\* A piece of a piece.
LEMMA PartOfPart ==
    ASSUME NEW S, NEW s \in Seq(S), NEW i \in Nat, NEW j \in Nat,
           i <= j, j <= Len(s),
           NEW m \in Nat, NEW n \in Nat, m <= n, n <= j - i
    PROVE  SubSeq(SubSeq(s, i + 1, j), m + 1, n) = SubSeq(s, i + m + 1, i + n)
<1> DEFINE t == SubSeq(s, i + 1, j)
           a == i + m
           b == i + n
<1>1. /\ t \in Seq(S)
      /\ Len(t) = j - i
      /\ \A k \in 1 .. j - i : t[k] = s[i + k]
  BY PartProperties
<1>2. a \in Nat /\ b \in Nat /\ a <= b /\ b <= Len(s) /\ b - a = n - m
  BY LenProperties
<1> HIDE DEF t
<1>3. /\ SubSeq(t, m + 1, n) \in Seq(S)
      /\ Len(SubSeq(t, m + 1, n)) = n - m
      /\ \A k \in 1 .. n - m : SubSeq(t, m + 1, n)[k] = t[m + k]
  BY <1>1, PartProperties
<1>4. /\ SubSeq(s, a + 1, b) \in Seq(S)
      /\ Len(SubSeq(s, a + 1, b)) = b - a
      /\ \A k \in 1 .. b - a : SubSeq(s, a + 1, b)[k] = s[a + k]
  <2> HIDE DEF a, b
  <2>q. QED
    BY SMTT(30), <1>2, PartProperties
<1>5. ASSUME NEW k \in 1 .. n - m
      PROVE  t[m + k] = s[a + k]
  <2>1. m + k \in 1 .. j - i /\ i + (m + k) = a + k
    OBVIOUS
  <2>q. QED
    BY <1>1, <2>1
<1>6. SubSeq(t, m + 1, n) = SubSeq(s, a + 1, b)
  <2> HIDE DEF a, b
  <2> DEFINE u == SubSeq(t, m + 1, n)
             v == SubSeq(s, a + 1, b)
  <2>1. /\ u \in Seq(S) /\ v \in Seq(S)
        /\ Len(u) = n - m /\ Len(v) = n - m
        /\ \A k \in 1 .. n - m : u[k] = v[k]
    BY <1>2, <1>3, <1>4, <1>5
  <2> HIDE DEF u, v
  <2>2. u = v
    BY <2>1, SeqEqual
  <2>q. QED
    BY <2>2 DEF u, v
<1>q. QED
  BY <1>6 DEF t

\* What the three extents of the layout hold.
LEMMA LayoutHolds ==
    ASSUME NEW bytes \in Seq(Nat), NEW cut \in 0 .. Len(bytes),
           NEW swapped \in BOOLEAN,
           file = Layout(bytes, cut, swapped).file,
           extents = Layout(bytes, cut, swapped).extents
    PROVE  /\ DOMAIN extents = 1 .. 3
           /\ extents[1].length = cut
           /\ extents[2].length = 0
           /\ extents[3].length = Len(bytes) - cut
           /\ \A m, n \in Nat : m <= n /\ n <= cut =>
                  SubSeq(file, extents[1].offset + m + 1, extents[1].offset + n)
                      = SubSeq(bytes, m + 1, n)
           /\ \A m, n \in Nat : m <= n /\ n <= Len(bytes) - cut =>
                  SubSeq(file, extents[3].offset + m + 1, extents[3].offset + n)
                      = SubSeq(bytes, cut + m + 1, cut + n)
           /\ extents[1].offset \in Nat /\ extents[3].offset \in Nat
<1> DEFINE head == SubSeq(bytes, 1, cut)
           tail == SubSeq(bytes, cut + 1, Len(bytes))
<1>1. cut \in Nat /\ Len(bytes) \in Nat /\ cut <= Len(bytes)
  BY LenProperties
<1>2. head \in Seq(Nat) /\ Len(head) = cut
  <2>1. /\ SubSeq(bytes, 0 + 1, cut) \in Seq(Nat)
        /\ Len(SubSeq(bytes, 0 + 1, cut)) = cut - 0
    BY <1>1, PartProperties
  <2>q. QED
    BY <2>1, <1>1
<1>3. tail \in Seq(Nat) /\ Len(tail) = Len(bytes) - cut
  BY <1>1, PartProperties
<1>4. ASSUME NEW m \in Nat, NEW n \in Nat, m <= n, n <= cut
      PROVE  SubSeq(head, m + 1, n) = SubSeq(bytes, m + 1, n)
  <2>1. SubSeq(SubSeq(bytes, 0 + 1, cut), m + 1, n)
           = SubSeq(bytes, 0 + m + 1, 0 + n)
    BY <1>1, <1>4, PartOfPart
  <2>2. 0 + 1 = 1 /\ 0 + m + 1 = m + 1 /\ 0 + n = n
    OBVIOUS
  <2>q. QED
    BY <2>1, <2>2
<1>5. ASSUME NEW m \in Nat, NEW n \in Nat, m <= n, n <= Len(bytes) - cut
      PROVE  SubSeq(tail, m + 1, n) = SubSeq(bytes, cut + m + 1, cut + n)
  BY <1>1, <1>5, PartOfPart
<1> HIDE DEF head, tail
<1>6. CASE swapped
  <2>1. /\ file = tail \o head
        /\ extents = <<[offset |-> Len(tail), length |-> cut],
                       [offset |-> 0, length |-> 0],
                       [offset |-> 0, length |-> Len(tail)]>>
    BY <1>6, Zenon DEF Layout, head, tail
  <2>2. /\ DOMAIN extents = 1 .. 3
        /\ extents[1].length = cut /\ extents[1].offset = Len(tail)
        /\ extents[2].length = 0
        /\ extents[3].length = Len(tail) /\ extents[3].offset = 0
    BY <2>1
  <2>3. ASSUME NEW m \in Nat, NEW n \in Nat, m <= n, n <= cut
        PROVE  SubSeq(file, Len(tail) + m + 1, Len(tail) + n)
                  = SubSeq(bytes, m + 1, n)
    <3>1. SubSeq(tail \o head, Len(tail) + m + 1, Len(tail) + n)
             = SubSeq(head, m + 1, n)
      BY <2>3, <1>2, <1>3, PartOfSecond
    <3>q. QED
      BY <3>1, <2>1, <2>3, <1>4
  <2>4. ASSUME NEW m \in Nat, NEW n \in Nat, m <= n, n <= Len(bytes) - cut
        PROVE  SubSeq(file, 0 + m + 1, 0 + n)
                  = SubSeq(bytes, cut + m + 1, cut + n)
    <3>1. SubSeq(file, m + 1, n) = SubSeq(tail, m + 1, n)
      BY <2>1, <2>4, <1>2, <1>3, PartOfFirst
    <3>2. 0 + m + 1 = m + 1 /\ 0 + n = n
      OBVIOUS
    <3>q. QED
      BY <3>1, <3>2, <2>4, <1>5
  <2>5. Len(tail) \in Nat /\ 0 \in Nat
    BY <1>1, <1>3
  <2>6. \A m, n \in Nat : m <= n /\ n <= cut =>
            SubSeq(file, extents[1].offset + m + 1, extents[1].offset + n)
                = SubSeq(bytes, m + 1, n)
    BY <2>2, <2>3, Zenon
  <2>7. \A m, n \in Nat : m <= n /\ n <= Len(bytes) - cut =>
            SubSeq(file, extents[3].offset + m + 1, extents[3].offset + n)
                = SubSeq(bytes, cut + m + 1, cut + n)
    BY <2>2, <2>4, Zenon
  <2>q. QED
    BY <2>2, <2>5, <2>6, <2>7, <1>3, Zenon
<1>7. CASE ~swapped
  <2>1. /\ file = bytes
        /\ extents = <<[offset |-> 0, length |-> cut],
                       [offset |-> 0, length |-> 0],
                       [offset |-> cut, length |-> Len(tail)]>>
    BY <1>7, Zenon DEF Layout, head, tail
  <2>2. /\ DOMAIN extents = 1 .. 3
        /\ extents[1].length = cut /\ extents[1].offset = 0
        /\ extents[2].length = 0
        /\ extents[3].length = Len(tail) /\ extents[3].offset = cut
    BY <2>1
  <2>3. ASSUME NEW m \in Nat, NEW n \in Nat
        PROVE  0 + m + 1 = m + 1 /\ 0 + n = n
    OBVIOUS
  <2>4. 0 \in Nat
    OBVIOUS
  <2>q. QED
    BY <2>1, <2>2, <2>3, <2>4, <1>1, <1>3, Zenon
<1>q. QED
  BY <1>6, <1>7

\* A read across extents that lie anywhere in the file gives the bytes of the
\* item.
LEMMA ReadsItem ==
    ASSUME NEW bytes \in Seq(Nat), NEW cut \in 0 .. Len(bytes),
           NEW swapped \in BOOLEAN,
           file = Layout(bytes, cut, swapped).file,
           extents = Layout(bytes, cut, swapped).extents
    PROVE  /\ ItemLength = Len(bytes)
           /\ \A from, count \in Nat : from + count <= Len(bytes) =>
                  ReadRange(from, count) = SubSeq(bytes, from + 1, from + count)
<1>0. /\ DOMAIN extents = 1 .. 3
      /\ extents[1].length = cut
      /\ extents[2].length = 0
      /\ extents[3].length = Len(bytes) - cut
      /\ \A m, n \in Nat : m <= n /\ n <= cut =>
             SubSeq(file, extents[1].offset + m + 1, extents[1].offset + n)
                 = SubSeq(bytes, m + 1, n)
      /\ \A m, n \in Nat : m <= n /\ n <= Len(bytes) - cut =>
             SubSeq(file, extents[3].offset + m + 1, extents[3].offset + n)
                 = SubSeq(bytes, cut + m + 1, cut + n)
      /\ extents[1].offset \in Nat /\ extents[3].offset \in Nat
  BY LayoutHolds
<1>1. cut \in Nat /\ Len(bytes) \in Nat /\ cut <= Len(bytes)
  BY LenProperties
<1>2. ItemLength = Len(bytes)
  <2>1. ItemLength = extents[1].length + extents[2].length + extents[3].length
    <3>1. \A k \in 1 .. 3 : extents[k].length \in Nat
      <4>1. \A k \in 1 .. 3 : k = 1 \/ k = 2 \/ k = 3
        OBVIOUS
      <4>2. /\ extents[1].length \in Nat
            /\ extents[2].length \in Nat
            /\ extents[3].length \in Nat
        <5>1. Len(bytes) - cut \in Nat /\ 0 \in Nat
          BY <1>1
        <5>q. QED
          BY <5>1, <1>0, <1>1
      <4>q. QED
        BY <4>1, <4>2, Zenon
    <3>q. QED
      BY <3>1, <1>0, LengthOfThree
  <2>q. QED
    BY <2>1, <1>0, <1>1
<1>3. ASSUME NEW from \in Nat, NEW count \in Nat, from + count <= Len(bytes)
      PROVE  ReadRange(from, count) = SubSeq(bytes, from + 1, from + count)
  <2> DEFINE r1 == ReadOn(NothingRead(from), extents[1], count)
             r2 == ReadOn(r1, extents[2], count)
             r3 == ReadOn(r2, extents[3], count)
  <2>1. ReadRange(from, count) = r3.output
    BY <1>0, ReadOfThree
  <2>2. SubSeq(bytes, from + 1, from + count) \in Seq(Nat)
        /\ Len(SubSeq(bytes, from + 1, from + count)) = count
    <3>1. from + count \in Nat /\ from <= from + count /\ from + count - from = count
      OBVIOUS
    <3>q. QED
      BY <3>1, <1>1, <1>3, PartProperties
  <2>3. CASE count = 0
    <3>1. r3.output = << >>
      BY <2>3 DEF ReadOn, NothingRead
    <3>2. SubSeq(bytes, from + 1, from + count) = << >>
      BY SMTT(30), <2>2, <2>3, EmptySeq
    <3>q. QED
      BY <2>1, <3>1, <3>2
  <2>4. CASE count # 0 /\ from >= cut
    <3>1. r1 = NothingRead(from - cut)
      BY <2>4, <1>0 DEF ReadOn, NothingRead
    <3>2. r2 = NothingRead(from - cut)
      <4>1. from - cut >= 0 /\ (from - cut) - 0 = from - cut
        BY <2>4, <1>1
      <4> HIDE DEF r1
      <4>q. QED
        BY <3>1, <4>1, <2>4, <1>0 DEF ReadOn, NothingRead
    <3> DEFINE start == extents[3].offset + (from - cut)
    <3>3. r3.output = << >> \o SubSeq(file, start + 1, start + count)
      <4>1. ~((from - cut) >= (Len(bytes) - cut))
            /\ Smaller(count - 0, (Len(bytes) - cut) - (from - cut)) = count
        BY <2>4, <1>1, <1>3 DEF Smaller
      <4>2. count # 0
        BY <2>4
      <4> HIDE DEF r2
      <4>q. QED
        BY <3>2, <4>1, <4>2, <1>0 DEF ReadOn, NothingRead
    <3>4. SubSeq(file, start + 1, start + count)
             = SubSeq(bytes, from + 1, from + count)
      <4> DEFINE m == from - cut
                 n == (from - cut) + count
      <4>1. m \in Nat /\ n \in Nat /\ m <= n /\ n <= Len(bytes) - cut
        BY <2>4, <1>1, <1>3
      <4>2. SubSeq(file, extents[3].offset + m + 1, extents[3].offset + n)
               = SubSeq(bytes, cut + m + 1, cut + n)
        <5> HIDE DEF m, n
        <5>q. QED
          BY <4>1, <1>0
      <4>3. /\ extents[3].offset + m + 1 = start + 1
            /\ extents[3].offset + n = start + count
            /\ cut + m + 1 = from + 1
            /\ cut + n = from + count
        BY SMTT(30), <1>0, <1>1, <2>4
      <4>q. QED
        BY <4>2, <4>3, Zenon
    <3>q. QED
      BY <2>1, <2>2, <3>3, <3>4, ConcatEmptySeq
  <2>5. CASE count # 0 /\ from < cut /\ from + count <= cut
    <3> DEFINE start == extents[1].offset + from
    <3>1. r1 = [skip |-> 0,
                output |-> << >> \o SubSeq(file, start + 1, start + count)]
      <4>1. ~(from >= cut) /\ Smaller(count - 0, cut - from) = count
        BY <2>5, <1>1 DEF Smaller
      <4>q. QED
        BY <4>1, <2>5, <1>0 DEF ReadOn, NothingRead
    <3>2. SubSeq(file, start + 1, start + count)
             = SubSeq(bytes, from + 1, from + count)
      <4> DEFINE n == from + count
      <4>1. n \in Nat /\ from <= n /\ n <= cut
        BY <2>5
      <4>2. SubSeq(file, extents[1].offset + from + 1, extents[1].offset + n)
               = SubSeq(bytes, from + 1, n)
        <5> HIDE DEF n
        <5>q. QED
          BY <4>1, <1>0
      <4>3. extents[1].offset + n = start + count
        BY SMTT(30), <1>0
      <4>q. QED
        BY <4>2, <4>3, Zenon
    <3> DEFINE out == SubSeq(bytes, from + 1, from + count)
    <3>3. r1 = [skip |-> 0, output |-> out] /\ Len(out) = count
      BY <3>1, <3>2, <2>2, ConcatEmptySeq
    <3> HIDE DEF r1, out
    <3>4. r2 = [skip |-> 0, output |-> out]
      BY <3>3 DEF ReadOn
    <3> HIDE DEF r2
    <3>5. r3 = [skip |-> 0, output |-> out]
      BY <3>3, <3>4 DEF ReadOn
    <3>q. QED
      BY <3>5, <2>1 DEF out
  <2>6. CASE count # 0 /\ from < cut /\ from + count > cut
    <3> DEFINE start == extents[1].offset + from
               here == cut - from
               left == count - here
               first == SubSeq(bytes, from + 1, cut)
               rest == SubSeq(bytes, cut + 1, from + count)
    <3>0. here \in Nat /\ left \in Nat /\ here < count /\ here + left = count
          /\ left # 0 /\ left <= Len(bytes) - cut /\ cut + left = from + count
      BY <2>6, <1>1, <1>3
    <3>1. r1 = [skip |-> 0,
                output |-> << >> \o SubSeq(file, start + 1, start + here)]
      <4>1. ~(from >= cut) /\ Smaller(count - 0, cut - from) = here
        BY <2>6, <1>1 DEF Smaller
      <4>q. QED
        BY <4>1, <2>6, <1>0 DEF ReadOn, NothingRead
    <3>2. SubSeq(file, start + 1, start + here) = first
      <4>1. SubSeq(file, extents[1].offset + from + 1, extents[1].offset + cut)
               = SubSeq(bytes, from + 1, cut)
        <5>1. from <= cut /\ cut <= cut
          BY <1>1, <2>6
        <5>q. QED
          BY ZenonT(60), <5>1, <1>0, <1>1
      <4>2. extents[1].offset + cut = start + here
        BY SMTT(30), <1>0, <1>1
      <4>q. QED
        BY <4>1, <4>2, Zenon
    <3>3. first \in Seq(Nat) /\ Len(first) = here
      BY <1>1, <2>6, PartProperties
    <3>4. r1 = [skip |-> 0, output |-> first]
      BY <3>1, <3>2, <3>3, ConcatEmptySeq
    <3> HIDE DEF r1, first, here, left
    <3>5. r2 = [skip |-> 0, output |-> first]
      BY SMTT(30), <3>0, <3>3, <3>4, <1>0 DEF ReadOn
    <3> DEFINE o == extents[3].offset
    <3>6. r3.output = first \o SubSeq(file, o + 1, o + left)
      <4>1. ~(0 >= Len(bytes) - cut) /\ Len(first) # count
            /\ Smaller(count - Len(first), (Len(bytes) - cut) - 0) = left
            /\ o + 0 = o
        <5>1. o \in Nat
          BY <1>0
        <5> HIDE DEF o
        <5>q. QED
          BY <5>1, <3>0, <3>3, <1>1 DEF Smaller
      <4> HIDE DEF r2
      <4>q. QED
        BY <3>5, <4>1, <1>0 DEF ReadOn
    <3>7. SubSeq(file, o + 1, o + left) = rest
      <4>1. SubSeq(file, o + 0 + 1, o + left)
               = SubSeq(bytes, cut + 0 + 1, cut + left)
        <5>1. 0 \in Nat /\ 0 <= left
          BY <3>0
        <5>q. QED
          BY <5>1, <3>0, <1>0, Zenon
      <4>2. o + 0 + 1 = o + 1 /\ cut + 0 + 1 = cut + 1
        BY <1>0, <1>1
      <4>q. QED
        BY <4>1, <4>2, <3>0, Zenon
    <3>8. first \o rest = SubSeq(bytes, from + 1, from + count)
      <4>1. /\ from + 1 \in 1 .. Len(bytes) + 1
            /\ cut \in (from + 1) - 1 .. Len(bytes)
            /\ from + count \in cut .. Len(bytes)
        BY <1>1, <1>3, <2>6
      <4>q. QED
        BY <4>1, ConcatAdjacentSubSeq DEF first
    <3>q. QED
      BY <2>1, <3>6, <3>7, <3>8, Zenon
  <2>q. QED
    BY <2>3, <2>4, <2>5, <2>6, <1>1
<1>q. QED
  BY <1>2, <1>3
-----------------------------------------------------------------------------
(* Positions in order, and emulation prevention bytes.                     *)

\* Positions in front of one are finitely many.
LEMMA CountFinite ==
    ASSUME NEW S, NEW c \in Nat
    PROVE  IsFiniteSet(Below(S, c)) /\ CountBelow(S, c) \in Nat
<1>1. IsFiniteSet(0 .. c - 1)
  BY FS_Interval
<1>2. Below(S, c) \in SUBSET (0 .. c - 1)
  BY DEF Below
<1>q. QED
  BY <1>1, <1>2, FS_Subset, FS_CardinalityType DEF CountBelow

\* None lies in front of the first.
LEMMA CountStart ==
    ASSUME NEW S
    PROVE  CountBelow(S, 0) = 0
<1>1. Below(S, 0) = {}
  BY DEF Below
<1>q. QED
  BY <1>1, FS_EmptySet DEF CountBelow

\* One position further, the count takes in that position.
LEMMA CountNext ==
    ASSUME NEW S, NEW c \in Nat
    PROVE  CountBelow(S, c + 1) = IF c \in S THEN CountBelow(S, c) + 1
                                  ELSE CountBelow(S, c)
<1>1. CASE c \notin S
  <2>1. Below(S, c + 1) = Below(S, c)
    BY <1>1 DEF Below
  <2>q. QED
    BY <1>1, <2>1 DEF CountBelow
<1>2. CASE c \in S
  <2>1. Below(S, c + 1) = Below(S, c) \cup {c} /\ c \notin Below(S, c)
    BY <1>2 DEF Below
  <2>2. IsFiniteSet(Below(S, c))
    BY CountFinite
  <2>q. QED
    BY <1>2, <2>1, <2>2, FS_AddElement DEF CountBelow
<1>q. QED
  BY <1>1, <1>2

\* The count never falls.
LEMMA CountGrows ==
    ASSUME NEW S, NEW b \in Nat, NEW c \in Nat, b <= c
    PROVE  CountBelow(S, b) <= CountBelow(S, c)
<1>1. Below(S, b) \in SUBSET Below(S, c)
  BY DEF Below
<1>q. QED
  BY <1>1, CountFinite, FS_Subset DEF CountBelow

\* It grows behind a member.
LEMMA CountGrowsAfter ==
    ASSUME NEW S, NEW b \in Nat, NEW c \in Nat, b < c, b \in S
    PROVE  CountBelow(S, b) < CountBelow(S, c)
<1>1. CountBelow(S, b + 1) = CountBelow(S, b) + 1
  BY CountNext
<1>2. b + 1 \in Nat /\ b + 1 <= c
  OBVIOUS
<1>3. CountBelow(S, b + 1) <= CountBelow(S, c)
  BY <1>2, CountGrows
<1>4. /\ CountBelow(S, b) \in Nat
      /\ CountBelow(S, b + 1) \in Nat
      /\ CountBelow(S, c) \in Nat
  BY <1>2, CountFinite
<1>q. QED
  BY <1>1, <1>3, <1>4

\* Every number up to that of the members is reached, and first behind a
\* member.
LEMMA CountReaches ==
    ASSUME NEW S, NEW n \in Nat, NEW k \in Nat \ {0}, k <= CountBelow(S, n)
    PROVE  \E i \in 0 .. n - 1 : i \in S /\ CountBelow(S, i) = k - 1
<1> DEFINE R == {c \in Nat : k <= CountBelow(S, c)}
           c == Min(R)
<1>1. R \in SUBSET Nat /\ n \in R
  OBVIOUS
<1>2. c \in R /\ \A d \in R : c <= d
  <2> HIDE DEF R
  <2>q. QED
    BY <1>1, LeastOfNaturals
<1> HIDE DEF c
<1>3. c \in Nat /\ k <= CountBelow(S, c) /\ c <= n
  BY <1>1, <1>2
<1>4. c # 0
  BY <1>3, CountStart
<1> DEFINE i == c - 1
<1>5. i \in Nat /\ i + 1 = c /\ i \in 0 .. n - 1 /\ i < c
  BY <1>3, <1>4
<1> HIDE DEF i
<1>6. ~(k <= CountBelow(S, i))
  <2>1. i \notin R
    BY <1>2, <1>3, <1>5
  <2>q. QED
    BY <2>1, <1>5
<1>7. CountBelow(S, c) = IF i \in S THEN CountBelow(S, i) + 1 ELSE CountBelow(S, i)
  BY <1>5, CountNext
<1>8. i \in S /\ CountBelow(S, i) = k - 1
  BY <1>3, <1>5, <1>6, <1>7, CountFinite
<1>q. QED
  BY <1>5, <1>8

\* The members of a set of positions below n, in order: each stands behind
\* those that are less.
LEMMA SortedProperties ==
    ASSUME NEW n \in Nat, NEW S \in SUBSET (0 .. n - 1)
    PROVE  /\ CountBelow(S, n) \in Nat
           /\ Sorted(S) \in [1 .. CountBelow(S, n) -> S]
           /\ \A k \in 1 .. CountBelow(S, n) : CountBelow(S, Sorted(S)[k]) = k - 1
           /\ \A i \in S : /\ CountBelow(S, i) + 1 \in 1 .. CountBelow(S, n)
                           /\ Sorted(S)[CountBelow(S, i) + 1] = i
<1> DEFINE Before_(i) == Cardinality({j \in S : j < i})
           At(k) == CHOOSE i \in S : Before_(i) = k - 1
<1>1. Sorted(S) = [k \in 1 .. Cardinality(S) |-> At(k)]
  BY DEF Sorted
<1>2. Cardinality(S) = CountBelow(S, n)
  <2>1. Below(S, n) = S
    BY DEF Below
  <2>q. QED
    BY <2>1 DEF CountBelow
<1>3. ASSUME NEW i \in S
      PROVE  i \in Nat /\ i < n /\ Before_(i) = CountBelow(S, i)
  <2>1. i \in Nat /\ i < n
    OBVIOUS
  <2>2. {j \in S : j < i} = Below(S, i)
    <3>1. \A j \in S : j \in Int /\ 0 <= j
      OBVIOUS
    <3>2. \A j \in S : j < i <=> j \in 0 .. i - 1
      BY <2>1, <3>1
    <3>q. QED
      BY <3>2, Zenon DEF Below
  <2>q. QED
    BY <2>1, <2>2 DEF CountBelow
<1> HIDE DEF Before_
<1>4. CountBelow(S, n) \in Nat
  BY CountFinite
<1>5. ASSUME NEW k \in 1 .. CountBelow(S, n)
      PROVE  At(k) \in S /\ CountBelow(S, At(k)) = k - 1
  <2>1. PICK i \in 0 .. n - 1 : i \in S /\ CountBelow(S, i) = k - 1
    <3>1. k \in Nat \ {0} /\ k <= CountBelow(S, n)
      BY <1>4
    <3>q. QED
      BY <3>1, CountReaches
  <2>2. i \in S /\ Before_(i) = k - 1
    BY <2>1, <1>3
  <2>3. At(k) \in S /\ Before_(At(k)) = k - 1
    BY <2>2
  <2> HIDE DEF At
  <2>q. QED
    BY <2>3, <1>3
<1> HIDE DEF At
<1>6. ASSUME NEW i \in S
      PROVE  /\ CountBelow(S, i) + 1 \in 1 .. CountBelow(S, n)
             /\ At(CountBelow(S, i) + 1) = i
  <2>1. i \in Nat /\ i < n
    BY <1>3
  <2>2. CountBelow(S, i) \in Nat /\ CountBelow(S, i) < CountBelow(S, n)
    BY <2>1, CountFinite, CountGrowsAfter
  <2> DEFINE k == CountBelow(S, i) + 1
  <2>3. k \in 1 .. CountBelow(S, n) /\ k - 1 = CountBelow(S, i)
    BY <2>2, <1>4
  <2> HIDE DEF k
  <2>4. At(k) \in Nat /\ At(k) \in S /\ CountBelow(S, At(k)) = CountBelow(S, i)
    BY <2>3, <1>3, <1>5
  <2>5. At(k) = i
    <3>1. CASE At(k) < i
      <4>1. CountBelow(S, At(k)) < CountBelow(S, i)
        BY <3>1, <2>1, <2>4, CountGrowsAfter
      <4>q. QED
        BY <4>1, <2>2, <2>4
    <3>2. CASE i < At(k)
      <4>1. CountBelow(S, i) < CountBelow(S, At(k))
        BY <3>2, <2>1, <2>4, CountGrowsAfter
      <4>q. QED
        BY <4>1, <2>2, <2>4
    <3>q. QED
      BY <3>1, <3>2, <2>1, <2>4
  <2>q. QED
    BY <2>3, <2>5 DEF k
<1>7. Sorted(S) \in [1 .. CountBelow(S, n) -> S]
  BY <1>1, <1>2, <1>5
<1>8. \A k \in 1 .. CountBelow(S, n) : Sorted(S)[k] = At(k)
  BY <1>1, <1>2
<1>q. QED
  BY <1>4, <1>5, <1>6, <1>7, <1>8

\* The same facts for the kept bytes.
LEMMA KeptFinite ==
    ASSUME NEW bytes, NEW c \in Nat
    PROVE  KeptCount(bytes, c) \in Nat
  BY CountFinite DEF KeptCount

\* None is kept in front of the first byte.
LEMMA KeptStart ==
    ASSUME NEW bytes
    PROVE  KeptCount(bytes, 0) = 0
  BY CountStart DEF KeptCount

\* A byte is kept unless it is an EPB.
LEMMA KeptNext ==
    ASSUME NEW bytes, NEW c \in Nat
    PROVE  KeptCount(bytes, c + 1)
              = IF c \in Skipped(bytes) THEN KeptCount(bytes, c)
                ELSE KeptCount(bytes, c) + 1
<1> DEFINE S == Nat \ Skipped(bytes)
<1>1. c \in S <=> c \notin Skipped(bytes)
  OBVIOUS
<1> HIDE DEF S
<1>2. CountBelow(S, c + 1) = IF c \in S THEN CountBelow(S, c) + 1
                             ELSE CountBelow(S, c)
  BY CountNext
<1>q. QED
  BY <1>1, <1>2 DEF KeptCount, S

\* The number of kept bytes never falls.
LEMMA KeptGrows ==
    ASSUME NEW bytes, NEW b \in Nat, NEW c \in Nat, b <= c
    PROVE  KeptCount(bytes, b) <= KeptCount(bytes, c)
  BY CountGrows DEF KeptCount

\* The stripped bytes: byte i of the slice, when it is kept, stands behind
\* those that were kept in front of it.
LEMMA StrippedProperties ==
    ASSUME NEW bytes \in Seq(Nat)
    PROVE  /\ Stripped(bytes) \in Seq(Nat)
           /\ Len(Stripped(bytes)) = KeptCount(bytes, Len(bytes))
           /\ \A i \in 0 .. Len(bytes) - 1 : i \notin Skipped(bytes) =>
                  /\ KeptCount(bytes, i) + 1 \in 1 .. KeptCount(bytes, Len(bytes))
                  /\ Stripped(bytes)[KeptCount(bytes, i) + 1] = bytes[i + 1]
<1> DEFINE n == Len(bytes)
           S == {i \in 0 .. n - 1 : i \notin Skipped(bytes)}
           kept == Sorted(S)
<1>1. n \in Nat /\ \A i \in 0 .. n - 1 : bytes[i + 1] \in Nat
  <2>1. n \in Nat
    BY LenProperties
  <2>2. ASSUME NEW i \in 0 .. n - 1 PROVE bytes[i + 1] \in Nat
    <3>1. i + 1 \in 1 .. Len(bytes)
      BY <2>1
    <3>q. QED
      BY <3>1, ElementOfSeq
  <2>q. QED
    BY <2>1, <2>2
<1>2. ASSUME NEW c \in Nat, c <= n
      PROVE  CountBelow(S, c) = KeptCount(bytes, c)
  <2>1. Below(S, c) = Below(Nat \ Skipped(bytes), c)
    BY <1>1, <1>2 DEF Below
  <2>q. QED
    BY <2>1 DEF CountBelow, KeptCount
<1>3. S \in SUBSET (0 .. n - 1)
  OBVIOUS
<1>4. \A i \in 0 .. n - 1 : i \notin Skipped(bytes) => i \in S
  OBVIOUS
<1>5. Stripped(bytes) = [k \in DOMAIN kept |-> bytes[kept[k] + 1]]
  BY DEF Stripped
<1> HIDE DEF S, n
<1>6. /\ CountBelow(S, n) \in Nat
      /\ kept \in [1 .. CountBelow(S, n) -> S]
      /\ \A i \in S : /\ CountBelow(S, i) + 1 \in 1 .. CountBelow(S, n)
                      /\ kept[CountBelow(S, i) + 1] = i
  BY <1>1, <1>3, SortedProperties
<1> HIDE DEF kept
<1>7. CountBelow(S, n) = KeptCount(bytes, n)
  BY <1>1, <1>2
<1>8. /\ Stripped(bytes) \in Seq(Nat)
      /\ Len(Stripped(bytes)) = KeptCount(bytes, n)
  <2>1. \A k \in 1 .. CountBelow(S, n) : bytes[kept[k] + 1] \in Nat
    BY <1>1, <1>3, <1>6
  <2>2. Stripped(bytes) \in [1 .. KeptCount(bytes, n) -> Nat]
    BY <1>5, <1>6, <1>7, <2>1
  <2>3. KeptCount(bytes, n) \in Nat
    BY <1>6, <1>7
  <2>q. QED
    BY ONLY <2>2, <2>3
<1>9. ASSUME NEW i \in 0 .. n - 1, i \notin Skipped(bytes)
      PROVE  /\ KeptCount(bytes, i) + 1 \in 1 .. KeptCount(bytes, n)
             /\ Stripped(bytes)[KeptCount(bytes, i) + 1] = bytes[i + 1]
  <2>1. i \in S /\ i \in Nat /\ i <= n
    BY <1>1, <1>4, <1>9
  <2>2. CountBelow(S, i) = KeptCount(bytes, i)
    BY <2>1, <1>2
  <2>3. /\ KeptCount(bytes, i) + 1 \in 1 .. CountBelow(S, n)
        /\ kept[KeptCount(bytes, i) + 1] = i
    BY <2>1, <2>2, <1>6
  <2>q. QED
    BY <2>3, <1>5, <1>6, <1>7
<1>q. QED
  BY <1>8, <1>9 DEF n

\* Rbsp drops the third byte of 0 0 3, and no other.
LEMMA ZeroesTell ==
    ASSUME NEW bytes \in Seq(Nat), NEW c \in 0 .. Len(bytes) - 1
    PROVE  /\ ZeroesAt(bytes, c) = 2 /\ bytes[c + 1] = 3 <=> c \in Skipped(bytes)
           /\ ZeroesAt(bytes, c + 1)
                  = IF bytes[c + 1] = 0 THEN Smaller(ZeroesAt(bytes, c) + 1, 2) ELSE 0
           /\ ZeroesAt(bytes, c) \in 0 .. 2
<1>1. Len(bytes) \in Nat
  BY LenProperties
<1>2. ZeroesAt(bytes, c) \in 0 .. 2
  BY DEF ZeroesAt
<1>3. (ZeroesAt(bytes, c) = 2 /\ bytes[c + 1] = 3) <=> c \in Skipped(bytes)
  <2>1. CASE c = 0
    BY <2>1, <1>1 DEF ZeroesAt, Skipped
  <2>2. CASE c = 1
    BY <2>2, <1>1 DEF ZeroesAt, Skipped
  <2>3. CASE c >= 2
    <3>1. c \in 2 .. Len(bytes) - 1 /\ c # 0 /\ c # 1
      BY <2>3, <1>1
    <3>q. QED
      BY <3>1 DEF ZeroesAt, Skipped
  <2>q. QED
    BY <2>1, <2>2, <2>3
<1>4. ZeroesAt(bytes, c + 1)
          = IF bytes[c + 1] = 0 THEN Smaller(ZeroesAt(bytes, c) + 1, 2) ELSE 0
  <2>1. c + 1 # 0 /\ (c + 1) - 1 = c /\ (c + 1 = 1 <=> c = 0)
    OBVIOUS
  <2>2. ZeroesAt(bytes, c + 1) = IF bytes[c + 1] # 0 THEN 0
                                 ELSE IF c = 0 \/ bytes[c] # 0 THEN 1 ELSE 2
    BY <2>1 DEF ZeroesAt
  <2>q. QED
    BY <2>2 DEF ZeroesAt, Smaller
<1>q. QED
  BY <1>2, <1>3, <1>4

-----------------------------------------------------------------------------
(* What the readers find in the item.                                      *)

\* The bytes around the slice are byte sequences.
LEMMA FramedTypes ==
    ASSUME NEW before, NEW after, NEW starts, Framed(before, after, starts)
    PROVE  before \in Seq(Nat) /\ after \in Seq(Nat) /\ Len(before) \in Nat
  BY ItemAssumption, LenProperties DEF Framed

\* Two joined sequences, by the length of the first.
LEMMA JoinProperties ==
    ASSUME NEW s \in Seq(Nat), NEW t \in Seq(Nat), NEW n \in Nat, Len(s) = n
    PROVE  /\ s \o t \in Seq(Nat)
           /\ Len(s \o t) = n + Len(t)
           /\ \A i \in 1 .. n : (s \o t)[i] = s[i]
           /\ \A i \in 1 .. Len(t) : (s \o t)[n + i] = t[i]
<1>1. n \in Nat /\ Len(t) \in Nat
  BY LenProperties
<1>2. /\ s \o t \in Seq(Nat)
      /\ Len(s \o t) = Len(s) + Len(t)
      /\ \A i \in 1 .. Len(s) + Len(t) :
             (s \o t)[i] = IF i <= Len(s) THEN s[i] ELSE t[i - Len(s)]
  BY ConcatProperties
<1> DEFINE u == s \o t
<1>3. ASSUME NEW i \in 1 .. n PROVE u[i] = s[i]
  <2>1. i \in 1 .. Len(s) + Len(t) /\ i <= Len(s)
    BY <1>1
  <2>q. QED
    BY <2>1, <1>2
<1>4. ASSUME NEW i \in 1 .. Len(t) PROVE u[n + i] = t[i]
  <2>1. n + i \in 1 .. Len(s) + Len(t) /\ ~(n + i <= Len(s)) /\ (n + i) - Len(s) = i
    BY <1>1
  <2>q. QED
    BY <2>1, <1>2
<1>q. QED
  BY <1>2, <1>3, <1>4

\* Where the item has the length, the header and the bytes of the slice.
LEMMA BytesHold ==
    ASSUME NEW before \in Seq(Nat), NEW after \in Seq(Nat), payload \in Seq(Nat)
    PROVE  LET bytes == Bytes(before, after)
               at == Len(before)
           IN  /\ bytes \in Seq(Nat)
               /\ Len(bytes) = at + 3 + Len(payload) + Len(after)
               /\ \A i \in 1 .. at : bytes[i] = before[i]
               /\ bytes[at + 1] = Len(payload) + 2
               /\ bytes[at + 2] = 2 * Idr
               /\ \A i \in 1 .. Len(payload) : bytes[at + 3 + i] = payload[i]
<1> DEFINE start == <<Len(payload) + 2, 2 * Idr, 1>>
           nal == start \o payload
           front == before \o nal
           bytes == front \o after
           at == Len(before)
<1>1. at \in Nat /\ Len(payload) \in Nat /\ Len(after) \in Nat
  BY LenProperties
<1>2. start \in Seq(Nat) /\ Len(start) = 3
      /\ start[1] = Len(payload) + 2 /\ start[2] = 2 * Idr
  BY <1>1 DEF Idr
<1>3. /\ nal \in Seq(Nat)
      /\ Len(nal) = 3 + Len(payload)
      /\ \A i \in 1 .. 3 : nal[i] = start[i]
      /\ \A i \in 1 .. Len(payload) : nal[3 + i] = payload[i]
  <2> HIDE DEF start
  <2>1. start \in Seq(Nat) /\ Len(start) = 3 /\ Len(start) \in Nat
    BY <1>2
  <2>2. /\ nal \in Seq(Nat)
        /\ Len(nal) = Len(start) + Len(payload)
        /\ \A i \in 1 .. Len(start) : nal[i] = start[i]
        /\ \A i \in 1 .. Len(payload) : nal[Len(start) + i] = payload[i]
    BY ZenonT(60), <2>1, JoinProperties
  <2>q. QED
    BY ONLY <2>1, <2>2
<1>4. /\ front \in Seq(Nat)
      /\ Len(front) = at + Len(nal)
      /\ \A i \in 1 .. at : front[i] = before[i]
      /\ \A i \in 1 .. Len(nal) : front[at + i] = nal[i]
  <2> HIDE DEF nal
  <2>1. nal \in Seq(Nat) /\ at \in Nat
    BY <1>1, <1>3
  <2>q. QED
    BY <2>1, <1>1, JoinProperties
<1>5. /\ bytes \in Seq(Nat)
      /\ Len(bytes) = Len(front) + Len(after)
      /\ \A i \in 1 .. Len(front) : bytes[i] = front[i]
  <2> HIDE DEF front
  <2>1. front \in Seq(Nat) /\ Len(front) \in Nat
    BY <1>1, <1>3, <1>4
  <2>q. QED
    BY <2>1, <1>1, JoinProperties
<1>6. Bytes(before, after) = bytes
  BY DEF Bytes, Nal
<1> HIDE DEF start, nal, front, bytes
<1>7. ASSUME NEW i \in 1 .. at PROVE bytes[i] = before[i]
  <2>1. i \in 1 .. Len(front)
    BY <1>1, <1>3, <1>4
  <2>q. QED
    BY <2>1, <1>4, <1>5
<1>8. ASSUME NEW i \in 1 .. 3 + Len(payload) PROVE bytes[at + i] = nal[i]
  <2>0. Len(nal) = 3 + Len(payload) /\ Len(front) = at + Len(nal)
    BY <1>3, <1>4, Zenon
  <2>1. at + i \in 1 .. Len(front) /\ i \in 1 .. Len(nal)
    BY ONLY <1>1, <2>0, i \in 1 .. 3 + Len(payload)
  <2>q. QED
    BY <2>1, <1>4, <1>5
<1>9. bytes[at + 1] = Len(payload) + 2 /\ bytes[at + 2] = 2 * Idr
  <2>1. 1 \in 1 .. 3 + Len(payload) /\ 2 \in 1 .. 3 + Len(payload)
        /\ 1 \in 1 .. 3 /\ 2 \in 1 .. 3
    BY <1>1
  <2>q. QED
    BY <2>1, <1>2, <1>3, <1>8
<1>10. ASSUME NEW i \in 1 .. Len(payload)
       PROVE  bytes[at + 3 + i] = payload[i]
  <2>1. 3 + i \in 1 .. 3 + Len(payload) /\ at + 3 + i = at + (3 + i)
    BY <1>1
  <2>q. QED
    BY <2>1, <1>3, <1>8
<1>11. Len(bytes) = at + 3 + Len(payload) + Len(after)
  BY <1>1, <1>3, <1>4, <1>5
<1>q. QED
  BY <1>5, <1>6, <1>7, <1>9, <1>10, <1>11

\* Those are the bytes that a read of the item finds there.
LEMMA FindsBytes ==
    ASSUME NEW before \in Seq(Nat), NEW after \in Seq(Nat), payload \in Seq(Nat),
           LaidOut(Bytes(before, after))
    PROVE  /\ ItemLength \in Nat
           /\ \A p \in Nat : p < ItemLength =>
                  /\ ReadRange(p, 1)[1] \in Nat
                  /\ p < Len(before) => ReadRange(p, 1)[1] = before[p + 1]
           /\ Len(before) + 2 < ItemLength
           /\ ReadRange(Len(before), 1)[1] = Len(payload) + 2
           /\ ReadRange(Len(before) + 1, 1)[1] = 2 * Idr
           /\ \A n, count \in Nat : n + count <= Len(payload) =>
                  ReadRange(Len(before) + 3 + n, count)
                      = SubSeq(payload, n + 1, n + count)
<1> DEFINE bytes == Bytes(before, after)
           at == Len(before)
<1>1. /\ bytes \in Seq(Nat)
      /\ Len(bytes) = at + 3 + Len(payload) + Len(after)
      /\ \A i \in 1 .. at : bytes[i] = before[i]
      /\ bytes[at + 1] = Len(payload) + 2
      /\ bytes[at + 2] = 2 * Idr
      /\ \A i \in 1 .. Len(payload) : bytes[at + 3 + i] = payload[i]
  BY BytesHold
<1>2. at \in Nat /\ Len(payload) \in Nat /\ Len(after) \in Nat
  BY LenProperties
<1> HIDE DEF bytes
<1>3. PICK cut \in 0 .. Len(bytes), swapped \in BOOLEAN :
          /\ file = Layout(bytes, cut, swapped).file
          /\ extents = Layout(bytes, cut, swapped).extents
  BY DEF LaidOut, bytes
<1>4. /\ ItemLength = Len(bytes)
      /\ \A from, count \in Nat : from + count <= Len(bytes) =>
             ReadRange(from, count) = SubSeq(bytes, from + 1, from + count)
  BY <1>1, <1>3, ReadsItem
<1>5. ASSUME NEW p \in Nat, p < Len(bytes)
      PROVE  ReadRange(p, 1)[1] = bytes[p + 1] /\ bytes[p + 1] \in Nat
  <2>1. p + 1 \in Nat /\ p <= p + 1 /\ p + 1 <= Len(bytes) /\ 1 \in Nat
        /\ 1 \in 1 .. (p + 1) - p /\ p + 1 \in 1 .. Len(bytes)
    BY <1>1, <1>2, <1>5
  <2>2. ReadRange(p, 1) = SubSeq(bytes, p + 1, p + 1)
    BY <2>1, <1>4
  <2>3. SubSeq(bytes, p + 1, p + 1)[1] = bytes[p + 1]
    BY <2>1, <1>1, PartProperties
  <2>q. QED
    BY <2>1, <2>2, <2>3, <1>1, ElementOfSeq
<1>6. ASSUME NEW n \in Nat, NEW count \in Nat, n + count <= Len(payload)
      PROVE  ReadRange(at + 3 + n, count) = SubSeq(payload, n + 1, n + count)
  <2> DEFINE from == at + 3 + n
             u == SubSeq(bytes, from + 1, from + count)
             v == SubSeq(payload, n + 1, n + count)
  <2>0. Len(bytes) = at + 3 + Len(payload) + Len(after)
        /\ n + count <= Len(payload)
    BY <1>1, <1>6, Zenon
  <2>1. from \in Nat /\ from + count \in Nat /\ from <= from + count
        /\ from + count <= Len(bytes) /\ (from + count) - from = count
    BY ONLY <1>2, <2>0, n \in Nat, count \in Nat
  <2>2. n + count \in Nat /\ n <= n + count /\ (n + count) - n = count
    OBVIOUS
  <2>3. ReadRange(from, count) = u
    <3> HIDE DEF from
    <3>q. QED
      BY <2>1, <1>4
  <2>4. /\ u \in Seq(Nat) /\ Len(u) = count
        /\ \A i \in 1 .. count : u[i] = bytes[from + i]
    <3> HIDE DEF from
    <3> DEFINE to == from + count
    <3>1. /\ to \in Nat /\ from <= to /\ to <= Len(bytes) /\ to - from = count
          /\ from \in Nat
      BY <2>1
    <3> HIDE DEF to
    <3>2. /\ SubSeq(bytes, from + 1, to) \in Seq(Nat)
          /\ Len(SubSeq(bytes, from + 1, to)) = to - from
          /\ \A i \in 1 .. to - from :
                 SubSeq(bytes, from + 1, to)[i] = bytes[from + i]
      <4>1. bytes \in Seq(Nat)
        BY <1>1
      <4>q. QED
        BY ONLY <3>1, <4>1, PartProperties
    <3>q. QED
      BY <3>1, <3>2 DEF to
  <2>5. /\ v \in Seq(Nat) /\ Len(v) = count
        /\ \A i \in 1 .. count : v[i] = payload[n + i]
    <3>1. /\ v \in Seq(Nat) /\ Len(v) = (n + count) - n
          /\ \A i \in 1 .. (n + count) - n : v[i] = payload[n + i]
      BY <2>2, <1>6, PartProperties
    <3>q. QED
      BY <3>1, <2>2
  <2>6. ASSUME NEW i \in 1 .. count
        PROVE  bytes[from + i] = payload[n + i]
    <3>1. n + i \in 1 .. Len(payload) /\ from + i = at + 3 + (n + i)
      BY <1>2, <1>6
    <3>q. QED
      BY <3>1, <1>1
  <2> HIDE DEF u, v, from
  <2>7. u = v
    BY <2>4, <2>5, <2>6, SeqEqual
  <2>q. QED
    BY <2>3, <2>7 DEF u, v, from
<1>7. at < Len(bytes) /\ at + 1 < Len(bytes) /\ at + 2 < Len(bytes)
      /\ at + 1 \in Nat /\ (at + 1) + 1 = at + 2
  BY SMTT(30), <1>1, <1>2
<1>8. /\ ReadRange(at, 1)[1] = Len(payload) + 2
      /\ ReadRange(at + 1, 1)[1] = 2 * Idr
  BY <1>1, <1>2, <1>5, <1>7
<1>9. ASSUME NEW p \in Nat, p < at
      PROVE  bytes[p + 1] = before[p + 1]
  BY <1>1, <1>2, <1>9
<1>10. Len(bytes) \in Nat
  BY <1>1, <1>2
<1>q. QED
  BY <1>4, <1>5, <1>6, <1>7, <1>8, <1>9, <1>10

-----------------------------------------------------------------------------
(* What is delivered.                                                      *)

\* A byte that is kept is the next of the stripped slice.
LEMMA DeliversByte ==
    ASSUME NEW bytes \in Seq(Nat), NEW d \in Nat, NEW c \in 0 .. Len(bytes) - 1,
           c \notin Skipped(bytes), d <= KeptCount(bytes, c)
    PROVE  SubSeq(Stripped(bytes), d + 1, KeptCount(bytes, c)) \o <<bytes[c + 1]>>
              = SubSeq(Stripped(bytes), d + 1, KeptCount(bytes, c + 1))
<1> DEFINE whole == Stripped(bytes)
           k == KeptCount(bytes, c)
<1>1. c \in Nat /\ Len(bytes) \in Nat
  BY LenProperties
<1>2. /\ whole \in Seq(Nat)
      /\ Len(whole) = KeptCount(bytes, Len(bytes))
      /\ k + 1 \in 1 .. KeptCount(bytes, Len(bytes))
      /\ whole[k + 1] = bytes[c + 1]
  BY StrippedProperties
<1>3. KeptCount(bytes, c + 1) = k + 1
  BY <1>1, KeptNext
<1>4. k \in Nat /\ d <= k
  BY <1>1, KeptFinite
<1> HIDE DEF whole, k
<1>5. /\ d + 1 \in 1 .. Len(whole)
      /\ k + 1 \in d + 1 .. Len(whole)
      /\ (k + 1) - 1 = k
  <2>1. k + 1 <= Len(whole) /\ Len(whole) \in Nat
    BY <1>2, LenProperties
  <2>q. QED
    BY <2>1, <1>4
<1>6. SubSeq(whole, d + 1, k + 1)
         = SubSeq(whole, d + 1, (k + 1) - 1) \o <<whole[k + 1]>>
  BY <1>2, <1>5, SubSeqRecursiveSecond
<1>q. QED
  BY <1>2, <1>3, <1>5, <1>6 DEF whole, k

\* The head of what is left goes to the end of what was taken.
LEMMA MovesHead ==
    ASSUME NEW s \in Seq(Nat), NEW t \in Seq(Nat), t # << >>
    PROVE  /\ Append(s, Head(t)) \in Seq(Nat) /\ Tail(t) \in Seq(Nat)
           /\ Append(s, Head(t)) \o Tail(t) = s \o t
<1>1. /\ Head(t) \in Nat /\ Tail(t) \in Seq(Nat)
      /\ Len(t) \in Nat /\ Len(t) # 0
  BY HeadTailProperties, LenProperties, EmptySeq
<1>2. Append(s, Head(t)) = s \o <<Head(t)>> /\ Append(s, Head(t)) \in Seq(Nat)
  BY <1>1, AppendIsConcat, AppendProperties
<1>3. <<Head(t)>> \o Tail(t) = t
  <2>1. /\ SubSeq(t, 1, Len(t)) = <<t[1]>> \o SubSeq(t, 1 + 1, Len(t))
        /\ SubSeq(t, 1, Len(t)) = t
        /\ Tail(t) = SubSeq(t, 2, Len(t))
    <3>1. 1 \in 1 .. Len(t) /\ Len(t) \in 1 .. Len(t)
      BY <1>1
    <3>q. QED
      BY <3>1, SubSeqRecursiveFirst, SubSeqFull, TailIsSubSeq
  <2>2. Head(t) = t[1] /\ 1 + 1 = 2
    BY <1>1
  <2>q. QED
    BY <2>1, <2>2
<1>4. <<Head(t)>> \in Seq(Nat)
  BY <1>1
<1>5. (s \o <<Head(t)>>) \o Tail(t) = s \o (<<Head(t)>> \o Tail(t))
  BY SMTT(30), <1>1, <1>4, ConcatAssociative
<1>q. QED
  BY <1>1, <1>2, <1>3, <1>5

\* What was taken first of a part of the stripped slice begins the rest of it,
\* and is the rest when nothing else is left.
LEMMA TakenInPlace ==
    ASSUME NEW whole \in Seq(Nat), NEW d \in Nat, NEW n \in Nat,
           d <= n, n <= Len(whole),
           NEW t \in Seq(Nat), NEW u \in Seq(Nat),
           t \o u = SubSeq(whole, d + 1, n)
    PROVE  /\ IsPrefix(t, SubSeq(whole, d + 1, Len(whole)))
           /\ n = Len(whole) /\ u = << >> => t = SubSeq(whole, d + 1, Len(whole))
<1> DEFINE rest == SubSeq(whole, d + 1, Len(whole))
           part == SubSeq(whole, d + 1, n)
<1>0. Len(whole) \in Nat /\ Len(t) \in Nat /\ Len(u) \in Nat
  BY LenProperties
<1>1. /\ rest \in Seq(Nat) /\ Len(rest) = Len(whole) - d
      /\ \A i \in 1 .. Len(whole) - d : rest[i] = whole[d + i]
  <2>1. d <= Len(whole) /\ Len(whole) <= Len(whole)
    BY <1>0
  <2>q. QED
    BY <2>1, <1>0, PartProperties
<1>2. /\ part \in Seq(Nat) /\ Len(part) = n - d
      /\ \A i \in 1 .. n - d : part[i] = whole[d + i]
  BY PartProperties
<1>3. /\ Len(t \o u) = Len(t) + Len(u)
      /\ \A i \in 1 .. Len(t) : (t \o u)[i] = t[i]
  BY ZenonT(60), <1>0, JoinProperties
<1> HIDE DEF rest, part
<1>4. Len(t) + Len(u) = n - d /\ Len(t) <= Len(rest)
  <2>1. Len(t \o u) = n - d
    BY <1>2 DEF part
  <2>q. QED
    <3>1. Len(t) + Len(u) = n - d /\ Len(rest) = Len(whole) - d
      BY <2>1, <1>1, <1>3, Zenon
    <3>q. QED
      BY ONLY <3>1, <1>0, d \in Nat, n \in Nat, n <= Len(whole)
<1>5. ASSUME NEW i \in 1 .. Len(t)
      PROVE  t[i] = rest[i]
  <2>1. i \in 1 .. n - d /\ i \in 1 .. Len(whole) - d
    BY <1>0, <1>4
  <2>2. t[i] = part[i]
    BY <1>3 DEF part
  <2>q. QED
    BY <2>1, <2>2, <1>1, <1>2
<1>6. SubSeq(t, 1, Len(t)) = SubSeq(rest, 1, Len(t))
  <2> DEFINE a == SubSeq(t, 1, Len(t))
             b == SubSeq(rest, 1, Len(t))
  <2>1. a = t
    BY SubSeqFull
  <2>2. /\ SubSeq(rest, 0 + 1, Len(t)) \in Seq(Nat)
        /\ Len(SubSeq(rest, 0 + 1, Len(t))) = Len(t) - 0
        /\ \A i \in 1 .. Len(t) - 0 : SubSeq(rest, 0 + 1, Len(t))[i] = rest[0 + i]
    <3> DEFINE l == Len(t)
    <3>1. 0 \in Nat /\ l \in Nat /\ 0 <= l /\ l <= Len(rest)
          /\ rest \in Seq(Nat)
      BY <1>0, <1>1, <1>4
    <3> HIDE DEF l
    <3>2. /\ SubSeq(rest, 0 + 1, l) \in Seq(Nat)
          /\ Len(SubSeq(rest, 0 + 1, l)) = l - 0
          /\ \A i \in 1 .. l - 0 : SubSeq(rest, 0 + 1, l)[i] = rest[0 + i]
      BY ONLY <3>1, PartProperties
    <3>q. QED
      BY <3>2 DEF l
  <2>3. 0 + 1 = 1 /\ Len(t) - 0 = Len(t)
    BY <1>0
  <2>4. b \in Seq(Nat) /\ Len(b) = Len(t)
    BY <2>2, <2>3
  <2>5. ASSUME NEW i \in 1 .. Len(t) PROVE t[i] = b[i]
    <3>1. i \in 1 .. Len(t) - 0 /\ 0 + i = i
      BY <1>0
    <3>q. QED
      BY <3>1, <2>2, <2>3, <1>5
  <2> HIDE DEF b
  <2>6. t = b
    BY <2>4, <2>5, SeqEqual
  <2>q. QED
    BY <2>1, <2>6 DEF b
<1>7. IsPrefix(t, rest)
  BY <1>4, <1>6 DEF IsPrefix
<1>8. ASSUME n = Len(whole), u = << >>
      PROVE  t = rest
  <2>1. t \o u = t
    BY <1>8, ConcatEmptySeq
  <2>q. QED
    BY <2>1, <1>8 DEF rest
<1>q. QED
  BY <1>7, <1>8 DEF rest

-----------------------------------------------------------------------------
(* Each action keeps the invariant.                                        *)

\* The layout of the item never changes.
LEMMA InputsStay ==
    ASSUME NEW before, NEW after, LaidOut(Bytes(before, after)),
           UNCHANGED inputVars
    PROVE  LaidOut(Bytes(before, after))'
  BY DEF LaidOut, Bytes, Nal, inputVars

\* Steps that deliver nothing keep the delivered bytes right.
LEMMA SameBytesStay ==
    ASSUME SameBytes, UNCHANGED <<payload, dataOffset, taken, dry, failed>>
    PROVE  SameBytes'
  BY DEF SameBytes, Whole

\* The sizes are positive.
LEMMA Positive ==
    /\ SkipBytes \in Nat \ {0} /\ ReadAhead \in Nat \ {0}
    /\ Capacity \in Nat \ {0}
    /\ MaxCtus \in Nat \ {0} /\ MaxAsked \in Nat
  BY SliceAssumption

\* The end of the decode.
LEMMA ReturnKeeps ==
    ASSUME NEW before, NEW after, NEW starts, Framed(before, after, starts),
           Holds(before, after, starts),
           NEW outcome \in {"refused", "error", "done"}, Return(outcome),
           outcome = "done" => ~failed
    PROVE  Holds(before, after, starts)'
<1> USE DEF Holds, Return
<1>1. TypeOK'
  BY DEF TypeOK, inputVars, scanVars, readerVars, cabacVars
<1>2. Phases' /\ Matched' /\ Chained(before)'
  BY DEF Phases, Matched, Chained, Running
<1>3. Unfinished'
  BY DEF Unfinished, cabacVars
<1>4. SameBytes'
  BY SameBytesStay DEF inputVars, scanVars, cabacVars
<1>5. LaidOut(Bytes(before, after))'
  BY InputsStay
<1>6. Scanned(before, starts)'
  BY DEF Scanned, inputVars, scanVars
<1>q. QED
  BY <1>1, <1>2, <1>3, <1>4, <1>5, <1>6

\* The scan moves from one NAL unit to the next, and finds the slice.
LEMMA ScanNalKeeps ==
    ASSUME NEW before, NEW after, NEW starts, Framed(before, after, starts),
           Holds(before, after, starts), ScanNal
    PROVE  Holds(before, after, starts)'
<1> USE DEF Holds
<1>0. /\ before \in Seq(Nat) /\ after \in Seq(Nat) /\ Len(before) \in Nat
      /\ payload \in Seq(Nat) /\ Len(payload) \in Nat /\ position \in Nat
      /\ position + 0 = position
  BY FramedTypes, LenProperties DEF TypeOK
<1>1. /\ pc = "scan" /\ position < ItemLength /\ ~Unacceptable
      /\ position' = position + 1 + Here(0)
      /\ found' = IF Here(1) \div 2 = Idr
                  THEN <<[offset |-> position + 3, length |-> Here(0) - 2]>>
                  ELSE found
      /\ UNCHANGED <<inputVars, pc, resume, dataOffset, remaining, ahead,
                     zeroes, filling, toSkip, cabacVars, ctus, result>>
      /\ nals' = nals + 1
  BY DEF ScanNal
<1>2. /\ Here(0) \in Nat
      /\ position < Len(before) => Here(0) = before[position + 1]
      /\ Here(0) = ReadRange(position, 1)[1]
  BY <1>0, <1>1, FindsBytes DEF Here
<1>3. TypeOK'
  <2>1. position' \in Nat /\ nals' \in Nat
    BY <1>0, <1>1, <1>2 DEF TypeOK
  <2>q. QED
    BY <1>1, <2>1 DEF TypeOK, inputVars, cabacVars
<1>4. Phases' /\ Matched' /\ Chained(before)'
  BY <1>1 DEF Phases, Matched, Chained, Running, cabacVars
<1>5. Unfinished'
  BY <1>1 DEF Unfinished, cabacVars
<1>6. SameBytes'
  BY <1>1, SameBytesStay DEF inputVars, cabacVars
<1>7. LaidOut(Bytes(before, after))'
  BY <1>1, InputsStay
<1>8. Scanned(before, starts)'
  <2>1. payload' = payload /\ pc' = "scan"
    BY <1>1 DEF inputVars
  <2>2. CASE found # << >>
    <3>1. ~(Here(1) \div 2 = Idr)
      BY <2>2, <1>1 DEF Unacceptable
    <3>q. QED
      BY <3>1, <2>1, <2>2, <1>1 DEF Scanned
  <2>3. CASE found = << >>
    <3>1. /\ position \in starts /\ position <= Len(before)
          /\ position \in 0 .. Len(before)
      BY <2>3, <1>0, <1>1 DEF Scanned, Framed
    <3>2. CASE position < Len(before)
      <4>1. /\ position + 2 <= Len(before)
            /\ before[position + 2] \div 2 # Idr
            /\ position + 1 + before[position + 1] \in starts
        BY <3>1, <3>2 DEF Framed, Delimits
      <4>2. Here(1) = before[position + 2]
        <5>1. /\ position + 1 \in Nat /\ position + 1 < Len(before)
              /\ (position + 1) + 1 = position + 2
              /\ position + 1 < ItemLength
          <6>1. Len(before) + 2 < ItemLength /\ ItemLength \in Nat
            BY <1>0, FindsBytes
          <6>q. QED
            BY <6>1, <4>1, <1>0
        <5>q. QED
          BY <5>1, <1>0, FindsBytes DEF Here
      <4>3. found' = << >>
        BY <4>1, <4>2, <2>3, <1>1
      <4>4. position' \in starts
        BY <4>1, <1>1, <1>2, <3>2
      <4>q. QED
        BY <4>3, <4>4 DEF Scanned
    <3>3. CASE position = Len(before)
      <4>1. Here(0) = Len(payload) + 2 /\ Here(1) = 2 * Idr
        BY <3>3, <1>0, FindsBytes DEF Here
      <4>2. (2 * Idr) \div 2 = Idr /\ (Len(payload) + 2) - 2 = Len(payload)
        BY <1>0 DEF Idr
      <4>3. found' = <<[offset |-> Len(before) + 3, length |-> Len(payload)]>>
        BY <4>1, <4>2, <3>3, <1>1
      <4>q. QED
        BY <4>3, <2>1 DEF Scanned
    <3>q. QED
      BY <3>1, <3>2, <3>3, <1>0
  <2>q. QED
    BY <2>2, <2>3
<1>q. QED
  BY <1>3, <1>4, <1>5, <1>6, <1>7, <1>8

\* The reader is set to the slice; its header is skipped.
LEMMA PrepareKeeps ==
    ASSUME NEW before, NEW after, NEW starts, Framed(before, after, starts),
           Holds(before, after, starts), Prepare
    PROVE  Holds(before, after, starts)'
<1>1. PICK n \in 0 .. Len(Prefix) :
          \/ n = Len(Prefix) /\ Return("refused")
          \/ /\ n < Len(Prefix)
             /\ dataOffset' = n
             /\ toSkip' = n
             /\ position' = found[1].offset
             /\ remaining' = found[1].length
             /\ pc' = "skip"
             /\ UNCHANGED <<inputVars, resume, nals, found, ahead, zeroes,
                            filling, cabacVars, ctus, result>>
  BY DEF Prepare
<1>2. CASE n = Len(Prefix) /\ Return("refused")
  BY <1>2, ReturnKeeps
<1>3. CASE /\ dataOffset' = n
           /\ toSkip' = n
           /\ position' = found[1].offset
           /\ remaining' = found[1].length
           /\ pc' = "skip"
           /\ UNCHANGED <<inputVars, resume, nals, found, ahead, zeroes,
                          filling, cabacVars, ctus, result>>
  <2> USE DEF Holds
  <2>0. /\ before \in Seq(Nat) /\ Len(before) \in Nat
        /\ payload \in Seq(Nat) /\ Len(payload) \in Nat
    BY FramedTypes, LenProperties DEF TypeOK
  <2>1. pc = "scan" /\ found # << >>
    BY DEF Prepare
  <2>2. /\ taken = << >> /\ buffer = << >> /\ filling = << >>
        /\ ahead = << >> /\ zeroes = 0 /\ ~dry /\ ~failed
    BY <2>1 DEF Phases
  <2>3. /\ taken' = << >> /\ buffer' = << >> /\ filling' = << >>
        /\ ahead' = << >> /\ zeroes' = 0 /\ ~dry' /\ ~failed'
        /\ payload' = payload /\ found' = found /\ result' = result
        /\ failed' = failed
    BY <1>3, <2>2 DEF inputVars, cabacVars
  <2>4. found = <<[offset |-> Len(before) + 3, length |-> Len(payload)]>>
    BY <2>1 DEF Scanned
  <2>5. position' = Len(before) + 3 /\ remaining' = Len(payload)
    BY <2>4, <1>3
  <2>6. n \in Nat
    OBVIOUS
  <2>7. TypeOK'
    <3>1. position' \in Nat /\ remaining' \in Nat
      BY <2>0, <2>5
    <3>q. QED
      BY <3>1, <2>6, <1>3 DEF TypeOK, inputVars, cabacVars
  <2>8. Phases'
    BY <1>3, <2>3 DEF Phases
  <2>9. Len(ahead') = 0 /\ Consumed' = 0
    <3>1. Consumed' = Len(payload') - remaining' - Len(ahead')
      BY DEF Consumed
    <3>2. Len(ahead') = 0
      BY <2>3
    <3>3. Consumed' = Len(payload) - Len(payload) - 0
      BY <3>1, <3>2, <2>3, <2>5, Zenon
    <3>q. QED
      BY <3>2, <3>3, <2>0
  <2>10. Chained(before)'
    <3>1. ZeroesAt(payload', 0) = 0
      BY DEF ZeroesAt
    <3>2. SubSeq(payload', 0 + 1, 0 + 0) = << >>
      BY SubSeqEmpty
    <3>3. position' + remaining' = Len(before) + 3 + Len(payload')
          /\ remaining' + 0 <= Len(payload')
      BY <2>0, <2>3, <2>5
    <3>q. QED
      BY <3>1, <3>2, <3>3, <2>3, <2>9 DEF Chained
  <2>11. Matched'
    <3>1. KeptCount(payload', 0) = 0
      BY KeptStart
    <3>2. Delivered' = << >>
      BY <2>3 DEF Delivered
    <3>3. n - n = 0 /\ n <= n
      BY <2>6
    <3>4. SubSeq(Stripped(payload'), 0 + 1, 0) = << >>
      BY SubSeqEmpty
    <3>q. QED
      BY <3>1, <3>2, <3>3, <3>4, <2>3, <2>9, <1>3 DEF Matched
  <2>12. Unfinished'
    BY <1>3, <2>1, <2>3 DEF Unfinished
  <2>13. SameBytes'
    <3>1. Stripped(payload') \in Seq(Nat)
      BY <2>0, <2>3, StrippedProperties
    <3>2. Len(Stripped(payload')) \in Nat
      BY <3>1, LenProperties
    <3>3. Whole' = SubSeq(Stripped(payload'), n + 1, Len(Stripped(payload')))
      BY <1>3 DEF Whole
    <3>4. Len(Whole') \in Nat /\ SubSeq(<< >>, 1, 0) = << >>
          /\ SubSeq(Whole', 1, 0) = << >>
      <4>1. \A i \in n + 1 .. Len(Stripped(payload')) :
                Stripped(payload')[i] \in Nat
        BY <3>1, <3>2, <2>6, ElementOfSeq
      <4>2. Whole' \in Seq(Nat)
        BY <4>1, <3>2, <3>3, <2>6, SubSeqProperties
      <4>q. QED
        BY <4>2, LenProperties, SubSeqEmpty
    <3>5. Len(<< >>) = 0 /\ 0 <= Len(Whole')
      BY <3>4
    <3>q. QED
      BY <3>4, <3>5, <2>3 DEF SameBytes, IsPrefix
  <2>14. LaidOut(Bytes(before, after))'
    BY <1>3, InputsStay
  <2>15. Scanned(before, starts)'
    BY <2>3, <2>4, <1>3 DEF Scanned
  <2>q. QED
    BY <2>7, <2>8, <2>10, <2>11, <2>12, <2>13, <2>14, <2>15
<1>q. QED
  BY <1>1, <1>2, <1>3

\* What is read ahead follows what was.
LEMMA FillAheadKeeps ==
    ASSUME NEW before, NEW after, NEW starts, Framed(before, after, starts),
           Holds(before, after, starts), FillAhead
    PROVE  Holds(before, after, starts)'
<1> USE DEF Holds
<1> DEFINE count == Smaller(ReadAhead, remaining)
           n == Consumed
<1>0. /\ before \in Seq(Nat) /\ after \in Seq(Nat) /\ Len(before) \in Nat
      /\ payload \in Seq(Nat) /\ Len(payload) \in Nat
      /\ position \in Nat /\ remaining \in Nat
  BY FramedTypes, LenProperties DEF TypeOK
<1>1. /\ pc = "read" /\ ahead = << >> /\ remaining > 0
      /\ ahead' = ReadRange(position, count)
      /\ position' = position + count
      /\ remaining' = remaining - count
      /\ UNCHANGED <<inputVars, pc, resume, scanVars, zeroes, filling, toSkip,
                     cabacVars, ctus, result>>
  BY DEF FillAhead
<1>2. /\ position + remaining = Len(before) + 3 + Len(payload)
      /\ remaining + Len(ahead) <= Len(payload)
      /\ zeroes = ZeroesAt(payload, Consumed)
  BY <1>1 DEF Chained, Running
<1>3. Len(ahead) = 0 /\ n = Len(payload) - remaining
  <2>1. Len(ahead) = 0
    BY <1>1
  <2>q. QED
    BY <2>1, <1>0 DEF Consumed
<1>4. count \in Nat /\ count <= remaining /\ count # 0
  BY <1>0, <1>1, Positive DEF Smaller
<1> HIDE DEF count, n
<1>5. n \in Nat /\ n + count <= Len(payload) /\ position = Len(before) + 3 + n
      /\ n + count \in Nat /\ n <= n + count /\ (n + count) - n = count
  BY <1>0, <1>2, <1>3, <1>4
<1>6. ahead' = SubSeq(payload, n + 1, n + count)
  <2>1. \A m, k \in Nat : m + k <= Len(payload) =>
            ReadRange(Len(before) + 3 + m, k) = SubSeq(payload, m + 1, m + k)
    BY <1>0, FindsBytes
  <2>2. ReadRange(Len(before) + 3 + n, count) = SubSeq(payload, n + 1, n + count)
    BY <2>1, <1>4, <1>5, Zenon
  <2>q. QED
    BY <2>2, <1>1, <1>5, Zenon
<1>7. ahead' \in Seq(Nat) /\ Len(ahead') = count
  <2> DEFINE to == n + count
  <2>1. to \in Nat /\ n <= to /\ to <= Len(payload) /\ to - n = count
    BY <1>5
  <2> HIDE DEF to
  <2>2. SubSeq(payload, n + 1, to) \in Seq(Nat)
        /\ Len(SubSeq(payload, n + 1, to)) = to - n
    <3>1. n \in Nat /\ payload \in Seq(Nat)
      BY <1>0, <1>5
    <3>q. QED
      BY ONLY <2>1, <3>1, PartProperties
  <2>q. QED
    BY <1>6, <2>1, <2>2 DEF to
<1>8. payload' = payload
  BY <1>1 DEF inputVars
<1>9. Consumed' = n
  <2>1. Consumed' = Len(payload') - remaining' - Len(ahead')
    BY DEF Consumed
  <2>2. Consumed' = Len(payload) - (remaining - count) - count
    BY <2>1, <1>1, <1>7, <1>8, Zenon
  <2>q. QED
    BY <2>2, <1>0, <1>3, <1>4
<1>10. TypeOK'
  <2>1. position' \in Nat /\ remaining' \in Nat
    BY <1>0, <1>1, <1>4
  <2>q. QED
    BY <2>1, <1>1, <1>7 DEF TypeOK, inputVars, scanVars, cabacVars
<1>11. Phases'
  BY <1>1 DEF Phases, Wanted, cabacVars
<1>12. Chained(before)'
  <2>1. position' + remaining' = Len(before) + 3 + Len(payload')
    <3>1. (position + count) + (remaining - count) = position + remaining
      BY <1>0, <1>4
    <3>q. QED
      BY <3>1, <1>1, <1>2, <1>8, Zenon
  <2>2. remaining' + Len(ahead') <= Len(payload')
    BY <1>0, <1>1, <1>2, <1>3, <1>4, <1>7, <1>8
  <2>3. zeroes' = ZeroesAt(payload', Consumed')
    BY <1>1, <1>2, <1>8, <1>9 DEF n
  <2>4. ahead' = SubSeq(payload', Consumed' + 1, Consumed' + Len(ahead'))
    BY <1>6, <1>7, <1>8, <1>9
  <2>q. QED
    BY <2>1, <2>2, <2>3, <2>4 DEF Chained
<1>13. Matched'
  <2>1. Delivered' = Delivered /\ dataOffset' = dataOffset /\ toSkip' = toSkip
        /\ failed' = failed /\ dry' = dry /\ Running
    BY <1>1 DEF Delivered, scanVars, cabacVars, Running
  <2>2. ~failed => ~dry
    BY <1>0, <1>1, <2>1 DEF Matched
  <2>q. QED
    BY <2>1, <2>2, <1>8, <1>9 DEF Matched, n
<1>14. Unfinished'
  BY <1>1 DEF Unfinished, cabacVars
<1>15. SameBytes'
  BY <1>1, <1>8, SameBytesStay DEF scanVars, cabacVars
<1>16. LaidOut(Bytes(before, after))'
  BY <1>1, InputsStay
<1>17. Scanned(before, starts)'
  BY <1>1, <1>8 DEF Scanned, scanVars
<1>q. QED
  BY <1>10, <1>11, <1>12, <1>13, <1>14, <1>15, <1>16, <1>17

\* Rbsp passes a byte on, or drops an EPB.
LEMMA PassByteKeeps ==
    ASSUME NEW before, NEW after, NEW starts, Framed(before, after, starts),
           Holds(before, after, starts), PassByte
    PROVE  Holds(before, after, starts)'
<1> USE DEF Holds
<1> DEFINE n == Consumed
           x == Head(ahead)
<1>0. /\ Len(before) \in Nat /\ payload \in Seq(Nat) /\ Len(payload) \in Nat
      /\ remaining \in Nat /\ ahead \in Seq(Nat) /\ Len(ahead) \in Nat
      /\ filling \in Seq(Nat) /\ Len(filling) \in Nat
      /\ taken \in Seq(Nat) /\ buffer \in Seq(Nat)
      /\ dataOffset \in Nat /\ toSkip \in Nat
  BY FramedTypes, LenProperties DEF TypeOK
<1>1. /\ pc = "read" /\ ahead # << >> /\ Len(filling) < Wanted
      /\ ahead' = Tail(ahead)
      /\ IF zeroes = 2 /\ x = 3
         THEN zeroes' = 0 /\ filling' = filling
         ELSE /\ zeroes' = IF x = 0 THEN Smaller(zeroes + 1, 2) ELSE 0
              /\ filling' = Append(filling, x)
      /\ UNCHANGED <<inputVars, pc, resume, scanVars, position, remaining,
                     toSkip, cabacVars, ctus, result>>
  BY DEF PassByte
<1>2. /\ position + remaining = Len(before) + 3 + Len(payload)
      /\ remaining + Len(ahead) <= Len(payload)
      /\ ahead = SubSeq(payload, n + 1, n + Len(ahead))
      /\ zeroes = ZeroesAt(payload, n)
  BY <1>1 DEF Chained, Running
<1>3. /\ Len(ahead) # 0 /\ x \in Nat /\ Tail(ahead) \in Seq(Nat)
      /\ Len(Tail(ahead)) = Len(ahead) - 1
  BY <1>0, <1>1, EmptySeq, HeadTailProperties
<1>4. /\ n = Len(payload) - remaining - Len(ahead)
      /\ n \in Nat /\ n \in 0 .. Len(payload) - 1
      /\ n + 1 \in 1 .. Len(payload)
      /\ n + Len(ahead) \in n + 1 .. Len(payload)
  <2> DEFINE l == Len(payload)
             a == Len(ahead)
  <2>1. n = l - remaining - a
    BY DEF Consumed
  <2> HIDE DEF n, l, a
  <2>2. /\ l \in Nat /\ a \in Nat /\ remaining \in Nat
        /\ remaining + a <= l /\ a # 0
    BY <1>0, <1>2, <1>3, Zenon DEF l, a
  <2>3. n \in Nat /\ n \in 0 .. l - 1 /\ n + 1 \in 1 .. l /\ n + a \in n + 1 .. l
    BY ONLY <2>1, <2>2
  <2>q. QED
    BY <2>1, <2>3, Zenon DEF l, a
<1> HIDE DEF n
<1>5. /\ x = payload[n + 1]
      /\ Tail(ahead) = SubSeq(payload, (n + 1) + 1, n + Len(ahead))
  <2> DEFINE to == n + Len(ahead)
             u == SubSeq(payload, n + 1, to)
  <2>1. to \in n + 1 .. Len(payload) /\ ahead = u
    BY <1>2, <1>4
  <2> HIDE DEF to
  <2>2. Head(u) = payload[n + 1] /\ Tail(u) = SubSeq(payload, (n + 1) + 1, to)
    BY <2>1, <1>0, <1>4, HeadTailOfSubSeq
  <2>q. QED
    BY <2>1, <2>2 DEF to
<1>6. payload' = payload
  BY <1>1 DEF inputVars
<1>7. Consumed' = n + 1
  <2>1. Consumed' = Len(payload) - remaining - (Len(ahead) - 1)
    BY <1>1, <1>3, <1>6 DEF Consumed
  <2>q. QED
    BY <2>1, <1>0, <1>4
<1>8. /\ (zeroes = 2 /\ x = 3) <=> n \in Skipped(payload)
      /\ zeroes' = ZeroesAt(payload, n + 1)
      /\ zeroes' \in 0 .. 2
  <2>1. /\ (ZeroesAt(payload, n) = 2 /\ payload[n + 1] = 3)
                <=> n \in Skipped(payload)
        /\ ZeroesAt(payload, n + 1)
               = IF payload[n + 1] = 0 THEN Smaller(ZeroesAt(payload, n) + 1, 2) ELSE 0
        /\ ZeroesAt(payload, n) \in 0 .. 2
    BY <1>0, <1>4, ZeroesTell
  <2>2. zeroes' = IF x = 0 THEN Smaller(zeroes + 1, 2) ELSE 0
    BY <1>1
  <2>q. QED
    BY <2>1, <2>2, <1>2, <1>5 DEF Smaller
<1>9. filling' \in Seq(Nat) /\ Len(filling') <= Wanted
  <2>1. /\ Append(filling, x) \in Seq(Nat)
        /\ Len(Append(filling, x)) = Len(filling) + 1
    BY <1>0, <1>3, AppendProperties
  <2>2. Wanted \in Nat
    BY <1>0, Positive DEF Wanted, Smaller
  <2>q. QED
    <3>1. CASE zeroes = 2 /\ x = 3
      <4>1. filling' = filling
        BY <3>1, <1>1
      <4>q. QED
        BY <4>1, <2>2, <1>0, <1>1
    <3>2. CASE ~(zeroes = 2 /\ x = 3)
      <4>1. filling' = Append(filling, x)
        BY <3>2, <1>1, Zenon
      <4>q. QED
        BY <4>1, <2>1, <2>2, <1>0, <1>1
    <3>q. QED
      BY <3>1, <3>2
<1>10. TypeOK'
  BY <1>1, <1>3, <1>8, <1>9 DEF TypeOK, inputVars, scanVars, cabacVars
<1>11. Phases'
  BY <1>1, <1>9 DEF Phases, Wanted, cabacVars
<1>12. Chained(before)'
  <2>1. position' + remaining' = Len(before) + 3 + Len(payload')
    BY <1>1, <1>2, <1>6
  <2>2. remaining' + Len(ahead') <= Len(payload')
    BY <1>0, <1>1, <1>2, <1>3, <1>6
  <2>3. zeroes' = ZeroesAt(payload', Consumed')
    BY <1>6, <1>7, <1>8
  <2>4. ahead' = SubSeq(payload', Consumed' + 1, Consumed' + Len(ahead'))
    <3>1. (n + 1) + Len(ahead') = n + Len(ahead)
      BY <1>0, <1>1, <1>3, <1>4
    <3>q. QED
      BY <3>1, <1>1, <1>5, <1>6, <1>7
  <2>q. QED
    BY <2>1, <2>2, <2>3, <2>4 DEF Chained
<1>13. Matched'
  <2> DEFINE d == dataOffset - toSkip
  <2> SUFFICES ASSUME ~failed' PROVE Matched'
    BY DEF Matched
  <2>1. dataOffset' = dataOffset /\ toSkip' = toSkip
        /\ failed' = failed /\ dry' = dry /\ Running /\ ~failed
        /\ taken' = taken /\ buffer' = buffer
    BY <1>1 DEF scanVars, cabacVars, Running
  <2>2. /\ toSkip <= dataOffset
        /\ d <= KeptCount(payload, n)
        /\ Delivered = SubSeq(Stripped(payload), d + 1, KeptCount(payload, n))
        /\ ~dry
    BY <2>1, <1>1 DEF Matched, n
  <2>3. d \in Nat /\ KeptCount(payload, n) \in Nat
    BY <2>2, <1>0, <1>4, KeptFinite
  <2>4. KeptCount(payload, n + 1)
           = IF n \in Skipped(payload) THEN KeptCount(payload, n)
                                    ELSE KeptCount(payload, n) + 1
    BY <1>4, KeptNext
  <2>5. d <= KeptCount(payload, n + 1)
    BY <2>2, <2>3, <2>4
  <2>6. Delivered' = SubSeq(Stripped(payload), d + 1, KeptCount(payload, n + 1))
    <3>1. CASE n \in Skipped(payload)
      <4>1. Delivered' = Delivered
        BY <3>1, <1>1, <1>8, <2>1 DEF Delivered
      <4>q. QED
        BY <3>1, <4>1, <2>2, <2>4
    <3>2. CASE n \notin Skipped(payload)
      <4>1. filling' = Append(filling, x)
        BY <3>2, <1>1, <1>8
      <4>2. Append(filling, x) = filling \o <<x>> /\ <<x>> \in Seq(Nat)
        BY <1>0, <1>3, AppendIsConcat
      <4>3. taken \o buffer \in Seq(Nat)
        BY <1>0, ConcatProperties
      <4>4. (taken \o buffer) \o (filling \o <<x>>) = Delivered \o <<x>>
        <5>1. ((taken \o buffer) \o filling) \o <<x>>
                  = (taken \o buffer) \o (filling \o <<x>>)
          <6>1. taken \o buffer \in Seq(Nat) /\ filling \in Seq(Nat)
                /\ <<x>> \in Seq(Nat)
            BY <4>2, <4>3, <1>0
          <6>q. QED
            BY ONLY SMTT(30), <6>1, ConcatAssociative
        <5>q. QED
          BY <5>1, Zenon DEF Delivered
      <4>5. Delivered' = Delivered \o <<payload[n + 1]>>
        BY <4>1, <4>2, <4>4, <2>1, <1>5 DEF Delivered
      <4> HIDE DEF d
      <4>6. SubSeq(Stripped(payload), d + 1, KeptCount(payload, n))
                  \o <<payload[n + 1]>>
                = SubSeq(Stripped(payload), d + 1, KeptCount(payload, n + 1))
        BY <3>2, <1>0, <1>4, <2>2, <2>3, DeliversByte
      <4>q. QED
        BY <4>5, <4>6, <2>2
    <3>q. QED
      BY <3>1, <3>2
  <2>q. QED
    BY <2>1, <2>2, <2>5, <2>6, <1>6, <1>7 DEF Matched
<1>14. Unfinished'
  BY <1>1 DEF Unfinished, cabacVars
<1>15. SameBytes'
  BY <1>1, <1>6, SameBytesStay DEF scanVars, cabacVars
<1>16. LaidOut(Bytes(before, after))'
  BY <1>1, InputsStay
<1>17. Scanned(before, starts)'
  BY <1>1, <1>6 DEF Scanned, scanVars
<1>q. QED
  BY <1>10, <1>11, <1>12, <1>13, <1>14, <1>15, <1>16, <1>17

\* What a step leaves when it moves neither the readers nor a byte.
LEMMA ReadersStay ==
    ASSUME NEW before, NEW after, NEW starts, Holds(before, after, starts),
           Running,
           UNCHANGED <<inputVars, scanVars, readerVars, taken, buffer, filling,
                       toSkip, failed, dry>>
    PROVE  /\ SameBytes' /\ LaidOut(Bytes(before, after))'
           /\ pc' # "scan" => Scanned(before, starts)'
           /\ Chained(before)'
           /\ Matched'
<1> USE DEF Holds
<1>1. SameBytes'
  BY SameBytesStay DEF inputVars, scanVars
<1>2. LaidOut(Bytes(before, after))'
  BY InputsStay
<1>3. pc' # "scan" => Scanned(before, starts)'
  BY DEF Scanned, inputVars, scanVars
<1>4. payload' = payload /\ Consumed' = Consumed
  BY DEF Consumed, inputVars, readerVars
<1>5. Chained(before)'
  BY <1>4 DEF Chained, readerVars
<1>6. Matched'
  BY <1>4 DEF Matched, Delivered, scanVars, readerVars
<1>q. QED
  BY <1>1, <1>2, <1>3, <1>5, <1>6

\* A read begins, for the header or for the entropy decoder.
LEMMA StartReadKeeps ==
    ASSUME NEW before, NEW after, NEW starts, Framed(before, after, starts),
           Holds(before, after, starts), StartSkip \/ AskForMore
    PROVE  Holds(before, after, starts)'
<1> USE DEF Holds
<1>1. /\ Running /\ pc' = "read" /\ filling' = << >> /\ filling = << >>
      /\ UNCHANGED <<inputVars, scanVars, readerVars, toSkip, cabacVars, ctus,
                     result>>
  BY DEF StartSkip, AskForMore, NextByte, StartRead, Running, Phases
<1>2. /\ UNCHANGED <<taken, buffer, filling, failed, dry>>
  BY <1>1 DEF cabacVars
<1>3. TypeOK'
  <2>1. resume' \in {"skip", "start", "ctu"}
    BY DEF StartSkip, AskForMore, NextByte, StartRead
  <2>q. QED
    BY <2>1, <1>1, <1>2
    DEF TypeOK, inputVars, scanVars, readerVars, cabacVars
<1>4. Len(filling') <= Wanted'
  <2>1. Wanted' \in Nat
    BY <1>3, Positive DEF Wanted, Smaller, TypeOK
  <2>2. Len(filling') = 0
    BY <1>1
  <2>q. QED
    BY <2>1, <2>2
<1>5. Phases' /\ Unfinished'
  <2>1. CASE StartSkip
    <3>1. pc = "skip" /\ resume' = "skip"
      BY <2>1 DEF StartSkip, StartRead
    <3>q. QED
      BY <3>1, <1>1, <1>2, <1>4 DEF Phases, Unfinished
  <2>2. CASE AskForMore
    <3>1. /\ pc \in {"start", "ctu"} /\ resume' = pc /\ buffer = << >>
          /\ pc = "ctu" => ctus < MaxCtus
      BY <2>2 DEF AskForMore, NextByte, StartRead
    <3>q. QED
      BY <3>1, <1>1, <1>2, <1>4 DEF Phases, Unfinished
  <2>q. QED
    BY <2>1, <2>2
<1>q. QED
  BY <1>1, <1>2, <1>3, <1>5, ReadersStay

\* The header bytes are all skipped.
LEMMA SkipKeeps ==
    ASSUME NEW before, NEW after, NEW starts, Framed(before, after, starts),
           Holds(before, after, starts), Skip
    PROVE  Holds(before, after, starts)'
<1> USE DEF Holds
<1>1. /\ Running /\ pc = "skip" /\ toSkip = 0 /\ pc' = "start"
      /\ UNCHANGED <<inputVars, resume, scanVars, readerVars, filling, toSkip,
                     cabacVars, ctus, result>>
      /\ UNCHANGED <<taken, buffer, failed, dry>>
  BY DEF Skip, Running, cabacVars
<1>2. TypeOK'
  BY <1>1 DEF TypeOK, inputVars, scanVars, readerVars, cabacVars
<1>3. Phases' /\ Unfinished'
  BY <1>1 DEF Phases, Unfinished
<1>q. QED
  BY <1>1, <1>2, <1>3, ReadersStay

\* The entropy decoder starts.
LEMMA StartKeeps ==
    ASSUME NEW before, NEW after, NEW starts, Framed(before, after, starts),
           Holds(before, after, starts), Start
    PROVE  Holds(before, after, starts)'
<1>1. CASE Return("error")
  BY <1>1, ReturnKeeps
<1>2. CASE ~Return("error")
  <2> USE DEF Holds
  <2>1. /\ Running /\ pc = "start" /\ ~failed /\ pc' = "ctu" /\ asked' = 0
        /\ UNCHANGED <<inputVars, resume, scanVars, readerVars, filling, toSkip,
                       buffer, failed, dry, taken, ctus, result>>
    BY <1>2 DEF Start, Running
  <2>2. TypeOK'
    BY <2>1 DEF TypeOK, inputVars, scanVars, readerVars
  <2>3. Phases' /\ Unfinished'
    BY <2>1 DEF Phases, Unfinished
  <2>q. QED
    BY <2>1, <2>2, <2>3, ReadersStay
<1>q. QED
  BY <1>1, <1>2

\* A coding tree unit is accepted.
LEMMA AcceptCtuKeeps ==
    ASSUME NEW before, NEW after, NEW starts, Framed(before, after, starts),
           Holds(before, after, starts), AcceptCtu
    PROVE  Holds(before, after, starts)'
<1> USE DEF Holds
<1>1. /\ Running /\ pc = "ctu" /\ ~failed /\ ctus' = ctus + 1 /\ asked' = 0
      /\ UNCHANGED <<inputVars, pc, resume, scanVars, readerVars, filling,
                     toSkip, buffer, failed, dry, taken, result>>
  BY DEF AcceptCtu, Running
<1>2. TypeOK'
  BY <1>1 DEF TypeOK, inputVars, scanVars, readerVars
<1>3. Phases' /\ Unfinished'
  BY <1>1 DEF Phases, Unfinished
<1>q. QED
  BY <1>1, <1>2, <1>3, ReadersStay

\* A read that fails is remembered.
LEMMA FailReadKeeps ==
    ASSUME NEW before, NEW after, NEW starts, Framed(before, after, starts),
           Holds(before, after, starts), FailRead
    PROVE  Holds(before, after, starts)'
<1> USE DEF Holds
<1>1. /\ Running /\ pc = "read" /\ resume # "skip" /\ resume # "scan"
      /\ failed' /\ failed' = TRUE /\ asked' = asked + 1
      /\ filling' = << >> /\ pc' = resume
      /\ UNCHANGED <<inputVars, resume, scanVars, readerVars, toSkip, buffer,
                     dry, taken, ctus, result>>
  BY DEF FailRead, ReadFails, Running, Phases
<1>2. TypeOK'
  <2>1. asked' \in Nat /\ filling' \in Seq(Nat) /\ pc' \in {"start", "ctu"}
    BY <1>1 DEF TypeOK
  <2>q. QED
    BY <1>1, <2>1 DEF TypeOK, inputVars, scanVars, readerVars
<1>3. Phases' /\ Unfinished'
  BY <1>1, <1>2 DEF Phases, Unfinished, TypeOK
<1>4. Matched' /\ SameBytes'
  BY <1>1 DEF Matched, SameBytes
<1>5. LaidOut(Bytes(before, after))'
  BY <1>1, InputsStay
<1>6. Scanned(before, starts)'
  BY <1>1 DEF Scanned, inputVars, scanVars
<1>7. Chained(before)'
  BY <1>1 DEF Chained, Consumed, inputVars, readerVars
<1>q. QED
  BY <1>2, <1>3, <1>4, <1>5, <1>6, <1>7

\* A read of header bytes ends: they are dropped.
LEMMA EndSkipKeeps ==
    ASSUME NEW before, NEW after, NEW starts, Framed(before, after, starts),
           Holds(before, after, starts), EndSkip
    PROVE  Holds(before, after, starts)'
<1> USE DEF Holds
<1>1. /\ Running /\ pc = "read" /\ resume = "skip" /\ Len(filling) = Wanted
      /\ toSkip' = toSkip - Wanted /\ filling' = << >> /\ pc' = "skip"
      /\ UNCHANGED <<inputVars, resume, scanVars, readerVars, cabacVars, ctus,
                     result>>
      /\ UNCHANGED <<taken, buffer, failed, dry>>
  BY DEF EndSkip, ReadEnds, Running, cabacVars
<1>2. taken = << >> /\ buffer = << >> /\ ~dry /\ ~failed
  BY <1>1 DEF Phases
<1>3. /\ payload \in Seq(Nat) /\ Len(payload) \in Nat
      /\ toSkip \in Nat /\ dataOffset \in Nat
      /\ remaining \in Nat /\ Len(ahead) \in Nat
      /\ filling \in Seq(Nat) /\ Len(filling) \in Nat
  BY LenProperties DEF TypeOK
<1>4. Wanted \in Nat /\ Wanted <= toSkip
  BY <1>1, <1>3, Positive DEF Wanted, Smaller
<1>5. TypeOK'
  <2>1. toSkip' \in Nat /\ filling' \in Seq(Nat)
    BY <1>1, <1>3, <1>4
  <2>q. QED
    BY <1>1, <2>1 DEF TypeOK, inputVars, scanVars, readerVars, cabacVars
<1>6. Phases' /\ Unfinished'
  BY <1>1, <1>2 DEF Phases, Unfinished
<1>7. SameBytes' /\ LaidOut(Bytes(before, after))' /\ Scanned(before, starts)'
  <2>1. SameBytes'
    BY <1>1, SameBytesStay DEF inputVars, scanVars
  <2>2. LaidOut(Bytes(before, after))'
    BY <1>1, InputsStay
  <2>3. Scanned(before, starts)'
    BY <1>1 DEF Scanned, inputVars, scanVars
  <2>q. QED
    BY <2>1, <2>2, <2>3
<1>8. payload' = payload /\ Consumed' = Consumed
  BY <1>1 DEF Consumed, inputVars, readerVars
<1>9. Chained(before)'
  BY <1>1, <1>8 DEF Chained, readerVars
<1>10. Matched'
  <2> DEFINE k == KeptCount(payload, Consumed)
             d == dataOffset - toSkip
             e == dataOffset - toSkip'
  <2>1. /\ toSkip <= dataOffset /\ d <= k
        /\ Delivered = SubSeq(Stripped(payload), d + 1, k)
    BY <1>1, <1>2 DEF Matched
  <2>2. Delivered = filling
    <3>1. << >> \o << >> = << >> /\ << >> \o filling = filling
      BY <1>3, ConcatEmptySeq, EmptySeq
    <3>q. QED
      BY <3>1, <1>2 DEF Delivered
  <2>3. Consumed \in Nat /\ Consumed <= Len(payload)
    <3>1. remaining + Len(ahead) <= Len(payload)
      BY <1>1 DEF Chained
    <3>q. QED
      BY <3>1, <1>3 DEF Consumed
  <2>4. k \in Nat /\ k <= Len(Stripped(payload))
        /\ Stripped(payload) \in Seq(Nat)
    <3>1. k <= KeptCount(payload, Len(payload)) /\ k \in Nat
      BY <2>3, <1>3, KeptGrows, KeptFinite
    <3>q. QED
      BY <3>1, <1>3, StrippedProperties
  <2>5. d \in Nat
    BY <2>1, <1>3
  <2> HIDE DEF k, d
  <2>6. Len(filling) = k - d
    BY <2>1, <2>2, <2>4, <2>5, PartProperties
  <2>7. e = k /\ toSkip' <= dataOffset
    BY <1>1, <1>3, <1>4, <2>1, <2>4, <2>6 DEF d
  <2>8. SubSeq(Stripped(payload), e + 1, k) = << >>
    BY <2>4, <2>7, SubSeqEmpty
  <2>9. Delivered' = << >>
    BY <1>1, <1>2 DEF Delivered
  <2>10. dataOffset' = dataOffset /\ ~dry'
    BY <1>1, <1>2 DEF scanVars
  <2>q. QED
    BY <2>4, <2>7, <2>8, <2>9, <2>10, <1>8 DEF Matched, k
<1>q. QED
  BY <1>5, <1>6, <1>7, <1>9, <1>10

\* What has been taken is in its place.
LEMMA TakenMatches ==
    ASSUME TypeOK, Running, ~failed, toSkip = 0, Matched,
           remaining + Len(ahead) <= Len(payload),
           NEW t \in Seq(Nat), NEW u \in Seq(Nat), t \o u = Delivered
    PROVE  /\ IsPrefix(t, Whole)
           /\ remaining = 0 /\ ahead = << >> /\ u = << >> => t = Whole
<1> DEFINE whole == Stripped(payload)
           n == KeptCount(payload, Consumed)
<1>1. /\ payload \in Seq(Nat) /\ Len(payload) \in Nat /\ dataOffset \in Nat
      /\ remaining \in Nat /\ Len(ahead) \in Nat
  BY LenProperties DEF TypeOK
<1>2. Consumed \in Nat /\ Consumed <= Len(payload)
  BY <1>1 DEF Consumed
<1>3. /\ dataOffset - toSkip = dataOffset
      /\ dataOffset <= n
      /\ Delivered = SubSeq(whole, dataOffset + 1, n)
  BY <1>1 DEF Matched
<1>4. /\ whole \in Seq(Nat) /\ n \in Nat /\ n <= Len(whole)
      /\ Len(whole) = KeptCount(payload, Len(payload))
  <2>1. n <= KeptCount(payload, Len(payload)) /\ n \in Nat
    BY <1>1, <1>2, KeptGrows, KeptFinite
  <2>q. QED
    BY <2>1, <1>1, StrippedProperties
<1>5. Whole = SubSeq(whole, dataOffset + 1, Len(whole))
  BY DEF Whole
<1>6. remaining = 0 /\ ahead = << >> => n = Len(whole)
  <2> SUFFICES ASSUME remaining = 0, ahead = << >> PROVE n = Len(whole)
    OBVIOUS
  <2>1. Len(ahead) = 0
    OBVIOUS
  <2>2. Consumed = Len(payload)
    BY <2>1, <1>1 DEF Consumed
  <2>q. QED
    BY <2>2, <1>4
<1> HIDE DEF whole, n
<1>7. /\ IsPrefix(t, SubSeq(whole, dataOffset + 1, Len(whole)))
      /\ n = Len(whole) /\ u = << >> => t = SubSeq(whole, dataOffset + 1, Len(whole))
  BY ZenonT(60), <1>1, <1>3, <1>4, TakenInPlace
<1>q. QED
  BY <1>5, <1>6, <1>7

\* The entropy decoder takes a buffered byte.
LEMMA TakeByteKeeps ==
    ASSUME NEW before, NEW after, NEW starts, Framed(before, after, starts),
           Holds(before, after, starts), TakeByte
    PROVE  Holds(before, after, starts)'
<1> USE DEF Holds
<1>1. /\ Running /\ pc \in {"start", "ctu"} /\ buffer # << >>
      /\ taken' = Append(taken, Head(buffer)) /\ buffer' = Tail(buffer)
      /\ asked' = asked + 1
      /\ UNCHANGED <<inputVars, pc, resume, scanVars, readerVars, filling,
                     toSkip, failed, dry, ctus, result>>
  BY DEF TakeByte, NextByte, Running
<1>2. toSkip = 0 /\ filling = << >>
  BY <1>1 DEF Phases
<1>3. taken \in Seq(Nat) /\ buffer \in Seq(Nat)
  BY DEF TypeOK
<1>4. /\ taken' \in Seq(Nat) /\ buffer' \in Seq(Nat)
      /\ taken' \o buffer' = taken \o buffer
  BY <1>1, <1>3, MovesHead
<1>5. Delivered' = Delivered
  BY <1>1, <1>4 DEF Delivered
<1>6. payload' = payload /\ Consumed' = Consumed
  BY <1>1 DEF Consumed, inputVars, readerVars
<1>7. TypeOK'
  <2>1. asked' \in Nat
    BY <1>1 DEF TypeOK
  <2>q. QED
    BY <1>1, <1>4, <2>1 DEF TypeOK, inputVars, scanVars, readerVars
<1>8. Phases' /\ Unfinished'
  BY <1>1, <1>2 DEF Phases, Unfinished
<1>9. ~failed => ~dry
  BY <1>1 DEF Matched
<1>10. Matched'
  BY <1>1, <1>5, <1>6, <1>9 DEF Matched, scanVars
<1>11. SameBytes'
  <2> SUFFICES ASSUME ~failed' PROVE IsPrefix(taken', Whole')
    BY <1>1, <1>9 DEF SameBytes
  <2>1. remaining + Len(ahead) <= Len(payload)
    BY <1>1 DEF Chained
  <2>2. taken' \o buffer' = Delivered
    <3>1. taken \o buffer \in Seq(Nat)
      BY <1>3, ConcatProperties
    <3>2. (taken \o buffer) \o << >> = taken \o buffer
      BY <3>1, ConcatEmptySeq
    <3>q. QED
      BY <3>2, <1>2, <1>4 DEF Delivered
  <2>3. IsPrefix(taken', Whole)
    BY <2>1, <2>2, <1>1, <1>2, <1>4, TakenMatches
  <2>4. Whole' = Whole
    BY <1>1, <1>6 DEF Whole, scanVars
  <2>q. QED
    BY <2>3, <2>4
<1>12. LaidOut(Bytes(before, after))'
  BY <1>1, InputsStay
<1>13. Scanned(before, starts)'
  BY <1>1, <1>6 DEF Scanned, scanVars
<1>14. Chained(before)'
  BY <1>1, <1>6 DEF Chained, readerVars
<1>q. QED
  BY <1>7, <1>8, <1>10, <1>11, <1>12, <1>13, <1>14

\* A read for the entropy decoder ends, and may find the end.
LEMMA EndReadKeeps ==
    ASSUME NEW before, NEW after, NEW starts, Framed(before, after, starts),
           Holds(before, after, starts), EndRead
    PROVE  Holds(before, after, starts)'
<1> USE DEF Holds
<1>1. /\ Running /\ pc = "read" /\ ReadEnds /\ resume # "skip" /\ resume # "scan"
      /\ IF filling = << >>
         THEN dry' = TRUE /\ buffer' = buffer /\ taken' = taken
         ELSE /\ taken' = Append(taken, Head(filling))
              /\ buffer' = Tail(filling)
              /\ dry' = dry
      /\ asked' = asked + 1 /\ filling' = << >> /\ pc' = resume
      /\ UNCHANGED <<inputVars, resume, scanVars, readerVars, toSkip,
                     failed, ctus, result>>
  BY DEF EndRead, ReadEnds, Running, Phases
<1>2. /\ buffer = << >> /\ toSkip = 0
  BY <1>1 DEF Phases
<1>3. taken \in Seq(Nat) /\ filling \in Seq(Nat)
  BY DEF TypeOK
<1>4. /\ taken' \in Seq(Nat) /\ buffer' \in Seq(Nat)
      /\ taken' \o buffer' = taken \o filling
      /\ dry' \in BOOLEAN
  <2>1. CASE filling = << >>
    BY <2>1, <1>1, <1>2, <1>3, EmptySeq DEF TypeOK
  <2>2. CASE filling # << >>
    <3>1. taken' = Append(taken, Head(filling)) /\ buffer' = Tail(filling)
          /\ dry' = dry
      BY <2>2, <1>1
    <3>q. QED
      BY <3>1, <2>2, <1>3, MovesHead DEF TypeOK
  <2>q. QED
    BY <2>1, <2>2
<1>5. Delivered = taken \o filling /\ Delivered' = taken \o filling
  <2>1. taken \o << >> = taken
    BY <1>3, ConcatEmptySeq
  <2>2. taken' \o buffer' \in Seq(Nat)
    BY <1>4, ConcatProperties
  <2>3. (taken' \o buffer') \o << >> = taken' \o buffer'
    BY <2>2, ConcatEmptySeq
  <2>q. QED
    BY <2>1, <2>3, <1>1, <1>2, <1>4 DEF Delivered
<1>6. payload' = payload /\ Consumed' = Consumed
  BY <1>1 DEF Consumed, inputVars, readerVars
<1>7. TypeOK'
  <2>1. asked' \in Nat /\ filling' \in Seq(Nat) /\ pc' \in {"start", "ctu"}
    BY <1>1 DEF TypeOK
  <2>q. QED
    BY <1>1, <1>4, <2>1 DEF TypeOK, inputVars, scanVars, readerVars
<1>8. Phases' /\ Unfinished'
  <2>1. pc' \in {"start", "ctu"}
    BY <1>1 DEF TypeOK
  <2>q. QED
    BY <2>1, <1>1, <1>2 DEF Phases, Unfinished
<1>9. filling = << >> => remaining = 0 /\ ahead = << >>
  <2> SUFFICES ASSUME filling = << >>, Len(filling) = Wanted PROVE FALSE
    BY <1>1 DEF ReadEnds
  <2>1. Wanted = Capacity /\ Len(filling) = 0
    BY <1>1 DEF Wanted
  <2>q. QED
    BY <2>1, Positive
<1>10. ~failed /\ dry' => /\ remaining = 0 /\ ahead = << >>
                          /\ filling = << >> /\ buffer' = << >>
  <2> SUFFICES ASSUME ~failed, dry'
               PROVE  /\ remaining = 0 /\ ahead = << >>
                      /\ filling = << >> /\ buffer' = << >>
    OBVIOUS
  <2>1. CASE filling = << >>
    BY <2>1, <1>1, <1>2, <1>9
  <2>2. CASE filling # << >>
    <3>1. dry
      BY <2>2, <1>1
    <3>q. QED
      BY <3>1, <2>2, <1>1 DEF Matched
  <2>q. QED
    BY <2>1, <2>2
<1>11. Matched'
  <2> SUFFICES ASSUME ~failed' PROVE Matched'
    BY DEF Matched
  <2>1. ~failed /\ dataOffset' = dataOffset /\ toSkip' = toSkip
        /\ remaining' = remaining /\ ahead' = ahead
    BY <1>1 DEF scanVars, readerVars
  <2>q. QED
    BY <2>1, <1>1, <1>5, <1>6, <1>10 DEF Matched
<1>12. SameBytes'
  <2> SUFFICES ASSUME ~failed'
               PROVE  IsPrefix(taken', Whole') /\ (dry' => taken' = Whole')
    BY DEF SameBytes
  <2>1. remaining + Len(ahead) <= Len(payload) /\ ~failed
    BY <1>1 DEF Chained
  <2>2. taken' \o buffer' = Delivered
    BY <1>4, <1>5
  <2>3. /\ IsPrefix(taken', Whole)
        /\ remaining = 0 /\ ahead = << >> /\ buffer' = << >> => taken' = Whole
    BY <2>1, <2>2, <1>1, <1>2, <1>4, TakenMatches
  <2>4. Whole' = Whole
    BY <1>1, <1>6 DEF Whole, scanVars
  <2>q. QED
    BY <2>1, <2>3, <2>4, <1>10
<1>13. LaidOut(Bytes(before, after))'
  BY <1>1, InputsStay
<1>14. Scanned(before, starts)'
  BY <1>1, <1>6, <1>7 DEF Scanned, scanVars, TypeOK
<1>15. Chained(before)'
  BY <1>1, <1>6 DEF Chained, readerVars
<1>q. QED
  BY <1>7, <1>8, <1>11, <1>12, <1>13, <1>14, <1>15

-----------------------------------------------------------------------------
(* The theorems.                                                           *)

\* The invariant holds at first.
LEMMA InitHolds == Init => IInv
<1> SUFFICES ASSUME Init PROVE IInv
  OBVIOUS
<1>1. PICK before \in Before, after \in After, swapped \in BOOLEAN :
          \E cut \in {c \in Cuts : c <= Len(Bytes(before, after))} :
              /\ file = Layout(Bytes(before, after), cut, swapped).file
              /\ extents = Layout(Bytes(before, after), cut, swapped).extents
  BY Zenon DEF Init, Bytes
<1>2. PICK starts \in SUBSET (0 .. Len(before)) : Delimits(starts, before)
  BY ItemAssumption
<1>3. payload \in Seq(Nat) /\ before \in Seq(Nat) /\ after \in Seq(Nat)
  BY SliceAssumption, ItemAssumption DEF Init
<1>4. LaidOut(Bytes(before, after))
  <2>1. Len(Bytes(before, after)) \in Nat
    BY <1>3, BytesHold, LenProperties
  <2>2. \A c \in Cuts : c \in Nat
    BY SliceAssumption
  <2>3. \A c \in Cuts : c <= Len(Bytes(before, after))
                            => c \in 0 .. Len(Bytes(before, after))
    BY <2>1, <2>2
  <2>q. QED
    BY <1>1, <2>3 DEF LaidOut
<1>5. TypeOK
  <2>1. << >> \in Seq(Nat)
    BY EmptySeq
  <2>q. QED
    <3>1. /\ pc = "scan" /\ resume = "scan"
          /\ position = 0 /\ nals = 0
          /\ dataOffset = 0 /\ remaining = 0
          /\ ahead = << >> /\ zeroes = 0 /\ filling = << >> /\ toSkip = 0
          /\ buffer = << >> /\ failed = FALSE /\ asked = 0 /\ dry = FALSE
          /\ taken = << >> /\ ctus = 0 /\ result = "none"
      BY Zenon DEF Init
    <3>2. /\ position \in Nat /\ nals \in Nat
          /\ dataOffset \in Nat /\ remaining \in Nat /\ toSkip \in Nat
          /\ zeroes \in 0 .. 2 /\ asked \in Nat /\ ctus \in Nat
      BY <3>1
    <3>3. /\ pc \in {"scan", "skip", "read", "start", "ctu", "returned"}
          /\ resume \in {"scan", "skip", "start", "ctu"}
          /\ result \in {"none", "refused", "error", "done"}
          /\ failed \in BOOLEAN /\ dry \in BOOLEAN
      BY <3>1, Zenon
    <3>4. /\ ahead \in Seq(Nat) /\ filling \in Seq(Nat)
          /\ buffer \in Seq(Nat) /\ taken \in Seq(Nat)
      BY <3>1, <2>1
    <3>q. QED
      BY <3>2, <3>3, <3>4, <1>3, Zenon DEF TypeOK
<1>6. Phases /\ Matched /\ Unfinished /\ Chained(before)
  BY DEF Init, Phases, Matched, Unfinished, Chained, Running
<1>7. Scanned(before, starts)
  BY <1>2 DEF Init, Scanned, Delimits
<1>8. SameBytes
  <2>1. Stripped(payload) \in Seq(Nat) /\ Len(Stripped(payload)) \in Nat
    BY <1>3, StrippedProperties, LenProperties
  <2>2. 0 \in Nat /\ 0 <= Len(Stripped(payload)) /\ dataOffset = 0
        /\ Len(Stripped(payload)) <= Len(Stripped(payload))
    BY <2>1 DEF Init
  <2>3. Whole \in Seq(Nat)
    BY <2>1, <2>2, PartProperties DEF Whole
  <2>4. Len(Whole) \in Nat /\ Len(<< >>) = 0
    BY <2>3, LenProperties
  <2>5. SubSeq(<< >>, 1, 0) = << >> /\ SubSeq(Whole, 1, 0) = << >>
    BY SubSeqEmpty
  <2>6. taken = << >> /\ ~dry
    BY DEF Init
  <2>q. QED
    BY <2>4, <2>5, <2>6 DEF SameBytes, IsPrefix
<1>q. QED
  BY <1>2, <1>4, <1>5, <1>6, <1>7, <1>8 DEF IInv, Holds

\* Nothing changes.
LEMMA StutterKeeps ==
    ASSUME NEW before, NEW after, NEW starts, Holds(before, after, starts),
           UNCHANGED vars
    PROVE  Holds(before, after, starts)'
<1> USE DEF Holds, vars, inputVars, scanVars, readerVars, cabacVars
<1>1. TypeOK'
  BY DEF TypeOK
<1>2. Phases' /\ Unfinished'
  BY DEF Phases, Unfinished, Wanted
<1>3. SameBytes'
  BY SameBytesStay
<1>4. LaidOut(Bytes(before, after))'
  BY InputsStay
<1>5. Scanned(before, starts)'
  BY DEF Scanned
<1>6. payload' = payload /\ Consumed' = Consumed /\ Running' = Running
  BY DEF Consumed, Running
<1>7. Chained(before)'
  BY <1>6 DEF Chained
<1>8. Matched'
  BY <1>6 DEF Matched, Delivered
<1>q. QED
  BY <1>1, <1>2, <1>3, <1>4, <1>5, <1>7, <1>8

\* The invariant is kept by each action.
LEMMA NextKeeps ==
    ASSUME NEW before, NEW after, NEW starts, Framed(before, after, starts),
           Holds(before, after, starts), [Next]_vars
    PROVE  Holds(before, after, starts)'
<1>1. CASE ScanNal
  BY <1>1, ScanNalKeeps
<1>2. CASE FailScan
  BY <1>2, ReturnKeeps DEF FailScan
<1>3. CASE Prepare
  BY <1>3, PrepareKeeps
<1>4. CASE StartSkip \/ AskForMore
  BY <1>4, StartReadKeeps
<1>5. CASE EndSkip
  BY <1>5, EndSkipKeeps
<1>6. CASE FailSkip
  BY <1>6, ReturnKeeps DEF FailSkip
<1>7. CASE Skip
  BY <1>7, SkipKeeps
<1>8. CASE FillAhead
  BY <1>8, FillAheadKeeps
<1>9. CASE PassByte
  BY <1>9, PassByteKeeps
<1>10. CASE TakeByte
  BY <1>10, TakeByteKeeps
<1>11. CASE EndRead
  BY <1>11, EndReadKeeps
<1>12. CASE FailRead
  BY <1>12, FailReadKeeps
<1>13. CASE Start
  BY <1>13, StartKeeps
<1>14. CASE AcceptCtu
  BY <1>14, AcceptCtuKeeps
<1>15. CASE FailCtu
  BY <1>15, ReturnKeeps DEF FailCtu
<1>16. CASE Done
  <2>1. ~failed
    <3>1. pc = "ctu" /\ ctus = MaxCtus
      BY <1>16 DEF Done
    <3>2. failed => ctus < MaxCtus
      BY <3>1 DEF Holds, Unfinished
    <3>q. QED
      BY <3>1, <3>2, Positive
  <2>q. QED
    BY <2>1, <1>16, ReturnKeeps DEF Done
<1>17. CASE Returned \/ UNCHANGED vars
  BY <1>17, StutterKeeps DEF Returned
<1>q. QED
  BY <1>1, <1>2, <1>3, <1>4, <1>5, <1>6, <1>7, <1>8, <1>9, <1>10, <1>11,
     <1>12, <1>13, <1>14, <1>15, <1>16, <1>17 DEF Next

\* The invariant is inductive.
LEMMA IInvNext == IInv /\ [Next]_vars => IInv'
<1> SUFFICES ASSUME IInv, [Next]_vars PROVE IInv'
  OBVIOUS
<1>0. PICK before \in Before, after \in After :
          \E starts \in SUBSET (0 .. Len(before)) :
              Delimits(starts, before) /\ Holds(before, after, starts)
  BY DEF IInv
<1>1. PICK starts \in SUBSET (0 .. Len(before)) :
          Delimits(starts, before) /\ Holds(before, after, starts)
  BY <1>0
<1>2. Holds(before, after, starts)'
  BY <1>1, NextKeeps DEF Framed
<1>q. QED
  BY <1>1, <1>2 DEF IInv

\* In every state each reader of the chain is where the others take it to be.
THEOREM InvAlways == Spec => []IInv
<1>q. QED
  BY InitHolds, IInvNext, PTL DEF Spec

\* Wherever the extents, the read-ahead and the buffers cut the slice, the
\* arithmetic decoder is given the bytes that it would find in memory.
THEOREM BytesAreTheSame == Spec => []SameBytes
<1>1. IInv => SameBytes
  BY DEF IInv, Holds
<1>q. QED
  BY <1>1, InvAlways, PTL

\* Once a read has failed no coding tree unit is accepted, and the slice does
\* not succeed.
LEMMA StepAfterFailure ==
    ASSUME IInv, [Next]_vars, failed
    PROVE  ctus' = ctus /\ result' # "done"
<1>0. TypeOK /\ Phases /\ Unfinished
  BY DEF IInv, Holds
<1>1. result # "done" /\ (pc = "ctu" => ctus < MaxCtus)
  BY <1>0 DEF Unfinished
<1>2. CASE UNCHANGED vars \/ Returned
  BY <1>1, <1>2 DEF vars, Returned
<1>3. CASE FailScan \/ Prepare \/ FailSkip \/ Start \/ FailCtu
  <2>1. pc # "scan"
    BY <1>0 DEF Phases
  <2>q. QED
    BY <1>1, <1>3, <2>1 DEF FailScan, Prepare, FailSkip, Start, FailCtu, Return
<1>4. CASE Done
  <2>1. FALSE
    BY <1>1, <1>4, Positive DEF Done
  <2>q. QED
    BY <2>1
<1>5. CASE AcceptCtu
  BY <1>5 DEF AcceptCtu
<1>6. CASE ScanNal \/ StartSkip \/ EndSkip \/ Skip \/ FillAhead \/ PassByte
           \/ TakeByte \/ AskForMore \/ EndRead \/ FailRead
  BY <1>1, <1>6 DEF ScanNal, StartSkip, EndSkip, Skip, FillAhead, PassByte,
                    TakeByte, AskForMore, EndRead, FailRead
<1>q. QED
  BY <1>2, <1>3, <1>4, <1>5, <1>6 DEF Next

\* Once a read has failed, no coding tree unit is accepted and the decode
\* never reports success.
THEOREM FailureIsFinal == Spec => NoneAfterFailure
<1>1. IInv /\ [Next]_vars => [failed => ctus' = ctus /\ result' # "done"]_vars
  BY StepAfterFailure
<1>q. QED
  BY <1>1, InvAlways, PTL DEF Spec, NoneAfterFailure

-----------------------------------------------------------------------------
(* Entry points.                                                           *)

\* The EPBs and the other positions in front of c are all there are.
LEMMA SkippedOrKept ==
    ASSUME NEW bytes, NEW c \in Nat
    PROVE  CountBelow(Skipped(bytes), c) + KeptCount(bytes, c) = c
<1> DEFINE A == Below(Skipped(bytes), c)
           B == Below(Nat \ Skipped(bytes), c)
<1>1. IsFiniteSet(A) /\ IsFiniteSet(B)
  BY CountFinite
<1>2. A \cup B = 0 .. c - 1 /\ A \cap B = {}
  BY DEF Below
<1>3. Cardinality(0 .. c - 1) = c
  BY FS_Interval
<1> HIDE DEF A, B
<1>4. Cardinality(A \cup B)
         = Cardinality(A) + Cardinality(B) - Cardinality(A \cap B)
  BY <1>1, FS_Union
<1>5. Cardinality({}) = 0 /\ Cardinality(A) \in Nat /\ Cardinality(B) \in Nat
  BY <1>1, FS_EmptySet, FS_CardinalityType
<1>6. Cardinality(A) + Cardinality(B) = c
  <2>1. c = Cardinality(A) + Cardinality(B) - 0
    BY <1>2, <1>3, <1>4, <1>5, Zenon
  <2> DEFINE u == Cardinality(A)
             v == Cardinality(B)
  <2> HIDE DEF u, v
  <2>2. c = u + v - 0 /\ u \in Nat /\ v \in Nat
    BY <2>1, <1>5, Zenon DEF u, v
  <2>3. u + v = c
    BY ONLY <2>2
  <2>q. QED
    BY <2>3, Zenon DEF u, v
<1>q. QED
  BY <1>6 DEF A, B, CountBelow, KeptCount

\* Members between two positions.
LEMMA CountBetween ==
    ASSUME NEW S, NEW a \in Nat, NEW b \in Nat, a <= b
    PROVE  Cardinality({p \in Below(S, b) : p >= a})
              = CountBelow(S, b) - CountBelow(S, a)
<1> DEFINE A == Below(S, a)
           B == Below(S, b)
           D == {p \in B : p >= a}
<1>1. IsFiniteSet(A) /\ IsFiniteSet(B)
  BY CountFinite
<1>2. D \cup A = B /\ D \cap A = {} /\ D \in SUBSET B
  BY DEF Below
<1> HIDE DEF A, B, D
<1>3. IsFiniteSet(D)
  BY <1>1, <1>2, FS_Subset
<1>4. Cardinality(D \cup A)
         = Cardinality(D) + Cardinality(A) - Cardinality(D \cap A)
  BY <1>1, <1>3, FS_Union
<1>5. Cardinality({}) = 0 /\ Cardinality(A) \in Nat /\ Cardinality(D) \in Nat
  BY <1>1, <1>3, FS_EmptySet, FS_CardinalityType
<1>6. Cardinality(D) = Cardinality(B) - Cardinality(A)
  <2>1. Cardinality(B) = Cardinality(D) + Cardinality(A) - 0
    BY <1>2, <1>4, <1>5, Zenon
  <2> DEFINE u == Cardinality(A)
             v == Cardinality(B)
             w == Cardinality(D)
  <2> HIDE DEF u, v, w
  <2>2. v = w + u - 0 /\ u \in Nat /\ w \in Nat
    BY <2>1, <1>5, Zenon DEF u, v, w
  <2>3. w = v - u
    BY ONLY <2>2
  <2>q. QED
    BY <2>3, Zenon DEF u, v, w
<1>q. QED
  BY <1>6 DEF A, B, D, CountBelow

\* Behind the first bytes of a slice of which so many are kept, the EPBs of
\* the header are those in front.
LEMMA HeaderEndsThere ==
    ASSUME payload \in Seq(Nat), NEW offset \in Nat,
           NEW start \in 0 .. Len(payload),
           KeptCount(payload, start) = offset,
           \A m \in 0 .. start - 1 : KeptCount(payload, m) < offset
    PROVE  offset + HeaderEpbs(offset) = start
<1> DEFINE E == Skipped(payload)
           n == Len(payload)
           skipped == Sorted(E)
           Inside(k) == skipped[k] < offset + k - 1
           c == CountBelow(E, start)
<1>0. n \in Nat /\ start \in Nat /\ start <= n
  BY LenProperties
<1>1. E \in SUBSET (0 .. n - 1)
  BY <1>0 DEF Skipped
<1>2. \A m \in Nat : CountBelow(E, m) + KeptCount(payload, m) = m
  BY SkippedOrKept
<1>3. HeaderEpbs(offset)
         = Cardinality({k \in 1 .. Len(skipped) : \A m \in 1 .. k : Inside(m)})
  BY DEF HeaderEpbs
<1> HIDE DEF E
<1>4. /\ CountBelow(E, n) \in Nat
      /\ skipped \in [1 .. CountBelow(E, n) -> E]
      /\ \A k \in 1 .. CountBelow(E, n) : CountBelow(E, skipped[k]) = k - 1
  BY <1>0, <1>1, SortedProperties
<1> HIDE DEF skipped, c
<1>5. Len(skipped) = CountBelow(E, n)
  BY <1>4
<1>6. c \in Nat /\ c <= CountBelow(E, n) /\ c + offset = start
  BY <1>0, <1>2, CountFinite, CountGrows DEF c
<1>7. ASSUME NEW k \in 1 .. CountBelow(E, n)
      PROVE  Inside(k) <=> k <= c
  <2> DEFINE p == skipped[k]
  <2>1. p \in E /\ p \in Nat /\ CountBelow(E, p) = k - 1
    <3>1. p \in E /\ CountBelow(E, p) = k - 1
      BY <1>4, Zenon
    <3>2. \A e \in 0 .. n - 1 : e \in Nat
      BY ONLY <1>0
    <3>3. p \in 0 .. n - 1
      BY ONLY <3>1, <1>1
    <3>q. QED
      BY <3>1, <3>2, <3>3, Zenon
  <2> HIDE DEF p
  <2>2. KeptCount(payload, p) = p - (k - 1) /\ k \in Nat
        /\ KeptCount(payload, p) \in Nat
    <3>1. KeptCount(payload, p) \in Nat
      BY <2>1, KeptFinite
    <3>2. (k - 1) + KeptCount(payload, p) = p
      BY <2>1, <1>2, Zenon
    <3>3. k \in Nat
      BY ONLY <1>4, k \in 1 .. CountBelow(E, n)
    <3> DEFINE u == KeptCount(payload, p)
    <3> HIDE DEF u
    <3>4. u \in Nat /\ (k - 1) + u = p
      BY <3>1, <3>2, Zenon DEF u
    <3>5. u = p - (k - 1)
      BY ONLY <3>3, <3>4, <2>1
    <3>q. QED
      BY <3>1, <3>3, <3>5, Zenon DEF u
  <2>3. CASE p < start
    <3>1. CountBelow(E, p) < c
      BY <2>1, <2>3, <1>0, CountGrowsAfter DEF c
    <3>2. KeptCount(payload, p) < offset
      <4>1. p \in 0 .. start - 1
        BY <2>1, <2>3, <1>0
      <4>q. QED
        BY <4>1
    <3>q. QED
      BY SMTT(30), <3>1, <3>2, <2>1, <2>2, <1>6 DEF p
  <2>4. CASE ~(p < start)
    <3>0. start <= p
      BY <2>1, <2>4, <1>0
    <3>1. c <= CountBelow(E, p)
      BY <3>0, <2>1, <1>0, CountGrows DEF c
    <3>2. offset <= KeptCount(payload, p)
      BY <3>0, <2>1, <1>0, KeptGrows
    <3>q. QED
      BY <3>1, <3>2, <2>1, <2>2, <1>6 DEF p
  <2>q. QED
    BY <2>3, <2>4
<1>8. {k \in 1 .. Len(skipped) : \A m \in 1 .. k : Inside(m)} = 1 .. c
  <2> HIDE DEF Inside
  <2>1. ASSUME NEW k \in 1 .. CountBelow(E, n)
        PROVE  (\A m \in 1 .. k : Inside(m)) <=> k <= c
    <3>1. k \in 1 .. k /\ \A m \in 1 .. k : m \in 1 .. CountBelow(E, n) /\ m <= k
      BY <1>4
    <3>2. ASSUME k <= c, NEW m \in 1 .. k PROVE m <= c
      BY <3>2, <1>6
    <3>q. QED
      BY <3>1, <3>2, <1>7
  <2>2. \A k \in 1 .. CountBelow(E, n) : k <= c <=> k \in 1 .. c
    BY <1>6
  <2>3. \A k \in 1 .. c : k \in 1 .. CountBelow(E, n)
    BY <1>4, <1>6
  <2>q. QED
    BY <1>5, <2>1, <2>2, <2>3
<1>9. HeaderEpbs(offset) = c
  <2>1. Cardinality(1 .. c) = c
    BY <1>6, FS_Interval
  <2>q. QED
    BY <2>1, <1>3, <1>8
<1>q. QED
  BY <1>6, <1>9

\* The entry points are right for every slice.
LEMMA EntryPoints ==
    ASSUME payload \in Seq(Nat)
    PROVE  EntryPointsRight
<1> DEFINE n == Len(payload)
           E == Skipped(payload)
           kept == {i \in 0 .. Len(payload) - 1 : i \notin Skipped(payload)}
           Kept(m) == Cardinality({i \in kept : i < m})
           First(m, offset) == /\ Kept(m) = offset
                               /\ \A l \in 0 .. m - 1 : Kept(l) < offset
           FirstPlace(offset) == CHOOSE m \in 0 .. Len(payload) : First(m, offset)
<1>0. n \in Nat /\ Len(Stripped(payload)) = KeptCount(payload, n)
      /\ KeptCount(payload, n) \in Nat
  BY LenProperties, StrippedProperties, KeptFinite
<1>1. ASSUME NEW m \in Nat, m <= n
      PROVE  Kept(m) = KeptCount(payload, m)
  <2>1. \A i \in kept : i \in Int /\ 0 <= i /\ i < n
    BY <1>0
  <2>2. {i \in kept : i < m} = Below(Nat \ Skipped(payload), m)
    BY <1>0, <1>1, <2>1 DEF Below
  <2>q. QED
    BY <2>2 DEF KeptCount, CountBelow
<1> HIDE DEF kept, Kept
<1> SUFFICES ASSUME NEW offset \in 0 .. Len(Stripped(payload)),
                    NEW transmitted \in 1 .. Len(payload) - FirstPlace(offset)
             PROVE  EntryPoint(offset, transmitted)
                       = Kept(FirstPlace(offset) + transmitted) - offset
  BY DEF EntryPointsRight, kept, Kept
<1>2. offset \in Nat /\ offset <= KeptCount(payload, n)
  BY <1>0
<1>3. \E m \in 0 .. Len(payload) : First(m, offset)
  <2> DEFINE R == {m \in Nat : offset <= KeptCount(payload, m)}
             m == Min(R)
  <2>1. R \in SUBSET Nat /\ n \in R
    BY <1>0, <1>2
  <2>2. m \in R /\ \A l \in R : m <= l
    <3> HIDE DEF R
    <3>q. QED
      BY <2>1, LeastOfNaturals
  <2> HIDE DEF m
  <2>3. m \in Nat /\ m <= n /\ offset <= KeptCount(payload, m)
    BY <2>1, <2>2
  <2>4. ASSUME NEW l \in 0 .. m - 1
        PROVE  l \in Nat /\ l <= n /\ KeptCount(payload, l) < offset
    <3>1. l \in Nat /\ l < m /\ ~(m <= l)
      BY <2>3
    <3>2. l \notin R
      BY <3>1, <2>2
    <3>3. ~(offset <= KeptCount(payload, l)) /\ KeptCount(payload, l) \in Nat
      BY <3>1, <3>2, KeptFinite
    <3>q. QED
      BY <3>1, <3>3, <2>3, <1>0, <1>2
  <2>5. KeptCount(payload, m) = offset
    <3>1. CASE m = 0
      BY <3>1, <2>3, <1>2, KeptStart
    <3>2. CASE m # 0
      <4> DEFINE l == m - 1
      <4>1. l \in Nat /\ l \in 0 .. m - 1 /\ l + 1 = m
        BY <3>2, <2>3
      <4> HIDE DEF l
      <4>2. /\ KeptCount(payload, l) < offset
            /\ KeptCount(payload, l) \in Nat
            /\ KeptCount(payload, m)
                   = IF l \in Skipped(payload) THEN KeptCount(payload, l)
                     ELSE KeptCount(payload, l) + 1
        BY <4>1, <2>4, KeptFinite, KeptNext
      <4>q. QED
        BY <4>2, <2>3, <1>2
    <3>q. QED
      BY <3>1, <3>2
  <2>6. First(m, offset)
    BY <2>3, <2>4, <2>5, <1>1
  <2>7. m \in 0 .. Len(payload)
    BY <2>3
  <2> HIDE DEF First
  <2>q. QED
    BY <2>6, <2>7
<1> DEFINE start == FirstPlace(offset)
<1>4. start \in 0 .. Len(payload) /\ First(start, offset)
  <2> HIDE DEF First
  <2>q. QED
    BY <1>3
<1> HIDE DEF FirstPlace
<1>5. start \in Nat /\ start <= n /\ transmitted \in Nat /\ start + transmitted <= n
      /\ start + transmitted \in Nat /\ start <= start + transmitted
  BY <1>0, <1>4
<1> HIDE DEF start
<1>6. KeptCount(payload, start) = offset
      /\ \A l \in 0 .. start - 1 : KeptCount(payload, l) < offset
  <2>1. Kept(start) = offset /\ \A l \in 0 .. start - 1 : Kept(l) < offset
    BY <1>4
  <2>2. \A l \in 0 .. start - 1 : l \in Nat /\ l <= n
    BY <1>0, <1>5
  <2>q. QED
    BY <2>1, <2>2, <1>1, <1>5
<1>7. offset + HeaderEpbs(offset) = start
  BY <1>2, <1>4, <1>6, HeaderEndsThere
<1> DEFINE between == {p \in Skipped(payload) :
                           p >= start /\ p - start < transmitted}
<1>8. EntryPoint(offset, transmitted) = transmitted - Cardinality(between)
  BY <1>7 DEF EntryPoint
<1>9. between = {p \in Below(E, start + transmitted) : p >= start}
  <2>1. \A p \in Skipped(payload) : p \in Int /\ 0 <= p
    BY <1>0 DEF Skipped
  <2>2. \A p \in Skipped(payload) :
            p >= start /\ p - start < transmitted
                <=> p \in 0 .. (start + transmitted) - 1 /\ p >= start
    BY <2>1, <1>5
  <2>q. QED
    BY <2>2 DEF Below
<1>10. Cardinality(between)
           = CountBelow(E, start + transmitted) - CountBelow(E, start)
  BY <1>5, <1>9, CountBetween
<1>11. /\ CountBelow(E, start) + KeptCount(payload, start) = start
       /\ CountBelow(E, start + transmitted)
            + KeptCount(payload, start + transmitted)
              = start + transmitted
  BY <1>5, SkippedOrKept
<1>12. /\ CountBelow(E, start) \in Nat
       /\ CountBelow(E, start + transmitted) \in Nat
       /\ KeptCount(payload, start + transmitted) \in Nat
  BY <1>5, CountFinite, KeptFinite
<1>13. EntryPoint(offset, transmitted)
           = KeptCount(payload, start + transmitted) - offset
  <2> DEFINE u == CountBelow(E, start)
             v == CountBelow(E, start + transmitted)
             w == KeptCount(payload, start + transmitted)
  <2> HIDE DEF between, E, u, v, w
  <2>1. EntryPoint(offset, transmitted) = transmitted - (v - u)
    BY <1>8, <1>10, Zenon DEF u, v
  <2>2. u + offset = start /\ v + w = start + transmitted
    BY <1>6, <1>11, Zenon DEF u, v, w
  <2>3. u \in Nat /\ v \in Nat /\ w \in Nat
    BY <1>12, Zenon DEF u, v, w
  <2>4. transmitted - (v - u) = w - offset
    BY ONLY <2>2, <2>3, <1>2, <1>5
  <2>q. QED
    BY <2>1, <2>4, Zenon DEF w
<1>14. Kept(start + transmitted) = KeptCount(payload, start + transmitted)
  BY <1>1, <1>5
<1>q. QED
  BY <1>13, <1>14 DEF start

\* Wherever emulation prevention bytes lie, a substream of the slice starts
\* at the stripped byte that the header's count of transmitted bytes means.
THEOREM SubstreamsStartRight == Spec => []EntryPointsRight
<1>1. IInv => EntryPointsRight
  <2>1. IInv => payload \in Seq(Nat)
    BY DEF IInv, Holds, TypeOK
  <2>q. QED
    BY <2>1, EntryPoints
<1>q. QED
  BY <1>1, InvAlways, PTL
====
