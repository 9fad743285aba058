------------------------------ MODULE SetSums ------------------------------
(***************************************************************************)
(* Facts about the sum of a function over a finite set, for every set: the *)
(* MapThenSumSet of the models.  It is a fold, that is a recursive         *)
(* function over the subsets of the set.  Each fact is proved by taking a  *)
(* least subset that contradicts it, which exists because the strict       *)
(* subset order of a finite set is well-founded.  The same is done for the *)
(* FoldLeft of the models, which takes positions from the first to the     *)
(* last; and the facts about division that such proofs need.               *)
(***************************************************************************)
EXTENDS Integers, FiniteSetsExt, FiniteSetTheorems, TLAPS

\* The sum of e over S.
SumOver(e, S) == MapThenSumSet(LAMBDA i : e[i], S)

\* The element that the fold takes first.
Chosen(S) == CHOOSE i \in S : TRUE

\* g gives the sum of e over each subset of S.
IsSum(g, e, S) ==
    g = [s \in SUBSET S |-> IF s = {} THEN 0 ELSE e[Chosen(s)] + g[s \ {Chosen(s)}]]

\* Among subsets of a finite set one is least: this is what the inductions
\* below rest on.
LEMMA SmallestSubset ==
    ASSUME NEW S, IsFiniteSet(S), NEW T, T \subseteq SUBSET S, T # {}
    PROVE  \E s \in T : \A r \in T : r \subseteq s => r = s
<1>1. IsWellFoundedOn(StrictSubsetOrdering(S), SUBSET S)
  BY FS_StrictSubsetOrderingWellFounded, FS_FiniteSubsetsOfFinite
<1>2. PICK s \in T : \A r \in T : ~(<<r, s>> \in StrictSubsetOrdering(S))
  BY <1>1, WFMin
<1>q. QED
  BY <1>2 DEF StrictSubsetOrdering

\* The sum is the last value of the function that takes one element away at
\* each step.
LEMMA SumAsFunction ==
    ASSUME NEW e, NEW S
    PROVE  SumOver(e, S) = (CHOOSE g : IsSum(g, e, S))[S]
  BY DEF SumOver, MapThenSumSet, MapThenFoldSet, IsSum, Chosen

\* Such a function is 0 at the empty set and grows by the chosen element.
LEMMA SumPoint ==
    ASSUME NEW S, NEW e, NEW g, IsSum(g, e, S), NEW s \in SUBSET S
    PROVE  /\ s = {} => g[s] = 0
           /\ s # {} => /\ Chosen(s) \in s
                        /\ s \ {Chosen(s)} \in SUBSET S
                        /\ s \ {Chosen(s)} # s
                        /\ g[s] = e[Chosen(s)] + g[s \ {Chosen(s)}]
<1>1. g[s] = IF s = {} THEN 0 ELSE e[Chosen(s)] + g[s \ {Chosen(s)}]
  BY DEF IsSum
<1>2. s # {} => Chosen(s) \in s
  BY DEF Chosen
<1>q. QED
  BY <1>1, <1>2

\* There is at most one such function.
LEMMA SumUnique ==
    ASSUME NEW S, IsFiniteSet(S), NEW e,
           NEW g, IsSum(g, e, S), NEW h, IsSum(h, e, S)
    PROVE  \A s \in SUBSET S : g[s] = h[s]
<1> DEFINE T == {s \in SUBSET S : g[s] # h[s]}
<1> SUFFICES ASSUME T # {} PROVE FALSE
  OBVIOUS
<1>0. T \subseteq SUBSET S
  OBVIOUS
<1>1. PICK s \in T : \A r \in T : r \subseteq s => r = s
  <2> HIDE DEF T
  <2>q. QED
    BY <1>0, SmallestSubset
<1>2. s # {}
  BY ZenonT(60), SumPoint
<1>3. s \ {Chosen(s)} \notin T
  BY <1>1, <1>2, SumPoint
<1>q. QED
  BY <1>2, <1>3, SumPoint

\* Such a function on a set is one on each of its subsets.
LEMMA SumRestricts ==
    ASSUME NEW S, NEW e, NEW g, IsSum(g, e, S), NEW r \in SUBSET S
    PROVE  IsSum([t \in SUBSET r |-> g[t]], e, r)
<1> DEFINE h == [t \in SUBSET r |-> g[t]]
<1>1. ASSUME NEW t \in SUBSET r
      PROVE  h[t] = IF t = {} THEN 0 ELSE e[Chosen(t)] + h[t \ {Chosen(t)}]
  <2>1. t \in SUBSET S /\ h[t] = g[t]
    OBVIOUS
  <2>2. t # {} => h[t \ {Chosen(t)}] = g[t \ {Chosen(t)}]
    OBVIOUS
  <2>3. CASE t = {}
    <3> HIDE DEF h
    <3>1. h[t] = 0
      BY <2>1, <2>3, SumPoint
    <3>q. QED
      BY <3>1, <2>3
  <2>4. CASE t # {}
    <3>1. h[t] = e[Chosen(t)] + h[t \ {Chosen(t)}]
      <4> HIDE DEF h
      <4>1. g[t] = e[Chosen(t)] + g[t \ {Chosen(t)}]
        BY <2>1, <2>4, SumPoint
      <4>q. QED
        BY <2>1, <2>2, <2>4, <4>1, Zenon
    <3> HIDE DEF h
    <3>q. QED
      BY <3>1, <2>4
  <2>q. QED
    BY <2>3, <2>4
<1>2. h = [t \in SUBSET r |-> h[t]]
  OBVIOUS
<1> HIDE DEF h
<1>3. IsSum(h, e, r)
  BY <1>1, <1>2 DEF IsSum
<1>q. QED
  BY <1>3 DEF h

\* There is such a function on every finite set.
LEMMA SumExists ==
    ASSUME NEW S, IsFiniteSet(S), NEW e
    PROVE  \E g : IsSum(g, e, S)
<1> DEFINE T == {s \in SUBSET S : ~ \E g : IsSum(g, e, s)}
<1> SUFFICES ASSUME T # {} PROVE FALSE
  OBVIOUS
<1>0. T \subseteq SUBSET S
  OBVIOUS
<1>1. PICK s \in T : \A r \in T : r \subseteq s => r = s
  <2> HIDE DEF T
  <2>q. QED
    BY <1>0, SmallestSubset
<1> DEFINE Value(r) == (CHOOSE g : IsSum(g, e, r))[r]
           G == [r \in SUBSET s |->
                    IF r = {} THEN 0 ELSE e[Chosen(r)] + Value(r \ {Chosen(r)})]
<1>2. ASSUME NEW q \in SUBSET s, q # s
      PROVE  G[q] = Value(q)
  <2> DEFINE f == CHOOSE g : IsSum(g, e, q)
             p == q \ {Chosen(q)}
             h == CHOOSE g : IsSum(g, e, p)
  <2>1. IsSum(f, e, q) /\ IsFiniteSet(q)
    <3>1. \E g : IsSum(g, e, q)
      BY <1>1, <1>2
    <3>q. QED
      BY <3>1, <1>1, FS_Subset
  <2>2. CASE q = {}
    BY <2>1, <2>2, SumPoint
  <2>3. CASE q # {}
    <3>1. p \in SUBSET q /\ p # s /\ p \in SUBSET s
      BY <1>2, <2>3 DEF Chosen
    <3>2. IsSum(h, e, p) /\ IsFiniteSet(p)
      <4>1. \E g : IsSum(g, e, p)
        BY <1>1, <3>1
      <4>q. QED
        BY <4>1, <1>1, <3>1, FS_Subset
    <3>3. IsSum([t \in SUBSET p |-> f[t]], e, p)
      BY <2>1, <3>1, SumRestricts
    <3> HIDE DEF p, h, f
    <3>4. [t \in SUBSET p |-> f[t]][p] = h[p]
      BY <3>2, <3>3, SumUnique
    <3>5. f[p] = h[p]
      BY <3>4
    <3>6. f[q] = e[Chosen(q)] + f[p]
      BY <2>1, <2>3, SumPoint DEF p
    <3>q. QED
      BY <3>5, <3>6, <2>3 DEF p, h, f
  <2>q. QED
    BY <2>2, <2>3
<1>3. ASSUME NEW r \in SUBSET s
      PROVE  G[r] = IF r = {} THEN 0 ELSE e[Chosen(r)] + G[r \ {Chosen(r)}]
  <2>1. CASE r = {}
    BY <2>1
  <2>2. CASE r # {}
    <3>1. r \ {Chosen(r)} \in SUBSET s /\ r \ {Chosen(r)} # s
      BY <2>2 DEF Chosen
    <3>2. G[r \ {Chosen(r)}] = Value(r \ {Chosen(r)})
      BY <1>2, <3>1
    <3>q. QED
      BY <3>2, <2>2
  <2>q. QED
    BY <2>1, <2>2
<1>4. G = [r \in SUBSET s |-> G[r]]
  OBVIOUS
<1> HIDE DEF G
<1>5. IsSum(G, e, s)
  BY <1>3, <1>4 DEF IsSum
<1>q. QED
  BY <1>5

\* The sum over a finite set is that of its chosen element and of the rest.
LEMMA SumUnfolds ==
    ASSUME NEW S, IsFiniteSet(S), NEW e
    PROVE  /\ S = {} => SumOver(e, S) = 0
           /\ S # {} => /\ Chosen(S) \in S
                        /\ SumOver(e, S) = e[Chosen(S)] + SumOver(e, S \ {Chosen(S)})
<1> DEFINE f == CHOOSE g : IsSum(g, e, S)
           p == S \ {Chosen(S)}
           h == CHOOSE g : IsSum(g, e, p)
<1>1. IsFiniteSet(p)
  BY FS_RemoveElement
<1>2. IsSum(f, e, S) /\ IsSum(h, e, p)
  <2>1. \E g : IsSum(g, e, S)
    BY SumExists
  <2>2. \E g : IsSum(g, e, p)
    BY <1>1, SumExists
  <2>q. QED
    BY <2>1, <2>2
<1>3. IsSum([t \in SUBSET p |-> f[t]], e, p)
  BY ZenonT(60), <1>2, SumRestricts
<1>4. SumOver(e, S) = f[S] /\ SumOver(e, p) = h[p]
  BY SumAsFunction
<1> HIDE DEF f, h, p
<1>5. [t \in SUBSET p |-> f[t]][p] = h[p]
  BY <1>1, <1>2, <1>3, SumUnique
<1>6. f[p] = h[p]
  BY <1>5
<1>q. QED
  BY <1>2, <1>4, <1>6, SumPoint DEF p

\* A sum of natural numbers is one.
LEMMA SumNatural ==
    ASSUME NEW S, IsFiniteSet(S), NEW e, \A i \in S : e[i] \in Nat
    PROVE  SumOver(e, S) \in Nat
<1> DEFINE T == {s \in SUBSET S : SumOver(e, s) \notin Nat}
<1> SUFFICES ASSUME T # {} PROVE FALSE
  OBVIOUS
<1>0. T \subseteq SUBSET S
  OBVIOUS
<1>1. PICK s \in T : \A r \in T : r \subseteq s => r = s
  <2> HIDE DEF T
  <2>q. QED
    BY <1>0, SmallestSubset
<1>2. IsFiniteSet(s) /\ s \in SUBSET S /\ SumOver(e, s) \notin Nat
  BY <1>0, FS_Subset
<1>3. s # {}
  <2>1. s = {} => SumOver(e, s) = 0
    BY <1>2, SumUnfolds
  <2> HIDE DEF T
  <2>q. QED
    BY <2>1, <1>2
<1>4. Chosen(s) \in s /\ SumOver(e, s) = e[Chosen(s)] + SumOver(e, s \ {Chosen(s)})
  BY <1>2, <1>3, SumUnfolds
<1>5. SumOver(e, s \ {Chosen(s)}) \in Nat
  BY <1>1, <1>4
<1>q. QED
  BY <1>4, <1>5

\* Any element may be taken out of a sum first.
LEMMA SumTakesOut ==
    ASSUME NEW S, IsFiniteSet(S), NEW e, \A i \in S : e[i] \in Nat, NEW x \in S
    PROVE  SumOver(e, S) = e[x] + SumOver(e, S \ {x})
<1> DEFINE T == {s \in SUBSET S : \E y \in s : SumOver(e, s) # e[y] + SumOver(e, s \ {y})}
<1> SUFFICES ASSUME T # {} PROVE FALSE
  OBVIOUS
<1>0. T \subseteq SUBSET S
  OBVIOUS
<1>1. PICK s \in T : \A r \in T : r \subseteq s => r = s
  <2> HIDE DEF T
  <2>q. QED
    BY <1>0, SmallestSubset
<1>2. PICK y \in s : SumOver(e, s) # e[y] + SumOver(e, s \ {y})
  OBVIOUS
<1> DEFINE k == Chosen(s)
<1>3. /\ IsFiniteSet(s) /\ IsFiniteSet(s \ {k}) /\ IsFiniteSet(s \ {y})
      /\ IsFiniteSet((s \ {k}) \ {y})
  BY <1>0, FS_Subset, FS_RemoveElement
<1>4. k \in s /\ SumOver(e, s) = e[k] + SumOver(e, s \ {k})
  BY <1>2, <1>3, SumUnfolds
<1>5. k # y
  BY <1>2, <1>4
<1>6. SumOver(e, s \ {k}) = e[y] + SumOver(e, (s \ {k}) \ {y})
  <2>1. s \ {k} \in SUBSET S /\ s \ {k} # s /\ y \in s \ {k}
    BY <1>0, <1>4, <1>5
  <2>q. QED
    BY <1>1, <2>1
<1>7. SumOver(e, s \ {y}) = e[k] + SumOver(e, (s \ {y}) \ {k})
  <2>1. s \ {y} \in SUBSET S /\ s \ {y} # s /\ k \in s \ {y}
    BY <1>0, <1>4, <1>5, <1>2
  <2>q. QED
    BY <1>1, <2>1
<1>8. (s \ {y}) \ {k} = (s \ {k}) \ {y}
  OBVIOUS
<1>9. SumOver(e, (s \ {k}) \ {y}) \in Nat /\ e[k] \in Nat /\ e[y] \in Nat
  <2>1. s \in SUBSET S
    BY <1>0
  <2>2. \A i \in (s \ {k}) \ {y} : e[i] \in Nat
    BY <2>1
  <2>q. QED
    BY <1>3, <1>4, <2>1, <2>2, SumNatural
<1> HIDE DEF k, T
<1>10. SumOver(e, s) = e[k] + (e[y] + SumOver(e, (s \ {k}) \ {y}))
  BY <1>4, <1>6, Zenon
<1>11. SumOver(e, s \ {y}) = e[k] + SumOver(e, (s \ {k}) \ {y})
  BY <1>7, <1>8, Zenon
<1>q. QED
  BY <1>2, <1>9, <1>10, <1>11

\* The sum depends on nothing but the values at the elements of the set.
LEMMA SumAgrees ==
    ASSUME NEW S, IsFiniteSet(S), NEW e, NEW f, \A i \in S : e[i] = f[i]
    PROVE  SumOver(e, S) = SumOver(f, S)
<1> DEFINE T == {s \in SUBSET S : SumOver(e, s) # SumOver(f, s)}
<1> SUFFICES ASSUME T # {} PROVE FALSE
  OBVIOUS
<1>0. T \subseteq SUBSET S
  OBVIOUS
<1>1. PICK s \in T : \A r \in T : r \subseteq s => r = s
  <2> HIDE DEF T
  <2>q. QED
    BY <1>0, SmallestSubset
<1>2. IsFiniteSet(s) /\ s \in SUBSET S
  BY <1>0, FS_Subset
<1>3. s # {}
  BY <1>2, SumUnfolds
<1>4. Chosen(s) \in s /\ SumOver(e, s) = e[Chosen(s)] + SumOver(e, s \ {Chosen(s)})
  BY <1>2, <1>3, SumUnfolds
<1>5. SumOver(f, s) = f[Chosen(s)] + SumOver(f, s \ {Chosen(s)})
  BY <1>2, <1>3, SumUnfolds
<1>6. SumOver(e, s \ {Chosen(s)}) = SumOver(f, s \ {Chosen(s)})
  BY <1>1, <1>2, <1>4
<1>7. e[Chosen(s)] = f[Chosen(s)]
  BY <1>2, <1>4
<1>q. QED
  BY <1>4, <1>5, <1>6, <1>7

\* A sum over more elements is no smaller.
LEMMA SumGrows ==
    ASSUME NEW S, IsFiniteSet(S), NEW e, \A i \in S : e[i] \in Nat, NEW r \in SUBSET S
    PROVE  SumOver(e, r) <= SumOver(e, S)
<1> DEFINE T == {s \in SUBSET S : r \subseteq s /\ ~(SumOver(e, r) <= SumOver(e, s))}
<1> SUFFICES ASSUME T # {} PROVE FALSE
  OBVIOUS
<1>0. T \subseteq SUBSET S
  OBVIOUS
<1>1. PICK s \in T : \A q \in T : q \subseteq s => q = s
  <2> HIDE DEF T
  <2>q. QED
    BY <1>0, SmallestSubset
<1>2. IsFiniteSet(s) /\ s \in SUBSET S /\ r \subseteq s /\ ~(SumOver(e, r) <= SumOver(e, s))
  BY <1>0, FS_Subset
<1>3. \A q \in SUBSET S : SumOver(e, q) \in Nat
  BY FS_Subset, SumNatural
<1>4. r # s
  BY <1>2, <1>3
<1>5. PICK x \in s : x \notin r
  BY <1>2, <1>4
<1>6. SumOver(e, s) = e[x] + SumOver(e, s \ {x})
  BY <1>2, SumTakesOut
<1>7. SumOver(e, r) <= SumOver(e, s \ {x})
  BY <1>1, <1>2, <1>5
<1>8. /\ SumOver(e, r) \in Nat /\ SumOver(e, s) \in Nat /\ SumOver(e, s \ {x}) \in Nat
      /\ e[x] \in Nat
  BY <1>2, <1>3
<1>q. QED
  BY <1>2, <1>6, <1>7, <1>8

\* Min of natural numbers is one of them, and none of them is less.
LEMMA LeastOfNaturals ==
    ASSUME NEW S \in SUBSET Nat, S # {}
    PROVE  Min(S) \in S /\ \A y \in S : Min(S) <= y
<1>1. PICK x \in S : \A y \in S : ~(<<y, x>> \in OpToRel(<, Nat))
  BY NatLessThanWellFounded, WFMin
<1>2. ASSUME NEW y \in S PROVE x <= y
  <2>1. y < x => <<y, x>> \in OpToRel(<, Nat)
    <3>1. <<y, x>> \in Nat \X Nat /\ <<y, x>>[1] = y /\ <<y, x>>[2] = x
      OBVIOUS
    <3>q. QED
      BY <3>1, Zenon DEF OpToRel
  <2>2. ~(y < x)
    BY <1>1, <2>1, Zenon
  <2>3. x \in Nat /\ y \in Nat
    OBVIOUS
  <2>q. QED
    BY <2>2, <2>3
<1>q. QED
  BY <1>2 DEF Min

\* Max of two numbers is at least either of them.
LEMMA GreaterOfTwo ==
    ASSUME NEW m \in Nat, NEW n \in Nat
    PROVE  Max({m, n}) \in Nat /\ m <= Max({m, n}) /\ n <= Max({m, n})
<1>1. \E x \in {m, n} : \A y \in {m, n} : x >= y
  OBVIOUS
<1>q. QED
  BY <1>1 DEF Max

(***************************************************************************)
(* Natural numbers, division and ranges.                                   *)
(***************************************************************************)
\* Division by a positive number gives a natural number.
LEMMA DivNatural ==
    ASSUME NEW a \in Nat, NEW b \in Nat \ {0}
    PROVE  a \div b \in Nat
  OBVIOUS

\* A product of natural numbers is one.
LEMMA ProductNatural ==
    ASSUME NEW a \in Nat, NEW b \in Nat
    PROVE  a * b \in Nat
  OBVIOUS

\* Products distribute over sums and grow with their factors.
LEMMA Distributes ==
    ASSUME NEW a \in Int, NEW b \in Int, NEW c \in Int
    PROVE  /\ a * (b + c) = a * b + a * c
           /\ (a + b) * c = a * c + b * c
           /\ a * (b - c) = a * b - a * c
           /\ a * b = b * a
           /\ (a * b) * c = a * (b * c)
           /\ a * b \in Int
  OBVIOUS

\* Products grow with their factors.
LEMMA ProductGrows ==
    ASSUME NEW a \in Nat, NEW b \in Nat, NEW c \in Nat, a <= b
    PROVE  a * c <= b * c /\ c * a <= c * b
  OBVIOUS

\* The quotient is the only one that leaves a remainder smaller than the
\* divisor.
LEMMA DivUnique ==
    ASSUME NEW x \in Int, NEW a \in Nat \ {0}, NEW q \in Int,
           a * q <= x, x < a * q + a
    PROVE  x \div a = q
  OBVIOUS

\* A quotient leaves a remainder that is smaller than the divisor.
LEMMA DivBounds ==
    ASSUME NEW x \in Int, NEW a \in Nat \ {0}
    PROVE  x \div a \in Int /\ a * (x \div a) <= x /\ x < a * (x \div a) + a
  OBVIOUS

\* A number is its quotient and its remainder,
LEMMA Splits ==
    ASSUME NEW x \in Nat, NEW a \in Nat \ {0}
    PROVE  x \div a \in Nat /\ x % a \in 0 .. a - 1 /\ x = a * (x \div a) + (x % a)
<1>1. x \div a \in Nat
  BY DivNatural
<1>q. QED
  BY <1>1

\* and these are the only ones.
LEMMA Joins ==
    ASSUME NEW q \in Nat, NEW a \in Nat \ {0}, NEW r \in 0 .. a - 1
    PROVE  (q * a + r) \div a = q /\ (q * a + r) % a = r
<1> DEFINE x == q * a + r
           d == x \div a
<1>1. x \in Nat /\ q * a \in Nat /\ a * q = q * a
  BY ProductNatural, Distributes
<1>2. d = q
  <2>1. a * q <= x /\ x < a * q + a /\ x \in Int /\ q \in Int
    BY <1>1
  <2> HIDE DEF x
  <2>q. QED
    BY <2>1, DivUnique
<1>3. x = a * d + (x % a) /\ x % a \in Int
  BY <1>1, Splits
<1>4. x = a * q + r
  BY <1>1
<1> HIDE DEF x, d
<1>5. x % a = r
  BY <1>1, <1>2, <1>3, <1>4
<1>q. QED
  BY <1>2, <1>5 DEF x, d

\* In a tile of even width a pixel is as even as in the image.
LEMMA EvenTile ==
    ASSUME NEW x \in Nat, NEW w \in Nat \ {0}, NEW h \in Nat, w = 2 * h
    PROVE  x % 2 = (x % w) % 2
<1> DEFINE q == x \div w
           u == x % w
           c == u \div 2
           d == u % 2
<1>1. q \in Nat /\ u \in 0 .. w - 1 /\ x = w * q + u
  BY Splits
<1>2. u \in Nat
  BY <1>1
<1> HIDE DEF q, u
<1>3. c \in Nat /\ d \in 0 .. 1 /\ u = 2 * c + d
  BY <1>2
<1>4. w * q = 2 * (h * q) /\ h * q \in Nat
  BY <1>1, Distributes, ProductNatural
<1> HIDE DEF c, d
<1> DEFINE a == h * q
<1>5. x = 2 * (a + c) + d /\ a \in Nat
  BY <1>1, <1>2, <1>3, <1>4
<1> HIDE DEF a
<1>6. x % 2 = d
  BY <1>3, <1>5
<1>q. QED
  BY <1>6 DEF d, u

\* A range that begins at c + w.
LEMMA ShiftedRange ==
    ASSUME NEW c \in Nat, NEW w \in Nat, NEW r \in Nat
    PROVE  (c + w) .. ((c + w) + r - 1) = {c + (w + d) : d \in 0 .. r - 1}
<1>1. ASSUME NEW z \in (c + w) .. ((c + w) + r - 1)
      PROVE  z \in {c + (w + d) : d \in 0 .. r - 1}
  <2>1. z - (c + w) \in 0 .. r - 1 /\ z = c + (w + (z - (c + w)))
    OBVIOUS
  <2>q. QED
    BY <2>1
<1>2. ASSUME NEW d \in 0 .. r - 1
      PROVE  c + (w + d) \in (c + w) .. ((c + w) + r - 1)
  OBVIOUS
<1>q. QED
  BY <1>1, <1>2

\* What holds of no member and of each next member holds of all.
LEMMA Climb ==
    ASSUME NEW n \in Nat, NEW S, 0 \in S,
           \A k \in 0 .. n : k < n /\ k \in S => k + 1 \in S
    PROVE  \A k \in 0 .. n : k \in S
<1> DEFINE T == {k \in 0 .. n : k \notin S}
<1> SUFFICES ASSUME T # {} PROVE FALSE
  OBVIOUS
<1>1. T \in SUBSET Nat
  OBVIOUS
<1> DEFINE m == Min(T)
<1>2. m \in T /\ \A k \in T : m <= k
  <2> HIDE DEF T
  <2>q. QED
    BY <1>1, LeastOfNaturals
<1> HIDE DEF m
<1>3. m \in 0 .. n /\ m \notin S /\ m # 0
  BY <1>2
<1>4. m - 1 \in 0 .. n /\ m - 1 < n /\ m - 1 \notin T /\ (m - 1) + 1 = m
  BY <1>2, <1>3
<1>q. QED
  BY <1>3, <1>4

\* A set of positions has a greatest one.
LEMMA GreatestPosition ==
    ASSUME NEW c \in Nat, NEW S \in SUBSET (1 .. c), S # {}
    PROVE  \E k \in S : \A n \in S : n <= k
<1> DEFINE U == {u \in Nat : \A n \in S : n <= u}
<1>1. c \in U
  OBVIOUS
<1>2. U \in SUBSET Nat /\ U # {}
  BY <1>1
<1>3. PICK u \in U : \A v \in U : u <= v
  BY <1>2, LeastOfNaturals
<1>4. u \in Nat /\ \A n \in S : n <= u
  OBVIOUS
<1>5. u \in S
  <2> SUFFICES ASSUME u \notin S PROVE FALSE
    OBVIOUS
  <2>1. PICK m \in S : TRUE
    OBVIOUS
  <2>2. m \in Nat /\ m >= 1 /\ m <= u
    BY <1>4
  <2>3. u - 1 \in Nat
    BY <1>4, <2>2
  <2>4. ASSUME NEW n \in S PROVE n <= u - 1
    BY <1>4
  <2>5. u - 1 \in U
    BY <2>3, <2>4
  <2>6. u <= u - 1
    BY <1>3, <2>5
  <2>q. QED
    BY <1>4, <2>6
<1>q. QED
  BY <1>4, <1>5

(***************************************************************************)
(* Folds over positions, from the first to the last.                       *)
(***************************************************************************)
Top(s) == CHOOSE x \in s : \A y \in s : x >= y

\* A set of positions has a last one.
LEMMA TopIsLast ==
    ASSUME NEW n \in Nat, NEW s \in SUBSET (1 .. n), s # {}
    PROVE  Top(s) \in s /\ \A y \in s : Top(s) >= y
<1> DEFINE T == {n - y : y \in s}
<1>1. T \in SUBSET Nat /\ T # {}
  <2>1. \A y \in s : n - y \in Nat
    OBVIOUS
  <2>q. QED
    BY <2>1
<1> HIDE DEF T
<1>2. Min(T) \in T /\ \A z \in T : Min(T) <= z
  BY <1>1, LeastOfNaturals
<1> USE DEF T
<1>3. PICK x \in s : Min(T) = n - x
  BY <1>2
<1>4. ASSUME NEW y \in s PROVE x >= y
  <2>1. n - y \in T
    OBVIOUS
  <2> HIDE DEF T
  <2>2. n - x <= n - y
    BY <1>2, <1>3, <2>1, Zenon
  <2>q. QED
    BY <2>2
<1>5. \E z \in s : \A y \in s : z >= y
  BY <1>4
<1>q. QED
  BY <1>5 DEF Top

\* Sets whose parts all have a last position.
HasTops(S) == \A s \in SUBSET S : s # {} => Top(s) \in s

\* g goes through the subsets of S, adding their last position to the others.
IsFold(g, step, start, S) ==
    g = [s \in SUBSET S |-> IF s = {} THEN start
                            ELSE step[<< g[s \ {Top(s)}], Top(s) >>]]

\* The value of such a function at the empty set and at any other.
LEMMA FoldPoint ==
    ASSUME NEW S, IsFiniteSet(S), HasTops(S), NEW step, NEW start, NEW g,
           IsFold(g, step, start, S), NEW s \in SUBSET S
    PROVE  /\ s = {} => g[s] = start
           /\ s # {} => /\ Top(s) \in s
                        /\ s \ {Top(s)} \in SUBSET S
                        /\ s \ {Top(s)} # s
                        /\ g[s] = step[<< g[s \ {Top(s)}], Top(s) >>]
<1>1. g[s] = IF s = {} THEN start ELSE step[<< g[s \ {Top(s)}], Top(s) >>]
  BY DEF IsFold
<1>2. s # {} => Top(s) \in s
  BY DEF HasTops
<1>q. QED
  BY <1>1, <1>2

\* There is at most one such function.
LEMMA FoldUnique ==
    ASSUME NEW S, IsFiniteSet(S), HasTops(S), NEW step, NEW start,
           NEW g, IsFold(g, step, start, S), NEW h, IsFold(h, step, start, S)
    PROVE  \A s \in SUBSET S : g[s] = h[s]
<1> DEFINE T == {s \in SUBSET S : g[s] # h[s]}
<1> SUFFICES ASSUME T # {} PROVE FALSE
  OBVIOUS
<1>0. T \subseteq SUBSET S
  OBVIOUS
<1>1. PICK s \in T : \A r \in T : r \subseteq s => r = s
  <2> HIDE DEF T
  <2>q. QED
    BY <1>0, SmallestSubset
<1>g. /\ g[s] = IF s = {} THEN start ELSE step[<< g[s \ {Top(s)}], Top(s) >>]
      /\ h[s] = IF s = {} THEN start ELSE step[<< h[s \ {Top(s)}], Top(s) >>]
  BY DEF IsFold
<1>2. s # {} /\ s \in SUBSET S /\ g[s] # h[s]
  BY <1>g
<1>3. Top(s) \in s
  BY <1>2 DEF HasTops
<1>4. s \ {Top(s)} \in SUBSET S /\ s \ {Top(s)} # s
  BY <1>2, <1>3
<1>5. s \ {Top(s)} \notin T
  <2>1. s \ {Top(s)} \subseteq s
    OBVIOUS
  <2> HIDE DEF T
  <2>q. QED
    BY ONLY <1>1, <1>4, <2>1
<1>6. g[s \ {Top(s)}] = h[s \ {Top(s)}]
  BY <1>4, <1>5
<1>q. QED
  BY <1>2, <1>6, <1>g

\* Such a function on a set is one on each of its subsets.
LEMMA FoldRestricts ==
    ASSUME NEW S, NEW step, NEW start, NEW g, IsFold(g, step, start, S),
           NEW r \in SUBSET S
    PROVE  IsFold([t \in SUBSET r |-> g[t]], step, start, r)
<1> DEFINE h == [t \in SUBSET r |-> g[t]]
<1>1. ASSUME NEW t \in SUBSET r
      PROVE  h[t] = IF t = {} THEN start ELSE step[<< h[t \ {Top(t)}], Top(t) >>]
  <2>1. t \in SUBSET S /\ h[t] = g[t] /\ h[t \ {Top(t)}] = g[t \ {Top(t)}]
    OBVIOUS
  <2>2. g[t] = IF t = {} THEN start ELSE step[<< g[t \ {Top(t)}], Top(t) >>]
    BY <2>1 DEF IsFold
  <2> HIDE DEF h
  <2>q. QED
    BY <2>1, <2>2, Zenon
<1>2. h = [t \in SUBSET r |-> h[t]]
  OBVIOUS
<1> HIDE DEF h
<1>3. IsFold(h, step, start, r)
  BY <1>1, <1>2 DEF IsFold
<1>q. QED
  BY <1>3 DEF h

\* There is such a function, by a least subset that has none.
LEMMA FoldExists ==
    ASSUME NEW S, IsFiniteSet(S), HasTops(S), NEW step, NEW start
    PROVE  \E g : IsFold(g, step, start, S)
<1> DEFINE T == {s \in SUBSET S : ~ \E g : IsFold(g, step, start, s)}
<1> SUFFICES ASSUME T # {} PROVE FALSE
  OBVIOUS
<1>0. T \subseteq SUBSET S
  OBVIOUS
<1>1. PICK s \in T : \A r \in T : r \subseteq s => r = s
  <2> HIDE DEF T
  <2>q. QED
    BY <1>0, SmallestSubset
<1> DEFINE Value(r) == (CHOOSE g : IsFold(g, step, start, r))[r]
           G == [r \in SUBSET s |->
                    IF r = {} THEN start
                    ELSE step[<< Value(r \ {Top(r)}), Top(r) >>]]
<1>2. ASSUME NEW q \in SUBSET s, q # s
      PROVE  G[q] = Value(q)
  <2> DEFINE f == CHOOSE g : IsFold(g, step, start, q)
             p == q \ {Top(q)}
             h == CHOOSE g : IsFold(g, step, start, p)
  <2>0. q \in SUBSET S /\ IsFiniteSet(q) /\ HasTops(q)
    BY <1>0, FS_Subset DEF HasTops
  <2>1. IsFold(f, step, start, q)
    <3>1. \E g : IsFold(g, step, start, q)
      BY <1>1, <1>2
    <3>q. QED
      BY <3>1
  <2>2. CASE q = {}
    <3>1. f[q] = start
      <4> HIDE DEF f
      <4>1. f[q] = IF q = {} THEN start ELSE step[<< f[q \ {Top(q)}], Top(q) >>]
        BY <2>1 DEF IsFold
      <4>q. QED
        BY <4>1, <2>2
    <3>q. QED
      BY <3>1, <2>2
  <2>3. CASE q # {}
    <3>0. Top(q) \in q
      BY <2>0, <2>3 DEF HasTops
    <3>1. p \in SUBSET q /\ p # s /\ p \in SUBSET s
      BY <1>2, <2>0, <3>0
    <3>8. IsFiniteSet(p) /\ HasTops(p)
      BY <2>0, <3>1, FS_Subset DEF HasTops
    <3>2. IsFold(h, step, start, p)
      <4>1. \E g : IsFold(g, step, start, p)
        BY <1>1, <3>1
      <4>q. QED
        BY <4>1
    <3>9. p \in SUBSET q
      BY <3>1
    <3> HIDE DEF p, h, f
    <3>3. IsFold([t \in SUBSET p |-> f[t]], step, start, p)
      BY ONLY <2>1, <3>9, FoldRestricts
    <3>4. [t \in SUBSET p |-> f[t]][p] = h[p]
      BY <3>8, <3>2, <3>3, FoldUnique
    <3>5. f[p] = h[p]
      BY <3>4
    <3>6. f[q] = step[<< f[p], Top(q) >>]
      BY <2>0, <2>1, <2>3, FoldPoint DEF p
    <3>q. QED
      BY <3>5, <3>6, <2>3 DEF p, h, f
  <2>q. QED
    BY <2>2, <2>3
<1>3. ASSUME NEW r \in SUBSET s
      PROVE  G[r] = IF r = {} THEN start ELSE step[<< G[r \ {Top(r)}], Top(r) >>]
  <2>1. CASE r = {}
    BY <2>1
  <2>2. CASE r # {}
    <3>1. r \ {Top(r)} \in SUBSET s /\ r \ {Top(r)} # s
      <4>1. r \in SUBSET S
        BY <1>0
      <4>q. QED
        BY <4>1, <2>2 DEF HasTops
    <3>2. G[r \ {Top(r)}] = Value(r \ {Top(r)})
      BY <1>2, <3>1
    <3>q. QED
      BY <3>2, <2>2
  <2>q. QED
    BY <2>1, <2>2
<1>4. G = [r \in SUBSET s |-> G[r]]
  OBVIOUS
<1> HIDE DEF G
<1>5. IsFold(G, step, start, s)
  BY <1>3, <1>4 DEF IsFold
<1>q. QED
  BY <1>5

\* The positions of a sequence, and the last of each initial part of them.
LEMMA PositionTops ==
    ASSUME NEW n \in Nat
    PROVE  /\ IsFiniteSet(1 .. n) /\ HasTops(1 .. n)
           /\ \A k \in 1 .. n : /\ Top(1 .. k) = k
                               /\ (1 .. k) \ {k} = 1 .. k - 1
                               /\ 1 .. k \in SUBSET (1 .. n) /\ 1 .. k # {}
<1>1. IsFiniteSet(1 .. n)
  <2>1. 1 \in Int /\ n \in Int
    OBVIOUS
  <2>q. QED
    BY <2>1, FS_Interval
<1>2. HasTops(1 .. n)
  BY TopIsLast DEF HasTops
<1>3. ASSUME NEW k \in 1 .. n
      PROVE  /\ Top(1 .. k) = k
             /\ (1 .. k) \ {k} = 1 .. k - 1
             /\ 1 .. k \in SUBSET (1 .. n) /\ 1 .. k # {}
  <2>1. 1 .. k \in SUBSET (1 .. n) /\ 1 .. k # {} /\ k \in 1 .. k
    OBVIOUS
  <2>2. Top(1 .. k) \in 1 .. k /\ Top(1 .. k) >= k
    BY <2>1, TopIsLast
  <2>q. QED
    BY <2>1, <2>2
<1>q. QED
  BY <1>1, <1>2, <1>3

\* A fold whose steps stay in a set has its values there.
LEMMA FoldTyped ==
    ASSUME NEW n \in Nat, NEW States, NEW start \in States,
           NEW step \in [States \X (1 .. n) -> States],
           NEW g, IsFold(g, step, start, 1 .. n)
    PROVE  \A s \in SUBSET (1 .. n) : g[s] \in States
<1> DEFINE D == 1 .. n
           T == {s \in SUBSET D : g[s] \notin States}
<1>0. IsFiniteSet(D) /\ HasTops(D)
  BY PositionTops
<1> SUFFICES ASSUME T # {} PROVE FALSE
  OBVIOUS
<1>1. T \subseteq SUBSET D
  OBVIOUS
<1>s. T # {}
  OBVIOUS
<1>2. PICK s \in T : \A r \in T : r \subseteq s => r = s
  <2> HIDE DEF T, D
  <2>q. QED
    BY ONLY <1>0, <1>1, <1>s, SmallestSubset
<1>3. s \in SUBSET D /\ g[s] \notin States
  BY <1>2
<1>4. g[s] = IF s = {} THEN start ELSE step[<< g[s \ {Top(s)}], Top(s) >>]
  BY <1>3 DEF IsFold
<1>5. s # {}
  BY <1>3, <1>4
<1>6. Top(s) \in s /\ s \ {Top(s)} \in SUBSET D
  BY <1>0, <1>3, <1>5 DEF HasTops
<1>7. s \ {Top(s)} \notin T
  BY <1>2, <1>6
<1> DEFINE before == g[s \ {Top(s)}]
<1>8. before \in States /\ Top(s) \in D
  BY <1>3, <1>6, <1>7
<1>9. step[<< before, Top(s) >>] \in States
  <2> HIDE DEF before
  <2>q. QED
    BY <1>8
<1>q. QED
  BY <1>3, <1>4, <1>5, <1>9

(***************************************************************************)
(* Sums of the first of many numbers.                                      *)
(***************************************************************************)
Upto(e, n) == SumOver(e, 1 .. n)

\* They are taken up member by member and do not shrink.
LEMMA UptoFacts ==
    ASSUME NEW c \in Nat, NEW e, \A k \in 1 .. c : e[k] \in Nat
    PROVE  /\ Upto(e, 0) = 0
           /\ \A n \in 0 .. c : Upto(e, n) \in Nat
           /\ \A n \in 1 .. c : Upto(e, n) = Upto(e, n - 1) + e[n]
           /\ \A n \in 0 .. c : \A m \in 0 .. n : Upto(e, m) <= Upto(e, n)
<1>1. ASSUME NEW n \in 0 .. c
      PROVE  IsFiniteSet(1 .. n) /\ \A k \in 1 .. n : e[k] \in Nat
  <2>1. 1 \in Int /\ n \in Int
    OBVIOUS
  <2>2. IsFiniteSet(1 .. n)
    BY <2>1, FS_Interval
  <2>q. QED
    BY <2>2
<1>2. Upto(e, 0) = 0
  <2>1. 1 .. 0 = {} /\ IsFiniteSet(1 .. 0)
    BY <1>1
  <2>q. QED
    BY <2>1, SumUnfolds DEF Upto
<1>3. \A n \in 0 .. c : Upto(e, n) \in Nat
  BY <1>1, SumNatural DEF Upto
<1>4. ASSUME NEW n \in 1 .. c
      PROVE  Upto(e, n) = Upto(e, n - 1) + e[n]
  <2>1. n \in 1 .. n /\ n \in 0 .. c /\ n - 1 \in 0 .. c /\ (1 .. n) \ {n} = 1 .. n - 1
    OBVIOUS
  <2>2. SumOver(e, 1 .. n) = e[n] + SumOver(e, (1 .. n) \ {n})
    BY <1>1, <2>1, SumTakesOut
  <2>3. Upto(e, n) = e[n] + Upto(e, n - 1)
    BY <2>1, <2>2 DEF Upto
  <2>4. e[n] \in Nat /\ Upto(e, n - 1) \in Nat
    BY <1>3, <2>1
  <2>q. QED
    BY <2>3, <2>4
<1>5. ASSUME NEW n \in 0 .. c, NEW m \in 0 .. n
      PROVE  Upto(e, m) <= Upto(e, n)
  <2>1. 1 .. m \in SUBSET (1 .. n)
    OBVIOUS
  <2>2. SumOver(e, 1 .. m) <= SumOver(e, 1 .. n)
    BY <1>1, <2>1, SumGrows
  <2>q. QED
    BY <2>2 DEF Upto
<1>q. QED
  BY <1>2, <1>3, <1>4, <1>5

\* A factor of every member is one of the sum,
LEMMA UptoScales ==
    ASSUME NEW c \in Nat, NEW e, \A k \in 1 .. c : e[k] \in Nat, NEW h \in Nat,
           NEW f, \A k \in 1 .. c : f[k] = e[k] * h
    PROVE  \A n \in 0 .. c : Upto(f, n) = Upto(e, n) * h
<1> DEFINE S == {n \in Nat : Upto(f, n) = Upto(e, n) * h}
<1>1. /\ Upto(e, 0) = 0 /\ \A n \in 0 .. c : Upto(e, n) \in Nat
      /\ \A n \in 1 .. c : Upto(e, n) = Upto(e, n - 1) + e[n]
  BY UptoFacts
<1>2. /\ Upto(f, 0) = 0
      /\ \A n \in 1 .. c : Upto(f, n) = Upto(f, n - 1) + f[n]
  <2>1. \A k \in 1 .. c : f[k] \in Nat
    BY ProductNatural
  <2>q. QED
    BY <2>1, UptoFacts
<1>3. 0 \in S
  BY <1>1, <1>2
<1>4. ASSUME NEW n \in 0 .. c, n < c, n \in S
      PROVE  n + 1 \in S
  <2>1. n + 1 \in 1 .. c /\ (n + 1) - 1 = n /\ n + 1 \in Nat
    BY <1>4
  <2>2. /\ Upto(e, n + 1) = Upto(e, n) + e[n + 1] /\ Upto(e, n) \in Nat
        /\ Upto(f, n + 1) = Upto(f, n) + f[n + 1]
        /\ e[n + 1] \in Nat /\ f[n + 1] = e[n + 1] * h
    BY <1>1, <1>2, <2>1
  <2>3. (Upto(e, n) + e[n + 1]) * h = Upto(e, n) * h + e[n + 1] * h
    BY <2>2, Distributes
  <2>q. QED
    BY <1>4, <2>1, <2>2, <2>3
<1>5. \A n \in 0 .. c : n \in S
  <2> HIDE DEF S
  <2>q. QED
    BY <1>3, <1>4, Climb
<1>q. QED
  BY <1>5

\* Greater members have a greater sum.
LEMMA UptoBounds ==
    ASSUME NEW c \in Nat, NEW e, NEW f,
           \A k \in 1 .. c : e[k] \in Nat /\ f[k] \in Nat /\ e[k] <= f[k]
    PROVE  \A n \in 0 .. c : Upto(e, n) <= Upto(f, n)
<1> DEFINE S == {n \in Nat : Upto(e, n) <= Upto(f, n)}
<1>1. /\ Upto(e, 0) = 0 /\ \A n \in 0 .. c : Upto(e, n) \in Nat
      /\ \A n \in 1 .. c : Upto(e, n) = Upto(e, n - 1) + e[n]
  BY UptoFacts
<1>2. /\ Upto(f, 0) = 0 /\ \A n \in 0 .. c : Upto(f, n) \in Nat
      /\ \A n \in 1 .. c : Upto(f, n) = Upto(f, n - 1) + f[n]
  BY UptoFacts
<1>3. 0 \in S
  BY <1>1, <1>2
<1>4. ASSUME NEW n \in 0 .. c, n < c, n \in S
      PROVE  n + 1 \in S
  <2>1. n + 1 \in 1 .. c /\ (n + 1) - 1 = n /\ n + 1 \in Nat
    BY <1>4
  <2>2. /\ Upto(e, n + 1) = Upto(e, n) + e[n + 1] /\ Upto(e, n) \in Nat
        /\ Upto(f, n + 1) = Upto(f, n) + f[n + 1] /\ Upto(f, n) \in Nat
        /\ e[n + 1] \in Nat /\ f[n + 1] \in Nat /\ e[n + 1] <= f[n + 1]
    BY <1>1, <1>2, <2>1
  <2>3. Upto(e, n) <= Upto(f, n)
    BY <1>4
  <2>4. Upto(e, n + 1) <= Upto(f, n + 1)
    BY <2>2, <2>3
  <2>q. QED
    BY <2>1, <2>4
<1>5. \A n \in 0 .. c : n \in S
  <2> HIDE DEF S
  <2>q. QED
    BY <1>3, <1>4, Climb
<1>q. QED
  BY <1>5

\* Members that are equal have an equal sum.
LEMMA UptoAgrees ==
    ASSUME NEW c \in Nat, NEW e, NEW f, \A k \in 1 .. c : e[k] = f[k]
    PROVE  Upto(e, c) = Upto(f, c)
<1>1. IsFiniteSet(1 .. c)
  <2>1. 1 \in Int /\ c \in Int
    OBVIOUS
  <2>q. QED
    BY <2>1, FS_Interval
<1>q. QED
  BY <1>1, SumAgrees DEF Upto

\* Members that are zero add nothing.
LEMMA UptoZeros ==
    ASSUME NEW c \in Nat, NEW e, \A k \in 1 .. c : e[k] \in Nat,
           NEW n \in 0 .. c, NEW m \in 0 .. n, \A k \in m + 1 .. n : e[k] = 0
    PROVE  Upto(e, n) = Upto(e, m)
<1> DEFINE d == n - m
           S == {k \in Nat : Upto(e, m + k) = Upto(e, m)}
<1>0. d \in Nat /\ m \in Nat /\ m + d = n /\ n <= c
  OBVIOUS
<1>1. /\ \A k \in 1 .. c : Upto(e, k) = Upto(e, k - 1) + e[k]
      /\ \A k \in 0 .. c : Upto(e, k) \in Nat
  BY UptoFacts
<1>2. 0 \in S
  BY <1>0
<1>3. ASSUME NEW k \in 0 .. d, k < d, k \in S
      PROVE  k + 1 \in S
  <2> DEFINE j == m + (k + 1)
  <2>1. j \in 1 .. c /\ j - 1 = m + k /\ j \in m + 1 .. n /\ k + 1 \in Nat /\ m \in 0 .. c
    BY <1>0, <1>3
  <2> HIDE DEF j
  <2>2. Upto(e, j) = Upto(e, m + k) + e[j] /\ e[j] = 0
    BY <1>1, <2>1
  <2>3. Upto(e, m + k) = Upto(e, m) /\ Upto(e, m) \in Nat
    BY <1>1, <1>3, <2>1
  <2>4. Upto(e, j) = Upto(e, m)
    BY <2>2, <2>3
  <2>q. QED
    BY <2>1, <2>4 DEF j
<1>4. \A k \in 0 .. d : k \in S
  <2> HIDE DEF S, d
  <2>q. QED
    BY <1>0, <1>2, <1>3, Climb
<1>5. d \in S
  <2>1. d \in 0 .. d
    BY <1>0
  <2>q. QED
    BY <1>4, <2>1
<1>q. QED
  BY <1>0, <1>5

\* Sums are equal if they differ in two members that have an equal sum.
LEMMA UptoExchange ==
    ASSUME NEW c \in Nat, NEW e, NEW f, NEW a \in 1 .. c, NEW b \in 1 .. c, a # b,
           \A k \in 1 .. c : e[k] \in Nat /\ f[k] \in Nat,
           \A k \in 1 .. c : k # a /\ k # b => e[k] = f[k],
           e[a] + e[b] = f[a] + f[b]
    PROVE  Upto(e, c) = Upto(f, c)
<1> DEFINE S == 1 .. c
           T == S \ {a}
           U == T \ {b}
<1>1. IsFiniteSet(S)
  <2>1. 1 \in Int /\ c \in Int
    OBVIOUS
  <2>q. QED
    BY <2>1, FS_Interval
<1>2. /\ a \in S /\ b \in T
      /\ \A k \in S : e[k] \in Nat /\ f[k] \in Nat
      /\ \A k \in T : e[k] \in Nat /\ f[k] \in Nat
      /\ \A k \in U : e[k] \in Nat /\ f[k] \in Nat /\ e[k] = f[k]
  OBVIOUS
<1>3. Upto(e, c) = SumOver(e, S) /\ Upto(f, c) = SumOver(f, S)
  BY DEF Upto
<1> HIDE DEF S
<1>4. IsFiniteSet(T) /\ IsFiniteSet(U)
  BY <1>1, FS_RemoveElement
<1> HIDE DEF T, U
<1>5. SumOver(e, S) = e[a] + SumOver(e, T) /\ SumOver(f, S) = f[a] + SumOver(f, T)
  BY <1>1, <1>2, SumTakesOut DEF T
<1>6. SumOver(e, T) = e[b] + SumOver(e, U) /\ SumOver(f, T) = f[b] + SumOver(f, U)
  BY <1>2, <1>4, SumTakesOut DEF U
<1>7. SumOver(e, U) = SumOver(f, U)
  BY <1>2, <1>4, SumAgrees
<1>8. SumOver(e, U) \in Nat
  BY <1>2, <1>4, SumNatural
<1>9. e[a] \in Nat /\ e[b] \in Nat /\ f[a] \in Nat /\ f[b] \in Nat
  OBVIOUS
<1>q. QED
  BY <1>3, <1>5, <1>6, <1>7, <1>8, <1>9

\* A multiple of an alignment, also of zero.
IsMultiple(x, a) == \E q \in Nat : x = a * q

\* and multiples of a number have one of it as their sum.
LEMMA UptoMultiple ==
    ASSUME NEW c \in Nat, NEW e, NEW a \in Nat,
           \A k \in 1 .. c : IsMultiple(e[k], a)
    PROVE  \A n \in 0 .. c : IsMultiple(Upto(e, n), a)
<1> DEFINE S == {n \in Nat : IsMultiple(Upto(e, n), a)}
<1>1. /\ Upto(e, 0) = 0
      /\ \A n \in 1 .. c : Upto(e, n) = Upto(e, n - 1) + e[n]
  <2>1. \A k \in 1 .. c : e[k] \in Nat
    BY ProductNatural DEF IsMultiple
  <2>q. QED
    BY <2>1, UptoFacts
<1>2. 0 \in S
  <2>1. Upto(e, 0) = a * 0
    BY <1>1
  <2>q. QED
    BY <2>1 DEF IsMultiple
<1>3. ASSUME NEW n \in 0 .. c, n < c, n \in S
      PROVE  n + 1 \in S
  <2>1. n + 1 \in 1 .. c /\ (n + 1) - 1 = n /\ n + 1 \in Nat
    BY <1>3
  <2>2. PICK p \in Nat : Upto(e, n) = a * p
    BY <1>3 DEF IsMultiple
  <2>3. PICK q \in Nat : e[n + 1] = a * q
    BY <2>1 DEF IsMultiple
  <2>4. Upto(e, n + 1) = Upto(e, n) + e[n + 1]
    BY <1>1, <2>1
  <2>5. a * (p + q) = a * p + a * q /\ p + q \in Nat
    BY Distributes
  <2>6. Upto(e, n + 1) = a * (p + q)
    BY <2>2, <2>3, <2>4, <2>5
  <2>q. QED
    BY <2>1, <2>5, <2>6 DEF IsMultiple
<1>4. \A n \in 0 .. c : n \in S
  <2> HIDE DEF S
  <2>q. QED
    BY <1>2, <1>3, Climb
<1>q. QED
  BY <1>4
=============================================================================
