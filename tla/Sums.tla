-------------------------------- MODULE Sums --------------------------------
(***************************************************************************)
(* Facts about finite sums.  MapThenSumSet of the community modules is a   *)
(* recursive function on the subsets of a set; Sum(g, S) is that function  *)
(* with the summands in a function g, so that facts about it can be stated *)
(* once.  Sets are taken apart by the principle of the smallest subset     *)
(* with a property, as every strict subset of a finite set is smaller.     *)
(* Two facts about numbers and sequences that the proofs about several     *)
(* components need stand at the end.                                       *)
(***************************************************************************)
EXTENDS Integers, FiniteSets, Sequences, FiniteSetTheorems, SequenceTheorems, NaturalsInduction,
        WellFoundedInduction, TLAPS

Some(s) == CHOOSE x \in s : TRUE

\* h sums g over each subset of S, as MapThenFoldSet does.
Sums(h, g, S) ==
    h = [s \in SUBSET S |-> IF s = {} THEN 0 ELSE g[Some(s)] + h[s \ {Some(s)}]]

Sum(g, S) == (CHOOSE h : Sums(h, g, S))[S]

\* A set that is not empty has the element that is chosen from it.
LEMMA SomeIsIn == ASSUME NEW s, s # {} PROVE Some(s) \in s
    BY DEF Some

\* Of the subsets of a finite set with a property there is a smallest one.
LEMMA SmallestSubset ==
    ASSUME NEW S, IsFiniteSet(S), NEW T, T \subseteq SUBSET S, T # {}
    PROVE  \E s \in T : \A t \in T : t \subseteq s => t = s
<1>1. T \subseteq FiniteSubsetsOf(S)
    BY FS_Subset DEF FiniteSubsetsOf
<1>2. IsWellFoundedOn(StrictSubsetOrdering(S), FiniteSubsetsOf(S))
    BY FS_StrictSubsetOrderingWellFounded
<1>3. PICK s \in T : \A t \in T : ~(<<t, s>> \in StrictSubsetOrdering(S))
    BY <1>1, <1>2, WFMin
<1>4. QED
    BY <1>3 DEF StrictSubsetOrdering

\* Two ways to sum agree where their summands do.
LEMMA SumsAgree ==
    ASSUME NEW S, NEW U, NEW W, W \subseteq S, W \subseteq U, IsFiniteSet(W),
           NEW g, NEW k, \A x \in W : g[x] = k[x],
           NEW h, NEW i, Sums(h, g, S), Sums(i, k, U)
    PROVE  h[W] = i[W]
<1> DEFINE T == {s \in SUBSET W : h[s] # i[s]}
<1>1. ASSUME T # {} PROVE FALSE
  <2>0. T \subseteq SUBSET W
    OBVIOUS
  <2>1. PICK s \in T : \A t \in T : t \subseteq s => t = s
    <3> HIDE DEF T
    <3>1. QED
      BY <1>1, <2>0, SmallestSubset
  <2>2. s \in SUBSET S /\ s \in SUBSET U
    BY <2>1
  <2>3. CASE s = {}
    BY <2>1, <2>2, <2>3 DEF Sums
  <2>4. CASE s # {}
    <3>1. Some(s) \in s
      BY <2>4, SomeIsIn
    <3>2. s \ {Some(s)} \notin T
      BY <2>1, <3>1
    <3>3. h[s \ {Some(s)}] = i[s \ {Some(s)}]
      BY <2>1, <3>2
    <3>4. h[s] = g[Some(s)] + h[s \ {Some(s)}]
      BY <2>2, <2>4 DEF Sums
    <3>5. i[s] = k[Some(s)] + i[s \ {Some(s)}]
      BY <2>2, <2>4 DEF Sums
    <3>6. QED
      BY <2>1, <3>1, <3>3, <3>4, <3>5
  <2>5. QED
    BY <2>3, <2>4
<1>2. QED
    BY <1>1

\* The function that sums exists, for every finite set.
LEMMA SumsExist ==
    ASSUME NEW S, IsFiniteSet(S), NEW g
    PROVE  \E h : Sums(h, g, S)
<1> DEFINE T == {s \in SUBSET S : ~ \E h : Sums(h, g, s)}
           F(s) == CHOOSE h : Sums(h, g, s)
<1>1. ASSUME T # {} PROVE FALSE
  <2>0. T \subseteq SUBSET S
    OBVIOUS
  <2>1. PICK u \in T : \A t \in T : t \subseteq u => t = u
    <3> HIDE DEF T
    <3>1. QED
      BY <1>1, <2>0, SmallestSubset
  <2>2. ASSUME NEW v \in SUBSET u, v # u PROVE Sums(F(v), g, v)
    <3>1. v \notin T /\ v \in SUBSET S
      BY <2>1, <2>2
    <3>2. \E h : Sums(h, g, v)
      BY <3>1
    <3>3. QED
      BY <3>2
  <2> HIDE DEF F
  <2> DEFINE H == [s \in SUBSET u |-> IF s = {} THEN 0
                                      ELSE g[Some(s)] + F(s \ {Some(s)})[s \ {Some(s)}]]
  <2>3. ASSUME NEW s \in SUBSET u, s # u PROVE H[s] = F(s)[s]
    <3>1. F(s) = [r \in SUBSET s |-> IF r = {} THEN 0
                                     ELSE g[Some(r)] + F(s)[r \ {Some(r)}]]
      BY <2>2, <2>3 DEF Sums
    <3>2. CASE s = {}
      BY <3>1, <3>2
    <3>3. CASE s # {}
      <4> DEFINE r == s \ {Some(s)}
      <4>1. Some(s) \in s
        BY <3>3, SomeIsIn
      <4>2. r \in SUBSET u /\ r # u /\ r \subseteq s
        BY <4>1
      <4>3. Sums(F(r), g, r) /\ Sums(F(s), g, s)
        BY <2>2, <2>3, <4>2
      <4>4. IsFiniteSet(r)
        BY <2>1, <4>2, FS_Subset
      <4>5. F(r)[r] = F(s)[r]
        BY <4>2, <4>3, <4>4, SumsAgree
      <4>6. F(s)[s] = g[Some(s)] + F(s)[r]
        BY <3>1, <3>3
      <4>7. H[s] = g[Some(s)] + F(r)[r]
        BY <3>3
      <4>8. QED
        BY <4>5, <4>6, <4>7
    <3>4. QED
      BY <3>2, <3>3
  <2>4. ASSUME NEW s \in SUBSET u
        PROVE  H[s] = IF s = {} THEN 0 ELSE g[Some(s)] + H[s \ {Some(s)}]
    <3>1. CASE s = {}
      BY <3>1
    <3>2. CASE s # {}
      <4>1. Some(s) \in s
        BY <3>2, SomeIsIn
      <4>2. s \ {Some(s)} \in SUBSET u /\ s \ {Some(s)} # u
        BY <4>1
      <4>3. H[s \ {Some(s)}] = F(s \ {Some(s)})[s \ {Some(s)}]
        BY <2>3, <4>2
      <4>4. QED
        BY <3>2, <4>3
    <3>3. QED
      BY <3>1, <3>2
  <2>5. Sums(H, g, u)
    BY <2>4 DEF Sums
  <2>6. QED
    BY <2>1, <2>5
<1>2. QED
    BY <1>1

\* A way to sum over S gives the sum of every subset.
LEMMA SumIs ==
    ASSUME NEW S, IsFiniteSet(S), NEW g, NEW h, Sums(h, g, S), NEW W, W \subseteq S
    PROVE  h[W] = Sum(g, W)
<1>1. IsFiniteSet(W)
    BY FS_Subset
<1> DEFINE i == CHOOSE i : Sums(i, g, W)
<1>2. Sums(i, g, W)
    BY <1>1, SumsExist
<1>3. Sum(g, W) = i[W]
    BY DEF Sum
<1> HIDE DEF i
<1>4. h[W] = i[W]
    BY <1>1, <1>2, SumsAgree
<1>5. QED
    BY <1>3, <1>4

\* The sum over nothing, and the sum of the others with the one that is chosen.
LEMMA SumStep ==
    ASSUME NEW S, IsFiniteSet(S), NEW g
    PROVE  Sum(g, S) = IF S = {} THEN 0 ELSE g[Some(S)] + Sum(g, S \ {Some(S)})
<1>1. PICK h : Sums(h, g, S)
    BY SumsExist
<1>2. h[S] = Sum(g, S) /\ h[S \ {Some(S)}] = Sum(g, S \ {Some(S)})
    BY <1>1, SumIs
<1>3. h[S] = IF S = {} THEN 0 ELSE g[Some(S)] + h[S \ {Some(S)}]
    BY <1>1 DEF Sums
<1>4. QED
    BY <1>2, <1>3

\* Only the summands count.
LEMMA SumSame ==
    ASSUME NEW S, IsFiniteSet(S), NEW g, NEW k, \A x \in S : g[x] = k[x]
    PROVE  Sum(g, S) = Sum(k, S)
<1>1. PICK h : Sums(h, g, S)
    BY SumsExist
<1>2. PICK i : Sums(i, k, S)
    BY SumsExist
<1>3. \A x \in S : g[x] = k[x]
    OBVIOUS
<1>4. h[S] = i[S]
    BY <1>1, <1>2, <1>3, SumsAgree, Z3
<1>5. QED
    BY <1>1, <1>2, <1>4, SumIs

\* Numbers that are not negative add up to one, and zeros to zero.
LEMMA SumType ==
    ASSUME NEW S, IsFiniteSet(S), NEW g, \A x \in S : g[x] \in Nat
    PROVE  /\ Sum(g, S) \in Nat
           /\ (\A x \in S : g[x] = 0) => Sum(g, S) = 0
<1> DEFINE Good(s) == /\ Sum(g, s) \in Nat
                      /\ (\A x \in s : g[x] = 0) => Sum(g, s) = 0
           T == {s \in SUBSET S : ~Good(s)}
<1>1. ASSUME T # {} PROVE FALSE
  <2>0. T \subseteq SUBSET S
    OBVIOUS
  <2>1. PICK s \in T : \A t \in T : t \subseteq s => t = s
    <3> HIDE DEF T
    <3>1. QED
      BY <1>1, <2>0, SmallestSubset
  <2>2. IsFiniteSet(s)
    BY <2>1, FS_Subset
  <2>3. Sum(g, s) = IF s = {} THEN 0 ELSE g[Some(s)] + Sum(g, s \ {Some(s)})
    BY <2>2, SumStep
  <2>4. s # {} => Some(s) \in s
    BY SomeIsIn
  <2>5. s # {} => Good(s \ {Some(s)})
    BY <2>1, <2>4
  <2>6. QED
    BY <2>1, <2>3, <2>4, <2>5
<1>2. QED
    BY <1>1

\* Larger summands make a larger sum.
LEMMA SumGrows ==
    ASSUME NEW S, IsFiniteSet(S), NEW g, NEW k,
           \A x \in S : g[x] \in Nat /\ k[x] \in Nat /\ g[x] <= k[x]
    PROVE  Sum(g, S) <= Sum(k, S)
<1> DEFINE T == {s \in SUBSET S : ~(Sum(g, s) <= Sum(k, s))}
<1>1. ASSUME T # {} PROVE FALSE
  <2>0. T \subseteq SUBSET S
    OBVIOUS
  <2>1. PICK s \in T : \A t \in T : t \subseteq s => t = s
    <3> HIDE DEF T
    <3>1. QED
      BY <1>1, <2>0, SmallestSubset
  <2>2. IsFiniteSet(s)
    BY <2>1, FS_Subset
  <2> DEFINE r == s \ {Some(s)}
  <2>3. /\ Sum(g, s) = IF s = {} THEN 0 ELSE g[Some(s)] + Sum(g, r)
        /\ Sum(k, s) = IF s = {} THEN 0 ELSE k[Some(s)] + Sum(k, r)
    BY <2>2, SumStep
  <2>4. s # {}
    BY <2>1, <2>3
  <2>5. Some(s) \in s /\ Some(s) \in S
    BY <2>1, <2>4, SomeIsIn
  <2>6. r \in SUBSET S /\ IsFiniteSet(r) /\ r \subseteq s /\ r # s
    BY <2>1, <2>2, <2>5, FS_Subset
  <2>7. r \notin T
    BY <2>1, <2>6
  <2>8. Sum(g, r) \in Nat /\ Sum(k, r) \in Nat
    <3> HIDE DEF r
    <3>1. QED
      BY <2>6, SumType
  <2>9. Sum(g, r) <= Sum(k, r)
    BY <2>6, <2>7
  <2> HIDE DEF r
  <2>10. QED
    BY <2>1, <2>3, <2>4, <2>5, <2>8, <2>9
<1>2. QED
    BY <1>1

\* Any summand may be taken out first.
LEMMA SumTake ==
    ASSUME NEW S, IsFiniteSet(S), NEW g, \A x \in S : g[x] \in Nat, NEW y \in S
    PROVE  Sum(g, S) = g[y] + Sum(g, S \ {y})
<1> DEFINE Takes(s) == \A x \in s : Sum(g, s) = g[x] + Sum(g, s \ {x})
           T == {s \in SUBSET S : ~Takes(s)}
<1>1. ASSUME T # {} PROVE FALSE
  <2>0. T \subseteq SUBSET S
    OBVIOUS
  <2>1. PICK s \in T : \A t \in T : t \subseteq s => t = s
    <3> HIDE DEF T
    <3>1. QED
      BY <1>1, <2>0, SmallestSubset
  <2>2. PICK x \in s : Sum(g, s) # g[x] + Sum(g, s \ {x})
    BY <2>1
  <2> DEFINE z == Some(s)
             r == (s \ {z}) \ {x}
  <2>3. s \in SUBSET S /\ IsFiniteSet(s) /\ s # {}
    BY <2>1, <2>2, FS_Subset
  <2>4. Sum(g, s) = g[z] + Sum(g, s \ {z})
    BY <2>3, SumStep
  <2>5. z # x
    BY <2>2, <2>4
  <2>6. z \in s
    BY <2>3, SomeIsIn
  <2>7. s \ {z} \notin T /\ s \ {x} \notin T
    BY <2>1, <2>2, <2>6
  <2>8. Takes(s \ {z}) /\ Takes(s \ {x})
    BY <2>3, <2>7
  <2>9. Sum(g, s \ {z}) = g[x] + Sum(g, r)
    BY <2>2, <2>5, <2>8
  <2>10. (s \ {x}) \ {z} = r
    OBVIOUS
  <2>11. Sum(g, s \ {x}) = g[z] + Sum(g, r)
    BY <2>5, <2>6, <2>8, <2>10
  <2>12. r \subseteq S /\ IsFiniteSet(r)
    BY <2>3, FS_Subset
  <2>13. Sum(g, r) \in Nat
    <3> HIDE DEF r
    <3>1. QED
      BY <2>12, SumType
  <2>14. g[x] \in Nat /\ g[z] \in Nat
    BY <2>2, <2>3, <2>6
  <2> HIDE DEF r, z
  <2>15. QED
    BY <2>2, <2>4, <2>9, <2>11, <2>13, <2>14
<1>2. Takes(S)
    BY <1>1
<1>3. QED
    BY <1>2

\* A sum changes by what one of its summands does.
LEMMA SumChange ==
    ASSUME NEW S, IsFiniteSet(S), NEW g, NEW k, NEW y \in S,
           \A x \in S : g[x] \in Nat /\ k[x] \in Nat,
           \A x \in S \ {y} : g[x] = k[x]
    PROVE  Sum(k, S) + g[y] = Sum(g, S) + k[y]
<1>1. IsFiniteSet(S \ {y})
    BY FS_Subset
<1>2. Sum(g, S \ {y}) = Sum(k, S \ {y})
    BY <1>1, SumSame
<1>3. Sum(g, S \ {y}) \in Nat
    BY <1>1, SumType
<1>4. Sum(g, S) = g[y] + Sum(g, S \ {y}) /\ Sum(k, S) = k[y] + Sum(k, S \ {y})
    BY SumTake
<1>5. g[y] \in Nat /\ k[y] \in Nat
    OBVIOUS
<1>6. QED
    BY <1>2, <1>3, <1>4, <1>5

\* The sum of one number.
LEMMA SumOne ==
    ASSUME NEW g, NEW x, g[x] \in Nat
    PROVE  Sum(g, {x}) = g[x]
<1>1. IsFiniteSet({x}) /\ IsFiniteSet({})
    BY FS_Singleton, FS_EmptySet
<1>2. Sum(g, {x}) = g[x] + Sum(g, {x} \ {x})
    BY <1>1, SumTake
<1>3. Sum(g, {}) = 0
    BY <1>1, SumStep
<1>4. {x} \ {x} = {}
    OBVIOUS
<1>5. QED
    BY <1>2, <1>3, <1>4

\* The sum of two numbers.
LEMMA SumTwo ==
    ASSUME NEW g, NEW x, NEW y, x # y, g[x] \in Nat, g[y] \in Nat
    PROVE  Sum(g, {x, y}) = g[x] + g[y]
<1>1. IsFiniteSet({x, y})
  <2>1. IsFiniteSet({x} \cup {y}) /\ {x} \cup {y} = {x, y}
    BY FS_Singleton, FS_Union
  <2>2. QED
    BY <2>1
<1>2. Sum(g, {x, y}) = g[x] + Sum(g, {x, y} \ {x})
    BY <1>1, SumTake
<1>3. {x, y} \ {x} = {y}
    OBVIOUS
<1>4. Sum(g, {y}) = g[y]
    BY SumOne
<1>5. QED
    BY <1>2, <1>3, <1>4

\* Sums over sets that do not meet add up to the sum over both.
LEMMA SumUnion ==
    ASSUME NEW S, IsFiniteSet(S), NEW W, IsFiniteSet(W), S \cap W = {},
           NEW g, \A x \in S \cup W : g[x] \in Nat
    PROVE  Sum(g, S \cup W) = Sum(g, S) + Sum(g, W)
<1> DEFINE Adds(s) == Sum(g, S \cup s) = Sum(g, S) + Sum(g, s)
           T == {s \in SUBSET W : ~Adds(s)}
<1>1. ASSUME T # {} PROVE FALSE
  <2>0. T \subseteq SUBSET W
    OBVIOUS
  <2>1. PICK s \in T : \A t \in T : t \subseteq s => t = s
    <3> HIDE DEF T
    <3>1. QED
      BY <1>1, <2>0, SmallestSubset
  <2>2. s \in SUBSET W /\ IsFiniteSet(s) /\ IsFiniteSet(S \cup s)
    BY <2>1, FS_Subset, FS_Union
  <2>3. Sum(g, S) \in Nat
    BY SumType
  <2>4. CASE s = {}
    <3>1. Sum(g, s) = 0
      BY <2>2, <2>4, SumStep
    <3>2. S \cup s = S
      BY <2>4
    <3>3. Sum(g, S \cup s) = Sum(g, S)
      BY <3>2
    <3>4. Adds(s)
      BY <2>3, <3>1, <3>3
    <3>5. QED
      BY <2>1, <3>4
  <2>5. CASE s # {}
    <3> DEFINE x == Some(s)
               r == s \ {x}
    <3>1. x \in s
      BY <2>5, SomeIsIn
    <3>2. r \in SUBSET W /\ r \subseteq s /\ r # s /\ (S \cup s) \ {x} = S \cup r
      BY <2>2, <3>1
    <3>3. Adds(r)
      BY <2>1, <3>2
    <3>4. Sum(g, s) = g[x] + Sum(g, r)
      BY <2>2, <2>5, SumStep
    <3>5. Sum(g, S \cup s) = g[x] + Sum(g, (S \cup s) \ {x})
      <4>1. x \in S \cup s /\ \A y \in S \cup s : g[y] \in Nat
        BY <2>2, <3>1
      <4> HIDE DEF x, r
      <4>2. QED
        BY <2>2, <4>1, SumTake
    <3>6. g[x] \in Nat /\ Sum(g, r) \in Nat
      <4>1. IsFiniteSet(r) /\ (\A y \in r : g[y] \in Nat) /\ g[x] \in Nat
        BY <2>2, <3>1, <3>2, FS_Subset
      <4> HIDE DEF x, r
      <4>2. QED
        BY <4>1, SumType
    <3>7. Adds(s)
      <4> DEFINE u == S \cup s
                 v == S \cup r
      <4>1. u \ {x} = v
        BY <3>2
      <4> HIDE DEF u, v, x, r
      <4>2. Sum(g, v) = Sum(g, S) + Sum(g, r)
        BY <3>3 DEF v
      <4>3. Sum(g, u) = g[x] + Sum(g, v)
        BY <3>5, <4>1 DEF u
      <4>4. Sum(g, u) = Sum(g, S) + Sum(g, s)
        BY <2>3, <3>4, <3>6, <4>2, <4>3
      <4>5. QED
        BY <4>4 DEF u
    <3>8. QED
      BY <2>1, <3>7
  <2>6. QED
    BY <2>4, <2>5
<1>2. Adds(W)
    BY <1>1
<1>3. QED
    BY <1>2

----------------------------------------------------------------------------
\* A set of numbers has a least one.
LEMMA LeastNumber ==
    ASSUME NEW T, T \subseteq Nat, T # {}
    PROVE  \E n \in T : \A m \in T : n <= m
<1>1. PICK n \in T : \A m \in T : ~(<<m, n>> \in OpToRel(<, Nat))
    BY NatLessThanWellFounded, WFMin
<1>2. \A m \in T : ~(m < n)
    BY <1>1 DEF OpToRel
<1>3. QED
    BY <1>2

\* A sequence without its i-th element.
Without(s, i) == SubSeq(s, 1, i - 1) \o SubSeq(s, i + 1, Len(s))

LEMMA WithoutIs ==
    ASSUME NEW S, NEW s \in Seq(S), NEW i \in 1 .. Len(s)
    PROVE  /\ Without(s, i) \in Seq(S) /\ Len(Without(s, i)) = Len(s) - 1
           /\ \A k \in 1 .. Len(s) - 1 : Without(s, i)[k] = s[IF k < i THEN k ELSE k + 1]
<1> DEFINE a == SubSeq(s, 1, i - 1)
           b == SubSeq(s, i + 1, Len(s))
<1>1. Len(s) \in Nat /\ i \in Nat /\ i >= 1 /\ i <= Len(s)
    BY LenProperties
<1>2. a \in Seq(S) /\ Len(a) = i - 1 /\ \A k \in 1 .. i - 1 : a[k] = s[k]
    BY <1>1, SubSeqProperties, SMTT(30)
<1>3. b \in Seq(S) /\ Len(b) = Len(s) - i /\ \A k \in 1 .. Len(s) - i : b[k] = s[i + k]
    BY <1>1, SubSeqProperties, SMTT(30)
<1>4. Without(s, i) = a \o b
    BY DEF Without
<1> HIDE DEF a, b
<1>5. a \o b \in Seq(S) /\ Len(a \o b) = Len(s) - 1
  <2>1. a \o b \in Seq(S) /\ Len(a \o b) = Len(a) + Len(b)
    BY <1>2, <1>3, ConcatProperties
  <2>2. QED
    BY <2>1, <1>1, <1>2, <1>3
<1>6. ASSUME NEW k \in 1 .. Len(s) - 1 PROVE (a \o b)[k] = s[IF k < i THEN k ELSE k + 1]
  <2>1. k \in 1 .. Len(a) + Len(b)
    BY <1>1, <1>2, <1>3
  <2>2. (a \o b)[k] = IF k <= Len(a) THEN a[k] ELSE b[k - Len(a)]
    BY <2>1, <1>2, <1>3, ConcatProperties
  <2> HIDE DEF a, b
  <2>0. k \in Int /\ k >= 1 /\ k <= Len(s) - 1
    BY <1>1
  <2>3. CASE k < i
    <3>1. k <= Len(a) /\ k \in 1 .. i - 1
      BY <2>0, <2>3, <1>1, <1>2
    <3>2. QED
      BY <3>1, <2>2, <2>3, <1>2
  <2>4. CASE ~(k < i)
    <3>1. k - (i - 1) \in 1 .. Len(s) - i /\ i + (k - (i - 1)) = k + 1
      BY <2>0, <2>4, <1>1
    <3>2. ~(k <= Len(a)) /\ k - Len(a) = k - (i - 1) /\ ~(k < i)
      BY <2>0, <2>4, <1>1, <1>2
    <3>3. QED
      BY <3>1, <3>2, <2>2, <1>3
  <2>5. QED
    BY <2>3, <2>4
<1>7. QED
    BY <1>4, <1>5, <1>6
=============================================================================
